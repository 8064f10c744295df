------------------------------ MODULE Streams ------------------------------
(***************************************************************************)
(* The streams of the gRPC TodoHandler inside the process of Lifecycle:    *)
(* BulkCreateTodos (the client sends titles and is answered once at the    *)
(* end), SyncTodos (each message is answered by an event) and WatchTodos   *)
(* (the list is sent as events).  Nothing numbers messages or events: a    *)
(* client knows which is which by their order.  The token is validated     *)
(* when the stream opens and never again.                                  *)
(***************************************************************************)
EXTENDS Lifecycle, Naturals, Sequences

CONSTANTS
    MsgBound,   \* how many messages a client sends, or todos WatchTodos finds, at most
    Window      \* how many events may be under way before Send waits for the client

ASSUME BoundsAreNat == MsgBound \in Nat /\ Window \in Nat \ {0}

VARIABLES
    st,         \* st[s] is the state of stream s, the last one after it has ended
    present     \* the user the streams run as is still in table users

streamVars == <<vars, st, present>>

\* A message: a title to create, one that is blank, or an action other than CREATE.
Msg == {"create", "blank", "other"}

Stage == [kind : {"bulk", "sync", "watch"},
          client : {"sending", "closed", "gone"},   \* the client's side
          sent : UNION {[1 .. n -> Msg] : n \in 0 .. MsgBound},
          taken : 0 .. MsgBound,            \* messages that Recv has returned
          at : {"recv", "create", "sendCreated", "sendError", "sendTodo", "ended"},
          made : SUBSET (1 .. MsgBound),    \* messages whose todo the handler made
          unseen : SUBSET (1 .. MsgBound),  \* those whose INSERT was done, its reply lost
          found : 0 .. MsgBound,            \* todos that WatchTodos has to send
          events : UNION {[1 .. n -> {"CREATED", "ERROR", "TODO_SNAPSHOT"}] : n \in 0 .. MsgBound},
          got : 0 .. MsgBound,              \* events the client has received
          outcome : {"none", "ok", "error"}]

StreamsTypeOK ==
    /\ TypeOK
    /\ st \in [Stream -> Stage]
    /\ present \in BOOLEAN

Fresh(kind, found) ==
    [kind |-> kind, client |-> IF kind = "watch" THEN "closed" ELSE "sending",
     sent |-> <<>>, taken |-> 0, at |-> IF kind = "watch" THEN "sendTodo" ELSE "recv",
     made |-> {}, unseen |-> {}, found |-> found, events |-> <<>>, got |-> 0,
     outcome |-> "none"]

StreamsInit ==
    /\ Init
    /\ st = [s \in Stream |-> [Fresh("bulk", 0) EXCEPT !.at = "ended", !.client = "gone"]]
    /\ present = TRUE

-----------------------------------------------------------------------------
\* The interceptor validates the token only; the user it was given to is there at first,
\* and LoseUser right behind Open has the stream of one who is not.
Open(s) ==
    /\ OpenStream(s)
    /\ present
    /\ \/ \E kind \in {"bulk", "sync"} : st' = [st EXCEPT ![s] = Fresh(kind, 0)]
       \/ \E n \in 0 .. MsgBound : st' = [st EXCEPT ![s] = Fresh("watch", n)]
    /\ UNCHANGED present

\* The handler is at this point, and goes on without ending the stream.
At(s, at) == Running /\ s \in streams /\ st[s].at = at
Go(s, new) == st' = [st EXCEPT ![s] = new] /\ UNCHANGED <<vars, present>>

\* The handler returns, with what it has changed on its last steps.
End(s, new, outcome) ==
    /\ CloseStream(s)
    /\ st' = [st EXCEPT ![s] = [new EXCEPT !.at = "ended", !.outcome = outcome]]
    /\ UNCHANGED present

\* What the handler does with an error: BulkCreateTodos gives up, SyncTodos says so.
Refuse(s, new) ==
    IF st[s].kind = "bulk" THEN End(s, new, "error")
                           ELSE Go(s, [new EXCEPT !.at = "sendError"])

\* Mutant: a blank title is skipped, without an event.
RecvSkipsBlank(s) ==
    /\ At(s, "recv")
    /\ st[s].taken < Len(st[s].sent)
    /\ LET new == [st[s] EXCEPT !.taken = @ + 1]
       IN  CASE st[s].sent[new.taken] = "create" -> Go(s, [new EXCEPT !.at = "create"])
             [] st[s].sent[new.taken] = "blank" -> Go(s, new)
             [] OTHER -> Refuse(s, new)

\* stream.Recv returns the next message.
Recv(s) ==
    /\ At(s, "recv")
    /\ st[s].taken < Len(st[s].sent)
    /\ LET new == [st[s] EXCEPT !.taken = @ + 1]
       IN  IF st[s].sent[new.taken] = "create"
           THEN Go(s, [new EXCEPT !.at = "create"])
           ELSE Refuse(s, new)

\* stream.Recv returns io.EOF: SendAndClose, or nil.
RecvEOF(s) ==
    /\ At(s, "recv")
    /\ st[s].client = "closed"
    /\ st[s].taken = Len(st[s].sent)
    /\ End(s, st[s], "ok")

\* stream.Recv returns another error, messages not yet taken or not.
RecvFails(s) ==
    /\ At(s, "recv")
    /\ st[s].client = "gone"
    /\ End(s, st[s], "error")

\* service.Create; the foreign key asks for the user at every row.
Create(s) ==
    /\ At(s, "create")
    /\ present
    /\ Go(s, [st[s] EXCEPT !.made = @ \cup {st[s].taken},
                           !.at = IF st[s].kind = "bulk" THEN "recv" ELSE "sendCreated"])

\* Mutant: BulkCreateTodos goes on behind a failed Create.
CreateFailsSkipped(s) ==
    /\ At(s, "create")
    /\ ~present \/ "dbDown" \in Faults
    /\ IF st[s].kind = "bulk" THEN Go(s, [st[s] EXCEPT !.at = "recv"])
                              ELSE Refuse(s, st[s])

CreateFails(s) ==
    /\ At(s, "create")
    /\ ~present \/ "dbDown" \in Faults
    /\ Refuse(s, st[s])

\* The row is made and the reply of the statement lost.
CreateUnseen(s) ==
    /\ "lostReply" \in Faults
    /\ At(s, "create")
    /\ present
    /\ Refuse(s, [st[s] EXCEPT !.unseen = @ \cup {st[s].taken}])

\* stream.Send hands an event to the transport, which takes no more than it may have
\* under way.
Push(s, event) ==
    /\ Len(st[s].events) - st[s].got < Window
    /\ Go(s, [st[s] EXCEPT !.events = Append(@, event), !.at = "recv"])

Send(s) ==
    \/ At(s, "sendCreated") /\ Push(s, "CREATED")
    \/ At(s, "sendError") /\ Push(s, "ERROR")

\* Mutant: an event that could not be sent is sent again.
SendFailsRetried(s) ==
    /\ At(s, "sendCreated") \/ At(s, "sendError") \/ At(s, "sendTodo")
    /\ st[s].client = "gone"
    /\ Go(s, st[s])

\* stream.Send returns an error, a handler that waited for the window included.
SendFails(s) ==
    /\ At(s, "sendCreated") \/ At(s, "sendError") \/ At(s, "sendTodo")
    /\ st[s].client = "gone"
    /\ End(s, st[s], "error")

\* WatchTodos: one event for every todo of the list it was given at the start.
SendTodo(s) ==
    /\ At(s, "sendTodo")
    /\ \/ /\ Len(st[s].events) < st[s].found
          /\ Len(st[s].events) - st[s].got < Window
          /\ Go(s, [st[s] EXCEPT !.events = Append(@, "TODO_SNAPSHOT")])
       \/ /\ Len(st[s].events) = st[s].found
          /\ End(s, st[s], "ok")

-----------------------------------------------------------------------------
\* The client and the network.
ClientSends(s) ==
    /\ Running /\ s \in streams
    /\ st[s].client = "sending"
    /\ Len(st[s].sent) < MsgBound
    /\ \E m \in IF st[s].kind = "bulk" THEN Msg \ {"other"} ELSE Msg :
          Go(s, [st[s] EXCEPT !.sent = Append(@, m)])

ClientCloses(s) ==
    /\ Running /\ s \in streams
    /\ st[s].client = "sending"
    /\ Go(s, [st[s] EXCEPT !.client = "closed"])

\* The client cancels, or the connection breaks: events under way are lost.
ClientGone(s) ==
    /\ Running /\ s \in streams
    /\ st[s].client # "gone"
    /\ Go(s, [st[s] EXCEPT !.client = "gone"])

\* An event reaches the client, while the stream runs or behind its end.
Deliver(s) ==
    /\ Running
    /\ st[s].client # "gone"
    /\ st[s].got < Len(st[s].events)
    /\ Go(s, [st[s] EXCEPT !.got = @ + 1])

\* UserService.Delete in another request.
LoseUser ==
    /\ Running /\ present
    /\ present' = FALSE
    /\ UNCHANGED <<vars, st>>

-----------------------------------------------------------------------------
Handler(s) ==
    \/ Recv(s) \/ RecvEOF(s) \/ RecvFails(s)
    \/ Create(s) \/ CreateFails(s) \/ CreateUnseen(s)
    \/ Send(s) \/ SendFails(s) \/ SendTodo(s)

\* A handler panics at any point, and the process ends where it stands.
HandlerPanics(s) == StreamPanics(s) /\ UNCHANGED <<st, present>>

StreamsNext ==
    \/ ProcessStep /\ UNCHANGED <<st, present>>
    \/ LoseUser
    \/ \E s \in Stream :
          \/ Open(s) \/ Handler(s) \/ HandlerPanics(s)
          \/ ClientSends(s) \/ ClientCloses(s) \/ ClientGone(s) \/ Deliver(s)

StreamsSpec == StreamsInit /\ [][StreamsNext]_streamVars

\* The goroutines of the process and the handlers that can go on are scheduled; no
\* client has to close or to read its stream.
StreamsFairness ==
    /\ WF_streamVars(MainStep /\ UNCHANGED <<st, present>>)
    /\ WF_streamVars(HTTPStep /\ UNCHANGED <<st, present>>)
    /\ WF_streamVars(GRPCStep /\ UNCHANGED <<st, present>>)
    /\ \A c \in Call : WF_streamVars(FinishCall(c) /\ UNCHANGED <<st, present>>)
    /\ \A s \in Stream : WF_streamVars(Handler(s))

FairStreams == StreamsSpec /\ StreamsFairness

-----------------------------------------------------------------------------
(***************************************************************************)
(* Properties                                                              *)
(***************************************************************************)

\* BulkCreateTodos makes the todos of its messages in their order and leaves none out:
\* an answer of OK means all of them, and whatever ends it before leaves those
\* before the message it stopped at, and that one too if its reply was lost.
BulkMakesAPrefix ==
    \A s \in Stream : st[s].kind = "bulk" =>
        /\ \E n \in 0 .. MsgBound : st[s].made = 1 .. n
        /\ st[s].unseen \subseteq {st[s].taken}
        /\ st[s].outcome = "ok" => st[s].made = DOMAIN st[s].sent /\ st[s].unseen = {}

\* The k-th event of SyncTodos answers the client's k-th message: it says CREATED
\* exactly if the todo was made, but for a lost reply.  One message at a time is
\* ahead of its event, so a client that loses the stream leaves Window + 1 messages at
\* most that made a todo, a lost reply's included, and whose event it has not got.
SyncAnswersInOrder ==
    \A s \in Stream : st[s].kind = "sync" =>
        /\ st[s].taken - Len(st[s].events) \in {0, 1}
        /\ \A k \in DOMAIN st[s].events : st[s].events[k] = "CREATED" <=> k \in st[s].made
        /\ \A k \in st[s].made : st[s].sent[k] = "create"
        /\ Cardinality({k \in st[s].made \cup st[s].unseen : k > st[s].got}) <= Window + 1
        /\ st[s].outcome = "ok" => Len(st[s].events) = Len(st[s].sent)

\* A stream ends once its client has left it, whatever it had not read, or has closed it
\* and goes on to read what it is sent: no handler stays behind in Recv or in Send, and
\* the state of the database, of the user and of other streams is no excuse.
EveryStreamEnds ==
    \A s \in Stream :
        []<>(st[s].client = "gone" \/ st[s].got = Len(st[s].events)) =>
            (st[s].client # "sending" ~> s \notin streams \/ ~Running)
=============================================================================
