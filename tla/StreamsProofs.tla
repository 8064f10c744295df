--------------------------- MODULE StreamsProofs ---------------------------
(***************************************************************************)
(* Proofs about Lifecycle and the streams in it, for any number of         *)
(* requests, calls and streams, any faults, and any bounds.                *)
(***************************************************************************)
EXTENDS Streams, FiniteSetTheorems, TLAPS

-----------------------------------------------------------------------------
(* The process. *)

\* A server whose listener was taken away serves nothing new, so what is not there when
\* main() has waited for it will not be there behind it.
Order ==
    /\ main \in {"gracefulStop", "closing"} => grpc # "serving" /\ (requests # {} => forced)
    /\ main \in {"shutdown", "gracefulStop", "closing"} => http # "serving"
    /\ main = "closing" => calls = {} /\ streams = {}

ProcessInv == TypeOK /\ Order

LEMMA ProcessInit == Init => ProcessInv
  BY DEF Init, ProcessInv, TypeOK, Order

LEMMA ProcessKeeps == ProcessInv /\ [Next]_vars => ProcessInv'
  <1> SUFFICES ASSUME ProcessInv, [Next]_vars PROVE ProcessInv'
    OBVIOUS
  <1> USE DEF ProcessInv, TypeOK, Order, serving, Running
  <1>1. ASSUME MainStep PROVE ProcessInv'
    <2>1. CASE Load \/ LoadFails \/ Connect \/ ConnectFails \/ SpawnHTTP \/ Listen \/ ListenFails
      BY <2>1 DEF Load, LoadFails, Connect, ConnectFails, SpawnHTTP, Listen, ListenFails,
           Main, Panic
    <2>2. CASE SpawnGRPC \/ Quit
      BY <2>2 DEF SpawnGRPC, Quit, Main
    <2>3. CASE ShutdownReturns \/ GracefulStopReturns \/ Return
      BY <2>3 DEF ShutdownReturns, GracefulStopReturns, Return, Main
    <2> QED
      BY <1>1, <2>1, <2>2, <2>3 DEF MainStep
  <1>2. ASSUME HTTPStep \/ GRPCStep PROVE ProcessInv'
    BY <1>2 DEF HTTPStep, ServeHTTP, ServeHTTPFails, GRPCStep, ServeGRPC, ServeGRPCStopped, Panic
  <1>3. ASSUME NEW r \in Request, AcceptRequest(r) \/ FinishRequest(r) PROVE ProcessInv'
    BY <1>3 DEF AcceptRequest, FinishRequest
  <1>4. ASSUME NEW c \in Call, AcceptCall(c) \/ FinishCall(c) PROVE ProcessInv'
    BY <1>4 DEF AcceptCall, FinishCall
  <1>5. ASSUME Signal PROVE ProcessInv'
    BY <1>5 DEF Signal
  <1>6. ASSUME NEW s \in Stream, OpenStream(s) \/ CloseStream(s) \/ StreamPanics(s)
        PROVE  ProcessInv'
    BY <1>6 DEF OpenStream, CloseStream, StreamPanics, Panic
  <1>7. CASE UNCHANGED vars
    BY <1>7 DEF vars
  <1> QED
    BY <1>1, <1>2, <1>3, <1>4, <1>5, <1>6, <1>7 DEF Next, ProcessStep

LEMMA ProcessAlways == Spec => []ProcessInv
  BY ProcessInit, ProcessKeeps, PTL DEF Spec

\* The streams do to the process nothing that Lifecycle does not say of them.
LEMMA StreamsMove == [StreamsNext]_streamVars => [Next]_vars
  <1> SUFFICES ASSUME [StreamsNext]_streamVars PROVE [Next]_vars
    OBVIOUS
  <1>1. CASE ProcessStep \/ LoseUser \/ UNCHANGED streamVars
    BY <1>1 DEF Next, LoseUser, streamVars, vars
  <1>2. ASSUME NEW s \in Stream, Open(s) \/ HandlerPanics(s) PROVE [Next]_vars
    BY <1>2 DEF Open, HandlerPanics, Next
  <1>g. ASSUME NEW s \in Stream, NEW new, Go(s, new) PROVE [Next]_vars
    BY <1>g DEF Go, vars
  <1>e. ASSUME NEW s \in Stream, NEW new, NEW o, End(s, new, o) PROVE [Next]_vars
    BY <1>e DEF End, Next
  <1>r. ASSUME NEW s \in Stream, NEW new, Refuse(s, new) PROVE [Next]_vars
    BY <1>r, <1>g, <1>e DEF Refuse
  <1>3. ASSUME NEW s \in Stream, Handler(s) PROVE [Next]_vars
    <2>1. CASE Recv(s)
      BY <2>1, <1>g, <1>r DEF Recv
    <2>2. CASE RecvEOF(s) \/ RecvFails(s) \/ SendFails(s)
      BY <2>2, <1>e DEF RecvEOF, RecvFails, SendFails
    <2>3. CASE Create(s) \/ CreateFails(s) \/ CreateUnseen(s)
      BY <2>3, <1>g, <1>r DEF Create, CreateFails, CreateUnseen
    <2>4. CASE Send(s) \/ SendTodo(s)
      BY <2>4, <1>g, <1>e DEF Send, Push, SendTodo
    <2> QED
      BY <1>3, <2>1, <2>2, <2>3, <2>4 DEF Handler
  <1>4. ASSUME NEW s \in Stream, ClientSends(s) \/ ClientCloses(s) \/ ClientGone(s) \/ Deliver(s)
        PROVE  [Next]_vars
    BY <1>4, <1>g DEF ClientSends, ClientCloses, ClientGone, Deliver
  <1> QED
    BY <1>1, <1>2, <1>3, <1>4 DEF StreamsNext

\* Streams implements Lifecycle.
THEOREM StreamsAreInTheProcess == StreamsSpec => Spec
  <1>1. StreamsInit => Init
    BY DEF StreamsInit
  <1> QED
    BY <1>1, StreamsMove, PTL DEF StreamsSpec, Spec

\* Nothing is being served when Redis and PostgreSQL are closed, but HTTP requests that
\* outlast the 5 seconds, however many there are of all kinds and whatever they do.
THEOREM ClosedAlwaysAfterUse == StreamsSpec => []ClosedAfterUse
  <1>1. ProcessInv => ClosedAfterUse
    BY DEF ProcessInv, Order, ClosedAfterUse
  <1> QED
    BY <1>1, ProcessAlways, StreamsAreInTheProcess, PTL

\* main() is past its wait only if a signal came; a stream is there only if Serve was
\* called in time; and a panic is either Serve's, which came after GracefulStop, or that
\* of a stream's handler.
PanicInv ==
    /\ main \in {"shutdown", "gracefulStop", "closing"} => signalled
    /\ main \in {"load", "connect", "notified", "httpSpawned", "listening"} => grpc = "none"
    /\ streams # {} => grpc \in {"serving", "closed"}
    /\ exited = "panic" =>
          \/ signalled /\ main \in {"gracefulStop", "closing"} /\ grpc = "spawned"
          \/ "panic" \in Faults /\ streams # {}

\* With its settings, its dependencies and its ports there, the process panics in two
\* ways only, whatever is served and when the signal comes: the gRPC goroutine calls
\* Serve after GracefulStop, and then no stream was ever served; or the handler of a
\* stream panics.
PanicHasItsCause ==
    exited = "panic" =>
        IF streams = {}
        THEN signalled /\ main \in {"gracefulStop", "closing"} /\ grpc = "spawned"
        ELSE "panic" \in Faults /\ grpc \in {"serving", "closed"}

LEMMA PanicKeeps ==
    ASSUME Faults \cap {"unset", "dependencyDown", "portTaken"} = {}
    PROVE  TypeOK /\ PanicInv /\ [Next]_vars => PanicInv'
  <1> SUFFICES ASSUME TypeOK, PanicInv, [Next]_vars PROVE PanicInv'
    OBVIOUS
  <1>f. "unset" \notin Faults /\ "dependencyDown" \notin Faults /\ "portTaken" \notin Faults
    OBVIOUS
  <1> USE DEF TypeOK, PanicInv, Running, Main, Panic, serving
  <1>1. ASSUME MainStep PROVE PanicInv'
    <2>1. CASE Load \/ Connect \/ SpawnHTTP \/ Listen \/ SpawnGRPC
      BY <2>1 DEF Load, Connect, SpawnHTTP, Listen, SpawnGRPC
    <2>2. CASE LoadFails \/ ConnectFails \/ ListenFails
      BY <1>f, <2>2 DEF LoadFails, ConnectFails, ListenFails
    <2>3. CASE Quit \/ ShutdownReturns
      BY <2>3 DEF Quit, ShutdownReturns
    <2>4. CASE GracefulStopReturns \/ Return
      BY <2>4 DEF GracefulStopReturns, Return
    <2> QED
      BY <1>1, <2>1, <2>2, <2>3, <2>4 DEF MainStep
  <1>2. ASSUME HTTPStep \/ GRPCStep PROVE PanicInv'
    BY <1>2 DEF HTTPStep, ServeHTTP, ServeHTTPFails, GRPCStep, ServeGRPC, ServeGRPCStopped
  <1>3. ASSUME NEW r \in Request, AcceptRequest(r) \/ FinishRequest(r) PROVE PanicInv'
    BY <1>3 DEF AcceptRequest, FinishRequest
  <1>4. ASSUME NEW c \in Call, AcceptCall(c) \/ FinishCall(c) PROVE PanicInv'
    BY <1>4 DEF AcceptCall, FinishCall
  <1>5. ASSUME NEW s \in Stream, OpenStream(s) \/ CloseStream(s) \/ StreamPanics(s)
        PROVE  PanicInv'
    BY <1>5 DEF OpenStream, CloseStream, StreamPanics
  <1>6. CASE Signal \/ UNCHANGED vars
    BY <1>6 DEF Signal, vars
  <1> QED
    BY <1>1, <1>2, <1>3, <1>4, <1>5, <1>6 DEF Next, ProcessStep

\* main() and the streams' handlers: PanicHasItsCause, with its settings, its dependencies
\* and its ports there, for any number of requests, calls and streams.
THEOREM PanicsInTwoWays ==
    ASSUME Faults \cap {"unset", "dependencyDown", "portTaken"} = {}
    PROVE  StreamsSpec => []PanicHasItsCause
  <1>1. Init => PanicInv
    BY DEF Init, PanicInv
  <1>2. PanicInv => PanicHasItsCause
    BY DEF PanicInv, PanicHasItsCause
  <1>3. ProcessInv => TypeOK
    BY DEF ProcessInv
  <1> QED
    BY <1>1, <1>2, <1>3, PanicKeeps, ProcessAlways, StreamsAreInTheProcess, PTL DEF Spec

-----------------------------------------------------------------------------
(* One stream. *)

\* What was sent in either direction, as Stage has it, and as the sequences it is.
Words(S) == UNION {[1 .. n -> S] : n \in 0 .. MsgBound}
EventName == {"CREATED", "ERROR", "TODO_SNAPSHOT"}

LEMMA WordsAreSequences ==
    ASSUME NEW S
    PROVE  Words(S) = {q \in Seq(S) : Len(q) <= MsgBound}
  <1>1. ASSUME NEW k \in 0 .. MsgBound, NEW q \in [1 .. k -> S]
        PROVE  q \in Seq(S) /\ Len(q) <= MsgBound
    BY BoundsAreNat
  <1>2. ASSUME NEW q \in Seq(S), Len(q) <= MsgBound
        PROVE  Len(q) \in 0 .. MsgBound /\ q \in [1 .. Len(q) -> S]
    BY <1>2, BoundsAreNat
  <1> QED
    BY <1>1, <1>2 DEF Words

LEMMA OneWordMore ==
    ASSUME NEW S, NEW q \in Seq(S), NEW e \in S, Len(q) < MsgBound
    PROVE  /\ Append(q, e) \in Words(S)
           /\ Len(Append(q, e)) = Len(q) + 1
           /\ Append(q, e)[Len(q) + 1] = e
           /\ \A k \in 1 .. Len(q) : Append(q, e)[k] = q[k]
  <1>1. Append(q, e) \in Seq(S) /\ Len(Append(q, e)) = Len(q) + 1 /\ Len(q) + 1 <= MsgBound
    BY BoundsAreNat
  <1>2. Append(q, e) \in Words(S)
    BY <1>1, WordsAreSequences
  <1> QED
    BY <1>2

\* BulkCreateTodos has made all it took, but for the message it stands or stopped at.
BulkStage(r) ==
    r.kind = "bulk" =>
        /\ r.at \in {"recv", "create", "ended"}
        /\ r.at = "recv" => r.made = 1 .. r.taken /\ r.unseen = {}
        /\ r.at = "create" => r.taken >= 1 /\ r.made = 1 .. (r.taken - 1) /\ r.unseen = {}
        /\ r.at = "ended" =>
              /\ r.made = 1 .. r.taken \/ (r.taken >= 1 /\ r.made = 1 .. (r.taken - 1))
              /\ r.unseen \subseteq {r.taken}
        /\ r.outcome = "ok" => r.taken = Len(r.sent) /\ r.made = 1 .. r.taken /\ r.unseen = {}

\* SyncTodos has sent an event for all it took, but for the message it stands or
\* stopped at; the point it stands at tells which event that one will have.
SyncStage(r) ==
    r.kind = "sync" =>
        /\ r.at # "sendTodo"
        /\ r.at = "recv" => r.taken = Len(r.events)
        /\ r.at \in {"create", "sendCreated", "sendError"} => r.taken = Len(r.events) + 1
        /\ r.taken - Len(r.events) \in {0, 1}
        /\ r.at \in {"create", "sendCreated"} => r.sent[r.taken] = "create"
        /\ r.at \in {"create", "sendError"} => r.taken \notin r.made
        /\ r.at = "sendCreated" => r.taken \in r.made
        /\ r.made \subseteq 1 .. r.taken /\ r.unseen \subseteq 1 .. r.taken
        /\ \A k \in 1 .. Len(r.events) : r.events[k] = "CREATED" <=> k \in r.made
        /\ \A k \in r.made : r.sent[k] = "create"
        /\ Len(r.events) - r.got <= Window
        /\ r.outcome = "ok" => r.taken = Len(r.sent) /\ Len(r.events) = r.taken

WatchStage(r) ==
    r.kind = "watch" =>
        /\ r.at \in {"sendTodo", "ended"}
        /\ r.client # "sending"
        /\ Len(r.events) <= r.found

StageInv(r) ==
    /\ r.taken <= Len(r.sent)
    /\ r.got <= Len(r.events)
    /\ r.at # "ended" => r.outcome = "none"
    /\ BulkStage(r) /\ SyncStage(r) /\ WatchStage(r)

Good == {r \in Stage : StageInv(r)}

LEMMA GoodFields ==
    ASSUME NEW r \in Good
    PROVE  /\ StageInv(r) /\ r.kind \in {"bulk", "sync", "watch"}
           /\ r.sent \in Seq(Msg) /\ Len(r.sent) \in Nat /\ Len(r.sent) <= MsgBound
           /\ r.events \in Seq(EventName)
           /\ Len(r.events) \in Nat /\ Len(r.events) <= MsgBound
           /\ r.taken \in Nat /\ r.got \in Nat /\ r.found \in 0 .. MsgBound
  <1>1. /\ r.sent \in Words(Msg) /\ r.events \in Words(EventName)
        /\ r.taken \in 0 .. MsgBound /\ r.got \in 0 .. MsgBound /\ r.found \in 0 .. MsgBound
        /\ StageInv(r) /\ r.kind \in {"bulk", "sync", "watch"}
    BY DEF Good, Stage, Words, EventName
  <1> QED
    BY <1>1, WordsAreSequences, BoundsAreNat

LEMMA OneEventMore ==
    ASSUME NEW r \in Good, NEW e \in EventName, Len(r.events) < MsgBound
    PROVE  /\ Append(r.events, e) \in Words(EventName)
           /\ Len(Append(r.events, e)) = Len(r.events) + 1
           /\ Append(r.events, e)[Len(r.events) + 1] = e
           /\ \A k \in 1 .. Len(r.events) : Append(r.events, e)[k] = r.events[k]
  BY GoodFields, OneWordMore

LEMMA FreshIsGood ==
    /\ \A kind \in {"bulk", "sync"} : Fresh(kind, 0) \in Good
    /\ \A n \in 0 .. MsgBound : Fresh("watch", n) \in Good
    /\ [Fresh("bulk", 0) EXCEPT !.at = "ended", !.client = "gone"] \in Good
  <1>1. \A S : << >> \in Words(S)
    <2>1. ASSUME NEW S PROVE << >> \in Seq(S) /\ Len(<< >>) <= MsgBound
      BY BoundsAreNat
    <2> QED
      BY <2>1, WordsAreSequences
  <1>3. 0 \in 0 .. MsgBound /\ Len(<< >>) = 0 /\ 1 .. 0 = {}
    BY BoundsAreNat
  <1>4. ASSUME NEW n \in 0 .. MsgBound, NEW kind \in {"bulk", "sync", "watch"}
        PROVE  Fresh(kind, n) \in Stage
    BY <1>1, <1>3 DEF Fresh, Stage, Words, EventName
  <1>5. ASSUME NEW n, NEW kind
        PROVE  LET r == Fresh(kind, n)
               IN  /\ r.kind = kind /\ r.found = n /\ r.sent = << >> /\ r.taken = 0
                   /\ r.at = IF kind = "watch" THEN "sendTodo" ELSE "recv"
                   /\ r.client = IF kind = "watch" THEN "closed" ELSE "sending"
                   /\ r.made = {} /\ r.unseen = {} /\ r.events = << >> /\ r.got = 0
                   /\ r.outcome = "none"
    BY DEF Fresh
  <1>6. ASSUME NEW n \in 0 .. MsgBound, NEW kind \in {"bulk", "sync", "watch"}
        PROVE  StageInv(Fresh(kind, n))
    <2> DEFINE r == Fresh(kind, n)
    <2>1. /\ r.kind = kind /\ r.found = n /\ r.sent = << >> /\ r.taken = 0
          /\ r.at = IF kind = "watch" THEN "sendTodo" ELSE "recv"
          /\ r.client = IF kind = "watch" THEN "closed" ELSE "sending"
          /\ r.made = {} /\ r.unseen = {} /\ r.events = << >> /\ r.got = 0
          /\ r.outcome = "none"
      BY <1>5
    <2> HIDE DEF r
    <2>2. BulkStage(r) /\ WatchStage(r)
      BY <1>3, <2>1 DEF BulkStage, WatchStage
    <2>3. SyncStage(r)
      <3>1. /\ Len(r.events) = 0 /\ Len(r.sent) = 0 /\ r.taken = 0 /\ r.made = {}
            /\ r.unseen = {} /\ r.got = 0
        BY <1>3, <2>1
      <3>2. r.kind = "sync" => r.at = "recv" /\ r.outcome = "none"
        BY <2>1
      <3>3. 0 - 0 = 0 /\ 0 <= Window
        BY BoundsAreNat
      <3> QED
        BY <3>1, <3>2, <3>3 DEF SyncStage
    <2>4. StageInv(r)
      BY <1>3, <2>1, <2>2, <2>3 DEF StageInv
    <2> QED
      BY <2>4 DEF r
  <1>7. [Fresh("bulk", 0) EXCEPT !.at = "ended", !.client = "gone"] \in Good
    <2> DEFINE f == Fresh("bulk", 0)
               r == [f EXCEPT !.at = "ended", !.client = "gone"]
    <2>1. f \in Stage
      BY <1>3, <1>4
    <2>2. /\ f.kind = "bulk" /\ f.made = {} /\ f.taken = 0 /\ f.unseen = {}
          /\ f.outcome = "none" /\ f.sent = << >> /\ f.events = << >> /\ f.got = 0
      BY <1>5
    <2> HIDE DEF f
    <2>3. r \in Stage /\ r.at = "ended" /\ r.kind = "bulk" /\ r.made = {} /\ r.taken = 0
      BY <2>1, <2>2 DEF Stage
    <2>4. /\ r.unseen = {} /\ r.outcome = "none" /\ r.sent = << >> /\ r.events = << >>
          /\ r.got = 0
      BY <2>1, <2>2 DEF Stage
    <2> HIDE DEF r
    <2>5. StageInv(r)
      BY <1>3, <2>3, <2>4 DEF StageInv, BulkStage, SyncStage, WatchStage
    <2> QED
      BY <2>3, <2>5 DEF Good, r, f
  <1> QED
    BY <1>3, <1>4, <1>6, <1>7 DEF Good

\* Recv hands over a title.
LEMMA TakeToCreate ==
    ASSUME NEW r \in Good, r.at = "recv", r.taken < Len(r.sent),
           r.sent[r.taken + 1] = "create"
    PROVE  [r EXCEPT !.taken = @ + 1, !.at = "create"] \in Good
  <1> DEFINE n == [r EXCEPT !.taken = @ + 1, !.at = "create"]
  <1>0. r.taken + 1 \in 0 .. MsgBound
    BY GoodFields, BoundsAreNat
  <1>1. n \in Stage
    BY <1>0 DEF Good, Stage
  <1>2. /\ n.taken = r.taken + 1 /\ n.at = "create"
        /\ n.kind = r.kind /\ n.client = r.client /\ n.sent = r.sent /\ n.made = r.made
        /\ n.unseen = r.unseen /\ n.found = r.found /\ n.events = r.events /\ n.got = r.got
        /\ n.outcome = r.outcome
    BY DEF Good, Stage
  <1> HIDE DEF n
  <1>3. BulkStage(n) /\ WatchStage(n)
    BY <1>2, GoodFields DEF StageInv, BulkStage, WatchStage
  <1>4. SyncStage(n)
    <2> SUFFICES ASSUME r.kind = "sync" PROVE SyncStage(n)
      BY <1>2 DEF SyncStage
    <2>1. /\ r.taken = Len(r.events) /\ r.made \subseteq 1 .. r.taken /\ r.outcome = "none"
          /\ n.taken = Len(n.events) + 1 /\ n.taken \notin n.made
          /\ n.made \subseteq 1 .. n.taken
      BY <1>2, GoodFields DEF StageInv, SyncStage
    <2> QED
      BY <1>2, <2>1, GoodFields DEF StageInv, SyncStage
  <1>5. StageInv(n)
    BY <1>2, <1>3, <1>4, GoodFields DEF StageInv
  <1> QED
    BY <1>1, <1>5 DEF Good, n

\* Recv hands over what SyncTodos refuses.
LEMMA TakeToRefuse ==
    ASSUME NEW r \in Good, r.at = "recv", r.taken < Len(r.sent),
           r.kind # "bulk"
    PROVE  [r EXCEPT !.taken = @ + 1, !.at = "sendError"] \in Good
  <1> DEFINE n == [r EXCEPT !.taken = @ + 1, !.at = "sendError"]
  <1>0. r.taken + 1 \in 0 .. MsgBound
    BY GoodFields, BoundsAreNat
  <1>1. n \in Stage
    BY <1>0 DEF Good, Stage
  <1>2. /\ n.taken = r.taken + 1 /\ n.at = "sendError"
        /\ n.kind = r.kind /\ n.client = r.client /\ n.sent = r.sent /\ n.made = r.made
        /\ n.unseen = r.unseen /\ n.found = r.found /\ n.events = r.events /\ n.got = r.got
        /\ n.outcome = r.outcome
    BY DEF Good, Stage
  <1> HIDE DEF n
  <1>3. SyncStage(n)
    <2> SUFFICES ASSUME r.kind = "sync" PROVE SyncStage(n)
      BY <1>2 DEF SyncStage
    <2>1. /\ SyncStage(r) /\ r.outcome = "none" /\ r.taken = Len(r.events)
          /\ n.taken \notin n.made /\ n.made \subseteq 1 .. n.taken
          /\ n.taken = Len(n.events) + 1 /\ n.taken - Len(n.events) = 1
      BY <1>2, GoodFields DEF StageInv, SyncStage
    <2> QED
      BY <1>2, <2>1 DEF SyncStage
  <1>4. StageInv(n)
    BY <1>2, <1>3, GoodFields DEF StageInv, BulkStage, WatchStage
  <1> QED
    BY <1>1, <1>4 DEF Good, n

\* Recv hands over what ends BulkCreateTodos.
LEMMA TakeToEnd ==
    ASSUME NEW r \in Good, r.at = "recv", r.taken < Len(r.sent),
           r.kind = "bulk"
    PROVE  [r EXCEPT !.taken = @ + 1, !.at = "ended", !.outcome = "error"] \in Good
  <1> DEFINE n == [r EXCEPT !.taken = @ + 1, !.at = "ended", !.outcome = "error"]
  <1>0. r.taken + 1 \in 0 .. MsgBound
    BY GoodFields, BoundsAreNat
  <1>1. n \in Stage
    BY <1>0 DEF Good, Stage
  <1>2. /\ n.taken = r.taken + 1 /\ n.at = "ended" /\ n.outcome = "error"
        /\ n.kind = r.kind /\ n.client = r.client /\ n.sent = r.sent /\ n.made = r.made
        /\ n.unseen = r.unseen /\ n.found = r.found /\ n.events = r.events /\ n.got = r.got
    BY DEF Good, Stage
  <1> HIDE DEF n
  <1>3. StageInv(n)
    BY <1>2, GoodFields DEF StageInv, BulkStage, SyncStage, WatchStage
  <1> QED
    BY <1>1, <1>3 DEF Good, n

\* Recv returns io.EOF.
LEMMA EndOK ==
    ASSUME NEW r \in Good, r.at = "recv", r.taken = Len(r.sent)
    PROVE  [r EXCEPT !.at = "ended", !.outcome = "ok"] \in Good
  <1> DEFINE n == [r EXCEPT !.at = "ended", !.outcome = "ok"]
  <1>1. n \in Stage
    BY DEF Good, Stage
  <1>2. /\ n.at = "ended" /\ n.outcome = "ok"
        /\ n.kind = r.kind /\ n.client = r.client /\ n.sent = r.sent /\ n.taken = r.taken
        /\ n.made = r.made /\ n.unseen = r.unseen /\ n.found = r.found
        /\ n.events = r.events /\ n.got = r.got
    BY DEF Good, Stage
  <1> HIDE DEF n
  <1>3. StageInv(n)
    BY <1>2, GoodFields DEF StageInv, BulkStage, SyncStage, WatchStage
  <1> QED
    BY <1>1, <1>3 DEF Good, n

\* WatchTodos has sent its list.
LEMMA WatchEndOK ==
    ASSUME NEW r \in Good, r.at = "sendTodo"
    PROVE  [r EXCEPT !.at = "ended", !.outcome = "ok"] \in Good
  <1> DEFINE n == [r EXCEPT !.at = "ended", !.outcome = "ok"]
  <1>1. n \in Stage
    BY DEF Good, Stage
  <1>2. /\ n.at = "ended" /\ n.outcome = "ok"
        /\ n.kind = r.kind /\ n.client = r.client /\ n.sent = r.sent /\ n.taken = r.taken
        /\ n.made = r.made /\ n.unseen = r.unseen /\ n.found = r.found
        /\ n.events = r.events /\ n.got = r.got
    BY DEF Good, Stage
  <1> HIDE DEF n
  <1>3. StageInv(n)
    BY <1>2, GoodFields DEF StageInv, BulkStage, SyncStage, WatchStage
  <1> QED
    BY <1>1, <1>3 DEF Good, n

\* A handler gives up.
LEMMA EndError ==
    ASSUME NEW r \in Good
    PROVE  [r EXCEPT !.at = "ended", !.outcome = "error"] \in Good
  <1> DEFINE n == [r EXCEPT !.at = "ended", !.outcome = "error"]
  <1>1. n \in Stage
    BY DEF Good, Stage
  <1>2. /\ n.at = "ended" /\ n.outcome = "error"
        /\ n.kind = r.kind /\ n.client = r.client /\ n.sent = r.sent /\ n.taken = r.taken
        /\ n.made = r.made /\ n.unseen = r.unseen /\ n.found = r.found
        /\ n.events = r.events /\ n.got = r.got
    BY DEF Good, Stage
  <1> HIDE DEF n
  <1>3. StageInv(n)
    BY <1>2, GoodFields DEF StageInv, BulkStage, SyncStage, WatchStage
  <1> QED
    BY <1>1, <1>3 DEF Good, n

\* BulkCreateTodos makes a todo.
LEMMA BulkCreates ==
    ASSUME NEW r \in Good, r.at = "create", r.kind = "bulk"
    PROVE  [r EXCEPT !.made = @ \cup {r.taken}, !.at = "recv"] \in Good
  <1> DEFINE n == [r EXCEPT !.made = @ \cup {r.taken}, !.at = "recv"]
  <1>0. r.taken \in 1 .. MsgBound /\ r.made \cup {r.taken} \subseteq 1 .. MsgBound
    BY GoodFields, BoundsAreNat DEF StageInv, BulkStage, SyncStage, WatchStage
  <1>1. n \in Stage
    BY <1>0 DEF Good, Stage
  <1>2. /\ n.at = "recv" /\ n.made = r.made \cup {r.taken}
        /\ n.kind = r.kind /\ n.client = r.client /\ n.sent = r.sent /\ n.taken = r.taken
        /\ n.unseen = r.unseen /\ n.found = r.found /\ n.events = r.events /\ n.got = r.got
        /\ n.outcome = r.outcome
    BY DEF Good, Stage
  <1> HIDE DEF n
  <1>3. StageInv(n)
    BY <1>2, <1>0, GoodFields DEF StageInv, BulkStage, SyncStage, WatchStage
  <1> QED
    BY <1>1, <1>3 DEF Good, n

\* SyncTodos makes a todo.
LEMMA SyncCreates ==
    ASSUME NEW r \in Good, r.at = "create", r.kind # "bulk"
    PROVE  [r EXCEPT !.made = @ \cup {r.taken}, !.at = "sendCreated"] \in Good
  <1> DEFINE n == [r EXCEPT !.made = @ \cup {r.taken}, !.at = "sendCreated"]
  <1>0. r.taken \in 1 .. MsgBound /\ r.made \cup {r.taken} \subseteq 1 .. MsgBound
    BY GoodFields, BoundsAreNat DEF StageInv, BulkStage, SyncStage, WatchStage
  <1>1. n \in Stage
    BY <1>0 DEF Good, Stage
  <1>2. /\ n.at = "sendCreated" /\ n.made = r.made \cup {r.taken}
        /\ n.kind = r.kind /\ n.client = r.client /\ n.sent = r.sent /\ n.taken = r.taken
        /\ n.unseen = r.unseen /\ n.found = r.found /\ n.events = r.events /\ n.got = r.got
        /\ n.outcome = r.outcome
    BY DEF Good, Stage
  <1> HIDE DEF n
  <1>3. SyncStage(n)
    <2> SUFFICES ASSUME r.kind = "sync" PROVE SyncStage(n)
      BY <1>2 DEF SyncStage
    <2>1. /\ SyncStage(r) /\ r.outcome = "none" /\ r.taken = Len(r.events) + 1
          /\ r.sent[r.taken] = "create" /\ r.made \cup {r.taken} \subseteq 1 .. r.taken
      BY <1>0, GoodFields DEF StageInv, SyncStage
    <2>2. r.taken \notin 1 .. Len(r.events)
      BY <2>1, GoodFields
    <2> QED
      BY <1>2, <2>1, <2>2 DEF SyncStage
  <1>4. StageInv(n)
    BY <1>2, <1>3, GoodFields DEF StageInv, BulkStage, WatchStage
  <1> QED
    BY <1>1, <1>4 DEF Good, n

\* SyncTodos does not.
LEMMA SyncFails ==
    ASSUME NEW r \in Good, r.at = "create", r.kind # "bulk"
    PROVE  [r EXCEPT !.at = "sendError"] \in Good
  <1> DEFINE n == [r EXCEPT !.at = "sendError"]
  <1>1. n \in Stage
    BY DEF Good, Stage
  <1>2. /\ n.at = "sendError"
        /\ n.kind = r.kind /\ n.client = r.client /\ n.sent = r.sent /\ n.taken = r.taken
        /\ n.made = r.made /\ n.unseen = r.unseen /\ n.found = r.found
        /\ n.events = r.events /\ n.got = r.got /\ n.outcome = r.outcome
    BY DEF Good, Stage
  <1> HIDE DEF n
  <1>3. StageInv(n)
    BY <1>2, GoodFields DEF StageInv, BulkStage, SyncStage, WatchStage
  <1> QED
    BY <1>1, <1>3 DEF Good, n

\* The reply of the INSERT is lost.
LEMMA BulkMissesReply ==
    ASSUME NEW r \in Good, r.at = "create", r.kind = "bulk"
    PROVE  [r EXCEPT !.unseen = @ \cup {r.taken}, !.at = "ended", !.outcome = "error"] \in Good
  <1> DEFINE n == [r EXCEPT !.unseen = @ \cup {r.taken}, !.at = "ended", !.outcome = "error"]
  <1>0. r.taken \in 1 .. MsgBound /\ r.unseen \cup {r.taken} \subseteq 1 .. MsgBound
    <2>1. r.taken \in 1 .. MsgBound
      BY GoodFields, BoundsAreNat DEF StageInv, BulkStage, SyncStage, WatchStage
    <2>2. r.unseen \subseteq 1 .. MsgBound
      BY DEF Good, Stage
    <2> QED
      BY <2>1, <2>2
  <1>1. n \in Stage
    BY <1>0 DEF Good, Stage
  <1>2. /\ n.at = "ended" /\ n.unseen = r.unseen \cup {r.taken} /\ n.outcome = "error"
        /\ n.kind = r.kind /\ n.client = r.client /\ n.sent = r.sent /\ n.taken = r.taken
        /\ n.made = r.made /\ n.found = r.found /\ n.events = r.events /\ n.got = r.got
    BY DEF Good, Stage
  <1> HIDE DEF n
  <1>3. StageInv(n)
    BY <1>2, <1>0, GoodFields DEF StageInv, BulkStage, SyncStage, WatchStage
  <1> QED
    BY <1>1, <1>3 DEF Good, n

\* And for SyncTodos.
LEMMA SyncMissesReply ==
    ASSUME NEW r \in Good, r.at = "create", r.kind # "bulk"
    PROVE  [r EXCEPT !.unseen = @ \cup {r.taken}, !.at = "sendError"] \in Good
  <1> DEFINE n == [r EXCEPT !.unseen = @ \cup {r.taken}, !.at = "sendError"]
  <1>0. r.taken \in 1 .. MsgBound /\ r.unseen \cup {r.taken} \subseteq 1 .. MsgBound
    <2>1. r.taken \in 1 .. MsgBound
      BY GoodFields, BoundsAreNat DEF StageInv, BulkStage, SyncStage, WatchStage
    <2>2. r.unseen \subseteq 1 .. MsgBound
      BY DEF Good, Stage
    <2> QED
      BY <2>1, <2>2
  <1>1. n \in Stage
    BY <1>0 DEF Good, Stage
  <1>2. /\ n.at = "sendError" /\ n.unseen = r.unseen \cup {r.taken}
        /\ n.kind = r.kind /\ n.client = r.client /\ n.sent = r.sent /\ n.taken = r.taken
        /\ n.made = r.made /\ n.found = r.found /\ n.events = r.events /\ n.got = r.got
        /\ n.outcome = r.outcome
    BY DEF Good, Stage
  <1> HIDE DEF n
  <1>3. StageInv(n)
    BY <1>2, <1>0, GoodFields DEF StageInv, BulkStage, SyncStage, WatchStage
  <1> QED
    BY <1>1, <1>3 DEF Good, n

\* SyncTodos sends an event.
LEMMA Sends ==
    ASSUME NEW r \in Good, NEW e \in {"CREATED", "ERROR"},
           r.at = IF e = "CREATED" THEN "sendCreated" ELSE "sendError",
           Len(r.events) - r.got < Window
    PROVE  [r EXCEPT !.events = Append(@, e), !.at = "recv"] \in Good
  <1> DEFINE n == [r EXCEPT !.events = Append(@, e), !.at = "recv"]
  <1>5. r.kind = "sync" /\ r.taken = Len(r.events) + 1 /\ r.taken <= Len(r.sent)
    BY GoodFields DEF StageInv, BulkStage, SyncStage, WatchStage
  <1>0. /\ Append(r.events, e) \in Words(EventName)
        /\ Len(Append(r.events, e)) = Len(r.events) + 1
        /\ Append(r.events, e)[Len(r.events) + 1] = e
        /\ \A k \in 1 .. Len(r.events) : Append(r.events, e)[k] = r.events[k]
    <2>1. Len(r.events) < MsgBound
      BY GoodFields, BoundsAreNat, <1>5
    <2>2. e \in EventName
      BY DEF EventName
    <2> QED
      BY <2>1, <2>2, OneEventMore
  <1>1. n \in Stage
    BY <1>0 DEF Good, Stage, Words, EventName
  <1>2. /\ n.at = "recv" /\ n.events = Append(r.events, e)
        /\ n.kind = r.kind /\ n.client = r.client /\ n.sent = r.sent /\ n.taken = r.taken
        /\ n.made = r.made /\ n.unseen = r.unseen /\ n.found = r.found /\ n.got = r.got
        /\ n.outcome = r.outcome
    BY DEF Good, Stage
  <1> HIDE DEF n
  <1>3. SyncStage(n)
    <2> SUFFICES ASSUME r.kind = "sync" PROVE SyncStage(n)
      BY <1>2 DEF SyncStage
    <2>1. r.taken = Len(r.events) + 1 /\ n.taken = Len(n.events) /\ r.outcome = "none"
      BY <1>0, <1>2, GoodFields DEF StageInv, SyncStage
    <2>2. r.taken \in r.made <=> e = "CREATED"
      BY GoodFields DEF StageInv, SyncStage
    <2>3. \A k \in 1 .. Len(n.events) : n.events[k] = "CREATED" <=> k \in n.made
      BY <1>0, <1>2, <2>1, <2>2, GoodFields DEF StageInv, SyncStage
    <2>4. Len(n.events) - n.got <= Window
      BY <1>0, <1>2, GoodFields, BoundsAreNat
    <2>5. /\ n.taken - Len(n.events) \in {0, 1}
          /\ n.made \subseteq 1 .. n.taken /\ n.unseen \subseteq 1 .. n.taken
      BY <1>0, <1>2, <2>1, GoodFields DEF StageInv, SyncStage
    <2>6. \A k \in n.made : n.sent[k] = "create"
      BY <1>2, GoodFields DEF StageInv, SyncStage
    <2> QED
      BY <1>2, <2>1, <2>3, <2>4, <2>5, <2>6 DEF SyncStage
  <1>4. StageInv(n)
    BY <1>0, <1>2, <1>3, GoodFields DEF StageInv, BulkStage, WatchStage
  <1> QED
    BY <1>1, <1>4 DEF Good, n

\* WatchTodos sends a todo.
LEMMA SendsTodo ==
    ASSUME NEW r \in Good, NEW e \in {"TODO_SNAPSHOT"},
           r.at = "sendTodo", Len(r.events) < r.found
    PROVE  [r EXCEPT !.events = Append(@, e)] \in Good
  <1> DEFINE n == [r EXCEPT !.events = Append(@, e)]
  <1>5. r.found \in 0 .. MsgBound
    BY DEF Good, Stage
  <1>0. /\ Append(r.events, e) \in Words(EventName)
        /\ Len(Append(r.events, e)) = Len(r.events) + 1
        /\ Append(r.events, e)[Len(r.events) + 1] = e
        /\ \A k \in 1 .. Len(r.events) : Append(r.events, e)[k] = r.events[k]
    <2>1. Len(r.events) < MsgBound
      BY GoodFields, BoundsAreNat, <1>5
    <2>2. e \in EventName
      BY DEF EventName
    <2> QED
      BY <2>1, <2>2, OneEventMore
  <1>1. n \in Stage
    BY <1>0 DEF Good, Stage, Words, EventName
  <1>2. /\ n.events = Append(r.events, e)
        /\ n.kind = r.kind /\ n.client = r.client /\ n.sent = r.sent /\ n.taken = r.taken
        /\ n.at = r.at /\ n.made = r.made /\ n.unseen = r.unseen /\ n.found = r.found
        /\ n.got = r.got /\ n.outcome = r.outcome
    BY DEF Good, Stage
  <1> HIDE DEF n
  <1>3. StageInv(n)
    BY <1>2, <1>0, GoodFields DEF StageInv, BulkStage, SyncStage, WatchStage
  <1> QED
    BY <1>1, <1>3 DEF Good, n

\* The client sends a message, which changes none that was taken.
LEMMA Sent ==
    ASSUME NEW r \in Good, NEW m \in Msg,
           r.at # "ended", Len(r.sent) < MsgBound
    PROVE  [r EXCEPT !.sent = Append(@, m)] \in Good
  <1> DEFINE n == [r EXCEPT !.sent = Append(@, m)]
  <1>0. /\ Append(r.sent, m) \in Words(Msg)
        /\ Len(Append(r.sent, m)) = Len(r.sent) + 1
        /\ \A k \in 1 .. Len(r.sent) : Append(r.sent, m)[k] = r.sent[k]
    BY GoodFields, OneWordMore
  <1>1. n \in Stage
    BY <1>0 DEF Good, Stage, Words, EventName
  <1>2. /\ n.sent = Append(r.sent, m)
        /\ n.kind = r.kind /\ n.client = r.client /\ n.taken = r.taken /\ n.at = r.at
        /\ n.made = r.made /\ n.unseen = r.unseen /\ n.found = r.found
        /\ n.events = r.events /\ n.got = r.got /\ n.outcome = r.outcome
    BY DEF Good, Stage
  <1> HIDE DEF n
  <1>3. \A k \in 1 .. r.taken : n.sent[k] = r.sent[k]
    BY <1>0, <1>2, GoodFields DEF StageInv
  <1>4. StageInv(n)
    <2>1. r.outcome = "none" /\ n.taken <= Len(n.sent)
      BY <1>0, <1>2, GoodFields DEF StageInv
    <2>2. BulkStage(n) /\ WatchStage(n)
      BY <1>2, <2>1, GoodFields DEF StageInv, BulkStage, WatchStage
    <2>3. SyncStage(n)
      <3> SUFFICES ASSUME r.kind = "sync" PROVE SyncStage(n)
        BY <1>2 DEF SyncStage
      <3>1. SyncStage(r)
        BY GoodFields DEF StageInv
      <3>2. r.at \in {"create", "sendCreated"} => r.taken \in 1 .. r.taken
        BY <3>1, GoodFields DEF SyncStage
      <3>3. r.at \in {"create", "sendCreated"} => n.sent[r.taken] = "create"
        BY <1>3, <3>1, <3>2 DEF SyncStage
      <3>4. \A k \in r.made : n.sent[k] = "create"
        BY <1>3, <3>1 DEF SyncStage
      <3>5. /\ n.kind = r.kind /\ n.at = r.at /\ n.taken = r.taken /\ n.made = r.made
            /\ n.unseen = r.unseen
            /\ n.events = r.events /\ n.got = r.got /\ n.outcome = "none"
        BY <1>2, <2>1
      <3> QED
        BY <3>1, <3>3, <3>4, <3>5 DEF SyncStage
    <2> QED
      BY <1>2, <2>1, <2>2, <2>3, GoodFields DEF StageInv
  <1> QED
    BY <1>1, <1>4 DEF Good, n

\* The client closes its side, or is gone.
LEMMA Leaves ==
    ASSUME NEW r \in Good, NEW c \in {"closed", "gone"}
    PROVE  [r EXCEPT !.client = c] \in Good
  <1> DEFINE n == [r EXCEPT !.client = c]
  <1>1. n \in Stage
    BY DEF Good, Stage
  <1>2. /\ n.client = c
        /\ n.kind = r.kind /\ n.sent = r.sent /\ n.taken = r.taken /\ n.at = r.at
        /\ n.made = r.made /\ n.unseen = r.unseen /\ n.found = r.found
        /\ n.events = r.events /\ n.got = r.got /\ n.outcome = r.outcome
    BY DEF Good, Stage
  <1> HIDE DEF n
  <1>3. StageInv(n)
    BY <1>2, GoodFields DEF StageInv, BulkStage, SyncStage, WatchStage
  <1> QED
    BY <1>1, <1>3 DEF Good, n

\* An event reaches the client.
LEMMA Delivered ==
    ASSUME NEW r \in Good, r.got < Len(r.events)
    PROVE  [r EXCEPT !.got = @ + 1] \in Good
  <1> DEFINE n == [r EXCEPT !.got = @ + 1]
  <1>0. r.got + 1 \in 0 .. MsgBound
    BY GoodFields, BoundsAreNat
  <1>1. n \in Stage
    BY <1>0 DEF Good, Stage
  <1>2. /\ n.got = r.got + 1
        /\ n.kind = r.kind /\ n.client = r.client /\ n.sent = r.sent /\ n.taken = r.taken
        /\ n.at = r.at /\ n.made = r.made /\ n.unseen = r.unseen /\ n.found = r.found
        /\ n.events = r.events /\ n.outcome = r.outcome
    BY DEF Good, Stage
  <1> HIDE DEF n
  <1>3. n.got <= Len(n.events) /\ Len(n.events) - n.got <= Len(r.events) - r.got
    BY <1>2, GoodFields
  <1>4. SyncStage(n)
    <2> SUFFICES ASSUME r.kind = "sync" PROVE SyncStage(n)
      BY <1>2 DEF SyncStage
    <2>1. SyncStage(r)
      BY GoodFields DEF StageInv
    <2>2. Len(n.events) - n.got <= Window
      BY <1>2, <1>3, <2>1, GoodFields, BoundsAreNat DEF SyncStage
    <2> QED
      BY <1>2, <2>1, <2>2 DEF SyncStage
  <1>5. StageInv(n)
    BY <1>2, <1>3, <1>4, GoodFields DEF StageInv, BulkStage, WatchStage
  <1> QED
    BY <1>1, <1>5 DEF Good, n

-----------------------------------------------------------------------------
(* All streams. *)

StreamsInv ==
    /\ st \in [Stream -> Good]
    /\ present \in BOOLEAN
    /\ \A s \in Stream : st[s].at = "ended" <=> s \notin streams

LEMMA StreamsStart == StreamsInit => StreamsInv
  <1> SUFFICES ASSUME StreamsInit PROVE StreamsInv
    OBVIOUS
  <1> DEFINE r == [Fresh("bulk", 0) EXCEPT !.at = "ended", !.client = "gone"]
  <1>1. r \in Good /\ r.at = "ended"
    BY FreshIsGood DEF Fresh
  <1>2. st = [s \in Stream |-> r] /\ streams = {} /\ present = TRUE
    BY DEF StreamsInit, Init
  <1> HIDE DEF r
  <1> QED
    BY <1>1, <1>2 DEF StreamsInv

\* A step of a stream that is not its last, and its last one.
LEMMA GoKeeps ==
    ASSUME StreamsInv, NEW s \in Stream, NEW new \in Good, Go(s, new),
           new.at = "ended" <=> st[s].at = "ended"
    PROVE  StreamsInv'
  BY DEF Go, StreamsInv, vars

LEMMA EndKeeps ==
    ASSUME StreamsInv, NEW s \in Stream, NEW new, NEW o, End(s, new, o),
           [new EXCEPT !.at = "ended", !.outcome = o] \in Good
    PROVE  StreamsInv'
  <1> DEFINE n == [new EXCEPT !.at = "ended", !.outcome = o]
  <1>1. n.at = "ended"
    BY DEF Good, Stage
  <1>2. n \in Good /\ st' = [st EXCEPT ![s] = n] /\ streams' = streams \ {s} /\ present' = present
    BY DEF End, CloseStream
  <1> HIDE DEF n
  <1> QED
    BY <1>1, <1>2 DEF StreamsInv

LEMMA StreamsKeep == StreamsInv /\ [StreamsNext]_streamVars => StreamsInv'
  <1> SUFFICES ASSUME StreamsInv, [StreamsNext]_streamVars PROVE StreamsInv'
    OBVIOUS
  <1>s. ASSUME NEW s \in Stream PROVE st[s] \in Good
    BY DEF StreamsInv
  <1>1. CASE ProcessStep /\ UNCHANGED <<st, present>>
    <2>1. streams' = streams
      BY <1>1 DEF ProcessStep, MainStep, Load, LoadFails, Connect, ConnectFails, SpawnHTTP,
           Listen, ListenFails, SpawnGRPC, Quit, ShutdownReturns, GracefulStopReturns, Return,
           HTTPStep, ServeHTTP, ServeHTTPFails, GRPCStep, ServeGRPC, ServeGRPCStopped,
           AcceptRequest, FinishRequest, AcceptCall, FinishCall, Signal, Main, Panic, serving
    <2> QED
      BY <1>1, <2>1 DEF StreamsInv
  <1>2. CASE LoseUser
    BY <1>2 DEF LoseUser, StreamsInv, vars
  <1>16. ASSUME NEW s \in Stream, HandlerPanics(s)
         PROVE  StreamsInv'
    BY <1>16 DEF HandlerPanics, StreamPanics, Panic, serving, StreamsInv
  <1>3. ASSUME NEW s \in Stream, Open(s)
        PROVE  StreamsInv'
    <2>1. PICK f \in Good : f.at # "ended" /\ st' = [st EXCEPT ![s] = f]
      <3>1. CASE \E kind \in {"bulk", "sync"} : st' = [st EXCEPT ![s] = Fresh(kind, 0)]
        BY <3>1, FreshIsGood DEF Fresh
      <3>2. CASE \E n \in 0 .. MsgBound : st' = [st EXCEPT ![s] = Fresh("watch", n)]
        BY <3>2, FreshIsGood DEF Fresh
      <3> QED
        BY <1>3, <3>1, <3>2 DEF Open
    <2>2. streams' = streams \cup {s} /\ present' = present
      BY <1>3 DEF Open, OpenStream
    <2> QED
      BY <2>1, <2>2 DEF StreamsInv
  <1>4. ASSUME NEW s \in Stream, Recv(s)
        PROVE  StreamsInv'
    <2> DEFINE r == st[s]
               new == [r EXCEPT !.taken = @ + 1]
    <2>1. /\ r \in Good /\ r.at = "recv" /\ r.taken < Len(r.sent)
          /\ new.taken = r.taken + 1 /\ new.at = "recv"
      BY <1>4, <1>s DEF Recv, At, Good, Stage
    <2>2. CASE r.sent[r.taken + 1] = "create"
      <3>1. Go(s, [new EXCEPT !.at = "create"])
        BY <1>4, <2>1, <2>2 DEF Recv
      <3>2. [new EXCEPT !.at = "create"] \in Good /\ [new EXCEPT !.at = "create"].at = "create"
        BY <2>1, <2>2, TakeToCreate DEF Good, Stage
      <3> QED
        BY <2>1, <3>1, <3>2, GoKeeps
    <2>3. CASE r.sent[r.taken + 1] # "create"
      <3>1. Refuse(s, new)
        BY <1>4, <2>1, <2>3 DEF Recv
      <3>2. CASE r.kind = "bulk"
        <4>1. End(s, new, "error")
          BY <3>1, <3>2 DEF Refuse
        <4> QED
          BY <2>1, <3>2, <4>1, TakeToEnd, EndKeeps
      <3>3. CASE r.kind # "bulk"
        <4>1. Go(s, [new EXCEPT !.at = "sendError"])
          BY <3>1, <3>3 DEF Refuse
        <4>2. /\ [new EXCEPT !.at = "sendError"] \in Good
              /\ [new EXCEPT !.at = "sendError"].at = "sendError"
          BY <2>1, <3>3, TakeToRefuse DEF Good, Stage
        <4> QED
          BY <2>1, <4>1, <4>2, GoKeeps
      <3> QED
        BY <3>2, <3>3
    <2> QED
      BY <2>2, <2>3
  <1>5. ASSUME NEW s \in Stream, RecvEOF(s)
        PROVE  StreamsInv'
    BY <1>5, <1>s, EndOK, EndKeeps DEF RecvEOF, At
  <1>6. ASSUME NEW s \in Stream, RecvFails(s) \/ SendFails(s)
        PROVE  StreamsInv'
    BY <1>6, <1>s, EndError, EndKeeps DEF RecvFails, SendFails
  <1>7. ASSUME NEW s \in Stream, Create(s)
        PROVE  StreamsInv'
    <2> DEFINE r == st[s]
    <2>1. r \in Good /\ r.at = "create"
      BY <1>7, <1>s DEF Create, At
    <2>2. CASE r.kind = "bulk"
      <3> DEFINE n == [r EXCEPT !.made = @ \cup {r.taken}, !.at = "recv"]
      <3>1. Go(s, n)
        BY <1>7, <2>2 DEF Create
      <3>2. n \in Good /\ n.at = "recv"
        BY <2>1, <2>2, BulkCreates DEF Good, Stage
      <3> QED
        BY <2>1, <3>1, <3>2, GoKeeps
    <2>3. CASE r.kind # "bulk"
      <3> DEFINE n == [r EXCEPT !.made = @ \cup {r.taken}, !.at = "sendCreated"]
      <3>1. Go(s, n)
        BY <1>7, <2>3 DEF Create
      <3>2. n \in Good /\ n.at = "sendCreated"
        BY <2>1, <2>3, SyncCreates DEF Good, Stage
      <3> QED
        BY <2>1, <3>1, <3>2, GoKeeps
    <2> QED
      BY <2>2, <2>3
  <1>8. ASSUME NEW s \in Stream, CreateFails(s)
        PROVE  StreamsInv'
    <2> DEFINE r == st[s]
    <2>1. r \in Good /\ r.at = "create" /\ Refuse(s, r)
      BY <1>8, <1>s DEF CreateFails, At
    <2>2. CASE r.kind = "bulk"
      BY <2>1, <2>2, EndError, EndKeeps DEF Refuse
    <2>3. CASE r.kind # "bulk"
      <3> DEFINE n == [r EXCEPT !.at = "sendError"]
      <3>1. Go(s, n) /\ n \in Good /\ n.at = "sendError"
        BY <2>1, <2>3, SyncFails DEF Refuse, Good, Stage
      <3> QED
        BY <2>1, <3>1, GoKeeps
    <2> QED
      BY <2>2, <2>3
  <1>9. ASSUME NEW s \in Stream, CreateUnseen(s)
        PROVE  StreamsInv'
    <2> DEFINE r == st[s]
               new == [r EXCEPT !.unseen = @ \cup {r.taken}]
    <2>1. r \in Good /\ r.at = "create" /\ Refuse(s, new)
      BY <1>9, <1>s DEF CreateUnseen, At
    <2>2. CASE r.kind = "bulk"
      <3>1. End(s, new, "error")
        BY <2>1, <2>2 DEF Refuse
      <3> QED
        BY <2>1, <2>2, <3>1, BulkMissesReply, EndKeeps
    <2>3. CASE r.kind # "bulk"
      <3> DEFINE n == [new EXCEPT !.at = "sendError"]
      <3>1. Go(s, n)
        BY <2>1, <2>3 DEF Refuse
      <3>2. n \in Good /\ n.at = "sendError"
        BY <2>1, <2>3, SyncMissesReply DEF Good, Stage
      <3> QED
        BY <2>1, <3>1, <3>2, GoKeeps
    <2> QED
      BY <2>2, <2>3
  <1>10. ASSUME NEW s \in Stream, Send(s)
         PROVE  StreamsInv'
    <2> DEFINE r == st[s]
    <2>1. PICK e \in {"CREATED", "ERROR"} :
             /\ r.at = IF e = "CREATED" THEN "sendCreated" ELSE "sendError"
             /\ Push(s, e)
      BY <1>10 DEF Send, At
    <2> DEFINE n == [r EXCEPT !.events = Append(@, e), !.at = "recv"]
    <2>2. r \in Good /\ Len(r.events) - r.got < Window /\ Go(s, n)
      BY <1>s, <2>1 DEF Push
    <2>3. n \in Good /\ n.at = "recv" /\ r.at # "ended"
      BY <2>1, <2>2, Sends DEF Good, Stage
    <2> QED
      BY <2>2, <2>3, GoKeeps
  <1>11. ASSUME NEW s \in Stream, SendTodo(s)
         PROVE  StreamsInv'
    <2> DEFINE r == st[s]
               n == [r EXCEPT !.events = Append(@, "TODO_SNAPSHOT")]
    <2>1. r \in Good /\ r.at = "sendTodo"
      BY <1>11, <1>s DEF SendTodo, At
    <2>2. CASE Len(r.events) < r.found /\ Go(s, n)
      <3>1. n \in Good /\ n.at = "sendTodo"
        BY <2>1, <2>2, SendsTodo DEF Good, Stage
      <3> QED
        BY <2>1, <2>2, <3>1, GoKeeps
    <2>3. CASE End(s, r, "ok")
      BY <2>1, <2>3, WatchEndOK, EndKeeps
    <2> QED
      BY <1>11, <2>2, <2>3 DEF SendTodo
  <1>12. ASSUME NEW s \in Stream, ClientSends(s)
         PROVE  StreamsInv'
    <2> DEFINE r == st[s]
    <2>1. PICK m \in Msg : Go(s, [r EXCEPT !.sent = Append(@, m)])
      BY <1>12 DEF ClientSends, Msg
    <2> DEFINE n == [r EXCEPT !.sent = Append(@, m)]
    <2>2. r \in Good /\ r.at # "ended" /\ Len(r.sent) < MsgBound
      BY <1>12, <1>s DEF ClientSends, StreamsInv
    <2>3. n \in Good /\ n.at = r.at
      BY <2>2, Sent DEF Good, Stage
    <2> QED
      BY <2>1, <2>3, GoKeeps
  <1>13. ASSUME NEW s \in Stream, ClientCloses(s) \/ ClientGone(s)
         PROVE  StreamsInv'
    <2> DEFINE r == st[s]
    <2>1. PICK c \in {"closed", "gone"} : Go(s, [r EXCEPT !.client = c])
      BY <1>13 DEF ClientCloses, ClientGone
    <2> DEFINE n == [r EXCEPT !.client = c]
    <2>2. r \in Good
      BY <1>s
    <2>3. n \in Good
      BY <2>2, Leaves
    <2>4. n.at = r.at
      BY <2>2 DEF Good, Stage
    <2> QED
      BY <2>1, <2>3, <2>4, GoKeeps
  <1>14. ASSUME NEW s \in Stream, Deliver(s)
         PROVE  StreamsInv'
    <2> DEFINE r == st[s]
               n == [r EXCEPT !.got = @ + 1]
    <2>1. r \in Good /\ r.got < Len(r.events) /\ Go(s, n)
      BY <1>14, <1>s DEF Deliver
    <2>2. n \in Good /\ n.at = r.at
      BY <2>1, Delivered DEF Good, Stage
    <2> QED
      BY <2>1, <2>2, GoKeeps
  <1>15. CASE UNCHANGED streamVars
    BY <1>15 DEF streamVars, vars, StreamsInv
  <1> QED
    BY <1>1, <1>2, <1>3, <1>4, <1>5, <1>6, <1>7, <1>8, <1>9, <1>10, <1>11, <1>12, <1>13,
       <1>14, <1>15, <1>16 DEF StreamsNext, Handler

LEMMA StreamsAlways == StreamsSpec => []StreamsInv
  BY StreamsStart, StreamsKeep, PTL DEF StreamsSpec

\* The types of the process and of all streams.
THEOREM StreamsTypeCorrect == StreamsSpec => []StreamsTypeOK
  <1>1. ProcessInv /\ StreamsInv => StreamsTypeOK
    BY DEF ProcessInv, StreamsInv, Good, StreamsTypeOK
  <1> QED
    BY <1>1, ProcessAlways, StreamsAreInTheProcess, StreamsAlways, PTL

\* BulkCreateTodos makes a prefix of what it is sent, and all of it before it says OK,
\* for any number of streams, messages and faults.
THEOREM BulkAlwaysMakesAPrefix == StreamsSpec => []BulkMakesAPrefix
  <1>1. StreamsInv => BulkMakesAPrefix
    <2> SUFFICES ASSUME StreamsInv, NEW s \in Stream, st[s].kind = "bulk"
                 PROVE  /\ \E n \in 0 .. MsgBound : st[s].made = 1 .. n
                        /\ st[s].unseen \subseteq {st[s].taken}
                        /\ st[s].outcome = "ok" =>
                              st[s].made = DOMAIN st[s].sent /\ st[s].unseen = {}
      BY DEF BulkMakesAPrefix
    <2> DEFINE r == st[s]
    <2>1. r \in Good
      BY DEF StreamsInv
    <2> HIDE DEF r
    <2>2. /\ r.taken \in 0 .. MsgBound /\ (r.taken >= 1 => r.taken - 1 \in 0 .. MsgBound)
          /\ DOMAIN r.sent = 1 .. Len(r.sent)
      BY <2>1, GoodFields, BoundsAreNat DEF StageInv
    <2>3. BulkStage(r) /\ r.kind = "bulk"
      BY <2>1, GoodFields DEF StageInv, r
    <2>4. \E n \in 0 .. MsgBound : r.made = 1 .. n
      BY <2>2, <2>3 DEF BulkStage
    <2>5. r.unseen \subseteq {r.taken}
      BY <2>3 DEF BulkStage
    <2>6. r.outcome = "ok" => r.made = DOMAIN r.sent /\ r.unseen = {}
      BY <2>2, <2>3 DEF BulkStage
    <2> QED
      BY <2>4, <2>5, <2>6 DEF r
  <1> QED
    BY <1>1, StreamsAlways, PTL

\* SyncTodos answers the k-th message with the k-th event, truly, and never makes more
\* than Window + 1 todos ahead of what its client has been told.
THEOREM SyncAlwaysAnswersInOrder == StreamsSpec => []SyncAnswersInOrder
  <1>1. StreamsInv => SyncAnswersInOrder
    <2> SUFFICES ASSUME StreamsInv, NEW s \in Stream, st[s].kind = "sync"
                 PROVE  /\ st[s].taken - Len(st[s].events) \in {0, 1}
                        /\ \A k \in DOMAIN st[s].events :
                              st[s].events[k] = "CREATED" <=> k \in st[s].made
                        /\ \A k \in st[s].made : st[s].sent[k] = "create"
                        /\ Cardinality({k \in st[s].made \cup st[s].unseen : k > st[s].got})
                              <= Window + 1
                        /\ st[s].outcome = "ok" => Len(st[s].events) = Len(st[s].sent)
      BY DEF SyncAnswersInOrder
    <2> DEFINE r == st[s]
    <2>1. r \in Good
      BY DEF StreamsInv
    <2> HIDE DEF r
    <2>2. SyncStage(r) /\ r.kind = "sync"
      BY <2>1, GoodFields DEF StageInv, r
    <2>3. DOMAIN r.events = 1 .. Len(r.events)
      BY <2>1, GoodFields
    <2>4. Cardinality({k \in r.made \cup r.unseen : k > r.got}) <= Window + 1
      <3> DEFINE ahead == {k \in r.made \cup r.unseen : k > r.got}
      <3>1. /\ r.made \cup r.unseen \subseteq 1 .. r.taken /\ r.taken \in Int /\ r.got \in Int
            /\ r.got <= r.taken /\ r.taken - r.got <= Window + 1
        BY <2>1, <2>2, GoodFields, BoundsAreNat DEF StageInv, SyncStage
      <3>2. ahead \subseteq (r.got + 1) .. r.taken
        BY <3>1
      <3>3. /\ IsFiniteSet((r.got + 1) .. r.taken)
            /\ Cardinality((r.got + 1) .. r.taken) <= Window + 1
        <4> DEFINE low == r.got + 1
        <4>1. low \in Int /\ r.taken - low + 1 <= Window + 1 /\ Window + 1 >= 0
          BY <3>1, BoundsAreNat
        <4> HIDE DEF low
        <4>2. /\ IsFiniteSet(low .. r.taken)
              /\ Cardinality(low .. r.taken) =
                    IF low > r.taken THEN 0 ELSE r.taken - low + 1
          BY <3>1, <4>1, FS_Interval
        <4>3. Cardinality(low .. r.taken) <= Window + 1
          BY <4>1, <4>2
        <4> QED
          BY <4>2, <4>3 DEF low
      <3> HIDE DEF ahead
      <3>4. /\ Cardinality(ahead) <= Cardinality((r.got + 1) .. r.taken)
            /\ Cardinality(ahead) \in Nat /\ Cardinality((r.got + 1) .. r.taken) \in Nat
        BY <3>2, <3>3, FS_Subset, FS_CardinalityType
      <3>5. Cardinality(ahead) <= Window + 1
        BY <3>3, <3>4, BoundsAreNat
      <3> QED
        BY <3>5 DEF ahead
    <2> QED
      BY <2>2, <2>3, <2>4 DEF SyncStage, r
  <1> QED
    BY <1>1, StreamsAlways, PTL
=============================================================================
