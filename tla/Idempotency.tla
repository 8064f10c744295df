---------------------------- MODULE Idempotency ----------------------------
(***************************************************************************)
(* POST /todos: IdempotencyMiddleware around TodoHandler.CreateTodo.  The  *)
(* middleware looks the Idempotency-Key up in Redis, runs the handler on a *)
(* miss and records a 2xx body afterwards, three steps that other requests *)
(* with the same key, a crash or a Redis failure may come between.         *)
(***************************************************************************)
EXTENDS TodoTable

CONSTANTS
    Request,        \* goroutines that serve POST /todos, one request at a time
    Key,            \* the Idempotency-Key values clients send
    Faults,         \* what may go wrong, a set of the names in the actions below
    NoRecord,       \* Redis has no idempotency:k
    NoAnswer, Error \* no answer yet; an answer other than 2xx

\* What the middleware answers: the todo in the 201 body, or one of the markers.
ASSUME MarkersAreNoIDs == {NoRecord, NoAnswer, Error} \cap TodoID = {}

VARIABLES
    record,     \* record[k] is the id in the body kept for key k
    pc,         \* where each request stands
    key,        \* its Idempotency-Key
    made,       \* the todo its handler made
    answer,     \* what it was answered, with `key' still the key it sent
    todosOf,    \* history: the todos made for each key
    unsafe      \* history: the keys whose protection was overrun, see below

vars == <<tables, record, pc, key, made, answer, todosOf, unsafe>>

\* The requests that have missed the record of k and not yet written it.
Working(k) == {r \in Request : pc[r] \in {"create", "record"} /\ key[r] = k}

TypeOK ==
    /\ TablesTypeOK
    /\ record \in [Key -> TodoID \cup {NoRecord}]
    /\ pc \in [Request -> {"idle", "create", "record", "reply"}]
    /\ key \in [Request -> Key]
    /\ made \in [Request -> TodoID]
    /\ answer \in [Request -> TodoID \cup {NoAnswer, Error}]
    /\ todosOf \in [Key -> SUBSET TodoID]
    /\ unsafe \subseteq Key

Init ==
    /\ TablesInit
    /\ record = [k \in Key |-> NoRecord]
    /\ pc = [r \in Request |-> "idle"]
    /\ key \in [Request -> Key]
    /\ made \in [Request -> TodoID]
    /\ answer = [r \in Request |-> NoAnswer]
    /\ todosOf = [k \in Key |-> {}]
    /\ unsafe = {}

-----------------------------------------------------------------------------
Goto(r, at) == pc' = [pc EXCEPT ![r] = at]
Answer(r, a) == answer' = [answer EXCEPT ![r] = a]
MarkUnsafe(k) == unsafe' = unsafe \cup {k}

\* Redis answers with the record, which ends the request.
Replay(r, k) ==
    /\ pc[r] = "idle"
    /\ record[k] # NoRecord
    /\ Answer(r, record[k])
    /\ key' = [key EXCEPT ![r] = k]
    /\ UNCHANGED <<tables, record, pc, made, todosOf, unsafe>>

\* Mutant: the record is looked at and the handler run nevertheless.
MissOrHit(r, k) ==
    /\ pc[r] = "idle"
    /\ Goto(r, "create")
    /\ key' = [key EXCEPT ![r] = k]
    /\ Answer(r, NoAnswer)
    /\ unsafe' = IF Working(k) # {} THEN unsafe \cup {k} ELSE unsafe
    /\ UNCHANGED <<tables, record, made, todosOf>>

\* Redis has no record, or fails, which RedisCache.Get does not tell apart.  From
\* here on nothing stops this request from creating a todo.
Miss(r, k) ==
    /\ pc[r] = "idle"
    /\ record[k] = NoRecord \/ "redisDown" \in Faults
    /\ Goto(r, "create")
    /\ key' = [key EXCEPT ![r] = k]
    /\ Answer(r, NoAnswer)
    /\ unsafe' = IF record[k] # NoRecord \/ Working(k) # {} THEN unsafe \cup {k} ELSE unsafe
    /\ UNCHANGED <<tables, record, made, todosOf>>

\* The handler creates the todo and writes 201.
CreateTodo(r) ==
    /\ pc[r] = "create"
    /\ \E i \in TodoID, title \in Title, u \in User :
          /\ InsertTodo(i, title, u)
          /\ made' = [made EXCEPT ![r] = i]
          /\ todosOf' = [todosOf EXCEPT ![key[r]] = @ \cup {i}]
    /\ Goto(r, "record")
    /\ UNCHANGED <<record, key, answer, unsafe>>

\* Mutant: the status is not looked at, so an error body is recorded.
CreateRefusedRecorded(r) ==
    /\ pc[r] = "create"
    /\ record' = [record EXCEPT ![key[r]] = Error]
    /\ Goto(r, "idle")
    /\ Answer(r, Error)
    /\ UNCHANGED <<tables, key, made, todosOf, unsafe>>

\* The handler answers 400 or 500 without a todo: nothing is recorded.
CreateRefused(r) ==
    /\ pc[r] = "create"
    /\ Goto(r, "idle")
    /\ Answer(r, Error)
    /\ UNCHANGED <<tables, record, key, made, todosOf, unsafe>>

\* The row is made and its reply lost: 500, and nothing is recorded.
CreateUnseen(r) ==
    /\ "lostReply" \in Faults
    /\ pc[r] = "create"
    /\ \E i \in TodoID, title \in Title, u \in User :
          /\ InsertTodo(i, title, u)
          /\ todosOf' = [todosOf EXCEPT ![key[r]] = @ \cup {i}]
    /\ Goto(r, "idle")
    /\ Answer(r, Error)
    /\ MarkUnsafe(key[r])
    /\ UNCHANGED <<record, key, made>>

\* Mutant: the Idempotency-Key is left out of the Redis key.
SetRecordElsewhere(r) ==
    /\ pc[r] = "record"
    /\ record' = [k \in Key |-> made[r]]
    /\ Goto(r, "reply")
    /\ UNCHANGED <<tables, key, made, answer, todosOf, unsafe>>

\* SetWithTTL of the body.
SetRecord(r) ==
    /\ pc[r] = "record"
    /\ record' = [record EXCEPT ![key[r]] = made[r]]
    /\ Goto(r, "reply")
    /\ UNCHANGED <<tables, key, made, answer, todosOf, unsafe>>

\* SetWithTTL fails: its error is dropped and the 201 goes out all the same.
SetRecordFails(r) ==
    /\ "redisDown" \in Faults
    /\ pc[r] = "record"
    /\ Goto(r, "reply")
    /\ MarkUnsafe(key[r])
    /\ UNCHANGED <<tables, record, key, made, answer, todosOf>>

\* The buffered 201 reaches the client when the handler returns.
Reply(r) ==
    /\ pc[r] = "reply"
    /\ Goto(r, "idle")
    /\ Answer(r, made[r])
    /\ UNCHANGED <<tables, record, key, made, todosOf, unsafe>>

\* The record's idempotencyTTL passes.
Expire(k) ==
    /\ "expire" \in Faults
    /\ record[k] # NoRecord
    /\ record' = [record EXCEPT ![k] = NoRecord]
    /\ MarkUnsafe(k)
    /\ UNCHANGED <<tables, pc, key, made, answer, todosOf>>

\* The process ends; a todo that was made and not recorded is forgotten.
Crash ==
    /\ "crash" \in Faults
    /\ pc' = [r \in Request |-> "idle"]
    /\ unsafe' = unsafe \cup {key[r] : r \in {q \in Request : pc[q] = "record"}}
    /\ UNCHANGED <<tables, record, key, made, answer, todosOf>>

Next ==
    \/ \E r \in Request :
          \/ \E k \in Key : Replay(r, k) \/ Miss(r, k)
          \/ CreateTodo(r) \/ CreateRefused(r) \/ CreateUnseen(r)
          \/ SetRecord(r) \/ SetRecordFails(r) \/ Reply(r)
    \/ \E k \in Key : Expire(k)
    \/ Crash

Spec == Init /\ [][Next]_vars

-----------------------------------------------------------------------------
(***************************************************************************)
(* Properties                                                              *)
(***************************************************************************)

\* However often a key is sent, it makes one todo, unless its protection was
\* overrun: two requests with the key at work at once, a record that Redis did not
\* take, show or keep, or a row made behind an error or a crash.  A crash before
\* the row is made or after its record is kept is safe, as is any number of
\* refused requests.
OneTodoPerKey ==
    \A k \in Key \ unsafe : \A i, j \in todosOf[k] : i = j

\* Every 201 for a key names a todo made for that key and, unless the key was
\* overrun, the same one.
AnswersAgree ==
    \A r \in Request : answer[r] \in TodoID =>
        /\ answer[r] \in todosOf[key[r]]
        /\ key[r] \notin unsafe => todosOf[key[r]] = {answer[r]}

\* The middleware keeps the promise of OncePerKey: answers are its tellings, and the
\* steps in between, failures and crashes included, are nothing to the client.
Told(r) == IF answer[r] \in TodoID THEN <<key[r], answer[r]>> ELSE NoAnswer

Once == INSTANCE OncePerKey WITH
            made <- todosOf, told <- [r \in Request |-> Told(r)], Nothing <- NoAnswer

ImplementsOnce == Once!Spec
=============================================================================
