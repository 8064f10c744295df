------------------------- MODULE IdempotencyProofs -------------------------
(***************************************************************************)
(* Proofs that an Idempotency-Key makes one todo while its protection      *)
(* holds, and that the middleware implements OncePerKey.                   *)
(***************************************************************************)
EXTENDS Idempotency, TodoTableProofs, TLAPS

\* What guards the one todo of key k: nobody else is at work on k, and once there
\* is a todo it is kept, or is about to be.
KeyInv(k) ==
    /\ \A r, q \in Working(k) : r = q
    /\ \A r \in Working(k) : pc[r] = "create" => todosOf[k] = {}
    /\ \A r \in Working(k) : pc[r] = "record" => todosOf[k] = {made[r]}
    /\ record[k] # NoRecord => todosOf[k] = {record[k]}
    /\ todosOf[k] # {} /\ record[k] = NoRecord =>
           \E r \in Working(k) : pc[r] = "record"

\* The types the argument needs.
KeyTypeOK ==
    /\ record \in [Key -> TodoID \cup {NoRecord}]
    /\ pc \in [Request -> {"idle", "create", "record", "reply"}]
    /\ key \in [Request -> Key]
    /\ made \in [Request -> TodoID]
    /\ todosOf \in [Key -> SUBSET TodoID]

IInv == KeyTypeOK /\ \A k \in Key \ unsafe : KeyInv(k)

LEMMA InvInit == Init => IInv
  BY DEF Init, IInv, KeyTypeOK, KeyInv, Working

\* A key that nothing touches, but an answer or a refusal, stays protected.
LEMMA KeyStays ==
    ASSUME NEW k \in Key, KeyInv(k),
           record'[k] = record[k], todosOf'[k] = todosOf[k],
           \A r \in Working(k)' : r \in Working(k) /\ pc'[r] = pc[r] /\ made'[r] = made[r],
           \A r \in Working(k) : pc[r] = "record" => r \in Working(k)'
    PROVE  KeyInv(k)'
  BY DEF KeyInv

LEMMA InvStep == IInv /\ [Next]_vars => IInv'
  <1> SUFFICES ASSUME IInv, [Next]_vars PROVE IInv'
    OBVIOUS
  <1> USE MarkersAreNoIDs DEF Goto, Answer, MarkUnsafe
  <1>t. KeyTypeOK
    BY DEF IInv
  <1>k. \A k \in Key \ unsafe : KeyInv(k)
    BY DEF IInv
  <1>1. ASSUME NEW r \in Request, NEW k \in Key, Replay(r, k)
        PROVE  IInv'
    <2>1. KeyTypeOK'
      BY <1>t, <1>1 DEF Replay, KeyTypeOK
    <2>2. ASSUME NEW l \in Key \ unsafe' PROVE KeyInv(l)'
      BY <1>t, <1>k, <1>1, KeyStays DEF Replay, KeyTypeOK, Working
    <2> QED
      BY <2>1, <2>2 DEF IInv
  <1>2. ASSUME NEW r \in Request, NEW k \in Key, Miss(r, k)
        PROVE  IInv'
    <2>1. KeyTypeOK'
      BY <1>t, <1>2 DEF Miss, KeyTypeOK
    <2>2. ASSUME NEW l \in Key \ unsafe' PROVE KeyInv(l)'
      <3>1. CASE l = k
        <4>1. record[k] = NoRecord /\ Working(k) = {} /\ k \notin unsafe
          BY <1>2, <2>2, <3>1 DEF Miss
        <4>2. todosOf[k] = {}
          BY <1>k, <4>1 DEF KeyInv
        <4>3. Working(k)' = {r}
          BY <1>t, <1>2, <4>1 DEF Miss, Working, KeyTypeOK
        <4> QED
          BY <1>t, <1>2, <3>1, <4>1, <4>2, <4>3 DEF Miss, KeyInv, KeyTypeOK
      <3>2. CASE l # k
        BY <1>t, <1>k, <1>2, <2>2, <3>2, KeyStays DEF Miss, KeyTypeOK, Working
      <3> QED
        BY <3>1, <3>2
    <2> QED
      BY <2>1, <2>2 DEF IInv
  <1>3. ASSUME NEW r \in Request, CreateTodo(r)
        PROVE  IInv'
    <2>1. PICK i \in TodoID :
             /\ made' = [made EXCEPT ![r] = i]
             /\ todosOf' = [todosOf EXCEPT ![key[r]] = @ \cup {i}]
      BY <1>3 DEF CreateTodo
    <2>2. KeyTypeOK'
      BY <1>t, <1>3, <2>1 DEF CreateTodo, KeyTypeOK
    <2>3. ASSUME NEW l \in Key \ unsafe' PROVE KeyInv(l)'
      <3>1. CASE l = key[r]
        <4>1. KeyInv(l) /\ r \in Working(l) /\ pc[r] = "create"
          BY <1>k, <1>3, <2>3, <3>1 DEF CreateTodo, Working
        <4>2. Working(l) = {r} /\ todosOf[l] = {} /\ record[l] = NoRecord
          BY <4>1 DEF KeyInv
        <4>3. todosOf'[l] = {i}
          BY <1>t, <2>1, <3>1, <4>2 DEF KeyTypeOK
        <4>4. Working(l)' = {r} /\ pc'[r] = "record" /\ made'[r] = i
          BY <1>t, <1>3, <2>1, <4>2 DEF CreateTodo, Working, KeyTypeOK
        <4> QED
          BY <1>3, <4>2, <4>3, <4>4 DEF CreateTodo, KeyInv
      <3>2. CASE l # key[r]
        BY <1>t, <1>k, <1>3, <2>1, <2>3, <3>2, KeyStays DEF CreateTodo, KeyTypeOK, Working
      <3> QED
        BY <3>1, <3>2
    <2> QED
      BY <2>2, <2>3 DEF IInv
  <1>4. ASSUME NEW r \in Request, CreateRefused(r)
        PROVE  IInv'
    <2>1. KeyTypeOK'
      BY <1>t, <1>4 DEF CreateRefused, KeyTypeOK
    <2>2. ASSUME NEW l \in Key \ unsafe' PROVE KeyInv(l)'
      BY <1>t, <1>k, <1>4, KeyStays DEF CreateRefused, KeyTypeOK, Working
    <2> QED
      BY <2>1, <2>2 DEF IInv
  <1>5. ASSUME NEW r \in Request, CreateUnseen(r)
        PROVE  IInv'
    <2>1. PICK i \in TodoID : todosOf' = [todosOf EXCEPT ![key[r]] = @ \cup {i}]
      BY <1>5 DEF CreateUnseen
    <2>2. KeyTypeOK'
      BY <1>t, <1>5, <2>1 DEF CreateUnseen, KeyTypeOK
    <2>3. ASSUME NEW l \in Key \ unsafe' PROVE KeyInv(l)'
      BY <1>t, <1>k, <1>5, <2>1, KeyStays DEF CreateUnseen, KeyTypeOK, Working
    <2> QED
      BY <2>2, <2>3 DEF IInv
  <1>6. ASSUME NEW r \in Request, SetRecord(r)
        PROVE  IInv'
    <2>1. KeyTypeOK'
      BY <1>t, <1>6 DEF SetRecord, KeyTypeOK
    <2>2. ASSUME NEW l \in Key \ unsafe' PROVE KeyInv(l)'
      <3>1. CASE l = key[r]
        <4>1. KeyInv(l) /\ r \in Working(l) /\ pc[r] = "record"
          BY <1>k, <1>6, <2>2, <3>1 DEF SetRecord, Working
        <4>2. Working(l) = {r} /\ todosOf[l] = {made[r]}
          BY <4>1 DEF KeyInv
        <4>3. Working(l)' = {} /\ record'[l] = made[r]
          BY <1>t, <1>6, <3>1, <4>2 DEF SetRecord, Working, KeyTypeOK
        <4> QED
          BY <1>t, <1>6, <4>2, <4>3 DEF SetRecord, KeyInv, KeyTypeOK
      <3>2. CASE l # key[r]
        BY <1>t, <1>k, <1>6, <2>2, <3>2, KeyStays DEF SetRecord, KeyTypeOK, Working
      <3> QED
        BY <3>1, <3>2
    <2> QED
      BY <2>1, <2>2 DEF IInv
  <1>7. ASSUME NEW r \in Request, SetRecordFails(r)
        PROVE  IInv'
    <2>1. KeyTypeOK'
      BY <1>t, <1>7 DEF SetRecordFails, KeyTypeOK
    <2>2. ASSUME NEW l \in Key \ unsafe' PROVE KeyInv(l)'
      BY <1>t, <1>k, <1>7, KeyStays DEF SetRecordFails, KeyTypeOK, Working
    <2> QED
      BY <2>1, <2>2 DEF IInv
  <1>8. ASSUME NEW r \in Request, Reply(r)
        PROVE  IInv'
    <2>1. KeyTypeOK'
      BY <1>t, <1>8 DEF Reply, KeyTypeOK
    <2>2. ASSUME NEW l \in Key \ unsafe' PROVE KeyInv(l)'
      BY <1>t, <1>k, <1>8, KeyStays DEF Reply, KeyTypeOK, Working
    <2> QED
      BY <2>1, <2>2 DEF IInv
  <1>9. ASSUME NEW k \in Key, Expire(k)
        PROVE  IInv'
    <2>1. KeyTypeOK'
      BY <1>t, <1>9 DEF Expire, KeyTypeOK
    <2>2. ASSUME NEW l \in Key \ unsafe' PROVE KeyInv(l)'
      BY <1>t, <1>k, <1>9, KeyStays DEF Expire, KeyTypeOK, Working
    <2> QED
      BY <2>1, <2>2 DEF IInv
  <1>10. CASE Crash
    <2>1. KeyTypeOK'
      BY <1>t, <1>10 DEF Crash, KeyTypeOK
    <2>2. ASSUME NEW l \in Key \ unsafe' PROVE KeyInv(l)'
      BY <1>t, <1>k, <1>10, KeyStays DEF Crash, KeyTypeOK, Working
    <2> QED
      BY <2>1, <2>2 DEF IInv
  <1>11. CASE UNCHANGED vars
    BY <1>t, <1>k, <1>11 DEF vars, IInv, KeyTypeOK, KeyInv, Working
  <1> QED
    BY <1>1, <1>2, <1>3, <1>4, <1>5, <1>6, <1>7, <1>8, <1>9, <1>10, <1>11 DEF Next

\* IdempotencyMiddleware: a key whose protection was not overrun makes one todo at
\* most, for any number of requests, keys and todos.
THEOREM OneTodo == Spec => []OneTodoPerKey
  <1>1. IInv => OneTodoPerKey
    <2> SUFFICES ASSUME IInv, NEW k \in Key \ unsafe,
                        NEW i \in todosOf[k], NEW j \in todosOf[k]
                 PROVE  i = j
      BY DEF OneTodoPerKey
    <2>1. KeyInv(k)
      BY DEF IInv
    <2> QED
      BY <2>1 DEF KeyInv
  <1> QED
    BY <1>1, InvInit, InvStep, PTL DEF Spec
-----------------------------------------------------------------------------
(***************************************************************************)
(* Whatever has been overrun, nobody is told of another key's todo; with   *)
(* IInv, the middleware implements OncePerKey.                             *)
(***************************************************************************)

\* What is kept or about to be told for a key was made for it.
OwnInv ==
    /\ answer \in [Request -> TodoID \cup {NoAnswer, Error}]
    /\ \A k \in Key : record[k] # NoRecord => record[k] \in todosOf[k]
    /\ \A r \in Request :
          /\ pc[r] \in {"record", "reply"} => made[r] \in todosOf[key[r]]
          /\ pc[r] = "create" => answer[r] \notin TodoID
          /\ answer[r] \in TodoID => answer[r] \in todosOf[key[r]]

LEMMA OwnInit == Init => OwnInv
  BY MarkersAreNoIDs DEF Init, OwnInv

LEMMA OwnStep == KeyTypeOK /\ OwnInv /\ [Next]_vars => OwnInv'
  <1> SUFFICES ASSUME KeyTypeOK, OwnInv, [Next]_vars PROVE OwnInv'
    OBVIOUS
  <1> USE MarkersAreNoIDs DEF KeyTypeOK, OwnInv, Goto, Answer
  <1>1. ASSUME NEW r \in Request, NEW k \in Key, Replay(r, k)
        PROVE  OwnInv'
    BY <1>1 DEF Replay
  <1>2. ASSUME NEW r \in Request, NEW k \in Key, Miss(r, k)
        PROVE  OwnInv'
    BY <1>2 DEF Miss
  <1>3. ASSUME NEW r \in Request, CreateTodo(r)
        PROVE  OwnInv'
    <2>1. PICK i \in TodoID :
             /\ made' = [made EXCEPT ![r] = i]
             /\ todosOf' = [todosOf EXCEPT ![key[r]] = @ \cup {i}]
      BY <1>3 DEF CreateTodo
    <2>2. \A k \in Key : todosOf[k] \subseteq todosOf'[k]
      BY <2>1
    <2>3. i \in todosOf'[key[r]]
      BY <2>1
    <2> QED
      BY <1>3, <2>1, <2>2, <2>3 DEF CreateTodo
  <1>4. ASSUME NEW r \in Request, CreateRefused(r)
        PROVE  OwnInv'
    BY <1>4 DEF CreateRefused
  <1>5. ASSUME NEW r \in Request, CreateUnseen(r)
        PROVE  OwnInv'
    <2>1. \A k \in Key : todosOf[k] \subseteq todosOf'[k]
      BY <1>5 DEF CreateUnseen
    <2> QED
      BY <1>5, <2>1 DEF CreateUnseen
  <1>6. ASSUME NEW r \in Request, SetRecord(r)
        PROVE  OwnInv'
    BY <1>6 DEF SetRecord
  <1>7. ASSUME NEW r \in Request, SetRecordFails(r)
        PROVE  OwnInv'
    BY <1>7 DEF SetRecordFails
  <1>8. ASSUME NEW r \in Request, Reply(r)
        PROVE  OwnInv'
    BY <1>8 DEF Reply
  <1>9. ASSUME NEW k \in Key, Expire(k)
        PROVE  OwnInv'
    BY <1>9 DEF Expire
  <1>10. CASE Crash
    BY <1>10 DEF Crash
  <1>11. CASE UNCHANGED vars
    BY <1>11 DEF vars
  <1> QED
    BY <1>1, <1>2, <1>3, <1>4, <1>5, <1>6, <1>7, <1>8, <1>9, <1>10, <1>11 DEF Next

\* IdempotencyMiddleware: a 201 names a todo made for its key, and the one todo of the
\* key while its protection was not overrun.
THEOREM AnswersNameTheTodo == Spec => []AnswersAgree
  <1>1. IInv /\ OwnInv => AnswersAgree
    <2> SUFFICES ASSUME IInv, OwnInv, NEW r \in Request, answer[r] \in TodoID,
                        key[r] \notin unsafe
                 PROVE  todosOf[key[r]] = {answer[r]}
      BY DEF AnswersAgree, OwnInv
    <2>1. key[r] \in Key /\ answer[r] \in todosOf[key[r]]
      BY DEF IInv, KeyTypeOK, OwnInv
    <2>2. KeyInv(key[r])
      BY <2>1 DEF IInv
    <2> QED
      BY <2>1, <2>2 DEF KeyInv
  <1>2. IInv => KeyTypeOK
    BY DEF IInv
  <1> QED
    BY <1>1, <1>2, InvInit, InvStep, OwnInit, OwnStep, PTL DEF Spec

-----------------------------------------------------------------------------
(***************************************************************************)
(* Types.  They need the tables' own: the row that the handler makes is a  *)
(* todo because its owner is a user.                                       *)
(***************************************************************************)

TypeInv == KeyTypeOK /\ OwnInv /\ TablesTypeOK /\ unsafe \subseteq Key

LEMMA TypeStep == TypeInv /\ [Next]_vars => TablesTypeOK' /\ (unsafe \subseteq Key)'
  <1> SUFFICES ASSUME TypeInv, [Next]_vars
               PROVE  TablesTypeOK' /\ unsafe' \subseteq Key
    OBVIOUS
  <1> USE DEF TypeInv, KeyTypeOK, MarkUnsafe
  <1>1. ASSUME UNCHANGED tables
        PROVE  TablesTypeOK'
    BY <1>1 DEF tables, TablesTypeOK
  <1>2. ASSUME NEW r \in Request, CreateTodo(r) \/ CreateUnseen(r)
        PROVE  TablesTypeOK'
    <2>1. PICK i \in TodoID, title \in Title, u \in User : InsertTodo(i, title, u)
      BY <1>2 DEF CreateTodo, CreateUnseen
    <2> QED
      BY <2>1, InsertFacts
  <1>3. TablesTypeOK'
    BY <1>1, <1>2 DEF Next, vars, Replay, Miss, CreateRefused, SetRecord, SetRecordFails,
                      Reply, Expire, Crash
  <1>4. unsafe' \subseteq Key
    <2>1. ASSUME NEW r \in Request, NEW k \in Key, Replay(r, k) \/ Miss(r, k)
          PROVE  unsafe' \subseteq Key
      BY <2>1 DEF Replay, Miss
    <2>2. ASSUME NEW r \in Request,
                 CreateTodo(r) \/ CreateRefused(r) \/ CreateUnseen(r) \/ SetRecord(r)
                     \/ SetRecordFails(r) \/ Reply(r)
          PROVE  unsafe' \subseteq Key
      BY <2>2 DEF CreateTodo, CreateRefused, CreateUnseen, SetRecord, SetRecordFails, Reply
    <2>3. CASE (\E k \in Key : Expire(k)) \/ Crash \/ UNCHANGED vars
      BY <2>3 DEF Expire, Crash, vars
    <2> QED
      BY <2>1, <2>2, <2>3 DEF Next
  <1> QED
    BY <1>3, <1>4

\* IdempotencyMiddleware, its record and the tables behind it have their types, for any
\* number of requests, keys, todos and users.
THEOREM TypeCorrect == Spec => []TypeOK
  <1>1. Init => TypeInv
    <2> SUFFICES ASSUME Init PROVE TypeInv
      OBVIOUS
    <2>1. KeyTypeOK /\ OwnInv
      BY InvInit, OwnInit DEF IInv
    <2>2. TablesTypeOK /\ unsafe \subseteq Key
      BY TablesStart DEF Init
    <2> QED
      BY <2>1, <2>2 DEF TypeInv
  <1>2. TypeInv => TypeOK
    BY DEF TypeInv, KeyTypeOK, OwnInv, TypeOK
  <1>3. IInv /\ TypeInv /\ [Next]_vars => TypeInv'
    BY TypeStep, OwnStep, InvStep DEF TypeInv, IInv
  <1> QED
    BY <1>1, <1>2, <1>3, InvInit, InvStep, PTL DEF Spec

\* Told changes with the answer of one request and its key.
LEMMA ToldChanges ==
    ASSUME KeyTypeOK, OwnInv, NEW r \in Request,
           \A q \in Request \ {r} : answer'[q] = answer[q] /\ key'[q] = key[q]
    PROVE  [q \in Request |-> Told(q)'] = [[q \in Request |-> Told(q)] EXCEPT ![r] = Told(r)']
  BY DEF Told

LEMMA StepRefines ==
    ASSUME IInv, OwnInv, Next
    PROVE  [Once!Next]_Once!onceVars
  <1> USE MarkersAreNoIDs DEF Answer
  <1>t. KeyTypeOK
    BY DEF IInv
  <1> DEFINE told == [r \in Request |-> Told(r)]
  <1>s. ASSUME answer' = answer, key' = key PROVE told' = told
    BY <1>s DEF Told
  <1>1. ASSUME NEW r \in Request, NEW k \in Key, Replay(r, k)
        PROVE  Once!Next
    <2>1. record[k] \in todosOf[k] /\ record[k] \in TodoID
      BY <1>t, <1>1 DEF Replay, OwnInv, KeyTypeOK
    <2>2. Told(r)' = <<k, record[k]>>
      BY <1>t, <1>1, <2>1 DEF Replay, Told, OwnInv, KeyTypeOK
    <2>3. \A q \in Request \ {r} : answer'[q] = answer[q] /\ key'[q] = key[q]
      BY <1>t, <1>1 DEF Replay, OwnInv, KeyTypeOK
    <2>4. told' = [told EXCEPT ![r] = <<k, record[k]>>]
      BY <1>t, <2>2, <2>3, ToldChanges
    <2>5. Once!Tell(r, k, record[k])
      BY <1>1, <2>1, <2>4 DEF Once!Tell, Replay
    <2> QED
      BY <1>1, <2>1, <2>5 DEF Once!Next, Replay
  <1>2. ASSUME NEW r \in Request, NEW k \in Key, Miss(r, k)
        PROVE  Once!Next
    <2>1. Told(r)' = NoAnswer
      BY <1>2 DEF Miss, Told, OwnInv
    <2>2. \A q \in Request \ {r} : answer'[q] = answer[q] /\ key'[q] = key[q]
      BY <1>t, <1>2 DEF Miss, OwnInv, KeyTypeOK
    <2>3. Once!Ask(r)
      BY <1>t, <1>2, <2>1, <2>2, ToldChanges DEF Once!Ask, Miss
    <2> QED
      BY <1>2, <2>3 DEF Once!Next, Miss
  <1>3. ASSUME NEW r \in Request, CreateTodo(r)
        PROVE  Once!Next
    <2>1. PICK i \in TodoID : todosOf' = [todosOf EXCEPT ![key[r]] = @ \cup {i}]
      BY <1>3 DEF CreateTodo
    <2>2. key[r] \in Key /\ pc[r] = "create"
      BY <1>t, <1>3 DEF CreateTodo, KeyTypeOK
    <2>3. key[r] \in unsafe \/ todosOf[key[r]] = {}
      BY <2>2 DEF IInv, KeyInv, Working
    <2>4. told' = told
      BY <1>3, <1>s DEF CreateTodo
    <2>5. Once!Make(key[r], i)
      BY <1>3, <2>1, <2>3, <2>4 DEF Once!Make, CreateTodo
    <2> QED
      BY <1>3, <2>2, <2>5 DEF Once!Next, CreateTodo
  <1>4. ASSUME NEW r \in Request, CreateRefused(r)
        PROVE  Once!Next
    <2>1. Told(r)' = NoAnswer
      BY <1>4 DEF CreateRefused, Told, OwnInv
    <2>2. \A q \in Request \ {r} : answer'[q] = answer[q] /\ key'[q] = key[q]
      BY <1>t, <1>4 DEF CreateRefused, OwnInv, KeyTypeOK
    <2>3. Once!Ask(r)
      BY <1>t, <1>4, <2>1, <2>2, ToldChanges DEF Once!Ask, CreateRefused
    <2> QED
      BY <1>4, <2>3 DEF Once!Next, CreateRefused
  <1>5. ASSUME NEW r \in Request, CreateUnseen(r)
        PROVE  Once!Next
    <2>1. PICK i \in TodoID : todosOf' = [todosOf EXCEPT ![key[r]] = @ \cup {i}]
      BY <1>5 DEF CreateUnseen
    <2>2. key[r] \in Key /\ key[r] \in unsafe' /\ unsafe \subseteq unsafe'
      BY <1>t, <1>5 DEF CreateUnseen, KeyTypeOK, MarkUnsafe
    <2>3. Told(r)' = NoAnswer /\ Told(r) = NoAnswer
      BY <1>5 DEF CreateUnseen, Told, OwnInv
    <2>4. \A q \in Request \ {r} : answer'[q] = answer[q] /\ key'[q] = key[q]
      BY <1>t, <1>5 DEF CreateUnseen, OwnInv, KeyTypeOK
    <2>5. told' = told
      BY <2>3, <2>4 DEF Told
    <2>6. Once!Make(key[r], i)
      BY <2>1, <2>2, <2>5 DEF Once!Make
    <2> QED
      BY <2>2, <2>6 DEF Once!Next
  <1>6. ASSUME todosOf' = todosOf, answer' = answer, key' = key, unsafe \subseteq unsafe'
        PROVE  [Once!Next]_Once!onceVars
    <2>1. told' = told
      BY <1>6, <1>s
    <2> QED
      BY <1>6, <2>1 DEF Once!Next, Once!Overrun, Once!onceVars
  <1>7. ASSUME NEW r \in Request, Reply(r)
        PROVE  Once!Next
    <2>1. key[r] \in Key /\ made[r] \in todosOf[key[r]] /\ made[r] \in TodoID
      BY <1>t, <1>7 DEF Reply, OwnInv, KeyTypeOK
    <2>2. Told(r)' = <<key[r], made[r]>>
      BY <1>7, <2>1 DEF Reply, Told, OwnInv
    <2>3. \A q \in Request \ {r} : answer'[q] = answer[q] /\ key'[q] = key[q]
      BY <1>t, <1>7 DEF Reply, OwnInv, KeyTypeOK
    <2>4. told' = [told EXCEPT ![r] = <<key[r], made[r]>>]
      BY <1>t, <2>2, <2>3, ToldChanges
    <2>5. Once!Tell(r, key[r], made[r])
      BY <1>7, <2>1, <2>4 DEF Once!Tell, Reply
    <2> QED
      BY <1>7, <2>1, <2>5 DEF Once!Next, Reply
  <1>8. ASSUME NEW r \in Request, SetRecord(r) \/ SetRecordFails(r)
        PROVE  [Once!Next]_Once!onceVars
    BY <1>8, <1>6 DEF SetRecord, SetRecordFails, MarkUnsafe
  <1>9. ASSUME NEW k \in Key, Expire(k)
        PROVE  [Once!Next]_Once!onceVars
    BY <1>9, <1>6 DEF Expire, MarkUnsafe
  <1>10. CASE Crash
    BY <1>10, <1>6 DEF Crash
  <1> QED
    BY <1>1, <1>2, <1>3, <1>4, <1>5, <1>7, <1>8, <1>9, <1>10 DEF Next

\* IdempotencyMiddleware implements OncePerKey: every step of the Redis record, the
\* handler and the failures makes at most one todo of a key, tells one of its todos,
\* or is nothing to the client.
THEOREM MiddlewareImplementsOnce == Spec => ImplementsOnce
  <1>1. Init => Once!Init
    BY MarkersAreNoIDs DEF Init, Once!Init, Told
  <1>2. IInv /\ OwnInv /\ [Next]_vars => [Once!Next]_Once!onceVars
    <2>1. CASE UNCHANGED vars
      BY <2>1 DEF vars, Once!onceVars, Told
    <2> QED
      BY <2>1, StepRefines
  <1>3. IInv => KeyTypeOK
    BY DEF IInv
  <1> QED
    BY <1>1, <1>2, <1>3, InvInit, InvStep, OwnInit, OwnStep, PTL
       DEF Spec, ImplementsOnce, Once!Spec
=============================================================================
