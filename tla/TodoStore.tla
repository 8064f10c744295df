----------------------------- MODULE TodoStore -----------------------------
(***************************************************************************)
(* What TodoService promises its callers: repository.TodoRepository with   *)
(* every call atomic, as if the service were wired to the bare             *)
(* PostgresTodoRepository.  `result' is what the latest call of each       *)
(* request goroutine answered.                                             *)
(*                                                                         *)
(* Spec is the exact store.  StaleSpec is what is left of it when requests *)
(* overlap a cache, users are deleted or statements fail: changes of the   *)
(* table stay exact, while a read may answer with an earlier state of the  *)
(* rows it reads, never with anything a row never was.                     *)
(***************************************************************************)
EXTENDS TodoTable

CONSTANTS
    Worker,         \* goroutines that serve requests, one request at a time each
    DeletableUser,  \* the users that may be deleted during the behaviour
    Faults,         \* how a statement may go wrong, beside refusing
    NoResult, Failed, Deleted   \* no answer yet, an error, success of Delete

VARIABLES result

\* What a call answers: a todo, a list of todos, or one of the markers.
Item(todo) == [item |-> todo]
List(rows) == [list |-> rows]
Result == [item : Todo] \cup [list : Rows] \cup {NoResult, Failed, Deleted}

storeVars == <<tables, result>>

Answer(w, v) == result' = [result EXCEPT ![w] = v]

StoreInit ==
    /\ TablesInit
    /\ result = [w \in Worker |-> NoResult]

Create(w) ==
    \/ \E i \in TodoID, title \in Title, u \in User :
          /\ InsertTodo(i, title, u)
          /\ Answer(w, Item(NewTodo(i, title, u)))
    \/ \E u \in User \ users :
          /\ Answer(w, Failed)
          /\ UNCHANGED tables

GetByID(w, i) ==
    /\ Answer(w, IF todos[i] = Absent THEN Failed ELSE Item(todos[i]))
    /\ UNCHANGED tables

GetAll(w) ==
    /\ Answer(w, List(todos))
    /\ UNCHANGED tables

Update(w, i) ==
    \/ \E title \in Title, completed \in BOOLEAN :
          /\ UpdateTodo(i, title, completed)
          /\ Answer(w, Item(todos'[i]))
    \/ /\ todos[i] = Absent
       /\ Answer(w, Failed)
       /\ UNCHANGED tables

Delete(w, i) ==
    \/ /\ DeleteTodo(i)
       /\ Answer(w, Deleted)
    \/ /\ todos[i] = Absent
       /\ Answer(w, Failed)
       /\ UNCHANGED tables

\* The process ends and starts again: answers are lost, tables are not.
Restart ==
    /\ result' = [w \in Worker |-> NoResult]
    /\ UNCHANGED tables

StoreNext ==
    \/ \E w \in Worker :
          \/ Create(w)
          \/ GetAll(w)
          \/ \E i \in TodoID : GetByID(w, i) \/ Update(w, i) \/ Delete(w, i)
    \/ Restart

Spec == StoreInit /\ [][StoreNext]_storeVars

-----------------------------------------------------------------------------
\* A read by id that answers with some state the row has been in.
StaleGetByID(w, i) ==
    /\ \E v \in past[i] \ {Absent} : Answer(w, Item(v))
    /\ UNCHANGED tables

\* A list each entry of which is, or was, the state of its row.
StaleGetAll(w) ==
    /\ \E rows \in Rows :
          /\ \A i \in TodoID : rows[i] \in past[i]
          /\ Answer(w, List(rows))
    /\ UNCHANGED tables

\* A statement fails, and the call answers with an error.
Fail(w) ==
    /\ "failed" \in Faults
    /\ Answer(w, Failed)
    /\ UNCHANGED tables

\* A change is made and its acknowledgement lost: the call answers with an error.
Unacknowledged(w) ==
    /\ "lostReply" \in Faults
    /\ \E i \in TodoID :
          \/ \E title \in Title, u \in User : InsertTodo(i, title, u)
          \/ \E title \in Title, completed \in BOOLEAN : UpdateTodo(i, title, completed)
          \/ DeleteTodo(i)
    /\ Answer(w, Failed)

LoseUser ==
    /\ \E u \in DeletableUser : DeleteUser(u)
    /\ UNCHANGED result

StaleNext ==
    \/ StoreNext
    \/ LoseUser
    \/ \E w \in Worker :
          \/ StaleGetAll(w)
          \/ Fail(w)
          \/ Unacknowledged(w)
          \/ \E i \in TodoID : StaleGetByID(w, i)

StaleSpec == StoreInit /\ [][StaleNext]_storeVars
=============================================================================
