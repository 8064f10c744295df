-------------------------- MODULE TodoTableProofs --------------------------
(***************************************************************************)
(* What each statement does to the tables: lemmas that the proofs about    *)
(* the modules above TodoTable share.                                      *)
(***************************************************************************)
EXTENDS TodoTable, TLAPS

\* INSERT keeps the tables well formed and changes the row of its id only.
LEMMA InsertFacts ==
    ASSUME TablesTypeOK, NEW i \in TodoID, NEW title \in Title, NEW u \in User,
           InsertTodo(i, title, u)
    PROVE  /\ TablesTypeOK'
           /\ NewTodo(i, title, u) \in Todo
           /\ todos'[i] = NewTodo(i, title, u)
           /\ \A j \in TodoID \ {i} : todos'[j] = todos[j]
  <1>1. NewTodo(i, title, u) \in Todo
    BY DEF NewTodo, Todo
  <1>2. todos' \in Rows
    BY <1>1 DEF InsertTodo, TablesTypeOK, Rows
  <1>3. past' \in [TodoID -> SUBSET (Todo \cup {Absent})]
    BY <1>2 DEF InsertTodo, Record, TablesTypeOK, Rows
  <1> QED
    BY <1>1, <1>2, <1>3 DEF InsertTodo, TablesTypeOK, Rows

\* UPDATE finds a row, leaves a row and changes the row of its id only.
LEMMA UpdateFacts ==
    ASSUME TablesTypeOK, NEW i \in TodoID, NEW title \in Title,
           NEW completed \in BOOLEAN, UpdateTodo(i, title, completed)
    PROVE  /\ TablesTypeOK'
           /\ todos'[i] \in Todo
           /\ \A j \in TodoID \ {i} : todos'[j] = todos[j]
  <1>1. todos[i] \in Todo
    BY DEF UpdateTodo, TablesTypeOK, Rows
  <1>2. [todos[i] EXCEPT !.title = title, !.completed = completed] \in Todo
    BY <1>1 DEF Todo
  <1>3. todos' \in Rows
    BY <1>2 DEF UpdateTodo, TablesTypeOK, Rows
  <1>4. past' \in [TodoID -> SUBSET (Todo \cup {Absent})]
    BY <1>3 DEF UpdateTodo, Record, TablesTypeOK, Rows
  <1> QED
    BY <1>2, <1>3, <1>4 DEF UpdateTodo, TablesTypeOK, Rows

\* DELETE leaves no row and changes the row of its id only.
LEMMA DeleteFacts ==
    ASSUME TablesTypeOK, NEW i \in TodoID, DeleteTodo(i)
    PROVE  /\ TablesTypeOK'
           /\ todos'[i] = Absent
           /\ \A j \in TodoID \ {i} : todos'[j] = todos[j]
  <1>1. todos' \in Rows
    BY DEF DeleteTodo, TablesTypeOK, Rows
  <1>2. past' \in [TodoID -> SUBSET (Todo \cup {Absent})]
    BY <1>1 DEF DeleteTodo, Record, TablesTypeOK, Rows
  <1> QED
    BY <1>1, <1>2 DEF DeleteTodo, TablesTypeOK, Rows

\* The cascade of DELETE FROM users makes no row and removes none.
LEMMA DeleteUserFacts ==
    ASSUME TablesTypeOK, NEW u, DeleteUser(u)
    PROVE  /\ TablesTypeOK'
           /\ \A i \in TodoID : todos'[i] = Absent <=> todos[i] = Absent
  <1>1. ASSUME NEW i \in TodoID, todos[i] # Absent
        PROVE  [todos[i] EXCEPT !.userID = NULL] \in Todo
    BY <1>1 DEF TablesTypeOK, Rows, Todo
  <1>2. todos' \in Rows
    BY <1>1 DEF DeleteUser, TablesTypeOK, Rows
  <1>3. past' \in [TodoID -> SUBSET (Todo \cup {Absent})]
    BY <1>2 DEF DeleteUser, Record, TablesTypeOK, Rows
  <1>4. \A i \in TodoID : todos'[i] = Absent <=> todos[i] = Absent
    BY <1>1, MarkersAreNoValues DEF DeleteUser, TablesTypeOK, Rows
  <1> QED
    BY <1>2, <1>3, <1>4 DEF DeleteUser, TablesTypeOK

\* The empty table is a table.
LEMMA NoRowsIsRows == NoRows \in Rows
  BY DEF NoRows, Rows

\* Tables without todos, and with every user, are tables.
LEMMA TablesStart == TablesInit => TablesTypeOK
  BY DEF TablesInit, TablesTypeOK, Rows
=============================================================================
