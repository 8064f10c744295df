----------------------------- MODULE TodoTable -----------------------------
(***************************************************************************)
(* The PostgreSQL tables behind the todo service and the statements that   *)
(* PostgresTodoRepository and PostgresUserRepository run on them.  Every   *)
(* statement is a transaction of its own, so each is one atomic change.    *)
(***************************************************************************)
EXTENDS FiniteSets

CONSTANTS
    TodoID,     \* the UUIDs that uuid.New() may draw
    Title,      \* todo titles, after trimming and the "title is required" test
    User,       \* the ids of the users registered before the behaviour starts
    NULL,       \* SQL NULL, the nil *string of model.Todo.UserID
    Absent      \* no row: sql.ErrNoRows, and a lookup that finds nothing

\* model.Todo
Todo == [id : TodoID, title : Title, completed : BOOLEAN, userID : User \cup {NULL}]

\* The contents of table todos, by primary key.
Rows == [TodoID -> Todo \cup {Absent}]

\* The two markers are no values of the program.
ASSUME MarkersAreNoValues ==
    /\ Absent \notin Todo
    /\ NULL \notin User

VARIABLES
    users,      \* the ids in table users
    todos,      \* table todos
    past        \* history: past[i] is every state row i has been in

tables == <<users, todos, past>>

TablesTypeOK ==
    /\ users \subseteq User
    /\ todos \in Rows
    /\ past \in [TodoID -> SUBSET (Todo \cup {Absent})]

TablesInit ==
    /\ users = User
    /\ todos = [i \in TodoID |-> Absent]
    /\ past = [i \in TodoID |-> {Absent}]

NoRows == [i \in TodoID |-> Absent]

\* uuid.New() never returns an id twice.
Fresh(i) == past[i] = {Absent}

\* The history follows whatever a statement has made of the table.
Record == past' = [i \in TodoID |-> past[i] \cup {todos'[i]}]

NewTodo(i, title, u) == [id |-> i, title |-> title, completed |-> FALSE, userID |-> u]

\* INSERT INTO todos; the foreign key of migration 4 refuses an unknown owner.
InsertTodo(i, title, u) ==
    /\ Fresh(i)
    /\ u \in users
    /\ todos' = [todos EXCEPT ![i] = NewTodo(i, title, u)]
    /\ Record
    /\ UNCHANGED users

\* UPDATE todos SET title, completed WHERE id = i, when the row is there.
UpdateTodo(i, title, completed) ==
    /\ todos[i] # Absent
    /\ todos' = [todos EXCEPT ![i] = [todos[i] EXCEPT !.title = title,
                                                      !.completed = completed]]
    /\ Record
    /\ UNCHANGED users

\* DELETE FROM todos WHERE id = i, when the row is there.
DeleteTodo(i) ==
    /\ todos[i] # Absent
    /\ todos' = [todos EXCEPT ![i] = Absent]
    /\ Record
    /\ UNCHANGED users

\* DELETE FROM users; ON DELETE SET NULL clears the owner in the same transaction.
DeleteUser(u) ==
    /\ u \in users
    /\ users' = users \ {u}
    /\ todos' = [i \in TodoID |->
                    IF todos[i] # Absent /\ todos[i].userID = u
                    THEN [todos[i] EXCEPT !.userID = NULL]
                    ELSE todos[i]]
    /\ Record
=============================================================================
