-------------------------- MODULE AccountsProofs ---------------------------
(***************************************************************************)
(* Proofs about Accounts: its types, that credentials work, and that no    *)
(* handler is reached without the token it asks for.                       *)
(***************************************************************************)
EXTENDS Accounts, TLAPS

-----------------------------------------------------------------------------
(* Strings. *)

\* TrimSpace leaves no spaces, and changes nothing when there are none.
LEMMA TrimFacts ==
    ASSUME NEW S, NEW s \in Typed(S)
    PROVE  /\ TrimSpace(s) \in Typed(S)
           /\ ~TrimSpace(s).padded
           /\ ~s.padded => TrimSpace(s) = s
  BY DEF Typed, TrimSpace

\* The two ways to take the strings of a Login request.
LEMMA GivenFacts == \A s : HTTP!Given(s) = s /\ GRPC!Given(s) = TrimSpace(s)
  BY DEF HTTP!Given, GRPC!Given, TrimSpace, GRPC!TrimSpace

-----------------------------------------------------------------------------
(* The table. *)

Credentials == [username : Typed(Username), password : Typed(Password)]

\* A row is what its user typed last, without the spaces.
RowIsTyped ==
    \A u \in UserID : Present(u) =>
        /\ typed[u] \in Credentials
        /\ users[u].username = TrimSpace(typed[u].username)
        /\ users[u].password = TrimSpace(typed[u].password)

\* Both columns are unique.
ColumnsAreUnique ==
    \A u, v \in UserID : u # v /\ Present(u) /\ Present(v) =>
        users[u].username # users[v].username /\ users[u].email # users[v].email

\* Login goes on to Sign for a user it found: no token is signed for nobody.
SignsForUser == \A w \in Worker : At(w, "Sign") => pc[w].by \in UserID

TableInv == TypeOK /\ RowIsTyped /\ ColumnsAreUnique /\ SignsForUser

LEMMA TableInit == Init => TableInv
  BY DEF Init, TableInv, TypeOK, Idle, RowIsTyped, ColumnsAreUnique, Present,
     SignsForUser, At

\* A step that leaves the table and what was typed alone.
LEMMA TableStays ==
    TableInv /\ TypeOK' /\ SignsForUser' /\ UNCHANGED <<users, typed>> => TableInv'
  BY DEF TableInv, RowIsTyped, ColumnsAreUnique, Present

LEMMA TableStep == TableInv /\ [Next]_vars => TableInv'
  <1> SUFFICES ASSUME TableInv, [Next]_vars PROVE TableInv'
    OBVIOUS
  <1>t. TypeOK /\ SignsForUser
    BY DEF TableInv
  <1>i. Idle \in [op : Operation \cup {"idle", "Sign"}, by : UserID \cup {Nobody}]
    BY DEF Idle
  <1>d. ASSUME NEW w \in Worker, Done(w)
        PROVE  /\ pc' \in [Worker -> [op : Operation \cup {"idle", "Sign"},
                                     by : UserID \cup {Nobody}]]
               /\ SignsForUser'
    BY <1>t, <1>i, <1>d DEF Done, Idle, TypeOK, SignsForUser, At
  <1>1. ASSUME NEW w \in Worker, Begin(w)
        PROVE  TableInv'
    <2>1. PICK a \in HTTPAdmissions \cup GRPCAdmissions :
             \E by \in IF a.identified THEN tokens ELSE {Nobody} :
                 pc' = [pc EXCEPT ![w] = [op |-> a.op, by |-> by]]
      BY <1>1 DEF Begin
    <2>2. a.op \in Operation /\ a.op # "Sign"
      BY <2>1 DEF HTTPAdmissions, GRPCAdmissions, Operation, UnaryMethod, StreamMethod,
           TodoUnary, AuthUnary, UserUnary, TodoStreams
    <2>3. pc' \in [Worker -> [op : Operation \cup {"idle", "Sign"}, by : UserID \cup {Nobody}]]
      BY <1>t, <2>1, <2>2 DEF TypeOK
    <2>4. SignsForUser'
      BY <1>t, <2>1, <2>2 DEF TypeOK, SignsForUser, At
    <2> QED
      BY <1>1, <1>t, <2>3, <2>4, TableStays DEF Begin, TypeOK
  <1>2. ASSUME NEW w \in Worker, Register(w)
        PROVE  TableInv'
    <2>1. PICK u \in UserID, name \in Typed(Username), email \in Typed(Email),
               password \in Typed(Password) :
             /\ InsertUser(u, TrimSpace(name), TrimSpace(email), TrimSpace(password))
             /\ typed' = [typed EXCEPT ![u] = [username |-> name, password |-> password]]
      BY <1>2 DEF Register
    <2> DEFINE row == [username |-> TrimSpace(name), email |-> TrimSpace(email),
                       password |-> TrimSpace(password)]
    <2>2. row \in Row
      BY TrimFacts DEF Row
    <2>3. users' = [users EXCEPT ![u] = row] /\ Free(u, row.username, row.email)
      BY <2>1 DEF InsertUser
    <2>4. TypeOK' /\ SignsForUser'
      <3> HIDE DEF row
      <3> QED
        BY <1>2, <1>t, <1>d, <2>1, <2>2, <2>3 DEF Register, TypeOK
    <2>5. RowIsTyped'
      BY <1>t, <2>1, <2>3 DEF TableInv, TypeOK, RowIsTyped, Present, Credentials
    <2>6. ColumnsAreUnique'
      <3> HIDE DEF row
      <3> QED
        BY <1>t, <2>3 DEF TableInv, TypeOK, ColumnsAreUnique, Present, Free
    <2> QED
      BY <2>4, <2>5, <2>6 DEF TableInv
  <1>3. ASSUME NEW w \in Worker, UpdateUser(w)
        PROVE  TableInv'
    <2>1. PICK u \in UserID, name \in Typed(Username), email \in Typed(Email) :
             /\ HTTP!UpdateUser(u, TRUE, name, email, TRUE) = 200
             /\ UpdateRow(u, TrimSpace(name), TrimSpace(email))
             /\ typed' = [typed EXCEPT ![u].username = name]
      BY <1>3, Zenon DEF UpdateUser
    <2> DEFINE row == [username |-> TrimSpace(name), email |-> TrimSpace(email),
                       password |-> users[u].password]
    <2> DEFINE given == [username |-> name, password |-> typed[u].password]
    <2>2. users[u] \in Row /\ typed[u] \in Credentials
      BY <1>t, <2>1 DEF UpdateRow, Present, TypeOK, TableInv, RowIsTyped
    <2>3. row \in Row /\ given \in Credentials
      BY <2>2, TrimFacts DEF Row, Credentials
    <2>4. Free(u, row.username, row.email) /\ Present(u)
      BY <2>1 DEF UpdateRow
    <2>5. users' = [users EXCEPT ![u] = row]
      BY <2>1, <1>t DEF UpdateRow, TypeOK
    <2>6. typed' = [typed EXCEPT ![u] = given]
      <3>1. given = [typed[u] EXCEPT !.username = name]
        BY <2>2 DEF Credentials
      <3>2. typed' = [typed EXCEPT ![u] = [typed[u] EXCEPT !.username = name]]
        BY <2>1, <1>t DEF TypeOK
      <3> HIDE DEF given
      <3> QED
        BY <3>1, <3>2
    <2>7. TypeOK' /\ SignsForUser'
      <3> HIDE DEF row, given
      <3>1. users' \in [UserID -> Row \cup {Absent}]
        BY <1>t, <2>3, <2>5 DEF TypeOK
      <3>2. typed' \in [UserID -> Credentials \cup {Absent}]
        BY <1>t, <2>3, <2>6 DEF TypeOK, Credentials
      <3> QED
        BY <1>3, <1>t, <1>d, <3>1, <3>2 DEF UpdateUser, TypeOK, Credentials
    <2>8. RowIsTyped'
      <3>1. /\ row.username = TrimSpace(given.username)
            /\ row.password = TrimSpace(given.password)
        BY <2>1, <2>2 DEF UpdateRow, TableInv, RowIsTyped
      <3> HIDE DEF row, given
      <3> QED
        BY <1>t, <2>3, <2>5, <2>6, <3>1 DEF TableInv, TypeOK, RowIsTyped, Present
    <2>9. ColumnsAreUnique'
      <3> HIDE DEF row
      <3> QED
        BY <1>t, <2>4, <2>5 DEF TableInv, TypeOK, ColumnsAreUnique, Present, Free
    <2> QED
      BY <2>7, <2>8, <2>9 DEF TableInv
  <1>4. ASSUME NEW w \in Worker, DeleteUser(w)
        PROVE  TableInv'
    <2>1. PICK u \in UserID : users' = [users EXCEPT ![u] = Absent]
      BY <1>4 DEF DeleteUser
    <2>2. TypeOK' /\ SignsForUser'
      BY <1>4, <1>t, <1>d, <2>1 DEF DeleteUser, TypeOK
    <2>3. RowIsTyped' /\ ColumnsAreUnique'
      BY <1>4, <1>t, <2>1 DEF DeleteUser, TableInv, TypeOK, RowIsTyped, ColumnsAreUnique, Present
    <2> QED
      BY <2>2, <2>3 DEF TableInv
  <1>5. ASSUME NEW w \in Worker, Login(w)
        PROVE  TableInv'
    <2>1. PICK u \in UserID : pc' = [pc EXCEPT ![w] = [op |-> "Sign", by |-> u]]
      BY <1>5 DEF Login, HTTPAuthenticated, GRPCAuthenticated, Authenticated, ByUsername
    <2>2. TypeOK' /\ SignsForUser'
      BY <1>5, <1>t, <2>1 DEF Login, TypeOK, SignsForUser, At
    <2> QED
      BY <1>5, <2>2, TableStays DEF Login
  <1>6. ASSUME NEW w \in Worker, Sign(w)
        PROVE  TableInv'
    <2>1. pc[w].by \in UserID
      BY <1>6, <1>t DEF Sign, SignsForUser
    <2>2. TypeOK' /\ SignsForUser'
      BY <1>6, <1>t, <1>d, <2>1 DEF Sign, TypeOK
    <2> QED
      BY <1>6, <2>2, TableStays DEF Sign
  <1>7. ASSUME NEW w \in Worker, Refresh(w) \/ Serve(w)
        PROVE  TableInv'
    <2>1. TypeOK' /\ SignsForUser'
      BY <1>7, <1>t, <1>d DEF Refresh, Serve, TypeOK
    <2> QED
      BY <1>7, <2>1, TableStays DEF Refresh, Serve
  <1>8. ASSUME NEW w \in Worker, Panic(w)
        PROVE  TableInv'
    <2>1. TypeOK' /\ SignsForUser'
      BY <1>8, <1>t, <1>i DEF Panic, TypeOK, SignsForUser, At, Idle
    <2> QED
      BY <1>8, <2>1, TableStays DEF Panic
  <1>9. ASSUME NEW u \in UserID, Expire(u)
        PROVE  TableInv'
    <2>1. TypeOK' /\ SignsForUser'
      BY <1>9, <1>t DEF Expire, TypeOK, SignsForUser, At
    <2> QED
      BY <1>9, <2>1, TableStays DEF Expire
  <1>10. CASE UNCHANGED vars
    BY <1>10, <1>t, TableStays DEF vars, TypeOK, SignsForUser, At
  <1> QED
    BY <1>1, <1>2, <1>3, <1>4, <1>5, <1>6, <1>7, <1>8, <1>9, <1>10 DEF Next

LEMMA TableAlways == Spec => []TableInv
  BY TableInit, TableStep, PTL DEF Spec

\* The types are right: no token is signed for a user who was never drawn.
THEOREM TypeCorrect == Spec => []TypeOK
  BY TableAlways, PTL DEF TableInv

\* Who has an account can log in with what he typed, over gRPC always and over HTTP
\* unless he typed spaces around it, for any number of users and concurrent requests.
THEOREM CredentialsAlwaysWork == Spec => []CredentialsWork
  <1>1. TableInv => CredentialsWork
    <2> SUFFICES ASSUME TableInv, NEW u \in UserID, Present(u)
                 PROVE  LET name == typed[u].username
                            password == typed[u].password
                        IN  /\ GRPCAuthenticated(name, password) = {u}
                            /\ HTTPAuthenticated(name, password) =
                                 IF name.padded \/ password.padded THEN {} ELSE {u}
      BY DEF CredentialsWork
    <2> DEFINE name == typed[u].username
               password == typed[u].password
    <2>1. /\ name \in Typed(Username) /\ users[u].username = TrimSpace(name)
          /\ password \in Typed(Password) /\ users[u].password = TrimSpace(password)
      BY DEF TableInv, RowIsTyped, Credentials
    <2>2. \A v \in UserID : Present(v) =>
             /\ ~users[v].username.padded /\ ~users[v].password.padded
             /\ v # u => users[v].username # TrimSpace(name)
      BY <2>1, TrimFacts DEF TableInv, RowIsTyped, ColumnsAreUnique, Credentials
    <2>3. /\ ~name.padded => TrimSpace(name) = name
          /\ ~password.padded => TrimSpace(password) = password
      BY <2>1, TrimFacts
    <2>4. GRPCAuthenticated(name, password) = Authenticated(TrimSpace(name), TrimSpace(password))
      BY GivenFacts DEF GRPCAuthenticated
    <2>5. HTTPAuthenticated(name, password) = Authenticated(name, password)
      BY GivenFacts DEF HTTPAuthenticated
    <2> HIDE DEF name, password
    <2>6. Authenticated(TrimSpace(name), TrimSpace(password)) = {u}
      BY <2>1, <2>2 DEF Authenticated, ByUsername
    <2>7. name.padded \/ password.padded => Authenticated(name, password) = {}
      BY <2>2 DEF Authenticated, ByUsername
    <2> QED
      BY <2>3, <2>4, <2>5, <2>6, <2>7 DEF name, password
  <1> QED
    BY <1>1, TableAlways, PTL

-----------------------------------------------------------------------------
(* The doors. *)

\* What a handler that switches on the method may be.
LEMMA SwitchFacts ==
    ASSUME NEW m \in Method, NEW a, NEW b, NEW c
    PROVE  /\ \/ Switch(Collection(a, b), m) \in {a, "methodNotAllowed"} /\ m # "POST"
              \/ Switch(Collection(a, b), m) = b /\ m = "POST"
           /\ Switch(Item(a, b, c), m) \in {a, b, c, "methodNotAllowed"}
  BY DEF Switch, Collection, Item, Method

\* The mux and the list of public paths agree: a path that leads to an operation of the
\* services is public exactly if the operation is, and no other path leads to one.
MuxAndListAgree(r) ==
    \/ Mux(r) \in {"Hello", "swagger", "redirect", "methodNotAllowed"}
    \/ /\ Mux(r) \in UnaryMethod \cup {"UpdateUser", "DeleteUser"}
       /\ isPublicPath(r) <=> Mux(r) \in publicMethods

\* The segment behind a trailing slash is none of the others.
LEMMA BlankFacts ==
    Blank \notin {"todos", "users", "auth", "swagger", "swaggers", "id", "index", "login",
                 "refresh", "logout", "other"}
  BY Zenon DEF Blank

LEMMA EveryPath == ASSUME NEW r \in HTTPRequest PROVE MuxAndListAgree(r)
  <1> DEFINE todos == Switch(Collection("ListTodos", "CreateTodo"), r.method)
             todo == Switch(Item("GetTodo", "UpdateTodo", "DeleteTodo"), r.method)
             people == Switch(Collection("ListUsers", "Register"), r.method)
             person == Switch(Item("GetUser", "UpdateUser", "DeleteUser"), r.method)
  <1>m. r.method \in Method
    BY DEF HTTPRequest
  <1>t. /\ todos \in {"ListTodos", "CreateTodo", "methodNotAllowed"}
        /\ todo \in {"GetTodo", "UpdateTodo", "DeleteTodo", "methodNotAllowed"}
        /\ \/ people \in {"ListUsers", "methodNotAllowed"} /\ r.method # "POST"
           \/ people = "Register" /\ r.method = "POST"
        /\ person \in {"GetUser", "UpdateUser", "DeleteUser", "methodNotAllowed"}
    BY <1>m, SwitchFacts
  <1> HIDE DEF todos, todo, people, person
  <1> USE DEF MuxAndListAgree, UnaryMethod, TodoUnary, AuthUnary, UserUnary, publicMethods
  <1>1. CASE r.path = <<Blank>>
    BY BlankFacts, <1>1 DEF Mux, Under
  <1>2. CASE r.path = <<"other">>
    BY <1>2 DEF Mux, Under
  <1>3. CASE r.path = <<"todos">>
    <2>1. ~isPublicPath(r) /\ Mux(r) = todos
      BY BlankFacts, <1>3 DEF Mux, Under, isPublicPath, FullyPublic, todos
    <2> QED
      BY <1>t, <2>1
  <1>4. CASE r.path = <<"todos", Blank>>
    <2>1. ~isPublicPath(r) /\ Mux(r) = todo
      BY BlankFacts, <1>4 DEF Mux, Under, isPublicPath, FullyPublic, todo
    <2> QED
      BY <1>t, <2>1
  <1>5. CASE r.path = <<"todos", "id">>
    <2>1. ~isPublicPath(r) /\ Mux(r) = todo
      BY <1>5 DEF Mux, Under, isPublicPath, FullyPublic, todo
    <2> QED
      BY <1>t, <2>1
  <1>6. CASE r.path = <<"todos", "id", "more">>
    <2>1. ~isPublicPath(r) /\ Mux(r) = todo
      BY <1>6 DEF Mux, Under, isPublicPath, FullyPublic, todo
    <2> QED
      BY <1>t, <2>1
  <1>7. CASE r.path = <<"users">>
    <2>1. (isPublicPath(r) <=> r.method = "POST") /\ Mux(r) = people
      BY BlankFacts, <1>7 DEF Mux, Under, isPublicPath, FullyPublic, people
    <2> QED
      BY <1>t, <2>1
  <1>8. CASE r.path = <<"users", Blank>>
    <2>1. ~isPublicPath(r) /\ Mux(r) = person
      BY BlankFacts, <1>8 DEF Mux, Under, isPublicPath, FullyPublic, person
    <2> QED
      BY <1>t, <2>1
  <1>9. CASE r.path = <<"users", "id">>
    <2>1. ~isPublicPath(r) /\ Mux(r) = person
      BY <1>9 DEF Mux, Under, isPublicPath, FullyPublic, person
    <2> QED
      BY <1>t, <2>1
  <1>10. CASE r.path = <<"auth", "login">>
    BY <1>10 DEF Mux, Under, isPublicPath, FullyPublic
  <1>11. CASE r.path = <<"auth", "refresh">>
    BY <1>11 DEF Mux, Under, isPublicPath, FullyPublic
  <1>12. CASE r.path = <<"auth", "logout">>
    BY <1>12 DEF Mux, Under, isPublicPath, FullyPublic
  <1>13. CASE r.path = <<"auth", "other">>
    BY <1>13 DEF Mux, Under
  <1>14. CASE r.path = <<"swagger">>
    BY <1>14 DEF Mux, Under
  <1>15. CASE r.path = <<"swagger", Blank>>
    BY BlankFacts, <1>15 DEF Mux, Under
  <1>16. CASE r.path = <<"swagger", "index">>
    BY <1>16 DEF Mux, Under
  <1>17. CASE r.path = <<"swaggers">>
    BY <1>17 DEF Mux, Under
  <1> QED
    BY <1>1, <1>2, <1>3, <1>4, <1>5, <1>6, <1>7, <1>8,
       <1>9, <1>10, <1>11, <1>12, <1>13, <1>14, <1>15, <1>16, <1>17 DEF HTTPRequest, Path

\* Who is let through to an operation, by whatever transport, path and method: for
\* nobody only to one that a client without an account needs, and to one that both
\* transports offer for nobody exactly if it is public.
LEMMA Doors ==
    \A a \in HTTPAdmissions \cup GRPCAdmissions :
        /\ a.op \in Operation
        /\ a.op \notin OpenOperation => a.identified = TRUE
        /\ a.op \in UnaryMethod \cup StreamMethod =>
              (a.identified <=> a.op \notin publicMethods)
  <1> USE DEF UnaryMethod, StreamMethod, TodoUnary, AuthUnary, UserUnary, TodoStreams,
        publicMethods, OpenOperation
  <1>1. ASSUME NEW a \in HTTPAdmissions
        PROVE  /\ a.op \in Operation
               /\ a.op \notin OpenOperation => a.identified
               /\ a.op \in UnaryMethod \cup StreamMethod =>
                     (a.identified <=> a.op \notin publicMethods)
    <2>1. PICK r \in HTTPRequest :
             /\ HTTPAnswer(r) \in Operation
             /\ a = [op |-> HTTPAnswer(r), identified |-> HTTPIdentified(r)]
      BY <1>1 DEF HTTPAdmissions
    <2>2. HTTPAnswer(r) = Mux(r)
      BY <2>1 DEF HTTPAnswer, CORSMiddleware, AuthMiddleware, Operation
    <2> QED
      BY <2>1, <2>2, EveryPath DEF MuxAndListAgree, HTTPIdentified, Operation
  <1>2. ASSUME NEW a \in GRPCAdmissions
        PROVE  /\ a.op \in Operation
               /\ a.op \notin OpenOperation => a.identified
               /\ a.op \in UnaryMethod \cup StreamMethod =>
                     (a.identified <=> a.op \notin publicMethods)
    <2>1. PICK m \in UnaryMethod \cup StreamMethod :
             a = [op |-> m, identified |-> GRPCIdentified(m)]
      BY <1>2 DEF GRPCAdmissions
    <2>2. a.op = m /\ a.identified = GRPCIdentified(m)
      BY <2>1
    <2> QED
      BY <2>2 DEF GRPCIdentified, Operation
  <1> QED
    BY <1>1, <1>2

\* A request stands at a handler as it was let through to it.
LetThrough ==
    \A w \in Worker :
        /\ ~At(w, "idle") /\ pc[w].op \notin OpenOperation => pc[w].by \in sessions
        /\ pc[w].op \in UnaryMethod \cup StreamMethod =>
              (pc[w].by = Nobody <=> pc[w].op \in publicMethods)

LEMMA LetThroughInit == Init => LetThrough
  BY DEF Init, LetThrough, Idle, At, UnaryMethod, StreamMethod, TodoUnary, AuthUnary,
     UserUnary, TodoStreams

LEMMA LetThroughStep == TypeOK /\ LetThrough /\ [Next]_vars => LetThrough'
  <1> SUFFICES ASSUME TypeOK, LetThrough, [Next]_vars PROVE LetThrough'
    OBVIOUS
  <1>n. /\ "idle" \notin UnaryMethod \cup StreamMethod
        /\ "Sign" \notin UnaryMethod \cup StreamMethod
        /\ "Sign" \in OpenOperation
    BY DEF UnaryMethod, StreamMethod, TodoUnary, AuthUnary, UserUnary, TodoStreams, OpenOperation
  <1>d. ASSUME NEW w \in Worker, Done(w), sessions \subseteq sessions'
        PROVE  LetThrough'
    BY <1>n, <1>d DEF Done, Idle, TypeOK, LetThrough, At
  <1>1. ASSUME NEW w \in Worker, Begin(w)
        PROVE  LetThrough'
    <2>1. PICK a \in HTTPAdmissions \cup GRPCAdmissions :
             \E by \in IF a.identified THEN tokens ELSE {Nobody} :
                 pc' = [pc EXCEPT ![w] = [op |-> a.op, by |-> by]]
      BY <1>1 DEF Begin
    <2>2. PICK by \in IF a.identified THEN tokens ELSE {Nobody} :
             pc' = [pc EXCEPT ![w] = [op |-> a.op, by |-> by]]
      BY <2>1
    <2>3. /\ a.op \notin OpenOperation => by \in sessions
          /\ a.op \in UnaryMethod \cup StreamMethod =>
                (by = Nobody <=> a.op \in publicMethods)
      BY <2>2, Doors, AccountMarkers DEF TypeOK
    <2> QED
      BY <1>1, <2>2, <2>3 DEF Begin, TypeOK, LetThrough, At
  <1>2. ASSUME NEW w \in Worker, Login(w)
        PROVE  LetThrough'
    <2>1. PICK u \in UserID : pc' = [pc EXCEPT ![w] = [op |-> "Sign", by |-> u]]
      BY <1>2 DEF Login, HTTPAuthenticated, GRPCAuthenticated, Authenticated, ByUsername
    <2> QED
      BY <1>2, <1>n, <2>1 DEF Login, TypeOK, LetThrough, At
  <1>3. ASSUME NEW w \in Worker,
               \/ Register(w) \/ UpdateUser(w) \/ DeleteUser(w)
               \/ Sign(w) \/ Refresh(w) \/ Serve(w)
        PROVE  LetThrough'
    BY <1>3, <1>d DEF Register, UpdateUser, DeleteUser, Sign, Refresh, Serve
  <1>4. ASSUME NEW w \in Worker, Panic(w)
        PROVE  LetThrough'
    BY <1>4, <1>n DEF Panic, Idle, TypeOK, LetThrough, At
  <1>5. ASSUME NEW u \in UserID, Expire(u)
        PROVE  LetThrough'
    BY <1>5 DEF Expire, LetThrough, At
  <1>6. CASE UNCHANGED vars
    BY <1>6 DEF vars, LetThrough, At
  <1> QED
    BY <1>1, <1>2, <1>3, <1>4, <1>5, <1>6 DEF Next

LEMMA LetThroughAlways == Spec => []LetThrough
  BY LetThroughInit, LetThroughStep, TypeCorrect, PTL DEF Spec

\* No path, method or transport leads to a handler that needs a token without the token
\* of a user who once logged in.
THEOREM ProtectedAlwaysNeedsToken == Spec => []ProtectedNeedsToken
  <1>1. LetThrough => ProtectedNeedsToken
    BY DEF LetThrough, ProtectedNeedsToken
  <1> QED
    BY <1>1, LetThroughAlways, PTL

\* No copy of the authentication has a door that the others have not: all requests at an
\* operation of the services speak for a user, or all for nobody.
THEOREM DoorsAreTheSame == Spec => []SameDoors
  <1>1. LetThrough => SameDoors
    BY DEF LetThrough, SameDoors
  <1> QED
    BY <1>1, LetThroughAlways, PTL

-----------------------------------------------------------------------------
(* The answers. *)

\* The handlers' modules trim and compare as this one does.
LEMMA StringFacts ==
    /\ \A s : HTTP!TrimSpace(s) = TrimSpace(s) /\ GRPC!TrimSpace(s) = TrimSpace(s)
    /\ HTTP!Empty = Empty /\ GRPC!Empty = Empty
  BY Zenon DEF TrimSpace, HTTP!TrimSpace, GRPC!TrimSpace, Empty, HTTP!Empty, GRPC!Empty

\* Every handler, its tests in its own order, against its counterpart.
LEMMA TestsAgree == SameTests
  <1> USE DEF SameTests
  <1> TAKE s, t, x \in Typed({"x"}), good, done \in BOOLEAN
  <1> HIDE DEF SameTests
  <1> USE StringFacts DEF Same, HTTP!Decoded, HTTP!Required, HTTP!Found, HTTP!Works,
        HTTP!PathID, HTTP!Given, HTTP!RequiredAsIs, HTTP!Authorized,
        GRPC!Given, GRPC!Required, GRPC!Found, GRPC!Works, GRPC!Authorized
  <1>1. <<HTTP!CreateTodo(TRUE, s, done), GRPC!CreateTodo(s, TRUE, done)>> \in Same
    BY DEF HTTP!CreateTodo, GRPC!CreateTodo
  <1>2. <<HTTP!RegisterUser(TRUE, s, t, x, done), GRPC!Register(s, t, x, done)>> \in Same
    BY DEF HTTP!RegisterUser, GRPC!Register
  <1>3. <<HTTP!GetTodos, GRPC!ListTodos>> \in Same
    BY DEF HTTP!GetTodos, GRPC!ListTodos
  <1>4. <<HTTP!GetUsers(done), GRPC!ListUsers(done)>> \in Same
    BY DEF HTTP!GetUsers, GRPC!ListUsers
  <1>5. ASSUME ~s.padded
        PROVE  /\ <<HTTP!GetTodoByID(s, done), GRPC!GetTodo(s, done)>> \in Same
               /\ <<HTTP!UpdateTodo(s, TRUE, t, done), GRPC!UpdateTodo(s, t, done)>> \in Same
               /\ <<HTTP!DeleteTodo(s, done), GRPC!DeleteTodo(s, done)>> \in Same
               /\ <<HTTP!GetUserByID(s, done), GRPC!GetUser(s, done)>> \in Same
               /\ <<HTTP!Logout(TRUE, s, good, done), GRPC!Logout(s, good, TRUE, done)>> \in Same
               /\ \A blocked \in {FALSE, s # Empty} :
                     <<HTTP!Refresh(TRUE, s, blocked, good, done),
                       GRPC!Refresh(s, blocked, good, done)>> \in Same
               /\ ~t.padded =>
                     <<HTTP!Login(TRUE, s, t, good, done), GRPC!Login(s, t, good, done)>> \in Same
    <2>1. TrimSpace(s) = s /\ (~t.padded => TrimSpace(t) = t)
      BY <1>5, TrimFacts
    <2>2. <<HTTP!GetTodoByID(s, done), GRPC!GetTodo(s, done)>> \in Same
      BY <2>1 DEF HTTP!GetTodoByID, GRPC!GetTodo
    <2>3. <<HTTP!UpdateTodo(s, TRUE, t, done), GRPC!UpdateTodo(s, t, done)>> \in Same
      BY <2>1 DEF HTTP!UpdateTodo, GRPC!UpdateTodo
    <2>4. <<HTTP!DeleteTodo(s, done), GRPC!DeleteTodo(s, done)>> \in Same
      BY <2>1 DEF HTTP!DeleteTodo, GRPC!DeleteTodo
    <2>5. <<HTTP!GetUserByID(s, done), GRPC!GetUser(s, done)>> \in Same
      BY <2>1 DEF HTTP!GetUserByID, GRPC!GetUser
    <2>6. <<HTTP!Logout(TRUE, s, good, done), GRPC!Logout(s, good, TRUE, done)>> \in Same
      BY <2>1 DEF HTTP!Logout, GRPC!Logout
    <2>7. ASSUME NEW blocked \in {FALSE, s # Empty}
          PROVE  <<HTTP!Refresh(TRUE, s, blocked, good, done),
                   GRPC!Refresh(s, blocked, good, done)>> \in Same
      <3>1. blocked = FALSE \/ (blocked = TRUE /\ s # Empty)
        BY <2>7
      <3> QED
        BY <2>1, <3>1 DEF HTTP!Refresh, GRPC!Refresh
    <2>8. ASSUME ~t.padded
          PROVE  <<HTTP!Login(TRUE, s, t, good, done), GRPC!Login(s, t, good, done)>> \in Same
      BY <2>1, <2>8 DEF HTTP!Login, GRPC!Login
    <2> HIDE DEF Same, HTTP!Decoded, HTTP!Required, HTTP!Found, HTTP!Works,
          HTTP!PathID, HTTP!Given, HTTP!RequiredAsIs, HTTP!Authorized,
          GRPC!Given, GRPC!Required, GRPC!Found, GRPC!Works, GRPC!Authorized
    <2> QED
      BY <2>2, <2>3, <2>4, <2>5, <2>6, <2>7, <2>8
  <1> HIDE DEF Same, HTTP!Decoded, HTTP!Required, HTTP!Found, HTTP!Works,
        HTTP!PathID, HTTP!Given, HTTP!RequiredAsIs, HTTP!Authorized,
        GRPC!Given, GRPC!Required, GRPC!Found, GRPC!Works, GRPC!Authorized
  <1> QED
    BY <1>1, <1>2, <1>3, <1>4, <1>5

\* What is in the table has no spaces around, so HTTP, which takes strings as they are,
\* finds nobody by one that has.
LEMMA LoginsAgree == TableInv => SameLogins
  <1> SUFFICES ASSUME TableInv, NEW name \in Typed(Username), NEW password \in Typed(Password),
                      NEW signed \in BOOLEAN
               PROVE  LET overHTTP == HTTPAuthenticated(name, password)
                          overGRPC == GRPCAuthenticated(name, password)
                          status == HTTP!Login(TRUE, name, password, overHTTP # {}, signed)
                          code == GRPC!Login(name, password, overGRPC # {}, signed)
                      IN  IF name.padded \/ password.padded
                          THEN status \in {400, 401}
                          ELSE overHTTP = overGRPC /\ <<status, code>> \in Same
    BY DEF SameLogins
  <1> DEFINE overHTTP == HTTPAuthenticated(name, password)
             overGRPC == GRPCAuthenticated(name, password)
  <1>1. ASSUME name.padded \/ password.padded
        PROVE  HTTP!Login(TRUE, name, password, overHTTP # {}, signed) \in {400, 401}
    <2>1. ASSUME NEW u \in UserID, Present(u)
          PROVE  ~users[u].username.padded /\ ~users[u].password.padded
      BY <2>1, TrimFacts DEF TableInv, RowIsTyped, Credentials
    <2>2. overHTTP = {}
      BY <1>1, <2>1, GivenFacts DEF HTTPAuthenticated, Authenticated, ByUsername
    <2>3. HTTP!Login(TRUE, name, password, FALSE, signed) \in {400, 401}
      BY DEF HTTP!Login, HTTP!Decoded, HTTP!RequiredAsIs, HTTP!Authorized
    <2> QED
      BY <2>2, <2>3
  <1>2. ASSUME ~name.padded, ~password.padded
        PROVE  /\ overHTTP = overGRPC
               /\ <<HTTP!Login(TRUE, name, password, overHTTP # {}, signed),
                    GRPC!Login(name, password, overGRPC # {}, signed)>> \in Same
    <2>1. TrimSpace(name) = name /\ TrimSpace(password) = password
      BY <1>2, TrimFacts
    <2>2. overHTTP = overGRPC
      BY <2>1, GivenFacts DEF HTTPAuthenticated, GRPCAuthenticated
    <2>3. ASSUME NEW found \in BOOLEAN
          PROVE  <<HTTP!Login(TRUE, name, password, found, signed),
                   GRPC!Login(name, password, found, signed)>> \in Same
      BY <2>1, GivenFacts, StringFacts DEF Same, HTTP!Login, HTTP!Decoded, HTTP!RequiredAsIs,
           HTTP!Authorized, HTTP!Works, GRPC!Login, GRPC!Required, GRPC!Authorized, GRPC!Works
    <2>4. (overHTTP # {}) \in BOOLEAN /\ (overHTTP # {}) = (overGRPC # {})
      BY <2>2
    <2> HIDE DEF overHTTP, overGRPC
    <2> QED
      BY <2>2, <2>3, <2>4
  <1> QED
    BY <1>1, <1>2

\* Both handlers of an operation, for every table that registrations, renames and
\* deletions lead to: they make the same tests in the same order, and Login finds the
\* same user, with the exceptions TransportsAgree names.
THEOREM TransportsAlwaysAgree == Spec => []TransportsAgree
  <1>1. TableInv => TransportsAgree
    BY TestsAgree, LoginsAgree DEF TransportsAgree
  <1> QED
    BY <1>1, TableAlways, PTL
=============================================================================
