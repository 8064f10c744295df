------------------------------ MODULE Accounts ------------------------------
(***************************************************************************)
(* Table users with its two UNIQUE columns, the user handlers of both      *)
(* transports over UserService and PostgresUserRepository, and Login up to *)
(* the tokens it signs.  A request passes its middlewares (Begin), its     *)
(* handler runs one statement later, and Login signs later still; between  *)
(* two of these, other requests rename, delete and register.               *)
(***************************************************************************)
EXTENDS Access, FiniteSets

CONSTANTS
    Worker,         \* goroutines that serve requests, one at a time
    UserID,         \* the UUIDs that uuid.New() may draw
    Username, Email, Password,  \* strings without space around
    Faults,         \* what may go wrong, a set of the names in the actions below
    Absent,         \* no row
    Nobody          \* the identity of a request that showed no token

\* Table users; password stands for its bcrypt hash.
Row == [username : Typed(Username), email : Typed(Email), password : Typed(Password)]

\* The two markers are no values of the program.
ASSUME AccountMarkers == Absent \notin Row /\ Nobody \notin UserID

VARIABLES
    users,      \* table users, by id
    tokens,     \* the users an access token of whom is good
    sessions,   \* the users who have been given a refresh token
    pc,         \* where each request stands, with its identity or whom it signs for
    typed       \* history: the credentials of each user as he last typed them, kept when
                \* he is gone

vars == <<users, tokens, sessions, pc, typed>>

Idle == [op |-> "idle", by |-> Nobody]

TypeOK ==
    /\ users \in [UserID -> Row \cup {Absent}]
    /\ tokens \subseteq sessions
    /\ sessions \subseteq UserID
    /\ pc \in [Worker -> [op : Operation \cup {"idle", "Sign"}, by : UserID \cup {Nobody}]]
    /\ typed \in [UserID ->
            [username : Typed(Username), password : Typed(Password)] \cup {Absent}]

Init ==
    /\ users = [u \in UserID |-> Absent]
    /\ tokens = {}
    /\ sessions = {}
    /\ pc = [w \in Worker |-> Idle]
    /\ typed = [u \in UserID |-> Absent]

-----------------------------------------------------------------------------
Present(u) == users[u] # Absent

\* UNIQUE (username), UNIQUE (email): no row but u's own has either.
Free(u, username, email) ==
    \A v \in UserID \ {u} : Present(v) =>
        users[v].username # username /\ users[v].email # email

At(w, op) == pc[w].op = op
Done(w) == pc' = [pc EXCEPT ![w] = Idle]

\* Any request a client may send, at the handler it is let through to.
Begin(w) ==
    /\ At(w, "idle")
    /\ \E a \in HTTPAdmissions \cup GRPCAdmissions :
          \E by \in IF a.identified THEN tokens ELSE {Nobody} :
              pc' = [pc EXCEPT ![w] = [op |-> a.op, by |-> by]]
    /\ UNCHANGED <<users, tokens, sessions, typed>>

\* INSERT INTO users with an id that uuid.New() has not drawn before.
InsertUser(u, username, email, password) ==
    /\ typed[u] = Absent
    /\ Free(u, username, email)
    /\ users' = [users EXCEPT ![u] =
                    [username |-> username, email |-> email, password |-> password]]

\* UPDATE users SET username, email WHERE id = u, when the row is there.
UpdateRow(u, username, email) ==
    /\ Present(u)
    /\ Free(u, username, email)
    /\ users' = [users EXCEPT ![u] =
                    [username |-> username, email |-> email, password |-> @.password]]

\* Register of either transport, when the fields are good; the password is hashed.
Register(w) ==
    /\ At(w, "Register")
    /\ \E u \in UserID, name \in Typed(Username), email \in Typed(Email),
          password \in Typed(Password) :
          /\ \/ HTTP!RegisterUser(TRUE, name, email, password, TRUE) = 201
             \/ GRPC!Register(name, email, password, TRUE) = "OK"
          /\ InsertUser(u, TrimSpace(name), TrimSpace(email), TrimSpace(password))
          /\ typed' = [typed EXCEPT ![u] = [username |-> name, password |-> password]]
    /\ Done(w)
    /\ UNCHANGED <<tokens, sessions>>

\* Mutant: the new name is stored as it was typed.
UpdateUserUntrimmed(w) ==
    /\ At(w, "UpdateUser")
    /\ \E u \in UserID, name \in Typed(Username), email \in Typed(Email) :
          /\ HTTP!UpdateUser(u, TRUE, name, email, TRUE) = 200
          /\ UpdateRow(u, name, TrimSpace(email))
          /\ typed' = [typed EXCEPT ![u].username = name]
    /\ Done(w)
    /\ UNCHANGED <<tokens, sessions>>

\* UpdateUser of any user by any user.
UpdateUser(w) ==
    /\ At(w, "UpdateUser")
    /\ \E u \in UserID, name \in Typed(Username), email \in Typed(Email) :
          /\ HTTP!UpdateUser(u, TRUE, name, email, TRUE) = 200
          /\ UpdateRow(u, TrimSpace(name), TrimSpace(email))
          /\ typed' = [typed EXCEPT ![u].username = name]
    /\ Done(w)
    /\ UNCHANGED <<tokens, sessions>>

DeleteUser(w) ==
    /\ At(w, "DeleteUser")
    /\ \E u \in UserID : Present(u) /\ users' = [users EXCEPT ![u] = Absent]
    /\ Done(w)
    /\ UNCHANGED <<tokens, sessions, typed>>

\* GetByUsername
ByUsername(username) == {u \in UserID : Present(u) /\ users[u].username = username}

\* UserService.Authenticate: bcrypt over the row found.
Authenticated(username, password) ==
    {u \in ByUsername(username) : users[u].password = password}

\* Whom the strings of a Login request authenticate.
HTTPAuthenticated(name, password) == Authenticated(HTTP!Given(name), HTTP!Given(password))
GRPCAuthenticated(name, password) == Authenticated(GRPC!Given(name), GRPC!Given(password))

Login(w) ==
    /\ At(w, "Login")
    /\ \E name \in Typed(Username), password \in Typed(Password) :
          \E u \in HTTPAuthenticated(name, password) \cup GRPCAuthenticated(name, password) :
              pc' = [pc EXCEPT ![w] = [op |-> "Sign", by |-> u]]
    /\ UNCHANGED <<users, tokens, sessions, typed>>

\* GenerateAccessToken and GenerateRefreshToken for the row found, renamed, deleted or
\* there still.
Sign(w) ==
    /\ At(w, "Sign")
    /\ tokens' = tokens \cup {pc[w].by}
    /\ sessions' = sessions \cup {pc[w].by}
    /\ Done(w)
    /\ UNCHANGED <<users, typed>>

\* Mutant: the refresh token is not validated.
RefreshUnvalidated(w) ==
    /\ At(w, "Refresh")
    /\ \E u \in UserID : tokens' = tokens \cup {u}
    /\ Done(w)
    /\ UNCHANGED <<users, sessions, typed>>

\* A good refresh token buys an access token; nobody asks whether its user is there.
Refresh(w) ==
    /\ At(w, "Refresh")
    /\ \E u \in sessions : tokens' = tokens \cup {u}
    /\ Done(w)
    /\ UNCHANGED <<users, sessions, typed>>

\* The operations that leave users and tokens alone: all reads, Logout, those on
\* todos; and any other that is refused (400, 401, 404, 500), a blank field, a taken
\* name and a failing statement among the reasons.
Serve(w) ==
    /\ ~At(w, "idle")
    /\ Done(w)
    /\ UNCHANGED <<users, tokens, sessions, typed>>

\* The handler panics: its recovery answers 500 or Internal, and no other request
\* notices.  Streams have no recovery, so there the process ends.
Panic(w) ==
    /\ "panic" \in Faults
    /\ ~At(w, "idle")
    /\ pc' = IF pc[w].op \in StreamMethod
             THEN [x \in Worker |-> Idle]
             ELSE [pc EXCEPT ![w] = Idle]
    /\ UNCHANGED <<users, tokens, sessions, typed>>

\* The 15 minutes of the last access token of u pass.
Expire(u) ==
    /\ u \in tokens
    /\ tokens' = tokens \ {u}
    /\ UNCHANGED <<users, sessions, pc, typed>>

Next ==
    \/ \E w \in Worker :
          \/ Begin(w)
          \/ Register(w) \/ UpdateUser(w) \/ DeleteUser(w)
          \/ Login(w) \/ Sign(w) \/ Refresh(w)
          \/ Serve(w) \/ Panic(w)
    \/ \E u \in UserID : Expire(u)

Spec == Init /\ [][Next]_vars

-----------------------------------------------------------------------------
(***************************************************************************)
(* Properties                                                              *)
(***************************************************************************)

\* Who has an account can log in to it, and to no other, with the name and password
\* he typed when he registered or was last renamed, however requests for the same
\* names overlapped: over gRPC always, over HTTP exactly if he typed no spaces.
CredentialsWork ==
    \A u \in UserID : Present(u) =>
        LET name == typed[u].username
            password == typed[u].password
        IN  /\ GRPCAuthenticated(name, password) = {u}
            /\ HTTPAuthenticated(name, password) =
                    IF name.padded \/ password.padded THEN {} ELSE {u}

\* The operations a client without an account needs.
OpenOperation == {"Hello", "swagger", "Login", "Refresh", "Logout", "Register", "Sign",
                  "ServerReflectionInfo"}

\* No path, method or transport leads to any other handler without the token of a user
\* whose password was once shown: no todo is without an owner by way of CreateTodo.
ProtectedNeedsToken ==
    \A w \in Worker : ~At(w, "idle") /\ pc[w].op \notin OpenOperation => pc[w].by \in sessions

\* Two requests that reach the same operation of the services, over whatever transport,
\* path or method, both speak for a user or both for nobody: no copy of the
\* authentication has a door that the others have not.
SameDoors ==
    \A w, x \in Worker :
        pc[w].op = pc[x].op /\ pc[w].op \in UnaryMethod \cup StreamMethod =>
            (pc[w].by = Nobody <=> pc[x].by = Nobody)

\* What an HTTP status and a gRPC code both mean.
Same == {<<200, "OK">>, <<201, "OK">>, <<400, "InvalidArgument">>, <<401, "Unauthenticated">>,
         <<404, "NotFound">>, <<500, "Internal">>}

\* The tests of a handler and their order, for every request that lacks something and
\* every call behind it that fails; where HTTP does not trim and gRPC does (ids, tokens
\* and credentials), at least when there is nothing to trim.  A Logout whose token
\* expires right behind its validation is the other exception: gRPC looks again and
\* refuses it, HTTP answers 200.  The 429 of RateLimiter comes before HTTP's Login.
SameTests ==
    \A s, t, x \in Typed({"x"}), good, done \in BOOLEAN :
        /\ <<HTTP!CreateTodo(TRUE, s, done), GRPC!CreateTodo(s, TRUE, done)>> \in Same
        /\ <<HTTP!RegisterUser(TRUE, s, t, x, done), GRPC!Register(s, t, x, done)>> \in Same
        /\ <<HTTP!GetTodos, GRPC!ListTodos>> \in Same
        /\ <<HTTP!GetUsers(done), GRPC!ListUsers(done)>> \in Same
        /\ ~s.padded =>
            /\ <<HTTP!GetTodoByID(s, done), GRPC!GetTodo(s, done)>> \in Same
            /\ <<HTTP!UpdateTodo(s, TRUE, t, done), GRPC!UpdateTodo(s, t, done)>> \in Same
            /\ <<HTTP!DeleteTodo(s, done), GRPC!DeleteTodo(s, done)>> \in Same
            /\ <<HTTP!GetUserByID(s, done), GRPC!GetUser(s, done)>> \in Same
            /\ <<HTTP!Logout(TRUE, s, good, done), GRPC!Logout(s, good, TRUE, done)>> \in Same
            /\ \A blocked \in {FALSE, s # Empty} :
                  <<HTTP!Refresh(TRUE, s, blocked, good, done),
                    GRPC!Refresh(s, blocked, good, done)>> \in Same
            /\ ~t.padded =>
                  <<HTTP!Login(TRUE, s, t, good, done), GRPC!Login(s, t, good, done)>> \in Same

\* Login by the users there are: both transports find the same user and answer alike;
\* with spaces around name or password HTTP lets nobody in, whoever there is.
SameLogins ==
    \A name \in Typed(Username), password \in Typed(Password), signed \in BOOLEAN :
        LET overHTTP == HTTPAuthenticated(name, password)
            overGRPC == GRPCAuthenticated(name, password)
            status == HTTP!Login(TRUE, name, password, overHTTP # {}, signed)
            code == GRPC!Login(name, password, overGRPC # {}, signed)
        IN  IF name.padded \/ password.padded
            THEN status \in {400, 401}
            ELSE overHTTP = overGRPC /\ <<status, code>> \in Same

\* The two implementations of an operation answer the same request alike, with the
\* exceptions named above: by the tests they make, and for Login in every state that
\* registrations, renames and deletions lead to.
TransportsAgree == SameTests /\ SameLogins
=============================================================================
