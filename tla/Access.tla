------------------------------- MODULE Access -------------------------------
(***************************************************************************)
(* The way of a request to its handler: the HTTP middlewares in the order  *)
(* of cmd/main.go (Recovery > CORS > Auth > mux), and the interceptors of  *)
(* the gRPC server (unary: Recovery > Logging > Auth, streams: Auth).  An  *)
(* operation that both transports offer has its gRPC name here.  Each      *)
(* layer is an operator from what the next one would answer to what it     *)
(* answers itself.  What happens then is in HTTPHandlers and GRPCHandlers; *)
(* recovery is an action of Accounts, and logging is left out.  The rate   *)
(* limiter around Login and the idempotency middleware around CreateTodo   *)
(* are in modules of their own, RateLimiter and Idempotency.               *)
(***************************************************************************)
EXTENDS Handling

HTTP == INSTANCE HTTPHandlers
GRPC == INSTANCE GRPCHandlers

\* The segment behind a trailing slash.
Blank == ""

\* A URL path by its segments: "/todos/" is <<"todos", Blank>>, and "/" is <<Blank>>.
\* One path for every case of the code below; ids are opaque.  Paths are clean: one with
\* "//" or ".." the mux redirects to its clean form, which is a request of its own.
Path == {<<Blank>>, <<"other">>,
         <<"todos">>, <<"todos", Blank>>, <<"todos", "id">>, <<"todos", "id", "more">>,
         <<"users">>, <<"users", Blank>>, <<"users", "id">>,
         <<"auth", "login">>, <<"auth", "refresh">>, <<"auth", "logout">>, <<"auth", "other">>,
         <<"swagger">>, <<"swagger", Blank>>, <<"swagger", "index">>, <<"swaggers">>}

Method == {"GET", "POST", "PUT", "DELETE", "OPTIONS", "PATCH"}

\* What may stand in the Authorization header, by how the code tells it apart: a bad
\* token is empty, expired or not signed here, a padded one is good but for spaces.
Header == {"none", "noBearer", "badToken", "paddedToken", "goodToken"}

HTTPRequest == [path : Path, method : Method, header : Header]

-----------------------------------------------------------------------------
\* The handlers that switch on the method.
Collection(list, create) == [GET |-> list, POST |-> create]
Item(get, update, delete) == [GET |-> get, PUT |-> update, DELETE |-> delete]

Switch(table, method) ==
    IF method \in DOMAIN table THEN table[method] ELSE "methodNotAllowed"

Under(first, path) == Len(path) > 1 /\ path[1] = first

\* http.ServeMux: the longest pattern wins, and "/swagger" is sent to "/swagger/".
Mux(r) ==
    CASE r.path = <<"todos">> -> Switch(Collection("ListTodos", "CreateTodo"), r.method)
      [] Under("todos", r.path) ->
            Switch(Item("GetTodo", "UpdateTodo", "DeleteTodo"), r.method)
      [] r.path = <<"users">> -> Switch(Collection("ListUsers", "Register"), r.method)
      [] Under("users", r.path) ->
            Switch(Item("GetUser", "UpdateUser", "DeleteUser"), r.method)
      [] r.path = <<"auth", "login">> -> "Login"
      [] r.path = <<"auth", "refresh">> -> "Refresh"
      [] r.path = <<"auth", "logout">> -> "Logout"
      [] r.path = <<"swagger">> -> "redirect"
      [] Under("swagger", r.path) -> "swagger"
      [] OTHER -> "Hello"

FullyPublic == {<<Blank>>, <<"auth", "login">>, <<"auth", "refresh">>, <<"auth", "logout">>}

\* Mutant: the method is not looked at.
isPublicPathAnyMethod(r) ==
    \/ r.path \in FullyPublic
    \/ r.path = <<"users">>
    \/ r.path[1] \in {"swagger", "swaggers"}

\* Mutant: registration is forgotten.
isPublicPathNoRegister(r) ==
    \/ r.path \in FullyPublic
    \/ r.path[1] \in {"swagger", "swaggers"}

isPublicPath(r) ==
    \/ r.path \in FullyPublic
    \/ r.path = <<"users">> /\ r.method = "POST"
    \/ r.path[1] \in {"swagger", "swaggers"}    \* the segments that start like that

\* The token is taken as it stands behind "Bearer ".
AuthMiddleware(r, next) ==
    IF isPublicPath(r) \/ r.header = "goodToken" THEN next ELSE "unauthorized"

CORSMiddleware(r, next) == IF r.method = "OPTIONS" THEN "noContent" ELSE next

HTTPAnswer(r) == CORSMiddleware(r, AuthMiddleware(r, Mux(r)))

\* The user id is in the context of the requests that showed a token.
HTTPIdentified(r) == ~isPublicPath(r)

-----------------------------------------------------------------------------
\* The methods of the three services, each with its handler in the service descriptor.
TodoUnary == {"CreateTodo", "GetTodo", "ListTodos", "UpdateTodo", "DeleteTodo"}
TodoStreams == {"WatchTodos", "BulkCreateTodos", "SyncTodos"}
AuthUnary == {"Login", "Refresh", "Logout"}
UserUnary == {"Register", "GetUser", "ListUsers"}

UnaryMethod == TodoUnary \cup AuthUnary \cup UserUnary

\* reflection.Register adds a stream of its own.
StreamMethod == TodoStreams \cup {"ServerReflectionInfo"}

publicMethods == {"Login", "Refresh", "Logout", "Register", "ServerReflectionInfo"}

\* Both interceptors trim the token before they validate it.
Validates(header) == header \in {"goodToken", "paddedToken"}

AuthUnaryInterceptor(m, header, next) ==
    IF m \in publicMethods \/ Validates(header) THEN next ELSE "Unauthenticated"
AuthStreamInterceptor(m, header, next) ==
    IF m \in publicMethods \/ Validates(header) THEN next ELSE "Unauthenticated"

GRPCAnswer(m, header) ==
    IF m \in UnaryMethod THEN AuthUnaryInterceptor(m, header, m)
                         ELSE AuthStreamInterceptor(m, header, m)

GRPCIdentified(m) == m \notin publicMethods

-----------------------------------------------------------------------------
Operation == UnaryMethod \cup StreamMethod \cup {"Hello", "swagger", "UpdateUser", "DeleteUser"}

\* The handlers a request may reach, and whether it then says on whose behalf.
HTTPAdmissions ==
    {[op |-> HTTPAnswer(r), identified |-> HTTPIdentified(r)] : r \in
        {q \in HTTPRequest : HTTPAnswer(q) \in Operation}}
GRPCAdmissions ==
    {[op |-> m, identified |-> GRPCIdentified(m)] : m \in
        {q \in UnaryMethod \cup StreamMethod : \E h \in Header : GRPCAnswer(q, h) = q}}
=============================================================================
