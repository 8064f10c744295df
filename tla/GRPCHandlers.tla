---------------------------- MODULE GRPCHandlers ----------------------------
(***************************************************************************)
(* The unary gRPC handlers, from what is in a request to the status code   *)
(* they answer with; a message that cannot be decoded does not reach them. *)
(* Every string is trimmed before anything else is done with it.           *)
(***************************************************************************)
EXTENDS Handling

Given(s) == TrimSpace(s)
Required(s, next) == IF Given(s) # Empty THEN next ELSE "InvalidArgument"
Found(done, next) == IF done THEN next ELSE "NotFound"
Works(done, next) == IF done THEN next ELSE "Internal"
Authorized(holds, next) == IF holds THEN next ELSE "Unauthenticated"

CreateTodo(title, identified, done) ==
    Required(title, Authorized(identified, Works(done, "OK")))
GetTodo(id, done) == Required(id, Found(done, "OK"))
ListTodos == "OK"

\* Mutant: a todo that is not there is an internal error.
UpdateTodoInternal(id, title, done) == Required(id, Required(title, Works(done, "OK")))
UpdateTodo(id, title, done) == Required(id, Required(title, Found(done, "OK")))
DeleteTodo(id, done) == Required(id, Found(done, "OK"))

Register(username, email, password, done) ==
    Required(username, Required(email, Required(password, Works(done, "OK"))))
GetUser(id, done) == Required(id, Found(done, "OK"))
ListUsers(done) == Works(done, "OK")

Login(username, password, authenticates, signed) ==
    Required(username, Required(password, Authorized(authenticates, Works(signed, "OK"))))
Refresh(token, blocked, valid, signed) ==
    Required(token, Authorized(~blocked, Authorized(valid, Works(signed, "OK"))))

\* The life the token has left is looked at once more after its validation.
Logout(token, valid, unexpired, stored) ==
    Required(token, Authorized(valid, Authorized(unexpired, Works(stored, "OK"))))
=============================================================================
