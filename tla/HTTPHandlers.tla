---------------------------- MODULE HTTPHandlers ----------------------------
(***************************************************************************)
(* The HTTP handlers, from what is in a request to the status they answer  *)
(* with.  `decodes' tells whether the body is JSON of the right shape,     *)
(* `done' whether the service call succeeds.  A test is an operator from   *)
(* what is answered when it holds to what is answered, so a handler names  *)
(* its tests in the order it makes them and then its success.              *)
(***************************************************************************)
EXTENDS Handling

\* A field that is trimmed and then required, and a service call.
Decoded(decodes, next) == IF decodes THEN next ELSE 400
Required(s, next) == IF TrimSpace(s) # Empty THEN next ELSE 400
Found(done, next) == IF done THEN next ELSE 404
Works(done, next) == IF done THEN next ELSE 500

\* getIDFromPath, getUserIDFromPath: the rest of the path as it is.
PathID(id, next) == IF id # Empty THEN next ELSE 400

GetTodos == 200
CreateTodo(decodes, title, done) == Decoded(decodes, Required(title, Works(done, 201)))
GetTodoByID(id, done) == PathID(id, Found(done, 200))
UpdateTodo(id, decodes, title, done) ==
    PathID(id, Decoded(decodes, Required(title, Found(done, 200))))
DeleteTodo(id, done) == PathID(id, Found(done, 200))

RegisterUser(decodes, username, email, password, done) ==
    Decoded(decodes, Required(username, Required(email, Required(password,
        Works(done, 201)))))
GetUsers(done) == Works(done, 200)
GetUserByID(id, done) == PathID(id, Found(done, 200))
UpdateUser(id, decodes, username, email, done) ==
    PathID(id, Decoded(decodes, Required(username, Required(email, Found(done, 200)))))
DeleteUser(id, done) == PathID(id, Found(done, 200))

\* The auth handlers take a string as it is, and require it like that.
Given(s) == s
RequiredAsIs(s, next) == IF Given(s) # Empty THEN next ELSE 400
Authorized(holds, next) == IF holds THEN next ELSE 401

Login(decodes, username, password, authenticates, signed) ==
    Decoded(decodes, RequiredAsIs(username, RequiredAsIs(password,
        Authorized(authenticates, Works(signed, 200)))))

\* The blocklist is asked before the token is required.
Refresh(decodes, token, blocked, valid, signed) ==
    Decoded(decodes, Authorized(~blocked, RequiredAsIs(token,
        Authorized(valid, Works(signed, 200)))))

\* A token that has just expired is put on the blocklist all the same.
Logout(decodes, token, valid, stored) ==
    Decoded(decodes, RequiredAsIs(token, Authorized(valid, Works(stored, 200))))
=============================================================================
