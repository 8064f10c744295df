# A formal model of todo_server

`todo_server` is a Go program that keeps todos and users in PostgreSQL and serves them over HTTP
(`cmd/main.go`, port `SERVER_PORT`) and gRPC (port `GRPC_PORT`). This directory holds TLA+ modules
that model it, the configurations that check them with TLC, and theorems checked
with TLAPS. Every definition is translated from the code; `PROJECT.json` names the lines.

    tlc -config CachedOverlap.cfg MCCachedTodos      # a run: one .cfg, one MC module
    tlapm CachedTodosProofs.tla                      # the proofs of one module

## 1. The system

    HTTP: Recovery > CORS > Auth > mux ──┬─ POST /auth/login: rate limiter ─┐
                                         ├─ /auth/*  AuthHandler ───────────┼─> UserService > users
    gRPC: Recovery > Logging > Auth ─────┤      └── JWTService, Blocklist ──┼─> Redis
          (streams: Auth only)           ├─ POST /todos: idempotency ───────┘
                                         └─ todo handlers > TodoService > CachedTodoRepository
                                                       > item cache, list cache (memory)
                                                       > PostgresTodoRepository > todos

| Component | State | Operations | What makes it correct |
|---|---|---|---|
| Tables `todos`, `users` | rows; `todos.user_id` refers to `users`, two columns of `users` are UNIQUE | one statement per repository call, each a transaction | foreign key, cascade, an id is used once |
| `TodoService` | none | GetAll, GetByID, Create, Update, Delete | every call is one atomic step on the table |
| `CachedTodoRepository` with two `InMemoryCache`s | item by id, the list of all | read: cache, else query and fill; write: statement, item cache call, list invalidation | a cached value is the row, or the exceptions are known; nothing is served that never was |
| Rate limiter | a Redis counter per address | INCR, then EXPIRE by whoever made it | the limit holds; a lockout ends |
| Idempotency middleware | a Redis record per key, 24 h | GET, handler, SET | a key makes one todo; all its answers name it |
| Sessions: `AuthHandler` (two of them), `JWTService`, `Blocklist` | signed tokens with an expiry, blocklist entries in Redis | login, refresh (check, mint), logout (validate, block) | a logout ends the session for good |
| Accounts: `UserService`, both user handlers | `users` | register, update, delete, authenticate | names and addresses are unique; who registers can log in |
| Routing and authentication: mux, CORS, `AuthMiddleware`, two gRPC interceptors | none | test one request | no way around the token; all copies of the tests agree |
| Unary handlers of HTTP and of gRPC | none | early returns in an order, one service call | both transports answer alike |
| Streams: `WatchTodos`, `BulkCreateTodos`, `SyncTodos` | one open stream each | one create or one event per message | what the client is told is what was made; a stream ends |
| Process (`cmd/main.go`), configuration | two serving goroutines, work in flight | load, start, signal, Shutdown (5 s), GracefulStop, deferred Close | nothing in use is closed; a signal ends the process |
| Recovery, logging | none | a panic becomes an answer, in unary calls only | |
| `InMemoryTodoRepository` | a slice, no mutex | constructed neither by the program nor by a test | |
| Generated code, API documents, migrations runner | none | | |

Requests meet in three places: the tables, the two in-memory caches, and Redis. No lock is held over
two of them, and no call is joined with the next one: **each database statement, each cache call and
each Redis command is atomic, and nothing larger is.** That is the hard part of this program, together
with failures whose errors the code drops (`rows.Err()`, `Expire`, `SetWithTTL`, `Exists`), caches
without a TTL, in which a wrong entry stays, and two transports that implement every operation twice.
`PROJECT.json` lists the hazards line by line.

## 2. Modules

| Module | Models | Built on |
|---|---|---|
| `TodoTable`, `TodoTableProofs` | table `todos`, the statements on it, the user cascade | |
| `TodoStore` | what `TodoService` promises: `Spec` (exact) and `StaleSpec` (reads may be old) | `TodoTable` |
| `CachedTodos`, `CachedTodosProofs`, `CachedTodosRefinement` | `CachedTodoRepository`, step by step; implements `TodoStore` | `TodoStore` |
| `RateLimiter`, `RateLimiterProofs` | `RateLimitMiddleware` and `RedisCache.Increment` | |
| `OncePerKey` | what an Idempotency-Key promises | |
| `Idempotency`, `IdempotencyProofs` | `IdempotencyMiddleware` around HTTP `CreateTodo`; implements `OncePerKey` | `TodoTable`, `OncePerKey` |
| `Sessions`, `SessionsProofs` | both `AuthHandler`s, `JWTService`, `Blocklist` | |
| `Handling`, `HTTPHandlers`, `GRPCHandlers` | the unary handlers as operators from a request to an answer | |
| `Access` | mux, CORS and authentication of a request, over both transports | the handlers |
| `Accounts`, `AccountsProofs` | table `users`, the requests that change it, and Login up to its tokens | `Access` |
| `Lifecycle` | `main()` from `config.Load` to the end of the process | |
| `Streams`, `StreamsProofs` | the three streams, inside the process | `Lifecycle` |
| `MC...` | instances for TLC, one per specification; symmetry where it is used | |

Conventions. `pc[w]` is where the request of goroutine `w` stands *between two calls*; a step is one
call with the local code up to the next. Variables marked `history` in the declarations
record what a property needs to know; the only guards that read one ask whether an id has been drawn
before (`Fresh` of `TodoTable`, `InsertUser`). `Faults` is a set of names; an action that
models a failure is enabled only when its name is in the set, so a run states which failures it has.
Operators whose comment starts with "Mutant" are wrong versions of the operator after them; they are
used by no specification and show that a property can fail (`mutants` in `PROJECT.json`).

### TodoTable and TodoStore

`todos[i]` is row `i` or `Absent`; titles and users are members of small sets (trimming and the
"title is required" test come before and change no state). `past[i]`, a history variable, is every
state row `i` has been in. `InsertTodo` refuses an owner who is gone, `DeleteUser` clears the owner of
his todos in the same step, as migration 4 has PostgreSQL do. `User` stands here for the users there
are at the start; registration is in `Accounts`.

`TodoStore!Spec` is the service with every call atomic. `StaleSpec` adds exactly what the cache costs:
a read by id may answer with an earlier state of that row, never with "not found" for a row that is
there and never with something the row never was; a list may mix states of its rows; with faults, a
call may answer with an error having changed nothing, or having made its change unacknowledged.

### CachedTodos

One action per call in `cached_todo_repository.go`: `GetByIDLookup` / `GetByIDQuery` / `GetByIDFill`,
`GetAll...` likewise, and for each write the statement, the item cache call and
`listCache.Delete`. `result[w]` is what the repository holds, and in the end returns.
`outdated` is the set of requests that hold a value the table has moved past, `staleItems` and
`staleList` mark the cache entries such a request wrote, or whose row was changed by something that
makes no cache call (a lost acknowledgement, the user cascade: a cached todo goes on naming an owner
who has been deleted). These make the coherence properties exact: they say not that the cache may be
wrong but *when*.

`GetAllQueryFails` covers the query error (an empty list without an error), a failed scan (the same)
and a connection lost between rows (the rows so far, as `rows.Err()` is not read). `ProcessRestart`
empties caches and requests, and leaves the tables.

### RateLimiter

`Attempt` is INCR and the test of the limit; the request whose INCR answered 1 then has `SetExpiry` or
`ExpiryFails` to do. `IncrementUnseen` is a counted attempt whose reply was lost; the retry of go-redis
is then a further `Attempt`. When go-redis gives up, the middleware lets the request through and writes
nothing, so there is nothing more to model. `passed[c][a]` counts the attempts let through at most `a`
ticks ago. The count stops at `CountBound`, where attempts go on arriving: above `MaxAttempts` the code
tells no values apart. `unexpiring` names the counters whose EXPIRE was lost. The windows are `WindowTime` ticks; EXPIRE
at any moment within a tick is taken at its start.

### OncePerKey and Idempotency

`OncePerKey` has three variables: the todos `made` for each key, what each request was `told`, and the
`unsafe` keys. A safe key makes one todo; a request is told only of a todo of its own key, safe or not;
a key never becomes safe again.

In `Idempotency` a request goes `Miss` → `CreateTodo` → `SetRecord` → `Reply`: the 201 and its body stay
in the server's buffer until the handler returns, after the record is written. `CreateRefused` covers
400 and 500. `unsafe` collects the keys whose protection the code cannot keep: two requests at work at
once, a record Redis did not take, show or keep, a row made behind an error or a crash. Requests
without the header pass through and touch none of this. The record is kept per key: neither user nor
body is part of it, as in the code. The refinement maps `todosOf` to `made`, and the answer together
with the key that was sent to `told`.

### Sessions

A session is a refresh token and the access tokens made from it; `left`, `access`, `blocked` are the
ticks these have to live, 0 being none. `Login` may hand out a token it has already handed out while
no time has passed: claims hold whole seconds and no token id. `Refresh` is `RefreshCheck`
(`IsBlocked`, which says no when Redis fails) and `RefreshMint`; `Logout` is `LogoutValidate` and
`LogoutBlock`, which gives the entry the ttl of the cache (`BlockTTL`) and not the one it is passed.
`LogoutTooLate` is the second look of the gRPC handler. Credentials are the subject of `Accounts`.
Two history variables say how long access may go on behind a Logout: `due[s]` starts with the life of
the access token there is and loses a tick at a time; a refresh in `overtaking`, past its check when
the Logout succeeded, starts it anew when it mints.

### Handling, HTTPHandlers, GRPCHandlers, Access

A handler without state of its own is a chain of tests in the order the code makes them: each gives its
answer on failure, and otherwise what comes `next` (`Decoded`, `Required`, `Authorized`, ...). Strings are what the code asks of them: the text between the
spaces, and whether there are spaces around (`Typed`); `TrimSpace` drops the latter. `decodes`,
`valid`, `blocked`, `done` are the outcomes of the calls a handler makes. The two handlers of Logout
differ: gRPC looks at the life the token has left (`unexpired`) after it has validated it, HTTP does
not, so a token that expires between the two is refused over gRPC and answered 200 over HTTP.

`Access` is the way to the handler. A path is the sequence of its segments, with one path for every
case the mux, `isPublicPath` and the id parsers distinguish; a header is one of the five cases the
token tests distinguish. `HTTPAnswer` is CORS over auth over mux, `GRPCAnswer` the unary or the stream
interceptor, `HTTPAdmissions` and `GRPCAdmissions` the handlers that some request reaches and whether
it then has an identity. Paths are clean: any other one the mux redirects. The wrappers of single
routes are elsewhere: `RateLimiter` around HTTP Login, which alone can answer 429, and `Idempotency`
around HTTP CreateTodo.

### Accounts

Each row of `users` has its three columns (the password stands for its hash). `Begin` admits a request
through `Access`; its statement is a later step, and `Login` signs its tokens (`Sign`) later still, so
that a rename or a deletion may come between. `InsertUser` and `UpdateRow` are refused by the UNIQUE
columns. `Serve` is every operation that leaves users and tokens alone, or is refused. `Panic` is a
handler's panic: in a stream it ends the process. `tokens` and `sessions` are whom an access token
that is still good, and a refresh token ever given, were for. `typed` remembers the credentials as
they came in, before trimming. A refresh token is good for ever here; what ends it is `Sessions`.

### Lifecycle

`main` is where `main()` stands, from `config.Load` on; `http` and `grpc` are the serving goroutines.
Work in flight is `requests` (HTTP), `calls` (unary gRPC: they end by themselves) and `streams`.
`ShutdownReturns` may come with requests left, its 5 seconds being over; `forced` remembers that.
`Serve` before or after `GracefulStop` are different actions, as grpc-go treats them differently.
`StreamPanics` is the panic of a stream's handler, which no interceptor recovers: the process ends.

### Streams

A stream is a handler and a client. The handler is between two calls at `recv`, `create`,
`sendCreated`, `sendError` or `sendTodo`; the client sends, closes, goes away, and receives events
(`Deliver`) or does not. `sent`, `taken`, `events`, `got` are the messages and events on their way, in
order; `made` and `unseen` are the messages whose todos are in the table, the latter behind an error.
`Window` is how many events fit into the transport before `Send` waits. The single response of
`BulkCreateTodos` is taken to fit. `LoseUser` deletes the user a stream runs as: its token is not
looked at again, but the foreign key refuses every further row. (The interceptor does not look for the
user either: `Open` with `LoseUser` behind it is the stream of one who had been deleted before.) A stream
opens and ends inside the process of `Lifecycle`: `GracefulStop` waits for its handler, a panic
elsewhere ends it, and its own panic ends the process.

## 3. Runs

| Run | Instance | Checks | States |
|---|---|---|---|
| `cached_overlap` | 3 goroutines, 1 todo, 1 title, its owner may be deleted | `TypeOK`, `ItemCoherence`, `ListCoherence`, `HeldIsCurrent`, `ImplementsStaleStore` | 809 000 |
| `cached_faults` | 2 goroutines, the same, statements fail, replies are lost, lists cut short | `IInv`, `SeenBefore`, `ImplementsStaleStore` | 89 000 |
| `cached_sequential` | 1 goroutine, 2 todos, 2 titles, 2 users | `ImplementsStore` | 75 000 |
| `rate_limiter` | 3 requests, 1 address, limit 2, window 3 | `TypeOK`, `QuietWindowClears`, `AtMostTwoWindowsPass`, `LockoutEnds` | 2 200 |
| `idempotency` | 3 requests, 2 keys, 3 ids | `TypeOK`, `OneTodoPerKey`, `AnswersAgree`, `ImplementsOnce` | 57 000 |
| `sessions` | 3 goroutines, 1 token, lives 2 and 4 | `TypeOK`, `RevokedUntilExpiry`, `LogoutEndsAccess`, `EndedForGood` | 8 200 |
| `accounts` | 2 goroutines, 2 ids, names, addresses and passwords, handlers may panic | `TypeOK`, `CredentialsWork`, `ProtectedNeedsToken`, `SameDoors`, `TransportsAgree` | 427 000 |
| `lifecycle` | 1 request, 1 call, 1 stream of any kind after another, 3 messages, window 1; settings, dependencies, ports, statements and replies may be missing, and the stream's handler may panic | `StreamsTypeOK`, `ClosedAfterUse`, `SignalEndsProcess`, `BulkMakesAPrefix`, `SyncAnswersInOrder`, `EveryStreamEnds` | 539 000 |

What they show:

- *Caches.* With requests one at a time, no failing statement and no deleted user, the cached service is the
  store (`ImplementsStore`), restarts included. When requests overlap it is the store with stale reads
  (`ImplementsStaleStore`). A wrong cached todo exists only behind an overtaken request or a silent
  change, and the next write of that todo which nothing overtakes repairs it (`ItemCoherence`); any
  write repairs the list (`ListCoherence`).
- *Rate limiter.* Any minute sees at most twice the limit; a quiet window clears the counter, and a
  lockout ends also for a client that goes on trying, unless EXPIRE was lost.
- *Idempotency.* A key makes one todo across any number of retries, refusals and badly timed crashes,
  except in the cases `unsafe` names, and whatever happens nobody is told of another key's todo.
- *Sessions.* A revoked refresh token stays revoked for as long as it could have been used. Access ends
  after a logout when the access token there was ends, or the one of a refresh that overtook the
  logout (`LogoutEndsAccess`), and stays ended (`EndedForGood`); only a Redis failure undoes that. Both
  are about a Logout that was answered with success: one whose reply was lost promises nothing, and
  neither says that a login in the second of an earlier one gets a refresh token that still works.
- *Accounts.* However registrations, renames and deletions overlap, whoever has an account can log in
  to it and to no other (`CredentialsWork`): over gRPC with what he typed, over HTTP only if he typed no
  spaces around it, since registration trims and HTTP Login does not. No path, method or transport
  reaches a protected handler without a token of a user (`ProtectedNeedsToken`); of a user, not of one
  who is still there: tokens that were signed, or are refreshed, after the deletion are good.
  Both transports require a token for the same operations (`SameDoors`), and answer the same request
  alike (`TransportsAgree`): every handler makes the tests of its counterpart in the same order, and
  Login finds the same user in every table there can be. The exceptions: HTTP takes ids, tokens and
  credentials as they are and gRPC trims them (a Login with spaces is never let in over HTTP, whatever
  the table); a token that expires during its Logout is refused by gRPC only; 429 is HTTP's only.
- *Streams.* A failed bulk keeps a prefix of its messages, plus the one it stopped at if a reply
  was lost. The k-th event of a sync answers the k-th message, and a client that loses the stream
  leaves `Window` + 1 messages at most that made a todo and whose answer it has not got. (One that was
  answered ERROR may have made a todo too, if the reply of its INSERT was lost: `unseen`.) A stream ends when its client
  has gone, whatever it had not read and even if the handler waits in `Send`; or has closed it and reads.
- *Lifecycle.* Redis and PostgreSQL are closed behind everything but HTTP requests that outlast 5
  seconds; a signal ends the process unless a client keeps a stream open. That streams end is a premise
  here; which do is `EveryStreamEnds`.

### Where the code does not do what the repository says

Four runs look for a counterexample, and find it (`findings` in `PROJECT.json`):

| Run | Property | What happens |
|---|---|---|
| `cached_resurrection` | `DeletedStaysDeleted` | Create's INSERT, then all of a Delete of that todo but its last call, then Create's `itemCache.Set`: the deleted todo is cached |
| `cached_empty_list` | `ListHasAllTodos` | one failed query is cached as an empty list |
| `rate_limiter_lockout` | `TryAgainInOneMinute` | a counter without EXPIRE refuses its address for ever |
| `lifecycle_panic` | `StopsGracefully` | GracefulStop before Serve makes the gRPC goroutine panic |

### Bounds and why they are enough

- One todo suffices for the item cache: an item call reads and writes one id, and ids meet only in the
  list. Two ids are in `cached_sequential`, where the list matters most. Three goroutines give a read,
  and two writes that overtake each other and the read; a fourth would only repeat one of these roles.
- With one title, `completed` still tells an old row from a new one.
- Limit 2 and window 3 have an attempt at the start, in the middle and at the end of a window; counters
  go to `CountBound` = 4, past the limit twice over, and stay there.
- Three ids let each of three requests make a todo, and one key make two with one to spare.
- An access life of 2 and a refresh life of 4 let access end before, at and after the refresh token's
  end. Sessions share nothing, so one is enough; three goroutines give a refresh, a logout and another
  of either.
- Two users are what a UNIQUE column needs, two goroutines what overtaking needs: the statements
  are atomic, and only Login has two of them. Each id registers once, as `uuid.New()` draws no id twice.
- Streams share nothing but the process, so one at a time shows what each does; a new one of another
  kind may open when it has ended. With `Window` = 1 the second event waits for the client, and three
  messages (`MsgBound`) are one more than the `Window` + 1 that may be ahead of it.
- Requests and calls in `lifecycle` are counted by nothing but "none left", so one of each is enough.
- `CHECK_DEADLOCK FALSE` in the Lifecycle configurations: the process ends, and then nothing happens.
- Symmetry is used only in runs without liveness properties (`MCCachedTodos`, `MCIdempotency`,
  `MCAccounts`).

### Fairness

- `RateLimiter`: time passes, and a request with its INCR reply goes on to EXPIRE: the next call of a
  running goroutine, with no lock and no wait for another request between.
- `Lifecycle`, `Streams`: `main`, the two serving goroutines, unary calls, and the handler of a stream
  when it can go on, are scheduled. No client has to send, read or close, no event has to be
  delivered, and no HTTP request has to end: Shutdown's timeout is what ends the wait.
  `EveryStreamEnds` and `SignalEndsProcess` say what they need of clients as premises.

## 4. Proofs

The theorems hold for every number of goroutines, todos, users, names, keys, addresses, sessions and
streams, every limit, life and message count, under the named assumptions of the modules: markers such
as `Absent` are no values (`MarkersAreNoValues`, `NoListIsNoList`, `MarkersAreNoIDs`,
`AccountMarkers`), limits and windows are positive and `CountBound` is no smaller
than the limit (`LimitsArePositive`, `BoundsAreNat`), and
`LivesAreOrdered`: lives are positive and the cache's ttl is no shorter than a refresh token's life, as
`cmd/main.go:83` and `jwt_service.go:47` have it. Each proof is Init ⇒ inductive invariant, one step
per action for its preservation, and a last temporal step.

**Cached repository** (`CachedTodosProofs`, `CachedTodosRefinement`)

| Theorem | Says | Argument |
|---|---|---|
| `TypeCorrect` | `CachedSpec => []TypeOK` | `TInv`: types alone are not inductive, since what `itemCache.Set` stores is what the request holds (`HeldHasType`) |
| `InvariantHolds` | `CachedSpec => []IInv` | `IInv`: an entry is right *because* the request that wrote it held the current row unless marked outdated (`HeldIsCurrent`), so coherence of the caches needs that of the requests, and both need the types |
| `ItemsCoherent`, `ListCoherent`, `HoldersAreCurrent` | the cache properties | from `IInv` |
| `SeenHolds` | `SeenBefore` | what the caches and the requests hold was a state of its row: a query reads one, a fill copies one, and `past` only grows (`PastGrows`) |
| `CacheImplementsStaleStore` | `CachedSpec => ImplementsStaleStore` | each step is a call of the stale store or a stutter (`StaleRequest`); that a cache hit is a `StaleGetByID` or `StaleGetAll` is `SeenBefore` |
| `CacheImplementsStore` | with one goroutine, no faults and no user deleted, `CachedSpec => ImplementsStore` | nothing is then ever stale (`NothingBecomesStale`), so by `IInv` what is cached is the row, and a hit is the exact read (`ExactStep`) |
| `NothingWrongOneAtATime` | under the same conditions, `DeletedStaysDeleted` and `ListHasAllTodos` | at rest no cache call is due, and by `IInv` both caches show the table |

**Rate limiter** (`RateLimiterProofs`)

| Theorem | Says | Argument |
|---|---|---|
| `TypeCorrect` | `Spec => []TypeOK` | inductive by itself |
| `QuietClears` | `QuietWindowClears` | `KeyInv`: the life a counter has left ends no later than the quiet window; a counter without expiry is waiting for its EXPIRE or has lost it |
| `AtMostTwoWindowsEverPass` | `AtMostTwoWindowsPass` | `WindowInv`: a counter with `ttl` ticks to go has lived for `WindowTime - ttl` at least, and what passed since, passed under it; so when Redis removes it only its own attempts are left in the window, and the next counter adds at most `MaxAttempts` to them |
| `TrueWhileExpireArrives` | with no fault but the loss of Redis, `TryAgainInOneMinute` | then `unexpiring` stays empty, and `KeyInv` leaves a quiet client no counter |

**Idempotency** (`IdempotencyProofs`)

| Theorem | Says | Argument |
|---|---|---|
| `TypeCorrect` | `Spec => []TypeOK` | types of the middleware and of the tables together: the row a handler makes is a todo because its owner is a user (`InsertFacts`) |
| `OneTodo` | `OneTodoPerKey` | `KeyInv`: of a safe key one request at most is at work, it has made nothing before its insert, and what was made is recorded or about to be |
| `AnswersNameTheTodo` | `AnswersAgree` | `KeyInv` for safe keys, and `OwnInv` for all: what is recorded, held for an answer or answered was made for that key |
| `MiddlewareImplementsOnce` | `Spec => ImplementsOnce` | `IInv` and `OwnInv`: every action is a Make, a Tell, an Ask, an Overrun or a stutter of `OncePerKey` (`StepRefines`); that a safe key has nothing made when a request inserts is `KeyInv` |

**Sessions** (`SessionsProofs`)

| Theorem | Says | Argument |
|---|---|---|
| `TypeCorrect` | `Spec => []TypeOK` | from its `IInv` |
| `Revoked` | `RevokedUntilExpiry` | an entry starts with a life no shorter than the token's and both lose a tick at a time |
| `LogoutAlwaysEndsAccess` | `LogoutEndsAccess` | `OnlyOvertakingMint`: behind a Logout its entry is there as long as the token lives, so a refresh that may still mint had passed its check before |
| `EndedStaysEnded` | `EndedForGood` | the same, and: a token `Login` may hand out again still has an access token of its own age, so it has not ended |

**Accounts, routing and handlers** (`AccountsProofs`)

| Theorem | Says | Argument |
|---|---|---|
| `TypeCorrect` | `Spec => []TypeOK` | `TableInv`: a Login on its way to its tokens is for an id that was drawn (`SignsForUser`), and the columns are UNIQUE (`ColumnsAreUnique`) |
| `CredentialsAlwaysWork` | `CredentialsWork` | `TableInv`: each row is the trimmed form of what was typed (`RowIsTyped`) and no other row has its name, whatever the order of the statements (`ColumnsAreUnique`) |
| `ProtectedAlwaysNeedsToken`, `DoorsAreTheSame` | `ProtectedNeedsToken`, `SameDoors` | `LetThrough`: whoever is past `Access` had a token or an open operation. That mux, `isPublicPath` and the gRPC lists agree is `Doors`, path by path (`EveryPath`) |
| `TransportsAlwaysAgree` | `TransportsAgree` | operation by operation, the chains of tests of the two handlers are the same (`TestsAgree`); for Login (`LoginsAgree`), that a string without spaces around it is its own trim (`TrimFacts`) and, from `TableInv`, that nothing in the table has spaces around |

**Process and streams** (`StreamsProofs`)

| Theorem | Says | Argument |
|---|---|---|
| `StreamsAreInTheProcess` | `StreamsSpec => Spec` of `Lifecycle` | opening and ending a stream are the process's own actions, every other step of a stream is a stutter of it |
| `ClosedAlwaysAfterUse` | `ClosedAfterUse` | `Order`: what `main` has waited for, stays ended, since a server that is shut down takes nothing in |
| `PanicsInTwoWays` | `PanicHasItsCause`: with settings, dependencies and ports there, the process panics either because Serve came after GracefulStop, and then there was a signal and no stream, or because a stream's handler did | `PanicInv`: a stream is there only if Serve was called in time, and `main` is past its wait only if a signal came |
| `StreamsTypeCorrect` | `StreamsTypeOK` | from the two invariants below |
| `BulkAlwaysMakesAPrefix` | `BulkMakesAPrefix` | `BulkStage`: which messages are in the table at each place of the handler; one lemma per step between two calls |
| `SyncAlwaysAnswersInOrder` | `SyncAnswersInOrder` | `SyncStage`: at most one message is taken and not answered, and the events follow the messages; the count of todos the client was not told of is a cardinality in `got + 1 .. taken` |

All three refinements between the modules' specifications and their abstract ones are proved
(`ImplementsStore`, `ImplementsStaleStore`, `ImplementsOnce`), and all safety invariants of the passing
runs. TLC checks them too, and with them the invariants the proofs rest on that are hardest to guess
(`IInv` and `SeenBefore` in `cached_faults`).

Only model-checked: the liveness properties `LockoutEnds`, `SignalEndsProcess` and
`EveryStreamEnds`, since TLAPS does not reason about fairness and ENABLED. Of the four properties the
code violates (section 3), three theorems say what a violation takes: an overlap, a failure or a deleted
user (`NothingWrongOneAtATime`), a lost EXPIRE, reply or process (`TrueWhileExpireArrives`), a Serve
after GracefulStop or a panic in a stream (`PanicsInTwoWays`).

## 5. Not modelled

- **`InMemoryTodoRepository`**: neither the program nor a test constructs it.
- **Logging**: no answer and no state depends on it. `getEnv` of the configuration is called by nothing.
- **Generated message code, generated clients, Swagger files, down migrations, the migrations container**:
  no logic of this program. Of the generated code, the service descriptors (which methods there are,
  which are streams) are in `Access`. `todos.priority` (migration 2) is read and written by nothing.
- **Order and formatting of lists, wording of errors, memory use of the caches**: no property is about
  them.
- **Isolation inside PostgreSQL and Redis**: a statement and a command are atomic.
- **Which status a failing database has**: handlers answer any repository error alike (often 404);
  the repository promises nothing about it, so there is no property to state beyond `TransportsAgree`.
- **One store behind all of it**: the handlers' changes to todos are in `CachedTodos`, those to users in
  `Accounts`, those to Redis in three modules with keys of their own. They meet in the cascade
  (`DeleteUser` of `TodoTable`, `LoseUser` of `Streams`) and nowhere else.

## 6. Plan

Done: `TodoTable`, `TodoStore`, `CachedTodos`, `RateLimiter`, `Idempotency`, `Sessions`, `Lifecycle`, in this
order: the cached store carries the program, then the three users of Redis, then the process around
them; then `OncePerKey`, `Streams`, the handlers, `Access` and `Accounts`; then the proofs. What could
come next:

1. `NothingWrongOneAtATime` with overlapping requests, as long as no read overlaps a delete.
2. The safety core of `LockoutEnds`: what can still happen to a full counter.
3. `WatchTodos`: what a client was sent is what the table held when the stream opened.
