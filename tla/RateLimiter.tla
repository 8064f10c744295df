---------------------------- MODULE RateLimiter ----------------------------
(***************************************************************************)
(* RateLimitMiddleware in front of POST /auth/login, and the counters it   *)
(* keeps in Redis through RedisCache.Increment.  INCR is one command and   *)
(* the EXPIRE that gives a new counter its life is another: anything may   *)
(* happen between them.  Time passes in ticks, WindowTime of them to the   *)
(* window.                                                                 *)
(***************************************************************************)
EXTENDS Naturals

CONSTANTS
    Request,        \* goroutines that serve POST /auth/login, one request at a time
    Client,         \* the addresses getClientIP may return
    MaxAttempts,    \* maxAttempts
    WindowTime,     \* windowTime, in ticks
    CountBound,     \* counters stop here: the code tells no values above MaxAttempts apart
    Faults          \* what may go wrong, a set of the names in the actions below

ASSUME LimitsArePositive ==
    /\ MaxAttempts \in Nat \ {0}
    /\ WindowTime \in Nat \ {0}
    /\ CountBound \in Nat
    /\ CountBound >= MaxAttempts

VARIABLES
    count,      \* count[c] is the value of rate_limit:login:c, 0 when there is no key
    ttl,        \* the ticks that key has left, 0 when it has no expiry
    pc,         \* "expire" when the request's INCR made the key and its EXPIRE is due
    client,     \* the address of that request
    quiet,      \* history: ticks since the last command on the key, WindowTime at most
    passed,     \* history: attempts counted and let through, passed[c][a] at most a ticks ago
    unexpiring  \* history: keys without expiry whose EXPIRE was lost

vars == <<count, ttl, pc, client, quiet, passed, unexpiring>>

Ages == 0 .. WindowTime - 1

TypeOK ==
    /\ count \in [Client -> Nat]
    /\ ttl \in [Client -> 0 .. WindowTime]
    /\ pc \in [Request -> {"idle", "expire"}]
    /\ client \in [Request -> Client]
    /\ quiet \in [Client -> 0 .. WindowTime]
    /\ passed \in [Client -> [Ages -> Nat]]
    /\ unexpiring \subseteq Client

Nobody == [c \in Client |-> [a \in Ages |-> 0]]

Init ==
    /\ count = [c \in Client |-> 0]
    /\ ttl = [c \in Client |-> 0]
    /\ pc = [r \in Request |-> "idle"]
    /\ client \in [Request -> Client]
    /\ quiet = [c \in Client |-> 0]
    /\ passed = Nobody
    /\ unexpiring = {}

-----------------------------------------------------------------------------
\* A command reaches the key of c.
Touch(c) == quiet' = [quiet EXCEPT ![c] = 0]

\* Mutant: attempts are tested one too late.
AllowedOneMore(attempts) == attempts <= MaxAttempts + 1

\* The attempts the middleware lets through to Login.
Allowed(attempts) == attempts <= MaxAttempts

\* The effect of INCR.
Incremented(c) == [count EXCEPT ![c] = IF @ < CountBound THEN @ + 1 ELSE @]

\* Mutant: EXPIRE follows every INCR.
AttemptRenews(r, c) ==
    /\ pc[r] = "idle"
    /\ count' = Incremented(c)
    /\ passed' = IF Allowed(count[c] + 1)
                 THEN [passed EXCEPT ![c] = [a \in Ages |-> @[a] + 1]]
                 ELSE passed
    /\ pc' = [pc EXCEPT ![r] = "expire"]
    /\ client' = [client EXCEPT ![r] = c]
    /\ Touch(c)
    /\ UNCHANGED <<ttl, unexpiring>>

\* INCR, and the test of the limit.  The first attempt of a window has EXPIRE to do.
Attempt(r, c) ==
    /\ pc[r] = "idle"
    /\ count' = Incremented(c)
    /\ passed' = IF Allowed(count[c] + 1)
                 THEN [passed EXCEPT ![c] = [a \in Ages |-> @[a] + 1]]
                 ELSE passed
    /\ IF count[c] = 0
       THEN /\ pc' = [pc EXCEPT ![r] = "expire"]
            /\ client' = [client EXCEPT ![r] = c]
       ELSE UNCHANGED <<pc, client>>
    /\ Touch(c)
    /\ UNCHANGED <<ttl, unexpiring>>

\* Mutant: the EXPIRE is left out.
SetExpiryForgotten(r) ==
    /\ pc[r] = "expire"
    /\ pc' = [pc EXCEPT ![r] = "idle"]
    /\ Touch(client[r])
    /\ UNCHANGED <<count, ttl, client, passed, unexpiring>>

\* Mutant: a tick too much.
SetExpiryTooLong(r) ==
    /\ pc[r] = "expire"
    /\ ttl' = [ttl EXCEPT ![client[r]] = WindowTime + 1]
    /\ pc' = [pc EXCEPT ![r] = "idle"]
    /\ Touch(client[r])
    /\ UNCHANGED <<count, client, passed, unexpiring>>

\* EXPIRE, which does nothing to a key that is gone; the request goes on to Login.
SetExpiry(r) ==
    /\ pc[r] = "expire"
    /\ ttl' = IF count[client[r]] > 0 THEN [ttl EXCEPT ![client[r]] = WindowTime] ELSE ttl
    /\ pc' = [pc EXCEPT ![r] = "idle"]
    /\ unexpiring' = unexpiring \ {client[r]}
    /\ Touch(client[r])
    /\ UNCHANGED <<count, client, passed>>

\* The keys among these that have no expiry.
WithoutExpiry(clients) == {c \in clients : count[c] > 0 /\ ttl[c] = 0}

\* EXPIRE fails; its error is dropped and the request goes on to Login.
ExpiryFails(r) ==
    /\ "expireFails" \in Faults
    /\ pc[r] = "expire"
    /\ pc' = [pc EXCEPT ![r] = "idle"]
    /\ unexpiring' = unexpiring \cup WithoutExpiry({client[r]})
    /\ UNCHANGED <<count, ttl, client, quiet, passed>>

\* The reply of INCR is lost: Redis has counted an attempt that no request saw, and
\* the client library sends the command again (another Attempt) or gives up (the
\* middleware then lets the request through uncounted and writes nothing).
IncrementUnseen(c) ==
    /\ "replyLost" \in Faults
    /\ count' = Incremented(c)
    /\ unexpiring' = IF count[c] = 0 THEN unexpiring \cup {c} ELSE unexpiring
    /\ Touch(c)
    /\ UNCHANGED <<ttl, pc, client, passed>>

\* The process ends: an EXPIRE that was due is never sent.
Crash ==
    /\ "crash" \in Faults
    /\ unexpiring' = unexpiring \cup
                     WithoutExpiry({client[r] : r \in {q \in Request : pc[q] = "expire"}})
    /\ pc' = [r \in Request |-> "idle"]
    /\ UNCHANGED <<count, ttl, client, quiet, passed>>

\* Redis restarts without its keys: what was let through before is forgotten.
RedisLoss ==
    /\ "redisLoss" \in Faults
    /\ count' = [c \in Client |-> 0]
    /\ ttl' = [c \in Client |-> 0]
    /\ passed' = Nobody
    /\ unexpiring' = {}
    /\ UNCHANGED <<pc, client, quiet>>

\* Time passes; Redis removes the keys whose time is up.
Tick ==
    /\ count' = [c \in Client |-> IF ttl[c] = 1 THEN 0 ELSE count[c]]
    /\ ttl' = [c \in Client |-> IF ttl[c] > 0 THEN ttl[c] - 1 ELSE 0]
    /\ quiet' = [c \in Client |-> IF quiet[c] < WindowTime THEN quiet[c] + 1 ELSE quiet[c]]
    /\ passed' = [c \in Client |-> [a \in Ages |-> IF a = 0 THEN 0 ELSE passed[c][a - 1]]]
    /\ UNCHANGED <<pc, client, unexpiring>>

Next ==
    \/ \E r \in Request :
          \/ \E c \in Client : Attempt(r, c)
          \/ SetExpiry(r)
          \/ ExpiryFails(r)
    \/ \E c \in Client : IncrementUnseen(c)
    \/ Crash
    \/ RedisLoss
    \/ Tick

Spec == Init /\ [][Next]_vars

\* Time passes, and a goroutine that has its INCR reply goes on to EXPIRE.
Fairness ==
    /\ WF_vars(Tick)
    /\ \A r \in Request : WF_vars(SetExpiry(r) \/ ExpiryFails(r))

FairSpec == Spec /\ Fairness

-----------------------------------------------------------------------------
(***************************************************************************)
(* Properties                                                              *)
(***************************************************************************)

\* The request that will give the key of c its expiry is on its way.
ExpiryDue(c) == \E r \in Request : pc[r] = "expire" /\ client[r] = c

\* A client that sends nothing for a window starts afresh: its counter is gone,
\* unless the EXPIRE of that counter is still due or was lost.
QuietWindowClears ==
    \A c \in Client :
        quiet[c] = WindowTime => count[c] = 0 \/ ExpiryDue(c) \/ c \in unexpiring

\* The limit is per window, not per minute: over any WindowTime ticks at most two
\* windows' worth of counted attempts pass, and never more, whatever requests
\* overlap or crash, as long as Redis keeps its keys.
AtMostTwoWindowsPass ==
    \A c \in Client : passed[c][WindowTime - 1] <= 2 * MaxAttempts

\* A client that is refused is let in again, unless the EXPIRE of its counter is
\* lost: a client that goes on trying does not keep its own counter alive.
LockoutEnds ==
    \A c \in Client :
        count[c] >= MaxAttempts ~> count[c] = 0 \/ c \in unexpiring

-----------------------------------------------------------------------------
\* The 429 answer: "too many login attempts, try again in 1 minute".
TryAgainInOneMinute ==
    \A c \in Client : quiet[c] = WindowTime => Allowed(count[c] + 1) \/ ExpiryDue(c)
=============================================================================
