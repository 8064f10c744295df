----------------------------- MODULE Sessions ------------------------------
(***************************************************************************)
(* The token life cycle of both AuthHandlers (HTTP and gRPC): Login hands  *)
(* out an access and a refresh token, Refresh trades the refresh token for *)
(* a new access token, Logout puts it on the Redis blocklist.  Tokens are  *)
(* self-contained: nothing but the blocklist and the clock ends them.  A   *)
(* session is one refresh token and the access tokens made from it; of the *)
(* latter only the one that lives longest matters.  Time passes in ticks.  *)
(***************************************************************************)
EXTENDS Naturals, FiniteSets

CONSTANTS
    Worker,         \* goroutines that serve auth requests, one at a time
    Session,        \* the refresh tokens that Login may hand out
    AccessLife,     \* ticks in the 15 minutes of an access token
    RefreshLife,    \* ticks in the 7 days of a refresh token
    BlockTTL,       \* ticks in the ttl of RedisCache, which Blocklist.Block uses
    Faults          \* what may go wrong, a set of the names in the actions below

\* cmd/main.go gives the cache the 7 days that GenerateRefreshToken gives a token.
ASSUME LivesAreOrdered ==
    /\ AccessLife \in Nat \ {0}
    /\ RefreshLife \in Nat \ {0}
    /\ BlockTTL \in Nat
    /\ RefreshLife <= BlockTTL

VARIABLES
    issued,     \* the sessions that Login has started
    left,       \* left[s] is the life the refresh token of s has left
    access,     \* the life its youngest access token has left
    blocked,    \* the life its blocklist entry has left, 0 when there is none
    pc,         \* where each request stands
    session,    \* the session of its refresh token
    loggedOut,  \* history: the sessions whose Logout was answered with success
    unprotected,\* history: those whose entry Redis lost or failed to show
    overtaking, \* history: refreshes that were past their check when Logout succeeded
    due         \* history: ticks until the access of a logged-out session has to be over

vars == <<issued, left, access, blocked, pc, session, loggedOut, unprotected, overtaking, due>>

TypeOK ==
    /\ issued \subseteq Session
    /\ left \in [Session -> 0 .. RefreshLife]
    /\ access \in [Session -> 0 .. AccessLife]
    /\ blocked \in [Session -> 0 .. BlockTTL]
    /\ pc \in [Worker -> {"idle", "mint", "block"}]
    /\ session \in [Worker -> Session]
    /\ loggedOut \subseteq issued
    /\ unprotected \subseteq Session
    /\ overtaking \subseteq Worker
    /\ due \in [Session -> 0 .. AccessLife]

Init ==
    /\ issued = {}
    /\ left = [s \in Session |-> 0]
    /\ access = [s \in Session |-> 0]
    /\ blocked = [s \in Session |-> 0]
    /\ pc = [w \in Worker |-> "idle"]
    /\ session \in [Worker -> Session]
    /\ loggedOut = {}
    /\ unprotected = {}
    /\ overtaking = {}
    /\ due = [s \in Session |-> 0]

-----------------------------------------------------------------------------
tokens == <<issued, left, access>>
history == <<loggedOut, unprotected, overtaking, due>>

Goto(w, at) == pc' = [pc EXCEPT ![w] = at]

\* The request starts with the refresh token of s and goes on at `at'.
Begin(w, s, at) ==
    /\ Goto(w, at)
    /\ session' = [session EXCEPT ![w] = s]

\* Login with good credentials; with bad ones it changes nothing.  Nothing in a
\* token is unique but its times in whole seconds: a user who logs in again at once
\* is given the same tokens again, logged out or not.
Login(s) ==
    /\ s \in issued => left[s] = RefreshLife
    /\ issued' = issued \cup {s}
    /\ left' = [left EXCEPT ![s] = RefreshLife]
    /\ access' = [access EXCEPT ![s] = AccessLife]
    /\ UNCHANGED <<blocked, pc, session, history>>

\* Mutant: Refresh does not ask the blocklist.
RefreshCheckSkipped(w, s) ==
    /\ pc[w] = "idle"
    /\ s \in issued
    /\ Begin(w, s, "mint")
    /\ UNCHANGED <<tokens, blocked, history>>

\* Refresh asks IsBlocked, which answers no when Redis fails; a blocked token is
\* refused at once.
RefreshCheck(w, s) ==
    /\ pc[w] = "idle"
    /\ s \in issued
    /\ blocked[s] = 0 \/ "redisDown" \in Faults
    /\ Begin(w, s, "mint")
    /\ unprotected' = IF blocked[s] > 0 THEN unprotected \cup {s} ELSE unprotected
    /\ UNCHANGED <<tokens, blocked, loggedOut, overtaking, due>>

\* Mutant: the access token gets the life of a refresh token.
RefreshMintLong(w) ==
    /\ pc[w] = "mint"
    /\ access' = [access EXCEPT ![session[w]] = IF left[session[w]] > 0 THEN RefreshLife ELSE @]
    /\ Goto(w, "idle")
    /\ UNCHANGED <<issued, left, blocked, session, history>>

\* Mutant: the expiry of the refresh token is not validated.
RefreshMintUnvalidated(w) ==
    /\ pc[w] = "mint"
    /\ access' = [access EXCEPT ![session[w]] = AccessLife]
    /\ Goto(w, "idle")
    /\ UNCHANGED <<issued, left, blocked, session, history>>

\* ValidateRefreshToken and GenerateAccessToken; an expired token is refused.
RefreshMint(w) ==
    /\ pc[w] = "mint"
    /\ access' = [access EXCEPT ![session[w]] = IF left[session[w]] > 0 THEN AccessLife ELSE @]
    /\ Goto(w, "idle")
    /\ overtaking' = overtaking \ {w}
    /\ due' = IF w \in overtaking /\ left[session[w]] > 0
              THEN [due EXCEPT ![session[w]] = AccessLife]
              ELSE due
    /\ UNCHANGED <<issued, left, blocked, session, loggedOut, unprotected>>

\* Logout validates the token; an expired one is refused.
LogoutValidate(w, s) ==
    /\ pc[w] = "idle"
    /\ s \in issued
    /\ left[s] > 0
    /\ Begin(w, s, "block")
    /\ UNCHANGED <<tokens, blocked, history>>

\* Mutant: the entry lives as long as an access token.
LogoutBlockBriefly(w) ==
    /\ pc[w] = "block"
    /\ blocked' = [blocked EXCEPT ![session[w]] = AccessLife]
    /\ Goto(w, "idle")
    /\ loggedOut' = loggedOut \cup {session[w]}
    /\ UNCHANGED <<tokens, session, unprotected, overtaking, due>>

\* Blocklist.Block, with the cache's ttl whatever ttl the handler passes.
LogoutBlock(w) ==
    /\ pc[w] = "block"
    /\ blocked' = [blocked EXCEPT ![session[w]] = BlockTTL]
    /\ Goto(w, "idle")
    /\ loggedOut' = loggedOut \cup {session[w]}
    /\ unprotected' = unprotected \ {session[w]}
    /\ overtaking' = overtaking \cup {r \in Worker : pc[r] = "mint" /\ session[r] = session[w]}
    /\ due' = [due EXCEPT ![session[w]] = access[session[w]]]
    /\ UNCHANGED <<tokens, session>>

\* The token has expired since it was validated, and the gRPC handler looks again.
LogoutTooLate(w) ==
    /\ pc[w] = "block"
    /\ left[session[w]] = 0
    /\ Goto(w, "idle")
    /\ UNCHANGED <<tokens, blocked, session, history>>

\* Block fails, or its reply is lost after Redis has done it: "failed to logout".
LogoutFails(w) ==
    /\ "redisDown" \in Faults
    /\ pc[w] = "block"
    /\ blocked' \in {blocked, [blocked EXCEPT ![session[w]] = BlockTTL]}
    /\ Goto(w, "idle")
    /\ UNCHANGED <<tokens, session, history>>

\* Redis restarts without its keys.
RedisLoss ==
    /\ "redisLoss" \in Faults
    /\ blocked' = [s \in Session |-> 0]
    /\ unprotected' = unprotected \cup loggedOut
    /\ UNCHANGED <<tokens, pc, session, loggedOut, overtaking, due>>

\* The process ends with its requests; its secrets are configuration, so every
\* token it has signed stays good.
Crash ==
    /\ "crash" \in Faults
    /\ pc' = [w \in Worker |-> "idle"]
    /\ overtaking' = {}
    /\ UNCHANGED <<tokens, blocked, session, loggedOut, unprotected, due>>

Less(life) == [s \in Session |-> IF life[s] > 0 THEN life[s] - 1 ELSE 0]

Tick ==
    /\ left' = Less(left)
    /\ access' = Less(access)
    /\ blocked' = Less(blocked)
    /\ due' = Less(due)
    /\ UNCHANGED <<issued, pc, session, loggedOut, unprotected, overtaking>>

Next ==
    \/ \E s \in Session : Login(s)
    \/ \E w \in Worker :
          \/ \E s \in Session : RefreshCheck(w, s) \/ LogoutValidate(w, s)
          \/ RefreshMint(w)
          \/ LogoutBlock(w) \/ LogoutTooLate(w) \/ LogoutFails(w)
    \/ RedisLoss
    \/ Crash
    \/ Tick

Spec == Init /\ [][Next]_vars

-----------------------------------------------------------------------------
(***************************************************************************)
(* Properties                                                              *)
(***************************************************************************)

\* A Logout that succeeded holds for the whole life of the refresh token: the
\* blocklist entry does not end first, though Block ignores the ttl it is given.
RevokedUntilExpiry ==
    \A s \in loggedOut \ unprotected : left[s] > 0 => blocked[s] > 0

\* Refresh requests of s that are past their blocklist check and may still mint.
MayMint(s) == {w \in Worker : pc[w] = "mint" /\ session[w] = s /\ left[s] > 0}

\* Session s is over: logged out, no good access token, and none to come.
Ended(s) == s \in loggedOut /\ access[s] = 0 /\ MayMint(s) = {}

\* What has ended stays ended, as long as Redis shows the entry: a refresh token
\* that Logout has revoked never buys access again, not by being used around the
\* moment its entry or it expires either.
EndedForGood ==
    [][\A s \in Session : Ended(s) => Ended(s)' \/ s \in unprotected']_vars

\* Logout ends access: what a logged-out session still has runs out with the access
\* token it had at the Logout, or with one that a refresh made that had passed its
\* check before.  No refresh begun after the Logout buys any more, in all the time the
\* refresh token would still have lived, as long as Redis shows the entry.
LogoutEndsAccess ==
    \A s \in loggedOut \ unprotected : access[s] <= due[s]
=============================================================================
