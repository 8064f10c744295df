--------------------------- MODULE SessionsProofs --------------------------
(***************************************************************************)
(* Proofs that a successful Logout holds as long as the refresh token      *)
(* would have lived, that access runs out behind it on time, and that what *)
(* has ended stays ended.                                                  *)
(***************************************************************************)
EXTENDS Sessions, TLAPS

\* The blocklist entry of a logged-out session outlives its refresh token: both
\* lose a tick at a time, and Block starts the entry at the longest life of all.
EntryOutlivesToken == \A s \in loggedOut \ unprotected : left[s] <= blocked[s]

\* A request past its first step has the token of a session that Login started.
TokensAreIssued == \A w \in Worker : pc[w] # "idle" => session[w] \in issued

\* A refresh token that Login may still hand out again has an access token of its
\* own age beside it, so what has ended is never handed out again.
AccessIsYoung == \A s \in issued : left[s] = RefreshLife => access[s] = AccessLife

IInv == TypeOK /\ EntryOutlivesToken /\ TokensAreIssued /\ AccessIsYoung

LEMMA InvInit == Init => IInv
  BY LivesAreOrdered DEF Init, IInv, TypeOK, EntryOutlivesToken, TokensAreIssued, AccessIsYoung

LEMMA InvStep == IInv /\ [Next]_vars => IInv'
  <1> SUFFICES ASSUME IInv, [Next]_vars PROVE IInv'
    OBVIOUS
  <1> USE LivesAreOrdered
      DEF IInv, TypeOK, EntryOutlivesToken, TokensAreIssued, AccessIsYoung, Goto, Begin, tokens, history
  <1>1. ASSUME NEW s \in Session, Login(s)
        PROVE  IInv'
    BY <1>1 DEF Login
  <1>2. ASSUME NEW w \in Worker, NEW s \in Session, RefreshCheck(w, s)
        PROVE  IInv'
    BY <1>2 DEF RefreshCheck
  <1>3. ASSUME NEW w \in Worker, NEW s \in Session, LogoutValidate(w, s)
        PROVE  IInv'
    BY <1>3 DEF LogoutValidate
  <1>4. ASSUME NEW w \in Worker, RefreshMint(w)
        PROVE  IInv'
    BY <1>4 DEF RefreshMint
  <1>5. ASSUME NEW w \in Worker, LogoutBlock(w)
        PROVE  IInv'
    BY <1>5 DEF LogoutBlock
  <1>6. ASSUME NEW w \in Worker, LogoutTooLate(w)
        PROVE  IInv'
    BY <1>6 DEF LogoutTooLate
  <1>7. ASSUME NEW w \in Worker, LogoutFails(w)
        PROVE  IInv'
    BY <1>7 DEF LogoutFails
  <1>8. CASE RedisLoss
    BY <1>8 DEF RedisLoss
  <1>9. CASE Crash
    BY <1>9 DEF Crash
  <1>10. CASE Tick
    BY <1>10 DEF Tick, Less
  <1>11. CASE UNCHANGED vars
    BY <1>11 DEF vars
  <1> QED
    BY <1>1, <1>2, <1>3, <1>4, <1>5, <1>6, <1>7, <1>8, <1>9, <1>10, <1>11 DEF Next

\* The state of the two AuthHandlers, the tokens and the blocklist has its types, for
\* all lives and any number of requests and sessions.
THEOREM TypeCorrect == Spec => []TypeOK
  <1>1. IInv => TypeOK
    BY DEF IInv
  <1> QED
    BY <1>1, InvInit, InvStep, PTL DEF Spec

\* Logout and Blocklist.Block: a revoked refresh token stays on the blocklist until
\* it expires, whatever the lives, if the cache's ttl is no shorter than the token's.
THEOREM Revoked == Spec => []RevokedUntilExpiry
  <1>1. IInv => RevokedUntilExpiry
    BY DEF IInv, TypeOK, EntryOutlivesToken, RevokedUntilExpiry
  <1> QED
    BY <1>1, InvInit, InvStep, PTL DEF Spec

LEMMA EndedStep ==
    ASSUME IInv, [Next]_vars, NEW s \in Session, Ended(s)
    PROVE  Ended(s)' \/ s \in unprotected'
  <1> SUFFICES ASSUME s \notin unprotected' PROVE Ended(s)'
    OBVIOUS
  <1> USE LivesAreOrdered DEF IInv, TypeOK, EntryOutlivesToken, AccessIsYoung, Ended, MayMint,
                              Goto, Begin, tokens, history
  <1>1. ASSUME NEW t \in Session, Login(t)
        PROVE  Ended(s)'
    BY <1>1 DEF Login
  <1>2. ASSUME NEW w \in Worker, NEW t \in Session, RefreshCheck(w, t)
        PROVE  Ended(s)'
    BY <1>2 DEF RefreshCheck
  <1>3. ASSUME NEW w \in Worker, NEW t \in Session, LogoutValidate(w, t)
        PROVE  Ended(s)'
    BY <1>3 DEF LogoutValidate
  <1>4. ASSUME NEW w \in Worker, RefreshMint(w)
        PROVE  Ended(s)'
    BY <1>4 DEF RefreshMint
  <1>5. ASSUME NEW w \in Worker, LogoutBlock(w)
        PROVE  Ended(s)'
    BY <1>5 DEF LogoutBlock
  <1>6. ASSUME NEW w \in Worker, LogoutTooLate(w)
        PROVE  Ended(s)'
    BY <1>6 DEF LogoutTooLate
  <1>7. ASSUME NEW w \in Worker, LogoutFails(w)
        PROVE  Ended(s)'
    BY <1>7 DEF LogoutFails
  <1>8. CASE RedisLoss
    BY <1>8 DEF RedisLoss
  <1>9. CASE Crash
    BY <1>9 DEF Crash
  <1>10. CASE Tick
    BY <1>10 DEF Tick, Less
  <1>11. CASE UNCHANGED vars
    BY <1>11 DEF vars
  <1> QED
    BY <1>1, <1>2, <1>3, <1>4, <1>5, <1>6, <1>7, <1>8, <1>9, <1>10, <1>11 DEF Next

\* Refresh after Logout: access that has run out is never had again with a revoked
\* refresh token, while Redis shows its entry.
THEOREM EndedStaysEnded == Spec => EndedForGood
  <1>1. IInv /\ [Next]_vars => [\A s \in Session : Ended(s) => Ended(s)' \/ s \in unprotected']_vars
    BY EndedStep
  <1> QED
    BY <1>1, InvInit, InvStep, PTL DEF Spec, EndedForGood

-----------------------------------------------------------------------------
\* A refresh that may still mint for a logged-out session had passed its check before
\* the Logout: behind it the entry is there for as long as the token lives.
OnlyOvertakingMint ==
    \A w \in Worker :
        pc[w] = "mint" /\ session[w] \in loggedOut \ unprotected /\ left[session[w]] > 0
            => w \in overtaking

DueInv == IInv /\ OnlyOvertakingMint /\ LogoutEndsAccess

LEMMA DueInit == Init => DueInv
  BY InvInit DEF Init, DueInv, OnlyOvertakingMint, LogoutEndsAccess

LEMMA DueStep == DueInv /\ [Next]_vars => DueInv'
  <1> SUFFICES ASSUME DueInv, [Next]_vars PROVE OnlyOvertakingMint' /\ LogoutEndsAccess'
    BY InvStep DEF DueInv
  <1> USE LivesAreOrdered
      DEF DueInv, IInv, TypeOK, EntryOutlivesToken, TokensAreIssued, AccessIsYoung,
          OnlyOvertakingMint, LogoutEndsAccess, Goto, Begin, tokens, history
  <1>1. ASSUME NEW s \in Session, Login(s)
        PROVE  OnlyOvertakingMint' /\ LogoutEndsAccess'
    BY <1>1 DEF Login
  <1>2. ASSUME NEW w \in Worker, NEW s \in Session, RefreshCheck(w, s)
        PROVE  OnlyOvertakingMint' /\ LogoutEndsAccess'
    BY <1>2 DEF RefreshCheck
  <1>3. ASSUME NEW w \in Worker, NEW s \in Session, LogoutValidate(w, s)
        PROVE  OnlyOvertakingMint' /\ LogoutEndsAccess'
    BY <1>3 DEF LogoutValidate
  <1>4. ASSUME NEW w \in Worker, RefreshMint(w)
        PROVE  OnlyOvertakingMint' /\ LogoutEndsAccess'
    BY <1>4 DEF RefreshMint
  <1>5. ASSUME NEW w \in Worker, LogoutBlock(w)
        PROVE  OnlyOvertakingMint' /\ LogoutEndsAccess'
    BY <1>5 DEF LogoutBlock
  <1>6. ASSUME NEW w \in Worker, LogoutTooLate(w)
        PROVE  OnlyOvertakingMint' /\ LogoutEndsAccess'
    BY <1>6 DEF LogoutTooLate
  <1>7. ASSUME NEW w \in Worker, LogoutFails(w)
        PROVE  OnlyOvertakingMint' /\ LogoutEndsAccess'
    BY <1>7 DEF LogoutFails
  <1>8. CASE RedisLoss
    BY <1>8 DEF RedisLoss
  <1>9. CASE Crash
    BY <1>9 DEF Crash
  <1>10. CASE Tick
    BY <1>10 DEF Tick, Less
  <1>11. CASE UNCHANGED vars
    BY <1>11 DEF vars
  <1> QED
    BY <1>1, <1>2, <1>3, <1>4, <1>5, <1>6, <1>7, <1>8, <1>9, <1>10, <1>11 DEF Next

\* Logout against Refresh's check-then-mint: access runs out behind a Logout with the
\* token there was, or with the token of a refresh that had passed its check before, for
\* all lives and any number of requests.
THEOREM LogoutAlwaysEndsAccess == Spec => []LogoutEndsAccess
  <1>1. DueInv => LogoutEndsAccess
    BY DEF DueInv
  <1> QED
    BY <1>1, DueInit, DueStep, PTL DEF Spec
=============================================================================
