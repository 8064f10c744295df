------------------------- MODULE RateLimiterProofs -------------------------
(***************************************************************************)
(* Proofs that a quiet window clears the counter of a client, and that at  *)
(* most two windows' worth of attempts pass in any window of time.         *)
(***************************************************************************)
EXTENDS RateLimiter, TLAPS

\* The life a key has left ends with the quiet window; a key without expiry is
\* waiting for its EXPIRE or has lost it.
KeyInv(c) ==
    /\ count[c] = 0 => ttl[c] = 0
    /\ ttl[c] > 0 => ttl[c] + quiet[c] <= WindowTime
    /\ count[c] > 0 /\ ttl[c] = 0 => ExpiryDue(c) \/ c \in unexpiring

IInv == TypeOK /\ \A c \in Client : KeyInv(c)

LEMMA InvInit == Init => IInv
  <1> SUFFICES ASSUME Init PROVE IInv
    OBVIOUS
  <1>1. TypeOK
    BY LimitsArePositive DEF Init, TypeOK, Nobody, Ages
  <1>2. \A c \in Client : KeyInv(c)
    BY LimitsArePositive DEF Init, KeyInv
  <1> QED
    BY <1>1, <1>2 DEF IInv

LEMMA TypeStep == TypeOK /\ [Next]_vars => TypeOK'
  <1> SUFFICES ASSUME TypeOK, [Next]_vars PROVE TypeOK'
    OBVIOUS
  <1> USE LimitsArePositive DEF TypeOK
  <1>1. ASSUME NEW r \in Request, NEW c \in Client, Attempt(r, c)
        PROVE  TypeOK'
    <2>1. passed' \in [Client -> [Ages -> Nat]]
      <3>1. [a \in Ages |-> passed[c][a] + 1] \in [Ages -> Nat]
        OBVIOUS
      <3>2. [passed EXCEPT ![c] = [a \in Ages |-> passed[c][a] + 1]]
                \in [Client -> [Ages -> Nat]]
        BY <3>1
      <3> QED
        BY <1>1, <3>2 DEF Attempt, Incremented
    <2>2. pc' \in [Request -> {"idle", "expire"}] /\ client' \in [Request -> Client]
      <3>1. CASE count[c] = 0
        BY <1>1, <3>1 DEF Attempt, Incremented
      <3>2. CASE count[c] # 0
        BY <1>1, <3>2 DEF Attempt, Incremented
      <3> QED
        BY <3>1, <3>2
    <2>3. count' \in [Client -> Nat]
      BY <1>1 DEF Attempt, Incremented
    <2>4. quiet' \in [Client -> 0 .. WindowTime]
      BY <1>1 DEF Attempt, Incremented, Touch
    <2> QED
      BY <1>1, <2>1, <2>2, <2>3, <2>4 DEF Attempt, Incremented
  <1>2. ASSUME NEW r \in Request, SetExpiry(r)
        PROVE  TypeOK'
    BY <1>2 DEF SetExpiry, Touch
  <1>3. ASSUME NEW r \in Request, ExpiryFails(r)
        PROVE  TypeOK'
    BY <1>3 DEF ExpiryFails, WithoutExpiry
  <1>4. ASSUME NEW c \in Client, IncrementUnseen(c)
        PROVE  TypeOK'
    BY <1>4 DEF IncrementUnseen, Incremented, Touch
  <1>5. CASE Crash
    BY <1>5 DEF Crash, WithoutExpiry
  <1>6. CASE RedisLoss
    BY <1>6 DEF RedisLoss, Nobody, Ages
  <1>7. CASE Tick
    <2>1. ASSUME NEW c \in Client PROVE [a \in Ages |-> IF a = 0 THEN 0 ELSE passed[c][a - 1]]
                                            \in [Ages -> Nat]
      BY DEF Ages
    <2>2. passed' \in [Client -> [Ages -> Nat]]
      BY <1>7, <2>1 DEF Tick
    <2> QED
      BY <1>7, <2>2 DEF Tick
  <1>8. CASE UNCHANGED vars
    BY <1>8 DEF vars
  <1> QED
    BY <1>1, <1>2, <1>3, <1>4, <1>5, <1>6, <1>7, <1>8 DEF Next

LEMMA InvStep == IInv /\ [Next]_vars => IInv'
  <1> SUFFICES ASSUME IInv, [Next]_vars PROVE IInv'
    OBVIOUS
  <1>t. TypeOK /\ TypeOK'
    BY TypeStep DEF IInv
  <1>k. \A c \in Client : KeyInv(c)
    BY DEF IInv
  <1> USE LimitsArePositive DEF KeyInv, ExpiryDue, TypeOK
  <1>1. ASSUME NEW r \in Request, NEW c \in Client, Attempt(r, c), NEW d \in Client
        PROVE  KeyInv(d)'
    <2>1. CASE d = c
      <3>1. CASE count[c] = 0
        BY <1>t, <1>k, <1>1, <2>1, <3>1 DEF Attempt, Incremented, Touch
      <3>2. CASE count[c] > 0
        BY <1>t, <1>k, <1>1, <2>1, <3>2 DEF Attempt, Incremented, Touch
      <3> QED
        BY <1>t, <3>1, <3>2
    <2>2. CASE d # c
      BY <1>t, <1>k, <1>1, <2>2 DEF Attempt, Incremented, Touch
    <2> QED
      BY <2>1, <2>2
  <1>2. ASSUME NEW r \in Request, SetExpiry(r), NEW d \in Client
        PROVE  KeyInv(d)'
    <2>1. CASE d = client[r]
      BY <1>t, <1>k, <1>2, <2>1 DEF SetExpiry, Touch
    <2>2. CASE d # client[r]
      BY <1>t, <1>k, <1>2, <2>2 DEF SetExpiry, Touch
    <2> QED
      BY <2>1, <2>2
  <1>3. ASSUME NEW r \in Request, ExpiryFails(r), NEW d \in Client
        PROVE  KeyInv(d)'
    BY <1>t, <1>k, <1>3 DEF ExpiryFails, WithoutExpiry
  <1>4. ASSUME NEW c \in Client, IncrementUnseen(c), NEW d \in Client
        PROVE  KeyInv(d)'
    BY <1>t, <1>k, <1>4 DEF IncrementUnseen, Incremented, Touch
  <1>5. ASSUME Crash, NEW d \in Client
        PROVE  KeyInv(d)'
    BY <1>t, <1>k, <1>5 DEF Crash, WithoutExpiry
  <1>6. ASSUME RedisLoss, NEW d \in Client
        PROVE  KeyInv(d)'
    BY <1>t, <1>6 DEF RedisLoss
  <1>7. ASSUME Tick, NEW d \in Client
        PROVE  KeyInv(d)'
    BY <1>t, <1>k, <1>7 DEF Tick
  <1>8. ASSUME UNCHANGED vars, NEW d \in Client
        PROVE  KeyInv(d)'
    BY <1>k, <1>8 DEF vars
  <1>9. \A d \in Client : KeyInv(d)'
    BY <1>1, <1>2, <1>3, <1>4, <1>5, <1>6, <1>7, <1>8 DEF Next
  <1> QED
    BY <1>t, <1>9 DEF IInv

\* The counters and requests of RateLimitMiddleware have their types, for every limit
\* and window.
THEOREM TypeCorrect == Spec => []TypeOK
  <1>1. TypeOK /\ [Next]_vars => TypeOK'
    BY TypeStep
  <1>2. Init => TypeOK
    BY InvInit DEF IInv
  <1> QED
    BY <1>1, <1>2, PTL DEF Spec

\* RateLimitMiddleware: a client that sends nothing for a window has no counter left,
\* for every limit and window, unless EXPIRE is still due or was lost.
THEOREM QuietClears == Spec => []QuietWindowClears
  <1>1. IInv => QuietWindowClears
    BY LimitsArePositive DEF IInv, KeyInv, TypeOK, QuietWindowClears
  <1> QED
    BY <1>1, InvInit, InvStep, PTL DEF Spec

-----------------------------------------------------------------------------
\* The attempts the counter of c itself has let through, at most.
LetIn(c) == IF count[c] < MaxAttempts THEN count[c] ELSE MaxAttempts

\* What passed in a window of time passed under the counter there is now or under the
\* one before it.  A counter with ttl ticks to go is at least WindowTime - ttl ticks
\* old: what passed since then, all of it passed under this counter.
WindowInv(c) ==
    /\ passed[c][WindowTime - 1] <= MaxAttempts + LetIn(c)
    /\ ttl[c] \in 1 .. WindowTime - 1 => passed[c][WindowTime - 1 - ttl[c]] <= LetIn(c)
    /\ \A a \in Ages, b \in Ages : a <= b => passed[c][a] <= passed[c][b]

WindowsInv == IInv /\ \A c \in Client : WindowInv(c)

LEMMA WindowsInit == Init => WindowsInv
  <1> SUFFICES ASSUME Init, NEW c \in Client PROVE WindowInv(c)
    BY InvInit DEF WindowsInv
  <1>1. \A a \in Ages : passed[c][a] = 0
    BY DEF Init, Nobody
  <1>2. WindowTime - 1 \in Ages /\ ttl[c] = 0 /\ LetIn(c) = 0
    BY LimitsArePositive DEF Init, Ages, LetIn
  <1> QED
    BY <1>1, <1>2, LimitsArePositive DEF WindowInv

LEMMA WindowsStep == WindowsInv /\ [Next]_vars => WindowsInv'
  <1> SUFFICES ASSUME WindowsInv, [Next]_vars PROVE WindowsInv'
    OBVIOUS
  <1>t. TypeOK /\ TypeOK'
    BY TypeStep DEF WindowsInv, IInv
  <1>k. \A c \in Client : KeyInv(c) /\ WindowInv(c)
    BY DEF WindowsInv, IInv
  <1>a. /\ WindowTime - 1 \in Ages
        /\ \A c \in Client : ttl[c] \in 1 .. WindowTime - 1 => WindowTime - 1 - ttl[c] \in Ages
        /\ \A c \in Client : ttl'[c] \in 1 .. WindowTime - 1 => WindowTime - 1 - ttl'[c] \in Ages
    <2>1. WindowTime - 1 \in Ages
      BY LimitsArePositive DEF Ages
    <2>2. \A t \in 1 .. WindowTime - 1 : WindowTime - 1 - t \in Ages
      BY LimitsArePositive DEF Ages
    <2> QED
      BY <2>1, <2>2
  <1>p. \A c \in Client, a \in Ages : passed[c][a] \in Nat /\ passed'[c][a] \in Nat
    BY <1>t DEF TypeOK
  <1>l. \A c \in Client : LetIn(c) \in 0 .. MaxAttempts /\ LetIn(c)' \in 0 .. MaxAttempts
    BY <1>t, LimitsArePositive DEF TypeOK, LetIn
  <1> USE LimitsArePositive
  \* What leaves the window alone and takes nothing off the counter, or gives it a
  \* whole life.
  <1>s. ASSUME NEW d \in Client, passed'[d] = passed[d], count'[d] >= count[d],
               ttl'[d] \in {ttl[d], WindowTime}
        PROVE  WindowInv(d)'
    <2>1. LetIn(d)' >= LetIn(d)
      BY <1>t, <1>s DEF LetIn, TypeOK
    <2>2. passed'[d][WindowTime - 1] <= MaxAttempts + LetIn(d)'
      BY <1>k, <1>a, <1>p, <1>l, <1>s, <2>1 DEF WindowInv
    <2>3. ASSUME ttl'[d] \in 1 .. WindowTime - 1
          PROVE  passed'[d][WindowTime - 1 - ttl'[d]] <= LetIn(d)'
      <3>1. ttl'[d] = ttl[d]
        BY <1>s, <2>3
      <3>2. passed[d][WindowTime - 1 - ttl[d]] <= LetIn(d)
        BY <1>k, <2>3, <3>1 DEF WindowInv
      <3> QED
        BY <1>a, <1>p, <1>l, <1>s, <2>1, <2>3, <3>1, <3>2
    <2> QED
      BY <1>k, <1>s, <2>2, <2>3 DEF WindowInv
  <1>1. ASSUME NEW r \in Request, NEW c \in Client, Attempt(r, c), NEW d \in Client
        PROVE  WindowInv(d)'
    <2>1. CASE d # c \/ ~ Allowed(count[c] + 1)
      <3>1. passed'[d] = passed[d] /\ count'[d] >= count[d] /\ ttl'[d] = ttl[d]
        BY <1>t, <1>1, <2>1 DEF Attempt, Incremented, TypeOK
      <3> QED
        BY <1>s, <3>1
    <2>2. CASE d = c /\ Allowed(count[c] + 1)
      <3>1. count'[d] = count[d] + 1 /\ count[d] + 1 <= MaxAttempts /\ ttl'[d] = ttl[d]
        BY <1>t, <1>1, <2>2 DEF Attempt, Incremented, TypeOK, Allowed
      <3>2. LetIn(d)' = LetIn(d) + 1
        BY <1>t, <3>1 DEF LetIn, TypeOK
      <3>3. \A a \in Ages : passed'[d][a] = passed[d][a] + 1
        BY <1>t, <1>1, <2>2 DEF Attempt, Incremented, TypeOK
      <3>4. passed'[d][WindowTime - 1] <= MaxAttempts + LetIn(d)'
        BY <1>k, <1>a, <1>p, <1>l, <3>2, <3>3 DEF WindowInv
      <3>5. ttl'[d] \in 1 .. WindowTime - 1 =>
                passed'[d][WindowTime - 1 - ttl'[d]] <= LetIn(d)'
        BY <1>k, <1>a, <1>p, <1>l, <3>1, <3>2, <3>3 DEF WindowInv
      <3>6. \A a \in Ages, b \in Ages : a <= b => passed'[d][a] <= passed'[d][b]
        BY <1>k, <1>p, <3>3 DEF WindowInv
      <3> QED
        BY <3>4, <3>5, <3>6 DEF WindowInv
    <2> QED
      BY <2>1, <2>2
  <1>2. ASSUME NEW r \in Request, SetExpiry(r), NEW d \in Client
        PROVE  WindowInv(d)'
    BY <1>s, <1>t, <1>2 DEF SetExpiry, TypeOK
  <1>3. ASSUME NEW d \in Client, UNCHANGED <<count, ttl, passed>>
        PROVE  WindowInv(d)'
    BY <1>s, <1>t, <1>3 DEF TypeOK
  <1>4. ASSUME NEW c \in Client, IncrementUnseen(c), NEW d \in Client
        PROVE  WindowInv(d)'
    BY <1>s, <1>t, <1>4 DEF IncrementUnseen, Incremented, TypeOK
  <1>5. ASSUME RedisLoss, NEW d \in Client
        PROVE  WindowInv(d)'
    <2>1. ttl'[d] = 0 /\ \A a \in Ages : passed'[d][a] = 0
      BY <1>5 DEF RedisLoss, Nobody
    <2> QED
      BY <1>a, <1>l, <2>1 DEF WindowInv
  <1>6. ASSUME Tick, NEW d \in Client
        PROVE  WindowInv(d)'
    <2>1. \A a \in Ages : passed'[d][a] = IF a = 0 THEN 0 ELSE passed[d][a - 1]
      BY <1>6 DEF Tick
    <2>2. \A a \in Ages \ {0} : a - 1 \in Ages /\ a - 1 <= a
      BY DEF Ages
    <2>3. \A a \in Ages, b \in Ages : a <= b => passed'[d][a] <= passed'[d][b]
      <3> SUFFICES ASSUME NEW a \in Ages, NEW b \in Ages, a <= b
                   PROVE  passed'[d][a] <= passed'[d][b]
        OBVIOUS
      <3>1. CASE a = 0
        BY <1>p, <2>1, <3>1
      <3>2. CASE a # 0
        <4>1. b # 0 /\ a - 1 <= b - 1
          BY <3>2 DEF Ages
        <4> QED
          BY <1>k, <2>1, <2>2, <3>2, <4>1 DEF WindowInv
      <3> QED
        BY <3>1, <3>2
    <2>4. \A a \in Ages : passed'[d][a] <= passed[d][a]
      BY <1>k, <1>p, <2>1, <2>2 DEF WindowInv
    \* Redis removes the key: the attempts before it have left the window.
    <2>5. CASE ttl[d] = 1
      <3>1. ttl'[d] = 0 /\ LetIn(d)' = 0
        BY <1>6, <2>5 DEF Tick, LetIn
      <3>2. passed'[d][WindowTime - 1] <= MaxAttempts
        <4>1. CASE WindowTime = 1
          BY <1>a, <2>1, <4>1
        <4>2. CASE WindowTime > 1
          <5>1. passed[d][WindowTime - 1 - 1] <= LetIn(d) /\ WindowTime - 1 # 0
            BY <1>k, <2>5, <4>2 DEF WindowInv
          <5> QED
            BY <1>a, <1>p, <1>l, <2>1, <2>2, <5>1
        <4> QED
          BY <4>1, <4>2
      <3> QED
        BY <2>3, <3>1, <3>2 DEF WindowInv
    <2>6. CASE ttl[d] # 1
      <3>1. count'[d] = count[d] /\ LetIn(d)' = LetIn(d)
        BY <1>6, <2>6 DEF Tick, LetIn
      <3>2. passed'[d][WindowTime - 1] <= MaxAttempts + LetIn(d)'
        BY <1>k, <1>a, <1>p, <1>l, <2>4, <3>1 DEF WindowInv
      <3>3. ASSUME ttl'[d] \in 1 .. WindowTime - 1
            PROVE  passed'[d][WindowTime - 1 - ttl'[d]] <= LetIn(d)'
        <4>1. ttl[d] = ttl'[d] + 1 /\ ttl[d] \in 2 .. WindowTime
          <5>1. ttl[d] \in 0 .. WindowTime
            BY <1>t DEF TypeOK
          <5>2. ttl'[d] = IF ttl[d] > 0 THEN ttl[d] - 1 ELSE 0
            BY <1>6 DEF Tick
          <5> QED
            BY <3>3, <5>1, <5>2
        <4>2. CASE ttl[d] = WindowTime
          <5>1. WindowTime - 1 - ttl'[d] = 0 /\ 0 \in Ages
            BY <1>a, <3>3, <4>1, <4>2 DEF Ages
          <5> QED
            BY <1>l, <2>1, <5>1
        <4>3. CASE ttl[d] < WindowTime
          <5> DEFINE a == WindowTime - 1 - ttl'[d]
          <5>1. a \in Ages \ {0} /\ a - 1 = WindowTime - 1 - ttl[d]
            BY <1>a, <3>3, <4>1, <4>3
          <5>2. passed[d][a - 1] <= LetIn(d)
            BY <1>k, <4>1, <4>3, <5>1 DEF WindowInv
          <5> QED
            BY <2>1, <3>1, <5>1, <5>2
        <4> QED
          BY <4>1, <4>2, <4>3
      <3> QED
        BY <2>3, <3>2, <3>3 DEF WindowInv
    <2> QED
      BY <2>5, <2>6
  <1>7. \A d \in Client : WindowInv(d)'
    BY <1>1, <1>2, <1>3, <1>4, <1>5, <1>6 DEF Next, ExpiryFails, Crash, vars
  <1> QED
    BY <1>7, InvStep DEF WindowsInv

\* RateLimitMiddleware: over any WindowTime ticks at most two windows' worth of counted
\* attempts pass, for every limit, window, number of requests and clients, and whatever
\* is lost or crashes, as long as Redis keeps its keys.
THEOREM AtMostTwoWindowsEverPass == Spec => []AtMostTwoWindowsPass
  <1>1. ASSUME WindowsInv, NEW c \in Client
        PROVE  passed[c][WindowTime - 1] <= 2 * MaxAttempts
    <2>1. WindowTime - 1 \in Ages
      BY LimitsArePositive DEF Ages
    <2>2. passed[c][WindowTime - 1] \in Nat /\ LetIn(c) \in 0 .. MaxAttempts
      BY <1>1, <2>1, LimitsArePositive DEF WindowsInv, IInv, TypeOK, LetIn
    <2> QED
      BY <1>1, <2>2, LimitsArePositive DEF WindowsInv, WindowInv
  <1>2. WindowsInv => AtMostTwoWindowsPass
    BY <1>1 DEF AtMostTwoWindowsPass
  <1> QED
    BY <1>2, WindowsInit, WindowsStep, PTL DEF Spec

-----------------------------------------------------------------------------
(* Why an address is refused for ever: a lost EXPIRE, and nothing else.    *)

\* Without a failing EXPIRE, a lost reply and a crash no counter is without its EXPIRE,
\* so the 429 answer of RateLimitMiddleware is true: after a quiet window the next
\* attempt is let through.
THEOREM TrueWhileExpireArrives ==
    ASSUME Faults \subseteq {"redisLoss"}
    PROVE  Spec => []TryAgainInOneMinute
  <1>1. Init => unexpiring = {}
    BY DEF Init
  <1>2. unexpiring = {} /\ [Next]_vars => (unexpiring = {})'
    BY DEF Next, vars, Attempt, SetExpiry, ExpiryFails, IncrementUnseen, Crash, RedisLoss, Tick
  <1>3. IInv /\ unexpiring = {} => TryAgainInOneMinute
    <2> SUFFICES ASSUME IInv, unexpiring = {},
                        NEW c \in Client, quiet[c] = WindowTime, ~ExpiryDue(c)
                 PROVE  Allowed(count[c] + 1)
      BY DEF TryAgainInOneMinute
    <2>1. count[c] = 0
      BY LimitsArePositive DEF IInv, KeyInv, TypeOK
    <2> QED
      BY <2>1, LimitsArePositive DEF Allowed
  <1> QED
    BY <1>1, <1>2, <1>3, InvInit, InvStep, PTL DEF Spec
=============================================================================
