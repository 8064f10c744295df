----------------------------- MODULE OncePerKey -----------------------------
(***************************************************************************)
(* What an Idempotency-Key promises: the first request that gets through   *)
(* with it makes a todo, and every request is told of that one.  The       *)
(* promise ends for a key when the service says that it is unsafe; even    *)
(* then nobody is told of a todo that was made for another key.            *)
(***************************************************************************)
CONSTANTS Request, Key, TodoID, Nothing

VARIABLES
    made,       \* made[k] is the set of todos made for key k
    told,       \* told[r] is the key and the todo in the answer to r, or Nothing
    unsafe      \* the keys that promise nothing any more

onceVars == <<made, told, unsafe>>

Init ==
    /\ made = [k \in Key |-> {}]
    /\ told = [r \in Request |-> Nothing]
    /\ unsafe = {}

\* A key makes its todo, once while it is safe.
Make(k, i) ==
    /\ k \in unsafe' \/ made[k] = {}
    /\ made' = [made EXCEPT ![k] = @ \cup {i}]
    /\ UNCHANGED told

\* A request is told of a todo of its key.
Tell(r, k, i) ==
    /\ i \in made[k]
    /\ told' = [told EXCEPT ![r] = <<k, i>>]
    /\ UNCHANGED made

\* A request starts anew.
Ask(r) ==
    /\ told' = [told EXCEPT ![r] = Nothing]
    /\ UNCHANGED made

\* Keys become unsafe, and stay so.
Overrun ==
    /\ unsafe # unsafe'
    /\ UNCHANGED <<made, told>>

Next ==
    /\ unsafe \subseteq unsafe'
    /\ \/ \E r \in Request : Ask(r)
       \/ \E k \in Key, i \in TodoID : Make(k, i) \/ \E r \in Request : Tell(r, k, i)
       \/ Overrun

Spec == Init /\ [][Next]_onceVars
=============================================================================
