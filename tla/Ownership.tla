----------------------------- MODULE Ownership -----------------------------
(***************************************************************************)
(* What coordinator declarations promise, without slices, stages, timers,  *)
(* identifiers or tables: every coordinator holds a set of declared names, *)
(* no two coordinators hold the same name, a coordinator's set is replaced *)
(* as a whole, and a name passes from one coordinator to another only      *)
(* after the first one has given it up.                                    *)
(***************************************************************************)
CONSTANTS Name,   \* coordinator names
          Entry   \* what can be declared: state paths, topics, functions

VARIABLE held     \* [Name -> SUBSET Entry]

Init == held = [n \in Name |-> {}]

\* A coordinator replaces its set by names nobody else holds.
Replace(n, D) ==
    /\ \A m \in Name \ {n} : held[m] \cap D = {}
    /\ held' = [held EXCEPT ![n] = D]

\* A coordinator that stayed away loses everything it held.
GiveUp(n) == held' = [held EXCEPT ![n] = {}]

Next == \E n \in Name : GiveUp(n) \/ \E D \in SUBSET Entry : Replace(n, D)

Spec == Init /\ [][Next]_held

\* validateActivationLocked promises that no name has two owners.
Disjoint == \A m, n \in Name : m # n => held[m] \cap held[n] = {}

=============================================================================
