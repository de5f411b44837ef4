----------------------------- MODULE MCStateViews -----------------------------
(* Instances of StateViews for TLC. *)
EXTENDS StateViews

CONSTANTS a, b, u, p, q, t, v

\* a declares p, q and t, or q alone, and gives the right to see p and to hear
\* t either way; b declares p and t, and gives the right to see q.
MCOffers ==
    [n \in Name |->
        IF n = a
        THEN {[paths |-> {p, q}, topics |-> {t}, see |-> [x \in User |-> {p}],
               hear |-> [x \in User |-> {t}], say |-> [x \in User |-> {}]],
              [paths |-> {q}, topics |-> {}, see |-> [x \in User |-> {p}],
               hear |-> [x \in User |-> {t}], say |-> [x \in User |-> {}]]}
        ELSE {[paths |-> {p}, topics |-> {t}, see |-> [x \in User |-> {q}],
               hear |-> [x \in User |-> {}], say |-> [x \in User |-> {t}]]}]

==============================================================================
