-------------------------- MODULE MCDeclarations --------------------------
(***************************************************************************)
(* Instances of Declarations for TLC.                                      *)
(***************************************************************************)
EXTENDS Declarations, TLC

CONSTANTS a1, a2, b1, A, B, p, q, t, f, v, w

\* Connections a1 and a2 of coordinator A, b1 of coordinator B.
MCName == [c \in Conn |-> IF c = b1 THEN B ELSE A]

\* Two state paths, an event topic and a function.
MCKind == [e \in Entry |-> CASE e = t -> "event" [] e = f -> "function" [] OTHER -> "state"]

\* With two connections of A, they are interchangeable.
MCSymmetry == Permutations({a1, a2})

\* With one connection each, A and B are interchangeable, and so are the paths.
Swap == a1 :> b1 @@ b1 :> a1 @@ A :> B @@ B :> A
MCSymmetricNames == {Swap} \cup Permutations({p, q}) \cup {Swap @@ s : s \in Permutations({p, q})}

\* No guard reads a connection again once it is detached and its handler has
\* returned, nor does the callback of a transaction that is over do anything.
\* The revisions are only ever raised, and are compared across one step only.
MCView ==
    <<[c \in Conn |-> IF peer[c].attached \/ peer[c].pc # "serving" THEN <<peer[c]>> ELSE <<>>],
      stage, begun, {d \in overdue : stage[d[1]].serial = d[2]}, slotVars, dictVars, owner,
      state, sets>>

=============================================================================
