---------------------------- MODULE MCCallRouting ----------------------------
(* Instances of CallRouting for TLC. *)
EXTENDS CallRouting, TLC

CONSTANTS b1, b2, u1

\* Two coordinators of one slot: the second replaces the first.
MCRoleOf == [c \in Conn |-> IF c = u1 THEN "user" ELSE "coordinator"]
MCNameOf == [c \in Conn |-> CHOOSE n \in Name : TRUE]

\* Until one attaches, the two coordinators are interchangeable.
MCSymmetric == Permutations({b1, b2})
==============================================================================
