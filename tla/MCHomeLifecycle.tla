-------------------------- MODULE MCHomeLifecycle --------------------------
(***************************************************************************)
(* Instances of HomeLifecycle for TLC.                                     *)
(***************************************************************************)
EXTENDS HomeLifecycle, TLC

CONSTANTS k1, k2, u1, u2, A, H, G

\* Two connections of one coordinator and users of the same home.
MCRole == [c \in Conn |-> IF c \in {k1, k2} THEN "coordinator" ELSE "user"]
MCName == [c \in Conn |-> A]
MCHome == [c \in Conn |-> H]

\* Users of a second home.
MCTwoHomes == [c \in Conn |-> IF c = u2 THEN G ELSE H]

\* The coordinator's two connections are interchangeable.
MCSymmetry == Permutations({k1, k2})

\* No guard reads the fields of a connection again once it has detached and
\* run is over, its generation once it is not in the home, nor what a peer
\* that cannot be routed to was last told.
PeerView(c) ==
    IF At(c, "exiting") /\ peer[c].detach = "done" THEN <<"exiting">>
    ELSE IF At(c, "done") THEN <<"done">>
    ELSE <<[peer[c] EXCEPT
              !.stopped = @ /\ (peer[c].pc \in {"hello", "activating"} \/ peer[c].phase # "Closed"),
              !.shut = @ /\ (peer[c].pc \in {"hello", "activating"} \/ peer[c].phase # "Closed"),
              !.gen = IF \E h \in Inst : c \in home[h].members THEN @ ELSE 0],
           IF Available(c) \/ At(c, "publishing") THEN <<roster[c], told[c]>> ELSE <<>> >>

MCView == <<[c \in Conn |-> PeerView(c)], silent, homeVars, serverVars>>

=============================================================================
