----------------------------- MODULE MCTunnels -----------------------------
(* A small instance of Tunnels: the resources of two clones, which have one *)
(* hostname, beside another one.                                            *)
EXTENDS Tunnels, TLC

CONSTANTS a1, a2, b, ha, hb

MCTargets == {a1, a2, b}
MCHosts == {ha, hb}
MCHost == [t \in MCTargets |-> IF t = b THEN hb ELSE ha]
MCId == [h \in Hosts |-> h]

Symmetry == Permutations(PublicPorts) \cup Permutations(LocalPorts)

\* The first call that makes a record is for a1 and the second one for a2 or b.
\* The third one is for b, as the second is, and comes when the first is over.
MCOrder ==
    /\ target'[1] \in {a1, None} /\ target'[2] \in {a2, b, None}
    /\ target'[3] # None =>
          target'[3] = b /\ target'[2] = b /\ step'[1] \in {"returned", "failed"}

MCSpec == Init /\ [][Next /\ MCOrder]_vars
=============================================================================
