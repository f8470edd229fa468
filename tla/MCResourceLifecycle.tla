------------------------ MODULE MCResourceLifecycle ------------------------
(* Small instances of ResourceLifecycle: a firewall and an Ubuntu server. *)
EXTENDS ResourceLifecycle

MCResources == {"fw", "vm"}
MCRank == [r \in MCResources |-> IF r = "fw" THEN 0 ELSE 1]
MCBirths == [r \in MCResources |-> IF r = "fw" THEN 1 ELSE 2]

MCInlined == {"vm"}
MCOneRank == [r \in MCInlined |-> 0]
MCOneBirths == [r \in MCInlined |-> 2]
=============================================================================
