------------------------- MODULE MCProvisioningJobs -------------------------
(* Small instances of ProvisioningJobs. *)
EXTENDS ProvisioningJobs
=============================================================================
