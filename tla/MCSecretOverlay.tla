-------------------------- MODULE MCSecretOverlay --------------------------
(* Small instances of SecretOverlay.  The calls are interchangeable. *)
EXTENDS SecretOverlay, TLC

CallSymmetry == Permutations(InlineCalls)
=============================================================================
