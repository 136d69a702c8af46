---------------------------- MODULE MCClientCall ----------------------------
(* Model checking of ClientCall. *)
EXTENDS ClientCall, TLC

MCAttempts == (Callers \X (1..MaxAttempts)) \cup {Probe}

=============================================================================
