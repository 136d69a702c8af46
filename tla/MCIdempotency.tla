--------------------------- MODULE MCIdempotency ---------------------------
(* Model checking of Idempotency: callers, keys and bodies are each        *)
(* interchangeable among themselves.                                       *)
EXTENDS Idempotency, TLC

Symmetry ==
  Permutations(Requests) \cup Permutations(Keys) \cup Permutations(Bodies)

=============================================================================
