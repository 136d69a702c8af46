--------------------------- MODULE MCSingleflight ---------------------------
(* Model checking of Singleflight: callers, keys and outcomes are each     *)
(* interchangeable among themselves.                                       *)
EXTENDS Singleflight, TLC

Symmetry ==
  Permutations(Requests) \cup Permutations(Keys) \cup Permutations(Outcomes)

=============================================================================
