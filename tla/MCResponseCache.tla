-------------------------- MODULE MCResponseCache ---------------------------
(* Model checking of ResponseCache: two bodies collide, two do not. *)
EXTENDS ResponseCache, TLC

MCHashOf == "a" :> 1 @@ "b" :> 1 @@ "c" :> 2 @@ "d" :> 3

Symmetry == Permutations(Callers)

=============================================================================
