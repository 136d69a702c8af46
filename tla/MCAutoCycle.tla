---------------------------- MODULE MCAutoCycle ----------------------------
(* Model checking of AutoCycle: the first credential serves both models,   *)
(* the others one each.  The order of the credentials and liveness leave   *)
(* no use for symmetry.                                                    *)
EXTENDS AutoCycle

CONSTANTS m1, m2

MCAllowed == [c \in Slots |-> CASE c = 0 -> {m1, m2} [] c = 1 -> {m2} [] OTHER -> {m1}]

=============================================================================
