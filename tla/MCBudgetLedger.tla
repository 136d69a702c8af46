--------------------------- MODULE MCBudgetLedger ---------------------------
(* Model checking of BudgetLedger: slots and users are interchangeable. *)
EXTENDS BudgetLedger, TLC

(* What CountsExactly and BoundedOvershoot promise ends with a race between *)
(* a reset or a second rollover and a pending subtraction: the race itself  *)
(* is explored, what follows it is not.                                     *)
UntilRaced == raced = "no"

Symmetry == Permutations(Slots) \cup Permutations(Users)

=============================================================================
