SPECIFICATION Spec
CONSTANTS
  Slots = {q1, q2, q3}
  Users = {u1, u2, u3, u4}
  Costs = {1}
  Limit = 2
  Window = 1
  Cap = 1
  Modulus = 16
  MaxResets = 1
SYMMETRY Symmetry
INVARIANTS CountsExactly BoundedOvershoot MapInv
CONSTRAINT UntilRaced
