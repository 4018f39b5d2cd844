SPECIFICATION Spec
CONSTANTS
  Keys = {k1, k2, k3, k4}
  Values = {v1, v2}
  Nil = Nil
  Size = 3
  Ttl = 1
  MaxNow = 2
  MaxUses = 6
SYMMETRY MCSymmetry
INVARIANT LruInv
PROPERTY ImplementsRecency
