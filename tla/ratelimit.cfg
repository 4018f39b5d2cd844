SPECIFICATION Spec
CONSTANTS
  Requests = {r1, r2}
  IPs = {a, b}
  Unit = 2
  GlobalQPS = 2
  PerIPQPS = 1
  Ttl = 3
  MaxStall = 1
  MaxTime = 4
SYMMETRY Symmetry
INVARIANT LimitInv
PROPERTY ImplementsLimiter
