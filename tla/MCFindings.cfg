SPECIFICATION Spec
CONSTANTS
  Detail = {d1, d2}
  Accumulator = {a, b}
  Firings <- MCFirings
INVARIANTS
  BestIsMaximum
  OrderIndependent
  AllowIffSilent
