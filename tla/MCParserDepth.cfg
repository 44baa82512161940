SPECIFICATION Spec
CONSTANTS
  Input <- MCChain
  MaxNest = 1
INVARIANT RecursionBounded
