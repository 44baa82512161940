SPECIFICATION Spec
CONSTANTS
  Input <- MCInput
  MaxNest = 1
INVARIANTS
  TypeOK
  ParsesTheGrammar
  GroupsBounded
  LinearWork
