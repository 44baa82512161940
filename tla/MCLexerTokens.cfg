SPECIFICATION Spec
CONSTANTS
  Input <- MCOperators
  MaxCmdBytes = 30
  MaxTokens = 6
  MaxFd = 9
INVARIANT TokensBounded
