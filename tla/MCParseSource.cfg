SPECIFICATION SourceSpec
CONSTANTS
  Input <- MCSourceInput
  MaxCmdBytes = 140
  MaxTokens = 50
  MaxFd = 9
  MaxNest = 6
INVARIANTS
  TypeOK
  TokenizesWhatWasWritten
  ParsesWhatWasWritten
PROPERTY MovesOn
