SPECIFICATION FairSpec
CONSTANTS
  Command <- MCCommand
  Source <- MCSource
  Script <- MCScript
  Parse <- MCParse
  TooLong <- MCTooLong
  LooksLikeBase64 <- MCLooksLikeBase64
  Decode <- MCDecode
  MaxDepth = 2
  MaxWrappers = 3
  MaxCmdBytes = 140
  ParseTable <- MCParseTable
INVARIANTS
  TypeOK
  FailClosed
  NothingUnvisited
  DownloadThenRun
  BindingsAreCurrent
  WrappersSeenThrough
PROPERTIES
  FieldsAsInAShell
  Terminates
