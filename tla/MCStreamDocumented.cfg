SPECIFICATION FairSpec
CONSTANTS
  Id = {2, 7}
  Cmd <- MCCmd
  Detail <- MCDetail
  Analyze <- MCAnalyze
  MaxLineBytes = 2
  Line <- MCLine
  MaxLines = 3
PROPERTY ImplementsDocumented
