SPECIFICATION Spec
CONSTANT Input <- MCInput
INVARIANTS
  TypeOK
  ReadsWhatWasWritten
  OneLinePerAnswer
  BrokenIsRejected
