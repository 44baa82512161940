SPECIFICATION Spec
CONSTANTS
  Input <- MCInput
  AccBits = 12
  MaxOutput = 6
INVARIANTS
  TypeOK
  DecodesWhatWasEncoded
  BrokenIsRejected
  DecodableLooksEncoded
