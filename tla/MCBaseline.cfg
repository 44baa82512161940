SPECIFICATION Spec
CONSTANT Command <- MCCommand
INVARIANTS
  TypeOK
  AnswersTheWorst
