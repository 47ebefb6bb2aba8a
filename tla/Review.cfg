SPECIFICATION Spec
CONSTANTS
  Starts <- MCStarts
  Words <- MCWords
  Fragments <- MCFragments
  Wrappers <- MCWrappers
  Tests <- MCTests
  MaxEdits <- MCMaxEdits
INVARIANTS
  TypeOK
  SkippedLinesNeverRun
  RangeGuardRejectsWhatWasAsked
  AbsentGoesToItsBranch
  TestCreditIsEarned
  CaughtWhereItFails
  OldCodeEarnsNoNewCredit
  BlockIsGrounded
  NeutralEvidenceChangesNothing
  ActionableSentencesAreChecked
  
CHECK_DEADLOCK FALSE
