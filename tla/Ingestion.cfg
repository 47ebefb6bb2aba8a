SPECIFICATION Spec
CONSTANTS
  Starts <- MCStarts
  Files <- MCFiles
  ClockSkews <- MCSkews
  PageSize = 2
  MaxItems = 4
  PullCommitsLimit = 4
INVARIANTS
  TypeOK
  AnswersAreJudged
  OldWorkIsNoAnswer
  AncestryOrDoubt
  ThreadIsFound
  AnchorIsTheCommentedLine
  JwtOutlivesItsRequest
  RejectedTokenIsReplaced
PROPERTY IngestionEnds
CHECK_DEADLOCK FALSE
