\* Plans of programs that share two permits, and of the file tools.
CONSTANTS
  MaxLines = 3
  MaxBytes = 24
  Permits = 2
  PipeSize = 1
  MaxFrames = 4
  Plans <- MCPlans

SPECIFICATION FairSpec

INVARIANTS
  AnsweredOnce
  AnswersAreTrue

PROPERTY
  CallsComeBack

\* The extension ends.
CHECK_DEADLOCK FALSE
