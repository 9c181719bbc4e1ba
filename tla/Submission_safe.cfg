SPECIFICATION Spec
CONSTANTS
  Requests = {r1, r2}
  Size <- MCSize
  MaxPages = 2
  MaxOps = 3
SYMMETRY MCSymmetry
INVARIANTS
  TypeOK
  RepeatIsRecognised
  NothingLost
  SubmissionLedger
  SentTellsWhatWasSent
CHECK_DEADLOCK FALSE
