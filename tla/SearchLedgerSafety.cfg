\* Two concurrent calls; aborts.log can always be written.
SPECIFICATION Spec
CONSTANTS
  Rid = {r1, r2}
  AbortMayFail = FALSE
SYMMETRY Symmetry
INVARIANTS
  AnsweredResultIsRecorded
  AnsweredErrorIsRecorded
  HitHasEvidence
PROPERTY ImplementsOutcome
CHECK_DEADLOCK FALSE
