\* Three bytes of output are retained, a pipe holds two: six bytes overrun both.
CONSTANTS
  Limit = 3
  Chunk = 3
  PipeSize = 2
  MaxOutput = 6
SPECIFICATION FairSpec
INVARIANT ResultMeansGone
INVARIANT TestsRunOnFinishedCopy
INVARIANT OutputIsWhole
PROPERTY CallReturns
\* an execution returns
CHECK_DEADLOCK FALSE
