\* Three changes, every execution free to answer anything.
CONSTANTS
  Changes = {1, 2, 3}
  Required = 3
SPECIFICATION Spec
INVARIANT ExecutionsBounded
PROPERTY ImplementsDeltaDebug
\* the reduction returns
CHECK_DEADLOCK FALSE
