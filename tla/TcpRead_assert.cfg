CONSTANTS
  Size = 1
  MaxChunks = 4
SPECIFICATION Spec
INVARIANT PushSucceeds
\* The peer may stop sending for good.
CHECK_DEADLOCK FALSE
