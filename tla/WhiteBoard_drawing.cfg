CONSTANTS
  Sessions = {s1, s2}
  Keys = {k1, k2}
  Names = {n1}
  DeleteDelay = 1
  Shapes = {a, b}
  IdSpace = 4
  MaxShapeId = 2
  MaxList = 2
  NULL = NULL
  Never = Never
SPECIFICATION Spec
INVARIANT CanvasInSync
PROPERTIES
  FreshIds
  EmptyRoomGoes
\* ForceDeleteRoom's undefined behaviour may end the process.
CHECK_DEADLOCK FALSE
