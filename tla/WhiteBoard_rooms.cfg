CONSTANTS
  Sessions = {s1, s2, s3}
  Keys = {k1, k2}
  Names = {n1, n2}
  DeleteDelay = 1
  Shapes = {a}
  IdSpace = 4
  MaxShapeId = 0
  MaxList = 0
  NULL = NULL
  Never = Never
SPECIFICATION Spec
SYMMETRY RoomSymmetry
INVARIANTS
  Membership
  RoomListInSync
PROPERTY PlayersTold
\* ForceDeleteRoom's undefined behaviour may end the process.
CHECK_DEADLOCK FALSE
