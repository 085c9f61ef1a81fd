CONSTANTS
  Conns = {c1, c2}
  uv = uv
  Nothing = Nothing
SPECIFICATION Spec
INVARIANTS
  FreedOnce
  ServicesTold
PROPERTY ClosedIsFreed
