CONSTANTS
  Conns = {c1}
  uv = uv
  Nothing = Nothing
SPECIFICATION Spec
INVARIANT NoReadAfterDelete
