CONSTANTS
  Users = {u1, u2}  Max = 2  Period = 2
  MaxPipeline = 2
  Statements = {s1, s2}
  Messages = {a, b, c}
  MaxMessages = 2  QueueMax = 1  MaxConnects = 3  MaxTag = 3
  game = game  listener = listener  nothing = nothing
SPECIFICATION ClientsSpec
INVARIANTS
  SharedOnlyIfRaced  NoneLost  NeverWaitsInVain  AtomicUnlessEnded  AckedWasRead  FreedOnce
PROPERTIES
  WrittenIsPublished  EveryMessageRead
CHECK_DEADLOCK FALSE
