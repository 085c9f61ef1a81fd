CONSTANTS
  Producers = {p1, p2}
  Items = {a, b, c}
  Nothing = Nothing
  MaxPoolSize = 2
  Tasks = {x, y, z}
  null = null
SPECIFICATION BaseSpec
INVARIANTS
  ExactlyOnce  OvertakenOnlyIfLate  DeliveredInTwo
  SleepsOnlyIfMissed
PROPERTIES
  MailboxSpec  TasksRunOnce  TasksRun  StopReturns
\* The owner stops the pool, and its destructor may end the process.
CHECK_DEADLOCK FALSE
