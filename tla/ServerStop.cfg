CONSTANTS
  Account = Account  Dispatcher = Dispatcher  server = server  missing = missing
  game = game
  STOP = STOP
  Nothing = Nothing
  Names <- MCNames
  Graphs <- MCGraphs
  Messages = {a, b}
SPECIFICATION Spec
INVARIANTS
  StrandedOnlyIfLate
  RunsOnRunning
PROPERTIES
  DeliveredByLaterPosts
  StopsWhenAsked
\* Run returns, or the process hangs where a run says that it may.
CHECK_DEADLOCK FALSE
