CONSTANTS
  Roles = {r1, r2}
  Contents <- MCContents
  Absent = Absent  Malformed = Malformed  Moved = Moved  Freed = Freed
  MaxChanges = 2
  Files = {f, g}
  None = None
SPECIFICATION ConfigurationSpec
INVARIANT ConfigurationFollows
PROPERTIES
  RegisteredAgain  ChangesReported
\* A use of freed memory ends the process.
CHECK_DEADLOCK FALSE
