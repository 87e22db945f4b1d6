SPECIFICATION Spec
CONSTANTS
  t1 = t1
  t2 = t2
  p1 = p1
  Threads = {t1, t2}
  Processes = {p1}
  ProcessOf <- MCPair
  StopAllMax = 2
  Conditional = TRUE
  MaxSkips = 2
  First = {t1}
  Blocked = {t2}
  MaxSurprises = 2
INVARIANTS
  LocksCounted
  SafeEventsSafe
  NoMissedBreakpoint
  PlantedWhenUnlocked
PROPERTIES
  NoResumeWhileLocked InterceptReported LocksReleased StoppedThreadsContinue
CHECK_DEADLOCK FALSE
