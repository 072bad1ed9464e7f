SPECIFICATION Spec
CONSTANTS
  Actions = {shutdown, sleep}
  Unreadable = unreadable
  Grace = 1
  MaxDelay = 2
  ClockMayGoBack = TRUE
  MaxTime = 4
  MaxGeneration = 3
  MaxPerformed = 2
INVARIANT TypeOK
INVARIANT NoLostWakeup
INVARIANT DisarmedBeforeExecution
PROPERTY NoSilentSkip
PROPERTY PromiseKept
