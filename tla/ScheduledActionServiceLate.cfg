SPECIFICATION Spec
CONSTANTS
  Actions = {shutdown}
  Unreadable = unreadable
  Grace = 1
  MaxDelay = 2
  ClockMayGoBack = FALSE
  MaxTime = 4
  MaxGeneration = 3
  MaxPerformed = 2
PROPERTY NeverAfterWindow
