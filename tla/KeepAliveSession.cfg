SPECIFICATION FairSpec
CONSTANTS
  MaxSessions = 2
  MaxPosted = 2
INVARIANT TypeOK
INVARIANT PowerHeld
INVARIANT CommandsReach
PROPERTY StopStops
PROPERTY PowerFollows
PROPERTY ExitCompletes
