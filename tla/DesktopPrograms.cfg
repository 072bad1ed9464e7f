SPECIFICATION DesktopSpec
CONSTANTS
  Values = {default, first, second}
  Default = default
  Broken = {truncated, garbled}
  OutOfRange = {outOfRange}
  Missing = missing
  Locked = locked
  portable = portable
  profile = profile
  Modes <- MCModes
  DefaultMode = profile
  Preferences = {dark, light}
  Families = {f1, f2}
  MaxSerial = 2
  MaxMoves = 2
  Nothing = nothing
  NoSession = noSession
  Looks = {dark}
  Places <- MCModes
  LastTime = 2
  Grace = 0
  Saves = 2
  Unarmed = unarmed
  Ports <- MCPorts
  Backlog = 2
  Visits = 4
  Waits = 2
  NoPort = noPort
  Processes = {h1, h2, h3}
  MaxLaunches = 5
  Nobody = nobody
INVARIANT TypeOK
INVARIANT Durable
INVARIANT FallbackIsPrevious
INVARIANT RejectedPreserved
INVARIANT StartsDespiteDamage
INVARIANT DesktopTypeOK
INVARIANT RestartFinds
INVARIANT SignedOutGone
INVARIANT SavedOrUndone
INVARIANT HostKept
CHECK_DEADLOCK FALSE
