SPECIFICATION ProgramsSpec
CONSTANTS
  Calls = {c1, c2}
  Connections = {k1, k2}
  Names = {first, second}
  Registered = registered
  NoOne = nobody
  Subjects = {ann, bob}
  Limit = 2
  Window = 2
  MaxTracked = 1
  MaxTime = 3
  MaxCount = 3
  Tunnels = {t1, t2, t3}
  MaxTunnels = 2
  Clients = {x1, x2}
  NoClient = noClient
  TornFile = tornFile
  Resources = {ours, other}
  Ours = ours
  Migrators = {m1, m2}
  Polls = 2
  Unlocked = unlocked
  Builds = {b1, b2}
  Callbacks = {r1, r2}
  A = alice
  B = bert
  BrowserRuns = {n1, n2}
  MaxRequests = 3
  InspectRuns = 2
  Pictures = {p1}
  Films = {f, g}
  Own = own
  Gets = 3
  Sources <- MCSources
  Keys = {key1, key2}
  Checks = 2
  PerSource = 1
  Spares = 1
  d1 = d1
  d2 = d2
  d3 = d3
  Directions <- MCDirections
  Sectors <- MCSectors
  Styles = {s1, s2}
  HistoryKept = 3
  Recent = 2
  RecentApps = 1
  Scenes = 2
  Blueprints <- MCBlueprints
  Argument <- MCArgument
  Dirs = {"calm", "loud"}
  SlotPools <- MCSlotPools
  Keepable = {"type"}
  Shells = {"q1", "q2", "q3"}
  OwnShell = "q1"
  OtherShells = {"q2"}
  Patterns <- MCPatterns
  Notes <- MCNotes
  Width = 64
  Rows = 2
  MaxSteps = 30
  Bounds <- MCBounds
  Spans = {110, 170, 230, 420}
  Lengths = {4, 9, 15, 24}
  Starts = {480, 485, 510}
  ClockSteps = {5, 15, 30}
  Days = 7
  SourceIds = {1, 2, 3}
  FineIds = {1, 3}
  Enough = 2
  MaxRows = 2
  Fetches = 2
  ArchiveItems <- MCArchiveItems
  Res = 720
  Reveals <- MCReveals
  Chapters <- MCChapters
  View = 25
  Stops = {0, 2, 29, 45, 60}
  MaxInks = 1
INVARIANT ProgramsTypeOK
INVARIANT ServiceSound
INVARIANT OperationsSafe
INVARIANT AcceptanceSound
INVARIANT ToolsSound
INVARIANT AssetsSound
INVARIANT DesignsSound
INVARIANT ChartsSound
PROPERTY StepsSound
SYMMETRY Symmetry
CHECK_DEADLOCK FALSE
