SPECIFICATION SessionsSpec
CONSTANTS
  a = a  b = b
  Tabs = {a, b}
  UnlockTTL = 2
  AbsoluteTTL = 2
  UrlTTL = 1
  MaxEpoch = 1
  ImageSpaces = {"p", "q"}
  ImageRequests = {"r", "s"}
  MaxPictures = 3
  BlindEdits = FALSE
  ChunkSize = 2
  TagSize = 2
  MaxLength = 5
  SocketTurns = {s1, s2}
  s1 = s1  s2 = s2
  RestTurns = {r1}
  NoTurn = NoTurn
  HISTORY_TURNS = 1
  MaxLapses = 1
  Visitors = {k1, k2}
  BROWSER_RUNTIME_ENABLED = TRUE
  MAX_LIVE_SESSIONS = 2
  MaxSessions = 2
  MaxLogins = 2
  MaxBrowserFaults = 1
  LegacyAtStart = TRUE
  LoneReads = TRUE
  Passes = {g1, g2}
  Talks = {o1}
  TASK_MAX_ATTEMPTS = 2
  MAX_TASKS_PER_PASS = 2
  MaxGoals = 2
  MaxPassDeaths = 1
SYMMETRY Symmetry
INVARIANTS SessionsTypeOK LockKillsItsUrls SessionIsFinal PictureOpens BodyIsWhatWasAnnounced EarlierTurnsAreRead RevokeIsFinal GoalIsNotStuck
PROPERTY OnlyTheTabCloses
CHECK_DEADLOCK FALSE
