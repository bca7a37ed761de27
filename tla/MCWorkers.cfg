SPECIFICATION WorkersSpec
CONSTANTS
  Videos = {v1}
  Compressors = {c1, c2}
  MaxBatches = 2
  MaxObjects = 2
  MaxDeaths = 1
  MaxLeaseLosses = 1
  Clips = {x1, x2}
  MaxTasks = 3
  MaxKills = 1
  MaxClicks = 2
  MaxChapter = 2
  Branches = {b1, b2}
  BookTasks = {d1, d2}
  MaxUpsets = 1
  Tunes = {u1}
  MaxSongs = 3
  SongTasks = {t1, t2}
  Deleters = {e1, e2}
  MaxLosses = 1
  ShareIds = {s1, s2}
  Reusable = {s2}
  Timed = {s1}
  Tokens = {q1, q2}
  Guests = {i1, i2}
  Owners = {w1, w2}
  MAX_SHARE_SESSIONS = 1
  NoShare = NoShare
  FileCount = 3
  Owned = {3}
  Legacy = {1, 2, 3}
  OldKey = {3}
  LateKey = {2}
  BatchSize = 1
  MaxChanges = 3
  CatalogReads = {1, 2}
  StreamReads = {3, 4}
  CommentReads = {6}
  Downloads = {5}
  CatalogPages = {"p"}
  Connected = TRUE
  PublicGap = 1
  AuthGap = 2
  Backoff = 1
  StreamSlots = 1
  MaxYoutubeCancels = 1
INVARIANTS WorkersTypeOK VideosAreKept SharedAudioStays RevokedIsShutOut FilesAreKept
PROPERTIES PlaylistFills CompletedIsWhole LegacyIsSealed CallsAreRationed
CHECK_DEADLOCK FALSE
