SPECIFICATION RequestsSpec
CONSTANTS
  Chat = {x1, x2}
  Key = {y1, y2}
  Name = {n}
  Unset = Unset
  MaxConv = 3
  MaxSaid = 5
  MaxOthers = 0
  MaxSessions = 2
  KeepN = 1
  MaxTrouble = 1
  Accounts = {z1, z2}
  MaxWords = 2
  HoldBack = 1
  Users = {u}
  Convs = {p}
  Handlers = {x1, x2}
  DailyLimit <- MCDailyLimit
  MaxPictures = 2
  ImageAccounts = {z1, z2}
  Jobs = {x1, x2}
  MaxCount = 2
  PerCall = 2
  MaxFiles = 2
  Sizes = {1, 2}
  DiskLimit = 3
  ImageLimit = 2
  MaxImage = 3
  MaxExpired = 1
  Takers = {x1, x2}
  Warmers = {z1, z2}
  MaxPerKey = 1
  FrameRoom = 1
  MaxDialled = 2
  Clients = {x1, x2}
  Rate = 2
  DailyQuota = 2
  TotalQuota = 3
  KeptRecords = 4
  MaxMade = 5
  LastDay = 1
  Readers = {x1, x2}
  PerTenant = 2
  MaxRemembered = 3
  MaxLines = 2
SYMMETRY Symmetry
INVARIANTS
  RequestsTypeOK
  SessionsTrue
  OneAnswer
  PageTrue
  PicturesKept
  NoStrandedTaker
  QuotaLog
  ResponsesTrue
PROPERTY
  DialogueSpec
CHECK_DEADLOCK FALSE
