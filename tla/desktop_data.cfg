\* What is made of the logs and of the vendors' answers, a part at a time.
SPECIFICATION Spec
CONSTANTS
  Message = {"m1", "m2"}
  MaxLines = 3
  Files <- MCFiles
  Models <- MCModels
  Prefix <- MCPrefix
  Alias <- MCAlias
  Keyword <- MCKeyword
  None = None
  DayLen = 2
  Week = 2
  DaysInMonth = 4
  Calendars <- MCCalendars
  Tables <- MCTables
  Arrivals <- MCArrivals
  Account = {"individual", "team", "old"}
  Model = {"m1"}
  MaxUsed = 3
  MaxReads = 2
  UsageDay = 2
  CycleLen = 2
  Cap = 2
  Node = {"mac", "mbp"}
  User = {"u1", "u2"}
  Work <- MCWork
  NoProject = NoProject
  UtcDayLen = 2
  MonthLen = 2
  Periods = {2}
  Levels = {"full", "aggregateOnly"}
  Zones <- MCZones
  MaxClock = 4
  MaxUploads = 2
  Selection = {s1, s2}
  SyncOff = SyncOff
  Call = {q1, q2, q3}
  MaxData = 2
  Vendors = {"anthropic", "openai", "google", "cursor"}
  Payer = {u1, u2}
  Caller = {c1, c2}
  Ttl = 1
  NoPlan = NoPlan
  Url = {A}
  NoUrl = NoUrl
  EnvUrl = B
  Team = {0, 1}
  DefaultTeam = 0
  Every = {1, 2}
  DefaultRefresh = 1
  DefaultSync = 2
  MaxCalls = 2
INVARIANTS
  IngestSound
  PricesSound
  AggregationSound
  CursorSound
  TeamFiguresSound
  PlansSound
  SettingsSound
  ViewsSound
CHECK_DEADLOCK FALSE
