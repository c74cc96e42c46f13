\* The Go programs, one at a time.
SPECIFICATION FairSpec
CONSTANTS
  Person = {pa, pb}
  NoPerson = NoPerson
  Refresher = {f1}
  MaxGrant = 2
  Daemon = {d1, d2}
  NoDaemon = NoDaemon
  Cli = {c1}
  Provider = {p1}
  Asker = {k1, k2}
  Attempts = 2
  MaxSpend = 1
  User = {"u1", "u2"}
  Node = {"n1", "n2"}
  LocalEvent = {"e"}
  Hash = {"h1", "h2"}
  NoHash = NoHash
  Request = {r1, r2}
  NoRequest = NoRequest
  Bodies <- MCBodies
  MaxConns = 2
  Rounds = 1
  TsServer = {t1}
  GoServerProc = {g1}
  Latest = 2
  MaxIssuerKey = 2
INVARIANTS
  SessionsSound
  DaemonSound
  GoServerSound
  BootSound
PROPERTIES
  ProvidersSound
  GoEnds
CHECK_DEADLOCK FALSE
