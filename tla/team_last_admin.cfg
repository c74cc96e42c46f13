\* Two admins are demoted at the same time.
SPECIFICATION Spec
CONSTANTS
  u1 = u1
  u2 = u2
  u3 = u3
  User = {u1, u2, u3}
  Console = Console
  Req = {r1, r2}
  NoReq = NoReq
  NoCall = NoCall
  NoTeam = NoTeam
  Level = {"redacted"}
  Call <- MCCall
  Seed <- MCSeed
PROPERTIES
  AdminKept
