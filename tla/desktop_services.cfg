\* The account and the alerts of the desktop, one at a time.
SPECIFICATION FairSpec
CONSTANTS
  Account = {a1, a2}
  NoUser = NoUser
  OutCall = {o1}
  TokenCall = {k1}
  MaxToken = 2
  Tick = {t1, t2}
  Loads = {{}, {"system.cpu"}, {"cost.forecast"}}
  MaxAlerts = 2
INVARIANTS
  AuthSound
  AlertsSound
PROPERTIES
  SignInSettles
  AlertsSettle
CHECK_DEADLOCK FALSE
