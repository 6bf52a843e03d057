SPECIFICATION Spec
CONSTANTS
  e1 = e1
  p1 = p1
  p2 = p2
  r1 = r1
  r2 = r2
  Emails = {e1}
  Passwords = {p1}
  NoUser = NoUser
  NoChallenge = NoChallenge
  Requests = {r1}
  Endpoints = {"send", "register", "delete"}
  MaxLoginAttempts = 2
  LoginLockout = 2
  MaxDailySends = 3
  MaxVerificationAttempts = 2
  CodeTTL = 2
  DayLength = 4
  TokenTTL = 2
  MaxTime = 0
  MaxAccounts = 2
  MaxCodes = 4
  MaxVersion = 0
  MaxTries = 0
INVARIANTS
  DailySendLimit
CHECK_DEADLOCK FALSE
