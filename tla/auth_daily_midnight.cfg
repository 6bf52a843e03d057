SPECIFICATION Spec
CONSTANTS
  e1 = e1
  p1 = p1
  p2 = p2
  r1 = r1
  r2 = r2
  Emails = {e1}
  Passwords = {p1}
  NoUser = NoUser
  NoChallenge = NoChallenge
  Requests = {r1, r2}
  Endpoints = {"send"}
  MaxLoginAttempts = 2
  LoginLockout = 2
  MaxDailySends = 3
  MaxVerificationAttempts = 2
  CodeTTL = 2
  DayLength = 1
  TokenTTL = 2
  MaxTime = 1
  MaxAccounts = 2
  MaxCodes = 6
  MaxVersion = 0
  MaxTries = 0
INVARIANTS
  DailySendLimit
CHECK_DEADLOCK FALSE
