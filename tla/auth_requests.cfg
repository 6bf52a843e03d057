SPECIFICATION Spec
CONSTANTS
  e1 = e1
  p1 = p1
  p2 = p2
  r1 = r1
  r2 = r2
  Emails = {e1}
  Passwords = {p1, p2}
  NoUser = NoUser
  NoChallenge = NoChallenge
  Requests = {r1, r2}
  Endpoints = {"send", "verify", "register", "login", "change", "delete", "forgot"}
  MaxLoginAttempts = 2
  LoginLockout = 2
  MaxDailySends = 2
  MaxVerificationAttempts = 2
  CodeTTL = 1
  DayLength = 2
  TokenTTL = 2
  MaxTime = 4
  MaxAccounts = 2
  MaxCodes = 7
  MaxVersion = 2
  MaxTries = 6
SYMMETRY SlotSymmetry
CONSTRAINT OneKindOfHistory
INVARIANTS
  TypeOK
  AcceptedSessionProvesPassword
  LockMatchesFailures
  GuessLimit
  CodesSpentOnce
  RegistrationSpendsWhatItCreates
  DailySendBound
PROPERTIES
  OnlyLiveCodesAreSpent
CHECK_DEADLOCK FALSE
