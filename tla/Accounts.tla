------------------------------- MODULE Accounts -------------------------------
(***************************************************************************)
(* The users table (apps/api/schema.sql) and the single-row statements the *)
(* repository runs on it.  One row per e-mail address (the column is       *)
(* UNIQUE), so the table is a function from addresses to rows; NoUser is   *)
(* the absent row.  Addresses are taken after normalizeEmail, passwords    *)
(* stand for their bcrypt hash: CheckPassword is equality.                 *)
(***************************************************************************)
EXTENDS Naturals

CONSTANTS
  Emails,            \* normalised addresses
  Passwords,         \* passwords that satisfy validatePasswordComplexity
  NoUser,            \* the result of a query that finds no row
  MaxLoginAttempts,  \* failures that lock an account (5 in the code)
  LoginLockout       \* length of the lock (15 minutes in the code)

ASSUME AccountsAssumption ==
  /\ Emails # {}
  /\ Passwords # {}
  /\ MaxLoginAttempts \in Nat \ {0}
  /\ LoginLockout \in Nat \ {0}

(* locked_until IS NULL. Locks end after LoginLockout > 0, never at 0.     *)
NoLock == 0

(* A users row: id, bcrypt hash, token_version, failed_login_attempts and  *)
(* locked_until.  Ids are UUIDs; the model numbers them.                   *)
UserRow == [id : Nat \ {0}, password : Passwords, version : Nat,
            failed : Nat, lockedUntil : Nat]

ASSUME NoUserAssumption == NoUser \notin UserRow

(* Mutant of NewAccount: an id that no account can have.                   *)
NewAccountUnnumbered(id, pw) ==
  [id |-> id - 1, password |-> pw, version |-> 0, failed |-> 0,
   lockedUntil |-> NoLock]

(* INSERT INTO users: a new account starts at version 0, unlocked.         *)
NewAccount(id, pw) ==
  [id |-> id, password |-> pw, version |-> 0, failed |-> 0,
   lockedUntil |-> NoLock]

(* Mutant of PasswordUpdated: token_version is not raised.                 *)
PasswordUpdatedKeepingSessions(row, pw) ==
  [row EXCEPT !.password = pw, !.failed = 0, !.lockedUntil = NoLock]

(* UPDATE users SET password, token_version + 1, failures cleared.         *)
PasswordUpdated(row, pw) ==
  [row EXCEPT !.password = pw, !.version = @ + 1, !.failed = 0,
              !.lockedUntil = NoLock]

(* Mutant of FailureRecorded: only the failure that reaches the limit      *)
(* locks, so an account whose lock has expired is never locked again.      *)
FailureRecordedAtLimitOnly(row, now) ==
  [row EXCEPT !.failed = @ + 1,
              !.lockedUntil = IF row.failed + 1 = MaxLoginAttempts
                              THEN now + LoginLockout ELSE @]

(* One more failure; the one that reaches the limit locks the account, and *)
(* so does every later one until the counter is cleared.                   *)
FailureRecorded(row, now) ==
  [row EXCEPT !.failed = @ + 1,
              !.lockedUntil = IF row.failed + 1 >= MaxLoginAttempts
                              THEN now + LoginLockout ELSE @]

(* Mutant of FailuresReset: the lock is cleared, the counter is not.       *)
LockCleared(row) == [row EXCEPT !.lockedUntil = NoLock]

(* UPDATE users SET failed_login_attempts = 0, locked_until = NULL.        *)
FailuresReset(row) == [row EXCEPT !.failed = 0, !.lockedUntil = NoLock]

(* The lock test of Login: LockedUntil != nil and now before it.           *)
Locked(row, now) == row.lockedUntil # NoLock /\ now < row.lockedUntil
===============================================================================
