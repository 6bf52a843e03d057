----------------------------- MODULE Verification -----------------------------
(***************************************************************************)
(* The auth_verification_challenges table and its statements: one row per  *)
(* (e-mail, purpose), holding the hash of the last code sent.  A code is a *)
(* number, unique over the life of the system: the hash is an HMAC over    *)
(* e-mail, purpose and code, and two random six-digit codes are taken to   *)
(* differ.  NoCode is the empty code_hash of a consumed challenge.         *)
(***************************************************************************)
EXTENDS Naturals

CONSTANTS
  NoChallenge,              \* the result of a query that finds no row
  MaxDailySends,            \* codes per day, e-mail and purpose (3)
  MaxVerificationAttempts,  \* wrong codes that kill a challenge (5)
  CodeTTL,                  \* life of a code (5 minutes)
  DayLength                 \* a UTC day

ASSUME VerificationAssumption ==
  /\ MaxDailySends \in Nat \ {0}
  /\ MaxVerificationAttempts \in Nat \ {0}
  /\ CodeTTL \in Nat \ {0}
  /\ DayLength \in Nat \ {0}

Purposes == {"register", "forgot"}

NoCode == 0

DayOf(time) == time \div DayLength

ChallengeRow == [code : Nat, expires : Nat, attempts : Nat, requests : Nat,
                 day : Nat, consumed : BOOLEAN]

ASSUME NoChallengeAssumption == NoChallenge \notin ChallengeRow

(* Mutant of MayIssue: one code too many.                                  *)
MayIssueOneMore(row, now) ==
  ~(row # NoChallenge /\ row.day = DayOf(now) /\ row.requests > MaxDailySends)

(* The WHERE clause of the upsert: another day, or below the limit.        *)
MayIssue(row, now) ==
  ~(row # NoChallenge /\ row.day = DayOf(now) /\ row.requests >= MaxDailySends)

(* INSERT ... ON CONFLICT DO UPDATE: the new code replaces the old one,    *)
(* attempts start again, the counter of the day goes on.                   *)
Issued(row, code, now) ==
  [code     |-> code,
   expires  |-> now + CodeTTL,
   attempts |-> 0,
   requests |-> IF row # NoChallenge /\ row.day = DayOf(now)
                THEN row.requests + 1 ELSE 1,
   day      |-> DayOf(now),
   consumed |-> FALSE]

(* VerifyCode's test of the challenge it read, before it compares codes.   *)
Open(row, now) ==
  /\ row # NoChallenge
  /\ ~row.consumed
  /\ row.attempts < MaxVerificationAttempts
  /\ now <= row.expires

(* UPDATE ... SET attempts = attempts + 1: whatever code is stored now.    *)
AttemptRecorded(row) ==
  IF row = NoChallenge THEN NoChallenge ELSE [row EXCEPT !.attempts = @ + 1]

(* Mutant of Consumable: the deadline is left to VerifyCode.               *)
ConsumableAnyTime(row, code, now) ==
  /\ row # NoChallenge
  /\ row.code = code
  /\ ~row.consumed
  /\ row.attempts < MaxVerificationAttempts

(* The WHERE clause of the consuming UPDATE in SaveVerifiedUser and        *)
(* ResetVerifiedPassword (strict expiry, unlike Open).                     *)
Consumable(row, code, now) ==
  /\ row # NoChallenge
  /\ row.code = code
  /\ ~row.consumed
  /\ now < row.expires
  /\ row.attempts < MaxVerificationAttempts

(* Mutants of Consumed: nothing is marked; the hash is cleared but         *)
(* consumed_at is not set.                                                 *)
NotConsumed(row) == row
CodeCleared(row) == [row EXCEPT !.code = NoCode]

(* SET code_hash = '', consumed_at = now.                                  *)
Consumed(row) == [row EXCEPT !.code = NoCode, !.consumed = TRUE]
===============================================================================
