------------------------------- MODULE AuthApi --------------------------------
(***************************************************************************)
(* The authentication API: AuthService and the PostgreSQL repositories it  *)
(* calls, with several requests in flight.  Every request is handled by a  *)
(* goroutine of its own and every statement or transaction it runs is one  *)
(* atomic step here, so that other requests' statements fall between a     *)
(* request's read and the write that relies on it.  A request slot is idle *)
(* or holds, in at[r], the next step of its handler and, in loc[r], the    *)
(* handler's local variables.                                              *)
(*                                                                         *)
(* A request that the code answers with an error before any write leaves   *)
(* no trace and is not an action.  Abort stands for whatever stops a       *)
(* handler between two statements: a cancelled request context, a lost     *)
(* connection, the end of the process.                                     *)
(***************************************************************************)
EXTENDS Accounts, Verification, Sequences, FiniteSets

CONSTANTS
  Requests,    \* slots for requests being handled at the same time
  Endpoints,   \* the endpoints clients call in this instance
  TokenTTL,    \* life of a session token (24 hours)
  MaxTime,     \* bound: the clock
  MaxAccounts, \* bound: accounts ever created
  MaxCodes,    \* bound: codes ever issued
  MaxVersion,  \* bound: token_version of an account
  MaxTries     \* bound: recorded failures and attempts beyond their limits

ASSUME AuthApiAssumption ==
  /\ IsFiniteSet(Requests) /\ Requests # {}
  /\ TokenTTL \in Nat \ {0}
  /\ {MaxTime, MaxAccounts, MaxCodes, MaxVersion, MaxTries} \subseteq Nat

VARIABLES
  users,       \* e-mail -> users row
  challenges,  \* <<e-mail, purpose>> -> challenge row
  tokens,      \* session tokens issued, with the password they were earned by
  clock,       \* minutes
  lastId,      \* accounts created so far
  at,          \* request -> next step of its handler
  loc,         \* request -> the handler's local variables
  inbox,       \* codes whose mail was delivered
  sent,        \* history: the codes issued, in order; code i is sent[i]
  spent,       \* history: what each consumed code was used for
  recovered    \* history: recovery codes whose temporary password was mailed

tables == <<users, challenges, tokens, lastId>>
history == <<inbox, sent, spent, recovered>>
vars == <<tables, clock, at, loc, history>>

Keys == Emails \X Purposes

Steps == {"idle", "loginFound", "loginMismatch", "loginMatch",
          "changeAuthorized", "changeChecked", "deleteAuthorized",
          "deleteChecked", "wrongCode", "registerVerified", "forgotFound", "forgotVerified",
          "forgotMailing", "sendAllowed", "sendMailing"}

(* What a handler keeps between its statements: the request's fields, the  *)
(* users row it has read (NoUser before), and since when the time it gives *)
(* to its next statement may have been taken.                              *)
Locals == [email : Emails, password : Passwords, newPassword : Passwords,
           purpose : Purposes, code : Nat, id : Nat,
           row : UserRow \cup {NoUser}, since : Nat]

Token == [id : Nat, email : Emails, version : Nat, expires : Nat,
          password : Passwords]

SentCode == [email : Emails, purpose : Purposes, time : Nat]

Spend == [code : Nat, purpose : Purposes, id : Nat, version : Nat,
          time : Nat]

(* An idle slot; every local has some value and none is used.              *)
Blank == [email |-> CHOOSE e \in Emails : TRUE,
          password |-> CHOOSE p \in Passwords : TRUE,
          newPassword |-> CHOOSE p \in Passwords : TRUE,
          purpose |-> "register", code |-> NoCode, id |-> 0, row |-> NoUser,
          since |-> 0]

TypeOK ==
  /\ users \in [Emails -> UserRow \cup {NoUser}]
  /\ challenges \in [Keys -> ChallengeRow \cup {NoChallenge}]
  /\ tokens \subseteq Token
  /\ clock \in Nat
  /\ lastId \in Nat
  /\ at \in [Requests -> Steps]
  /\ loc \in [Requests -> Locals]
  /\ inbox \subseteq Nat
  /\ sent \in Seq(SentCode)
  /\ spent \subseteq Spend
  /\ recovered \subseteq Nat
  /\ \A r \in Requests :
       at[r] \in {"loginFound", "loginMatch"} => loc[r].row \in UserRow

Init ==
  /\ users = [e \in Emails |-> NoUser]
  /\ challenges = [k \in Keys |-> NoChallenge]
  /\ tokens = {}
  /\ clock = 0
  /\ lastId = 0
  /\ at = [r \in Requests |-> "idle"]
  /\ loc = [r \in Requests |-> Blank]
  /\ inbox = {}
  /\ sent = <<>>
  /\ spent = {}
  /\ recovered = {}

-------------------------------------------------------------------------------
(* Handlers: a slot takes a request, goes on, or answers.                  *)

Take(r, step, locals) ==
  /\ at[r] = "idle"
  /\ at' = [at EXCEPT ![r] = step]
  /\ loc' = [loc EXCEPT ![r] = locals]

GoOn(r, from, to) ==
  /\ at[r] = from
  /\ at' = [at EXCEPT ![r] = to]

Finish(r) ==
  /\ at' = [at EXCEPT ![r] = "idle"]
  /\ loc' = [loc EXCEPT ![r] = Blank]

Answer(r, from) == at[r] = from /\ Finish(r)

(* issueAuthResponse: the claims are those of the row it is given; the     *)
(* last field, which the token does not carry, is the password the caller  *)
(* proved or set.                                                          *)
TokenFor(row, e, pw) ==
  [id |-> row.id, email |-> e, version |-> row.version,
   expires |-> clock + TokenTTL, password |-> pw]

(* The claims validator of RequireAuth: FindByID, then e-mail and version. *)
Accepted(t) ==
  /\ clock < t.expires
  /\ \E e \in Emails :
       /\ users[e] # NoUser
       /\ users[e].id = t.id
       /\ e = t.email
       /\ users[e].version = t.version

(* The codes a client can type: one it got by mail, or a wrong one.        *)
CodesFor(e, purpose) ==
  {NoCode} \cup {c \in inbox : sent[c].email = e /\ sent[c].purpose = purpose}

-------------------------------------------------------------------------------
(* POST /api/auth/login                                                    *)

(* FindByEmail.                                                            *)
Login(r, e, p) ==
  /\ "login" \in Endpoints
  /\ users[e] # NoUser
  /\ users[e].failed < MaxLoginAttempts + MaxTries
  /\ Take(r, "loginFound",
          [Blank EXCEPT !.email = e, !.password = p, !.row = users[e]])
  /\ UNCHANGED <<tables, clock, history>>

(* The lock test and the comparison, with the row read.                    *)
CompareLogin(r) ==
  LET row == loc[r].row IN
  /\ at[r] = "loginFound"
  /\ \/ /\ Locked(row, clock)
        /\ Finish(r)
     \/ /\ ~Locked(row, clock)
        /\ GoOn(r, "loginFound", IF loc[r].password = row.password
                                 THEN "loginMatch" ELSE "loginMismatch")
        /\ loc' = [loc EXCEPT ![r].since = clock]
  /\ UNCHANGED <<tables, clock, history>>

(* The instants at which a handler may have asked for the time it gives to *)
(* its next statement: time.Now() runs before the statement does.          *)
TimesOf(r) == loc[r].since .. clock

(* RecordFailedLogin, by e-mail, on whatever row is there now.             *)
RecordFailedLogin(r) ==
  LET e == loc[r].email IN
  /\ Answer(r, "loginMismatch")
  /\ \E now \in TimesOf(r) :
       users' = IF users[e] = NoUser THEN users
                ELSE [users EXCEPT ![e] = FailureRecorded(@, now)]
  /\ UNCHANGED <<challenges, tokens, clock, lastId, history>>

(* ResetFailedLogins when the row read had failures, then the token, with  *)
(* the version of the row read.                                            *)
AcceptLogin(r) ==
  LET e   == loc[r].email
      row == loc[r].row
      reset == row.failed > 0 \/ row.lockedUntil # NoLock
  IN
  /\ Answer(r, "loginMatch")
  /\ users' = IF reset /\ users[e] # NoUser
              THEN [users EXCEPT ![e] = FailuresReset(@)] ELSE users
  /\ tokens' = tokens \cup {TokenFor(row, e, loc[r].password)}
  /\ UNCHANGED <<challenges, clock, lastId, history>>

-------------------------------------------------------------------------------
(* POST /api/auth/send-verification-code                                   *)

(* A register code goes to an unknown address, a forgot code to a known.   *)
SendVerificationCode(r, e, purpose) ==
  /\ "send" \in Endpoints
  /\ (purpose = "register") <=> (users[e] = NoUser)
  /\ Take(r, "sendAllowed",
          [Blank EXCEPT !.email = e, !.purpose = purpose, !.since = clock])
  /\ UNCHANGED <<tables, clock, history>>

(* The upsert: stores the new code's hash, or hits the daily limit.  Its   *)
(* day and deadline are those of a time taken before it.                   *)
IssueCode(r) ==
  LET k    == <<loc[r].email, loc[r].purpose>>
      code == Len(sent) + 1
  IN
  /\ at[r] = "sendAllowed"
  /\ \E now \in TimesOf(r) :
       \/ /\ MayIssue(challenges[k], now)
          /\ Len(sent) < MaxCodes
          /\ challenges' = [challenges EXCEPT ![k] = Issued(@, code, now)]
          /\ sent' = Append(sent, [email |-> k[1], purpose |-> k[2],
                                   time |-> now])
          /\ GoOn(r, "sendAllowed", "sendMailing")
          /\ loc' = [loc EXCEPT ![r].code = code]
       \/ /\ ~MayIssue(challenges[k], now)
          /\ Finish(r)
          /\ UNCHANGED <<challenges, sent>>
  /\ UNCHANGED <<users, tokens, clock, lastId, inbox, spent, recovered>>

(* sendTransactionalEmail delivers; its failures are Abort's.              *)
DeliverCode(r) ==
  /\ Answer(r, "sendMailing")
  /\ inbox' = inbox \cup {loc[r].code}
  /\ UNCHANGED <<tables, clock, sent, spent, recovered>>

-------------------------------------------------------------------------------
(* VerifyCode, alone (POST /api/auth/verify-code) and inside Register and  *)
(* ForgotPassword.                                                         *)

(* The challenge read is open: a matching code goes on, another one is     *)
(* recorded as an attempt.                                                 *)
Verified(k, code, onMatch) ==
  IF challenges[k].code = code THEN onMatch ELSE "wrongCode"

VerifyCode(r, e, purpose, code) ==
  /\ "verify" \in Endpoints
  /\ Open(challenges[<<e, purpose>>], clock)
  /\ challenges[<<e, purpose>>].code # code
  /\ Take(r, "wrongCode", [Blank EXCEPT !.email = e, !.purpose = purpose])
  /\ UNCHANGED <<tables, clock, history>>

(* RecordFailedAttempt counts on the challenge stored now.                 *)
RecordFailedAttempt(r) ==
  LET k == <<loc[r].email, loc[r].purpose>> IN
  /\ Answer(r, "wrongCode")
  /\ challenges' = [challenges EXCEPT ![k] = AttemptRecorded(@)]
  /\ UNCHANGED <<users, tokens, clock, lastId, history>>

-------------------------------------------------------------------------------
(* POST /api/auth/register                                                 *)

Register(r, e, p, code) ==
  LET k == <<e, "register">> IN
  /\ "register" \in Endpoints
  /\ Open(challenges[k], clock)
  /\ Take(r, Verified(k, code, "registerVerified"),
          [Blank EXCEPT !.email = e, !.password = p, !.code = code,
                        !.since = clock])
  /\ UNCHANGED <<tables, clock, history>>

(* SaveVerifiedUser: consume the challenge and insert the user in one      *)
(* transaction.  No challenge to consume, or the address taken meanwhile:  *)
(* rolled back.                                                            *)
SaveVerifiedUser(r) ==
  LET e   == loc[r].email
      k   == <<e, "register">>
      row == NewAccount(lastId + 1, loc[r].password)
  IN
  /\ Answer(r, "registerVerified")
  /\ \E now \in TimesOf(r) :
       \/ /\ Consumable(challenges[k], loc[r].code, now)
          /\ users[e] = NoUser
          /\ lastId < MaxAccounts
          /\ challenges' = [challenges EXCEPT ![k] = Consumed(@)]
          /\ users' = [users EXCEPT ![e] = row]
          /\ lastId' = lastId + 1
          /\ tokens' = tokens \cup {TokenFor(row, e, row.password)}
          /\ spent' = spent \cup {[code |-> loc[r].code,
                                   purpose |-> "register", id |-> row.id,
                                   version |-> 0, time |-> now]}
       \/ /\ ~(Consumable(challenges[k], loc[r].code, now) /\ users[e] = NoUser)
          /\ UNCHANGED <<tables, spent>>
  /\ UNCHANGED <<clock, inbox, sent, recovered>>

-------------------------------------------------------------------------------
(* POST /api/auth/forgot-password                                          *)

ForgotPassword(r, e, code) ==
  /\ "forgot" \in Endpoints
  /\ users[e] # NoUser
  /\ Take(r, "forgotFound",
          [Blank EXCEPT !.email = e, !.purpose = "forgot", !.code = code])
  /\ UNCHANGED <<tables, clock, history>>

ForgotVerify(r) ==
  LET k == <<loc[r].email, "forgot">> IN
  /\ at[r] = "forgotFound"
  /\ \/ /\ Open(challenges[k], clock)
        /\ GoOn(r, "forgotFound", Verified(k, loc[r].code, "forgotVerified"))
        /\ loc' = [loc EXCEPT ![r].since = clock]
     \/ /\ ~Open(challenges[k], clock)
        /\ Finish(r)
  /\ UNCHANGED <<tables, clock, history>>

(* ResetVerifiedPassword: consume the challenge and store the temporary    *)
(* password p, in one transaction.                                         *)
ResetVerifiedPassword(r, p) ==
  LET e == loc[r].email
      k == <<e, "forgot">>
      row == PasswordUpdated(users[e], p)
  IN
  /\ at[r] = "forgotVerified"
  /\ \E now \in TimesOf(r) :
       \/ /\ Consumable(challenges[k], loc[r].code, now)
          /\ users[e] # NoUser
          /\ users[e].version < MaxVersion
          /\ challenges' = [challenges EXCEPT ![k] = Consumed(@)]
          /\ users' = [users EXCEPT ![e] = row]
          /\ spent' = spent \cup {[code |-> loc[r].code, purpose |-> "forgot",
                                   id |-> row.id, version |-> row.version,
                                   time |-> now]}
          /\ GoOn(r, "forgotVerified", "forgotMailing")
          /\ UNCHANGED loc
       \/ /\ ~(Consumable(challenges[k], loc[r].code, now) /\ users[e] # NoUser)
          /\ Finish(r)
          /\ UNCHANGED <<users, challenges, spent>>
  /\ UNCHANGED <<tokens, clock, lastId, inbox, sent, recovered>>

(* The mail with the temporary password is sent after the commit.  When it *)
(* is not delivered the client reads 502, "try again later".               *)
MailTemporaryPassword(r, delivered) ==
  /\ Answer(r, "forgotMailing")
  /\ recovered' = IF delivered THEN recovered \cup {loc[r].code} ELSE recovered
  /\ UNCHANGED <<tables, clock, inbox, sent, spent>>

-------------------------------------------------------------------------------
(* POST /api/auth/change-password and DELETE /api/auth/account: RequireAuth *)
(* validates the claims, the service reads the row and compares the current *)
(* password with it, the repository writes.                                *)

AuthorizeChange(r, t, p, q) ==
  /\ "change" \in Endpoints
  /\ Accepted(t)
  /\ Take(r, "changeAuthorized",
          [Blank EXCEPT !.email = t.email, !.password = p, !.newPassword = q])
  /\ UNCHANGED <<tables, clock, history>>

(* CheckPassword against the row the service has read.                     *)
PasswordOf(e, p) == users[e] # NoUser /\ users[e].password = p

(* FindByEmail(claims.Email) and CheckPassword.                            *)
CheckCurrentPassword(r) ==
  LET matches == PasswordOf(loc[r].email, loc[r].password) IN
  /\ at[r] = "changeAuthorized"
  /\ \/ /\ matches
        /\ GoOn(r, "changeAuthorized", "changeChecked")
        /\ UNCHANGED loc
     \/ /\ ~matches
        /\ Finish(r)
  /\ UNCHANGED <<tables, clock, history>>

(* UpdatePassword, by e-mail; the new token is for the row it returns.     *)
ChangePassword(r) ==
  LET e   == loc[r].email
      row == PasswordUpdated(users[e], loc[r].newPassword)
  IN
  /\ Answer(r, "changeChecked")
  /\ \/ /\ users[e] # NoUser
        /\ users[e].version < MaxVersion
        /\ users' = [users EXCEPT ![e] = row]
        /\ tokens' = tokens \cup {TokenFor(row, e, row.password)}
     \/ /\ users[e] = NoUser
        /\ UNCHANGED <<users, tokens>>
  /\ UNCHANGED <<challenges, clock, lastId, history>>

AuthorizeDelete(r, t, p) ==
  /\ "delete" \in Endpoints
  /\ Accepted(t)
  /\ Take(r, "deleteAuthorized",
          [Blank EXCEPT !.email = t.email, !.id = t.id, !.password = p])
  /\ UNCHANGED <<tables, clock, history>>

(* FindByID, and the comparison with the e-mail of the claims.             *)
HasAccount(e, id) == users[e] # NoUser /\ users[e].id = id

CheckAccount(r) ==
  LET e == loc[r].email
      matches == HasAccount(e, loc[r].id) /\ PasswordOf(e, loc[r].password)
  IN
  /\ at[r] = "deleteAuthorized"
  /\ \/ /\ matches
        /\ GoOn(r, "deleteAuthorized", "deleteChecked")
        /\ UNCHANGED loc
     \/ /\ ~matches
        /\ Finish(r)
  /\ UNCHANGED <<tables, clock, history>>

(* The transaction: lock the row by id, delete the address's challenges,   *)
(* delete the user.                                                        *)
DeleteAccount(r) ==
  LET e == loc[r].email IN
  /\ Answer(r, "deleteChecked")
  /\ IF HasAccount(e, loc[r].id)
     THEN /\ users' = [users EXCEPT ![e] = NoUser]
          /\ challenges' = [k \in Keys |-> IF k[1] = e THEN NoChallenge
                                           ELSE challenges[k]]
     ELSE UNCHANGED <<users, challenges>>
  /\ UNCHANGED <<tokens, clock, lastId, history>>

-------------------------------------------------------------------------------
Abort(r) ==
  /\ at[r] # "idle"
  /\ Finish(r)
  /\ UNCHANGED <<tables, clock, history>>

Tick ==
  /\ clock < MaxTime
  /\ clock' = clock + 1
  /\ UNCHANGED <<tables, at, loc, history>>

LoginStep(r) ==
  \/ \E e \in Emails, p \in Passwords : Login(r, e, p)
  \/ CompareLogin(r)
  \/ RecordFailedLogin(r)
  \/ AcceptLogin(r)

CodeStep(r) ==
  \/ \E e \in Emails, purpose \in Purposes : SendVerificationCode(r, e, purpose)
  \/ IssueCode(r)
  \/ DeliverCode(r)
  \/ \E e \in Emails, purpose \in Purposes :
       \E code \in CodesFor(e, purpose) : VerifyCode(r, e, purpose, code)
  \/ RecordFailedAttempt(r)

RegisterStep(r) ==
  \/ \E e \in Emails, p \in Passwords :
       \E code \in CodesFor(e, "register") : Register(r, e, p, code)
  \/ SaveVerifiedUser(r)

ForgotStep(r) ==
  \/ \E e \in Emails : \E code \in CodesFor(e, "forgot") :
       ForgotPassword(r, e, code)
  \/ ForgotVerify(r)
  \/ \E p \in Passwords : ResetVerifiedPassword(r, p)
  \/ \E delivered \in BOOLEAN : MailTemporaryPassword(r, delivered)

AccountStep(r) ==
  \/ \E t \in tokens, p, q \in Passwords : AuthorizeChange(r, t, p, q)
  \/ CheckCurrentPassword(r)
  \/ ChangePassword(r)
  \/ \E t \in tokens, p \in Passwords : AuthorizeDelete(r, t, p)
  \/ CheckAccount(r)
  \/ DeleteAccount(r)

Next ==
  \/ \E r \in Requests : \/ LoginStep(r)
                         \/ CodeStep(r)
                         \/ RegisterStep(r)
                         \/ ForgotStep(r)
                         \/ AccountStep(r)
                         \/ Abort(r)
  \/ Tick

Spec == Init /\ [][Next]_vars

-------------------------------------------------------------------------------
(* Properties.                                                             *)

(* A session that RequireAuth accepts was obtained by presenting, or       *)
(* setting, the password the account has now: a change or a recovery cuts  *)
(* off every earlier session, even one whose login read the row before and *)
(* got its token after, and an account re-created at the same address      *)
(* accepts none of the old ones (server.go, token_version).                *)
AcceptedSessionProvesPassword ==
  \A t \in tokens :
    Accepted(t) => /\ users[t.email].id = t.id
                   /\ users[t.email].password = t.password

(* An account carries a lock exactly when its failures have reached the    *)
(* limit: no statement clears or sets one of the two columns alone.        *)
LockMatchesFailures ==
  \A e \in Emails : users[e] # NoUser =>
    (users[e].failed >= MaxLoginAttempts <=> users[e].lockedUntil # NoLock)

(* The logins for e that passed the lock test with a wrong password and    *)
(* whose failure is not recorded yet.                                      *)
Comparing(e) == {r \in Requests : at[r] = "loginMismatch" /\ loc[r].email = e}

(* Guesses.  Until it is cleared, an account takes MaxLoginAttempts - 1    *)
(* wrong passwords and one more of each of the R requests that may be in   *)
(* flight, since those that passed the lock test before the failure that   *)
(* locks are all compared; then 1 + 2 + ... + R every LoginLockout, since  *)
(* a failure that is dated in the period before and recorded last opens    *)
(* the account for the requests that are free by then.  An expired lock    *)
(* opens no new series of MaxLoginAttempts: the failure counter survives.  *)
UpTo(n) == (n * (n + 1)) \div 2

GuessLimit ==
  LET R == Cardinality(Requests)
      periods == clock \div LoginLockout
  IN
  \A e \in Emails : users[e] # NoUser =>
    users[e].failed + Cardinality(Comparing(e))
      <= MaxLoginAttempts - 1 + R + periods * UpTo(R)

(* A code is good for one account or one recovery, however many requests   *)
(* verified it at the same time.                                           *)
CodesSpentOnce == \A s, u \in spent : s.code = u.code => s = u

(* Every account comes from a registration code of its own, and a          *)
(* registration code is consumed only when its account is created: a       *)
(* failed registration leaves the code usable.                             *)
RegistrationSpendsWhatItCreates ==
  \A i \in 1..MaxCodes :
    /\ i <= lastId => \E s \in spent : s.purpose = "register" /\ s.id = i
    /\ i <= Len(sent) =>
         LET k == <<sent[i].email, sent[i].purpose>> IN
         (\A j \in i + 1 .. Len(sent) :
            <<sent[j].email, sent[j].purpose>> # k) =>
           \/ challenges[k] = NoChallenge
           \/ challenges[k].consumed <=> \E s \in spent : s.code = i

(* A code is consumed (consumed_at) within its five minutes, for the       *)
(* address and purpose it was sent for, and only while it is the last one  *)
(* sent: the one a request verified is refused when another was sent       *)
(* before its commit.                                                      *)
SpendsLiveCodes ==
  \A s \in spent' \ spent :
    /\ sent[s.code].purpose = s.purpose
    /\ s.time < sent[s.code].time + CodeTTL
    /\ users'[sent[s.code].email].id = s.id
    /\ \A j \in s.code + 1 .. Len(sent) :
         sent[j].email = sent[s.code].email => sent[j].purpose # s.purpose

OnlyLiveCodesAreSpent == [][SpendsLiveCodes]_vars

(* The codes sent for an address and purpose on day d.                     *)
SentOn(k, d) == {i \in DOMAIN sent : /\ sent[i].email = k[1]
                                     /\ sent[i].purpose = k[2]
                                     /\ DayOf(sent[i].time) = d}

(* At most MaxDailySends codes a day for an address and purpose            *)
(* (auth_service.go:34).  A sender dates its code before it stores it, so  *)
(* the counter only keeps this as long as sends do not overlap.            *)
DailySendLimit ==
  \A k \in Keys, d \in 0..DayOf(MaxTime) :
    Cardinality(SentOn(k, d)) <= MaxDailySends

(* What the counter does keep with R requests in flight, while no account  *)
(* is deleted: a send that is dated yesterday and stored today makes the   *)
(* counter start again, so that those in flight at midnight allow another  *)
(* MaxDailySends each, and those in flight at the next midnight one more.  *)
(* With one request at a time it is the limit itself.                      *)
DailySendBound ==
  \A k \in Keys, d \in 0..DayOf(MaxTime) :
    Cardinality(SentOn(k, d)) < (MaxDailySends + 1) * Cardinality(Requests)

(* A recovery whose mail was not delivered can be tried again: its code    *)
(* has not been used up (the 502 message of the ForgotPassword handler).   *)
RetryAfterMailFailure ==
  [][\A r \in Requests :
       LET e == loc[r].email IN
       MailTemporaryPassword(r, FALSE) =>
         Consumable(challenges[<<e, "forgot">>], loc[r].code, clock)]_vars

-------------------------------------------------------------------------------
(* The inductive invariant behind AcceptedSessionProvesPassword.  A        *)
(* (version, password) pair fits account id at address e when it is not    *)
(* ahead of the stored row and, at the stored version, agrees with it.     *)
Fits(e, id, version, pw) ==
  /\ id <= lastId
  /\ HasAccount(e, id) =>
       /\ version <= users[e].version
       /\ version = users[e].version => pw = users[e].password

SessionInv ==
  /\ \A e \in Emails : users[e] # NoUser => users[e].id <= lastId
  /\ \A t \in tokens : Fits(t.email, t.id, t.version, t.password)
  /\ \A r \in Requests :
       LET row == loc[r].row IN
       /\ at[r] = "loginFound" =>
            Fits(loc[r].email, row.id, row.version, row.password)
       /\ at[r] = "loginMatch" =>
            Fits(loc[r].email, row.id, row.version, loc[r].password)

(* A handler has taken no time that is still to come.                      *)
TimesArePast == \A r \in Requests : loc[r].since <= clock

(* The inductive invariant behind GuessLimit.  In the lock period of the   *)
(* clock, stragglers passed the lock test before it, so that their failure *)
(* may be dated before it; the others are dated in it, and lock the        *)
(* account until its end, as long as no straggler is recorded after them.  *)
PeriodStart == (clock \div LoginLockout) * LoginLockout
PeriodEnd == PeriodStart + LoginLockout

Stragglers(e) == {r \in Comparing(e) : loc[r].since < PeriodStart}
Guessing(e) ==
  (Comparing(e) \ Stragglers(e)) \cup
    {r \in Requests : /\ at[r] = "loginFound"
                      /\ loc[r].email = e
                      /\ loc[r].row.lockedUntil < PeriodEnd}

GuessesFit(e) ==
  LET R == Cardinality(Requests)
      S == Cardinality(Stragglers(e))
      earlier == MaxLoginAttempts - 1 + R
                   + (clock \div LoginLockout) * UpTo(R) - UpTo(R)
  IN
  users[e] # NoUser /\ users[e].failed >= MaxLoginAttempts =>
    /\ users[e].failed + S + Cardinality(Guessing(e)) <= earlier + UpTo(R - S)
    /\ users[e].lockedUntil < PeriodEnd =>
         users[e].failed + S <= earlier + UpTo(R - S - 1)

GuessInv == \A e \in Emails : GuessesFit(e)

(* The inductive invariant behind CodesSpentOnce and OnlyLiveCodesAreSpent:*)
(* a challenge that holds a code holds the last one sent for its address   *)
(* and purpose, with that code's deadline, and nothing was obtained for it *)
(* yet.                                                                    *)
HoldsLastCode(k) ==
  LET row == challenges[k] IN
  /\ row.code \in 1..Len(sent)
  /\ sent[row.code].email = k[1]
  /\ sent[row.code].purpose = k[2]
  /\ row.expires = sent[row.code].time + CodeTTL
  /\ \A s \in spent : s.code # row.code
  /\ \A j \in row.code + 1 .. Len(sent) :
       sent[j].email = k[1] => sent[j].purpose # k[2]

CodesInv ==
  /\ \A s \in spent : s.code \in 1..Len(sent)
  /\ CodesSpentOnce
  /\ \A k \in Keys : challenges[k] # NoChallenge /\ ~challenges[k].consumed =>
       HoldsLastCode(k)

(* The inductive invariant behind RegistrationSpendsWhatItCreates, with    *)
(* CodesInv: a consumed challenge was consumed for the last code sent.     *)
LastCodeIsSpent(k) ==
  \E s \in spent :
    /\ s.code \in 1..Len(sent)
    /\ sent[s.code].email = k[1]
    /\ sent[s.code].purpose = k[2]
    /\ \A j \in s.code + 1 .. Len(sent) :
         sent[j].email = k[1] => sent[j].purpose # k[2]

RegistrationInv ==
  /\ \A i \in 1..lastId :
       \E s \in spent : s.purpose = "register" /\ s.id = i
  /\ \A k \in Keys : challenges[k] # NoChallenge /\ challenges[k].consumed =>
       LastCodeIsSpent(k)

(* The inductive invariant behind DailySendBound.  Of the sends in flight  *)
(* for k, those that may date their code on day d or before.               *)
Sending(k) == {r \in Requests : /\ at[r] = "sendAllowed"
                                /\ loc[r].email = k[1]
                                /\ loc[r].purpose = k[2]}
SendingSince(k, d) == {r \in Sending(k) : DayOf(loc[r].since) <= d}

Counts(k, d) == challenges[k] # NoChallenge /\ challenges[k].day = d

(* Today: every send of an earlier day may have started the counter again. *)
TodayFits(k) ==
  LET d == DayOf(clock)
      R == Cardinality(Requests)
      S == Cardinality({r \in Sending(k) : DayOf(loc[r].since) < d})
      n == Cardinality(SentOn(k, d))
  IN
  /\ S = R => n = 0 /\ ~Counts(k, d)
  /\ S < R => n <= MaxDailySends * (R - S - 1)
                    + IF Counts(k, d) THEN challenges[k].requests ELSE 0

(* An earlier day: every send in flight since then adds one code at most,  *)
(* and none does while the counter stands at that day's limit.             *)
PastFits(k, d) ==
  LET R == Cardinality(Requests)
      n == Cardinality(SentOn(k, d))
  IN
  \/ n + Cardinality(SendingSince(k, d)) < (MaxDailySends + 1) * R
  \/ /\ Counts(k, d) /\ challenges[k].requests = MaxDailySends
     /\ n <= MaxDailySends * R

NoneDeletes ==
  \A r \in Requests : at[r] \notin {"deleteAuthorized", "deleteChecked"}

SendsFit(k) ==
  /\ challenges[k] # NoChallenge => /\ challenges[k].requests <= MaxDailySends
                                     /\ challenges[k].day <= DayOf(clock)
  /\ \A i \in DOMAIN sent : DayOf(sent[i].time) <= DayOf(clock)
  /\ TodayFits(k)
  /\ \A d \in 0..DayOf(clock) : d < DayOf(clock) => PastFits(k, d)

DailyInv == NoneDeletes /\ \A k \in Keys : SendsFit(k)
===============================================================================
