---------------------------- MODULE AuthApi_proofs ----------------------------
(* Theorems about AuthApi, for every value of its constants.               *)
EXTENDS AuthApi, FiniteSetTheorems, TLAPS

-------------------------------------------------------------------------------
(* Types of the values the actions build.                                  *)

LEMMA BlankType == Blank \in Locals
BY AccountsAssumption DEF Blank, Locals, Purposes, NoCode

LEMMA RowTypes ==
  ASSUME NEW row \in UserRow, NEW pw \in Passwords, NEW now \in Nat
  PROVE  /\ PasswordUpdated(row, pw) \in UserRow
         /\ FailureRecorded(row, now) \in UserRow
         /\ FailuresReset(row) \in UserRow
         /\ row # NoUser
<1>1. PasswordUpdated(row, pw) \in UserRow
  <2>1. row.version + 1 \in Nat
    BY DEF UserRow
  <2>2. QED
    BY <2>1 DEF PasswordUpdated, UserRow, NoLock
<1>2. FailureRecorded(row, now) \in UserRow
  <2>1. now + LoginLockout \in Nat /\ row.failed + 1 \in Nat
    BY AccountsAssumption DEF UserRow
  <2>2. QED
    BY <2>1 DEF FailureRecorded, UserRow
<1>3. FailuresReset(row) \in UserRow
  BY DEF FailuresReset, UserRow, NoLock
<1>4. QED
  BY <1>1, <1>2, <1>3, NoUserAssumption

LEMMA NewAccountType ==
  ASSUME NEW id \in Nat \ {0}, NEW pw \in Passwords
  PROVE  NewAccount(id, pw) \in UserRow
BY DEF NewAccount, UserRow, NoLock

LEMMA DayType == ASSUME NEW now \in Nat PROVE DayOf(now) \in Nat
BY VerificationAssumption DEF DayOf

LEMMA ChallengeTypes ==
  ASSUME NEW row \in ChallengeRow \cup {NoChallenge}, NEW code \in Nat,
         NEW now \in Nat
  PROVE  /\ Issued(row, code, now) \in ChallengeRow
         /\ AttemptRecorded(row) \in ChallengeRow \cup {NoChallenge}
         /\ row # NoChallenge => Consumed(row) \in ChallengeRow
<1>1. Issued(row, code, now) \in ChallengeRow
  <2>1. DayOf(now) \in Nat /\ now + CodeTTL \in Nat
    BY DayType, VerificationAssumption
  <2>2. row # NoChallenge => row.requests + 1 \in Nat
    BY DEF ChallengeRow
  <2>3. QED
    BY <2>1, <2>2 DEF Issued, ChallengeRow
<1>2. AttemptRecorded(row) \in ChallengeRow \cup {NoChallenge}
  <2>1. row # NoChallenge => row.attempts + 1 \in Nat
    BY DEF ChallengeRow
  <2>2. QED
    BY <2>1 DEF AttemptRecorded, ChallengeRow
<1>3. row # NoChallenge => Consumed(row) \in ChallengeRow
  BY DEF Consumed, ChallengeRow, NoCode
<1>4. QED
  BY <1>1, <1>2, <1>3

LEMMA TokenType ==
  ASSUME NEW row \in UserRow, NEW e \in Emails, NEW pw \in Passwords,
         clock \in Nat
  PROVE  TokenFor(row, e, pw) \in Token
<1>1. clock + TokenTTL \in Nat
  BY AuthApiAssumption
<1>2. QED
  BY <1>1 DEF TokenFor, Token, UserRow

-------------------------------------------------------------------------------
(* Slots.                                                                  *)

(* The conjuncts of TypeOK about the slots, one operator for the three of  *)
(* them so that the lemmas below can carry them together.                  *)
SlotsOK ==
  /\ at \in [Requests -> Steps]
  /\ loc \in [Requests -> Locals]
  /\ \A r \in Requests :
       at[r] \in {"loginFound", "loginMatch"} => loc[r].row \in UserRow

LEMMA TakeTypes ==
  ASSUME TypeOK, NEW r \in Requests, NEW step \in Steps,
         NEW locals \in Locals, Take(r, step, locals),
         step \in {"loginFound", "loginMatch"} => locals.row \in UserRow
  PROVE  SlotsOK'
BY DEF Take, TypeOK, SlotsOK

LEMMA FinishTypes ==
  ASSUME TypeOK, NEW r \in Requests, Finish(r)
  PROVE  SlotsOK'
BY BlankType DEF Finish, TypeOK, Steps, SlotsOK

LEMMA GoOnTypes ==
  ASSUME TypeOK, NEW r \in Requests, NEW from, NEW to \in Steps,
         to \in {"loginFound", "loginMatch"} => loc[r].row \in UserRow,
         GoOn(r, from, to),
         UNCHANGED loc \/ loc' = [loc EXCEPT ![r].since = clock]
  PROVE  SlotsOK'
<1>1. at' = [at EXCEPT ![r] = to]
  BY DEF GoOn
<1>2. CASE UNCHANGED loc
  BY <1>1, <1>2 DEF TypeOK, SlotsOK
<1>3. CASE loc' = [loc EXCEPT ![r].since = clock]
  <2> DEFINE local == [loc[r] EXCEPT !.since = clock]
  <2>1. local \in Locals /\ local.row = loc[r].row
    BY DEF TypeOK, Locals
  <2>2. loc' = [loc EXCEPT ![r] = local]
    BY <1>3 DEF TypeOK
  <2> HIDE DEF local
  <2>3. loc' \in [Requests -> Locals]
    BY <2>1, <2>2 DEF TypeOK
  <2>4. \A q \in Requests : loc'[q].row = loc[q].row
    BY <2>1, <2>2 DEF TypeOK
  <2>5. QED
    BY <1>1, <2>3, <2>4 DEF TypeOK, SlotsOK
<1>4. QED
  BY <1>2, <1>3

LEMMA LocalTypes ==
  ASSUME TypeOK, NEW r \in Requests
  PROVE  /\ loc[r] \in Locals
         /\ <<loc[r].email, loc[r].purpose>> \in Keys
         /\ loc[r].email \in Emails
         /\ loc[r].password \in Passwords
         /\ loc[r].newPassword \in Passwords
         /\ loc[r].code \in Nat
         /\ loc[r].row \in UserRow \cup {NoUser}
         /\ loc[r].since \in Nat
BY DEF TypeOK, Locals, Keys

(* A time a handler may have taken is a time that has passed.              *)
LEMMA TimeTypes ==
  ASSUME TypeOK, NEW r \in Requests, NEW now \in TimesOf(r)
  PROVE  now \in Nat /\ loc[r].since <= now /\ now <= clock
<1>1. loc[r].since \in Nat /\ clock \in Nat
  BY LocalTypes DEF TypeOK
<1>2. QED
  BY <1>1 DEF TimesOf

-------------------------------------------------------------------------------
(* The type invariant, one lemma per group of actions.                     *)

LEMMA LoginTypes ==
  ASSUME TypeOK, NEW r \in Requests, LoginStep(r)
  PROVE  TypeOK'
<1>1. ASSUME NEW e \in Emails, NEW p \in Passwords, Login(r, e, p)
      PROVE  TypeOK'
  <2> DEFINE locals == [Blank EXCEPT !.email = e, !.password = p,
                                     !.row = users[e]]
  <2>1. users[e] \in UserRow
    BY <1>1 DEF Login, TypeOK
  <2>2. locals \in Locals /\ locals.row \in UserRow
    BY <2>1, BlankType DEF Locals
  <2>3. Take(r, "loginFound", locals)
    BY <1>1 DEF Login
  <2> HIDE DEF locals
  <2>4. SlotsOK'
    BY <2>2, <2>3, TakeTypes DEF Steps
  <2>5. QED
    BY <2>4, <1>1 DEF Login, TypeOK, tables, history, SlotsOK
<1>5. ASSUME CompareLogin(r) PROVE TypeOK'
  <2> DEFINE step == IF loc[r].password = loc[r].row.password
                     THEN "loginMatch" ELSE "loginMismatch"
  <2>1. step \in Steps /\ loc[r].row \in UserRow
    BY <1>5 DEF CompareLogin, Steps, TypeOK
  <2> HIDE DEF step
  <2>2. CASE Finish(r)
    BY <1>5, <2>2, FinishTypes
       DEF CompareLogin, TypeOK, tables, history, SlotsOK
  <2>3. CASE GoOn(r, "loginFound", step) /\ loc' = [loc EXCEPT ![r].since = clock]
    <3>1. SlotsOK'
      BY <2>1, <2>3, GoOnTypes
    <3>2. QED
      BY <1>5, <3>1 DEF CompareLogin, TypeOK, tables, history, SlotsOK
  <2>4. QED
    BY <1>5, <2>2, <2>3 DEF CompareLogin, step
<1>2. ASSUME RecordFailedLogin(r) PROVE TypeOK'
  <2>1. SlotsOK'
    BY <1>2, FinishTypes DEF RecordFailedLogin, Answer
  <2>2. users' \in [Emails -> UserRow \cup {NoUser}]
    <3>1. PICK now \in TimesOf(r) :
            users' = IF users[loc[r].email] = NoUser THEN users
                     ELSE [users EXCEPT ![loc[r].email] = FailureRecorded(@, now)]
      BY <1>2 DEF RecordFailedLogin
    <3>2. CASE users[loc[r].email] = NoUser
      BY <3>1, <3>2 DEF TypeOK
    <3>3. CASE users[loc[r].email] # NoUser
      <4>1. users[loc[r].email] \in UserRow /\ now \in Nat
        BY <3>3, LocalTypes, TimeTypes DEF TypeOK
      <4>2. FailureRecorded(users[loc[r].email], now) \in UserRow
        BY <4>1, RowTypes, AccountsAssumption
      <4>3. QED
        BY <3>1, <3>3, <4>2 DEF TypeOK
    <3>4. QED
      BY <3>2, <3>3
  <2>3. QED
    BY <1>2, <2>1, <2>2 DEF RecordFailedLogin, TypeOK, history, SlotsOK
<1>3. ASSUME AcceptLogin(r) PROVE TypeOK'
  <2>1. SlotsOK'
    BY <1>3, FinishTypes DEF AcceptLogin, Answer
  <2>2. users' \in [Emails -> UserRow \cup {NoUser}]
    <3>1. users[loc[r].email] # NoUser =>
            FailuresReset(users[loc[r].email]) \in UserRow
      BY RowTypes, LocalTypes, AccountsAssumption DEF TypeOK
    <3>2. QED
      BY <3>1, <1>3 DEF AcceptLogin, TypeOK
  <2>3. loc[r].row \in UserRow
    BY <1>3 DEF AcceptLogin, Answer, TypeOK
  <2>4. TokenFor(loc[r].row, loc[r].email, loc[r].password) \in Token
    BY <2>3, LocalTypes, TokenType DEF TypeOK
  <2>5. QED
    BY <1>3, <2>1, <2>2, <2>4 DEF AcceptLogin, TypeOK, history, SlotsOK
<1>4. QED
  BY <1>1, <1>2, <1>3, <1>5 DEF LoginStep

LEMMA CodesForType ==
  ASSUME TypeOK, NEW e, NEW purpose, NEW code, code \in CodesFor(e, purpose)
  PROVE  code \in Nat
BY DEF CodesFor, TypeOK, NoCode

LEMMA CodeTypes ==
  ASSUME TypeOK, NEW r \in Requests, CodeStep(r)
  PROVE  TypeOK'
<1>1. ASSUME NEW e \in Emails, NEW purpose \in Purposes,
             SendVerificationCode(r, e, purpose)
      PROVE  TypeOK'
  <2> DEFINE locals == [Blank EXCEPT !.email = e, !.purpose = purpose,
                                     !.since = clock]
  <2>1. locals \in Locals
    BY BlankType DEF Locals, TypeOK
  <2>2. Take(r, "sendAllowed", locals)
    BY <1>1 DEF SendVerificationCode
  <2> HIDE DEF locals
  <2>3. SlotsOK'
    BY <2>1, <2>2, TakeTypes DEF Steps
  <2>4. QED
    BY <2>3, <1>1 DEF SendVerificationCode, TypeOK, tables, history, SlotsOK
<1>2. ASSUME IssueCode(r) PROVE TypeOK'
  <2> DEFINE k    == <<loc[r].email, loc[r].purpose>>
             code == Len(sent) + 1
             item(now) == [email |-> k[1], purpose |-> k[2], time |-> now]
  <2>1. ASSUME NEW now \in TimesOf(r), sent' = Append(sent, item(now)),
               challenges' = [challenges EXCEPT ![k] = Issued(@, code, now)],
               GoOn(r, "sendAllowed", "sendMailing"),
               loc' = [loc EXCEPT ![r].code = code]
        PROVE  TypeOK'
    <3>1. code \in Nat /\ k \in Keys /\ item(now) \in SentCode /\ now \in Nat
      BY LocalTypes, TimeTypes DEF TypeOK, SentCode, Keys
    <3>2. Issued(challenges[k], code, now) \in ChallengeRow
      BY <3>1, ChallengeTypes DEF TypeOK
    <3>3. challenges' \in [Keys -> ChallengeRow \cup {NoChallenge}]
      BY <2>1, <3>1, <3>2 DEF TypeOK
    <3>4. sent' \in Seq(SentCode)
      BY <2>1, <3>1 DEF TypeOK
    <3>5. SlotsOK'
      BY <2>1, <3>1 DEF GoOn, TypeOK, SlotsOK, Steps, Locals
    <3>6. QED
      BY <1>2, <3>3, <3>4, <3>5 DEF IssueCode, TypeOK, SlotsOK
  <2>2. CASE Finish(r) /\ UNCHANGED <<challenges, sent>>
    BY <2>2, <1>2, FinishTypes DEF IssueCode, TypeOK, SlotsOK
  <2>3. QED
    BY <1>2, <2>1, <2>2 DEF IssueCode
<1>3. ASSUME DeliverCode(r) PROVE TypeOK'
  BY <1>3, FinishTypes, LocalTypes
     DEF DeliverCode, Answer, TypeOK, SlotsOK, tables
<1>4. ASSUME NEW e \in Emails, NEW purpose \in Purposes,
             NEW code \in CodesFor(e, purpose), VerifyCode(r, e, purpose, code)
      PROVE  TypeOK'
  <2> DEFINE locals == [Blank EXCEPT !.email = e, !.purpose = purpose]
  <2>1. locals \in Locals
    BY BlankType DEF Locals
  <2>2. Take(r, "wrongCode", locals)
    BY <1>4 DEF VerifyCode
  <2> HIDE DEF locals
  <2>3. SlotsOK'
    BY <2>1, <2>2, TakeTypes DEF Steps
  <2>4. QED
    BY <2>3, <1>4 DEF VerifyCode, TypeOK, tables, history, SlotsOK
<1>5. ASSUME RecordFailedAttempt(r) PROVE TypeOK'
  <2> DEFINE k == <<loc[r].email, loc[r].purpose>>
  <2>1. AttemptRecorded(challenges[k]) \in ChallengeRow \cup {NoChallenge}
    BY LocalTypes, ChallengeTypes, 0 \in Nat DEF TypeOK
  <2>2. challenges' \in [Keys -> ChallengeRow \cup {NoChallenge}]
    BY <1>5, <2>1 DEF RecordFailedAttempt, TypeOK
  <2>3. QED
    BY <1>5, <2>2, FinishTypes
       DEF RecordFailedAttempt, Answer, TypeOK, history, SlotsOK
<1>6. QED
  BY <1>1, <1>2, <1>3, <1>4, <1>5 DEF CodeStep

LEMMA RegisterTypes ==
  ASSUME TypeOK, NEW r \in Requests, RegisterStep(r)
  PROVE  TypeOK'
<1>1. ASSUME NEW e \in Emails, NEW p \in Passwords,
             NEW code, code \in CodesFor(e, "register"),
             Register(r, e, p, code)
      PROVE  TypeOK'
  <2> DEFINE step   == Verified(<<e, "register">>, code, "registerVerified")
             locals == [Blank EXCEPT !.email = e, !.password = p,
                                     !.code = code, !.since = clock]
  <2>1. code \in Nat
    BY <1>1, CodesForType
  <2>2. locals \in Locals
    BY <2>1, BlankType DEF Locals, TypeOK
  <2>3. step \in Steps /\ step \notin {"loginFound", "loginMatch"}
    BY DEF Verified, Steps
  <2>4. Take(r, step, locals)
    BY <1>1 DEF Register
  <2> HIDE DEF locals, step
  <2>5. SlotsOK'
    BY <2>2, <2>3, <2>4, TakeTypes
  <2>6. QED
    BY <2>5, <1>1 DEF Register, TypeOK, tables, history, SlotsOK
<1>2. ASSUME SaveVerifiedUser(r) PROVE TypeOK'
  <2> DEFINE e    == loc[r].email
             k    == <<e, "register">>
             row  == NewAccount(lastId + 1, loc[r].password)
             item(now) == [code |-> loc[r].code, purpose |-> "register",
                           id |-> row.id, version |-> 0, time |-> now]
  <2>1. SlotsOK'
    BY <1>2, FinishTypes DEF SaveVerifiedUser, Answer
  <2>2. CASE UNCHANGED <<tables, spent>>
    BY <1>2, <2>1, <2>2 DEF SaveVerifiedUser, TypeOK, tables, SlotsOK
  <2>3. ASSUME NEW now \in TimesOf(r),
               Consumable(challenges[k], loc[r].code, now),
               challenges' = [challenges EXCEPT ![k] = Consumed(@)],
               users' = [users EXCEPT ![e] = row],
               lastId' = lastId + 1,
               tokens' = tokens \cup {TokenFor(row, e, row.password)},
               spent' = spent \cup {item(now)}
        PROVE  TypeOK'
    <3>1. lastId + 1 \in Nat \ {0} /\ e \in Emails /\ k \in Keys
          /\ loc[r].code \in Nat
      <4>1. lastId + 1 \in Nat \ {0}
        BY DEF TypeOK
      <4>2. e \in Emails /\ loc[r].code \in Nat
        BY LocalTypes
      <4>3. QED
        BY <4>1, <4>2 DEF Keys, Purposes
    <3>2. row \in UserRow
      <4>1. loc[r].password \in Passwords
        BY LocalTypes
      <4>2. QED
        BY <3>1, <4>1, NewAccountType
    <3>3. users' \in [Emails -> UserRow \cup {NoUser}]
      BY <2>3, <3>2 DEF TypeOK
    <3>4. TokenFor(row, e, row.password) \in Token
      <4>1. row.password \in Passwords
        BY <3>2 DEF UserRow
      <4> HIDE DEF row, e
      <4>2. QED
        BY <4>1, <3>1, <3>2, TokenType DEF TypeOK
    <3>5. challenges[k] \in ChallengeRow
      BY <2>3, <3>1 DEF Consumable, TypeOK
    <3>6. Consumed(challenges[k]) \in ChallengeRow
      BY <3>5, <3>1, ChallengeTypes, NoChallengeAssumption DEF TypeOK
    <3>7. challenges' \in [Keys -> ChallengeRow \cup {NoChallenge}]
      BY <2>3, <3>6 DEF TypeOK
    <3>8. item(now) \in Spend
      BY <3>1, <3>2, TimeTypes DEF Spend, Purposes, TypeOK, UserRow
    <3> HIDE DEF item, row, e, k
    <3>9. QED
      BY <1>2, <2>1, <2>3, <3>1, <3>3, <3>4, <3>7, <3>8
         DEF SaveVerifiedUser, TypeOK, SlotsOK
  <2>4. QED
    BY <1>2, <2>2, <2>3 DEF SaveVerifiedUser
<1>3. QED
  BY <1>1, <1>2 DEF RegisterStep

LEMMA ForgotTypes ==
  ASSUME TypeOK, NEW r \in Requests, ForgotStep(r)
  PROVE  TypeOK'
<1>1. ASSUME NEW e \in Emails, NEW code, code \in CodesFor(e, "forgot"),
             ForgotPassword(r, e, code)
      PROVE  TypeOK'
  <2> DEFINE locals == [Blank EXCEPT !.email = e, !.purpose = "forgot",
                                     !.code = code]
  <2>1. locals \in Locals
    BY <1>1, CodesForType, BlankType DEF Locals, Purposes
  <2>2. Take(r, "forgotFound", locals)
    BY <1>1 DEF ForgotPassword
  <2> HIDE DEF locals
  <2>3. SlotsOK'
    BY <2>1, <2>2, TakeTypes DEF Steps
  <2>4. QED
    BY <2>3, <1>1 DEF ForgotPassword, TypeOK, tables, history, SlotsOK
<1>2. ASSUME ForgotVerify(r) PROVE TypeOK'
  <2> DEFINE step == Verified(<<loc[r].email, "forgot">>, loc[r].code,
                              "forgotVerified")
  <2>1. step \in Steps \ {"loginFound", "loginMatch"}
    BY DEF Verified, Steps
  <2> HIDE DEF step
  <2>2. CASE /\ GoOn(r, "forgotFound", step)
             /\ loc' = [loc EXCEPT ![r].since = clock]
    <3>1. SlotsOK'
      BY <2>1, <2>2, GoOnTypes
    <3>2. QED
      BY <1>2, <3>1 DEF ForgotVerify, TypeOK, tables, history, SlotsOK
  <2>3. CASE Finish(r)
    BY <1>2, <2>3, FinishTypes
       DEF ForgotVerify, TypeOK, tables, history, SlotsOK
  <2>4. QED
    BY <1>2, <2>2, <2>3 DEF ForgotVerify, step
<1>3. ASSUME NEW p \in Passwords, ResetVerifiedPassword(r, p) PROVE TypeOK'
  <2> DEFINE e    == loc[r].email
             k    == <<e, "forgot">>
             row  == PasswordUpdated(users[e], p)
             item(now) == [code |-> loc[r].code, purpose |-> "forgot",
                           id |-> row.id, version |-> row.version,
                           time |-> now]
  <2>1. CASE Finish(r) /\ UNCHANGED <<users, challenges, spent>>
    BY <1>3, <2>1, FinishTypes DEF ResetVerifiedPassword, TypeOK, SlotsOK
  <2>2. ASSUME NEW now \in TimesOf(r),
               Consumable(challenges[k], loc[r].code, now),
               users[e] # NoUser,
               challenges' = [challenges EXCEPT ![k] = Consumed(@)],
               users' = [users EXCEPT ![e] = row],
               spent' = spent \cup {item(now)},
               GoOn(r, "forgotVerified", "forgotMailing"),
               UNCHANGED loc
        PROVE  TypeOK'
    <3>1. e \in Emails /\ k \in Keys /\ loc[r].code \in Nat
      BY LocalTypes DEF Keys, Purposes
    <3>2. users[e] \in UserRow
      BY <2>2, <3>1 DEF TypeOK
    <3>3. row \in UserRow
      BY <3>2, RowTypes, 0 \in Nat
    <3>4. users' \in [Emails -> UserRow \cup {NoUser}]
      BY <2>2, <3>3 DEF TypeOK
    <3>5. challenges[k] \in ChallengeRow
      BY <2>2, <3>1 DEF Consumable, TypeOK
    <3>6. Consumed(challenges[k]) \in ChallengeRow
      BY <3>5, <3>1, ChallengeTypes, NoChallengeAssumption DEF TypeOK
    <3>7. challenges' \in [Keys -> ChallengeRow \cup {NoChallenge}]
      BY <2>2, <3>6 DEF TypeOK
    <3>8. item(now) \in Spend
      BY <3>1, <3>3, TimeTypes DEF Spend, Purposes, TypeOK, UserRow
    <3>9. SlotsOK'
      BY <2>2, GoOnTypes DEF Steps
    <3> HIDE DEF item, row, e, k
    <3>10. QED
      BY <1>3, <2>2, <3>4, <3>7, <3>8, <3>9
         DEF ResetVerifiedPassword, TypeOK, SlotsOK
  <2>3. QED
    BY <1>3, <2>1, <2>2 DEF ResetVerifiedPassword
<1>4. ASSUME NEW delivered \in BOOLEAN, MailTemporaryPassword(r, delivered)
      PROVE  TypeOK'
  BY <1>4, FinishTypes, LocalTypes
     DEF MailTemporaryPassword, Answer, TypeOK, SlotsOK, tables
<1>5. QED
  BY <1>1, <1>2, <1>3, <1>4 DEF ForgotStep

LEMMA AccountTypes ==
  ASSUME TypeOK, NEW r \in Requests, AccountStep(r)
  PROVE  TypeOK'
<1>1. ASSUME NEW t \in tokens, NEW p \in Passwords, NEW q \in Passwords,
             AuthorizeChange(r, t, p, q)
      PROVE  TypeOK'
  <2> DEFINE locals == [Blank EXCEPT !.email = t.email, !.password = p,
                                     !.newPassword = q]
  <2>1. t.email \in Emails
    BY DEF TypeOK, Token
  <2>2. locals \in Locals
    BY <2>1, BlankType DEF Locals
  <2>3. Take(r, "changeAuthorized", locals)
    BY <1>1 DEF AuthorizeChange
  <2> HIDE DEF locals
  <2>4. SlotsOK'
    BY <2>2, <2>3, TakeTypes DEF Steps
  <2>5. QED
    BY <2>4, <1>1 DEF AuthorizeChange, TypeOK, tables, history, SlotsOK
<1>2. ASSUME CheckCurrentPassword(r) PROVE TypeOK'
  <2>1. CASE GoOn(r, "changeAuthorized", "changeChecked") /\ UNCHANGED loc
    <3>1. SlotsOK'
      BY <2>1, GoOnTypes DEF Steps
    <3>2. QED
      BY <1>2, <3>1 DEF CheckCurrentPassword, TypeOK, tables, history, SlotsOK
  <2>2. CASE Finish(r)
    BY <1>2, <2>2, FinishTypes
       DEF CheckCurrentPassword, TypeOK, tables, history, SlotsOK
  <2>3. QED
    BY <1>2, <2>1, <2>2 DEF CheckCurrentPassword
<1>3. ASSUME ChangePassword(r) PROVE TypeOK'
  <2> DEFINE e   == loc[r].email
             row == PasswordUpdated(users[e], loc[r].newPassword)
  <2>1. SlotsOK'
    BY <1>3, FinishTypes DEF ChangePassword, Answer
  <2>2. CASE UNCHANGED <<users, tokens>>
    BY <1>3, <2>1, <2>2 DEF ChangePassword, TypeOK, history, SlotsOK
  <2>3. CASE /\ users[e] # NoUser
             /\ users' = [users EXCEPT ![e] = row]
             /\ tokens' = tokens \cup {TokenFor(row, e, row.password)}
    <3>1. e \in Emails /\ loc[r].newPassword \in Passwords
      BY LocalTypes
    <3>2. users[e] \in UserRow
      BY <2>3, <3>1 DEF TypeOK
    <3>3. row \in UserRow
      BY <3>1, <3>2, RowTypes, 0 \in Nat
    <3>4. users' \in [Emails -> UserRow \cup {NoUser}]
      BY <2>3, <3>3 DEF TypeOK
    <3>5. TokenFor(row, e, row.password) \in Token
      <4>1. row.password \in Passwords
        BY <3>3 DEF UserRow
      <4> HIDE DEF row, e
      <4>2. QED
        BY <4>1, <3>1, <3>3, TokenType DEF TypeOK
    <3> HIDE DEF row, e
    <3>6. QED
      BY <1>3, <2>1, <2>3, <3>4, <3>5
         DEF ChangePassword, TypeOK, history, SlotsOK
  <2>4. QED
    BY <1>3, <2>2, <2>3 DEF ChangePassword
<1>4. ASSUME NEW t \in tokens, NEW p \in Passwords, AuthorizeDelete(r, t, p)
      PROVE  TypeOK'
  <2> DEFINE locals == [Blank EXCEPT !.email = t.email, !.id = t.id,
                                     !.password = p]
  <2>1. t.email \in Emails /\ t.id \in Nat
    BY DEF TypeOK, Token
  <2>2. locals \in Locals
    BY <2>1, BlankType DEF Locals
  <2>3. Take(r, "deleteAuthorized", locals)
    BY <1>4 DEF AuthorizeDelete
  <2> HIDE DEF locals
  <2>4. SlotsOK'
    BY <2>2, <2>3, TakeTypes DEF Steps
  <2>5. QED
    BY <2>4, <1>4 DEF AuthorizeDelete, TypeOK, tables, history, SlotsOK
<1>5. ASSUME CheckAccount(r) PROVE TypeOK'
  <2>1. CASE GoOn(r, "deleteAuthorized", "deleteChecked") /\ UNCHANGED loc
    <3>1. SlotsOK'
      BY <2>1, GoOnTypes DEF Steps
    <3>2. QED
      BY <1>5, <3>1 DEF CheckAccount, TypeOK, tables, history, SlotsOK
  <2>2. CASE Finish(r)
    BY <1>5, <2>2, FinishTypes
       DEF CheckAccount, TypeOK, tables, history, SlotsOK
  <2>3. QED
    BY <1>5, <2>1, <2>2 DEF CheckAccount
<1>6. ASSUME DeleteAccount(r) PROVE TypeOK'
  <2>1. SlotsOK'
    BY <1>6, FinishTypes DEF DeleteAccount, Answer
  <2>2. users' \in [Emails -> UserRow \cup {NoUser}]
    BY <1>6 DEF DeleteAccount, TypeOK
  <2>3. challenges' \in [Keys -> ChallengeRow \cup {NoChallenge}]
    BY <1>6 DEF DeleteAccount, TypeOK
  <2>4. QED
    BY <1>6, <2>1, <2>2, <2>3 DEF DeleteAccount, TypeOK, history, SlotsOK
<1>7. QED
  BY <1>1, <1>2, <1>3, <1>4, <1>5, <1>6 DEF AccountStep

LEMMA InitTypes == Init => TypeOK
BY BlankType DEF Init, TypeOK, Steps

LEMMA NextTypes == TypeOK /\ [Next]_vars => TypeOK'
<1> SUFFICES ASSUME TypeOK, [Next]_vars PROVE TypeOK'
  OBVIOUS
<1>1. ASSUME NEW r \in Requests, Abort(r) PROVE TypeOK'
  BY <1>1, FinishTypes DEF Abort, TypeOK, tables, history, SlotsOK
<1>2. CASE Tick
  BY <1>2 DEF Tick, TypeOK, tables, history
<1>3. CASE UNCHANGED vars
  BY <1>3 DEF vars, tables, history, TypeOK
<1>4. QED
  BY <1>1, <1>2, <1>3, LoginTypes, CodeTypes, RegisterTypes, ForgotTypes,
     AccountTypes DEF Next

(* Every reachable state has the types the schema and the handlers' local  *)
(* variables give it; in particular a login that goes on to its token      *)
(* holds a users row.                                                      *)
THEOREM TypeCorrect == Spec => []TypeOK
BY InitTypes, NextTypes, PTL DEF Spec

-------------------------------------------------------------------------------
(* Sessions.  A step moves the accounts in three ways only: an account     *)
(* disappears, keeps its id and either its version and password or gets    *)
(* the next version, or is created under a fresh id.                       *)

AccountsMove ==
  /\ lastId' \in {lastId, lastId + 1}
  /\ \A e \in Emails :
       \/ users'[e] = NoUser
       \/ /\ users[e] # NoUser
          /\ users'[e].id = users[e].id
          /\ \/ /\ users'[e].version = users[e].version
                /\ users'[e].password = users[e].password
             \/ users'[e].version = users[e].version + 1
       \/ /\ lastId' = lastId + 1
          /\ users'[e].id = lastId + 1

(* The steps of a login after it has read the account.                     *)
InLogin == {"loginFound", "loginMatch", "loginMismatch"}

(* No slot comes to one of these, and those that are there keep their      *)
(* locals.                                                                 *)
NoNewLogin ==
  \A r \in Requests :
    at'[r] \in InLogin => at'[r] = at[r] /\ loc'[r] = loc[r]

NewTokensFit ==
  \A t \in tokens' \ tokens : Fits(t.email, t.id, t.version, t.password)'

LEMMA FitsPreserved ==
  ASSUME TypeOK, TypeOK', AccountsMove, SessionInv,
         NEW e \in Emails, NEW id \in Nat, NEW version \in Nat, NEW pw,
         Fits(e, id, version, pw)
  PROVE  Fits(e, id, version, pw)'
<1>1. lastId \in Nat /\ lastId' \in Nat /\ lastId <= lastId' /\ id <= lastId
  BY DEF AccountsMove, TypeOK, Fits
<1>2. SUFFICES ASSUME HasAccount(e, id)'
               PROVE  /\ version <= users'[e].version
                      /\ version = users'[e].version => pw = users'[e].password
  BY <1>1 DEF Fits
<1>3. users'[e] # NoUser /\ users'[e].id = id
  BY <1>2 DEF HasAccount
<1>4. /\ users[e] # NoUser
      /\ users[e].id = id
      /\ \/ /\ users'[e].version = users[e].version
            /\ users'[e].password = users[e].password
         \/ users'[e].version = users[e].version + 1
  BY <1>1, <1>3 DEF AccountsMove
<1>5. users[e].version \in Nat
  BY <1>4 DEF TypeOK, UserRow
<1>6. /\ version <= users[e].version
      /\ version = users[e].version => pw = users[e].password
  BY <1>4 DEF Fits, HasAccount
<1>7. QED
  BY <1>4, <1>5, <1>6

LEMMA StepKeepsSessions ==
  ASSUME TypeOK, TypeOK', SessionInv, AccountsMove, NoNewLogin, NewTokensFit
  PROVE  SessionInv'
<1>1. \A e \in Emails : users'[e] # NoUser => users'[e].id <= lastId'
  <2> SUFFICES ASSUME NEW e \in Emails, users'[e] # NoUser
               PROVE  users'[e].id <= lastId'
    OBVIOUS
  <2>1. lastId \in Nat /\ lastId' \in {lastId, lastId + 1}
    BY DEF AccountsMove, TypeOK
  <2>2. CASE users'[e].id = lastId + 1 /\ lastId' = lastId + 1
    BY <2>1, <2>2
  <2>3. CASE users[e] # NoUser /\ users'[e].id = users[e].id
    <3>1. users[e].id <= lastId
      BY <2>3 DEF SessionInv
    <3>2. users[e].id \in Nat
      BY <2>3 DEF TypeOK, UserRow
    <3>3. QED
      BY <2>1, <2>3, <3>1, <3>2
  <2>4. QED
    BY <2>2, <2>3 DEF AccountsMove
<1>2. \A t \in tokens' : Fits(t.email, t.id, t.version, t.password)'
  <2> SUFFICES ASSUME NEW t \in tokens'
               PROVE  Fits(t.email, t.id, t.version, t.password)'
    OBVIOUS
  <2>1. CASE t \in tokens
    <3>1. t.email \in Emails /\ t.id \in Nat /\ t.version \in Nat
      BY <2>1 DEF TypeOK, Token
    <3>2. Fits(t.email, t.id, t.version, t.password)
      BY <2>1 DEF SessionInv
    <3>3. QED
      BY <3>1, <3>2, FitsPreserved
  <2>2. CASE t \notin tokens
    BY <2>2 DEF NewTokensFit
  <2>3. QED
    BY <2>1, <2>2
<1>3. ASSUME NEW r \in Requests, at'[r] \in {"loginFound", "loginMatch"}
      PROVE  /\ at'[r] = "loginFound" =>
                  (LET row == loc[r].row IN
                   Fits(loc[r].email, row.id, row.version, row.password))'
             /\ at'[r] = "loginMatch" =>
                  (LET row == loc[r].row IN
                   Fits(loc[r].email, row.id, row.version, loc[r].password))'
  <2>1. at'[r] = at[r] /\ loc'[r] = loc[r]
    BY <1>3 DEF NoNewLogin, InLogin
  <2>2. PICK l : l = loc[r]
    OBVIOUS
  <2>3. l.email \in Emails /\ l.row.id \in Nat /\ l.row.version \in Nat
    BY <1>3, <2>1, <2>2, LocalTypes DEF TypeOK, UserRow
  <2>4. ASSUME at[r] = "loginFound"
        PROVE  Fits(l.email, l.row.id, l.row.version, l.row.password)'
    <3>1. Fits(l.email, l.row.id, l.row.version, l.row.password)
      BY <2>2, <2>4 DEF SessionInv
    <3>2. QED
      BY <2>3, <3>1, FitsPreserved
  <2>5. ASSUME at[r] = "loginMatch"
        PROVE  Fits(l.email, l.row.id, l.row.version, l.password)'
    <3>1. Fits(l.email, l.row.id, l.row.version, l.password)
      BY <2>2, <2>5 DEF SessionInv
    <3>2. QED
      BY <2>3, <3>1, FitsPreserved
  <2>6. QED
    BY <2>1, <2>2, <2>4, <2>5 DEF Fits, HasAccount
<1>4. QED
  BY <1>1, <1>2, <1>3 DEF SessionInv

LEMMA SlotMoves ==
  ASSUME TypeOK, NEW r \in Requests, NEW to, to \notin InLogin
  PROVE  /\ Finish(r) => NoNewLogin
         /\ \A from : /\ GoOn(r, from, to)
                      /\ \/ UNCHANGED loc
                         \/ loc' = [loc EXCEPT ![r].since = clock]
                      => NoNewLogin
         /\ \A locals : Take(r, to, locals) => NoNewLogin
<1>1. Finish(r) => NoNewLogin
  BY DEF Finish, NoNewLogin, TypeOK, InLogin
<1>2. \A from : /\ GoOn(r, from, to)
                /\ \/ UNCHANGED loc
                   \/ loc' = [loc EXCEPT ![r].since = clock]
                => NoNewLogin
  BY DEF GoOn, NoNewLogin, TypeOK
<1>3. \A locals : Take(r, to, locals) => NoNewLogin
  BY DEF Take, NoNewLogin, TypeOK
<1>4. QED
  BY <1>1, <1>2, <1>3

LEMMA TableMoves ==
  ASSUME TypeOK
  PROVE  /\ UNCHANGED <<users, lastId>> => AccountsMove
         /\ UNCHANGED tokens => NewTokensFit
<1>1. ASSUME UNCHANGED <<users, lastId>> PROVE AccountsMove
  BY <1>1 DEF AccountsMove
<1>2. ASSUME UNCHANGED tokens PROVE NewTokensFit
  BY <1>2 DEF NewTokensFit
<1>3. QED
  BY <1>1, <1>2

LEMMA FreshTokenFits ==
  ASSUME TypeOK, TypeOK', NEW e \in Emails, NEW row, users'[e] = row,
         row \in UserRow, row.id <= lastId',
         tokens' = tokens \cup {TokenFor(row, e, row.password)}
  PROVE  NewTokensFit
<1>1. row.version \in Nat
  BY DEF UserRow
<1>2. QED
  BY <1>1 DEF NewTokensFit, TokenFor, Fits, HasAccount

LEMMA LoginKeepsSessions ==
  ASSUME TypeOK, TypeOK', SessionInv, NEW r \in Requests, LoginStep(r)
  PROVE  SessionInv'
<1>1. ASSUME NEW e \in Emails, NEW p \in Passwords, Login(r, e, p)
      PROVE  SessionInv'
  <2> DEFINE locals == [Blank EXCEPT !.email = e, !.password = p,
                                     !.row = users[e]]
  <2>1. users[e] \in UserRow /\ UNCHANGED <<users, tokens, lastId>>
    BY <1>1 DEF Login, TypeOK, tables
  <2>2. Take(r, "loginFound", locals)
    BY <1>1 DEF Login
  <2>3. locals.email = e /\ locals.row = users[e]
    BY BlankType DEF Locals
  <2>4. users[e].version \in Nat /\ users[e].id <= lastId
    BY <2>1, NoUserAssumption DEF SessionInv, UserRow
  <2> HIDE DEF locals
  <2>5. /\ at'[r] = "loginFound" /\ loc'[r] = locals
        /\ \A q \in Requests \ {r} : at'[q] = at[q] /\ loc'[q] = loc[q]
    BY <2>2 DEF Take, TypeOK
  <2>6. Fits(e, users[e].id, users[e].version, users[e].password)
    BY <2>4 DEF Fits, HasAccount
  <2>7. QED
    BY <2>1, <2>3, <2>5, <2>6 DEF SessionInv, Fits, HasAccount
<1>5. ASSUME CompareLogin(r) PROVE SessionInv'
  <2> DEFINE step == IF loc[r].password = loc[r].row.password
                     THEN "loginMatch" ELSE "loginMismatch"
  <2>1. UNCHANGED <<users, tokens, lastId>> /\ at[r] = "loginFound"
    BY <1>5 DEF CompareLogin, tables
  <2>2. CASE Finish(r)
    <3>1. NoNewLogin
      BY <2>2 DEF Finish, NoNewLogin, TypeOK, InLogin
    <3>2. QED
      BY <2>1, <3>1, TableMoves, StepKeepsSessions
  <2>3. CASE GoOn(r, "loginFound", step) /\ loc' = [loc EXCEPT ![r].since = clock]
    <3>1. /\ at'[r] = step
          /\ loc'[r] = [loc[r] EXCEPT !.since = clock]
          /\ \A q \in Requests \ {r} : at'[q] = at[q] /\ loc'[q] = loc[q]
      BY <2>3 DEF GoOn, TypeOK
    <3>2. loc[r] \in Locals
      BY LocalTypes
    <3>3. /\ loc'[r].email = loc[r].email
          /\ loc'[r].row = loc[r].row
          /\ loc'[r].password = loc[r].password
      BY <3>1, <3>2 DEF Locals
    <3>4. Fits(loc[r].email, loc[r].row.id, loc[r].row.version,
               loc[r].row.password)
      BY <2>1 DEF SessionInv
    <3>5. step = "loginMatch" => loc[r].password = loc[r].row.password
      OBVIOUS
    <3>6. step # "loginFound"
      OBVIOUS
    <3> HIDE DEF step
    <3>7. \A e \in Emails : users'[e] # NoUser => users'[e].id <= lastId'
      BY <2>1 DEF SessionInv
    <3>8. \A t \in tokens' : Fits(t.email, t.id, t.version, t.password)'
      BY <2>1 DEF SessionInv, Fits, HasAccount
    <3>9. ASSUME NEW q \in Requests
          PROVE  (/\ at[q] = "loginFound" =>
                       Fits(loc[q].email, loc[q].row.id, loc[q].row.version,
                            loc[q].row.password)
                  /\ at[q] = "loginMatch" =>
                       Fits(loc[q].email, loc[q].row.id, loc[q].row.version,
                            loc[q].password))'
      <4>1. CASE q = r
        <5>1. at'[q] = "loginMatch" => loc'[q].password = loc[q].row.password
          BY <3>1, <3>3, <3>5, <4>1
        <5>2. Fits(loc[r].email, loc[r].row.id, loc[r].row.version,
                   loc[r].row.password)'
          BY <2>1, <3>3, <3>4 DEF Fits, HasAccount
        <5>3. QED
          BY <3>1, <3>3, <3>6, <4>1, <5>1, <5>2
      <4>2. CASE q # r
        BY <2>1, <3>1, <4>2 DEF SessionInv, Fits, HasAccount
      <4>3. QED
        BY <4>1, <4>2
    <3>10. QED
      BY <3>7, <3>8, <3>9 DEF SessionInv
  <2>4. QED
    BY <1>5, <2>2, <2>3 DEF CompareLogin
<1>2. ASSUME RecordFailedLogin(r) PROVE SessionInv'
  <2>1. AccountsMove
    <3>1. CASE users[loc[r].email] = NoUser
      BY <1>2, <3>1, TableMoves DEF RecordFailedLogin
    <3>2. CASE users[loc[r].email] # NoUser
      <4>1. users[loc[r].email] \in UserRow
        BY <3>2, LocalTypes DEF TypeOK
      <4>2. PICK now : users' = [users EXCEPT ![loc[r].email] =
                                             FailureRecorded(@, now)]
        BY <1>2, <3>2 DEF RecordFailedLogin
      <4>3. QED
        BY <1>2, <4>1, <4>2
           DEF RecordFailedLogin, AccountsMove, FailureRecorded, UserRow, TypeOK
    <3>3. QED
      BY <3>1, <3>2
  <2>2. NoNewLogin /\ NewTokensFit
    BY <1>2, SlotMoves, TableMoves DEF RecordFailedLogin, Answer, InLogin
  <2>3. QED
    BY <2>1, <2>2, StepKeepsSessions
<1>3. ASSUME AcceptLogin(r) PROVE SessionInv'
  <2> DEFINE e == loc[r].email  row == loc[r].row
  <2>1. e \in Emails /\ row \in UserRow
    BY <1>3, LocalTypes DEF AcceptLogin, Answer, TypeOK
  <2>2. AccountsMove
    <3>1. CASE UNCHANGED users
      BY <1>3, <3>1, TableMoves DEF AcceptLogin
    <3>2. CASE users[e] # NoUser /\ users' = [users EXCEPT ![e] = FailuresReset(@)]
      <4>1. users[e] \in UserRow
        BY <2>1, <3>2 DEF TypeOK
      <4>2. QED
        BY <1>3, <3>2, <4>1
           DEF AcceptLogin, AccountsMove, FailuresReset, UserRow, TypeOK
    <3>3. QED
      BY <1>3, <3>1, <3>2 DEF AcceptLogin
  <2>3. NoNewLogin
    BY <1>3, SlotMoves DEF AcceptLogin, Answer, InLogin
  <2>4. NewTokensFit
    <3>1. PICK l : l = loc[r]
      OBVIOUS
    <3>2. /\ l.email \in Emails /\ l.row.id \in Nat /\ l.row.version \in Nat
          /\ Fits(l.email, l.row.id, l.row.version, l.password)
      BY <1>3, <2>1, <3>1 DEF SessionInv, AcceptLogin, Answer, UserRow
    <3>3. Fits(l.email, l.row.id, l.row.version, l.password)'
      BY <2>2, <3>2, FitsPreserved
    <3>4. tokens' = tokens \cup {TokenFor(l.row, l.email, l.password)}
      BY <1>3, <3>1 DEF AcceptLogin
    <3>5. QED
      BY <3>3, <3>4 DEF NewTokensFit, TokenFor
  <2>5. QED
    BY <2>2, <2>3, <2>4, StepKeepsSessions
<1>4. QED
  BY <1>1, <1>2, <1>3, <1>5 DEF LoginStep

(* Steps that leave users, tokens and the id counter alone.                *)
LEMMA OtherStepsKeepSessions ==
  ASSUME TypeOK, TypeOK', SessionInv, UNCHANGED <<users, lastId, tokens>>,
         NoNewLogin
  PROVE  SessionInv'
BY TableMoves, StepKeepsSessions

LEMMA CodeKeepsSessions ==
  ASSUME TypeOK, TypeOK', SessionInv, NEW r \in Requests, CodeStep(r)
  PROVE  SessionInv'
<1>1. UNCHANGED <<users, lastId, tokens>>
  BY DEF CodeStep, SendVerificationCode, IssueCode, DeliverCode, VerifyCode,
         RecordFailedAttempt, tables
<1>2. NoNewLogin
  <2>1. ASSUME IssueCode(r) PROVE NoNewLogin
    <3>1. CASE Finish(r)
      BY <3>1, SlotMoves DEF InLogin
    <3>2. CASE /\ GoOn(r, "sendAllowed", "sendMailing")
               /\ loc' = [loc EXCEPT ![r].code = Len(sent) + 1]
      BY <3>2 DEF GoOn, NoNewLogin, TypeOK, InLogin
    <3>3. QED
      BY <2>1, <3>1, <3>2 DEF IssueCode
  <2>2. QED
    BY <2>1, SlotMoves
       DEF CodeStep, SendVerificationCode, DeliverCode, VerifyCode,
           RecordFailedAttempt, Answer, InLogin
<1>3. QED
  BY <1>1, <1>2, OtherStepsKeepSessions

LEMMA RegisterKeepsSessions ==
  ASSUME TypeOK, TypeOK', SessionInv, NEW r \in Requests, RegisterStep(r)
  PROVE  SessionInv'
<1>1. ASSUME NEW e \in Emails, NEW p \in Passwords, NEW code,
             Register(r, e, p, code)
      PROVE  SessionInv'
  <2>1. Verified(<<e, "register">>, code, "registerVerified") \notin InLogin
    BY DEF Verified, InLogin
  <2>2. NoNewLogin
    BY <1>1, <2>1, SlotMoves DEF Register
  <2>3. QED
    BY <1>1, <2>2, OtherStepsKeepSessions DEF Register, tables
<1>2. ASSUME SaveVerifiedUser(r) PROVE SessionInv'
  <2> DEFINE e   == loc[r].email
             row == NewAccount(lastId + 1, loc[r].password)
  <2>1. NoNewLogin
    BY <1>2, SlotMoves DEF SaveVerifiedUser, Answer, InLogin
  <2>2. CASE UNCHANGED tables
    BY <2>1, <2>2, OtherStepsKeepSessions DEF tables
  <2>3. CASE /\ users[e] = NoUser
             /\ users' = [users EXCEPT ![e] = row]
             /\ lastId' = lastId + 1
             /\ tokens' = tokens \cup {TokenFor(row, e, row.password)}
    <3>1. PICK l, made : l = loc[r] /\ made = row
      OBVIOUS
    <3>2. l.email \in Emails /\ users'[l.email] = made
      BY <2>3, <3>1, LocalTypes DEF TypeOK
    <3>3. lastId + 1 \in Nat /\ made.id = lastId + 1
      BY <3>1 DEF TypeOK, NewAccount
    <3>4. made \in UserRow
      BY <3>2, <3>1 DEF TypeOK, NewAccount, UserRow, NoLock, Locals
    <3>5. AccountsMove
      BY <2>3, <3>1, <3>3 DEF AccountsMove, TypeOK
    <3>6. NewTokensFit
      <4>1. tokens' = tokens \cup {TokenFor(made, l.email, made.password)}
        BY <2>3, <3>1
      <4>2. made.id <= lastId'
        BY <2>3, <3>3
      <4>3. QED
        BY <3>2, <3>4, <4>1, <4>2, FreshTokenFits
    <3>7. QED
      BY <2>1, <3>5, <3>6, StepKeepsSessions
  <2>4. QED
    BY <1>2, <2>2, <2>3 DEF SaveVerifiedUser, tables
<1>3. QED
  BY <1>1, <1>2 DEF RegisterStep

(* ResetVerifiedPassword and ChangePassword store PasswordUpdated rows.    *)
LEMMA PasswordMoves ==
  ASSUME TypeOK, NEW e \in Emails, NEW pw \in Passwords, users[e] # NoUser,
         users' = [users EXCEPT ![e] = PasswordUpdated(@, pw)],
         UNCHANGED lastId
  PROVE  AccountsMove
<1>1. users[e] \in UserRow
  BY DEF TypeOK
<1>2. QED
  BY <1>1 DEF AccountsMove, PasswordUpdated, UserRow, TypeOK

LEMMA ForgotKeepsSessions ==
  ASSUME TypeOK, TypeOK', SessionInv, NEW r \in Requests, ForgotStep(r)
  PROVE  SessionInv'
<1>1. ASSUME NEW e \in Emails, NEW code, ForgotPassword(r, e, code)
      PROVE  SessionInv'
  BY <1>1, SlotMoves, OtherStepsKeepSessions
     DEF ForgotPassword, tables, InLogin
<1>2. ASSUME ForgotVerify(r) PROVE SessionInv'
  <2>1. Verified(<<loc[r].email, "forgot">>, loc[r].code, "forgotVerified")
          \notin InLogin
    BY DEF Verified, InLogin
  <2>2. NoNewLogin
    BY <1>2, <2>1, SlotMoves DEF ForgotVerify
  <2>3. QED
    BY <1>2, <2>2, OtherStepsKeepSessions DEF ForgotVerify, tables
<1>3. ASSUME NEW p \in Passwords, ResetVerifiedPassword(r, p)
      PROVE  SessionInv'
  <2> DEFINE e == loc[r].email
  <2>1. UNCHANGED <<tokens, lastId>>
    BY <1>3 DEF ResetVerifiedPassword
  <2>2. NoNewLogin
    BY <1>3, SlotMoves DEF ResetVerifiedPassword, InLogin
  <2>3. CASE UNCHANGED users
    BY <2>1, <2>2, <2>3, OtherStepsKeepSessions
  <2>4. CASE /\ users[e] # NoUser
             /\ users' = [users EXCEPT ![e] = PasswordUpdated(@, p)]
    <3>1. AccountsMove
      <4>1. PICK x \in Emails : x = e
        BY LocalTypes
      <4>2. QED
        BY <2>1, <2>4, <4>1, PasswordMoves
    <3>2. QED
      BY <2>1, <2>2, <3>1, TableMoves, StepKeepsSessions
  <2>5. QED
    BY <1>3, <2>3, <2>4 DEF ResetVerifiedPassword
<1>4. ASSUME NEW delivered \in BOOLEAN, MailTemporaryPassword(r, delivered)
      PROVE  SessionInv'
  BY <1>4, SlotMoves, OtherStepsKeepSessions
     DEF MailTemporaryPassword, Answer, tables, InLogin
<1>5. QED
  BY <1>1, <1>2, <1>3, <1>4 DEF ForgotStep

LEMMA AccountKeepsSessions ==
  ASSUME TypeOK, TypeOK', SessionInv, NEW r \in Requests, AccountStep(r)
  PROVE  SessionInv'
<1>1. ASSUME NEW t \in tokens, NEW p \in Passwords, NEW q \in Passwords,
             AuthorizeChange(r, t, p, q) \/ AuthorizeDelete(r, t, p)
      PROVE  SessionInv'
  BY <1>1, SlotMoves, OtherStepsKeepSessions
     DEF AuthorizeChange, AuthorizeDelete, tables, InLogin
<1>2. ASSUME CheckCurrentPassword(r) \/ CheckAccount(r) PROVE SessionInv'
  BY <1>2, SlotMoves, OtherStepsKeepSessions
     DEF CheckCurrentPassword, CheckAccount, tables, InLogin
<1>3. ASSUME ChangePassword(r) PROVE SessionInv'
  <2> DEFINE e   == loc[r].email
             pw  == loc[r].newPassword
             row == PasswordUpdated(users[e], pw)
  <2>1. NoNewLogin /\ UNCHANGED lastId
    BY <1>3, SlotMoves DEF ChangePassword, Answer, InLogin
  <2>2. CASE UNCHANGED <<users, tokens>>
    BY <2>1, <2>2, OtherStepsKeepSessions
  <2>3. CASE /\ users[e] # NoUser
             /\ users' = [users EXCEPT ![e] = row]
             /\ tokens' = tokens \cup {TokenFor(row, e, row.password)}
    <3>1. PICK x, q, made : /\ x \in Emails /\ q \in Passwords
                            /\ x = e /\ q = pw /\ made = row
      BY LocalTypes
    <3>2. users[x] \in UserRow /\ users[x].id <= lastId
      BY <2>3, <3>1 DEF TypeOK, SessionInv
    <3>3. made \in UserRow /\ made.id = users[x].id
      BY <3>1, <3>2, RowTypes, 0 \in Nat DEF PasswordUpdated, UserRow
    <3>4. AccountsMove
      BY <2>1, <2>3, <3>1, PasswordMoves
    <3>5. NewTokensFit
      <4>1. x \in Emails /\ users'[x] = made /\ made.id <= lastId'
        BY <2>1, <2>3, <3>1, <3>2, <3>3 DEF TypeOK
      <4>2. tokens' = tokens \cup {TokenFor(made, x, made.password)}
        BY <2>3, <3>1
      <4>3. QED
        BY <3>3, <4>1, <4>2, FreshTokenFits
    <3>6. QED
      BY <2>1, <3>4, <3>5, StepKeepsSessions
  <2>4. QED
    BY <1>3, <2>2, <2>3 DEF ChangePassword
<1>4. ASSUME DeleteAccount(r) PROVE SessionInv'
  <2>1. NoNewLogin /\ UNCHANGED <<tokens, lastId>>
    BY <1>4, SlotMoves DEF DeleteAccount, Answer, InLogin
  <2>2. AccountsMove
    BY <1>4, <2>1 DEF DeleteAccount, AccountsMove, TypeOK
  <2>3. QED
    BY <2>1, <2>2, TableMoves, StepKeepsSessions
<1>5. QED
  BY <1>1, <1>2, <1>3, <1>4 DEF AccountStep

LEMMA InitSessions == Init => SessionInv
BY DEF Init, SessionInv

LEMMA NextSessions ==
  TypeOK /\ TypeOK' /\ SessionInv /\ [Next]_vars => SessionInv'
<1> SUFFICES ASSUME TypeOK, TypeOK', SessionInv, [Next]_vars
             PROVE  SessionInv'
  OBVIOUS
<1>1. ASSUME NEW r \in Requests, Abort(r) PROVE SessionInv'
  BY <1>1, SlotMoves, OtherStepsKeepSessions DEF Abort, tables, InLogin
<1>2. CASE Tick \/ UNCHANGED vars
  <2>1. UNCHANGED <<users, lastId, tokens, at, loc>>
    BY <1>2 DEF Tick, vars, tables
  <2>2. QED
    BY <2>1, OtherStepsKeepSessions DEF NoNewLogin
<1>3. QED
  BY <1>1, <1>2, LoginKeepsSessions, CodeKeepsSessions, RegisterKeepsSessions,
     ForgotKeepsSessions, AccountKeepsSessions DEF Next

LEMMA SessionsFit ==
  ASSUME TypeOK, SessionInv
  PROVE  AcceptedSessionProvesPassword
BY DEF AcceptedSessionProvesPassword, SessionInv, Accepted, Fits, HasAccount

(* In every reachable state, a session that RequireAuth accepts belongs to *)
(* the account stored at its address and was earned with the password that *)
(* account has now, however logins, password changes, recoveries,          *)
(* deletions and re-registrations interleave.                              *)
THEOREM SessionsProvePassword == Spec => []AcceptedSessionProvesPassword
<1>1. Init => TypeOK /\ SessionInv
  BY InitTypes, InitSessions
<1>2. TypeOK /\ SessionInv /\ [Next]_vars => (TypeOK /\ SessionInv)'
  BY NextTypes, NextSessions
<1>3. TypeOK /\ SessionInv => AcceptedSessionProvesPassword
  BY SessionsFit
<1>4. QED
  BY <1>1, <1>2, <1>3, PTL DEF Spec

-------------------------------------------------------------------------------
(* Locks and guesses.  RecordFailedLogin apart, a step keeps the failures  *)
(* and the lock of an account, clears both, or removes the account.        *)

FailuresMove ==
  \A e \in Emails :
    \/ users'[e] = NoUser
    \/ /\ users[e] # NoUser
       /\ users'[e].failed = users[e].failed
       /\ users'[e].lockedUntil = users[e].lockedUntil
    \/ /\ users'[e].failed = 0
       /\ users'[e].lockedUntil = NoLock

LEMMA KeptFailures == UNCHANGED users => FailuresMove
BY DEF FailuresMove

(* A password change or a reset of the counter clears failures and lock.   *)
LEMMA ClearedFailures ==
  ASSUME TypeOK, NEW e \in Emails, users[e] # NoUser,
         \/ users' = [users EXCEPT ![e] = FailuresReset(@)]
         \/ \E pw : users' = [users EXCEPT ![e] = PasswordUpdated(@, pw)]
  PROVE  FailuresMove
<1>1. users[e] \in UserRow
  BY DEF TypeOK
<1>2. CASE users' = [users EXCEPT ![e] = FailuresReset(@)]
  BY <1>1, <1>2 DEF FailuresMove, FailuresReset, UserRow, TypeOK
<1>3. ASSUME NEW pw, users' = [users EXCEPT ![e] = PasswordUpdated(@, pw)]
      PROVE  FailuresMove
  BY <1>1, <1>3 DEF FailuresMove, PasswordUpdated, UserRow, TypeOK
<1>4. QED
  BY <1>2, <1>3

LEMMA LoginMovesFailures ==
  ASSUME TypeOK, NEW r \in Requests, AcceptLogin(r)
  PROVE  FailuresMove /\ NoNewLogin
<1>1. NoNewLogin
  BY SlotMoves DEF AcceptLogin, Answer, InLogin
<1>2. FailuresMove
  BY LocalTypes, KeptFailures, ClearedFailures DEF AcceptLogin
<1>3. QED
  BY <1>1, <1>2

LEMMA CodeMovesFailures ==
  ASSUME TypeOK, NEW r \in Requests, CodeStep(r)
  PROVE  FailuresMove /\ NoNewLogin
<1>1. UNCHANGED users
  BY DEF CodeStep, SendVerificationCode, IssueCode, DeliverCode, VerifyCode,
         RecordFailedAttempt, tables
<1>2. ASSUME IssueCode(r) PROVE NoNewLogin
  <2>1. CASE Finish(r)
    BY <2>1, SlotMoves DEF InLogin
  <2>2. CASE /\ GoOn(r, "sendAllowed", "sendMailing")
             /\ loc' = [loc EXCEPT ![r].code = Len(sent) + 1]
    BY <2>2 DEF GoOn, NoNewLogin, InLogin, TypeOK
  <2>3. QED
    BY <1>2, <2>1, <2>2 DEF IssueCode
<1>3. NoNewLogin
  BY <1>2, SlotMoves
     DEF CodeStep, SendVerificationCode, DeliverCode, VerifyCode,
         RecordFailedAttempt, Answer, InLogin
<1>4. QED
  BY <1>1, <1>3, KeptFailures

LEMMA RegisterMovesFailures ==
  ASSUME TypeOK, NEW r \in Requests, RegisterStep(r)
  PROVE  FailuresMove /\ NoNewLogin
<1>1. ASSUME NEW e \in Emails, NEW p \in Passwords, NEW code,
             Register(r, e, p, code)
      PROVE  FailuresMove /\ NoNewLogin
  <2>1. Verified(<<e, "register">>, code, "registerVerified") \notin InLogin
    BY DEF Verified, InLogin
  <2>2. QED
    BY <1>1, <2>1, SlotMoves, KeptFailures DEF Register, tables
<1>2. ASSUME SaveVerifiedUser(r) PROVE FailuresMove /\ NoNewLogin
  <2>1. NoNewLogin
    BY <1>2, SlotMoves DEF SaveVerifiedUser, Answer, InLogin
  <2>2. CASE UNCHANGED users
    BY <2>1, <2>2, KeptFailures
  <2>3. CASE users' = [users EXCEPT ![loc[r].email] =
                         NewAccount(lastId + 1, loc[r].password)]
    BY <2>1, <2>3 DEF FailuresMove, NewAccount, TypeOK
  <2>4. QED
    BY <1>2, <2>2, <2>3 DEF SaveVerifiedUser, tables
<1>3. QED
  BY <1>1, <1>2 DEF RegisterStep

LEMMA ForgotMovesFailures ==
  ASSUME TypeOK, NEW r \in Requests, ForgotStep(r)
  PROVE  FailuresMove /\ NoNewLogin
<1>1. ASSUME NEW e \in Emails, NEW code, ForgotPassword(r, e, code)
      PROVE  FailuresMove /\ NoNewLogin
  BY <1>1, SlotMoves, KeptFailures DEF ForgotPassword, tables, InLogin
<1>2. ASSUME ForgotVerify(r) PROVE FailuresMove /\ NoNewLogin
  <2>1. Verified(<<loc[r].email, "forgot">>, loc[r].code, "forgotVerified")
          \notin InLogin
    BY DEF Verified, InLogin
  <2>2. QED
    BY <1>2, <2>1, SlotMoves, KeptFailures DEF ForgotVerify, tables
<1>3. ASSUME NEW p \in Passwords, ResetVerifiedPassword(r, p)
      PROVE  FailuresMove /\ NoNewLogin
  <2>1. NoNewLogin
    BY <1>3, SlotMoves DEF ResetVerifiedPassword, InLogin
  <2>2. CASE UNCHANGED users
    BY <2>1, <2>2, KeptFailures
  <2>3. CASE /\ users[loc[r].email] # NoUser
             /\ users' = [users EXCEPT ![loc[r].email] =
                            PasswordUpdated(users[loc[r].email], p)]
    BY <2>1, <2>3, LocalTypes, ClearedFailures
  <2>4. QED
    BY <1>3, <2>2, <2>3 DEF ResetVerifiedPassword
<1>4. ASSUME NEW delivered, MailTemporaryPassword(r, delivered)
      PROVE  FailuresMove /\ NoNewLogin
  BY <1>4, SlotMoves, KeptFailures
     DEF MailTemporaryPassword, Answer, tables, InLogin
<1>5. QED
  BY <1>1, <1>2, <1>3, <1>4 DEF ForgotStep

LEMMA AccountMovesFailures ==
  ASSUME TypeOK, NEW r \in Requests, AccountStep(r)
  PROVE  FailuresMove /\ NoNewLogin
<1>1. ASSUME NEW t \in tokens, NEW p \in Passwords, NEW q \in Passwords,
             AuthorizeChange(r, t, p, q) \/ AuthorizeDelete(r, t, p)
      PROVE  FailuresMove /\ NoNewLogin
  BY <1>1, SlotMoves, KeptFailures
     DEF AuthorizeChange, AuthorizeDelete, tables, InLogin
<1>2. ASSUME CheckCurrentPassword(r) \/ CheckAccount(r)
      PROVE  FailuresMove /\ NoNewLogin
  BY <1>2, SlotMoves, KeptFailures
     DEF CheckCurrentPassword, CheckAccount, tables, InLogin
<1>3. ASSUME ChangePassword(r) PROVE FailuresMove /\ NoNewLogin
  BY <1>3, LocalTypes, SlotMoves, KeptFailures, ClearedFailures
     DEF ChangePassword, Answer, InLogin
<1>4. ASSUME DeleteAccount(r) PROVE FailuresMove /\ NoNewLogin
  BY <1>4, SlotMoves
     DEF DeleteAccount, Answer, FailuresMove, TypeOK, InLogin
<1>5. QED
  BY <1>1, <1>2, <1>3, <1>4 DEF AccountStep

LEMMA FailureSteps ==
  ASSUME TypeOK, [Next]_vars
  PROVE  \/ FailuresMove /\ NoNewLogin /\ clock' = clock
         \/ Tick
         \/ \E r \in Requests, e \in Emails, p \in Passwords : Login(r, e, p)
         \/ \E r \in Requests : CompareLogin(r)
         \/ \E r \in Requests : RecordFailedLogin(r)
<1>1. ASSUME NEW r \in Requests, Abort(r)
      PROVE  FailuresMove /\ NoNewLogin
  BY <1>1, SlotMoves, KeptFailures DEF Abort, tables, InLogin
<1>2. CASE UNCHANGED vars
  BY SMTT(30), <1>2, KeptFailures DEF vars, tables, NoNewLogin
<1>3. ASSUME ~Tick PROVE clock' = clock
  BY <1>3 DEF Next, vars, LoginStep, Login, CompareLogin, RecordFailedLogin,
     AcceptLogin,
     CodeStep, SendVerificationCode, IssueCode, DeliverCode, VerifyCode,
     RecordFailedAttempt, RegisterStep, Register, SaveVerifiedUser,
     ForgotStep, ForgotPassword, ForgotVerify, ResetVerifiedPassword,
     MailTemporaryPassword, AccountStep, AuthorizeChange,
     CheckCurrentPassword, ChangePassword, AuthorizeDelete, CheckAccount,
     DeleteAccount, Abort
<1>4. QED
  BY <1>1, <1>2, <1>3, LoginMovesFailures, CodeMovesFailures,
     RegisterMovesFailures, ForgotMovesFailures, AccountMovesFailures
     DEF Next, LoginStep

LEMMA RecordedFailure ==
  ASSUME TypeOK, NEW r \in Requests, RecordFailedLogin(r)
  PROVE  \E now \in TimesOf(r) : \A e \in Emails :
           \/ e # loc[r].email /\ users'[e] = users[e]
           \/ users'[e] = NoUser
           \/ /\ e = loc[r].email
              /\ users[e] # NoUser
              /\ users'[e].failed = users[e].failed + 1
              /\ users'[e].lockedUntil =
                   IF users[e].failed + 1 >= MaxLoginAttempts
                   THEN now + LoginLockout ELSE users[e].lockedUntil
<1> DEFINE f == loc[r].email
<1>1. PICK now \in TimesOf(r) :
        users' = IF users[f] = NoUser THEN users
                 ELSE [users EXCEPT ![f] = FailureRecorded(@, now)]
  BY DEF RecordFailedLogin
<1>2. f \in Emails
  BY LocalTypes
<1>3. CASE users[f] = NoUser
  BY <1>1, <1>3
<1>4. CASE users[f] # NoUser
  <2>1. users[f] \in UserRow
    BY <1>2, <1>4 DEF TypeOK
  <2>2. /\ users'[f] = FailureRecorded(users[f], now)
        /\ \A e \in Emails \ {f} : users'[e] = users[e]
    BY <1>1, <1>2, <1>4 DEF TypeOK
  <2>3. QED
    BY <2>1, <2>2, <1>4 DEF FailureRecorded, UserRow
<1>5. QED
  BY <1>3, <1>4

LEMMA NextLocks ==
  TypeOK /\ LockMatchesFailures /\ [Next]_vars => LockMatchesFailures'
<1> SUFFICES ASSUME TypeOK, LockMatchesFailures, [Next]_vars,
                    NEW e \in Emails, users'[e] # NoUser
             PROVE  users'[e].failed >= MaxLoginAttempts
                      <=> users'[e].lockedUntil # NoLock
  BY DEF LockMatchesFailures
<1>1. CASE UNCHANGED users
  BY <1>1 DEF LockMatchesFailures
<1>2. CASE FailuresMove
  BY <1>2, AccountsAssumption DEF FailuresMove, LockMatchesFailures
<1>3. ASSUME NEW r \in Requests, RecordFailedLogin(r)
      PROVE  users'[e].failed >= MaxLoginAttempts
               <=> users'[e].lockedUntil # NoLock
  <2>1. PICK now \in TimesOf(r) :
          \/ e # loc[r].email /\ users'[e] = users[e]
          \/ users'[e] = NoUser
          \/ /\ e = loc[r].email
             /\ users[e] # NoUser
             /\ users'[e].failed = users[e].failed + 1
             /\ users'[e].lockedUntil =
                  IF users[e].failed + 1 >= MaxLoginAttempts
                  THEN now + LoginLockout ELSE users[e].lockedUntil
    BY <1>3, RecordedFailure
  <2>2. now \in Nat
    BY TimeTypes
  <2>3. users[e] # NoUser => users[e].failed \in Nat
    BY DEF TypeOK, UserRow
  <2>4. QED
    BY <2>1, <2>2, <2>3, AccountsAssumption DEF LockMatchesFailures, NoLock
<1>4. QED
  BY <1>1, <1>2, <1>3, FailureSteps DEF Tick, Login, CompareLogin, tables

(* No interleaving of logins, failures, resets, password changes and       *)
(* deletions leaves an account with failures at the limit and no lock, or  *)
(* with a lock and failures below it.                                      *)
THEOREM LocksMatchFailures == Spec => []LockMatchesFailures
<1>1. Init => TypeOK /\ LockMatchesFailures
  BY InitTypes DEF Init, LockMatchesFailures
<1>2. TypeOK /\ LockMatchesFailures /\ [Next]_vars
        => (TypeOK /\ LockMatchesFailures)'
  BY NextTypes, NextLocks
<1>3. QED
  BY <1>1, <1>2, PTL DEF Spec

-------------------------------------------------------------------------------
(* The times handlers take.                                                *)

TimesMove ==
  \A r \in Requests : loc'[r].since \in {loc[r].since, 0, clock}

LEMMA LocalTimes ==
  ASSUME TypeOK, NEW r \in Requests
  PROVE  /\ Finish(r) => TimesMove
         /\ UNCHANGED loc => TimesMove
         /\ loc' = [loc EXCEPT ![r].since = clock] => TimesMove
         /\ \A code \in Nat : loc' = [loc EXCEPT ![r].code = code] => TimesMove
         /\ \A step, locals : Take(r, step, locals)
                              /\ locals.since \in {0, clock} => TimesMove
<1>1. loc[r] \in Locals /\ clock \in Nat /\ loc \in [Requests -> Locals]
  BY DEF TypeOK
<1>2. Finish(r) => TimesMove
  BY <1>1 DEF Finish, TimesMove, Blank
<1>3. UNCHANGED loc => TimesMove
  BY DEF TimesMove
<1>4. loc' = [loc EXCEPT ![r].since = clock] => TimesMove
  BY <1>1 DEF TimesMove, Locals
<1>5. ASSUME NEW code \in Nat, loc' = [loc EXCEPT ![r].code = code]
      PROVE  TimesMove
  <2>1. [loc[r] EXCEPT !.code = code].since = loc[r].since
    BY <1>1 DEF Locals
  <2>2. QED
    BY <1>1, <1>5, <2>1 DEF TimesMove
<1>6. ASSUME NEW step, NEW locals, Take(r, step, locals),
             locals.since \in {0, clock}
      PROVE  TimesMove
  BY <1>1, <1>6 DEF Take, TimesMove
<1>7. QED
  BY <1>2, <1>3, <1>4, <1>5, <1>6

LEMMA StepTimes ==
  ASSUME TypeOK, NEW r \in Requests,
         \/ LoginStep(r) \/ CodeStep(r) \/ RegisterStep(r) \/ ForgotStep(r)
         \/ AccountStep(r) \/ Abort(r)
  PROVE  TimesMove
<1>1. CASE LoginStep(r)
  <2>1. ASSUME NEW e \in Emails, NEW p \in Passwords, Login(r, e, p)
        PROVE  TimesMove
    <3>1. [Blank EXCEPT !.email = e, !.password = p, !.row = users[e]].since = 0
      BY DEF Blank
    <3>2. QED
      BY <2>1, <3>1, LocalTimes DEF Login
  <2>2. QED
    BY <1>1, <2>1, LocalTimes
       DEF LoginStep, CompareLogin, RecordFailedLogin, AcceptLogin, Answer
<1>2. CASE CodeStep(r)
  <2>1. ASSUME NEW e \in Emails, NEW purpose \in Purposes,
               SendVerificationCode(r, e, purpose)
        PROVE  TimesMove
    <3>1. [Blank EXCEPT !.email = e, !.purpose = purpose,
                        !.since = clock].since = clock
      BY DEF Blank
    <3>2. QED
      BY <2>1, <3>1, LocalTimes DEF SendVerificationCode
  <2>2. ASSUME NEW e \in Emails, NEW purpose \in Purposes,
               NEW code \in CodesFor(e, purpose),
               VerifyCode(r, e, purpose, code)
        PROVE  TimesMove
    <3>1. [Blank EXCEPT !.email = e, !.purpose = purpose].since = 0
      BY DEF Blank
    <3>2. QED
      BY <2>2, <3>1, LocalTimes DEF VerifyCode
  <2>3. ASSUME IssueCode(r) PROVE TimesMove
    <3>1. Len(sent) + 1 \in Nat
      BY DEF TypeOK
    <3>2. Finish(r) \/ loc' = [loc EXCEPT ![r].code = Len(sent) + 1]
      BY <2>3 DEF IssueCode
    <3>3. QED
      BY <3>1, <3>2, LocalTimes
  <2>4. QED
    BY <1>2, <2>1, <2>2, <2>3, LocalTimes
       DEF CodeStep, DeliverCode, RecordFailedAttempt, Answer
<1>3. CASE RegisterStep(r)
  <2>1. ASSUME NEW e \in Emails, NEW p \in Passwords,
               NEW code \in CodesFor(e, "register"), Register(r, e, p, code)
        PROVE  TimesMove
    <3>1. [Blank EXCEPT !.email = e, !.password = p, !.code = code,
                        !.since = clock].since = clock
      BY DEF Blank
    <3>2. QED
      BY <2>1, <3>1, LocalTimes DEF Register
  <2>2. QED
    BY <1>3, <2>1, LocalTimes DEF RegisterStep, SaveVerifiedUser, Answer
<1>4. CASE ForgotStep(r)
  <2>1. ASSUME NEW e \in Emails, NEW code \in CodesFor(e, "forgot"),
               ForgotPassword(r, e, code)
        PROVE  TimesMove
    <3>1. [Blank EXCEPT !.email = e, !.purpose = "forgot",
                        !.code = code].since = 0
      BY DEF Blank
    <3>2. QED
      BY <2>1, <3>1, LocalTimes DEF ForgotPassword
  <2>2. QED
    BY <1>4, <2>1, LocalTimes
       DEF ForgotStep, ForgotVerify, ResetVerifiedPassword,
           MailTemporaryPassword, Answer
<1>5. CASE AccountStep(r)
  <2>1. ASSUME NEW t \in tokens, NEW p \in Passwords, NEW q \in Passwords,
               AuthorizeChange(r, t, p, q) \/ AuthorizeDelete(r, t, p)
        PROVE  TimesMove
    <3>1. /\ [Blank EXCEPT !.email = t.email, !.password = p,
                           !.newPassword = q].since = 0
          /\ [Blank EXCEPT !.email = t.email, !.id = t.id,
                           !.password = p].since = 0
      BY DEF Blank
    <3>2. QED
      BY <2>1, <3>1, LocalTimes DEF AuthorizeChange, AuthorizeDelete
  <2>2. QED
    BY <1>5, <2>1, LocalTimes
       DEF AccountStep, CheckCurrentPassword, ChangePassword, CheckAccount,
           DeleteAccount, Answer
<1>6. CASE Abort(r)
  BY <1>6, LocalTimes DEF Abort
<1>7. QED
  BY <1>1, <1>2, <1>3, <1>4, <1>5, <1>6

LEMMA NextTimes ==
  TypeOK /\ TimesArePast /\ [Next]_vars => TimesArePast'
<1> SUFFICES ASSUME TypeOK, TimesArePast, [Next]_vars PROVE TimesArePast'
  OBVIOUS
<1>1. clock \in Nat /\ clock' \in Nat /\ clock <= clock'
  <2>1. clock' = clock \/ clock' = clock + 1
    BY FailureSteps DEF Tick, Login, CompareLogin, RecordFailedLogin
  <2>2. clock \in Nat
    BY DEF TypeOK
  <2>3. QED
    BY <2>1, <2>2
<1>2. TimesMove
  BY StepTimes DEF Next, Tick, vars, TimesMove
<1>3. \A r \in Requests : loc[r].since \in Nat
  BY LocalTypes
<1>4. QED
  BY <1>1, <1>2, <1>3 DEF TimesMove, TimesArePast

LEMMA InitTimes == Init => TimesArePast
BY DEF Init, TimesArePast, Blank

-------------------------------------------------------------------------------
(* The number of guesses: first its arithmetic.                            *)

LEMMA UpToType ==
  ASSUME NEW n \in Int, n >= -1
  PROVE  UpTo(n) \in Nat
<1>1. n * (n + 1) >= 0 /\ n * (n + 1) \in Int
  OBVIOUS
<1> DEFINE x == n * (n + 1)
<1>2. x \in Nat
  BY <1>1
<1> HIDE DEF x
<1>3. x \div 2 \in Nat
  BY <1>2
<1>4. QED
  BY <1>3 DEF UpTo, x

LEMMA UpToNext ==
  ASSUME NEW n \in Nat
  PROVE  UpTo(n) = UpTo(n - 1) + n
<1> DEFINE x == (n - 1) * n
<1>1. n * (n + 1) = x + 2 * n /\ x \in Int
  OBVIOUS
<1>2. (n - 1) * ((n - 1) + 1) = x
  OBVIOUS
<1> HIDE DEF x
<1>3. (x + 2 * n) \div 2 = x \div 2 + n
  BY <1>1
<1>4. QED
  BY <1>1, <1>2, <1>3 DEF UpTo

LEMMA UpToGrows ==
  ASSUME NEW m \in Int, NEW n \in Int, -1 <= m, m <= n
  PROVE  UpTo(m) <= UpTo(n)
<1>1. m * (m + 1) <= n * (n + 1)
  <2>1. CASE m = n
    BY <2>1
  <2>2. CASE m < n
    <3>1. n \in Nat /\ m + 1 \in Nat /\ m <= n /\ m + 1 <= n
      BY <2>2
    <3>2. m * (m + 1) <= n * (m + 1)
      BY <3>1
    <3>3. n * (m + 1) <= n * (n + 1)
      BY <3>1
    <3>4. QED
      BY <3>2, <3>3
  <2>3. QED
    BY <2>1, <2>2
<1> DEFINE x == m * (m + 1)  y == n * (n + 1)
<1>2. x \in Int /\ y \in Int /\ x <= y
  BY <1>1
<1> HIDE DEF x, y
<1>3. x \div 2 <= y \div 2
  BY <1>2
<1>4. QED
  BY <1>3 DEF UpTo, x, y

(* GuessesFit as a relation of numbers: the failures, the lock, the period *)
(* of the clock, the stragglers and the others.                            *)
Earlier(w) ==
  LET R == Cardinality(Requests) IN
  MaxLoginAttempts - 1 + R + w * UpTo(R) - UpTo(R)

WithinLimit(failed, lock, w, s, f) ==
  LET R == Cardinality(Requests) IN
  failed >= MaxLoginAttempts =>
    /\ failed + s + f <= Earlier(w) + UpTo(R - s)
    /\ lock < w * LoginLockout + LoginLockout =>
         failed + s <= Earlier(w) + UpTo(R - s - 1)

LEMMA RequestsCount == Cardinality(Requests) \in Nat \ {0}
BY AuthApiAssumption, FS_CardinalityType, FS_EmptySet

LEMMA EarlierTypes ==
  ASSUME NEW w \in Nat
  PROVE  /\ Earlier(w) \in Int
         /\ Earlier(w + 1) = Earlier(w) + UpTo(Cardinality(Requests))
         /\ w >= 1 =>
              Earlier(w) >= MaxLoginAttempts - 1 + Cardinality(Requests)
         /\ w = 0 =>
              Earlier(w) + UpTo(Cardinality(Requests))
                = MaxLoginAttempts - 1 + Cardinality(Requests)
<1> DEFINE R == Cardinality(Requests)  u == UpTo(R)
<1>1. R \in Nat /\ u \in Nat
  BY RequestsCount, UpToType
<1> HIDE DEF R, u
<1>2. /\ w * u \in Nat
      /\ (w + 1) * u = w * u + u
      /\ w >= 1 => w * u >= u
      /\ w = 0 => w * u = 0
  BY <1>1
<1> DEFINE x == w * u  y == (w + 1) * u
<1>3. x \in Nat /\ y = x + u /\ (w >= 1 => x >= u) /\ (w = 0 => x = 0)
  BY <1>2
<1>4. /\ Earlier(w) = MaxLoginAttempts - 1 + R + x - u
      /\ Earlier(w + 1) = MaxLoginAttempts - 1 + R + y - u
  BY DEF Earlier, R, u
<1> HIDE DEF x, y
<1>5. QED
  BY <1>1, <1>3, <1>4, AccountsAssumption DEF R, u

(* Fewer requests in flight.                                               *)
LEMMA FitFewer ==
  ASSUME NEW n \in Nat, NEW lock \in Nat, NEW w \in Nat,
         NEW s \in Nat, NEW f \in Nat, NEW t \in Nat, NEW g \in Nat,
         t <= s, g <= f, s + f <= Cardinality(Requests), WithinLimit(n, lock, w, s, f)
  PROVE  WithinLimit(n, lock, w, t, g)
<1> DEFINE R == Cardinality(Requests)
<1>1. R \in Nat /\ Earlier(w) \in Int
  BY RequestsCount, EarlierTypes
<1>2. /\ UpTo(R - s) <= UpTo(R - t) /\ UpTo(R - s - 1) <= UpTo(R - t - 1)
      /\ UpTo(R - s) \in Nat /\ UpTo(R - s - 1) \in Nat
      /\ UpTo(R - t) \in Nat /\ UpTo(R - t - 1) \in Nat
  BY <1>1, UpToGrows, UpToType
<1>3. QED
  BY <1>1, <1>2 DEF WithinLimit

(* A login reads an account whose lock ends in this period.                *)
LEMMA FitOpen ==
  ASSUME NEW n \in Nat, NEW lock \in Nat, NEW w \in Nat,
         NEW s \in Nat, NEW f \in Nat, s + f + 1 <= Cardinality(Requests),
         lock < w * LoginLockout + LoginLockout, WithinLimit(n, lock, w, s, f)
  PROVE  WithinLimit(n, lock, w, s, f + 1)
<1> DEFINE R == Cardinality(Requests)
<1>1. R \in Nat /\ Earlier(w) \in Int
  BY RequestsCount, EarlierTypes
<1>2. /\ UpTo(R - s) = UpTo(R - s - 1) + (R - s)
      /\ UpTo(R - s) \in Nat /\ UpTo(R - s - 1) \in Nat
  BY <1>1, UpToNext, UpToType
<1>3. QED
  BY <1>1, <1>2 DEF WithinLimit

(* A straggler's failure is recorded: its lock may end in this period.     *)
LEMMA FitStraggler ==
  ASSUME NEW n \in Nat, NEW lock \in Nat, NEW new \in Nat, NEW w \in Nat,
         NEW s \in Nat, NEW f \in Nat, s >= 1, w >= 1,
         s + f <= Cardinality(Requests), WithinLimit(n, lock, w, s, f)
  PROVE  WithinLimit(n + 1, new, w, s - 1, f)
<1> DEFINE R == Cardinality(Requests)
<1>1. /\ R \in Nat /\ Earlier(w) \in Int
      /\ Earlier(w) >= MaxLoginAttempts - 1 + R
  BY RequestsCount, EarlierTypes
<1>2. /\ UpTo(R - s) <= UpTo(R - (s - 1)) /\ R - (s - 1) - 1 = R - s
      /\ UpTo(R - s) \in Nat /\ UpTo(R - (s - 1)) \in Nat
  BY <1>1, UpToGrows, UpToType
<1>3. CASE n >= MaxLoginAttempts
  <2>1. n + s + f <= Earlier(w) + UpTo(R - s)
    BY <1>3 DEF WithinLimit
  <2>2. QED
    BY <1>1, <1>2, <2>1 DEF WithinLimit
<1>4. CASE n < MaxLoginAttempts
  <2>1. n + 1 >= MaxLoginAttempts => n + 1 = MaxLoginAttempts
    BY <1>4, AccountsAssumption
  <2>2. n + 1 >= MaxLoginAttempts => n + 1 + (s - 1) + f <= Earlier(w)
    BY <1>1, <2>1, AccountsAssumption
  <2>3. QED
    BY <1>1, <1>2, <2>2 DEF WithinLimit
<1>5. QED
  BY <1>3, <1>4, AccountsAssumption

(* Another failure is recorded: its lock outlasts the period.              *)
LEMMA FitFailure ==
  ASSUME NEW n \in Nat, NEW lock \in Nat, NEW new \in Nat, NEW w \in Nat,
         NEW s \in Nat, NEW f \in Nat, f >= 1, w = 0 => s = 0,
         s + f <= Cardinality(Requests),
         n + 1 >= MaxLoginAttempts => new >= w * LoginLockout + LoginLockout,
         WithinLimit(n, lock, w, s, f)
  PROVE  WithinLimit(n + 1, new, w, s, f - 1)
<1> DEFINE R == Cardinality(Requests)
<1>1. /\ R \in Nat /\ Earlier(w) \in Int
      /\ w >= 1 => Earlier(w) >= MaxLoginAttempts - 1 + R
      /\ w = 0 => Earlier(w) + UpTo(R) = MaxLoginAttempts - 1 + R
  BY RequestsCount, EarlierTypes
<1>2. UpTo(R - s) \in Nat /\ UpTo(R) \in Nat /\ (s = 0 => R - s = R)
  BY <1>1, UpToType
<1>3. w * LoginLockout + LoginLockout \in Nat
  <2>1. w * LoginLockout \in Nat
    BY AccountsAssumption
  <2>2. QED
    BY <2>1, AccountsAssumption
<1>4. CASE n >= MaxLoginAttempts
  <2>1. n + s + f <= Earlier(w) + UpTo(R - s)
    BY <1>4 DEF WithinLimit
  <2>2. n + 1 + s + (f - 1) <= Earlier(w) + UpTo(R - s)
    BY <2>1
  <2> DEFINE end == w * LoginLockout + LoginLockout
  <2>3. end \in Nat /\ new >= end /\ ~(new < end)
    BY <1>3, <1>4, AccountsAssumption
  <2>4. QED
    BY <2>2, <2>3 DEF WithinLimit
<1>5. CASE n < MaxLoginAttempts
  <2>1. n + 1 >= MaxLoginAttempts => n + 1 = MaxLoginAttempts
    BY <1>5, AccountsAssumption
  <2>2. Earlier(w) + UpTo(R - s) >= MaxLoginAttempts - 1 + R
    BY <1>1, <1>2, AccountsAssumption
  <2>3. n + 1 >= MaxLoginAttempts =>
          n + 1 + s + (f - 1) <= Earlier(w) + UpTo(R - s)
    BY <1>1, <1>2, <2>1, <2>2, AccountsAssumption
  <2> DEFINE end == w * LoginLockout + LoginLockout
  <2>4. n + 1 >= MaxLoginAttempts => ~(new < end)
    BY <1>3
  <2>5. QED
    BY <2>3, <2>4 DEF WithinLimit
<1>6. QED
  BY <1>4, <1>5, AccountsAssumption

(* The next period begins: those that compare become its stragglers.       *)
LEMMA FitNextPeriod ==
  ASSUME NEW n \in Nat, NEW lock \in Nat, NEW w \in Nat,
         NEW s \in Nat, NEW f \in Nat, NEW t \in Nat, NEW g \in Nat,
         s + f <= Cardinality(Requests), t + g <= Cardinality(Requests),
         t <= s + f, WithinLimit(n, lock, w, s, f)
  PROVE  WithinLimit(n, lock, w + 1, t, g)
<1> DEFINE R == Cardinality(Requests)
<1>1. /\ R \in Nat /\ Earlier(w) \in Int /\ Earlier(w + 1) \in Int
      /\ Earlier(w + 1) = Earlier(w) + UpTo(R)
  BY RequestsCount, EarlierTypes
<1>2. /\ UpTo(R - s) <= UpTo(R)
      /\ UpTo(R - t) = UpTo(R - t - 1) + (R - t)
      /\ UpTo(R - s) \in Nat /\ UpTo(R) \in Nat
      /\ UpTo(R - t) \in Nat /\ UpTo(R - t - 1) \in Nat
  <2>1. R - s \in Nat /\ R - t \in Nat /\ R - t - 1 \in Int /\ R - t - 1 >= -1
        /\ R - s <= R
    BY <1>1
  <2>2. UpTo(R - s) <= UpTo(R)
    BY <1>1, <2>1, UpToGrows
  <2>3. UpTo(R - t) = UpTo(R - t - 1) + (R - t)
    BY <2>1, UpToNext
  <2>4. UpTo(R - s) \in Nat /\ UpTo(R) \in Nat
    BY <1>1, <2>1, UpToType
  <2>5. UpTo(R - t) \in Nat /\ UpTo(R - t - 1) \in Nat
    BY <1>1, <2>1, UpToType
  <2>6. QED
    BY <2>2, <2>3, <2>4, <2>5
<1>3. CASE n >= MaxLoginAttempts
  <2>1. n + s + f <= Earlier(w) + UpTo(R - s)
    BY <1>3 DEF WithinLimit
  <2>2. n + t <= Earlier(w + 1)
    BY <1>1, <1>2, <2>1
  <2>3. n + t + g <= Earlier(w + 1) + UpTo(R - t)
    BY <1>1, <1>2, <2>2
  <2>4. n + t <= Earlier(w + 1) + UpTo(R - t - 1)
    BY <1>1, <1>2, <2>2
  <2>5. QED
    BY <2>3, <2>4 DEF WithinLimit
<1>4. QED
  BY <1>3 DEF WithinLimit

(* What WithinLimit comes to.                                                      *)
LEMMA FitLimits ==
  ASSUME NEW n \in Nat, NEW lock \in Nat, NEW w \in Nat,
         NEW s \in Nat, NEW f \in Nat, NEW c \in Nat,
         s + f <= Cardinality(Requests), c <= s + f, WithinLimit(n, lock, w, s, f)
  PROVE  n + c <= MaxLoginAttempts - 1 + Cardinality(Requests)
                    + w * UpTo(Cardinality(Requests))
<1> DEFINE R == Cardinality(Requests)
<1>1. R \in Nat /\ UpTo(R) \in Nat /\ Earlier(w) \in Int
  BY RequestsCount, UpToType, EarlierTypes
<1> DEFINE x == w * UpTo(R)
<1>2. x \in Nat
  BY <1>1
<1>3. Earlier(w) + UpTo(R) = MaxLoginAttempts - 1 + R + x
  <2>1. Earlier(w) = MaxLoginAttempts - 1 + R + x - UpTo(R)
    BY DEF Earlier
  <2> HIDE DEF x
  <2>2. QED
    BY <1>1, <1>2, <2>1, AccountsAssumption
<1>4. UpTo(R - s) <= UpTo(R) /\ UpTo(R - s) \in Nat
  BY <1>1, UpToGrows, UpToType
<1> HIDE DEF x
<1>5. CASE n >= MaxLoginAttempts
  <2>1. n + s + f <= Earlier(w) + UpTo(R - s)
    BY <1>5 DEF WithinLimit
  <2>2. n + c <= MaxLoginAttempts - 1 + R + x
    BY <1>1, <1>2, <1>3, <1>4, <2>1, AccountsAssumption
  <2>3. QED
    BY <2>2 DEF x
<1>6. CASE n < MaxLoginAttempts
  <2>1. n + c <= MaxLoginAttempts - 1 + R + x
    BY <1>1, <1>2, <1>6, AccountsAssumption
  <2>2. QED
    BY <2>1 DEF x
<1>7. QED
  BY <1>5, <1>6, AccountsAssumption

(* The sets of slots GuessesFit counts.                                    *)
LEMMA SlotCounts ==
  ASSUME NEW A \in SUBSET Requests, NEW B \in SUBSET Requests
  PROVE  /\ IsFiniteSet(A) /\ Cardinality(A) \in Nat
         /\ Cardinality(A) <= Cardinality(Requests)
         /\ A \subseteq B => Cardinality(A) <= Cardinality(B)
         /\ A \cap B = {} =>
              /\ Cardinality(A \cup B) = Cardinality(A) + Cardinality(B)
              /\ Cardinality(A) + Cardinality(B) <= Cardinality(Requests)
<1>1. IsFiniteSet(A) /\ IsFiniteSet(B)
  BY AuthApiAssumption, FS_Subset
<1>2. Cardinality(A) \in Nat /\ Cardinality(A) <= Cardinality(Requests)
  BY <1>1, AuthApiAssumption, FS_Subset, FS_CardinalityType
<1>3. A \subseteq B => Cardinality(A) <= Cardinality(B)
  BY <1>1, FS_Subset
<1>4. ASSUME A \cap B = {}
      PROVE  /\ Cardinality(A \cup B) = Cardinality(A) + Cardinality(B)
             /\ Cardinality(A) + Cardinality(B) <= Cardinality(Requests)
  <2>1. Cardinality(A \cup B)
          = Cardinality(A) + Cardinality(B) - Cardinality(A \cap B)
    BY <1>1, FS_Union
  <2>2. Cardinality(A \cap B) = 0
    BY <1>4, FS_EmptySet
  <2>3. Cardinality(A \cup B) <= Cardinality(Requests)
    BY AuthApiAssumption, FS_Subset
  <2>4. Cardinality(A) \in Nat /\ Cardinality(B) \in Nat
    BY <1>1, FS_CardinalityType
  <2>5. QED
    BY <2>1, <2>2, <2>3, <2>4
<1>5. QED
  BY <1>1, <1>2, <1>3, <1>4

LEMMA GuessSets ==
  ASSUME NEW e
  PROVE  /\ Stragglers(e) \in SUBSET Requests
         /\ Guessing(e) \in SUBSET Requests
         /\ Stragglers(e) \cap Guessing(e) = {}
         /\ Comparing(e) \in SUBSET Requests
         /\ Comparing(e) \subseteq Stragglers(e) \cup Guessing(e)
BY DEF Stragglers, Guessing, Comparing

LEMMA GuessSetsNext ==
  ASSUME NEW e
  PROVE  /\ Stragglers(e)' \in SUBSET Requests
         /\ Guessing(e)' \in SUBSET Requests
         /\ Stragglers(e)' \cap Guessing(e)' = {}
BY DEF Stragglers, Guessing, Comparing

GuessFit(e) ==
  WithinLimit(users[e].failed, users[e].lockedUntil, clock \div LoginLockout,
              Cardinality(Stragglers(e)), Cardinality(Guessing(e)))

LEMMA GuessFitOf ==
  ASSUME NEW e
  PROVE  /\ GuessesFit(e) <=> (users[e] # NoUser => GuessFit(e))
         /\ GuessesFit(e)' <=> (users'[e] # NoUser => GuessFit(e)')
BY DEF GuessesFit, GuessFit, WithinLimit, Earlier, PeriodEnd, PeriodStart

LEMMA PeriodType ==
  ASSUME NEW c \in Nat
  PROVE  c \div LoginLockout \in Nat
BY AccountsAssumption

LEMMA GuessTypes ==
  ASSUME TypeOK, TypeOK', NEW e \in Emails, users[e] # NoUser
  PROVE  /\ users[e].failed \in Nat /\ users[e].lockedUntil \in Nat
         /\ users'[e] # NoUser =>
              users'[e].failed \in Nat /\ users'[e].lockedUntil \in Nat
         /\ clock \in Nat /\ clock \div LoginLockout \in Nat
         /\ clock' \in Nat /\ clock' \div LoginLockout \in Nat
         /\ Cardinality(Stragglers(e)) \in Nat
         /\ Cardinality(Guessing(e)) \in Nat
         /\ Cardinality(Stragglers(e)') \in Nat
         /\ Cardinality(Guessing(e)') \in Nat
         /\ Cardinality(Stragglers(e)) + Cardinality(Guessing(e))
              <= Cardinality(Requests)
         /\ Cardinality(Stragglers(e)') + Cardinality(Guessing(e)')
              <= Cardinality(Requests)
<1>1. /\ users[e].failed \in Nat /\ users[e].lockedUntil \in Nat
      /\ users'[e] # NoUser =>
           users'[e].failed \in Nat /\ users'[e].lockedUntil \in Nat
  BY DEF TypeOK, UserRow
<1>2. clock \in Nat /\ clock' \in Nat
  BY DEF TypeOK
<1>3. clock \div LoginLockout \in Nat /\ clock' \div LoginLockout \in Nat
  BY <1>2, PeriodType
<1>4. /\ Cardinality(Stragglers(e)) \in Nat
      /\ Cardinality(Guessing(e)) \in Nat
      /\ Cardinality(Stragglers(e)) + Cardinality(Guessing(e))
           <= Cardinality(Requests)
  BY GuessSets, SlotCounts
<1>5. /\ Cardinality(Stragglers(e)') \in Nat
      /\ Cardinality(Guessing(e)') \in Nat
      /\ Cardinality(Stragglers(e)') + Cardinality(Guessing(e)')
           <= Cardinality(Requests)
  BY GuessSetsNext, SlotCounts
<1>6. QED
  BY <1>1, <1>2, <1>3, <1>4, <1>5

(* A step in which failures only go and nobody comes or moves on.          *)
LEMMA FewerGuesses ==
  ASSUME TypeOK, TypeOK', NEW e \in Emails, users[e] # NoUser,
         GuessFit(e), clock' = clock,
         users'[e].failed = users[e].failed,
         users'[e].lockedUntil = users[e].lockedUntil, users'[e] # NoUser,
         Stragglers(e)' \subseteq Stragglers(e),
         Guessing(e)' \subseteq Guessing(e)
  PROVE  GuessFit(e)'
<1>1. /\ Cardinality(Stragglers(e)') <= Cardinality(Stragglers(e))
      /\ Cardinality(Guessing(e)') <= Cardinality(Guessing(e))
  BY GuessSets, GuessSetsNext, SlotCounts
<1>2. QED
  BY <1>1, GuessTypes, FitFewer DEF GuessFit

LEMMA OtherStepsKeepGuesses ==
  ASSUME TypeOK, TypeOK', FailuresMove, NoNewLogin, clock' = clock,
         NEW e \in Emails, GuessesFit(e)
  PROVE  GuessesFit(e)'
<1>1. SUFFICES ASSUME users'[e] # NoUser PROVE GuessFit(e)'
  BY GuessFitOf
<1>2. CASE users'[e].failed = 0
  BY <1>2, AccountsAssumption DEF GuessFit, WithinLimit
<1>3. CASE /\ users[e] # NoUser
           /\ users'[e].failed = users[e].failed
           /\ users'[e].lockedUntil = users[e].lockedUntil
  <2>1. GuessFit(e)
    BY <1>3, GuessFitOf
  <2>2. PeriodStart' = PeriodStart /\ PeriodEnd' = PeriodEnd
    BY DEF PeriodStart, PeriodEnd
  <2>3. /\ Stragglers(e)' \subseteq Stragglers(e)
        /\ Guessing(e)' \subseteq Guessing(e)
    BY <2>2 DEF NoNewLogin, InLogin, Stragglers, Guessing, Comparing
  <2>4. QED
    BY <1>1, <1>3, <2>1, <2>3, FewerGuesses
<1>4. QED
  BY <1>1, <1>2, <1>3 DEF FailuresMove

(* Time passes, within a lock period or into the next.                     *)
LEMMA TickKeepsGuesses ==
  ASSUME TypeOK, TypeOK', TimesArePast, Tick, NEW e \in Emails, GuessesFit(e)
  PROVE  GuessesFit(e)'
<1> DEFINE w == clock \div LoginLockout  v == clock' \div LoginLockout
<1>1. UNCHANGED <<users, at, loc>> /\ clock \in Nat /\ clock' = clock + 1
  BY DEF Tick, tables, TypeOK
<1>2. SUFFICES ASSUME users[e] # NoUser PROVE GuessFit(e)'
  BY <1>1, GuessFitOf
<1>3. GuessFit(e)
  BY <1>2, GuessFitOf
<1>4. CASE v = w
  <2>1. PeriodStart' = PeriodStart /\ PeriodEnd' = PeriodEnd
    BY <1>4 DEF PeriodStart, PeriodEnd
  <2>2. Stragglers(e)' = Stragglers(e) /\ Guessing(e)' = Guessing(e)
    BY <1>1, <2>1 DEF Stragglers, Guessing, Comparing
  <2>3. QED
    BY <1>1, <1>3, <1>4, <2>2 DEF GuessFit
<1>5. CASE v = w + 1
  <2>1. clock < v * LoginLockout
    <3> DEFINE start == v * LoginLockout
    <3>1. start = w * LoginLockout + LoginLockout
      BY <1>1, <1>5, AccountsAssumption
    <3>2. clock < w * LoginLockout + LoginLockout
      BY <1>1, AccountsAssumption
    <3>3. QED
      BY <3>1, <3>2
  <2>2. Stragglers(e)' = Comparing(e)
    <3>1. \A r \in Requests : loc[r].since \in Nat /\ loc[r].since <= clock
      BY LocalTypes DEF TimesArePast
    <3>2. PeriodStart' \in Nat /\ clock < PeriodStart'
      BY <1>1, <2>1, AccountsAssumption DEF PeriodStart
    <3>3. \A r \in Requests : loc[r].since < PeriodStart'
      BY <1>1, <3>1, <3>2
    <3>4. QED
      BY <1>1, <3>3 DEF Stragglers, Comparing
  <2>3. Cardinality(Stragglers(e)')
          <= Cardinality(Stragglers(e)) + Cardinality(Guessing(e))
    <3>1. /\ Comparing(e) \in SUBSET Requests
          /\ Stragglers(e) \cup Guessing(e) \in SUBSET Requests
          /\ Comparing(e) \subseteq Stragglers(e) \cup Guessing(e)
      BY GuessSets
    <3>2. Cardinality(Comparing(e)) <= Cardinality(Stragglers(e) \cup Guessing(e))
      BY <3>1, SlotCounts
    <3>3. QED
      BY <2>2, <3>2, GuessSets, SlotCounts
  <2> DEFINE s == Cardinality(Stragglers(e))  f == Cardinality(Guessing(e))
             t == Cardinality(Stragglers(e)') g == Cardinality(Guessing(e)')
  <2>4. /\ s \in Nat /\ f \in Nat /\ t \in Nat /\ g \in Nat /\ w \in Nat
        /\ s + f <= Cardinality(Requests) /\ t + g <= Cardinality(Requests)
        /\ t <= s + f
        /\ users[e].failed \in Nat /\ users[e].lockedUntil \in Nat
    BY <1>2, <2>3, GuessTypes
  <2>5. WithinLimit(users[e].failed, users[e].lockedUntil, w, s, f)
    BY <1>3 DEF GuessFit
  <2> HIDE DEF s, f, t, g, w, v
  <2>6. WithinLimit(users[e].failed, users[e].lockedUntil, w + 1, t, g)
    BY <2>4, <2>5, FitNextPeriod
  <2>7. QED
    BY <1>1, <1>5, <2>6 DEF GuessFit, t, g, v
<1>6. v = w \/ v = w + 1
  BY <1>1, AccountsAssumption
<1>7. QED
  BY <1>4, <1>5, <1>6

(* A login reads its row: it counts when the lock ends in this period.     *)
LEMMA LoginKeepsGuesses ==
  ASSUME TypeOK, TypeOK', NEW r \in Requests, NEW x \in Emails,
         NEW p \in Passwords, Login(r, x, p), NEW e \in Emails, GuessesFit(e)
  PROVE  GuessesFit(e)'
<1> DEFINE locals == [Blank EXCEPT !.email = x, !.password = p,
                                   !.row = users[x]]
<1>1. UNCHANGED <<users, clock>> /\ at[r] = "idle"
  BY DEF Login, Take, tables
<1>2. SUFFICES ASSUME users[e] # NoUser PROVE GuessFit(e)'
  BY <1>1, GuessFitOf
<1>3. GuessFit(e)
  BY <1>2, GuessFitOf
<1>4. /\ at' = [at EXCEPT ![r] = "loginFound"]
      /\ loc' = [loc EXCEPT ![r] = locals]
  BY DEF Login, Take
<1>5. locals.email = x /\ locals.row = users[x]
  BY BlankType DEF Locals
<1> HIDE DEF locals
<1>6. PeriodStart' = PeriodStart /\ PeriodEnd' = PeriodEnd
  BY <1>1 DEF PeriodStart, PeriodEnd
<1>7. /\ at'[r] = "loginFound" /\ loc'[r] = locals
      /\ \A q \in Requests \ {r} : at'[q] = at[q] /\ loc'[q] = loc[q]
  BY <1>4 DEF TypeOK
<1>8. Stragglers(e)' = Stragglers(e)
  BY <1>1, <1>6, <1>7 DEF Stragglers, Comparing
<1>9. CASE x = e /\ users[e].lockedUntil < PeriodEnd
  <2>1. Guessing(e)' = Guessing(e) \cup {r}
    BY <1>1, <1>5, <1>6, <1>7, <1>8, <1>9 DEF Guessing, Comparing, Stragglers
  <2>2. r \notin Guessing(e) /\ r \notin Stragglers(e)
    BY <1>1 DEF Guessing, Comparing, Stragglers
  <2>3. Cardinality(Guessing(e)') = Cardinality(Guessing(e)) + 1
    <3>1. IsFiniteSet(Guessing(e))
      BY GuessSets, SlotCounts
    <3>2. QED
      BY <2>1, <2>2, <3>1, FS_AddElement
  <2> DEFINE s == Cardinality(Stragglers(e))  f == Cardinality(Guessing(e))
             w == clock \div LoginLockout
  <2>4. /\ s \in Nat /\ f \in Nat /\ w \in Nat
        /\ s + (f + 1) <= Cardinality(Requests)
        /\ users[e].failed \in Nat /\ users[e].lockedUntil \in Nat
    BY <1>2, <1>8, <2>3, GuessTypes
  <2>5. /\ WithinLimit(users[e].failed, users[e].lockedUntil, w, s, f)
        /\ users[e].lockedUntil < w * LoginLockout + LoginLockout
    BY <1>3, <1>9 DEF GuessFit, PeriodEnd, PeriodStart
  <2> HIDE DEF s, f, w
  <2>6. WithinLimit(users[e].failed, users[e].lockedUntil, w, s, f + 1)
    <3>1. s + f + 1 <= Cardinality(Requests)
      BY <2>4, RequestsCount
    <3>2. QED
      BY <2>4, <2>5, <3>1, FitOpen
  <2>7. QED
    BY <1>1, <1>8, <2>3, <2>6 DEF GuessFit, s, f, w
<1>10. CASE ~(x = e /\ users[e].lockedUntil < PeriodEnd)
  <2>1. Guessing(e)' \subseteq Guessing(e)
    BY <1>1, <1>5, <1>6, <1>7, <1>8, <1>10 DEF Guessing, Comparing, Stragglers
  <2>2. QED
    BY <1>1, <1>2, <1>3, <1>8, <2>1, FewerGuesses
<1>11. QED
  BY <1>9, <1>10

(* The lock test lets through only rows whose lock ends in this period.    *)
LEMMA CompareKeepsGuesses ==
  ASSUME TypeOK, TypeOK', NEW r \in Requests, CompareLogin(r),
         NEW e \in Emails, GuessesFit(e)
  PROVE  GuessesFit(e)'
<1> DEFINE step == IF loc[r].password = loc[r].row.password
                   THEN "loginMatch" ELSE "loginMismatch"
<1>1. UNCHANGED <<users, clock>> /\ at[r] = "loginFound"
  BY DEF CompareLogin, tables
<1>2. SUFFICES ASSUME users[e] # NoUser PROVE GuessFit(e)'
  BY <1>1, GuessFitOf
<1>3. GuessFit(e)
  BY <1>2, GuessFitOf
<1>4. PeriodStart' = PeriodStart /\ PeriodEnd' = PeriodEnd
  BY <1>1 DEF PeriodStart, PeriodEnd
<1>5. Stragglers(e)' \subseteq Stragglers(e) /\ Guessing(e)' \subseteq Guessing(e)
  <2>1. CASE Finish(r)
    BY <1>1, <1>4, <2>1 DEF Finish, Stragglers, Guessing, Comparing, TypeOK
  <2>2. CASE /\ ~Locked(loc[r].row, clock)
             /\ GoOn(r, "loginFound", step)
             /\ loc' = [loc EXCEPT ![r].since = clock]
    <3>1. loc[r] \in Locals /\ loc[r].row \in UserRow /\ clock \in Nat
      BY <1>1 DEF TypeOK
    <3>2. /\ at'[r] = step
          /\ loc'[r] = [loc[r] EXCEPT !.since = clock]
          /\ \A q \in Requests \ {r} : at'[q] = at[q] /\ loc'[q] = loc[q]
      BY <2>2 DEF GoOn, TypeOK
    <3>3. loc'[r].since = clock /\ loc'[r].email = loc[r].email
      BY <3>1, <3>2 DEF Locals
    <3>4. PeriodStart \in Nat /\ PeriodStart <= clock /\ clock < PeriodEnd
      BY <3>1, AccountsAssumption DEF PeriodStart, PeriodEnd
    <3>5. loc[r].row.lockedUntil < PeriodEnd
      <4>1. loc[r].row.lockedUntil \in Nat /\ PeriodEnd \in Nat
        BY <3>1, <3>4, AccountsAssumption DEF UserRow, PeriodEnd
      <4>2. loc[r].row.lockedUntil = 0 \/ loc[r].row.lockedUntil <= clock
        BY <2>2, <3>1, <4>1 DEF Locked, NoLock
      <4>3. QED
        BY <3>1, <3>4, <4>1, <4>2
    <3>6. loc'[r].email = e => r \in Guessing(e)
      BY <1>1, <3>3, <3>5 DEF Guessing
    <3>7. ~(loc'[r].since < PeriodStart)
      BY <3>1, <3>3, <3>4
    <3>8. step # "loginFound"
      OBVIOUS
    <3> HIDE DEF step
    <3>9. \A q \in Stragglers(e)' : q # r
      BY <1>4, <3>7 DEF Stragglers
    <3>10. Stragglers(e)' \subseteq Stragglers(e)
      BY <1>4, <3>2, <3>9 DEF Stragglers, Comparing
    <3>11. \A q \in Guessing(e)' : q = r => loc'[r].email = e
      BY DEF Guessing, Comparing
    <3>12. Guessing(e)' \subseteq Guessing(e)
      <4> SUFFICES ASSUME NEW q \in Guessing(e)', q # r
                   PROVE  q \in Guessing(e)
        BY <3>6, <3>11
      <4>1. q \in Requests \ {r}
        BY DEF Guessing, Comparing
      <4>2. at'[q] = at[q] /\ loc'[q] = loc[q]
        BY <3>2, <4>1
      <4>3. QED
        BY <1>4, <4>1, <4>2 DEF Guessing, Comparing, Stragglers
    <3>13. QED
      BY <3>10, <3>12
  <2>3. QED
    BY <2>1, <2>2 DEF CompareLogin
<1>6. QED
  BY <1>1, <1>2, <1>3, <1>5, FewerGuesses

(* A failure takes the place of a comparison.                              *)
LEMMA RecordKeepsGuesses ==
  ASSUME TypeOK, TypeOK', NEW r \in Requests, RecordFailedLogin(r),
         NEW e \in Emails, GuessesFit(e)
  PROVE  GuessesFit(e)'
<1>1. clock' = clock /\ at[r] = "loginMismatch" /\ Finish(r)
  BY DEF RecordFailedLogin, Answer
<1>2. PeriodStart' = PeriodStart /\ PeriodEnd' = PeriodEnd
  BY <1>1 DEF PeriodStart, PeriodEnd
<1>3. /\ Stragglers(e)' = Stragglers(e) \ {r}
      /\ Guessing(e)' = Guessing(e) \ {r}
  BY <1>1, <1>2 DEF Finish, Stragglers, Guessing, Comparing, TypeOK
<1>4. PICK now \in TimesOf(r) :
        \/ e # loc[r].email /\ users'[e] = users[e]
        \/ users'[e] = NoUser
        \/ /\ e = loc[r].email
           /\ users[e] # NoUser
           /\ users'[e].failed = users[e].failed + 1
           /\ users'[e].lockedUntil =
                IF users[e].failed + 1 >= MaxLoginAttempts
                THEN now + LoginLockout ELSE users[e].lockedUntil
  BY RecordedFailure
<1>5. SUFFICES ASSUME users'[e] # NoUser PROVE GuessFit(e)'
  BY GuessFitOf
<1>6. CASE users'[e] = users[e]
  <2>1. GuessFit(e)
    BY <1>5, <1>6, GuessFitOf
  <2>2. QED
    BY <1>1, <1>3, <1>5, <1>6, <2>1, FewerGuesses
<1>7. CASE /\ e = loc[r].email
           /\ users[e] # NoUser
           /\ users'[e].failed = users[e].failed + 1
           /\ users'[e].lockedUntil =
                IF users[e].failed + 1 >= MaxLoginAttempts
                THEN now + LoginLockout ELSE users[e].lockedUntil
  <2> DEFINE s == Cardinality(Stragglers(e))  f == Cardinality(Guessing(e))
             w == clock \div LoginLockout
             n == users[e].failed  lock == users[e].lockedUntil
             new == users'[e].lockedUntil
  <2>1. /\ s \in Nat /\ f \in Nat /\ w \in Nat /\ n \in Nat /\ lock \in Nat
        /\ new \in Nat /\ s + f <= Cardinality(Requests)
    BY <1>5, <1>7, GuessTypes
  <2>2. WithinLimit(n, lock, w, s, f)
    BY <1>7, GuessFitOf DEF GuessFit
  <2>3. r \in Comparing(e)
    BY <1>1, <1>7 DEF Comparing
  <2>4. clock \in Nat /\ loc[r].since \in Nat
    BY LocalTypes DEF TypeOK
  <2>5. /\ PeriodStart \in Nat /\ PeriodStart = w * LoginLockout
        /\ w = 0 => PeriodStart = 0
    BY <2>1, <2>4, AccountsAssumption DEF PeriodStart
  <2>6. CASE r \in Stragglers(e)
    <3>1. r \notin Guessing(e)
      BY <2>6, GuessSets
    <3>2. Cardinality(Stragglers(e)') = s - 1 /\ s >= 1
      <4>1. IsFiniteSet(Stragglers(e))
        BY GuessSets, SlotCounts
      <4>2. Cardinality(Stragglers(e) \ {r}) = s - 1
        BY <2>6, <4>1, FS_RemoveElement
      <4>3. s # 0
        BY <2>6, <4>1, FS_EmptySet
      <4>4. QED
        BY <1>3, <2>1, <4>2, <4>3
    <3>3. Guessing(e)' = Guessing(e)
      BY <1>3, <3>1
    <3>4. w >= 1
      <4>1. loc[r].since < PeriodStart
        BY <2>6 DEF Stragglers
      <4>2. QED
        BY <2>1, <2>4, <2>5, <4>1
    <3> HIDE DEF s, f, w, n, lock, new
    <3>5. WithinLimit(n + 1, new, w, s - 1, f)
      BY <2>1, <2>2, <3>2, <3>4, FitStraggler
    <3>6. QED
      BY <1>1, <1>7, <3>2, <3>3, <3>5 DEF GuessFit, f, w, n, new
  <2>7. CASE r \notin Stragglers(e)
    <3>1. r \in Guessing(e)
      BY <2>3, <2>7 DEF Guessing
    <3>2. Cardinality(Guessing(e)') = f - 1 /\ f >= 1
      <4>1. IsFiniteSet(Guessing(e))
        BY GuessSets, SlotCounts
      <4>2. Cardinality(Guessing(e) \ {r}) = f - 1
        BY <3>1, <4>1, FS_RemoveElement
      <4>3. f # 0
        BY <3>1, <4>1, FS_EmptySet
      <4>4. QED
        BY <1>3, <2>1, <4>2, <4>3
    <3>3. Stragglers(e)' = Stragglers(e)
      BY <1>3, <2>7
    <3>4. n + 1 >= MaxLoginAttempts => new >= w * LoginLockout + LoginLockout
      <4>1. ~(loc[r].since < PeriodStart)
        BY <2>3, <2>7 DEF Stragglers
      <4>2. now \in Nat /\ loc[r].since <= now
        BY TimeTypes
      <4>3. PeriodStart <= now
        BY <2>4, <2>5, <4>1, <4>2
      <4>4. n + 1 >= MaxLoginAttempts => new = now + LoginLockout
        BY <1>7
      <4> HIDE DEF w, n, new
      <4>5. now + LoginLockout >= PeriodStart + LoginLockout
        BY <2>5, <4>2, <4>3, AccountsAssumption
      <4>6. QED
        BY <2>5, <4>4, <4>5
    <3>5. w = 0 => s = 0
      <4>1. ASSUME w = 0 PROVE Stragglers(e) = {}
        <5>1. \A q \in Requests : loc[q].since \in Nat
          BY LocalTypes
        <5>2. PeriodStart = 0
          BY <2>5, <4>1
        <5>3. QED
          BY <5>1, <5>2 DEF Stragglers, Comparing
      <4>2. QED
        BY <4>1, FS_EmptySet
    <3> HIDE DEF s, f, w, n, lock, new
    <3>6. WithinLimit(n + 1, new, w, s, f - 1)
      BY <2>1, <2>2, <3>2, <3>4, <3>5, FitFailure
    <3>7. QED
      BY <1>1, <1>7, <3>2, <3>3, <3>6 DEF GuessFit, s, w, n, new
  <2>8. QED
    BY <2>6, <2>7
<1>8. QED
  BY <1>4, <1>5, <1>6, <1>7

LEMMA InitGuesses == Init => GuessInv
BY DEF Init, GuessInv, GuessesFit

LEMMA NextGuesses ==
  TypeOK /\ TypeOK' /\ TimesArePast /\ GuessInv /\ [Next]_vars => GuessInv'
<1> SUFFICES ASSUME TypeOK, TypeOK', TimesArePast, GuessInv, [Next]_vars,
                    NEW e \in Emails
             PROVE  GuessesFit(e)'
  BY DEF GuessInv
<1>1. GuessesFit(e)
  BY DEF GuessInv
<1>2. QED
  BY <1>1, FailureSteps, OtherStepsKeepGuesses, TickKeepsGuesses,
     LoginKeepsGuesses, CompareKeepsGuesses, RecordKeepsGuesses

LEMMA GuessesFitLimit ==
  ASSUME TypeOK, GuessInv
  PROVE  GuessLimit
<1> SUFFICES ASSUME NEW e \in Emails, users[e] # NoUser
             PROVE  users[e].failed + Cardinality(Comparing(e))
                      <= MaxLoginAttempts - 1 + Cardinality(Requests)
                           + (clock \div LoginLockout)
                               * UpTo(Cardinality(Requests))
  BY DEF GuessLimit
<1> DEFINE s == Cardinality(Stragglers(e))  f == Cardinality(Guessing(e))
           w == clock \div LoginLockout  c == Cardinality(Comparing(e))
<1>1. s \in Nat /\ f \in Nat /\ s + f <= Cardinality(Requests)
  BY GuessSets, SlotCounts
<1>2. c \in Nat /\ c <= s + f
  <2>1. /\ Comparing(e) \in SUBSET Requests
        /\ Stragglers(e) \cup Guessing(e) \in SUBSET Requests
        /\ Comparing(e) \subseteq Stragglers(e) \cup Guessing(e)
    BY GuessSets
  <2>2. c \in Nat /\ c <= Cardinality(Stragglers(e) \cup Guessing(e))
    BY <2>1, SlotCounts
  <2>3. QED
    BY <2>2, GuessSets, SlotCounts
<1>3. users[e].failed \in Nat /\ users[e].lockedUntil \in Nat /\ w \in Nat
  <2>1. users[e] \in UserRow /\ clock \in Nat
    BY DEF TypeOK
  <2>2. QED
    BY <2>1, AccountsAssumption DEF UserRow
<1>4. WithinLimit(users[e].failed, users[e].lockedUntil, w, s, f)
  BY GuessFitOf DEF GuessInv, GuessFit
<1> HIDE DEF s, f, w, c
<1>5. QED
  BY <1>1, <1>2, <1>3, <1>4, FitLimits DEF w, c

(* However many requests race the lock test, whenever they take the time   *)
(* of their failure, and however often the lock expires, an account takes  *)
(* MaxLoginAttempts - 1 wrong passwords and one for each request slot, and *)
(* 1 + 2 + ... + R more in every LoginLockout.                             *)
THEOREM GuessesAreLimited == Spec => []GuessLimit
<1>1. Init => TypeOK /\ TimesArePast /\ GuessInv
  BY InitTypes, InitTimes, InitGuesses
<1>2. TypeOK /\ TimesArePast /\ GuessInv /\ [Next]_vars
        => (TypeOK /\ TimesArePast /\ GuessInv)'
  BY NextTypes, NextTimes, NextGuesses
<1>3. TypeOK /\ TimesArePast /\ GuessInv => GuessLimit
  BY GuessesFitLimit
<1>4. QED
  BY <1>1, <1>2, <1>3, PTL DEF Spec

-------------------------------------------------------------------------------
(* Codes.  Only five actions touch challenges, sent or spent.              *)

(* The consuming UPDATE of SaveVerifiedUser and of ResetVerifiedPassword.  *)
LEMMA ConsumingKeepsCodes ==
  ASSUME TypeOK, CodesInv, NEW k \in Keys, NEW item, NEW now,
         Consumable(challenges[k], item.code, now),
         challenges' = [challenges EXCEPT ![k] = Consumed(@)],
         spent' = spent \cup {item}, UNCHANGED sent
  PROVE  CodesInv'
<1>1. HoldsLastCode(k) /\ challenges[k].code = item.code
  BY DEF Consumable, CodesInv
<1>2. item.code \in 1..Len(sent) /\ \A s \in spent : s.code # item.code
  BY <1>1 DEF HoldsLastCode
<1>3. (\A s \in spent : s.code \in 1..Len(sent))'
  BY <1>2 DEF CodesInv
<1>4. CodesSpentOnce'
  BY <1>2 DEF CodesInv, CodesSpentOnce
<1>5. ASSUME NEW l \in Keys, challenges'[l] # NoChallenge,
             ~challenges'[l].consumed
      PROVE  HoldsLastCode(l)'
  <2>1. challenges[k] \in ChallengeRow
    BY DEF Consumable, TypeOK
  <2>2. l # k
    BY <1>5, <2>1 DEF Consumed, ChallengeRow, TypeOK
  <2>3. challenges'[l] = challenges[l] /\ HoldsLastCode(l)
    BY <1>5, <2>2 DEF TypeOK, CodesInv
  <2>4. challenges[l].code # item.code
    BY <1>1, <2>2, <2>3 DEF HoldsLastCode, Keys
  <2>5. QED
    BY <2>3, <2>4 DEF HoldsLastCode
<1>6. QED
  BY <1>3, <1>4, <1>5 DEF CodesInv

(* Steps that issue and consume nothing: each challenge keeps its code,    *)
(* deadline and consumption, or is gone.                                   *)
LEMMA OtherStepsKeepCodes ==
  ASSUME TypeOK, CodesInv, UNCHANGED <<sent, spent>>,
         \A k \in Keys :
           \/ challenges'[k] = NoChallenge
           \/ /\ challenges[k] # NoChallenge
              /\ challenges'[k].code = challenges[k].code
              /\ challenges'[k].expires = challenges[k].expires
              /\ challenges'[k].consumed = challenges[k].consumed
  PROVE  CodesInv'
<1>1. (\A s \in spent : s.code \in 1..Len(sent))' /\ CodesSpentOnce'
  BY DEF CodesInv, CodesSpentOnce
<1>2. ASSUME NEW k \in Keys, challenges'[k] # NoChallenge,
             ~challenges'[k].consumed
      PROVE  HoldsLastCode(k)'
  BY <1>2 DEF CodesInv, HoldsLastCode
<1>3. QED
  BY <1>1, <1>2 DEF CodesInv

LEMMA IssuingKeepsCodes ==
  ASSUME TypeOK, CodesInv, NEW r \in Requests, IssueCode(r)
  PROVE  CodesInv'
<1> DEFINE key  == <<loc[r].email, loc[r].purpose>>
           code == Len(sent) + 1
<1>1. CASE UNCHANGED <<challenges, sent>>
  <2>1. UNCHANGED spent
    BY DEF IssueCode
  <2>2. QED
    BY <1>1, <2>1 DEF CodesInv, CodesSpentOnce, HoldsLastCode
<1>2. ASSUME NEW now \in TimesOf(r),
             challenges' = [challenges EXCEPT ![key] = Issued(@, code, now)],
             sent' = Append(sent, [email |-> key[1], purpose |-> key[2],
                                   time |-> now])
      PROVE  CodesInv'
  <2>1. UNCHANGED spent /\ key \in Keys
    BY LocalTypes DEF IssueCode
  <2>2. /\ Len(sent) \in Nat
        /\ Len(sent') = Len(sent) + 1
        /\ \A i \in 1..Len(sent) : sent'[i] = sent[i]
        /\ sent'[code] = [email |-> key[1], purpose |-> key[2], time |-> now]
    BY <1>2 DEF TypeOK
  <2>3. (\A s \in spent : s.code \in 1..Len(sent))' /\ CodesSpentOnce'
    BY <2>1, <2>2 DEF CodesInv, CodesSpentOnce
  <2>4. ASSUME NEW k \in Keys, challenges'[k] # NoChallenge,
               ~challenges'[k].consumed
        PROVE  HoldsLastCode(k)'
    <3>1. CASE k = key
      <4>1. challenges'[k].code = code /\ challenges'[k].expires = now + CodeTTL
        BY <1>2, <2>1, <3>1 DEF TypeOK, Issued
      <4>2. \A s \in spent : s.code # code
        BY <2>2 DEF CodesInv
      <4>3. QED
        BY <2>1, <2>2, <3>1, <4>1, <4>2 DEF HoldsLastCode
    <3>2. CASE k # key
      <4>1. challenges'[k] = challenges[k] /\ HoldsLastCode(k)
        BY <1>2, <2>4, <3>2 DEF TypeOK, CodesInv
      <4>2. ~(key[1] = k[1] /\ key[2] = k[2])
        BY <2>1, <3>2 DEF Keys
      <4>3. ASSUME NEW j \in challenges[k].code + 1 .. Len(sent'),
                   sent'[j].email = k[1]
            PROVE  sent'[j].purpose # k[2]
        <5>1. challenges[k].code \in 1..Len(sent)
          BY <4>1 DEF HoldsLastCode
        <5>2. CASE j = code
          BY <2>2, <4>2, <4>3, <5>2
        <5>3. CASE j # code
          <6>1. j \in challenges[k].code + 1 .. Len(sent) /\ j \in 1..Len(sent)
            BY <2>2, <4>3, <5>1, <5>3
          <6>2. QED
            BY <2>2, <4>1, <4>3, <6>1 DEF HoldsLastCode
        <5>4. QED
          BY <5>2, <5>3
      <4>4. QED
        BY <2>1, <2>2, <4>1, <4>3 DEF HoldsLastCode
    <3>3. QED
      BY <3>1, <3>2
  <2>5. QED
    BY <2>3, <2>4 DEF CodesInv
<1>3. QED
  BY <1>1, <1>2 DEF IssueCode

LEMMA CodeStepKeepsCodes ==
  ASSUME TypeOK, CodesInv, NEW r \in Requests, CodeStep(r)
  PROVE  CodesInv'
<1>1. CASE IssueCode(r)
  BY <1>1, IssuingKeepsCodes
<1>2. CASE RecordFailedAttempt(r)
  BY <1>2, OtherStepsKeepCodes
     DEF RecordFailedAttempt, AttemptRecorded, TypeOK, ChallengeRow, history
<1>3. CASE UNCHANGED <<challenges, sent, spent>>
  BY <1>3, OtherStepsKeepCodes
<1>4. QED
  BY <1>1, <1>2, <1>3
     DEF CodeStep, SendVerificationCode, DeliverCode, VerifyCode, tables, history

LEMMA RegisterKeepsCodes ==
  ASSUME TypeOK, CodesInv, NEW r \in Requests, SaveVerifiedUser(r)
  PROVE  CodesInv'
<1> DEFINE k    == <<loc[r].email, "register">>
           item(now) ==
             [code |-> loc[r].code, purpose |-> "register",
              id |-> NewAccount(lastId + 1, loc[r].password).id,
              version |-> 0, time |-> now]
<1>1. k \in Keys /\ UNCHANGED sent
  BY LocalTypes DEF Keys, Purposes, SaveVerifiedUser
<1>2. CASE UNCHANGED <<tables, spent>>
  BY <1>1, <1>2, OtherStepsKeepCodes DEF tables
<1>3. ASSUME NEW now \in TimesOf(r),
             Consumable(challenges[k], loc[r].code, now),
             challenges' = [challenges EXCEPT ![k] = Consumed(@)],
             spent' = spent \cup {item(now)}
      PROVE  CodesInv'
  <2>1. PICK l, i : l = k /\ i = item(now)
    OBVIOUS
  <2>2. i.code = loc[r].code
    BY <2>1
  <2>3. QED
    BY <1>1, <1>3, <2>1, <2>2, ConsumingKeepsCodes
<1>4. QED
  BY <1>2, <1>3 DEF SaveVerifiedUser

LEMMA ForgotKeepsCodes ==
  ASSUME TypeOK, CodesInv, NEW r \in Requests, NEW p \in Passwords,
         ResetVerifiedPassword(r, p)
  PROVE  CodesInv'
<1> DEFINE k    == <<loc[r].email, "forgot">>
           row  == PasswordUpdated(users[loc[r].email], p)
           item(now) ==
             [code |-> loc[r].code, purpose |-> "forgot",
              id |-> row.id, version |-> row.version, time |-> now]
<1>1. k \in Keys /\ UNCHANGED sent
  BY LocalTypes DEF Keys, Purposes, ResetVerifiedPassword
<1>2. CASE UNCHANGED <<challenges, spent>>
  BY <1>1, <1>2, OtherStepsKeepCodes
<1>3. ASSUME NEW now \in TimesOf(r),
             Consumable(challenges[k], loc[r].code, now),
             challenges' = [challenges EXCEPT ![k] = Consumed(@)],
             spent' = spent \cup {item(now)}
      PROVE  CodesInv'
  <2>1. PICK l, i : l = k /\ i = item(now)
    OBVIOUS
  <2>2. i.code = loc[r].code
    BY <2>1
  <2>3. QED
    BY <1>1, <1>3, <2>1, <2>2, ConsumingKeepsCodes
<1>4. QED
  BY <1>2, <1>3 DEF ResetVerifiedPassword

LEMMA DeleteKeepsCodes ==
  ASSUME TypeOK, CodesInv, NEW r \in Requests, DeleteAccount(r)
  PROVE  CodesInv'
<1>1. UNCHANGED <<sent, spent>>
  BY DEF DeleteAccount, history
<1>2. \A k \in Keys : challenges'[k] \in {NoChallenge, challenges[k]}
  BY DEF DeleteAccount
<1>3. QED
  BY <1>1, <1>2, OtherStepsKeepCodes

LEMMA InitCodes == Init => CodesInv
BY DEF Init, CodesInv, CodesSpentOnce

(* Which steps consume a code, or drop challenges.                         *)
LEMMA ConsumingSteps ==
  ASSUME NEW r \in Requests, ~UNCHANGED <<challenges, sent, spent>>,
         \/ LoginStep(r) \/ RegisterStep(r) \/ ForgotStep(r)
         \/ AccountStep(r) \/ Abort(r)
  PROVE  \/ SaveVerifiedUser(r)
         \/ \E p \in Passwords : ResetVerifiedPassword(r, p)
         \/ DeleteAccount(r)
<1>1. CASE LoginStep(r) \/ Abort(r)
  BY <1>1 DEF LoginStep, Login, CompareLogin, RecordFailedLogin,
              AcceptLogin, Abort, tables, history
<1>2. CASE RegisterStep(r)
  BY <1>2 DEF RegisterStep, Register, tables, history
<1>3. CASE ForgotStep(r)
  BY <1>3 DEF ForgotStep, ForgotPassword, ForgotVerify,
              MailTemporaryPassword, tables, history
<1>4. CASE AccountStep(r)
  BY <1>4 DEF AccountStep, AuthorizeChange, CheckCurrentPassword,
              ChangePassword, AuthorizeDelete, CheckAccount, tables, history
<1>5. QED
  BY <1>1, <1>2, <1>3, <1>4

LEMMA NextCodes == TypeOK /\ CodesInv /\ [Next]_vars => CodesInv'
<1> SUFFICES ASSUME TypeOK, CodesInv, [Next]_vars PROVE CodesInv'
  OBVIOUS
<1>1. CASE UNCHANGED <<challenges, sent, spent>>
  BY <1>1, OtherStepsKeepCodes
<1>2. CASE Tick \/ UNCHANGED vars
  BY <1>1, <1>2 DEF Tick, vars, tables, history
<1>3. QED
  BY <1>1, <1>2, ConsumingSteps, CodeStepKeepsCodes, RegisterKeepsCodes,
     ForgotKeepsCodes, DeleteKeepsCodes DEF Next

(* A code buys one account or one recovery, however many requests have     *)
(* verified it before the first of them commits.                           *)
THEOREM CodesAreSpentOnce == Spec => []CodesSpentOnce
<1>1. Init => TypeOK /\ CodesInv
  BY InitTypes, InitCodes
<1>2. TypeOK /\ CodesInv /\ [Next]_vars => (TypeOK /\ CodesInv)'
  BY NextTypes, NextCodes
<1>3. TypeOK /\ CodesInv => CodesSpentOnce
  BY DEF CodesInv
<1>4. QED
  BY <1>1, <1>2, <1>3, PTL DEF Spec

-------------------------------------------------------------------------------
(* What the consuming UPDATE guarantees of the code it consumes.           *)
LEMMA ConsumableIsLive ==
  ASSUME TypeOK, CodesInv, NEW k \in Keys, NEW code, NEW now,
         Consumable(challenges[k], code, now)
  PROVE  /\ sent[code].email = k[1]
         /\ sent[code].purpose = k[2]
         /\ now < sent[code].time + CodeTTL
         /\ \A j \in code + 1 .. Len(sent) :
              sent[j].email = k[1] => sent[j].purpose # k[2]
BY DEF Consumable, CodesInv, HoldsLastCode

LEMMA NextSpends == TypeOK /\ CodesInv /\ [Next]_vars => SpendsLiveCodes
<1> SUFFICES ASSUME TypeOK, CodesInv, [Next]_vars,
                    NEW s \in spent' \ spent
             PROVE  /\ sent[s.code].purpose = s.purpose
                    /\ s.time < sent[s.code].time + CodeTTL
                    /\ users'[sent[s.code].email].id = s.id
                    /\ \A j \in s.code + 1 .. Len(sent) :
                         sent[j].email = sent[s.code].email =>
                           sent[j].purpose # s.purpose
  BY DEF SpendsLiveCodes
<1>1. ASSUME NEW r \in Requests, SaveVerifiedUser(r)
      PROVE  \E k \in Keys : /\ Consumable(challenges[k], s.code, s.time)
                             /\ s.purpose = k[2]
                             /\ users'[k[1]].id = s.id
  <2> DEFINE e   == loc[r].email
             k   == <<e, "register">>
             row == NewAccount(lastId + 1, loc[r].password)
  <2>1. PICK now \in TimesOf(r) :
          /\ Consumable(challenges[k], loc[r].code, now)
          /\ users' = [users EXCEPT ![e] = row]
          /\ s = [code |-> loc[r].code, purpose |-> "register", id |-> row.id,
                  version |-> 0, time |-> now]
    BY <1>1 DEF SaveVerifiedUser
  <2>2. e \in Emails /\ k \in Keys
    BY LocalTypes DEF Keys, Purposes
  <2>3. users'[e].id = s.id
    BY <2>1, <2>2 DEF TypeOK
  <2>4. QED
    BY <2>1, <2>2, <2>3
<1>2. ASSUME NEW r \in Requests, NEW p \in Passwords,
             ResetVerifiedPassword(r, p)
      PROVE  \E k \in Keys : /\ Consumable(challenges[k], s.code, s.time)
                             /\ s.purpose = k[2]
                             /\ users'[k[1]].id = s.id
  <2> DEFINE e   == loc[r].email
             k   == <<e, "forgot">>
             row == PasswordUpdated(users[e], p)
  <2>1. PICK now \in TimesOf(r) :
          /\ Consumable(challenges[k], loc[r].code, now)
          /\ users' = [users EXCEPT ![e] = row]
          /\ s = [code |-> loc[r].code, purpose |-> "forgot", id |-> row.id,
                  version |-> row.version, time |-> now]
    BY <1>2 DEF ResetVerifiedPassword
  <2>2. e \in Emails /\ k \in Keys
    BY LocalTypes DEF Keys, Purposes
  <2>3. users'[e].id = s.id
    BY <2>1, <2>2 DEF TypeOK
  <2>4. QED
    BY <2>1, <2>2, <2>3
<1>3. \/ \E r \in Requests : SaveVerifiedUser(r)
      \/ \E r \in Requests, p \in Passwords : ResetVerifiedPassword(r, p)
  <2>1. spent' # spent
    OBVIOUS
  <2>2. ASSUME NEW r \in Requests, CodeStep(r) PROVE FALSE
    BY <2>1, <2>2 DEF CodeStep, SendVerificationCode, IssueCode, DeliverCode,
         VerifyCode, RecordFailedAttempt, tables, history
  <2>3. ASSUME NEW r \in Requests, DeleteAccount(r) PROVE FALSE
    BY <2>1, <2>3 DEF DeleteAccount, history
  <2>4. CASE Tick \/ UNCHANGED vars
    BY <2>1, <2>4 DEF Tick, vars, history
  <2>5. QED
    BY <2>1, <2>2, <2>3, <2>4, ConsumingSteps DEF Next
<1>4. PICK k \in Keys : /\ Consumable(challenges[k], s.code, s.time)
                        /\ s.purpose = k[2]
                        /\ users'[k[1]].id = s.id
  BY <1>1, <1>2, <1>3
<1>5. PICK code, now : code = s.code /\ now = s.time
  OBVIOUS
<1>6. /\ sent[code].email = k[1]
      /\ sent[code].purpose = k[2]
      /\ now < sent[code].time + CodeTTL
      /\ \A j \in code + 1 .. Len(sent) :
           sent[j].email = k[1] => sent[j].purpose # k[2]
  BY <1>4, <1>5, ConsumableIsLive
<1>7. QED
  BY <1>4, <1>5, <1>6

(* A code that is spent is the last one sent for its address and purpose,  *)
(* is younger than CodeTTL, and buys what it was sent for.                 *)
THEOREM OnlyLiveCodes == Spec => OnlyLiveCodesAreSpent
<1>1. Init => TypeOK /\ CodesInv
  BY InitTypes, InitCodes
<1>2. TypeOK /\ CodesInv /\ [Next]_vars => (TypeOK /\ CodesInv)'
  BY NextTypes, NextCodes
<1>3. TypeOK /\ CodesInv /\ [Next]_vars => [SpendsLiveCodes]_vars
  BY NextSpends
<1>4. QED
  BY <1>1, <1>2, <1>3, PTL DEF Spec, OnlyLiveCodesAreSpent

------------------------------------------------------------------------
(* Registrations.                                                          *)

LEMMA ConsumingKeepsRegistrations ==
  ASSUME TypeOK, CodesInv, RegistrationInv, NEW k \in Keys, NEW item, NEW now,
         Consumable(challenges[k], item.code, now),
         challenges' = [challenges EXCEPT ![k] = Consumed(@)],
         spent' = spent \cup {item}, UNCHANGED sent,
         \/ UNCHANGED lastId
         \/ /\ lastId' = lastId + 1
            /\ item.purpose = "register"
            /\ item.id = lastId + 1
  PROVE  RegistrationInv'
<1>1. HoldsLastCode(k) /\ challenges[k].code = item.code
  BY DEF Consumable, CodesInv
<1>2. ASSUME NEW i \in 1..lastId'
      PROVE  \E s \in spent' : s.purpose = "register" /\ s.id = i
  <2>1. lastId \in Nat
    BY DEF TypeOK
  <2>2. CASE i \in 1..lastId
    BY <2>2 DEF RegistrationInv
  <2>3. CASE i \notin 1..lastId
    <3>1. i = item.id /\ item.purpose = "register"
      BY <1>2, <2>1, <2>3
    <3>2. QED
      BY <3>1
  <2>4. QED
    BY <2>2, <2>3
<1>3. ASSUME NEW l \in Keys, challenges'[l] # NoChallenge,
             challenges'[l].consumed
      PROVE  LastCodeIsSpent(l)'
  <2>1. CASE l = k
    <3>1. item \in spent'
      OBVIOUS
    <3>2. QED
      BY <1>1, <2>1, <3>1 DEF HoldsLastCode, LastCodeIsSpent
  <2>2. CASE l # k
    <3>1. challenges'[l] = challenges[l] /\ LastCodeIsSpent(l)
      BY <1>3, <2>2 DEF TypeOK, RegistrationInv
    <3>2. QED
      BY <3>1 DEF LastCodeIsSpent
  <2>3. QED
    BY <2>1, <2>2
<1>4. QED
  BY <1>2, <1>3 DEF RegistrationInv

LEMMA OtherStepsKeepRegistrations ==
  ASSUME TypeOK, RegistrationInv, UNCHANGED <<sent, spent, lastId>>,
         \A k \in Keys :
           \/ challenges'[k] = NoChallenge
           \/ /\ challenges[k] # NoChallenge
              /\ challenges'[k].consumed = challenges[k].consumed
  PROVE  RegistrationInv'
BY DEF RegistrationInv, LastCodeIsSpent

LEMMA IssuingKeepsRegistrations ==
  ASSUME TypeOK, RegistrationInv, NEW r \in Requests, IssueCode(r)
  PROVE  RegistrationInv'
<1> DEFINE key  == <<loc[r].email, loc[r].purpose>>
           code == Len(sent) + 1
<1>1. UNCHANGED <<spent, lastId>> /\ key \in Keys
  BY LocalTypes DEF IssueCode
<1>2. CASE UNCHANGED <<challenges, sent>>
  BY <1>1, <1>2 DEF RegistrationInv, LastCodeIsSpent
<1>3. ASSUME NEW now \in TimesOf(r),
             challenges' = [challenges EXCEPT ![key] = Issued(@, code, now)],
             sent' = Append(sent, [email |-> key[1], purpose |-> key[2],
                                   time |-> now])
      PROVE  RegistrationInv'
  <2>1. /\ Len(sent) \in Nat
        /\ Len(sent') = Len(sent) + 1
        /\ \A i \in 1..Len(sent) : sent'[i] = sent[i]
        /\ sent'[code] = [email |-> key[1], purpose |-> key[2], time |-> now]
    BY <1>3 DEF TypeOK
  <2>2. ASSUME NEW k \in Keys, challenges'[k] # NoChallenge,
               challenges'[k].consumed
        PROVE  LastCodeIsSpent(k)'
    <3>1. k # key
      BY <1>1, <1>3, <2>2 DEF TypeOK, Issued
    <3>2. ~(key[1] = k[1] /\ key[2] = k[2])
      BY <1>1, <3>1 DEF Keys
    <3>3. LastCodeIsSpent(k)
      BY <1>3, <2>2, <3>1 DEF TypeOK, RegistrationInv
    <3>4. PICK s \in spent :
            /\ s.code \in 1..Len(sent)
            /\ sent[s.code].email = k[1]
            /\ sent[s.code].purpose = k[2]
            /\ \A j \in s.code + 1 .. Len(sent) :
                 sent[j].email = k[1] => sent[j].purpose # k[2]
      BY <3>3 DEF LastCodeIsSpent
    <3>5. ASSUME NEW j \in s.code + 1 .. Len(sent'), sent'[j].email = k[1]
          PROVE  sent'[j].purpose # k[2]
      <4>1. CASE j = code
        BY <2>1, <3>2, <3>5, <4>1
      <4>2. CASE j # code
        <5>1. j \in s.code + 1 .. Len(sent) /\ j \in 1..Len(sent)
          BY <2>1, <3>4, <3>5, <4>2
        <5>2. QED
          BY <2>1, <3>4, <3>5, <5>1
      <4>3. QED
        BY <4>1, <4>2
    <3>6. s.code \in 1..Len(sent') /\ sent'[s.code] = sent[s.code] /\ s \in spent'
      BY <1>1, <2>1, <3>4
    <3>7. QED
      BY <3>4, <3>5, <3>6 DEF LastCodeIsSpent
  <2>3. QED
    BY <1>1, <2>2 DEF RegistrationInv
<1>4. QED
  BY <1>2, <1>3 DEF IssueCode

LEMMA RegisterKeepsRegistrations ==
  ASSUME TypeOK, CodesInv, RegistrationInv, NEW r \in Requests,
         SaveVerifiedUser(r)
  PROVE  RegistrationInv'
<1> DEFINE k    == <<loc[r].email, "register">>
           item(now) ==
             [code |-> loc[r].code, purpose |-> "register",
              id |-> NewAccount(lastId + 1, loc[r].password).id,
              version |-> 0, time |-> now]
<1>1. k \in Keys /\ UNCHANGED sent
  BY LocalTypes DEF Keys, Purposes, SaveVerifiedUser
<1>2. CASE UNCHANGED <<tables, spent>>
  BY <1>1, <1>2, OtherStepsKeepRegistrations DEF tables
<1>3. ASSUME NEW now \in TimesOf(r),
             Consumable(challenges[k], loc[r].code, now),
             challenges' = [challenges EXCEPT ![k] = Consumed(@)],
             lastId' = lastId + 1,
             spent' = spent \cup {item(now)}
      PROVE  RegistrationInv'
  <2>1. PICK l, i : l = k /\ i = item(now)
    OBVIOUS
  <2>2. i.code = loc[r].code /\ i.purpose = "register" /\ i.id = lastId + 1
    BY <2>1 DEF NewAccount
  <2>3. QED
    BY <1>1, <1>3, <2>1, <2>2, ConsumingKeepsRegistrations
<1>4. QED
  BY <1>2, <1>3 DEF SaveVerifiedUser

LEMMA ForgotKeepsRegistrations ==
  ASSUME TypeOK, CodesInv, RegistrationInv, NEW r \in Requests,
         NEW p \in Passwords, ResetVerifiedPassword(r, p)
  PROVE  RegistrationInv'
<1> DEFINE k    == <<loc[r].email, "forgot">>
           row  == PasswordUpdated(users[loc[r].email], p)
           item(now) ==
             [code |-> loc[r].code, purpose |-> "forgot",
              id |-> row.id, version |-> row.version, time |-> now]
<1>1. k \in Keys /\ UNCHANGED <<sent, lastId>>
  BY LocalTypes DEF Keys, Purposes, ResetVerifiedPassword
<1>2. CASE UNCHANGED <<challenges, spent>>
  BY <1>1, <1>2, OtherStepsKeepRegistrations
<1>3. ASSUME NEW now \in TimesOf(r),
             Consumable(challenges[k], loc[r].code, now),
             challenges' = [challenges EXCEPT ![k] = Consumed(@)],
             spent' = spent \cup {item(now)}
      PROVE  RegistrationInv'
  <2>1. PICK l, i : l = k /\ i = item(now)
    OBVIOUS
  <2>2. i.code = loc[r].code
    BY <2>1
  <2>3. QED
    BY <1>1, <1>3, <2>1, <2>2, ConsumingKeepsRegistrations
<1>4. QED
  BY <1>2, <1>3 DEF ResetVerifiedPassword

(* Only SaveVerifiedUser creates an account.                               *)
LEMMA AccountIds ==
  ASSUME [Next]_vars, ~\E r \in Requests : SaveVerifiedUser(r)
  PROVE  UNCHANGED lastId
BY DEF Next, vars, tables, LoginStep, Login, CompareLogin, RecordFailedLogin,
   AcceptLogin,
   CodeStep, SendVerificationCode, IssueCode, DeliverCode, VerifyCode,
   RecordFailedAttempt, RegisterStep, Register, ForgotStep, ForgotPassword,
   ForgotVerify, ResetVerifiedPassword, MailTemporaryPassword, AccountStep,
   AuthorizeChange, CheckCurrentPassword, ChangePassword, AuthorizeDelete,
   CheckAccount, DeleteAccount, Abort, Tick

LEMMA InitRegistrations == Init => RegistrationInv
BY DEF Init, RegistrationInv

LEMMA NextRegistrations ==
  TypeOK /\ CodesInv /\ RegistrationInv /\ [Next]_vars => RegistrationInv'
<1> SUFFICES ASSUME TypeOK, CodesInv, RegistrationInv, [Next]_vars,
                    ~\E r \in Requests : SaveVerifiedUser(r)
             PROVE  RegistrationInv'
  BY RegisterKeepsRegistrations
<1>1. UNCHANGED lastId
  BY AccountIds
<1>2. CASE UNCHANGED <<challenges, sent, spent>>
  BY <1>1, <1>2, OtherStepsKeepRegistrations
<1>3. ASSUME NEW r \in Requests, CodeStep(r) PROVE RegistrationInv'
  <2>1. CASE IssueCode(r)
    BY <2>1, IssuingKeepsRegistrations
  <2>2. CASE RecordFailedAttempt(r)
    BY <1>1, <2>2, OtherStepsKeepRegistrations
       DEF RecordFailedAttempt, AttemptRecorded, TypeOK, ChallengeRow, history
  <2>3. CASE UNCHANGED <<challenges, sent, spent>>
    BY <1>2, <2>3
  <2>4. QED
    BY <1>3, <2>1, <2>2, <2>3
       DEF CodeStep, SendVerificationCode, DeliverCode, VerifyCode, tables,
           history
<1>4. ASSUME NEW r \in Requests, DeleteAccount(r) PROVE RegistrationInv'
  <2>1. UNCHANGED <<sent, spent>>
    BY <1>4 DEF DeleteAccount, history
  <2>2. \A k \in Keys : challenges'[k] \in {NoChallenge, challenges[k]}
    BY <1>4 DEF DeleteAccount
  <2>3. QED
    BY <1>1, <2>1, <2>2, OtherStepsKeepRegistrations
<1>5. CASE Tick \/ UNCHANGED vars
  BY <1>2, <1>5 DEF Tick, vars, tables, history
<1>6. QED
  BY <1>2, <1>3, <1>4, <1>5, ConsumingSteps, ForgotKeepsRegistrations DEF Next

LEMMA RegistrationsMatch ==
  ASSUME TypeOK, CodesInv, RegistrationInv
  PROVE  RegistrationSpendsWhatItCreates
<1> SUFFICES ASSUME NEW i \in 1..MaxCodes
             PROVE  /\ i <= lastId =>
                         \E s \in spent : s.purpose = "register" /\ s.id = i
                    /\ i <= Len(sent) =>
                         LET k == <<sent[i].email, sent[i].purpose>> IN
                         (\A j \in i + 1 .. Len(sent) :
                            <<sent[j].email, sent[j].purpose>> # k) =>
                           \/ challenges[k] = NoChallenge
                           \/ challenges[k].consumed <=>
                                \E s \in spent : s.code = i
  BY DEF RegistrationSpendsWhatItCreates
<1> DEFINE k == <<sent[i].email, sent[i].purpose>>
<1>1. i \in Nat \ {0} /\ Len(sent) \in Nat /\ lastId \in Nat
  BY AuthApiAssumption DEF TypeOK
<1>2. i <= lastId => \E s \in spent : s.purpose = "register" /\ s.id = i
  BY <1>1 DEF RegistrationInv
<1>3. ASSUME i <= Len(sent), challenges[k] # NoChallenge,
             \A j \in i + 1 .. Len(sent) :
               <<sent[j].email, sent[j].purpose>> # k
      PROVE  challenges[k].consumed <=> \E s \in spent : s.code = i
  <2>1. i \in 1..Len(sent) /\ k \in Keys
    <3>1. i \in 1..Len(sent)
      BY <1>1, <1>3
    <3>2. sent[i] \in SentCode
      BY <3>1 DEF TypeOK
    <3>3. QED
      BY <3>1, <3>2 DEF SentCode, Keys
  <2>2. ASSUME NEW c \in 1..Len(sent), sent[c].email = k[1],
               sent[c].purpose = k[2],
               \A j \in c + 1 .. Len(sent) :
                 sent[j].email = k[1] => sent[j].purpose # k[2]
        PROVE  c = i
    <3>1. ~(c < i)
      BY <1>1, <2>1, <2>2
    <3>2. ~(i < c)
      BY <1>1, <1>3, <2>2
    <3>3. QED
      BY <1>1, <3>1, <3>2
  <2>3. challenges[k].consumed \in BOOLEAN
    BY <1>3, <2>1 DEF TypeOK, ChallengeRow
  <2>4. CASE challenges[k].consumed
    <3>1. LastCodeIsSpent(k)
      BY <1>3, <2>1, <2>4 DEF RegistrationInv
    <3>2. QED
      BY <2>2, <2>4, <3>1 DEF LastCodeIsSpent
  <2>5. CASE ~challenges[k].consumed
    <3>1. HoldsLastCode(k)
      BY <1>3, <2>1, <2>5 DEF CodesInv
    <3>2. QED
      BY <2>2, <2>5, <3>1 DEF HoldsLastCode
  <2>6. QED
    BY <2>4, <2>5
<1>4. QED
  BY <1>2, <1>3

(* Every account has a consumed registration code of its own, and the last *)
(* code sent to an address is consumed exactly when it bought something:   *)
(* no failed registration or recovery uses one up.                         *)
THEOREM RegistrationsSpendCodes == Spec => []RegistrationSpendsWhatItCreates
<1>1. Init => TypeOK /\ CodesInv /\ RegistrationInv
  BY InitTypes, InitCodes, InitRegistrations
<1>2. TypeOK /\ CodesInv /\ RegistrationInv /\ [Next]_vars =>
        (TypeOK /\ CodesInv /\ RegistrationInv)'
  BY NextTypes, NextCodes, NextRegistrations
<1>3. TypeOK /\ CodesInv /\ RegistrationInv => RegistrationSpendsWhatItCreates
  BY RegistrationsMatch
<1>4. QED
  BY <1>1, <1>2, <1>3, PTL DEF Spec

-------------------------------------------------------------------------------
(* The daily limit, as long as no account is deleted: first its arithmetic. *)

TodayFit(n, s, counts, c) ==
  LET R == Cardinality(Requests) IN
  /\ s = R => n = 0 /\ ~counts
  /\ s < R => n <= MaxDailySends * (R - s - 1) + IF counts THEN c ELSE 0

PastFit(n, t, full) ==
  LET R == Cardinality(Requests) IN
  \/ n + t < (MaxDailySends + 1) * R
  \/ full /\ n <= MaxDailySends * R

LEMMA SendsTimes ==
  ASSUME NEW a \in Int, NEW b \in Int
  PROVE  /\ MaxDailySends * a \in Int
         /\ MaxDailySends * (a + 1) = MaxDailySends * a + MaxDailySends
         /\ (MaxDailySends + 1) * a = MaxDailySends * a + a
         /\ a <= b => MaxDailySends * a <= MaxDailySends * b
<1>1. MaxDailySends \in Nat
  BY VerificationAssumption
<1>2. QED
  BY <1>1

(* Senders of earlier days go.                                             *)
LEMMA TodayFewer ==
  ASSUME NEW n \in Nat, NEW s \in Nat, NEW z \in Nat,
         NEW counts \in BOOLEAN, NEW c \in Nat,
         z <= s, s <= Cardinality(Requests), TodayFit(n, s, counts, c)
  PROVE  TodayFit(n, z, counts, c)
<1> DEFINE R == Cardinality(Requests)
<1>1. R \in Nat
  BY RequestsCount
<1>2. CASE s = R
  <2>1. z < R => 0 <= R - z - 1 /\ R - z - 1 \in Int
    BY <1>1
  <2>2. z < R => MaxDailySends * 0 <= MaxDailySends * (R - z - 1)
    BY <1>1, <2>1, SendsTimes
  <2>3. MaxDailySends * 0 = 0
    BY VerificationAssumption
  <2>4. MaxDailySends * (R - z - 1) \in Int
    BY <1>1, SendsTimes
  <2>5. QED
    BY <1>1, <1>2, <2>2, <2>3, <2>4 DEF TodayFit
<1>3. CASE s < R
  <2>1. MaxDailySends * (R - s - 1) <= MaxDailySends * (R - z - 1)
    BY <1>1, SendsTimes
  <2>2. /\ MaxDailySends * (R - s - 1) \in Int
        /\ MaxDailySends * (R - z - 1) \in Int
    <3>1. R - s - 1 \in Int /\ R - z - 1 \in Int
      BY <1>1
    <3>2. QED
      BY <3>1, SendsTimes
  <2>3. PICK m : m = IF counts THEN c ELSE 0
    OBVIOUS
  <2>4. n <= MaxDailySends * (R - s - 1) + m
    BY <1>3, <2>3 DEF TodayFit
  <2>5. m \in Nat
    BY <2>3
  <2>6. n <= MaxDailySends * (R - z - 1) + m
    BY <2>1, <2>2, <2>4, <2>5
  <2>7. z # R
    BY <1>1, <1>3
  <2>8. QED
    BY <2>3, <2>6, <2>7 DEF TodayFit
<1>4. QED
  BY <1>1, <1>2, <1>3

(* A sender of an earlier day starts the counter again.                    *)
LEMMA TodayOpens ==
  ASSUME NEW n \in Nat, NEW s \in Nat, NEW counts \in BOOLEAN, NEW c \in Nat,
         NEW b, c <= MaxDailySends, s >= 1, s <= Cardinality(Requests),
         TodayFit(n, s, counts, c)
  PROVE  TodayFit(n, s - 1, FALSE, b)
<1> DEFINE R == Cardinality(Requests)
<1>1. R \in Nat /\ MaxDailySends \in Nat
  BY RequestsCount, VerificationAssumption
<1>2. MaxDailySends * (R - s) \in Int
  BY <1>1, SendsTimes
<1>3. n <= MaxDailySends * (R - s)
  <2>1. CASE s = R
    <3>1. n = 0 /\ R - s = 0
      BY <1>1, <2>1 DEF TodayFit
    <3>2. MaxDailySends * 0 = 0
      BY <1>1
    <3>3. QED
      BY <3>1, <3>2
  <2>2. CASE s < R
    <3>1. R - s - 1 \in Int /\ R - s = (R - s - 1) + 1
      BY <1>1
    <3>2. /\ MaxDailySends * (R - s)
               = MaxDailySends * (R - s - 1) + MaxDailySends
          /\ MaxDailySends * (R - s - 1) \in Int
      BY <3>1, SendsTimes
    <3>3. n <= MaxDailySends * (R - s - 1) + MaxDailySends
      <4>1. n <= MaxDailySends * (R - s - 1) + IF counts THEN c ELSE 0
        BY <2>2 DEF TodayFit
      <4>2. QED
        BY <1>1, <3>2, <4>1
    <3>4. QED
      BY <3>2, <3>3
  <2>3. QED
    BY <1>1, <2>1, <2>2
<1>4. s - 1 # R /\ R - (s - 1) - 1 = R - s
  BY <1>1
<1>5. QED
  BY <1>2, <1>3, <1>4 DEF TodayFit

(* A code of today is stored and counted.                                  *)
LEMMA TodayIssues ==
  ASSUME NEW n \in Nat, NEW s \in Nat, NEW z \in Nat, NEW counts \in BOOLEAN,
         NEW c \in Nat, z <= s, s <= Cardinality(Requests),
         z < Cardinality(Requests), TodayFit(n, s, counts, c)
  PROVE  TodayFit(n + 1, z, TRUE, IF counts THEN c + 1 ELSE 1)
<1> DEFINE R == Cardinality(Requests)
<1>1. R \in Nat /\ z # R
  BY RequestsCount
<1>2. MaxDailySends * (R - z - 1) \in Int
  BY <1>1, SendsTimes
<1>3. n <= MaxDailySends * (R - z - 1) + IF counts THEN c ELSE 0
  <2>1. TodayFit(n, z, counts, c)
    BY TodayFewer
  <2>2. QED
    BY <2>1 DEF TodayFit
<1>4. n + 1 <= MaxDailySends * (R - z - 1) + IF counts THEN c + 1 ELSE 1
  <2>1. CASE counts
    BY <1>2, <1>3, <2>1
  <2>2. CASE ~counts
    BY <1>2, <1>3, <2>2
  <2>3. QED
    BY <2>1, <2>2
<1>5. QED
  BY <1>1, <1>4 DEF TodayFit

(* A day ends.                                                             *)
LEMMA TodayEnds ==
  ASSUME NEW n \in Nat, NEW s \in Nat, NEW t \in Nat, NEW counts \in BOOLEAN,
         NEW c \in Nat, c <= MaxDailySends, s <= Cardinality(Requests),
         t <= Cardinality(Requests), TodayFit(n, s, counts, c)
  PROVE  PastFit(n, t, counts /\ c = MaxDailySends)
<1> DEFINE R == Cardinality(Requests)
<1>1. R \in Nat \ {0} /\ MaxDailySends \in Nat \ {0}
  BY RequestsCount, VerificationAssumption
<1>2. /\ MaxDailySends * R \in Int /\ MaxDailySends * (R - 1) \in Int
      /\ MaxDailySends * R = MaxDailySends * (R - 1) + MaxDailySends
      /\ (MaxDailySends + 1) * R = MaxDailySends * R + R
      /\ MaxDailySends * 0 <= MaxDailySends * (R - 1)
      /\ MaxDailySends * 0 = 0
  <2>1. R - 1 \in Int /\ (R - 1) + 1 = R /\ 0 <= R - 1
    BY <1>1
  <2>2. MaxDailySends * 0 = 0
    BY <1>1
  <2>3. QED
    BY <1>1, <2>1, <2>2, SendsTimes
<1>3. /\ n <= MaxDailySends * (R - 1) + MaxDailySends
      /\ ~(counts /\ c = MaxDailySends) =>
           n <= MaxDailySends * (R - 1) + MaxDailySends - 1
  <2>1. CASE s = R
    BY <1>1, <1>2, <2>1 DEF TodayFit
  <2>2. CASE s < R
    <3>1. TodayFit(n, 0, counts, c)
      BY <1>1, TodayFewer
    <3>2. n <= MaxDailySends * (R - 0 - 1) + IF counts THEN c ELSE 0
      BY <1>1, <3>1 DEF TodayFit
    <3>3. R - 0 - 1 = R - 1
      BY <1>1
    <3>4. n <= MaxDailySends * (R - 1) + IF counts THEN c ELSE 0
      BY <3>2, <3>3
    <3>5. QED
      BY <1>1, <1>2, <3>4
  <2>3. QED
    BY <1>1, <2>1, <2>2
<1>4. QED
  BY <1>1, <1>2, <1>3 DEF PastFit

LEMMA TodayEndsOpen ==
  ASSUME NEW n \in Nat, NEW s \in Nat, NEW t \in Nat,
         s <= Cardinality(Requests), t <= Cardinality(Requests),
         TodayFit(n, s, FALSE, 0)
  PROVE  PastFit(n, t, FALSE)
<1>1. PICK none, c : none = FALSE /\ c = 0
  OBVIOUS
<1>2. none \in BOOLEAN /\ c \in Nat /\ c <= MaxDailySends
  <2>1. none \in BOOLEAN
    BY <1>1, Zenon
  <2>2. c \in Nat /\ c <= MaxDailySends
    BY <1>1, VerificationAssumption
  <2>3. QED
    BY <2>1, <2>2
<1>3. TodayFit(n, s, none, c)
  BY <1>1
<1>4. PastFit(n, t, none /\ c = MaxDailySends)
  BY <1>2, <1>3, TodayEnds
<1>5. QED
  BY <1>1, <1>4 DEF PastFit

(* A send of another day ends while day d's counter may be full.           *)
LEMMA PastFewer ==
  ASSUME NEW n \in Nat, NEW t \in Nat, NEW z \in Nat, NEW full, NEW b,
         z <= t, z < Cardinality(Requests) \/ (full => b), PastFit(n, t, full)
  PROVE  PastFit(n, z, b)
<1> DEFINE R == Cardinality(Requests)
<1>1. /\ R \in Nat \ {0}
      /\ MaxDailySends * R \in Int
      /\ (MaxDailySends + 1) * R = MaxDailySends * R + R
  BY RequestsCount, SendsTimes
<1>2. CASE n + t < (MaxDailySends + 1) * R
  BY <1>1, <1>2 DEF PastFit
<1>3. CASE full /\ n <= MaxDailySends * R
  BY <1>1, <1>3 DEF PastFit
<1>4. QED
  BY <1>2, <1>3 DEF PastFit

(* A code of that day is stored, while its counter is not full.            *)
LEMMA PastIssues ==
  ASSUME NEW n \in Nat, NEW t \in Nat, NEW b, t >= 1, PastFit(n, t, FALSE)
  PROVE  PastFit(n + 1, t - 1, b)
<1> DEFINE R == Cardinality(Requests)
<1>1. R \in Nat /\ (MaxDailySends + 1) * R \in Int
  <2>1. MaxDailySends * R \in Int
    BY RequestsCount, SendsTimes
  <2>2. QED
    BY <2>1, RequestsCount, SendsTimes
<1>2. n + t < (MaxDailySends + 1) * R
  BY DEF PastFit
<1>3. (n + 1) + (t - 1) < (MaxDailySends + 1) * R
  BY <1>1, <1>2
<1>4. QED
  BY <1>3 DEF PastFit

(* Days on which nothing was sent, and what the two say.                   *)
LEMMA DayLimits ==
  ASSUME NEW n \in Nat, NEW t \in Nat, NEW counts \in BOOLEAN, NEW c \in Nat,
         NEW full, t <= Cardinality(Requests)
  PROVE  /\ TodayFit(0, t, FALSE, c)
         /\ PastFit(0, t, full)
         /\ PastFit(n, t, full) => n < (MaxDailySends + 1) * Cardinality(Requests)
<1> DEFINE R == Cardinality(Requests)
<1>1. R \in Nat \ {0} /\ MaxDailySends \in Nat \ {0}
  BY RequestsCount, VerificationAssumption
<1>2. /\ MaxDailySends * R \in Int
      /\ (MaxDailySends + 1) * R = MaxDailySends * R + R
      /\ MaxDailySends * 1 <= MaxDailySends * R
      /\ MaxDailySends * 1 = MaxDailySends
  BY <1>1, SendsTimes
<1>3. TodayFit(0, t, FALSE, c)
  <2>1. t < R => MaxDailySends * 0 <= MaxDailySends * (R - t - 1)
    BY <1>1, SendsTimes
  <2>2. MaxDailySends * 0 = 0 /\ MaxDailySends * (R - t - 1) \in Int
    BY <1>1, SendsTimes
  <2>3. QED
    BY <1>1, <2>1, <2>2 DEF TodayFit
<1>4. PastFit(0, t, full)
  BY <1>1, <1>2 DEF PastFit
<1>5. PastFit(n, t, full) => n < (MaxDailySends + 1) * R
  BY <1>1, <1>2 DEF PastFit
<1>6. QED
  BY <1>3, <1>4, <1>5

-------------------------------------------------------------------------------
(* The daily limit: the steps.                                             *)

LEMMA DaysGoOn ==
  ASSUME NEW c \in Nat, NEW d \in Nat, c <= d
  PROVE  DayOf(c) \in Nat /\ DayOf(d) \in Nat /\ DayOf(c) <= DayOf(d)
BY VerificationAssumption DEF DayOf

LEMMA SentOnFinite ==
  ASSUME TypeOK, NEW k, NEW d
  PROVE  IsFiniteSet(SentOn(k, d)) /\ Cardinality(SentOn(k, d)) \in Nat
<1>1. IsFiniteSet(1..Len(sent))
  BY FS_Interval DEF TypeOK
<1>2. SentOn(k, d) \subseteq 1..Len(sent)
  BY DEF SentOn, TypeOK
<1>3. QED
  BY <1>1, <1>2, FS_Subset, FS_CardinalityType

(* The sends in flight for k that may date their code before today, and    *)
(* whether the counter of day d stands at the limit.                       *)
Early(k) == {r \in Sending(k) : DayOf(loc[r].since) < DayOf(clock)}

Full(k, d) == Counts(k, d) /\ challenges[k].requests = MaxDailySends

TodayFitOf(k) ==
  TodayFit(Cardinality(SentOn(k, DayOf(clock))), Cardinality(Early(k)),
           Counts(k, DayOf(clock)), challenges[k].requests)

PastFitOf(k, d) ==
  PastFit(Cardinality(SentOn(k, d)), Cardinality(SendingSince(k, d)),
          Full(k, d))

LEMMA DayFits ==
  ASSUME NEW k
  PROVE  /\ TodayFits(k) <=> TodayFitOf(k)
         /\ TodayFits(k)' <=> TodayFitOf(k)'
         /\ \A d : PastFits(k, d) <=> PastFitOf(k, d)
         /\ \A d : PastFits(k, d)' <=> PastFitOf(k, d)'
BY DEF TodayFits, TodayFitOf, TodayFit, PastFits, PastFitOf, PastFit, Full,
   Early

LEMMA SenderSets ==
  ASSUME NEW k
  PROVE  /\ Early(k) \in SUBSET Requests
         /\ Early(k)' \in SUBSET Requests
         /\ \A d : /\ SendingSince(k, d) \in SUBSET Requests
                   /\ SendingSince(k, d)' \in SUBSET Requests
BY DEF Early, SendingSince, Sending

LEMMA SenderCounts ==
  ASSUME NEW A \in SUBSET Requests, NEW B \in SUBSET Requests
  PROVE  /\ Cardinality(A) \in Nat
         /\ Cardinality(A) <= Cardinality(Requests)
         /\ A \subseteq B => Cardinality(A) <= Cardinality(B)
         /\ \A r \in A : /\ Cardinality(A \ {r}) = Cardinality(A) - 1
                         /\ Cardinality(A) >= 1
         /\ \A r \in Requests \ A : Cardinality(A) < Cardinality(Requests)
<1>1. IsFiniteSet(A) /\ IsFiniteSet(Requests)
  BY AuthApiAssumption, FS_Subset
<1>2. /\ Cardinality(A) \in Nat /\ Cardinality(A) <= Cardinality(Requests)
      /\ A \subseteq B => Cardinality(A) <= Cardinality(B)
  BY SlotCounts
<1>3. ASSUME NEW r \in A
      PROVE  Cardinality(A \ {r}) = Cardinality(A) - 1 /\ Cardinality(A) >= 1
  <2>1. Cardinality(A \ {r}) = Cardinality(A) - 1
    BY <1>1, FS_RemoveElement
  <2>2. Cardinality(A \ {r}) \in Nat
    <3>1. A \ {r} \in SUBSET Requests
      OBVIOUS
    <3>2. QED
      BY <3>1, SlotCounts
  <2>3. QED
    BY <1>2, <2>1, <2>2
<1>4. ASSUME NEW r \in Requests \ A
      PROVE  Cardinality(A) < Cardinality(Requests)
  <2>1. A \subseteq Requests \ {r}
    BY <1>4
  <2>2. Cardinality(Requests \ {r}) = Cardinality(Requests) - 1
    BY <1>1, FS_RemoveElement
  <2>3. Cardinality(A) <= Cardinality(Requests \ {r})
    BY <1>1, <2>1, FS_Subset, FS_RemoveElement
  <2>4. QED
    BY <1>2, <2>2, <2>3, RequestsCount
<1>5. QED
  BY <1>2, <1>3, <1>4

(* No request is in the handler of an endpoint that is not called, and a   *)
(* send begins with the time of the clock.                                 *)
SendersMove ==
  \A q \in Requests : at'[q] = "sendAllowed" =>
    \/ at[q] = "sendAllowed" /\ loc'[q] = loc[q]
    \/ loc'[q].since = clock

LEMMA DeletingMoves ==
  ASSUME TypeOK, NoneDeletes, NEW r \in Requests, NEW to,
         to \notin {"deleteAuthorized", "deleteChecked"}
  PROVE  /\ Finish(r) => NoneDeletes' /\ SendersMove
         /\ \A from : GoOn(r, from, to) => NoneDeletes'
         /\ \A locals : Take(r, to, locals) => NoneDeletes'
BY DEF Finish, GoOn, Take, NoneDeletes, TypeOK, SendersMove

LEMMA SenderMoves ==
  ASSUME TypeOK, NEW r \in Requests, NEW to, to # "sendAllowed"
  PROVE  /\ \A from : GoOn(r, from, to) /\ UNCHANGED loc => SendersMove
         /\ \A from : /\ GoOn(r, from, to)
                      /\ loc' = [loc EXCEPT ![r].since = clock]
                      => SendersMove
         /\ \A from, code : /\ GoOn(r, from, to)
                            /\ loc' = [loc EXCEPT ![r].code = code]
                            => SendersMove
         /\ \A locals : Take(r, to, locals) => SendersMove
<1>1. \A from : GoOn(r, from, to) /\ UNCHANGED loc => SendersMove
  BY DEF GoOn, TypeOK, SendersMove
<1>2. \A from : GoOn(r, from, to) /\ loc' = [loc EXCEPT ![r].since = clock]
        => SendersMove
  BY DEF GoOn, TypeOK, SendersMove
<1>3. \A from, code : /\ GoOn(r, from, to)
                      /\ loc' = [loc EXCEPT ![r].code = code]
        => SendersMove
  BY DEF GoOn, TypeOK, SendersMove
<1>4. \A locals : Take(r, to, locals) => SendersMove
  BY DEF Take, TypeOK, SendersMove
<1>5. QED
  BY <1>1, <1>2, <1>3, <1>4

LEMMA NoDeletion ==
  ASSUME TypeOK, "delete" \notin Endpoints, [Next]_vars, NoneDeletes
  PROVE  /\ NoneDeletes' /\ ~\E r \in Requests : DeleteAccount(r)
         /\ SendersMove
<1> DEFINE Kept == NoneDeletes' /\ SendersMove
<1>1. ~\E r \in Requests : DeleteAccount(r) \/ CheckAccount(r)
  BY DEF NoneDeletes, DeleteAccount, CheckAccount, Answer
<1>2. ASSUME NEW r \in Requests, LoginStep(r) \/ Abort(r) PROVE Kept
  <2>1. ASSUME CompareLogin(r) PROVE Kept
    <3> DEFINE to == IF loc[r].password = loc[r].row.password
                     THEN "loginMatch" ELSE "loginMismatch"
    <3>1. to \notin {"deleteAuthorized", "deleteChecked"} /\ to # "sendAllowed"
      OBVIOUS
    <3>2. \/ Finish(r)
          \/ /\ GoOn(r, "loginFound", to)
             /\ loc' = [loc EXCEPT ![r].since = clock]
      BY <2>1 DEF CompareLogin
    <3> HIDE DEF to
    <3>3. NoneDeletes'
      BY <3>1, <3>2, DeletingMoves
    <3>4. CASE Finish(r)
      BY <3>1, <3>4, DeletingMoves
    <3>5. CASE /\ GoOn(r, "loginFound", to)
               /\ loc' = [loc EXCEPT ![r].since = clock]
      BY <3>1, <3>3, <3>5, SenderMoves
    <3>6. QED
      BY <3>2, <3>4, <3>5
  <2>2. ASSUME NEW e, NEW p, Login(r, e, p) PROVE Kept
    <3>1. \E locals : Take(r, "loginFound", locals)
      BY <2>2 DEF Login
    <3>2. QED
      BY <3>1, DeletingMoves, SenderMoves
  <2>3. ASSUME Finish(r) PROVE Kept
    <3>1. "idle" \notin {"deleteAuthorized", "deleteChecked"}
      OBVIOUS
    <3>2. QED
      BY <2>3, <3>1, DeletingMoves
  <2>4. QED
    BY <1>2, <2>1, <2>2, <2>3
       DEF LoginStep, RecordFailedLogin, AcceptLogin, Abort, Answer
<1>3. ASSUME NEW r \in Requests, CodeStep(r) PROVE Kept
  <2>1. ASSUME NEW e \in Emails, NEW purpose \in Purposes,
               SendVerificationCode(r, e, purpose)
        PROVE  Kept
    <3> DEFINE locals == [Blank EXCEPT !.email = e, !.purpose = purpose,
                                       !.since = clock]
    <3>1. locals.since = clock
      BY DEF Blank
    <3>2. Take(r, "sendAllowed", locals)
      BY <2>1 DEF SendVerificationCode
    <3> HIDE DEF locals
    <3>3. SendersMove
      BY <3>1, <3>2 DEF Take, SendersMove, TypeOK
    <3>4. QED
      BY <3>2, <3>3, DeletingMoves
  <2>2. QED
    BY <1>3, <2>1, DeletingMoves, SenderMoves DEF CodeStep, IssueCode,
       DeliverCode, VerifyCode, RecordFailedAttempt, Answer
<1>4. \A k, code :
        /\ Verified(k, code, "registerVerified")
             \notin {"deleteAuthorized", "deleteChecked", "sendAllowed"}
        /\ Verified(k, code, "forgotVerified")
             \notin {"deleteAuthorized", "deleteChecked", "sendAllowed"}
  BY DEF Verified
<1>5. ASSUME NEW r \in Requests, RegisterStep(r) PROVE Kept
  BY <1>4, <1>5, DeletingMoves, SenderMoves DEF RegisterStep, Register,
     SaveVerifiedUser, Answer
<1>6. ASSUME NEW r \in Requests, ForgotStep(r) PROVE Kept
  BY <1>4, <1>6, DeletingMoves, SenderMoves DEF ForgotStep, ForgotPassword,
     ForgotVerify, ResetVerifiedPassword, MailTemporaryPassword, Answer
<1>7. ASSUME NEW r \in Requests, AccountStep(r) PROVE Kept
  BY <1>1, <1>7, DeletingMoves, SenderMoves DEF AccountStep, AuthorizeChange,
     CheckCurrentPassword, ChangePassword, AuthorizeDelete, Answer
<1>8. CASE Tick \/ UNCHANGED vars
  BY <1>1, <1>8 DEF Tick, vars, NoneDeletes, SendersMove
<1>9. QED
  BY <1>1, <1>2, <1>3, <1>5, <1>6, <1>7, <1>8 DEF Next

(* The steps that send nothing, deletion apart.                            *)
LEMMA ChallengesKeepDays ==
  ASSUME TypeOK, [Next]_vars, ~\E r \in Requests : DeleteAccount(r),
         ~\E r \in Requests : IssueCode(r), NEW k \in Keys
  PROVE  /\ UNCHANGED sent
         /\ \/ challenges'[k] = challenges[k]
            \/ /\ challenges[k] # NoChallenge
               /\ challenges'[k] # NoChallenge
               /\ challenges'[k].day = challenges[k].day
               /\ challenges'[k].requests = challenges[k].requests
<1> DEFINE Kept(l) ==
      \/ challenges'[l] = challenges[l]
      \/ /\ challenges[l] # NoChallenge
         /\ challenges'[l] # NoChallenge
         /\ challenges'[l].day = challenges[l].day
         /\ challenges'[l].requests = challenges[l].requests
<1>1. UNCHANGED sent
  BY DEF Next, vars, history, LoginStep, Login, CompareLogin, RecordFailedLogin,
   AcceptLogin, CodeStep, SendVerificationCode, DeliverCode, VerifyCode,
   RecordFailedAttempt, RegisterStep, Register, SaveVerifiedUser, ForgotStep,
   ForgotPassword, ForgotVerify, ResetVerifiedPassword, MailTemporaryPassword,
   AccountStep, AuthorizeChange, CheckCurrentPassword, ChangePassword,
   AuthorizeDelete, CheckAccount, Abort, Tick
<1>3. ASSUME NEW l \in Keys, challenges[l] # NoChallenge,
             challenges' = [challenges EXCEPT ![l] = Consumed(@)]
      PROVE  Kept(k)
  <2>1. challenges[l] \in ChallengeRow
    BY <1>3 DEF TypeOK
  <2>2. /\ Consumed(challenges[l]).day = challenges[l].day
        /\ Consumed(challenges[l]).requests = challenges[l].requests
    BY <2>1 DEF Consumed, ChallengeRow
  <2>3. Consumed(challenges[l]) # NoChallenge
    BY <1>3, <2>1, ChallengeTypes, NoChallengeAssumption, VerificationAssumption
       DEF Consumed, ChallengeRow, NoCode
  <2>4. QED
    BY <1>3, <2>2, <2>3 DEF TypeOK
<1>4. ASSUME NEW r \in Requests, RecordFailedAttempt(r) PROVE Kept(k)
  <2> DEFINE l == <<loc[r].email, loc[r].purpose>>
  <2>1. CASE challenges[l] = NoChallenge
    BY <1>4, <2>1, LocalTypes DEF RecordFailedAttempt, AttemptRecorded, TypeOK
  <2>2. CASE challenges[l] # NoChallenge
    <3>1. challenges[l] \in ChallengeRow
      BY <2>2, LocalTypes DEF TypeOK
    <3>2. /\ AttemptRecorded(challenges[l]).day = challenges[l].day
          /\ AttemptRecorded(challenges[l]).requests = challenges[l].requests
      BY <2>2, <3>1 DEF AttemptRecorded, ChallengeRow
    <3>3. AttemptRecorded(challenges[l]) # NoChallenge
      BY <2>2, <3>1, NoChallengeAssumption DEF AttemptRecorded, ChallengeRow
    <3>4. QED
      BY <1>4, <2>2, <3>2, <3>3, LocalTypes DEF RecordFailedAttempt, TypeOK
  <2>3. QED
    BY <2>1, <2>2
<1>5. ASSUME NEW r \in Requests, SaveVerifiedUser(r) PROVE Kept(k)
  <2>1. <<loc[r].email, "register">> \in Keys
    BY LocalTypes DEF Keys, Purposes
  <2>2. QED
    BY <1>3, <1>5, <2>1 DEF SaveVerifiedUser, Consumable, tables
<1>6. ASSUME NEW r \in Requests, NEW p \in Passwords, ResetVerifiedPassword(r, p)
      PROVE  Kept(k)
  <2>1. <<loc[r].email, "forgot">> \in Keys
    BY LocalTypes DEF Keys, Purposes
  <2>2. QED
    BY <1>3, <1>6, <2>1 DEF ResetVerifiedPassword, Consumable
<1>7. ASSUME UNCHANGED challenges PROVE Kept(k)
  BY <1>7
<1>8. ASSUME NEW r \in Requests, CodeStep(r) PROVE Kept(k)
  BY <1>4, <1>7, <1>8 DEF CodeStep, SendVerificationCode, DeliverCode,
     VerifyCode, tables
<1>9. ASSUME Tick \/ UNCHANGED vars PROVE Kept(k)
  BY <1>7, <1>9 DEF Tick, vars, tables
<1>10. Kept(k)
  BY <1>5, <1>6, <1>7, <1>8, <1>9, ConsumingSteps DEF Next
<1>11. QED
  BY SMTT(30), <1>1, <1>10

(* What SendsFit counts, and its types.                                    *)
LEMMA SendTypes ==
  ASSUME TypeOK, NEW k \in Keys
  PROVE  /\ clock \in Nat /\ DayOf(clock) \in Nat
         /\ \A i \in DOMAIN sent : /\ sent[i].time \in Nat
                                   /\ DayOf(sent[i].time) \in Nat
         /\ \A r \in Requests : /\ loc[r].since \in Nat
                                /\ DayOf(loc[r].since) \in Nat
         /\ challenges[k] # NoChallenge =>
              /\ challenges[k].requests \in Nat
              /\ challenges[k].day \in Nat
         /\ \A d : Cardinality(SentOn(k, d)) \in Nat
         /\ \A d : Counts(k, d) \in BOOLEAN
<1>1. clock \in Nat /\ DayOf(clock) \in Nat
  BY DayType DEF TypeOK
<1>2. ASSUME NEW i \in DOMAIN sent
      PROVE  sent[i].time \in Nat /\ DayOf(sent[i].time) \in Nat
  <2>1. sent[i] \in SentCode
    BY DEF TypeOK
  <2>2. QED
    BY <2>1, DayType DEF SentCode
<1>3. ASSUME NEW r \in Requests
      PROVE  loc[r].since \in Nat /\ DayOf(loc[r].since) \in Nat
  <2>1. loc[r].since \in Nat
    BY LocalTypes
  <2>2. QED
    BY <2>1, DayType
<1>4. challenges[k] # NoChallenge =>
        challenges[k].requests \in Nat /\ challenges[k].day \in Nat
  BY DEF TypeOK, ChallengeRow
<1>5. QED
  BY <1>1, <1>2, <1>3, <1>4, SentOnFinite DEF Counts

(* The counter kept: what it says of each day stays.                       *)
CounterKept(k) ==
  \/ challenges'[k] = challenges[k]
  \/ /\ challenges[k] # NoChallenge
     /\ challenges'[k] # NoChallenge
     /\ challenges'[k].day = challenges[k].day
     /\ challenges'[k].requests = challenges[k].requests

LEMMA CounterKeeps ==
  ASSUME NEW k, CounterKept(k)
  PROVE  /\ \A d : Counts(k, d)' <=> Counts(k, d)
         /\ \A d : Full(k, d)' <=> Full(k, d)
         /\ challenges'[k] = NoChallenge <=> challenges[k] = NoChallenge
         /\ challenges[k] # NoChallenge =>
              /\ challenges'[k].day = challenges[k].day
              /\ challenges'[k].requests = challenges[k].requests
BY DEF CounterKept, Counts, Full

(* Steps in which time stands still and no code is stored for k.           *)
LEMMA OtherStepsKeepSends ==
  ASSUME TypeOK, TypeOK', clock' = clock, SendersMove, NEW k \in Keys,
         CounterKept(k), \A d : SentOn(k, d)' = SentOn(k, d),
         \A i \in DOMAIN sent' : DayOf(sent'[i].time) <= DayOf(clock),
         SendsFit(k)
  PROVE  SendsFit(k)'
<1> DEFINE today == DayOf(clock)
<1>1. DayOf(clock)' = today /\ today \in Nat
  BY SendTypes DEF DayOf
<1>2. ASSUME NEW q \in Requests, NEW d \in Int, d < today,
             q \in Sending(k)', DayOf(loc'[q].since) <= d
      PROVE  q \in Sending(k) /\ loc'[q] = loc[q]
  <2>1. loc'[q].since # clock
    BY <1>1, <1>2
  <2>2. QED
    BY <1>2, <2>1 DEF SendersMove, Sending
<1>3. ASSUME NEW d \in Int, d < today
      PROVE  SendingSince(k, d)' \subseteq SendingSince(k, d)
  <2>1. \A q : DayOf(loc[q].since)' = DayOf(loc'[q].since)
    BY DEF DayOf
  <2> SUFFICES ASSUME NEW q \in SendingSince(k, d)'
               PROVE  q \in SendingSince(k, d)
    OBVIOUS
  <2>2. q \in Requests /\ q \in Sending(k)' /\ DayOf(loc'[q].since) <= d
    BY <2>1 DEF SendingSince, Sending
  <2>3. q \in Sending(k) /\ loc'[q] = loc[q]
    BY <1>2, <1>3, <2>2
  <2>4. QED
    BY <2>2, <2>3 DEF SendingSince
<1>4. Early(k)' \subseteq Early(k)
  <2>1. \A q : DayOf(loc[q].since)' = DayOf(loc'[q].since)
    BY DEF DayOf
  <2> SUFFICES ASSUME NEW q \in Early(k)' PROVE q \in Early(k)
    OBVIOUS
  <2>2. q \in Requests /\ q \in Sending(k)' /\ DayOf(loc'[q].since) < today
    BY <1>1, <2>1 DEF Early, Sending
  <2>3. q \in Sending(k) /\ loc'[q] = loc[q]
    <3>1. loc'[q].since # clock
      BY <1>1, <2>2
    <3>2. QED
      BY <2>2, <3>1 DEF SendersMove, Sending
  <2>4. QED
    BY <2>2, <2>3 DEF Early
<1>5. /\ Cardinality(SentOn(k, today)) \in Nat
      /\ Cardinality(Early(k)) \in Nat /\ Cardinality(Early(k)') \in Nat
      /\ Cardinality(Early(k)') <= Cardinality(Early(k))
      /\ Cardinality(Early(k)) <= Cardinality(Requests)
  BY <1>4, SendTypes, SenderSets, SenderCounts
<1>6. TodayFits(k)'
  <2>1. TodayFit(Cardinality(SentOn(k, today)), Cardinality(Early(k)),
                 Counts(k, today), challenges[k].requests)
    BY DayFits DEF SendsFit, TodayFitOf
  <2>2. CASE challenges[k] = NoChallenge
    <3>1. /\ ~Counts(k, today) /\ ~Counts(k, today)'
      BY <2>2, CounterKeeps DEF Counts
    <3>2. TodayFit(Cardinality(SentOn(k, today)), Cardinality(Early(k)),
                   FALSE, 0)
      BY <2>1, <3>1 DEF TodayFit
    <3>3. TodayFit(Cardinality(SentOn(k, today)), Cardinality(Early(k)'),
                   FALSE, 0)
      BY <1>5, <3>2, TodayFewer
    <3>4. TodayFit(Cardinality(SentOn(k, today)), Cardinality(Early(k)'),
                   Counts(k, today)', challenges'[k].requests)
      BY <3>1, <3>3 DEF TodayFit
    <3>5. QED
      BY <1>1, <3>4, DayFits DEF TodayFitOf
  <2>3. CASE challenges[k] # NoChallenge
    <3>1. /\ challenges[k].requests \in Nat /\ Counts(k, today) \in BOOLEAN
          /\ challenges'[k].requests = challenges[k].requests
          /\ Counts(k, today)' <=> Counts(k, today)
      BY <2>3, SendTypes, CounterKeeps
    <3>2. TodayFit(Cardinality(SentOn(k, today)), Cardinality(Early(k)'),
                   Counts(k, today), challenges[k].requests)
      BY <1>5, <2>1, <3>1, TodayFewer
    <3>3. TodayFit(Cardinality(SentOn(k, today)), Cardinality(Early(k)'),
                   Counts(k, today)', challenges'[k].requests)
      BY <3>1, <3>2 DEF TodayFit
    <3>4. QED
      BY <1>1, <3>3, DayFits DEF TodayFitOf
  <2>4. QED
    BY <2>2, <2>3
<1>7. ASSUME NEW d \in 0..DayOf(clock)', d < DayOf(clock)'
      PROVE  PastFits(k, d)'
  <2>1. d \in Int /\ d \in 0..today /\ d < today
    BY <1>1, <1>7
  <2>2. PastFit(Cardinality(SentOn(k, d)), Cardinality(SendingSince(k, d)),
                Full(k, d))
    BY <2>1, DayFits DEF SendsFit, PastFitOf
  <2>3. /\ Cardinality(SentOn(k, d)) \in Nat
        /\ Cardinality(SendingSince(k, d)) \in Nat
        /\ Cardinality(SendingSince(k, d)') \in Nat
        /\ Cardinality(SendingSince(k, d)') <= Cardinality(SendingSince(k, d))
    BY <1>3, <2>1, SendTypes, SenderSets, SenderCounts
  <2>4. Full(k, d)' <=> Full(k, d)
    BY CounterKeeps
  <2>5. PastFit(Cardinality(SentOn(k, d)), Cardinality(SendingSince(k, d)'),
                Full(k, d)')
    BY <2>2, <2>3, <2>4, PastFewer
  <2>6. QED
    BY <2>5, DayFits DEF PastFitOf
<1>8. /\ challenges'[k] # NoChallenge =>
           /\ challenges'[k].requests <= MaxDailySends
           /\ challenges'[k].day <= today
      /\ \A i \in DOMAIN sent' : DayOf(sent'[i].time) <= today
  BY CounterKeeps DEF SendsFit
<1>9. \A i : DayOf(sent[i].time)' = DayOf(sent'[i].time)
  BY DEF DayOf
<1>10. QED
  BY <1>1, <1>6, <1>7, <1>8, <1>9 DEF SendsFit

(* The upsert of a code of day DayOf(now), with room on the counter.       *)
LEMMA IssuingKeepsSends ==
  ASSUME TypeOK, TypeOK', NEW r \in Requests, IssueCode(r), NEW k \in Keys,
         k = <<loc[r].email, loc[r].purpose>>, NEW now \in TimesOf(r),
         MayIssue(challenges[k], now),
         challenges' = [challenges EXCEPT ![k] = Issued(@, Len(sent) + 1, now)],
         sent' = Append(sent, [email |-> k[1], purpose |-> k[2], time |-> now]),
         at' = [at EXCEPT ![r] = "sendMailing"],
         loc' = [loc EXCEPT ![r].code = Len(sent) + 1],
         SendsFit(k)
  PROVE  SendsFit(k)'
<1>0. PICK today, day, code :
        today = DayOf(clock) /\ day = DayOf(now) /\ code = Len(sent) + 1
  OBVIOUS
<1> DEFINE row == challenges[k]
           new == challenges'[k]
<1>1. /\ clock' = clock /\ DayOf(clock)' = today /\ today \in Nat
      /\ at[r] = "sendAllowed"
  BY <1>0, SendTypes DEF IssueCode, DayOf
<1>2. /\ now \in Nat /\ day \in Nat /\ day <= today
      /\ loc[r].since \in Nat
      /\ DayOf(loc[r].since) \in Nat /\ DayOf(loc[r].since) <= day
  BY <1>0, TimeTypes, SendTypes, DaysGoOn
<1>3. /\ Len(sent) \in Nat
      /\ DOMAIN sent = 1..Len(sent)
      /\ DOMAIN sent' = 1..code
      /\ \A i \in 1..Len(sent) : sent'[i] = sent[i]
      /\ sent'[code] = [email |-> k[1], purpose |-> k[2], time |-> now]
  BY <1>0 DEF TypeOK
<1>4. /\ sent'[code].email = k[1]
      /\ sent'[code].purpose = k[2]
      /\ sent'[code].time = now
  <2>1. PICK item : item = [email |-> k[1], purpose |-> k[2], time |-> now]
    OBVIOUS
  <2>2. sent'[code] = item
    BY <1>3, <2>1
  <2>3. item.email = k[1] /\ item.purpose = k[2] /\ item.time = now
    BY <2>1
  <2>4. QED
    BY <2>2, <2>3
<1>5. \A d : SentOn(k, d)' = IF d = day THEN SentOn(k, d) \cup {code}
                             ELSE SentOn(k, d)
  BY <1>0, <1>3, <1>4 DEF SentOn
<1>6. \A d : /\ Cardinality(SentOn(k, d)) \in Nat
             /\ Cardinality(SentOn(k, d)') =
                  IF d = day THEN Cardinality(SentOn(k, d)) + 1
                  ELSE Cardinality(SentOn(k, d))
  <2>1. \A d : code \notin SentOn(k, d)
    BY <1>3 DEF SentOn
  <2>2. \A d : Cardinality(SentOn(k, d) \cup {code})
                 = Cardinality(SentOn(k, d)) + 1
    BY <2>1, SentOnFinite, FS_AddElement
  <2>3. ASSUME NEW d
        PROVE  Cardinality(SentOn(k, d)') =
                 IF d = day THEN Cardinality(SentOn(k, d)) + 1
                 ELSE Cardinality(SentOn(k, d))
    <3>1. CASE d = day
      <4>1. SentOn(k, d)' = SentOn(k, d) \cup {code}
        BY <1>5, <3>1
      <4>2. QED
        BY <2>2, <3>1, <4>1
    <3>2. CASE d # day
      <4>1. SentOn(k, d)' = SentOn(k, d)
        BY <1>5, <3>2
      <4>2. QED
        BY <3>2, <4>1
    <3>3. QED
      BY <3>1, <3>2
  <2>4. QED
    BY <2>3, SendTypes
<1>7. /\ new = Issued(row, code, now)
      /\ new # NoChallenge
  <2>1. new = Issued(row, code, now)
    BY <1>0 DEF TypeOK
  <2>2. Issued(row, code, now) \in ChallengeRow
    <3>1. code \in Nat /\ row \in ChallengeRow \cup {NoChallenge}
      BY <1>0, <1>3 DEF TypeOK
    <3>2. QED
      BY <1>2, <3>1, ChallengeTypes
  <2>3. QED
    BY <2>1, <2>2, NoChallengeAssumption
<1>8. /\ new.day = day
      /\ new.requests = IF Counts(k, day) THEN row.requests + 1 ELSE 1
      /\ Counts(k, day) => row.requests \in Nat /\ row.requests < MaxDailySends
      /\ new.requests <= MaxDailySends
  <2>1. MaxDailySends \in Nat \ {0}
    BY VerificationAssumption
  <2>2. /\ new.day = day
        /\ new.requests = IF Counts(k, day) THEN row.requests + 1 ELSE 1
    BY <1>0, <1>7 DEF Issued, Counts
  <2>3. ASSUME Counts(k, day)
        PROVE  row.requests \in Nat /\ row.requests < MaxDailySends
    <3>1. row # NoChallenge /\ row.day = day
      BY <2>3 DEF Counts
    <3>2. row.requests \in Nat
      BY <3>1, SendTypes
    <3>3. ~(row.requests >= MaxDailySends)
      BY <1>0, <3>1 DEF MayIssue
    <3>4. QED
      BY <2>1, <3>2, <3>3
  <2>4. QED
    BY <2>1, <2>2, <2>3
<1>9. \A d : Counts(k, d)' <=> d = day
  BY <1>7, <1>8 DEF Counts
<1>10. /\ r \in Sending(k)
       /\ \A q \in Requests : DayOf(loc[q].since)' = DayOf(loc'[q].since)
       /\ Sending(k)' = Sending(k) \ {r}
       /\ \A q \in Requests : loc'[q].since = loc[q].since
  <2>1. r \in Sending(k)
    BY <1>1 DEF Sending
  <2>2. \A q \in Requests \ {r} : at'[q] = at[q] /\ loc'[q] = loc[q]
    BY DEF TypeOK
  <2>3. at'[r] = "sendMailing"
    BY DEF TypeOK
  <2>4. Sending(k)' = Sending(k) \ {r}
    BY <2>2, <2>3 DEF Sending
  <2>5. loc'[r].since = loc[r].since
    <3>1. loc[r] \in Locals /\ loc'[r] = [loc[r] EXCEPT !.code = code]
      BY <1>0 DEF TypeOK
    <3>2. QED
      BY <3>1 DEF Locals
  <2>6. QED
    BY <2>1, <2>2, <2>4, <2>5 DEF DayOf
<1>11. /\ Early(k)' = Early(k) \ {r}
       /\ \A d : SendingSince(k, d)' = SendingSince(k, d) \ {r}
  <2>1. \A q \in Requests : DayOf(loc[q].since)' = DayOf(loc[q].since)
    BY <1>10
  <2>2. Sending(k) \subseteq Requests
    BY DEF Sending
  <2>3. QED
    BY <1>0, <1>1, <1>10, <2>1, <2>2 DEF Early, SendingSince
<1>12. /\ day < today => r \in Early(k)
       /\ \A d \in Int : day <= d => r \in SendingSince(k, d)
  <2>1. r \in Sending(k) /\ DayOf(loc[r].since) \in Int
    BY <1>2, <1>10
  <2>2. day < today => r \in Early(k)
    BY <1>0, <1>1, <1>2, <2>1 DEF Early
  <2>3. ASSUME NEW d \in Int, day <= d PROVE r \in SendingSince(k, d)
    BY <1>2, <2>1, <2>3 DEF SendingSince
  <2>4. QED
    BY <2>2, <2>3
<1> DEFINE S == Cardinality(Early(k))
<1>13. /\ S \in Nat /\ S <= Cardinality(Requests)
       /\ Cardinality(Early(k)') \in Nat
       /\ Cardinality(Early(k)') <= S
       /\ Cardinality(Early(k)') < Cardinality(Requests)
       /\ r \in Early(k) => Cardinality(Early(k)') = S - 1 /\ S >= 1
  <2>1. Early(k)' \subseteq Early(k) /\ r \in Requests \ Early(k)'
    BY <1>11
  <2>2. QED
    BY <1>11, <2>1, SenderSets, SenderCounts
<1>14. TodayFit(Cardinality(SentOn(k, today)), S, Counts(k, today),
                row.requests)
  BY <1>0, DayFits DEF SendsFit, TodayFitOf
<1>15. PICK c \in Nat : /\ c <= MaxDailySends
                        /\ Counts(k, today) => c = row.requests
  <2>1. 0 <= MaxDailySends
    BY VerificationAssumption
  <2>2. CASE Counts(k, today)
    BY <2>2, SendTypes DEF SendsFit, Counts
  <2>3. QED
    BY <2>1, <2>2
<1>16. TodayFit(Cardinality(SentOn(k, today)), S, Counts(k, today), c)
  BY <1>14, <1>15 DEF TodayFit
<1>17. TodayFits(k)'
  <2>1. TodayFit(Cardinality(SentOn(k, today)'), Cardinality(Early(k)'),
                 Counts(k, today)', new.requests)
    <3>1. CASE day = today
      <4>1. TodayFit(Cardinality(SentOn(k, today)) + 1, Cardinality(Early(k)'),
                     TRUE, IF Counts(k, today) THEN c + 1 ELSE 1)
        <5>1. Counts(k, today) \in BOOLEAN /\ Cardinality(SentOn(k, today)) \in Nat
          BY SendTypes
        <5>2. QED
          BY <1>13, <1>16, <5>1, TodayIssues
      <4>2. new.requests = IF Counts(k, today) THEN c + 1 ELSE 1
        BY <1>8, <1>15, <3>1
      <4>3. Counts(k, today)' <=> TRUE
        BY <1>9, <3>1
      <4>4. Cardinality(SentOn(k, today)') = Cardinality(SentOn(k, today)) + 1
        BY <1>6, <3>1
      <4>5. TodayFit(Cardinality(SentOn(k, today)'), Cardinality(Early(k)'),
                     TRUE, new.requests)
        BY <4>1, <4>2, <4>4
      <4>6. QED
        BY <4>3, <4>5 DEF TodayFit
    <3>2. CASE day # today
      <4>1. r \in Early(k)
        BY <1>1, <1>2, <1>12, <3>2
      <4>2. TodayFit(Cardinality(SentOn(k, today)), S - 1, FALSE, new.requests)
        BY <1>6, <1>13, <1>15, <1>16, <4>1, SendTypes, TodayOpens
      <4>3. ~Counts(k, today)'
        BY <1>9, <3>2
      <4>4. /\ Cardinality(SentOn(k, today)') = Cardinality(SentOn(k, today))
            /\ Cardinality(Early(k)') = S - 1
        BY <1>6, <1>13, <3>2, <4>1
      <4>5. TodayFit(Cardinality(SentOn(k, today)'), Cardinality(Early(k)'),
                     FALSE, new.requests)
        BY <4>2, <4>4
      <4>6. QED
        BY <4>3, <4>5 DEF TodayFit
    <3>3. QED
      BY <3>1, <3>2
  <2>2. QED
    BY <1>0, <1>1, <2>1, DayFits DEF TodayFitOf
<1>18. ASSUME NEW d \in 0..DayOf(clock)', d < DayOf(clock)'
       PROVE  PastFits(k, d)'
  <2> DEFINE n == Cardinality(SentOn(k, d))
             t == Cardinality(SendingSince(k, d))
             z == Cardinality(SendingSince(k, d)')
  <2>1. d \in Int /\ d \in 0..today /\ d < today
    BY <1>1, <1>18
  <2>2. PastFit(n, t, Full(k, d))
    BY <1>0, <2>1, DayFits DEF SendsFit, PastFitOf
  <2>3. /\ n \in Nat /\ t \in Nat /\ z \in Nat /\ z <= t
        /\ z < Cardinality(Requests)
        /\ r \in SendingSince(k, d) => z = t - 1 /\ t >= 1
    <3>1. /\ SendingSince(k, d)' \subseteq SendingSince(k, d)
          /\ r \in Requests \ SendingSince(k, d)'
      BY <1>11
    <3>2. QED
      BY <1>6, <1>11, <3>1, SenderSets, SenderCounts
  <2>4. CASE d = day
    <3>1. ~Full(k, d)
      BY <1>8, <2>4, VerificationAssumption DEF Full
    <3>2. PastFit(n, t, FALSE)
      BY <2>2, <3>1 DEF PastFit
    <3>3. r \in SendingSince(k, d)
      <4>1. day \in Int /\ day <= day
        BY <1>2
      <4>2. r \in SendingSince(k, day)
        BY <1>12, <4>1
      <4>3. QED
        BY <2>4, <4>2
    <3>4. PastFit(n + 1, t - 1, Full(k, d)')
      BY <2>3, <3>2, <3>3, PastIssues
    <3>5. Cardinality(SentOn(k, d)') = n + 1 /\ z = t - 1
      BY <1>6, <2>3, <2>4, <3>3
    <3>6. PastFit(Cardinality(SentOn(k, d)'), z, Full(k, d)')
      BY <3>4, <3>5
    <3>7. QED
      BY <3>6, DayFits DEF PastFitOf
  <2>5. CASE d # day
    <3>1. PastFit(n, z, Full(k, d)')
      BY <2>2, <2>3, PastFewer
    <3>2. Cardinality(SentOn(k, d)') = n
      BY <1>6, <2>5
    <3>3. PastFit(Cardinality(SentOn(k, d)'), z, Full(k, d)')
      BY <3>1, <3>2
    <3>4. QED
      BY <3>3, DayFits DEF PastFitOf
  <2>6. QED
    BY <2>4, <2>5
<1>19. \A i \in DOMAIN sent' : DayOf(sent'[i].time) <= today
  <2>1. \A i \in DOMAIN sent : DayOf(sent[i].time) <= today
    BY <1>0 DEF SendsFit
  <2>2. ASSUME NEW i \in DOMAIN sent' PROVE DayOf(sent'[i].time) <= today
    <3>1. CASE i = code
      BY <1>0, <1>2, <1>4, <3>1
    <3>2. CASE i # code
      BY <1>0, <1>3, <2>1, <3>2
    <3>3. QED
      BY <3>1, <3>2
  <2>3. QED
    BY <2>2
<1>20. \A i : DayOf(sent[i].time)' = DayOf(sent'[i].time)
  BY DEF DayOf
<1>21. QED
  BY <1>1, <1>2, <1>8, <1>17, <1>18, <1>19, <1>20 DEF SendsFit

LEMMA IssueKeepsSends ==
  ASSUME TypeOK, TypeOK', SendersMove, NEW r \in Requests, IssueCode(r),
         NEW k \in Keys, SendsFit(k)
  PROVE  SendsFit(k)'
<1> DEFINE key  == <<loc[r].email, loc[r].purpose>>
           code == Len(sent) + 1
<1>1. clock' = clock /\ key \in Keys
  BY LocalTypes DEF IssueCode
<1>2. CASE UNCHANGED <<challenges, sent>>
  <2>1. CounterKept(k) /\ \A d : SentOn(k, d)' = SentOn(k, d)
    BY <1>2 DEF CounterKept, SentOn
  <2>2. \A i \in DOMAIN sent' : DayOf(sent'[i].time) <= DayOf(clock)
    BY <1>2 DEF SendsFit
  <2>3. QED
    BY <1>1, <2>1, <2>2, OtherStepsKeepSends
<1>3. ASSUME NEW now \in TimesOf(r), MayIssue(challenges[key], now),
             challenges' = [challenges EXCEPT ![key] = Issued(@, code, now)],
             sent' = Append(sent, [email |-> key[1], purpose |-> key[2],
                                   time |-> now]),
             GoOn(r, "sendAllowed", "sendMailing"),
             loc' = [loc EXCEPT ![r].code = code]
      PROVE  SendsFit(k)'
  <2>1. PICK n, item : n = code /\ item = [email |-> key[1],
                                           purpose |-> key[2], time |-> now]
    OBVIOUS
  <2>2. item.email = key[1] /\ item.purpose = key[2] /\ item.time = now
    BY <2>1
  <2>3. /\ Len(sent) \in Nat
        /\ DOMAIN sent = 1..Len(sent)
        /\ DOMAIN sent' = 1..n
        /\ n = Len(sent) + 1
        /\ \A i \in 1..Len(sent) : sent'[i] = sent[i]
        /\ sent'[n] = item
    BY <1>3, <2>1 DEF TypeOK
  <2>4. CASE k = key
    <3>1. at' = [at EXCEPT ![r] = "sendMailing"]
      BY <1>3 DEF GoOn
    <3>2. QED
      BY <1>3, <2>4, <3>1, IssuingKeepsSends
  <2>5. CASE k # key
    <3>1. ~(key[1] = k[1] /\ key[2] = k[2])
      BY <1>1, <2>5 DEF Keys
    <3>2. \A d : SentOn(k, d)' = SentOn(k, d)
      BY <2>2, <2>3, <3>1 DEF SentOn
    <3>3. CounterKept(k)
      BY <1>3, <2>5 DEF TypeOK, CounterKept
    <3>4. DayOf(now) <= DayOf(clock)
      <4>1. now \in Nat /\ now <= clock /\ clock \in Nat
        BY TimeTypes, SendTypes
      <4>2. QED
        BY <4>1, DaysGoOn
    <3>5. ASSUME NEW i \in DOMAIN sent'
          PROVE  DayOf(sent'[i].time) <= DayOf(clock)
      <4>1. CASE i = n
        <5>1. sent'[i].time = now
          BY <2>2, <2>3, <4>1
        <5>2. QED
          BY <3>4, <5>1
      <4>2. CASE i # n
        <5>1. i \in DOMAIN sent /\ sent'[i] = sent[i]
          BY <2>3, <4>2
        <5>2. QED
          BY <5>1 DEF SendsFit
      <4>3. QED
        BY <4>1, <4>2
    <3>6. QED
      BY <1>1, <3>2, <3>3, <3>5, OtherStepsKeepSends
  <2>6. QED
    BY <2>4, <2>5
<1>4. QED
  BY <1>2, <1>3 DEF IssueCode

(* Time passes: a day may end, and then every send in flight is early.     *)
LEMMA TickKeepsSends ==
  ASSUME TypeOK, TypeOK', Tick, NEW k \in Keys, SendsFit(k)
  PROVE  SendsFit(k)'
<1>0. PICK day, next : day = DayOf(clock) /\ next = DayOf(clock')
  OBVIOUS
<1>1. /\ day \in Nat /\ next \in Nat /\ day <= next
      /\ DayOf(clock)' = next
  <2>1. clock \in Nat /\ clock' \in Nat /\ clock <= clock'
    <3>1. clock \in Nat /\ clock' = clock + 1
      BY DEF Tick, TypeOK
    <3>2. QED
      BY <3>1
  <2>2. QED
    BY <1>0, <2>1, DaysGoOn DEF DayOf
<1>2. UNCHANGED <<challenges, at, loc, sent>>
  BY DEF Tick, tables, history
<1>3. /\ \A d : /\ SentOn(k, d)' = SentOn(k, d)
                /\ SendingSince(k, d)' = SendingSince(k, d)
                /\ Counts(k, d)' <=> Counts(k, d)
                /\ Full(k, d)' <=> Full(k, d)
      /\ Sending(k)' = Sending(k)
  BY <1>2 DEF SentOn, SendingSince, Counts, Full, Sending, DayOf
<1>4. /\ challenges'[k] # NoChallenge =>
           /\ challenges'[k].requests <= MaxDailySends
           /\ challenges'[k].day <= day
      /\ \A i \in DOMAIN sent' : DayOf(sent[i].time) <= day
      /\ \A i : DayOf(sent[i].time)' = DayOf(sent[i].time)
  <2>1. \A i : DayOf(sent[i].time)' = DayOf(sent[i].time)
    BY <1>2 DEF DayOf
  <2>2. QED
    BY <1>0, <1>2, <2>1 DEF SendsFit
<1>5. /\ challenges'[k] # NoChallenge =>
           /\ challenges'[k].requests <= MaxDailySends
           /\ challenges'[k].day <= next
      /\ \A i \in DOMAIN sent' : DayOf(sent[i].time)' <= next
  <2>1. challenges'[k] # NoChallenge => challenges'[k].day \in Nat
    BY <1>2, SendTypes
  <2>2. \A i \in DOMAIN sent' : DayOf(sent[i].time) \in Nat
    BY <1>2, SendTypes
  <2>3. challenges'[k] # NoChallenge =>
           /\ challenges'[k].requests <= MaxDailySends
           /\ challenges'[k].day <= next
    BY <1>1, <1>4, <2>1
  <2>4. ASSUME NEW i \in DOMAIN sent' PROVE DayOf(sent[i].time)' <= next
    <3>1. DayOf(sent[i].time) <= day /\ DayOf(sent[i].time) \in Nat
      BY <1>4, <2>2
    <3>2. DayOf(sent[i].time) <= next
      BY <1>1, <3>1
    <3>3. QED
      BY <1>4, <3>2
  <2>5. QED
    BY <2>3, <2>4
<1>6. ASSUME NEW d \in Nat, day < d
      PROVE  /\ Cardinality(SentOn(k, d)) = 0
             /\ ~Counts(k, d)
  <2>1. \A i \in DOMAIN sent : DayOf(sent[i].time) # d
    BY <1>1, <1>2, <1>4, <1>6, SendTypes
  <2>2. SentOn(k, d) = {}
    BY <2>1 DEF SentOn
  <2>3. ~Counts(k, d)
    BY <1>0, <1>1, <1>6, SendTypes DEF Counts, SendsFit
  <2>4. QED
    BY <2>2, <2>3, FS_EmptySet
<1>7. TodayFit(Cardinality(SentOn(k, day)), Cardinality(Early(k)),
               Counts(k, day), challenges[k].requests)
  BY <1>0, DayFits DEF SendsFit, TodayFitOf
<1>8. /\ Cardinality(Early(k)) \in Nat /\ Cardinality(Early(k)') \in Nat
      /\ Cardinality(Early(k)) <= Cardinality(Requests)
      /\ Cardinality(Early(k)') <= Cardinality(Requests)
  BY SenderSets, SenderCounts
<1>9. TodayFits(k)'
  <2>1. TodayFit(Cardinality(SentOn(k, next)), Cardinality(Early(k)'),
                 Counts(k, next), challenges[k].requests)
    <3>1. CASE next = day
      <4>1. Early(k)' = Early(k)
        BY <1>0, <1>1, <1>2, <1>3, <3>1 DEF Early, DayOf
      <4>2. QED
        BY <1>7, <3>1, <4>1
    <3>2. CASE next # day
      <4>1. day < next
        BY <1>1, <3>2
      <4>2. Cardinality(SentOn(k, next)) = 0 /\ ~Counts(k, next)
        BY <1>1, <1>6, <4>1
      <4>3. TodayFit(0, Cardinality(Early(k)'), FALSE, 0)
        BY <1>8, DayLimits
      <4>4. QED
        BY <4>2, <4>3 DEF TodayFit
    <3>3. QED
      BY <3>1, <3>2
  <2>2. TodayFit(Cardinality(SentOn(k, next)'), Cardinality(Early(k)'),
                 Counts(k, next)', challenges'[k].requests)
    <3>1. /\ SentOn(k, next)' = SentOn(k, next)
          /\ Counts(k, next)' <=> Counts(k, next)
          /\ challenges'[k].requests = challenges[k].requests
      BY <1>2, <1>3
    <3>2. TodayFit(Cardinality(SentOn(k, next)'), Cardinality(Early(k)'),
                   Counts(k, next), challenges'[k].requests)
      BY <2>1, <3>1
    <3>3. QED
      BY <3>1, <3>2 DEF TodayFit
  <2>3. QED
    BY <1>1, <2>2, DayFits DEF TodayFitOf
<1>10. ASSUME NEW d \in 0..DayOf(clock)', d < DayOf(clock)'
       PROVE  PastFits(k, d)'
  <2> DEFINE n == Cardinality(SentOn(k, d))
             t == Cardinality(SendingSince(k, d))
  <2>1. d \in Nat /\ d < next
    BY <1>1, <1>10
  <2>2. n \in Nat /\ t \in Nat /\ t <= Cardinality(Requests)
    BY SendTypes, SenderSets, SenderCounts
  <2>3. PastFit(n, t, Full(k, d))
    <3>1. CASE d < day
      <4>1. d \in 0..day
        BY <1>1, <2>1, <3>1
      <4>2. QED
        BY <1>0, <3>1, <4>1, DayFits DEF SendsFit, PastFitOf
    <3>2. CASE d = day
      <4>1. CASE challenges[k] = NoChallenge
        <5>1. ~Counts(k, day) /\ ~Full(k, d)
          BY <3>2, <4>1 DEF Counts, Full
        <5>2. TodayFit(n, Cardinality(Early(k)), FALSE, 0)
          BY <1>7, <3>2, <5>1 DEF TodayFit
        <5>3. PastFit(n, t, FALSE)
          BY <1>8, <2>2, <5>2, TodayEndsOpen
        <5>4. QED
          BY <5>1, <5>3 DEF PastFit
      <4>2. CASE challenges[k] # NoChallenge
        <5>1. /\ challenges[k].requests \in Nat
              /\ challenges[k].requests <= MaxDailySends
              /\ Counts(k, day) \in BOOLEAN
          BY <4>2, SendTypes DEF SendsFit
        <5>2. TodayFit(n, Cardinality(Early(k)), Counts(k, day),
                       challenges[k].requests)
          BY <1>7, <3>2
        <5>3. PastFit(n, t, /\ Counts(k, day)
                            /\ challenges[k].requests = MaxDailySends)
          BY <1>8, <2>2, <5>1, <5>2, TodayEnds
        <5>4. QED
          BY <3>2, <5>3 DEF PastFit, Full
      <4>3. QED
        BY <4>1, <4>2
    <3>3. CASE day < d
      <4>1. n = 0
        BY <1>6, <2>1, <3>3
      <4>2. PastFit(0, t, Full(k, d))
        BY <2>2, DayLimits
      <4>3. QED
        BY <4>1, <4>2
    <3>4. QED
      BY <1>1, <2>1, <3>1, <3>2, <3>3
  <2>4. PastFit(Cardinality(SentOn(k, d)'), Cardinality(SendingSince(k, d)'),
                Full(k, d)')
    <3>1. PastFit(Cardinality(SentOn(k, d)'),
                  Cardinality(SendingSince(k, d)'), Full(k, d))
      BY <1>3, <2>3
    <3>2. QED
      BY <1>3, <3>1 DEF PastFit
  <2>5. QED
    BY <2>4, DayFits DEF PastFitOf
<1>11. QED
  BY <1>1, <1>5, <1>9, <1>10 DEF SendsFit

LEMMA InitDays == Init => DailyInv
<1> SUFFICES ASSUME Init PROVE DailyInv
  OBVIOUS
<1>1. \A r \in Requests : at[r] = "idle"
  BY DEF Init
<1>2. NoneDeletes
  BY <1>1 DEF NoneDeletes
<1>3. ASSUME NEW k \in Keys PROVE SendsFit(k)
  <2>1. /\ \A d : SentOn(k, d) = {}
        /\ \A d : ~Counts(k, d)
        /\ challenges[k] = NoChallenge
        /\ DOMAIN sent = {}
    BY <1>3 DEF Init, SentOn, Counts
  <2>2. clock = 0 /\ DayOf(clock) = 0
    BY VerificationAssumption DEF Init, DayOf
  <2>3. Cardinality(Early(k)) \in Nat
        /\ Cardinality(Early(k)) <= Cardinality(Requests)
    BY SenderSets, SenderCounts
  <2>4. TodayFit(0, Cardinality(Early(k)), FALSE, 0)
    BY <2>3, DayLimits
  <2>5. TodayFits(k)
    <3>1. Cardinality(SentOn(k, DayOf(clock))) = 0
      BY <2>1, FS_EmptySet
    <3>2. ~Counts(k, DayOf(clock))
      BY <2>1
    <3>3. TodayFitOf(k)
      BY <2>4, <3>1, <3>2 DEF TodayFitOf, TodayFit
    <3>4. QED
      BY <3>3, DayFits
  <2>6. QED
    BY <2>1, <2>2, <2>5 DEF SendsFit
<1>4. QED
  BY <1>2, <1>3 DEF DailyInv

LEMMA NextDays ==
  ASSUME "delete" \notin Endpoints, TypeOK, TypeOK', DailyInv, [Next]_vars
  PROVE  DailyInv'
<1>1. /\ NoneDeletes' /\ ~\E r \in Requests : DeleteAccount(r)
      /\ SendersMove
  BY NoDeletion DEF DailyInv
<1>2. ASSUME NEW k \in Keys PROVE SendsFit(k)'
  <2>1. SendsFit(k)
    BY DEF DailyInv
  <2>2. CASE \E r \in Requests : IssueCode(r)
    BY <1>1, <2>1, <2>2, IssueKeepsSends
  <2>3. CASE Tick
    BY <2>1, <2>3, TickKeepsSends
  <2>4. CASE ~Tick /\ ~\E r \in Requests : IssueCode(r)
    <3>1. UNCHANGED sent /\ CounterKept(k)
      BY <1>1, <2>4, ChallengesKeepDays DEF CounterKept
    <3>2. clock' = clock
      <4>1. clock' = clock \/ Tick
        BY FailureSteps DEF Login, CompareLogin, RecordFailedLogin
      <4>2. QED
        BY <2>4, <4>1
    <3>3. \A d : SentOn(k, d)' = SentOn(k, d)
      BY <3>1 DEF SentOn
    <3>4. \A i \in DOMAIN sent' : DayOf(sent'[i].time) <= DayOf(clock)
      BY <2>1, <3>1 DEF SendsFit
    <3>5. QED
      BY <1>1, <2>1, <3>1, <3>2, <3>3, <3>4, OtherStepsKeepSends
  <2>5. QED
    BY <2>2, <2>3, <2>4
<1>3. QED
  BY <1>1, <1>2 DEF DailyInv

LEMMA SendsFitLimit ==
  ASSUME TypeOK, DailyInv
  PROVE  DailySendBound
<1> SUFFICES ASSUME NEW k \in Keys, NEW d \in 0..DayOf(MaxTime)
             PROVE  Cardinality(SentOn(k, d))
                      < (MaxDailySends + 1) * Cardinality(Requests)
  BY DEF DailySendBound
<1> DEFINE n == Cardinality(SentOn(k, d))
           t == Cardinality(SendingSince(k, d))
<1>1. d \in Nat /\ DayOf(clock) \in Nat /\ SendsFit(k)
  <2>1. DayOf(MaxTime) \in Nat
    BY DayType, AuthApiAssumption
  <2>2. QED
    BY <2>1, SendTypes DEF DailyInv
<1>2. /\ n \in Nat /\ t \in Nat /\ t <= Cardinality(Requests)
      /\ Cardinality(Early(k)) \in Nat
      /\ Cardinality(Early(k)) <= Cardinality(Requests)
  BY SendTypes, SenderSets, SenderCounts
<1>3. SUFFICES \E full : PastFit(n, t, full)
  BY <1>2, DayLimits
<1>4. CASE d < DayOf(clock)
  <2>1. d \in 0..DayOf(clock)
    BY <1>1, <1>4
  <2>2. QED
    BY <1>1, <1>4, <2>1, DayFits DEF SendsFit, PastFitOf
<1>5. CASE d = DayOf(clock)
  <2>1. TodayFit(n, Cardinality(Early(k)), Counts(k, d), challenges[k].requests)
    BY <1>1, <1>5, DayFits DEF SendsFit, TodayFitOf
  <2>2. CASE Counts(k, d)
    <3>1. challenges[k].requests \in Nat
          /\ challenges[k].requests <= MaxDailySends
      BY <1>1, <2>2, SendTypes DEF SendsFit, Counts
    <3>2. Counts(k, d) \in BOOLEAN
      BY SendTypes
    <3>3. QED
      BY <1>2, <2>1, <3>1, <3>2, TodayEnds
  <2>3. CASE ~Counts(k, d)
    <3>1. TodayFit(n, Cardinality(Early(k)), FALSE, 0)
      BY <2>1, <2>3 DEF TodayFit
    <3>2. QED
      BY <1>2, <3>1, TodayEndsOpen
  <2>4. QED
    BY <2>2, <2>3
<1>6. CASE DayOf(clock) < d
  <2>1. \A i \in DOMAIN sent : DayOf(sent[i].time) # d
    BY <1>1, <1>6, SendTypes DEF SendsFit
  <2>2. SentOn(k, d) = {}
    BY <2>1 DEF SentOn
  <2>3. n = 0
    BY <2>2, FS_EmptySet
  <2>4. QED
    BY <1>2, <2>3, DayLimits
<1>7. QED
  BY <1>1, <1>4, <1>5, <1>6

(* However sends interleave, also across midnight, and as long as no       *)
(* account is deleted: fewer than (MaxDailySends + 1) times the number of  *)
(* requests in flight on any day.                                          *)
THEOREM DailySends ==
  ASSUME "delete" \notin Endpoints
  PROVE  Spec => []DailySendBound
<1>1. Init => TypeOK /\ DailyInv
  BY InitTypes, InitDays
<1>2. TypeOK /\ DailyInv /\ [Next]_vars => (TypeOK /\ DailyInv)'
  BY NextTypes, NextDays
<1>3. TypeOK /\ DailyInv => DailySendBound
  BY SendsFitLimit
<1>4. QED
  BY <1>1, <1>2, <1>3, PTL DEF Spec
===============================================================================
