------------------------------ MODULE RegisterForm ------------------------------
(* The sign-in and registration form of the web app (ManageAuthSection): an   *)
(* e-mail address is proven with a mailed code before the password is asked   *)
(* for.  The form keeps what was proven as a Boolean beside the address and   *)
(* the code, and five handlers and a timer change the three of them while     *)
(* requests are in flight.                                                    *)
EXTENDS Naturals

CONSTANTS
    Emails,      \* addresses the user may type
    FirstEmail,  \* the address typed first
    Slots,       \* requests that may be in flight at once
    MaxCodes     \* bound: codes the server issues

(* What a theorem about this module assumes of the constants.                 *)
ConstantsOK == FirstEmail \in Emails /\ MaxCodes \in Nat

Codes == 1..MaxCodes
NoCode == 0
Inputs == Codes \cup {NoCode}

VARIABLES
    email, mode,   \* the address, "login" or "register"
    auth,          \* somebody is signed in: the form is mounted but not shown
    codeSent, input, verified, verifying, sending,  \* the state of the component
    timer,         \* the expiry timer runs
    submitting,    \* the form is being submitted
    calls,         \* the requests in flight
    live,          \* the server: the code that proves each address, or none
    issued         \* the server: how many codes it has issued

(* History: what the server confirmed; whether the form changed between the   *)
(* request that set verified and its answer, or when a new code came after it.*)
VARIABLES confirmed, stale

formVars == <<codeSent, input, verified, verifying, timer>>
serverVars == <<live, issued>>
historyVars == <<confirmed, stale>>
vars == <<email, mode, auth, formVars, sending, submitting, calls, serverVars, historyVars>>

Free == [op |-> "free"]

(* alone: the form has not changed since a code was sent for verification.    *)
Calls == {Free}
    \cup [op: {"send", "login"}, st: {"sent", "ok", "failed"}, email: Emails]
    \cup [op: {"register"}, st: {"sent", "ok", "failed"}, email: Emails, code: Inputs]
    \cup [op: {"verify"}, st: {"sent", "ok", "failed"}, email: Emails, code: Inputs,
          alone: BOOLEAN]

TypeOK ==
    /\ email \in Emails
    /\ mode \in {"login", "register"}
    /\ auth \in BOOLEAN
    /\ codeSent \in BOOLEAN
    /\ input \in Inputs
    /\ verified \in BOOLEAN
    /\ verifying \in BOOLEAN
    /\ sending \in BOOLEAN
    /\ timer \in BOOLEAN
    /\ submitting \in BOOLEAN
    /\ calls \in [Slots -> Calls]
    /\ live \in [Emails -> Inputs]
    /\ issued \in Inputs
    /\ confirmed \in SUBSET (Emails \X Codes)
    /\ stale \in BOOLEAN

Sent(s, c) == calls[s] = Free /\ calls' = [calls EXCEPT ![s] = c]

(* The form changed: verifications in flight are about an earlier form.       *)
Overtaken(cs) ==
    [s \in Slots |-> IF cs[s].op = "verify" THEN [cs[s] EXCEPT !.alone = FALSE] ELSE cs[s]]

-----------------------------------------------------------------------------
(* The component's helpers, and what is on the screen.                        *)

KeepProof ==
    /\ codeSent' = FALSE /\ input' = NoCode /\ verifying' = FALSE /\ timer' = FALSE
    /\ UNCHANGED verified
ResetVerification ==
    /\ codeSent' = FALSE
    /\ input' = NoCode
    /\ verified' = FALSE
    /\ verifying' = FALSE
    /\ timer' = FALSE

Shown == ~auth
Registering == Shown /\ mode = "register"
EmailField == Shown /\ ~verified
SendButton == Registering /\ ~sending /\ ~(codeSent /\ verified)
CodeField == Registering /\ codeSent /\ ~verified /\ ~verifying
VerifyButton == CodeField /\ input # NoCode
SubmitButton == Shown /\ (mode = "register" => verified) /\ ~submitting

HandleEmailChange(e) ==
    /\ EmailField
    /\ e # email
    /\ email' = e
    /\ IF codeSent \/ input # NoCode \/ verified THEN ResetVerification
       ELSE UNCHANGED formVars
    /\ calls' = Overtaken(calls)
    /\ UNCHANGED <<mode, auth, sending, submitting, serverVars, historyVars>>

(* changeAuthMode, and the effect on the mode.                                *)
ChangeMode ==
    /\ Shown
    /\ mode' = IF mode = "login" THEN "register" ELSE "login"
    /\ ResetVerification
    /\ calls' = Overtaken(calls)
    /\ UNCHANGED <<email, auth, sending, submitting, serverVars, historyVars>>

(* Five minutes after the code was sent.  The timer runs while somebody is    *)
(* signed in as well: the component stays mounted and renders nothing.        *)
ExpireCode ==
    /\ timer
    /\ ResetVerification
    /\ calls' = Overtaken(calls)
    /\ UNCHANGED <<email, mode, auth, sending, submitting, serverVars, historyVars>>

(* A code that was mailed to the address, in full; a partial one enables      *)
(* nothing.                                                                   *)
TypeCode(k) ==
    /\ CodeField
    /\ k \in 1..issued
    /\ input' = k
    /\ calls' = Overtaken(calls)
    /\ UNCHANGED <<email, mode, auth, codeSent, verified, verifying, timer, sending,
                   submitting, serverVars, historyVars>>

HandleSendCode(s) ==
    /\ SendButton
    /\ sending' = TRUE
    /\ verified' = FALSE
    /\ Sent(s, [op |-> "send", st |-> "sent", email |-> email])
    /\ UNCHANGED <<email, mode, auth, codeSent, input, verifying, timer, submitting,
                   serverVars, historyVars>>

CodeArrivesUntimed ==
    codeSent' = TRUE /\ input' = NoCode /\ UNCHANGED timer /\ stale' = TRUE
CodeArrives == codeSent' = TRUE /\ input' = NoCode /\ timer' = TRUE /\ stale' = TRUE

SendAnswered(s) ==
    /\ calls[s].op = "send"
    /\ calls[s].st # "sent"
    /\ sending' = FALSE
    /\ IF calls[s].st = "ok"
       THEN CodeArrives
       ELSE UNCHANGED <<codeSent, input, timer, stale>>
    /\ calls' = Overtaken([calls EXCEPT ![s] = Free])
    /\ UNCHANGED <<email, mode, auth, verified, verifying, submitting, serverVars, confirmed>>

HandleVerifyCodeSubmit(s) ==
    /\ VerifyButton
    /\ verifying' = TRUE
    /\ calls[s] = Free
    /\ calls' = [Overtaken(calls) EXCEPT ![s] =
                   [op |-> "verify", st |-> "sent", email |-> email, code |-> input,
                    alone |-> TRUE]]
    /\ UNCHANGED <<email, mode, auth, codeSent, input, verified, timer, sending, submitting,
                   serverVars, historyVars>>

VerifyAnswered(s) ==
    /\ calls[s].op = "verify"
    /\ calls[s].st # "sent"
    /\ verifying' = FALSE
    /\ verified' = (calls[s].st = "ok")
    /\ stale' = ~calls[s].alone
    /\ calls' = [calls EXCEPT ![s] = Free]
    /\ UNCHANGED <<email, mode, auth, codeSent, input, timer, sending, submitting,
                   serverVars, confirmed>>

(* handleSubmitForm and submitAuth: the hidden field holds the code as it is  *)
(* when the form is submitted.                                                *)
HandleSubmitForm(s) ==
    /\ SubmitButton
    /\ submitting' = TRUE
    /\ Sent(s, IF mode = "login" THEN [op |-> "login", st |-> "sent", email |-> email]
               ELSE [op |-> "register", st |-> "sent", email |-> email, code |-> input])
    /\ UNCHANGED <<email, mode, auth, formVars, sending, serverVars, historyVars>>

AuthAnswered(s) ==
    /\ calls[s].op \in {"login", "register"}
    /\ calls[s].st # "sent"
    /\ submitting' = FALSE
    /\ auth' = (auth \/ calls[s].st = "ok")
    /\ calls' = [calls EXCEPT ![s] = Free]
    /\ UNCHANGED <<email, mode, formVars, sending, serverVars, historyVars>>

(* A 401 or a logout elsewhere in the page: the form is shown again as it was.*)
SignedOut ==
    /\ auth
    /\ auth' = FALSE
    /\ UNCHANGED <<email, mode, formVars, sending, submitting, calls, serverVars, historyVars>>

-----------------------------------------------------------------------------
(* The server, seen from this form: the latest code of an address proves it   *)
(* until it expires or a registration spends it.  A request may fail without  *)
(* effect, and an answer may be lost after it.                                *)
ServeSend(s) ==
    LET c == calls[s] IN
    /\ c.op = "send" /\ c.st = "sent"
    /\ \/ /\ issued < MaxCodes
          /\ issued' = issued + 1
          /\ live' = [live EXCEPT ![c.email] = issued + 1]
          /\ \E st \in {"ok", "failed"} : calls' = [calls EXCEPT ![s].st = st]
       \/ calls' = [calls EXCEPT ![s].st = "failed"] /\ UNCHANGED serverVars
    /\ UNCHANGED <<email, mode, auth, formVars, sending, submitting, historyVars>>

ServeVerify(s) ==
    LET c == calls[s] IN
    /\ c.op = "verify" /\ c.st = "sent"
    /\ \/ /\ live[c.email] = c.code
          /\ confirmed' = confirmed \cup {<<c.email, c.code>>}
          /\ calls' = [calls EXCEPT ![s].st = "ok"]
       \/ calls' = [calls EXCEPT ![s].st = "failed"] /\ UNCHANGED confirmed
    /\ UNCHANGED <<email, mode, auth, formVars, sending, submitting, serverVars, stale>>

ServeAuth(s) ==
    LET c == calls[s] IN
    /\ c.st = "sent"
    /\ \/ /\ c.op = "register"
          /\ c.code # NoCode /\ live[c.email] = c.code
          /\ live' = [live EXCEPT ![c.email] = NoCode]
          /\ \E st \in {"ok", "failed"} : calls' = [calls EXCEPT ![s].st = st]
       \/ /\ c.op = "login"
          /\ calls' = [calls EXCEPT ![s].st = "ok"]
          /\ UNCHANGED live
       \/ /\ c.op \in {"login", "register"}
          /\ calls' = [calls EXCEPT ![s].st = "failed"]
          /\ UNCHANGED live
    /\ UNCHANGED <<email, mode, auth, formVars, sending, submitting, issued, historyVars>>

CodeExpires(e) ==
    /\ live[e] # NoCode
    /\ live' = [live EXCEPT ![e] = NoCode]
    /\ UNCHANGED <<email, mode, auth, formVars, sending, submitting, calls, issued, historyVars>>

-----------------------------------------------------------------------------
Init ==
    /\ email = FirstEmail
    /\ mode = "login"
    /\ auth = FALSE
    /\ codeSent = FALSE /\ input = NoCode /\ verified = FALSE /\ verifying = FALSE
    /\ timer = FALSE /\ sending = FALSE /\ submitting = FALSE
    /\ calls = [s \in Slots |-> Free]
    /\ live = [e \in Emails |-> NoCode] /\ issued = 0
    /\ confirmed = {} /\ stale = FALSE

Server(s) == calls[s] # Free /\ (ServeSend(s) \/ ServeVerify(s) \/ ServeAuth(s))
Answers(s) == calls[s] # Free /\ (SendAnswered(s) \/ VerifyAnswered(s) \/ AuthAnswered(s))

Next ==
    \/ ChangeMode \/ ExpireCode \/ SignedOut
    \/ \E e \in Emails : HandleEmailChange(e) \/ CodeExpires(e)
    \/ \E k \in Codes : TypeCode(k)
    \/ \E s \in Slots :
         \/ HandleSendCode(s) \/ HandleVerifyCodeSubmit(s) \/ HandleSubmitForm(s)
         \/ Server(s) \/ Answers(s)

Spec == Init /\ [][Next]_vars

(* Every fetch settles and its continuation runs; the timer fires.            *)
Fairness ==
    /\ WF_vars(ExpireCode)
    /\ \A s \in Slots : WF_vars(Server(s)) /\ WF_vars(Answers(s))

FairSpec == Spec /\ Fairness

-----------------------------------------------------------------------------
(* Properties.                                                                *)

(* Whatever is edited, sent again, expires or is switched after a code was    *)
(* confirmed, "e-mail verified" stands beside the address and the code that   *)
(* the server confirmed together.  An answer that comes after the form        *)
(* changed, or after the five minutes, is left out (stale): the code takes it *)
(* for one about the form as it then is, and shows "verified" over a pair     *)
(* that nobody confirmed; the server refuses the registration.                *)
VerifiedPairWasConfirmed ==
    verified /\ ~stale => <<email, input>> \in confirmed

(* A proof of the form as it stands ends with the five minutes of its code,   *)
(* whoever signs in or out meanwhile.  One that a late answer left has no     *)
(* timer, and is left out (stale).                                            *)
Proven == verified /\ ~stale
Unproven == ~verified
ProofsExpire == Proven ~> Unproven

(* No button stays locked.                                                    *)
Locks == {"sending", "verifying", "submitting"}

Locked(lock) ==
    \/ lock = "sending" /\ sending
    \/ lock = "verifying" /\ verifying
    \/ lock = "submitting" /\ submitting

ButtonsUnlock == \A lock \in Locks : []<>~Locked(lock)
================================================================================
