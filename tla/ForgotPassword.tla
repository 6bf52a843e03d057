----------------------------- MODULE ForgotPassword -----------------------------
(* The panel "forgot password" of the web app (ForgotPasswordModal): a code   *)
(* is mailed to the account's address, and with it the server replaces the    *)
(* password by a temporary one, which it mails or returns.  Closing the panel *)
(* unmounts the component; answers to it that are still on their way change   *)
(* nothing any more, while the server may already have acted on them.         *)
EXTENDS Naturals

CONSTANTS
    Accounts,      \* addresses with an account
    FirstAccount,  \* the address typed first
    Slots,         \* requests that may be in flight at once
    MaxCodes       \* bound: codes the server issues

None == 0
Codes == 1..MaxCodes

(* What a theorem about this module assumes of the constants.                 *)
ConstantsOK == FirstAccount \in Accounts /\ MaxCodes \in Nat

VARIABLES
    open,                        \* the panel is mounted
    panel,                       \* which mounting of the component it is
    email, code, codeSent, sending, submitting,
    tempPassword, delivered,     \* the outcome shown
    calls,
    live,                        \* the server: the code of each account, or none
    issued,                      \* the server: how many codes it has issued
    password                     \* the server: the code whose reset set the password

fields == <<email, code, codeSent, sending, submitting, tempPassword, delivered>>
serverVars == <<live, issued, password>>
vars == <<open, panel, fields, calls, serverVars>>

Free == [op |-> "free"]

(* A reset is answered with how the new password is told.                     *)
Calls == {Free}
    \cup [op: {"send"}, st: {"sent", "ok", "failed"}, email: Accounts, panel: 0..MaxCodes]
    \cup [op: {"reset"}, st: {"sent", "mailed", "returned", "failed"}, email: Accounts,
          code: Codes, panel: 0..MaxCodes]

TypeOK ==
    /\ open \in BOOLEAN
    /\ panel \in 0..MaxCodes
    /\ email \in Accounts
    /\ code \in Codes \cup {None}
    /\ codeSent \in BOOLEAN
    /\ sending \in BOOLEAN
    /\ submitting \in BOOLEAN
    /\ tempPassword \in Codes \cup {None}
    /\ delivered \in BOOLEAN
    /\ calls \in [Slots -> Calls]
    /\ live \in [Accounts -> Codes \cup {None}]
    /\ issued \in 0..MaxCodes
    /\ password \in [Accounts -> Codes \cup {None}]

EmptyPanel ==
    /\ email' = FirstAccount
    /\ code' = None
    /\ codeSent' = FALSE
    /\ sending' = FALSE
    /\ submitting' = FALSE
    /\ tempPassword' = None
    /\ delivered' = FALSE

(* The form is replaced by the outcome.                                       *)
FormShown == open /\ ~delivered /\ tempPassword = None

AnyPanel(c) == open
Mounted(c) == open /\ c.panel = panel

Sent(s, c) == calls[s] = Free /\ calls' = [calls EXCEPT ![s] = c]

-----------------------------------------------------------------------------
OpenPanel ==
    /\ ~open
    /\ panel < MaxCodes
    /\ open' = TRUE
    /\ panel' = panel + 1
    /\ EmptyPanel
    /\ UNCHANGED <<calls, serverVars>>

(* The cross, "cancel", and "close" under a delivered password.               *)
ClosePanel ==
    /\ open
    /\ open' = FALSE
    /\ EmptyPanel
    /\ UNCHANGED <<panel, calls, serverVars>>

(* The password is copied; when the clipboard refuses, the panel stays.       *)
HandleCopyAndClose ==
    /\ open /\ tempPassword # None
    /\ ClosePanel

ChangeEmail(e) ==
    /\ FormShown
    /\ e # email
    /\ email' = e
    /\ codeSent' = FALSE
    /\ UNCHANGED <<open, panel, code, sending, submitting, tempPassword, delivered, calls,
                   serverVars>>

ChangeCode(k) ==
    /\ FormShown
    /\ k \in 1..issued
    /\ code' = k
    /\ UNCHANGED <<open, panel, email, codeSent, sending, submitting, tempPassword,
                   delivered, calls, serverVars>>

HandleSendCode(s) ==
    /\ FormShown
    /\ ~sending
    /\ sending' = TRUE
    /\ Sent(s, [op |-> "send", st |-> "sent", email |-> email, panel |-> panel])
    /\ UNCHANGED <<open, panel, email, code, codeSent, submitting, tempPassword, delivered,
                   serverVars>>

SendAnswered(s) ==
    /\ calls[s].op = "send"
    /\ calls[s].st # "sent"
    /\ IF Mounted(calls[s])
       THEN sending' = FALSE /\ codeSent' = (codeSent \/ calls[s].st = "ok")
       ELSE UNCHANGED <<sending, codeSent>>
    /\ calls' = [calls EXCEPT ![s] = Free]
    /\ UNCHANGED <<open, panel, email, code, submitting, tempPassword, delivered, serverVars>>

(* The code need not have been sent by this panel.                            *)
HandleSubmit(s) ==
    /\ FormShown
    /\ ~submitting
    /\ code # None
    /\ submitting' = TRUE
    /\ Sent(s, [op |-> "reset", st |-> "sent", email |-> email, code |-> code, panel |-> panel])
    /\ UNCHANGED <<open, panel, email, code, codeSent, sending, tempPassword, delivered,
                   serverVars>>

SubmitAnswered(s) ==
    /\ calls[s].op = "reset"
    /\ calls[s].st # "sent"
    /\ IF Mounted(calls[s])
       THEN /\ submitting' = FALSE
            /\ delivered' = (calls[s].st = "mailed")
            /\ tempPassword' = IF calls[s].st = "returned" THEN calls[s].code ELSE None
       ELSE UNCHANGED <<submitting, delivered, tempPassword>>
    /\ calls' = [calls EXCEPT ![s] = Free]
    /\ UNCHANGED <<open, panel, email, code, codeSent, sending, serverVars>>

-----------------------------------------------------------------------------
(* The server: a new code replaces the account's code, a reset spends it and  *)
(* names the new password after it.  Answers may be lost.                     *)
ServeSend(s) ==
    LET c == calls[s] IN
    /\ c.op = "send" /\ c.st = "sent"
    /\ \/ /\ issued < MaxCodes
          /\ issued' = issued + 1
          /\ live' = [live EXCEPT ![c.email] = issued + 1]
          /\ \E st \in {"ok", "failed"} : calls' = [calls EXCEPT ![s].st = st]
       \/ calls' = [calls EXCEPT ![s].st = "failed"] /\ UNCHANGED <<live, issued>>
    /\ UNCHANGED <<open, panel, fields, password>>

ServeReset(s) ==
    LET c == calls[s] IN
    /\ c.op = "reset" /\ c.st = "sent"
    /\ \/ /\ live[c.email] = c.code
          /\ live' = [live EXCEPT ![c.email] = None]
          /\ password' = [password EXCEPT ![c.email] = c.code]
          /\ \E st \in {"mailed", "returned", "failed"} : calls' = [calls EXCEPT ![s].st = st]
       \/ calls' = [calls EXCEPT ![s].st = "failed"] /\ UNCHANGED <<live, password>>
    /\ UNCHANGED <<open, panel, fields, issued>>

Init ==
    /\ open = FALSE /\ panel = 0
    /\ email = FirstAccount /\ code = None /\ codeSent = FALSE
    /\ sending = FALSE /\ submitting = FALSE
    /\ tempPassword = None /\ delivered = FALSE
    /\ calls = [s \in Slots |-> Free]
    /\ live = [e \in Accounts |-> None] /\ issued = 0
    /\ password = [e \in Accounts |-> None]

Server(s) == calls[s] # Free /\ (ServeSend(s) \/ ServeReset(s))
Answers(s) == calls[s] # Free /\ (SendAnswered(s) \/ SubmitAnswered(s))

Next ==
    \/ OpenPanel \/ ClosePanel \/ HandleCopyAndClose
    \/ \E e \in Accounts : ChangeEmail(e)
    \/ \E k \in Codes : ChangeCode(k)
    \/ \E s \in Slots : HandleSendCode(s) \/ HandleSubmit(s) \/ Server(s) \/ Answers(s)

Spec == Init /\ [][Next]_vars

Fairness == \A s \in Slots : WF_vars(Server(s)) /\ WF_vars(Answers(s))

FairSpec == Spec /\ Fairness

-----------------------------------------------------------------------------
(* A temporary password on the screen is the one that some account has now:   *)
(* neither a reset of an earlier panel answered late, nor one of another      *)
(* address, can leave an outdated one there.                                  *)
ShownPasswordWorks ==
    tempPassword # None => \E e \in Accounts : password[e] = tempPassword

(* Why it holds.  A code that is being sent was issued before, so a code that *)
(* is issued later is none of those: an account keeps the password of a reset *)
(* until somebody submits again.                                              *)
CodesWereIssued ==
    /\ code <= issued
    /\ \A e \in Accounts : live[e] <= issued
    /\ \A s \in Slots : calls[s].op = "reset" => calls[s].code <= issued

Keeps(e, k) ==
    /\ password[e] = k
    /\ \A s \in Slots : calls[s].op = "reset" /\ calls[s].st = "sent" /\ calls[s].email = e =>
         calls[s].code # live[e]

(* Nobody does: the panel waits for one reset at a time and shows its outcome *)
(* instead of the form.                                                       *)
Awaited(s) == calls[s].op = "reset" /\ Mounted(calls[s])

OneIsAwaited ==
    /\ \A s \in Slots : calls[s].op = "reset" => calls[s].panel <= panel
    /\ \A s \in Slots : Awaited(s) => submitting /\ FormShown
    /\ \A s, t \in Slots : Awaited(s) /\ Awaited(t) => s = t

OutcomesWork ==
    /\ \A s \in Slots : Awaited(s) /\ calls[s].st = "returned" =>
         Keeps(calls[s].email, calls[s].code)
    /\ tempPassword # None => \E e \in Accounts : Keeps(e, tempPassword)

PanelInv == TypeOK /\ CodesWereIssued /\ OneIsAwaited /\ OutcomesWork

(* While the panel is open, no button of it stays locked.                     *)
Locks == {"sending", "submitting"}

Locked(lock) ==
    \/ lock = "sending" /\ sending
    \/ lock = "submitting" /\ submitting

PanelUnlocks == \A lock \in Locks : []<>~Locked(lock)
================================================================================
