-------------------------- MODULE RegisterForm_proofs --------------------------
(* Theorems about RegisterForm: the types of its state, and that an address   *)
(* and a code the form calls verified were confirmed together by the server   *)
(* -- for every number of addresses, of codes and of requests in flight.      *)
EXTENDS RegisterForm, TLAPS

Verifications == {s \in Slots : calls[s].op = "verify"}

(* A verification the form has not changed since is about the form as it is.  *)
AloneIsAboutForm ==
    \A s \in Verifications : calls[s].alone =>
      calls[s].email = email /\ calls[s].code = input

(* An empty code is never sent for verification, and a good answer is one the *)
(* server gave.                                                               *)
AnswersAreConfirmed ==
    \A s \in Verifications :
      /\ calls[s].code # NoCode
      /\ calls[s].st = "ok" => <<calls[s].email, calls[s].code>> \in confirmed

IInv == TypeOK /\ AloneIsAboutForm /\ AnswersAreConfirmed /\ VerifiedPairWasConfirmed

-----------------------------------------------------------------------------
(* The kinds of requests.                                                     *)
Auths == [op: {"send", "login"}, st: {"sent", "ok", "failed"}, email: Emails]
Creations ==
    [op: {"register"}, st: {"sent", "ok", "failed"}, email: Emails, code: Inputs]
Checks ==
    [op: {"verify"}, st: {"sent", "ok", "failed"}, email: Emails, code: Inputs,
     alone: BOOLEAN]

LEMMA CallKinds ==
    ASSUME NEW c \in Calls
    PROVE  /\ c = Free \/ c \in Auths \/ c \in Creations \/ c \in Checks
           /\ c.op = "verify" => c \in Checks
           /\ c.op = "register" => c \in Creations
           /\ c.op \in {"send", "login"} => c \in Auths
BY DEF Calls, Free, Auths, Creations, Checks

LEMMA KindsAreCalls ==
    Free \in Calls /\ Auths \subseteq Calls /\ Creations \subseteq Calls /\ Checks \subseteq Calls
BY DEF Calls, Auths, Creations, Checks

(* The form changed: the same verifications, none of them about this form.    *)
LEMMA OvertakenEffect ==
    ASSUME NEW cs \in [Slots -> Calls]
    PROVE  /\ Overtaken(cs) \in [Slots -> Calls]
           /\ \A s \in Slots :
                /\ Overtaken(cs)[s].op = "verify" <=> cs[s].op = "verify"
                /\ cs[s].op # "verify" => Overtaken(cs)[s] = cs[s]
                /\ cs[s].op = "verify" =>
                     /\ ~Overtaken(cs)[s].alone
                     /\ Overtaken(cs)[s].st = cs[s].st
                     /\ Overtaken(cs)[s].email = cs[s].email
                     /\ Overtaken(cs)[s].code = cs[s].code
<1>1. ASSUME NEW c \in Checks
      PROVE  /\ [c EXCEPT !.alone = FALSE] \in Checks
             /\ [c EXCEPT !.alone = FALSE].op = "verify"
             /\ ~[c EXCEPT !.alone = FALSE].alone
             /\ [c EXCEPT !.alone = FALSE].st = c.st
             /\ [c EXCEPT !.alone = FALSE].email = c.email
             /\ [c EXCEPT !.alone = FALSE].code = c.code
  BY DEF Checks
<1>2. ASSUME NEW s \in Slots
      PROVE  /\ cs[s].op # "verify" => Overtaken(cs)[s] = cs[s]
             /\ cs[s].op = "verify" => Overtaken(cs)[s] = [cs[s] EXCEPT !.alone = FALSE]
             /\ cs[s].op = "verify" => cs[s] \in Checks
  BY CallKinds DEF Overtaken
<1>3. \A s \in Slots : Overtaken(cs)[s] \in Calls
  BY <1>1, <1>2, KindsAreCalls
<1>4. Overtaken(cs) \in [Slots -> Calls]
  BY <1>3 DEF Overtaken
<1>5. ASSUME NEW s \in Slots, cs[s].op = "verify"
      PROVE  /\ Overtaken(cs)[s].op = "verify"
             /\ ~Overtaken(cs)[s].alone
             /\ Overtaken(cs)[s].st = cs[s].st
             /\ Overtaken(cs)[s].email = cs[s].email
             /\ Overtaken(cs)[s].code = cs[s].code
  <2>1. cs[s] \in Checks /\ Overtaken(cs)[s] = [cs[s] EXCEPT !.alone = FALSE]
    BY <1>2, <1>5
  <2> QED
    BY <1>1, <2>1
<1> QED
  BY <1>2, <1>4, <1>5

(* One request becomes another: what the others are stays.                    *)
LEMMA PutEffect ==
    ASSUME NEW cs \in [Slots -> Calls], NEW s \in Slots, NEW c \in Calls
    PROVE  /\ [cs EXCEPT ![s] = c] \in [Slots -> Calls]
           /\ [cs EXCEPT ![s] = c][s] = c
           /\ \A t \in Slots \ {s} : [cs EXCEPT ![s] = c][t] = cs[t]
OBVIOUS

(* A request is served: it is the same request, with an answer.               *)
LEMMA SettledEffect ==
    ASSUME NEW c \in Calls, c # Free, NEW st \in {"ok", "failed"}
    PROVE  /\ [c EXCEPT !.st = st] \in Calls
           /\ [c EXCEPT !.st = st].op = c.op
           /\ c.op = "verify" =>
                /\ [c EXCEPT !.st = st].st = st
                /\ [c EXCEPT !.st = st].alone => c.alone
                /\ [c EXCEPT !.st = st].email = c.email
                /\ [c EXCEPT !.st = st].code = c.code
<1> DEFINE d == [c EXCEPT !.st = st]
<1>1. c \in Auths \/ c \in Creations \/ c \in Checks
  BY CallKinds
<1>2. CASE c \in Auths
  <2>1. d \in Auths /\ d.op = c.op /\ c.op # "verify"
    BY <1>2 DEF Auths
  <2> QED
    BY <2>1, KindsAreCalls
<1>3. CASE c \in Creations
  <2>1. d \in Creations /\ d.op = c.op /\ c.op # "verify"
    BY <1>3 DEF Creations
  <2> QED
    BY <2>1, KindsAreCalls
<1>4. CASE c \in Checks
  <2>1. /\ d \in Checks /\ d.op = c.op /\ d.st = st
        /\ (d.alone => c.alone) /\ d.email = c.email /\ d.code = c.code
    BY <1>4 DEF Checks
  <2> QED
    BY <2>1, KindsAreCalls
<1> QED
  BY <1>1, <1>2, <1>3, <1>4

-----------------------------------------------------------------------------
(* Verifications only go, or lose their claim on the form.                    *)
Fewer ==
    \A s \in Slots : calls'[s].op = "verify" =>
      /\ calls[s].op = "verify"
      /\ calls'[s].st = calls[s].st
      /\ calls'[s].email = calls[s].email /\ calls'[s].code = calls[s].code
      /\ calls'[s].alone => calls[s].alone /\ email' = email /\ input' = input

LEMMA FewerKeeps ==
    ASSUME IInv, Fewer, TypeOK', confirmed' = confirmed,
           \/ ~verified' \/ stale'
           \/ verified' = verified /\ stale' = stale /\ email' = email /\ input' = input
    PROVE  IInv'
<1> USE DEF IInv
<1>1. AloneIsAboutForm'
  BY DEF AloneIsAboutForm, Verifications, Fewer
<1>2. AnswersAreConfirmed'
  BY DEF AnswersAreConfirmed, Verifications, Fewer
<1>3. VerifiedPairWasConfirmed'
  BY DEF VerifiedPairWasConfirmed
<1> QED
  BY <1>1, <1>2, <1>3

LEMMA Zero == NoCode \in Inputs /\ \A k \in Codes : k \in Inputs
BY DEF Inputs

(* The handlers that change the form.                                         *)
LEMMA FormChangeKeeps ==
    ASSUME IInv,
           \/ ChangeMode \/ ExpireCode
           \/ \E e \in Emails : HandleEmailChange(e)
           \/ \E k \in Codes : TypeCode(k)
    PROVE  IInv'
<1> USE DEF IInv
<1>1. calls' = Overtaken(calls) /\ calls \in [Slots -> Calls]
  BY DEF ChangeMode, ExpireCode, HandleEmailChange, TypeCode, TypeOK
<1>2. calls' \in [Slots -> Calls] /\ Fewer
  BY <1>1, OvertakenEffect DEF Fewer
<1>3. ~verified' /\ verified' \in BOOLEAN /\ UNCHANGED <<sending, submitting, auth, serverVars, historyVars>>
  BY DEF ChangeMode, ExpireCode, HandleEmailChange, TypeCode, ResetVerification, EmailField,
         CodeField, formVars, TypeOK
<1>4. /\ email' \in Emails /\ mode' \in {"login", "register"}
      /\ codeSent' \in BOOLEAN /\ input' \in Inputs /\ verifying' \in BOOLEAN
      /\ timer' \in BOOLEAN
  BY Zero DEF ChangeMode, ExpireCode, HandleEmailChange, TypeCode, ResetVerification, formVars,
         TypeOK
<1>5. TypeOK'
  BY <1>2, <1>3, <1>4 DEF TypeOK, serverVars, historyVars
<1> QED
  BY <1>2, <1>3, <1>5, FewerKeeps DEF historyVars

LEMMA SendKeeps ==
    ASSUME IInv, NEW s \in Slots, HandleSendCode(s) \/ HandleSubmitForm(s)
    PROVE  IInv'
<1> USE DEF IInv
<1>1. PICK c \in Calls : calls' = [calls EXCEPT ![s] = c] /\ c.op # "verify"
  BY KindsAreCalls DEF HandleSendCode, HandleSubmitForm, Sent, Auths, Creations, TypeOK
<1>2. calls' \in [Slots -> Calls] /\ Fewer
  BY <1>1, PutEffect DEF Fewer, TypeOK, HandleSendCode, HandleSubmitForm, formVars
<1>3. TypeOK'
  BY <1>2 DEF TypeOK, HandleSendCode, HandleSubmitForm, formVars, serverVars, historyVars
<1> QED
  BY <1>2, <1>3, FewerKeeps DEF HandleSendCode, HandleSubmitForm, formVars, historyVars

LEMMA SendAnsweredKeeps ==
    ASSUME IInv, NEW s \in Slots, SendAnswered(s)
    PROVE  IInv'
<1> USE DEF IInv
<1> DEFINE rest == [calls EXCEPT ![s] = Free]
<1>1. /\ rest \in [Slots -> Calls]
      /\ rest[s] = Free
      /\ \A t \in Slots \ {s} : rest[t] = calls[t]
  BY PutEffect, KindsAreCalls DEF TypeOK
<1>2. calls' = Overtaken(rest)
  BY DEF SendAnswered
<1> HIDE DEF rest
<1>3. calls' \in [Slots -> Calls] /\ Fewer
  BY <1>1, <1>2, OvertakenEffect DEF Fewer, Free
<1>4. /\ UNCHANGED <<email, mode, auth, verified, verifying, submitting, live, issued, confirmed>>
      /\ codeSent' \in BOOLEAN /\ input' \in Inputs /\ timer' \in BOOLEAN
      /\ sending' \in BOOLEAN /\ stale' \in BOOLEAN
      /\ stale' = TRUE \/ UNCHANGED <<input, stale>>
  BY Zero DEF SendAnswered, CodeArrives, TypeOK, serverVars
<1>5. TypeOK'
  BY <1>3, <1>4 DEF TypeOK
<1> QED
  BY <1>3, <1>4, <1>5, FewerKeeps

LEMMA AuthAnsweredKeeps ==
    ASSUME IInv, NEW s \in Slots, AuthAnswered(s)
    PROVE  IInv'
<1> USE DEF IInv
<1>1. calls' = [calls EXCEPT ![s] = Free]
      /\ UNCHANGED <<email, mode, formVars, sending, serverVars, historyVars>>
      /\ submitting' \in BOOLEAN /\ auth' \in BOOLEAN
  BY DEF AuthAnswered, TypeOK
<1>2. calls' \in [Slots -> Calls] /\ Fewer
  BY <1>1, PutEffect, KindsAreCalls DEF Fewer, TypeOK, formVars, Free
<1>3. TypeOK'
  BY <1>1, <1>2 DEF TypeOK, formVars, serverVars, historyVars
<1> QED
  BY <1>1, <1>2, <1>3, FewerKeeps DEF formVars, historyVars

LEMMA VerifySentKeeps ==
    ASSUME IInv, NEW s \in Slots, HandleVerifyCodeSubmit(s)
    PROVE  IInv'
<1> USE DEF IInv
<1> DEFINE c == [op |-> "verify", st |-> "sent", email |-> email, code |-> input,
                 alone |-> TRUE]
           cs == Overtaken(calls)
<1>1. c \in Calls
  BY DEF TypeOK, Calls
<1>2. c.st = "sent" /\ c.email = email /\ c.code = input /\ input # NoCode
  BY DEF HandleVerifyCodeSubmit, VerifyButton
<1>3. calls' = [cs EXCEPT ![s] = c]
  BY DEF HandleVerifyCodeSubmit
<1>4. /\ cs \in [Slots -> Calls]
      /\ \A t \in Slots : /\ cs[t].op = "verify" <=> calls[t].op = "verify"
                          /\ cs[t].op = "verify" =>
                               /\ ~cs[t].alone /\ cs[t].st = calls[t].st
                               /\ cs[t].email = calls[t].email /\ cs[t].code = calls[t].code
  BY OvertakenEffect DEF TypeOK
<1> HIDE DEF c, cs
<1>5. /\ calls' \in [Slots -> Calls] /\ calls'[s] = c
      /\ \A t \in Slots \ {s} : calls'[t] = cs[t]
  BY <1>1, <1>3, <1>4, PutEffect
<1>6. /\ UNCHANGED <<email, mode, auth, codeSent, input, verified, timer, sending, submitting,
                     serverVars, historyVars>>
      /\ verifying' \in BOOLEAN
  BY DEF HandleVerifyCodeSubmit
<1>7. TypeOK'
  BY <1>5, <1>6 DEF TypeOK, serverVars, historyVars
<1>8. AloneIsAboutForm'
  BY <1>2, <1>4, <1>5, <1>6 DEF AloneIsAboutForm, Verifications
<1>9. AnswersAreConfirmed'
  BY <1>2, <1>4, <1>5, <1>6 DEF AnswersAreConfirmed, Verifications, historyVars
<1>10. VerifiedPairWasConfirmed'
  BY <1>6 DEF VerifiedPairWasConfirmed, historyVars
<1> QED
  BY <1>7, <1>8, <1>9, <1>10

LEMMA VerifyAnsweredKeeps ==
    ASSUME IInv, NEW s \in Slots, VerifyAnswered(s)
    PROVE  IInv'
<1> USE DEF IInv
<1>1. /\ s \in Verifications /\ calls[s] \in Checks
      /\ calls' = [calls EXCEPT ![s] = Free]
      /\ verified' = (calls[s].st = "ok") /\ stale' = ~calls[s].alone
      /\ UNCHANGED <<email, mode, auth, codeSent, input, timer, sending, submitting,
                     serverVars, confirmed>>
      /\ verifying' \in BOOLEAN
  BY CallKinds DEF VerifyAnswered, Verifications, TypeOK
<1>2. /\ calls' \in [Slots -> Calls]
      /\ \A t \in Slots : calls'[t].op = "verify" => calls'[t] = calls[t]
  BY <1>1, PutEffect, KindsAreCalls DEF TypeOK, Free
<1>3. verified' \in BOOLEAN /\ stale' \in BOOLEAN
  BY <1>1
<1>4. TypeOK'
  BY <1>1, <1>2, <1>3 DEF TypeOK, serverVars
<1>5. AloneIsAboutForm' /\ AnswersAreConfirmed'
  BY <1>1, <1>2 DEF AloneIsAboutForm, AnswersAreConfirmed, Verifications
<1>6. VerifiedPairWasConfirmed'
  BY <1>1 DEF VerifiedPairWasConfirmed, AloneIsAboutForm, AnswersAreConfirmed
<1> QED
  BY <1>4, <1>5, <1>6

(* The server answers: the pairs it confirms are those of good answers.       *)
LEMMA ServerKeeps ==
    ASSUME ConstantsOK, IInv, NEW s \in Slots, Server(s)
    PROVE  IInv'
<1> USE DEF IInv
<1>1. /\ calls[s] # Free
      /\ UNCHANGED <<email, mode, auth, formVars, sending, submitting, stale>>
  BY DEF Server, ServeSend, ServeVerify, ServeAuth, historyVars
<1>2. PICK st \in {"ok", "failed"} : calls' = [calls EXCEPT ![s].st = st]
  BY DEF Server, ServeSend, ServeVerify, ServeAuth
<1>3. /\ calls' \in [Slots -> Calls]
      /\ \A t \in Slots \ {s} : calls'[t] = calls[t]
      /\ calls'[s].op = calls[s].op
      /\ calls[s].op = "verify" =>
           /\ calls'[s].st = st /\ (calls'[s].alone => calls[s].alone)
           /\ calls'[s].email = calls[s].email /\ calls'[s].code = calls[s].code
  <2> DEFINE d == [calls[s] EXCEPT !.st = st]
  <2>1. calls \in [Slots -> Calls] /\ calls[s] \in Calls
    BY DEF TypeOK
  <2>2. /\ d \in Calls /\ d.op = calls[s].op
        /\ calls[s].op = "verify" =>
             /\ d.st = st /\ (d.alone => calls[s].alone)
             /\ d.email = calls[s].email /\ d.code = calls[s].code
    BY <1>1, <2>1, SettledEffect
  <2>3. calls' = [calls EXCEPT ![s] = d]
    BY <1>2, <2>1
  <2> HIDE DEF d
  <2> QED
    BY <2>1, <2>2, <2>3, PutEffect
<1>4. AloneIsAboutForm'
  BY <1>1, <1>3 DEF AloneIsAboutForm, Verifications, formVars
<1>5. CASE ServeVerify(s)
  <2>1. s \in Verifications /\ calls[s] \in Checks /\ calls[s].code # NoCode
    BY <1>5, CallKinds DEF ServeVerify, Verifications, TypeOK, AnswersAreConfirmed
  <2>2. calls[s].email \in Emails /\ calls[s].code \in Codes
    BY <2>1 DEF Checks, Inputs
  <2>3. /\ confirmed \subseteq confirmed' /\ confirmed' \in SUBSET (Emails \X Codes)
        /\ UNCHANGED serverVars
    BY <1>5, <2>2 DEF ServeVerify, TypeOK
  <2>4. calls'[s].st = "ok" => <<calls[s].email, calls[s].code>> \in confirmed'
    <3>1. CASE live[calls[s].email] = calls[s].code
               /\ confirmed' = confirmed \cup {<<calls[s].email, calls[s].code>>}
      BY <3>1
    <3>2. CASE calls' = [calls EXCEPT ![s].st = "failed"]
      <4>1. calls'[s].st = "failed"
        BY <2>1, <3>2 DEF Checks, TypeOK
      <4> QED
        BY <4>1
    <3> QED
      BY <1>5, <3>1, <3>2 DEF ServeVerify
  <2>5. TypeOK'
    BY <1>1, <1>3, <2>3 DEF TypeOK, serverVars, formVars
  <2>6. AnswersAreConfirmed'
    BY <1>3, <2>1, <2>3, <2>4 DEF AnswersAreConfirmed, Verifications
  <2>7. VerifiedPairWasConfirmed'
    BY <1>1, <2>3 DEF VerifiedPairWasConfirmed, formVars
  <2> QED
    BY <1>4, <2>5, <2>6, <2>7
<1>6. CASE ServeSend(s) \/ ServeAuth(s)
  <2>1. calls[s].op # "verify" /\ UNCHANGED confirmed
    BY <1>6 DEF ServeSend, ServeAuth, historyVars
  <2>2. issued' \in Inputs /\ live' \in [Emails -> Inputs]
    <3>1. CASE ServeSend(s)
      <4>1. issued < MaxCodes => issued + 1 \in Inputs
        BY DEF ConstantsOK, TypeOK, Inputs, Codes, NoCode
      <4> QED
        BY <3>1, <4>1 DEF ServeSend, TypeOK, serverVars
    <3>2. CASE ServeAuth(s)
      BY <3>2, Zero DEF ServeAuth, TypeOK
    <3> QED
      BY <1>6, <3>1, <3>2
  <2>3. TypeOK'
    BY <1>1, <1>3, <2>1, <2>2 DEF TypeOK, formVars
  <2>4. AnswersAreConfirmed'
    BY <1>3, <2>1 DEF AnswersAreConfirmed, Verifications
  <2>5. VerifiedPairWasConfirmed'
    BY <1>1, <2>1 DEF VerifiedPairWasConfirmed, formVars
  <2> QED
    BY <1>4, <2>3, <2>4, <2>5
<1> QED
  BY <1>5, <1>6 DEF Server

LEMMA SurroundingsKeep ==
    ASSUME IInv, SignedOut \/ (\E e \in Emails : CodeExpires(e)) \/ UNCHANGED vars
    PROVE  IInv'
<1> USE DEF IInv
<1>1. /\ UNCHANGED <<email, mode, formVars, sending, submitting, calls, issued, historyVars>>
      /\ auth' \in BOOLEAN /\ live' \in [Emails -> Inputs]
  BY Zero DEF SignedOut, CodeExpires, vars, serverVars, TypeOK
<1>2. TypeOK'
  BY <1>1 DEF TypeOK, formVars, historyVars
<1>3. Fewer
  BY <1>1 DEF Fewer, formVars
<1> QED
  BY <1>1, <1>2, <1>3, FewerKeeps DEF formVars, historyVars

LEMMA Initially == ASSUME ConstantsOK, Init PROVE IInv
<1>1. 0 \in Inputs
  BY DEF Inputs, NoCode
<1>2. TypeOK
  BY <1>1, KindsAreCalls DEF ConstantsOK, Init, TypeOK, NoCode
<1>3. Verifications = {}
  BY DEF Init, Verifications, Free
<1> QED
  BY <1>2, <1>3 DEF Init, IInv, AloneIsAboutForm, AnswersAreConfirmed, VerifiedPairWasConfirmed

LEMMA StepKeeps == ASSUME ConstantsOK, IInv, [Next]_vars PROVE IInv'
BY FormChangeKeeps, SendKeeps, SendAnsweredKeeps, AuthAnsweredKeeps, VerifySentKeeps,
   VerifyAnsweredKeeps, ServerKeeps, SurroundingsKeep DEF Next, Answers

-----------------------------------------------------------------------------
LEMMA Invariance == ASSUME ConstantsOK PROVE Spec => []IInv
<1>1. Init => IInv
  BY Initially
<1>2. IInv /\ [Next]_vars => IInv'
  BY StepKeeps
<1> QED
  BY <1>1, <1>2, PTL DEF Spec

(* The state of the form keeps its types.                                     *)
THEOREM RegisterTypes == ASSUME ConstantsOK PROVE Spec => []TypeOK
<1>1. IInv => TypeOK
  BY DEF IInv
<1> QED
  BY <1>1, Invariance, PTL

(* "E-mail verified" is about the address and the code of the form, for any   *)
(* interleaving of its handlers, its timer and the answers.                   *)
THEOREM VerifiedPair == ASSUME ConstantsOK PROVE Spec => []VerifiedPairWasConfirmed
<1>1. IInv => VerifiedPairWasConfirmed
  BY DEF IInv
<1> QED
  BY <1>1, Invariance, PTL

================================================================================
