--------------------------- MODULE OwnerSession_proofs --------------------------
(* Proofs about the session and the trip list: a list of the server on the    *)
(* screen is the account's of the header, and it is up to date.               *)
(* Every step of the page is one of a few kinds, told apart by what they do   *)
(* to the account, the list and the requests; each part of the invariant is   *)
(* shown to survive each kind.                                                *)
EXTENDS OwnerSession, TLAPS

-----------------------------------------------------------------------------
(* The kinds of steps.                                                        *)

(* What only these steps change.                                              *)
held == <<auth, list, cookie, cache>>
Quiet == UNCHANGED <<held, checked, loading, server, foreign, blurred>>

SendsSomething(s) ==
    /\ Quiet /\ checked
    /\ \E op \in Ops \ {"me", "list"}, arg \in Users \cup Ids \cup {None} :
         /\ Send(s, op, arg)
         /\ op = "login" => arg \in Users
         /\ op \in {"create", "delete"} => auth # SignedOut /\ ~loading
         /\ op = "delete" => arg \in list.trips

(* An answer that changes neither the account nor the list.                   *)
HearsNothing(s) ==
    LET c == calls[s] IN
    /\ UNCHANGED <<held, server>>
    /\ c # Free
    /\ calls' = [calls EXCEPT ![s] = Free]
    /\ c.st = "ok" => c.op = "list" /\ ~c.live
    /\ c.st # "sent"
    /\ checked' <=> checked \/ c.op = "me"
    /\ loading => loading' \/ (c.op = "list" /\ c.live /\ cache = NoTrips)
    /\ loading' => loading
    /\ foreign => foreign'
    /\ blurred => blurred'
    /\ c.op \in {"create", "delete"} /\ (c.st = "failed" \/ InFlight({"list"})) => blurred'
    /\ c.op = "erase" /\ c.st = "failed" => blurred'

LoadsList(s) ==
    LET c == calls[s] IN
    /\ c.op \in {"me", "login", "password"} /\ c.st = "ok"
    /\ checked' <=> checked \/ c.op = "me"
    /\ \/ c.op = "me" /\ auth' = [user |-> c.as.user, token |-> Nobody] /\ cookie' = cookie
       \/ /\ c.op = "login" /\ cookie' = c.got.session
          /\ auth' = [user |-> c.arg, token |-> c.got.session]
       \/ /\ c.op = "password" /\ cookie' = c.got.session
          /\ auth' = [user |-> c.got.session.user, token |-> c.got.session]
    /\ LoadTrips(s, auth')
    /\ UNCHANGED <<cache, server, foreign, blurred>>

ListArrives(s) ==
    LET c == calls[s] IN
    /\ c.op = "list" /\ c.live /\ c.st = "ok"
    /\ loading' = FALSE
    /\ list' = [trips |-> c.got.trips, from |-> "server"]
    /\ cache' = [trips |-> c.got.trips, from |-> "cache"]
    /\ foreign /\ auth.token = Nobody => foreign'
    /\ blurred => blurred'
    /\ InFlight({"create", "delete"}) => blurred'
    /\ calls' = [calls EXCEPT ![s] = Free]
    /\ UNCHANGED <<checked, auth, cookie, server>>

CopyIsShown(s) ==
    LET c == calls[s] IN
    /\ c.op = "list" /\ c.live
    /\ loading' = FALSE
    /\ cache # NoTrips /\ list' = cache
    /\ calls' = [calls EXCEPT ![s] = Free]
    /\ UNCHANGED <<checked, auth, cookie, cache, server, foreign, blurred>>

SignsOut(s) ==
    /\ calls[s].op \in {"list", "logout", "create"}
    /\ calls[s].op = "create" => calls[s].st = "denied"
    /\ ClearOwnerSession(s)
    /\ cookie' \in {cookie, Nobody}
    /\ UNCHANGED <<checked, cache, server>>
    /\ foreign => foreign'
    /\ blurred => blurred'
    /\ calls[s].op = "create" /\ InFlight({"list"}) => blurred'

AccountGoes(s) ==
    /\ calls[s].op = "erase"
    /\ cookie' = Nobody
    /\ calls' = [calls EXCEPT ![s] = [Request("logout", Nobody, None) EXCEPT !.live = FALSE]]
    /\ blurred'
    /\ UNCHANGED <<checked, auth, list, loading, cache, server, foreign>>

TripIsAdded(s) ==
    LET c == calls[s] IN
    /\ c.op = "create" /\ c.st = "ok"
    /\ list' = [list EXCEPT !.trips = @ \cup c.got.trips]
    /\ calls' = [calls EXCEPT ![s] = Free]
    /\ blurred \/ InFlight({"list"}) => blurred'
    /\ foreign \/ auth.user # c.as.user => foreign'
    /\ UNCHANGED <<checked, auth, loading, cookie, cache, server>>

TripIsRemoved(s) ==
    LET c == calls[s] IN
    /\ c.op = "delete" /\ c.st = "ok"
    /\ list' = [list EXCEPT !.trips = @ \ {c.arg}]
    /\ calls' = [calls EXCEPT ![s] = Free]
    /\ blurred \/ InFlight({"list"}) => blurred'
    /\ UNCHANGED <<checked, auth, loading, cookie, cache, server, foreign>>

IsServed(s) ==
    /\ UNCHANGED <<held, checked, loading, foreign, blurred>>
    /\ calls[s] # Free /\ calls[s].st = "sent"
    /\ \/ Refused(s) /\ UNCHANGED server
       \/ ServeReading(s)
       \/ ServeWriting(s)

AnotherTab ==
    /\ cookie' \in Credentials /\ foreign'
    /\ UNCHANGED <<checked, auth, list, loading, cache, server, calls, blurred>>

NothingHappens == Quiet /\ UNCHANGED calls

PageOpens ==
    /\ ~checked' /\ auth' = SignedOut /\ list' = NoTrips /\ ~loading'
    /\ ~foreign' /\ ~blurred'
    /\ \E s \in Slots : calls' = OpenedCalls(s, cookie)
    /\ UNCHANGED <<cookie, cache, server>>

Kinds(s) ==
    \/ SendsSomething(s) \/ HearsNothing(s) \/ LoadsList(s) \/ ListArrives(s)
    \/ CopyIsShown(s) \/ SignsOut(s) \/ AccountGoes(s) \/ TripIsAdded(s)
    \/ TripIsRemoved(s) \/ IsServed(s)

(* Every step is of one of the kinds.                                         *)
LEMMA StepKinds ==
    ASSUME TypeOK, ConstantsOK, [Next]_vars
    PROVE  (\E s \in Slots : Kinds(s)) \/ AnotherTab \/ NothingHappens \/ PageOpens
<1> USE DEF Kinds, held, Quiet, listVars, browser, server, sections
<1>0. auth # SignedOut => auth.user \in Users
  BY DEF TypeOK, SignedOut
<1>1. ASSUME NEW s \in Slots, calls[s] # Free, Answers(s)
      PROVE  Kinds(s) \/ NothingHappens
  <2>1. calls[s].op \in Ops /\ calls[s].st \in {"sent", "ok", "failed", "denied"} /\ calls[s].live \in BOOLEAN
    BY <1>1 DEF TypeOK, Calls
  <2>2. CASE MeAnswered(s)
    <3>1. CASE calls[s].st = "ok"
      <4>1. LoadsList(s)
        BY <2>1, <2>2, <1>1, <3>1 DEF MeAnswered, Settled, LoadsList, Filtered
      <4> QED
        BY <4>1
    <3>2. CASE calls[s].st # "ok"
      <4>1. HearsNothing(s)
        BY <2>1, <2>2, <1>1, <3>2 DEF MeAnswered, Settled, HearsNothing
      <4> QED
        BY <4>1
    <3> QED
      BY <3>1, <3>2
  <2>3. CASE ListAnswered(s)
    <3>1. CASE calls[s].st = "ok"
      BY <2>1, <2>3, <1>1, <3>1 DEF ListAnswered, Settled, ListArrives
    <3>2. CASE calls[s].st # "ok" /\ cache # NoTrips
      BY <2>1, <2>3, <1>1, <3>2 DEF ListAnswered, Settled, CopyIsShown
    <3>3. CASE calls[s].st = "failed" /\ cache = NoTrips
      BY <2>1, <2>3, <1>1, <3>3 DEF ListAnswered, Settled, HearsNothing, TypeOK
    <3>4. CASE calls[s].st = "denied" /\ cache = NoTrips
      BY <2>1, <2>3, <1>1, <3>4 DEF ListAnswered, Settled, SignsOut
    <3> QED
      BY <2>3, <2>1, <3>1, <3>2, <3>3, <3>4 DEF ListAnswered, Settled
  <2>4. CASE ListCancelled(s)
    BY <2>1, <2>4, <1>1 DEF ListCancelled, Settled, HearsNothing, TypeOK
  <2>5. CASE AuthAnswered(s)
    <3>1. CASE calls[s].st = "ok"
      <4>1. LoadsList(s)
        BY <2>1, <2>5, <1>1, <3>1 DEF AuthAnswered, Settled, LoadsList, Filtered
      <4> QED
        BY <4>1
    <3>2. CASE calls[s].st # "ok"
      <4>1. HearsNothing(s)
        BY <2>1, <2>5, <1>1, <3>2 DEF AuthAnswered, Settled, HearsNothing
      <4> QED
        BY <4>1
    <3> QED
      BY <3>1, <3>2
  <2>6. CASE LogoutAnswered(s)
    <3>1. CASE calls[s].st = "ok"
      <4>1. SignsOut(s)
        BY <2>1, <2>6, <1>1, <3>1 DEF LogoutAnswered, Settled, SignsOut, Filtered
      <4> QED
        BY <4>1
    <3>2. CASE calls[s].st # "ok"
      <4>1. HearsNothing(s)
        BY <2>1, <2>6, <1>1, <3>2 DEF LogoutAnswered, Settled, HearsNothing
      <4> QED
        BY <4>1
    <3> QED
      BY <3>1, <3>2
  <2>7. CASE PasswordAnswered(s)
    <3>1. CASE calls[s].st = "ok"
      <4>1. LoadsList(s)
        BY <2>1, <2>7, <1>1, <3>1 DEF PasswordAnswered, Settled, LoadsList, Filtered
      <4> QED
        BY <4>1
    <3>2. CASE calls[s].st # "ok"
      <4>1. HearsNothing(s)
        BY <2>1, <2>7, <1>1, <3>2 DEF PasswordAnswered, Settled, HearsNothing
      <4> QED
        BY <4>1
    <3> QED
      BY <3>1, <3>2
  <2>8. CASE AccountDeleted(s)
    <3>1. CASE calls[s].st = "ok"
      <4>1. AccountGoes(s)
        BY <2>1, <2>8, <1>1, <3>1 DEF AccountDeleted, Settled, AccountGoes, Filtered
      <4> QED
        BY <4>1
    <3>2. CASE calls[s].st # "ok"
      <4>1. HearsNothing(s)
        BY <2>1, <2>8, <1>1, <3>2 DEF AccountDeleted, Settled, HearsNothing
      <4> QED
        BY <4>1
    <3> QED
      BY <3>1, <3>2
  <2>9. CASE NewTripAnswered(s)
    <3>1. CASE calls[s].st = "ok"
      BY <2>1, <2>9, <1>1, <3>1 DEF NewTripAnswered, Settled, TripIsAdded, TypeOK
    <3>2. CASE calls[s].st = "failed"
      <4>1. [list EXCEPT !.trips = @ \cup {}] = list
        BY DEF TypeOK
      <4> QED
        BY <2>1, <2>9, <1>1, <3>2, <4>1 DEF NewTripAnswered, Settled, HearsNothing, TypeOK
    <3>3. CASE calls[s].st = "denied"
      BY <2>1, <2>9, <1>1, <3>3 DEF NewTripAnswered, Settled, SignsOut, TypeOK
    <3> QED
      BY <2>9, <2>1, <3>1, <3>2, <3>3 DEF NewTripAnswered, Settled
  <2>10. CASE TripDeleteAnswered(s)
    <3>1. CASE calls[s].st = "ok"
      <4>1. TripIsRemoved(s)
        BY <2>1, <2>10, <1>1, <3>1 DEF TripDeleteAnswered, Settled, TripIsRemoved, Filtered
      <4> QED
        BY <4>1
    <3>2. CASE calls[s].st # "ok"
      <4>1. HearsNothing(s)
        BY <2>1, <2>10, <1>1, <3>2 DEF TripDeleteAnswered, Settled, HearsNothing
      <4> QED
        BY <4>1
    <3> QED
      BY <3>1, <3>2
  <2> QED
    BY <1>1, <2>2, <2>3, <2>4, <2>5, <2>6, <2>7, <2>8, <2>9, <2>10 DEF Answers
<1>2. ASSUME NEW s \in Slots, Serve(s)
      PROVE  Kinds(s)
  BY <1>2 DEF Serve, IsServed
<1>3. ASSUME NEW s \in Slots, HandleLogout(s) \/ HandlePasswordChange(s) \/ HandleDeleteAccount(s)
      PROVE  Kinds(s)
  <2>1. CASE HandleLogout(s)
    <3>1. Send(s, "logout", None) /\ "logout" \in Ops \ {"me", "list"} /\ checked /\ Quiet
      BY <2>1 DEF HandleLogout, LogoutButton, AccountShown, Ops
    <3> QED
      BY <3>1 DEF SendsSomething
  <2>2. CASE HandlePasswordChange(s)
    <3>1. Send(s, "password", auth.user) /\ "password" \in Ops \ {"me", "list"} /\ checked /\ Quiet
          /\ auth.user \in Users
      BY <2>2, <1>0 DEF HandlePasswordChange, PasswordForm, AccountShown, Ops
    <3> QED
      BY <3>1 DEF SendsSomething
  <2>3. CASE HandleDeleteAccount(s)
    <3>1. Send(s, "erase", auth.user) /\ "erase" \in Ops \ {"me", "list"} /\ checked /\ Quiet
          /\ auth.user \in Users
      BY <2>3, <1>0 DEF HandleDeleteAccount, DeletionForm, AccountShown, Ops
    <3> QED
      BY <3>1 DEF SendsSomething
  <2> QED
    BY <1>3, <2>1, <2>2, <2>3
<1>4. ASSUME NEW s \in Slots, SubmitNewTrip(s)
      PROVE  Kinds(s)
  <2>1. Send(s, "create", None) /\ "create" \in Ops \ {"me", "list"} /\ checked /\ Quiet
        /\ auth # SignedOut /\ ~loading
    BY <1>4 DEF SubmitNewTrip, CreateForm, ListPage, Ops
  <2> QED
    BY <2>1 DEF SendsSomething
<1>5. ASSUME NEW s \in Slots, NEW u \in Users, SubmitAuth(s, u)
      PROVE  Kinds(s)
  <2>1. Send(s, "login", u) /\ "login" \in Ops \ {"me", "list"} /\ checked /\ Quiet
    BY <1>5 DEF SubmitAuth, AuthForm, Ops
  <2> QED
    BY <2>1 DEF SendsSomething
<1>6. ASSUME NEW s \in Slots, NEW i \in Ids, DeleteOwnerTrip(s, i)
      PROVE  Kinds(s) \/ NothingHappens
  <2>1. "delete" \in Ops \ {"me", "list"} /\ checked /\ Quiet /\ i \in list.trips
        /\ auth # SignedOut /\ ~loading
    BY <1>6 DEF DeleteOwnerTrip, ListPage, Ops
  <2>2. Send(s, "delete", i) \/ UNCHANGED calls
    BY <1>6 DEF DeleteOwnerTrip
  <2> QED
    BY <2>1, <2>2 DEF SendsSomething, NothingHappens
<1>7. ASSUME NEW c \in Credentials, OtherTab(c)
      PROVE  AnotherTab
  BY <1>7 DEF OtherTab, AnotherTab
<1>8. CASE ConnectionChanges
  BY <1>8 DEF ConnectionChanges, NothingHappens
<1>9. ASSUME NEW p \in {"list", "account"}, OpenPage(p)
      PROVE  PageOpens
  BY <1>9 DEF OpenPage, PageOpens
<1>10. CASE UNCHANGED vars
  BY <1>10 DEF vars, NothingHappens
<1> QED
  BY <1>1, <1>2, <1>3, <1>4, <1>5, <1>6, <1>7, <1>8, <1>9, <1>10 DEF Next
-----------------------------------------------------------------------------
(* Types.                                                                     *)

FlagsOK ==
    /\ page \in {"list", "account"} /\ moved \in BOOLEAN /\ checked \in BOOLEAN
    /\ loading \in BOOLEAN /\ listError \in BOOLEAN /\ signing \in BOOLEAN
    /\ creating \in BOOLEAN /\ leaving \in BOOLEAN /\ changing \in BOOLEAN
    /\ erasing \in BOOLEAN /\ online \in BOOLEAN /\ foreign \in BOOLEAN /\ blurred \in BOOLEAN
    /\ deleting \in Ids \cup {None}

(* The flags of the page keep their types.                                    *)
LEMMA FlagsStep ==
    ASSUME FlagsOK, calls \in [Slots -> Calls], [Next]_vars
    PROVE  FlagsOK'
<1> USE DEF FlagsOK, listVars, browser, server, sections, Rerender
<1>1. ASSUME NEW s \in Slots, calls[s] # Free, Answers(s)
      PROVE  FlagsOK'
  <2>1. calls[s].live \in BOOLEAN
    BY <1>1 DEF Calls
  <2>2. CASE MeAnswered(s)
    BY <2>2 DEF MeAnswered, LoadTrips
  <2>3. CASE ListAnswered(s)
    BY <2>3 DEF ListAnswered, ClearOwnerSession
  <2>4. CASE ListCancelled(s)
    BY <2>4 DEF ListCancelled
  <2>5. CASE AuthAnswered(s)
    BY <2>5 DEF AuthAnswered, LoadTrips
  <2>6. CASE LogoutAnswered(s)
    BY ZenonT(60), <2>1, <2>6 DEF LogoutAnswered, ClearOwnerSession, Unlocked
  <2>7. CASE PasswordAnswered(s)
    BY ZenonT(60), <2>1, <2>7 DEF PasswordAnswered, LoadTrips, Unlocked
  <2>8. CASE AccountDeleted(s)
    BY <2>1, <2>8 DEF AccountDeleted, Unlocked
  <2>9. CASE NewTripAnswered(s)
    BY <2>9 DEF NewTripAnswered, ClearOwnerSession
  <2>10. CASE TripDeleteAnswered(s)
    BY <2>10 DEF TripDeleteAnswered
  <2> QED
    BY <1>1, <2>2, <2>3, <2>4, <2>5, <2>6, <2>7, <2>8, <2>9, <2>10 DEF Answers
<1>2. ASSUME NEW s \in Slots, Serve(s)
      PROVE  FlagsOK'
  BY <1>2 DEF Serve
<1>3. ASSUME NEW s \in Slots, HandleLogout(s) \/ HandlePasswordChange(s) \/ HandleDeleteAccount(s)
             \/ SubmitNewTrip(s)
      PROVE  FlagsOK'
  <2>1. CASE HandleLogout(s)
    BY <2>1 DEF HandleLogout
  <2>2. CASE HandlePasswordChange(s)
    BY <2>2 DEF HandlePasswordChange
  <2>3. CASE HandleDeleteAccount(s)
    BY <2>3 DEF HandleDeleteAccount
  <2>4. CASE SubmitNewTrip(s)
    BY <2>4 DEF SubmitNewTrip
  <2> QED
    BY <1>3, <2>1, <2>2, <2>3, <2>4
<1>4. ASSUME NEW s \in Slots, NEW u \in Users, SubmitAuth(s, u)
      PROVE  FlagsOK'
  BY <1>4 DEF SubmitAuth
<1>5. ASSUME NEW s \in Slots, NEW i \in Ids, DeleteOwnerTrip(s, i)
      PROVE  FlagsOK'
  BY <1>5 DEF DeleteOwnerTrip
<1>6. ASSUME NEW c \in Credentials, OtherTab(c)
      PROVE  FlagsOK'
  BY <1>6 DEF OtherTab
<1>7. CASE ConnectionChanges
  BY <1>7 DEF ConnectionChanges
<1>8. ASSUME NEW p \in {"list", "account"}, OpenPage(p)
      PROVE  FlagsOK'
  BY <1>8 DEF OpenPage
<1>9. CASE UNCHANGED vars
  BY <1>9 DEF vars
<1> QED
  BY <1>1, <1>2, <1>3, <1>4, <1>5, <1>6, <1>7, <1>8, <1>9 DEF Next

(* Requests, accounts, lists and the server keep their types.                 *)
DataOK ==
    /\ auth \in [user: Users, token: Credentials] \cup {SignedOut}
    /\ list \in [trips: SUBSET Ids, from: {"none", "server", "cache"}]
    /\ calls \in [Slots -> Calls]
    /\ cookie \in Credentials
    /\ cache \in {NoTrips} \cup [trips: SUBSET Ids, from: {"cache"}]
    /\ since \in [Users -> 0..MaxChanges]
    /\ trips \in [Users \cup {NoUser} -> SUBSET Ids]

LEMMA RequestType ==
    ASSUME NEW op \in Ops, NEW as \in Credentials, NEW arg \in Users \cup Ids \cup {None}
    PROVE  /\ Request(op, as, arg) \in Calls
           /\ [Request(op, as, arg) EXCEPT !.live = FALSE] \in Calls
BY DEF Request, Calls, NoAnswer, Credentials, Ops

(* A call stays one when its section goes.                                    *)
LEMMA OrphanType ==
    ASSUME NEW ops, NEW s \in Slots, calls \in [Slots -> Calls]
    PROVE  /\ OthersOrphaned(s, ops) \in [Slots -> Calls]
           /\ \A t \in Slots : OthersOrphaned(s, ops)[t] =
                IF t = s THEN calls[t] ELSE Orphaned(calls[t], ops)
<1>1. ASSUME NEW c \in Calls, c \notin {Free}
      PROVE  [c EXCEPT !.live = FALSE] \in Calls
  BY <1>1 DEF Calls
<1>2. ASSUME NEW c \in Calls, c = Free
      PROVE  [c EXCEPT !.live = FALSE] = Free
  BY <1>2 DEF Free
<1>3. ASSUME NEW t \in Slots
      PROVE  Orphaned(calls[t], ops) \in Calls
  <2>1. calls[t] \in Calls
    OBVIOUS
  <2>2. CASE calls[t] = Free
    BY <2>1, <2>2, <1>2 DEF Orphaned
  <2>3. CASE calls[t] # Free
    BY <2>1, <2>3, <1>1 DEF Orphaned
  <2> QED
    BY <2>2, <2>3
<1> QED
  BY <1>3 DEF OthersOrphaned

(* What a served request becomes.                                             *)
LEMMA AnswerType ==
    ASSUME NEW s \in Slots, calls \in [Slots -> Calls], calls[s] # Free,
           NEW got \in [trips: SUBSET Ids, session: Credentials],
           Gives(s, got) \/ Refused(s)
    PROVE  calls' \in [Slots -> Calls]
<1>1. calls[s] \in [op: Ops, as: Credentials, arg: Users \cup Ids \cup {None}, live: BOOLEAN,
     st: {"sent", "ok", "failed", "denied"}, got: [trips: SUBSET Ids, session: Credentials]]
  BY DEF Calls
<1>2. CASE calls' = [calls EXCEPT ![s].st = "ok", ![s].got = got]
  BY <1>1, <1>2 DEF Calls
<1>3. ASSUME NEW st \in {"failed", "denied"}, calls' = [calls EXCEPT ![s].st = st]
      PROVE  calls' \in [Slots -> Calls]
  BY <1>1, <1>3 DEF Calls
<1> QED
  BY <1>2, <1>3 DEF Gives, Refused

LEMMA DataStep ==
    ASSUME TypeOK, ConstantsOK, AnswersAreSenders, [Next]_vars
    PROVE  DataOK'
<1> USE DEF held, Quiet, server
<1>0. DataOK /\ SignedOut \notin [user: Users, token: Credentials] /\ Nobody \in Credentials
  BY DEF TypeOK, DataOK, SignedOut, ConstantsOK, Credentials
<1> USE DEF DataOK
<1>c. \A c \in Credentials : c # Nobody => c \in [user: Users, at: 0..MaxChanges]
  BY DEF Credentials
<1>t. Free \in Calls /\ NoTrips \in [trips: SUBSET Ids, from: {"none"}]
  BY DEF Calls, NoTrips
<1>s. ASSUME NEW s \in Slots, calls[s].op \in Ops
      PROVE  calls[s] \in [op: Ops, as: Credentials, arg: Users \cup Ids \cup {None},
                live: BOOLEAN, st: {"sent", "ok", "failed", "denied"},
                got: [trips: SUBSET Ids, session: Credentials]]
  BY <1>s, <1>0 DEF Calls, Free, Ops
<1>1. ASSUME NEW s \in Slots, SendsSomething(s)
      PROVE  DataOK'
  <2>1. PICK op \in Ops, arg \in Users \cup Ids \cup {None} : Send(s, op, arg)
    BY <1>1 DEF SendsSomething
  <2>2. Sending \in Credentials
    BY <1>0 DEF Sending, SignedOut
  <2>3. calls' \in [Slots -> Calls]
    BY <2>1, <2>2, <1>0, RequestType DEF Send
  <2> QED
    BY <1>1, <1>0, <2>3 DEF SendsSomething
<1>2. ASSUME NEW s \in Slots, HearsNothing(s)
      PROVE  DataOK'
  BY <1>2, <1>0, <1>t DEF HearsNothing
<1>3. ASSUME NEW s \in Slots, LoadsList(s)
      PROVE  DataOK'
  <2>1. calls[s].op \in Ops
    BY <1>3 DEF LoadsList, Ops
  <2>2. /\ auth' \in [user: Users, token: Credentials]
        /\ cookie' \in Credentials
    <3>1. CASE calls[s].op = "me"
      BY <1>3, <1>s, <1>0, <1>c, <2>1, <3>1 DEF LoadsList, AnswersAreSenders, SomeoneSent, Sent
    <3>2. CASE calls[s].op = "login"
      BY <1>3, <1>s, <1>0, <1>c, <2>1, <3>2 DEF LoadsList, AnswersAreSenders, SomeoneSent, Sent
    <3>3. CASE calls[s].op = "password"
      BY <1>3, <1>s, <1>0, <1>c, <2>1, <3>3 DEF LoadsList, AnswersAreSenders, SomeoneSent, Sent
    <3> QED
      BY <1>3, <3>1, <3>2, <3>3 DEF LoadsList
  <2>3. Cancelled(s) \in [Slots -> Calls]
    BY <1>0, OrphanType DEF Cancelled
  <2>4. auth'.token \in Credentials
    BY <2>2
  <2>5. Request("list", IF auth'.token = Nobody THEN cookie' ELSE auth'.token, None) \in Calls
    BY <2>2, <2>4, RequestType DEF Ops
  <2>6. calls' \in [Slots -> Calls] /\ list' \in {list, cache}
    BY <1>3, <2>3, <2>5, <1>t DEF LoadsList, LoadTrips
  <2>7. list' \in [trips: SUBSET Ids, from: {"none", "server", "cache"}]
    BY <2>6, <1>0, <1>t
  <2> QED
    BY <1>3, <1>0, <2>2, <2>6, <2>7 DEF LoadsList
<1>4. ASSUME NEW s \in Slots, ListArrives(s)
      PROVE  DataOK'
  <2>1. calls[s].got.trips \in SUBSET Ids
    BY <1>4, <1>s DEF ListArrives, Ops
  <2> QED
    BY <1>4, <1>0, <1>t, <2>1 DEF ListArrives
<1>5. ASSUME NEW s \in Slots, CopyIsShown(s)
      PROVE  DataOK'
  BY <1>5, <1>0, <1>t DEF CopyIsShown
<1>6. ASSUME NEW s \in Slots, SignsOut(s)
      PROVE  DataOK'
  <2>1. OthersOrphaned(s, {"list", "logout", "password", "erase"}) \in [Slots -> Calls]
    BY <1>0, OrphanType
  <2> QED
    BY <1>6, <1>0, <1>t, <2>1 DEF SignsOut, ClearOwnerSession
<1>7. ASSUME NEW s \in Slots, AccountGoes(s)
      PROVE  DataOK'
  BY <1>7, <1>0, RequestType DEF AccountGoes, Ops
<1>8. ASSUME NEW s \in Slots, TripIsAdded(s)
      PROVE  DataOK'
  <2>1. calls[s].got.trips \in SUBSET Ids
    BY <1>8, <1>s DEF TripIsAdded, Ops
  <2> QED
    BY <1>8, <1>0, <1>t, <2>1 DEF TripIsAdded
<1>9. ASSUME NEW s \in Slots, TripIsRemoved(s)
      PROVE  DataOK'
  BY <1>9, <1>0, <1>t DEF TripIsRemoved
<1>10. ASSUME NEW s \in Slots, IsServed(s)
      PROVE  DataOK'
  <2>0. calls[s].op \in Ops
    BY <1>10, <1>0 DEF IsServed, Calls
  <2>1. CASE Refused(s) /\ UNCHANGED server
    <3>1. NoAnswer \in [trips: SUBSET Ids, session: Credentials]
      BY <1>0 DEF NoAnswer
    <3>2. calls' \in [Slots -> Calls]
      BY <2>1, <3>1, <1>0, <1>10, AnswerType DEF IsServed
    <3> QED
      BY <2>1, <3>2, <1>0, <1>10 DEF IsServed
  <2>2. CASE ServeReading(s)
    <3>1. ASSUME calls[s].op = "list", Accepted(calls[s])
          PROVE  trips[calls[s].as.user] \in SUBSET Ids
      BY <3>1, <1>0, <1>s, <1>c, <2>0 DEF Accepted
    <3>2. \E got \in [trips: SUBSET Ids, session: Credentials] : Gives(s, got)
      <4>1. CASE calls[s].op = "me" /\ Gives(s, Answer(calls[s].as))
        BY <4>1, <1>0, <1>s DEF Answer, NoAnswer, Ops
      <4>2. CASE calls[s].op = "list" /\ Accepted(calls[s])
                 /\ Gives(s, [NoAnswer EXCEPT !.trips = trips[calls[s].as.user]])
        BY <4>2, <1>0, <3>1 DEF NoAnswer
      <4>3. CASE calls[s].op = "login"
                 /\ Gives(s, Answer([user |-> calls[s].arg, at |-> since[calls[s].arg]]))
        <5>1. calls[s].arg \in Users
          BY <4>3 DEF AnswersAreSenders, Sent
        <5>2. [user |-> calls[s].arg, at |-> since[calls[s].arg]] \in Credentials
          BY <5>1, <1>0 DEF Credentials
        <5> QED
          BY <4>3, <5>2 DEF Answer, NoAnswer
      <4>4. CASE calls[s].op = "logout" /\ Gives(s, NoAnswer)
        BY <4>4, <1>0 DEF NoAnswer
      <4> QED
        BY <2>2, <4>1, <4>2, <4>3, <4>4 DEF ServeReading
    <3>3. calls' \in [Slots -> Calls]
      BY <1>10, <1>0, <3>2, AnswerType DEF IsServed
    <3> QED
      BY <1>10, <1>0, <2>2, <3>3 DEF IsServed, ServeReading
  <2>3. CASE ServeWriting(s)
    <3>1. calls[s].as.user \in Users
      BY <2>3, <1>s, <1>c, <2>0 DEF ServeWriting, Accepted
    <3>2. calls' \in [Slots -> Calls] /\ since' \in [Users -> 0..MaxChanges]
          /\ trips' \in [Users \cup {NoUser} -> SUBSET Ids]
      <4>1. CASE calls[s].op = "create"
        <5>1. PICK i \in trips[NoUser] :
                /\ trips' = [trips EXCEPT ![calls[s].as.user] = @ \cup {i}, ![NoUser] = @ \ {i}]
                /\ Gives(s, [NoAnswer EXCEPT !.trips = {i}])
          BY <2>3, <4>1 DEF ServeWriting
        <5>2. i \in Ids
          BY <1>0
        <5>3. trips' \in [Users \cup {NoUser} -> SUBSET Ids]
          BY <5>1, <5>2, <3>1, <1>0
        <5>4. [NoAnswer EXCEPT !.trips = {i}] \in [trips: SUBSET Ids, session: Credentials]
          BY <5>2, <1>0 DEF NoAnswer
        <5> QED
          BY <1>10, <1>0, <2>3, <4>1, <5>1, <5>3, <5>4, AnswerType DEF IsServed, ServeWriting
      <4>2. CASE calls[s].op = "delete"
        <5>1. trips' \in [Users \cup {NoUser} -> SUBSET Ids]
          BY <2>3, <4>2, <3>1, <1>0 DEF ServeWriting
        <5> QED
          BY <1>10, <1>0, <2>3, <4>2, <5>1, AnswerType DEF IsServed, ServeWriting, NoAnswer
      <4>3. CASE calls[s].op = "password"
        <5>1. since[calls[s].as.user] + 1 \in 0..MaxChanges
          BY <2>3, <4>3, <3>1, <1>0 DEF ServeWriting, ConstantsOK
        <5>2. since' \in [Users -> 0..MaxChanges]
          BY <2>3, <4>3, <3>1, <5>1, <1>0 DEF ServeWriting
        <5>3. Answer([user |-> calls[s].as.user, at |-> since[calls[s].as.user] + 1])
                \in [trips: SUBSET Ids, session: Credentials]
          BY <3>1, <5>1 DEF Answer, NoAnswer, Credentials
        <5> QED
          BY <1>10, <1>0, <2>3, <4>3, <5>2, <5>3, AnswerType DEF IsServed, ServeWriting
      <4>4. CASE calls[s].op = "erase"
        <5>1. since[calls[s].as.user] + 1 \in 0..MaxChanges
          BY <2>3, <4>4, <3>1, <1>0 DEF ServeWriting, ConstantsOK
        <5>2. since' \in [Users -> 0..MaxChanges]
          BY <2>3, <4>4, <3>1, <5>1, <1>0 DEF ServeWriting
        <5>3. trips' \in [Users \cup {NoUser} -> SUBSET Ids]
          BY <2>3, <4>4, <3>1, <1>0 DEF ServeWriting
        <5> QED
          BY <1>10, <1>0, <2>3, <4>4, <5>2, <5>3, AnswerType DEF IsServed, ServeWriting, NoAnswer
      <4> QED
        BY <2>3, <4>1, <4>2, <4>3, <4>4 DEF ServeWriting
    <3> QED
      BY <1>10, <1>0, <3>2 DEF IsServed
  <2> QED
    BY <1>10, <2>1, <2>2, <2>3 DEF IsServed
<1>11. CASE AnotherTab
  <2>1. cookie' \in Credentials
    BY <1>11 DEF AnotherTab
  <2> QED
    BY <1>11, <1>0, <2>1 DEF AnotherTab
<1>12. CASE NothingHappens
  BY <1>12, <1>0 DEF NothingHappens
<1>13. CASE PageOpens
  <2>1. PICK s \in Slots : calls' = OpenedCalls(s, cookie)
    BY <1>13 DEF PageOpens
  <2>2. calls' \in [Slots -> Calls]
    BY <2>1, <1>0, <1>t, RequestType DEF OpenedCalls, Ops
  <2> QED
    BY <1>13, <1>0, <1>t, <2>2 DEF PageOpens
<1> QED
  BY StepKinds, <1>1, <1>2, <1>3, <1>4, <1>5, <1>6, <1>7, <1>8, <1>9, <1>10, <1>11, <1>12, <1>13
     DEF Kinds

LEMMA TypesStep ==
    ASSUME TypeOK, ConstantsOK, AnswersAreSenders, [Next]_vars
    PROVE  TypeOK'
<1>1. FlagsOK /\ calls \in [Slots -> Calls]
  BY DEF TypeOK, FlagsOK
<1>2. FlagsOK' /\ DataOK'
  BY <1>1, FlagsStep, DataStep
<1> QED
  BY <1>2 DEF TypeOK, FlagsOK, DataOK

-----------------------------------------------------------------------------
(* What every step keeps.                                                     *)

(* A call is the same, except that what waits for it may be gone.             *)
Kept(t) ==
    /\ calls'[t].op = calls[t].op /\ calls'[t].as = calls[t].as
    /\ calls'[t].arg = calls[t].arg /\ calls'[t].st = calls[t].st
    /\ calls'[t].got = calls[t].got
    /\ calls'[t].live => calls[t].live
    /\ calls[t] = Free => calls'[t] = Free

LEMMA OrphanKeeps ==
    ASSUME TypeOK, NEW ops, NEW s \in Slots, NEW t \in Slots, t # s,
           calls'[t] = OthersOrphaned(s, ops)[t]
    PROVE  Kept(t) /\ (calls[t].op \in ops => ~calls'[t].live \/ calls'[t] = Free)
<1>1. calls'[t] = Orphaned(calls[t], ops) /\ calls[t] \in Calls
  BY OrphanType DEF TypeOK
<1>2. CASE calls[t].op \notin ops
  BY <1>1, <1>2 DEF Orphaned, Kept
<1>3. CASE calls[t].op \in ops /\ calls[t] = Free
  BY <1>1, <1>3 DEF Orphaned, Kept, Free
<1>4. CASE calls[t].op \in ops /\ calls[t] # Free
  BY <1>1, <1>4 DEF Orphaned, Kept, Calls
<1> QED
  BY <1>2, <1>3, <1>4

(* A step of one slot keeps the calls of the others.                          *)
LEMMA OthersKept ==
    ASSUME TypeOK, NEW s \in Slots, Kinds(s), NEW t \in Slots, t # s
    PROVE  Kept(t)
<1>0. calls \in [Slots -> Calls]
  BY DEF TypeOK
<1>1. CASE LoadsList(s)
  <2>1. Cancelled(s) \in [Slots -> Calls]
    BY <1>0, OrphanType DEF Cancelled
  <2>2. calls'[t] = Cancelled(s)[t]
    BY <1>1, <2>1 DEF LoadsList, LoadTrips
  <2> QED
    BY <2>2, OrphanKeeps DEF Cancelled
<1>2. CASE SignsOut(s)
  <2>1. OthersOrphaned(s, {"list", "logout", "password", "erase"}) \in [Slots -> Calls]
    BY <1>0, OrphanType
  <2>2. calls'[t] = OthersOrphaned(s, {"list", "logout", "password", "erase"})[t]
    BY <1>2, <2>1 DEF SignsOut, ClearOwnerSession
  <2> QED
    BY <2>2, OrphanKeeps
<1>3. CASE ~LoadsList(s) /\ ~SignsOut(s)
  <2>1. calls'[t] = calls[t]
    <3>1. CASE SendsSomething(s)
      BY <1>0, <3>1 DEF SendsSomething, Send
    <3>2. CASE HearsNothing(s) \/ ListArrives(s) \/ CopyIsShown(s) \/ TripIsAdded(s)
               \/ TripIsRemoved(s) \/ AccountGoes(s)
      BY <1>0, <3>2 DEF HearsNothing, ListArrives, CopyIsShown, TripIsAdded, TripIsRemoved,
                        AccountGoes
    <3>3. CASE IsServed(s)
      BY <1>0, <3>3 DEF IsServed, Refused, ServeReading, ServeWriting, Gives
    <3> QED
      BY <1>3, <3>1, <3>2, <3>3 DEF Kinds
  <2> QED
    BY <2>1 DEF Kept
<1> QED
  BY <1>1, <1>2, <1>3

(* The page's own steps leave its slot free or with a fresh request.          *)
LEMMA OwnSlot ==
    ASSUME TypeOK, NEW s \in Slots, Kinds(s), ~IsServed(s)
    PROVE  calls'[s] = Free \/ calls'[s].st = "sent"
<1>0. calls \in [Slots -> Calls] /\ \A ops : OthersOrphaned(s, ops) \in [Slots -> Calls]
  BY OrphanType DEF TypeOK
<1>1. CASE LoadsList(s)
  BY <1>0, <1>1 DEF LoadsList, LoadTrips, Request, Cancelled
<1>2. CASE SignsOut(s)
  BY <1>0, <1>2 DEF SignsOut, ClearOwnerSession
<1>3. CASE SendsSomething(s)
  BY <1>0, <1>3 DEF SendsSomething, Send, Request
<1>4. CASE AccountGoes(s)
  BY <1>0, <1>4 DEF AccountGoes, Request
<1>5. CASE HearsNothing(s) \/ ListArrives(s) \/ CopyIsShown(s) \/ TripIsAdded(s) \/ TripIsRemoved(s)
  BY <1>0, <1>5 DEF HearsNothing, ListArrives, CopyIsShown, TripIsAdded, TripIsRemoved
<1> QED
  BY <1>1, <1>2, <1>3, <1>4, <1>5 DEF Kinds

(* A served request keeps what it asked for.                                  *)
LEMMA ServedSlot ==
    ASSUME TypeOK, ConstantsOK, NEW s \in Slots, IsServed(s)
    PROVE  /\ calls[s].op \in Ops /\ calls[s].st = "sent"
           /\ calls[s].as \in Credentials /\ calls[s].arg \in Users \cup Ids \cup {None}
           /\ calls'[s].op = calls[s].op /\ calls'[s].as = calls[s].as
           /\ calls'[s].arg = calls[s].arg /\ calls'[s].live = calls[s].live
           /\ calls'[s].st \in {"ok", "failed", "denied"} /\ calls'[s] # Free
           /\ calls[s].as # Nobody =>
                calls[s].as.user \in Users /\ calls[s].as.user # NoUser /\ calls[s].as.at \in 0..MaxChanges
<1>1. /\ calls \in [Slots -> Calls]
      /\ calls[s] \in [op: Ops, as: Credentials, arg: Users \cup Ids \cup {None}, live: BOOLEAN,
                      st: {"sent", "ok", "failed", "denied"}, got: [trips: SUBSET Ids, session: Credentials]]
  BY DEF TypeOK, Calls, IsServed
<1>2. calls[s].st = "sent" /\ Free.op \notin Ops
  BY DEF IsServed, Free, Ops
<1>3. \/ \E st \in {"failed", "denied"} : calls' = [calls EXCEPT ![s].st = st]
      \/ \E got : calls' = [calls EXCEPT ![s].st = "ok", ![s].got = got]
  BY DEF IsServed, Refused, ServeReading, ServeWriting, Gives
<1>4. /\ calls'[s].op = calls[s].op /\ calls'[s].as = calls[s].as
      /\ calls'[s].arg = calls[s].arg /\ calls'[s].live = calls[s].live
      /\ calls'[s].st \in {"ok", "failed", "denied"}
  BY <1>1, <1>3
<1>5. calls[s].as # Nobody => calls[s].as \in [user: Users, at: 0..MaxChanges]
  BY <1>1 DEF Credentials
<1> QED
  BY <1>1, <1>2, <1>4, <1>5 DEF ConstantsOK

-----------------------------------------------------------------------------
(* Whose trips they are.                                                      *)

(* A user gets a trip only by creating it, and the others only lose some.     *)
Shrinks == \A v \in Users \cup {NoUser} : trips'[v] \subseteq trips[v]
Gets(u, i) ==
    /\ i \in trips[NoUser]
    /\ trips'[u] = trips[u] \cup {i}
    /\ trips'[NoUser] = trips[NoUser] \ {i}
    /\ \A v \in Users : v # u => trips'[v] = trips[v]

(* What a served request does to the trips, and what its answer brings.       *)
LEMMA ServedTrips ==
    ASSUME TypeOK, ConstantsOK, NEW s \in Slots, IsServed(s)
    PROVE  /\ calls[s].op \notin {"create", "delete", "erase"} => UNCHANGED trips
           /\ calls'[s].st = "denied" => UNCHANGED trips
           /\ calls[s].op = "list" /\ calls'[s].st = "ok" =>
                calls[s].as # Nobody /\ calls'[s].got.trips = trips[calls[s].as.user]
           /\ calls[s].op = "create" =>
                \/ UNCHANGED trips /\ calls'[s].st # "ok"
                \/ calls[s].as # Nobody /\ \E i \in Ids :
                     Gets(calls[s].as.user, i) /\ (calls'[s].st = "ok" => calls'[s].got.trips = {i})
           /\ calls[s].op = "delete" =>
                \/ UNCHANGED trips /\ calls'[s].st # "ok"
                \/ /\ calls[s].as # Nobody
                   /\ trips' = [trips EXCEPT ![calls[s].as.user] = @ \ {calls[s].arg}]
           /\ calls[s].op = "erase" => UNCHANGED trips \/ calls'[s].st \in {"ok", "failed"}
           /\ Shrinks \/ calls[s].op = "create"
           /\ calls[s].op \in {"me", "create", "list"} /\ calls'[s].st = "ok" => calls[s].as # Nobody
           /\ calls[s].op = "login" /\ calls'[s].st = "ok" /\ calls[s].arg \in Users =>
                calls'[s].got.session \in [user: {calls[s].arg}, at: 0..MaxChanges]
           /\ calls[s].op = "password" /\ calls'[s].st = "ok" => calls'[s].got.session # Nobody
<1>0. /\ calls \in [Slots -> Calls] /\ trips \in [Users \cup {NoUser} -> SUBSET Ids]
      /\ since \in [Users -> 0..MaxChanges]
      /\ calls[s] \in [op: Ops, as: Credentials, arg: Users \cup Ids \cup {None}, live: BOOLEAN,
                      st: {"sent", "ok", "failed", "denied"}, got: [trips: SUBSET Ids, session: Credentials]]
  BY DEF TypeOK, Calls, IsServed
<1>s. calls[s].st = "sent"
  BY DEF IsServed
<1>u. Accepted(calls[s]) => calls[s].as # Nobody /\ calls[s].as.user \in Users /\ calls[s].as.user # NoUser
  BY ServedSlot DEF Accepted
<1>g. ASSUME NEW got, Gives(s, got)
      PROVE  /\ calls'[s].st \in {"ok", "failed"}
             /\ calls'[s].st = "ok" => calls'[s].got = got
  BY <1>0, <1>g DEF Gives
<1>n. ASSUME NEW S
      PROVE  [NoAnswer EXCEPT !.trips = S].trips = S
  BY DEF NoAnswer
<1>a. ASSUME NEW c
      PROVE  Answer(c).session = c
  BY DEF Answer, NoAnswer
<1>1. CASE Refused(s) /\ UNCHANGED server
  <2>1. calls'[s].st \in {"failed", "denied"} /\ UNCHANGED trips
    BY <1>1, <1>0 DEF Refused, server
  <2> QED
    BY <2>1 DEF Shrinks
<1>2. CASE ServeReading(s)
  <2>1. UNCHANGED trips /\ Shrinks
    BY <1>2 DEF ServeReading, server, Shrinks
  <2>2. CASE Accepted(calls[s]) /\ calls[s].op = "me" /\ Gives(s, Answer(calls[s].as))
    BY <2>1, <2>2, <1>u, <1>g
  <2>3. CASE /\ Accepted(calls[s]) /\ calls[s].op = "list"
             /\ Gives(s, [NoAnswer EXCEPT !.trips = trips[calls[s].as.user]])
    BY <2>1, <2>3, <1>u, <1>g, <1>n
  <2>4. CASE /\ calls[s].op = "login"
             /\ Gives(s, Answer([user |-> calls[s].arg, at |-> since[calls[s].arg]]))
    BY <2>1, <2>4, <1>g, <1>a, <1>0
  <2>5. CASE calls[s].op = "logout"
    BY <2>1, <2>5
  <2> QED
    BY <1>2, <2>2, <2>3, <2>4, <2>5 DEF ServeReading
<1>3. CASE ServeWriting(s)
  <2>1. Accepted(calls[s]) /\ calls[s].as # Nobody /\ calls[s].as.user \in Users /\ calls[s].as.user # NoUser
    BY <1>3, <1>u DEF ServeWriting
  <2>2. CASE calls[s].op = "create"
    <3>1. PICK i \in trips[NoUser] :
            /\ trips' = [trips EXCEPT ![calls[s].as.user] = @ \cup {i}, ![NoUser] = @ \ {i}]
            /\ Gives(s, [NoAnswer EXCEPT !.trips = {i}])
      BY <1>3, <2>2 DEF ServeWriting
    <3>2. i \in Ids /\ Gets(calls[s].as.user, i)
      <4>1. PICK u \in Users : u = calls[s].as.user /\ u # NoUser
        BY <2>1
      <4>2. trips' = [trips EXCEPT ![u] = trips[u] \cup {i}, ![NoUser] = trips[NoUser] \ {i}]
        BY <3>1, <4>1, <1>0
      <4>3. trips'[u] = trips[u] \cup {i} /\ trips'[NoUser] = trips[NoUser] \ {i}
        BY <4>1, <4>2, <1>0
      <4>4. \A v \in Users : v # u => trips'[v] = trips[v]
        BY <4>1, <4>2, <1>0 DEF ConstantsOK
      <4> QED
        BY <4>1, <4>3, <4>4, <1>0 DEF Gets
    <3>3. calls'[s].st = "ok" => calls'[s].got.trips = {i}
      BY <3>1, <1>g, <1>n
    <3>4. calls'[s].st # "denied"
      BY <3>1, <1>g
    <3>5. \E j \in Ids :
            Gets(calls[s].as.user, j) /\ (calls'[s].st = "ok" => calls'[s].got.trips = {j})
      BY <3>2, <3>3
    <3> QED
      BY <2>1, <2>2, <3>4, <3>5
  <2>3. CASE calls[s].op = "delete"
    <3>1. trips' = [trips EXCEPT ![calls[s].as.user] = @ \ {calls[s].arg}] /\ Gives(s, NoAnswer)
      BY <1>3, <2>3 DEF ServeWriting
    <3>2. Shrinks /\ calls'[s].st # "denied"
      BY <3>1, <1>0, <1>g DEF Shrinks
    <3> QED
      BY <2>1, <2>3, <3>1, <3>2
  <2>4. CASE calls[s].op = "password"
    <3>1. /\ UNCHANGED trips /\ Shrinks
          /\ Gives(s, Answer([user |-> calls[s].as.user, at |-> since[calls[s].as.user] + 1]))
      BY <1>3, <2>4 DEF ServeWriting, Shrinks
    <3>2. calls'[s].st = "ok" => calls'[s].got.session.user = calls[s].as.user
      BY <3>1, <1>g, <1>a
    <3>3. calls'[s].st = "ok" => calls'[s].got.session # Nobody
      BY <3>2, <2>1 DEF Nobody
    <3> QED
      BY <2>4, <3>1, <3>3
  <2>5. CASE calls[s].op = "erase"
    <3>1. trips' = [trips EXCEPT ![calls[s].as.user] = {}] /\ Gives(s, NoAnswer)
      BY <1>3, <2>5 DEF ServeWriting
    <3>2. Shrinks /\ calls'[s].st \in {"ok", "failed"}
      BY <3>1, <1>0, <1>g DEF Shrinks
    <3> QED
      BY <2>5, <3>2
  <2> QED
    BY <1>3, <2>2, <2>3, <2>4, <2>5 DEF ServeWriting
<1> QED
  BY <1>1, <1>2, <1>3 DEF IsServed

(* So every step takes trips away, or gives a new one to one user.            *)
LEMMA TripsMove ==
    ASSUME TypeOK, ConstantsOK, [Next]_vars
    PROVE  Shrinks \/ \E u \in Users, i \in Ids : Gets(u, i)
<1>1. ASSUME NEW s \in Slots, IsServed(s)
      PROVE  Shrinks \/ \E u \in Users, i \in Ids : Gets(u, i)
  BY <1>1, ServedTrips, ServedSlot DEF Shrinks
<1>2. UNCHANGED trips => Shrinks
  BY DEF Shrinks
<1>3. ASSUME NEW s \in Slots, Kinds(s), ~IsServed(s)
      PROVE  UNCHANGED trips
  BY <1>3 DEF Kinds, SendsSomething, HearsNothing, LoadsList, ListArrives, CopyIsShown, SignsOut,
              AccountGoes, TripIsAdded, TripIsRemoved, Quiet, server
<1>4. AnotherTab \/ NothingHappens \/ PageOpens => UNCHANGED trips
  BY DEF AnotherTab, NothingHappens, PageOpens, Quiet, server
<1> QED
  BY <1>1, <1>2, <1>3, <1>4, StepKinds

LEMMA OneOwnerStep ==
    ASSUME TypeOK, ConstantsOK, OneOwner, [Next]_vars
    PROVE  OneOwner'
<1>1. CASE Shrinks
  BY <1>1 DEF OneOwner, Shrinks
<1>2. ASSUME NEW u \in Users, NEW i \in Ids, Gets(u, i)
      PROVE  OneOwner'
  BY <1>2 DEF OneOwner, Gets, ConstantsOK
<1> QED
  BY <1>1, <1>2, TripsMove

(* What belongs to one user alone stays so, and what was created stays so.    *)
LEMMA OwnedStays ==
    ASSUME TypeOK, ConstantsOK, [Next]_vars
    PROVE  /\ \A S \in SUBSET Ids : \A u \in Users : OwnedBy(S, u) => OwnedBy(S, u)'
           /\ \A S \in SUBSET Ids : Created(S) => Created(S)'
<1>1. CASE Shrinks
  BY <1>1 DEF OwnedBy, Created, Shrinks
<1>2. ASSUME NEW u \in Users, NEW i \in Ids, Gets(u, i)
      PROVE  /\ \A S \in SUBSET Ids : \A w \in Users : OwnedBy(S, w) => OwnedBy(S, w)'
             /\ \A S \in SUBSET Ids : Created(S) => Created(S)'
  BY <1>2 DEF OwnedBy, Created, Gets, ConstantsOK
<1> QED
  BY <1>1, <1>2, TripsMove

(* The answer of one call.                                                    *)
AnswerIsSenders(c) ==
    /\ c.op \in {"list", "create"} /\ c.st = "ok" => SomeoneSent(c) /\ OwnedBy(c.got.trips, c.as.user)
    /\ c.op = "me" /\ c.st = "ok" => SomeoneSent(c)
    /\ c.op = "login" =>
         c.arg \in Users /\ (c.st = "ok" => c.got.session \in [user: {c.arg}, at: 0..MaxChanges])
    /\ c.op = "password" /\ c.st = "ok" => c.got.session # Nobody
    /\ c.op = "delete" => c.arg \in Ids /\ Created({c.arg})

LEMMA AnswersByCall ==
    AnswersAreSenders <=>
      /\ \A t \in Slots : AnswerIsSenders(calls[t])
      /\ Created(list.trips) /\ Created(cache.trips)
BY DEF AnswersAreSenders, AnswerIsSenders, Sent

LEMMA AnswersByCallNext ==
    AnswersAreSenders' <=>
      /\ \A t \in Slots : AnswerIsSenders(calls[t])'
      /\ Created(list.trips)' /\ Created(cache.trips)'
BY DEF AnswersAreSenders, AnswerIsSenders, Sent

LEMMA CallType ==
    ASSUME TypeOK, ConstantsOK, NEW t \in Slots, calls[t].op \in Ops
    PROVE  /\ calls[t].as \in Credentials /\ calls[t].arg \in Users \cup Ids \cup {None}
           /\ calls[t].live \in BOOLEAN /\ calls[t].st \in {"sent", "ok", "failed", "denied"}
           /\ calls[t].got.trips \in SUBSET Ids /\ calls[t].got.session \in Credentials
           /\ calls[t].as # Nobody => calls[t].as.user \in Users /\ calls[t].as.user # NoUser
<1>1. calls[t] \in Calls /\ calls[t] # Free
  BY DEF TypeOK, Free, Ops
<1>2. calls[t] \in [op: Ops, as: Credentials, arg: Users \cup Ids \cup {None}, live: BOOLEAN,
                    st: {"sent", "ok", "failed", "denied"}, got: [trips: SUBSET Ids, session: Credentials]]
  BY <1>1 DEF Calls
<1>3. calls[t].as # Nobody => calls[t].as \in [user: Users, at: 0..MaxChanges]
  BY <1>2 DEF Credentials
<1> QED
  BY <1>2, <1>3 DEF ConstantsOK

(* An answer stays its sender's while it is on its way.                       *)
LEMMA AnswerStays ==
    ASSUME TypeOK, ConstantsOK, [Next]_vars, NEW t \in Slots, AnswerIsSenders(calls[t]), Kept(t)
    PROVE  AnswerIsSenders(calls[t])'
<1>1. CASE calls[t].op \in Ops
  <2>1. /\ calls[t].got.trips \in SUBSET Ids
        /\ calls[t].as # Nobody => calls[t].as.user \in Users
    BY <1>1, CallType
  <2>2. ASSUME SomeoneSent(calls[t]), OwnedBy(calls[t].got.trips, calls[t].as.user)
        PROVE  \A v \in (Users \cup {NoUser}) \ {calls[t].as.user} : calls[t].got.trips \cap trips'[v] = {}
    <3>1. PICK S \in SUBSET Ids : S = calls[t].got.trips
      BY <2>1
    <3>2. PICK u \in Users : u = calls[t].as.user
      BY <2>1, <2>2 DEF SomeoneSent
    <3>3. OwnedBy(S, u)
      BY <2>2, <3>1, <3>2
    <3>4. \A v \in (Users \cup {NoUser}) \ {u} : S \cap trips'[v] = {}
      BY <3>3, OwnedStays DEF OwnedBy
    <3> QED
      BY <3>1, <3>2, <3>4
  <2>3. calls[t].arg \in Ids /\ Created({calls[t].arg}) => {calls[t].arg} \cap trips'[NoUser] = {}
    <3>1. calls[t].arg \in Ids => {calls[t].arg} \in SUBSET Ids
      OBVIOUS
    <3> QED
      BY <3>1, OwnedStays DEF Created
  <2> QED
    BY <2>2, <2>3 DEF AnswerIsSenders, Kept, OwnedBy, Created, SomeoneSent
<1>2. CASE calls[t].op \notin Ops
  BY <1>2 DEF AnswerIsSenders, Kept, Ops
<1> QED
  BY <1>1, <1>2

LEMMA AnswersStep ==
    ASSUME TypeOK, ConstantsOK, OneOwner, AnswersAreSenders, [Next]_vars
    PROVE  AnswersAreSenders'
<1> USE DEF held, Quiet
<1>0. (\A t \in Slots : AnswerIsSenders(calls[t])) /\ Created(list.trips) /\ Created(cache.trips)
  BY AnswersByCall
<1>1. /\ list.trips \in SUBSET Ids /\ cache.trips \in SUBSET Ids /\ calls \in [Slots -> Calls]
      /\ NoTrips.trips = {}
  BY DEF TypeOK, NoTrips
<1>2. /\ Created(list.trips) => list.trips \cap trips'[NoUser] = {}
      /\ Created(cache.trips) => cache.trips \cap trips'[NoUser] = {}
  BY <1>1, OwnedStays DEF Created
<1>3. ASSUME NEW s \in Slots, Kinds(s)
      PROVE  AnswersAreSenders'
  <2>1. ASSUME NEW t \in Slots, t # s
        PROVE  AnswerIsSenders(calls[t])'
    <3>1. Kept(t)
      BY <1>3, <2>1, OthersKept
    <3> QED
      BY <3>1, <1>0, AnswerStays
  <2>2. AnswerIsSenders(calls[s])'
    <3>1. CASE IsServed(s)
      <4>0. calls[s].op \in Ops /\ AnswerIsSenders(calls[s])
        BY <3>1, <1>0, ServedSlot
      <4>1. ASSUME calls'[s].op \in {"list", "create"}, calls'[s].st = "ok"
            PROVE  SomeoneSent(calls[s])' /\ OwnedBy(calls[s].got.trips, calls[s].as.user)'
        <5>1. calls[s].as # Nobody /\ calls'[s].as = calls[s].as /\ calls[s].as.user \in Users
              /\ calls[s].as.user # NoUser /\ calls'[s].op = calls[s].op
          BY <4>1, <3>1, ServedSlot, ServedTrips
        <5>2. PICK u \in Users : u = calls[s].as.user /\ u # NoUser
          BY <5>1
        <5>3. CASE calls[s].op = "list"
          <6>1. calls'[s].got.trips = trips[u] /\ UNCHANGED trips
            BY <4>1, <3>1, <5>2, <5>3, ServedTrips
          <6> QED
            BY <6>1, <5>1, <5>2 DEF OneOwner, OwnedBy, SomeoneSent
        <5>4. CASE calls[s].op = "create"
          <6>1. PICK i \in Ids : Gets(u, i) /\ calls'[s].got.trips = {i}
            BY <4>1, <3>1, <5>2, <5>4, ServedTrips
          <6>2. \A v \in (Users \cup {NoUser}) \ {u} : {i} \cap trips'[v] = {}
            BY <6>1 DEF Gets, OneOwner, ConstantsOK
          <6> QED
            BY <6>1, <6>2, <5>1, <5>2 DEF OwnedBy, SomeoneSent
        <5> QED
          BY <5>1, <5>3, <5>4, <4>1
      <4>2. /\ calls'[s].op = "me" /\ calls'[s].st = "ok" => SomeoneSent(calls[s])'
            /\ calls'[s].op = "password" /\ calls'[s].st = "ok" => calls'[s].got.session # Nobody
        BY <3>1, ServedSlot, ServedTrips DEF SomeoneSent
      <4>3. calls'[s].op = "login" => calls'[s].arg \in Users
              /\ (calls'[s].st = "ok" => calls'[s].got.session \in [user: {calls'[s].arg}, at: 0..MaxChanges])
        BY <3>1, <4>0, ServedSlot, ServedTrips DEF AnswerIsSenders
      <4>4. calls'[s].op = "delete" => calls'[s].arg \in Ids /\ {calls'[s].arg} \cap trips'[NoUser] = {}
        <5>1. calls[s].arg \in Ids => {calls[s].arg} \in SUBSET Ids
          OBVIOUS
        <5> QED
          BY <3>1, <4>0, <5>1, ServedSlot, OwnedStays DEF AnswerIsSenders, Created
      <4> QED
        BY <4>1, <4>2, <4>3, <4>4 DEF AnswerIsSenders, Created
    <3>2. CASE SendsSomething(s)
      <4>1. PICK op \in Ops \ {"me", "list"}, arg \in Users \cup Ids \cup {None} :
              /\ Send(s, op, arg)
              /\ op = "login" => arg \in Users
              /\ op = "delete" => arg \in list.trips
        BY <3>2 DEF SendsSomething
      <4>2. calls'[s].op = op /\ calls'[s].arg = arg /\ calls'[s].st = "sent"
        BY <4>1, <1>1 DEF Send, Request
      <4>3. op = "delete" => arg \in Ids /\ {arg} \cap trips'[NoUser] = {}
        BY <4>1, <1>0, <1>1, <1>2
      <4> QED
        BY <4>1, <4>2, <4>3 DEF AnswerIsSenders, Created
    <3>3. CASE ~IsServed(s) /\ ~SendsSomething(s)
      <4>1. calls'[s] = Free \/ (calls'[s].st = "sent" /\ calls'[s].op \in {"list", "logout"})
        <5>0. \A ops : OthersOrphaned(s, ops) \in [Slots -> Calls]
          BY <1>1, OrphanType
        <5>1. CASE LoadsList(s)
          BY <5>0, <1>1, <5>1 DEF LoadsList, LoadTrips, Request, Cancelled
        <5>2. CASE AccountGoes(s)
          BY <1>1, <5>2 DEF AccountGoes, Request
        <5>3. CASE SignsOut(s)
          BY <5>0, <5>3 DEF SignsOut, ClearOwnerSession
        <5>4. CASE HearsNothing(s) \/ ListArrives(s) \/ CopyIsShown(s) \/ TripIsAdded(s) \/ TripIsRemoved(s)
          BY <1>1, <5>4 DEF HearsNothing, ListArrives, CopyIsShown, TripIsAdded, TripIsRemoved
        <5> QED
          BY <1>3, <3>3, <5>1, <5>2, <5>3, <5>4 DEF Kinds
      <4> QED
        BY <4>1 DEF AnswerIsSenders, Free
    <3> QED
      BY <3>1, <3>2, <3>3
  <2>3. Created(list.trips)' /\ Created(cache.trips)'
    <3>1. CASE UNCHANGED <<list, cache>>
      BY <3>1, <1>0, <1>2 DEF Created
    <3>2. CASE ListArrives(s) \/ TripIsAdded(s)
      <4>1. calls[s].op \in {"list", "create"} /\ calls[s].st = "ok" /\ UNCHANGED trips
        BY <3>2 DEF ListArrives, TripIsAdded, server
      <4>2. SomeoneSent(calls[s]) /\ OwnedBy(calls[s].got.trips, calls[s].as.user)
        BY <4>1, <1>0 DEF AnswerIsSenders
      <4>3. calls[s].as.user # NoUser
        BY <4>1, <4>2, CallType DEF Ops, SomeoneSent
      <4>4. calls[s].got.trips \cap trips'[NoUser] = {}
        BY <4>1, <4>2, <4>3 DEF OwnedBy
      <4>5. list'.trips \in {calls[s].got.trips, list.trips \cup calls[s].got.trips}
            /\ cache'.trips \in {calls[s].got.trips, cache.trips}
        BY <3>2 DEF ListArrives, TripIsAdded, TypeOK
      <4> QED
        BY <4>4, <4>5, <1>0, <1>2 DEF Created
    <3>3. CASE TripIsRemoved(s) \/ LoadsList(s) \/ CopyIsShown(s) \/ SignsOut(s)
      <4>1. cache' = cache /\ UNCHANGED trips
        BY <3>3 DEF TripIsRemoved, LoadsList, CopyIsShown, SignsOut, server
      <4>2. list'.trips \subseteq list.trips \/ list'.trips = cache.trips
        <5>1. CASE TripIsRemoved(s)
          BY <5>1 DEF TripIsRemoved, TypeOK
        <5>2. CASE LoadsList(s)
          BY <5>2 DEF LoadsList, LoadTrips
        <5>3. CASE CopyIsShown(s) \/ SignsOut(s)
          BY <5>3, <1>1 DEF CopyIsShown, SignsOut, ClearOwnerSession
        <5> QED
          BY <3>3, <5>1, <5>2, <5>3
      <4> QED
        BY <4>1, <4>2, <1>0 DEF Created
    <3>4. CASE SendsSomething(s) \/ HearsNothing(s) \/ AccountGoes(s) \/ IsServed(s)
      <4>1. UNCHANGED <<list, cache>>
        BY <3>4 DEF SendsSomething, HearsNothing, AccountGoes, IsServed
      <4> QED
        BY <4>1, <3>1
    <3> QED
      BY <1>3, <3>2, <3>3, <3>4 DEF Kinds
  <2> QED
    BY <2>1, <2>2, <2>3, AnswersByCallNext
<1>4. CASE AnotherTab \/ NothingHappens
  <2>1. UNCHANGED <<calls, list, cache>>
    BY <1>4 DEF AnotherTab, NothingHappens
  <2>2. \A t \in Slots : Kept(t)
    BY <2>1 DEF Kept
  <2> QED
    BY <2>1, <2>2, <1>0, <1>2, AnswerStays, AnswersByCallNext DEF Created
<1>5. CASE PageOpens
  <2>1. PICK s \in Slots : calls' = OpenedCalls(s, cookie)
    BY <1>5 DEF PageOpens
  <2>2. \A t \in Slots : calls'[t] = Free \/ (calls'[t].op = "me" /\ calls'[t].st = "sent")
    BY <2>1 DEF OpenedCalls, Request
  <2>3. \A t \in Slots : AnswerIsSenders(calls[t])'
    BY <2>2 DEF AnswerIsSenders, Free
  <2> QED
    BY <1>5, <2>3, <1>0, <1>1, <1>2, AnswersByCallNext DEF PageOpens, Created
<1> QED
  BY <1>3, <1>4, <1>5, StepKinds

-----------------------------------------------------------------------------
(* The account of the header and the load for it.                             *)

LEMMA UncheckedStep ==
    ASSUME TypeOK, ConstantsOK, UncheckedAsks, [Next]_vars
    PROVE  UncheckedAsks'
<1> USE DEF held, Quiet
<1>0. calls \in [Slots -> Calls] /\ \A s \in Slots : \A ops : OthersOrphaned(s, ops) \in [Slots -> Calls]
  BY OrphanType DEF TypeOK
<1>1. ASSUME NEW s \in Slots, Kinds(s)
      PROVE  UncheckedAsks'
  <2>1. \A t \in Slots \ {s} : Kept(t)
    BY <1>1, OthersKept
  <2>2. CASE checked
    <3>1. \A t \in Slots : calls[t].op # "me"
      BY <2>2 DEF UncheckedAsks, Sent
    <3>2. checked'
      BY <2>2, <1>1 DEF Kinds, SendsSomething, HearsNothing, LoadsList, ListArrives, CopyIsShown,
                      SignsOut, AccountGoes, TripIsAdded, TripIsRemoved, IsServed
    <3>3. calls'[s].op # "me"
      <4>1. CASE SendsSomething(s)
        BY <4>1, <1>0 DEF SendsSomething, Send, Request
      <4>2. CASE LoadsList(s)
        BY <4>2, <1>0 DEF LoadsList, LoadTrips, Cancelled, Request, Free
      <4>3. CASE SignsOut(s)
        BY <4>3, <1>0 DEF SignsOut, ClearOwnerSession, Free
      <4>4. CASE AccountGoes(s)
        BY <4>4, <1>0 DEF AccountGoes, Request
      <4>5. CASE HearsNothing(s) \/ ListArrives(s) \/ CopyIsShown(s) \/ TripIsAdded(s) \/ TripIsRemoved(s)
        BY <4>5, <1>0 DEF HearsNothing, ListArrives, CopyIsShown, TripIsAdded, TripIsRemoved, Free
      <4>6. CASE IsServed(s)
        BY <4>6, <3>1, ServedSlot
      <4> QED
        BY <1>1, <4>1, <4>2, <4>3, <4>4, <4>5, <4>6 DEF Kinds
    <3>4. \A t \in Slots : calls'[t].op # "me"
      BY <2>1, <3>1, <3>3 DEF Kept
    <3> QED
      BY <3>2, <3>4 DEF UncheckedAsks, Sent
  <2>3. CASE ~checked
    <3>1. /\ auth = SignedOut
          /\ \A t \in Slots : calls[t] = Free \/ calls[t].op = "me"
          /\ \A t, u \in Slots : calls[t].op = "me" /\ calls[u].op = "me" => t = u
          /\ \A t \in Slots : calls[t].op = "me" /\ ~foreign => calls[t].as = cookie
      BY <2>3 DEF UncheckedAsks, Sent
    <3>2. \A t \in Slots \ {s} : calls'[t].op = calls[t].op /\ calls'[t].as = calls[t].as
                                 /\ (calls[t] = Free => calls'[t] = Free)
      BY <2>1 DEF Kept
    <3>3. IsServed(s) \/ HearsNothing(s) \/ LoadsList(s)
      BY <1>1, <2>3, <3>1 DEF Kinds, SendsSomething, ListArrives, CopyIsShown, SignsOut, AccountGoes,
                            TripIsAdded, TripIsRemoved, Free
    <3>4. CASE IsServed(s)
      <4>1. calls'[s].op = calls[s].op /\ calls'[s].as = calls[s].as /\ UNCHANGED <<checked, auth, foreign, cookie>>
        BY <3>4, ServedSlot DEF IsServed
      <4>2. calls[s].op = "me"
        BY <3>4, <3>1 DEF IsServed
      <4> QED
        BY <2>3, <3>1, <3>2, <4>1, <4>2 DEF UncheckedAsks, Sent
    <3>5. CASE HearsNothing(s) \/ LoadsList(s)
      <4>1. calls[s].op = "me"
        BY <3>5, <3>1 DEF HearsNothing, LoadsList, Free
      <4>2. checked'
        BY <3>5, <4>1 DEF HearsNothing, LoadsList
      <4>3. calls'[s].op # "me"
        <5>1. CASE HearsNothing(s)
          BY <5>1, <1>0 DEF HearsNothing, Free
        <5>2. CASE LoadsList(s)
          BY <5>2, <1>0 DEF LoadsList, LoadTrips, Cancelled, Request, Free
        <5> QED
          BY <3>5, <5>1, <5>2
      <4>4. \A t \in Slots : calls'[t].op # "me"
        BY <3>1, <3>2, <4>1, <4>3
      <4> QED
        BY <4>2, <4>4 DEF UncheckedAsks, Sent
    <3> QED
      BY <3>3, <3>4, <3>5
  <2> QED
    BY <2>2, <2>3
<1>2. CASE AnotherTab
  BY <1>2 DEF AnotherTab, UncheckedAsks, Sent
<1>3. CASE NothingHappens
  BY <1>3 DEF NothingHappens, UncheckedAsks, Sent
<1>4. CASE PageOpens
  <2>1. PICK s \in Slots : calls' = OpenedCalls(s, cookie)
    BY <1>4 DEF PageOpens
  <2>2. \A t \in Slots : IF t = s THEN calls'[t].op = "me" /\ calls'[t].as = cookie ELSE calls'[t] = Free
    BY <2>1 DEF OpenedCalls, Request
  <2> QED
    BY <1>4, <2>2 DEF PageOpens, UncheckedAsks, Sent, Free
<1> QED
  BY <1>1, <1>2, <1>3, <1>4, StepKinds

LEMMA HeaderStep ==
    ASSUME TypeOK, ConstantsOK, AnswersAreSenders, UncheckedAsks, HeaderIsSession, [Next]_vars
    PROVE  HeaderIsSession'
<1> USE DEF held, Quiet
<1>1. ASSUME NEW s \in Slots, Kinds(s)
      PROVE  HeaderIsSession'
  <2>1. CASE LoadsList(s)
    <3>1. CASE calls[s].op = "me"
      <4>1. auth' = [user |-> calls[s].as.user, token |-> Nobody] /\ UNCHANGED <<cookie, foreign>>
        BY <2>1, <3>1 DEF LoadsList
      <4>2. ~foreign => calls[s].as = cookie
        BY <3>1 DEF UncheckedAsks, Sent
      <4> QED
        BY <4>1, <4>2 DEF HeaderIsSession
    <3>2. CASE calls[s].op = "login"
      <4>1. auth' = [user |-> calls[s].arg, token |-> calls[s].got.session]
        BY <2>1, <3>2 DEF LoadsList
      <4>2. calls[s].got.session \in [user: {calls[s].arg}, at: 0..MaxChanges] /\ calls[s].arg \in Users
        BY <2>1, <3>2 DEF LoadsList, AnswersAreSenders, Sent
      <4>3. calls[s].got.session # Nobody
        BY <4>2 DEF Nobody, ConstantsOK
      <4> QED
        BY <4>1, <4>2, <4>3 DEF HeaderIsSession
    <3>3. CASE calls[s].op = "password"
      <4>1. auth' = [user |-> calls[s].got.session.user, token |-> calls[s].got.session]
        BY <2>1, <3>3 DEF LoadsList
      <4>2. calls[s].got.session # Nobody
        BY <2>1, <3>3 DEF LoadsList, AnswersAreSenders, Sent
      <4> QED
        BY <4>1, <4>2 DEF HeaderIsSession
    <3> QED
      BY <2>1, <3>1, <3>2, <3>3 DEF LoadsList
  <2>2. CASE SignsOut(s)
    BY <2>2 DEF SignsOut, ClearOwnerSession, HeaderIsSession, SignedOut
  <2>3. CASE AccountGoes(s)
    BY <2>3 DEF AccountGoes, HeaderIsSession
  <2>4. CASE ListArrives(s)
    BY <2>4 DEF ListArrives, HeaderIsSession
  <2>5. CASE SendsSomething(s) \/ HearsNothing(s) \/ CopyIsShown(s) \/ TripIsAdded(s) \/ TripIsRemoved(s)
             \/ IsServed(s)
    <3>1. UNCHANGED <<auth, cookie>> /\ (foreign => foreign')
      BY <2>5 DEF SendsSomething, HearsNothing, CopyIsShown, TripIsAdded, TripIsRemoved, IsServed
    <3> QED
      BY <3>1 DEF HeaderIsSession
  <2> QED
    BY <1>1, <2>1, <2>2, <2>3, <2>4, <2>5 DEF Kinds
<1>2. CASE AnotherTab \/ NothingHappens
  BY <1>2 DEF AnotherTab, NothingHappens, HeaderIsSession
<1>3. CASE PageOpens
  BY <1>3 DEF PageOpens, HeaderIsSession, SignedOut
<1> QED
  BY <1>1, <1>2, <1>3, StepKinds

(* Of the slot that loads, after the steps of the page.                       *)
LEMMA LoadStep ==
    ASSUME TypeOK, ConstantsOK, AnswersAreSenders, UncheckedAsks, HeaderIsSession, LoadIsForAccount,
           [Next]_vars
    PROVE  LoadIsForAccount'
<1> USE DEF held, Quiet
<1>0. calls \in [Slots -> Calls] /\ \A s \in Slots : \A ops : OthersOrphaned(s, ops) \in [Slots -> Calls]
  BY OrphanType DEF TypeOK
<1> DEFINE Waits(c) == c.op = "list" /\ c.live
<1>l. ASSUME NEW t \in Slots, Waits(calls[t])
      PROVE  /\ loading /\ auth # SignedOut
             /\ \A u \in Slots : Waits(calls[u]) => u = t
             /\ auth.token # Nobody => calls[t].as = auth.token
             /\ auth.token = Nobody /\ ~foreign => calls[t].as = Nobody \/ calls[t].as.user = auth.user
  BY <1>l DEF LoadIsForAccount, Sent
<1>1. ASSUME NEW s \in Slots, Kinds(s)
      PROVE  LoadIsForAccount'
  <2>0. \A t \in Slots \ {s} : Kept(t)
    BY <1>1, OthersKept
  <2>1. CASE LoadsList(s)
    <3>1. \A t \in Slots \ {s} : ~Waits(calls'[t])
      <4>1. ASSUME NEW t \in Slots \ {s}
            PROVE  ~Waits(calls'[t])
        <5>1. calls'[t] = OthersOrphaned(s, {"list"})[t]
          BY <2>1, <1>0 DEF LoadsList, LoadTrips, Cancelled
        <5> QED
          BY <5>1, OrphanKeeps DEF Kept, Free
      <4> QED
        BY <4>1
    <3>2. CASE online
      <4>1. /\ loading' /\ auth' # SignedOut
            /\ calls'[s] = Request("list", IF auth'.token = Nobody THEN cookie' ELSE auth'.token, None)
        <5>1. auth'.user \in Users
          <6>1. calls[s].op \in Ops
            BY <2>1 DEF LoadsList, Ops
          <6>2. calls[s].op = "me" => calls[s].as # Nobody
            BY <2>1 DEF LoadsList, AnswersAreSenders, Sent, SomeoneSent
          <6>3. calls[s].op = "login" => calls[s].arg \in Users
            BY <2>1 DEF AnswersAreSenders, Sent
          <6>4. calls[s].op = "password" => calls[s].got.session \in [user: Users, at: 0..MaxChanges]
            BY <2>1, <6>1, CallType DEF LoadsList, AnswersAreSenders, Sent, Credentials
          <6> QED
            BY <2>1, <6>1, <6>2, <6>3, <6>4, CallType DEF LoadsList
        <5> QED
          BY <2>1, <3>2, <1>0, <5>1 DEF LoadsList, LoadTrips, SignedOut, Cancelled, ConstantsOK
      <4>2. calls'[s].as = (IF auth'.token = Nobody THEN cookie' ELSE auth'.token)
        BY <4>1 DEF Request
      <4>3. auth'.token = Nobody /\ ~foreign' => cookie' = Nobody \/ cookie'.user = auth'.user
        BY HeaderStep, <4>1 DEF HeaderIsSession
      <4> QED
        BY <3>1, <4>1, <4>2, <4>3 DEF LoadIsForAccount, Sent
    <3>3. CASE ~online
      <4>1. calls'[s] = Free
        BY <2>1, <3>3, <1>0 DEF LoadsList, LoadTrips, Cancelled
      <4> QED
        BY <3>1, <4>1 DEF LoadIsForAccount, Sent, Free
    <3> QED
      BY <3>2, <3>3
  <2>2. CASE SignsOut(s)
    <3>1. \A t \in Slots \ {s} : ~Waits(calls'[t])
      <4>1. ASSUME NEW t \in Slots \ {s}
            PROVE  ~Waits(calls'[t])
        <5>1. calls'[t] = OthersOrphaned(s, {"list", "logout", "password", "erase"})[t]
          BY <2>2, <1>0 DEF SignsOut, ClearOwnerSession
        <5> QED
          BY <5>1, OrphanKeeps DEF Kept, Free
      <4> QED
        BY <4>1
    <3>2. calls'[s] = Free
      BY <2>2, <1>0 DEF SignsOut, ClearOwnerSession
    <3> QED
      BY <3>1, <3>2 DEF LoadIsForAccount, Sent, Free
  <2>3. CASE ~LoadsList(s) /\ ~SignsOut(s)
    <3>1. auth' = auth
      BY <1>1, <2>3 DEF Kinds, SendsSomething, HearsNothing, ListArrives, CopyIsShown, AccountGoes,
                      TripIsAdded, TripIsRemoved, IsServed
    <3>2. \A t \in Slots : Waits(calls'[t]) => Waits(calls[t]) /\ calls'[t].as = calls[t].as
      <4>1. CASE IsServed(s)
        BY <2>0, <4>1, ServedSlot DEF Kept
      <4>2. CASE ~IsServed(s)
        <5>1. ~Waits(calls'[s])
          <6>1. CASE SendsSomething(s)
            BY <6>1, <1>0 DEF SendsSomething, Send, Request
          <6>2. CASE AccountGoes(s)
            BY <6>2, <1>0 DEF AccountGoes, Request
          <6>3. CASE HearsNothing(s) \/ ListArrives(s) \/ CopyIsShown(s) \/ TripIsAdded(s) \/ TripIsRemoved(s)
            BY <6>3, <1>0 DEF HearsNothing, ListArrives, CopyIsShown, TripIsAdded, TripIsRemoved, Free
          <6> QED
            BY <1>1, <2>3, <4>2, <6>1, <6>2, <6>3 DEF Kinds
        <5> QED
          BY <2>0, <5>1 DEF Kept
      <4> QED
        BY <4>1, <4>2
    <3>3. \A t \in Slots : Waits(calls'[t]) => loading'
      <4>1. CASE Waits(calls[s]) /\ ~IsServed(s)
        <5>1. ~Waits(calls'[s])
          <6>1. CASE SendsSomething(s)
            BY <6>1, <1>0 DEF SendsSomething, Send, Request
          <6>2. CASE AccountGoes(s)
            BY <6>2, <1>0 DEF AccountGoes, Request
          <6>3. CASE HearsNothing(s) \/ ListArrives(s) \/ CopyIsShown(s) \/ TripIsAdded(s) \/ TripIsRemoved(s)
            BY <6>3, <1>0 DEF HearsNothing, ListArrives, CopyIsShown, TripIsAdded, TripIsRemoved, Free
          <6> QED
            BY <1>1, <2>3, <4>1, <6>1, <6>2, <6>3 DEF Kinds
        <5> QED
          BY <4>1, <5>1, <3>2, <1>l
      <4>2. CASE ~Waits(calls[s]) \/ IsServed(s)
        <5>1. loading => loading'
          BY <1>1, <2>3, <4>2 DEF Kinds, SendsSomething, HearsNothing, ListArrives, CopyIsShown,
                AccountGoes, TripIsAdded, TripIsRemoved, IsServed
        <5> QED
          BY <5>1, <3>2, <1>l
      <4> QED
        BY <4>1, <4>2
    <3>4. ~foreign' => ~foreign \/ auth.token # Nobody
      BY <1>1, <2>3 DEF Kinds, SendsSomething, HearsNothing, ListArrives, CopyIsShown, AccountGoes,
                      TripIsAdded, TripIsRemoved, IsServed
    <3> QED
      BY <3>1, <3>2, <3>3, <3>4, <1>l DEF LoadIsForAccount, Sent
  <2> QED
    BY <2>1, <2>2, <2>3
<1>2. CASE AnotherTab
  BY <1>2 DEF AnotherTab, LoadIsForAccount, Sent
<1>3. CASE NothingHappens
  BY <1>3 DEF NothingHappens, LoadIsForAccount, Sent
<1>4. CASE PageOpens
  <2>1. \A t \in Slots : calls'[t].op # "list"
    BY <1>4 DEF PageOpens, OpenedCalls, Request, Free
  <2> QED
    BY <2>1 DEF LoadIsForAccount, Sent
<1> QED
  BY <1>1, <1>2, <1>3, <1>4, StepKinds

LEMMA StoredStep ==
    ASSUME TypeOK, ConstantsOK, ServerListsAreStored, [Next]_vars
    PROVE  ServerListsAreStored'
<1> USE DEF held, Quiet
<1>1. ASSUME NEW s \in Slots, Kinds(s)
      PROVE  ServerListsAreStored'
  <2>1. CASE ListArrives(s)
    BY <2>1 DEF ListArrives, ServerListsAreStored, NoTrips
  <2>2. CASE LoadsList(s)
    BY <2>2 DEF LoadsList, LoadTrips, ServerListsAreStored
  <2>3. CASE CopyIsShown(s)
    BY <2>3 DEF CopyIsShown, ServerListsAreStored
  <2>4. CASE SignsOut(s)
    BY <2>4 DEF SignsOut, ClearOwnerSession, ServerListsAreStored, NoTrips
  <2>5. CASE TripIsAdded(s) \/ TripIsRemoved(s)
    BY <2>5 DEF TripIsAdded, TripIsRemoved, ServerListsAreStored, TypeOK
  <2>6. CASE SendsSomething(s) \/ HearsNothing(s) \/ AccountGoes(s) \/ IsServed(s)
    BY <2>6 DEF SendsSomething, HearsNothing, AccountGoes, IsServed, ServerListsAreStored
  <2> QED
    BY <1>1, <2>1, <2>2, <2>3, <2>4, <2>5, <2>6 DEF Kinds
<1>2. CASE AnotherTab \/ NothingHappens \/ PageOpens
  BY <1>2 DEF AnotherTab, NothingHappens, PageOpens, ServerListsAreStored, NoTrips
<1> QED
  BY <1>1, <1>2, StepKinds

(* What a screen that shows the list of the server has just done.             *)
LEMMA ScreenSteps ==
    ASSUME TypeOK, ConstantsOK, BelongsInv, NEW s \in Slots, Kinds(s),
           auth' # SignedOut, ~loading', list'.from = "server", ~foreign'
    PROVE  \/ ListArrives(s) /\ auth' = auth
           \/ /\ auth' = auth /\ auth # SignedOut /\ ~loading /\ list.from = "server" /\ ~foreign
              /\ \/ TripIsAdded(s) /\ auth.user = calls[s].as.user
                 \/ TripIsRemoved(s)
                 \/ list' = list /\ (SendsSomething(s) \/ HearsNothing(s) \/ AccountGoes(s) \/ IsServed(s))
<1> USE DEF held, Quiet
<1>1. ~LoadsList(s)
  BY DEF LoadsList, LoadTrips, BelongsInv, ServerListsAreStored, TypeOK, NoTrips
<1>2. ~CopyIsShown(s)
  BY DEF CopyIsShown, TypeOK, NoTrips
<1>3. ~SignsOut(s)
  BY DEF SignsOut, ClearOwnerSession
<1>4. CASE ListArrives(s)
  BY <1>4 DEF ListArrives
<1>5. CASE TripIsAdded(s)
  BY <1>5 DEF TripIsAdded, TypeOK
<1>6. CASE TripIsRemoved(s)
  BY <1>6 DEF TripIsRemoved, TypeOK
<1>7. CASE HearsNothing(s)
  BY <1>7 DEF HearsNothing, BelongsInv, ServerListsAreStored
<1>8. CASE SendsSomething(s) \/ AccountGoes(s) \/ IsServed(s)
  BY <1>8 DEF SendsSomething, AccountGoes, IsServed
<1> QED
  BY <1>1, <1>2, <1>3, <1>4, <1>5, <1>6, <1>7, <1>8 DEF Kinds

LEMMA OwnedStep ==
    ASSUME TypeOK, ConstantsOK, BelongsInv, [Next]_vars
    PROVE  ShownIsOwned'
<1> USE DEF held, Quiet
<1>1. SUFFICES ASSUME auth' # SignedOut, ~loading', list'.from = "server", ~foreign'
               PROVE  OwnedBy(list.trips, auth.user)'
  BY DEF ShownIsOwned
<1>2. /\ list.trips \in SUBSET Ids
      /\ auth # SignedOut => auth.user \in Users /\ auth.token \in Credentials
  BY DEF TypeOK
<1>3. ASSUME auth # SignedOut, auth' = auth, list' = list, ~loading, ~foreign
      PROVE  OwnedBy(list.trips, auth.user)'
  <2>1. PICK S \in SUBSET Ids : S = list.trips
    BY <1>2
  <2>2. PICK u \in Users : u = auth.user
    BY <1>2, <1>3
  <2>3. OwnedBy(S, u)
    BY <1>1, <1>3, <2>1, <2>2 DEF BelongsInv, ShownIsOwned
  <2>4. OwnedBy(S, u)'
    BY <2>3, OwnedStays
  <2> QED
    BY <1>3, <2>1, <2>2, <2>4 DEF OwnedBy
<1>4. ASSUME NEW s \in Slots, Kinds(s)
      PROVE  OwnedBy(list.trips, auth.user)'
  <2>1. CASE ListArrives(s)
    <3>1. /\ calls[s].op = "list" /\ calls[s].live /\ calls[s].st = "ok"
          /\ list'.trips = calls[s].got.trips /\ UNCHANGED <<auth, trips>>
          /\ ~foreign \/ auth.token # Nobody
      BY <2>1, <1>1 DEF ListArrives, server
    <3>2. calls[s].as # Nobody /\ OwnedBy(calls[s].got.trips, calls[s].as.user)
      BY <3>1 DEF BelongsInv, AnswersAreSenders, Sent, SomeoneSent
    <3>3. calls[s].as.user = auth.user
      BY <3>1, <3>2 DEF BelongsInv, LoadIsForAccount, HeaderIsSession, Sent
    <3> QED
      BY <3>1, <3>2, <3>3 DEF OwnedBy
  <2>2. CASE ~ListArrives(s)
    <3>1. auth' = auth /\ auth # SignedOut /\ ~loading /\ list.from = "server" /\ ~foreign
      BY <1>1, <1>4, <2>2, ScreenSteps
    <3>2. OwnedBy(list.trips, auth.user)
      BY <3>1 DEF BelongsInv, ShownIsOwned
    <3>3. CASE TripIsAdded(s) /\ auth.user = calls[s].as.user
      <4>1. /\ calls[s].op = "create" /\ calls[s].st = "ok" /\ UNCHANGED trips
            /\ list'.trips = list.trips \cup calls[s].got.trips
        BY <3>3 DEF TripIsAdded, TypeOK, server
      <4>2. OwnedBy(calls[s].got.trips, auth.user)
        BY <3>3, <4>1 DEF BelongsInv, AnswersAreSenders, Sent
      <4> QED
        BY <3>1, <3>2, <4>1, <4>2 DEF OwnedBy
    <3>4. CASE TripIsRemoved(s)
      <4>1. UNCHANGED trips /\ list'.trips \subseteq list.trips
        BY <3>4 DEF TripIsRemoved, TypeOK, server
      <4> QED
        BY <3>1, <3>2, <4>1 DEF OwnedBy
    <3>5. CASE list' = list
      BY <3>1, <3>5, <1>3
    <3> QED
      BY <1>1, <1>4, <2>2, <3>3, <3>4, <3>5, ScreenSteps
  <2> QED
    BY <2>1, <2>2
<1>5. CASE AnotherTab
  BY <1>1, <1>5 DEF AnotherTab
<1>6. CASE NothingHappens
  BY <1>1, <1>3, <1>6 DEF NothingHappens
<1>7. CASE PageOpens
  BY <1>1, <1>7 DEF PageOpens
<1> QED
  BY <1>4, <1>5, <1>6, <1>7, StepKinds

LEMMA BelongsStep ==
    ASSUME TypeOK, ConstantsOK, BelongsInv, [Next]_vars
    PROVE  TypeOK' /\ BelongsInv'
<1>1. /\ OneOwner /\ AnswersAreSenders /\ UncheckedAsks /\ HeaderIsSession /\ LoadIsForAccount
      /\ ServerListsAreStored
  BY DEF BelongsInv
<1>2. TypeOK' /\ OneOwner' /\ AnswersAreSenders' /\ UncheckedAsks'
  BY <1>1, TypesStep, OneOwnerStep, AnswersStep, UncheckedStep
<1>3. HeaderIsSession' /\ LoadIsForAccount' /\ ServerListsAreStored' /\ ShownIsOwned'
  BY <1>1, HeaderStep, LoadStep, StoredStep, OwnedStep
<1> QED
  BY <1>2, <1>3 DEF BelongsInv

LEMMA OwnerStart ==
    ASSUME ConstantsOK, Init
    PROVE  TypeOK /\ BelongsInv
<1>1. PICK owner \in [Ids -> Users \cup {NoUser}] :
        trips = [u \in Users \cup {NoUser} |-> {i \in Ids : owner[i] = u}]
  BY DEF Init
<1>2. OneOwner /\ trips \in [Users \cup {NoUser} -> SUBSET Ids]
  BY <1>1 DEF OneOwner
<1>3. cookie \in Credentials /\ cache \in {NoTrips} /\ NoTrips \in [trips: SUBSET Ids, from: {"none"}]
      /\ calls \in [Slots -> {Free}]
  BY DEF Init, Credentials, NoTrips, ConstantsOK
<1>4. since \in [Users -> 0..MaxChanges]
  BY DEF Init, ConstantsOK
<1>5. TypeOK
  BY <1>2, <1>3, <1>4 DEF Init, TypeOK, Calls
<1>6. \A s \in Slots : calls[s].op = "free"
  BY DEF Init, Free
<1> QED
  BY <1>2, <1>5, <1>6 DEF Init, BelongsInv, AnswersAreSenders, UncheckedAsks, HeaderIsSession,
     LoadIsForAccount, ServerListsAreStored, ShownIsOwned, Sent, Created, NoTrips, SignedOut

LEMMA OwnerBelongs == ASSUME ConstantsOK PROVE Spec => [](TypeOK /\ BelongsInv)
<1>1. Init => TypeOK /\ BelongsInv
  BY OwnerStart
<1>2. TypeOK /\ BelongsInv /\ [Next]_vars => TypeOK' /\ BelongsInv'
  BY BelongsStep
<1> QED
  BY <1>1, <1>2, PTL DEF Spec

(* The page, its requests and the server keep their types.                    *)
THEOREM OwnerTypes == ASSUME ConstantsOK PROVE Spec => []TypeOK
BY OwnerBelongs, PTL

(* A list of the server on the screen is the account's of the header, in      *)
(* whatever order sign-ins, sign-outs and lists arrive.                       *)
THEOREM ListBelongs == ASSUME ConstantsOK PROVE Spec => []ListBelongsToUser
<1>1. BelongsInv => ListBelongsToUser
  BY DEF BelongsInv, ShownIsOwned, ListBelongsToUser, OwnedBy
<1> QED
  BY <1>1, OwnerBelongs, PTL

-----------------------------------------------------------------------------
(* Whether the list is up to date.                                            *)

(* The ends of writes, and their answers that arrive.                         *)
LEMMA AnswersGone ==
    ASSUME TypeOK, NEW s \in Slots, Kinds(s), ~IsServed(s), ~SendsSomething(s)
    PROVE  calls'[s].op \notin {"create", "delete", "erase"}
<1>0. calls \in [Slots -> Calls] /\ \A ops : OthersOrphaned(s, ops) \in [Slots -> Calls]
  BY OrphanType DEF TypeOK
<1>1. CASE LoadsList(s)
  BY <1>0, <1>1 DEF LoadsList, LoadTrips, Request, Cancelled, Free
<1>2. CASE AccountGoes(s)
  BY <1>0, <1>2 DEF AccountGoes, Request
<1>3. CASE SignsOut(s)
  BY <1>0, <1>3 DEF SignsOut, ClearOwnerSession, Free
<1>4. CASE HearsNothing(s) \/ ListArrives(s) \/ CopyIsShown(s) \/ TripIsAdded(s) \/ TripIsRemoved(s)
  BY <1>0, <1>4 DEF HearsNothing, ListArrives, CopyIsShown, TripIsAdded, TripIsRemoved, Free
<1> QED
  BY <1>1, <1>2, <1>3, <1>4 DEF Kinds

(* Doubt about the outcome of a write ends only with the page.                *)
LEMMA BlurredStays ==
    ASSUME NEW s \in Slots, Kinds(s), blurred
    PROVE  blurred'
BY DEF Kinds, SendsSomething, HearsNothing, LoadsList, ListArrives, CopyIsShown, SignsOut, Quiet,
       AccountGoes, TripIsAdded, TripIsRemoved, IsServed

LEMMA SentSlot ==
    ASSUME TypeOK, NEW s \in Slots, SendsSomething(s)
    PROVE  \E op \in Ops \ {"me", "list"}, arg \in Users \cup Ids \cup {None} :
             /\ calls'[s].op = op /\ calls'[s].arg = arg /\ calls'[s].as = Sending
             /\ calls'[s].st = "sent" /\ calls[s] = Free
             /\ op \in {"create", "delete"} => auth # SignedOut /\ ~loading
             /\ op = "delete" => arg \in list.trips
<1>1. calls \in [Slots -> Calls]
  BY DEF TypeOK
<1>2. PICK op \in Ops \ {"me", "list"}, arg \in Users \cup Ids \cup {None} :
         /\ Send(s, op, arg)
         /\ op \in {"create", "delete"} => auth # SignedOut /\ ~loading
         /\ op = "delete" => arg \in list.trips
  BY DEF SendsSomething
<1>3. calls'[s] = Request(op, Sending, arg) /\ calls[s] = Free
  BY <1>1, <1>2 DEF Send
<1> QED
  BY <1>2, <1>3 DEF Request

(* The slots whose created trips are on their way, after a step.              *)
LEMMA NewsOf ==
    ASSUME TypeOK, ConstantsOK, NEW s \in Slots, Kinds(s)
    PROVE  /\ ~(IsServed(s) /\ calls[s].op = "create" /\ calls'[s].st = "ok") =>
                CreatedSlots' = CreatedSlots \ {s}
           /\ IsServed(s) /\ calls[s].op = "create" /\ calls'[s].st = "ok" =>
                CreatedSlots' = CreatedSlots \cup {s} /\ s \notin CreatedSlots
           /\ \A t \in Slots \ {s} : News(t)' = News(t)
<1>1. \A t \in Slots \ {s} : Kept(t)
  BY OthersKept
<1>2. ASSUME NEW t \in Slots \ {s}
      PROVE  (t \in CreatedSlots)' <=> t \in CreatedSlots
  BY <1>1 DEF Kept, CreatedSlots, Sent
<1>3. (\A t \in Slots \ {s} : News(t)' = News(t)) /\ CreatedSlots \subseteq Slots /\ CreatedSlots' \subseteq Slots
  BY <1>1 DEF Kept, News, CreatedSlots, Sent
<1>4. CASE IsServed(s)
  <2>1. /\ calls'[s].op = calls[s].op /\ calls[s].st = "sent"
    BY <1>4, ServedSlot
  <2>2. s \notin CreatedSlots
        /\ ((s \in CreatedSlots)' <=> calls[s].op = "create" /\ calls'[s].st = "ok")
    BY <2>1 DEF CreatedSlots, Sent
  <2> QED
    BY <1>2, <1>3, <1>4, <2>2
<1>5. CASE ~IsServed(s)
  <2>1. calls'[s] = Free \/ calls'[s].st = "sent"
    BY <1>5, OwnSlot
  <2>2. (s \notin CreatedSlots)'
    BY <2>1 DEF CreatedSlots, Sent, Free
  <2> QED
    BY <1>2, <1>3, <1>5, <2>2
<1> QED
  BY <1>4, <1>5

LEMMA NewsStep ==
    ASSUME TypeOK, ConstantsOK, BelongsInv, NewsAreNew, [Next]_vars
    PROVE  NewsAreNew'
<1> USE DEF held, Quiet
<1>1. ASSUME NEW s \in Slots, Kinds(s), ~blurred'
      PROVE  \A r \in CreatedSlots' :
               /\ News(r)' \cap list'.trips = {} /\ News(r)' \cap cache'.trips = {}
               /\ \A t \in Sent({"delete"})' : calls'[t].arg \notin News(r)'
               /\ \A t \in CreatedSlots' : t # r => News(r)' \cap News(t)' = {}
  <2>0. ~blurred
    BY <1>1, BlurredStays
  <2>1. \A r \in CreatedSlots :
          /\ News(r) \cap list.trips = {} /\ News(r) \cap cache.trips = {}
          /\ \A t \in Sent({"delete"}) : calls[t].arg \notin News(r)
          /\ \A t \in CreatedSlots : t # r => News(r) \cap News(t) = {}
    BY <2>0 DEF NewsAreNew
  <2>2. /\ \A t \in Slots \ {s} : Kept(t)
        /\ CreatedSlots \subseteq Slots
    BY <1>1, OthersKept DEF CreatedSlots, Sent
  <2>3. CASE IsServed(s) /\ calls[s].op = "create" /\ calls'[s].st = "ok"
    <3>1. PICK i \in Ids : i \in trips[NoUser] /\ News(s)' = {i}
      BY <2>3, ServedTrips DEF News, Gets
    <3>2. CreatedSlots' = CreatedSlots \cup {s} /\ s \notin CreatedSlots
          /\ \A t \in Slots \ {s} : News(t)' = News(t)
      BY <1>1, <2>3, NewsOf
    <3>3. i \notin list.trips /\ i \notin cache.trips
      BY <3>1 DEF BelongsInv, AnswersAreSenders, Created
    <3>4. \A t \in Sent({"delete"}) : calls[t].arg # i
      BY <3>1 DEF BelongsInv, AnswersAreSenders, Created
    <3>5. \A t \in CreatedSlots : i \notin News(t)
      <4>1. ASSUME NEW t \in CreatedSlots
            PROVE  i \notin News(t)
        <5>1. t \in Slots /\ calls[t].op = "create" /\ calls[t].st = "ok"
          BY DEF CreatedSlots, Sent
        <5>2. SomeoneSent(calls[t]) /\ OwnedBy(calls[t].got.trips, calls[t].as.user)
          BY <5>1 DEF BelongsInv, AnswersAreSenders, Sent
        <5>3. calls[t].as.user # NoUser
          BY <5>1, <5>2, CallType DEF SomeoneSent, Ops
        <5> QED
          BY <3>1, <5>2, <5>3 DEF OwnedBy, News
      <4> QED
        BY <4>1
    <3>6. UNCHANGED <<list, cache>> /\ Sent({"delete"})' = Sent({"delete"})
          /\ \A t \in Sent({"delete"}) : calls'[t].arg = calls[t].arg
      <4>1. UNCHANGED <<list, cache>> /\ calls'[s].op = "create"
        BY <2>3, ServedSlot DEF IsServed
      <4> QED
        BY <4>1, <2>2, <2>3 DEF Sent, Kept
    <3> QED
      BY <2>1, <2>2, <3>1, <3>2, <3>3, <3>4, <3>5, <3>6
  <2>4. CASE ~(IsServed(s) /\ calls[s].op = "create" /\ calls'[s].st = "ok")
    <3>1. CreatedSlots' = CreatedSlots \ {s} /\ \A t \in Slots \ {s} : News(t)' = News(t)
      BY <1>1, <2>4, NewsOf
    <3>2. ASSUME NEW r \in CreatedSlots \ {s}
          PROVE  News(r) \cap list'.trips = {} /\ News(r) \cap cache'.trips = {}
      <4>1. CASE ListArrives(s)
        <5>1. InFlight({"create", "delete"})
          BY <2>2, <3>2 DEF InFlight, CreatedSlots, Sent
        <5> QED
          BY <1>1, <4>1, <5>1 DEF ListArrives
      <4>2. CASE TripIsAdded(s)
        <5>1. s \in CreatedSlots /\ list'.trips = list.trips \cup News(s) /\ cache' = cache
          BY <4>2 DEF TripIsAdded, CreatedSlots, Sent, News, TypeOK
        <5> QED
          BY <5>1, <2>1, <3>2
      <4>3. CASE TripIsRemoved(s)
        BY <4>3, <2>1 DEF TripIsRemoved, TypeOK
      <4>4. CASE LoadsList(s)
        BY <4>4, <2>1 DEF LoadsList, LoadTrips
      <4>5. CASE CopyIsShown(s)
        BY <4>5, <2>1 DEF CopyIsShown
      <4>6. CASE SignsOut(s)
        BY <4>6, <2>1 DEF SignsOut, ClearOwnerSession, NoTrips
      <4>7. CASE SendsSomething(s) \/ HearsNothing(s) \/ AccountGoes(s) \/ IsServed(s)
        BY <4>7, <2>1 DEF SendsSomething, HearsNothing, AccountGoes, IsServed
      <4> QED
        BY <1>1, <4>1, <4>2, <4>3, <4>4, <4>5, <4>6, <4>7 DEF Kinds
    <3>3. ASSUME NEW r \in CreatedSlots \ {s}, NEW t \in Slots, calls'[t].op = "delete"
          PROVE  calls'[t].arg \notin News(r)
      <4>1. CASE t # s
        BY <4>1, <3>3, <2>1, <2>2 DEF Kept, Sent
      <4>2. CASE t = s /\ SendsSomething(s)
        <5>1. calls'[s].arg \in list.trips
          BY <3>3, <4>2, SentSlot
        <5> QED
          BY <4>2, <5>1, <2>1, <3>3
      <4>3. CASE t = s /\ IsServed(s)
        BY <4>3, <2>1, <3>3, ServedSlot DEF Sent
      <4>4. CASE t = s /\ ~SendsSomething(s) /\ ~IsServed(s)
        BY <1>1, <4>4, <3>3, AnswersGone
      <4> QED
        BY <4>1, <4>2, <4>3, <4>4
    <3> QED
      BY <2>1, <2>2, <3>1, <3>2, <3>3 DEF Sent
  <2> QED
    BY <2>3, <2>4
<1>2. CASE AnotherTab
  BY <1>2 DEF AnotherTab, NewsAreNew, CreatedSlots, Sent, News
<1>3. CASE NothingHappens
  BY <1>3 DEF NothingHappens, NewsAreNew, CreatedSlots, Sent, News
<1>4. CASE PageOpens
  <2>1. \A t \in Slots : calls'[t].op # "create"
    BY <1>4 DEF PageOpens, OpenedCalls, Request, Free
  <2> QED
    BY <2>1 DEF NewsAreNew, CreatedSlots, Sent
<1>5. ASSUME NEW s \in Slots, Kinds(s)
      PROVE  NewsAreNew'
  BY <1>1, <1>5 DEF NewsAreNew
<1> QED
  BY <1>2, <1>3, <1>4, <1>5, StepKinds

(* The same of the deleted trips, and of the writes of unknown outcome.       *)
LEMMA DeletionsOf ==
    ASSUME TypeOK, ConstantsOK, NEW s \in Slots, Kinds(s)
    PROVE  /\ ~(IsServed(s) /\ calls[s].op = "delete" /\ calls'[s].st = "ok") =>
                DeletedSlots' = DeletedSlots \ {s}
           /\ IsServed(s) /\ calls[s].op = "delete" /\ calls'[s].st = "ok" =>
                DeletedSlots' = DeletedSlots \cup {s} /\ s \notin DeletedSlots
           /\ \A t \in Slots \ {s} : calls'[t].arg = calls[t].arg
<1>1. \A t \in Slots \ {s} : Kept(t)
  BY OthersKept
<1>2. ASSUME NEW t \in Slots \ {s}
      PROVE  (t \in DeletedSlots)' <=> t \in DeletedSlots
  BY <1>1 DEF Kept, DeletedSlots, Sent
<1>3. (\A t \in Slots \ {s} : calls'[t].arg = calls[t].arg) /\ DeletedSlots \subseteq Slots
      /\ DeletedSlots' \subseteq Slots
  BY <1>1 DEF Kept, DeletedSlots, Sent
<1>4. CASE IsServed(s)
  <2>1. /\ calls'[s].op = calls[s].op /\ calls[s].st = "sent"
    BY <1>4, ServedSlot
  <2>2. s \notin DeletedSlots
        /\ ((s \in DeletedSlots)' <=> calls[s].op = "delete" /\ calls'[s].st = "ok")
    BY <2>1 DEF DeletedSlots, Sent
  <2> QED
    BY <1>2, <1>3, <1>4, <2>2
<1>5. CASE ~IsServed(s)
  <2>1. calls'[s] = Free \/ calls'[s].st = "sent"
    BY <1>5, OwnSlot
  <2>2. (s \notin DeletedSlots)'
    BY <2>1 DEF DeletedSlots, Sent, Free
  <2> QED
    BY <1>2, <1>3, <1>5, <2>2
<1> QED
  BY <1>4, <1>5

(* Without new doubt, a step of the page ends no write of unknown outcome.    *)
LEMMA DoubtStays ==
    ASSUME TypeOK, ConstantsOK, NEW s \in Slots, Kinds(s), ~blurred'
    PROVE  /\ ~Erased' => ~Erased
           /\ ~Lost({"create", "delete"})' => ~Lost({"create", "delete"})
<1>1. \A t \in Slots \ {s} : Kept(t)
  BY OthersKept
<1>2. /\ calls[s].op = "erase" => calls[s].st \notin {"ok", "failed"} \/ AccountGoes(s)
      /\ calls[s].op \in {"create", "delete"} => calls[s].st # "failed"
  <2>1. CASE SendsSomething(s)
    BY <2>1 DEF SendsSomething, Send, Free
  <2>2. CASE HearsNothing(s)
    BY <2>2 DEF HearsNothing
  <2>3. CASE LoadsList(s)
    BY <2>3 DEF LoadsList
  <2>4. CASE ListArrives(s)
    BY <2>4 DEF ListArrives
  <2>5. CASE CopyIsShown(s)
    BY <2>5 DEF CopyIsShown
  <2>6. CASE SignsOut(s)
    BY <2>6 DEF SignsOut
  <2>7. CASE AccountGoes(s)
    BY <2>7 DEF AccountGoes
  <2>8. CASE TripIsAdded(s)
    BY <2>8 DEF TripIsAdded
  <2>9. CASE TripIsRemoved(s)
    BY <2>9 DEF TripIsRemoved
  <2>10. CASE IsServed(s)
    BY <2>10 DEF IsServed
  <2> QED
    BY <2>1, <2>2, <2>3, <2>4, <2>5, <2>6, <2>7, <2>8, <2>9, <2>10 DEF Kinds
<1>3. ~AccountGoes(s)
  BY DEF AccountGoes
<1> QED
  BY <1>1, <1>2, <1>3 DEF Erased, Lost, Sent, Kept

(* What is on its way, member by member.                                      *)
LEMMA NewsMembers ==
    /\ \A x : x \in Unshown <=> \E r \in CreatedSlots : x \in News(r)
    /\ \A x : x \in Unhidden <=> \E r \in DeletedSlots : x = calls[r].arg
    /\ \A x : x \in Unshown' <=> \E r \in CreatedSlots' : x \in News(r)'
    /\ \A x : x \in Unhidden' <=> \E r \in DeletedSlots' : x = calls'[r].arg
BY DEF Unshown, Unhidden

LEMMA SameMembers == \A S, T : (\A x : x \in S <=> x \in T) => S = T
OBVIOUS

LEMMA CurrentAnswerStep ==
    ASSUME TypeOK, ConstantsOK, BelongsInv, AnswerIsCurrent, [Next]_vars
    PROVE  AnswerIsCurrent'
<1> USE DEF held, Quiet
<1>1. ASSUME NEW s \in Slots, Kinds(s), ~blurred', ~Writing', ~Erased',
             NEW t \in Slots, calls'[t].op = "list", calls'[t].live, calls'[t].st = "ok"
      PROVE  News(t)' = trips'[calls'[t].as.user]
  <2>1. \A r \in Slots \ {s} : Kept(r)
    BY <1>1, OthersKept
  <2>2. ~blurred /\ ~Erased
    BY <1>1, BlurredStays, DoubtStays
  <2>3. calls'[s].op \notin {"create", "delete"} /\ \A r \in Slots \ {s} : calls[r].op \notin {"create", "delete"}
    BY <1>1, <2>1 DEF Writing, InFlight, Kept
  <2>4. CASE IsServed(s)
    <3>1. calls[s].op \notin {"create", "delete"} /\ calls'[s].op = calls[s].op
          /\ calls'[s].as = calls[s].as /\ calls'[s].live = calls[s].live
      BY <2>3, <2>4, ServedSlot
    <3>2. UNCHANGED trips
      <4>1. calls[s].op = "erase" => calls'[s].st \notin {"ok", "failed"}
        BY <1>1, <3>1 DEF Erased, Sent
      <4> QED
        BY <2>4, <3>1, <4>1, ServedTrips
    <3>3. ~Writing
      BY <2>3, <3>1 DEF Writing, InFlight
    <3>4. CASE t = s
      BY <1>1, <2>4, <3>1, <3>2, <3>4, ServedTrips DEF News
    <3>5. CASE t # s
      <4>1. calls[t].op = "list" /\ calls[t].live /\ calls[t].st = "ok" /\ News(t)' = News(t)
            /\ calls'[t].as = calls[t].as
        BY <1>1, <2>1, <3>5 DEF Kept, News
      <4> QED
        BY <2>2, <3>2, <3>3, <4>1 DEF AnswerIsCurrent, Sent
    <3> QED
      BY <3>4, <3>5
  <2>5. CASE ~IsServed(s)
    <3>1. t # s
      BY <1>1, <2>5, OwnSlot DEF Free
    <3>2. /\ calls[t].op = "list" /\ calls[t].live /\ calls[t].st = "ok" /\ News(t)' = News(t)
          /\ calls'[t].as = calls[t].as
      BY <1>1, <2>1, <3>1 DEF Kept, News
    <3>3. InFlight({"list"})
      BY <3>2 DEF InFlight
    <3>4. calls[s].op \notin {"create", "delete"} /\ UNCHANGED trips
      BY <1>1, <2>5, <3>3 DEF Kinds, SendsSomething, Send, Free, HearsNothing, LoadsList, ListArrives,
            CopyIsShown, SignsOut, AccountGoes, TripIsAdded, TripIsRemoved, server
    <3>5. ~Writing
      BY <2>3, <3>4 DEF Writing, InFlight
    <3> QED
      BY <2>2, <3>2, <3>4, <3>5 DEF AnswerIsCurrent, Sent
  <2> QED
    BY <2>4, <2>5
<1>2. CASE AnotherTab
  BY <1>2 DEF AnotherTab, AnswerIsCurrent, Writing, InFlight, Erased, Sent, News, server
<1>3. CASE NothingHappens
  BY <1>3 DEF NothingHappens, AnswerIsCurrent, Writing, InFlight, Erased, Sent, News, server
<1>4. CASE PageOpens
  <2>1. \A t \in Slots : calls'[t].op # "list"
    BY <1>4 DEF PageOpens, OpenedCalls, Request, Free
  <2> QED
    BY <2>1 DEF AnswerIsCurrent, Sent
<1>5. ASSUME NEW s \in Slots, Kinds(s)
      PROVE  AnswerIsCurrent'
  BY <1>1, <1>5 DEF AnswerIsCurrent, Sent
<1> QED
  BY <1>2, <1>3, <1>4, <1>5, StepKinds

(* The difference between the list and the server, after a step of a slot.    *)
LEMMA PlusNewsSlot ==
    ASSUME TypeOK, ConstantsOK, BelongsInv, NewsAreNew, AnswerIsCurrent, ListPlusNews,
           NEW s \in Slots, Kinds(s), Landed'
    PROVE  /\ \A t \in Slots : calls'[t].op \in {"create", "delete"} =>
                calls'[t].as = Nobody \/ calls'[t].as.user = auth'.user
           /\ ~Erased' /\ ~Lost({"create", "delete"})' =>
                trips'[auth'.user] = (list'.trips \cup Unshown') \ Unhidden'
<1> USE DEF held, Quiet
<1>0. /\ auth' # SignedOut /\ ~loading' /\ list'.from = "server" /\ ~foreign' /\ ~blurred'
      /\ ~blurred
  BY BlurredStays DEF Landed
<1>1. \A t \in Slots \ {s} : Kept(t)
  BY OthersKept
<1>2. CASE ListArrives(s)
  <2>1. /\ calls[s].op = "list" /\ calls[s].live /\ calls[s].st = "ok" /\ calls'[s] = Free
        /\ list'.trips = News(s) /\ UNCHANGED <<auth, trips>> /\ ~InFlight({"create", "delete"})
        /\ ~foreign \/ auth.token # Nobody
    BY <1>0, <1>2 DEF ListArrives, server, News, TypeOK
  <2>2. \A t \in Slots : calls'[t].op \notin {"create", "delete"}
    BY <1>1, <2>1 DEF Kept, InFlight, Free
  <2>3. calls[s].as # Nobody /\ calls[s].as.user = auth.user
    BY <2>1 DEF BelongsInv, LoadIsForAccount, HeaderIsSession, AnswersAreSenders, Sent, SomeoneSent
  <2>4. Unshown' = {} /\ Unhidden' = {}
    BY <2>2 DEF Unshown, Unhidden, CreatedSlots, DeletedSlots, Sent
  <2>5. ASSUME ~Erased'
        PROVE  News(s) = trips[auth.user]
    BY <1>0, <2>1, <2>3, <2>5, DoubtStays DEF AnswerIsCurrent, Writing, Sent
  <2> QED
    BY <2>1, <2>2, <2>4, <2>5
<1>3. CASE ~ListArrives(s)
  <2>1. auth' = auth /\ auth # SignedOut /\ ~loading /\ list.from = "server" /\ ~foreign
    BY <1>0, <1>3, ScreenSteps
  <2>2. /\ \A t \in Slots : calls[t].op \in {"create", "delete"} =>
             calls[t].as = Nobody \/ calls[t].as.user = auth.user
        /\ ~Erased /\ ~Lost({"create", "delete"}) =>
             trips[auth.user] = (list.trips \cup Unshown) \ Unhidden
    BY <1>0, <2>1 DEF ListPlusNews, Landed, Sent
  <2>3. ~Erased' /\ ~Lost({"create", "delete"})' =>
          trips[auth.user] = (list.trips \cup Unshown) \ Unhidden
    BY <1>0, <2>2, DoubtStays
  <2>4. \A t \in Slots \ {s} : calls'[t].op \in {"create", "delete"} =>
          calls'[t].as = Nobody \/ calls'[t].as.user = auth'.user
    BY <1>1, <2>1, <2>2 DEF Kept
  <2>5. CASE TripIsAdded(s)
    <3>1. /\ calls[s].op = "create" /\ calls[s].st = "ok" /\ ~IsServed(s) /\ UNCHANGED trips
          /\ list'.trips = list.trips \cup News(s) /\ calls'[s] = Free
      BY <2>5 DEF TripIsAdded, IsServed, News, TypeOK, server
    <3>2. /\ CreatedSlots' = CreatedSlots \ {s} /\ s \in CreatedSlots /\ CreatedSlots \subseteq Slots
          /\ \A t \in Slots \ {s} : News(t)' = News(t)
      BY <3>1, NewsOf DEF CreatedSlots, Sent
    <3>3. DeletedSlots' = DeletedSlots /\ DeletedSlots \subseteq Slots \ {s}
          /\ \A t \in Slots \ {s} : calls'[t].arg = calls[t].arg
      BY <3>1, DeletionsOf DEF DeletedSlots, Sent
    <3>4. list'.trips \cup Unshown' = list.trips \cup Unshown
      BY <3>1, <3>2 DEF Unshown
    <3>5. Unhidden' = Unhidden
      BY <3>3 DEF Unhidden
    <3> QED
      BY <2>1, <2>3, <2>4, <3>1, <3>4, <3>5 DEF Free
  <2>6. CASE TripIsRemoved(s)
    <3>1. /\ calls[s].op = "delete" /\ calls[s].st = "ok" /\ ~IsServed(s) /\ UNCHANGED trips
          /\ list'.trips = list.trips \ {calls[s].arg} /\ calls'[s] = Free
      BY <2>6 DEF TripIsRemoved, IsServed, TypeOK, server
    <3>2. /\ CreatedSlots' = CreatedSlots /\ CreatedSlots \subseteq Slots \ {s}
          /\ \A t \in Slots \ {s} : News(t)' = News(t)
      BY <3>1, NewsOf DEF CreatedSlots, Sent
    <3>3. DeletedSlots' = DeletedSlots \ {s} /\ s \in DeletedSlots /\ DeletedSlots \subseteq Slots
          /\ \A t \in Slots \ {s} : calls'[t].arg = calls[t].arg
      BY <3>1, DeletionsOf DEF DeletedSlots, Sent
    <3>4. Unshown' = Unshown
      BY <3>2 DEF Unshown
    <3>5. Unhidden = Unhidden' \cup {calls[s].arg}
      BY <3>3 DEF Unhidden
    <3>6. calls[s].arg \notin Unshown
      BY <1>0, <3>1 DEF NewsAreNew, Unshown, Sent
    <3> QED
      BY <2>1, <2>3, <2>4, <3>1, <3>4, <3>5, <3>6 DEF Free
  <2>7. CASE list' = list /\ ~IsServed(s) /\ (SendsSomething(s) \/ HearsNothing(s) \/ AccountGoes(s))
    <3>1. s \notin CreatedSlots /\ s \notin DeletedSlots /\ UNCHANGED trips /\ CreatedSlots \subseteq Slots
          /\ DeletedSlots \subseteq Slots
      BY <1>0, <2>7 DEF SendsSomething, Send, HearsNothing, AccountGoes, Free, CreatedSlots, DeletedSlots,
            Sent, server
    <3>2. CreatedSlots' = CreatedSlots /\ DeletedSlots' = DeletedSlots
          /\ \A t \in Slots \ {s} : News(t)' = News(t) /\ calls'[t].arg = calls[t].arg
      BY <2>7, <3>1, NewsOf, DeletionsOf
    <3>3. Unshown' = Unshown /\ Unhidden' = Unhidden
      BY <3>1, <3>2 DEF Unshown, Unhidden
    <3>4. calls'[s].op \in {"create", "delete"} => calls'[s].as = Nobody \/ calls'[s].as.user = auth.user
      <4>1. CASE SendsSomething(s)
        <5>1. calls'[s].as = Sending
          BY <4>1, SentSlot
        <5> QED
          BY <2>1, <5>1 DEF Sending, BelongsInv, HeaderIsSession
      <4>2. CASE ~SendsSomething(s)
        BY <2>7, <4>2, AnswersGone
      <4> QED
        BY <4>1, <4>2
    <3> QED
      BY <2>1, <2>3, <2>4, <2>7, <3>1, <3>3, <3>4
  <2>8. CASE list' = list /\ IsServed(s)
    <3>0. /\ calls'[s].op = calls[s].op /\ calls'[s].as = calls[s].as /\ calls'[s].arg = calls[s].arg
          /\ calls[s].as # Nobody => calls[s].as.user \in Users /\ calls[s].as.user # NoUser
          /\ calls'[s].st \in {"ok", "failed", "denied"} /\ s \notin CreatedSlots /\ s \notin DeletedSlots
          /\ CreatedSlots \subseteq Slots /\ DeletedSlots \subseteq Slots
      BY <2>8, ServedSlot DEF CreatedSlots, DeletedSlots, Sent
    <3>1. \A t \in Slots : calls'[t].op \in {"create", "delete"} =>
            calls'[t].as = Nobody \/ calls'[t].as.user = auth'.user
      BY <2>1, <2>2, <2>4, <3>0
    <3>m. CreatedSlots \ {s} = CreatedSlots /\ DeletedSlots \ {s} = DeletedSlots
      BY <3>0
    <3>n. \A t \in Slots \ {s} : News(t)' = News(t) /\ calls'[t].arg = calls[t].arg
      BY NewsOf, DeletionsOf
    <3>u. PICK au \in Users : au = auth.user /\ trips \in [Users \cup {NoUser} -> SUBSET Ids]
      BY <2>1 DEF TypeOK
    <3>2. ASSUME ~Erased', ~Lost({"create", "delete"})'
          PROVE  trips'[au] = (list.trips \cup Unshown') \ Unhidden'
      <4>0. trips[au] = (list.trips \cup Unshown) \ Unhidden
        BY <2>3, <3>2, <3>u
      <4>f. /\ calls[s].op \in {"create", "delete"} => calls'[s].st # "failed"
            /\ calls[s].op = "erase" => calls'[s].st \notin {"ok", "failed"}
        BY <3>0, <3>2 DEF Lost, Erased, Sent
      <4>1. CASE calls[s].op = "create" /\ calls'[s].st = "ok"
        <5>1. PICK i \in Ids : Gets(calls[s].as.user, i) /\ News(s)' = {i} /\ calls[s].as # Nobody
          BY <2>8, <4>1, ServedTrips DEF News
        <5>2. calls[s].as.user = au
          BY <2>2, <3>u, <4>1, <5>1
        <5>3. trips'[au] = trips[au] \cup {i} /\ i \in trips[NoUser]
          BY <5>1, <5>2 DEF Gets
        <5>4. CreatedSlots' = CreatedSlots \cup {s} /\ DeletedSlots' = DeletedSlots
          BY <2>8, <3>m, <4>1, NewsOf, DeletionsOf
        <5>5. Unshown' = Unshown \cup {i}
          <6>1. \A x : x \in Unshown' <=> x \in Unshown \cup {i}
            BY <3>0, <3>n, <5>1, <5>4, NewsMembers
          <6> QED
            BY <6>1, SameMembers
        <5>6. Unhidden' = Unhidden
          BY <3>0, <3>n, <5>4 DEF Unhidden
        <5>7. i \notin Unhidden
          BY <5>3 DEF Unhidden, DeletedSlots, BelongsInv, AnswersAreSenders, Created, Sent
        <5> QED
          BY <4>0, <5>3, <5>5, <5>6, <5>7
      <4>2. CASE calls[s].op = "delete" /\ calls'[s].st = "ok"
        <5>1. calls[s].as # Nobody /\ trips' = [trips EXCEPT ![calls[s].as.user] = @ \ {calls[s].arg}]
          BY <2>8, <4>2, ServedTrips
        <5>2. calls[s].as.user = au
          BY <2>2, <3>u, <4>2, <5>1
        <5>3. trips'[au] = trips[au] \ {calls[s].arg}
          BY <3>u, <5>1, <5>2
        <5>4. CreatedSlots' = CreatedSlots /\ DeletedSlots' = DeletedSlots \cup {s}
          BY <2>8, <3>m, <4>2, NewsOf, DeletionsOf
        <5>5. Unshown' = Unshown
          BY <3>0, <3>n, <5>4 DEF Unshown
        <5>6. Unhidden' = Unhidden \cup {calls[s].arg}
          <6>1. \A x : x \in Unhidden' <=> x \in Unhidden \cup {calls[s].arg}
            BY <3>0, <3>n, <5>4, NewsMembers
          <6> QED
            BY <6>1, SameMembers
        <5> QED
          BY <4>0, <5>3, <5>5, <5>6
      <4>3. CASE ~(calls[s].op \in {"create", "delete"} /\ calls'[s].st = "ok")
        <5>1. UNCHANGED trips
          BY <2>8, <3>0, <4>3, <4>f, ServedTrips
        <5>2. CreatedSlots' = CreatedSlots /\ DeletedSlots' = DeletedSlots
          BY <3>m, <4>3, NewsOf, DeletionsOf
        <5>3. Unshown' = Unshown /\ Unhidden' = Unhidden
          <6>1. \A x : x \in Unshown' <=> x \in Unshown
            BY <3>0, <3>n, <5>2, NewsMembers
          <6>2. \A x : x \in Unhidden' <=> x \in Unhidden
            BY <3>0, <3>n, <5>2, NewsMembers
          <6> QED
            BY <6>1, <6>2, SameMembers
        <5> QED
          BY <4>0, <5>1, <5>3
      <4> QED
        BY <4>1, <4>2, <4>3
    <3> QED
      BY <2>1, <2>8, <3>1, <3>2, <3>u
  <2> QED
    BY <1>0, <1>3, <2>5, <2>6, <2>7, <2>8, ScreenSteps
<1> QED
  BY <1>2, <1>3

LEMMA PlusNewsStep ==
    ASSUME TypeOK, ConstantsOK, CurrentInv, [Next]_vars
    PROVE  ListPlusNews'
<1> USE DEF held, Quiet
<1>1. ASSUME NEW s \in Slots, Kinds(s)
      PROVE  ListPlusNews'
  BY <1>1, PlusNewsSlot DEF CurrentInv, ListPlusNews, Sent
<1>2. CASE AnotherTab
  BY <1>2 DEF AnotherTab, ListPlusNews, Landed
<1>3. CASE NothingHappens
  BY <1>3 DEF NothingHappens, CurrentInv, ListPlusNews, Landed, Sent, Erased, Lost, Unshown, Unhidden,
        CreatedSlots, DeletedSlots, News, server
<1>4. CASE PageOpens
  BY <1>4 DEF PageOpens, ListPlusNews, Landed
<1> QED
  BY <1>1, <1>2, <1>3, <1>4, StepKinds

LEMMA OwnerCurrent == ASSUME ConstantsOK PROVE Spec => [](TypeOK /\ CurrentInv)
<1>1. Init => TypeOK /\ CurrentInv
  <2>1. ASSUME Init
        PROVE  TypeOK /\ BelongsInv /\ \A s \in Slots : calls[s].op = "free"
    BY <2>1, OwnerStart DEF Init, Free
  <2>2. ASSUME Init
        PROVE  NewsAreNew /\ AnswerIsCurrent /\ ListPlusNews
    BY <2>1, <2>2 DEF Init, NewsAreNew, AnswerIsCurrent, ListPlusNews, Landed, CreatedSlots, Sent
  <2> QED
    BY <2>1, <2>2 DEF CurrentInv
<1>2. TypeOK /\ CurrentInv /\ [Next]_vars => TypeOK' /\ CurrentInv'
  BY BelongsStep, NewsStep, CurrentAnswerStep, PlusNewsStep DEF CurrentInv
<1> QED
  BY <1>1, <1>2, PTL DEF Spec

(* After writes whose outcome is known, and with none in flight, the list     *)
(* page shows the trips the server has.                                       *)
THEOREM ListCurrent == ASSUME ConstantsOK PROVE Spec => []ListIsCurrent
<1>1. TypeOK /\ CurrentInv => ListIsCurrent
  <2>1. SUFFICES ASSUME CurrentInv, ListPage, list.from = "server", ~foreign, ~blurred,
                        ~InFlight({"create", "delete", "erase"})
                 PROVE  list.trips = trips[auth.user]
    BY DEF ListIsCurrent
  <2>2. \A s \in Slots : calls[s].op \notin {"create", "delete", "erase"}
    BY <2>1 DEF InFlight
  <2>3. Landed /\ ~Erased /\ ~Lost({"create", "delete"}) /\ Unshown = {} /\ Unhidden = {}
    BY <2>1, <2>2 DEF Landed, ListPage, Erased, Lost, Unshown, Unhidden, CreatedSlots, DeletedSlots, Sent
  <2>4. trips[auth.user] = (list.trips \cup {}) \ {}
    BY <2>1, <2>3 DEF CurrentInv, ListPlusNews
  <2> QED
    BY <2>4
<1> QED
  BY <1>1, OwnerCurrent, PTL
================================================================================
