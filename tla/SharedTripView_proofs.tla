------------------------- MODULE SharedTripView_proofs -------------------------
(* Theorems about SharedTripView, for every value of its constants.        *)
EXTENDS SharedTripView, TLAPS

-------------------------------------------------------------------------------
(* What the operators on the page and on the calls return.                 *)

LEMMA MountedType ==
  ASSUME NEW t \in Tokens
  PROVE  Mounted(t) \in Page /\ NoCall(t) \in Call
BY SharedTripAssumption DEF Mounted, NoCall, Page, Call

(* The effect leaves what is shown alone, and goes over to the page's link. *)
LEMMA BegunFields ==
  ASSUME NEW p \in Page
  PROVE  /\ Begun(p) \in Page
         /\ Begun(p).token = p.token
         /\ Begun(p).active = p.token
         /\ ~Begun(p).scheduled
         /\ Begun(p).trip = p.trip
         /\ Begun(p).visible = p.visible
         /\ Begun(p).warning = IF Kept(p) THEN p.warning ELSE ""
<1>1. Kept(p) \in BOOLEAN
  BY DEF Kept, Page
<1>2. p.warning \in {"", "offline", "server"} /\ p.token \in Tokens
  BY DEF Page
<1>3. (p.retry /\ p.active = p.token) \in BOOLEAN
      /\ (p.loading \/ ~Kept(p)) \in BOOLEAN
  BY <1>1 DEF Page
<1> QED
  BY <1>1, <1>2, <1>3 DEF Begun, Page

LEMMA ShownFields ==
  ASSUME NEW p \in Page, NEW trip \in Trip \cup {NoTrip}
  PROVE  /\ Shown(p, trip) \in Page
         /\ Shown(p, trip).trip = trip
         /\ Shown(p, trip).visible = (trip # NoTrip)
         /\ Shown(p, trip).token = p.token
         /\ Shown(p, trip).active = p.active
         /\ Shown(p, trip).scheduled = p.scheduled
         /\ Shown(p, trip).warning = p.warning
BY DEF Shown, Page

LEMMA RecoveryFields ==
  ASSUME NEW p \in Page
  PROVE  /\ Recovery(p) \in Page
         /\ Recovery(p).scheduled
         /\ Recovery(p).trip = p.trip
         /\ Recovery(p).visible = p.visible
         /\ Recovery(p).token = p.token
         /\ Recovery(p).active = p.active
         /\ Recovery(p).warning = p.warning
BY DEF Recovery, Page

LEMMA CancelledType ==
  ASSUME TypeOK
  PROVE  /\ Cancelled \in [Slots -> Call]
         /\ \A s \in Slots : ~Cancelled[s].current
BY DEF Cancelled, TypeOK, Call

LEMMA FreedType ==
  ASSUME TypeOK, NEW s \in Slots
  PROVE  /\ Freed(s) \in [Slots -> Call]
         /\ ~Freed(s)[s].current
         /\ \A r \in Slots : r # s => Freed(s)[r] = calls[r]
<1>1. calls[s].token \in Tokens
  BY DEF TypeOK, Call
<1>2. NoCall(calls[s].token) \in Call /\ ~NoCall(calls[s].token).current
  BY <1>1, MountedType DEF NoCall
<1> QED
  BY <1>2 DEF Freed, TypeOK

(* The trip an answer brings. *)
LEMMA AnsweredType ==
  ASSUME TypeOK, NEW s \in Slots
  PROVE  LET trip == [token |-> calls[s].token, version |-> calls[s].version,
                      from |-> "api"]
         IN  /\ trip \in Trip
             /\ [trip EXCEPT !.from = "copy"] \in Trip
             /\ trip # NoTrip
BY SharedTripAssumption DEF TypeOK, Call, Trip

-------------------------------------------------------------------------------
(* Every step keeps the types.                                             *)

LEMMA LoadCopyType == ASSUME TypeOK, LoadCopy PROVE TypeOK'
<1> DEFINE copy == Stored(page.token)
           p == Shown(Begun(page), copy)
<1>1. copy \in Trip \cup {NoTrip} /\ page \in Page
  BY DEF Stored, TypeOK, Page
<1>2. p \in Page
  BY <1>1, BegunFields, ShownFields
<1>3. page' \in Page
  <2>1. page' = [p EXCEPT !.retry = FALSE,
                          !.warning = IF copy # NoTrip THEN "offline" ELSE @,
                          !.error = copy = NoTrip,
                          !.loading = FALSE]
    BY DEF LoadCopy
  <2>2. (copy = NoTrip) \in BOOLEAN
    OBVIOUS
  <2> HIDE DEF p, copy
  <2> QED
    BY <1>2, <2>1, <2>2 DEF Page
<1> QED
  BY <1>3, CancelledType DEF LoadCopy, TypeOK, api

LEMMA LoadTripType == ASSUME TypeOK, LoadTrip PROVE TypeOK'
<1>1. page \in Page /\ NoTrip \in Trip \cup {NoTrip}
  BY DEF TypeOK
<1>2. page' \in Page
  BY <1>1, BegunFields, ShownFields DEF LoadTrip
<1>3. calls' \in [Slots -> Call]
  <2>1. [state |-> "sent", token |-> page.token, version |-> 0,
         current |-> TRUE] \in Call
    <3>1. page.token \in Tokens
      BY <1>1 DEF Page
    <3>2. 0 \in 0..MaxVersion
      BY SharedTripAssumption
    <3> QED
      BY <3>1, <3>2 DEF Call
  <2> QED
    BY <2>1, CancelledType DEF LoadTrip
<1> QED
  BY <1>2, <1>3 DEF LoadTrip, TypeOK, api

LEMMA AnswerType ==
  ASSUME TypeOK, NEW s \in Slots, Answer(s) PROVE TypeOK'
BY ZenonT(60) DEF Answer, TypeOK, Call, api

LEMMA SucceedType ==
  ASSUME TypeOK, NEW s \in Slots, Succeed(s) PROVE TypeOK'
<1> DEFINE trip == [token |-> calls[s].token, version |-> calls[s].version,
                    from |-> "api"]
           kept == [trip EXCEPT !.from = "copy"]
<1>1. trip \in Trip /\ kept \in Trip
  BY AnsweredType
<1>2. page' \in Page
  <2>1. Shown(page, trip) \in Page
    BY <1>1, ShownFields DEF TypeOK
  <2>2. page' = page
        \/ page' = [Shown(page, trip) EXCEPT !.retry = FALSE, !.warning = "",
                                             !.loading = FALSE]
    BY DEF Succeed
  <2> HIDE DEF trip
  <2> QED
    BY <2>1, <2>2 DEF Page, TypeOK
<1>3. cache' = cache \/ cache' = [cache EXCEPT ![calls[s].token] = kept]
  BY DEF Succeed
<1>4. cache' \in [Tokens -> Trip \cup {NoTrip}]
  <2> HIDE DEF kept
  <2> QED
    BY <1>1, <1>3 DEF TypeOK
<1>5. calls' \in [Slots -> Call]
  BY FreedType DEF Succeed
<1> QED
  BY <1>2, <1>4, <1>5 DEF Succeed, TypeOK, api

LEMMA FailType ==
  ASSUME TypeOK, NEW s \in Slots, Fail(s) PROVE TypeOK'
<1> DEFINE copy == Stored(calls[s].token)
<1>1. copy \in Trip \cup {NoTrip} /\ page \in Page
  BY DEF Stored, TypeOK, Call
<1>2. Shown(page, copy) \in Page
  BY <1>1, ShownFields
<1>3. \/ page' = page
      \/ page' = [Shown(page, copy) EXCEPT !.retry = TRUE, !.warning = "server",
                                           !.loading = FALSE]
      \/ page' = [page EXCEPT !.retry = FALSE, !.error = TRUE, !.loading = FALSE]
  BY DEF Fail
<1>4. page' \in Page
  <2> HIDE DEF copy
  <2> QED
    BY <1>1, <1>2, <1>3 DEF Page
<1> QED
  BY <1>4, FreedType DEF Fail, TypeOK, api

LEMMA TypeStep == ASSUME TypeOK, [Next]_vars PROVE TypeOK'
<1>1. CASE LoadCopy \/ LoadTrip
  BY <1>1, LoadCopyType, LoadTripType
<1>2. CASE \E s \in Slots : Answer(s) \/ Succeed(s) \/ Fail(s)
  BY <1>2, AnswerType, SucceedType, FailType
<1>3. CASE GoOnline \/ Focus
  BY <1>3, RecoveryFields DEF GoOnline, Focus, TypeOK, api
<1>4. CASE GoOffline \/ Outage
  BY <1>4 DEF GoOffline, Outage, TypeOK, api
<1>5. CASE Reload
  BY <1>5, MountedType DEF Reload, TypeOK, Page, api
<1>6. ASSUME NEW t \in Tokens, Navigate(t) \/ Evict(t) \/ Revoke(t)
      PROVE  TypeOK'
  BY <1>6 DEF Navigate, Evict, Revoke, TypeOK, Page, api
<1>7. ASSUME NEW t \in Tokens, Edit(t) PROVE TypeOK'
  BY <1>7, SharedTripAssumption DEF Edit, TypeOK
<1>8. CASE UNCHANGED vars
  BY <1>8 DEF vars, TypeOK
<1> QED
  BY <1>1, <1>2, <1>3, <1>4, <1>5, <1>6, <1>7, <1>8 DEF Next

LEMMA InitType == Init => TypeOK
BY MountedType, SharedTripAssumption DEF Init, TypeOK

(* The state of the page, of the browser's storage and of the calls has    *)
(* its type. *)
THEOREM TypeCorrect == Spec => []TypeOK
BY InitType, TypeStep, PTL DEF Spec

-------------------------------------------------------------------------------
(* Every step keeps the inductive invariant.                               *)

LEMMA StoredIsOwn ==
  ASSUME TypeOK, CopyInv, NEW t \in Tokens, Stored(t) # NoTrip
  PROVE  /\ Stored(t) \in Trip
         /\ Stored(t).token = t
         /\ Stored(t).version <= version[t]
         /\ Stored(t).from = "copy"
BY DEF Stored, CopyInv, TypeOK

(* Versions only grow. *)
LEMMA VersionsGrow ==
  ASSUME TypeOK, [Next]_vars
  PROVE  \A t \in Tokens : /\ version[t] \in Nat /\ version'[t] \in Nat
                           /\ version[t] <= version'[t]
<1>1. \A t \in Tokens : version[t] \in 0..MaxVersion
  BY DEF TypeOK
<1>2. CASE \E t \in Tokens : Edit(t)
  BY <1>1, <1>2, SharedTripAssumption DEF Edit, TypeOK
<1>3. CASE UNCHANGED version
  BY <1>1, <1>3, SharedTripAssumption
<1> QED
  BY <1>2, <1>3 DEF Next, LoadCopy, LoadTrip, Answer, Succeed, Fail, GoOnline,
     GoOffline, Focus, Reload, Outage, Navigate, Evict, Revoke, api, vars

LEMMA CopyStep == ASSUME IInv, [Next]_vars PROVE CopyInv'
<1> USE DEF IInv
<1>1. CASE cache' = cache
  <2>1. \A t \in Tokens : cache[t] # NoTrip => cache[t].version \in Nat
    BY SharedTripAssumption DEF TypeOK, Trip
  <2> QED
    BY <1>1, <2>1, VersionsGrow DEF CopyInv
<1>2. ASSUME NEW s \in Slots, Succeed(s), cache' # cache PROVE CopyInv'
  <2>1. calls[s].token \in Tokens /\ calls[s].token = page.active
        /\ calls[s].version <= version[calls[s].token]
    BY <1>2 DEF Succeed, CallInv, TypeOK, Call
  <2> QED
    BY <1>2, <2>1 DEF Succeed, CopyInv, TypeOK, api
<1>3. ASSUME NEW t \in Tokens, Evict(t) PROVE CopyInv'
  BY <1>3 DEF Evict, CopyInv, TypeOK, api
<1> QED
  BY <1>1, <1>2, <1>3 DEF Next, LoadCopy, LoadTrip, Answer, Fail, GoOnline,
     GoOffline, Focus, Reload, Outage, Navigate, Edit, Revoke, api, vars

(* What is shown is marked by the same step that shows it. *)
LEMMA MarkStep == ASSUME IInv, [Next]_vars PROVE CopiesAreMarked'
<1> USE DEF IInv
<1>0. page \in Page /\ NoTrip \in Trip \cup {NoTrip}
  BY DEF TypeOK
<1>1. CASE LoadCopy
  <2> DEFINE copy == Stored(page.token)
  <2>1. copy \in Trip \cup {NoTrip} /\ (copy # NoTrip => copy.from = "copy")
    BY <1>0, StoredIsOwn DEF Page
  <2>2. /\ page'.trip = copy
        /\ copy # NoTrip => page'.warning = "offline"
    <3>1. /\ Shown(Begun(page), copy) \in Page
          /\ Shown(Begun(page), copy).trip = copy
      BY <1>0, <2>1, BegunFields, ShownFields
    <3> HIDE DEF copy
    <3>2. page' = [Shown(Begun(page), copy) EXCEPT
                     !.retry = FALSE,
                     !.warning = IF copy # NoTrip THEN "offline" ELSE @,
                     !.error = copy = NoTrip,
                     !.loading = FALSE]
      BY <1>1 DEF LoadCopy, copy
    <3> QED
      BY <3>1, <3>2 DEF Page
  <2> QED
    BY <2>1, <2>2 DEF CopiesAreMarked
<1>2. CASE LoadTrip
  <2>1. CASE Kept(page)
    BY <1>0, <1>2, <2>1, BegunFields DEF LoadTrip, CopiesAreMarked
  <2>2. CASE ~Kept(page)
    BY <1>0, <1>2, <2>2, BegunFields, ShownFields DEF LoadTrip, CopiesAreMarked
  <2> QED
    BY <2>1, <2>2
<1>3. ASSUME NEW s \in Slots, Succeed(s) PROVE CopiesAreMarked'
  <2> DEFINE trip == [token |-> calls[s].token, version |-> calls[s].version,
                      from |-> "api"]
  <2>1. CASE page' = page
    BY <2>1 DEF CopiesAreMarked
  <2>2. CASE page' = [Shown(page, trip) EXCEPT !.retry = FALSE, !.warning = "",
                                               !.loading = FALSE]
    <3>1. Shown(page, trip) \in Page /\ Shown(page, trip).trip = trip
      BY <1>0, AnsweredType, ShownFields
    <3>2. trip.from = "api"
      OBVIOUS
    <3> HIDE DEF trip
    <3> QED
      BY <2>2, <3>1, <3>2 DEF Page, CopiesAreMarked
  <2> QED
    BY <1>3, <2>1, <2>2 DEF Succeed
<1>4. ASSUME NEW s \in Slots, Fail(s) PROVE CopiesAreMarked'
  <2> DEFINE copy == Stored(calls[s].token)
  <2>1. calls[s].token \in Tokens
    BY DEF TypeOK, Call
  <2>2. copy # NoTrip => copy \in Trip /\ copy.from = "copy"
    BY <2>1, StoredIsOwn
  <2>3. \/ page' = page
        \/ page' = [page EXCEPT !.retry = FALSE, !.error = TRUE,
                                !.loading = FALSE]
        \/ /\ copy # NoTrip
           /\ page' = [Shown(page, copy) EXCEPT
                         !.retry = TRUE, !.warning = "server",
                         !.loading = FALSE]
    BY <1>4 DEF Fail
  <2>4. copy # NoTrip => /\ Shown(page, copy) \in Page
                         /\ Shown(page, copy).trip = copy
    BY <1>0, <2>2, ShownFields
  <2> HIDE DEF copy
  <2> QED
    BY <1>0, <2>2, <2>3, <2>4 DEF CopiesAreMarked, Page
<1>5. CASE GoOnline \/ Focus
  BY <1>0, <1>5, RecoveryFields DEF GoOnline, Focus, CopiesAreMarked
<1>6. CASE Reload
  BY <1>6 DEF Reload, Mounted, CopiesAreMarked
<1>7. ASSUME NEW t \in Tokens, Navigate(t) PROVE CopiesAreMarked'
  BY <1>0, <1>7 DEF Navigate, CopiesAreMarked, Page
<1>8. CASE UNCHANGED page
  BY <1>8 DEF CopiesAreMarked
<1> QED
  BY <1>1, <1>2, <1>3, <1>4, <1>5, <1>6, <1>7, <1>8
  DEF Next, Answer, GoOffline, Outage, Evict, Edit, Revoke, vars

(* The page after an answer: as it was, with an error, or showing what the *)
(* answer or the storage brought for the link the effect last ran for. *)
LEMMA AnsweredPage ==
  ASSUME IInv, NEW s \in Slots, Succeed(s) \/ Fail(s)
  PROVE  /\ page'.token = page.token /\ page'.active = page.active
         /\ page'.scheduled = page.scheduled
         /\ \/ page'.visible = page.visible /\ page'.trip = page.trip
            \/ /\ calls[s].current
               /\ page'.visible /\ page'.trip \in Trip
               /\ page'.trip.token = page.active
               /\ page'.trip.version <= version[page.active]
               /\ page'.trip.from = "copy" \/ calls[s].state = "answered"
               /\ \/ page'.trip.from = "copy"
                  \/ page'.trip.version = calls[s].version
<1> TypeOK /\ CopyInv /\ PageInv /\ CallInv
  BY DEF IInv
<1>0. page \in Page /\ calls[s].token \in Tokens
  BY DEF TypeOK, Call
<1>1. CASE page' = page
  BY <1>1
<1>2. CASE calls[s].current /\ Succeed(s)
  <2> DEFINE trip == [token |-> calls[s].token, version |-> calls[s].version,
                      from |-> "api"]
  <2>1. trip \in Trip /\ trip # NoTrip
    BY AnsweredType
  <2>2. calls[s].state = "answered" /\ trip.token = page.active
        /\ trip.version <= version[page.active] /\ trip.version = calls[s].version
    BY <1>2 DEF Succeed, CallInv
  <2>3. page' = [Shown(page, trip) EXCEPT !.retry = FALSE, !.warning = "",
                                          !.loading = FALSE]
    BY <1>2 DEF Succeed
  <2> HIDE DEF trip
  <2>4. /\ Shown(page, trip) \in Page
        /\ Shown(page, trip).trip = trip /\ Shown(page, trip).visible = TRUE
        /\ Shown(page, trip).token = page.token
        /\ Shown(page, trip).active = page.active
        /\ Shown(page, trip).scheduled = page.scheduled
    BY <1>0, <2>1, ShownFields
  <2>5. /\ page'.trip = trip /\ page'.visible
        /\ page'.token = page.token /\ page'.active = page.active
        /\ page'.scheduled = page.scheduled
    BY <2>3, <2>4 DEF Page
  <2> QED
    BY <1>2, <2>1, <2>2, <2>5
<1>3. CASE calls[s].current /\ Fail(s) /\ Stored(calls[s].token) # NoTrip
  <2> DEFINE copy == Stored(calls[s].token)
  <2>1. calls[s].token = page.active
    BY <1>3 DEF CallInv
  <2>2. copy \in Trip /\ copy.token = page.active
        /\ copy.version <= version[page.active] /\ copy.from = "copy"
    BY <1>0, <1>3, <2>1, StoredIsOwn
  <2>3. page' = [Shown(page, copy) EXCEPT !.retry = TRUE, !.warning = "server",
                                          !.loading = FALSE]
    BY <1>3 DEF Fail
  <2>4. copy # NoTrip
    BY <1>3
  <2> HIDE DEF copy
  <2>5. /\ Shown(page, copy) \in Page
        /\ Shown(page, copy).trip = copy /\ Shown(page, copy).visible = TRUE
        /\ Shown(page, copy).token = page.token
        /\ Shown(page, copy).active = page.active
        /\ Shown(page, copy).scheduled = page.scheduled
    BY <1>0, <2>2, <2>4, ShownFields
  <2>6. /\ page'.trip = copy /\ page'.visible
        /\ page'.token = page.token /\ page'.active = page.active
        /\ page'.scheduled = page.scheduled
    BY <2>3, <2>5 DEF Page
  <2> QED
    BY <1>3, <2>2, <2>6
<1>4. CASE page' = [page EXCEPT !.retry = FALSE, !.error = TRUE,
                                !.loading = FALSE]
  BY <1>0, <1>4 DEF Page
<1> QED
  BY <1>1, <1>2, <1>3, <1>4 DEF Succeed, Fail

(* The page after the effect has run: it shows the link's own copy, what   *)
(* it showed of the link before, or nothing. *)
LEMMA LoadedPage ==
  ASSUME IInv, LoadCopy \/ LoadTrip
  PROVE  /\ page'.token = page.token /\ page'.active = page.token
         /\ ~page'.scheduled
         /\ page'.visible <=> page'.trip # NoTrip
         /\ page'.trip # NoTrip =>
              /\ page'.trip.token = page.token
              /\ page'.trip.version <= version[page.token]
              /\ page'.trip = page.trip \/ page'.trip.from = "copy"
<1> TypeOK /\ CopyInv /\ PageInv /\ CallInv
  BY DEF IInv
<1>0. page \in Page /\ page.token \in Tokens /\ NoTrip \in Trip \cup {NoTrip}
  BY DEF TypeOK, Page
<1>1. CASE LoadCopy
  <2> DEFINE copy == Stored(page.token)
             p == Shown(Begun(page), copy)
  <2>1. /\ copy \in Trip \cup {NoTrip}
        /\ copy # NoTrip => /\ copy.token = page.token
                            /\ copy.version <= version[page.token]
                            /\ copy.from = "copy"
    BY <1>0, StoredIsOwn
  <2>2. /\ p \in Page /\ p.token = page.token /\ p.active = page.token
        /\ ~p.scheduled /\ p.trip = copy /\ p.visible = (copy # NoTrip)
    <3> HIDE DEF copy
    <3>1. /\ Begun(page) \in Page /\ Begun(page).token = page.token
          /\ Begun(page).active = page.token /\ ~Begun(page).scheduled
      BY <1>0, BegunFields
    <3> QED
      BY <2>1, <3>1, ShownFields
  <2>3. page' = [p EXCEPT !.retry = FALSE,
                          !.warning = IF copy # NoTrip THEN "offline" ELSE @,
                          !.error = copy = NoTrip,
                          !.loading = FALSE]
    BY <1>1 DEF LoadCopy
  <2> HIDE DEF p, copy
  <2> QED
    BY <2>1, <2>2, <2>3 DEF Page
<1>2. CASE LoadTrip /\ Kept(page)
  <2>1. page' = Begun(page) /\ page.active = page.token
    BY <1>2 DEF LoadTrip, Kept
  <2> QED
    BY <1>0, <2>1, BegunFields DEF PageInv
<1>3. CASE LoadTrip /\ ~Kept(page)
  <2>1. page' = Shown(Begun(page), NoTrip)
    BY <1>3 DEF LoadTrip
  <2>2. /\ Begun(page) \in Page /\ Begun(page).token = page.token
        /\ Begun(page).active = page.token /\ ~Begun(page).scheduled
    BY <1>0, BegunFields
  <2> QED
    BY <1>0, <2>1, <2>2, ShownFields
<1> QED
  BY <1>1, <1>2, <1>3

LEMMA PageStep == ASSUME IInv, [Next]_vars PROVE PageInv'
<1> TypeOK /\ CopyInv /\ PageInv /\ CallInv
  BY DEF IInv
<1>0. page \in Page /\ page.active \in Tokens
  BY DEF TypeOK, Page
<1>1. \A v \in 0..MaxVersion : \A t \in Tokens :
        v <= version[t] => v <= version'[t]
  BY VersionsGrow, SharedTripAssumption
<1>2. page.trip # NoTrip => page.trip.version \in 0..MaxVersion
  BY <1>0 DEF Page, Trip
<1>3. CASE LoadCopy \/ LoadTrip
  BY <1>3, LoadedPage DEF LoadCopy, LoadTrip, PageInv, api
<1>4. ASSUME NEW s \in Slots, Succeed(s) \/ Fail(s) PROVE PageInv'
  <2>1. version' = version
    BY <1>4 DEF Succeed, Fail, api
  <2>2. CASE page'.visible = page.visible /\ page'.trip = page.trip
    BY <1>4, <2>1, <2>2, AnsweredPage DEF PageInv
  <2>3. CASE page'.visible /\ page'.trip \in Trip
             /\ page'.trip.token = page.active
             /\ page'.trip.version <= version[page.active]
    BY <1>4, <2>1, <2>3, AnsweredPage, SharedTripAssumption DEF PageInv
  <2> QED
    BY <1>4, <2>2, <2>3, AnsweredPage
<1>5. CASE GoOnline \/ Focus
  BY <1>0, <1>5, RecoveryFields DEF GoOnline, Focus, PageInv, api
<1>6. CASE Reload
  BY <1>6 DEF Reload, Mounted, PageInv
<1>7. ASSUME NEW t \in Tokens, Navigate(t) PROVE PageInv'
  <2>1. /\ page'.scheduled /\ page'.active = page.active
        /\ page'.trip = page.trip /\ page'.visible = page.visible
    BY <1>0, <1>7 DEF Navigate, Page
  <2> QED
    BY <1>7, <2>1 DEF Navigate, PageInv, api
<1>8. CASE UNCHANGED page
  BY <1>0, <1>1, <1>2, <1>8 DEF PageInv
<1> QED
  BY <1>3, <1>4, <1>5, <1>6, <1>7, <1>8
  DEF Next, Answer, GoOffline, Outage, Evict, Edit, Revoke, vars

LEMMA CallStep == ASSUME IInv, [Next]_vars PROVE CallInv'
<1> TypeOK /\ CopyInv /\ PageInv /\ CallInv
  BY DEF IInv
<1>0. page \in Page /\ page.active \in Tokens
  BY DEF TypeOK, Page
<1>1. CASE LoadCopy
  BY <1>1, CancelledType DEF LoadCopy, CallInv
<1>2. CASE LoadTrip
  <2>1. PICK s \in Slots :
          calls' = [Cancelled EXCEPT ![s] =
                      [state |-> "sent", token |-> page.token, version |-> 0,
                       current |-> TRUE]]
    BY <1>2 DEF LoadTrip
  <2>2. \A r \in Slots : calls'[r].current => r = s
    BY <2>1, CancelledType
  <2>3. calls'[s].state = "sent" /\ calls'[s].token = page.token
    BY <2>1, CancelledType
  <2>4. page'.active = page.token
    BY <1>2, LoadedPage
  <2> QED
    BY <2>2, <2>3, <2>4 DEF CallInv
<1>3. ASSUME NEW s \in Slots, Answer(s) PROVE CallInv'
  <2>1. /\ \A r \in Slots : r # s => calls'[r] = calls[r]
        /\ calls'[s].state \in {"answered", "failed"}
        /\ calls'[s].token = calls[s].token
        /\ calls'[s].current = calls[s].current
        /\ calls'[s].version = version[calls[s].token]
    BY <1>3 DEF Answer, TypeOK, Call
  <2>2. page' = page /\ version' = version
    BY <1>3 DEF Answer, api
  <2>3. version[page.active] <= version[page.active]
    BY <1>0, SharedTripAssumption DEF TypeOK
  <2> QED
    BY <2>1, <2>2, <2>3 DEF CallInv, PageInv
<1>4. ASSUME NEW s \in Slots, Succeed(s) \/ Fail(s) PROVE CallInv'
  <2>1. \A r \in Slots : calls'[r].current => r # s /\ calls'[r] = calls[r]
    BY <1>4, FreedType DEF Succeed, Fail
  <2>2. version' = version /\ page'.active = page.active
    BY <1>4, AnsweredPage DEF Succeed, Fail, api
  <2>3. CASE page'.trip = page.trip
    BY <2>1, <2>2, <2>3 DEF CallInv
  <2>4. CASE calls[s].current
    BY <2>1, <2>4 DEF CallInv
  <2> QED
    BY <1>4, <2>3, <2>4, AnsweredPage
<1>5. CASE GoOnline \/ Focus
  BY <1>0, <1>5, RecoveryFields DEF GoOnline, Focus, CallInv, api
<1>6. CASE Reload
  BY <1>6 DEF Reload, NoCall, CallInv
<1>7. ASSUME NEW t \in Tokens, Navigate(t) PROVE CallInv'
  <2>1. page'.active = page.active /\ page'.trip = page.trip
    BY <1>0, <1>7 DEF Navigate, Page
  <2> QED
    BY <1>7, <2>1 DEF Navigate, CallInv, api
<1>8. CASE UNCHANGED <<page, calls>>
  <2>1. \A s \in Slots : calls[s].version \in 0..MaxVersion
    BY DEF TypeOK, Call
  <2>2. \A v \in 0..MaxVersion :
          v <= version[page.active] => v <= version'[page.active]
    BY <1>0, VersionsGrow, SharedTripAssumption
  <2> QED
    BY <1>8, <2>1, <2>2 DEF CallInv
<1> QED
  BY <1>1, <1>2, <1>3, <1>4, <1>5, <1>6, <1>7, <1>8
  DEF Next, GoOffline, Outage, Evict, Edit, Revoke, vars

LEMMA InitInv == Init => IInv
<1> SUFFICES ASSUME Init PROVE IInv
  OBVIOUS
<1>1. PICK t \in Tokens : page = Mounted(t) /\ calls = [s \in Slots |-> NoCall(t)]
  BY DEF Init
<1>2. CopiesAreMarked /\ PageInv
  BY <1>1 DEF Mounted, CopiesAreMarked, PageInv
<1>3. \A s \in Slots : ~calls[s].current
  BY <1>1 DEF NoCall
<1>4. CallInv
  BY <1>3 DEF CallInv
<1>5. CopyInv
  BY DEF Init, CopyInv
<1> QED
  BY <1>2, <1>4, <1>5, InitType DEF IInv

THEOREM Inductive == Spec => []IInv
<1>1. IInv /\ [Next]_vars => IInv'
  BY TypeStep, CopyStep, MarkStep, PageStep, CallStep DEF IInv
<1> QED
  BY <1>1, InitInv, PTL DEF Spec

-------------------------------------------------------------------------------
(* The properties.                                                         *)

(* When the effect has run, what the page shows is the trip of its link,   *)
(* whatever answers, recoveries and changes of the link went before. *)
THEOREM ShownIsOwn == Spec => []ShownBelongsToLink
<1>1. IInv => ShownBelongsToLink
  BY DEF IInv, PageInv, ShownBelongsToLink
<1> QED
  BY <1>1, Inductive, PTL

(* A copy carries a warning, and the answer of the API carries none. *)
THEOREM CopiesMarked == Spec => []CopiesAreMarked
<1>1. IInv => CopiesAreMarked
  BY DEF IInv
<1> QED
  BY <1>1, Inductive, PTL

(* Late answers never take the page back to an older version of its trip.  *)
THEOREM NeverOlder == Spec => NeverSilentlyOlder
<1>1. ASSUME IInv, [Next]_vars PROVE [NewerOrMarked]_vars
  <2> TypeOK /\ CopyInv /\ PageInv /\ CallInv
    BY <1>1 DEF IInv
  <2>0. page \in Page
    BY DEF TypeOK
  <2>1. page.trip # NoTrip => page.trip.version \in Nat
    <3>1. page.trip # NoTrip => page.trip \in Trip
      BY <2>0 DEF Page
    <3> QED
      BY <3>1, SharedTripAssumption DEF Trip
  <2>2. ASSUME page'.trip = page.trip PROVE NewerOrMarked
    BY <2>1, <2>2 DEF NewerOrMarked
  <2>3. CASE LoadCopy \/ LoadTrip
    BY <1>1, <2>1, <2>3, LoadedPage DEF NewerOrMarked
  <2>4. ASSUME NEW s \in Slots, Succeed(s) \/ Fail(s) PROVE NewerOrMarked
    <3>1. CASE page'.trip = page.trip
      BY <2>1, <3>1 DEF NewerOrMarked
    <3>2. CASE page'.trip.from = "copy"
      BY <3>2 DEF NewerOrMarked
    <3>3. CASE /\ calls[s].current /\ calls[s].state = "answered"
               /\ page'.trip.version = calls[s].version
      <4>1. page.trip # NoTrip => page.trip.version <= page'.trip.version
        BY <3>3 DEF CallInv
      <4>2. page'.trip.version \in Nat
        BY <3>3, SharedTripAssumption DEF TypeOK, Call
      <4> QED
        BY <2>1, <4>1, <4>2 DEF NewerOrMarked
    <3> QED
      BY <1>1, <2>4, <3>1, <3>2, <3>3, AnsweredPage
  <2>5. CASE GoOnline \/ Focus \/ UNCHANGED page
    BY <2>0, <2>2, <2>5, RecoveryFields DEF GoOnline, Focus
  <2>6. CASE Reload
    BY <2>6 DEF Reload, Mounted, NewerOrMarked
  <2>7. ASSUME NEW t \in Tokens, Navigate(t) PROVE NewerOrMarked
    <3>1. page'.trip = page.trip
      BY <2>0, <2>7 DEF Navigate, Page
    <3> QED
      BY <2>2, <3>1
  <2> QED
    BY <1>1, <2>3, <2>4, <2>5, <2>6, <2>7, <2>2
    DEF Next, Answer, GoOffline, Outage, Evict, Edit, Revoke, vars
<1> QED
  BY <1>1, Inductive, PTL DEF Spec, NeverSilentlyOlder
===============================================================================
