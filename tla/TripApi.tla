-------------------------------- MODULE TripApi --------------------------------
(***************************************************************************)
(* The trip API: TripService, ChecklistService, the PostgreSQL             *)
(* repositories they call and the triggers and foreign keys of the schema, *)
(* with several requests in flight.  A handler first reads (each read is   *)
(* one step and keeps a copy), then runs one writing statement.  The       *)
(* statement is a transaction of its own under READ COMMITTED: it takes    *)
(* row locks one after the other, waits for those other statements hold,   *)
(* and its changes are seen when it commits.  The locks a request holds    *)
(* follow from the step it has reached, at[r], and from call[r].held.      *)
(*                                                                         *)
(* A refused request (400, 403, 404, 409) and a failed statement end the   *)
(* handler and change nothing.  Abort stands for whatever else stops one   *)
(* before it commits: a cancelled request context, a lost connection, the  *)
(* victim PostgreSQL picks in a deadlock, the end of the process.          *)
(***************************************************************************)
EXTENDS TripRows, FiniteSets

CONSTANTS
  Requests,   \* slots for requests being handled at the same time
  Endpoints,  \* the endpoints clients call in this instance
  Editable,   \* the columns PATCH requests give in this instance
  Presets     \* checklist items saved with a new trip

ASSUME TripApiAssumption == Presets \in Nat

VARIABLES
  trips,  \* id -> trips row
  rows,   \* id -> row of schedules, checklists, places or flights
  at,     \* request -> next step of its handler
  call    \* request -> the handler's local variables

vars == <<trips, rows, at, call>>

Columns == {"date", "back", "place", "text"}

(* The reads trip .. checklists come before the statement: write starts    *)
(* it, guard, commit, unlink, commitTrip and cascade hold locks.           *)
Steps == {"idle", "trip", "row", "place", "schedules", "checklists", "write",
          "guard", "commit", "unlink", "commitTrip", "cascade"}

Ops == {"none", "createItem", "updateItem", "deleteItem",
        "createTrip", "updateTrip", "deleteTrip"}

(* The request's fields, the row (new) or dates (span) to be written, and  *)
(* the items whose rows the statement has locked. *)
Call == [op : Ops, user : Users \cup {None}, trip : Trips \cup {None},
         item : Items \cup {None}, given : SUBSET Columns, new : ItemRow,
         span : Span, held : SUBSET Items]

NoCall == [op |-> "none", user |-> None, trip |-> None, item |-> None,
           given |-> {}, new |-> NoItemRow("unused"), span |-> NoSpan,
           held |-> {}]

TypeOK ==
  /\ trips \in [Trips -> TripRow]
  /\ rows \in [Items -> ItemRow]
  /\ at \in [Requests -> Steps]
  /\ call \in [Requests -> Call]

Init ==
  /\ trips = [t \in Trips |-> NoTripRow("unused")]
  /\ rows = [i \in Items |-> NoItemRow("unused")]
  /\ at = [r \in Requests |-> "idle"]
  /\ call = [r \in Requests |-> NoCall]

-------------------------------------------------------------------------------
(* Handlers and locks.                                                     *)

LiveTrip(t) == t \in Trips /\ trips[t].state = "live"
LiveItem(i) == i \in Items /\ rows[i].state = "live"

(* The handler goes on to a step with the locals c, or answers an error.   *)
GoOn(r, ok, to, c) ==
  /\ at' = [at EXCEPT ![r] = IF ok THEN to ELSE "idle"]
  /\ call' = [call EXCEPT ![r] = IF ok THEN c ELSE NoCall]

Finish(r) ==
  /\ at' = [at EXCEPT ![r] = "idle"]
  /\ call' = [call EXCEPT ![r] = NoCall]

(* Requests whose statement has locked the row of an item, of a trip, and  *)
(* of a trip in the mode a foreign key check waits for.  (Operators named  *)
(* as variants of another, like the next two of TripHolders, are faults a  *)
(* property is shown to notice; no action uses them.) *)
ItemHolders(i) == {q \in Requests : i \in call[q].held}

TripHoldersWithoutTrigger(t) ==
  {q \in Requests : /\ at[q] \in {"commitTrip", "cascade"}
                    /\ call[q].trip = t}

TripHoldersFromTheStart(t) ==
  {q \in Requests : /\ at[q] \in {"guard", "commit", "commitTrip", "cascade"}
                    /\ call[q].trip = t}

TripHolders(t) ==
  {q \in Requests : /\ at[q] \in {"commit", "commitTrip", "cascade"}
                    /\ call[q].trip = t}

KeyHolders(t) ==
  {q \in Requests : at[q] \in {"commit", "cascade"} /\ call[q].trip = t}

(* FOREIGN KEY (place_id): checked for a place the row did not have yet.   *)
NewPlaceUnchecked(c) == FALSE

NewPlace(c) ==
  c.new.place # None /\ (c.op = "createItem" \/ rows[c.item].place # c.new.place)

RowsOf(t) == {i \in Items : LiveItem(i) /\ rows[i].trip = t}

SchedulesAt(p) == {i \in Schedules : LiveItem(i) /\ rows[i].place = p}

(* The rows a DELETE reaches through ON DELETE CASCADE or SET NULL. *)
Children(c) == IF c.op = "deleteTrip" THEN RowsOf(c.trip) ELSE SchedulesAt(c.item)

(* The requests whose locks the next step of r waits for.                  *)
WaitsFor(r) ==
  LET c == call[r] IN
  CASE at[r] = "write" /\ c.op \in {"updateItem", "deleteItem"} ->
         ItemHolders(c.item)
    [] at[r] = "write" /\ c.op = "createItem" ->
         IF Guarded(c.item, c.new.date) THEN TripHolders(c.trip)
         ELSE KeyHolders(c.trip)
    [] at[r] = "write" /\ c.op \in {"updateTrip", "deleteTrip"} ->
         TripHolders(c.trip)
    [] at[r] = "guard" -> TripHolders(c.trip)
    [] at[r] = "commit" ->
         IF NewPlace(c) THEN ItemHolders(c.new.place) ELSE {}
    [] at[r] \in {"unlink", "cascade"} ->
         UNION {ItemHolders(i) : i \in Children(c) \ c.held}
    [] OTHER -> {}

-------------------------------------------------------------------------------
(* A request arrives.  Clients name ids the API has handed out.            *)

Begin(r, step, c) ==
  /\ at[r] = "idle"
  /\ at' = [at EXCEPT ![r] = step]
  /\ call' = [call EXCEPT ![r] = c]
  /\ UNCHANGED <<trips, rows>>

KnownTrips == {t \in Trips : trips[t].state # "unused"}
KnownItems == {i \in Items : rows[i].state # "unused"}

(* newID: an id no row has or had and no other handler has drawn.          *)
FreshItems(S) ==
  {i \in S : /\ rows[i].state = "unused"
             /\ \A q \in Requests : call[q].item # i}
FreshTrips ==
  {t \in Trips : /\ trips[t].state = "unused"
                 /\ \A q \in Requests : call[q].trip # t}

CreateIn(S, r) ==
  \E u \in Users, t \in KnownTrips, i \in FreshItems(S) :
    \E content \in Contents(i) :
      Begin(r, "trip", [NoCall EXCEPT !.op = "createItem", !.user = u,
                                      !.trip = t, !.item = i,
                                      !.new = content])

UpdateIn(S, r) ==
  \E u \in Users, t \in KnownTrips, i \in KnownItems \cap S :
    \E given \in SUBSET (ColumnsOf(i) \cap Editable) :
      \E new \in {Patched(NoItemRow("live"), given, c) : c \in Contents(i)} :
        Begin(r, "trip", [NoCall EXCEPT !.op = "updateItem", !.user = u,
                                        !.trip = t, !.item = i,
                                        !.given = given, !.new = new])

DeleteIn(S, r) ==
  \E u \in Users, t \in KnownTrips, i \in KnownItems \cap S :
    Begin(r, "trip", [NoCall EXCEPT !.op = "deleteItem", !.user = u,
                                    !.trip = t, !.item = i])

CreateSchedule(r) == "createSchedule" \in Endpoints /\ CreateIn(Schedules, r)
UpdateSchedule(r) == "updateSchedule" \in Endpoints /\ UpdateIn(Schedules, r)
DeleteSchedule(r) == "deleteSchedule" \in Endpoints /\ DeleteIn(Schedules, r)
CreatePlace(r) == "createPlace" \in Endpoints /\ CreateIn(Places, r)
UpdatePlace(r) == "updatePlace" \in Endpoints /\ UpdateIn(Places, r)
DeletePlace(r) == "deletePlace" \in Endpoints /\ DeleteIn(Places, r)
CreateFlight(r) == "createFlight" \in Endpoints /\ CreateIn(Flights, r)
UpdateFlight(r) == "updateFlight" \in Endpoints /\ UpdateIn(Flights, r)
DeleteFlight(r) == "deleteFlight" \in Endpoints /\ DeleteIn(Flights, r)

CreateChecklistCustomItem(r) ==
  "createChecklist" \in Endpoints /\ CreateIn(Checklists, r)

(* These two paths name the item only; its trip is the one it is read in.  *)
UpdateChecklistItem(r) ==
  /\ "updateChecklist" \in Endpoints
  /\ \E u \in Users, i \in KnownItems \cap Checklists :
       \E given \in SUBSET (ColumnsOf(i) \cap Editable) :
         \E new \in {Patched(NoItemRow("live"), given, c) : c \in Contents(i)} :
           Begin(r, "row", [NoCall EXCEPT !.op = "updateItem", !.user = u,
                                          !.item = i, !.given = given,
                                          !.new = new])

DeleteChecklistItem(r) ==
  /\ "deleteChecklist" \in Endpoints
  /\ \E u \in Users, i \in KnownItems \cap Checklists :
       Begin(r, "row", [NoCall EXCEPT !.op = "deleteItem", !.user = u,
                                      !.item = i])

(* CreateTrip checks its input and saves the trip with its presets; the    *)
(* transaction has nothing to wait for. *)
CreateTrip(r) ==
  /\ "createTrip" \in Endpoints
  /\ \E u \in Users, t \in FreshTrips, span \in Span :
       /\ DateRange(span)
       /\ Begin(r, "write", [NoCall EXCEPT !.op = "createTrip", !.user = u,
                                           !.trip = t, !.span = span])

(* A date that is not given is NoDate. *)
UpdateTrip(r) ==
  /\ "updateTrip" \in Endpoints
  /\ \E u \in Users, t \in KnownTrips, span \in Span :
       Begin(r, "trip", [NoCall EXCEPT !.op = "updateTrip", !.user = u,
                                       !.trip = t, !.span = span])

DeleteTrip(r) ==
  /\ "deleteTrip" \in Endpoints
  /\ \E u \in Users, t \in KnownTrips :
       Begin(r, "trip", [NoCall EXCEPT !.op = "deleteTrip", !.user = u,
                                       !.trip = t])



-------------------------------------------------------------------------------
(* The reads before the statement.                                         *)

Stay == UNCHANGED <<trips, rows>>

Reading(r, step, ops) == at[r] = step /\ call[r].op \in ops

(* findOwnedTrip *)
Owned(c) == LiveTrip(c.trip) /\ trips[c.trip].owner = c.user

(* What the four tables require of a row to be written. *)
Acceptable(i, row, span) ==
  /\ i \in Schedules => Within(row.date, span)
  /\ i \in Checklists => ChecklistDate(row.date, span)
  /\ i \in Flights => FlightDates(row.date, row.back)

AfterRow(row) == IF row.place = None THEN "write" ELSE "place"

(* CreateSchedule .. CreateChecklistCustomItem: the owner and the input. *)
CheckNewItem(r) ==
  LET c == call[r] IN
  /\ Reading(r, "trip", {"createItem"})
  /\ GoOn(r, Owned(c) /\ Acceptable(c.item, c.new, trips[c.trip].span),
          AfterRow(c.new), [c EXCEPT !.new.trip = c.trip])
  /\ Stay

(* UpdateSchedule, UpdatePlace, UpdateFlight: the trip is read first and   *)
(* its dates are kept for the check after the row is read. *)
CheckOwner(r) ==
  LET c == call[r] IN
  /\ Reading(r, "trip", {"updateItem"})
  /\ c.item \notin Checklists
  /\ GoOn(r, Owned(c), "row", [c EXCEPT !.span = trips[c.trip].span])
  /\ Stay

(* FindSchedule, FindPlace, FindFlight by trip and id; the request's       *)
(* fields replace the row's and the result is validated. *)
PatchRow(r) ==
  LET c == call[r]
      row == Patched(rows[c.item], c.given, c.new)
  IN
  /\ Reading(r, "row", {"updateItem"})
  /\ c.item \notin Checklists
  /\ GoOn(r, /\ LiveItem(c.item)
             /\ rows[c.item].trip = c.trip
             /\ Acceptable(c.item, row, c.span),
          AfterRow(row), [c EXCEPT !.new = row, !.span = NoSpan])
  /\ Stay

(* FindChecklist by id alone. *)
ReadChecklist(r) ==
  LET c == call[r] IN
  /\ Reading(r, "row", {"updateItem", "deleteItem"})
  /\ c.item \in Checklists
  /\ GoOn(r, LiveItem(c.item), "trip",
          [c EXCEPT !.trip = rows[c.item].trip,
                    !.new = IF c.op = "updateItem"
                            THEN Patched(rows[c.item], c.given, c.new)
                            ELSE c.new])
  /\ Stay

(* UpdateChecklistItem checks the date only when the request gives one. *)
CheckChecklistOwner(r) ==
  LET c == call[r] IN
  /\ Reading(r, "trip", {"updateItem"})
  /\ c.item \in Checklists
  /\ GoOn(r, /\ Owned(c)
             /\ "date" \in c.given
                  => ChecklistDate(c.new.date, trips[c.trip].span),
          "write", c)
  /\ Stay

(* The Delete endpoints of the four tables, and DeleteTrip. *)
CheckOwnerForDelete(r) ==
  /\ Reading(r, "trip", {"deleteItem", "deleteTrip"})
  /\ GoOn(r, Owned(call[r]), "write", call[r])
  /\ Stay

(* FindPlace(tripID, placeID) of CreateSchedule and UpdateSchedule. *)
FindPlace(r) ==
  LET c == call[r] IN
  /\ Reading(r, "place", {"createItem", "updateItem"})
  /\ GoOn(r, /\ LiveItem(c.new.place)
             /\ rows[c.new.place].trip = c.trip,
          "write", c)
  /\ Stay

PatchedSpanExclusive(old, span) ==
  [start |-> IF span.start = NoDate THEN old.start ELSE span.start,
   end   |-> IF span.end = NoDate THEN old.end ELSE span.end + 1]

PatchedSpan(old, span) ==
  [start |-> IF span.start = NoDate THEN old.start ELSE span.start,
   end   |-> IF span.end = NoDate THEN old.end ELSE span.end]

(* UpdateTrip: FindTrip and the new dates, *)
PatchTrip(r) ==
  LET c == call[r]
      span == PatchedSpan(trips[c.trip].span, c.span)
  IN
  /\ Reading(r, "trip", {"updateTrip"})
  /\ GoOn(r, Owned(c) /\ DateRange(span), "schedules",
          [c EXCEPT !.span = span])
  /\ Stay

ContainedSchedules(S, t, span) ==
  \A i \in RowsOf(t) \cap Schedules : Within(rows[i].date, span)

Contained(S, t, span) ==
  \A i \in RowsOf(t) \cap S :
    Guarded(i, rows[i].date) => Within(rows[i].date, span)

(* then FindSchedules, *)
CheckSchedules(r) ==
  LET c == call[r] IN
  /\ Reading(r, "schedules", {"updateTrip"})
  /\ GoOn(r, Contained(Schedules, c.trip, c.span), "checklists", c)
  /\ Stay

(* then FindByTrip of the checklists. *)
CheckChecklists(r) ==
  LET c == call[r] IN
  /\ Reading(r, "checklists", {"updateTrip"})
  /\ GoOn(r, Contained(Checklists, c.trip, c.span), "write", c)
  /\ Stay

-------------------------------------------------------------------------------
(* The statements.  Each step first waits until it can take its lock.      *)

Statement(r, step, ops) == Reading(r, step, ops) /\ WaitsFor(r) = {}

(* SaveTripWithChecklist *)
InsertTrip(r) ==
  LET c == call[r] IN
  /\ Statement(r, "write", {"createTrip"})
  /\ \E presets \in SUBSET FreshItems(Checklists) :
       /\ Cardinality(presets) = Presets
       /\ trips' = [trips EXCEPT ![c.trip] =
                      [state |-> "live", owner |-> c.user, span |-> c.span]]
       /\ rows' = [i \in Items |->
                     IF i \in presets THEN Preset(c.trip) ELSE rows[i]]
  /\ Finish(r)

(* INSERT of a row without a date to guard; a trip that is gone fails the  *)
(* foreign key. *)
InsertItem(r) ==
  LET c == call[r] IN
  /\ Statement(r, "write", {"createItem"})
  /\ ~Guarded(c.item, c.new.date)
  /\ IF LiveTrip(c.trip) THEN rows' = [rows EXCEPT ![c.item] = c.new]
     ELSE UNCHANGED rows
  /\ Finish(r)
  /\ UNCHANGED trips

FoundById(c) == LiveItem(c.item)

(* The row the WHERE clause of an UPDATE or DELETE finds, once the lock is *)
(* held: checklists by id, the other tables by trip and id. *)
Found(c) ==
  LiveItem(c.item) /\ (c.item \in Checklists \/ rows[c.item].trip = c.trip)

(* The columns an UPDATE sets: all of the request's copy of the row. *)
Rewritten(row, new) ==
  [row EXCEPT !.date = new.date, !.back = new.back, !.place = new.place,
              !.text = new.text]

UpdateItemGivenColumns(r) ==
  LET c == call[r] IN
  /\ Statement(r, "write", {"updateItem"})
  /\ ~Guarded(c.item, c.new.date)
  /\ IF Found(c)
     THEN rows' = [rows EXCEPT ![c.item] = Patched(@, c.given, c.new)]
     ELSE UNCHANGED rows
  /\ Finish(r)
  /\ UNCHANGED trips

(* UPDATE of a row without a date to guard. *)
UpdateItem(r) ==
  LET c == call[r] IN
  /\ Statement(r, "write", {"updateItem"})
  /\ ~Guarded(c.item, c.new.date)
  /\ IF Found(c)
     THEN rows' = [rows EXCEPT ![c.item] = Rewritten(@, c.new)]
     ELSE UNCHANGED rows
  /\ Finish(r)
  /\ UNCHANGED trips

LockItemRetrying(r) ==
  LET c == call[r] IN
  /\ Statement(r, "write", {"updateItem"})
  /\ Guarded(c.item, c.new.date)
  /\ Found(c)
  /\ GoOn(r, TRUE, "guard", [c EXCEPT !.held = {c.item}])
  /\ Stay

(* UPDATE of a dated row locks it and starts the trigger, *)
LockItem(r) ==
  LET c == call[r] IN
  /\ Statement(r, "write", {"updateItem"})
  /\ Guarded(c.item, c.new.date)
  /\ GoOn(r, Found(c), "guard", [c EXCEPT !.held = {c.item}])
  /\ Stay

(* which locks the trip, reads its dates as they are now and compares:     *)
(* validate_schedule_trip_date, validate_checklist_trip_date. *)
GuardDate(r) ==
  LET c == call[r] IN
  /\ \/ Statement(r, "guard", {"updateItem"})
     \/ Statement(r, "write", {"createItem"}) /\ Guarded(c.item, c.new.date)
  /\ GoOn(r, LiveTrip(c.trip) /\ Within(c.new.date, trips[c.trip].span),
          "commit", c)
  /\ Stay

(* The foreign key on the place, then the row is written and committed. *)
CommitItem(r) ==
  LET c == call[r] IN
  /\ Statement(r, "commit", {"createItem", "updateItem"})
  /\ IF NewPlace(c) /\ ~LiveItem(c.new.place)
     THEN UNCHANGED rows
     ELSE rows' = [rows EXCEPT ![c.item] =
                     IF c.op = "createItem" THEN c.new
                     ELSE Rewritten(@, c.new)]
  /\ Finish(r)
  /\ UNCHANGED trips

(* DELETE of a schedule, a checklist item or a flight. *)
DeleteItem(r) ==
  LET c == call[r] IN
  /\ Statement(r, "write", {"deleteItem"})
  /\ c.item \notin Places
  /\ IF Found(c) THEN rows' = [rows EXCEPT ![c.item] = NoItemRow("deleted")]
     ELSE UNCHANGED rows
  /\ Finish(r)
  /\ UNCHANGED trips

(* DELETE of a place locks it; ON DELETE SET NULL then locks the schedules *)
(* that point to it, one by one, and the place goes. *)
LockPlace(r) ==
  LET c == call[r] IN
  /\ Statement(r, "write", {"deleteItem"})
  /\ c.item \in Places
  /\ GoOn(r, Found(c), "unlink", [c EXCEPT !.held = {c.item}])
  /\ Stay

LockChild(r) ==
  LET c == call[r] IN
  /\ Reading(r, "unlink", {"deleteItem"}) \/ Reading(r, "cascade", {"deleteTrip"})
  /\ \E i \in Children(c) \ c.held :
       /\ ItemHolders(i) = {}
       /\ GoOn(r, TRUE, at[r], [c EXCEPT !.held = @ \cup {i}])
  /\ Stay

UnlinkPlace(r) ==
  LET p == call[r].item IN
  /\ Reading(r, "unlink", {"deleteItem"})
  /\ SchedulesAt(p) \subseteq call[r].held
  /\ rows' = [i \in Items |->
                IF i = p THEN NoItemRow("deleted")
                ELSE IF i \in SchedulesAt(p) THEN [rows[i] EXCEPT !.place = None]
                ELSE rows[i]]
  /\ Finish(r)
  /\ UNCHANGED trips

(* UPDATE trips locks the row and runs validate_trip_date_change, which    *)
(* looks at the committed rows when the dates change. *)
AlterTrip(r) ==
  LET c == call[r] IN
  /\ Statement(r, "write", {"updateTrip"})
  /\ GoOn(r, /\ LiveTrip(c.trip)
             /\ \/ c.span = trips[c.trip].span
                \/ Contained(Items, c.trip, c.span),
          "commitTrip", c)
  /\ Stay

CommitTrip(r) ==
  LET c == call[r] IN
  /\ Statement(r, "commitTrip", {"updateTrip"})
  /\ trips' = [trips EXCEPT ![c.trip].span = c.span]
  /\ Finish(r)
  /\ UNCHANGED rows

(* DELETE of a trip locks it; ON DELETE CASCADE then locks its rows one by *)
(* one, and all go. *)
LockTrip(r) ==
  LET c == call[r] IN
  /\ Statement(r, "write", {"deleteTrip"})
  /\ GoOn(r, LiveTrip(c.trip), "cascade", c)
  /\ Stay

CascadeTrip(r) ==
  LET t == call[r].trip IN
  /\ Reading(r, "cascade", {"deleteTrip"})
  /\ RowsOf(t) \subseteq call[r].held
  /\ trips' = [trips EXCEPT ![t] = NoTripRow("deleted")]
  /\ rows' = [i \in Items |->
                IF i \in RowsOf(t) THEN NoItemRow("deleted") ELSE rows[i]]
  /\ Finish(r)

Abort(r) == at[r] # "idle" /\ Finish(r) /\ Stay

-------------------------------------------------------------------------------
Request(r) ==
  \/ CreateTrip(r) \/ UpdateTrip(r) \/ DeleteTrip(r)
  \/ CreateSchedule(r) \/ UpdateSchedule(r) \/ DeleteSchedule(r)
  \/ CreatePlace(r) \/ UpdatePlace(r) \/ DeletePlace(r)
  \/ CreateFlight(r) \/ UpdateFlight(r) \/ DeleteFlight(r)
  \/ CreateChecklistCustomItem(r) \/ UpdateChecklistItem(r)
  \/ DeleteChecklistItem(r)

Read(r) ==
  \/ CheckNewItem(r) \/ CheckOwner(r) \/ PatchRow(r) \/ FindPlace(r)
  \/ ReadChecklist(r) \/ CheckChecklistOwner(r) \/ CheckOwnerForDelete(r)
  \/ PatchTrip(r) \/ CheckSchedules(r) \/ CheckChecklists(r)

Write(r) ==
  \/ InsertTrip(r) \/ InsertItem(r) \/ UpdateItem(r) \/ DeleteItem(r)
  \/ LockItem(r) \/ GuardDate(r) \/ CommitItem(r)
  \/ LockPlace(r) \/ LockChild(r) \/ UnlinkPlace(r)
  \/ AlterTrip(r) \/ CommitTrip(r)
  \/ LockTrip(r) \/ CascadeTrip(r)

Next == \E r \in Requests : Request(r) \/ Read(r) \/ Write(r) \/ Abort(r)

Spec == Init /\ [][Next]_vars

(* Handlers run on; PostgreSQL grants a row lock to its waiters in turn,   *)
(* and ends one of the statements that wait for each other.                *)
Deadlocked(S) == S # {} /\ \A r \in S : WaitsFor(r) \cap S # {}

Cycle(S) == Deadlocked(S) /\ \A T \in SUBSET S : Deadlocked(T) => T = S

Victim(r) == Abort(r) /\ \E S \in SUBSET Requests : r \in S /\ Cycle(S)

FairSpec ==
  /\ Spec
  /\ \A r \in Requests : SF_vars(Read(r) \/ Write(r))
  /\ WF_vars(\E r \in Requests : Victim(r))

-------------------------------------------------------------------------------
(* Properties.                                                             *)

(* Schedules and dated checklist items always lie within their trip: the   *)
(* trigger on the row and the trigger on the trip each read what the other *)
(* statement is about to change. *)
DatedItemsWithinTrip == DatesWithin(trips, rows)

(* No row outlives its trip, and no schedule points to a deleted place or  *)
(* to a place of another trip, although the place was looked up before.    *)
LinksResolve == LinksLive(trips, rows)

(* The schema has no check on a trip's own range or on a flight's: they    *)
(* stay ordered when two PATCHes each move one end, because a PATCH writes *)
(* back the pair it validated. *)
RangesStayOrdered == RangesOrdered(trips, rows)

(* A request of the trip's owner commits in this step. *)
ByOwner(t) ==
  \E r \in Requests : /\ at[r] # "idle" /\ at'[r] = "idle"
                      /\ call[r].user = trips[t].owner

OwnersWrite ==
  /\ \A t \in Trips : LiveTrip(t) /\ trips'[t] # trips[t] => ByOwner(t)
  /\ \A i \in Items : rows'[i] # rows[i] =>
       /\ LiveItem(i) => ByOwner(rows[i].trip)
       /\ rows'[i].state = "live" /\ LiveTrip(rows'[i].trip) =>
            ByOwner(rows'[i].trip)

(* A change to a trip or to its rows comes from a request of its owner:    *)
(* the trip whose owner was checked is the trip the statement touches.     *)
OnlyOwnersWrite == [][OwnersWrite]_vars

(* Inserts and updates lock in one order, a row and then its trip, so that *)
(* they never deadlock: every cycle has the delete of a trip or of a place *)
(* in it, which hold the parent and want the rows. *)
DeadlocksNeedADelete ==
  \A S \in SUBSET Requests :
    Deadlocked(S) => \E r \in S : at[r] \in {"cascade", "unlink"}

(* The trip API implements the board: whatever the requests do together,   *)
(* its tables go from state to state by single legal edits. *)
Board == INSTANCE TripBoard WITH trips <- trips, rows <- rows
ImplementsBoard == Board!Spec

(* Every request is answered, although its statement may have to wait for  *)
(* others that go on coming. *)
RequestsEnd == \A r \in Requests : at[r] # "idle" ~> at[r] = "idle"

(* trip_service.go:236 - a PATCH changes the fields that are sent and the  *)
(* others keep the schedule's values. *)
PatchKeepsOtherFields ==
  [][ \A r \in Requests :
        /\ at[r] = "commit"
        /\ call[r].op = "updateItem"
        /\ rows' # rows
        => LET i == call[r].item IN
           \A f \in {"date", "place", "text"} \ call[r].given :
             rows'[i][f] = rows[i][f] ]_vars
-------------------------------------------------------------------------------
(* The inductive invariant: what a handler knows at each of its steps.     *)

StepsOf == [none |-> {"idle"},
            createItem |-> {"trip", "place", "write", "commit"},
            updateItem |-> {"trip", "row", "place", "write", "guard", "commit"},
            deleteItem |-> {"row", "trip", "write", "unlink"},
            createTrip |-> {"write"},
            updateTrip |-> {"trip", "schedules", "checklists", "write",
                            "commitTrip"},
            deleteTrip |-> {"trip", "write", "cascade"}]

(* An id read earlier: its row may be gone, but has not changed trips.     *)
StillIn(i, t) ==
  /\ rows[i].state # "unused"
  /\ LiveItem(i) => rows[i].trip = t

(* A handler about to write a row has validated it, *)
WriterInv(step, c) ==
  c.op \in {"createItem", "updateItem"} =>
    /\ c.item \in Items
    /\ c.new.state = "live"
    /\ c.item \notin Schedules => c.new.place = None
    /\ c.op = "createItem" => rows[c.item].state = "unused"
    /\ step \in {"place", "write", "guard", "commit"} =>
         /\ c.trip \in Trips
         /\ c.new.trip = c.trip
         /\ c.item \in Flights => FlightDates(c.new.date, c.new.back)
    /\ step \in {"write", "guard", "commit"} /\ c.new.place # None =>
         StillIn(c.new.place, c.trip)
    /\ step \in {"guard", "commit"} => Guarded(c.item, c.new.date)
    /\ step = "commit" =>
         LiveTrip(c.trip) /\ Within(c.new.date, trips[c.trip].span)

(* one that changes or deletes a row knows its trip, *)
ChangerInv(step, c) ==
  c.op \in {"updateItem", "deleteItem"} =>
    /\ c.item \in Items
    /\ rows[c.item].state # "unused"
    /\ c.item \in Checklists /\ step # "row" =>
         /\ StillIn(c.item, c.trip)
         /\ c.op = "updateItem" => c.new.trip = c.trip
    /\ step \in {"guard", "commit", "unlink"} => rows[c.item].trip = c.trip

(* one that changes a trip knows its new dates fit, *)
TripInv(step, c) ==
  /\ c.op = "createTrip" =>
       /\ c.trip \in Trips
       /\ c.user \in Users
       /\ trips[c.trip].state = "unused"
       /\ DateRange(c.span)
  /\ c.op = "updateTrip" /\ step # "trip" => DateRange(c.span)
  /\ step = "commitTrip" =>
       LiveTrip(c.trip) /\ Contained(Items, c.trip, c.span)
  /\ step = "cascade" => LiveTrip(c.trip)

(* and the rows it holds are there. *)
HeldInv(step, c) ==
  /\ \A i \in c.held : LiveItem(i)
  /\ step \notin {"guard", "commit", "unlink", "cascade"} => c.held = {}
  /\ c.op = "createItem" => c.held = {}
  /\ c.op = "updateItem" /\ step \in {"guard", "commit"} => c.held = {c.item}
  /\ step = "unlink" => c.item \in Places /\ c.item \in c.held

CallInv(step, c) ==
  /\ step \in StepsOf[c.op]
  /\ step = "idle" => c = NoCall
  /\ WriterInv(step, c)
  /\ ChangerInv(step, c)
  /\ TripInv(step, c)
  /\ HeldInv(step, c)

HoldsTrip(r) == at[r] \in {"commit", "commitTrip", "cascade"}

(* Two requests hold different rows and have drawn different ids. *)
PairInv(q, r) ==
  /\ call[q].held \cap call[r].held = {}
  /\ HoldsTrip(q) /\ HoldsTrip(r) => call[q].trip # call[r].trip
  /\ call[q].op = "createItem" /\ call[r].op = "createItem" =>
       call[q].item # call[r].item
  /\ call[q].op = "createTrip" /\ call[r].op = "createTrip" =>
       call[q].trip # call[r].trip

(* Past its check of the owner, a handler acts for the trip's owner; the   *)
(* owner of a trip does not change, and its id is not used again.          *)
Checked(step, c) ==
  /\ c.op \notin {"none", "createTrip"}
  /\ step \notin {"idle", "trip"}
  /\ step = "row" => c.item \notin Checklists

OwnerKnown(c) ==
  /\ c.trip \in Trips
  /\ trips[c.trip].state # "unused"
  /\ LiveTrip(c.trip) => trips[c.trip].owner = c.user

OwnerInv == \A r \in Requests : Checked(at[r], call[r]) => OwnerKnown(call[r])

IInv ==
  /\ TypeOK
  /\ DatedItemsWithinTrip
  /\ LinksResolve
  /\ RangesStayOrdered
  /\ \A r \in Requests : CallInv(at[r], call[r])
  /\ \A q, r \in Requests : q # r => PairInv(q, r)
===============================================================================
