------------------------------ MODULE TripBoard -------------------------------
(***************************************************************************)
(* What the trip API promises its clients: trips and their rows change one *)
(* edit at a time, and an edit that would leave a dated row outside its    *)
(* trip, a row without its trip, a schedule with a dead place or a range   *)
(* that ends before it starts does not happen.  There are no requests, no  *)
(* reads and no locks here; TripApi implements this with all of them.      *)
(***************************************************************************)
EXTENDS TripRows

VARIABLES trips, rows

vars == <<trips, rows>>

Init ==
  /\ trips = [t \in Trips |-> NoTripRow("unused")]
  /\ rows = [i \in Items |-> NoItemRow("unused")]

LiveTrip(t) == trips[t].state = "live"
LiveItem(i) == rows[i].state = "live"

(* A new trip, with its preset checklist items. *)
AddTrip(t, owner, span, presets) ==
  /\ trips[t].state = "unused"
  /\ DateRange(span)
  /\ \A i \in presets : rows[i].state = "unused"
  /\ trips' = [trips EXCEPT ![t] =
                 [state |-> "live", owner |-> owner, span |-> span]]
  /\ rows' = [i \in Items |-> IF i \in presets THEN Preset(t) ELSE rows[i]]

(* New dates, which contain every dated row of the trip. *)
MoveTrip(t, span) ==
  /\ LiveTrip(t)
  /\ DateRange(span)
  /\ \A i \in Items :
       LiveItem(i) /\ rows[i].trip = t /\ Guarded(i, rows[i].date)
         => Within(rows[i].date, span)
  /\ trips' = [trips EXCEPT ![t].span = span]
  /\ UNCHANGED rows

(* A trip goes with all its rows. *)
RemoveTrip(t) ==
  /\ LiveTrip(t)
  /\ trips' = [trips EXCEPT ![t] = NoTripRow("deleted")]
  /\ rows' = [i \in Items |->
                IF LiveItem(i) /\ rows[i].trip = t
                THEN NoItemRow("deleted") ELSE rows[i]]

(* A row is added, or replaced in its trip. *)
PutItem(i, row) ==
  /\ rows[i].state = "unused" \/ (LiveItem(i) /\ rows[i].trip = row.trip)
  /\ row.state = "live"
  /\ row.trip \in Trips
  /\ LiveTrip(row.trip)
  /\ Guarded(i, row.date) => Within(row.date, trips[row.trip].span)
  /\ i \in Flights => FlightDates(row.date, row.back)
  /\ row.place # None =>
       /\ i \in Schedules
       /\ LiveItem(row.place)
       /\ rows[row.place].trip = row.trip
  /\ rows' = [rows EXCEPT ![i] = row]
  /\ UNCHANGED trips

(* A row goes; the schedules at a place that goes stay, without a place. *)
RemoveItem(i) ==
  /\ LiveItem(i)
  /\ rows' = [j \in Items |->
                IF j = i THEN NoItemRow("deleted")
                ELSE IF j \in Schedules /\ LiveItem(j) /\ rows[j].place = i
                     THEN [rows[j] EXCEPT !.place = None]
                     ELSE rows[j]]
  /\ UNCHANGED trips

Next ==
  \/ \E t \in Trips, owner \in Users, span \in Span :
       \E presets \in SUBSET Checklists : AddTrip(t, owner, span, presets)
  \/ \E t \in Trips, span \in Span : MoveTrip(t, span)
  \/ \E t \in Trips : RemoveTrip(t)
  \/ \E i \in Items, row \in ItemRow : PutItem(i, row)
  \/ \E i \in Items : RemoveItem(i)

Spec == Init /\ [][Next]_vars
===============================================================================
