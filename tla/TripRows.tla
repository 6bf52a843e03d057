------------------------------- MODULE TripRows -------------------------------
(***************************************************************************)
(* The rows of trips and of the four tables that hang off a trip, and the  *)
(* checks the services and the triggers make on them.  A day is a number,  *)
(* NoDate an empty date.  An id names one row for ever: ids are random     *)
(* UUIDs, so that a deleted row's id never comes back.                     *)
(*                                                                         *)
(* One record type serves the four child tables:                           *)
(*   schedules   date, place and text                                      *)
(*   checklists  date (scheduled_date, which may be empty) and text        *)
(*   flights     date (departure_date), back (arrival_date) and text       *)
(*   places      text                                                      *)
(* text stands for the columns no check looks at.                          *)
(***************************************************************************)
EXTENDS Naturals

CONSTANTS
  Trips, Schedules, Checklists, Places, Flights,  \* ids of the rows
  Users,   \* owners
  Texts,   \* values of the columns no check looks at
  MaxDay,  \* bound: the last day of the calendar
  None     \* no owner, no trip, no place, no text

Days == 1..MaxDay
NoDate == 0
Dates == {NoDate} \cup Days

Items == Schedules \cup Checklists \cup Places \cup Flights

ASSUME TripRowsAssumption ==
  /\ MaxDay \in Nat
  /\ Schedules \cap (Checklists \cup Places \cup Flights) = {}
  /\ Checklists \cap (Places \cup Flights) = {}
  /\ Places \cap Flights = {}
  /\ None \notin Trips \cup Users \cup Items \cup Texts

States == {"unused", "live", "deleted"}

Span == [start : Dates, end : Dates]

TripRow == [state : States, owner : Users \cup {None}, span : Span]

ItemRow == [state : States, trip : Trips \cup {None}, date : Dates,
            back : Dates, place : Places \cup {None}, text : Texts \cup {None}]

NoSpan == [start |-> NoDate, end |-> NoDate]

NoTripRow(state) == [state |-> state, owner |-> None, span |-> NoSpan]

NoItemRow(state) ==
  [state |-> state, trip |-> None, date |-> NoDate, back |-> NoDate,
   place |-> None, text |-> None]

(* An item of defaultChecklistPresets in a new trip: no date, its own text *)
(* (which None stands for). *)
Preset(t) == [NoItemRow("live") EXCEPT !.trip = t]

(* validateDateRange *)
DateRange(span) == span.start # NoDate /\ span.start <= span.end

(* isDateWithinTrip, and the comparison of the two triggers *)
Within(date, span) == span.start <= date /\ date <= span.end

(* isChecklistDateInTrip: an empty date is always accepted *)
ChecklistDate(date, span) == date = NoDate \/ Within(date, span)

(* validateFlightDates: the arrival may be a day early, never two *)
FlightDates(departure, arrival) ==
  /\ departure # NoDate
  /\ arrival = NoDate \/ departure <= arrival + 1

(* The rows whose date the triggers tie to the trip. *)
Guarded(i, date) == i \in Schedules \/ (i \in Checklists /\ date # NoDate)

(* The columns of the table of i that a client may set, and values for     *)
(* them.  Schedules and flights without a date are refused unread.         *)
ColumnsOf(i) ==
  CASE i \in Schedules  -> {"date", "place", "text"}
    [] i \in Checklists -> {"date", "text"}
    [] i \in Flights    -> {"date", "back", "text"}
    [] i \in Places     -> {"text"}

Contents(i) ==
  [state : {"live"}, trip : {None},
   date : IF i \in Places THEN {NoDate}
          ELSE IF i \in Checklists THEN Dates ELSE Days,
   back : IF i \in Flights THEN Dates ELSE {NoDate},
   place : IF i \in Schedules THEN Places \cup {None} ELSE {None},
   text : Texts]

(* A PATCH: the fields given replace the row's, the others stay. *)
Patched(row, given, new) ==
  [row EXCEPT !.date = IF "date" \in given THEN new.date ELSE @,
              !.back = IF "back" \in given THEN new.back ELSE @,
              !.place = IF "place" \in given THEN new.place ELSE @,
              !.text = IF "text" \in given THEN new.text ELSE @]

-------------------------------------------------------------------------------
(* What the documents promise of the two tables (docs/TECH_DESIGN.md).     *)

(* Schedules and dated checklist items lie within their trip. *)
DatesWithin(trips, rows) ==
  \A i \in Items :
    rows[i].state = "live" /\ Guarded(i, rows[i].date)
      => Within(rows[i].date, trips[rows[i].trip].span)

(* A row's trip exists, and so does the place a schedule points to, in the *)
(* same trip. *)
LinksLive(trips, rows) ==
  \A i \in Items :
    rows[i].state = "live" =>
      /\ rows[i].trip \in Trips
      /\ trips[rows[i].trip].state = "live"
      /\ rows[i].place # None =>
           /\ i \in Schedules
           /\ rows[rows[i].place].state = "live"
           /\ rows[rows[i].place].trip = rows[i].trip

(* A trip ends no earlier than it starts; a flight does not arrive two     *)
(* days before it leaves. *)
RangesOrdered(trips, rows) ==
  /\ \A t \in Trips : trips[t].state = "live" => DateRange(trips[t].span)
  /\ \A i \in Flights :
       rows[i].state = "live" => FlightDates(rows[i].date, rows[i].back)
===============================================================================
