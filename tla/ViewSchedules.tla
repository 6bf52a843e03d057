----------------------------- MODULE ViewSchedules -----------------------------
(* The schedules of a trip on the traveller's screen (useOwnerTripPageAdapter,*)
(* and useTripPageController for the sample trip): in which order they stand, *)
(* which are done and which one is next.  Order, marks and the shifted dates  *)
(* are kept in the browser, each under a key that is written whole; the       *)
(* schedules come from the server and change between two visits, so that what *)
(* is kept may be about schedules that are gone or have moved.                *)
EXTENDS Integers, Sequences, FiniteSets, Listing

CONSTANTS
    Ids,       \* ids of schedules
    Lists,     \* schedules that the server may send: <<date, ids>> in its order
    LastDay,   \* the trip's dates are 1..LastDay
    MaxDay     \* bound: the last day of the calendar

Days == 1..MaxDay
DatesOfTrip == 1..LastDay
Unordered == <<>>

VARIABLES
    demo,      \* the sample trip: its dates can be shifted, its schedules are fixed
    list,      \* the schedules: a sequence of ids, and the date of each
    order,     \* scheduleOrderByDate
    done,      \* completedSchedules
    tripDates, \* tripDates, shown instead of the trip's
    selected,  \* selectedDate
    today,
    saved      \* what the browser keeps

(* History: another tab of the browser wrote one of the keys.                 *)
VARIABLE foreign

kept == [order |-> order, done |-> done, dates |-> tripDates]
vars == <<demo, list, order, done, tripDates, selected, today, saved, foreign>>

Orders == [DatesOfTrip -> Seq(Ids)]
Spans == [start: Days, end: Days]

TypeOK ==
    /\ demo \in BOOLEAN
    /\ list \in Lists
    /\ order \in Orders
    /\ done \subseteq Ids
    /\ tripDates \in Spans
    /\ selected \in DatesOfTrip
    /\ today \in 0..MaxDay
    /\ saved \in [order: Orders, done: SUBSET Ids, dates: Spans]
    /\ foreign \in BOOLEAN

-----------------------------------------------------------------------------
(* Order.                                                                     *)

SchedulesOf(d) == {k \in DOMAIN list.ids : list.date[list.ids[k]] = d}

(* A place in the saved order, after all of them for an id it does not name;  *)
(* an id that is named twice counts where it was named last.                  *)
OrderIndex(i, ids) ==
    LET at == {k \in DOMAIN ids : ids[k] = i}
    IN  IF at = {} THEN Len(ids) + 1 ELSE CHOOSE k \in at : \A j \in at : j <= k

OrderOf(d) == IF d \in DatesOfTrip THEN order[d] ELSE Unordered
Weights(d) == [k \in SchedulesOf(d) |-> OrderIndex(list.ids[k], OrderOf(d))]

(* The sort is stable: schedules that the order does not name stay in theirs. *)
GetOwnerSchedulesForDate(d) == Listed(list.ids, SchedulesOf(d), Weights(d))

SelectedSchedules == GetOwnerSchedulesForDate(selected)

Swapped(ids, a, b) == [ids EXCEPT ![a] = ids[b], ![b] = ids[a]]

-----------------------------------------------------------------------------
(* Dates.                                                                     *)

ClampDate(d, first, last) == IF d < first THEN first ELSE IF d > last THEN last ELSE d

TravelPhase ==
    IF today < tripDates.start THEN "before"
    ELSE IF today > tripDates.end THEN "after" ELSE "during"

(* The trip's date that stands for today, and what it is shown as.            *)
GetDisplayDate(d) == tripDates.start + (d - 1)
FocusScheduleDate == 1 + (ClampDate(today, tripDates.start, tripDates.end) - tripDates.start)

FirstUndone(ids) ==
    LET open == {k \in DOMAIN ids : ids[k] \notin done}
    IN  IF open = {} THEN <<>> ELSE <<ids[CHOOSE k \in open : \A j \in open : k <= j]>>

(* The next schedule, or none.                                                *)
LaterSchedules == {k \in DOMAIN list.ids : list.date[list.ids[k]] > FocusScheduleDate}

NextSchedule ==
    LET here == FirstUndone(GetOwnerSchedulesForDate(FocusScheduleDate))
    IN  IF TravelPhase = "after" THEN <<>>
        ELSE IF here # <<>> THEN here ELSE FirstUndone(Filtered(list.ids, LaterSchedules))

-----------------------------------------------------------------------------
SaveTooEarly(next) == saved' = [saved EXCEPT !.done = done]
SaveScheduleCompletions(next) == saved' = [saved EXCEPT !.done = next]

ToggleScheduleComplete(i) ==
    /\ \/ i \in {SelectedSchedules[k] : k \in DOMAIN SelectedSchedules}
       \/ <<i>> = NextSchedule
    /\ done' = IF i \in done THEN done \ {i} ELSE done \cup {i}
    /\ SaveScheduleCompletions(done')
    /\ UNCHANGED <<demo, list, order, tripDates, selected, today, foreign>>

CurrentOrderOfServer == Filtered(list.ids, SchedulesOf(selected))
CurrentOrder == SelectedSchedules

(* The list as it is shown, with two neighbours exchanged, is the new order.  *)
MoveSchedule(k, direction) ==
    LET to == IF direction = "up" THEN k - 1 ELSE k + 1
    IN  /\ k \in DOMAIN CurrentOrder
        /\ to \in DOMAIN CurrentOrder
        /\ order' = [order EXCEPT ![selected] = Swapped(CurrentOrder, k, to)]
        /\ saved' = [saved EXCEPT !.order = order']
        /\ UNCHANGED <<demo, list, done, tripDates, selected, today, foreign>>

SetSelectedDate(d) ==
    /\ selected' = d
    /\ UNCHANGED <<demo, list, order, done, tripDates, today, saved, foreign>>

(* The trip never ends before it starts: the end follows.                     *)
UpdateTripDate(field, d) ==
    /\ demo
    /\ LET next == IF field = "start" THEN [tripDates EXCEPT !.start = d]
                   ELSE [tripDates EXCEPT !.end = d]
       IN  tripDates' = IF next.end < next.start THEN [next EXCEPT !.end = next.start] ELSE next
    /\ saved' = [saved EXCEPT !.dates = tripDates']
    /\ UNCHANGED <<demo, list, order, done, selected, today, foreign>>

Midnight ==
    /\ today < MaxDay
    /\ today' = today + 1
    /\ UNCHANGED <<demo, list, order, done, tripDates, selected, saved, foreign>>

(* The page is opened again: everything kept is read, the schedules may have  *)
(* been edited since.                                                         *)
Open(l) ==
    /\ demo => l = list
    /\ list' = l
    /\ order' = saved.order
    /\ done' = saved.done
    /\ tripDates' = saved.dates
    /\ selected' = IF l.ids = <<>> THEN 1 ELSE l.date[l.ids[1]]
    /\ foreign' = FALSE
    /\ UNCHANGED <<demo, today, saved>>

(* Another tab marks a schedule in what it had read.                          *)
OtherTab(i) ==
    /\ saved' = [saved EXCEPT !.done = IF i \in @ THEN @ \ {i} ELSE @ \cup {i}]
    /\ foreign' = TRUE
    /\ UNCHANGED <<demo, list, order, done, tripDates, selected, today>>

-----------------------------------------------------------------------------
Init ==
    /\ demo \in BOOLEAN
    /\ list \in Lists
    /\ order = [d \in DatesOfTrip |-> Unordered]
    /\ done = {}
    /\ tripDates = [start |-> 1, end |-> LastDay]
    /\ selected = IF list.ids = <<>> THEN 1 ELSE list.date[list.ids[1]]
    /\ today \in {0, 1}
    /\ saved = kept
    /\ foreign = FALSE

Next ==
    \/ \E i \in Ids : ToggleScheduleComplete(i) \/ OtherTab(i)
    \/ \E k \in 1..Cardinality(Ids), direction \in {"up", "down"} : MoveSchedule(k, direction)
    \/ \E d \in DatesOfTrip : SetSelectedDate(d)
    \/ \E field \in {"start", "end"}, d \in Days : UpdateTripDate(field, d)
    \/ Midnight
    \/ \E l \in Lists : Open(l)

Spec == Init /\ [][Next]_vars

-----------------------------------------------------------------------------
(* Properties.                                                                *)

(* Pressing an arrow exchanges two neighbours of the list on the screen and   *)
(* nothing else, whatever order was kept -- one that names schedules that are *)
(* gone, lacks new ones, or none at all; the other dates stay as they are.    *)
SwappedNeighbours ==
    order' # order /\ list' = list =>
      /\ \E k \in 2..Len(SelectedSchedules) :
           SelectedSchedules' = Swapped(SelectedSchedules, k, k - 1)
      /\ \A d \in DatesOfTrip \ {selected} :
           GetOwnerSchedulesForDate(d)' = GetOwnerSchedulesForDate(d)

MoveSwapsNeighbours == [][SwappedNeighbours]_vars

(* The next schedule is the earliest that is not done from the date of today  *)
(* on, and there is none only when all of those are done or the trip is over; *)
(* the date of today is shown as today, or as the trip's first or last day.   *)
NextScheduleIsEarliest ==
    LET due == {i \in Ids : \E k \in DOMAIN list.ids :
                  list.ids[k] = i /\ i \notin done /\ list.date[i] >= FocusScheduleDate}
    IN  /\ TravelPhase # "after" => (NextSchedule = <<>> <=> due = {})
        /\ NextSchedule # <<>> =>
             \A i \in due : list.date[NextSchedule[1]] <= list.date[i]
        /\ GetDisplayDate(FocusScheduleDate) = ClampDate(today, tripDates.start, tripDates.end)

(* A reload shows what the screen shows, as long as no other tab wrote.       *)
ReloadShowsTheSame == ~foreign => saved = kept

-----------------------------------------------------------------------------
(* What the proofs rest on: the server sends each schedule once and those of  *)
(* a trip by date, and the trip's dates are days of the calendar.             *)
ConstantsOK ==
    /\ LastDay \in Nat \ {0} /\ MaxDay \in Nat /\ LastDay <= MaxDay
    /\ \A l \in Lists :
         /\ l \in [ids: Seq(Ids), date: [Ids -> DatesOfTrip]]
         /\ \A a, b \in DOMAIN l.ids :
              /\ l.ids[a] = l.ids[b] => a = b
              /\ a < b => l.date[l.ids[a]] <= l.date[l.ids[b]]

(* Order and dates are kept as they are shown, whatever other tabs do.        *)
KeptInv ==
    /\ TypeOK
    /\ saved.order = order /\ saved.dates = tripDates
    /\ ReloadShowsTheSame
===============================================================================
