---------------------------- MODULE ViewNavigation ----------------------------
(* How a trip is browsed: the tab, the schedule view and the URL's fragment   *)
(* that stands for them (useTripViewNavigation), and the date that the        *)
(* schedule tab shows (TripPage).  State changes are followed by a rendering  *)
(* whose effects run later; the user may change the fragment at any time, and *)
(* the browser reports it later still.                                        *)
EXTENDS Naturals

CONSTANTS
    Dates,      \* dates of the trip, the first is 1
    ReadOnly    \* a shared trip: without "my page"

(* What a theorem about this module assumes of the constants.                 *)
ConstantsOK == 1 \in Dates

BottomTabs == {"today", "schedule", "map", "flight", "concierge"}
Tabs == BottomTabs \cup {"mypage"}
Views == {"itinerary", "checklist"}
NoHash == "none"
Hashes == Tabs \cup {"schedule-checklist", "unknown", NoHash}

VARIABLES
    activeTab, scheduleView,
    hash,           \* the fragment of the URL
    reported,       \* FALSE while a hashchange event is on its way
    focusDate,      \* the date of today, or the trip's nearest to it
    selectedDate,
    hasVisitedMap,
    effects         \* the effects that the rendering still has to run

(* History: the user picked the date since the effect last chose it.          *)
VARIABLE picked

pageVars == <<activeTab, scheduleView, selectedDate, hasVisitedMap, effects, picked>>
vars == <<pageVars, hash, reported, focusDate>>

TypeOK ==
    /\ activeTab \in Tabs /\ scheduleView \in Views
    /\ hash \in Hashes /\ reported \in BOOLEAN
    /\ focusDate \in Dates /\ selectedDate \in Dates
    /\ hasVisitedMap \in BOOLEAN
    /\ effects \subseteq {"hash", "date", "map"}
    /\ picked \in BOOLEAN

-----------------------------------------------------------------------------
GetInitialTripView(h) ==
    IF h = "schedule-checklist" THEN [tab |-> "schedule", view |-> "checklist"]
    ELSE [tab |-> IF h \in Tabs THEN h ELSE "today", view |-> "itinerary"]

HashOfTab(tab, view) == IF tab = "today" THEN NoHash ELSE tab

GetTripViewHash(tab, view) ==
    CASE tab = "today" -> NoHash
      [] tab = "schedule" /\ view = "checklist" -> "schedule-checklist"
      [] OTHER -> tab

(* The effects whose dependencies a rendering changes.                        *)
HashEffect(tab, view) == IF tab # activeTab \/ view # scheduleView THEN {"hash"} ELSE {}

Effects(tab, view) ==
    (IF tab # activeTab THEN {"hash", "date", "map"} ELSE {})
      \cup (IF view # scheduleView THEN {"hash"} ELSE {})

Show(tab, view) ==
    /\ activeTab' = tab
    /\ scheduleView' = view
    /\ effects' = effects \cup Effects(tab, view)

-----------------------------------------------------------------------------
SetActiveTab(tab) ==
    /\ tab \in BottomTabs \/ (tab = "mypage" /\ ~ReadOnly)
    /\ Show(tab, scheduleView)
    /\ UNCHANGED <<selectedDate, hasVisitedMap, picked, hash, reported, focusDate>>

SetScheduleView(view) ==
    /\ activeTab = "schedule"
    /\ Show(activeTab, view)
    /\ UNCHANGED <<selectedDate, hasVisitedMap, picked, hash, reported, focusDate>>

(* "All schedules" of the today tab and of the map tab.                       *)
OpenSchedule ==
    /\ activeTab \in {"today", "map"}
    /\ Show("schedule", "itinerary")
    /\ selectedDate' = focusDate
    /\ UNCHANGED <<hasVisitedMap, picked, hash, reported, focusDate>>

OpenChecklist ==
    /\ activeTab = "today"
    /\ Show("schedule", "checklist")
    /\ UNCHANGED <<selectedDate, hasVisitedMap, picked, hash, reported, focusDate>>

SelectDate(d) ==
    /\ activeTab = "schedule" /\ scheduleView = "itinerary"
    /\ selectedDate' = d
    /\ picked' = TRUE
    /\ UNCHANGED <<activeTab, scheduleView, hasVisitedMap, effects, hash, reported, focusDate>>

(* The effect of the hook, and those of the page.                             *)
ReplaceHash ==
    /\ "hash" \in effects
    /\ hash' = GetTripViewHash(activeTab, scheduleView)
    /\ effects' = effects \ {"hash"}
    /\ UNCHANGED <<activeTab, scheduleView, selectedDate, hasVisitedMap, picked, reported,
                   focusDate>>

FocusSelectedDate ==
    /\ "date" \in effects
    /\ effects' = effects \ {"date"}
    /\ IF activeTab = "schedule"
       THEN selectedDate' = focusDate /\ picked' = FALSE
       ELSE UNCHANGED <<selectedDate, picked>>
    /\ UNCHANGED <<activeTab, scheduleView, hasVisitedMap, hash, reported, focusDate>>

VisitMap ==
    /\ "map" \in effects
    /\ effects' = effects \ {"map"}
    /\ hasVisitedMap' = (hasVisitedMap \/ activeTab = "map")
    /\ UNCHANGED <<activeTab, scheduleView, selectedDate, picked, hash, reported, focusDate>>

HandleHashChange ==
    /\ ~reported
    /\ reported' = TRUE
    /\ LET next == GetInitialTripView(hash) IN Show(next.tab, next.view)
    /\ UNCHANGED <<selectedDate, hasVisitedMap, picked, hash, focusDate>>

(* The user: another fragment, typed or from the history; midnight; a reload. *)
ChangeHash(h) ==
    /\ h # hash
    /\ hash' = h
    /\ reported' = FALSE
    /\ UNCHANGED <<pageVars, focusDate>>

Midnight ==
    /\ focusDate + 1 \in Dates
    /\ focusDate' = focusDate + 1
    /\ effects' = effects \cup {"date"}
    /\ UNCHANGED <<activeTab, scheduleView, selectedDate, hasVisitedMap, picked, hash, reported>>

Opened(h) ==
    /\ activeTab' = GetInitialTripView(h).tab
    /\ scheduleView' = GetInitialTripView(h).view
    /\ reported' = TRUE
    /\ selectedDate' = 1
    /\ hasVisitedMap' = (activeTab' = "map")
    /\ effects' = {"hash", "date", "map"}
    /\ picked' = FALSE

Reload == Opened(hash) /\ UNCHANGED <<hash, focusDate>>

-----------------------------------------------------------------------------
Init ==
    /\ hash \in Hashes
    /\ activeTab = GetInitialTripView(hash).tab
    /\ scheduleView = GetInitialTripView(hash).view
    /\ reported = TRUE
    /\ focusDate \in Dates /\ selectedDate = 1
    /\ hasVisitedMap = (activeTab = "map")
    /\ effects = {"hash", "date", "map"}
    /\ picked = FALSE

Next ==
    \/ \E tab \in Tabs : SetActiveTab(tab)
    \/ \E view \in Views : SetScheduleView(view)
    \/ \E d \in Dates : SelectDate(d)
    \/ OpenSchedule \/ OpenChecklist
    \/ ReplaceHash \/ FocusSelectedDate \/ VisitMap \/ HandleHashChange
    \/ \E h \in Hashes : ChangeHash(h)
    \/ Midnight \/ Reload

Spec == Init /\ [][Next]_vars

-----------------------------------------------------------------------------
(* Properties.                                                                *)

(* With no effect and no event on its way, the fragment stands for what is on *)
(* the screen: whoever reloads or shares the URL sees the same tab, and in    *)
(* the schedule tab the same view -- whatever raced before.                   *)
ViewMatchesHash ==
    reported /\ "hash" \notin effects =>
      LET stands == GetInitialTripView(hash)
      IN  /\ stands.tab = activeTab
          /\ activeTab = "schedule" => stands.view = scheduleView

(* However the schedule tab was opened -- a tab, a link, the fragment, a      *)
(* reload, or midnight while it is open -- it shows the date of today until   *)
(* the user picks another; and a map that was visited stays there.            *)
ScheduleOpensOnFocus ==
    /\ activeTab = "schedule" /\ "date" \notin effects /\ ~picked => selectedDate = focusDate
    /\ activeTab = "map" /\ "map" \notin effects => hasVisitedMap

(* Both hold at every step: what makes one of them false lets an effect run.  *)
BrowsingInv == TypeOK /\ ViewMatchesHash /\ ScheduleOpensOnFocus
===============================================================================
