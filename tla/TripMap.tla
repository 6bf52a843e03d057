-------------------------------- MODULE TripMap --------------------------------
(* The map tab of a trip: the stop and the place that are chosen (MapTab) and *)
(* the pins on the map (TravelMap).  The map is loaded and drawn by effects   *)
(* that run after a rendering; the library answers later, and what an answer  *)
(* sets is seen by the next rendering only.                                   *)
EXTENDS Sequences, SequencesExt

CONSTANTS
    Plans,      \* what the page may show: the places of the trip, those that
                \* can be put on the map, the stops of the day, trip over
    Stops,      \* schedules
    PlaceAt,    \* the place of a stop
    Slots,      \* loads that may be waited for at once
    Nowhere     \* no place, no stop

Spots == {PlaceAt[i] : i \in Stops} \cup UNION {ToSet(p.places) : p \in Plans}

(* What a theorem about this module assumes of the constants.                 *)
ConstantsOK ==
    /\ \A p \in Plans : p.stops \in Seq(Stops) /\ p.places \in Seq(Spots)
    /\ Nowhere \notin Stops

VARIABLES
    plan, done,             \* props: the plan, and the completed schedules
    subTab, stop, picked,   \* MapTab: selectedScheduleID, selectedPlaceID
    loadState,              \* as rendered
    queued,                 \* as set; the next rendering takes it over
    map, pins,              \* mapRef; markersRef and their looks
    loads,                  \* the effects that wait for the library
    sdk,                    \* runtimePromise
    located, locating, locationError,
    effects                 \* the effects that the rendering still has to run

(* History: the schedules or their marks changed since a place was picked; a  *)
(* map was made under a rendered "ready" and no pins were drawn since.         *)
VARIABLES moved, bare

tabVars == <<plan, done, subTab, stop, picked, moved>>
locationVars == <<located, locating, locationError>>
mapVars == <<map, pins, loads, sdk, bare>>
vars == <<tabVars, locationVars, mapVars, loadState, queued, effects>>

NoPins == [of |-> {}, bright |-> Nowhere, here |-> FALSE]

TypeOK ==
    /\ plan \in Plans /\ done \subseteq Stops
    /\ subTab \in {"timeline", "all"}
    /\ stop \in Stops \cup {Nowhere} /\ picked \in Spots \cup {Nowhere}
    /\ {loadState, queued} \subseteq {"idle", "loading", "ready", "error"}
    /\ map \in BOOLEAN
    /\ pins \in [of: SUBSET Spots, bright: Spots \cup {Nowhere}, here: BOOLEAN]
    /\ loads \in [Slots -> {"free", "active", "cancelled"}]
    /\ sdk \in {"none", "asked", "loaded", "failed"}
    /\ {located, locationError, moved, bare} \subseteq BOOLEAN
    /\ locating \in {"no", "precise", "coarse"}
    /\ effects \subseteq {"load", "pins"}

-----------------------------------------------------------------------------
(* What MapTab derives.                                                       *)

(* The stops of the day whose place the trip has.                             *)
TimelineItems == {i \in ToSet(plan.stops) : PlaceAt[i] \in ToSet(plan.places)}

(* The first of them that is in a set, or none.                               *)
FirstStop(wanted) ==
    LET fit == {k \in DOMAIN plan.stops : plan.stops[k] \in TimelineItems \cap wanted}
    IN  IF fit = {} THEN Nowhere ELSE plan.stops[Min(fit)]

NextRouteItem == IF plan.over THEN Nowhere ELSE FirstStop(Stops \ done)

SelectedRouteItem ==
    IF stop \in TimelineItems THEN stop
    ELSE IF NextRouteItem # Nowhere THEN NextRouteItem
    ELSE FirstStop(Stops)

PlaceOf(i) == IF i = Nowhere THEN Nowhere ELSE PlaceAt[i]

SelectedMapPlace ==
    IF picked # Nowhere THEN picked
    ELSE IF subTab = "timeline" THEN PlaceOf(SelectedRouteItem)
    ELSE IF plan.places = <<>> THEN Nowhere ELSE Head(plan.places)

MappablePlaces == ToSet(plan.places) \cap plan.mappable

(* The pins an effect draws: the selected one stands out, the current         *)
(* location has one of its own.                                               *)
NextMarkers ==
    [of |-> MappablePlaces,
     bright |-> IF SelectedMapPlace \in MappablePlaces THEN SelectedMapPlace ELSE Nowhere,
     here |-> located]

-----------------------------------------------------------------------------
(* Renderings.  React runs the effects of one rendering before the next, and  *)
(* a rendering takes over what was set; MapTab gives TravelMap a new handler  *)
(* whenever it renders, so that the pins are always drawn again.              *)

Render(run) ==
    /\ effects = {}
    /\ loadState' = queued
    /\ effects' = run \cup (IF queued # loadState THEN {"pins"} ELSE {})

RenderTab == Render({"pins"}) /\ UNCHANGED <<locationVars, mapVars, queued>>

SelectMapPlace(p) ==
    /\ p \in pins.of
    /\ picked' = p
    /\ LET connected == FirstStop({i \in Stops : PlaceAt[i] = p})
       IN  IF connected # Nowhere
           THEN stop' = connected /\ subTab' = "timeline"
           ELSE subTab' = "all" /\ UNCHANGED stop
    /\ moved' = FALSE
    /\ RenderTab
    /\ UNCHANGED <<plan, done>>

ShowTimeline ==
    /\ subTab' = "timeline"
    /\ picked' = IF SelectedRouteItem # Nowhere THEN PlaceAt[SelectedRouteItem] ELSE picked
    /\ moved' = (moved /\ SelectedRouteItem = Nowhere)
    /\ RenderTab
    /\ UNCHANGED <<plan, done, stop>>

ShowAll ==
    /\ subTab' = "all"
    /\ RenderTab
    /\ UNCHANGED <<plan, done, stop, picked, moved>>

SelectStop(i) ==
    /\ subTab = "timeline" /\ i \in TimelineItems
    /\ stop' = i
    /\ picked' = PlaceAt[i]
    /\ moved' = FALSE
    /\ RenderTab
    /\ UNCHANGED <<plan, done, subTab>>

(* The map tab stays mounted while another tab marks schedules, a day ends or *)
(* the trip is loaded again; only the latter brings a new list of places.     *)
ToggleScheduleComplete(i) ==
    /\ done' = SymDiff(done, {i})
    /\ moved' = TRUE
    /\ RenderTab
    /\ UNCHANGED <<plan, subTab, stop, picked>>

DayEnds(p) ==
    /\ p.places = plan.places /\ p.stops # plan.stops
    /\ plan' = p
    /\ moved' = TRUE
    /\ RenderTab
    /\ UNCHANGED <<done, subTab, stop, picked>>

TripLoaded(p) ==
    /\ plan' = p
    /\ moved' = TRUE
    /\ Render({"load", "pins"})
    /\ UNCHANGED <<done, subTab, stop, picked, locationVars, mapVars, queued>>

(* What an answer set is rendered, if it is something else than before.       *)
RenderLoadState ==
    /\ queued # loadState
    /\ Render({})
    /\ UNCHANGED <<tabVars, locationVars, mapVars, queued>>

-----------------------------------------------------------------------------
(* The effects of a rendering: all of the earlier ones are cleaned up first.  *)

Cancelled == [s \in Slots |-> IF loads[s] = "active" THEN "cancelled" ELSE loads[s]]

LoadGoogleMaps ==
    \E s \in Slots :
      /\ loads[s] = "free"
      /\ loads' = [Cancelled EXCEPT ![s] = "active"]
      /\ sdk' = (IF sdk = "none" THEN "asked" ELSE sdk)

KeepPins == pins' = IF loadState = "ready" /\ map' THEN NextMarkers ELSE pins
DrawPins == pins' = IF loadState = "ready" /\ map' THEN NextMarkers ELSE NoPins

RunEffects ==
    /\ effects # {}
    /\ effects' = {}
    /\ IF "load" \in effects
       THEN /\ map' = FALSE
            /\ IF MappablePlaces = {}
               THEN queued' = "idle" /\ loads' = Cancelled /\ UNCHANGED sdk
               ELSE queued' = "loading" /\ LoadGoogleMaps
       ELSE UNCHANGED <<map, queued, loads, sdk>>
    /\ DrawPins
    /\ bare' = FALSE
    /\ UNCHANGED <<tabVars, locationVars, loadState>>

(* The library comes, or never: a rejected promise is kept.                   *)
LibraryLoads ==
    /\ sdk = "asked"
    /\ sdk' \in {"loaded", "failed"}
    /\ UNCHANGED <<tabVars, locationVars, map, pins, loads, bare, loadState, queued, effects>>

(* The map that an answer makes has no pins: an effect has to draw them, and  *)
(* none runs when "ready" is rendered after "ready".                          *)
LoadAnswered(s) ==
    /\ loads[s] # "free" /\ sdk \in {"loaded", "failed"}
    /\ loads' = [loads EXCEPT ![s] = "free"]
    /\ IF loads[s] = "active"
       THEN /\ map' = (sdk = "loaded")
            /\ queued' = IF sdk = "loaded" THEN "ready" ELSE "error"
            /\ bare' = (sdk = "loaded" /\ loadState = "ready")
       ELSE UNCHANGED <<map, queued, bare>>
    /\ UNCHANGED <<tabVars, locationVars, pins, sdk, loadState, effects>>

-----------------------------------------------------------------------------
(* The current location: asked for precisely, then, unless it was refused,    *)
(* once more coarsely.                                                        *)

RequestCurrentLocation ==
    /\ loadState = "ready" /\ locating = "no"
    /\ \/ locating' = "precise" /\ locationError' = FALSE
       \/ locationError' = TRUE /\ UNCHANGED locating
    /\ Render({})
    /\ UNCHANGED <<tabVars, mapVars, queued, located>>

HandleSuccess ==
    /\ locating # "no"
    /\ located' = TRUE /\ locating' = "no"
    /\ Render({"pins"})
    /\ UNCHANGED <<tabVars, mapVars, queued, locationError>>

HandleHighAccuracyError ==
    /\ locating = "precise"
    /\ locating' = "coarse"
    /\ UNCHANGED <<tabVars, mapVars, loadState, queued, effects, located, locationError>>

HandleFallbackError ==
    /\ locating # "no"
    /\ locating' = "no" /\ locationError' = TRUE
    /\ Render({})
    /\ UNCHANGED <<tabVars, mapVars, queued, located>>

-----------------------------------------------------------------------------
Init ==
    /\ plan \in Plans /\ done = {}
    /\ subTab = "timeline" /\ stop = Nowhere /\ picked = Nowhere
    /\ loadState = "idle" /\ queued = "idle"
    /\ map = FALSE /\ pins = NoPins
    /\ loads = [s \in Slots |-> "free"]
    /\ sdk = "none"
    /\ located = FALSE /\ locating = "no" /\ locationError = FALSE
    /\ effects = {"load", "pins"}
    /\ moved = FALSE /\ bare = FALSE

Next ==
    \/ \E p \in Spots : SelectMapPlace(p)
    \/ ShowTimeline \/ ShowAll
    \/ \E i \in Stops : SelectStop(i) \/ ToggleScheduleComplete(i)
    \/ \E p \in Plans : DayEnds(p) \/ TripLoaded(p)
    \/ RenderLoadState \/ RunEffects \/ LibraryLoads
    \/ \E s \in Slots : LoadAnswered(s)
    \/ RequestCurrentLocation \/ HandleSuccess \/ HandleHighAccuracyError
    \/ HandleFallbackError

Spec == Init /\ [][Next]_vars

-----------------------------------------------------------------------------
(* Properties.                                                                *)

(* docs/TECH_DESIGN.md:135: the map tab shows the places that schedules have  *)
(* and those that are saved as pins.  A map that is ready, with nothing left  *)
(* to run or to render, has the pins.                                         *)
Settled == effects = {} /\ loadState = "ready" /\ queued = "ready"
ReadyMapHasPins == Settled => pins = NextMarkers

(* What the effects do promise, whatever order the library's answers, reloads *)
(* of the trip and renderings come in: once they have run, no pin is left of  *)
(* what was there before, and a map that is ready has the pins of the places  *)
(* of the trip, the chosen one bright, except for a map that was made while   *)
(* "ready" was still on the screen, until pins are drawn again (bare).        *)
PinsShowPlaces ==
    /\ effects = {} => pins \in {NoPins, NextMarkers} /\ (pins # NoPins => map)
    /\ Settled /\ ~bare => map /\ pins = NextMarkers

(* In the timeline, the place that is bright on the map is that of the stop   *)
(* on the panel, until the schedules or their marks change.                   *)
BrightIsShownStop ==
    subTab = "timeline" /\ SelectedRouteItem # Nowhere /\ ~moved =>
      SelectedMapPlace = PlaceAt[SelectedRouteItem]

MapShowsChoice == PinsShowPlaces /\ BrightIsShownStop

(* Why these hold: the map is there from the answer on that made the tab      *)
(* ready, and while an answer is waited for there is none, nor a pin.         *)
ReadyHasMap == queued = "ready" => map
WaitingHasNone ==
    /\ \A s \in Slots : loads[s] = "active" => ~map
    /\ \A s, t \in Slots : loads[s] = "active" /\ loads[t] = "active" => s = t

(* The place that was picked is that of the stop on the panel.                *)
PickedIsShown ==
    subTab = "timeline" /\ SelectedRouteItem # Nowhere /\ ~moved /\ picked # Nowhere =>
      picked = PlaceAt[SelectedRouteItem]

MapInv == TypeOK /\ PinsShowPlaces /\ ReadyHasMap /\ WaitingHasNone /\ PickedIsShown
================================================================================
