---------------------------- MODULE TripApi_proofs ----------------------------
(* Theorems about TripApi, for every value of its constants.               *)
EXTENDS TripApi, TLAPS

-------------------------------------------------------------------------------
(* Types of the values the actions build.                                  *)

LEMMA DateTypes == NoDate \in Dates /\ Days \subseteq Dates
BY DEF Dates, NoDate

LEMMA EmptyRowTypes ==
  ASSUME NEW state \in States
  PROVE  /\ NoTripRow(state) \in TripRow
         /\ NoItemRow(state) \in ItemRow
BY DateTypes DEF NoTripRow, NoItemRow, TripRow, ItemRow, Span, NoSpan

LEMMA NoCallType == NoCall \in Call
BY EmptyRowTypes, DateTypes DEF NoCall, Call, Ops, Span, NoSpan, States

LEMMA PresetType == ASSUME NEW t \in Trips PROVE Preset(t) \in ItemRow
BY DateTypes DEF Preset, NoItemRow, ItemRow, States

LEMMA ContentsType ==
  ASSUME NEW i \in Items, NEW content \in Contents(i)
  PROVE  /\ content \in ItemRow
         /\ content.state = "live"
         /\ i \notin Schedules => content.place = None
BY DateTypes DEF Contents, ItemRow, States

LEMMA PatchedType ==
  ASSUME NEW row \in ItemRow, NEW given, NEW new \in ItemRow
  PROVE  /\ Patched(row, given, new) \in ItemRow
         /\ Patched(row, given, new).state = row.state
         /\ Patched(row, given, new).trip = row.trip
         /\ \/ Patched(row, given, new).place = row.place
            \/ Patched(row, given, new).place = new.place
BY DEF Patched, ItemRow

LEMMA RewrittenType ==
  ASSUME NEW row \in ItemRow, NEW new \in ItemRow
  PROVE  /\ Rewritten(row, new) \in ItemRow
         /\ Rewritten(row, new).state = row.state
         /\ Rewritten(row, new).trip = row.trip
         /\ Rewritten(row, new).date = new.date
         /\ Rewritten(row, new).back = new.back
         /\ Rewritten(row, new).place = new.place
BY DEF Rewritten, ItemRow

LEMMA PatchedSpanType ==
  ASSUME NEW old \in Span, NEW span \in Span
  PROVE  PatchedSpan(old, span) \in Span
BY DEF PatchedSpan, Span

(* Going on and finishing keep the types of the slots.                     *)
LEMMA GoOnType ==
  ASSUME TypeOK, NEW r \in Requests, NEW ok, NEW to \in Steps, NEW c,
         ok => c \in Call, GoOn(r, ok, to, c)
  PROVE  at' \in [Requests -> Steps] /\ call' \in [Requests -> Call]
<1>1. "idle" \in Steps /\ NoCall \in Call
  BY NoCallType DEF Steps
<1>2. CASE ok
  BY <1>1, <1>2 DEF GoOn, TypeOK
<1>3. CASE ~ok
  BY <1>1, <1>3 DEF GoOn, TypeOK
<1>4. QED
  BY <1>2, <1>3

LEMMA FinishType ==
  ASSUME TypeOK, NEW r \in Requests, Finish(r)
  PROVE  at' \in [Requests -> Steps] /\ call' \in [Requests -> Call]
<1>1. "idle" \in Steps /\ NoCall \in Call
  BY NoCallType DEF Steps
<1>2. QED
  BY <1>1 DEF Finish, TypeOK

LEMMA BeginType ==
  ASSUME TypeOK, NEW r \in Requests, NEW step \in Steps, NEW c \in Call,
         Begin(r, step, c)
  PROVE  TypeOK'
BY DEF Begin, TypeOK

LEMMA LiveFacts ==
  ASSUME TypeOK
  PROVE  /\ \A t : LiveTrip(t) => t \in Trips /\ trips[t] \in TripRow
                                  /\ trips[t].span \in Span
         /\ \A i : LiveItem(i) => i \in Items /\ rows[i] \in ItemRow
                                  /\ rows[i].trip \in Trips \cup {None}
                                  /\ rows[i].place \in Places \cup {None}
BY DEF LiveTrip, LiveItem, TypeOK, TripRow, ItemRow

-------------------------------------------------------------------------------
(* Every action keeps the types.                                           *)

LEMMA NewCallTypes ==
  ASSUME NEW u \in Users
  PROVE  /\ \A t \in Trips, i \in Items :
              /\ \A content \in ItemRow :
                   [NoCall EXCEPT !.op = "createItem", !.user = u,
                                  !.trip = t, !.item = i,
                                  !.new = content] \in Call
              /\ \A given \in SUBSET Columns, new \in ItemRow :
                   [NoCall EXCEPT !.op = "updateItem", !.user = u,
                                  !.trip = t, !.item = i,
                                  !.given = given, !.new = new] \in Call
              /\ [NoCall EXCEPT !.op = "deleteItem", !.user = u,
                                !.trip = t, !.item = i] \in Call
         /\ \A i \in Items :
              /\ \A given \in SUBSET Columns, new \in ItemRow :
                   [NoCall EXCEPT !.op = "updateItem", !.user = u,
                                  !.item = i, !.given = given,
                                  !.new = new] \in Call
              /\ [NoCall EXCEPT !.op = "deleteItem", !.user = u,
                                !.item = i] \in Call
         /\ \A t \in Trips, span \in Span :
              /\ [NoCall EXCEPT !.op = "createTrip", !.user = u,
                                !.trip = t, !.span = span] \in Call
              /\ [NoCall EXCEPT !.op = "updateTrip", !.user = u,
                                !.trip = t, !.span = span] \in Call
              /\ [NoCall EXCEPT !.op = "deleteTrip", !.user = u,
                                !.trip = t] \in Call
BY NoCallType DEF NoCall, Call, Ops

-------------------------------------------------------------------------------
(* A request that has just arrived: it holds no lock, and the ids it draws *)
(* are nobody else's.                                                      *)

NewCall(step, c) ==
  /\ step \in {"trip", "row", "write"}
  /\ step = "row" => c.item \in Checklists
  /\ step = "write" => c.op = "createTrip"
  /\ c \in Call
  /\ CallInv(step, c)
  /\ c.held = {}
  /\ c.op = "createItem" => \A q \in Requests : call[q].item # c.item
  /\ c.op = "createTrip" => \A q \in Requests : call[q].trip # c.trip

Starts(r) == \E step \in Steps, c \in Call : NewCall(step, c) /\ Begin(r, step, c)

LEMMA ItemKinds ==
  /\ Schedules \subseteq Items /\ Checklists \subseteq Items
  /\ Places \subseteq Items /\ Flights \subseteq Items
  /\ \A i \in Checklists : i \notin Schedules \cup Places \cup Flights
  /\ \A i \in Schedules : i \notin Places \cup Flights
  /\ \A i \in Places : i \notin Flights
  /\ None \notin Items /\ None \notin Trips
BY TripRowsAssumption DEF Items

LEMMA ColumnsType == ASSUME NEW i \in Items PROVE ColumnsOf(i) \subseteq Columns
<1>1. CASE i \in Schedules
  BY <1>1 DEF ColumnsOf, Columns
<1>2. CASE i \in Checklists
  BY <1>2, ItemKinds DEF ColumnsOf, Columns
<1>3. CASE i \in Flights
  BY <1>3, ItemKinds DEF ColumnsOf, Columns
<1>4. CASE i \in Places
  BY <1>4, ItemKinds DEF ColumnsOf, Columns
<1>5. QED
  BY <1>1, <1>2, <1>3, <1>4 DEF Items

LEMMA CreateInStarts ==
  ASSUME TypeOK, NEW S \in SUBSET Items, NEW r \in Requests, CreateIn(S, r)
  PROVE  Starts(r)
<1>1. PICK u \in Users, t \in KnownTrips, i \in FreshItems(S) :
        \E content \in Contents(i) :
          Begin(r, "trip", [NoCall EXCEPT !.op = "createItem", !.user = u,
                                          !.trip = t, !.item = i,
                                          !.new = content])
  BY DEF CreateIn
<1>2. PICK content \in Contents(i) :
        Begin(r, "trip", [NoCall EXCEPT !.op = "createItem", !.user = u,
                                        !.trip = t, !.item = i,
                                        !.new = content])
  BY <1>1
<1> DEFINE c == [NoCall EXCEPT !.op = "createItem", !.user = u, !.trip = t,
                               !.item = i, !.new = content]
<1>3. /\ i \in Items /\ t \in Trips
      /\ rows[i].state = "unused"
      /\ \A q \in Requests : call[q].item # i
  BY DEF FreshItems, KnownTrips
<1>4. /\ content \in ItemRow /\ content.state = "live"
      /\ i \notin Schedules => content.place = None
  BY <1>3, ContentsType
<1>5. c \in Call
  BY <1>3, <1>4, NewCallTypes
<1>6. /\ c.op = "createItem" /\ c.held = {} /\ c.item = i /\ c.trip = t
      /\ c.new = content
  BY DEF NoCall
<1> HIDE DEF c
<1>7. CallInv("trip", c)
  BY <1>3, <1>4, <1>6 DEF CallInv, WriterInv, ChangerInv, TripInv, HeldInv, StepsOf
<1>8. NewCall("trip", c)
  BY <1>3, <1>5, <1>6, <1>7 DEF NewCall
<1>9. "trip" \in Steps
  BY DEF Steps
<1>10. QED
  BY <1>2, <1>5, <1>8, <1>9 DEF Starts, c

(* The row a PATCH carries before the row is read.                         *)
LEMMA PatchContents ==
  ASSUME NEW i \in Items, NEW given, NEW content \in Contents(i)
  PROVE  LET new == Patched(NoItemRow("live"), given, content) IN
         /\ new \in ItemRow /\ new.state = "live"
         /\ i \notin Schedules => new.place = None
<1>1. "live" \in States
  BY DEF States
<1>2. /\ NoItemRow("live") \in ItemRow /\ NoItemRow("live").state = "live"
      /\ NoItemRow("live").place = None
  BY <1>1, EmptyRowTypes DEF NoItemRow
<1>3. content \in ItemRow /\ (i \notin Schedules => content.place = None)
  BY ContentsType
<1>4. QED
  BY <1>2, <1>3, PatchedType

LEMMA UpdateStarts ==
  ASSUME TypeOK, NEW r \in Requests, NEW c \in Call, NEW step \in {"trip", "row"},
         Begin(r, step, c),
         c.op = "updateItem", c.held = {}, c.item \in Items,
         rows[c.item].state # "unused",
         c.item \in Checklists <=> step = "row",
         c.new.state = "live", c.item \notin Schedules => c.new.place = None
  PROVE  Starts(r)
<1>1. CallInv(step, c)
  BY DEF CallInv, WriterInv, ChangerInv, TripInv, HeldInv, StepsOf
<1>2. NewCall(step, c) /\ step \in Steps
  BY <1>1 DEF NewCall, Steps
<1>3. QED
  BY <1>2 DEF Starts

LEMMA DeleteStarts ==
  ASSUME TypeOK, NEW r \in Requests, NEW c \in Call, NEW step \in {"trip", "row"},
         Begin(r, step, c),
         c.op = "deleteItem", c.held = {}, c.item \in Items,
         rows[c.item].state # "unused",
         c.item \in Checklists <=> step = "row"
  PROVE  Starts(r)
<1>1. CallInv(step, c)
  BY DEF CallInv, WriterInv, ChangerInv, TripInv, HeldInv, StepsOf
<1>2. NewCall(step, c) /\ step \in Steps
  BY <1>1 DEF NewCall, Steps
<1>3. QED
  BY <1>2 DEF Starts

LEMMA UpdateInStarts ==
  ASSUME TypeOK, NEW S \in SUBSET (Items \ Checklists), NEW r \in Requests,
         UpdateIn(S, r)
  PROVE  Starts(r)
<1>1. PICK u \in Users, t \in KnownTrips, i \in KnownItems \cap S :
        \E given \in SUBSET (ColumnsOf(i) \cap Editable) :
          \E new \in {Patched(NoItemRow("live"), given, x) : x \in Contents(i)} :
            Begin(r, "trip", [NoCall EXCEPT !.op = "updateItem", !.user = u,
                                            !.trip = t, !.item = i,
                                            !.given = given, !.new = new])
  BY DEF UpdateIn
<1>2. PICK given \in SUBSET (ColumnsOf(i) \cap Editable), content \in Contents(i) :
        Begin(r, "trip", [NoCall EXCEPT !.op = "updateItem", !.user = u,
                                        !.trip = t, !.item = i, !.given = given,
                                        !.new = Patched(NoItemRow("live"), given, content)])
  BY <1>1
<1> DEFINE new == Patched(NoItemRow("live"), given, content)
           c == [NoCall EXCEPT !.op = "updateItem", !.user = u, !.trip = t,
                               !.item = i, !.given = given, !.new = new]
<1>3. i \in Items /\ i \notin Checklists /\ t \in Trips /\ rows[i].state # "unused"
  BY DEF KnownItems, KnownTrips
<1>4. /\ new \in ItemRow /\ new.state = "live"
      /\ i \notin Schedules => new.place = None
  BY <1>3, PatchContents
<1>5. given \in SUBSET Columns
  BY SMTT(30), <1>3, ColumnsType
<1> HIDE DEF new
<1>6. c \in Call
  BY <1>3, <1>4, <1>5, NewCallTypes
<1>7. c.op = "updateItem" /\ c.held = {} /\ c.item = i /\ c.new = new
  BY DEF NoCall
<1>8. Begin(r, "trip", c)
  BY <1>2 DEF new
<1> HIDE DEF c
<1>9. QED
  BY <1>3, <1>4, <1>6, <1>7, <1>8, UpdateStarts

LEMMA DeleteInStarts ==
  ASSUME TypeOK, NEW S \in SUBSET (Items \ Checklists), NEW r \in Requests,
         DeleteIn(S, r)
  PROVE  Starts(r)
<1>1. PICK u \in Users, t \in KnownTrips, i \in KnownItems \cap S :
        Begin(r, "trip", [NoCall EXCEPT !.op = "deleteItem", !.user = u,
                                        !.trip = t, !.item = i])
  BY DEF DeleteIn
<1> DEFINE c == [NoCall EXCEPT !.op = "deleteItem", !.user = u, !.trip = t,
                               !.item = i]
<1>2. i \in Items /\ i \notin Checklists /\ t \in Trips /\ rows[i].state # "unused"
  BY DEF KnownItems, KnownTrips
<1>3. c \in Call
  BY <1>2, NewCallTypes
<1>4. c.op = "deleteItem" /\ c.held = {} /\ c.item = i
  BY DEF NoCall
<1>5. Begin(r, "trip", c)
  BY <1>1
<1> HIDE DEF c
<1>6. QED
  BY <1>2, <1>3, <1>4, <1>5, DeleteStarts

LEMMA UpdateChecklistStarts ==
  ASSUME TypeOK, NEW r \in Requests, UpdateChecklistItem(r)
  PROVE  Starts(r)
<1>1. PICK u \in Users, i \in KnownItems \cap Checklists :
        \E given \in SUBSET (ColumnsOf(i) \cap Editable) :
          \E new \in {Patched(NoItemRow("live"), given, x) : x \in Contents(i)} :
            Begin(r, "row", [NoCall EXCEPT !.op = "updateItem", !.user = u,
                                           !.item = i, !.given = given,
                                           !.new = new])
  BY DEF UpdateChecklistItem
<1>2. PICK given \in SUBSET (ColumnsOf(i) \cap Editable), content \in Contents(i) :
        Begin(r, "row", [NoCall EXCEPT !.op = "updateItem", !.user = u,
                                       !.item = i, !.given = given,
                                       !.new = Patched(NoItemRow("live"), given, content)])
  BY <1>1
<1> DEFINE new == Patched(NoItemRow("live"), given, content)
           c == [NoCall EXCEPT !.op = "updateItem", !.user = u, !.item = i,
                               !.given = given, !.new = new]
<1>3. i \in Items /\ rows[i].state # "unused"
  BY DEF KnownItems
<1>4. /\ new \in ItemRow /\ new.state = "live"
      /\ i \notin Schedules => new.place = None
  BY <1>3, PatchContents
<1>5. given \in SUBSET Columns
  BY SMTT(30), <1>3, ColumnsType
<1> HIDE DEF new
<1>6. c \in Call
  BY <1>3, <1>4, <1>5, NewCallTypes
<1>7. c.op = "updateItem" /\ c.held = {} /\ c.item = i /\ c.new = new
  BY DEF NoCall
<1>8. Begin(r, "row", c)
  BY <1>2 DEF new
<1> HIDE DEF c
<1>9. QED
  BY <1>3, <1>4, <1>6, <1>7, <1>8, UpdateStarts

LEMMA DeleteChecklistStarts ==
  ASSUME TypeOK, NEW r \in Requests, DeleteChecklistItem(r)
  PROVE  Starts(r)
<1>1. PICK u \in Users, i \in KnownItems \cap Checklists :
        Begin(r, "row", [NoCall EXCEPT !.op = "deleteItem", !.user = u,
                                       !.item = i])
  BY DEF DeleteChecklistItem
<1> DEFINE c == [NoCall EXCEPT !.op = "deleteItem", !.user = u, !.item = i]
<1>2. i \in Items /\ rows[i].state # "unused"
  BY DEF KnownItems
<1>3. c \in Call
  BY <1>2, NewCallTypes
<1>4. c.op = "deleteItem" /\ c.held = {} /\ c.item = i
  BY DEF NoCall
<1>5. Begin(r, "row", c)
  BY <1>1
<1> HIDE DEF c
<1>6. QED
  BY <1>2, <1>3, <1>4, <1>5, DeleteStarts

LEMMA TripCallStarts ==
  ASSUME TypeOK, NEW r \in Requests,
         CreateTrip(r) \/ UpdateTrip(r) \/ DeleteTrip(r)
  PROVE  Starts(r)
<1>1. CASE CreateTrip(r)
  <2>1. PICK u \in Users, t \in FreshTrips, span \in Span :
          /\ DateRange(span)
          /\ Begin(r, "write", [NoCall EXCEPT !.op = "createTrip", !.user = u,
                                              !.trip = t, !.span = span])
    BY <1>1 DEF CreateTrip
  <2> DEFINE c == [NoCall EXCEPT !.op = "createTrip", !.user = u, !.trip = t,
                                 !.span = span]
  <2>2. /\ t \in Trips /\ trips[t].state = "unused"
        /\ \A q \in Requests : call[q].trip # t
    BY SMTT(30) DEF FreshTrips
  <2>3. c \in Call
    BY <2>2, NewCallTypes
  <2>4. /\ c.op = "createTrip" /\ c.held = {} /\ c.trip = t /\ c.user = u
        /\ c.span = span
    BY DEF NoCall
  <2>5. DateRange(span) /\ Begin(r, "write", c)
    BY <2>1
  <2> HIDE DEF c
  <2>6. CallInv("write", c)
    BY <2>2, <2>4, <2>5 DEF CallInv, WriterInv, ChangerInv, TripInv, HeldInv, StepsOf
  <2>7. NewCall("write", c) /\ "write" \in Steps
    BY <2>2, <2>3, <2>4, <2>6 DEF NewCall, Steps
  <2>8. QED
    BY <2>3, <2>5, <2>7 DEF Starts
<1>2. CASE UpdateTrip(r)
  <2>1. PICK u \in Users, t \in KnownTrips, span \in Span :
          Begin(r, "trip", [NoCall EXCEPT !.op = "updateTrip", !.user = u,
                                          !.trip = t, !.span = span])
    BY <1>2 DEF UpdateTrip
  <2> DEFINE c == [NoCall EXCEPT !.op = "updateTrip", !.user = u, !.trip = t,
                                 !.span = span]
  <2>2. c \in Call
    BY NewCallTypes DEF KnownTrips
  <2>3. c.op = "updateTrip" /\ c.held = {} /\ Begin(r, "trip", c)
    BY <2>1 DEF NoCall
  <2> HIDE DEF c
  <2>4. CallInv("trip", c)
    BY <2>3 DEF CallInv, WriterInv, ChangerInv, TripInv, HeldInv, StepsOf
  <2>5. NewCall("trip", c) /\ "trip" \in Steps
    BY <2>2, <2>3, <2>4 DEF NewCall, Steps
  <2>6. QED
    BY <2>2, <2>3, <2>5 DEF Starts
<1>3. CASE DeleteTrip(r)
  <2>1. PICK u \in Users, t \in KnownTrips :
          Begin(r, "trip", [NoCall EXCEPT !.op = "deleteTrip", !.user = u,
                                          !.trip = t])
    BY <1>3 DEF DeleteTrip
  <2> DEFINE c == [NoCall EXCEPT !.op = "deleteTrip", !.user = u, !.trip = t]
  <2>2. c \in Call
    <3>1. NoSpan \in Span /\ t \in Trips
      BY DateTypes DEF NoSpan, Span, KnownTrips
    <3>2. QED
      BY <3>1, NewCallTypes
  <2>3. c.op = "deleteTrip" /\ c.held = {} /\ Begin(r, "trip", c)
    BY <2>1 DEF NoCall
  <2> HIDE DEF c
  <2>4. CallInv("trip", c)
    BY <2>3 DEF CallInv, WriterInv, ChangerInv, TripInv, HeldInv, StepsOf
  <2>5. NewCall("trip", c) /\ "trip" \in Steps
    BY <2>2, <2>3, <2>4 DEF NewCall, Steps
  <2>6. QED
    BY <2>2, <2>3, <2>5 DEF Starts
<1>4. QED
  BY <1>1, <1>2, <1>3

LEMMA RequestStarts ==
  ASSUME TypeOK, NEW r \in Requests, Request(r)
  PROVE  Starts(r)
<1>1. /\ Schedules \in SUBSET (Items \ Checklists)
      /\ Places \in SUBSET (Items \ Checklists)
      /\ Flights \in SUBSET (Items \ Checklists)
      /\ Checklists \in SUBSET Items
      /\ Schedules \in SUBSET Items /\ Places \in SUBSET Items
      /\ Flights \in SUBSET Items
  BY ItemKinds
<1>2. CASE CreateTrip(r) \/ UpdateTrip(r) \/ DeleteTrip(r)
  BY <1>2, TripCallStarts
<1>3. CASE CreateSchedule(r) \/ CreatePlace(r) \/ CreateFlight(r)
             \/ CreateChecklistCustomItem(r)
  BY <1>1, <1>3, CreateInStarts
     DEF CreateSchedule, CreatePlace, CreateFlight, CreateChecklistCustomItem
<1>4. CASE UpdateSchedule(r) \/ UpdatePlace(r) \/ UpdateFlight(r)
  BY <1>1, <1>4, UpdateInStarts DEF UpdateSchedule, UpdatePlace, UpdateFlight
<1>5. CASE DeleteSchedule(r) \/ DeletePlace(r) \/ DeleteFlight(r)
  BY <1>1, <1>5, DeleteInStarts DEF DeleteSchedule, DeletePlace, DeleteFlight
<1>6. CASE UpdateChecklistItem(r)
  BY <1>6, UpdateChecklistStarts
<1>7. CASE DeleteChecklistItem(r)
  BY <1>7, DeleteChecklistStarts
<1>8. QED
  BY <1>2, <1>3, <1>4, <1>5, <1>6, <1>7 DEF Request

-------------------------------------------------------------------------------
(* What a step of one request leaves to the others.                        *)

(* With the tables as they are, what a handler knows stays known.          *)
LEMMA SameTables ==
  ASSUME Stay, NEW step, NEW c, CallInv(step, c)
  PROVE  CallInv(step, c)'
BY DEF Stay, CallInv, WriterInv, ChangerInv, TripInv, HeldInv, LiveTrip,
       LiveItem, StillIn, Contained, RowsOf

(* The request's new step and locals do not clash with another request.    *)
Apart(q, step, c) ==
  /\ call[q].held \cap c.held = {}
  /\ HoldsTrip(q) /\ step \in {"commit", "commitTrip", "cascade"} =>
       call[q].trip # c.trip
  /\ call[q].op = "createItem" /\ c.op = "createItem" => call[q].item # c.item
  /\ call[q].op = "createTrip" /\ c.op = "createTrip" => call[q].trip # c.trip

Goes(r, step, c) ==
  /\ at' = [at EXCEPT ![r] = step]
  /\ call' = [call EXCEPT ![r] = c]

LEMMA GoesKeeps ==
  ASSUME IInv, NEW r \in Requests, NEW step \in Steps, NEW c \in Call,
         Goes(r, step, c), Stay, CallInv(step, c),
         \A q \in Requests \ {r} : Apart(q, step, c)
  PROVE  IInv'
<1>1. /\ at'[r] = step /\ call'[r] = c
      /\ \A q \in Requests \ {r} : at'[q] = at[q] /\ call'[q] = call[q]
  BY DEF Goes, IInv, TypeOK
<1>2. TypeOK'
  BY DEF Goes, Stay, IInv, TypeOK
<1>3. (DatedItemsWithinTrip /\ LinksResolve /\ RangesStayOrdered)'
  BY DEF Stay, IInv, DatedItemsWithinTrip, LinksResolve, RangesStayOrdered
<1>4. ASSUME NEW q \in Requests PROVE CallInv(at[q], call[q])'
  <2>1. PICK s, d : /\ s = at'[q] /\ d = call'[q] /\ CallInv(s, d)
    BY <1>1 DEF IInv
  <2>2. CallInv(s, d)'
    BY <2>1, SameTables
  <2>3. QED
    BY <2>1, <2>2 DEF CallInv, WriterInv, ChangerInv, TripInv, HeldInv
<1>5. ASSUME NEW p \in Requests, NEW q \in Requests, p # q
      PROVE  PairInv(p, q)'
  BY <1>1, <1>5 DEF IInv, PairInv, Apart, HoldsTrip
<1>6. QED
  BY <1>2, <1>3, <1>4, <1>5 DEF IInv

(* A request that ends without changing the tables.                        *)
LEMMA EndKeeps ==
  ASSUME IInv, NEW r \in Requests, Finish(r), Stay
  PROVE  IInv'
<1>1. "idle" \in Steps /\ NoCall \in Call /\ Goes(r, "idle", NoCall)
  BY NoCallType DEF Steps, Finish, Goes
<1>2. NoCall.op = "none" /\ NoCall.held = {}
  BY DEF NoCall
<1>3. CallInv("idle", NoCall)
  BY <1>2 DEF CallInv, WriterInv, ChangerInv, TripInv, HeldInv, StepsOf
<1>4. \A q \in Requests \ {r} : Apart(q, "idle", NoCall)
  BY <1>2 DEF Apart
<1>5. QED
  BY <1>1, <1>3, <1>4, GoesKeeps

LEMMA GoOnKeeps ==
  ASSUME IInv, NEW r \in Requests, NEW ok, NEW step, NEW c,
         GoOn(r, ok, step, c), Stay,
         ok => /\ step \in Steps /\ c \in Call /\ CallInv(step, c)
               /\ \A q \in Requests \ {r} : Apart(q, step, c)
  PROVE  IInv'
<1>1. CASE ok
  <2>1. Goes(r, step, c)
    BY <1>1 DEF GoOn, Goes
  <2>2. QED
    BY <1>1, <2>1, GoesKeeps
<1>2. CASE ~ok
  <2>1. Finish(r)
    BY <1>2 DEF GoOn, Finish
  <2>2. QED
    BY <2>1, EndKeeps
<1>3. QED
  BY <1>1, <1>2

LEMMA StartKeeps ==
  ASSUME IInv, NEW r \in Requests, Starts(r)
  PROVE  IInv'
<1>1. PICK step \in Steps, c \in Call : NewCall(step, c) /\ Begin(r, step, c)
  BY DEF Starts
<1>2. Goes(r, step, c) /\ Stay
  BY <1>1 DEF Begin, Goes, Stay
<1>3. \A q \in Requests \ {r} : Apart(q, step, c)
  BY <1>1 DEF NewCall, Apart
<1>4. CallInv(step, c)
  BY <1>1 DEF NewCall
<1>5. QED
  BY <1>2, <1>3, <1>4, GoesKeeps

-------------------------------------------------------------------------------
(* The reads keep the invariant.                                           *)

(* A read keeps the ids and takes no lock.                                 *)
LEMMA ReadsStayApart ==
  ASSUME IInv, NEW r \in Requests, NEW step, NEW c,
         step \notin {"commit", "commitTrip", "cascade"},
         c.op = call[r].op, c.held = {},
         c.op = "createItem" => c.item = call[r].item,
         c.op = "createTrip" => c.trip = call[r].trip
  PROVE  \A q \in Requests \ {r} : Apart(q, step, c)
BY DEF IInv, PairInv, Apart

(* What the invariant says of the request that acts.                       *)
LEMMA OwnCall ==
  ASSUME IInv, NEW r \in Requests
  PROVE  /\ call[r] \in Call
         /\ at[r] \in StepsOf[call[r].op]
         /\ WriterInv(at[r], call[r])
         /\ ChangerInv(at[r], call[r])
         /\ TripInv(at[r], call[r])
         /\ HeldInv(at[r], call[r])
         /\ at[r] \in {"trip", "row", "place", "schedules", "checklists", "write"}
              => call[r].held = {}
BY DEF IInv, CallInv, TypeOK, HeldInv

LEMMA CheckNewItemKeeps ==
  ASSUME IInv, NEW r \in Requests, CheckNewItem(r)
  PROVE  IInv'
<1> DEFINE c == call[r]
           d == [c EXCEPT !.new.trip = c.trip]
           ok == Owned(c) /\ Acceptable(c.item, c.new, trips[c.trip].span)
           step == AfterRow(c.new)
<1>1. Reading(r, "trip", {"createItem"}) /\ GoOn(r, ok, step, d) /\ Stay
  BY DEF CheckNewItem
<1>2. /\ c \in Call /\ c.op = "createItem" /\ at[r] = "trip" /\ c.held = {}
      /\ WriterInv("trip", c)
  BY <1>1, OwnCall DEF Reading
<1>3. /\ d \in Call /\ d.op = "createItem" /\ d.held = {} /\ d.item = c.item
      /\ d.trip = c.trip /\ d.new = [c.new EXCEPT !.trip = c.trip]
  BY <1>2 DEF Call, ItemRow
<1>4. /\ d.new.trip = c.trip /\ d.new.state = c.new.state
      /\ d.new.place = c.new.place /\ d.new.date = c.new.date
      /\ d.new.back = c.new.back
  BY <1>2, <1>3 DEF Call, ItemRow
<1>5. step \in {"place", "write"} /\ (step = "write" => c.new.place = None)
  BY DEF AfterRow
<1> HIDE DEF d, step
<1>6. ASSUME ok PROVE CallInv(step, d)
  <2>1. c.trip \in Trips
    BY <1>6 DEF Owned, LiveTrip
  <2>2. c.item \in Flights => FlightDates(c.new.date, c.new.back)
    BY <1>6 DEF Acceptable
  <2>3. WriterInv(step, d)
    BY <1>2, <1>3, <1>4, <1>5, <2>1, <2>2 DEF WriterInv
  <2>4. ChangerInv(step, d) /\ TripInv(step, d) /\ HeldInv(step, d)
    BY <1>3, <1>5 DEF ChangerInv, TripInv, HeldInv
  <2>5. QED
    BY <1>3, <1>5, <2>3, <2>4 DEF CallInv, StepsOf
<1>7. \A q \in Requests \ {r} : Apart(q, step, d)
  BY <1>2, <1>3, <1>5, ReadsStayApart
<1>8. step \in Steps
  BY <1>5 DEF Steps
<1> HIDE DEF ok
<1>9. QED
  BY <1>1, <1>3, <1>6, <1>7, <1>8, GoOnKeeps

LEMMA CheckOwnerKeeps ==
  ASSUME IInv, NEW r \in Requests, CheckOwner(r)
  PROVE  IInv'
<1> DEFINE c == call[r]
           d == [c EXCEPT !.span = trips[c.trip].span]
<1>1. /\ Reading(r, "trip", {"updateItem"}) /\ c.item \notin Checklists
      /\ GoOn(r, Owned(c), "row", d) /\ Stay
  BY DEF CheckOwner
<1>2. /\ c \in Call /\ c.op = "updateItem" /\ at[r] = "trip" /\ c.held = {}
      /\ WriterInv("trip", c) /\ ChangerInv("trip", c)
  BY <1>1, OwnCall DEF Reading
<1>3. ASSUME Owned(c)
      PROVE  /\ d \in Call /\ d.op = "updateItem" /\ d.held = {}
             /\ d.item = c.item /\ d.trip = c.trip /\ d.new = c.new
  <2>1. trips[c.trip].span \in Span
    BY <1>3, LiveFacts DEF Owned, IInv
  <2>2. QED
    BY <1>2, <2>1 DEF Call
<1> HIDE DEF d
<1>4. ASSUME Owned(c) PROVE CallInv("row", d)
  BY <1>1, <1>2, <1>3, <1>4
     DEF CallInv, WriterInv, ChangerInv, TripInv, HeldInv, StepsOf
<1>5. ASSUME Owned(c) PROVE \A q \in Requests \ {r} : Apart(q, "row", d)
  BY <1>2, <1>3, <1>5, ReadsStayApart
<1>6. "row" \in Steps
  BY DEF Steps
<1>7. QED
  BY <1>1, <1>3, <1>4, <1>5, <1>6, GoOnKeeps

LEMMA PatchRowKeeps ==
  ASSUME IInv, NEW r \in Requests, PatchRow(r)
  PROVE  IInv'
<1> DEFINE c == call[r]
           row == Patched(rows[c.item], c.given, c.new)
           d == [c EXCEPT !.new = row, !.span = NoSpan]
           ok == /\ LiveItem(c.item)
                 /\ rows[c.item].trip = c.trip
                 /\ Acceptable(c.item, row, c.span)
           step == AfterRow(row)
<1>1. /\ Reading(r, "row", {"updateItem"}) /\ c.item \notin Checklists
      /\ GoOn(r, ok, step, d) /\ Stay
  BY DEF PatchRow
<1>2. /\ c \in Call /\ c.op = "updateItem" /\ at[r] = "row" /\ c.held = {}
      /\ WriterInv("row", c) /\ ChangerInv("row", c)
  BY <1>1, OwnCall DEF Reading
<1>3. c.item \in Items /\ rows[c.item] \in ItemRow /\ c.new \in ItemRow
  BY <1>2 DEF WriterInv, IInv, TypeOK, Call
<1>4. /\ row \in ItemRow
      /\ row.state = rows[c.item].state /\ row.trip = rows[c.item].trip
      /\ row.place = rows[c.item].place \/ row.place = c.new.place
  BY <1>3, PatchedType
<1> HIDE DEF row
<1>5. /\ d \in Call /\ d.op = "updateItem" /\ d.held = {} /\ d.item = c.item
      /\ d.trip = c.trip /\ d.new = row
  BY <1>2, <1>4, DateTypes DEF Call, Span, NoSpan
<1>6. step \in {"place", "write"} /\ (step = "write" => row.place = None)
  BY DEF AfterRow
<1> HIDE DEF d, step
<1>7. ASSUME ok PROVE CallInv(step, d)
  <2>1. /\ rows[c.item].state = "live" /\ rows[c.item].trip \in Trips
        /\ rows[c.item].place # None => c.item \in Schedules
    BY <1>3, <1>7 DEF LiveItem, IInv, LinksResolve, LinksLive
  <2>2. c.item \in Flights => FlightDates(row.date, row.back)
    BY <1>7 DEF Acceptable
  <2>3. WriterInv(step, d)
    BY <1>2, <1>3, <1>4, <1>5, <1>6, <1>7, <2>1, <2>2 DEF WriterInv
  <2>4. ChangerInv(step, d) /\ TripInv(step, d) /\ HeldInv(step, d)
    BY <1>1, <1>2, <1>5, <1>6 DEF ChangerInv, TripInv, HeldInv
  <2>5. QED
    BY <1>5, <1>6, <2>3, <2>4 DEF CallInv, StepsOf
<1>8. \A q \in Requests \ {r} : Apart(q, step, d)
  BY <1>2, <1>5, <1>6, ReadsStayApart
<1>9. step \in Steps
  BY <1>6 DEF Steps
<1> HIDE DEF ok
<1>10. QED
  BY <1>1, <1>5, <1>7, <1>8, <1>9, GoOnKeeps

LEMMA ReadChecklistKeeps ==
  ASSUME IInv, NEW r \in Requests, ReadChecklist(r)
  PROVE  IInv'
<1> DEFINE c == call[r]
           row == Patched(rows[c.item], c.given, c.new)
           new == IF c.op = "updateItem" THEN row ELSE c.new
           d == [c EXCEPT !.trip = rows[c.item].trip, !.new = new]
<1>1. /\ Reading(r, "row", {"updateItem", "deleteItem"})
      /\ c.item \in Checklists
      /\ GoOn(r, LiveItem(c.item), "trip", d) /\ Stay
  BY DEF ReadChecklist
<1>2. /\ c \in Call /\ c.op \in {"updateItem", "deleteItem"} /\ at[r] = "row"
      /\ c.held = {}
      /\ WriterInv("row", c) /\ ChangerInv("row", c)
  BY <1>1, OwnCall DEF Reading
<1>3. c.item \in Items /\ rows[c.item] \in ItemRow /\ c.new \in ItemRow
  BY <1>1, <1>2, ItemKinds DEF IInv, TypeOK, Call
<1>4. /\ row \in ItemRow
      /\ row.state = rows[c.item].state /\ row.trip = rows[c.item].trip
      /\ row.place = rows[c.item].place \/ row.place = c.new.place
  BY <1>3, PatchedType
<1> HIDE DEF row
<1>5. /\ new \in ItemRow
      /\ c.op = "updateItem" => new = row
  BY <1>3, <1>4
<1> HIDE DEF new
<1>6. /\ d \in Call /\ d.op = c.op /\ d.held = {} /\ d.item = c.item
      /\ d.trip = rows[c.item].trip /\ d.new = new
  BY <1>2, <1>3, <1>5 DEF Call, ItemRow
<1> HIDE DEF d
<1>7. ASSUME LiveItem(c.item) PROVE CallInv("trip", d)
  <2>1. rows[c.item].state = "live" /\ c.item \notin Schedules
    BY <1>1, <1>7, ItemKinds DEF LiveItem
  <2>2. rows[c.item].place = None
    BY <1>3, <2>1 DEF IInv, LinksResolve, LinksLive
  <2>3. WriterInv("trip", d)
    BY <1>2, <1>4, <1>5, <1>6, <2>1, <2>2 DEF WriterInv
  <2>4. ChangerInv("trip", d)
    BY <1>1, <1>2, <1>4, <1>5, <1>6, <2>1, ItemKinds DEF ChangerInv, StillIn, LiveItem
  <2>5. TripInv("trip", d) /\ HeldInv("trip", d)
    BY <1>2, <1>6 DEF TripInv, HeldInv
  <2>6. QED
    BY <1>2, <1>6, <2>3, <2>4, <2>5 DEF CallInv, StepsOf
<1>8. \A q \in Requests \ {r} : Apart(q, "trip", d)
  BY <1>2, <1>6, ReadsStayApart
<1>9. "trip" \in Steps
  BY DEF Steps
<1>10. QED
  BY <1>1, <1>6, <1>7, <1>8, <1>9, GoOnKeeps

(* The reads that check and keep the locals as they are.                   *)
LEMMA CheckKeeps ==
  ASSUME IInv, NEW r \in Requests, NEW ok, NEW step \in Steps,
         step \notin {"commit", "commitTrip", "cascade"},
         at[r] \in {"trip", "row", "place", "schedules", "checklists", "write"},
         GoOn(r, ok, step, call[r]), Stay,
         ok => CallInv(step, call[r])
  PROVE  IInv'
<1>1. call[r] \in Call /\ call[r].held = {}
  BY OwnCall
<1>2. \A q \in Requests \ {r} : Apart(q, step, call[r])
  BY <1>1, ReadsStayApart
<1>3. QED
  BY <1>1, <1>2, GoOnKeeps

LEMMA CheckChecklistOwnerKeeps ==
  ASSUME IInv, NEW r \in Requests, CheckChecklistOwner(r)
  PROVE  IInv'
<1> DEFINE c == call[r]
           ok == /\ Owned(c)
                 /\ "date" \in c.given
                      => ChecklistDate(c.new.date, trips[c.trip].span)
<1>1. /\ Reading(r, "trip", {"updateItem"}) /\ c.item \in Checklists
      /\ GoOn(r, ok, "write", c) /\ Stay
  BY DEF CheckChecklistOwner
<1>2. /\ c.op = "updateItem" /\ at[r] = "trip" /\ c.held = {}
      /\ WriterInv("trip", c) /\ ChangerInv("trip", c)
  BY <1>1, OwnCall DEF Reading
<1>3. ASSUME ok PROVE CallInv("write", c)
  <2>1. c.trip \in Trips
    BY <1>3 DEF Owned, LiveTrip
  <2>2. WriterInv("write", c)
    BY <1>1, <1>2, <2>1, ItemKinds DEF WriterInv, ChangerInv
  <2>3. ChangerInv("write", c) /\ TripInv("write", c) /\ HeldInv("write", c)
    BY <1>2 DEF ChangerInv, TripInv, HeldInv
  <2>4. QED
    BY <1>2, <2>2, <2>3 DEF CallInv, StepsOf
<1>4. "write" \in Steps
  BY DEF Steps
<1> HIDE DEF ok
<1>5. QED
  BY <1>1, <1>2, <1>3, <1>4, CheckKeeps

LEMMA CheckOwnerForDeleteKeeps ==
  ASSUME IInv, NEW r \in Requests, CheckOwnerForDelete(r)
  PROVE  IInv'
<1>1. /\ call[r].op \in {"deleteItem", "deleteTrip"} /\ at[r] = "trip"
      /\ GoOn(r, Owned(call[r]), "write", call[r]) /\ Stay
  BY DEF CheckOwnerForDelete, Reading
<1>2. call[r].held = {} /\ ChangerInv("trip", call[r])
  BY <1>1, OwnCall
<1>3. CallInv("write", call[r])
  BY <1>1, <1>2 DEF CallInv, WriterInv, ChangerInv, TripInv, HeldInv, StepsOf
<1>4. "write" \in Steps
  BY DEF Steps
<1>5. QED
  BY <1>1, <1>3, <1>4, CheckKeeps

LEMMA FindPlaceKeeps ==
  ASSUME IInv, NEW r \in Requests, FindPlace(r)
  PROVE  IInv'
<1> DEFINE c == call[r]
           ok == LiveItem(c.new.place) /\ rows[c.new.place].trip = c.trip
<1>1. /\ c.op \in {"createItem", "updateItem"} /\ at[r] = "place"
      /\ GoOn(r, ok, "write", c) /\ Stay
  BY DEF FindPlace, Reading
<1>2. c.held = {} /\ WriterInv("place", c) /\ ChangerInv("place", c)
  BY <1>1, OwnCall
<1>3. ASSUME ok PROVE CallInv("write", c)
  <2>1. WriterInv("write", c)
    BY <1>1, <1>2, <1>3 DEF WriterInv, StillIn, LiveItem
  <2>2. ChangerInv("write", c) /\ TripInv("write", c) /\ HeldInv("write", c)
    BY <1>1, <1>2 DEF ChangerInv, TripInv, HeldInv
  <2>3. QED
    BY <1>1, <2>1, <2>2 DEF CallInv, StepsOf
<1>4. "write" \in Steps
  BY DEF Steps
<1> HIDE DEF ok
<1>5. QED
  BY <1>1, <1>3, <1>4, CheckKeeps

LEMMA PatchTripKeeps ==
  ASSUME IInv, NEW r \in Requests, PatchTrip(r)
  PROVE  IInv'
<1> DEFINE c == call[r]
           span == PatchedSpan(trips[c.trip].span, c.span)
           d == [c EXCEPT !.span = span]
           ok == Owned(c) /\ DateRange(span)
<1>1. /\ c.op = "updateTrip" /\ at[r] = "trip"
      /\ GoOn(r, ok, "schedules", d) /\ Stay
  BY DEF PatchTrip, Reading
<1>2. c \in Call /\ c.held = {}
  BY <1>1, OwnCall
<1>3. ASSUME ok
      PROVE  /\ d \in Call /\ d.op = "updateTrip" /\ d.held = {}
             /\ d.trip = c.trip /\ d.span = span
  <2>1. trips[c.trip].span \in Span /\ c.span \in Span
    BY <1>2, <1>3, LiveFacts DEF Owned, IInv, Call
  <2>2. span \in Span
    BY <2>1, PatchedSpanType
  <2> HIDE DEF span
  <2>3. QED
    BY <1>1, <1>2, <2>2 DEF Call
<1> HIDE DEF d, span
<1>4. ASSUME ok PROVE CallInv("schedules", d)
  BY <1>3, <1>4 DEF CallInv, WriterInv, ChangerInv, TripInv, HeldInv, StepsOf
<1>5. ASSUME ok PROVE \A q \in Requests \ {r} : Apart(q, "schedules", d)
  BY <1>1, <1>3, <1>5, ReadsStayApart
<1>6. "schedules" \in Steps
  BY DEF Steps
<1> HIDE DEF ok
<1>7. QED
  BY <1>1, <1>3, <1>4, <1>5, <1>6, GoOnKeeps

LEMMA CheckDatesKeeps ==
  ASSUME IInv, NEW r \in Requests, CheckSchedules(r) \/ CheckChecklists(r)
  PROVE  IInv'
<1>1. ASSUME at[r] \in {"schedules", "checklists"}, call[r].op = "updateTrip",
             NEW step \in {"checklists", "write"}
      PROVE  CallInv(step, call[r])
  <2>1. call[r].held = {} /\ TripInv(at[r], call[r])
    BY <1>1, OwnCall
  <2>2. QED
    BY <1>1, <2>1 DEF CallInv, WriterInv, ChangerInv, TripInv, HeldInv, StepsOf
<1>2. "checklists" \in Steps /\ "write" \in Steps
  BY DEF Steps
<1>3. CASE CheckSchedules(r)
  BY <1>1, <1>2, <1>3, CheckKeeps DEF CheckSchedules, Reading
<1>4. CASE CheckChecklists(r)
  BY <1>1, <1>2, <1>4, CheckKeeps DEF CheckChecklists, Reading
<1>5. QED
  BY <1>3, <1>4

LEMMA ReadKeeps ==
  ASSUME IInv, NEW r \in Requests, Read(r)
  PROVE  IInv'
BY CheckNewItemKeeps, CheckOwnerKeeps, PatchRowKeeps, FindPlaceKeeps,
   ReadChecklistKeeps, CheckChecklistOwnerKeeps, CheckOwnerForDeleteKeeps,
   PatchTripKeeps, CheckDatesKeeps DEF Read

-------------------------------------------------------------------------------
(* What a statement waits for, and the locks it then takes.                *)

LEMMA Waits ==
  ASSUME NEW r
  PROVE  /\ at[r] = "write" /\ call[r].op \in {"updateItem", "deleteItem"}
              => WaitsFor(r) = ItemHolders(call[r].item)
         /\ at[r] = "write" /\ call[r].op = "createItem"
              => WaitsFor(r) = IF Guarded(call[r].item, call[r].new.date)
                               THEN TripHolders(call[r].trip)
                               ELSE KeyHolders(call[r].trip)
         /\ at[r] = "write" /\ call[r].op \in {"updateTrip", "deleteTrip"}
              => WaitsFor(r) = TripHolders(call[r].trip)
         /\ at[r] = "guard" => WaitsFor(r) = TripHolders(call[r].trip)
         /\ at[r] = "commit"
              => WaitsFor(r) = IF NewPlace(call[r])
                               THEN ItemHolders(call[r].new.place) ELSE {}
         /\ at[r] \in {"unlink", "cascade"}
              => WaitsFor(r) = UNION {ItemHolders(i) :
                                        i \in Children(call[r]) \ call[r].held}
         /\ at[r] \notin {"write", "guard", "commit", "unlink", "cascade"}
              => WaitsFor(r) = {}
         /\ at[r] = "write" /\ call[r].op \in {"none", "createTrip"}
              => WaitsFor(r) = {}
<1> DEFINE c == call[r]
<1>1. at[r] = "write" /\ c.op \in {"updateItem", "deleteItem"}
        => WaitsFor(r) = ItemHolders(c.item)
  BY DEF WaitsFor
<1>2. at[r] = "write" /\ c.op = "createItem"
        => WaitsFor(r) = IF Guarded(c.item, c.new.date) THEN TripHolders(c.trip)
                         ELSE KeyHolders(c.trip)
  BY DEF WaitsFor
<1>3. at[r] = "write" /\ c.op \in {"updateTrip", "deleteTrip"}
        => WaitsFor(r) = TripHolders(c.trip)
  BY DEF WaitsFor
<1>4. at[r] = "guard" => WaitsFor(r) = TripHolders(c.trip)
  BY DEF WaitsFor
<1>5. at[r] = "commit"
        => WaitsFor(r) = IF NewPlace(c) THEN ItemHolders(c.new.place) ELSE {}
  BY DEF WaitsFor
<1>6. at[r] \in {"unlink", "cascade"}
        => WaitsFor(r) = UNION {ItemHolders(i) : i \in Children(c) \ c.held}
  BY DEF WaitsFor
<1>7. at[r] \notin {"write", "guard", "commit", "unlink", "cascade"}
        => WaitsFor(r) = {}
  BY DEF WaitsFor
<1>8. at[r] = "write" /\ c.op \in {"none", "createTrip"} => WaitsFor(r) = {}
  BY DEF WaitsFor
<1>9. QED
  BY <1>1, <1>2, <1>3, <1>4, <1>5, <1>6, <1>7, <1>8

LEMMA ItemLockFree ==
  ASSUME NEW i, ItemHolders(i) = {}
  PROVE  \A q \in Requests : i \notin call[q].held
BY DEF ItemHolders

LEMMA TripLockFree ==
  ASSUME NEW t, TripHolders(t) = {}
  PROVE  \A q \in Requests : HoldsTrip(q) => call[q].trip # t
BY DEF TripHolders, HoldsTrip

LEMMA LockItemKeeps ==
  ASSUME IInv, NEW r \in Requests, LockItem(r)
  PROVE  IInv'
<1> DEFINE c == call[r]
           d == [c EXCEPT !.held = {c.item}]
<1>1. /\ at[r] = "write" /\ c.op = "updateItem" /\ WaitsFor(r) = {}
      /\ Guarded(c.item, c.new.date)
      /\ GoOn(r, Found(c), "guard", d) /\ Stay
  BY DEF LockItem, Statement, Reading
<1>2. /\ c \in Call /\ WriterInv("write", c) /\ ChangerInv("write", c)
  BY <1>1, OwnCall
<1>3. c.item \in Items
  BY <1>1, <1>2 DEF ChangerInv
<1>4. /\ d \in Call /\ d.op = "updateItem" /\ d.item = c.item
      /\ d.trip = c.trip /\ d.new = c.new /\ d.held = {c.item}
  BY <1>1, <1>2, <1>3 DEF Call
<1> HIDE DEF d
<1>5. ASSUME Found(c) PROVE CallInv("guard", d)
  <2>1. LiveItem(c.item) /\ rows[c.item].trip = c.trip
    BY <1>1, <1>2, <1>5 DEF Found, ChangerInv, StillIn
  <2>2. WriterInv("guard", d)
    BY <1>1, <1>2, <1>4 DEF WriterInv
  <2>3. ChangerInv("guard", d)
    BY <1>1, <1>2, <1>4, <2>1 DEF ChangerInv
  <2>4. TripInv("guard", d) /\ HeldInv("guard", d)
    BY <1>4, <2>1 DEF TripInv, HeldInv
  <2>5. QED
    BY <1>4, <2>2, <2>3, <2>4 DEF CallInv, StepsOf
<1>6. ItemHolders(c.item) = {}
  BY <1>1, Waits
<1>7. \A q \in Requests \ {r} : Apart(q, "guard", d)
  BY <1>4, <1>6, ItemLockFree DEF Apart
<1>8. "guard" \in Steps
  BY DEF Steps
<1>9. QED
  BY <1>1, <1>4, <1>5, <1>7, <1>8, GoOnKeeps

LEMMA GuardDateKeeps ==
  ASSUME IInv, NEW r \in Requests, GuardDate(r)
  PROVE  IInv'
<1> DEFINE c == call[r]
           ok == LiveTrip(c.trip) /\ Within(c.new.date, trips[c.trip].span)
<1>1. /\ \/ at[r] = "guard" /\ c.op = "updateItem"
         \/ /\ at[r] = "write" /\ c.op = "createItem"
            /\ Guarded(c.item, c.new.date)
      /\ WaitsFor(r) = {}
      /\ GoOn(r, ok, "commit", c) /\ Stay
  BY DEF GuardDate, Statement, Reading
<1>2. /\ c \in Call /\ WriterInv(at[r], c) /\ ChangerInv(at[r], c)
      /\ HeldInv(at[r], c)
  BY OwnCall
<1>3. ASSUME ok PROVE CallInv("commit", c)
  <2>1. WriterInv("commit", c)
    BY <1>1, <1>2, <1>3 DEF WriterInv
  <2>2. ChangerInv("commit", c) /\ TripInv("commit", c) /\ HeldInv("commit", c)
    BY <1>1, <1>2 DEF ChangerInv, TripInv, HeldInv
  <2>3. QED
    BY <1>1, <2>1, <2>2 DEF CallInv, StepsOf
<1>4. TripHolders(c.trip) = {}
  BY <1>1, Waits
<1>5. \A q \in Requests \ {r} : Apart(q, "commit", c)
  BY <1>1, <1>4, TripLockFree DEF Apart, IInv, PairInv
<1>6. "commit" \in Steps
  BY DEF Steps
<1> HIDE DEF ok
<1>7. QED
  BY <1>1, <1>2, <1>3, <1>5, <1>6, GoOnKeeps

LEMMA LockPlaceKeeps ==
  ASSUME IInv, NEW r \in Requests, LockPlace(r)
  PROVE  IInv'
<1> DEFINE c == call[r]
           d == [c EXCEPT !.held = {c.item}]
<1>1. /\ at[r] = "write" /\ c.op = "deleteItem" /\ WaitsFor(r) = {}
      /\ c.item \in Places
      /\ GoOn(r, Found(c), "unlink", d) /\ Stay
  BY DEF LockPlace, Statement, Reading
<1>2. c \in Call /\ ChangerInv("write", c)
  BY <1>1, OwnCall
<1>3. c.item \in Items
  BY <1>1, ItemKinds
<1>4. /\ d \in Call /\ d.op = "deleteItem" /\ d.item = c.item
      /\ d.trip = c.trip /\ d.held = {c.item}
  BY <1>1, <1>2, <1>3 DEF Call
<1> HIDE DEF d
<1>5. ASSUME Found(c) PROVE CallInv("unlink", d)
  <2>1. LiveItem(c.item)
    BY <1>5 DEF Found
  <2>2. ChangerInv("unlink", d)
    BY <1>1, <1>2, <1>4, <1>5, ItemKinds DEF ChangerInv, Found
  <2>3. WriterInv("unlink", d) /\ TripInv("unlink", d) /\ HeldInv("unlink", d)
    BY <1>1, <1>4, <2>1 DEF WriterInv, TripInv, HeldInv
  <2>4. QED
    BY <1>4, <2>2, <2>3 DEF CallInv, StepsOf
<1>6. ItemHolders(c.item) = {}
  BY <1>1, Waits
<1>7. \A q \in Requests \ {r} : Apart(q, "unlink", d)
  BY <1>4, <1>6, ItemLockFree DEF Apart
<1>8. "unlink" \in Steps
  BY DEF Steps
<1>9. QED
  BY <1>1, <1>4, <1>5, <1>7, <1>8, GoOnKeeps

LEMMA ChildrenLive ==
  ASSUME NEW c, NEW i \in Children(c)
  PROVE  LiveItem(i)
BY DEF Children, RowsOf, SchedulesAt

LEMMA LockChildKeeps ==
  ASSUME IInv, NEW r \in Requests, LockChild(r)
  PROVE  IInv'
<1> DEFINE c == call[r]
<1>1. PICK i \in Children(c) \ c.held :
        /\ ItemHolders(i) = {}
        /\ GoOn(r, TRUE, at[r], [c EXCEPT !.held = @ \cup {i}])
  BY DEF LockChild
<1> DEFINE d == [c EXCEPT !.held = c.held \cup {i}]
<1>2. /\ \/ at[r] = "unlink" /\ c.op = "deleteItem"
         \/ at[r] = "cascade" /\ c.op = "deleteTrip"
      /\ Stay
  BY DEF LockChild, Reading
<1>3. /\ c \in Call /\ ChangerInv(at[r], c) /\ TripInv(at[r], c)
      /\ HeldInv(at[r], c)
  BY OwnCall
<1>4. LiveItem(i) /\ i \in Items
  BY ChildrenLive DEF LiveItem
<1>5. GoOn(r, TRUE, at[r], d)
  BY <1>1
<1>6. /\ d \in Call /\ d.op = c.op /\ d.item = c.item /\ d.trip = c.trip
      /\ d.new = c.new /\ d.span = c.span /\ d.held = c.held \cup {i}
  BY <1>3, <1>4 DEF Call
<1> HIDE DEF d
<1>7. CallInv(at[r], d)
  <2>1. ChangerInv(at[r], d) /\ TripInv(at[r], d) /\ WriterInv(at[r], d)
    BY <1>2, <1>3, <1>6 DEF ChangerInv, TripInv, WriterInv
  <2>2. HeldInv(at[r], d)
    BY <1>2, <1>3, <1>4, <1>6 DEF HeldInv
  <2>3. QED
    BY <1>2, <1>6, <2>1, <2>2 DEF CallInv, StepsOf
<1>8. \A q \in Requests \ {r} : i \notin call[q].held
  BY <1>1, ItemLockFree
<1>9. \A q \in Requests \ {r} : Apart(q, at[r], d)
  BY <1>2, <1>6, <1>8 DEF Apart, IInv, PairInv, HoldsTrip
<1>10. at[r] \in Steps
  BY <1>2 DEF Steps
<1>11. QED
  BY <1>2, <1>5, <1>6, <1>7, <1>9, <1>10, GoOnKeeps

LEMMA LocksTripApart ==
  ASSUME IInv, NEW r \in Requests, call[r].op \in {"updateTrip", "deleteTrip"},
         TripHolders(call[r].trip) = {}, call[r].held = {}, NEW step
  PROVE  \A q \in Requests \ {r} : Apart(q, step, call[r])
BY TripLockFree DEF Apart

LEMMA AlterTripKeeps ==
  ASSUME IInv, NEW r \in Requests, AlterTrip(r)
  PROVE  IInv'
<1> DEFINE c == call[r]
           ok == /\ LiveTrip(c.trip)
                 /\ \/ c.span = trips[c.trip].span
                    \/ Contained(Items, c.trip, c.span)
<1>1. /\ at[r] = "write" /\ c.op = "updateTrip" /\ WaitsFor(r) = {}
      /\ GoOn(r, ok, "commitTrip", c) /\ Stay
  BY DEF AlterTrip, Statement, Reading
<1>2. c \in Call /\ c.held = {} /\ TripInv("write", c)
  BY <1>1, OwnCall
<1>3. ASSUME ok PROVE CallInv("commitTrip", c)
  <2>1. Contained(Items, c.trip, c.span)
    BY <1>3 DEF Contained, RowsOf, LiveItem, IInv, DatedItemsWithinTrip, DatesWithin
  <2>2. TripInv("commitTrip", c)
    BY <1>1, <1>2, <1>3, <2>1 DEF TripInv
  <2>3. WriterInv("commitTrip", c) /\ ChangerInv("commitTrip", c)
        /\ HeldInv("commitTrip", c)
    BY <1>1, <1>2 DEF WriterInv, ChangerInv, HeldInv
  <2>4. QED
    BY <1>1, <2>2, <2>3 DEF CallInv, StepsOf
<1>4. TripHolders(c.trip) = {}
  BY <1>1, Waits
<1>5. \A q \in Requests \ {r} : Apart(q, "commitTrip", c)
  BY <1>1, <1>2, <1>4, LocksTripApart
<1>6. "commitTrip" \in Steps
  BY DEF Steps
<1> HIDE DEF ok
<1>7. QED
  BY <1>1, <1>2, <1>3, <1>5, <1>6, GoOnKeeps

LEMMA LockTripKeeps ==
  ASSUME IInv, NEW r \in Requests, LockTrip(r)
  PROVE  IInv'
<1> DEFINE c == call[r]
<1>1. /\ at[r] = "write" /\ c.op = "deleteTrip" /\ WaitsFor(r) = {}
      /\ GoOn(r, LiveTrip(c.trip), "cascade", c) /\ Stay
  BY DEF LockTrip, Statement, Reading
<1>2. c \in Call /\ c.held = {}
  BY <1>1, OwnCall
<1>3. ASSUME LiveTrip(c.trip) PROVE CallInv("cascade", c)
  BY <1>1, <1>2, <1>3
     DEF CallInv, WriterInv, ChangerInv, TripInv, HeldInv, StepsOf
<1>4. TripHolders(c.trip) = {}
  BY <1>1, Waits
<1>5. \A q \in Requests \ {r} : Apart(q, "cascade", c)
  BY <1>1, <1>2, <1>4, LocksTripApart
<1>6. "cascade" \in Steps
  BY DEF Steps
<1>7. QED
  BY <1>1, <1>2, <1>3, <1>5, <1>6, GoOnKeeps

-------------------------------------------------------------------------------
(* The board's edits keep the tables legal.                                *)

TablesOK ==
  /\ trips \in [Trips -> TripRow]
  /\ rows \in [Items -> ItemRow]

Legal == DatedItemsWithinTrip /\ LinksResolve /\ RangesStayOrdered

(* A row's id is used once, and a row never changes trips.                 *)
OneWay ==
  \A i \in Items :
    rows[i].state # "unused" =>
      /\ rows'[i].state # "unused"
      /\ rows'[i].state = "live" =>
           rows[i].state = "live" /\ rows'[i].trip = rows[i].trip

LEMMA BoardDefs ==
  /\ \A t \in Trips : Board!LiveTrip(t) <=> trips[t].state = "live"
  /\ \A i : Board!LiveItem(i) <=> rows[i].state = "live"
  /\ \A i, d : Board!Guarded(i, d) <=> Guarded(i, d)
  /\ \A d, span : Board!Within(d, span) <=> Within(d, span)
  /\ \A d, e : Board!FlightDates(d, e) <=> FlightDates(d, e)
  /\ \A span : Board!DateRange(span) <=> DateRange(span)
  /\ \A t : Board!Preset(t) = Preset(t)
  /\ \A s : Board!NoItemRow(s) = NoItemRow(s) /\ Board!NoTripRow(s) = NoTripRow(s)
  /\ Board!Items = Items /\ Board!Span = Span /\ Board!ItemRow = ItemRow
BY DEF Board!LiveTrip, Board!LiveItem, Board!Guarded, Guarded, Board!Within,
       Within, Board!FlightDates, FlightDates, Board!DateRange, DateRange,
       Board!Preset, Preset, Board!NoItemRow, NoItemRow, Board!NoTripRow,
       NoTripRow, Board!Items, Items, Board!Span, Span, Board!ItemRow, ItemRow,
       Board!NoDate, NoDate, Board!NoSpan, NoSpan, Board!Dates, Dates,
       Board!Days, Days, Board!States, States

LEMMA PutItemLegal ==
  ASSUME TablesOK, Legal, NEW i \in Items, NEW row \in ItemRow,
         Board!PutItem(i, row)
  PROVE  TablesOK' /\ Legal' /\ OneWay
<1>1. /\ rows[i].state = "unused" \/ (rows[i].state = "live" /\ rows[i].trip = row.trip)
      /\ row.state = "live" /\ row.trip \in Trips
      /\ trips[row.trip].state = "live"
      /\ Guarded(i, row.date) => Within(row.date, trips[row.trip].span)
      /\ i \in Flights => FlightDates(row.date, row.back)
      /\ row.place # None =>
           /\ i \in Schedules
           /\ rows[row.place].state = "live"
           /\ rows[row.place].trip = row.trip
      /\ rows' = [rows EXCEPT ![i] = row]
      /\ trips' = trips
  BY BoardDefs DEF Board!PutItem, Board!LiveItem, Board!LiveTrip
<1>2. TablesOK'
  BY <1>1 DEF TablesOK
<1>3. rows'[i] = row /\ \A j \in Items : j # i => rows'[j] = rows[j]
  BY <1>1 DEF TablesOK
<1>4. DatedItemsWithinTrip'
  BY <1>1, <1>3 DEF Legal, DatedItemsWithinTrip, DatesWithin
<1>5. LinksResolve'
  <2>1. ASSUME NEW p \in Places, rows[p].state = "live"
        PROVE  rows'[p].state = "live" /\ rows'[p].trip = rows[p].trip
    BY <1>1, <1>3, <2>1, ItemKinds
  <2>2. ASSUME NEW j \in Items PROVE rows[j].place \in Places \cup {None}
    BY <2>2 DEF TablesOK, ItemRow
  <2>3. row.place \in Places \cup {None}
    BY DEF ItemRow
  <2>4. ASSUME NEW j \in Items, rows'[j].state = "live"
        PROVE  /\ rows'[j].trip \in Trips
               /\ trips'[rows'[j].trip].state = "live"
               /\ rows'[j].place # None =>
                    /\ j \in Schedules
                    /\ rows'[rows'[j].place].state = "live"
                    /\ rows'[rows'[j].place].trip = rows'[j].trip
    <3>1. CASE j = i
      BY <1>1, <1>3, <2>1, <2>3, <3>1
    <3>2. CASE j # i
      BY <1>1, <1>3, <2>1, <2>2, <2>4, <3>2 DEF Legal, LinksResolve, LinksLive
    <3>3. QED
      BY <3>1, <3>2
  <2>5. QED
    BY <2>4 DEF LinksResolve, LinksLive
<1>6. RangesStayOrdered'
  BY <1>1, <1>3, ItemKinds DEF Legal, RangesStayOrdered, RangesOrdered
<1>7. OneWay
  BY <1>1, <1>3 DEF OneWay
<1>8. QED
  BY <1>2, <1>4, <1>5, <1>6, <1>7 DEF Legal

LEMMA RemoveItemLegal ==
  ASSUME TablesOK, Legal, NEW i \in Items, Board!RemoveItem(i)
  PROVE  TablesOK' /\ Legal' /\ OneWay
<1>1. /\ rows[i].state = "live"
      /\ trips' = trips
      /\ rows' = [j \in Items |->
                    IF j = i THEN NoItemRow("deleted")
                    ELSE IF j \in Schedules /\ rows[j].state = "live" /\ rows[j].place = i
                         THEN [rows[j] EXCEPT !.place = None]
                         ELSE rows[j]]
  BY BoardDefs DEF Board!RemoveItem
<1>2. "deleted" \in States
  BY DEF States
<1>3. NoItemRow("deleted") \in ItemRow /\ NoItemRow("deleted").state = "deleted"
  BY <1>2, EmptyRowTypes DEF NoItemRow
<1>4. \A j \in Items : rows[j] \in ItemRow
  BY DEF TablesOK
<1>5. \A j \in Items : [rows[j] EXCEPT !.place = None] \in ItemRow
  BY <1>4 DEF ItemRow
<1>6. TablesOK'
  BY <1>1, <1>3, <1>4, <1>5 DEF TablesOK
<1>7. /\ rows'[i].state = "deleted"
      /\ \A j \in Items : j # i =>
           /\ rows'[j].state = rows[j].state /\ rows'[j].trip = rows[j].trip
           /\ rows'[j].date = rows[j].date /\ rows'[j].back = rows[j].back
           /\ \/ rows'[j].place = None
              \/ /\ rows'[j].place = rows[j].place
                 /\ rows[j].state = "live" /\ j \in Schedules => rows[j].place # i
  BY <1>1, <1>3, <1>4 DEF ItemRow
<1>8. DatedItemsWithinTrip'
  BY <1>1, <1>7 DEF Legal, DatedItemsWithinTrip, DatesWithin
<1>9. LinksResolve'
  <2>1. ASSUME NEW j \in Items PROVE rows[j].place \in Places \cup {None}
    BY <1>4, <2>1 DEF ItemRow
  <2>2. ASSUME NEW j \in Items, rows'[j].state = "live"
        PROVE  /\ rows'[j].trip \in Trips
               /\ trips'[rows'[j].trip].state = "live"
               /\ rows'[j].place # None =>
                    /\ j \in Schedules
                    /\ rows'[rows'[j].place].state = "live"
                    /\ rows'[rows'[j].place].trip = rows'[j].trip
    BY <1>1, <1>7, <2>1, <2>2, ItemKinds DEF Legal, LinksResolve, LinksLive
  <2>3. QED
    BY <2>2 DEF LinksResolve, LinksLive
<1>10. RangesStayOrdered'
  BY <1>1, <1>7, ItemKinds DEF Legal, RangesStayOrdered, RangesOrdered
<1>11. OneWay
  BY <1>1, <1>7 DEF OneWay
<1>12. QED
  BY <1>6, <1>8, <1>9, <1>10, <1>11 DEF Legal

LEMMA RemoveTripLegal ==
  ASSUME TablesOK, Legal, NEW t \in Trips, Board!RemoveTrip(t)
  PROVE  TablesOK' /\ Legal' /\ OneWay
<1>1. /\ trips[t].state = "live"
      /\ trips' = [trips EXCEPT ![t] = NoTripRow("deleted")]
      /\ rows' = [i \in Items |->
                    IF rows[i].state = "live" /\ rows[i].trip = t
                    THEN NoItemRow("deleted") ELSE rows[i]]
  BY BoardDefs DEF Board!RemoveTrip
<1>2. "deleted" \in States
  BY DEF States
<1>3. /\ NoItemRow("deleted") \in ItemRow /\ NoItemRow("deleted").state = "deleted"
      /\ NoTripRow("deleted") \in TripRow /\ NoTripRow("deleted").state = "deleted"
  BY <1>2, EmptyRowTypes DEF NoItemRow, NoTripRow
<1>4. TablesOK'
  BY <1>1, <1>3 DEF TablesOK
<1>5. /\ \A i \in Items :
           \/ rows'[i].state = "deleted"
           \/ rows'[i] = rows[i] /\ ~(rows[i].state = "live" /\ rows[i].trip = t)
      /\ \A u \in Trips : u # t => trips'[u] = trips[u]
      /\ trips'[t].state = "deleted"
  BY <1>1, <1>3 DEF TablesOK
<1>6. \A i \in Items : rows[i].place \in Places \cup {None}
  BY DEF TablesOK, ItemRow
<1>7. DatedItemsWithinTrip'
  BY <1>5 DEF Legal, DatedItemsWithinTrip, DatesWithin, LinksResolve, LinksLive
<1>8. LinksResolve'
  <2>1. ASSUME NEW j \in Items, rows'[j].state = "live"
        PROVE  /\ rows'[j].trip \in Trips
               /\ trips'[rows'[j].trip].state = "live"
               /\ rows'[j].place # None =>
                    /\ j \in Schedules
                    /\ rows'[rows'[j].place].state = "live"
                    /\ rows'[rows'[j].place].trip = rows'[j].trip
    <3>1. rows'[j] = rows[j] /\ rows[j].state = "live" /\ rows[j].trip # t
      BY <1>5, <2>1
    <3>2. /\ rows[j].trip \in Trips /\ trips'[rows[j].trip].state = "live"
      BY <1>5, <3>1 DEF Legal, LinksResolve, LinksLive
    <3>3. ASSUME rows[j].place # None
          PROVE  /\ j \in Schedules /\ rows[j].place \in Items
                 /\ rows[rows[j].place].state = "live"
                 /\ rows[rows[j].place].trip = rows[j].trip
      BY <1>6, <3>1, <3>3, ItemKinds DEF Legal, LinksResolve, LinksLive
    <3>4. ASSUME rows[j].place # None
          PROVE  rows'[rows[j].place] = rows[rows[j].place]
      BY <1>1, <3>1, <3>3, <3>4
    <3>5. QED
      BY <3>1, <3>2, <3>3, <3>4
  <2>2. QED
    BY <2>1 DEF LinksResolve, LinksLive
<1>9. RangesStayOrdered'
  BY <1>5, ItemKinds DEF Legal, RangesStayOrdered, RangesOrdered
<1>10. OneWay
  BY <1>1, <1>3 DEF OneWay
<1>11. QED
  BY <1>4, <1>7, <1>8, <1>9, <1>10 DEF Legal

LEMMA MoveTripLegal ==
  ASSUME TablesOK, Legal, NEW t \in Trips, NEW span \in Span,
         Board!MoveTrip(t, span)
  PROVE  TablesOK' /\ Legal' /\ OneWay
<1>1. /\ trips[t].state = "live"
      /\ DateRange(span)
      /\ \A i \in Items :
           rows[i].state = "live" /\ rows[i].trip = t /\ Guarded(i, rows[i].date)
             => Within(rows[i].date, span)
      /\ trips' = [trips EXCEPT ![t].span = span]
      /\ rows' = rows
  <2>1. /\ trips[t].state = "live" /\ DateRange(span)
        /\ trips' = [trips EXCEPT ![t].span = span] /\ rows' = rows
    BY BoardDefs DEF Board!MoveTrip
  <2>2. ASSUME NEW i \in Items, rows[i].state = "live", rows[i].trip = t,
               Guarded(i, rows[i].date)
        PROVE  Within(rows[i].date, span)
    <3>1. Board!LiveItem(i) /\ Board!Guarded(i, rows[i].date) /\ i \in Board!Items
      BY <2>2, BoardDefs
    <3>2. Board!Within(rows[i].date, span)
      BY <2>2, <3>1 DEF Board!MoveTrip
    <3>3. QED
      BY <3>2, BoardDefs
  <2>3. QED
    BY <2>1, <2>2
<1>2. trips[t] \in TripRow
  BY DEF TablesOK
<1>3. [trips[t] EXCEPT !.span = span] \in TripRow
  BY <1>2 DEF TripRow
<1>4. TablesOK'
  BY <1>1, <1>3 DEF TablesOK
<1>5. /\ trips'[t].span = span /\ trips'[t].state = "live"
      /\ \A u \in Trips : u # t => trips'[u] = trips[u]
  BY <1>1, <1>2 DEF TablesOK, TripRow
<1>6. DatedItemsWithinTrip'
  BY <1>1, <1>5 DEF Legal, DatedItemsWithinTrip, DatesWithin, LinksResolve, LinksLive
<1>7. LinksResolve'
  BY <1>1, <1>5 DEF Legal, LinksResolve, LinksLive
<1>8. RangesStayOrdered'
  BY <1>1, <1>5 DEF Legal, RangesStayOrdered, RangesOrdered
<1>9. OneWay
  BY <1>1 DEF OneWay
<1>10. QED
  BY <1>4, <1>6, <1>7, <1>8, <1>9 DEF Legal

LEMMA AddTripLegal ==
  ASSUME TablesOK, Legal, NEW t \in Trips, NEW owner \in Users, NEW span \in Span,
         NEW presets \in SUBSET Checklists, Board!AddTrip(t, owner, span, presets)
  PROVE  TablesOK' /\ Legal' /\ OneWay
<1> DEFINE row == [state |-> "live", owner |-> owner, span |-> span]
<1>1. /\ trips[t].state = "unused"
      /\ DateRange(span)
      /\ \A i \in presets : rows[i].state = "unused"
      /\ trips' = [trips EXCEPT ![t] = row]
      /\ rows' = [i \in Items |-> IF i \in presets THEN Preset(t) ELSE rows[i]]
  BY BoardDefs DEF Board!AddTrip
<1>2. row \in TripRow /\ row.state = "live" /\ row.span = span
  BY DEF TripRow, States
<1> HIDE DEF row
<1>3. /\ Preset(t) \in ItemRow /\ Preset(t).state = "live" /\ Preset(t).trip = t
      /\ Preset(t).date = NoDate /\ Preset(t).place = None
  BY PresetType DEF Preset, NoItemRow
<1>4. TablesOK'
  BY <1>1, <1>2, <1>3 DEF TablesOK
<1>5. /\ trips'[t] = row
      /\ \A u \in Trips : u # t => trips'[u] = trips[u]
      /\ \A i \in presets : rows'[i] = Preset(t) /\ rows[i].state = "unused"
      /\ \A i \in Items \ presets : rows'[i] = rows[i]
  BY <1>1, ItemKinds DEF TablesOK
<1>6. \A i \in presets : ~Guarded(i, NoDate) /\ i \notin Flights
  BY ItemKinds DEF Guarded
<1>7. DatedItemsWithinTrip'
  <2>1. ASSUME NEW i \in Items, rows'[i].state = "live", Guarded(i, rows'[i].date)
        PROVE  Within(rows'[i].date, trips'[rows'[i].trip].span)
    <3>1. rows'[i] = rows[i] /\ rows[i].state = "live"
      BY <1>3, <1>5, <1>6, <2>1
    <3>2. rows[i].trip \in Trips /\ rows[i].trip # t
      BY <1>1, <3>1 DEF Legal, LinksResolve, LinksLive
    <3>3. QED
      BY <1>5, <2>1, <3>1, <3>2 DEF Legal, DatedItemsWithinTrip, DatesWithin
  <2>2. QED
    BY <2>1 DEF DatedItemsWithinTrip, DatesWithin
<1>8. LinksResolve'
  <2>1. \A i \in Items : rows[i].place \in Places \cup {None}
    BY DEF TablesOK, ItemRow
  <2>2. ASSUME NEW j \in Items, rows'[j].state = "live"
        PROVE  /\ rows'[j].trip \in Trips
               /\ trips'[rows'[j].trip].state = "live"
               /\ rows'[j].place # None =>
                    /\ j \in Schedules
                    /\ rows'[rows'[j].place].state = "live"
                    /\ rows'[rows'[j].place].trip = rows'[j].trip
    <3>1. CASE j \in presets
      BY <1>2, <1>3, <1>5, <3>1
    <3>2. CASE j \notin presets
      <4>1. rows'[j] = rows[j] /\ rows[j].trip \in Trips
            /\ trips[rows[j].trip].state = "live"
        BY <1>5, <2>2, <3>2 DEF Legal, LinksResolve, LinksLive
      <4>2. trips'[rows[j].trip].state = "live"
        BY <1>1, <1>5, <4>1
      <4>3. ASSUME rows[j].place # None
            PROVE  /\ j \in Schedules
                   /\ rows'[rows[j].place] = rows[rows[j].place]
                   /\ rows[rows[j].place].state = "live"
                   /\ rows[rows[j].place].trip = rows[j].trip
        BY <1>5, <2>1, <2>2, <4>1, <4>3, ItemKinds DEF Legal, LinksResolve, LinksLive
      <4>4. QED
        BY <4>1, <4>2, <4>3
    <3>3. QED
      BY <3>1, <3>2
  <2>3. QED
    BY <2>2 DEF LinksResolve, LinksLive
<1>9. RangesStayOrdered'
  <2>1. \A u \in Trips : trips'[u].state = "live" => DateRange(trips'[u].span)
    BY <1>1, <1>2, <1>5 DEF Legal, RangesStayOrdered, RangesOrdered
  <2>2. \A i \in Flights : rows'[i] = rows[i]
    BY <1>5, ItemKinds
  <2>3. QED
    BY <2>1, <2>2 DEF Legal, RangesStayOrdered, RangesOrdered
<1>10. OneWay
  BY <1>5 DEF OneWay
<1>11. QED
  BY <1>4, <1>7, <1>8, <1>9, <1>10 DEF Legal

LEMMA BoardLegal ==
  ASSUME TablesOK, Legal, Board!Next
  PROVE  TablesOK' /\ Legal' /\ OneWay
<1>1. CASE \E t \in Trips, owner \in Users, span \in Span :
             \E presets \in SUBSET Checklists : Board!AddTrip(t, owner, span, presets)
  BY <1>1, AddTripLegal
<1>2. CASE \E t \in Trips, span \in Span : Board!MoveTrip(t, span)
  BY <1>2, MoveTripLegal
<1>3. CASE \E t \in Trips : Board!RemoveTrip(t)
  BY <1>3, RemoveTripLegal
<1>4. CASE \E i \in Items, row \in ItemRow : Board!PutItem(i, row)
  BY <1>4, PutItemLegal
<1>5. CASE \E i \in Items : Board!RemoveItem(i)
  BY <1>5, RemoveItemLegal
<1>6. QED
  BY <1>1, <1>2, <1>3, <1>4, <1>5, BoardDefs DEF Board!Next

-------------------------------------------------------------------------------
(* A writing statement commits: the other requests know what they knew.    *)

Untouched(q) ==
  LET c == call[q] IN
  /\ \A i \in c.held : rows'[i].state = "live"
  /\ c.op = "createItem" => rows'[c.item].state = "unused"
  /\ c.op = "createTrip" => trips'[c.trip].state = "unused"
  /\ HoldsTrip(q) => trips'[c.trip] = trips[c.trip]
  /\ at[q] = "commitTrip" =>
       \A i \in Items :
         rows'[i].state = "live" /\ rows'[i].trip = c.trip /\ Guarded(i, rows'[i].date)
           => /\ rows[i].state = "live" /\ rows[i].trip = c.trip
              /\ rows'[i].date = rows[i].date

LEMMA OtherKept ==
  ASSUME IInv, NEW q \in Requests, at'[q] = at[q], call'[q] = call[q],
         Untouched(q), OneWay
  PROVE  CallInv(at[q], call[q])'
<1> DEFINE c == call[q]
<1>1. /\ c \in Call /\ at[q] \in StepsOf[c.op]
      /\ at[q] = "idle" => c = NoCall
      /\ WriterInv(at[q], c) /\ ChangerInv(at[q], c)
      /\ TripInv(at[q], c) /\ HeldInv(at[q], c)
  BY DEF IInv, CallInv, TypeOK
<1>2. /\ c.new.place \in Places \cup {None} /\ c.held \subseteq Items
      /\ c.item \in Items \cup {None} /\ c.trip \in Trips \cup {None}
  BY <1>1 DEF Call, ItemRow
<1>3. WriterInv(at[q], call[q])'
  <2>1. ASSUME NEW t, NEW p \in Places, StillIn(p, t)
        PROVE  StillIn(p, t)'
    BY <2>1, ItemKinds DEF OneWay, StillIn, LiveItem
  <2>2. at[q] = "commit" /\ LiveTrip(c.trip)
          => LiveTrip(c.trip)' /\ trips'[c.trip] = trips[c.trip]
    BY DEF Untouched, HoldsTrip, LiveTrip
  <2>3. QED
    BY <1>1, <1>2, <2>1, <2>2 DEF WriterInv, Untouched, StillIn, LiveTrip, LiveItem
<1>4. ChangerInv(at[q], call[q])'
  <2> SUFFICES ASSUME c.op \in {"updateItem", "deleteItem"}
               PROVE  ChangerInv(at[q], call[q])'
    BY DEF ChangerInv
  <2>1. /\ c.item \in Items /\ rows[c.item].state # "unused"
        /\ c.item \in Checklists /\ at[q] # "row" =>
             /\ StillIn(c.item, c.trip)
             /\ c.op = "updateItem" => c.new.trip = c.trip
        /\ at[q] \in {"guard", "commit", "unlink"} => rows[c.item].trip = c.trip
    BY <1>1 DEF ChangerInv
  <2>2. /\ rows'[c.item].state # "unused"
        /\ rows'[c.item].state = "live" =>
             rows[c.item].state = "live" /\ rows'[c.item].trip = rows[c.item].trip
    BY <2>1 DEF OneWay
  <2>3. at[q] \in {"guard", "commit", "unlink"} => rows'[c.item].trip = c.trip
    <3>1. at[q] \in {"guard", "commit"} => c.op = "updateItem"
      BY <1>1 DEF StepsOf
    <3>2. at[q] \in {"guard", "commit", "unlink"} => c.item \in c.held
      BY <1>1, <3>1 DEF HeldInv
    <3>3. QED
      BY <2>1, <2>2, <3>2 DEF Untouched
  <2>4. StillIn(c.item, c.trip) => StillIn(c.item, c.trip)'
    BY <2>1, <2>2 DEF StillIn, LiveItem
  <2>5. QED
    BY <2>1, <2>2, <2>3, <2>4 DEF ChangerInv
<1>5. TripInv(at[q], call[q])'
  BY <1>1, <1>2
     DEF TripInv, Untouched, HoldsTrip, LiveTrip, Contained, RowsOf, LiveItem
<1>6. HeldInv(at[q], call[q])'
  BY <1>1, <1>2 DEF HeldInv, Untouched, LiveItem
<1>7. QED
  BY <1>1, <1>3, <1>4, <1>5, <1>6 DEF CallInv

BoardStep == Board!Next \/ Stay

LEMMA WriteKeeps ==
  ASSUME IInv, NEW r \in Requests, Finish(r), Board!Next,
         \A q \in Requests \ {r} : Untouched(q)
  PROVE  IInv' /\ BoardStep
<1>1. TablesOK /\ Legal
  BY DEF IInv, TypeOK, TablesOK, Legal
<1>2. TablesOK' /\ Legal' /\ OneWay
  BY <1>1, BoardLegal
<1>3. TypeOK'
  BY <1>2, FinishType DEF IInv, TablesOK, TypeOK
<1>4. /\ at'[r] = "idle" /\ call'[r] = NoCall
      /\ \A q \in Requests \ {r} : at'[q] = at[q] /\ call'[q] = call[q]
  BY DEF Finish, IInv, TypeOK
<1>5. NoCall.op = "none" /\ NoCall.held = {}
  BY DEF NoCall
<1>6. ASSUME NEW q \in Requests PROVE CallInv(at[q], call[q])'
  <2>1. CASE q = r
    BY <1>4, <1>5, <2>1 DEF CallInv, WriterInv, ChangerInv, TripInv, HeldInv, StepsOf
  <2>2. CASE q # r
    BY <1>2, <1>4, <2>2, OtherKept
  <2>3. QED
    BY <2>1, <2>2
<1>7. ASSUME NEW p \in Requests, NEW q \in Requests, p # q
      PROVE  PairInv(p, q)'
  BY <1>4, <1>5, <1>7 DEF IInv, PairInv, HoldsTrip
<1>8. IInv'
  BY <1>2, <1>3, <1>6, <1>7 DEF IInv, Legal
<1>9. QED
  BY <1>8 DEF BoardStep

LEMMA RefusedKeeps ==
  ASSUME IInv, NEW r \in Requests, Finish(r), UNCHANGED trips, UNCHANGED rows
  PROVE  IInv' /\ BoardStep
<1>1. Stay
  BY DEF Stay
<1>2. QED
  BY <1>1, EndKeeps DEF BoardStep

(* What another request in flight knows and holds.                         *)
LEMMA OtherFacts ==
  ASSUME IInv, NEW r \in Requests, NEW q \in Requests \ {r}
  PROVE  /\ \A i \in call[q].held : i \in Items /\ rows[i].state = "live"
         /\ call[q].op = "createItem" =>
              /\ call[q].item \in Items /\ rows[call[q].item].state = "unused"
              /\ call[r].op = "createItem" => call[q].item # call[r].item
         /\ call[q].op = "createTrip" =>
              /\ call[q].trip \in Trips /\ trips[call[q].trip].state = "unused"
              /\ call[r].op = "createTrip" => call[q].trip # call[r].trip
         /\ HoldsTrip(q) =>
              /\ call[q].trip \in Trips /\ trips[call[q].trip].state = "live"
              /\ HoldsTrip(r) => call[q].trip # call[r].trip
         /\ call[q].held \cap call[r].held = {}
<1> DEFINE c == call[q]
<1>1. /\ at[q] \in StepsOf[c.op] /\ WriterInv(at[q], c) /\ TripInv(at[q], c)
      /\ HeldInv(at[q], c) /\ PairInv(q, r)
  BY OwnCall DEF IInv
<1>2. /\ \A i \in c.held : i \in Items /\ rows[i].state = "live"
      /\ c.op = "createItem" => c.item \in Items /\ rows[c.item].state = "unused"
      /\ c.op = "createTrip" => c.trip \in Trips /\ trips[c.trip].state = "unused"
  BY <1>1 DEF HeldInv, LiveItem, WriterInv, TripInv
<1>3. HoldsTrip(q) => LiveTrip(c.trip)
  <2>1. at[q] = "commit" => c.op \in {"createItem", "updateItem"}
    <3>1. c.op \in Ops
      BY OwnCall DEF Call
    <3>2. QED
      BY <1>1, <3>1 DEF StepsOf, Ops
  <2>2. QED
    BY <1>1, <2>1 DEF HoldsTrip, WriterInv, TripInv
<1>4. QED
  BY <1>1, <1>2, <1>3 DEF PairInv, LiveTrip

LEMMA InsertItemKeeps ==
  ASSUME IInv, NEW r \in Requests, InsertItem(r)
  PROVE  IInv' /\ BoardStep
<1> DEFINE c == call[r]
<1>1. /\ at[r] = "write" /\ c.op = "createItem"
      /\ ~Guarded(c.item, c.new.date)
      /\ Finish(r) /\ UNCHANGED trips
  BY DEF InsertItem, Statement, Reading
<1>2. CASE LiveTrip(c.trip)
  <2>1. rows' = [rows EXCEPT ![c.item] = c.new]
    BY <1>2 DEF InsertItem
  <2>2. /\ c \in Call /\ WriterInv("write", c)
    BY <1>1, OwnCall
  <2>3. /\ c.item \in Items /\ rows[c.item].state = "unused" /\ c.new \in ItemRow
        /\ c.new.state = "live" /\ c.new.trip = c.trip /\ c.trip \in Trips
        /\ c.new.place = None
        /\ c.item \in Flights => FlightDates(c.new.date, c.new.back)
    BY <1>1, <2>2 DEF WriterInv, Call, Guarded
  <2>4. Board!PutItem(c.item, c.new)
    BY <1>1, <1>2, <2>1, <2>3, BoardDefs DEF Board!PutItem, LiveTrip
  <2>5. Board!Next
    BY <2>3, <2>4, BoardDefs DEF Board!Next
  <2>6. /\ rows'[c.item] = c.new
        /\ \A i \in Items : i # c.item => rows'[i] = rows[i]
    BY <2>1, <2>3 DEF IInv, TypeOK
  <2>7. ASSUME NEW q \in Requests \ {r} PROVE Untouched(q)
    BY <1>1, <2>3, <2>6, OtherFacts DEF Untouched
  <2>8. QED
    BY <1>1, <2>5, <2>7, WriteKeeps
<1>3. CASE ~LiveTrip(c.trip)
  BY <1>1, <1>3, RefusedKeeps DEF InsertItem
<1>4. QED
  BY <1>2, <1>3

LEMMA UpdateItemKeeps ==
  ASSUME IInv, NEW r \in Requests, UpdateItem(r)
  PROVE  IInv' /\ BoardStep
<1> DEFINE c == call[r]
<1>1. /\ at[r] = "write" /\ c.op = "updateItem"
      /\ ~Guarded(c.item, c.new.date)
      /\ Finish(r) /\ UNCHANGED trips
  BY DEF UpdateItem, Statement, Reading
<1>2. CASE Found(c)
  <2> DEFINE row == Rewritten(rows[c.item], c.new)
  <2>1. rows' = [rows EXCEPT ![c.item] = row]
    BY <1>2 DEF UpdateItem
  <2>2. /\ c \in Call /\ WriterInv("write", c) /\ ChangerInv("write", c)
    BY <1>1, OwnCall
  <2>3. /\ c.item \in Items /\ c.new \in ItemRow /\ c.new.place = None
        /\ c.item \in Flights => FlightDates(c.new.date, c.new.back)
        /\ rows[c.item] \in ItemRow
    BY <1>1, <2>2 DEF WriterInv, Call, Guarded, IInv, TypeOK
  <2>4. /\ rows[c.item].state = "live"
        /\ rows[c.item].trip \in Trips /\ trips[rows[c.item].trip].state = "live"
    BY <1>2, <2>3 DEF Found, LiveItem, IInv, LinksResolve, LinksLive
  <2>5. /\ row \in ItemRow /\ row.state = "live" /\ row.trip = rows[c.item].trip
        /\ row.date = c.new.date /\ row.back = c.new.back /\ row.place = None
    BY <2>3, <2>4, RewrittenType
  <2> HIDE DEF row
  <2>6. Board!PutItem(c.item, row)
    BY <1>1, <2>1, <2>3, <2>4, <2>5, BoardDefs DEF Board!PutItem
  <2>7. Board!Next
    BY <2>3, <2>5, <2>6, BoardDefs DEF Board!Next
  <2>8. /\ rows'[c.item] = row
        /\ \A i \in Items : i # c.item => rows'[i] = rows[i]
    BY <2>1, <2>3 DEF IInv, TypeOK
  <2>9. ASSUME NEW q \in Requests \ {r} PROVE Untouched(q)
    BY <1>1, <2>3, <2>4, <2>5, <2>8, OtherFacts DEF Untouched
  <2>10. QED
    BY <1>1, <2>7, <2>9, WriteKeeps
<1>3. CASE ~Found(c)
  BY <1>1, <1>3, RefusedKeeps DEF UpdateItem
<1>4. QED
  BY <1>2, <1>3

LEMMA CommitItemKeeps ==
  ASSUME IInv, NEW r \in Requests, CommitItem(r)
  PROVE  IInv' /\ BoardStep
<1> DEFINE c == call[r]
           row == IF c.op = "createItem" THEN c.new
                  ELSE Rewritten(rows[c.item], c.new)
           lost == NewPlace(c) /\ ~LiveItem(c.new.place)
<1>1. /\ at[r] = "commit" /\ c.op \in {"createItem", "updateItem"}
      /\ Finish(r) /\ UNCHANGED trips
      /\ IF lost THEN UNCHANGED rows ELSE rows' = [rows EXCEPT ![c.item] = row]
  BY DEF CommitItem, Statement, Reading
<1>2. CASE ~lost
  <2>1. /\ c \in Call /\ WriterInv("commit", c) /\ ChangerInv("commit", c)
        /\ HeldInv("commit", c)
    BY <1>1, OwnCall
  <2>2. /\ c.item \in Items /\ c.new \in ItemRow /\ rows[c.item] \in ItemRow
        /\ c.new.state = "live" /\ c.new.trip = c.trip /\ c.trip \in Trips
        /\ trips[c.trip].state = "live"
        /\ Within(c.new.date, trips[c.trip].span)
        /\ c.item \notin Schedules => c.new.place = None
        /\ c.new.place # None => StillIn(c.new.place, c.trip)
        /\ c.item \in Flights => FlightDates(c.new.date, c.new.back)
        /\ c.new.place \in Places \cup {None}
    BY <1>1, <2>1 DEF WriterInv, Call, LiveTrip, IInv, TypeOK, ItemRow
  <2>3. /\ c.op = "createItem" => rows[c.item].state = "unused"
        /\ c.op = "updateItem" =>
             /\ rows[c.item].state = "live" /\ rows[c.item].trip = c.trip
    BY <2>1 DEF WriterInv, ChangerInv, HeldInv, LiveItem
  <2>4. /\ row \in ItemRow /\ row.state = "live" /\ row.trip = c.trip
        /\ row.date = c.new.date /\ row.back = c.new.back
        /\ row.place = c.new.place
    BY <1>1, <2>2, <2>3, RewrittenType
  <2> HIDE DEF row
  <2>5. ASSUME c.new.place # None
        PROVE  rows[c.new.place].state = "live" /\ rows[c.new.place].trip = c.trip
    <3>1. CASE NewPlace(c)
      BY <1>2, <2>2, <2>5, <3>1 DEF StillIn, LiveItem
    <3>2. CASE ~NewPlace(c)
      <4>1. c.op = "updateItem" /\ rows[c.item].place = c.new.place
        BY <1>1, <2>5, <3>2 DEF NewPlace
      <4>2. QED
        BY <2>2, <2>3, <2>5, <4>1 DEF IInv, LinksResolve, LinksLive
    <3>3. QED
      BY <3>1, <3>2
  <2>6. rows' = [rows EXCEPT ![c.item] = row]
    BY <1>1, <1>2
  <2>7. Board!PutItem(c.item, row)
    BY <1>1, <2>2, <2>3, <2>4, <2>5, <2>6, BoardDefs DEF Board!PutItem
  <2>8. Board!Next
    BY <2>2, <2>4, <2>7, BoardDefs DEF Board!Next
  <2>9. /\ rows'[c.item] = row
        /\ \A i \in Items : i # c.item => rows'[i] = rows[i]
    BY <2>2, <2>6 DEF IInv, TypeOK
  <2>10. ASSUME NEW q \in Requests \ {r} PROVE Untouched(q)
    <3>1. HoldsTrip(r) /\ (at[q] = "commitTrip" => HoldsTrip(q))
      BY <1>1 DEF HoldsTrip
    <3>2. QED
      BY <1>1, <2>2, <2>3, <2>4, <2>9, <3>1, OtherFacts DEF Untouched
  <2>11. QED
    BY <1>1, <2>8, <2>10, WriteKeeps
<1>3. CASE lost
  BY <1>1, <1>3, RefusedKeeps
<1>4. QED
  BY <1>2, <1>3

LEMMA DeleteItemKeeps ==
  ASSUME IInv, NEW r \in Requests, DeleteItem(r)
  PROVE  IInv' /\ BoardStep
<1> DEFINE c == call[r]
<1>1. /\ at[r] = "write" /\ c.op = "deleteItem" /\ WaitsFor(r) = {}
      /\ c.item \notin Places
      /\ Finish(r) /\ UNCHANGED trips
  BY DEF DeleteItem, Statement, Reading
<1>2. CASE Found(c)
  <2>1. rows' = [rows EXCEPT ![c.item] = NoItemRow("deleted")]
    BY <1>2 DEF DeleteItem
  <2>2. c.item \in Items /\ rows[c.item].state = "live"
    BY <1>2 DEF Found, LiveItem
  <2>3. \A j \in Items : rows[j].place # c.item
    BY <1>1, <2>2, ItemKinds DEF IInv, TypeOK, ItemRow
  <2>4. NoItemRow("deleted").state = "deleted"
    BY DEF NoItemRow
  <2>5. rows' = [j \in Items |->
                   IF j = c.item THEN NoItemRow("deleted")
                   ELSE IF j \in Schedules /\ rows[j].state = "live"
                           /\ rows[j].place = c.item
                        THEN [rows[j] EXCEPT !.place = None]
                        ELSE rows[j]]
    BY <2>1, <2>3 DEF IInv, TypeOK
  <2>6. Board!RemoveItem(c.item)
    BY <1>1, <2>2, <2>5, BoardDefs DEF Board!RemoveItem
  <2>7. Board!Next
    BY <2>2, <2>6, BoardDefs DEF Board!Next
  <2>8. /\ rows'[c.item].state = "deleted"
        /\ \A i \in Items : i # c.item => rows'[i] = rows[i]
    BY <2>1, <2>2, <2>4 DEF IInv, TypeOK
  <2>9. ASSUME NEW q \in Requests \ {r} PROVE Untouched(q)
    <3>1. c.item \notin call[q].held
      BY <1>1, Waits, ItemLockFree
    <3>2. QED
      BY <1>1, <2>2, <2>8, <3>1, OtherFacts DEF Untouched
  <2>10. QED
    BY <1>1, <2>7, <2>9, WriteKeeps
<1>3. CASE ~Found(c)
  BY <1>1, <1>3, RefusedKeeps DEF DeleteItem
<1>4. QED
  BY <1>2, <1>3

LEMMA UnlinkPlaceKeeps ==
  ASSUME IInv, NEW r \in Requests, UnlinkPlace(r)
  PROVE  IInv' /\ BoardStep
<1> DEFINE p == call[r].item
<1>1. /\ at[r] = "unlink" /\ Finish(r) /\ UNCHANGED trips
      /\ rows' = [i \in Items |->
                    IF i = p THEN NoItemRow("deleted")
                    ELSE IF i \in SchedulesAt(p) THEN [rows[i] EXCEPT !.place = None]
                    ELSE rows[i]]
  BY DEF UnlinkPlace, Reading
<1>2. p \in call[r].held /\ p \in Items /\ rows[p].state = "live"
  BY <1>1, OwnCall DEF HeldInv, LiveItem
<1>3. \A i \in Items :
        i \in SchedulesAt(p)
          <=> i \in Schedules /\ rows[i].state = "live" /\ rows[i].place = p
  BY DEF SchedulesAt, LiveItem
<1>4. Board!RemoveItem(p)
  <2>1. rows' = [j \in Items |->
                   IF j = p THEN NoItemRow("deleted")
                   ELSE IF j \in Schedules /\ rows[j].state = "live"
                           /\ rows[j].place = p
                        THEN [rows[j] EXCEPT !.place = None]
                        ELSE rows[j]]
    BY <1>1, <1>3
  <2>2. QED
    BY <1>1, <1>2, <2>1, BoardDefs DEF Board!RemoveItem
<1>5. Board!Next
  BY <1>2, <1>4, BoardDefs DEF Board!Next
<1>6. /\ rows'[p].state = "deleted"
      /\ \A i \in Items : i # p =>
           /\ rows'[i].state = rows[i].state
           /\ rows'[i].trip = rows[i].trip
           /\ rows'[i].date = rows[i].date
  <2>1. NoItemRow("deleted").state = "deleted"
    BY DEF NoItemRow
  <2>2. \A i \in Items : rows[i] \in ItemRow
    BY DEF IInv, TypeOK
  <2>3. \A i \in Items : LET row == [rows[i] EXCEPT !.place = None] IN
          row.state = rows[i].state /\ row.trip = rows[i].trip
          /\ row.date = rows[i].date
    BY <2>2 DEF ItemRow
  <2>4. QED
    BY <1>1, <1>2, <2>1, <2>3
<1>7. ASSUME NEW q \in Requests \ {r} PROVE Untouched(q)
  <2>1. p \notin call[q].held
    BY <1>2, OtherFacts
  <2>2. QED
    BY <1>1, <1>2, <1>6, <2>1, OtherFacts DEF Untouched
<1>8. QED
  BY <1>1, <1>5, <1>7, WriteKeeps

LEMMA CommitTripKeeps ==
  ASSUME IInv, NEW r \in Requests, CommitTrip(r)
  PROVE  IInv' /\ BoardStep
<1> DEFINE c == call[r]
<1>1. /\ at[r] = "commitTrip" /\ c.op = "updateTrip"
      /\ Finish(r) /\ UNCHANGED rows
      /\ trips' = [trips EXCEPT ![c.trip].span = c.span]
  BY DEF CommitTrip, Statement, Reading
<1>2. /\ c \in Call /\ TripInv("commitTrip", c)
  BY <1>1, OwnCall
<1>3. /\ c.trip \in Trips /\ trips[c.trip].state = "live"
      /\ c.span \in Span /\ DateRange(c.span)
      /\ Contained(Items, c.trip, c.span)
  BY <1>1, <1>2 DEF TripInv, Call, LiveTrip
<1>4. Board!MoveTrip(c.trip, c.span)
  <2>1. ASSUME NEW i \in Items, rows[i].state = "live", rows[i].trip = c.trip,
               Guarded(i, rows[i].date)
        PROVE  Within(rows[i].date, c.span)
    BY <1>3, <2>1 DEF Contained, RowsOf, LiveItem
  <2>2. QED
    BY <1>1, <1>3, <2>1, BoardDefs DEF Board!MoveTrip
<1>5. Board!Next
  BY <1>3, <1>4, BoardDefs DEF Board!Next
<1>6. \A t \in Trips : t # c.trip => trips'[t] = trips[t]
  BY <1>1 DEF IInv, TypeOK
<1>7. ASSUME NEW q \in Requests \ {r} PROVE Untouched(q)
  BY <1>1, <1>3, <1>6, OtherFacts DEF Untouched, HoldsTrip
<1>8. QED
  BY <1>1, <1>5, <1>7, WriteKeeps

LEMMA CascadeTripKeeps ==
  ASSUME IInv, NEW r \in Requests, CascadeTrip(r)
  PROVE  IInv' /\ BoardStep
<1> DEFINE t == call[r].trip
<1>1. /\ at[r] = "cascade" /\ call[r].op = "deleteTrip" /\ Finish(r)
      /\ RowsOf(t) \subseteq call[r].held
      /\ trips' = [trips EXCEPT ![t] = NoTripRow("deleted")]
      /\ rows' = [i \in Items |->
                    IF i \in RowsOf(t) THEN NoItemRow("deleted") ELSE rows[i]]
  BY DEF CascadeTrip, Reading
<1>2. t \in Trips /\ trips[t].state = "live"
  BY <1>1, OwnCall DEF TripInv, LiveTrip
<1>3. \A i \in Items : i \in RowsOf(t) <=> rows[i].state = "live" /\ rows[i].trip = t
  BY DEF RowsOf, LiveItem
<1>4. Board!RemoveTrip(t)
  <2>1. rows' = [i \in Items |->
                   IF rows[i].state = "live" /\ rows[i].trip = t
                   THEN NoItemRow("deleted") ELSE rows[i]]
    BY <1>1, <1>3
  <2>2. QED
    BY <1>1, <1>2, <2>1, BoardDefs DEF Board!RemoveTrip
<1>5. Board!Next
  BY <1>2, <1>4, BoardDefs DEF Board!Next
<1>6. /\ \A u \in Trips : u # t => trips'[u] = trips[u]
      /\ \A i \in Items : i \notin RowsOf(t) => rows'[i] = rows[i]
      /\ \A i \in Items : i \in RowsOf(t) =>
           rows'[i].state = "deleted" /\ rows[i].state = "live"
  BY <1>1, <1>3 DEF IInv, TypeOK, NoItemRow
<1>7. ASSUME NEW q \in Requests \ {r} PROVE Untouched(q)
  <2>1. \A i \in call[q].held : i \notin RowsOf(t)
    BY <1>1, OtherFacts
  <2>2. HoldsTrip(r) /\ (at[q] = "commitTrip" => HoldsTrip(q))
    BY <1>1 DEF HoldsTrip
  <2>3. QED
    BY <1>1, <1>2, <1>6, <2>1, <2>2, OtherFacts DEF Untouched
<1>8. QED
  BY <1>1, <1>5, <1>7, WriteKeeps

LEMMA InsertTripKeeps ==
  ASSUME IInv, NEW r \in Requests, InsertTrip(r)
  PROVE  IInv' /\ BoardStep
<1> DEFINE c == call[r]
<1>1. at[r] = "write" /\ c.op = "createTrip" /\ Finish(r)
  BY DEF InsertTrip, Statement, Reading
<1>2. PICK presets \in SUBSET FreshItems(Checklists) :
        /\ trips' = [trips EXCEPT ![c.trip] =
                       [state |-> "live", owner |-> c.user, span |-> c.span]]
        /\ rows' = [i \in Items |->
                      IF i \in presets THEN Preset(c.trip) ELSE rows[i]]
  BY DEF InsertTrip
<1>3. /\ c \in Call /\ TripInv("write", c)
  BY <1>1, OwnCall
<1>4. /\ c.trip \in Trips /\ c.user \in Users /\ c.span \in Span
      /\ trips[c.trip].state = "unused" /\ DateRange(c.span)
  BY <1>1, <1>3 DEF TripInv, Call
<1>5. /\ presets \in SUBSET Checklists
      /\ \A i \in presets :
           /\ rows[i].state = "unused"
           /\ \A q \in Requests : call[q].item # i
  BY DEF FreshItems
<1>6. Board!AddTrip(c.trip, c.user, c.span, presets)
  BY <1>2, <1>4, <1>5, BoardDefs DEF Board!AddTrip
<1>7. Board!Next
  BY <1>4, <1>5, <1>6, BoardDefs DEF Board!Next
<1>8. /\ \A u \in Trips : u # c.trip => trips'[u] = trips[u]
      /\ \A i \in Items : i \notin presets => rows'[i] = rows[i]
      /\ \A i \in presets : rows'[i] = Preset(c.trip)
  BY <1>2, <1>5, ItemKinds DEF IInv, TypeOK
<1>9. ASSUME NEW q \in Requests \ {r} PROVE Untouched(q)
  <2>1. \A i \in call[q].held : i \notin presets
    BY <1>5, OtherFacts
  <2>2. ASSUME NEW i \in presets PROVE ~Guarded(i, rows'[i].date)
    BY <1>5, <1>8, <2>2, ItemKinds DEF Preset, NoItemRow, Guarded
  <2>3. \A i \in Items : Guarded(i, rows'[i].date) => rows'[i] = rows[i]
    BY <1>8, <2>2
  <2>4. QED
    BY <1>1, <1>4, <1>5, <1>8, <2>1, <2>3, OtherFacts DEF Untouched
<1>10. QED
  BY <1>1, <1>7, <1>9, WriteKeeps

-------------------------------------------------------------------------------
(* The invariant and the refinement, step by step.                         *)

LEMMA LockKeeps ==
  ASSUME IInv, NEW r \in Requests,
         \/ LockItem(r) \/ GuardDate(r) \/ LockPlace(r) \/ LockChild(r)
         \/ AlterTrip(r) \/ LockTrip(r)
  PROVE  IInv' /\ BoardStep
BY LockItemKeeps, GuardDateKeeps, LockPlaceKeeps, LockChildKeeps,
   AlterTripKeeps, LockTripKeeps
   DEF LockItem, GuardDate, LockPlace, LockChild, AlterTrip, LockTrip, BoardStep

LEMMA NextKeeps ==
  ASSUME IInv, Next
  PROVE  IInv' /\ BoardStep
<1>1. PICK r \in Requests : Request(r) \/ Read(r) \/ Write(r) \/ Abort(r)
  BY DEF Next
<1>2. CASE Request(r)
  <2>1. Starts(r)
    BY <1>2, RequestStarts DEF IInv
  <2>2. Stay
    BY <2>1 DEF Starts, Begin, Stay
  <2>3. QED
    BY <2>1, <2>2, StartKeeps DEF BoardStep
<1>3. CASE Read(r)
  <2>1. Stay
    BY <1>3 DEF Read, CheckNewItem, CheckOwner, PatchRow, FindPlace,
         ReadChecklist, CheckChecklistOwner, CheckOwnerForDelete, PatchTrip,
         CheckSchedules, CheckChecklists
  <2>2. QED
    BY <1>3, <2>1, ReadKeeps DEF BoardStep
<1>4. CASE Write(r)
  BY <1>4, LockKeeps, InsertTripKeeps, InsertItemKeeps, UpdateItemKeeps,
     DeleteItemKeeps, CommitItemKeeps, UnlinkPlaceKeeps, CommitTripKeeps,
     CascadeTripKeeps DEF Write
<1>5. CASE Abort(r)
  BY <1>5, EndKeeps DEF Abort, BoardStep
<1>6. QED
  BY <1>1, <1>2, <1>3, <1>4, <1>5

LEMMA InitHolds == Init => IInv /\ Board!Init
<1> SUFFICES ASSUME Init PROVE IInv /\ Board!Init
  OBVIOUS
<1>1. "unused" \in States /\ "idle" \in Steps
  BY DEF States, Steps
<1>2. TypeOK
  BY <1>1, EmptyRowTypes, NoCallType DEF Init, TypeOK
<1>3. /\ \A i \in Items : rows[i].state = "unused"
      /\ \A t \in Trips : trips[t].state = "unused"
  BY DEF Init, NoItemRow, NoTripRow
<1>4. DatedItemsWithinTrip /\ LinksResolve /\ RangesStayOrdered
  BY <1>3, ItemKinds DEF DatedItemsWithinTrip, DatesWithin, LinksResolve,
     LinksLive, RangesStayOrdered, RangesOrdered
<1>5. NoCall.op = "none" /\ NoCall.held = {}
  BY DEF NoCall
<1>6. \A r \in Requests : CallInv(at[r], call[r])
  BY <1>5 DEF Init, CallInv, WriterInv, ChangerInv, TripInv, HeldInv, StepsOf
<1>7. \A q, r \in Requests : q # r => PairInv(q, r)
  BY <1>5 DEF Init, PairInv, HoldsTrip
<1>8. Board!Init
  BY BoardDefs DEF Init, Board!Init
<1>9. QED
  BY <1>2, <1>4, <1>6, <1>7, <1>8 DEF IInv

LEMMA StepKeeps == IInv /\ [Next]_vars => IInv' /\ [Board!Next]_Board!vars
<1> SUFFICES ASSUME IInv, [Next]_vars PROVE IInv' /\ [Board!Next]_Board!vars
  OBVIOUS
<1>1. CASE Next
  BY <1>1, NextKeeps DEF BoardStep, Stay, Board!vars
<1>2. CASE UNCHANGED vars
  <2>1. Stay /\ at' = at /\ call' = call
    BY <1>2 DEF vars, Stay
  <2>2. (TypeOK /\ DatedItemsWithinTrip /\ LinksResolve /\ RangesStayOrdered)'
    BY <2>1 DEF IInv, Stay, TypeOK, DatedItemsWithinTrip, LinksResolve,
       RangesStayOrdered
  <2>3. ASSUME NEW r \in Requests PROVE CallInv(at[r], call[r])'
    <3>1. PICK s, d : s = at'[r] /\ d = call'[r] /\ CallInv(s, d)
      BY <2>1 DEF IInv
    <3>2. CallInv(s, d)'
      BY <2>1, <3>1, SameTables
    <3>3. QED
      BY <3>1, <3>2 DEF CallInv, WriterInv, ChangerInv, TripInv, HeldInv
  <2>4. \A q, r \in Requests : q # r => PairInv(q, r)'
    BY <2>1 DEF IInv, PairInv, HoldsTrip
  <2>5. QED
    BY <2>1, <2>2, <2>3, <2>4 DEF IInv, Stay, Board!vars
<1>3. QED
  BY <1>1, <1>2

(* The inductive invariant holds in every reachable state.                 *)
THEOREM Invariant == Spec => []IInv
<1>1. Init => IInv
  BY InitHolds
<1>2. IInv /\ [Next]_vars => IInv'
  BY StepKeeps
<1>3. QED
  BY <1>1, <1>2, PTL DEF Spec

(* Every value keeps its type.                                             *)
THEOREM TypeCorrect == Spec => []TypeOK
<1>1. IInv => TypeOK
  BY DEF IInv
<1>2. QED
  BY <1>1, Invariant, PTL

(* Schedules and dated checklist items always lie within their trip,       *)
(* whatever PATCHes of the trip run while they are written.                *)
THEOREM DatesStayWithin == Spec => []DatedItemsWithinTrip
<1>1. IInv => DatedItemsWithinTrip
  BY DEF IInv
<1>2. QED
  BY <1>1, Invariant, PTL

(* Rows keep a live trip and schedules a live place of the same trip.      *)
THEOREM LinksStayLive == Spec => []LinksResolve
<1>1. IInv => LinksResolve
  BY DEF IInv
<1>2. QED
  BY <1>1, Invariant, PTL

(* Trips and flights keep ordered ends without a check in the schema.      *)
THEOREM RangesKeepOrder == Spec => []RangesStayOrdered
<1>1. IInv => RangesStayOrdered
  BY DEF IInv
<1>2. QED
  BY <1>1, Invariant, PTL

(* The API, with its reads, locks and failures, is an implementation of    *)
(* the board: every step of it is one edit of the board or none.           *)
THEOREM BoardImplemented == Spec => ImplementsBoard
<1>1. Init => Board!Init
  BY InitHolds
<1>2. IInv /\ [Next]_vars => [Board!Next]_Board!vars
  BY StepKeeps
<1>3. QED
  BY <1>1, <1>2, Invariant, PTL DEF Spec, ImplementsBoard, Board!Spec

-------------------------------------------------------------------------------
(* Only owners write.                                                      *)

LEMMA OwnerGoOn ==
  ASSUME IInv, OwnerInv, NEW r \in Requests, NEW ok, NEW step, NEW c,
         GoOn(r, ok, step, c), Stay,
         ok /\ Checked(step, c) => OwnerKnown(c)
  PROVE  OwnerInv'
<1>1. /\ at'[r] = IF ok THEN step ELSE "idle"
      /\ call'[r] = IF ok THEN c ELSE NoCall
      /\ \A q \in Requests \ {r} : at'[q] = at[q] /\ call'[q] = call[q]
  BY DEF GoOn, IInv, TypeOK
<1>2. \A d : OwnerKnown(d) => /\ d.trip \in Trips /\ trips'[d.trip].state # "unused"
                              /\ trips'[d.trip].state = "live" => trips'[d.trip].owner = d.user
  BY DEF OwnerKnown, Stay, LiveTrip
<1>3. ~Checked("idle", NoCall)
  BY DEF Checked
<1>4. ASSUME NEW q \in Requests, Checked(at'[q], call'[q])
      PROVE  /\ call'[q].trip \in Trips /\ trips'[call'[q].trip].state # "unused"
             /\ trips'[call'[q].trip].state = "live" =>
                  trips'[call'[q].trip].owner = call'[q].user
  <2>1. OwnerKnown(call'[q])
    BY <1>1, <1>3, <1>4 DEF OwnerInv
  <2>2. QED
    BY <1>2, <2>1
<1>5. QED
  BY <1>4 DEF OwnerInv, OwnerKnown, LiveTrip, Checked

(* The reads of the trip that check its owner.                             *)
LEMMA OwnerChecked ==
  ASSUME NEW c, NEW d, Owned(c), d.trip = c.trip, d.user = c.user
  PROVE  OwnerKnown(d)
BY DEF Owned, OwnerKnown, LiveTrip

LEMMA OwnerReads ==
  ASSUME IInv, OwnerInv, NEW r \in Requests, Read(r)
  PROVE  OwnerInv'
<1> DEFINE c == call[r]
<1>1. c \in Call
  BY OwnCall
<1>2. /\ [c EXCEPT !.new.trip = c.trip].trip = c.trip
      /\ [c EXCEPT !.new.trip = c.trip].user = c.user
      /\ \A span : /\ [c EXCEPT !.span = span].trip = c.trip
                   /\ [c EXCEPT !.span = span].user = c.user
      /\ \A new, span : /\ [c EXCEPT !.new = new, !.span = span].trip = c.trip
                        /\ [c EXCEPT !.new = new, !.span = span].user = c.user
  BY <1>1 DEF Call
<1>3. CASE CheckNewItem(r)
  BY <1>2, <1>3, OwnerGoOn, OwnerChecked DEF CheckNewItem
<1>4. CASE CheckOwner(r)
  BY <1>2, <1>4, OwnerGoOn, OwnerChecked DEF CheckOwner
<1>5. CASE CheckChecklistOwner(r)
  BY <1>5, OwnerGoOn, OwnerChecked DEF CheckChecklistOwner
<1>6. CASE CheckOwnerForDelete(r)
  BY <1>6, OwnerGoOn, OwnerChecked DEF CheckOwnerForDelete
<1>7. CASE PatchTrip(r)
  BY <1>2, <1>7, OwnerGoOn, OwnerChecked DEF PatchTrip
<1>8. CASE ReadChecklist(r)
  <2>1. \A d : ~Checked("trip", d)
    BY DEF Checked
  <2>2. QED
    BY <1>8, <2>1, OwnerGoOn DEF ReadChecklist
<1>9. CASE PatchRow(r)
  <2>1. OwnerKnown(c)
    BY <1>9 DEF PatchRow, Reading, OwnerInv, Checked
  <2>2. \A new, span : OwnerKnown([c EXCEPT !.new = new, !.span = span])
    BY <1>2, <2>1 DEF OwnerKnown
  <2>3. QED
    BY <1>9, <2>2, OwnerGoOn DEF PatchRow
<1>10. CASE FindPlace(r) \/ CheckSchedules(r) \/ CheckChecklists(r)
  <2>1. OwnerKnown(c)
    BY <1>10 DEF FindPlace, CheckSchedules, CheckChecklists, Reading, OwnerInv,
       Checked
  <2>2. QED
    BY <1>10, <2>1, OwnerGoOn DEF FindPlace, CheckSchedules, CheckChecklists
<1>11. QED
  BY <1>3, <1>4, <1>5, <1>6, <1>7, <1>8, <1>9, <1>10 DEF Read

LEMMA WriterKnown ==
  ASSUME OwnerInv, NEW r \in Requests, Write(r), call[r].op # "createTrip"
  PROVE  OwnerKnown(call[r])
BY DEF Write, InsertTrip, InsertItem, UpdateItem, DeleteItem, LockItem, GuardDate,
   CommitItem, LockPlace, LockChild, UnlinkPlace, AlterTrip, CommitTrip, LockTrip,
   CascadeTrip, Statement, Reading, OwnerInv, Checked

LEMMA OwnerLocks ==
  ASSUME IInv, OwnerInv, NEW r \in Requests,
         \/ LockItem(r) \/ GuardDate(r) \/ LockPlace(r) \/ LockChild(r)
         \/ AlterTrip(r) \/ LockTrip(r)
  PROVE  OwnerInv'
<1> DEFINE c == call[r]
<1>1. call[r].op # "createTrip" /\ Write(r)
  BY DEF LockItem, GuardDate, LockPlace, LockChild, AlterTrip, LockTrip,
     Statement, Reading, Write
<1>2. OwnerKnown(c)
  BY <1>1, WriterKnown
<1>3. c \in Call
  BY OwnCall
<1>4. \A held : OwnerKnown([c EXCEPT !.held = held])
  BY <1>2, <1>3 DEF Call, OwnerKnown
<1>5. CASE LockItem(r) \/ LockPlace(r)
  BY <1>4, <1>5, OwnerGoOn DEF LockItem, LockPlace
<1>6. CASE LockChild(r)
  BY <1>4, <1>6, OwnerGoOn DEF LockChild
<1>7. CASE GuardDate(r) \/ AlterTrip(r) \/ LockTrip(r)
  BY <1>2, <1>7, OwnerGoOn DEF GuardDate, AlterTrip, LockTrip
<1>8. QED
  BY <1>5, <1>6, <1>7

TripsOneWay ==
  \A t \in Trips :
    trips[t].state # "unused" =>
      /\ trips'[t].state # "unused"
      /\ trips'[t].state = "live" =>
           trips[t].state = "live" /\ trips'[t].owner = trips[t].owner

LEMMA OwnerEnds ==
  ASSUME IInv, OwnerInv, NEW r \in Requests, Finish(r), TripsOneWay
  PROVE  OwnerInv'
<1>1. /\ at'[r] = "idle"
      /\ \A q \in Requests \ {r} : at'[q] = at[q] /\ call'[q] = call[q]
  BY DEF Finish, IInv, TypeOK
<1>2. ASSUME NEW q \in Requests, Checked(at'[q], call'[q])
      PROVE  /\ call'[q].trip \in Trips /\ trips'[call'[q].trip].state # "unused"
             /\ trips'[call'[q].trip].state = "live" =>
                  trips'[call'[q].trip].owner = call'[q].user
  <2>1. q # r
    BY <1>1, <1>2 DEF Checked
  <2>2. OwnerKnown(call[q]) /\ call'[q] = call[q]
    BY <1>1, <1>2, <2>1 DEF OwnerInv
  <2>3. QED
    BY <2>2 DEF OwnerKnown, TripsOneWay, LiveTrip
<1>3. QED
  BY <1>2 DEF OwnerInv, OwnerKnown, LiveTrip, Checked

LEMMA WriterIsOwner ==
  ASSUME IInv, OwnerInv, NEW r \in Requests, Write(r), Finish(r),
         call[r].op # "createTrip", at[r] # "idle"
  PROVE  LiveTrip(call[r].trip) => ByOwner(call[r].trip)
<1>1. OwnerKnown(call[r])
  BY WriterKnown
<1>2. at'[r] = "idle"
  BY DEF Finish, IInv, TypeOK
<1>3. QED
  BY <1>1, <1>2 DEF OwnerKnown, ByOwner

LEMMA LiveItemTrip ==
  ASSUME IInv, NEW i, LiveItem(i)
  PROVE  LiveTrip(rows[i].trip)
BY DEF IInv, LinksResolve, LinksLive, LiveItem, LiveTrip

(* A statement that writes one row. *)
LEMMA OwnerOneRow ==
  ASSUME IInv, OwnerInv, NEW r \in Requests,
         InsertItem(r) \/ UpdateItem(r) \/ CommitItem(r) \/ DeleteItem(r)
  PROVE  OwnerInv' /\ OwnersWrite
<1> DEFINE c == call[r]
<1>1. /\ Write(r) /\ Finish(r) /\ trips' = trips
      /\ c.op \in {"createItem", "updateItem", "deleteItem"}
      /\ at[r] \in {"write", "commit"}
      /\ at[r] = "commit" => c.op # "deleteItem"
  BY DEF InsertItem, UpdateItem, CommitItem, DeleteItem, Statement, Reading, Write
<1>2. /\ c \in Call /\ WriterInv(at[r], c) /\ ChangerInv(at[r], c)
      /\ HeldInv(at[r], c)
  BY OwnCall
<1>3. c.item \in Items /\ rows[c.item] \in ItemRow /\ c.new \in ItemRow
  BY <1>1, <1>2 DEF WriterInv, ChangerInv, IInv, TypeOK, Call
<1>4. \/ rows' = rows
      \/ /\ c.op = "createItem" /\ rows' = [rows EXCEPT ![c.item] = c.new]
      \/ /\ c.op = "updateItem" /\ LiveItem(c.item)
         /\ rows' = [rows EXCEPT ![c.item] = Rewritten(rows[c.item], c.new)]
         /\ rows[c.item].trip = c.trip
      \/ /\ c.op = "deleteItem" /\ LiveItem(c.item)
         /\ rows' = [rows EXCEPT ![c.item] = NoItemRow("deleted")]
         /\ rows[c.item].trip = c.trip
  <2>1. CASE InsertItem(r)
    BY <2>1 DEF InsertItem, Statement, Reading
  <2>2. CASE UpdateItem(r)
    BY <1>2, <2>2 DEF UpdateItem, Statement, Reading, Found, ChangerInv, StillIn
  <2>3. CASE DeleteItem(r)
    BY <1>2, <2>3 DEF DeleteItem, Statement, Reading, Found, ChangerInv, StillIn
  <2>4. CASE CommitItem(r)
    <3>1. at[r] = "commit"
      BY <2>4 DEF CommitItem, Statement, Reading
    <3>2. c.op = "updateItem" => LiveItem(c.item) /\ rows[c.item].trip = c.trip
      BY <1>2, <3>1 DEF ChangerInv, HeldInv
    <3>3. QED
      BY <1>1, <2>4, <3>1, <3>2 DEF CommitItem
  <2>5. QED
    BY <2>1, <2>2, <2>3, <2>4
<1>5. LiveTrip(c.trip) => ByOwner(c.trip)
  BY <1>1, WriterIsOwner
<1>6. \A i \in Items : rows'[i] # rows[i] => i = c.item
  BY <1>3, <1>4 DEF IInv, TypeOK
<1>7. /\ LiveItem(c.item) /\ rows' # rows => rows[c.item].trip = c.trip
      /\ rows' # rows /\ rows'[c.item].state = "live" => rows'[c.item].trip = c.trip
  <2>1. CASE c.op = "createItem"
    <3>1. /\ rows[c.item].state = "unused" /\ c.new.trip = c.trip
      BY <1>1, <1>2, <2>1 DEF WriterInv
    <3>2. rows' # rows => rows'[c.item] = c.new
      BY <1>3, <1>4, <2>1 DEF IInv, TypeOK
    <3>3. QED
      BY <3>1, <3>2 DEF LiveItem
  <2>2. CASE c.op = "updateItem"
    <3>1. rows' # rows => rows'[c.item] = Rewritten(rows[c.item], c.new)
      BY <1>3, <1>4, <2>2 DEF IInv, TypeOK
    <3>2. QED
      BY <1>3, <1>4, <2>2, <3>1, RewrittenType
  <2>3. CASE c.op = "deleteItem"
    <3>1. rows' # rows => rows'[c.item].state = "deleted"
      BY <1>3, <1>4, <2>3 DEF IInv, TypeOK, NoItemRow
    <3>2. QED
      BY <1>4, <2>3, <3>1
  <2>4. QED
    BY <1>1, <2>1, <2>2, <2>3
<1>8. OwnersWrite
  <2>1. ASSUME NEW i \in Items, rows'[i] # rows[i], LiveItem(i)
        PROVE  ByOwner(rows[i].trip)
    <3>1. i = c.item /\ rows[i].trip = c.trip
      BY <1>6, <1>7, <2>1
    <3>2. QED
      BY <1>5, <2>1, <3>1, LiveItemTrip
  <2>2. ASSUME NEW i \in Items, rows'[i] # rows[i], rows'[i].state = "live",
               LiveTrip(rows'[i].trip)
        PROVE  ByOwner(rows'[i].trip)
    <3>1. i = c.item /\ rows'[i].trip = c.trip
      BY <1>6, <1>7, <2>2
    <3>2. LiveTrip(c.trip)
      BY <2>2, <3>1
    <3>3. QED
      BY <1>5, <3>1, <3>2 DEF ByOwner
  <2>3. QED
    BY <1>1, <2>1, <2>2 DEF OwnersWrite
<1>9. TripsOneWay
  BY <1>1 DEF TripsOneWay
<1>10. QED
  BY <1>1, <1>8, <1>9, OwnerEnds

LEMMA OwnerUnlink ==
  ASSUME IInv, OwnerInv, NEW r \in Requests, UnlinkPlace(r)
  PROVE  OwnerInv' /\ OwnersWrite
<1> DEFINE c == call[r]
<1>1. /\ at[r] = "unlink" /\ c.op = "deleteItem" /\ Write(r) /\ Finish(r)
      /\ trips' = trips
      /\ rows' = [i \in Items |->
                    IF i = c.item THEN NoItemRow("deleted")
                    ELSE IF i \in SchedulesAt(c.item) THEN [rows[i] EXCEPT !.place = None]
                    ELSE rows[i]]
  BY DEF UnlinkPlace, Reading, Write
<1>2. /\ c.item \in Items /\ rows[c.item].trip = c.trip /\ LiveItem(c.item)
      /\ c.item \in Places
  BY <1>1, OwnCall DEF ChangerInv, HeldInv
<1>3. ByOwner(c.trip)
  BY <1>1, <1>2, WriterIsOwner, LiveItemTrip
<1>4. ASSUME NEW i \in Items, rows'[i] # rows[i]
      PROVE  /\ rows[i].trip = c.trip
             /\ rows'[i].state = "live" => rows'[i].trip = c.trip
  <2>1. CASE i = c.item
    BY <1>1, <1>2, <2>1 DEF NoItemRow
  <2>2. CASE i # c.item
    <3>1. i \in SchedulesAt(c.item) /\ rows'[i] = [rows[i] EXCEPT !.place = None]
      BY <1>1, <1>4, <2>2
    <3>2. rows[i].state = "live" /\ rows[i].place = c.item
      BY <3>1 DEF SchedulesAt, LiveItem
    <3>3. c.item # None
      BY <1>2, ItemKinds
    <3>4. rows[i].trip = c.trip
      BY <1>2, <3>2, <3>3 DEF IInv, LinksResolve, LinksLive
    <3>5. rows'[i].trip = rows[i].trip
      BY <3>1 DEF IInv, TypeOK, ItemRow
    <3>6. QED
      BY <3>4, <3>5
  <2>3. QED
    BY <2>1, <2>2
<1>5. OwnersWrite
  BY <1>1, <1>3, <1>4 DEF OwnersWrite, ByOwner
<1>6. TripsOneWay
  BY <1>1 DEF TripsOneWay
<1>7. QED
  BY <1>1, <1>5, <1>6, OwnerEnds

LEMMA OwnerTripWrites ==
  ASSUME IInv, OwnerInv, NEW r \in Requests,
         InsertTrip(r) \/ CommitTrip(r) \/ CascadeTrip(r)
  PROVE  OwnerInv' /\ OwnersWrite
<1> DEFINE c == call[r]
<1>1. CASE InsertTrip(r)
  <2>1. PICK presets \in SUBSET FreshItems(Checklists) :
          /\ trips' = [trips EXCEPT ![c.trip] =
                         [state |-> "live", owner |-> c.user, span |-> c.span]]
          /\ rows' = [i \in Items |->
                        IF i \in presets THEN Preset(c.trip) ELSE rows[i]]
    BY <1>1 DEF InsertTrip
  <2>2. /\ at[r] = "write" /\ c.op = "createTrip" /\ Finish(r)
    BY <1>1 DEF InsertTrip, Statement, Reading
  <2>3. c.trip \in Trips /\ trips[c.trip].state = "unused"
    BY <2>2, OwnCall DEF TripInv
  <2>4. /\ \A t \in Trips : t # c.trip => trips'[t] = trips[t]
        /\ \A i \in Items : rows'[i] # rows[i] =>
             rows[i].state = "unused" /\ rows'[i].trip = c.trip
    BY <2>1 DEF IInv, TypeOK, FreshItems, Preset, NoItemRow
  <2>5. OwnersWrite /\ TripsOneWay
    BY <2>3, <2>4 DEF OwnersWrite, TripsOneWay, LiveTrip, LiveItem
  <2>6. QED
    BY <2>2, <2>5, OwnerEnds
<1>2. CASE CommitTrip(r)
  <2>1. /\ at[r] = "commitTrip" /\ c.op = "updateTrip" /\ Write(r) /\ Finish(r)
        /\ trips' = [trips EXCEPT ![c.trip].span = c.span] /\ rows' = rows
    BY <1>2 DEF CommitTrip, Statement, Reading, Write
  <2>2. LiveTrip(c.trip) /\ c.trip \in Trips
    BY <2>1, OwnCall DEF TripInv, LiveTrip
  <2>3. ByOwner(c.trip)
    BY <2>1, <2>2, WriterIsOwner
  <2>4. /\ \A t \in Trips : t # c.trip => trips'[t] = trips[t]
        /\ trips'[c.trip].owner = trips[c.trip].owner
        /\ trips'[c.trip].state = trips[c.trip].state
    BY <2>1, <2>2 DEF IInv, TypeOK, TripRow
  <2>5. OwnersWrite /\ TripsOneWay
    BY <2>1, <2>3, <2>4 DEF OwnersWrite, TripsOneWay, ByOwner
  <2>6. QED
    BY <2>1, <2>5, OwnerEnds
<1>3. CASE CascadeTrip(r)
  <2>1. /\ at[r] = "cascade" /\ c.op = "deleteTrip" /\ Write(r) /\ Finish(r)
        /\ trips' = [trips EXCEPT ![c.trip] = NoTripRow("deleted")]
        /\ rows' = [i \in Items |->
                      IF i \in RowsOf(c.trip) THEN NoItemRow("deleted") ELSE rows[i]]
    BY <1>3 DEF CascadeTrip, Reading, Write
  <2>2. LiveTrip(c.trip) /\ c.trip \in Trips
    BY <2>1, OwnCall DEF TripInv, LiveTrip
  <2>3. ByOwner(c.trip)
    BY <2>1, <2>2, WriterIsOwner
  <2>4. /\ \A t \in Trips : t # c.trip => trips'[t] = trips[t]
        /\ trips'[c.trip].state = "deleted"
        /\ \A i \in Items : rows'[i] # rows[i] =>
             rows[i].trip = c.trip /\ rows'[i].state = "deleted"
    BY <2>1, <2>2 DEF IInv, TypeOK, NoTripRow, NoItemRow, RowsOf
  <2>5. OwnersWrite /\ TripsOneWay
    BY <2>3, <2>4 DEF OwnersWrite, TripsOneWay, ByOwner
  <2>6. QED
    BY <2>1, <2>5, OwnerEnds
<1>4. QED
  BY <1>1, <1>2, <1>3

LEMMA QuietStep == Stay => OwnersWrite
BY DEF Stay, OwnersWrite

LEMMA OwnerNext ==
  ASSUME IInv, OwnerInv, Next
  PROVE  OwnerInv' /\ OwnersWrite
<1>1. PICK r \in Requests : Request(r) \/ Read(r) \/ Write(r) \/ Abort(r)
  BY DEF Next
<1>2. CASE Request(r)
  <2>1. PICK step \in Steps, c \in Call : NewCall(step, c) /\ Begin(r, step, c)
    BY <1>2, RequestStarts DEF Starts, IInv
  <2>2. GoOn(r, TRUE, step, c) /\ Stay
    BY <2>1 DEF Begin, GoOn, Stay
  <2>3. ~Checked(step, c)
    BY <2>1 DEF NewCall, Checked
  <2>4. QED
    BY <2>2, <2>3, OwnerGoOn, QuietStep
<1>3. CASE Read(r)
  <2>1. Stay
    BY <1>3 DEF Read, CheckNewItem, CheckOwner, PatchRow, FindPlace,
         ReadChecklist, CheckChecklistOwner, CheckOwnerForDelete, PatchTrip,
         CheckSchedules, CheckChecklists
  <2>2. QED
    BY <1>3, <2>1, OwnerReads, QuietStep
<1>4. CASE Write(r)
  <2>1. CASE \/ LockItem(r) \/ GuardDate(r) \/ LockPlace(r) \/ LockChild(r)
             \/ AlterTrip(r) \/ LockTrip(r)
    <3>1. Stay
      BY <2>1 DEF LockItem, GuardDate, LockPlace, LockChild, AlterTrip, LockTrip
    <3>2. QED
      BY <2>1, <3>1, OwnerLocks, QuietStep
  <2>2. QED
    BY <1>4, <2>1, OwnerOneRow, OwnerUnlink, OwnerTripWrites DEF Write
<1>5. CASE Abort(r)
  <2>1. Finish(r) /\ Stay
    BY <1>5 DEF Abort
  <2>2. TripsOneWay
    BY <2>1 DEF Stay, TripsOneWay
  <2>3. QED
    BY <2>1, <2>2, OwnerEnds, QuietStep
<1>6. QED
  BY <1>1, <1>2, <1>3, <1>4, <1>5

(* The trip whose owner a handler checked is the trip its statement        *)
(* touches, although neither is locked between the two.                    *)
THEOREM OwnersOnly == Spec => OnlyOwnersWrite
<1>1. Init => OwnerInv
  BY DEF Init, OwnerInv, Checked
<1>2. IInv /\ OwnerInv /\ [Next]_vars => OwnerInv' /\ [OwnersWrite]_vars
  <2> SUFFICES ASSUME IInv, OwnerInv, [Next]_vars
               PROVE  OwnerInv' /\ [OwnersWrite]_vars
    OBVIOUS
  <2>1. CASE Next
    BY <2>1, OwnerNext
  <2>2. CASE UNCHANGED vars
    BY <2>2 DEF vars, OwnerInv, OwnerKnown, LiveTrip, Checked
  <2>3. QED
    BY <2>1, <2>2
<1>3. QED
  BY <1>1, <1>2, Invariant, PTL DEF Spec, OnlyOwnersWrite

-------------------------------------------------------------------------------
(* Deadlocks.                                                              *)

(* Without a delete among them, holders of rows are updates past LockItem, *)
(* and those hold one dated row.                                           *)
LEMMA RowHolders ==
  ASSUME IInv, NEW i, NEW q \in ItemHolders(i), at[q] \notin {"unlink", "cascade"}
  PROVE  /\ at[q] \in {"guard", "commit"}
         /\ i \notin Places
<1>1. q \in Requests /\ i \in call[q].held
  BY DEF ItemHolders
<1>2. /\ at[q] \in StepsOf[call[q].op] /\ HeldInv(at[q], call[q])
      /\ WriterInv(at[q], call[q]) /\ call[q] \in Call
  BY <1>1, OwnCall
<1>3. at[q] \in {"guard", "commit"}
  BY <1>1, <1>2 DEF HeldInv
<1>4. call[q].op \in {"createItem", "updateItem"}
  <2>1. call[q].op \in Ops
    BY <1>2 DEF Call
  <2>2. QED
    BY <1>2, <1>3, <2>1 DEF StepsOf, Ops
<1>5. call[q].op = "updateItem" /\ i = call[q].item
  BY <1>1, <1>2, <1>3, <1>4 DEF HeldInv
<1>6. Guarded(i, call[q].new.date)
  BY <1>2, <1>3, <1>5 DEF WriterInv
<1>7. QED
  BY <1>3, <1>6, ItemKinds DEF Guarded

LEMMA DeadlockLemma == IInv => DeadlocksNeedADelete
<1> SUFFICES ASSUME IInv, NEW S \in SUBSET Requests, Deadlocked(S),
                    \A r \in S : at[r] \notin {"cascade", "unlink"}
             PROVE  FALSE
  BY DEF DeadlocksNeedADelete
<1>1. \A r \in S : WaitsFor(r) \cap S # {}
  BY DEF Deadlocked
<1>2. ASSUME NEW r \in S, at[r] = "commitTrip" PROVE FALSE
  BY <1>1, <1>2, Waits
<1>3. ASSUME NEW r \in S, at[r] = "commit" PROVE FALSE
  <2>1. /\ NewPlace(call[r])
        /\ \E q \in S : q \in ItemHolders(call[r].new.place)
    BY <1>1, <1>3, Waits
  <2>2. PICK q \in S : q \in ItemHolders(call[r].new.place)
    BY <2>1
  <2>3. call[r].new.place \in Places
    BY <2>1, OwnCall DEF NewPlace, Call, ItemRow
  <2>4. QED
    BY <2>2, <2>3, RowHolders
<1>4. \A t : TripHolders(t) \cap S = {} /\ KeyHolders(t) \cap S = {}
  BY <1>2, <1>3 DEF TripHolders, KeyHolders
<1>5. ASSUME NEW r \in S, at[r] = "guard" PROVE FALSE
  BY <1>1, <1>4, <1>5, Waits
<1>6. \A i : ItemHolders(i) \cap S = {}
  BY <1>3, <1>5, RowHolders
<1>7. ASSUME NEW r \in S, at[r] = "write" PROVE FALSE
  <2>1. call[r].op \in Ops
    BY OwnCall DEF Call
  <2>2. QED
    BY <1>1, <1>4, <1>6, <1>7, <2>1, Waits DEF Ops
<1>8. \A r \in S : at[r] \notin {"write", "guard", "commit", "unlink", "cascade"}
  BY <1>3, <1>5, <1>7
<1>9. QED
  BY <1>1, <1>8, Waits DEF Deadlocked

(* Statements that wait for each other always include the delete of a trip *)
(* or of a place: the triggers lock a row and then its trip.               *)
THEOREM DeadlocksHaveADelete == Spec => []DeadlocksNeedADelete
BY DeadlockLemma, Invariant, PTL
===============================================================================
