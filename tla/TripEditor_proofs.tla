--------------------------- MODULE TripEditor_proofs ---------------------------
(* Theorems about TripEditor: the types of its state, that one create form    *)
(* never has two requests in flight, and that rows whose requests did not     *)
(* overlap are on the screen as the server has them -- for every number of    *)
(* rows and of requests in flight.                                            *)
EXTENDS TripEditor, FiniteSetTheorems, TLAPS

-----------------------------------------------------------------------------
(* The inductive invariant.                                                   *)

Ready == page = "editor" /\ detail = "ready"
About(i) == {s \in Writes : calls[s].item = i}

(* A creation gets its row when it is served, and locks its button meanwhile. *)
CreationsOK ==
    /\ \A s \in Writes : calls[s].op = "create" => form.creating
    /\ \A s, t \in Writes : calls[s].op = "create" /\ calls[t].op = "create" => s = t
    /\ \A s \in Writes : calls[s].op = "create" /\ calls[s].st = "sent" => calls[s].item = None

(* Only the newest load is alive, while the lists are loading; one that was   *)
(* alone with the rows has seen what they are.                                *)
LoadsOK ==
    /\ \A s \in Loads : calls[s].live => page = "editor" /\ detail = "loading"
    /\ \A s, t \in Loads : calls[s].live /\ calls[t].live => s = t
    /\ \A s \in Loads : calls[s].alone => Writes = {}
    /\ \A s \in Loads : calls[s].alone /\ calls[s].st = "ok" => calls[s].seen = rows

(* Nobody knows of a row that was never created.                              *)
UnusedOK ==
    \A i \in Ids : rows[i] = Unused =>
      /\ shown[i] = <<>>
      /\ About(i) = {}
      /\ \A s \in Loads : calls[s].st # "sent" => calls[s].seen[i] = Unused

(* Requests about a row that is not mixed do not overlap.                     *)
OneEach == \A i \in Ids \ mixed : \A s, t \in About(i) : s = t

(* What a request about such a row tells of the card on the screen.           *)
Told(i, c) ==
    /\ c.st = "sent" => shown[i] = OnScreen(rows)[i]
    /\ c.st = "ok" =>
         /\ c.op = "create" => shown[i] = <<>> /\ rows[i] = c.value
         /\ c.op = "edit" => Len(shown[i]) = 1 /\ rows[i] = c.value
         /\ c.op = "delete" => rows[i] = Gone

RowsOK ==
    Ready => \A i \in Ids \ mixed :
      /\ About(i) = {} => shown[i] = OnScreen(rows)[i]
      /\ \A s \in About(i) : Told(i, calls[s])

IInv == TypeOK /\ CreationsOK /\ LoadsOK /\ UnusedOK /\ OneEach /\ RowsOK

-----------------------------------------------------------------------------
(* Requests and forms.                                                        *)

LEMMA CallKinds ==
    ASSUME TypeOK, NEW s \in Slots
    PROVE  /\ calls[s] = Free \/ s \in Writes \/ s \in Loads
           /\ s \in Writes => s \notin Loads
           /\ calls[s] = Free => s \notin Writes /\ s \notin Loads
           /\ s \in Writes =>
                /\ calls[s].op \in {"create", "edit", "delete"}
                /\ calls[s].st \in {"sent", "ok", "failed", "denied"}
                /\ calls[s].item \in Ids \cup {None}
                /\ calls[s].op # "create" => calls[s].item \in Ids
                /\ calls[s].value \in Values
                /\ calls[s].own \in BOOLEAN
                /\ calls[s] = [op |-> calls[s].op, st |-> calls[s].st, item |-> calls[s].item,
                               value |-> calls[s].value, own |-> calls[s].own]
           /\ s \in Loads =>
                /\ calls[s].op = "load"
                /\ calls[s].st \in {"sent", "ok", "failed", "denied"}
                /\ calls[s].live \in BOOLEAN
                /\ calls[s].alone \in BOOLEAN
                /\ calls[s].st # "sent" => calls[s].seen \in [Ids -> RowStates]
<1>1. calls[s] \in Calls
  BY DEF TypeOK
<1> QED
  BY <1>1 DEF Calls, Free, Writes, Loads, InFlight

LEMMA TripChangedKeeps ==
    ASSUME NEW f \in FormStates
    PROVE  TripChanged(f) \in FormStates /\ TripChanged(f).creating = f.creating
BY DEF FormStates, TripChanged, ResetScheduleForm, ResetPlaceForm, ResetFlightForm, CancelEdit

-----------------------------------------------------------------------------
(* The handlers of the four sections are of a few kinds.                      *)

(* A press that sends nothing and leaves the lock of the create form alone.   *)
Press == \E f \in FormStates : f.creating = form.creating /\ User(f)

RowSent(s) ==
    \E i \in Ids, op \in {"edit", "delete"}, v \in Values, f \in FormStates :
      /\ Visible(i)
      /\ f.creating = form.creating
      /\ Request(s, Write(op, i, v), f)

RowAnswered(s) ==
    \E f, g \in FormStates :
      /\ f.creating = form.creating
      /\ g.creating = form.creating
      /\ \/ Answer(s, "edit", Replaced(calls[s]), f, g)
         \/ Answer(s, "delete", Filtered(calls[s]), f, g)

Kinds(s) ==
    \/ ServeWrite(s) \/ ServeLoad(s) \/ SelectTrip(s)
    \/ LoadCancelled(s) \/ LoadAnswered(s)
    \/ SubmitNew(s) \/ NewAnswered(s)
    \/ RowSent(s) \/ RowAnswered(s)

LEMMA PressKinds ==
    ASSUME TypeOK
    PROVE  /\ ToggleListEditing => Press
           /\ \A i \in Ids : StartEdit(i) => Press
           /\ PressCancel => Press
<1>1. form \in FormStates
  BY DEF TypeOK
<1> QED
  BY <1>1 DEF Press, ToggleListEditing, StartEdit, PressCancel, User, CancelEdit, FormStates

LEMMA SentKinds ==
    ASSUME ConstantsOK, TypeOK, NEW s \in Slots
    PROVE  /\ SubmitEdit(s) => RowSent(s)
           /\ \A i \in Ids : PressDelete(s, i) => RowSent(s)
           /\ \A i \in Ids : HandleToggleChecklistItem(s, i) => RowSent(s)
           /\ \A i \in Ids : HandleDeleteChecklistItem(s, i) => RowSent(s)
<1>1. form \in FormStates
  BY DEF TypeOK
<1>2. SubmitEdit(s) => RowSent(s)
  <2> SUFFICES ASSUME SubmitEdit(s) PROVE RowSent(s)
    OBVIOUS
  <2>1. form.editing \in Ids /\ Visible(form.editing)
    BY <1>1 DEF SubmitEdit, EditFormOpen, FormStates
  <2>2. [form EXCEPT !.saving = TRUE] \in FormStates
    BY <1>1 DEF FormStates
  <2>3. [form EXCEPT !.saving = TRUE].creating = form.creating
    BY <1>1 DEF FormStates
  <2> QED
    BY <2>1, <2>2, <2>3 DEF RowSent, SubmitEdit
<1>3. ASSUME NEW i \in Ids, PressDelete(s, i)
      PROVE  RowSent(s)
  <2> DEFINE f == [form EXCEPT !.deleting = i]
  <2>1. f \in FormStates /\ f.creating = form.creating
    BY <1>1 DEF FormStates
  <2>2. Visible(i) /\ Request(s, Write("delete", i, 1), f)
    BY <1>3 DEF PressDelete
  <2>3. 1 \in Values
    BY DEF Values
  <2> HIDE DEF f
  <2> QED
    BY <2>1, <2>2, <2>3 DEF RowSent
<1>4. ASSUME NEW i \in Ids, HandleToggleChecklistItem(s, i)
      PROVE  RowSent(s)
  <2>1. PICK k \in DOMAIN shown[i] : Request(s, Write("edit", i, 3 - shown[i][k]), form)
    BY <1>4 DEF HandleToggleChecklistItem
  <2>2. shown[i][k] \in Values
    BY <2>1 DEF TypeOK
  <2>3. 3 - shown[i][k] \in Values
    BY <2>2 DEF Values
  <2>4. Visible(i)
    BY <1>4 DEF HandleToggleChecklistItem
  <2> DEFINE v == 3 - shown[i][k]
  <2>5. Request(s, Write("edit", i, v), form)
    BY <2>1
  <2>6. v \in Values
    BY <2>3
  <2> HIDE DEF v
  <2> QED
    BY <1>1, <2>4, <2>5, <2>6 DEF RowSent
<1>5. ASSUME NEW i \in Ids, HandleDeleteChecklistItem(s, i)
      PROVE  RowSent(s)
  BY <1>1, <1>5 DEF RowSent, HandleDeleteChecklistItem, Values
<1> QED
  BY <1>2, <1>3, <1>4, <1>5

LEMMA AnswerKinds ==
    ASSUME TypeOK, NEW s \in Slots
    PROVE  /\ EditAnswered(s) => RowAnswered(s)
           /\ DeleteAnswered(s) => RowAnswered(s)
           /\ ChecklistItemToggled(s) => RowAnswered(s)
           /\ ChecklistItemDeleted(s) => RowAnswered(s)
<1>1. form \in FormStates
  BY DEF TypeOK
<1>2. \A f \in FormStates : CancelEdit(f) \in FormStates /\ CancelEdit(f).creating = f.creating
  BY DEF FormStates, CancelEdit
<1>3. /\ [form EXCEPT !.saving = FALSE] \in FormStates
      /\ [form EXCEPT !.saving = FALSE].creating = form.creating
      /\ [form EXCEPT !.deleting = None] \in FormStates
      /\ [form EXCEPT !.deleting = None].creating = form.creating
  BY <1>1 DEF FormStates
<1>4. EditAnswered(s) => RowAnswered(s)
  BY <1>1, <1>2, <1>3 DEF RowAnswered, EditAnswered
<1>5. DeleteAnswered(s) => RowAnswered(s)
  <2> DEFINE done == [form EXCEPT !.deleting = None]
             f == IF calls[s].own THEN CancelEdit(done) ELSE done
  <2>1. f \in FormStates /\ f.creating = form.creating
    BY <1>2, <1>3
  <2> HIDE DEF f
  <2>2. DeleteAnswered(s) => Answer(s, "delete", Filtered(calls[s]), f, done)
    BY DEF DeleteAnswered, f
  <2> QED
    BY <1>3, <2>1, <2>2 DEF RowAnswered
<1>6. ChecklistItemToggled(s) => RowAnswered(s)
  BY <1>1 DEF RowAnswered, ChecklistItemToggled
<1>7. ChecklistItemDeleted(s) => RowAnswered(s)
  BY <1>1 DEF RowAnswered, ChecklistItemDeleted
<1> QED
  BY <1>4, <1>5, <1>6, <1>7

LEMMA StepKinds ==
    ASSUME ConstantsOK, TypeOK, Next
    PROVE  SessionExpires \/ SignInAgain \/ Press \/ \E s \in Slots : Kinds(s)
<1>1. ASSUME NEW s \in Slots, ScheduleSteps(s)
      PROVE  Press \/ Kinds(s)
  BY <1>1, PressKinds, SentKinds, AnswerKinds
     DEF ScheduleSteps, SubmitNewSchedule, NewScheduleAnswered, ChangeScheduleListEditing,
         CancelScheduleEdit, SubmitScheduleEdit, ScheduleEditAnswered,
         ScheduleDeleteAnswered, StartScheduleEdit, DeleteOwnerSchedule, Kinds
<1>2. ASSUME NEW s \in Slots, PlaceSteps(s)
      PROVE  Press \/ Kinds(s)
  BY <1>2, PressKinds, SentKinds, AnswerKinds
     DEF PlaceSteps, SubmitNewPlace, NewPlaceAnswered, ChangePlaceListEditing,
         CancelPlaceEdit, SubmitPlaceEdit, PlaceEditAnswered,
         PlaceDeleteAnswered, StartPlaceEdit, DeleteOwnerPlace, Kinds
<1>3. ASSUME NEW s \in Slots, FlightSteps(s)
      PROVE  Press \/ Kinds(s)
  BY <1>3, PressKinds, SentKinds, AnswerKinds
     DEF FlightSteps, SubmitNewFlight, NewFlightAnswered, ChangeFlightListEditing,
         CancelFlightEdit, SubmitFlightEdit, FlightEditAnswered,
         FlightDeleteAnswered, StartFlightEdit, DeleteOwnerFlight, Kinds
<1>4. ASSUME NEW s \in Slots, ChecklistSteps(s)
      PROVE  Press \/ Kinds(s)
  BY <1>4, SentKinds, AnswerKinds
     DEF ChecklistSteps, HandleAddChecklistItem, ChecklistItemAdded, Kinds
<1> QED
  BY <1>1, <1>2, <1>3, <1>4 DEF Next, Network, Kinds

-----------------------------------------------------------------------------
(* Types.                                                                     *)

LEMMA CardTypes ==
    ASSUME TypeOK, NEW s \in Writes
    PROVE  /\ Appended(calls[s]) \in [Ids -> Seq(Values)]
           /\ Replaced(calls[s]) \in [Ids -> Seq(Values)]
           /\ Filtered(calls[s]) \in [Ids -> Seq(Values)]
<1>1. s \in Slots
  BY DEF Writes, InFlight
<1>2. calls[s].value \in Values
  BY <1>1, CallKinds
<1>3. shown \in [Ids -> Seq(Values)]
  BY DEF TypeOK
<1> DEFINE c == calls[s]
<1>4. Appended(c) \in [Ids -> Seq(Values)]
  <2>1. Appended(c) = [i \in Ids |-> IF i = c.item THEN Append(shown[i], c.value) ELSE shown[i]]
    BY <1>3 DEF Appended
  <2>2. ASSUME NEW i \in Ids
        PROVE  (IF i = c.item THEN Append(shown[i], c.value) ELSE shown[i]) \in Seq(Values)
    <3>1. shown[i] \in Seq(Values)
      BY <1>3
    <3> QED
      BY <1>2, <3>1
  <2> QED
    BY <2>1, <2>2
<1>5. ASSUME NEW q \in Seq(Values)
      PROVE  [k \in DOMAIN q |-> calls[s].value] \in Seq(Values)
  BY <1>2
<1>6. Replaced(c) \in [Ids -> Seq(Values)]
  BY <1>3, <1>5 DEF Replaced
<1>7. Filtered(c) \in [Ids -> Seq(Values)]
  <2>1. Filtered(c) = [i \in Ids |-> IF i = c.item THEN <<>> ELSE shown[i]]
    BY <1>3 DEF Filtered
  <2>2. <<>> \in Seq(Values)
    OBVIOUS
  <2> QED
    BY <1>3, <2>1, <2>2
<1> QED
  BY <1>4, <1>6, <1>7

LEMMA ScreenTypes ==
    ASSUME NEW seen \in [Ids -> RowStates]
    PROVE  OnScreen(seen) \in [Ids -> Seq(Values)]
<1>1. ASSUME NEW i \in Ids
      PROVE  (IF seen[i] \in Values THEN <<seen[i]>> ELSE <<>>) \in Seq(Values)
  <2>1. CASE seen[i] \in Values
    BY <2>1
  <2> QED
    BY <2>1
<1> QED
  BY <1>1 DEF OnScreen

LEMMA NothingTypes == Nothing \in [Ids -> Seq(Values)]
BY DEF Nothing

(* What a 401 leaves.                                                         *)
LEMMA ClearTypes ==
    ASSUME NEW f \in FormStates, NEW cs \in [Slots -> Calls], ClearOwnerSession(f, cs)
    PROVE  /\ page' = "login" /\ detail' = "none" /\ shown' = Nothing
           /\ form' \in FormStates /\ form'.creating = f.creating
           /\ calls' \in [Slots -> Calls]
           /\ \A t \in Slots :
                /\ cs[t].op # "load" => calls'[t] = cs[t]
                /\ cs[t].op = "load" => calls'[t] = [cs[t] EXCEPT !.live = FALSE]
<1>1. form' \in FormStates /\ form'.creating = f.creating
  BY TripChangedKeeps DEF ClearOwnerSession
<1>2. ASSUME NEW t \in Slots
      PROVE  (IF cs[t].op = "load" THEN [cs[t] EXCEPT !.live = FALSE] ELSE cs[t]) \in Calls
  <2>1. cs[t] \in Calls
    OBVIOUS
  <2>2. CASE cs[t].op # "load"
    BY <2>1, <2>2
  <2>3. CASE cs[t].op = "load" /\ cs[t].st = "sent"
    <3>1. cs[t] \in [op: {"load"}, st: {"sent"}, live: BOOLEAN, alone: BOOLEAN]
      BY <2>1, <2>3 DEF Calls, Free
    <3>2. [cs[t] EXCEPT !.live = FALSE]
            \in [op: {"load"}, st: {"sent"}, live: BOOLEAN, alone: BOOLEAN]
      BY <3>1
    <3> QED
      BY <2>3, <3>2 DEF Calls
  <2>4. CASE cs[t].op = "load" /\ cs[t].st # "sent"
    <3> DEFINE Answered == [op: {"load"}, st: {"ok", "failed", "denied"}, live: BOOLEAN,
                            alone: BOOLEAN, seen: [Ids -> RowStates]]
    <3>1. cs[t] \in Answered
      BY <2>1, <2>4 DEF Calls, Free
    <3>2. [cs[t] EXCEPT !.live = FALSE] \in Answered
      BY <3>1
    <3> QED
      BY <2>4, <3>2 DEF Calls
  <2> QED
    BY <2>2, <2>3, <2>4
<1>3. calls' \in [Slots -> Calls]
  BY <1>2 DEF ClearOwnerSession
<1> QED
  BY <1>1, <1>3 DEF ClearOwnerSession

LEMMA SendWriteTypes ==
    ASSUME TypeOK, NEW s \in Slots, NEW c \in Calls, c.op # "load", c # Free, SendWrite(s, c)
    PROVE  /\ calls' \in [Slots -> Calls]
           /\ mixed' \in SUBSET Ids
           /\ calls'[s] = c
           /\ \A t \in Slots \ {s} :
                /\ t \in Loads => calls'[t] = [calls[t] EXCEPT !.alone = FALSE]
                /\ t \notin Loads => calls'[t] = calls[t]
<1>1. ASSUME NEW t \in Slots
      PROVE  (IF t = s THEN c
              ELSE IF t \in Loads THEN [calls[t] EXCEPT !.alone = FALSE]
              ELSE calls[t]) \in Calls
  <2>1. calls[t] \in Calls
    BY DEF TypeOK
  <2> QED
    BY <2>1 DEF Calls, Free, Loads, InFlight
<1>2. \A t \in Writes : calls[t].item \in Ids \cup {None}
  BY CallKinds DEF Writes, InFlight
<1>3. c.item \in Ids \cup {None}
  BY DEF Calls, Free
<1> QED
  BY <1>1, <1>2, <1>3 DEF SendWrite, TypeOK

LEMMA WriteTypes ==
    ASSUME TypeOK, NEW op \in {"create", "edit", "delete"}, NEW i \in Ids \cup {None},
           NEW v \in Values, op # "create" => i \in Ids
    PROVE  /\ Write(op, i, v) \in Calls
           /\ Write(op, i, v).op = op /\ Write(op, i, v).st = "sent"
           /\ Write(op, i, v).item = i /\ Write(op, i, v) # Free
<1>1. (op = "delete" /\ form.editing = i) \in BOOLEAN
  OBVIOUS
<1> QED
  BY <1>1 DEF Write, Calls, Free

LEMMA InitTypes == ASSUME Init PROVE TypeOK
BY DEF Init, TypeOK, Nothing, EmptyForm, FormStates, Calls, RowStates, Values, Unused, Gone

-----------------------------------------------------------------------------
(* What each kind of step does to the requests.                               *)

WriteCalls(ops, items) ==
    [op: ops, st: {"sent", "ok", "failed", "denied"}, item: items,
     value: Values, own: BOOLEAN]

LEMMA WriteCallTypes ==
    ASSUME TypeOK, NEW s \in Slots, s \in Writes
    PROVE  \E ops, items :
             /\ Ids \subseteq items
             /\ calls[s] \in WriteCalls(ops, items)
             /\ WriteCalls(ops, items) \subseteq Calls
<1>1. /\ calls[s].op \in {"create", "edit", "delete"}
      /\ calls[s] \in Calls
      /\ calls[s].op # "load" /\ calls[s] # Free
  BY CallKinds DEF Writes, TypeOK, InFlight
<1>2. CASE calls[s].op = "create"
  <2>1. calls[s] \in WriteCalls({"create"}, Ids \cup {None})
    BY <1>1, <1>2 DEF Calls, WriteCalls, Free
  <2>2. WriteCalls({"create"}, Ids \cup {None}) \subseteq Calls
    BY DEF Calls, WriteCalls
  <2> QED
    BY <2>1, <2>2
<1>3. CASE calls[s].op \in {"edit", "delete"}
  <2>1. calls[s] \in WriteCalls({"edit", "delete"}, Ids)
    BY <1>1, <1>3 DEF Calls, WriteCalls, Free
  <2>2. WriteCalls({"edit", "delete"}, Ids) \subseteq Calls
    BY DEF Calls, WriteCalls
  <2> QED
    BY <2>1, <2>2
<1> QED
  BY <1>1, <1>2, <1>3

LEMMA SuccessTypes ==
    ASSUME NEW ops, NEW items, NEW c \in WriteCalls(ops, items)
    PROVE  /\ [c EXCEPT !.st = "ok"] \in WriteCalls(ops, items)
           /\ [c EXCEPT !.st = "ok"].op = c.op
           /\ [c EXCEPT !.st = "ok"].st = "ok"
           /\ [c EXCEPT !.st = "ok"].value = c.value
BY DEF WriteCalls

LEMMA NumberedTypes ==
    ASSUME NEW ops, NEW items, NEW c \in WriteCalls(ops, items), NEW i \in items
    PROVE  /\ [c EXCEPT !.item = i] \in WriteCalls(ops, items)
           /\ [c EXCEPT !.item = i].op = c.op
           /\ [c EXCEPT !.item = i].item = i
           /\ [c EXCEPT !.item = i].st = c.st /\ [c EXCEPT !.item = i].value = c.value
BY DEF WriteCalls

LEMMA FailureTypes ==
    ASSUME NEW ops, NEW items, NEW c \in WriteCalls(ops, items),
           NEW st \in {"ok", "failed", "denied"}
    PROVE  /\ Failure(c, st) \in WriteCalls(ops, items)
           /\ Failure(c, st).op = c.op
           /\ Failure(c, st).st = st /\ Failure(c, st).item = c.item
<1>1. 1 \in Values
  BY DEF Values
<1> QED
  BY <1>1 DEF Failure, WriteCalls

LEMMA ServeWriteEffect ==
    ASSUME TypeOK, NEW s \in Slots, ServeWrite(s)
    PROVE  /\ s \in Writes /\ calls[s].st = "sent"
           /\ calls' \in [Slots -> Calls]
           /\ \A t \in Slots \ {s} : calls'[t] = calls[t]
           /\ calls'[s].op = calls[s].op
           /\ \/ /\ rows' = rows
                 /\ calls'[s].st \in {"failed", "denied"}
                 /\ calls'[s].item = calls[s].item
              \/ \E i \in Ids :
                   /\ calls[s].op = "create" => rows[i] = Unused
                   /\ calls[s].op # "create" => i = calls[s].item /\ rows[i] \in Values
                   /\ rows' = [rows EXCEPT ![i] = IF calls[s].op = "delete" THEN Gone
                                                  ELSE calls[s].value]
                   /\ calls'[s].item = i
                   /\ calls'[s].st \in {"ok", "failed"}
                   /\ calls'[s].st = "ok" => calls'[s].value = calls[s].value
<1> DEFINE c == calls[s]
<1>1. s \in Writes /\ c.st = "sent"
  BY DEF ServeWrite
<1>2. PICK ops, items :
        /\ Ids \subseteq items
        /\ c \in WriteCalls(ops, items)
        /\ WriteCalls(ops, items) \subseteq Calls
  BY <1>1, WriteCallTypes
<1> DEFINE W == WriteCalls(ops, items)
<1>3. calls \in [Slots -> Calls]
  BY DEF TypeOK
<1>4. \A d \in W : calls' = [calls EXCEPT ![s] = d] =>
        /\ calls' \in [Slots -> Calls]
        /\ \A t \in Slots \ {s} : calls'[t] = calls[t]
        /\ calls'[s] = d
  BY <1>2, <1>3
<1>5. CASE /\ calls' = [calls EXCEPT ![s] = Failure(c, IF session THEN "failed" ELSE "denied")]
           /\ UNCHANGED rows
  <2>1. PICK st \in {"failed", "denied"} : calls' = [calls EXCEPT ![s] = Failure(c, st)]
    BY <1>5
  <2>2. /\ Failure(c, st) \in W
        /\ Failure(c, st).op = c.op
        /\ Failure(c, st).st = st /\ Failure(c, st).item = c.item
    BY <1>2, FailureTypes
  <2> QED
    BY <1>1, <1>4, <1>5, <2>1, <2>2
<1>6. CASE \E i \in IF c.op = "create" THEN {j \in Ids : rows[j] = Unused}
                    ELSE {j \in {c.item} : rows[j] \in Values} :
              /\ rows' = [rows EXCEPT ![i] = IF c.op = "delete" THEN Gone ELSE c.value]
              /\ \E answer \in {[c EXCEPT !.st = "ok"], Failure(c, "failed")} :
                   calls' = [calls EXCEPT ![s] = [answer EXCEPT !.item = i]]
  <2>1. PICK i \in IF c.op = "create" THEN {j \in Ids : rows[j] = Unused}
                   ELSE {j \in {c.item} : rows[j] \in Values} :
              /\ rows' = [rows EXCEPT ![i] = IF c.op = "delete" THEN Gone ELSE c.value]
              /\ \E answer \in {[c EXCEPT !.st = "ok"], Failure(c, "failed")} :
                   calls' = [calls EXCEPT ![s] = [answer EXCEPT !.item = i]]
    BY <1>6
  <2>2. c.op # "create" => c.item \in Ids
    BY <1>1, CallKinds
  <2>3. i \in Ids
    BY <2>1, <2>2
  <2>4. PICK answer \in {[c EXCEPT !.st = "ok"], Failure(c, "failed")} :
          calls' = [calls EXCEPT ![s] = [answer EXCEPT !.item = i]]
    BY <2>1
  <2>5. /\ answer \in W /\ answer.op = c.op /\ answer.st \in {"ok", "failed"}
        /\ answer.st = "ok" => answer.value = c.value
    <3>1. CASE answer = [c EXCEPT !.st = "ok"]
      BY <1>2, <3>1, SuccessTypes
    <3>2. CASE answer = Failure(c, "failed")
      BY <1>2, <3>2, FailureTypes
    <3> QED
      BY <2>4, <3>1, <3>2
  <2>6. /\ [answer EXCEPT !.item = i] \in W
        /\ [answer EXCEPT !.item = i].op = answer.op
        /\ [answer EXCEPT !.item = i].item = i
        /\ [answer EXCEPT !.item = i].st = answer.st
        /\ [answer EXCEPT !.item = i].value = answer.value
    BY <1>2, <2>3, <2>5, NumberedTypes
  <2>7. /\ calls' \in [Slots -> Calls]
        /\ \A t \in Slots \ {s} : calls'[t] = calls[t]
        /\ calls'[s] = [answer EXCEPT !.item = i]
    BY <1>4, <2>4, <2>6
  <2>8. c.op = "create" => rows[i] = Unused
    BY <2>1
  <2>9. c.op # "create" => i = c.item /\ rows[i] \in Values
    BY <2>1
  <2> QED
    BY <1>1, <2>1, <2>3, <2>5, <2>6, <2>7, <2>8, <2>9
<1> QED
  BY <1>5, <1>6 DEF ServeWrite

LEMMA ServeLoadEffect ==
    ASSUME TypeOK, NEW s \in Slots, ServeLoad(s)
    PROVE  /\ s \in Loads /\ calls[s].st = "sent"
           /\ calls' \in [Slots -> Calls]
           /\ \A t \in Slots \ {s} : calls'[t] = calls[t]
           /\ calls'[s].op = "load" /\ calls'[s].st # "sent"
           /\ calls'[s].live = calls[s].live /\ calls'[s].alone = calls[s].alone
           /\ calls'[s].seen = rows
<1>1. s \in Loads /\ calls[s].st = "sent"
  BY DEF ServeLoad
<1>2. calls[s].live \in BOOLEAN /\ calls[s].alone \in BOOLEAN
  BY <1>1, CallKinds
<1>3. PICK st \in {"ok", "failed", "denied"} :
        calls' = [calls EXCEPT ![s] = [op |-> "load", st |-> st, live |-> calls[s].live,
                                       alone |-> calls[s].alone, seen |-> rows]]
  BY DEF ServeLoad
<1>4. [op |-> "load", st |-> st, live |-> calls[s].live,
       alone |-> calls[s].alone, seen |-> rows] \in Calls
  BY <1>2 DEF Calls, TypeOK
<1> QED
  BY <1>1, <1>3, <1>4 DEF TypeOK

(* The requests after one of them was answered: the others stay, but a 401    *)
(* kills the loads.                                                           *)
Kept(s) == \A t \in Slots \ {s} : calls'[t] = calls[t]
NoneLive(s) == \A t \in Loads \ {s} : calls'[t] = [calls[t] EXCEPT !.live = FALSE]
Leaves(s) ==
    /\ calls' \in [Slots -> Calls]
    /\ calls'[s] = Free
    /\ \A t \in Slots \ {s} : t \notin Loads => calls'[t] = calls[t]
    /\ Kept(s) \/ NoneLive(s)

LEMMA FreeTypes ==
    ASSUME TypeOK, NEW s \in Slots
    PROVE  /\ [calls EXCEPT ![s] = Free] \in [Slots -> Calls]
           /\ [calls EXCEPT ![s] = Free][s] = Free
           /\ \A t \in Slots \ {s} : [calls EXCEPT ![s] = Free][t] = calls[t]
BY DEF TypeOK, Calls

LEMMA ClearLeaves ==
    ASSUME TypeOK, NEW s \in Slots, NEW f \in FormStates,
           ClearOwnerSession(f, [calls EXCEPT ![s] = Free])
    PROVE  /\ Leaves(s) /\ NoneLive(s)
           /\ page' = "login" /\ detail' = "none" /\ shown' = Nothing
           /\ form' \in FormStates /\ form'.creating = f.creating
<1> DEFINE rest == [calls EXCEPT ![s] = Free]
<1>1. /\ rest \in [Slots -> Calls]
      /\ rest[s] = Free
      /\ \A t \in Slots \ {s} : rest[t] = calls[t]
  BY FreeTypes
<1> HIDE DEF rest
<1>2. /\ page' = "login" /\ detail' = "none" /\ shown' = Nothing
      /\ form' \in FormStates /\ form'.creating = f.creating
      /\ calls' \in [Slots -> Calls]
      /\ \A t \in Slots : /\ rest[t].op # "load" => calls'[t] = rest[t]
                          /\ rest[t].op = "load" => calls'[t] = [rest[t] EXCEPT !.live = FALSE]
  <2>1. ClearOwnerSession(f, rest)
    BY DEF rest
  <2> QED
    BY <1>1, <2>1, ClearTypes
<1>3. calls'[s] = Free
  BY <1>1, <1>2 DEF Free
<1>4. \A t \in Slots \ {s} : t \notin Loads => calls'[t] = calls[t]
  <2>1. ASSUME NEW t \in Slots, t \notin Loads
        PROVE  calls[t].op # "load"
    BY <2>1 DEF Loads, InFlight, Free
  <2> QED
    BY <1>1, <1>2, <2>1
<1>5. \A t \in Loads \ {s} : calls'[t] = [calls[t] EXCEPT !.live = FALSE]
  BY <1>1, <1>2 DEF Loads, InFlight
<1> QED
  BY <1>2, <1>3, <1>4, <1>5 DEF Leaves, NoneLive

LEMMA AnswerEffect ==
    ASSUME TypeOK, NEW s \in Slots, NEW op \in {"create", "edit", "delete"},
           NEW shownOk, NEW formOk \in FormStates, NEW formDone \in FormStates,
           formOk.creating = formDone.creating,
           Answer(s, op, shownOk, formOk, formDone)
    PROVE  /\ s \in Writes /\ calls[s].op = op /\ calls[s].st # "sent"
           /\ UNCHANGED <<session, section, rows>>
           /\ Leaves(s)
           /\ mixed' = Mix(calls[s])
           /\ form' \in FormStates /\ form'.creating = formDone.creating
           /\ \/ /\ calls[s].st = "ok" /\ shown' = shownOk
                 /\ UNCHANGED <<page, detail>> /\ Kept(s)
              \/ /\ calls[s].st # "ok" /\ shown' = Nothing
                 /\ page' = "login" /\ detail' = "none" /\ NoneLive(s)
              \/ /\ calls[s].st # "ok"
                 /\ UNCHANGED <<page, detail, shown>> /\ Kept(s)
<1> DEFINE rest == [calls EXCEPT ![s] = Free]
<1>1. calls' = rest => Leaves(s) /\ Kept(s)
  BY FreeTypes DEF Leaves, Kept
<1>2. /\ s \in Writes /\ calls[s].op = op /\ calls[s].st # "sent"
      /\ UNCHANGED <<session, section, rows>>
      /\ mixed' = Mix(calls[s])
  BY DEF Answer, serverVars
<1>3. CASE calls[s].st = "ok" /\ shown' = shownOk /\ form' = formOk /\ calls' = rest
           /\ UNCHANGED <<page, detail>>
  BY <1>1, <1>2, <1>3
<1>4. CASE calls[s].st = "denied" /\ ClearOwnerSession(formDone, rest)
  BY <1>2, <1>4, ClearLeaves
<1>5. CASE calls[s].st = "failed" /\ form' = formDone /\ calls' = rest
           /\ UNCHANGED <<page, detail, shown>>
  BY <1>1, <1>2, <1>5
<1> QED
  BY <1>3, <1>4, <1>5 DEF Answer

(* Which requests are writes and which are loads.                             *)
LEMMA Sorts ==
    ASSUME calls \in [Slots -> Calls]
    PROVE  /\ Writes = {s \in Slots : calls[s].op \in {"create", "edit", "delete"}}
           /\ Loads = {s \in Slots : calls[s].op = "load"}
<1>1. ASSUME NEW s \in Slots
      PROVE  /\ calls[s] = Free => calls[s].op = "free"
             /\ calls[s] # Free => calls[s].op \in {"load", "create", "edit", "delete"}
  <2>1. calls[s] \in Calls
    OBVIOUS
  <2> QED
    BY <2>1 DEF Calls, Free
<1> QED
  BY <1>1 DEF Writes, Loads, InFlight

LEMMA SortsPrimed ==
    ASSUME calls' \in [Slots -> Calls]
    PROVE  /\ Writes' = {s \in Slots : calls'[s].op \in {"create", "edit", "delete"}}
           /\ Loads' = {s \in Slots : calls'[s].op = "load"}
<1>1. ASSUME NEW s \in Slots
      PROVE  /\ calls'[s] = Free => calls'[s].op = "free"
             /\ calls'[s] # Free => calls'[s].op \in {"load", "create", "edit", "delete"}
  <2>1. calls'[s] \in Calls
    OBVIOUS
  <2> QED
    BY <2>1 DEF Calls, Free
<1> QED
  BY <1>1 DEF Writes, Loads, InFlight

(* A load that a 401 kills is the same load otherwise.                        *)
LEMMA Killed ==
    ASSUME TypeOK, NEW s \in Loads
    PROVE  LET c == [calls[s] EXCEPT !.live = FALSE]
           IN  /\ c.op = "load" /\ c.st = calls[s].st
               /\ c.live = FALSE /\ c.alone = calls[s].alone
               /\ c.st # "sent" => c.seen = calls[s].seen
<1>1. s \in Slots /\ calls[s] \in Calls /\ calls[s].op = "load"
  BY DEF Loads, InFlight, TypeOK, Free
<1>2. \/ calls[s] \in [op: {"load"}, st: {"sent"}, live: BOOLEAN, alone: BOOLEAN]
      \/ calls[s] \in [op: {"load"}, st: {"ok", "failed", "denied"}, live: BOOLEAN,
                       alone: BOOLEAN, seen: [Ids -> RowStates]]
  BY <1>1 DEF Calls, Free
<1> QED
  BY <1>2

(* The same when a write is sent beside it.                                   *)
LEMMA NoLongerAlone ==
    ASSUME TypeOK, NEW s \in Loads
    PROVE  LET c == [calls[s] EXCEPT !.alone = FALSE]
           IN  /\ c.op = "load" /\ c.st = calls[s].st
               /\ c.live = calls[s].live /\ c.alone = FALSE
               /\ c.st # "sent" => c.seen = calls[s].seen
<1>1. s \in Slots /\ calls[s] \in Calls /\ calls[s].op = "load"
  BY DEF Loads, InFlight, TypeOK, Free
<1>2. \/ calls[s] \in [op: {"load"}, st: {"sent"}, live: BOOLEAN, alone: BOOLEAN]
      \/ calls[s] \in [op: {"load"}, st: {"ok", "failed", "denied"}, live: BOOLEAN,
                       alone: BOOLEAN, seen: [Ids -> RowStates]]
  BY <1>1 DEF Calls, Free
<1> QED
  BY <1>2

(* After an answer, the other writes are what they were, and so are the loads *)
(* that still live.                                                           *)
LEMMA LeavesEffect ==
    ASSUME TypeOK, NEW s \in Slots, Leaves(s)
    PROVE  /\ Writes' = Writes \ {s}
           /\ Loads' = Loads \ {s}
           /\ \A t \in Writes \ {s} : calls'[t] = calls[t]
           /\ \A t \in Loads \ {s} :
                /\ calls'[t].live => calls[t].live
                /\ calls'[t].alone = calls[t].alone /\ calls'[t].st = calls[t].st
                /\ calls[t].st # "sent" => calls'[t].seen = calls[t].seen
<1>1. calls \in [Slots -> Calls] /\ calls' \in [Slots -> Calls]
  BY DEF TypeOK, Leaves
<1>2. ASSUME NEW t \in Loads \ {s}
      PROVE  /\ calls'[t].op = "load"
             /\ calls'[t].live => calls[t].live
             /\ calls'[t].alone = calls[t].alone /\ calls'[t].st = calls[t].st
             /\ calls[t].st # "sent" => calls'[t].seen = calls[t].seen
  <2>1. t \in Slots /\ calls[t].op = "load"
    BY DEF Loads, InFlight
  <2>2. calls'[t] = calls[t] \/ calls'[t] = [calls[t] EXCEPT !.live = FALSE]
    BY <2>1 DEF Leaves, Kept, NoneLive
  <2>3. CASE calls'[t] = calls[t]
    BY <2>1, <2>3
  <2>4. CASE calls'[t] = [calls[t] EXCEPT !.live = FALSE]
    BY <2>4, Killed
  <2> QED
    BY <2>2, <2>3, <2>4
<1>3. ASSUME NEW t \in Slots \ {s}, t \notin Loads
      PROVE  calls'[t] = calls[t]
  BY <1>3 DEF Leaves
<1>4. calls'[s].op = "free"
  BY DEF Leaves, Free
<1>5. \A t \in Slots : t \in Loads' <=> t \in Loads \ {s}
  BY <1>1, <1>2, <1>3, <1>4, Sorts, SortsPrimed
<1>6. \A t \in Slots : t \in Writes' <=> t \in Writes \ {s}
  BY <1>1, <1>2, <1>3, <1>4, Sorts, SortsPrimed
<1>7. Writes' \subseteq Slots /\ Loads' \subseteq Slots /\ Writes \subseteq Slots /\ Loads \subseteq Slots
  BY DEF Writes, Loads, InFlight
<1>8. Writes \cap Loads = {}
  BY DEF Writes, Loads
<1>9. Writes' = Writes \ {s} /\ Loads' = Loads \ {s}
  BY <1>5, <1>6, <1>7
<1> QED
  BY <1>2, <1>3, <1>7, <1>8, <1>9

-----------------------------------------------------------------------------
(* Every kind of step keeps the invariant.                                    *)

LEMMA ServeWriteKeeps ==
    ASSUME ConstantsOK, IInv, NEW s \in Slots, ServeWrite(s)
    PROVE  IInv'
<1> USE DEF IInv
<1>1. /\ s \in Writes /\ calls[s].st = "sent"
      /\ calls' \in [Slots -> Calls]
      /\ \A t \in Slots \ {s} : calls'[t] = calls[t]
      /\ calls'[s].op = calls[s].op /\ calls'[s].st # "sent"
      /\ UNCHANGED <<session, section, page, detail, shown, form, mixed>>
  BY ServeWriteEffect DEF ServeWrite, pageVars
<1>2. Writes' = Writes /\ Loads' = Loads
  BY <1>1, Sorts, SortsPrimed DEF TypeOK
<1>3. Writes \subseteq Slots /\ Loads \subseteq Slots /\ Writes \cap Loads = {}
  BY DEF Writes, Loads, InFlight
<1>4. CreationsOK'
  BY <1>1, <1>2, <1>3 DEF CreationsOK
<1>5. \A t \in Loads : ~calls[t].alone /\ calls'[t] = calls[t]
  BY <1>1, <1>3 DEF LoadsOK
<1>6. LoadsOK'
  BY <1>1, <1>2, <1>5 DEF LoadsOK
<1>7. CASE /\ rows' = rows
           /\ calls'[s].st \in {"failed", "denied"}
           /\ calls'[s].item = calls[s].item
  <2>1. TypeOK'
    BY <1>1, <1>7 DEF TypeOK
  <2>2. \A i : About(i)' = About(i)
    BY <1>1, <1>2, <1>3, <1>7 DEF About
  <2>3. UnusedOK'
    BY <1>1, <1>2, <1>5, <1>7, <2>2 DEF UnusedOK
  <2>4. OneEach'
    BY <1>1, <2>2 DEF OneEach
  <2>5. OnScreen(rows)' = OnScreen(rows)
    BY <1>7 DEF OnScreen
  <2>6. RowsOK'
    <3> SUFFICES ASSUME Ready', NEW i \in Ids \ mixed'
                 PROVE  /\ (About(i) = {} => shown[i] = OnScreen(rows)[i])'
                        /\ \A t \in About(i)' : Told(i, calls[t])'
      BY DEF RowsOK
    <3>1. Ready /\ i \in Ids \ mixed
      BY <1>1 DEF Ready
    <3>2. (About(i) = {} => shown[i] = OnScreen(rows)[i])'
      BY <1>1, <2>2, <2>5, <3>1 DEF RowsOK
    <3>3. ASSUME NEW t \in About(i)'
          PROVE  Told(i, calls[t])'
      <4>1. t \in About(i) /\ t \in Slots
        BY <2>2, <1>3 DEF About
      <4>2. CASE t = s
        BY <1>1, <1>7, <4>2 DEF Told
      <4>3. CASE t # s
        BY <1>1, <1>7, <2>5, <3>1, <4>1, <4>3 DEF Told, RowsOK
      <4> QED
        BY <4>2, <4>3
    <3> QED
      BY <3>2, <3>3
  <2> QED
    BY <1>4, <1>6, <2>1, <2>3, <2>4, <2>6
<1>8. ASSUME NEW i \in Ids,
             calls[s].op = "create" => rows[i] = Unused,
             calls[s].op # "create" => i = calls[s].item /\ rows[i] \in Values,
             rows' = [rows EXCEPT ![i] = IF calls[s].op = "delete" THEN Gone
                                         ELSE calls[s].value],
             calls'[s].item = i,
             calls'[s].st \in {"ok", "failed"},
             calls'[s].st = "ok" => calls'[s].value = calls[s].value
      PROVE  IInv'
  <2>1. calls[s].value \in Values /\ calls[s].op \in {"create", "edit", "delete"}
    BY <1>1, CallKinds
  <2>2. /\ rows' \in [Ids -> RowStates]
        /\ rows'[i] = IF calls[s].op = "delete" THEN Gone ELSE calls[s].value
        /\ \A j \in Ids \ {i} : rows'[j] = rows[j]
        /\ rows'[i] # Unused
    BY <1>8, <2>1 DEF TypeOK, RowStates, Values, Gone, Unused
  <2>3. TypeOK'
    BY <1>1, <2>2 DEF TypeOK
  <2>4. calls[s].op = "create" => About(i) = {} /\ shown[i] = <<>>
    BY <1>8 DEF UnusedOK
  <2>5. \A j \in Ids \ {i} : About(j)' = About(j)
    <3> SUFFICES ASSUME NEW j \in Ids \ {i}
                 PROVE  About(j)' = About(j)
      OBVIOUS
    <3>1. calls[s].item # j
      BY <1>1, <1>8 DEF ConstantsOK, CreationsOK
    <3> QED
      BY <1>1, <1>2, <1>3, <1>8, <3>1 DEF About
  <2>6. About(i)' = About(i) \cup {s}
    BY <1>1, <1>2, <1>3, <1>8 DEF About
  <2>7. UnusedOK'
    BY <1>1, <1>2, <1>5, <2>2, <2>5 DEF UnusedOK
  <2>8. OneEach'
    <3> SUFFICES ASSUME NEW j \in Ids \ mixed', NEW t \in About(j)', NEW u \in About(j)'
                 PROVE  t = u
      BY DEF OneEach
    <3>1. CASE j # i
      BY <1>1, <2>5, <3>1 DEF OneEach
    <3>2. CASE j = i /\ calls[s].op = "create"
      BY <2>4, <2>6, <3>2
    <3>3. CASE j = i /\ calls[s].op # "create"
      <4>1. s \in About(i)
        BY <1>1, <1>8, <3>3 DEF About
      <4> QED
        BY <1>1, <2>6, <3>3, <4>1 DEF OneEach
    <3> QED
      BY <3>1, <3>2, <3>3
  <2>9. RowsOK'
    <3> SUFFICES ASSUME Ready', NEW j \in Ids \ mixed'
                 PROVE  /\ (About(j) = {} => shown[j] = OnScreen(rows)[j])'
                        /\ \A t \in About(j)' : Told(j, calls[t])'
      BY DEF RowsOK
    <3>1. Ready /\ j \in Ids \ mixed
      BY <1>1 DEF Ready
    <3>2. CASE j # i
      <4>1. OnScreen(rows)'[j] = OnScreen(rows)[j]
        BY <2>2, <3>1, <3>2 DEF OnScreen
      <4>2. (About(j) = {} => shown[j] = OnScreen(rows)[j])'
        BY <1>1, <2>5, <3>1, <3>2, <4>1 DEF RowsOK
      <4>3. ASSUME NEW t \in About(j)'
            PROVE  Told(j, calls[t])'
        <5>1. t \in About(j) /\ t \in Slots
          BY <1>3, <2>5, <3>1, <3>2 DEF About
        <5>2. t # s
          BY <1>8, <3>2, <4>3 DEF About
        <5> QED
          BY <1>1, <2>2, <3>1, <3>2, <4>1, <5>1, <5>2 DEF Told, RowsOK
      <4> QED
        BY <4>2, <4>3
    <3>3. CASE j = i
      <4>1. \A t \in About(i)' : t = s
        BY <1>1, <2>4, <2>6, <2>8, <3>1, <3>3 DEF OneEach
      <4>2. calls[s].op = "edit" => Len(shown[i]) = 1
        <5> SUFFICES ASSUME calls[s].op = "edit" PROVE Len(shown[i]) = 1
          OBVIOUS
        <5>1. s \in About(i)
          BY <1>1, <1>8 DEF About
        <5>2. Told(i, calls[s])
          BY <3>1, <3>3, <5>1 DEF RowsOK
        <5>3. shown[i] = <<rows[i]>>
          BY <1>1, <1>8, <5>2 DEF Told, OnScreen
        <5> QED
          BY <5>3
      <4>3. Told(i, calls[s])'
        BY <1>1, <1>8, <2>1, <2>2, <2>4, <4>2 DEF Told
      <4> QED
        BY <2>6, <3>3, <4>1, <4>3
    <3> QED
      BY <3>2, <3>3
  <2> QED
    BY <1>4, <1>6, <2>3, <2>7, <2>8, <2>9
<1> QED
  BY <1>7, <1>8, ServeWriteEffect

LEMMA ServeLoadKeeps ==
    ASSUME IInv, NEW s \in Slots, ServeLoad(s)
    PROVE  IInv'
<1> USE DEF IInv
<1>1. /\ s \in Loads /\ calls[s].st = "sent"
      /\ calls' \in [Slots -> Calls]
      /\ \A t \in Slots \ {s} : calls'[t] = calls[t]
      /\ calls'[s].op = "load" /\ calls'[s].st # "sent"
      /\ calls'[s].live = calls[s].live /\ calls'[s].alone = calls[s].alone
      /\ calls'[s].seen = rows
  BY ServeLoadEffect
<1>2. UNCHANGED <<session, rows, section, page, detail, shown, form, mixed>>
  BY DEF ServeLoad, serverVars, pageVars
<1>3. calls[s].op = "load"
  BY <1>1 DEF Loads
<1>4. Writes' = Writes /\ Loads' = Loads
  BY <1>1, <1>3, Sorts, SortsPrimed DEF TypeOK
<1>5. s \notin Writes /\ Writes \subseteq Slots /\ Loads \subseteq Slots
  BY <1>1 DEF Writes, Loads, InFlight
<1>6. TypeOK'
  BY <1>1, <1>2 DEF TypeOK
<1>7. CreationsOK'
  BY <1>1, <1>2, <1>4, <1>5 DEF CreationsOK
<1>8. LoadsOK'
  BY <1>1, <1>2, <1>4, <1>5 DEF LoadsOK
<1>9. \A i : About(i)' = About(i)
  BY <1>1, <1>4, <1>5 DEF About
<1>10. UnusedOK'
  BY <1>1, <1>2, <1>4, <1>5, <1>9 DEF UnusedOK
<1>11. OneEach'
  BY <1>2, <1>9 DEF OneEach
<1>12. \A i : \A t \in About(i) : calls'[t] = calls[t]
  BY <1>1, <1>5 DEF About
<1>13. RowsOK'
  BY <1>2, <1>9, <1>12 DEF RowsOK, Ready, Told, OnScreen
<1> QED
  BY <1>6, <1>7, <1>8, <1>10, <1>11, <1>13

(* A write is answered.  Its row is the only one whose card changes, and is   *)
(* on the screen as it is on the server if nothing overlapped.                *)
LEMMA AnswerKeeps ==
    ASSUME ConstantsOK, IInv, NEW s \in Slots, NEW op \in {"create", "edit", "delete"},
           NEW shownOk \in [Ids -> Seq(Values)], NEW formOk \in FormStates, NEW formDone \in FormStates,
           formOk.creating = formDone.creating,
           op # "create" => formDone.creating = form.creating,
           Answer(s, op, shownOk, formOk, formDone),
           \A j \in Ids : j # calls[s].item => shownOk[j] = shown[j],
           \A j \in Ids : /\ j = calls[s].item /\ calls[s].st = "ok"
                          /\ Told(j, calls[s])
                          => shownOk[j] = OnScreen(rows)[j]
    PROVE  IInv'
<1> USE DEF IInv
<1>1. /\ s \in Writes /\ calls[s].op = op /\ calls[s].st # "sent"
      /\ UNCHANGED <<session, section, rows>>
      /\ Leaves(s)
      /\ mixed' = Mix(calls[s])
      /\ form' \in FormStates /\ form'.creating = formDone.creating
  BY AnswerEffect
<1>2. \/ /\ calls[s].st = "ok" /\ shown' = shownOk
         /\ UNCHANGED <<page, detail>> /\ Kept(s)
      \/ /\ calls[s].st # "ok" /\ shown' = Nothing
         /\ page' = "login" /\ detail' = "none" /\ NoneLive(s)
      \/ /\ calls[s].st # "ok"
         /\ UNCHANGED <<page, detail, shown>> /\ Kept(s)
  BY AnswerEffect
<1>3. /\ Writes' = Writes \ {s}
      /\ Loads' = Loads \ {s}
      /\ \A t \in Writes \ {s} : calls'[t] = calls[t]
      /\ \A t \in Loads \ {s} :
           /\ calls'[t].live => calls[t].live
           /\ calls'[t].alone = calls[t].alone /\ calls'[t].st = calls[t].st
           /\ calls[t].st # "sent" => calls'[t].seen = calls[t].seen
  BY <1>1, LeavesEffect
<1>4. calls[s].item \in Ids \cup {None} /\ calls' \in [Slots -> Calls]
  BY <1>1, CallKinds DEF Leaves
<1>5. /\ mixed \subseteq mixed' /\ mixed' \subseteq Ids
      /\ calls[s].st # "ok" /\ calls[s].item \in Ids => calls[s].item \in mixed'
  BY <1>1, <1>4 DEF Mix, TypeOK, ConstantsOK
<1>6. TypeOK'
  BY <1>1, <1>2, <1>4, <1>5, NothingTypes DEF TypeOK
<1>7. CreationsOK'
  BY <1>1, <1>3 DEF CreationsOK
<1>8. LoadsOK'
  <2>1. \A t \in Loads' : calls'[t].live => page' = "editor" /\ detail' = "loading"
    <3>1. CASE UNCHANGED <<page, detail>>
      BY <1>3, <3>1 DEF LoadsOK
    <3>2. CASE NoneLive(s)
      <4>1. ASSUME NEW t \in Loads'
            PROVE  ~calls'[t].live
        BY <1>3, <3>2, <4>1, Killed DEF NoneLive
      <4> QED
        BY <4>1
    <3> QED
      BY <1>2, <3>1, <3>2
  <2> QED
    BY <1>1, <1>3, <2>1 DEF LoadsOK
<1>9. \A i \in Ids : About(i)' = About(i) \ {s}
  BY <1>3 DEF About
<1>10. \A i \in Ids \ {calls[s].item} : s \notin About(i)
  BY DEF About
<1>11. UnusedOK'
  <2> SUFFICES ASSUME NEW i \in Ids, rows'[i] = Unused
               PROVE  /\ shown'[i] = <<>>
                      /\ About(i)' = {}
                      /\ \A t \in Loads' : calls'[t].st # "sent" => calls'[t].seen[i] = Unused
    BY DEF UnusedOK
  <2>1. /\ rows[i] = Unused /\ shown[i] = <<>> /\ About(i) = {}
        /\ \A t \in Loads : calls[t].st # "sent" => calls[t].seen[i] = Unused
    BY <1>1 DEF UnusedOK
  <2>2. i # calls[s].item
    BY <1>1, <2>1 DEF About
  <2>3. shown'[i] = <<>>
    BY <1>2, <2>1, <2>2 DEF Nothing
  <2> QED
    BY <1>3, <1>9, <2>1, <2>3
<1>12. OneEach'
  BY <1>5, <1>9 DEF OneEach
<1>13. RowsOK'
  <2> SUFFICES ASSUME Ready', NEW i \in Ids \ mixed'
               PROVE  /\ (About(i) = {} => shown[i] = OnScreen(rows)[i])'
                      /\ \A t \in About(i)' : Told(i, calls[t])'
    BY DEF RowsOK
  <2>1. /\ Ready /\ i \in Ids \ mixed
        /\ UNCHANGED <<page, detail>>
        /\ OnScreen(rows)' = OnScreen(rows)
    BY <1>1, <1>2, <1>5 DEF Ready, OnScreen
  <2>2. CASE i # calls[s].item
    <3>1. About(i)' = About(i) /\ \A t \in About(i) : calls'[t] = calls[t]
      BY <1>3, <1>9, <1>10, <2>1, <2>2 DEF About
    <3>2. shown'[i] = shown[i]
      BY <1>2, <2>1, <2>2 DEF Ready
    <3> QED
      BY <1>1, <2>1, <3>1, <3>2 DEF RowsOK, Told
  <2>3. CASE i = calls[s].item
    <3>1. s \in About(i)
      BY <1>1, <2>3 DEF About
    <3>2. About(i)' = {}
      BY <1>9, <2>1, <3>1 DEF OneEach
    <3>3. calls[s].st = "ok" /\ Told(i, calls[s])
      BY <1>5, <2>1, <2>3, <3>1 DEF RowsOK
    <3>4. shown'[i] = OnScreen(rows)[i]
      BY <1>2, <2>1, <2>3, <3>3
    <3> QED
      BY <2>1, <3>2, <3>4
  <2> QED
    BY <2>2, <2>3
<1> QED
  BY <1>6, <1>7, <1>8, <1>11, <1>12, <1>13

LEMMA OneCard ==
    ASSUME NEW q \in Seq(Values), Len(q) = 1, NEW v \in Values
    PROVE  [k \in DOMAIN q |-> v] = <<v>>
OBVIOUS

LEMMA NewAnsweredKeeps ==
    ASSUME ConstantsOK, IInv, NEW s \in Slots, NewAnswered(s)
    PROVE  IInv'
<1> DEFINE done == [form EXCEPT !.creating = FALSE]
<1>1. done \in FormStates /\ done.creating = done.creating
  BY DEF IInv, TypeOK, FormStates
<1>2. Answer(s, "create", Appended(calls[s]), done, done)
  BY DEF NewAnswered
<1> HIDE DEF done
<1>3. s \in Writes /\ calls[s].op = "create"
  BY <1>2 DEF Answer
<1>4. Appended(calls[s]) \in [Ids -> Seq(Values)] /\ shown \in [Ids -> Seq(Values)]
  BY <1>3, CardTypes DEF IInv, TypeOK
<1>5. \A j \in Ids : j # calls[s].item => Appended(calls[s])[j] = shown[j]
  BY <1>4 DEF Appended
<1>6. calls[s].value \in Values
  BY <1>3, CallKinds DEF IInv
<1>7. ASSUME NEW j \in Ids, j = calls[s].item, calls[s].st = "ok", Told(j, calls[s])
      PROVE  Appended(calls[s])[j] = OnScreen(rows)[j]
  <2>1. shown[j] = <<>> /\ rows[j] = calls[s].value
    BY <1>3, <1>7 DEF Told
  <2>2. Appended(calls[s])[j] = Append(<<>>, calls[s].value)
    BY <1>4, <1>7, <2>1 DEF Appended
  <2> QED
    BY <1>6, <2>1, <2>2 DEF OnScreen
<1> QED
  BY <1>1, <1>2, <1>4, <1>5, <1>7, AnswerKeeps

LEMMA RowAnsweredKeeps ==
    ASSUME ConstantsOK, IInv, NEW s \in Slots, RowAnswered(s)
    PROVE  IInv'
<1>1. PICK f \in FormStates, g \in FormStates :
        /\ f.creating = form.creating
        /\ g.creating = form.creating
        /\ \/ Answer(s, "edit", Replaced(calls[s]), f, g)
           \/ Answer(s, "delete", Filtered(calls[s]), f, g)
  BY DEF RowAnswered
<1>2. shown \in [Ids -> Seq(Values)]
  BY DEF IInv, TypeOK
<1>3. s \in Writes
  BY <1>1 DEF Answer
<1>4. Replaced(calls[s]) \in [Ids -> Seq(Values)] /\ Filtered(calls[s]) \in [Ids -> Seq(Values)]
  BY <1>3, CardTypes DEF IInv
<1>5. calls[s].value \in Values
  BY <1>3, CallKinds DEF IInv
<1>6. CASE Answer(s, "edit", Replaced(calls[s]), f, g)
  <2>1. calls[s].op = "edit"
    BY <1>6 DEF Answer
  <2>2. \A j \in Ids : j # calls[s].item => Replaced(calls[s])[j] = shown[j]
    BY <1>2 DEF Replaced
  <2>3. ASSUME NEW j \in Ids, j = calls[s].item, calls[s].st = "ok", Told(j, calls[s])
        PROVE  Replaced(calls[s])[j] = OnScreen(rows)[j]
    <3>1. Len(shown[j]) = 1 /\ rows[j] = calls[s].value /\ shown[j] \in Seq(Values)
      BY <1>2, <2>1, <2>3 DEF Told
    <3>2. Replaced(calls[s])[j] = [k \in DOMAIN shown[j] |-> calls[s].value]
      BY <1>2, <2>3 DEF Replaced
    <3>3. Replaced(calls[s])[j] = <<calls[s].value>>
      BY <1>5, <3>1, <3>2, OneCard
    <3> QED
      BY <1>5, <3>1, <3>3 DEF OnScreen
  <2> QED
    BY <1>1, <1>4, <1>6, <2>2, <2>3, AnswerKeeps
<1>7. CASE Answer(s, "delete", Filtered(calls[s]), f, g)
  <2>1. calls[s].op = "delete"
    BY <1>7 DEF Answer
  <2>2. \A j \in Ids : j # calls[s].item => Filtered(calls[s])[j] = shown[j]
    BY <1>2 DEF Filtered
  <2>3. ASSUME NEW j \in Ids, j = calls[s].item, calls[s].st = "ok", Told(j, calls[s])
        PROVE  Filtered(calls[s])[j] = OnScreen(rows)[j]
    <3>1. rows[j] = Gone
      BY <2>1, <2>3 DEF Told
    <3>2. Filtered(calls[s])[j] = <<>>
      BY <1>2, <2>3 DEF Filtered
    <3> QED
      BY <3>1, <3>2 DEF OnScreen, Gone, Values
  <2> QED
    BY <1>1, <1>4, <1>7, <2>2, <2>3, AnswerKeeps
<1> QED
  BY <1>1, <1>6, <1>7

(* A write is sent.  It is about a row that is on the screen, or about none   *)
(* yet.                                                                       *)
LEMMA SentKeeps ==
    ASSUME ConstantsOK, IInv, NEW s \in Slots, NEW op \in {"create", "edit", "delete"},
           NEW i \in Ids \cup {None}, NEW v \in Values, NEW f \in FormStates,
           Request(s, Write(op, i, v), f),
           op # "create" => i \in Ids /\ Visible(i) /\ f.creating = form.creating,
           op = "create" => i = None /\ ~form.creating /\ f.creating
    PROVE  IInv'
<1> USE DEF IInv
<1> DEFINE c == Write(op, i, v)
<1>1. c \in Calls /\ c.op = op /\ c.st = "sent" /\ c.item = i /\ c # Free
  BY WriteTypes
<1>2. UNCHANGED <<session, rows, section, page, detail, shown>> /\ form' = f
  BY DEF Request, serverVars
<1>3. SendWrite(s, c)
  BY DEF Request
<1> HIDE DEF c
<1>4. /\ calls' \in [Slots -> Calls]
      /\ mixed' \in SUBSET Ids
      /\ calls'[s] = c
      /\ \A t \in Slots \ {s} :
           /\ t \in Loads => calls'[t] = [calls[t] EXCEPT !.alone = FALSE]
           /\ t \notin Loads => calls'[t] = calls[t]
  BY <1>1, <1>3, SendWriteTypes
<1>5. s \notin Writes /\ s \notin Loads
  BY <1>3, CallKinds DEF SendWrite
<1>6. \A t \in Loads : /\ calls'[t].op = "load" /\ calls'[t].st = calls[t].st
                       /\ calls'[t].live = calls[t].live /\ calls'[t].alone = FALSE
                       /\ calls'[t].st # "sent" => calls'[t].seen = calls[t].seen
  <2> SUFFICES ASSUME NEW t \in Loads
               PROVE  /\ calls'[t].op = "load" /\ calls'[t].st = calls[t].st
                      /\ calls'[t].live = calls[t].live /\ calls'[t].alone = FALSE
                      /\ calls'[t].st # "sent" => calls'[t].seen = calls[t].seen
    OBVIOUS
  <2>1. calls'[t] = [calls[t] EXCEPT !.alone = FALSE]
    BY <1>4, <1>5 DEF Loads, InFlight
  <2> QED
    BY <2>1, NoLongerAlone
<1>7. Writes \subseteq Slots /\ Loads \subseteq Slots
  BY DEF Writes, Loads, InFlight
<1>8. Writes' = Writes \cup {s} /\ Loads' = Loads
  <2>1. calls \in [Slots -> Calls]
    BY DEF TypeOK
  <2>2. \A t \in Slots : t \in Loads' <=> t \in Loads
    BY <1>1, <1>4, <1>6, <2>1, Sorts, SortsPrimed
  <2>3. \A t \in Slots : t \in Writes' <=> t \in Writes \cup {s}
    BY <1>1, <1>4, <1>5, <1>6, <2>1, Sorts, SortsPrimed
  <2>4. Writes' \subseteq Slots /\ Loads' \subseteq Slots
    BY DEF Writes, Loads, InFlight
  <2> QED
    BY <1>7, <2>2, <2>3, <2>4
<1>9. \A t \in Writes : calls'[t] = calls[t]
  BY <1>4, <1>5, <1>7 DEF Writes, Loads
<1>10. /\ mixed \subseteq mixed'
       /\ \A j \in Ids : j = i /\ About(j) # {} => j \in mixed'
  <2>1. mixed' = mixed \cup ({i} \cap ({calls[t].item : t \in Writes} \ {None}))
    BY <1>1, <1>3 DEF SendWrite
  <2> QED
    BY <2>1 DEF About, ConstantsOK
<1>11. TypeOK'
  BY <1>2, <1>4 DEF TypeOK
<1>12. CreationsOK'
  BY <1>1, <1>2, <1>4, <1>5, <1>8, <1>9 DEF CreationsOK
<1>13. LoadsOK'
  BY <1>2, <1>6, <1>8 DEF LoadsOK
<1>14. \A j \in Ids : About(j)' = IF j = i THEN About(j) \cup {s} ELSE About(j)
  BY <1>1, <1>4, <1>5, <1>8, <1>9 DEF About
<1>15. i \in Ids => rows[i] # Unused
  BY DEF UnusedOK, Visible, ConstantsOK
<1>16. UnusedOK'
  BY <1>2, <1>6, <1>8, <1>14, <1>15 DEF UnusedOK
<1>17. OneEach'
  BY <1>10, <1>14 DEF OneEach
<1>18. OnScreen(rows)' = OnScreen(rows) /\ (Ready' <=> Ready)
  BY <1>2 DEF OnScreen, Ready
<1>19. RowsOK'
  <2> SUFFICES ASSUME Ready', NEW j \in Ids \ mixed'
               PROVE  /\ (About(j) = {} => shown[j] = OnScreen(rows)[j])'
                      /\ \A t \in About(j)' : Told(j, calls[t])'
    BY DEF RowsOK
  <2>1. Ready /\ j \in Ids \ mixed
    BY <1>10, <1>18
  <2>2. /\ About(j) = {} => shown[j] = OnScreen(rows)[j]
        /\ \A t \in About(j) : Told(j, calls[t]) /\ calls'[t] = calls[t]
    BY <1>9, <2>1 DEF RowsOK, About
  <2>3. \A t \in About(j) : Told(j, calls[t])'
    BY <1>2, <1>18, <2>2 DEF Told
  <2>4. CASE j # i
    BY <1>2, <1>14, <1>18, <2>1, <2>2, <2>3, <2>4
  <2>5. CASE j = i
    <3>1. About(j) = {} /\ About(j)' = {s}
      BY <1>10, <1>14, <2>1, <2>5
    <3>2. Told(j, calls[s])'
      BY <1>1, <1>2, <1>4, <1>18, <2>2, <3>1 DEF Told
    <3> QED
      BY <3>1, <3>2
  <2> QED
    BY <2>4, <2>5
<1> QED
  BY <1>11, <1>12, <1>13, <1>16, <1>17, <1>19

LEMMA SubmitNewKeeps ==
    ASSUME ConstantsOK, IInv, NEW s \in Slots, SubmitNew(s)
    PROVE  IInv'
<1> DEFINE f == [form EXCEPT !.creating = TRUE]
<1>1. f \in FormStates /\ f.creating
  BY DEF IInv, TypeOK, FormStates
<1>2. Request(s, Write("create", None, 1), f) /\ ~form.creating
  BY DEF SubmitNew
<1> HIDE DEF f
<1>3. 1 \in Values
  BY DEF Values
<1> QED
  BY <1>1, <1>2, <1>3, SentKeeps

LEMMA RowSentKeeps ==
    ASSUME ConstantsOK, IInv, NEW s \in Slots, RowSent(s)
    PROVE  IInv'
<1>1. PICK i \in Ids, op \in {"edit", "delete"}, v \in Values, f \in FormStates :
        /\ Visible(i)
        /\ f.creating = form.creating
        /\ Request(s, Write(op, i, v), f)
  BY DEF RowSent
<1> QED
  BY <1>1, SentKeeps

(* The lists are asked for: no load lives while the trip is not selected.     *)
LEMMA SelectTripKeeps ==
    ASSUME ConstantsOK, IInv, NEW s \in Slots, SelectTrip(s)
    PROVE  IInv'
<1> USE DEF IInv
<1>1. /\ page = "loading" /\ page' = "editor" /\ detail' = "loading"
      /\ form' = TripChanged(form)
      /\ shown' = Nothing \/ shown' = shown
      /\ UNCHANGED <<session, rows, section, mixed>>
  BY DEF SelectTrip, SendLoad, serverVars
<1>2. form' \in FormStates /\ form'.creating = form.creating
  BY <1>1, TripChangedKeeps DEF TypeOK
<1>3. (Writes = {}) \in BOOLEAN
  OBVIOUS
<1>4. PICK a \in BOOLEAN :
        /\ a <=> Writes = {}
        /\ calls[s] = Free
        /\ calls' = [calls EXCEPT ![s] = [op |-> "load", st |-> "sent", live |-> TRUE,
                                          alone |-> a]]
  BY <1>3 DEF SelectTrip, SendLoad
<1>5. [op |-> "load", st |-> "sent", live |-> TRUE, alone |-> a] \in Calls
  BY DEF Calls
<1>6. /\ calls' \in [Slots -> Calls]
      /\ calls'[s].op = "load" /\ calls'[s].st = "sent" /\ calls'[s].alone = a
      /\ \A t \in Slots \ {s} : calls'[t] = calls[t]
  BY <1>4, <1>5 DEF TypeOK
<1>7. s \notin Writes /\ s \notin Loads /\ Writes \subseteq Slots /\ Loads \subseteq Slots
  BY <1>4 DEF Writes, Loads, InFlight
<1>8. Writes' = Writes /\ Loads' = Loads \cup {s}
  BY ZenonT(60), <1>6, <1>7, Sorts, SortsPrimed DEF TypeOK
<1>9. \A t \in Loads : ~calls[t].live
  BY <1>1 DEF LoadsOK
<1>10. TypeOK'
  BY <1>1, <1>2, <1>6, NothingTypes DEF TypeOK
<1>11. CreationsOK'
  BY <1>2, <1>6, <1>7, <1>8 DEF CreationsOK
<1>12. LoadsOK'
  <2>1. \A t \in Loads' : calls'[t].alone => Writes' = {}
    BY <1>4, <1>6, <1>7, <1>8 DEF LoadsOK
  <2>2. \A t \in Loads' : calls'[t].alone /\ calls'[t].st = "ok" => calls'[t].seen = rows'
    BY <1>1, <1>6, <1>7, <1>8 DEF LoadsOK
  <2>3. \A t \in Loads : ~calls'[t].live
    BY <1>6, <1>7, <1>9
  <2> QED
    BY <1>1, <1>8, <2>1, <2>2, <2>3 DEF LoadsOK
<1>13. \A i : About(i)' = About(i)
  BY <1>6, <1>7, <1>8 DEF About
<1>14. UnusedOK'
  BY <1>1, <1>6, <1>7, <1>8, <1>13 DEF UnusedOK, Nothing
<1>15. OneEach'
  BY <1>1, <1>13 DEF OneEach
<1>16. RowsOK'
  BY <1>1 DEF RowsOK, Ready
<1> QED
  BY <1>10, <1>11, <1>12, <1>14, <1>15, <1>16

(* What a load that is over leaves, if the list on the screen is right.       *)
LEMMA LoadOverKeeps ==
    ASSUME IInv, NEW s \in Slots, s \in Loads, Leaves(s),
           TypeOK', UNCHANGED rows, form'.creating = form.creating,
           mixed \subseteq mixed',
           \A t \in Loads \ {s} : calls'[t].live => page' = "editor" /\ detail' = "loading",
           \A i \in Ids : rows[i] = Unused => shown'[i] = <<>>,
           RowsOK'
    PROVE  IInv'
<1> USE DEF IInv
<1>1. /\ Writes' = Writes \ {s}
      /\ Loads' = Loads \ {s}
      /\ \A t \in Writes \ {s} : calls'[t] = calls[t]
      /\ \A t \in Loads \ {s} :
           /\ calls'[t].live => calls[t].live
           /\ calls'[t].alone = calls[t].alone /\ calls'[t].st = calls[t].st
           /\ calls[t].st # "sent" => calls'[t].seen = calls[t].seen
  BY LeavesEffect
<1>2. Writes' = Writes
  BY <1>1, CallKinds
<1>3. \A t \in Writes : calls'[t] = calls[t]
  BY <1>1, CallKinds
<1>4. CreationsOK'
  BY <1>2, <1>3 DEF CreationsOK
<1>5. LoadsOK'
  BY <1>1, <1>2 DEF LoadsOK
<1>6. \A i : About(i)' = About(i)
  BY <1>2, <1>3 DEF About
<1>7. UnusedOK'
  BY <1>1, <1>6 DEF UnusedOK
<1>8. OneEach'
  BY <1>6 DEF OneEach
<1> QED
  BY <1>4, <1>5, <1>7, <1>8

LEMMA LoadCancelledKeeps ==
    ASSUME IInv, NEW s \in Slots, LoadCancelled(s)
    PROVE  IInv'
<1> USE DEF IInv
<1>1. /\ s \in Loads /\ calls' = [calls EXCEPT ![s] = Free]
      /\ UNCHANGED <<session, rows, section, page, detail, shown, form, mixed>>
  BY DEF LoadCancelled, serverVars, pageVars
<1>2. /\ Leaves(s)
      /\ \A t \in Slots \ {s} : calls'[t] = calls[t]
  BY <1>1, FreeTypes DEF Leaves, Kept
<1>3. TypeOK'
  BY <1>1, <1>2 DEF TypeOK, Leaves
<1>4. \A t \in Loads \ {s} : calls'[t].live => page' = "editor" /\ detail' = "loading"
  BY <1>1, <1>2 DEF LoadsOK, Loads, InFlight
<1>5. \A i \in Ids : rows[i] = Unused => shown'[i] = <<>>
  BY <1>1 DEF UnusedOK
<1>6. Writes' = Writes
  BY ZenonT(60), <1>1, <1>2, LeavesEffect, CallKinds
<1>7. \A i : About(i)' = About(i) /\ \A t \in About(i) : calls'[t] = calls[t]
  BY <1>1, <1>2, <1>6, CallKinds DEF About, Writes, InFlight
<1>8. RowsOK'
  BY <1>1, <1>7 DEF RowsOK, Ready, Told, OnScreen
<1> QED
  BY <1>1, <1>2, <1>3, <1>4, <1>5, <1>8, LoadOverKeeps

LEMMA LoadAnsweredKeeps ==
    ASSUME IInv, NEW s \in Slots, LoadAnswered(s)
    PROVE  IInv'
<1> USE DEF IInv
<1> DEFINE rest == [calls EXCEPT ![s] = Free]
<1>1. s \in Loads /\ calls[s].st # "sent" /\ calls[s].live
      /\ UNCHANGED <<session, rows, section>>
  BY DEF LoadAnswered, serverVars
<1>2. page = "editor" /\ detail = "loading"
  BY <1>1 DEF LoadsOK
<1>3. \A t \in Loads \ {s} : ~calls[t].live
  BY <1>1 DEF LoadsOK
<1>4. calls' = rest => Leaves(s) /\ \A t \in Loads \ {s} : ~calls'[t].live
  BY <1>3, FreeTypes DEF Leaves, Kept, Loads, InFlight
<1>5. form \in FormStates /\ mixed \subseteq Ids
  BY DEF TypeOK
<1>6. CASE /\ calls[s].st = "ok"
           /\ shown' = OnScreen(calls[s].seen)
           /\ detail' = "ready"
           /\ mixed' = (IF calls[s].alone THEN {} ELSE Ids)
           /\ calls' = rest
           /\ UNCHANGED <<page, form>>
  <2>1. calls[s].seen \in [Ids -> RowStates]
    <3>1. calls[s] \in Calls /\ calls[s].op = "load"
      BY <1>1 DEF TypeOK, Loads
    <3> QED
      BY <1>1, <3>1 DEF Calls, Free
  <2>2. TypeOK'
    BY <1>1, <1>4, <1>6, <2>1, ScreenTypes DEF TypeOK, Leaves
  <2>3. CreationsOK' /\ LoadsOK' /\ UnusedOK'
    <3>1. /\ Writes' = Writes
          /\ Loads' = Loads \ {s}
          /\ \A t \in Writes : calls'[t] = calls[t]
          /\ \A t \in Loads \ {s} :
               /\ calls'[t].alone = calls[t].alone /\ calls'[t].st = calls[t].st
               /\ calls[t].st # "sent" => calls'[t].seen = calls[t].seen
      <4>1. s \notin Writes
        BY <1>1 DEF Writes, Loads
      <4>2. Leaves(s)
        BY <1>4, <1>6
      <4> QED
        BY <4>1, <4>2, LeavesEffect
    <3>2. \A i : About(i)' = About(i)
      BY <3>1 DEF About
    <3>3. \A i \in Ids : rows[i] = Unused => calls[s].seen[i] = Unused
      BY <1>1, <1>6 DEF UnusedOK
    <3>4. UnusedOK'
      BY <1>1, <1>6, <3>1, <3>2, <3>3 DEF UnusedOK, OnScreen, Unused, Values
    <3>5. CreationsOK'
      BY <1>6, <3>1 DEF CreationsOK
    <3>6. LoadsOK'
      BY <1>1, <1>4, <1>6, <3>1 DEF LoadsOK
    <3> QED
      BY <3>4, <3>5, <3>6
  <2>4. CASE ~calls[s].alone
    <3>1. OneEach' /\ RowsOK'
      BY <1>6, <2>4 DEF OneEach, RowsOK
    <3> QED
      BY <2>2, <2>3, <3>1
  <2>5. CASE calls[s].alone
    <3>1. Writes = {} /\ calls[s].seen = rows
      BY <1>1, <1>6, <2>5 DEF LoadsOK
    <3>2. Writes' = {}
      BY <1>1, <1>4, <1>6, <3>1, LeavesEffect
    <3>3. OneEach' /\ \A i : About(i)' = {}
      BY <3>2 DEF OneEach, About
    <3>4. shown' = OnScreen(rows)'
      BY <1>1, <1>6, <3>1 DEF OnScreen
    <3>5. RowsOK'
      BY <3>3, <3>4 DEF RowsOK
    <3> QED
      BY <2>2, <2>3, <3>3, <3>5
  <2> QED
    BY <2>4, <2>5
<1>7. CASE /\ calls[s].st = "failed"
           /\ shown' = Nothing
           /\ detail' = "failed"
           /\ calls' = rest
           /\ UNCHANGED <<page, form, mixed>>
  <2>1. TypeOK'
    BY <1>1, <1>4, <1>7, NothingTypes DEF TypeOK, Leaves
  <2>2. RowsOK'
    BY <1>7 DEF RowsOK, Ready
  <2>3. \A i \in Ids : shown'[i] = <<>>
    BY <1>7 DEF Nothing
  <2> QED
    BY <1>1, <1>4, <1>7, <2>1, <2>2, <2>3, LoadOverKeeps
<1>8. CASE ClearOwnerSession(form, rest) /\ UNCHANGED mixed
  <2>1. /\ Leaves(s) /\ NoneLive(s)
        /\ page' = "login" /\ detail' = "none" /\ shown' = Nothing
        /\ form' \in FormStates /\ form'.creating = form.creating
    BY <1>5, <1>8, ClearLeaves
  <2>2. TypeOK'
    BY <1>1, <1>8, <2>1, NothingTypes DEF TypeOK, Leaves
  <2>3. RowsOK'
    BY <2>1 DEF RowsOK, Ready
  <2>4. \A i \in Ids : shown'[i] = <<>>
    BY <2>1 DEF Nothing
  <2>5. ASSUME NEW t \in Loads \ {s}
        PROVE  ~calls'[t].live
    BY <2>1, <2>5, Killed DEF NoneLive
  <2> QED
    BY <1>1, <1>8, <2>1, <2>2, <2>3, <2>4, <2>5, LoadOverKeeps
<1> QED
  BY <1>6, <1>7, <1>8 DEF LoadAnswered

-----------------------------------------------------------------------------
LEMMA Initially == ASSUME Init PROVE IInv
<1>1. TypeOK
  BY InitTypes
<1>2. \A s \in Slots : calls[s] = Free
  BY DEF Init
<1>3. Writes = {} /\ Loads = {}
  BY <1>2 DEF Writes, Loads, InFlight
<1>4. \A i : About(i) = {}
  BY <1>3 DEF About
<1>5. CreationsOK /\ LoadsOK
  BY <1>3 DEF CreationsOK, LoadsOK
<1>6. UnusedOK /\ OneEach
  BY <1>3, <1>4 DEF UnusedOK, OneEach, Init, Nothing
<1>7. RowsOK
  BY DEF Init, RowsOK, Ready
<1> QED
  BY <1>1, <1>5, <1>6, <1>7 DEF IInv

LEMMA SurroundingsKeep ==
    ASSUME IInv, Press \/ SessionExpires \/ SignInAgain \/ UNCHANGED vars
    PROVE  IInv'
<1> USE DEF IInv
<1>1. /\ UNCHANGED <<rows, section, detail, shown, calls, mixed>>
      /\ session' \in BOOLEAN
      /\ form' \in FormStates /\ form'.creating = form.creating
      /\ page' = page \/ (page = "login" /\ page' = "loading")
  BY DEF Press, User, SessionExpires, SignInAgain, vars, serverVars, pageVars, TypeOK
<1>2. TypeOK'
  BY <1>1 DEF TypeOK
<1>3. Writes' = Writes /\ Loads' = Loads
  BY <1>1 DEF Writes, Loads, InFlight
<1>4. \A i : About(i)' = About(i)
  BY <1>1, <1>3 DEF About
<1>5. CreationsOK' /\ LoadsOK'
  BY <1>1, <1>3 DEF CreationsOK, LoadsOK
<1>6. UnusedOK' /\ OneEach'
  BY <1>1, <1>3, <1>4 DEF UnusedOK, OneEach
<1>7. RowsOK'
  BY <1>1, <1>4 DEF RowsOK, Ready, Told, OnScreen
<1> QED
  BY <1>2, <1>5, <1>6, <1>7

LEMMA StepKeeps ==
    ASSUME ConstantsOK, IInv, [Next]_vars
    PROVE  IInv'
<1>1. CASE Next
  <2>1. SessionExpires \/ SignInAgain \/ Press \/ \E s \in Slots : Kinds(s)
    BY <1>1, StepKinds DEF IInv
  <2>2. ASSUME NEW s \in Slots, Kinds(s)
        PROVE  IInv'
    BY <2>2, ServeWriteKeeps, ServeLoadKeeps, SelectTripKeeps, LoadCancelledKeeps,
       LoadAnsweredKeeps, SubmitNewKeeps, NewAnsweredKeeps, RowSentKeeps, RowAnsweredKeeps
       DEF Kinds
  <2> QED
    BY <2>1, <2>2, SurroundingsKeep
<1>2. CASE UNCHANGED vars
  BY <1>2, SurroundingsKeep
<1> QED
  BY <1>1, <1>2

LEMMA CreationsAreOne == ASSUME IInv PROVE OneCreationInFlight
<1> DEFINE S == {s \in Writes : calls[s].op = "create"}
<1>1. \A s, t \in S : s = t
  BY DEF IInv, CreationsOK
<1>2. CASE S = {}
  BY <1>2, FS_EmptySet DEF OneCreationInFlight
<1>3. CASE S # {}
  <2>1. PICK s : S = {s}
    BY <1>1, <1>3
  <2>2. Cardinality(S) = 1
    BY <2>1, FS_Singleton
  <2> QED
    BY <2>2 DEF OneCreationInFlight
<1> QED
  BY <1>2, <1>3

LEMMA CardsMatch == ASSUME IInv PROVE ListMatchesServer
<1> SUFFICES ASSUME Ready, NEW i \in Ids \ mixed, Quiet(i)
             PROVE  shown[i] = OnScreen(rows)[i]
  BY DEF ListMatchesServer, Ready
<1>1. About(i) = {}
  BY DEF Quiet, About, Writes
<1> QED
  BY <1>1 DEF IInv, RowsOK

-----------------------------------------------------------------------------
LEMMA Invariance == ASSUME ConstantsOK PROVE Spec => []IInv
<1>1. Init => IInv
  BY Initially
<1>2. IInv /\ [Next]_vars => IInv'
  BY StepKeeps
<1> QED
  BY <1>1, <1>2, PTL DEF Spec

(* The state of the page and of the server keep their types.                  *)
THEOREM EditorTypes == ASSUME ConstantsOK PROVE Spec => []TypeOK
<1>1. IInv => TypeOK
  BY DEF IInv
<1> QED
  BY <1>1, Invariance, PTL

(* A create form never has two requests in flight: signing out and in again   *)
(* leaves its button locked until the answer comes.                           *)
THEOREM OneCreation == ASSUME ConstantsOK PROVE Spec => []OneCreationInFlight
<1>1. IInv => OneCreationInFlight
  BY CreationsAreOne
<1> QED
  BY <1>1, Invariance, PTL

(* Rows whose requests did not overlap are on the screen as the server has    *)
(* them, whatever the other requests did.                                     *)
THEOREM ListIsRight == ASSUME ConstantsOK PROVE Spec => []ListMatchesServer
<1>1. IInv => ListMatchesServer
  BY CardsMatch
<1> QED
  BY <1>1, Invariance, PTL

================================================================================
