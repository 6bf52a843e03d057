------------------------------ MODULE TripEditor -------------------------------
(* The page /manage/trips/:id/edit/:section of the web app: one section of   *)
(* one trip, its create form, its list with an edit form and delete buttons,  *)
(* the requests in flight and the rows of the server they are about.          *)
(*                                                                            *)
(* useTripManageDetailData loads the lists, and three hooks of one shape      *)
(* (schedules, places, flights) and one of a looser shape (checklist) write.  *)
(* A request is sent, served and answered in three steps; answers may         *)
(* overtake each other, and a failed one may or may not have been carried     *)
(* out.  This page is the only writer of the rows.                            *)
EXTENDS Naturals, FiniteSets, Sequences

CONSTANTS
    Ids,        \* ids the server may give to rows of the section
    Sections,   \* sections a page may be opened for
    Slots,      \* requests that may be in flight at once
    FirstRow,   \* the row the trip has when the page is opened
    None        \* no row

(* What a theorem about this module assumes of the constants.                 *)
ConstantsOK == None \notin Ids

Values == 1..2          \* what a row may hold; 1 unchecked, 2 checked
Unused == 0             \* an id the server has not given yet
Gone == 3               \* a deleted row
RowStates == Values \cup {Unused, Gone}

VARIABLES
    section,      \* the section in the path, fixed while the page lives
    session,      \* the server accepts the session cookie
    page,         \* "login", "loading" (the trip list) or "editor"
    rows,         \* the server: the state of every row
    detail,       \* "none", "loading", "ready" or "failed"
    shown,        \* for every id, the values of its cards on the screen
    form,         \* the create form and the list's edit form
    calls         \* the requests in flight

(* History: rows whose requests overlapped, so that the order of the answers  *)
(* need not be the order of the commits, or whose answers were lost.          *)
VARIABLE mixed

serverVars == <<session, rows>>
pageVars == <<section, page, detail, shown, form>>
vars == <<serverVars, pageVars, calls, mixed>>

Free == [op |-> "free"]

(* A request: for "load", seen is the answer, live is reset when a later      *)
(* effect cancels it, and alone tells that no write was in flight together    *)
(* with it; for a write, own tells that the edit form was open for the row    *)
(* when its delete was pressed.                                               *)
Calls ==
    {Free}
      \cup [op: {"load"}, st: {"sent"}, live: BOOLEAN, alone: BOOLEAN]
      \cup [op: {"load"}, st: {"ok", "failed", "denied"}, live: BOOLEAN,
            alone: BOOLEAN, seen: [Ids -> RowStates]]
      \cup [op: {"create"}, st: {"sent", "ok", "failed", "denied"},
            item: Ids \cup {None}, value: Values, own: BOOLEAN]
      \cup [op: {"edit", "delete"}, st: {"sent", "ok", "failed", "denied"},
            item: Ids, value: Values, own: BOOLEAN]

FormStates == [creating: BOOLEAN, listEditing: BOOLEAN, editing: Ids \cup {None},
          saving: BOOLEAN, deleting: Ids \cup {None}]

EmptyForm == [creating |-> FALSE, listEditing |-> FALSE, editing |-> None,
              saving |-> FALSE, deleting |-> None]

TypeOK ==
    /\ section \in Sections
    /\ session \in BOOLEAN
    /\ page \in {"login", "loading", "editor"}
    /\ rows \in [Ids -> RowStates]
    /\ detail \in {"none", "loading", "ready", "failed"}
    /\ shown \in [Ids -> Seq(Values)]
    /\ form \in FormStates
    /\ calls \in [Slots -> Calls]
    /\ mixed \in SUBSET Ids

InFlight == {s \in Slots : calls[s] # Free}
Writes == {s \in InFlight : calls[s].op # "load"}
Loads == {s \in InFlight : calls[s].op = "load"}
Nothing == [i \in Ids |-> <<>>]

-----------------------------------------------------------------------------
(* Forms.                                                                          *)

(* cancelXEdit: the edit form is emptied, and its button unlocked with it.    *)
CancelEdit(f) == [f EXCEPT !.editing = None, !.saving = FALSE]

(* resetXManageForm and prepareXManageForm run when the selected trip becomes *)
(* another object or none.  They leave the lock of the create form alone.     *)
UnlockCreation(f) == CancelEdit([f EXCEPT !.creating = FALSE, !.deleting = None])
ResetScheduleForm(f) == CancelEdit([f EXCEPT !.listEditing = FALSE, !.deleting = None])
ResetPlaceForm(f) == ResetScheduleForm(f)
ResetFlightForm(f) == ResetScheduleForm(f)

(* useSelectedOwnerTripLifecycle, for the forms of this section.  The         *)
(* checklist has no part in it.                                               *)
TripChanged(f) ==
    CASE section = "schedules" -> ResetScheduleForm(f)
      [] section = "places" -> ResetPlaceForm(f)
      [] section = "flights" -> ResetFlightForm(f)
      [] OTHER -> f

-----------------------------------------------------------------------------
(* Requests.                                                                  *)

Write(op, i, v) == [op |-> op, st |-> "sent", item |-> i, value |-> v,
                    own |-> op = "delete" /\ form.editing = i]

SendWrite(s, c) ==
    /\ calls[s] = Free
    /\ calls' = [t \in Slots |-> IF t = s THEN c
                                 ELSE IF t \in Loads THEN [calls[t] EXCEPT !.alone = FALSE]
                                 ELSE calls[t]]
    /\ mixed' = mixed \cup ({c.item} \cap ({calls[t].item : t \in Writes} \ {None}))

SendLoad(s) ==
    /\ calls[s] = Free
    /\ calls' = [calls EXCEPT ![s] = [op |-> "load", st |-> "sent", live |-> TRUE,
                                      alone |-> Writes = {}]]
    /\ UNCHANGED mixed

(* The server carries a write out, refuses it, or it is lost on the way; the  *)
(* answer of one that was carried out may be lost as well.  What came of a    *)
(* row is in the answer only when it is a success.                            *)
Failure(c, st) == [c EXCEPT !.st = st, !.value = 1, !.own = FALSE]

ServeWrite(s) ==
    /\ s \in Writes
    /\ calls[s].st = "sent"
    /\ LET c == calls[s] IN
       \/ /\ calls' = [calls EXCEPT ![s] = Failure(c, IF session THEN "failed" ELSE "denied")]
          /\ UNCHANGED rows
       \/ /\ session
          /\ \E i \in IF c.op = "create" THEN {j \in Ids : rows[j] = Unused}
                      ELSE {j \in {c.item} : rows[j] \in Values} :
               /\ rows' = [rows EXCEPT ![i] = IF c.op = "delete" THEN Gone ELSE c.value]
               /\ \E answer \in {[c EXCEPT !.st = "ok"], Failure(c, "failed")} :
                    calls' = [calls EXCEPT ![s] = [answer EXCEPT !.item = i]]
    /\ UNCHANGED <<session, pageVars, mixed>>

ServeLoad(s) ==
    /\ s \in Loads
    /\ calls[s].st = "sent"
    /\ \E st \in IF session THEN {"ok", "failed"} ELSE {"failed", "denied"} :
         calls' = [calls EXCEPT ![s] = [op |-> "load", st |-> st, live |-> calls[s].live,
                                        alone |-> calls[s].alone, seen |-> rows]]
    /\ UNCHANGED <<serverVars, pageVars, mixed>>

(* A 401 ends the session on this page: clearOwnerSession drops the account,  *)
(* the trips and with them the selected one, and the lists; the effects that  *)
(* depend on them cancel what they loaded and reset the forms.                *)
ClearOwnerSession(f, cs) ==
    /\ page' = "login"
    /\ detail' = "none"
    /\ shown' = Nothing
    /\ form' = TripChanged(f)
    /\ calls' = [t \in Slots |-> IF cs[t].op = "load" THEN [cs[t] EXCEPT !.live = FALSE]
                                 ELSE cs[t]]

(* What an answer leaves: the row is promised to be on the screen as it is on *)
(* the server only if the answer tells what happened.                         *)
Mix(c) == IF c.st = "ok" THEN mixed ELSE mixed \cup ({c.item} \ {None})

(* One write is answered.  shownOk and formOk are the list and the form after *)
(* the success path of its handler, formDone the form after its finally alone. *)
Answer(s, op, shownOk, formOk, formDone) ==
    LET c == calls[s]
        rest == [calls EXCEPT ![s] = Free]
    IN  /\ s \in Writes
        /\ c.op = op
        /\ c.st # "sent"
        /\ mixed' = Mix(c)
        /\ \/ /\ c.st = "ok"
              /\ shown' = shownOk
              /\ form' = formOk
              /\ calls' = rest
              /\ UNCHANGED <<page, detail>>
           \/ /\ c.st = "denied"
              /\ ClearOwnerSession(formDone, rest)
           \/ /\ c.st = "failed"
              /\ form' = formDone
              /\ calls' = rest
              /\ UNCHANGED <<page, detail, shown>>
        /\ UNCHANGED <<serverVars, section>>

(* The functional updates of the list: append, replace by id, filter by id.   *)
Appended(c) == [shown EXCEPT ![c.item] = Append(@, c.value)]
ReplacedInForm(c) == [shown EXCEPT ![form.editing] = [k \in DOMAIN @ |-> c.value]]
Replaced(c) == [shown EXCEPT ![c.item] = [k \in DOMAIN @ |-> c.value]]
Filtered(c) == [shown EXCEPT ![c.item] = <<>>]

NewAnswered(s) ==
    LET done == [form EXCEPT !.creating = FALSE]
    IN  Answer(s, "create", Appended(calls[s]), done, done)

(* Whatever form is open when the answer comes is closed and unlocked.        *)
EditAnswered(s) ==
    Answer(s, "edit", Replaced(calls[s]), CancelEdit(form), [form EXCEPT !.saving = FALSE])

(* The handler closes the edit form only if it was open for the deleted row   *)
(* when the delete was pressed.                                               *)
DeleteAnswered(s) ==
    LET done == [form EXCEPT !.deleting = None]
    IN  Answer(s, "delete", Filtered(calls[s]),
               IF calls[s].own THEN CancelEdit(done) ELSE done, done)

-----------------------------------------------------------------------------
(* Loading.                                                                   *)

(* The trip list arrived and the trip of the path is selected: the effects    *)
(* prepare the forms and load the lists.  The create form is on the page from *)
(* now on, the lists when they are there.                                     *)
SelectTrip(s) ==
    /\ page = "loading"
    /\ page' = "editor"
    /\ form' = TripChanged(form)
    /\ detail' = "loading"
    /\ shown' = IF section = "checklist" THEN Nothing ELSE shown
    /\ SendLoad(s)
    /\ UNCHANGED <<serverVars, section>>

(* A cancelled load changes nothing.                                          *)
LoadCancelled(s) ==
    /\ s \in Loads
    /\ calls[s].st # "sent"
    /\ ~calls[s].live
    /\ calls' = [calls EXCEPT ![s] = Free]
    /\ UNCHANGED <<serverVars, pageVars, mixed>>

OnScreen(seen) == [i \in Ids |-> IF seen[i] \in Values THEN <<seen[i]>> ELSE <<>>]

LoadAnswered(s) ==
    LET c == calls[s]
        rest == [calls EXCEPT ![s] = Free]
    IN  /\ s \in Loads
        /\ c.st # "sent"
        /\ c.live
        /\ \/ /\ c.st = "ok"
              /\ shown' = OnScreen(c.seen)
              /\ detail' = "ready"
              /\ mixed' = IF c.alone THEN {} ELSE Ids
              /\ calls' = rest
              /\ UNCHANGED <<page, form>>
           \/ /\ c.st = "failed"
              /\ shown' = Nothing
              /\ detail' = "failed"
              /\ calls' = rest
              /\ UNCHANGED <<page, form, mixed>>
           \/ /\ c.st = "denied"
              /\ ClearOwnerSession(form, rest)
              /\ UNCHANGED mixed
        /\ UNCHANGED <<serverVars, section>>

-----------------------------------------------------------------------------
(* What the user does.  Cards of a list are there when it is loaded; those of *)
(* the checklist whenever it is not loading.                                  *)
Visible(i) ==
    /\ page = "editor"
    /\ \/ detail = "ready"
       \/ section = "checklist" /\ detail # "loading"
    /\ shown[i] # <<>>

User(f) ==
    /\ form' = f
    /\ UNCHANGED <<serverVars, section, page, detail, shown, calls, mixed>>

Request(s, c, f) ==
    /\ form' = f
    /\ SendWrite(s, c)
    /\ UNCHANGED <<serverVars, section, page, detail, shown>>

(* The create form is on the page as soon as the trip is, whatever the lists  *)
(* are doing.                                                                 *)
SubmitNew(s) ==
    /\ page = "editor"
    /\ ~form.creating
    /\ Request(s, Write("create", None, 1), [form EXCEPT !.creating = TRUE])

ToggleListEditing ==
    /\ page = "editor"
    /\ \E i \in Ids : shown[i] # <<>>
    /\ User(IF form.listEditing THEN CancelEdit([form EXCEPT !.listEditing = FALSE])
            ELSE [form EXCEPT !.listEditing = TRUE])

StartEdit(i) ==
    /\ Visible(i)
    /\ form.listEditing
    /\ User([form EXCEPT !.editing = i])

EditFormOpen == form.listEditing /\ form.editing # None /\ Visible(form.editing)

SubmitEdit(s) ==
    /\ EditFormOpen
    /\ ~form.saving
    /\ \E v \in Values :
         Request(s, Write("edit", form.editing, v), [form EXCEPT !.saving = TRUE])

PressCancel ==
    /\ EditFormOpen
    /\ ~form.saving
    /\ User(CancelEdit(form))

PressDelete(s, i) ==
    /\ Visible(i)
    /\ form.listEditing
    /\ form.deleting # i
    /\ Request(s, Write("delete", i, 1), [form EXCEPT !.deleting = i])

-----------------------------------------------------------------------------
(* The handlers of each section.                                              *)

SubmitNewSchedule(s) == section = "schedules" /\ SubmitNew(s)
NewScheduleAnswered(s) == section = "schedules" /\ NewAnswered(s)
ChangeScheduleListEditing == section = "schedules" /\ ToggleListEditing
StartScheduleEdit(i) == section = "schedules" /\ StartEdit(i)
CancelScheduleEdit == section = "schedules" /\ PressCancel
SubmitScheduleEdit(s) == section = "schedules" /\ SubmitEdit(s)
ScheduleEditAnswered(s) == section = "schedules" /\ EditAnswered(s)
DeleteOwnerSchedule(s, i) == section = "schedules" /\ PressDelete(s, i)
ScheduleDeleteAnswered(s) == section = "schedules" /\ DeleteAnswered(s)

SubmitNewPlace(s) == section = "places" /\ SubmitNew(s)
NewPlaceAnswered(s) == section = "places" /\ NewAnswered(s)
ChangePlaceListEditing == section = "places" /\ ToggleListEditing
StartPlaceEdit(i) == section = "places" /\ StartEdit(i)
CancelPlaceEdit == section = "places" /\ PressCancel
SubmitPlaceEdit(s) == section = "places" /\ SubmitEdit(s)
PlaceEditAnswered(s) == section = "places" /\ EditAnswered(s)
DeleteOwnerPlace(s, i) == section = "places" /\ PressDelete(s, i)
PlaceDeleteAnswered(s) == section = "places" /\ DeleteAnswered(s)

SubmitNewFlight(s) == section = "flights" /\ SubmitNew(s)
NewFlightAnswered(s) == section = "flights" /\ NewAnswered(s)
ChangeFlightListEditing == section = "flights" /\ ToggleListEditing
StartFlightEdit(i) == section = "flights" /\ StartEdit(i)
CancelFlightEdit == section = "flights" /\ PressCancel
SubmitFlightEdit(s) == section = "flights" /\ SubmitEdit(s)
FlightEditAnswered(s) == section = "flights" /\ EditAnswered(s)
DeleteOwnerFlight(s, i) == section = "flights" /\ PressDelete(s, i)
FlightDeleteAnswered(s) == section = "flights" /\ DeleteAnswered(s)

(* The checklist: adding is locked while it is in flight, the check boxes and *)
(* the delete buttons never are.                                              *)
HandleAddChecklistItem(s) == section = "checklist" /\ SubmitNew(s)
ChecklistItemAdded(s) == section = "checklist" /\ NewAnswered(s)
HandleToggleChecklistItem(s, i) ==
    /\ section = "checklist"
    /\ Visible(i)
    /\ \E k \in DOMAIN shown[i] : Request(s, Write("edit", i, 3 - shown[i][k]), form)
ChecklistItemToggled(s) ==
    section = "checklist" /\ Answer(s, "edit", Replaced(calls[s]), form, form)
HandleDeleteChecklistItem(s, i) ==
    section = "checklist" /\ Visible(i) /\ Request(s, Write("delete", i, 1), form)
ChecklistItemDeleted(s) ==
    section = "checklist" /\ Answer(s, "delete", Filtered(calls[s]), form, form)

-----------------------------------------------------------------------------
(* The surroundings: the session, and signing in again.                       *)

SessionExpires ==
    /\ session
    /\ session' = FALSE
    /\ UNCHANGED <<rows, pageVars, calls, mixed>>

SignInAgain ==
    /\ page = "login"
    /\ page' = "loading"
    /\ session' = TRUE
    /\ UNCHANGED <<rows, section, detail, shown, form, calls, mixed>>

-----------------------------------------------------------------------------
Init ==
    /\ section \in Sections
    /\ session = TRUE
    /\ page = "loading"
    /\ rows = [i \in Ids |-> IF i = FirstRow THEN 1 ELSE Unused]
    /\ detail = "none"
    /\ shown = Nothing
    /\ form = EmptyForm
    /\ calls = [s \in Slots |-> Free]
    /\ mixed = {}

ScheduleSteps(s) ==
    \/ SubmitNewSchedule(s) \/ NewScheduleAnswered(s)
    \/ ChangeScheduleListEditing \/ CancelScheduleEdit
    \/ SubmitScheduleEdit(s) \/ ScheduleEditAnswered(s) \/ ScheduleDeleteAnswered(s)
    \/ \E i \in Ids : StartScheduleEdit(i) \/ DeleteOwnerSchedule(s, i)

PlaceSteps(s) ==
    \/ SubmitNewPlace(s) \/ NewPlaceAnswered(s)
    \/ ChangePlaceListEditing \/ CancelPlaceEdit
    \/ SubmitPlaceEdit(s) \/ PlaceEditAnswered(s) \/ PlaceDeleteAnswered(s)
    \/ \E i \in Ids : StartPlaceEdit(i) \/ DeleteOwnerPlace(s, i)

FlightSteps(s) ==
    \/ SubmitNewFlight(s) \/ NewFlightAnswered(s)
    \/ ChangeFlightListEditing \/ CancelFlightEdit
    \/ SubmitFlightEdit(s) \/ FlightEditAnswered(s) \/ FlightDeleteAnswered(s)
    \/ \E i \in Ids : StartFlightEdit(i) \/ DeleteOwnerFlight(s, i)

ChecklistSteps(s) ==
    \/ HandleAddChecklistItem(s) \/ ChecklistItemAdded(s)
    \/ ChecklistItemToggled(s) \/ ChecklistItemDeleted(s)
    \/ \E i \in Ids : HandleToggleChecklistItem(s, i) \/ HandleDeleteChecklistItem(s, i)

Network(s) == ServeWrite(s) \/ ServeLoad(s)

(* An answer that has come is handled by the page.                            *)
Answers(s) ==
    \/ LoadCancelled(s) \/ LoadAnswered(s)
    \/ NewScheduleAnswered(s) \/ ScheduleEditAnswered(s) \/ ScheduleDeleteAnswered(s)
    \/ NewPlaceAnswered(s) \/ PlaceEditAnswered(s) \/ PlaceDeleteAnswered(s)
    \/ NewFlightAnswered(s) \/ FlightEditAnswered(s) \/ FlightDeleteAnswered(s)
    \/ ChecklistItemAdded(s) \/ ChecklistItemToggled(s) \/ ChecklistItemDeleted(s)

Next ==
    \/ SessionExpires \/ SignInAgain
    \/ \E s \in Slots :
         \/ Network(s) \/ SelectTrip(s) \/ LoadCancelled(s) \/ LoadAnswered(s)
         \/ ScheduleSteps(s) \/ PlaceSteps(s) \/ FlightSteps(s) \/ ChecklistSteps(s)

Spec == Init /\ [][Next]_vars

(* Every fetch settles and every settled promise is handled.  Nothing is      *)
(* assumed of the user, the connection or the session.                        *)
Fairness == \A s \in Slots : WF_vars(Network(s)) /\ WF_vars(Answers(s))

FairSpec == Spec /\ Fairness

-----------------------------------------------------------------------------
(* Properties.                                                                *)

Quiet(i) == \A s \in InFlight : calls[s].op # "load" /\ calls[s].item # i

(* A row none of whose requests overlapped another request about it or a      *)
(* load of the list, and whose answers all came, is on the screen exactly as  *)
(* the server has it: once, with its value, or not at all when it was deleted *)
(* -- whatever was in flight for the other rows, and after a 401 and a new    *)
(* login as well.                                                             *)
ListMatchesServer ==
    page = "editor" /\ detail = "ready" =>
      \A i \in Ids \ mixed : Quiet(i) => shown[i] = OnScreen(rows)[i]

(* One create form sends one request: while a creation is in flight, no       *)
(* second one is, although signing out resets the form it was typed into.     *)
OneCreationInFlight ==
    Cardinality({s \in Writes : calls[s].op = "create"}) <= 1

(* A button locked by a request is unlocked again, and a list that is being   *)
(* loaded stops loading, whatever the answers are.                            *)
Locks == {"creating", "saving", "loading"} \cup Ids

Locked(lock) ==
    \/ lock = "creating" /\ form.creating
    \/ lock = "saving" /\ form.saving
    \/ lock = "loading" /\ detail = "loading"
    \/ lock \in Ids /\ form.deleting = lock

LocksEnd == \A lock \in Locks : []<>~Locked(lock)

=============================================================================
