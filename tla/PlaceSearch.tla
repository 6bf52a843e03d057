------------------------------ MODULE PlaceSearch ------------------------------
(* The place search of the editor (ManagePlaceCreateForm) and the create form *)
(* it fills in.  A search is typed, sent and answered while the form below is *)
(* edited and saved: what the two labels say -- "searched" on the search      *)
(* button, "save the selected place" on the save button -- is decided from    *)
(* state that different handlers set.                                         *)
EXTENDS Naturals, FiniteSets

CONSTANTS
    Queries,     \* texts the user searches for
    Places,      \* places of the map service
    Finds,       \* for every query, the places it finds
    Categories,  \* the categories a query may stand for
    Infers,      \* for every query, the category it stands for, or NoCategory
    Slots,       \* requests that may be in flight at once
    Nothing      \* no query, no place, an empty field

Typed == "typed"             \* a field the user typed into
NoCategory == "none"
FirstCategory == "sight"     \* the category of the form when it is mounted
Fields == Places \cup {Typed, Nothing}

(* What a theorem about this module assumes of the constants.                 *)
ConstantsOK ==
    /\ Finds \in [Queries -> SUBSET Places]
    /\ Infers \in [Queries -> Categories \cup {NoCategory}]
    /\ Nothing \notin Queries \cup Places
    /\ Typed # Nothing /\ Typed \notin Places

VARIABLES
    query,      \* searchQuery, trimmed
    results,    \* searchResults
    selected,   \* selectedIdx is set
    last,       \* lastSuccessfulSearch
    searching,  \* searchInFlight and searchLoading
    draft,      \* the create form: name, address, coordinates, category
    creating,   \* placeCreateSubmitting
    calls       \* the requests in flight

searchVars == <<query, results, selected, last, searching>>
formVars == <<draft, creating>>
vars == <<searchVars, formVars, calls>>

Free == [op |-> "free"]
Drafts == [name: Fields, address: Fields, selection: Places \cup {Nothing},
           category: Categories \cup {FirstCategory}]
Lasts == [query: Queries, fresh: BOOLEAN] \cup {Nothing}

TypeOK ==
    /\ query \in Queries \cup {Nothing}
    /\ results \in SUBSET Places
    /\ selected \in BOOLEAN
    /\ last \in Lasts
    /\ searching \in BOOLEAN
    /\ draft \in Drafts
    /\ creating \in BOOLEAN
    /\ calls \in [Slots -> {Free}
                             \cup [op: {"search"}, st: {"sent", "ok", "failed"}, query: Queries]
                             \cup [op: {"create"}, st: {"sent", "ok", "failed"}, place: Drafts]]

Sent(s, c) == calls[s] = Free /\ calls' = [calls EXCEPT ![s] = c]
Settled(s, op) == calls[s].op = op /\ calls[s].st # "sent"

-----------------------------------------------------------------------------
(* Searching.                                                                 *)

AnySearchResults == results # {} /\ last # Nothing /\ last.fresh
HasCurrentSearchResults ==
    /\ results # {}
    /\ last # Nothing
    /\ last.query = query
    /\ last.fresh

TypeQuery(q) ==
    /\ q # query
    /\ query' = q
    /\ UNCHANGED <<results, selected, last, searching, formVars, calls>>

(* The button is disabled while a search runs; the Enter key is not.          *)
HandleSearch(s) ==
    /\ query # Nothing
    /\ ~HasCurrentSearchResults
    /\ ~searching
    /\ searching' = TRUE
    /\ results' = {}
    /\ selected' = FALSE
    /\ Sent(s, [op |-> "search", st |-> "sent", query |-> query])
    /\ UNCHANGED <<query, last, formVars>>

(* The answer is filed under the query that was sent, whatever is typed now.  *)
SearchAnswered(s) ==
    /\ Settled(s, "search")
    /\ searching' = FALSE
    /\ LET found == IF calls[s].st = "ok" THEN Finds[calls[s].query] ELSE {}
       IN  /\ results' = IF calls[s].st = "ok" THEN found ELSE results
           /\ last' = IF found = {} THEN Nothing
                      ELSE [query |-> calls[s].query, fresh |-> TRUE]
    /\ calls' = [calls EXCEPT ![s] = Free]
    /\ UNCHANGED <<query, selected, formVars>>

(* Thirty seconds pass, and later the timer of the effect fires.              *)
SearchGrowsOld ==
    /\ last # Nothing /\ last.fresh
    /\ last' = [last EXCEPT !.fresh = FALSE]
    /\ UNCHANGED <<query, results, selected, searching, formVars, calls>>

ExpireSearch ==
    /\ last # Nothing /\ ~last.fresh
    /\ last' = Nothing
    /\ UNCHANGED <<query, results, selected, searching, formVars, calls>>

(* The category is guessed from what is typed now.                            *)
InferPlaceCategory(q) == IF q = Nothing THEN NoCategory ELSE Infers[q]

HandleSelectResult(p) ==
    /\ p \in results
    /\ results' = {p}
    /\ selected' = TRUE
    /\ draft' = [name |-> p, address |-> p, selection |-> p,
                 category |-> IF InferPlaceCategory(query) = NoCategory THEN draft.category
                              ELSE InferPlaceCategory(query)]
    /\ UNCHANGED <<query, last, searching, creating, calls>>

-----------------------------------------------------------------------------
(* The create form.                                                           *)

(* A name, an address or a link typed by hand is no longer the selected       *)
(* place's: its coordinates are dropped.                                      *)
KeepSelection(d) ==
    /\ draft' = d
    /\ UNCHANGED <<searchVars, creating, calls>>
ChangeField(d) ==
    /\ draft' = [d EXCEPT !.selection = Nothing]
    /\ selected' = FALSE
    /\ UNCHANGED <<query, results, last, searching, creating, calls>>

ChangeName(v) == ChangeField([draft EXCEPT !.name = v])
ChangeAddress(v) == ChangeField([draft EXCEPT !.address = v])
ChangeLink == ChangeField(draft)

ChangeCategory(c) ==
    /\ c # draft.category
    /\ draft' = [draft EXCEPT !.category = c]
    /\ UNCHANGED <<searchVars, creating, calls>>

SubmitNewPlace(s) ==
    /\ ~creating
    /\ draft.name # Nothing
    /\ creating' = TRUE
    /\ Sent(s, [op |-> "create", st |-> "sent", place |-> draft])
    /\ UNCHANGED <<searchVars, draft>>

(* What is in the form when the place was created is emptied, but for its     *)
(* category.                                                                  *)
Emptied(d) == [d EXCEPT !.name = Nothing, !.address = Nothing, !.selection = Nothing]

(* The effect that follows a creation, when it left the form empty.           *)
CreateFinished(d, failed) ==
    IF failed \/ d.name # Nothing
    THEN UNCHANGED <<query, results, selected, last>>
    ELSE /\ query' = Nothing
         /\ results' = {}
         /\ selected' = FALSE
         /\ last' = Nothing

NewPlaceAnswered(s) ==
    /\ Settled(s, "create")
    /\ creating' = FALSE
    /\ draft' = IF calls[s].st = "ok" THEN Emptied(draft) ELSE draft
    /\ CreateFinished(draft', calls[s].st # "ok")
    /\ calls' = [calls EXCEPT ![s] = Free]
    /\ UNCHANGED searching

(* The server answers, or the connection fails.                               *)
Serve(s) ==
    /\ calls[s].op # "free"
    /\ calls[s].st = "sent"
    /\ \E st \in {"ok", "failed"} : calls' = [calls EXCEPT ![s].st = st]
    /\ UNCHANGED <<searchVars, formVars>>

-----------------------------------------------------------------------------
Init ==
    /\ query = Nothing /\ results = {} /\ selected = FALSE /\ last = Nothing
    /\ searching = FALSE
    /\ draft = [name |-> Nothing, address |-> Nothing,
                selection |-> Nothing, category |-> FirstCategory]
    /\ creating = FALSE
    /\ calls = [s \in Slots |-> Free]

Answers(s) == SearchAnswered(s) \/ NewPlaceAnswered(s)

Next ==
    \/ \E q \in Queries \cup {Nothing} : TypeQuery(q)
    \/ \E p \in Places : HandleSelectResult(p)
    \/ \E v \in {Typed, Nothing} : ChangeName(v) \/ ChangeAddress(v)
    \/ \E c \in Categories : ChangeCategory(c)
    \/ \E s \in Slots :
         HandleSearch(s) \/ SubmitNewPlace(s) \/ Serve(s) \/ Answers(s)
    \/ ChangeLink \/ SearchGrowsOld \/ ExpireSearch

Spec == Init /\ [][Next]_vars

(* Every fetch settles and its continuation runs; the timer fires.            *)
Fairness ==
    /\ WF_vars(SearchGrowsOld) /\ WF_vars(ExpireSearch)
    /\ \A s \in Slots : WF_vars(Serve(s)) /\ WF_vars(Answers(s))

FairSpec == Spec /\ Fairness

-----------------------------------------------------------------------------
(* Properties.                                                                *)

(* The button that says "searched", and refuses to search again, stands over  *)
(* places that the typed query finds.                                         *)
SearchedLabelIsTrue == HasCurrentSearchResults => results \subseteq Finds[query]

(* A place is saved with the coordinates of a search result only under the    *)
(* name and the address of that result; and the button that says "save the    *)
(* selected place" saves its coordinates.                                     *)
SavedPlaceIsOnePlace ==
    /\ \A s \in Slots : calls[s].op = "create" =>
         LET d == calls[s].place IN d.selection # Nothing =>
           d.name = d.selection /\ d.address = d.selection
    /\ selected => draft.selection # Nothing

(* The search of a query is never locked for good, whatever the answers are.  *)
Locks == Queries
Locked(q) == query = q /\ (searching \/ HasCurrentSearchResults)
SearchIsPossibleAgain == \A q \in Locks : []<>~Locked(q)
================================================================================
