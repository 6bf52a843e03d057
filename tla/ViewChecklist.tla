----------------------------- MODULE ViewChecklist -----------------------------
(* The checklist of the sample trip, kept in the browser under three keys:    *)
(* own items, hidden sample items and ticks (useTripPageController); and the  *)
(* short list of the today tab, which the owner's and the shared pages derive *)
(* in the same way (deriveHomeChecklist).                                     *)
EXTENDS Naturals, Sequences, FiniteSets, Listing

CONSTANTS
    Sample,      \* the items of the sample data, in order
    Customs,     \* ids the browser may give to own items
    Categories,  \* categories of items
    Dates,       \* dates of the trip
    Shortest     \* how many items the today tab shows

NoDate == "none"
All == "all"
Defaults == {Sample[k].id : k \in DOMAIN Sample}
Items == [id: Customs, category: Categories, date: Dates \cup {NoDate}]

VARIABLES
    custom,      \* customChecklistItems, in order
    hidden,      \* hiddenChecklistIDs
    checked,     \* checkedItems
    saved,       \* what the browser keeps of the three
    used,        \* ids given so far
    newDate, newCategory, dateFilter, editing,  \* the form and the filter
    phase, focus \* the phase of the trip, and the date of today

(* History: another tab of the browser wrote one of the keys.                 *)
VARIABLE foreign

kept == [custom |-> custom, hidden |-> hidden, checked |-> checked]
formVars == <<newDate, newCategory, dateFilter, editing>>
vars == <<custom, hidden, checked, saved, used, formVars, phase, focus, foreign>>

CustomItems ==
    {s \in Seq(Items) : \A a, b \in DOMAIN s : s[a].id = s[b].id => a = b}
Phases == {"before", "during", "after"}

TypeOK ==
    /\ custom \in CustomItems
    /\ hidden \subseteq Defaults
    /\ checked \subseteq Defaults \cup Customs
    /\ saved \in [custom: CustomItems, hidden: SUBSET Defaults,
                  checked: SUBSET (Defaults \cup Customs)]
    /\ used \subseteq Customs
    /\ newDate \in Dates \cup {NoDate} /\ newCategory \in Categories
    /\ dateFilter \in Dates \cup {NoDate, All} /\ editing \in BOOLEAN
    /\ phase \in Phases /\ focus \in Dates
    /\ foreign \in BOOLEAN

-----------------------------------------------------------------------------
Ids(items) == {items[k].id : k \in DOMAIN items}
AllChecklist ==
    Filtered(Sample, {k \in DOMAIN Sample : Sample[k].id \notin hidden}) \o custom

VisibleChecklist ==
    {k \in DOMAIN AllChecklist : dateFilter \in {All, AllChecklist[k].date}}

(* deriveHomeChecklist: of today's items, and of those of the phase without a *)
(* date, what is left to do comes first, cut to the shortest.                 *)
HomeCategories == CASE phase = "before" -> {"before", "airport"}
                    [] phase = "during" -> {"daily"}
                    [] OTHER -> {"return"}

RelevantItems ==
    {k \in DOMAIN AllChecklist :
       LET x == AllChecklist[k]
       IN  \/ phase = "during" /\ x.date = focus
           \/ x.date = NoDate /\ x.category \in HomeCategories}

Weights ==
    [k \in RelevantItems |->
       LET x == AllChecklist[k]
       IN  (IF x.id \in checked THEN 2 ELSE 0) + (IF x.date = NoDate THEN 1 ELSE 0)]

Cut(items) == SubSeq(items, 1, IF Len(items) < Shortest THEN Len(items) ELSE Shortest)

HomeChecklistItems == Cut(Listed(AllChecklist, RelevantItems, Weights))

-----------------------------------------------------------------------------
ToggleCheck(i) ==
    /\ \/ \E k \in VisibleChecklist : i = AllChecklist[k].id
       \/ i \in Ids(HomeChecklistItems)
    /\ checked' = IF i \in checked THEN checked \ {i} ELSE checked \cup {i}
    /\ saved' = [saved EXCEPT !.checked = checked']
    /\ UNCHANGED <<custom, hidden, used, formVars, phase, focus, foreign>>

(* A new item is ticked by nobody yet: its id is the time.                    *)
AddChecklistItem(i) ==
    /\ editing
    /\ i \in Customs \ used
    /\ used' = used \cup {i}
    /\ custom' = Append(custom, [id |-> i, category |-> newCategory, date |-> newDate])
    /\ saved' = [saved EXCEPT !.custom = custom']
    /\ UNCHANGED <<hidden, checked, formVars, phase, focus, foreign>>

(* An item that goes takes its tick along, from the browser as well.          *)
KeepTick(i) == checked
RemoveChecklistCompletion(i) == checked \ {i}

RemoveCustomChecklistItem(i) ==
    /\ custom' = Filtered(custom, {k \in DOMAIN custom : custom[k].id # i})
    /\ saved' = [saved EXCEPT !.custom = custom', !.checked = checked']
    /\ UNCHANGED hidden

HideDefaultChecklistItem(i) ==
    /\ hidden' = hidden \cup {i}
    /\ saved' = [saved EXCEPT !.hidden = hidden', !.checked = checked']
    /\ UNCHANGED custom

RemoveChecklistItem(i) ==
    /\ editing
    /\ \E k \in VisibleChecklist : i = AllChecklist[k].id
    /\ checked' = RemoveChecklistCompletion(i)
    /\ IF i \in Ids(custom) THEN RemoveCustomChecklistItem(i) ELSE HideDefaultChecklistItem(i)
    /\ UNCHANGED <<used, formVars, phase, focus, foreign>>

RestoreDefaultChecklistItems ==
    /\ editing /\ hidden # {}
    /\ hidden' = {}
    /\ saved' = [saved EXCEPT !.hidden = {}]
    /\ UNCHANGED <<custom, checked, used, formVars, phase, focus, foreign>>

(* The filter sets the date of the next item too, and the form another one.   *)
SelectChecklistDate(d) ==
    /\ dateFilter' = d
    /\ newDate' = IF d = All THEN NoDate ELSE d
    /\ UNCHANGED <<custom, hidden, checked, saved, used, newCategory, editing, phase, focus,
                   foreign>>

EditForm(d, c) ==
    /\ editing
    /\ newDate' = d /\ newCategory' = c
    /\ UNCHANGED <<custom, hidden, checked, saved, used, dateFilter, editing, phase, focus,
                   foreign>>

ToggleEditing ==
    /\ editing' = ~editing
    /\ UNCHANGED <<custom, hidden, checked, saved, used, newDate, newCategory, dateFilter, phase,
                   focus, foreign>>

(* A reload reads the three keys, perhaps on a later day.                     *)
Open(p, d) ==
    /\ custom' = saved.custom /\ hidden' = saved.hidden /\ checked' = saved.checked
    /\ newDate' = NoDate /\ newCategory' = "before" /\ dateFilter' = All /\ editing' = FALSE
    /\ phase' = p /\ focus' = d
    /\ UNCHANGED <<saved, used, foreign>>

(* Another tab ticks a sample item in what it had read.                       *)
OtherTab(i) ==
    /\ saved' = [saved EXCEPT !.checked = IF i \in @ THEN @ \ {i} ELSE @ \cup {i}]
    /\ foreign' = TRUE
    /\ UNCHANGED <<custom, hidden, checked, used, formVars, phase, focus>>

-----------------------------------------------------------------------------
Init ==
    /\ custom = <<>> /\ hidden = {} /\ checked = {}
    /\ saved = kept /\ used = {}
    /\ newDate = NoDate /\ newCategory = "before" /\ dateFilter = All /\ editing = FALSE
    /\ phase \in Phases /\ focus \in Dates
    /\ foreign = FALSE

Next ==
    \/ \E i \in Defaults \cup Customs :
         ToggleCheck(i) \/ AddChecklistItem(i) \/ RemoveChecklistItem(i)
    \/ \E i \in Defaults : OtherTab(i)
    \/ RestoreDefaultChecklistItems \/ ToggleEditing
    \/ \E d \in Dates \cup {NoDate, All} : SelectChecklistDate(d)
    \/ \E d \in Dates \cup {NoDate}, c \in Categories : EditForm(d, c)
    \/ \E p \in Phases, d \in Dates : Open(p, d)

Spec == Init /\ [][Next]_vars

-----------------------------------------------------------------------------
(* Properties.                                                                *)

(* Without another tab, a tick does not outlive its item: one that is hidden  *)
(* and restored comes back to do, and every tick that is kept belongs to an   *)
(* item on the list.                                                          *)
TicksBelongToItems == ~foreign => checked \subseteq Ids(AllChecklist)

(* A reload shows what the screen shows, as long as no other tab wrote.       *)
ReloadShowsTheSame == ~foreign => saved = kept

-----------------------------------------------------------------------------
(* What the proofs rest on.                                                   *)
ConstantsOK ==
    /\ Sample \in Seq([id: Defaults, category: Categories, date: Dates \cup {NoDate}])
    /\ "before" \in Categories
    /\ Shortest \in Nat

(* Own and hidden items are kept as they are shown, ids are given once, and   *)
(* ticks are those of items as long as no other tab ticks.                    *)
KeptInv ==
    /\ TypeOK
    /\ Ids(custom) \subseteq used
    /\ saved.custom = custom /\ saved.hidden = hidden
    /\ ReloadShowsTheSame
    /\ TicksBelongToItems
===============================================================================
