-------------------------- MODULE PlaceSearch_proofs ---------------------------
(* Theorems about PlaceSearch: the types of its state, and that a place is    *)
(* saved with the coordinates of a search result only under the name and the  *)
(* address of that result, for every set of queries, places and requests.     *)
EXTENDS PlaceSearch, TLAPS

-----------------------------------------------------------------------------
(* The create form is about one place: coordinates stand only beside the name *)
(* and the address they came with.                                            *)
DraftIsOnePlace(d) == d.selection # Nothing => d.name = d.selection /\ d.address = d.selection

(* SavedPlaceIsOnePlace speaks of what was sent; what is in the form, and is  *)
(* sent next, has the property already.                                       *)
OnePlace ==
    /\ TypeOK
    /\ DraftIsOnePlace(draft)
    /\ selected => draft.selection # Nothing
    /\ \A s \in Slots : calls[s].op = "create" => DraftIsOnePlace(calls[s].place)

(* A state without a request is neither a search nor a creation.              *)
LEMMA InitOnePlace ==
    ASSUME ConstantsOK, Init
    PROVE  OnePlace
BY DEF ConstantsOK, Init, OnePlace, TypeOK, DraftIsOnePlace, Free, Drafts, Lasts, Fields

LEMMA TypeStep ==
    ASSUME ConstantsOK, TypeOK, [Next]_vars
    PROVE  TypeOK'
<1> USE DEF TypeOK, searchVars, formVars, Free, Drafts, Lasts, Fields
<1>1. CASE UNCHANGED vars
  BY <1>1 DEF vars
<1>2. ASSUME NEW q \in Queries \cup {Nothing}, TypeQuery(q)
      PROVE  TypeOK'
  BY <1>2 DEF TypeQuery
<1>3. ASSUME NEW p \in Places, HandleSelectResult(p)
      PROVE  TypeOK'
  BY <1>3 DEF HandleSelectResult, InferPlaceCategory, ConstantsOK
<1>4. ASSUME NEW v \in {Typed, Nothing}, ChangeName(v) \/ ChangeAddress(v)
      PROVE  TypeOK'
  BY <1>4 DEF ChangeName, ChangeAddress, ChangeField
<1>5. ASSUME NEW c \in Categories, ChangeCategory(c)
      PROVE  TypeOK'
  BY <1>5 DEF ChangeCategory
<1>6. ASSUME NEW s \in Slots, HandleSearch(s)
      PROVE  TypeOK'
  BY <1>6 DEF HandleSearch, Sent
<1>7. ASSUME NEW s \in Slots, SubmitNewPlace(s)
      PROVE  TypeOK'
  BY <1>7 DEF SubmitNewPlace, Sent
<1>8. ASSUME NEW s \in Slots, Serve(s)
      PROVE  TypeOK'
  BY <1>8 DEF Serve
<1>9. ASSUME NEW s \in Slots, SearchAnswered(s)
      PROVE  TypeOK'
  <2>1. /\ calls[s].st \in {"ok", "failed"}
        /\ calls[s].query \in Queries
    BY <1>9 DEF SearchAnswered, Settled
  <2>2. Finds[calls[s].query] \subseteq Places
    BY <2>1 DEF ConstantsOK
  <2>3. last' \in Lasts /\ results' \in SUBSET Places
    BY <1>9, <2>1, <2>2 DEF SearchAnswered
  <2> QED
    BY <1>9, <2>3 DEF SearchAnswered
<1>10. ASSUME NEW s \in Slots, NewPlaceAnswered(s)
      PROVE  TypeOK'
  BY <1>10 DEF NewPlaceAnswered, Settled, CreateFinished, Emptied
<1>11. CASE ChangeLink
  BY <1>11 DEF ChangeLink, ChangeField
<1>12. CASE SearchGrowsOld \/ ExpireSearch
  BY <1>12 DEF SearchGrowsOld, ExpireSearch
<1> QED
  BY <1>1, <1>2, <1>3, <1>4, <1>5, <1>6, <1>7, <1>8, <1>9, <1>10, <1>11, <1>12 DEF Next, Answers

(* Every edit by hand drops the coordinates, every selection brings all three *)
(* from one place, and a creation empties all three.                          *)
LEMMA OnePlaceStep ==
    ASSUME ConstantsOK, OnePlace, [Next]_vars
    PROVE  OnePlace'
<1>0. TypeOK /\ TypeOK'
  BY TypeStep DEF OnePlace
<1> DEFINE FormOK == DraftIsOnePlace(draft) /\ (selected => draft.selection # Nothing)
           SentOK == \A s \in Slots : calls[s].op = "create" => DraftIsOnePlace(calls[s].place)
<1> SUFFICES FormOK' /\ SentOK'
  BY <1>0 DEF OnePlace
<1> USE DEF TypeOK, searchVars, formVars, Free, Drafts, Fields, DraftIsOnePlace
<1>1. FormOK /\ SentOK
  BY DEF OnePlace
<1>2. CASE UNCHANGED vars
  BY <1>1, <1>2 DEF vars
<1>3. ASSUME NEW q \in Queries \cup {Nothing}, TypeQuery(q)
      PROVE  FormOK' /\ SentOK'
  BY <1>1, <1>3 DEF TypeQuery
<1>4. ASSUME NEW p \in Places, HandleSelectResult(p)
      PROVE  FormOK' /\ SentOK'
  BY <1>1, <1>4 DEF HandleSelectResult, ConstantsOK
<1>5. ASSUME NEW v \in {Typed, Nothing}, ChangeName(v) \/ ChangeAddress(v)
      PROVE  FormOK' /\ SentOK'
  BY ZenonT(60), <1>0, <1>1, <1>5 DEF ChangeName, ChangeAddress, ChangeField
<1>6. ASSUME NEW c \in Categories, ChangeCategory(c)
      PROVE  FormOK' /\ SentOK'
  BY <1>0, <1>1, <1>6 DEF ChangeCategory
<1>7. ASSUME NEW s \in Slots, HandleSearch(s)
      PROVE  FormOK' /\ SentOK'
  BY <1>0, <1>1, <1>7 DEF HandleSearch, Sent
<1>8. ASSUME NEW s \in Slots, SubmitNewPlace(s)
      PROVE  FormOK' /\ SentOK'
  BY <1>0, <1>1, <1>8 DEF SubmitNewPlace, Sent
<1>9. ASSUME NEW s \in Slots, Serve(s)
      PROVE  FormOK' /\ SentOK'
  BY <1>0, <1>1, <1>9 DEF Serve
<1>10. ASSUME NEW s \in Slots, SearchAnswered(s)
       PROVE  FormOK' /\ SentOK'
  BY <1>0, <1>1, <1>10 DEF SearchAnswered, Settled
<1>11. ASSUME NEW s \in Slots, NewPlaceAnswered(s)
       PROVE  FormOK' /\ SentOK'
  BY <1>0, <1>1, <1>11 DEF NewPlaceAnswered, Settled, CreateFinished, Emptied
<1>12. CASE ChangeLink
  BY <1>0, <1>1, <1>12 DEF ChangeLink, ChangeField
<1>13. CASE SearchGrowsOld \/ ExpireSearch
  BY <1>1, <1>13 DEF SearchGrowsOld, ExpireSearch
<1> QED
  BY <1>2, <1>3, <1>4, <1>5, <1>6, <1>7, <1>8, <1>9, <1>10, <1>11, <1>12, <1>13 DEF Next, Answers

-----------------------------------------------------------------------------
(* ManagePlaceCreateForm keeps its state in its types.                        *)
THEOREM SearchTypes == ASSUME ConstantsOK PROVE Spec => []TypeOK
<1>1. Init => OnePlace
  BY InitOnePlace
<1>2. OnePlace /\ [Next]_vars => OnePlace'
  BY OnePlaceStep
<1>3. OnePlace => TypeOK
  BY DEF OnePlace
<1> QED
  BY <1>1, <1>2, <1>3, PTL DEF Spec

(* What handleSelectResult, the changes by hand and submitNewPlace leave      *)
(* together: a place is saved with coordinates only under the name and the    *)
(* address they belong to, and "save the selected place" saves coordinates.   *)
THEOREM SavedPlaces == ASSUME ConstantsOK PROVE Spec => []SavedPlaceIsOnePlace
<1>1. Init => OnePlace
  BY InitOnePlace
<1>2. OnePlace /\ [Next]_vars => OnePlace'
  BY OnePlaceStep
<1>3. OnePlace => SavedPlaceIsOnePlace
  BY DEF OnePlace, SavedPlaceIsOnePlace, DraftIsOnePlace
<1> QED
  BY <1>1, <1>2, <1>3, PTL DEF Spec

-----------------------------------------------------------------------------
(* The answers on the screen are among those of the query they are filed      *)
(* under, whatever is typed meanwhile; SearchedLabelIsTrue is about the       *)
(* moments when that query is typed and the answers are fresh.                *)
FiledRight == last # Nothing => results \subseteq Finds[last.query]

(* Answers and query are replaced together; a search that starts, or is given *)
(* up, leaves no answers, and a selection leaves one of them.                 *)
LEMMA FiledStep ==
    ASSUME ConstantsOK, TypeOK, FiledRight, [Next]_vars
    PROVE  FiledRight'
<1> USE DEF FiledRight, searchVars, formVars
<1>0. last # Nothing => /\ last.query \in Queries /\ last.fresh \in BOOLEAN
                        /\ last = [query |-> last.query, fresh |-> last.fresh]
  BY DEF TypeOK, Lasts
<1>1. CASE UNCHANGED vars
  BY <1>1 DEF vars
<1>2. ASSUME NEW q \in Queries \cup {Nothing}, TypeQuery(q)
      PROVE  FiledRight'
  BY <1>2 DEF TypeQuery
<1>3. ASSUME NEW p \in Places, HandleSelectResult(p)
      PROVE  FiledRight'
  BY <1>3 DEF HandleSelectResult
<1>4. ASSUME NEW v \in {Typed, Nothing}, ChangeName(v) \/ ChangeAddress(v)
      PROVE  FiledRight'
  BY <1>4 DEF ChangeName, ChangeAddress, ChangeField
<1>5. ASSUME NEW c \in Categories, ChangeCategory(c)
      PROVE  FiledRight'
  BY <1>5 DEF ChangeCategory
<1>6. ASSUME NEW s \in Slots, HandleSearch(s)
      PROVE  FiledRight'
  BY <1>6 DEF HandleSearch
<1>7. ASSUME NEW s \in Slots, SubmitNewPlace(s) \/ Serve(s)
      PROVE  FiledRight'
  BY <1>7 DEF SubmitNewPlace, Serve
<1>8. ASSUME NEW s \in Slots, SearchAnswered(s)
      PROVE  FiledRight'
  BY <1>8 DEF SearchAnswered
<1>9. ASSUME NEW s \in Slots, NewPlaceAnswered(s)
      PROVE  FiledRight'
  BY <1>9 DEF NewPlaceAnswered, CreateFinished
<1>10. CASE ChangeLink
  BY <1>10 DEF ChangeLink, ChangeField
<1>11. CASE SearchGrowsOld \/ ExpireSearch
  BY <1>0, <1>11 DEF SearchGrowsOld, ExpireSearch
<1> QED
  BY <1>1, <1>2, <1>3, <1>4, <1>5, <1>6, <1>7, <1>8, <1>9, <1>10, <1>11 DEF Next, Answers

(* The answer of handleSearch is filed under the query that was sent: the     *)
(* button says "searched", and refuses to search again, only over places that *)
(* the typed query finds.                                                     *)
THEOREM SearchedLabel == ASSUME ConstantsOK PROVE Spec => []SearchedLabelIsTrue
<1>1. Init => TypeOK /\ FiledRight
  BY InitOnePlace DEF OnePlace, FiledRight, Init
<1>2. TypeOK /\ FiledRight /\ [Next]_vars => (TypeOK /\ FiledRight)'
  BY TypeStep, FiledStep
<1>3. FiledRight => SearchedLabelIsTrue
  BY DEF FiledRight, SearchedLabelIsTrue, HasCurrentSearchResults
<1> QED
  BY <1>1, <1>2, <1>3, PTL DEF Spec
================================================================================
