-------------------------------- MODULE OtpCode --------------------------------
(* The code field of the web app (OtpCodeInput): one box per digit over one   *)
(* string of the parent.  The string has no gaps: after every keystroke the   *)
(* boxes are joined, so digits right of an erased box move to the left.       *)
EXTENDS Naturals, Sequences, SequencesExt, Listing

CONSTANTS
    Digits,    \* digits a box may hold
    Length     \* the number of boxes

Blank == 0     \* an empty box
Boxes == 1..Length

VARIABLES
    value,     \* the parent's string
    focus      \* the box that has the focus

(* History: what one plain text field would hold after the same keystrokes,   *)
(* and whether the user left the focus where the component put it.            *)
VARIABLES typed, followed

vars == <<value, focus, typed, followed>>

TypeOK ==
    /\ value \in Seq(Digits) /\ Len(value) <= Length
    /\ focus \in Boxes
    /\ typed \in Seq(Digits) /\ Len(typed) <= Length
    /\ followed \in BOOLEAN

Box(v, i) == IF i <= Len(v) THEN v[i] ELSE Blank
BoxesOf(v) == [i \in Boxes |-> Box(v, i)]
Join(boxes) == Filtered(boxes, {i \in Boxes : boxes[i] # Blank})
FieldHolds(text) == typed' = IF followed THEN text ELSE <<>>
Least(a, b) == IF a < b THEN a ELSE b

(* handleChange with digits: they fill the boxes from this one on, what does  *)
(* not fit is dropped, and the focus goes behind them.                        *)
Filled(v, i, raw) ==
    Join([j \in Boxes |-> IF j \in i..(i + Len(raw) - 1) THEN raw[j - i + 1] ELSE Box(v, j)])

HandleChange(raw) ==
    /\ raw # <<>>
    /\ value' = Filled(value, focus, raw)
    /\ focus' = Least(focus + Len(raw), Length)
    /\ LET room == SubSeq(raw, 1, Least(Len(raw), Length - focus + 1))
       IN  FieldHolds(IF Len(typed) = Length THEN Front(typed) \o room ELSE typed \o room)
    /\ UNCHANGED followed

(* Erasing the digit of one box, and backspace in an empty one.               *)
Cleared(v, i) == Join([BoxesOf(v) EXCEPT ![i] = Blank])

EraseBox ==
    /\ Box(value, focus) # Blank
    /\ value' = Cleared(value, focus)
    /\ FieldHolds(IF typed = <<>> THEN typed ELSE Front(typed))
    /\ UNCHANGED <<focus, followed>>

BackspaceInPlace ==
    /\ Box(value, focus) = Blank
    /\ focus > 1
    /\ value' = Cleared(value, focus)
    /\ focus' = focus - 1
    /\ FieldHolds(IF typed = <<>> THEN typed ELSE Front(typed))
    /\ UNCHANGED followed
HandleBackspace ==
    /\ Box(value, focus) = Blank
    /\ focus > 1
    /\ value' = Cleared(value, focus - 1)
    /\ focus' = focus - 1
    /\ FieldHolds(IF typed = <<>> THEN typed ELSE Front(typed))
    /\ UNCHANGED followed

(* The arrow keys, or a click on a box.                                       *)
MoveFocus(i) ==
    /\ i # focus
    /\ focus' = i
    /\ followed' = FALSE
    /\ typed' = <<>>
    /\ UNCHANGED value

Init ==
    /\ value = <<>>
    /\ focus = 1
    /\ typed = <<>>
    /\ followed = TRUE

Next ==
    \/ \E n \in 1..(Length + 1) : \E raw \in [1..n -> Digits] : HandleChange(raw)
    \/ EraseBox \/ HandleBackspace
    \/ \E i \in Boxes : MoveFocus(i)

Spec == Init /\ [][Next]_vars

(* As long as the user only types, pastes and erases, the boxes are one text  *)
(* field: the string is what such a field would hold, and typing into a full  *)
(* one replaces its last digit.                                               *)
BoxesAreOneField == followed => value = typed

-----------------------------------------------------------------------------
(* What the proofs rest on.                                                   *)
ConstantsOK == Length \in Nat \ {0} /\ Blank \notin Digits

(* Until the user moves it, the focus stands behind the digits.               *)
FieldInv ==
    /\ TypeOK
    /\ BoxesAreOneField
    /\ followed => focus = Least(Len(value) + 1, Length)
===============================================================================
