------------------------------- MODULE MCWebApp --------------------------------
(* Instances of WebApp for TLC.                                               *)
EXTENDS WebApp, TLC

CONSTANTS s1, s2, q1, q2, p1, p2

(* Links, requests and users are interchangeable; used without fairness only. *)
Symmetry == Permutations(Tokens) \cup Permutations(Slots) \cup Permutations(Users)

(* Two searches whose results overlap; one of them stands for a category.     *)
Found == [q \in Queries |-> IF q = q1 THEN Places ELSE Places \ {p1}]
Inferred == [q \in Queries |-> IF q = q1 THEN "cafe" ELSE "none"]

(* Three states of a trip's schedules: as created, all moved to one day with  *)
(* the first two exchanged, and one of them deleted.                          *)
Schedules == {[ids |-> <<1, 2, 3>>, date |-> <<1, 1, 2>>],
              [ids |-> <<2, 1, 3>>, date |-> <<1, 1, 1>>],
              [ids |-> <<3, 2>>, date |-> <<1, 2, 1>>]}

(* Two sample items: one to do before the trip, one for its first day.        *)
SampleItems == <<[id |-> "p", category |-> "before", date |-> "none"],
                 [id |-> "q", category |-> "daily", date |-> "d1"]>>

(* Two days of a trip, the last of them over, and the trip loaded again with  *)
(* a place that has no coordinates.                                           *)
PlaceOfStop == [i \in 1..2 |-> IF i = 1 THEN p1 ELSE p2]
DayPlans == {[places |-> <<p1, p2>>, mappable |-> {p1, p2}, stops |-> <<1, 2>>, over |-> FALSE],
             [places |-> <<p1, p2>>, mappable |-> {p1, p2}, stops |-> <<2>>, over |-> TRUE],
             [places |-> <<p2>>, mappable |-> {}, stops |-> <<1, 2>>, over |-> FALSE]}
================================================================================
