------------------------------ MODULE MCTripApi -------------------------------
(* Instances of TripApi for TLC.                                           *)
EXTENDS TripApi, TLC

CONSTANTS t1, t2, s1, s2, c1, p1, p2, f1, u1, u2, x, y, r1, r2, r3

(* Request slots, and the ids a table has not used yet, are                *)
(* interchangeable: no definition of TripApi tells one from another. *)
Symmetry == Permutations(Requests) \cup Permutations(Trips)
              \cup Permutations(Schedules) \cup Permutations(Places)

(* Flights and the rows whose dates lie in the trip have no condition in   *)
(* common: the instance explores them one at a time. *)
UsesFlights ==
  \E i \in Flights : rows[i].state # "unused" \/ \E r \in Requests : call[r].item = i

UsesDatedRows ==
  \/ \E i \in Schedules : rows[i].state # "unused"
  \/ \E i \in Checklists : rows[i].date # NoDate
  \/ \E r \in Requests : call[r].item \in Schedules \cup Checklists

OneKindOfRow == ~(UsesFlights /\ UsesDatedRows)
===============================================================================
