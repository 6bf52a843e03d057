------------------------------ MODULE MCAuthApi -------------------------------
(* Instances of AuthApi for TLC.                                           *)
EXTENDS AuthApi, TLC

CONSTANTS e1, p1, p2, r1, r2

(* Request slots are interchangeable: no definition of AuthApi tells one   *)
(* from another.  Addresses and passwords are not permuted, since Blank    *)
(* chooses one of each.                                                    *)
SlotSymmetry == Permutations(Requests)

-------------------------------------------------------------------------------
(* The histories that one run explores, one kind at a time.                *)
Within(steps) == \A r \in Requests : at[r] \in steps \cup {"idle"}

(* Everything at one instant: two accounts at an address, one by one.      *)
AtOneInstant ==
  /\ clock = 0 /\ Len(sent) <= 2
  /\ \A r \in Requests : at[r] # "wrongCode"
  /\ \A e \in Emails : users[e] # NoUser => /\ users[e].failed = 0
                                            /\ users[e].version <= 1

(* Logins, and the lock, over several lock periods of one account.         *)
OfOneAccount ==
  /\ Len(sent) = 1 /\ lastId = 1 /\ Cardinality(tokens) <= 2
  /\ Within({"loginFound", "loginMismatch", "loginMatch"})

(* Codes over several days: sent, verified, spent; one password.           *)
OfCodes ==
  /\ Len(sent) <= 3 /\ clock <= 2
  /\ Within({"sendAllowed", "sendMailing", "wrongCode", "registerVerified",
             "forgotFound", "forgotVerified", "forgotMailing"})
  /\ Cardinality(tokens) <= 1
  /\ \A e \in Emails : users[e] # NoUser => users[e].password = p1
  /\ \A r \in Requests : loc[r].password = p1

(* Sends only, over several days.                                          *)
OfSends ==
  /\ Within({"sendAllowed", "sendMailing"})
  /\ inbox = {} /\ lastId = 0

OneKindOfHistory == AtOneInstant \/ OfOneAccount \/ OfCodes \/ OfSends
===============================================================================
