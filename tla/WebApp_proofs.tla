----------------------------- MODULE WebApp_proofs -----------------------------
(* Theorems about the composed web app: what is proved of a part alone holds  *)
(* of the app, since the app steps only the part that is open, as the part    *)
(* itself would step.                                                         *)
EXTENDS WebApp, SharedTripView_proofs, Listing, Integers, Sequences, FunctionTheorems,
    FiniteSetTheorems, SequenceTheorems, WellFoundedInduction, TLAPS

(* A step of the app is one of the part that is open.                         *)
LEMMA AppStep ==
    ASSUME [AppNext]_allVars
    PROVE  /\ open' = open
           /\ [Next]_vars
           /\ open = "editor" => [Editor!Next]_Editor!vars
           /\ open = "register" => [Register!Next]_Register!vars
           /\ open = "search" => [Search!Next]_Search!vars
           /\ open = "money" => [Money!Next]_Money!vars
           /\ open = "forgot" => [Forgot!Next]_Forgot!vars
           /\ open = "nav" => [Nav!Next]_Nav!vars
           /\ open = "map" => [Chart!Next]_Chart!vars
           /\ open = "pwa" => [Pwa!Next]_Pwa!vars
           /\ open = "otp" => [Otp!Next]_Otp!vars
           /\ open = "days" => [Days!Next]_Days!vars
           /\ open = "checks" => [Checks!Next]_Checks!vars
           /\ open = "owner" => [Owner!Next]_Owner!vars
<1> USE DEF AppNext, allVars, SharedTripPart, EditorPart, RegisterPart, ForgotPart, OtpPart, SearchPart,
            PwaPart, OwnerPart, NavigationPart, SchedulesPart, ChecklistPart, MapPart, MoneyPart, Still4,
            Still8, Still9, Still10, Still12, Still13, Still15, Still17, Still21, StillShared
<1>1. open' = open /\ [Next]_vars
  OBVIOUS
<1>2. CASE open = "editor"
  BY <1>1, <1>2 DEF after0, after4, after8, Editor!vars, Editor!serverVars, Editor!pageVars
<1>3. CASE open = "register"
  BY <1>1, <1>3 DEF after0, after4, after8, after9, after10, after12, after13, Register!vars,
     Register!formVars, Register!serverVars, Register!historyVars
<1>4. CASE open = "search"
  BY <1>1, <1>4 DEF after0, after4, Search!vars, Search!searchVars, Search!formVars
<1>5. CASE open = "money"
  BY <1>1, <1>5 DEF after0, after4, after8, after9, Money!vars
<1>6. CASE open = "forgot"
  BY <1>1, <1>6 DEF after0, after4, after8, after9, after10, after12, Forgot!vars, Forgot!fields,
     Forgot!serverVars
<1>7. CASE open = "nav"
  BY <1>1, <1>7 DEF after0, after4, after8, Nav!vars, Nav!pageVars
<1>8. CASE open = "map"
  BY <1>1, <1>8 DEF after0, after4, after8, after9, after10, after12, after13, after15, Chart!vars,
     Chart!tabVars, Chart!locationVars, Chart!mapVars
<1>9. CASE open = "pwa"
  BY <1>1, <1>9 DEF after0, after4, after8, after9, after10, after12, Pwa!vars, Pwa!noticeVars,
     Pwa!formVars
<1>10. CASE open = "otp"
  BY <1>1, <1>10 DEF after0, Otp!vars
<1>11. CASE open = "days"
  BY <1>1, <1>11 DEF after0, after4, after8, Days!vars
<1>12. CASE open = "checks"
  BY <1>1, <1>12 DEF after0, after4, after8, after9, after10, Checks!vars, Checks!formVars
<1>13. CASE open = "owner"
  BY <1>1, <1>13 DEF after0, after4, after8, after9, after10, after12, after13, after15, after17,
     Owner!vars, Owner!listVars, Owner!sections, Owner!browser, Owner!server
<1> QED
  BY <1>1, <1>2, <1>3, <1>4, <1>5, <1>6, <1>7, <1>8, <1>9, <1>10, <1>11, <1>12, <1>13

(* A part that is open behaves as it does alone, and the others stay closed.  *)
LEMMA EditorAlone == AppSpec => (Editor!Spec /\ [](open = "editor")) \/ []~(open = "editor")
<1>1. AppInit /\ open = "editor" => Editor!Init
  BY DEF AppInit
<1>2. [AppNext]_allVars /\ open = "editor" => [Editor!Next]_Editor!vars /\ (open = "editor")'
  BY AppStep
<1>3. [AppNext]_allVars /\ ~(open = "editor") => (~(open = "editor"))'
  BY AppStep
<1> QED
  BY <1>1, <1>2, <1>3, PTL DEF AppSpec, Editor!Spec

LEMMA RegisterAlone == AppSpec => (Register!Spec /\ [](open = "register")) \/ []~(open = "register")
<1>1. AppInit /\ open = "register" => Register!Init
  BY DEF AppInit
<1>2. [AppNext]_allVars /\ open = "register" => [Register!Next]_Register!vars /\ (open = "register")'
  BY AppStep
<1>3. [AppNext]_allVars /\ ~(open = "register") => (~(open = "register"))'
  BY AppStep
<1> QED
  BY <1>1, <1>2, <1>3, PTL DEF AppSpec, Register!Spec

LEMMA SearchAlone == AppSpec => (Search!Spec /\ [](open = "search")) \/ []~(open = "search")
<1>1. AppInit /\ open = "search" => Search!Init
  BY DEF AppInit
<1>2. [AppNext]_allVars /\ open = "search" => [Search!Next]_Search!vars /\ (open = "search")'
  BY AppStep
<1>3. [AppNext]_allVars /\ ~(open = "search") => (~(open = "search"))'
  BY AppStep
<1> QED
  BY <1>1, <1>2, <1>3, PTL DEF AppSpec, Search!Spec

LEMMA MoneyAlone == AppSpec => (Money!Spec /\ [](open = "money")) \/ []~(open = "money")
<1>1. AppInit /\ open = "money" => Money!Init
  BY DEF AppInit
<1>2. [AppNext]_allVars /\ open = "money" => [Money!Next]_Money!vars /\ (open = "money")'
  BY AppStep
<1>3. [AppNext]_allVars /\ ~(open = "money") => (~(open = "money"))'
  BY AppStep
<1> QED
  BY <1>1, <1>2, <1>3, PTL DEF AppSpec, Money!Spec

LEMMA ForgotAlone == AppSpec => (Forgot!Spec /\ [](open = "forgot")) \/ []~(open = "forgot")
<1>1. AppInit /\ open = "forgot" => Forgot!Init
  BY DEF AppInit
<1>2. [AppNext]_allVars /\ open = "forgot" => [Forgot!Next]_Forgot!vars /\ (open = "forgot")'
  BY AppStep
<1>3. [AppNext]_allVars /\ ~(open = "forgot") => (~(open = "forgot"))'
  BY AppStep
<1> QED
  BY <1>1, <1>2, <1>3, PTL DEF AppSpec, Forgot!Spec

LEMMA NavAlone == AppSpec => (Nav!Spec /\ [](open = "nav")) \/ []~(open = "nav")
<1>1. AppInit /\ open = "nav" => Nav!Init
  BY DEF AppInit
<1>2. [AppNext]_allVars /\ open = "nav" => [Nav!Next]_Nav!vars /\ (open = "nav")'
  BY AppStep
<1>3. [AppNext]_allVars /\ ~(open = "nav") => (~(open = "nav"))'
  BY AppStep
<1> QED
  BY <1>1, <1>2, <1>3, PTL DEF AppSpec, Nav!Spec

LEMMA ChartAlone == AppSpec => (Chart!Spec /\ [](open = "map")) \/ []~(open = "map")
<1>1. AppInit /\ open = "map" => Chart!Init
  BY DEF AppInit
<1>2. [AppNext]_allVars /\ open = "map" => [Chart!Next]_Chart!vars /\ (open = "map")'
  BY AppStep
<1>3. [AppNext]_allVars /\ ~(open = "map") => (~(open = "map"))'
  BY AppStep
<1> QED
  BY <1>1, <1>2, <1>3, PTL DEF AppSpec, Chart!Spec

LEMMA PwaAlone == AppSpec => (Pwa!Spec /\ [](open = "pwa")) \/ []~(open = "pwa")
<1>1. AppInit /\ open = "pwa" => Pwa!Init
  BY DEF AppInit
<1>2. [AppNext]_allVars /\ open = "pwa" => [Pwa!Next]_Pwa!vars /\ (open = "pwa")'
  BY AppStep
<1>3. [AppNext]_allVars /\ ~(open = "pwa") => (~(open = "pwa"))'
  BY AppStep
<1> QED
  BY <1>1, <1>2, <1>3, PTL DEF AppSpec, Pwa!Spec

LEMMA OtpAlone == AppSpec => (Otp!Spec /\ [](open = "otp")) \/ []~(open = "otp")
<1>1. AppInit /\ open = "otp" => Otp!Init
  BY DEF AppInit
<1>2. [AppNext]_allVars /\ open = "otp" => [Otp!Next]_Otp!vars /\ (open = "otp")'
  BY AppStep
<1>3. [AppNext]_allVars /\ ~(open = "otp") => (~(open = "otp"))'
  BY AppStep
<1> QED
  BY <1>1, <1>2, <1>3, PTL DEF AppSpec, Otp!Spec

LEMMA DaysAlone == AppSpec => (Days!Spec /\ [](open = "days")) \/ []~(open = "days")
<1>1. AppInit /\ open = "days" => Days!Init
  BY DEF AppInit
<1>2. [AppNext]_allVars /\ open = "days" => [Days!Next]_Days!vars /\ (open = "days")'
  BY AppStep
<1>3. [AppNext]_allVars /\ ~(open = "days") => (~(open = "days"))'
  BY AppStep
<1> QED
  BY <1>1, <1>2, <1>3, PTL DEF AppSpec, Days!Spec

LEMMA ChecksAlone == AppSpec => (Checks!Spec /\ [](open = "checks")) \/ []~(open = "checks")
<1>1. AppInit /\ open = "checks" => Checks!Init
  BY DEF AppInit
<1>2. [AppNext]_allVars /\ open = "checks" => [Checks!Next]_Checks!vars /\ (open = "checks")'
  BY AppStep
<1>3. [AppNext]_allVars /\ ~(open = "checks") => (~(open = "checks"))'
  BY AppStep
<1> QED
  BY <1>1, <1>2, <1>3, PTL DEF AppSpec, Checks!Spec

LEMMA OwnerAlone == AppSpec => (Owner!Spec /\ [](open = "owner")) \/ []~(open = "owner")
<1>1. AppInit /\ open = "owner" => Owner!Init
  BY DEF AppInit
<1>2. [AppNext]_allVars /\ open = "owner" => [Owner!Next]_Owner!vars /\ (open = "owner")'
  BY AppStep
<1>3. [AppNext]_allVars /\ ~(open = "owner") => (~(open = "owner"))'
  BY AppStep
<1> QED
  BY <1>1, <1>2, <1>3, PTL DEF AppSpec, Owner!Spec

(* The shared trip takes its own steps, or none.                              *)
THEOREM SharedTripAlone == AppSpec => Spec
<1>1. AppInit => Init
  BY DEF AppInit, SharedTripRests
<1>2. [AppNext]_allVars => [Next]_vars
  BY AppStep
<1> QED
  BY <1>1, <1>2, PTL DEF AppSpec, Spec

-----------------------------------------------------------------------------
(* Listing.                                                                   *)

(* A set of numbers has a least one.                                          *)
LEMMA LeastNumber ==
    ASSUME NEW I, I \subseteq Nat, I # {}
    PROVE  \E k \in I : \A l \in I : k <= l
<1>1. PICK k \in I : \A l \in I : ~ (<<l, k>> \in OpToRel(<, Nat))
  BY WFMin, NatLessThanWellFounded
<1>2. \A l \in I : ~(l < k)
  BY <1>1 DEF OpToRel
<1> QED
  BY <1>2

(* A finite set of positions is ranked without gaps and without ties.         *)
LEMMA RanksAreOneToOne ==
  ASSUME NEW K, IsFiniteSet(K), K \subseteq Int, NEW weight \in [K -> Int]
  PROVE  /\ Cardinality(K) \in Nat
         /\ \A a \in K : Rank(a, K, weight) \in 1..Cardinality(K)
         /\ \A a, b \in K : Ahead(a, b, weight) => Rank(a, K, weight) < Rank(b, K, weight)
         /\ \A a, b \in K : Rank(a, K, weight) = Rank(b, K, weight) => a = b
         /\ \A n \in 1..Cardinality(K) :
              Nth(n, K, weight) \in K /\ Rank(Nth(n, K, weight), K, weight) = n
<1> DEFINE Before(a) == {b \in K : Ahead(b, a, weight)}
<1>1. Cardinality(K) \in Nat
  BY FS_CardinalityType
<1>2. ASSUME NEW a \in K
      PROVE  IsFiniteSet(Before(a)) /\ Cardinality(Before(a)) \in 0..(Cardinality(K) - 1)
  <2>1. Before(a) \in SUBSET K /\ a \notin Before(a)
    BY DEF Ahead
  <2>2. /\ IsFiniteSet(Before(a)) /\ Cardinality(Before(a)) <= Cardinality(K)
        /\ Cardinality(K) = Cardinality(Before(a)) => K = Before(a)
    BY <2>1, FS_Subset
  <2>3. Cardinality(Before(a)) \in Nat
    BY <2>2, FS_CardinalityType
  <2> QED
    BY <1>1, <2>1, <2>2, <2>3
<1>3. \A a \in K : Rank(a, K, weight) = Cardinality(Before(a)) + 1
  BY DEF Rank
<1>4. \A a \in K : Rank(a, K, weight) \in 1..Cardinality(K)
  <2> HIDE DEF Before
  <2> QED
    BY <1>1, <1>2, <1>3
<1>5. ASSUME NEW a \in K, NEW b \in K, Ahead(a, b, weight)
      PROVE  Rank(a, K, weight) < Rank(b, K, weight)
  <2>0. ASSUME NEW c \in K, Ahead(c, a, weight) PROVE Ahead(c, b, weight)
    <3>1. a \in Int /\ b \in Int /\ c \in Int
      OBVIOUS
    <3>2. weight[a] \in Int /\ weight[b] \in Int /\ weight[c] \in Int
      OBVIOUS
    <3> QED
      BY <1>5, <2>0, <3>1, <3>2 DEF Ahead
  <2>1. Before(a) \in SUBSET Before(b)
    BY <2>0
  <2>2. a \in Before(b) /\ a \notin Before(a)
    BY <1>5 DEF Ahead
  <2>3. IsFiniteSet(Before(b)) /\ Cardinality(Before(a)) \in Nat /\ Cardinality(Before(b)) \in Nat
    BY <1>2, <1>1
  <2>4. /\ Cardinality(Before(a)) <= Cardinality(Before(b))
        /\ Cardinality(Before(b)) = Cardinality(Before(a)) => Before(b) = Before(a)
    BY <2>1, <2>3, FS_Subset
  <2> HIDE DEF Before
  <2> QED
    BY <1>3, <2>2, <2>3, <2>4
<1>6. ASSUME NEW a \in K, NEW b \in K, Rank(a, K, weight) = Rank(b, K, weight), a # b
      PROVE  FALSE
  <2>1. Ahead(a, b, weight) \/ Ahead(b, a, weight)
    BY <1>6 DEF Ahead
  <2> QED
    BY <1>4, <1>5, <1>6, <2>1
<1> DEFINE rank == [a \in K |-> Rank(a, K, weight)]
<1>7. rank \in Injection(K, 1..Cardinality(K))
  BY <1>4, <1>6 DEF Injection, IsInjective
<1>8. IsFiniteSet(1..Cardinality(K)) /\ Cardinality(1..Cardinality(K)) = Cardinality(K)
  BY <1>1, FS_Interval
<1>9. rank \in Surjection(K, 1..Cardinality(K))
  BY <1>7, <1>8, FS_Injection
<1>10. \A n \in 1..Cardinality(K) : \E a \in K : Rank(a, K, weight) = n
  BY <1>9 DEF Surjection
<1> QED
  BY <1>1, <1>4, <1>5, <1>6, <1>10 DEF Nth

(* A list has the members that the filter lets through, each as often as the  *)
(* sequence has it there.                                                     *)
LEMMA ListedMembers ==
  ASSUME NEW T, NEW s \in Seq(T), NEW K \in SUBSET DOMAIN s, NEW weight \in [K -> Int]
  PROVE  /\ IsFiniteSet(K) /\ Cardinality(K) \in Nat
         /\ Listed(s, K, weight) \in Seq(T)
         /\ Len(Listed(s, K, weight)) = Cardinality(K)
         /\ DOMAIN Listed(s, K, weight) = 1..Cardinality(K)
         /\ \A n \in 1..Cardinality(K) :
              Nth(n, K, weight) \in K /\ Listed(s, K, weight)[n] = s[Nth(n, K, weight)]
         /\ \A k \in K : Rank(k, K, weight) \in 1..Cardinality(K)
                           /\ Listed(s, K, weight)[Rank(k, K, weight)] = s[k]
<1>1. DOMAIN s = 1..Len(s) /\ Len(s) \in Nat
  OBVIOUS
<1>2. IsFiniteSet(1..Len(s))
  BY <1>1, FS_Interval
<1>3. IsFiniteSet(K) /\ K \subseteq Int
  BY <1>1, <1>2, FS_Subset
<1>4. /\ Cardinality(K) \in Nat
      /\ \A a \in K : Rank(a, K, weight) \in 1..Cardinality(K)
      /\ \A a, b \in K : Rank(a, K, weight) = Rank(b, K, weight) => a = b
      /\ \A n \in 1..Cardinality(K) :
           Nth(n, K, weight) \in K /\ Rank(Nth(n, K, weight), K, weight) = n
  BY <1>3, RanksAreOneToOne
<1>5. \A n \in 1..Cardinality(K) : s[Nth(n, K, weight)] \in T
  BY <1>1, <1>4
<1>6. Listed(s, K, weight) \in [1..Cardinality(K) -> T]
  BY <1>5 DEF Listed
<1>7. /\ Listed(s, K, weight) \in Seq(T)
      /\ Len(Listed(s, K, weight)) = Cardinality(K)
  BY <1>4, <1>6
<1>8. \A n \in 1..Cardinality(K) : Listed(s, K, weight)[n] = s[Nth(n, K, weight)]
  BY DEF Listed
<1>9. \A k \in K : Nth(Rank(k, K, weight), K, weight) = k
  BY <1>4
<1> QED
  BY <1>3, <1>4, <1>6, <1>7, <1>8, <1>9

(* A list that is only filtered has one weight for all positions.             *)
LEMMA UnweightedType == \A K : Unweighted(K) \in [K -> Int]
BY DEF Unweighted

(* Positions whose weights count from one are listed by weight.               *)
LEMMA ListedByWeight ==
  ASSUME NEW m \in Nat, NEW K, K \subseteq Int, NEW weight \in [K -> 1..m],
         \A a, b \in K : weight[a] = weight[b] => a = b,
         \A n \in 1..m : \E a \in K : weight[a] = n
  PROVE  /\ IsFiniteSet(K) /\ Cardinality(K) = m
         /\ \A a \in K : Rank(a, K, weight) = weight[a]
         /\ \A n \in 1..m : Nth(n, K, weight) \in K /\ weight[Nth(n, K, weight)] = n
<1>1. weight \in Injection(K, 1..m)
  BY DEF Injection, IsInjective
<1>2. IsFiniteSet(1..m) /\ Cardinality(1..m) = m
  BY FS_Interval
<1>3. weight \in Surjection(K, 1..m)
  BY DEF Surjection
<1>4. IsFiniteSet(K) /\ Cardinality(K) = m
  BY <1>1, <1>2, <1>3, FS_Injection
<1>5. ASSUME NEW a \in K
      PROVE  Rank(a, K, weight) = weight[a]
  <2> DEFINE B == {b \in K : Ahead(b, a, weight)}
  <2>0. ASSUME NEW b \in K PROVE Ahead(b, a, weight) <=> weight[b] < weight[a]
    <3>1. a \in Int /\ (weight[b] = weight[a] => b = a)
      OBVIOUS
    <3> QED
      BY <3>1 DEF Ahead
  <2>1. B = {b \in K : weight[b] < weight[a]}
    BY <2>0
  <2> DEFINE f == [b \in B |-> weight[b]]
             J == 1..(weight[a] - 1)
  <2>2. weight[a] \in Nat
    OBVIOUS
  <2>3. IsFiniteSet(J) /\ Cardinality(J) = weight[a] - 1
    <3>1. 1 \in Int /\ weight[a] - 1 \in Int /\ 1 <= weight[a]
      BY <2>2
    <3>2. IsFiniteSet(J) /\ Cardinality(J) = IF 1 > weight[a] - 1 THEN 0 ELSE (weight[a] - 1) - 1 + 1
      BY <3>1, FS_Interval
    <3> QED
      BY <3>1, <3>2
  <2>4. f \in Injection(B, J)
    <3>1. \A b \in B : weight[b] \in J
      BY <2>1, <2>2
    <3> QED
      BY <3>1 DEF Injection, IsInjective
  <2>5. ASSUME NEW n \in J PROVE \E b \in B : f[b] = n
    <3>1. PICK b \in K : weight[b] = n
      BY <2>2
    <3> QED
      BY <2>1, <3>1
  <2>6. f \in Surjection(B, J)
    BY <2>4, <2>5 DEF Injection, Surjection
  <2>7. Cardinality(B) = weight[a] - 1
    BY <2>3, <2>4, <2>6, FS_Injection
  <2> QED
    BY <2>2, <2>7 DEF Rank
<1>6. weight \in [K -> Int]
  OBVIOUS
<1>7. \A n \in 1..m : Nth(n, K, weight) \in K /\ Rank(Nth(n, K, weight), K, weight) = n
  BY <1>4, <1>6, RanksAreOneToOne
<1> QED
  BY <1>4, <1>5, <1>7

OneToOne(s) == \A a, b \in DOMAIN s : s[a] = s[b] => a = b
SameMembers(t, s, K) ==
  /\ \A n \in DOMAIN t : \E k \in K : t[n] = s[k]
  /\ \A k \in K : \E n \in DOMAIN t : t[n] = s[k]

(* A list of a sequence without repetitions has none.                         *)
LEMMA ListedOnce ==
  ASSUME NEW T, NEW s \in Seq(T), NEW K \in SUBSET DOMAIN s, NEW weight \in [K -> Int]
  PROVE  /\ Listed(s, K, weight) \in Seq(T)
         /\ SameMembers(Listed(s, K, weight), s, K)
         /\ OneToOne(s) => OneToOne(Listed(s, K, weight))
<1>1. /\ IsFiniteSet(K) /\ Cardinality(K) \in Nat
      /\ Listed(s, K, weight) \in Seq(T)
      /\ DOMAIN Listed(s, K, weight) = 1..Cardinality(K)
      /\ \A n \in 1..Cardinality(K) :
           Nth(n, K, weight) \in K /\ Listed(s, K, weight)[n] = s[Nth(n, K, weight)]
      /\ \A k \in K : Rank(k, K, weight) \in 1..Cardinality(K)
                        /\ Listed(s, K, weight)[Rank(k, K, weight)] = s[k]
  BY ListedMembers
<1>2. IsFiniteSet(K) /\ K \subseteq Int
  BY <1>1
<1>3. \A n \in 1..Cardinality(K) : Rank(Nth(n, K, weight), K, weight) = n
  BY <1>2, RanksAreOneToOne
<1>4. OneToOne(s) => OneToOne(Listed(s, K, weight))
  BY <1>1, <1>3 DEF OneToOne
<1> QED
  BY <1>1, <1>4 DEF SameMembers

-----------------------------------------------------------------------------
(* ExchangeRate.                                                              *)

(* A rate that is used can be shown, as it is and rounded.                    *)
LEMMA RatesFit ==
    /\ \A r \in Money!RatesTo(MaxRate) : r \in Money!RatesTo(MaxRate + 1)
    /\ \A c \in Currencies \cup {Typist} : \A r \in Money!RatesOf(c) :
         r \in Money!RatesTo(MaxRate) /\ Money!Rounded(r) \in Money!RatesTo(MaxRate + 1)
<1> USE MoneyAssumption DEF Money!ConstantsOK, Money!RatesOf, Money!RatesTo, Money!NoRate
<1>1. ASSUME NEW r \in Money!RatesTo(MaxRate)
      PROVE  r \in Money!RatesTo(MaxRate + 1)
  <2>1. 1..MaxRate \subseteq 1..(MaxRate + 1)
    OBVIOUS
  <2> QED
    BY <1>1, <2>1
<1>2. ASSUME NEW c \in Currencies \cup {Typist}, NEW r \in Money!RatesOf(c)
      PROVE  r \in Money!RatesTo(MaxRate) /\ Money!Rounded(r) \in Money!RatesTo(MaxRate + 1)
  <2>1. PICK n \in 1..MaxRate : r = [of |-> c, n |-> n]
    OBVIOUS
  <2>2. 2 * ((n + 1) \div 2) \in 1..(MaxRate + 1)
    OBVIOUS
  <2>3. Money!Rounded(r) = [of |-> c, n |-> 2 * ((n + 1) \div 2)]
    BY <2>1 DEF Money!Rounded
  <2> QED
    BY <2>1, <2>2, <2>3
<1> QED
  BY <1>1, <1>2

LEMMA MoneyInit == ASSUME Money!Init PROVE Money!RateInv
BY DEF Money!Init, Money!RateInv, Money!TypeOK, Money!CallsAreForCode, Money!LabelIsTrue,
       Money!AmountsMatchRate, Money!ReopenConvertsTheSame, Money!NoRate, Money!RatesOf, Money!RatesTo, Money!Free

(* The answer of a request that was not aborted is a rate of the currency on  *)
(* the screen; it replaces the rate, and says whether it could be kept.       *)
LEMMA MoneyAnswered ==
    ASSUME Money!RateInv, NEW s \in Slots, Money!Answered(s)
    PROVE  Money!RateInv'
<1> USE DEF Money!NoRate, Money!RatesOf, Money!Free
<1>0. Closed \notin Currencies
  BY MoneyAssumption DEF Money!ConstantsOK
<1>1. /\ x6[s] = x1 /\ x1 \in Currencies
      /\ UNCHANGED <<x1, x5, x8>> /\ x6' = [x6 EXCEPT ![s] = Money!Free]
      /\ x9' = (x8 # Money!NoRate /\ x8 # x2')
  BY DEF Money!Answered, Money!RateInv, Money!TypeOK, Money!CallsAreForCode
<1>2. CASE Money!RateArrives(s)
  <2>1. PICK r \in Money!RatesOf(x1) :
          /\ x2' = r /\ x3' = Money!Rounded(r) /\ x4' = "live"
          /\ \/ x7' = [x7 EXCEPT ![x1] = r] /\ x10' = FALSE
             \/ UNCHANGED x7 /\ x10' = TRUE
    BY <1>1, <1>2 DEF Money!RateArrives
  <2>2. r \in [of: Currencies, n: 1..MaxRate] /\ r.of = x1 /\ r # Money!NoRate
    BY <1>0, <1>1, <2>1
  <2>3. Money!TypeOK'
    <3>0. x2' \in Money!RatesTo(MaxRate) /\ x3' \in Money!RatesTo(MaxRate + 1)
      BY <1>1, <2>1, RatesFit
    <3>1. /\ x7' \in [Currencies -> [of: Currencies, n: 1..MaxRate] \cup {Money!NoRate}]
          /\ \A c \in Currencies : x7'[c] \in Money!RatesOf(c) \cup {Money!NoRate}
      BY <1>1, <2>1, <2>2 DEF Money!RateInv, Money!TypeOK
    <3> QED
      BY <1>1, <2>1, <2>2, <3>0, <3>1 DEF Money!RateInv, Money!TypeOK
  <2>4. (Money!LabelIsTrue /\ Money!CallsAreForCode)'
    BY <1>1, <2>1, <2>2 DEF Money!RateInv, Money!LabelIsTrue, Money!CallsAreForCode
  <2>5. (Money!AmountsMatchRate /\ Money!ReopenConvertsTheSame)'
    BY <1>1, <2>1, <2>2 DEF Money!RateInv, Money!TypeOK, Money!AmountsMatchRate,
       Money!ReopenConvertsTheSame
  <2> QED
    BY <1>0, <1>1, <2>3, <2>4, <2>5 DEF Money!RateInv
<1>3. CASE Money!RateFails(s)
  <2>1. x7[x1] \in Money!RatesOf(x1) \cup {Money!NoRate}
    BY <1>1 DEF Money!RateInv, Money!TypeOK
  <2>2. x7[x1] \in Money!RatesTo(MaxRate) /\ x7[x1] \in Money!RatesTo(MaxRate + 1)
    BY <1>1, <2>1, RatesFit DEF Money!RatesTo
  <2>3. Money!TypeOK'
    BY <1>1, <1>3, <2>2 DEF Money!RateFails, Money!RateInv, Money!TypeOK
  <2>4. Money!CallsAreForCode'
    BY <1>1 DEF Money!RateInv, Money!TypeOK, Money!CallsAreForCode
  <2>5. (Money!LabelIsTrue /\ Money!AmountsMatchRate /\ Money!ReopenConvertsTheSame)'
    BY <1>1, <1>3, <2>1
       DEF Money!RateFails, Money!RateInv, Money!LabelIsTrue, Money!AmountsMatchRate,
           Money!ReopenConvertsTheSame
  <2> QED
    BY <1>0, <1>1, <2>3, <2>4, <2>5 DEF Money!RateInv
<1> QED
  BY <1>2, <1>3 DEF Money!Answered

LEMMA MoneyStep == ASSUME Money!RateInv, [Money!Next]_Money!vars PROVE Money!RateInv'
<1> USE MoneyAssumption
    DEF Money!ConstantsOK, Money!NoRate, Money!RatesOf, Money!Free, Money!Aborted, Money!RateInv,
        Money!TypeOK, Money!CallsAreForCode, Money!LabelIsTrue, Money!AmountsMatchRate, Money!ReopenConvertsTheSame
<1>1. CASE UNCHANGED Money!vars
  BY <1>1 DEF Money!vars
<1>2. ASSUME NEW c \in Currencies, Money!Open(c)
      PROVE  Money!RateInv'
  <2>1. PICK s \in Slots : x6' = [[t \in Slots |-> Closed] EXCEPT ![s] = c]
    BY <1>2 DEF Money!Open, Money!FetchRealtimeRate
  <2>2. /\ x1' = c /\ x2' = x7[c] /\ x3' = x7[c] /\ x4' = "loading" /\ x5' = {}
        /\ x7' = x7 /\ x8' = Money!NoRate /\ x9' = FALSE /\ x10' = FALSE
    BY <1>2 DEF Money!Open, Money!FetchRealtimeRate
  <2>3. x7[c] \in Money!RatesTo(MaxRate) /\ x7[c] \in Money!RatesTo(MaxRate + 1)
    BY RatesFit DEF Money!RatesTo
  <2>4. Money!TypeOK'
    BY <2>1, <2>2, <2>3 DEF Money!RatesTo
  <2> QED
    BY <2>1, <2>2, <2>4
<1>3. ASSUME NEW c \in Currencies, Money!CacheChanges(c)
      PROVE  Money!RateInv'
  <2>1. PICK r \in Money!RatesOf(c) \cup {Money!NoRate} :
          /\ x7' = [x7 EXCEPT ![c] = r] /\ x10' = (x10 \/ c = x1)
          /\ UNCHANGED <<x1, x2, x3, x4, x5, x6, x8, x9>>
    BY <1>3 DEF Money!CacheChanges
  <2>2. /\ x7' \in [Currencies -> [of: Currencies, n: 1..MaxRate] \cup {Money!NoRate}]
        /\ \A d \in Currencies : x7'[d] \in Money!RatesOf(d) \cup {Money!NoRate}
    BY <2>1
  <2>3. Money!TypeOK'
    BY <2>1, <2>2
  <2>4. Money!ReopenConvertsTheSame'
    BY <2>1
  <2> QED
    BY <2>1, <2>3, <2>4
<1>4. CASE Money!Close
  BY <1>4 DEF Money!Close, Money!RatesTo
<1>5. CASE Money!Refresh
  BY <1>5 DEF Money!Refresh, Money!FetchRealtimeRate
<1>6. ASSUME NEW r \in Money!RatesOf(Typist) \cup {Money!NoRate}, Money!HandleRateChange(r)
      PROVE  Money!RateInv'
  <2>1. r \in Money!RatesTo(MaxRate) /\ r \in Money!RatesTo(MaxRate + 1)
    BY RatesFit DEF Money!RatesTo
  <2>2. Money!NoRate \in Money!RatesTo(MaxRate)
    BY DEF Money!RatesTo
  <2> QED
    BY <1>6, <2>1, <2>2 DEF Money!HandleRateChange
<1>7. CASE Money!HandleForeignChange \/ Money!HandleKrwChange
  BY <1>7 DEF Money!HandleForeignChange, Money!HandleKrwChange, Money!ChangeAmount, Money!RatesTo
<1> QED
  BY <1>1, <1>2, <1>3, <1>4, <1>5, <1>6, <1>7, MoneyAnswered DEF Money!Next

-----------------------------------------------------------------------------
(* ForgotPassword: x7 is submitting, x8 tempPassword, x10 calls, x11 live,    *)
(* x12 issued and x13 password.                                               *)

LEMMA ForgotInit == ASSUME Forgot!Init PROVE Forgot!PanelInv
<1> USE ForgotAssumption DEF Forgot!ConstantsOK, Forgot!Init, Forgot!Free, Forgot!Codes, Forgot!None
<1>1. Forgot!TypeOK
  <2>1. x10 \in [Slots -> Forgot!Calls]
    BY DEF Forgot!Calls
  <2>2. x2 \in 0..MaxCodes /\ x12 \in 0..MaxCodes
    OBVIOUS
  <2>3. /\ x3 \in Emails /\ {x1, x5, x6, x7, x9} \subseteq BOOLEAN
        /\ {x4, x8} \subseteq Forgot!Codes \cup {Forgot!None}
        /\ {x11, x13} \subseteq [Emails -> Forgot!Codes \cup {Forgot!None}]
    OBVIOUS
  <2> QED
    BY <2>1, <2>2, <2>3 DEF Forgot!TypeOK
<1>2. Forgot!CodesWereIssued /\ Forgot!OneIsAwaited /\ Forgot!OutcomesWork
  BY DEF Forgot!CodesWereIssued, Forgot!OneIsAwaited, Forgot!OutcomesWork, Forgot!Awaited
<1> QED
  BY <1>1, <1>2 DEF Forgot!PanelInv

(* What the types say of a reset.                                             *)
LEMMA ForgotReset ==
    ASSUME Forgot!TypeOK, NEW s \in Slots, x10[s].op = "reset"
    PROVE  /\ x10[s].st \in {"sent", "mailed", "returned", "failed"} /\ x10[s].email \in Emails
           /\ x10[s].code \in Forgot!Codes /\ x10[s].panel \in 0..MaxCodes
           /\ x10[s] = [op |-> "reset", st |-> x10[s].st, email |-> x10[s].email,
                        code |-> x10[s].code, panel |-> x10[s].panel]
BY DEF Forgot!TypeOK, Forgot!Calls, Forgot!Free

LEMMA ForgotSend ==
    ASSUME Forgot!TypeOK, NEW s \in Slots, x10[s].op = "send"
    PROVE  /\ x10[s].st \in {"sent", "ok", "failed"} /\ x10[s].email \in Emails
           /\ x10[s].panel \in 0..MaxCodes
           /\ x10[s] = [op |-> "send", st |-> x10[s].st, email |-> x10[s].email,
                        panel |-> x10[s].panel]
BY DEF Forgot!TypeOK, Forgot!Calls, Forgot!Free

(* The steps of the panel itself: it opens anew, closes, or is filled in.     *)
LEMMA ForgotPanelStep ==
    ASSUME Forgot!PanelInv,
           \/ Forgot!OpenPanel \/ Forgot!ClosePanel
           \/ \E e \in Emails : Forgot!ChangeEmail(e)
           \/ \E k \in Forgot!Codes : Forgot!ChangeCode(k)
    PROVE  Forgot!PanelInv'
<1> USE ForgotAssumption
    DEF Forgot!ConstantsOK, Forgot!PanelInv, Forgot!Codes, Forgot!None, Forgot!fields, Forgot!serverVars
<1>1. UNCHANGED <<x10, x11, x12, x13>>
  BY DEF Forgot!OpenPanel, Forgot!ClosePanel, Forgot!ChangeEmail, Forgot!ChangeCode
<1>2. Forgot!TypeOK'
  <2>1. CASE Forgot!OpenPanel
    <3>1. x2' \in 0..MaxCodes /\ x3' \in Emails /\ x4' = 0 /\ x8' = 0
      BY <2>1 DEF Forgot!TypeOK, Forgot!EmptyPanel, Forgot!OpenPanel
    <3>2. {x1', x5', x6', x7', x9'} \subseteq BOOLEAN
      BY <2>1 DEF Forgot!EmptyPanel, Forgot!OpenPanel
    <3> QED
      BY <1>1, <3>1, <3>2 DEF Forgot!TypeOK
  <2>2. CASE Forgot!ClosePanel
    BY <2>2 DEF Forgot!TypeOK, Forgot!EmptyPanel, Forgot!ClosePanel
  <2>3. ASSUME NEW e \in Emails, Forgot!ChangeEmail(e)
        PROVE  Forgot!TypeOK'
    BY <2>3 DEF Forgot!TypeOK, Forgot!ChangeEmail
  <2>4. ASSUME NEW k \in Forgot!Codes, Forgot!ChangeCode(k)
        PROVE  Forgot!TypeOK'
    BY <2>4 DEF Forgot!TypeOK, Forgot!ChangeCode
  <2> QED
    BY <2>1, <2>2, <2>3, <2>4
<1>3. Forgot!CodesWereIssued'
  BY <1>1 DEF Forgot!TypeOK, Forgot!CodesWereIssued, Forgot!EmptyPanel, Forgot!OpenPanel,
     Forgot!ClosePanel, Forgot!ChangeEmail, Forgot!ChangeCode
<1>4. /\ \A s \in Slots : Forgot!Awaited(s)' => Forgot!Awaited(s) /\ x7' = x7 /\ Forgot!FormShown'
      /\ x2 <= x2' /\ x2' \in Nat
      /\ x8' # 0 => x8' = x8
  <2>1. CASE Forgot!OpenPanel
    <3>1. \A s \in Slots : x10[s].op = "reset" => x10[s].panel # x2'
      BY <2>1, ForgotReset DEF Forgot!OpenPanel, Forgot!OneIsAwaited, Forgot!TypeOK
    <3> QED
      BY <1>1, <2>1, <3>1 DEF Forgot!OpenPanel, Forgot!EmptyPanel, Forgot!TypeOK, Forgot!Awaited,
         Forgot!Mounted
  <2>2. CASE Forgot!ClosePanel
    BY <2>2 DEF Forgot!ClosePanel, Forgot!EmptyPanel, Forgot!TypeOK, Forgot!Awaited, Forgot!Mounted
  <2>3. CASE \/ \E e \in Emails : Forgot!ChangeEmail(e)
             \/ \E k \in Forgot!Codes : Forgot!ChangeCode(k)
    BY <2>3 DEF Forgot!ChangeEmail, Forgot!ChangeCode, Forgot!TypeOK, Forgot!Awaited,
       Forgot!Mounted,
       Forgot!FormShown
  <2> QED
    BY <2>1, <2>2, <2>3
<1>5. Forgot!OneIsAwaited'
  BY <1>1, <1>4, ForgotReset DEF Forgot!OneIsAwaited, Forgot!TypeOK
<1>6. Forgot!OutcomesWork'
  <2>1. \A e, k : Forgot!Keeps(e, k) => Forgot!Keeps(e, k)'
    BY <1>1 DEF Forgot!Keeps
  <2> QED
    BY <1>1, <1>4, <2>1 DEF Forgot!OutcomesWork
<1> QED
  BY <1>2, <1>3, <1>5, <1>6

(* A request is sent from the form that is shown: a reset only when none is   *)
(* awaited, with a code that was issued.                                      *)
LEMMA ForgotRequest ==
    ASSUME Forgot!PanelInv, NEW s \in Slots, Forgot!HandleSendCode(s) \/ Forgot!HandleSubmit(s)
    PROVE  Forgot!PanelInv'
<1> USE DEF Forgot!PanelInv, Forgot!Codes, Forgot!None, Forgot!fields, Forgot!serverVars
<1>1. /\ x10' = [x10 EXCEPT ![s] = x10'[s]] /\ x10'[s].op \in {"send", "reset"}
      /\ \A t \in Slots \ {s} : x10'[t] = x10[t]
      /\ UNCHANGED <<x1, x2, x3, x4, x8, x9, x11, x12, x13>> /\ Forgot!FormShown /\ Forgot!FormShown'
  BY DEF Forgot!HandleSendCode, Forgot!HandleSubmit, Forgot!Sent, Forgot!TypeOK, Forgot!FormShown
<1>2. x10'[s].op = "reset" =>
        /\ ~x7 /\ x7' /\ x10'[s].st = "sent" /\ x10'[s].panel = x2 /\ x10'[s].code = x4
  BY DEF Forgot!HandleSendCode, Forgot!HandleSubmit, Forgot!Sent, Forgot!TypeOK
<1>3. x10'[s].op = "send" => x7' = x7
  BY DEF Forgot!HandleSendCode, Forgot!HandleSubmit, Forgot!Sent, Forgot!TypeOK
<1>4. Forgot!TypeOK'
  <2>1. x10'[s] \in Forgot!Calls
    BY DEF Forgot!HandleSendCode, Forgot!HandleSubmit, Forgot!Sent, Forgot!TypeOK, Forgot!Calls
  <2>2. x10' \in [Slots -> Forgot!Calls]
    BY <1>1, <2>1 DEF Forgot!TypeOK
  <2> QED
    BY <1>1, <2>2 DEF Forgot!HandleSendCode, Forgot!HandleSubmit, Forgot!TypeOK
<1>5. Forgot!CodesWereIssued'
  BY <1>1, <1>2 DEF Forgot!CodesWereIssued
<1>6. Forgot!OneIsAwaited'
  <2>1. \A t \in Slots \ {s} : Forgot!Awaited(t)' <=> Forgot!Awaited(t)
    BY <1>1 DEF Forgot!Awaited, Forgot!Mounted
  <2> QED
    BY <1>1, <1>2, <1>3, <2>1 DEF Forgot!OneIsAwaited, Forgot!Awaited, Forgot!Mounted, Forgot!TypeOK
<1>7. Forgot!OutcomesWork'
  <2>1. x8 = 0
    BY <1>1 DEF Forgot!FormShown
  <2>2. CASE x10'[s].op = "reset"
    <3>1. \A t \in Slots : ~(Forgot!Awaited(t) /\ x10[t].st = "returned")'
      BY <1>1, <1>2, <2>2 DEF Forgot!Awaited, Forgot!Mounted, Forgot!OneIsAwaited
    <3> QED
      BY <1>1, <2>1, <3>1 DEF Forgot!OutcomesWork
  <2>3. CASE x10'[s].op = "send"
    <3>1. \A e, k : Forgot!Keeps(e, k) => Forgot!Keeps(e, k)'
      BY <1>1, <2>3 DEF Forgot!Keeps
    <3>2. \A t \in Slots : Forgot!Awaited(t)' => Forgot!Awaited(t) /\ x10'[t] = x10[t]
      BY <1>1, <2>3 DEF Forgot!Awaited, Forgot!Mounted
    <3> QED
      BY <1>1, <2>1, <3>1, <3>2 DEF Forgot!OutcomesWork
  <2> QED
    BY <1>1, <2>2, <2>3
<1> QED
  BY <1>4, <1>5, <1>6, <1>7

(* An answer is taken; the one reset that was awaited shows its outcome.      *)
LEMMA ForgotAnswered ==
    ASSUME Forgot!PanelInv, NEW s \in Slots, Forgot!SendAnswered(s) \/ Forgot!SubmitAnswered(s)
    PROVE  Forgot!PanelInv'
<1> USE DEF Forgot!PanelInv, Forgot!None, Forgot!serverVars
<1>1. /\ x10' = [x10 EXCEPT ![s] = Forgot!Free]
      /\ UNCHANGED <<x1, x2, x3, x4, x11, x12, x13>>
      /\ x10[s].op \in {"send", "reset"}
  BY DEF Forgot!SendAnswered, Forgot!SubmitAnswered
<1>2. /\ x10' \in [Slots -> Forgot!Calls]
      /\ x10'[s].op = "free" /\ \A t \in Slots \ {s} : x10'[t] = x10[t]
  BY <1>1 DEF Forgot!TypeOK, Forgot!Calls, Forgot!Free
<1>3. /\ \A t \in Slots : Forgot!Awaited(t)' => t # s /\ Forgot!Awaited(t) /\ x10'[t] = x10[t]
      /\ \A e, k : Forgot!Keeps(e, k) => Forgot!Keeps(e, k)'
  BY <1>1, <1>2 DEF Forgot!Awaited, Forgot!Mounted, Forgot!Keeps
<1>4. Forgot!CodesWereIssued'
  BY <1>1, <1>2 DEF Forgot!CodesWereIssued
<1>5. CASE Forgot!SubmitAnswered(s) /\ Forgot!Mounted(x10[s])
  <2>1. Forgot!Awaited(s) /\ x1 /\ x8 = 0
    BY <1>5 DEF Forgot!SubmitAnswered, Forgot!Awaited, Forgot!OneIsAwaited, Forgot!FormShown,
       Forgot!Mounted
  <2>2. \A t \in Slots : ~Forgot!Awaited(t)'
    BY <1>3, <2>1 DEF Forgot!OneIsAwaited
  <2>3. /\ x5' = x5 /\ x6' = x6 /\ x7' = FALSE /\ x9' = (x10[s].st = "mailed")
        /\ x8' = IF x10[s].st = "returned" THEN x10[s].code ELSE 0
    BY <1>5 DEF Forgot!SubmitAnswered
  <2>4. Forgot!TypeOK'
    <3>1. x8' \in Forgot!Codes \cup {0}
      BY <1>5, <2>3, ForgotReset DEF Forgot!SubmitAnswered
    <3> QED
      BY <1>1, <1>2, <2>3, <3>1 DEF Forgot!TypeOK
  <2>5. Forgot!OneIsAwaited'
    BY <1>1, <1>2, <2>2 DEF Forgot!OneIsAwaited
  <2>6. Forgot!OutcomesWork'
    <3>1. x8' # 0 => \E e \in Emails : Forgot!Keeps(e, x8')
      BY <1>5, <2>1, <2>3, ForgotReset DEF Forgot!SubmitAnswered, Forgot!OutcomesWork
    <3> QED
      BY <1>3, <2>2, <3>1 DEF Forgot!OutcomesWork
  <2> QED
    BY <1>4, <2>4, <2>5, <2>6
<1>6. CASE ~(Forgot!SubmitAnswered(s) /\ Forgot!Mounted(x10[s]))
  <2>1. UNCHANGED <<x7, x8, x9>> /\ x5' \in BOOLEAN /\ x6' \in BOOLEAN
    BY <1>6 DEF Forgot!SendAnswered, Forgot!SubmitAnswered, Forgot!TypeOK
  <2>2. Forgot!TypeOK'
    BY <1>1, <1>2, <2>1 DEF Forgot!TypeOK
  <2>3. Forgot!OneIsAwaited' /\ Forgot!OutcomesWork'
    BY <1>1, <1>2, <1>3, <2>1 DEF Forgot!OneIsAwaited, Forgot!OutcomesWork, Forgot!FormShown
  <2> QED
    BY <1>4, <2>2, <2>3
<1> QED
  BY <1>5, <1>6

(* The server issues a code, which no request can carry yet, or fails.        *)
LEMMA ForgotServeSend ==
    ASSUME Forgot!PanelInv, NEW s \in Slots, Forgot!ServeSend(s)
    PROVE  Forgot!PanelInv'
<1> USE ForgotAssumption DEF Forgot!ConstantsOK, Forgot!PanelInv, Forgot!fields, Forgot!None
<1>1. PICK st \in {"ok", "failed"} : x10' = [x10 EXCEPT ![s].st = st]
  BY DEF Forgot!ServeSend
<1>2. /\ UNCHANGED <<x1, x2, x3, x4, x5, x6, x7, x8, x9, x13>> /\ x10[s].op = "send"
      /\ \/ x12 < MaxCodes /\ x12' = x12 + 1 /\ x11' = [x11 EXCEPT ![x10[s].email] = x12 + 1]
         \/ UNCHANGED <<x11, x12>>
  BY DEF Forgot!ServeSend
<1>3. /\ x10' \in [Slots -> Forgot!Calls] /\ x10'[s].op = "send"
      /\ \A t \in Slots \ {s} : x10'[t] = x10[t]
  <2>1. x10'[s] = [x10[s] EXCEPT !.st = st] /\ \A t \in Slots \ {s} : x10'[t] = x10[t]
    BY <1>1 DEF Forgot!TypeOK
  <2>2. x10'[s] \in Forgot!Calls /\ x10'[s].op = "send"
    BY <1>2, <2>1, ForgotSend DEF Forgot!Calls
  <2> QED
    BY <1>1, <2>1, <2>2 DEF Forgot!TypeOK
<1>4. Forgot!TypeOK' /\ Forgot!CodesWereIssued'
  <2>1. x10[s].email \in Emails
    BY <1>2, ForgotSend
  <2>2. CASE x12 < MaxCodes /\ x12' = x12 + 1 /\ x11' = [x11 EXCEPT ![x10[s].email] = x12 + 1]
    <3>1. x12' \in 0..MaxCodes /\ x12' \in Forgot!Codes /\ x12 <= x12'
      BY <2>2 DEF Forgot!TypeOK, Forgot!Codes
    <3>2. x11' \in [Emails -> Forgot!Codes \cup {0}] /\ \A e \in Emails : x11'[e] <= x12'
      BY <2>1, <2>2, <3>1 DEF Forgot!TypeOK, Forgot!CodesWereIssued, Forgot!Codes
    <3>3. Forgot!CodesWereIssued'
      BY <1>2, <1>3, <2>2, <3>1, <3>2, ForgotReset
         DEF Forgot!TypeOK, Forgot!CodesWereIssued, Forgot!Codes
    <3> QED
      BY <1>2, <1>3, <3>1, <3>2, <3>3 DEF Forgot!TypeOK
  <2>3. CASE UNCHANGED <<x11, x12>>
    BY <1>2, <1>3, <2>3 DEF Forgot!TypeOK, Forgot!CodesWereIssued
  <2> QED
    BY <1>2, <2>2, <2>3
<1>5. \A k : \A e \in Emails : Forgot!Keeps(e, k) => Forgot!Keeps(e, k)'
  <2> SUFFICES ASSUME NEW e \in Emails, NEW k, Forgot!Keeps(e, k), NEW t \in Slots,
                      x10'[t].op = "reset", x10'[t].st = "sent", x10'[t].email = e
               PROVE  x10'[t].code # x11'[e]
    BY <1>2 DEF Forgot!Keeps
  <2>1. t # s /\ x10'[t] = x10[t] /\ x10[t].code <= x12 /\ x10[t].code \in Nat /\ x12 \in Nat
    BY <1>3, ForgotReset DEF Forgot!CodesWereIssued, Forgot!TypeOK, Forgot!Codes
  <2> QED
    BY <1>2, <2>1, ForgotSend DEF Forgot!Keeps, Forgot!TypeOK
<1>6. \A t \in Slots : Forgot!Awaited(t)' => Forgot!Awaited(t) /\ x10'[t] = x10[t]
  BY <1>2, <1>3 DEF Forgot!Awaited, Forgot!Mounted
<1>7. Forgot!OneIsAwaited' /\ Forgot!OutcomesWork'
  BY <1>2, <1>3, <1>5, <1>6, ForgotReset DEF Forgot!OneIsAwaited, Forgot!OutcomesWork,
     Forgot!FormShown, Forgot!Awaited
<1> QED
  BY <1>4, <1>7

(* The server replaces a password: only of an account whose code is sent, and *)
(* with its code spent the account keeps the new one.                         *)
LEMMA ForgotServeReset ==
    ASSUME Forgot!PanelInv, NEW s \in Slots, Forgot!ServeReset(s)
    PROVE  Forgot!PanelInv'
<1> USE DEF Forgot!PanelInv, Forgot!fields, Forgot!None
<1>0. PICK e \in Emails, k \in Forgot!Codes : e = x10[s].email /\ k = x10[s].code
  BY ForgotReset DEF Forgot!ServeReset
<1>1. PICK st \in {"mailed", "returned", "failed"} :
        /\ x10' = [x10 EXCEPT ![s].st = st]
        /\ \/ x11[e] = k /\ x11' = [x11 EXCEPT ![e] = 0] /\ x13' = [x13 EXCEPT ![e] = k]
           \/ st = "failed" /\ UNCHANGED <<x11, x13>>
  BY <1>0 DEF Forgot!ServeReset
<1>2. /\ UNCHANGED <<x1, x2, x3, x4, x5, x6, x7, x8, x9, x12>>
      /\ x10[s].op = "reset" /\ x10[s].st = "sent"
  BY DEF Forgot!ServeReset
<1>4. /\ x10'[s] = [x10[s] EXCEPT !.st = st] /\ \A t \in Slots \ {s} : x10'[t] = x10[t]
      /\ x10' \in [Slots -> Forgot!Calls] /\ x10'[s].op = "reset" /\ x10'[s].st = st
      /\ x10'[s].email = e /\ x10'[s].code = k /\ x10'[s].panel = x10[s].panel
  <2>1. x10'[s] = [x10[s] EXCEPT !.st = st] /\ \A t \in Slots \ {s} : x10'[t] = x10[t]
    BY <1>1 DEF Forgot!TypeOK
  <2>2. /\ x10'[s] = [op |-> "reset", st |-> st, email |-> e, code |-> k, panel |-> x10[s].panel]
        /\ x10[s].panel \in 0..MaxCodes
    BY <1>0, <1>2, <2>1, ForgotReset
  <2>3. x10'[s] \in Forgot!Calls
    BY <2>2 DEF Forgot!Calls
  <2> QED
    BY <1>1, <2>1, <2>2, <2>3 DEF Forgot!TypeOK
<1>5. Forgot!TypeOK'
  BY <1>0, <1>1, <1>2, <1>4 DEF Forgot!TypeOK
<1>6. Forgot!CodesWereIssued'
  BY <1>0, <1>1, <1>2, <1>4 DEF Forgot!CodesWereIssued, Forgot!TypeOK
<1>7. \A t \in Slots : /\ Forgot!Awaited(t)' <=> Forgot!Awaited(t)
                       /\ x10'[t].op = x10[t].op /\ x10'[t].panel = x10[t].panel
                       /\ x10'[t].op = "reset" => /\ x10'[t].email = x10[t].email
                                                  /\ x10'[t].code = x10[t].code
                       /\ x10'[t].st = "sent" => x10[t].st = "sent"
  BY <1>0, <1>2, <1>4 DEF Forgot!Awaited, Forgot!Mounted
<1>8. Forgot!OneIsAwaited'
  BY <1>2, <1>7 DEF Forgot!OneIsAwaited, Forgot!FormShown
<1>9. Forgot!OutcomesWork'
  <2>1. \A c : \A d \in Emails : Forgot!Keeps(d, c) => Forgot!Keeps(d, c)'
    <3> SUFFICES ASSUME NEW d \in Emails, NEW c, Forgot!Keeps(d, c) PROVE Forgot!Keeps(d, c)'
      OBVIOUS
    <3>1. d = e => UNCHANGED <<x11, x13>>
      BY <1>0, <1>1, <1>2 DEF Forgot!Keeps
    <3>2. x11'[d] = x11[d] /\ x13'[d] = x13[d]
      BY <1>0, <1>1, <3>1 DEF Forgot!TypeOK
    <3> QED
      BY <1>7, <3>2 DEF Forgot!Keeps
  <2>2. st # "failed" => Forgot!Keeps(e, k)'
    <3>1. ASSUME st # "failed" PROVE x13'[e] = k /\ x11'[e] = 0
      BY <1>0, <1>1, <3>1 DEF Forgot!TypeOK
    <3>2. \A t \in Slots : x10'[t].op = "reset" => x10'[t].code # 0
      <4> SUFFICES ASSUME NEW t \in Slots, x10'[t].op = "reset" PROVE x10'[t].code # 0
        OBVIOUS
      <4>1. x10[t].op = "reset" /\ x10'[t].code = x10[t].code
        BY <1>7
      <4>2. x10[t].code \in 1..MaxCodes
        BY <4>1, ForgotReset DEF Forgot!Codes
      <4> QED
        BY <4>1, <4>2, ForgotAssumption DEF Forgot!ConstantsOK
    <3> QED
      BY <3>1, <3>2 DEF Forgot!Keeps
  <2>3. \A t \in Slots : Forgot!Awaited(t)' /\ x10'[t].st = "returned" =>
          \A d, c : d = x10'[t].email /\ c = x10'[t].code => Forgot!Keeps(d, c)'
    <3> SUFFICES ASSUME NEW t \in Slots, Forgot!Awaited(t)', x10'[t].st = "returned",
                        NEW d, NEW c, d = x10'[t].email, c = x10'[t].code
                 PROVE  Forgot!Keeps(d, c)'
      OBVIOUS
    <3>1. CASE t = s
      BY <1>4, <2>2, <3>1
    <3>2. CASE t # s
      <4>1. Forgot!Awaited(t) /\ x10[t] = x10'[t] /\ d \in Emails
        BY <1>4, <1>7, <3>2, ForgotReset DEF Forgot!Awaited
      <4>2. Forgot!Keeps(d, c)
        BY <4>1 DEF Forgot!OutcomesWork
      <4> QED
        BY <2>1, <4>1, <4>2
    <3> QED
      BY <3>1, <3>2
  <2>4. x8 # 0 => \E d \in Emails : Forgot!Keeps(d, x8)'
    BY <1>2, <2>1 DEF Forgot!OutcomesWork
  <2> QED
    BY <1>2, <2>3, <2>4 DEF Forgot!OutcomesWork, Forgot!Keeps
<1> QED
  BY <1>5, <1>6, <1>8, <1>9

LEMMA ForgotStep == ASSUME Forgot!PanelInv, [Forgot!Next]_Forgot!vars PROVE Forgot!PanelInv'
<1>1. CASE UNCHANGED Forgot!vars
  BY <1>1
     DEF Forgot!vars, Forgot!fields, Forgot!serverVars, Forgot!PanelInv, Forgot!TypeOK, Forgot!CodesWereIssued,
         Forgot!OneIsAwaited, Forgot!OutcomesWork, Forgot!Awaited, Forgot!Mounted, Forgot!FormShown, Forgot!Keeps
<1>2. CASE Forgot!HandleCopyAndClose
  BY <1>2, ForgotPanelStep DEF Forgot!HandleCopyAndClose
<1> QED
  BY <1>1, <1>2, ForgotPanelStep, ForgotRequest, ForgotAnswered, ForgotServeSend, ForgotServeReset
     DEF Forgot!Next, Forgot!Server, Forgot!Answers

-----------------------------------------------------------------------------
(* ViewNavigation: x1 is activeTab, x2 scheduleView, x3 hash and x8 effects.  *)

(* A fragment that the hook writes is read back as what it was written for.   *)
LEMMA HashRoundTrip ==
    ASSUME NEW tab \in Nav!Tabs, NEW view \in Nav!Views
    PROVE  LET stands == Nav!GetInitialTripView(Nav!GetTripViewHash(tab, view))
           IN  /\ stands.tab = tab
               /\ tab = "schedule" => stands.view = view
BY DEF Nav!Tabs, Nav!BottomTabs, Nav!Views, Nav!GetInitialTripView, Nav!GetTripViewHash, Nav!NoHash

LEMMA InitialView ==
    ASSUME NEW h
    PROVE  Nav!GetInitialTripView(h).tab \in Nav!Tabs /\ Nav!GetInitialTripView(h).view \in Nav!Views
BY DEF Nav!Tabs, Nav!BottomTabs, Nav!Views, Nav!GetInitialTripView

LEMMA NavInit == ASSUME Nav!Init PROVE Nav!BrowsingInv
BY NavAssumption, InitialView
   DEF Nav!ConstantsOK, Nav!Init, Nav!BrowsingInv, Nav!TypeOK, Nav!ViewMatchesHash, Nav!ScheduleOpensOnFocus

LEMMA NavTypes == ASSUME Nav!TypeOK, [Nav!Next]_Nav!vars PROVE Nav!TypeOK'
<1> USE NavAssumption DEF Nav!ConstantsOK, Nav!TypeOK, Nav!pageVars, Nav!Show, Nav!Effects
<1>1. CASE UNCHANGED Nav!vars
  BY <1>1 DEF Nav!vars
<1>2. ASSUME NEW tab \in Nav!Tabs, Nav!SetActiveTab(tab)
      PROVE  Nav!TypeOK'
  BY <1>2 DEF Nav!SetActiveTab
<1>3. ASSUME NEW view \in Nav!Views, Nav!SetScheduleView(view)
      PROVE  Nav!TypeOK'
  BY <1>3 DEF Nav!SetScheduleView
<1>4. ASSUME NEW d \in TripDays, Nav!SelectDate(d)
      PROVE  Nav!TypeOK'
  BY <1>4 DEF Nav!SelectDate
<1>5. CASE Nav!OpenSchedule \/ Nav!OpenChecklist
  BY <1>5 DEF Nav!OpenSchedule, Nav!OpenChecklist, Nav!Tabs, Nav!BottomTabs, Nav!Views
<1>6. CASE Nav!ReplaceHash
  BY <1>6 DEF Nav!ReplaceHash, Nav!GetTripViewHash, Nav!Hashes, Nav!NoHash, Nav!Tabs,
     Nav!BottomTabs, Nav!Views
<1>7. CASE Nav!FocusSelectedDate \/ Nav!VisitMap
  BY <1>7 DEF Nav!FocusSelectedDate, Nav!VisitMap
<1>8. CASE Nav!HandleHashChange
  BY <1>8, InitialView DEF Nav!HandleHashChange
<1>9. ASSUME NEW h \in Nav!Hashes, Nav!ChangeHash(h)
      PROVE  Nav!TypeOK'
  BY <1>9 DEF Nav!ChangeHash
<1>10. CASE Nav!Midnight
  BY <1>10 DEF Nav!Midnight
<1>11. CASE Nav!Reload
  BY <1>11, InitialView DEF Nav!Reload, Nav!Opened
<1> QED
  BY <1>1, <1>2, <1>3, <1>4, <1>5, <1>6, <1>7, <1>8, <1>9, <1>10, <1>11 DEF Nav!Next

(* A rendering that shows something else runs the effects, and these bring    *)
(* the fragment and the date to what is shown then.                           *)
LEMMA NavStep == ASSUME Nav!BrowsingInv, [Nav!Next]_Nav!vars PROVE Nav!BrowsingInv'
<1>1. Nav!TypeOK'
  BY NavTypes DEF Nav!BrowsingInv
<1>2. Nav!ViewMatchesHash'
  <2> USE DEF Nav!BrowsingInv, Nav!ViewMatchesHash, Nav!pageVars, Nav!Show, Nav!Effects
  <2>1. CASE Nav!ReplaceHash
    BY <2>1, HashRoundTrip DEF Nav!ReplaceHash, Nav!TypeOK
  <2>2. CASE Nav!HandleHashChange
    BY <2>2 DEF Nav!HandleHashChange
  <2>3. CASE ~Nav!ReplaceHash /\ ~Nav!HandleHashChange
    BY <2>3
       DEF Nav!Next, Nav!vars, Nav!SetActiveTab, Nav!SetScheduleView, Nav!SelectDate, Nav!OpenSchedule,
           Nav!OpenChecklist, Nav!FocusSelectedDate, Nav!VisitMap, Nav!ChangeHash, Nav!Midnight,
           Nav!Reload, Nav!Opened
  <2> QED
    BY <2>1, <2>2, <2>3
<1>3. Nav!ScheduleOpensOnFocus'
  BY DEF Nav!BrowsingInv, Nav!ScheduleOpensOnFocus, Nav!pageVars, Nav!Show, Nav!Effects,
         Nav!Next, Nav!vars, Nav!SetActiveTab, Nav!SetScheduleView, Nav!SelectDate, Nav!OpenSchedule,
         Nav!OpenChecklist, Nav!ReplaceHash, Nav!FocusSelectedDate, Nav!VisitMap, Nav!HandleHashChange,
         Nav!ChangeHash, Nav!Midnight, Nav!Reload, Nav!Opened
<1> QED
  BY <1>1, <1>2, <1>3 DEF Nav!BrowsingInv

-----------------------------------------------------------------------------
(* TripMap: x1 is plan, x3 subTab, x4 stop, x5 picked, x6 loadState, x7       *)
(* queued, x8 map, x9 pins, x10 loads, x15 effects, x16 moved and x17 bare.   *)

(* The stop that is found is one that is on the timeline and was wanted.      *)
LEMMA FirstStopFits ==
    ASSUME Chart!TypeOK, NEW wanted, Chart!FirstStop(wanted) # Nowhere
    PROVE  Chart!FirstStop(wanted) \in Chart!TimelineItems \cap wanted
<1> DEFINE fit == {k \in DOMAIN x1.stops : x1.stops[k] \in Chart!TimelineItems \cap wanted}
<1>1. x1.stops \in Seq(Stops)
  BY MapAssumption DEF Chart!ConstantsOK, Chart!TypeOK
<1>2. fit \subseteq Nat
  BY <1>1
<1>3. fit # {} /\ Chart!FirstStop(wanted) = x1.stops[CHOOSE k \in fit : \A l \in fit : k <= l]
  BY DEF Chart!FirstStop, Chart!Min
<1>4. (CHOOSE k \in fit : \A l \in fit : k <= l) \in fit
  <2> HIDE DEF fit
  <2> QED
    BY <1>2, <1>3, LeastNumber
<1> QED
  BY <1>3, <1>4

LEMMA StopsAreKnown ==
    ASSUME Chart!TypeOK
    PROVE  /\ Chart!TimelineItems \subseteq Stops
           /\ Chart!SelectedRouteItem \in Chart!TimelineItems \cup {Nowhere}
<1>1. x1.stops \in Seq(Stops)
  BY MapAssumption DEF Chart!ConstantsOK, Chart!TypeOK
<1>2. Chart!TimelineItems \subseteq Stops
  BY <1>1 DEF Chart!TimelineItems, Chart!ToSet
<1> QED
  BY <1>2, FirstStopFits DEF Chart!SelectedRouteItem, Chart!NextRouteItem

LEMMA MapInit == ASSUME Chart!Init PROVE Chart!MapInv
BY DEF Chart!Init, Chart!MapInv, Chart!TypeOK, Chart!PinsShowPlaces, Chart!Settled,
   Chart!ReadyHasMap,
       Chart!WaitingHasNone, Chart!PickedIsShown, Chart!NoPins

(* A rendering draws nothing itself; what changes what the pins show also     *)
(* brings the effect that draws them.                                         *)
LEMMA MapRendered ==
    ASSUME Chart!MapInv, UNCHANGED <<x7, x8, x9, x10, x17>>,
           x15' # {} \/ (x15' = x15 /\ x6' = x6 /\ (Chart!NextMarkers)' = Chart!NextMarkers)
    PROVE  Chart!PinsShowPlaces' /\ Chart!ReadyHasMap' /\ Chart!WaitingHasNone'
<1>1. Chart!PinsShowPlaces'
  BY DEF Chart!MapInv, Chart!PinsShowPlaces, Chart!Settled, Chart!NoPins
<1> QED
  BY <1>1 DEF Chart!MapInv, Chart!ReadyHasMap, Chart!WaitingHasNone

LEMMA MapTypes == ASSUME Chart!TypeOK, [Chart!Next]_Chart!vars PROVE Chart!TypeOK'
<1> USE DEF Chart!TypeOK, Chart!tabVars, Chart!locationVars, Chart!mapVars, Chart!Render, Chart!RenderTab
<1>1. CASE UNCHANGED Chart!vars
  BY <1>1 DEF Chart!vars
<1>2. \A i \in Stops : PlaceAt[i] \in Chart!Spots
  BY DEF Chart!Spots
<1>4. ASSUME NEW p \in Chart!Spots, Chart!SelectMapPlace(p)
      PROVE  Chart!TypeOK'
  <2>1. Chart!FirstStop({i \in Stops : PlaceAt[i] = p}) # Nowhere =>
          Chart!FirstStop({i \in Stops : PlaceAt[i] = p}) \in Stops
    BY FirstStopFits, StopsAreKnown
  <2> QED
    BY <1>4, <2>1 DEF Chart!SelectMapPlace
<1>5. CASE Chart!ShowTimeline
  <2>1. Chart!SelectedRouteItem # Nowhere => Chart!SelectedRouteItem \in Stops
    BY StopsAreKnown
  <2> QED
    BY <1>2, <1>5, <2>1 DEF Chart!ShowTimeline
<1>6. CASE Chart!ShowAll
  BY <1>6 DEF Chart!ShowAll
<1>7. ASSUME NEW i \in Stops, Chart!SelectStop(i) \/ Chart!ToggleScheduleComplete(i)
      PROVE  Chart!TypeOK'
  <2>1. Chart!SymDiff(x2, {i}) \subseteq Stops
    BY DEF Chart!SymDiff
  <2>2. CASE Chart!SelectStop(i)
    BY <1>2, <2>2 DEF Chart!SelectStop
  <2>3. CASE Chart!ToggleScheduleComplete(i)
    BY <2>1, <2>3 DEF Chart!ToggleScheduleComplete
  <2> QED
    BY <1>7, <2>2, <2>3
<1>8. ASSUME NEW p \in Plans, Chart!DayEnds(p) \/ Chart!TripLoaded(p)
      PROVE  Chart!TypeOK'
  BY <1>8 DEF Chart!DayEnds, Chart!TripLoaded
<1>9. CASE Chart!RenderLoadState
  BY <1>9 DEF Chart!RenderLoadState
<1>10. CASE Chart!RunEffects
  <2>1. x10' \in [Slots -> {"free", "active", "cancelled"}] /\ x11' \in {"none", "asked", "loaded", "failed"}
    BY <1>10 DEF Chart!RunEffects, Chart!LoadGoogleMaps, Chart!Cancelled
  <2>2. x9' \in [of: SUBSET Chart!Spots, bright: Chart!Spots \cup {Nowhere}, here: BOOLEAN]
    <3>1. Chart!MappablePlaces \subseteq Chart!Spots
      BY DEF Chart!MappablePlaces, Chart!Spots
    <3> QED
      BY <1>10, <3>1 DEF Chart!RunEffects, Chart!DrawPins, Chart!NextMarkers, Chart!NoPins
  <2>3. x7' \in {"idle", "loading", "ready", "error"} /\ x8' \in BOOLEAN /\ x17' \in BOOLEAN
    BY <1>10 DEF Chart!RunEffects
  <2> QED
    BY <1>10, <2>1, <2>2, <2>3 DEF Chart!RunEffects
<1>11. CASE Chart!LibraryLoads
  BY <1>11 DEF Chart!LibraryLoads
<1>12. ASSUME NEW s \in Slots, Chart!LoadAnswered(s)
       PROVE  Chart!TypeOK'
  BY <1>12 DEF Chart!LoadAnswered
<1>13. CASE Chart!RequestCurrentLocation
  BY <1>13 DEF Chart!RequestCurrentLocation
<1>14. CASE Chart!HandleSuccess
  BY <1>14 DEF Chart!HandleSuccess
<1>15. CASE Chart!HandleHighAccuracyError \/ Chart!HandleFallbackError
  BY <1>15 DEF Chart!HandleHighAccuracyError, Chart!HandleFallbackError
<1> QED
  BY <1>1, <1>4, <1>5, <1>6, <1>7, <1>8, <1>9, <1>10, <1>11, <1>12, <1>13, <1>14, <1>15 DEF
     Chart!Next

(* The pins: the library's answers find no pin that the effects did not draw. *)
LEMMA MapPins ==
    ASSUME Chart!MapInv, [Chart!Next]_Chart!vars
    PROVE  Chart!PinsShowPlaces' /\ Chart!ReadyHasMap' /\ Chart!WaitingHasNone'
<1> DEFINE Goal == Chart!PinsShowPlaces' /\ Chart!ReadyHasMap' /\ Chart!WaitingHasNone'
<1> USE DEF Chart!tabVars, Chart!locationVars, Chart!mapVars, Chart!Render, Chart!RenderTab
<1>1. CASE UNCHANGED Chart!vars \/ Chart!HandleHighAccuracyError
  <2>1. UNCHANGED <<x1, x2, x3, x4, x5, x6, x7, x8, x9, x10, x12, x15, x17>>
    BY <1>1 DEF Chart!vars, Chart!HandleHighAccuracyError
  <2>2. (Chart!NextMarkers)' = Chart!NextMarkers
    BY <2>1
       DEF Chart!NextMarkers, Chart!MappablePlaces, Chart!SelectedMapPlace, Chart!SelectedRouteItem,
           Chart!NextRouteItem, Chart!FirstStop, Chart!TimelineItems, Chart!PlaceOf
  <2> QED
    BY <2>1, <2>2, MapRendered
<1>2. CASE \/ \E p \in Chart!Spots : Chart!SelectMapPlace(p)
           \/ Chart!ShowTimeline \/ Chart!ShowAll
           \/ \E i \in Stops : Chart!SelectStop(i) \/ Chart!ToggleScheduleComplete(i)
           \/ \E p \in Plans : Chart!DayEnds(p) \/ Chart!TripLoaded(p)
           \/ Chart!RenderLoadState \/ Chart!HandleSuccess
  <2>1. UNCHANGED <<x7, x8, x9, x10, x17>> /\ x15' # {}
    BY <1>2
       DEF Chart!SelectMapPlace, Chart!ShowTimeline, Chart!ShowAll, Chart!SelectStop,
           Chart!ToggleScheduleComplete, Chart!DayEnds, Chart!TripLoaded, Chart!RenderLoadState,
           Chart!HandleSuccess
  <2> QED
    BY <2>1, MapRendered
<1>3. CASE Chart!RequestCurrentLocation \/ Chart!HandleFallbackError
  <2>1. UNCHANGED <<x1, x2, x3, x4, x5, x7, x8, x9, x10, x12, x17>>
    BY <1>3 DEF Chart!RequestCurrentLocation, Chart!HandleFallbackError
  <2>2. (Chart!NextMarkers)' = Chart!NextMarkers
    BY <2>1
       DEF Chart!NextMarkers, Chart!MappablePlaces, Chart!SelectedMapPlace, Chart!SelectedRouteItem,
           Chart!NextRouteItem, Chart!FirstStop, Chart!TimelineItems, Chart!PlaceOf
  <2>3. x15' # {} \/ (x15' = x15 /\ x6' = x6)
    BY <1>3 DEF Chart!RequestCurrentLocation, Chart!HandleFallbackError
  <2> QED
    BY <2>1, <2>2, <2>3, MapRendered
<1>4. CASE Chart!RunEffects
  <2>1. UNCHANGED <<x1, x2, x3, x4, x5, x6, x12>> /\ x15' = {}
    BY <1>4 DEF Chart!RunEffects
  <2>2. (Chart!NextMarkers)' = Chart!NextMarkers
    BY <2>1
       DEF Chart!NextMarkers, Chart!MappablePlaces, Chart!SelectedMapPlace, Chart!SelectedRouteItem,
           Chart!NextRouteItem, Chart!FirstStop, Chart!TimelineItems, Chart!PlaceOf
  <2>3. Chart!ReadyHasMap'
    BY <1>4 DEF Chart!RunEffects, Chart!MapInv, Chart!ReadyHasMap
  <2>4. Chart!PinsShowPlaces'
    BY <1>4, <2>1, <2>2, <2>3 DEF Chart!RunEffects, Chart!DrawPins, Chart!PinsShowPlaces,
       Chart!Settled, Chart!ReadyHasMap
  <2>5. Chart!WaitingHasNone'
    BY <1>4 DEF Chart!RunEffects, Chart!MapInv, Chart!TypeOK, Chart!WaitingHasNone,
       Chart!LoadGoogleMaps,
       Chart!Cancelled
  <2> QED
    BY <2>3, <2>4, <2>5
<1>5. CASE Chart!LibraryLoads
  <2>1. (Chart!NextMarkers)' = Chart!NextMarkers
    BY <1>5
       DEF Chart!LibraryLoads, Chart!NextMarkers, Chart!MappablePlaces, Chart!SelectedMapPlace,
           Chart!SelectedRouteItem, Chart!NextRouteItem, Chart!FirstStop, Chart!TimelineItems, Chart!PlaceOf
  <2> QED
    BY <1>5, <2>1, MapRendered DEF Chart!LibraryLoads
<1>6. ASSUME NEW s \in Slots, Chart!LoadAnswered(s)
      PROVE  Goal
  <2>1. UNCHANGED <<x1, x2, x3, x4, x5, x6, x9, x12, x15>>
    BY <1>6 DEF Chart!LoadAnswered
  <2>2. (Chart!NextMarkers)' = Chart!NextMarkers
    BY <2>1
       DEF Chart!NextMarkers, Chart!MappablePlaces, Chart!SelectedMapPlace, Chart!SelectedRouteItem,
           Chart!NextRouteItem, Chart!FirstStop, Chart!TimelineItems, Chart!PlaceOf
  <2>3. \A t \in Slots : x10'[t] = "active" => t # s /\ x10[t] = "active"
    BY <1>6 DEF Chart!LoadAnswered, Chart!MapInv, Chart!TypeOK
  <2>4. Chart!ReadyHasMap' /\ Chart!WaitingHasNone'
    BY <1>6, <2>3 DEF Chart!LoadAnswered, Chart!MapInv, Chart!ReadyHasMap, Chart!WaitingHasNone
  <2>5. Chart!PinsShowPlaces'
    BY <1>6, <2>1, <2>2 DEF Chart!LoadAnswered, Chart!MapInv, Chart!PinsShowPlaces, Chart!Settled,
       Chart!WaitingHasNone,
       Chart!TypeOK
  <2> QED
    BY <2>4, <2>5
<1> QED
  BY <1>1, <1>2, <1>3, <1>4, <1>5, <1>6 DEF Chart!Next

(* The place: a stop that is chosen is on the panel, whatever chose it.       *)
LEMMA MapPicked ==
    ASSUME Chart!MapInv, [Chart!Next]_Chart!vars
    PROVE  Chart!PickedIsShown'
<1> USE DEF Chart!tabVars
<1>0. Chart!TypeOK /\ Chart!TypeOK'
  BY MapTypes DEF Chart!MapInv
<1>1. CASE UNCHANGED Chart!tabVars
  BY <1>1
     DEF Chart!MapInv, Chart!PickedIsShown, Chart!SelectedRouteItem, Chart!NextRouteItem,
         Chart!FirstStop, Chart!TimelineItems
<1>2. ASSUME NEW p \in Chart!Spots, Chart!SelectMapPlace(p)
      PROVE  Chart!PickedIsShown'
  <2>1. UNCHANGED <<x1, x2>> /\ x5' = p
    BY <1>2 DEF Chart!SelectMapPlace
  <2>2. PICK i : i = Chart!FirstStop({j \in Stops : PlaceAt[j] = p})
    OBVIOUS
  <2>3. CASE i # Nowhere
    <3>1. i \in Chart!TimelineItems /\ PlaceAt[i] = p
      BY <1>0, <2>2, <2>3, FirstStopFits
    <3>2. x4' = i
      BY <1>2, <2>2, <2>3 DEF Chart!SelectMapPlace
    <3>3. (Chart!SelectedRouteItem)' = i
      BY <2>1, <3>1, <3>2 DEF Chart!SelectedRouteItem, Chart!TimelineItems
    <3> QED
      BY <2>1, <3>1, <3>3 DEF Chart!PickedIsShown
  <2>4. CASE i = Nowhere
    BY <1>2, <2>2, <2>4 DEF Chart!SelectMapPlace, Chart!PickedIsShown
  <2> QED
    BY <2>3, <2>4
<1>3. CASE Chart!ShowTimeline
  <2>1. UNCHANGED <<x1, x2, x4>>
    BY <1>3 DEF Chart!ShowTimeline
  <2>2. (Chart!SelectedRouteItem)' = Chart!SelectedRouteItem
    BY <2>1 DEF Chart!SelectedRouteItem, Chart!NextRouteItem, Chart!FirstStop, Chart!TimelineItems
  <2> QED
    BY <1>3, <2>2 DEF Chart!ShowTimeline, Chart!PickedIsShown
<1>4. CASE Chart!ShowAll
  BY <1>4 DEF Chart!ShowAll, Chart!PickedIsShown
<1>5. ASSUME NEW i \in Stops, Chart!SelectStop(i)
      PROVE  Chart!PickedIsShown'
  <2>1. UNCHANGED <<x1, x2>> /\ x4' = i /\ x5' = PlaceAt[i] /\ i \in Chart!TimelineItems
    BY <1>5 DEF Chart!SelectStop
  <2>2. (Chart!SelectedRouteItem)' = i
    BY <2>1 DEF Chart!SelectedRouteItem, Chart!TimelineItems
  <2> QED
    BY <2>1, <2>2 DEF Chart!PickedIsShown
<1>6. CASE \/ \E i \in Stops : Chart!ToggleScheduleComplete(i)
           \/ \E p \in Plans : Chart!DayEnds(p) \/ Chart!TripLoaded(p)
  BY <1>6 DEF Chart!ToggleScheduleComplete, Chart!DayEnds, Chart!TripLoaded, Chart!PickedIsShown
<1>7. CASE \/ UNCHANGED Chart!vars
           \/ Chart!RenderLoadState \/ Chart!RunEffects \/ Chart!LibraryLoads
           \/ \E s \in Slots : Chart!LoadAnswered(s)
           \/ Chart!RequestCurrentLocation \/ Chart!HandleSuccess \/ Chart!HandleHighAccuracyError
           \/ Chart!HandleFallbackError
  BY <1>1, <1>7
     DEF Chart!vars, Chart!RenderLoadState, Chart!RunEffects, Chart!LibraryLoads, Chart!LoadAnswered,
         Chart!RequestCurrentLocation, Chart!HandleSuccess, Chart!HandleHighAccuracyError,
         Chart!HandleFallbackError
<1> QED
  BY <1>2, <1>3, <1>4, <1>5, <1>6, <1>7 DEF Chart!Next

LEMMA MapStep == ASSUME Chart!MapInv, [Chart!Next]_Chart!vars PROVE Chart!MapInv'
BY MapTypes, MapPins, MapPicked DEF Chart!MapInv

-----------------------------------------------------------------------------
(* PwaUpdate: x1 is worker, x2 deployed, x9 form, x10 saving, x11 saved, x12   *)
(* touched and x13 safe.                                                      *)

LEMMA PwaInit == ASSUME Pwa!Init PROVE Pwa!TrackerInv
<1> USE PwaAssumption DEF Pwa!ConstantsOK, Pwa!Init, Pwa!EmptyForm, Pwa!Statuses, Pwa!Values, Pwa!NoValue
<1>1. x9 \in [Forms -> [mounted: BOOLEAN, value: Pwa!Values, snapshot: Pwa!Values \cup {Pwa!NoValue}]]
  OBVIOUS
<1>2. x4 \in BOOLEAN /\ x6 \in BOOLEAN /\ x7 \in BOOLEAN /\ x8 \in BOOLEAN
  OBVIOUS
<1>3. Pwa!TypeOK
  BY <1>1, <1>2 DEF Pwa!TypeOK
<1> QED
  BY <1>3 DEF Pwa!TrackerInv

(* The notice and the connection know nothing of the forms; a version that    *)
(* applies itself found no write in flight and no form that differs from its  *)
(* snapshot.                                                                  *)
LEMMA PwaNotices ==
    ASSUME Pwa!TrackerInv,
           \/ Pwa!CoordinatePwaUpdate \/ Pwa!OfflineReady \/ Pwa!RegisterError \/ Pwa!ApplyPwaUpdate
           \/ Pwa!SubscribePwaStatus \/ Pwa!HandleOffline \/ Pwa!ConfirmOffline \/ Pwa!HandleOnline
           \/ Pwa!NoticeTimesOut \/ Pwa!PressClose
    PROVE  /\ Pwa!TypeOK' /\ UNCHANGED <<x9, x10, x11, x12>>
           /\ \A f \in x13' : Pwa!Unharmed(f)
<1> USE PwaAssumption DEF Pwa!ConstantsOK, Pwa!noticeVars, Pwa!formVars, Pwa!Publish
<1>0. Pwa!TypeOK
  BY DEF Pwa!TrackerInv
<1>1. UNCHANGED <<x9, x10, x11, x12>>
  BY DEF Pwa!CoordinatePwaUpdate, Pwa!OfflineReady, Pwa!RegisterError, Pwa!ApplyPwaUpdate,
         Pwa!SubscribePwaStatus, Pwa!HandleOffline, Pwa!ConfirmOffline, Pwa!HandleOnline,
         Pwa!NoticeTimesOut, Pwa!PressClose, Pwa!CloseNotice
<1>2. x13' \subseteq Forms /\ \A f \in x13' : Pwa!Unharmed(f)
  <2>1. CASE Pwa!CoordinatePwaUpdate
    <3>1. x13' = {} \/ (x13' = Forms /\ ~Pwa!HasUnsavedChanges /\ ~Pwa!HasPendingMutation)
      BY <2>1 DEF Pwa!CoordinatePwaUpdate
    <3> QED
      BY <3>1 DEF Pwa!HasUnsavedChanges, Pwa!HasPendingMutation, Pwa!TrackerInv, Pwa!Unsaved,
         Pwa!Unharmed
  <2>2. CASE Pwa!ApplyPwaUpdate
    BY <2>2 DEF Pwa!ApplyPwaUpdate
  <2>3. CASE ~(Pwa!CoordinatePwaUpdate \/ Pwa!ApplyPwaUpdate)
    <3>1. x13' = x13
      BY <2>3
         DEF Pwa!OfflineReady, Pwa!RegisterError, Pwa!SubscribePwaStatus, Pwa!HandleOffline,
             Pwa!ConfirmOffline, Pwa!HandleOnline, Pwa!NoticeTimesOut, Pwa!PressClose, Pwa!CloseNotice
    <3> QED
      BY <3>1 DEF Pwa!TrackerInv, Pwa!TypeOK
  <2> QED
    BY <2>1, <2>2, <2>3
<1>3. CASE Pwa!CoordinatePwaUpdate \/ Pwa!OfflineReady \/ Pwa!RegisterError \/ Pwa!ApplyPwaUpdate
  BY <1>0, <1>1, <1>2, <1>3
     DEF Pwa!TypeOK, Pwa!Statuses, Pwa!CoordinatePwaUpdate, Pwa!OfflineReady, Pwa!RegisterError,
         Pwa!ApplyPwaUpdate
<1>4. CASE Pwa!SubscribePwaStatus \/ Pwa!NoticeTimesOut \/ Pwa!PressClose
  BY <1>0, <1>1, <1>2, <1>4
     DEF Pwa!TypeOK, Pwa!SubscribePwaStatus, Pwa!Replayed, Pwa!NoticeTimesOut, Pwa!PressClose, Pwa!CloseNotice
<1>5. CASE Pwa!HandleOffline \/ Pwa!ConfirmOffline \/ Pwa!HandleOnline
  <2>1. x6' \in BOOLEAN /\ x7' \in BOOLEAN /\ x8' \in BOOLEAN
    BY <1>0, <1>5 DEF Pwa!TypeOK, Pwa!HandleOffline, Pwa!ConfirmOffline, Pwa!HandleOnline
  <2>2. x5' \in Pwa!Statuses \cup {"none", "offline", "restored"}
    BY <1>0, <1>5 DEF Pwa!TypeOK, Pwa!HandleOffline, Pwa!ConfirmOffline, Pwa!HandleOnline
  <2> QED
    BY <1>0, <1>1, <1>2, <1>5, <2>1, <2>2 DEF Pwa!TypeOK, Pwa!HandleOffline, Pwa!ConfirmOffline,
       Pwa!HandleOnline
<1> QED
  BY <1>1, <1>2, <1>3, <1>4, <1>5

(* A form is mounted with what the server has, which it holds until it is     *)
(* focused; typing leaves the snapshot, and what changes the form otherwise   *)
(* touches it, unless it empties a form that is saved empty.                  *)
LEMMA PwaForms ==
    ASSUME Pwa!TrackerInv, NEW f \in Forms,
           \/ Pwa!Mount(f) \/ Pwa!Unmount(f) \/ Pwa!CaptureInitialSnapshot(f)
           \/ Pwa!Save(f) \/ Pwa!SaveAnswered(f)
           \/ \E v \in Pwa!Values : Pwa!Type(f, v) \/ Pwa!FillIn(f, v)
    PROVE  Pwa!TrackerInv'
<1> USE PwaAssumption
    DEF Pwa!ConstantsOK, Pwa!PageVars, Pwa!noticeVars, Pwa!EmptyForm, Pwa!TrackerInv, Pwa!TypeOK, Pwa!Values,
        Pwa!NoValue, Pwa!Unharmed, Pwa!Unsaved
<1>1. CASE Pwa!Mount(f)
  BY <1>1 DEF Pwa!Mount
<1>2. CASE Pwa!Unmount(f)
  BY <1>2 DEF Pwa!Unmount
<1>3. CASE Pwa!CaptureInitialSnapshot(f)
  BY <1>3 DEF Pwa!CaptureInitialSnapshot
<1>4. CASE Pwa!Save(f)
  BY <1>4 DEF Pwa!Save
<1>5. CASE Pwa!SaveAnswered(f)
  <2>0. UNCHANGED <<x1, x2, x3, x4, x5, x6, x7, x8, x13>> /\ f \notin x13 /\ x10' = [x10 EXCEPT ![f] = Pwa!NoValue]
    BY <1>5 DEF Pwa!SaveAnswered
  <2>1. CASE UNCHANGED <<x9, x11, x12>>
    BY <2>0, <2>1
  <2>2. ASSUME NEW v \in Pwa!Values, v = IF f \in Keeping THEN x10[f] ELSE 0,
               x9' = [x9 EXCEPT ![f].value = v], x11' = [x11 EXCEPT ![f] = v],
               x12' = [x12 EXCEPT ![f] = @ \/ f \in Keeping]
        PROVE  Pwa!TrackerInv'
    <3>1. Pwa!TypeOK'
      BY <2>0, <2>2
    <3>2. f \notin Keeping => v = 0 /\ x11[f] = 0 /\ x12' = x12
      BY <2>2
    <3>3. f \in Keeping => x12'[f]
      BY <2>2
    <3> QED
      BY <2>0, <2>2, <3>1, <3>2, <3>3
  <2> QED
    BY <1>5, <2>1, <2>2 DEF Pwa!SaveAnswered
<1>6. ASSUME NEW v \in Pwa!Values, Pwa!Type(f, v)
      PROVE  Pwa!TrackerInv'
  BY <1>6 DEF Pwa!Type
<1>7. ASSUME NEW v \in Pwa!Values, Pwa!FillIn(f, v)
      PROVE  Pwa!TrackerInv'
  BY <1>7 DEF Pwa!FillIn
<1> QED
  BY <1>1, <1>2, <1>3, <1>4, <1>5, <1>6, <1>7

LEMMA PwaStep == ASSUME Pwa!TrackerInv, [Pwa!Next]_Pwa!vars PROVE Pwa!TrackerInv'
<1>1. ASSUME Pwa!TypeOK', UNCHANGED <<x9, x10, x11, x12>>, \A f \in x13' : Pwa!Unharmed(f)
      PROVE  Pwa!TrackerInv'
  BY <1>1 DEF Pwa!TrackerInv, Pwa!Unharmed, Pwa!Unsaved
<1>2. CASE UNCHANGED Pwa!vars
  BY <1>2 DEF Pwa!TrackerInv, Pwa!TypeOK, Pwa!Unharmed, Pwa!Unsaved, Pwa!vars, Pwa!noticeVars,
     Pwa!formVars
<1>3. CASE Pwa!Reload
  <2> USE <1>3, PwaAssumption DEF Pwa!Reload, Pwa!ConstantsOK, Pwa!EmptyForm, Pwa!Values, Pwa!NoValue
  <2>1. x4' \in BOOLEAN /\ x6' \in BOOLEAN /\ x7' \in BOOLEAN /\ x8' \in BOOLEAN
    BY DEF Pwa!TrackerInv, Pwa!TypeOK
  <2>2. x9' \in [Forms -> [mounted: BOOLEAN, value: Pwa!Values, snapshot: Pwa!Values \cup {Pwa!NoValue}]]
    OBVIOUS
  <2>3. Pwa!TypeOK'
    BY <2>1, <2>2 DEF Pwa!TrackerInv, Pwa!TypeOK, Pwa!Statuses
  <2> QED
    BY <2>3 DEF Pwa!TrackerInv
<1> QED
  BY <1>1, <1>2, <1>3, PwaNotices, PwaForms DEF Pwa!Next, Pwa!TrackerInv

(* A version that applies itself harms no form, and its reload none that was   *)
(* left alone since.                                                          *)
LEMMA PwaApplies == ASSUME Pwa!TrackerInv, [Pwa!Next]_Pwa!vars PROVE Pwa!AppliedSafely
<1>1. Pwa!Reload => \A f \in x13 : Pwa!Unharmed(f)
  BY DEF Pwa!TrackerInv
<1>2. Pwa!AppliesItself => \A f \in Forms : Pwa!Unharmed(f)
  <2> SUFFICES ASSUME Pwa!AppliesItself
               PROVE  \A f \in Forms : Pwa!Unharmed(f)
    OBVIOUS
  <2>1. Pwa!CoordinatePwaUpdate
    BY DEF Pwa!AppliesItself, Pwa!Next, Pwa!vars, Pwa!noticeVars, Pwa!PageVars, Pwa!OfflineReady,
           Pwa!RegisterError, Pwa!ApplyPwaUpdate, Pwa!Reload, Pwa!SubscribePwaStatus, Pwa!HandleOffline,
           Pwa!ConfirmOffline, Pwa!HandleOnline, Pwa!NoticeTimesOut, Pwa!PressClose, Pwa!CloseNotice,
           Pwa!Mount, Pwa!Unmount, Pwa!CaptureInitialSnapshot, Pwa!Save, Pwa!SaveAnswered, Pwa!Type, Pwa!FillIn
  <2>2. ~Pwa!HasUnsavedChanges /\ ~Pwa!HasPendingMutation
    BY <2>1 DEF Pwa!CoordinatePwaUpdate, Pwa!AppliesItself
  <2> QED
    BY <2>2 DEF Pwa!HasUnsavedChanges, Pwa!HasPendingMutation, Pwa!TrackerInv, Pwa!Unsaved,
       Pwa!Unharmed
<1> QED
  BY <1>1, <1>2 DEF Pwa!AppliedSafely

-----------------------------------------------------------------------------
(* ViewSchedules: x2 is list, x3 order, x4 done, x5 tripDates, x6 selected,   *)
(* x7 today, x8 saved and x9 foreign.                                         *)

(* The operators on lists are those of Listing.                               *)
LEMMA DaysListing ==
  /\ \A s, K, weight : Days!Listed(s, K, weight) = Listed(s, K, weight)
  /\ \A s, K : Days!Filtered(s, K) = Listed(s, K, Unweighted(K))
<1>1. ASSUME NEW s, NEW K, NEW weight
      PROVE  Days!Listed(s, K, weight) = Listed(s, K, weight)
  BY DEF Days!Listed, Days!Nth, Days!Rank, Days!Ahead, Listed, Nth, Rank, Ahead,
         Cardinality, Days!Cardinality, IsFiniteSet, Days!IsFiniteSet
<1> QED
  BY <1>1 DEF Days!Filtered, Days!Unweighted, Unweighted

(* A list of the trip, by the assumption on the constants.                    *)
LEMMA DaysList ==
  ASSUME Days!ConstantsOK, NEW l \in Lists
  PROVE  /\ l.ids \in Seq(ScheduleIds) /\ DOMAIN l.ids = 1..Len(l.ids) /\ Len(l.ids) \in Nat
         /\ l.date \in [ScheduleIds -> 1..LastDay]
         /\ \A a, b \in DOMAIN l.ids :
              /\ l.ids[a] = l.ids[b] => a = b
              /\ a < b => l.date[l.ids[a]] <= l.date[l.ids[b]]
BY DEF Days!ConstantsOK, Days!DatesOfTrip

(* The page opens with what the browser keeps.                                *)
LEMMA DaysInit == ASSUME Days!ConstantsOK, Days!Init PROVE Days!KeptInv
<1> USE DEF Days!Init, Days!KeptInv, Days!kept
<1>1. 1 \in 1..LastDay /\ 1 \in Days!Days /\ LastDay \in Days!Days /\ MaxDay \in Nat
  BY DEF Days!ConstantsOK, Days!Days
<1>2. x6 \in 1..LastDay
  <2>1. CASE x2.ids = <<>>
    BY <1>1, <2>1
  <2>2. CASE x2.ids # <<>>
    <3>1. x2.ids[1] \in ScheduleIds
      BY <2>2, DaysList
    <3> QED
      BY <2>2, <3>1, DaysList
  <2> QED
    BY <2>1, <2>2
<1>3. x3 \in Days!Orders
  BY DEF Days!Orders, Days!Unordered
<1>4. x5 \in Days!Spans
  BY <1>1 DEF Days!Spans
<1>5. x7 \in 0..MaxDay
  BY <1>1 DEF Days!Days
<1>6. Days!TypeOK
  BY <1>2, <1>3, <1>4, <1>5 DEF Days!TypeOK, Days!DatesOfTrip
<1> QED
  BY <1>6 DEF Days!ReloadShowsTheSame

(* The weight of a schedule is a number, in whatever order is kept.           *)
LEMMA DaysWeights ==
  ASSUME NEW i, NEW ids \in Seq(ScheduleIds)
  PROVE  /\ Days!OrderIndex(i, ids) \in 1..(Len(ids) + 1)
         /\ \A k \in DOMAIN ids :
              ids[k] = i /\ (\A j \in DOMAIN ids : ids[j] = i => j = k)
                => Days!OrderIndex(i, ids) = k
<1> DEFINE at == {k \in DOMAIN ids : ids[k] = i}
<1>1. DOMAIN ids = 1..Len(ids) /\ Len(ids) \in Nat
  OBVIOUS
<1>2. CASE at = {}
  BY <1>1, <1>2 DEF Days!OrderIndex
<1>3. CASE at # {}
  <2> DEFINE far == {Len(ids) - k : k \in at}
  <2>1. far # {} /\ far \subseteq Nat
    BY <1>1, <1>3
  <2>2. PICK d \in far : \A e \in far : d <= e
    BY <2>1, LeastNumber
  <2>3. \E k \in at : \A j \in at : j <= k
    <3>1. PICK k \in at : d = Len(ids) - k
      OBVIOUS
    <3>2. ASSUME NEW j \in at PROVE j <= k
      <4>1. Len(ids) - j \in far /\ j \in 1..Len(ids) /\ k \in 1..Len(ids)
        BY <1>1
      <4>2. d <= Len(ids) - j
        BY <2>2, <4>1
      <4> HIDE DEF far, at
      <4> QED
        BY <1>1, <3>1, <4>1, <4>2
    <3> QED
      BY <3>2
  <2>4. Days!OrderIndex(i, ids) = CHOOSE k \in at : \A j \in at : j <= k
    BY <1>3 DEF Days!OrderIndex
  <2>5. Days!OrderIndex(i, ids) \in at
    BY <2>3, <2>4
  <2> QED
    BY <1>1, <2>5
<1> QED
  BY <1>2, <1>3

(* The schedules of a date are each shown once, whatever the weights.         *)
LEMMA DaysShown ==
  ASSUME Days!ConstantsOK, NEW l \in Lists, NEW K \in SUBSET DOMAIN l.ids, NEW weight \in [K -> Int]
  PROVE  /\ Listed(l.ids, K, weight) \in Seq(ScheduleIds)
         /\ SameMembers(Listed(l.ids, K, weight), l.ids, K)
         /\ OneToOne(Listed(l.ids, K, weight))
<1>1. l.ids \in Seq(ScheduleIds) /\ OneToOne(l.ids)
  BY DaysList DEF OneToOne
<1> QED
  BY <1>1, ListedOnce

(* Schedules are sorted by the kept order and the position in the list.       *)
LEMMA DaysDefault ==
  ASSUME Days!ConstantsOK, Days!TypeOK, NEW d
  PROVE  /\ Days!OrderOf(d) \in Seq(ScheduleIds)
         /\ Days!Weights(d) \in [Days!SchedulesOf(d) -> Int]
         /\ Days!GetOwnerSchedulesForDate(d) = Listed(x2.ids, Days!SchedulesOf(d), Days!Weights(d))
<1>1. x3 \in [1..LastDay -> Seq(ScheduleIds)]
  BY DEF Days!TypeOK, Days!Orders, Days!DatesOfTrip
<1>2. Days!OrderOf(d) \in Seq(ScheduleIds)
  BY <1>1 DEF Days!OrderOf, Days!DatesOfTrip, Days!Unordered
<1>3. \A i : Days!OrderIndex(i, Days!OrderOf(d)) \in Int
  BY <1>2, DaysWeights
<1>4. Days!Weights(d) \in [Days!SchedulesOf(d) -> Int]
  BY <1>3 DEF Days!Weights
<1> QED
  BY <1>2, <1>4, DaysListing DEF Days!GetOwnerSchedulesForDate

(* Toggling touches only the marks.                                           *)
LEMMA DaysStep ==
  ASSUME Days!ConstantsOK, Days!KeptInv, [Days!Next]_Days!vars
  PROVE  Days!KeptInv'
<1> USE DEF Days!KeptInv, Days!TypeOK, Days!kept, Days!ReloadShowsTheSame
<1>1. ASSUME NEW i \in ScheduleIds, Days!ToggleScheduleComplete(i)
      PROVE  Days!KeptInv'
  BY <1>1 DEF Days!ToggleScheduleComplete, Days!SaveScheduleCompletions
<1>2. ASSUME NEW i \in ScheduleIds, Days!OtherTab(i)
      PROVE  Days!KeptInv'
  BY <1>2 DEF Days!OtherTab
<1>3. ASSUME NEW k, NEW direction \in {"up", "down"},
             Days!MoveSchedule(k, direction)
      PROVE  Days!KeptInv'
  <2> DEFINE to == IF direction = "up" THEN k - 1 ELSE k + 1
             now == Days!SelectedSchedules
  <2>1. /\ k \in DOMAIN now /\ to \in DOMAIN now
        /\ x3' = [x3 EXCEPT ![x6] = Days!Swapped(now, k, to)]
        /\ x8' = [x8 EXCEPT !.order = x3']
        /\ UNCHANGED <<x1, x2, x4, x5, x6, x7, x9>>
    BY <1>3 DEF Days!MoveSchedule, Days!CurrentOrder
  <2>2. now \in Seq(ScheduleIds)
    <3>1. Days!SchedulesOf(x6) \in SUBSET DOMAIN x2.ids /\ x2 \in Lists
      BY DEF Days!SchedulesOf
    <3>2. Listed(x2.ids, Days!SchedulesOf(x6), Days!Weights(x6)) \in Seq(ScheduleIds)
      BY <3>1, DaysDefault, DaysShown
    <3> QED
      BY <3>2, DaysDefault DEF Days!SelectedSchedules
  <2>3. Days!Swapped(now, k, to) \in Seq(ScheduleIds)
    <3> HIDE DEF now, to
    <3> QED
      BY <2>1, <2>2 DEF Days!Swapped
  <2>4. x3' \in Days!Orders
    BY <2>1, <2>3 DEF Days!Orders
  <2>5. x8' = [order |-> x3', done |-> x8.done, dates |-> x8.dates]
    <3> HIDE DEF now, to
    <3> QED
      BY <2>1
  <2>6. x8' \in [order: Days!Orders, done: SUBSET ScheduleIds, dates: Days!Spans]
    BY <2>4, <2>5
  <2>7. Days!TypeOK'
    <3> HIDE DEF now, to
    <3> QED
      BY <2>1, <2>4, <2>6
  <2>8. Days!ReloadShowsTheSame'
    <3> HIDE DEF now, to
    <3> QED
      BY <2>1, <2>5
  <2> HIDE DEF now, to
  <2> QED
    BY <2>1, <2>5, <2>7, <2>8
<1>4. ASSUME NEW d \in Days!DatesOfTrip, Days!SetSelectedDate(d)
      PROVE  Days!KeptInv'
  BY <1>4 DEF Days!SetSelectedDate
<1>5. ASSUME NEW field \in {"start", "end"}, NEW d \in Days!Days, Days!UpdateTripDate(field, d)
      PROVE  Days!KeptInv'
  BY <1>5 DEF Days!UpdateTripDate, Days!Spans
<1>6. CASE Days!Midnight
  <2>1. x7' \in 0..MaxDay
    BY <1>6 DEF Days!Midnight, Days!ConstantsOK
  <2> QED
    BY <1>6, <2>1 DEF Days!Midnight
<1>7. ASSUME NEW l \in Lists, Days!Open(l)
      PROVE  Days!KeptInv'
  <2>1. x6' \in Days!DatesOfTrip
    <3>1. 1 \in 1..LastDay
      BY DEF Days!ConstantsOK
    <3>2. l.ids # <<>> => l.ids[1] \in ScheduleIds
      BY DaysList
    <3> QED
      BY <1>7, <3>1, <3>2, DaysList DEF Days!Open, Days!DatesOfTrip
  <2> QED
    BY <1>7, <2>1 DEF Days!Open
<1>8. CASE UNCHANGED Days!vars
  BY <1>8 DEF Days!vars
<1> HIDE DEF Days!KeptInv
<1> QED
  BY <1>1, <1>2, <1>3, <1>4, <1>5, <1>6, <1>7, <1>8 DEF Days!Next

(* The search finds the first schedule that is not done.                      *)
LEMMA DaysFirstUndone ==
  ASSUME NEW ids \in Seq(ScheduleIds)
  PROVE  /\ Days!FirstUndone(ids) = <<>> <=> \A k \in DOMAIN ids : ids[k] \in x4
         /\ Days!FirstUndone(ids) # <<>> =>
              \E k \in DOMAIN ids :
                /\ Days!FirstUndone(ids) = <<ids[k]>> /\ ids[k] \notin x4
                /\ \A j \in DOMAIN ids : ids[j] \notin x4 => k <= j
<1> DEFINE left == {k \in DOMAIN ids : ids[k] \notin x4}
<1>1. CASE left = {}
  BY <1>1 DEF Days!FirstUndone
<1>2. CASE left # {}
  <2> DEFINE first == CHOOSE k \in left : \A j \in left : k <= j
  <2>1. left \subseteq Nat
    OBVIOUS
  <2>2. first \in left /\ \A j \in left : first <= j
    <3> HIDE DEF left
    <3> QED
      BY <1>2, <2>1, LeastNumber
  <2>3. Days!FirstUndone(ids) = <<ids[first]>>
    BY <1>2 DEF Days!FirstUndone
  <2> HIDE DEF first
  <2> QED
    BY <2>2, <2>3
<1> QED
  BY <1>1, <1>2

(* The focus date counts from the start of the trip, and is clamped to it.    *)
LEMMA DaysFocus ==
  ASSUME Days!TypeOK
  PROVE  /\ Days!FocusScheduleDate \in Int
         /\ Days!GetDisplayDate(Days!FocusScheduleDate) = Days!ClampDate(x7, x5.start, x5.end)
<1>1. x5.start \in Int /\ x5.end \in Int /\ x7 \in Int
  BY DEF Days!TypeOK, Days!Spans, Days!Days
<1>2. Days!ClampDate(x7, x5.start, x5.end) \in Int
  BY <1>1 DEF Days!ClampDate
<1> QED
  BY <1>1, <1>2 DEF Days!FocusScheduleDate, Days!GetDisplayDate

(* The first of the later schedules that is left is the earliest of them: the *)
(* filter keeps their order.                                                  *)
LEMMA DaysLater ==
  ASSUME Days!ConstantsOK, Days!TypeOK,
         NEW next, next = Days!FirstUndone(Days!Filtered(x2.ids, Days!LaterSchedules))
  PROVE  /\ next = <<>> <=> \A k \in Days!LaterSchedules : x2.ids[k] \in x4
         /\ next # <<>> => /\ next[1] \in ScheduleIds
                           /\ \A k \in Days!LaterSchedules :
                                x2.ids[k] \notin x4 => x2.date[next[1]] <= x2.date[x2.ids[k]]
<1> DEFINE K == Days!LaterSchedules
           zero == Unweighted(K)
           later == Listed(x2.ids, K, zero)
<1>1. x2 \in Lists /\ K \in SUBSET DOMAIN x2.ids /\ zero \in [K -> Int]
  BY UnweightedType DEF Days!TypeOK, Days!LaterSchedules
<1>2. /\ x2.ids \in Seq(ScheduleIds) /\ DOMAIN x2.ids = 1..Len(x2.ids) /\ Len(x2.ids) \in Nat
      /\ x2.date \in [ScheduleIds -> 1..LastDay]
      /\ \A a, b \in DOMAIN x2.ids : a < b => x2.date[x2.ids[a]] <= x2.date[x2.ids[b]]
  BY <1>1, DaysList
<1>3. Days!Filtered(x2.ids, Days!LaterSchedules) = later
  BY DaysListing
<1> HIDE DEF K, zero
<1>4. /\ IsFiniteSet(K) /\ Cardinality(K) \in Nat
      /\ later \in Seq(ScheduleIds)
      /\ DOMAIN later = 1..Cardinality(K)
      /\ \A n \in 1..Cardinality(K) : Nth(n, K, zero) \in K /\ later[n] = x2.ids[Nth(n, K, zero)]
      /\ \A k \in K : Rank(k, K, zero) \in 1..Cardinality(K) /\ later[Rank(k, K, zero)] = x2.ids[k]
  BY SMTT(30), <1>1, <1>2, ListedMembers
<1>5. IsFiniteSet(K) /\ K \subseteq Int
  BY <1>1, <1>2, <1>4
<1>6. /\ \A a, b \in K : Ahead(a, b, zero) => Rank(a, K, zero) < Rank(b, K, zero)
      /\ \A n \in 1..Cardinality(K) : Rank(Nth(n, K, zero), K, zero) = n
  BY <1>1, <1>5, RanksAreOneToOne
<1>7. \A a, b \in K : a < b => Ahead(a, b, zero)
  BY DEF zero, Ahead, Unweighted
<1> HIDE DEF later
<1>8. Days!FirstUndone(later) = <<>> <=> \A k \in K : x2.ids[k] \in x4
  BY <1>4, DaysFirstUndone
<1>9. ASSUME Days!FirstUndone(later) # <<>>
      PROVE  /\ next[1] \in ScheduleIds
             /\ \A k \in K : x2.ids[k] \notin x4 => x2.date[next[1]] <= x2.date[x2.ids[k]]
  <2>1. PICK n \in DOMAIN later :
          /\ next = <<later[n]>>
          /\ \A j \in DOMAIN later : later[j] \notin x4 => n <= j
    BY <1>3, <1>4, <1>9, DaysFirstUndone
  <2>2. Nth(n, K, zero) \in K /\ next[1] = x2.ids[Nth(n, K, zero)] /\ Rank(Nth(n, K, zero), K, zero) = n
    BY <1>4, <1>6, <2>1
  <2>3. next[1] \in ScheduleIds
    BY <1>1, <1>2, <2>2
  <2>4. ASSUME NEW k \in K, x2.ids[k] \notin x4
        PROVE  x2.date[next[1]] <= x2.date[x2.ids[k]]
    <3>1. n <= Rank(k, K, zero) /\ Rank(k, K, zero) \in Int /\ n \in Int
      BY <1>4, <2>1, <2>4
    <3>2. ~(k < Nth(n, K, zero))
      BY <1>6, <1>7, <2>2, <3>1
    <3>3. Nth(n, K, zero) \in Int /\ k \in Int
      BY <1>5, <2>2
    <3>4. x2.ids[k] \in ScheduleIds /\ x2.date[x2.ids[k]] \in Int
      BY <1>1, <1>2
    <3>5. Nth(n, K, zero) < k \/ Nth(n, K, zero) = k
      BY <3>2, <3>3
    <3> QED
      BY <1>1, <1>2, <2>2, <3>4, <3>5
  <2> QED
    BY <2>3, <2>4
<1> QED
  BY <1>3, <1>8, <1>9 DEF K

(* The next schedule is the earliest that is left: one of the focus date if   *)
(* it has any, else the first of the later ones.                              *)
LEMMA DaysNext ==
  ASSUME Days!ConstantsOK, Days!TypeOK
  PROVE  Days!NextScheduleIsEarliest
<1> DEFINE F == Days!FocusScheduleDate
           S == Days!SchedulesOf(F)
           focus == Days!GetOwnerSchedulesForDate(F)
           here == Days!FirstUndone(focus)
           later == Days!FirstUndone(Days!Filtered(x2.ids, Days!LaterSchedules))
           due == {i \in ScheduleIds : \E k \in DOMAIN x2.ids :
                     x2.ids[k] = i /\ i \notin x4 /\ x2.date[i] >= F}
<1>1. /\ x2 \in Lists /\ F \in Int
      /\ x2.ids \in Seq(ScheduleIds) /\ x2.date \in [ScheduleIds -> 1..LastDay]
  BY DaysList, DaysFocus DEF Days!TypeOK
<1>2. S \in SUBSET DOMAIN x2.ids /\ \A k \in S : x2.date[x2.ids[k]] = F
  BY DEF Days!SchedulesOf
<1>3. focus \in Seq(ScheduleIds) /\ SameMembers(focus, x2.ids, S)
  <2>1. Days!Weights(F) \in [S -> Int] /\ focus = Listed(x2.ids, S, Days!Weights(F))
    BY DaysDefault
  <2> HIDE DEF S, focus
  <2> QED
    BY <1>1, <1>2, <2>1, DaysShown
<1>4. here = <<>> <=> \A k \in S : x2.ids[k] \in x4
  <2> HIDE DEF S, focus
  <2> QED
    BY <1>3, DaysFirstUndone DEF SameMembers
<1>5. here # <<>> => here[1] \in ScheduleIds /\ x2.date[here[1]] = F
  <2> HIDE DEF S, focus, F
  <2>1. ASSUME here # <<>>
        PROVE  \E k \in S : here = <<x2.ids[k]>>
    BY <1>3, <2>1, DaysFirstUndone DEF SameMembers
  <2>2. \A k \in S : x2.ids[k] \in ScheduleIds
    BY <1>1, <1>2
  <2> HIDE DEF here
  <2> QED
    BY <1>2, <2>1, <2>2
<1>6. /\ later = <<>> <=> \A k \in Days!LaterSchedules : x2.ids[k] \in x4
      /\ later # <<>> => /\ later[1] \in ScheduleIds
                         /\ \A k \in Days!LaterSchedules :
                              x2.ids[k] \notin x4 => x2.date[later[1]] <= x2.date[x2.ids[k]]
  <2> HIDE DEF later
  <2> QED
    BY DaysLater DEF later
<1>7. Days!LaterSchedules = {k \in DOMAIN x2.ids : x2.date[x2.ids[k]] > F}
  BY DEF Days!LaterSchedules
<1>8. S = {k \in DOMAIN x2.ids : x2.date[x2.ids[k]] = F}
  BY DEF Days!SchedulesOf
<1>9. Days!NextSchedule = IF Days!TravelPhase = "after" THEN <<>> ELSE IF here # <<>> THEN here ELSE later
  BY DEF Days!NextSchedule
<1> HIDE DEF F, S, focus, here, later
<1>10. \A i \in due : i \in ScheduleIds /\ x2.date[i] \in Int /\ F <= x2.date[i]
  BY <1>1
<1>11. \A i \in due : \E k \in S \cup Days!LaterSchedules : x2.ids[k] = i /\ i \notin x4
  <2>1. ASSUME NEW i \in due
        PROVE  \E k \in S \cup Days!LaterSchedules : x2.ids[k] = i /\ i \notin x4
    <3>1. PICK k \in DOMAIN x2.ids : x2.ids[k] = i /\ i \notin x4
      OBVIOUS
    <3>2. x2.date[x2.ids[k]] = F \/ x2.date[x2.ids[k]] > F
      BY <1>1, <1>10, <3>1
    <3> QED
      BY <1>7, <1>8, <3>1, <3>2
  <2> QED
    BY <2>1
<1>12. \A k \in S \cup Days!LaterSchedules : x2.ids[k] \notin x4 => x2.ids[k] \in due
  <2>1. ASSUME NEW k \in S \cup Days!LaterSchedules, x2.ids[k] \notin x4
        PROVE  x2.ids[k] \in due
    <3>1. k \in DOMAIN x2.ids /\ x2.ids[k] \in ScheduleIds
      BY <1>1, <1>7, <1>8
    <3>2. x2.date[x2.ids[k]] \in Int /\ (x2.date[x2.ids[k]] = F \/ x2.date[x2.ids[k]] > F)
      BY <1>1, <1>7, <1>8, <3>1
    <3>3. x2.date[x2.ids[k]] >= F
      BY <1>1, <3>2
    <3> QED
      BY <2>1, <3>1, <3>3
  <2> QED
    BY <2>1
<1> HIDE DEF due
<1>13. Days!TravelPhase # "after" => (Days!NextSchedule = <<>> <=> due = {})
  BY <1>4, <1>6, <1>9, <1>11, <1>12
<1>14. ASSUME Days!NextSchedule # <<>>, NEW i \in due
       PROVE  x2.date[Days!NextSchedule[1]] <= x2.date[i]
  <2>1. CASE here # <<>>
    BY <1>5, <1>9, <1>10, <1>14, <2>1
  <2>2. CASE here = <<>>
    <3>1. later # <<>> /\ Days!NextSchedule = later
      BY <1>9, <1>14, <2>2
    <3>2. PICK k \in S \cup Days!LaterSchedules : x2.ids[k] = i /\ i \notin x4
      BY <1>11
    <3>3. k \in Days!LaterSchedules
      BY <1>4, <2>2, <3>2
    <3> QED
      BY <1>6, <3>1, <3>2, <3>3
  <2> QED
    BY <2>1, <2>2
<1> QED
  BY <1>13, <1>14, DaysFocus DEF Days!NextScheduleIsEarliest, due, F

(* The order that a move keeps is the order that is shown next.               *)
LEMMA DaysReordered ==
  ASSUME Days!ConstantsOK, Days!TypeOK, UNCHANGED x2, NEW d,
         NEW q \in Seq(ScheduleIds), Days!OrderOf(d)' = q,
         OneToOne(q), SameMembers(q, x2.ids, Days!SchedulesOf(d))
  PROVE  Days!GetOwnerSchedulesForDate(d)' = q
<1> DEFINE S == Days!SchedulesOf(d)
           w == [k \in S |-> Days!OrderIndex(x2.ids[k], q)]
<1>1. /\ x2 \in Lists /\ S \in SUBSET DOMAIN x2.ids
      /\ x2.ids \in Seq(ScheduleIds) /\ DOMAIN x2.ids = 1..Len(x2.ids)
      /\ \A a, b \in DOMAIN x2.ids : x2.ids[a] = x2.ids[b] => a = b
  BY DaysList DEF Days!TypeOK, Days!SchedulesOf
<1>2. Days!SchedulesOf(d)' = S /\ Days!Weights(d)' = w
  BY DEF Days!SchedulesOf, Days!Weights
<1>3. Days!GetOwnerSchedulesForDate(d)' = Listed(x2.ids, S, w)
  BY <1>2, DaysListing DEF Days!GetOwnerSchedulesForDate
<1>4. Len(q) \in Nat /\ DOMAIN q = 1..Len(q) /\ q \in [1..Len(q) -> ScheduleIds]
  OBVIOUS
<1> HIDE DEF S
<1>5. ASSUME NEW k \in S
      PROVE  w[k] \in DOMAIN q /\ q[w[k]] = x2.ids[k]
  <2>1. PICK n \in DOMAIN q : q[n] = x2.ids[k]
    BY DEF SameMembers, S
  <2>2. Days!OrderIndex(x2.ids[k], q) = n
    BY <2>1, DaysWeights DEF OneToOne
  <2> QED
    BY <2>1, <2>2
<1>6. w \in [S -> 1..Len(q)]
  <2>1. \A k \in S : Days!OrderIndex(x2.ids[k], q) \in 1..Len(q)
    BY <1>4, <1>5
  <2> QED
    BY <2>1
<1> HIDE DEF w
<1>7. \A a, b \in S : w[a] = w[b] => a = b
  BY <1>1, <1>5
<1>8. ASSUME NEW n \in 1..Len(q) PROVE \E k \in S : w[k] = n
  <2>1. PICK k \in S : q[n] = x2.ids[k]
    BY <1>4 DEF SameMembers, S
  <2>2. w[k] \in DOMAIN q /\ q[w[k]] = q[n]
    BY <1>5, <2>1
  <2>3. w[k] = n
    BY <1>4, <2>2 DEF OneToOne
  <2> QED
    BY <2>3
<1>9. S \subseteq Int
  BY <1>1
<1>10. /\ Cardinality(S) = Len(q)
       /\ \A n \in 1..Len(q) : Nth(n, S, w) \in S /\ w[Nth(n, S, w)] = n
  <2>1. PICK m \in Nat : m = Len(q)
    BY <1>4
  <2>2. w \in [S -> 1..m] /\ \A n \in 1..m : \E k \in S : w[k] = n
    BY <1>6, <1>8, <2>1
  <2>3. /\ Cardinality(S) = m
        /\ \A n \in 1..m : Nth(n, S, w) \in S /\ w[Nth(n, S, w)] = n
    BY ZenonT(60), <1>7, <1>9, <2>2, ListedByWeight
  <2> QED
    BY <2>1, <2>3
<1>11. \A n \in 1..Len(q) : x2.ids[Nth(n, S, w)] = q[n]
  BY <1>5, <1>10
<1>12. Listed(x2.ids, S, w) = [n \in 1..Len(q) |-> q[n]]
  BY <1>10, <1>11 DEF Listed
<1> QED
  BY <1>3, <1>4, <1>12

(* An exchange keeps the members and repeats none.                            *)
LEMMA SwappedMembers ==
  ASSUME NEW s \in Seq(ScheduleIds), NEW a \in DOMAIN s, NEW b \in DOMAIN s, OneToOne(s),
         NEW t, NEW K, SameMembers(s, t, K)
  PROVE  /\ Days!Swapped(s, a, b) \in Seq(ScheduleIds)
         /\ OneToOne(Days!Swapped(s, a, b))
         /\ SameMembers(Days!Swapped(s, a, b), t, K)
         /\ Days!Swapped(s, a, b) = Days!Swapped(s, b, a)
<1> DEFINE q == Days!Swapped(s, a, b)
           from == [n \in DOMAIN s |-> IF n = b THEN a ELSE IF n = a THEN b ELSE n]
<1>1. /\ q \in Seq(ScheduleIds) /\ DOMAIN q = DOMAIN s
      /\ q = [n \in DOMAIN s |-> s[from[n]]]
  BY DEF Days!Swapped
<1>2. /\ \A n \in DOMAIN s : from[n] \in DOMAIN s /\ from[from[n]] = n
      /\ \A m, n \in DOMAIN s : from[m] = from[n] => m = n
  OBVIOUS
<1> HIDE DEF q, from
<1>3. OneToOne(q)
  <2>1. ASSUME NEW m \in DOMAIN q, NEW n \in DOMAIN q, q[m] = q[n]
        PROVE  m = n
    <3>1. from[m] \in DOMAIN s /\ from[n] \in DOMAIN s /\ s[from[m]] = s[from[n]]
      BY <1>1, <1>2, <2>1
    <3> QED
      BY <1>1, <1>2, <3>1 DEF OneToOne
  <2> QED
    BY <2>1 DEF OneToOne
<1>4. SameMembers(q, t, K)
  <2>1. ASSUME NEW k \in K PROVE \E n \in DOMAIN q : q[n] = t[k]
    <3>1. PICK m \in DOMAIN s : s[m] = t[k]
      BY DEF SameMembers
    <3>2. from[m] \in DOMAIN s /\ from[from[m]] = m
      BY <1>2
    <3>3. q[from[m]] = s[m]
      BY <1>1, <3>2
    <3> QED
      BY <1>1, <3>1, <3>2, <3>3
  <2>2. ASSUME NEW n \in DOMAIN q PROVE \E k \in K : q[n] = t[k]
    BY <1>1, <1>2 DEF SameMembers
  <2> QED
    BY <2>1, <2>2 DEF SameMembers
<1>5. q = Days!Swapped(s, b, a)
  BY DEF q, Days!Swapped
<1> QED
  BY <1>1, <1>3, <1>4, <1>5 DEF q

(* A move exchanges two neighbours of what is shown.                          *)
LEMMA DaysMoved ==
  ASSUME Days!ConstantsOK, Days!KeptInv, NEW k, NEW direction \in {"up", "down"},
         Days!MoveSchedule(k, direction)
  PROVE  Days!SwappedNeighbours
<1> DEFINE to == IF direction = "up" THEN k - 1 ELSE k + 1
           now == Days!SelectedSchedules
           q == Days!Swapped(now, k, to)
<1>1. /\ k \in DOMAIN now /\ to \in DOMAIN now
      /\ x3' = [x3 EXCEPT ![x6] = q]
      /\ UNCHANGED <<x2, x6>>
  BY DEF Days!MoveSchedule, Days!CurrentOrder
<1>2. /\ Days!TypeOK /\ x2 \in Lists /\ x6 \in Days!DatesOfTrip
      /\ x3 \in [Days!DatesOfTrip -> Seq(ScheduleIds)]
      /\ Days!SchedulesOf(x6) \in SUBSET DOMAIN x2.ids
  BY DEF Days!KeptInv, Days!TypeOK, Days!SchedulesOf, Days!Orders
<1>3. now \in Seq(ScheduleIds) /\ OneToOne(now) /\ SameMembers(now, x2.ids, Days!SchedulesOf(x6))
  <2>1. /\ Days!Weights(x6) \in [Days!SchedulesOf(x6) -> Int]
        /\ now = Listed(x2.ids, Days!SchedulesOf(x6), Days!Weights(x6))
    BY <1>2, DaysDefault DEF Days!SelectedSchedules
  <2> HIDE DEF now
  <2> QED
    BY <1>2, <2>1, DaysShown
<1> HIDE DEF now
<1>4. /\ q \in Seq(ScheduleIds) /\ OneToOne(q)
      /\ SameMembers(q, x2.ids, Days!SchedulesOf(x6)) /\ q = Days!Swapped(now, to, k)
  <2> HIDE DEF to
  <2> QED
    BY <1>1, <1>3, SwappedMembers
<1> HIDE DEF q
<1>5. Days!OrderOf(x6)' = q
  BY <1>1, <1>2 DEF Days!OrderOf, Days!DatesOfTrip
<1>6. Days!GetOwnerSchedulesForDate(x6)' = q
  <2>1. (Days!OrderOf(x6))' = Days!OrderOf(x6)'
    OBVIOUS
  <2> QED
    BY <1>1, <1>2, <1>4, <1>5, DaysReordered
<1>7. Days!SelectedSchedules' = q
  BY <1>1, <1>6 DEF Days!SelectedSchedules
<1>8. \E m \in 2..Len(now) : q = Days!Swapped(now, m, m - 1)
  <2>1. k \in 1..Len(now) /\ to \in 1..Len(now) /\ Len(now) \in Nat
    BY <1>1, <1>3
  <2>2. CASE direction = "up"
    BY <2>1, <2>2 DEF q
  <2>3. CASE direction = "down"
    <3>1. to \in 2..Len(now) /\ k = to - 1
      BY <2>1, <2>3
    <3> QED
      BY <1>4, <3>1
  <2> QED
    BY <2>2, <2>3
<1>9. ASSUME NEW d \in Days!DatesOfTrip \ {x6}
      PROVE  Days!GetOwnerSchedulesForDate(d)' = Days!GetOwnerSchedulesForDate(d)
  <2>1. x3'[d] = x3[d]
    BY <1>1, <1>2, <1>9
  <2> QED
    BY <1>1, <2>1 DEF Days!GetOwnerSchedulesForDate, Days!Weights, Days!SchedulesOf, Days!OrderOf,
       Days!DatesOfTrip
<1> QED
  BY <1>7, <1>8, <1>9 DEF Days!SwappedNeighbours, now

(* Only a move changes the order.                                             *)
LEMMA DaysMoves ==
  ASSUME Days!ConstantsOK, Days!KeptInv, [Days!Next]_Days!vars
  PROVE  Days!SwappedNeighbours
<1>1. x8.order = x3
  BY DEF Days!KeptInv
<1>2. ASSUME x3' # x3
      PROVE  \E k : \E direction \in {"up", "down"} : Days!MoveSchedule(k, direction)
  <2>1. \A l \in Lists : ~Days!Open(l)
    BY <1>1, <1>2 DEF Days!Open
  <2>2. ~Days!Midnight /\ ~UNCHANGED Days!vars
    BY <1>2 DEF Days!Midnight, Days!vars
  <2>3. \A i : ~Days!ToggleScheduleComplete(i) /\ ~Days!OtherTab(i)
    BY <1>2 DEF Days!ToggleScheduleComplete, Days!OtherTab
  <2>4. \A d : ~Days!SetSelectedDate(d)
    BY <1>2 DEF Days!SetSelectedDate
  <2>5. \A field, d : ~Days!UpdateTripDate(field, d)
    BY <1>2 DEF Days!UpdateTripDate
  <2> QED
    BY <2>1, <2>2, <2>3, <2>4, <2>5 DEF Days!Next
<1> QED
  BY <1>2, DaysMoved DEF Days!SwappedNeighbours

-----------------------------------------------------------------------------
(* ViewChecklist: x1 is custom, x2 hidden, x3 checked, x4 saved, x5 used and  *)
(* x12 foreign.                                                               *)

(* The operators on lists are those of Listing.                               *)
LEMMA ChecksListing ==
  /\ \A s, K, weight : Checks!Listed(s, K, weight) = Listed(s, K, weight)
  /\ \A s, K : Checks!Filtered(s, K) = Listed(s, K, Unweighted(K))
<1>1. ASSUME NEW s, NEW K, NEW weight
      PROVE  Checks!Listed(s, K, weight) = Listed(s, K, weight)
  BY DEF Checks!Listed, Checks!Nth, Checks!Rank, Checks!Ahead, Listed, Nth, Rank, Ahead,
         Cardinality, Checks!Cardinality, IsFiniteSet, Checks!IsFiniteSet
<1> QED
  BY <1>1 DEF Checks!Filtered, Checks!Unweighted, Unweighted

AnyItems == [id: Checks!Defaults \cup Customs, category: ItemCategories, date: ItemDates \cup {Checks!NoDate}]
SampleItems == [id: Checks!Defaults, category: ItemCategories, date: ItemDates \cup {Checks!NoDate}]

(* The checklist is what is left of the sample items, and the own ones.       *)
LEMMA ChecksJoined ==
  ASSUME Checks!ConstantsOK, NEW hidden, NEW own \in Seq(Checks!Items),
         NEW all, all = Checks!Filtered(Sample, {k \in DOMAIN Sample : Sample[k].id \notin hidden}) \o own
  PROVE  /\ all \in Seq(AnyItems)
         /\ Checks!Ids(all) = (Checks!Defaults \ hidden) \cup Checks!Ids(own)
<1> DEFINE K == {k \in DOMAIN Sample : Sample[k].id \notin hidden}
           sample == Listed(Sample, K, Unweighted(K))
<1>1. Sample \in Seq(SampleItems)
  BY DEF Checks!ConstantsOK, SampleItems
<1>2. K \in SUBSET DOMAIN Sample /\ Unweighted(K) \in [K -> Int]
  BY UnweightedType
<1>3. all = sample \o own
  BY ChecksListing
<1>4. sample \in Seq(SampleItems) /\ SameMembers(sample, Sample, K)
  <2> HIDE DEF K
  <2> QED
    BY <1>1, <1>2, ListedOnce
<1>5. Checks!Ids(sample) = Checks!Defaults \ hidden
  <2> HIDE DEF sample
  <2> QED
    BY <1>4 DEF SameMembers, Checks!Ids, Checks!Defaults
<1> HIDE DEF sample
<1>6. SampleItems \subseteq AnyItems /\ Checks!Items \subseteq AnyItems
  BY DEF SampleItems, AnyItems, Checks!Items
<1>7. sample \in Seq(AnyItems) /\ own \in Seq(AnyItems)
  BY <1>1, <1>4, <1>6
<1>8. sample \o own \in Seq(AnyItems)
  BY <1>7
<1>9. Checks!Ids(sample \o own) = Checks!Ids(sample) \cup Checks!Ids(own)
  <2>1. /\ Len(sample) \in Nat /\ Len(own) \in Nat
        /\ DOMAIN sample = 1..Len(sample) /\ DOMAIN own = 1..Len(own)
        /\ DOMAIN (sample \o own) = 1..(Len(sample) + Len(own))
        /\ \A k \in 1..(Len(sample) + Len(own)) :
             (sample \o own)[k] = IF k <= Len(sample) THEN sample[k] ELSE own[k - Len(sample)]
    BY <1>7
  <2>2. ASSUME NEW k \in DOMAIN own PROVE (sample \o own)[k + Len(sample)] = own[k] /\ k + Len(sample) \in DOMAIN (sample \o own)
    BY <2>1
  <2>3. ASSUME NEW k \in DOMAIN sample PROVE (sample \o own)[k] = sample[k] /\ k \in DOMAIN (sample \o own)
    BY <2>1
  <2>4. ASSUME NEW k \in DOMAIN (sample \o own)
        PROVE  \/ k \in DOMAIN sample /\ (sample \o own)[k] = sample[k]
               \/ k - Len(sample) \in DOMAIN own /\ (sample \o own)[k] = own[k - Len(sample)]
    BY <2>1
  <2>5. Checks!Ids(sample) \subseteq Checks!Ids(sample \o own)
    BY <2>3 DEF Checks!Ids
  <2>6. Checks!Ids(own) \subseteq Checks!Ids(sample \o own)
    BY <2>2 DEF Checks!Ids
  <2>7. Checks!Ids(sample \o own) \subseteq Checks!Ids(sample) \cup Checks!Ids(own)
    BY <2>4 DEF Checks!Ids
  <2> QED
    BY <2>5, <2>6, <2>7
<1> QED
  BY <1>3, <1>5, <1>8, <1>9

(* The same of the state,                                                     *)
LEMMA ChecksList ==
  ASSUME Checks!ConstantsOK, Checks!TypeOK
  PROVE  /\ Checks!AllChecklist \in Seq(AnyItems)
         /\ Checks!Ids(Checks!AllChecklist) = (Checks!Defaults \ x2) \cup Checks!Ids(x1)
<1>1. x1 \in Seq(Checks!Items)
  BY DEF Checks!TypeOK, Checks!CustomItems
<1> QED
  BY <1>1, ChecksJoined DEF Checks!AllChecklist

(* and of the next one.                                                       *)
LEMMA ChecksListPrimed ==
  ASSUME Checks!ConstantsOK, Checks!TypeOK'
  PROVE  Checks!Ids(Checks!AllChecklist)' = (Checks!Defaults \ x2') \cup Checks!Ids(x1')
<1>1. x1' \in Seq(Checks!Items)
  BY DEF Checks!TypeOK, Checks!CustomItems
<1>2. Checks!AllChecklist' = Checks!Filtered(Sample, {k \in DOMAIN Sample : Sample[k].id \notin x2'}) \o x1'
  BY DEF Checks!AllChecklist
<1>3. Checks!Ids(Checks!AllChecklist') = (Checks!Defaults \ x2') \cup Checks!Ids(x1')
  BY <1>1, <1>2, ChecksJoined
<1> QED
  BY <1>3 DEF Checks!Ids

(* Removing an own item removes its id.                                       *)
LEMMA ChecksWithout ==
  ASSUME Checks!TypeOK, NEW i,
         NEW left, left = Checks!Filtered(x1, {k \in DOMAIN x1 : x1[k].id # i})
  PROVE  left \in Checks!CustomItems /\ Checks!Ids(left) = Checks!Ids(x1) \ {i}
<1> DEFINE K == {k \in DOMAIN x1 : x1[k].id # i}
<1>1. x1 \in Seq(Checks!Items) /\ \A a, b \in DOMAIN x1 : x1[a].id = x1[b].id => a = b
  BY DEF Checks!TypeOK, Checks!CustomItems
<1>2. left = Listed(x1, K, Unweighted(K))
  BY ChecksListing
<1>3. K \in SUBSET DOMAIN x1 /\ Unweighted(K) \in [K -> Int]
  BY UnweightedType
<1>4. OneToOne(x1)
  BY <1>1 DEF OneToOne
<1>5. left \in Seq(Checks!Items) /\ SameMembers(left, x1, K) /\ OneToOne(left)
  <2> HIDE DEF K
  <2> QED
    BY <1>1, <1>2, <1>3, <1>4, ListedOnce
<1>6. Checks!Ids(left) = Checks!Ids(x1) \ {i}
  <2>1. ASSUME NEW n \in DOMAIN left PROVE left[n].id \in Checks!Ids(x1) \ {i}
    BY <1>5 DEF SameMembers, Checks!Ids
  <2>2. ASSUME NEW k \in DOMAIN x1, x1[k].id # i PROVE \E n \in DOMAIN left : left[n].id = x1[k].id
    BY <1>5, <2>2 DEF SameMembers
  <2>3. Checks!Ids(left) \subseteq Checks!Ids(x1) \ {i}
    BY <2>1 DEF Checks!Ids
  <2>4. ASSUME NEW j \in Checks!Ids(x1) \ {i} PROVE j \in Checks!Ids(left)
    <3>1. PICK k \in DOMAIN x1 : j = x1[k].id
      BY DEF Checks!Ids
    <3>2. PICK n \in DOMAIN left : left[n].id = j
      BY <2>2, <3>1
    <3> QED
      BY <3>2 DEF Checks!Ids
  <2> QED
    BY <2>3, <2>4
<1>7. \A a, b \in DOMAIN left : left[a].id = left[b].id => a = b
  BY SMTT(30), <1>1, <1>5 DEF SameMembers, OneToOne
<1> QED
  BY <1>5, <1>6, <1>7 DEF Checks!CustomItems

(* A new id makes an item that no other is.                                   *)
LEMMA ChecksAdded ==
  ASSUME Checks!TypeOK, NEW x \in Checks!Items, x.id \notin Checks!Ids(x1)
  PROVE  /\ Append(x1, x) \in Checks!CustomItems
         /\ Checks!Ids(Append(x1, x)) = Checks!Ids(x1) \cup {x.id}
<1> DEFINE longer == Append(x1, x)
<1>1. x1 \in Seq(Checks!Items) /\ \A a, b \in DOMAIN x1 : x1[a].id = x1[b].id => a = b
  BY DEF Checks!TypeOK, Checks!CustomItems
<1>2. /\ longer \in Seq(Checks!Items) /\ Len(x1) \in Nat
      /\ DOMAIN x1 = 1..Len(x1) /\ DOMAIN longer = 1..(Len(x1) + 1)
      /\ \A k \in 1..Len(x1) : longer[k] = x1[k]
      /\ longer[Len(x1) + 1] = x
  BY <1>1
<1> HIDE DEF longer
<1>3. \A k \in DOMAIN longer : k \in DOMAIN x1 \/ k = Len(x1) + 1
  BY <1>2
<1>4. \A k \in DOMAIN x1 : x1[k].id \in Checks!Ids(x1) /\ longer[k] = x1[k] /\ k \in DOMAIN longer
  BY <1>2 DEF Checks!Ids
<1>5. Checks!Ids(longer) = Checks!Ids(x1) \cup {x.id}
  <2>1. ASSUME NEW k \in DOMAIN longer PROVE longer[k].id \in Checks!Ids(x1) \cup {x.id}
    BY <1>2, <1>3, <1>4
  <2>2. Len(x1) + 1 \in DOMAIN longer
    BY <1>2
  <2> QED
    BY <1>2, <1>4, <2>1, <2>2 DEF Checks!Ids
<1>6. \A a, b \in DOMAIN longer : longer[a].id = longer[b].id => a = b
  BY <1>1, <1>2, <1>3, <1>4
<1> QED
  BY <1>2, <1>5, <1>6 DEF Checks!CustomItems, longer

(* What can be ticked is on the list.                                         *)
LEMMA ChecksShown ==
  ASSUME Checks!ConstantsOK, Checks!TypeOK, NEW i, Checks!ToggleCheck(i)
  PROVE  i \in Checks!Ids(Checks!AllChecklist)
<1> DEFINE all == Checks!AllChecklist
           K == Checks!RelevantItems
           shown == Listed(all, K, Checks!Weights)
<1>1. CASE \E k \in Checks!VisibleChecklist : i = all[k].id
  BY <1>1 DEF Checks!VisibleChecklist, Checks!Ids
<1>2. CASE i \in Checks!Ids(Checks!HomeChecklistItems)
  <2>1. all \in Seq(AnyItems)
    BY ChecksList
  <2>2. K \in SUBSET DOMAIN all
    BY DEF Checks!RelevantItems
  <2>3. Checks!Weights \in [K -> Int]
    BY DEF Checks!Weights
  <2> HIDE DEF all, K
  <2>4. shown \in Seq(AnyItems) /\ SameMembers(shown, all, K)
    BY <2>1, <2>2, <2>3, ListedOnce
  <2>5. Checks!HomeChecklistItems = Checks!Cut(shown)
    BY ChecksListing DEF Checks!HomeChecklistItems, K, all
  <2> HIDE DEF shown
  <2>6. DOMAIN shown = 1..Len(shown) /\ Len(shown) \in Nat /\ Shortest \in Nat
    BY <2>4 DEF Checks!ConstantsOK
  <2> DEFINE n == IF Len(shown) < Shortest THEN Len(shown) ELSE Shortest
  <2>7. n \in 0..Len(shown) /\ Checks!Cut(shown) = SubSeq(shown, 1, n)
    BY <2>6 DEF Checks!Cut
  <2>8. /\ DOMAIN SubSeq(shown, 1, n) = 1..n
        /\ \A k \in 1..n : SubSeq(shown, 1, n)[k] = shown[k] /\ k \in DOMAIN shown
    BY <2>4, <2>6, <2>7
  <2>9. PICK k \in 1..n : i = shown[k].id /\ k \in DOMAIN shown
    BY <1>2, <2>5, <2>7, <2>8 DEF Checks!Ids
  <2>10. PICK m \in K : shown[k] = all[m]
    BY <2>4, <2>9 DEF SameMembers
  <2> QED
    BY <2>2, <2>9, <2>10 DEF Checks!Ids, all
<1> QED
  BY <1>1, <1>2 DEF Checks!ToggleCheck

(* The page opens with nothing kept.                                          *)
LEMMA ChecksInit == ASSUME Checks!ConstantsOK, Checks!Init PROVE Checks!KeptInv
<1>1. <<>> \in Checks!CustomItems /\ Checks!Ids(<<>>) = {}
  BY DEF Checks!CustomItems, Checks!Ids
<1>2. Checks!TypeOK
  BY <1>1 DEF Checks!Init, Checks!TypeOK, Checks!ConstantsOK, Checks!kept
<1> QED
  BY <1>1, <1>2 DEF Checks!Init, Checks!KeptInv, Checks!kept, Checks!ReloadShowsTheSame,
     Checks!TicksBelongToItems

(* Own and hidden items are kept at once, and a tick goes with its item.      *)
LEMMA ChecksStep ==
  ASSUME Checks!ConstantsOK, Checks!KeptInv, [Checks!Next]_Checks!vars
  PROVE  Checks!KeptInv'
<1> DEFINE Fits == Checks!TypeOK /\ x4.custom = x1 /\ x4.hidden = x2 /\ Checks!ReloadShowsTheSame
<1>0. Fits /\ Checks!Ids(x1) \subseteq x5 /\ Checks!TicksBelongToItems
  BY DEF Checks!KeptInv
<1>L. Checks!Ids(Checks!AllChecklist) = (Checks!Defaults \ x2) \cup Checks!Ids(x1)
  BY <1>0, ChecksList
<1>T. ASSUME Checks!TypeOK', ~x12' => x3' \subseteq (Checks!Defaults \ x2') \cup Checks!Ids(x1')
      PROVE  Checks!TicksBelongToItems'
  <2>1. Checks!Ids(Checks!AllChecklist)' = (Checks!Defaults \ x2') \cup Checks!Ids(x1')
    BY <1>T, ChecksListPrimed
  <2> QED
    BY <1>T, <2>1 DEF Checks!TicksBelongToItems
<1>I. ASSUME Fits', Checks!Ids(x1)' \subseteq x5', ~x12' => x3' \subseteq (Checks!Defaults \ x2') \cup Checks!Ids(x1')
      PROVE  Checks!KeptInv'
  BY <1>I, <1>T DEF Checks!KeptInv
<1> USE DEF Checks!TypeOK, Checks!ReloadShowsTheSame, Checks!kept
<1>1. ASSUME NEW i \in Checks!Defaults \cup Customs, Checks!ToggleCheck(i)
      PROVE  Checks!KeptInv'
  <2>1. i \in Checks!Ids(Checks!AllChecklist)
    BY <1>0, <1>1, ChecksShown
  <2>2. Fits' /\ UNCHANGED <<x1, x2, x5, x12>>
    BY <1>0, <1>1 DEF Checks!ToggleCheck, Checks!formVars
  <2>3. x3' \subseteq x3 \cup {i}
    BY <1>1 DEF Checks!ToggleCheck
  <2>4. ~x12' => x3' \subseteq (Checks!Defaults \ x2') \cup Checks!Ids(x1')
    BY <1>0, <1>L, <2>1, <2>2, <2>3 DEF Checks!TicksBelongToItems
  <2> QED
    BY <1>0, <1>I, <2>2, <2>4
<1>2. ASSUME NEW i \in Checks!Defaults \cup Customs, Checks!AddChecklistItem(i)
      PROVE  Checks!KeptInv'
  <2> DEFINE x == [id |-> i, category |-> x7, date |-> x6]
  <2>1. /\ i \in Customs \ x5 /\ x5' = x5 \cup {i} /\ x1' = Append(x1, x)
        /\ x4' = [x4 EXCEPT !.custom = x1'] /\ UNCHANGED <<x2, x3, x6, x7, x8, x9, x10, x11, x12>>
    BY <1>2 DEF Checks!AddChecklistItem, Checks!formVars
  <2>2. x \in Checks!Items /\ x.id = i /\ i \notin Checks!Ids(x1)
    BY <1>0, <2>1 DEF Checks!Items
  <2>3. x1' \in Checks!CustomItems /\ Checks!Ids(x1') = Checks!Ids(x1) \cup {i}
    BY <1>0, <2>1, <2>2, ChecksAdded
  <2>4. Fits'
    <3> HIDE DEF x
    <3>1. x4' = [custom |-> x1', hidden |-> x4.hidden, checked |-> x4.checked]
      BY <1>0, <2>1
    <3>2. Checks!TypeOK'
      BY <1>0, <2>1, <2>3, <3>1
    <3>3. ~x12 => x4.hidden = x2 /\ x4.checked = x3
      BY <1>0
    <3>4. UNCHANGED <<x2, x3, x12>>
      BY <2>1
    <3>5. Checks!ReloadShowsTheSame'
      BY <3>1, <3>3, <3>4
    <3> QED
      BY <1>0, <2>1, <3>1, <3>2, <3>5
  <2>5. Checks!Ids(x1)' \subseteq x5'
    BY <1>0, <2>1, <2>3
  <2>6. ~x12' => x3' \subseteq (Checks!Defaults \ x2') \cup Checks!Ids(x1')
    BY <1>0, <1>L, <2>1, <2>3 DEF Checks!TicksBelongToItems
  <2> QED
    BY <1>I, <2>4, <2>5, <2>6
<1>3. ASSUME NEW i \in Checks!Defaults \cup Customs, Checks!RemoveChecklistItem(i)
      PROVE  Checks!KeptInv'
  <2>1. x3' = x3 \ {i} /\ UNCHANGED <<x5, x6, x7, x8, x9, x10, x11, x12>>
    BY <1>3 DEF Checks!RemoveChecklistItem, Checks!RemoveChecklistCompletion, Checks!formVars
  <2>2. CASE i \in Checks!Ids(x1)
    <3>1. /\ x1' = Checks!Filtered(x1, {k \in DOMAIN x1 : x1[k].id # i})
          /\ x4' = [x4 EXCEPT !.custom = x1', !.checked = x3'] /\ x2' = x2
      BY <1>3, <2>2 DEF Checks!RemoveChecklistItem, Checks!RemoveCustomChecklistItem
    <3>2. x1' \in Checks!CustomItems /\ Checks!Ids(x1') = Checks!Ids(x1) \ {i}
      BY <1>0, <3>1, ChecksWithout
    <3>3. x4' = [custom |-> x1', hidden |-> x4.hidden, checked |-> x3']
      BY <1>0, <3>1
    <3>a. Checks!TypeOK'
      BY <1>0, <2>1, <3>1, <3>2, <3>3
    <3>b. Checks!ReloadShowsTheSame'
      BY <1>0, <2>1, <3>1, <3>3
    <3>4. Fits'
      BY <1>0, <2>1, <3>1, <3>3, <3>a, <3>b
    <3>5. Checks!Ids(x1)' \subseteq x5'
      BY <1>0, <2>1, <3>2
    <3>6. ~x12' => x3' \subseteq (Checks!Defaults \ x2') \cup Checks!Ids(x1')
      BY <1>0, <1>L, <2>1, <3>1, <3>2 DEF Checks!TicksBelongToItems
    <3> QED
      BY <1>I, <3>4, <3>5, <3>6
  <2>3. CASE i \notin Checks!Ids(x1)
    <3>1. /\ x2' = x2 \cup {i}
          /\ x4' = [x4 EXCEPT !.hidden = x2', !.checked = x3'] /\ x1' = x1
      BY <1>3, <2>3 DEF Checks!RemoveChecklistItem, Checks!HideDefaultChecklistItem
    <3>2. i \in Checks!Defaults
      <4>1. i \in Checks!Ids(Checks!AllChecklist)
        BY <1>3 DEF Checks!RemoveChecklistItem, Checks!VisibleChecklist, Checks!Ids
      <4> QED
        BY <1>L, <2>3, <4>1
    <3>3. x4' = [custom |-> x4.custom, hidden |-> x2', checked |-> x3']
      BY <1>0, <3>1
    <3>a. Checks!TypeOK'
      BY <1>0, <2>1, <3>1, <3>2, <3>3
    <3>b. Checks!ReloadShowsTheSame'
      BY <1>0, <2>1, <3>1, <3>3
    <3>4. Fits'
      BY <1>0, <2>1, <3>1, <3>3, <3>a, <3>b
    <3>5. Checks!Ids(x1)' \subseteq x5'
      BY <1>0, <2>1, <3>1
    <3>6. ~x12' => x3' \subseteq (Checks!Defaults \ x2') \cup Checks!Ids(x1')
      BY <1>0, <1>L, <2>1, <3>1 DEF Checks!TicksBelongToItems
    <3> QED
      BY <1>I, <3>4, <3>5, <3>6
  <2> QED
    BY <2>2, <2>3
<1>4. ASSUME NEW i \in Checks!Defaults, Checks!OtherTab(i)
      PROVE  Checks!KeptInv'
  <2>1. Fits'
    BY <1>0, <1>4 DEF Checks!OtherTab, Checks!formVars
  <2> QED
    BY <1>0, <1>4, <1>I, <2>1 DEF Checks!OtherTab
<1>5. CASE Checks!RestoreDefaultChecklistItems
  <2>1. Fits' /\ x2' = {} /\ UNCHANGED <<x1, x3, x5, x12>>
    BY <1>0, <1>5 DEF Checks!RestoreDefaultChecklistItems, Checks!formVars
  <2>2. ~x12' => x3' \subseteq (Checks!Defaults \ x2') \cup Checks!Ids(x1')
    BY <1>0, <1>L, <2>1 DEF Checks!TicksBelongToItems
  <2> QED
    BY <1>0, <1>I, <2>1, <2>2
<1>6. ASSUME UNCHANGED <<x1, x2, x3, x4, x5, x12>>, Checks!TypeOK'
      PROVE  Checks!KeptInv'
  <2>1. ~x12' => x3' \subseteq (Checks!Defaults \ x2') \cup Checks!Ids(x1')
    BY <1>0, <1>L, <1>6 DEF Checks!TicksBelongToItems
  <2>2. Fits'
    BY <1>0, <1>6
  <2> QED
    BY <1>0, <1>6, <1>I, <2>1, <2>2
<1>7. ASSUME NEW d \in ItemDates \cup {Checks!NoDate, Checks!All}, Checks!SelectChecklistDate(d)
      PROVE  Checks!KeptInv'
  BY <1>0, <1>6, <1>7 DEF Checks!SelectChecklistDate
<1>8. ASSUME NEW d \in ItemDates \cup {Checks!NoDate}, NEW c \in ItemCategories, Checks!EditForm(d, c)
      PROVE  Checks!KeptInv'
  BY <1>0, <1>6, <1>8 DEF Checks!EditForm
<1>9. CASE Checks!ToggleEditing
  BY <1>0, <1>6, <1>9 DEF Checks!ToggleEditing
<1>10. ASSUME NEW p \in Checks!Phases, NEW d \in ItemDates, Checks!Open(p, d)
       PROVE  Checks!KeptInv'
  <2>1. /\ x1' = x1 /\ x2' = x2 /\ x3' = x4.checked /\ x4' = x4 /\ x5' = x5 /\ x12' = x12
        /\ x6' = Checks!NoDate /\ x7' = "before" /\ x8' = Checks!All /\ x9' = FALSE
        /\ x10' = p /\ x11' = d
    BY <1>0, <1>10 DEF Checks!Open
  <2>2. "before" \in ItemCategories
    BY DEF Checks!ConstantsOK
  <2>3. Fits'
    BY <1>0, <2>1, <2>2
  <2>4. ~x12' => x3' \subseteq (Checks!Defaults \ x2') \cup Checks!Ids(x1')
    BY <1>0, <1>L, <2>1 DEF Checks!TicksBelongToItems
  <2> QED
    BY <1>0, <1>I, <2>1, <2>3, <2>4
<1>11. CASE UNCHANGED Checks!vars
  BY <1>0, <1>6, <1>11 DEF Checks!vars, Checks!formVars
<1> HIDE DEF Checks!TypeOK, Checks!ReloadShowsTheSame, Checks!kept, Fits
<1> QED
  BY <1>1, <1>2, <1>3, <1>4, <1>5, <1>7, <1>8, <1>9, <1>10, <1>11 DEF Checks!Next

-----------------------------------------------------------------------------
(* OtpCode: x1 is value, x2 focus, x3 typed and x4 followed.                  *)

(* The filter is that of Listing.                                             *)
LEMMA OtpListing ==
  \A s, K : Otp!Filtered(s, K) = Listed(s, K, Unweighted(K))
<1>1. ASSUME NEW s, NEW K, NEW weight
      PROVE  Otp!Listed(s, K, weight) = Listed(s, K, weight)
  BY DEF Otp!Listed, Otp!Nth, Otp!Rank, Otp!Ahead, Listed, Nth, Rank, Ahead,
         Cardinality, Otp!Cardinality, IsFiniteSet, Otp!IsFiniteSet
<1> QED
  BY <1>1 DEF Otp!Filtered, Otp!Unweighted, Unweighted

(* Positions from the first to the m-th, as they stand.                       *)
LEMMA ListedPrefix ==
  ASSUME NEW T, NEW s \in Seq(T), NEW m \in 0..Len(s)
  PROVE  Listed(s, 1..m, Unweighted(1..m)) = [n \in 1..m |-> s[n]]
<1> DEFINE K == 1..m
           zero == Unweighted(K)
<1>1. m \in Nat /\ IsFiniteSet(K) /\ Cardinality(K) = m /\ K \subseteq Int
  BY FS_Interval
<1>2. zero \in [K -> Int]
  BY UnweightedType
<1>3. ASSUME NEW a \in K PROVE Rank(a, K, zero) = a
  <2>1. a \in Nat /\ 1 <= a /\ a <= m
    BY <1>1
  <2>2. \A b \in K : Ahead(b, a, zero) <=> b < a
    BY DEF Ahead, Unweighted
  <2>3. {b \in K : Ahead(b, a, zero)} = 1..(a - 1)
    BY <1>1, <2>1, <2>2
  <2>4. 1 \in Int /\ a - 1 \in Int
    BY <2>1
  <2>5. Cardinality(1..(a - 1)) = IF 1 > a - 1 THEN 0 ELSE (a - 1) - 1 + 1
    BY <2>4, FS_Interval
  <2>6. Cardinality(1..(a - 1)) = a - 1
    BY <2>1, <2>5
  <2>7. Rank(a, K, zero) = Cardinality({b \in K : Ahead(b, a, zero)}) + 1
    BY DEF Rank
  <2>8. Rank(a, K, zero) = (a - 1) + 1
    <3> HIDE DEF K, zero
    <3> QED
      BY <2>3, <2>6, <2>7
  <2> QED
    BY <2>1, <2>8
<1> HIDE DEF K, zero
<1>4. \A n \in 1..m : Nth(n, K, zero) \in K /\ Rank(Nth(n, K, zero), K, zero) = n
  BY <1>1, <1>2, RanksAreOneToOne
<1>5. \A n \in 1..m : Nth(n, K, zero) = n
  BY <1>3, <1>4
<1>6. Listed(s, K, zero) = [n \in 1..m |-> s[n]]
  BY <1>1, <1>5 DEF Listed
<1> QED
  BY <1>6 DEF K, zero

(* Joined boxes are a string; boxes filled from the first on are that string. *)
LEMMA OtpJoin ==
  ASSUME Otp!ConstantsOK, NEW boxes \in [1..Length -> Digits \cup {Otp!Blank}]
  PROVE  /\ Otp!Join(boxes) \in Seq(Digits) /\ Len(Otp!Join(boxes)) <= Length
         /\ \A m \in 0..Length :
              (\A i \in 1..Length : boxes[i] # Otp!Blank <=> i <= m)
                => Otp!Join(boxes) = [n \in 1..m |-> boxes[n]]
<1> DEFINE T == Digits \cup {Otp!Blank}
           K == {i \in 1..Length : boxes[i] # Otp!Blank}
<1>1. Length \in Nat
  BY DEF Otp!ConstantsOK
<1>2. boxes \in Seq(T) /\ Len(boxes) = Length /\ DOMAIN boxes = 1..Length
  BY <1>1
<1>3. K \in SUBSET DOMAIN boxes /\ \A k \in K : boxes[k] \in Digits
  BY <1>2
<1>4. Otp!Join(boxes) = Listed(boxes, K, Unweighted(K))
  BY OtpListing DEF Otp!Join, Otp!Boxes
<1>5. Unweighted(K) \in [K -> Int]
  BY UnweightedType
<1> HIDE DEF K, T
<1>6. /\ Cardinality(K) \in Nat
      /\ Listed(boxes, K, Unweighted(K)) \in Seq(T)
      /\ Len(Listed(boxes, K, Unweighted(K))) = Cardinality(K)
      /\ DOMAIN Listed(boxes, K, Unweighted(K)) = 1..Cardinality(K)
      /\ \A n \in 1..Cardinality(K) :
           /\ Nth(n, K, Unweighted(K)) \in K
           /\ Listed(boxes, K, Unweighted(K))[n] = boxes[Nth(n, K, Unweighted(K))]
  BY <1>2, <1>3, <1>5, ListedMembers
<1>7. \A n \in 1..Cardinality(K) : Listed(boxes, K, Unweighted(K))[n] \in Digits
  BY <1>3, <1>6
<1>8. Listed(boxes, K, Unweighted(K)) \in Seq(Digits)
  BY <1>6, <1>7
<1>9. Cardinality(K) <= Length
  <2>1. IsFiniteSet(1..Length) /\ Cardinality(1..Length) = Length
    BY <1>1, FS_Interval
  <2>2. K \in SUBSET (1..Length)
    BY <1>2, <1>3
  <2>3. Cardinality(K) <= Cardinality(1..Length)
    BY <2>1, <2>2, FS_Subset
  <2> QED
    BY <2>1, <2>3
<1>10. ASSUME NEW m \in 0..Length, \A i \in 1..Length : boxes[i] # Otp!Blank <=> i <= m
       PROVE  Otp!Join(boxes) = [n \in 1..m |-> boxes[n]]
  <2>1. K = 1..m
    BY <1>1, <1>10 DEF K
  <2>2. Listed(boxes, 1..m, Unweighted(1..m)) = [n \in 1..m |-> boxes[n]]
    BY <1>2, ListedPrefix
  <2> QED
    BY <1>4, <2>1, <2>2
<1> QED
  BY <1>4, <1>6, <1>8, <1>9, <1>10

(* The boxes of a string hold its digits, and are empty behind them.          *)
LEMMA OtpBoxes ==
  ASSUME Otp!ConstantsOK, NEW v \in Seq(Digits), Len(v) <= Length
  PROVE  /\ Otp!BoxesOf(v) \in [1..Length -> Digits \cup {Otp!Blank}]
         /\ \A i \in 1..Length :
              /\ Otp!BoxesOf(v)[i] = Otp!Box(v, i)
              /\ i <= Len(v) => Otp!Box(v, i) = v[i] /\ v[i] \in Digits /\ v[i] # Otp!Blank
              /\ i > Len(v) => Otp!Box(v, i) = Otp!Blank
<1>1. Length \in Nat /\ Len(v) \in Nat /\ Otp!Blank \notin Digits
  BY DEF Otp!ConstantsOK
<1>2. \A i \in 1..Length : i <= Len(v) => v[i] \in Digits
  BY <1>1
<1> QED
  BY <1>1, <1>2 DEF Otp!BoxesOf, Otp!Box, Otp!Boxes

(* Emptying the last box that is filled takes the last digit.                 *)
LEMMA OtpCleared ==
  ASSUME Otp!ConstantsOK, NEW v \in Seq(Digits), Len(v) <= Length, NEW i \in 1..Length
  PROVE  /\ Otp!Cleared(v, i) \in Seq(Digits) /\ Len(Otp!Cleared(v, i)) <= Length
         /\ i = Len(v) => Otp!Cleared(v, i) = Otp!Front(v) /\ v # <<>>
                            /\ Len(Otp!Cleared(v, i)) = Len(v) - 1
<1> DEFINE boxes == [Otp!BoxesOf(v) EXCEPT ![i] = Otp!Blank]
<1>1. Length \in Nat /\ Len(v) \in Nat
  BY DEF Otp!ConstantsOK
<1>2. boxes \in [1..Length -> Digits \cup {Otp!Blank}]
  BY OtpBoxes
<1>3. Otp!Cleared(v, i) = Otp!Join(boxes)
  BY DEF Otp!Cleared
<1>4. ASSUME i = Len(v)
      PROVE  Otp!Cleared(v, i) = Otp!Front(v) /\ v # <<>> /\ Len(Otp!Cleared(v, i)) = Len(v) - 1
  <2>1. \A k \in 1..Length : boxes[k] = IF k = i THEN Otp!Blank ELSE Otp!Box(v, k)
    BY OtpBoxes
  <2>2. \A k \in 1..Length : boxes[k] # Otp!Blank <=> k <= i - 1
    BY <1>1, <1>4, <2>1, OtpBoxes
  <2>3. i - 1 \in 0..Length
    BY <1>1
  <2> HIDE DEF boxes
  <2>4. Otp!Join(boxes) = [n \in 1..(i - 1) |-> boxes[n]]
    BY <1>2, <2>2, <2>3, OtpJoin
  <2>5. \A n \in 1..(i - 1) : boxes[n] = v[n] /\ v[n] \in Digits
    BY <1>1, <1>4, <2>1, OtpBoxes
  <2>6. Otp!Front(v) = [n \in 1..(i - 1) |-> v[n]]
    BY <1>1, <1>4 DEF Otp!Front
  <2>7. Otp!Front(v) = Otp!Join(boxes)
    BY <2>4, <2>5, <2>6
  <2>8. Len(Otp!Front(v)) = i - 1
    BY <1>1, <1>4, <2>6
  <2> QED
    BY <1>1, <1>3, <1>4, <2>7, <2>8
<1> QED
  BY <1>2, <1>3, <1>4, OtpJoin

(* Digits fill the boxes behind the last one, and replace the last of a full  *)
(* field.                                                                     *)
LEMMA OtpFilled ==
  ASSUME Otp!ConstantsOK, NEW v \in Seq(Digits), Len(v) <= Length, NEW f \in 1..Length,
         NEW r \in Nat \ {0}, NEW raw \in [1..r -> Digits],
         NEW room, room = SubSeq(raw, 1, Otp!Least(Len(raw), Length - f + 1))
  PROVE  /\ Otp!Filled(v, f, raw) \in Seq(Digits) /\ Len(Otp!Filled(v, f, raw)) <= Length
         /\ f = Otp!Least(Len(v) + 1, Length) =>
              /\ Otp!Filled(v, f, raw) = IF Len(v) = Length THEN Otp!Front(v) \o room ELSE v \o room
              /\ Otp!Least(f + r, Length) = Otp!Least(Len(Otp!Filled(v, f, raw)) + 1, Length)
<1> DEFINE boxes == [j \in 1..Length |-> IF j \in f..(f + Len(raw) - 1) THEN raw[j - f + 1] ELSE Otp!Box(v, j)]
           size == Otp!Least(r, Length - f + 1)
<1>1. Length \in Nat /\ Len(v) \in Nat /\ Otp!Blank \notin Digits
  BY DEF Otp!ConstantsOK
<1>2. raw \in Seq(Digits) /\ Len(raw) = r
  OBVIOUS
<1>3. \A j \in f..(f + r - 1) : raw[j - f + 1] \in Digits
  OBVIOUS
<1>4. /\ boxes \in [1..Length -> Digits \cup {Otp!Blank}]
      /\ Otp!Filled(v, f, raw) = Otp!Join(boxes)
  <2>1. \A j \in 1..Length : boxes[j] \in Digits \cup {Otp!Blank}
    BY <1>2, <1>3, OtpBoxes
  <2> QED
    BY <2>1 DEF Otp!Filled, Otp!Boxes
<1>5. size \in 1..r /\ size <= Length - f + 1 /\ (size = r \/ size = Length - f + 1)
  BY <1>1 DEF Otp!Least
<1>6. room \in Seq(Digits) /\ Len(room) = size /\ \A k \in 1..size : room[k] = raw[k] /\ raw[k] \in Digits
  <2> HIDE DEF size
  <2>1. room = SubSeq(raw, 1, size)
    BY <1>2 DEF size
  <2>2. size \in Nat /\ size <= Len(raw) /\ \A k \in 1..size : k \in 1..r
    BY <1>2, <1>5
  <2>3. \A k \in 1..size : raw[k] \in Digits
    BY <2>2
  <2>4. /\ SubSeq(raw, 1, size) \in Seq(Digits)
        /\ Len(SubSeq(raw, 1, size)) = size
        /\ \A k \in 1..size : SubSeq(raw, 1, size)[k] = raw[k]
    BY <1>2, <2>2, SubSeqProperties
  <2> QED
    BY <2>1, <2>3, <2>4
<1>7. ASSUME f = Otp!Least(Len(v) + 1, Length)
      PROVE  /\ Otp!Filled(v, f, raw) = IF Len(v) = Length THEN Otp!Front(v) \o room ELSE v \o room
             /\ Otp!Least(f + r, Length) = Otp!Least(Len(Otp!Filled(v, f, raw)) + 1, Length)
  <2> DEFINE base == IF Len(v) = Length THEN Otp!Front(v) ELSE v
             m == f - 1 + size
  <2>1. /\ base \in Seq(Digits) /\ Len(base) = f - 1
        /\ \A k \in 1..(f - 1) : base[k] = v[k]
    <3>1. CASE Len(v) = Length
      <4>1. f = Length /\ Otp!Front(v) = SubSeq(v, 1, Len(v) - 1)
        BY <1>1, <1>7, <3>1 DEF Otp!Least, Otp!Front
      <4> QED
        BY <1>1, <3>1, <4>1
    <3>2. CASE Len(v) # Length
      <4>1. f = Len(v) + 1
        BY <1>1, <1>7, <3>2 DEF Otp!Least
      <4> QED
        BY <1>1, <3>2, <4>1
    <3> QED
      BY <3>1, <3>2
  <2>2. f - 1 <= Len(v) /\ Len(v) <= f
    BY <1>1, <1>7 DEF Otp!Least
  <2>3. m \in 0..Length
    BY <1>1, <1>5
  <2>4. \A j \in 1..Length :
          /\ j < f => boxes[j] = v[j] /\ boxes[j] # Otp!Blank
          /\ j >= f /\ j <= m => boxes[j] = raw[j - f + 1] /\ boxes[j] # Otp!Blank
          /\ j > m => boxes[j] = Otp!Blank
    <3>1. ASSUME NEW j \in 1..Length, j < f
          PROVE  boxes[j] = v[j] /\ boxes[j] # Otp!Blank
      <4>1. boxes[j] = Otp!Box(v, j) /\ j <= Len(v)
        BY <1>1, <1>2, <2>2, <3>1
      <4> QED
        BY <4>1, OtpBoxes
    <3>2. ASSUME NEW j \in 1..Length, j >= f, j <= m
          PROVE  boxes[j] = raw[j - f + 1] /\ boxes[j] # Otp!Blank
      <4>1. j \in f..(f + r - 1)
        BY <1>5, <3>2
      <4> QED
        BY <1>1, <1>2, <1>3, <4>1
    <3>3. ASSUME NEW j \in 1..Length, j > m
          PROVE  boxes[j] = Otp!Blank
      <4>1. size = r
        <5>1. size # Length - f + 1
          <6> HIDE DEF size
          <6>1. size \in Int /\ Length \in Int /\ f \in Int /\ j \in Int
            BY <1>1, <1>5
          <6>2. j > f - 1 + size /\ j <= Length
            BY <3>3, <1>1
          <6> QED
            BY <6>1, <6>2
        <5> QED
          BY <1>5, <5>1
      <4>2. j \notin f..(f + r - 1) /\ j > Len(v)
        BY <1>1, <2>2, <3>3, <4>1
      <4>3. boxes[j] = Otp!Box(v, j)
        BY <1>2, <4>2
      <4> QED
        BY <4>2, <4>3, OtpBoxes
    <3> QED
      BY <3>1, <3>2, <3>3
  <2>5. \A j \in 1..Length : boxes[j] # Otp!Blank <=> j <= m
    <3> HIDE DEF boxes
    <3>1. \A j \in 1..Length : j < f => j <= m
      BY <1>5
    <3> QED
      BY <2>3, <2>4, <3>1
  <2> HIDE DEF boxes, base, m, size
  <2>6. Otp!Join(boxes) = [n \in 1..m |-> boxes[n]]
    BY <1>4, <2>3, <2>5, OtpJoin
  <2>7. Len(Otp!Join(boxes)) = m
    BY <2>3, <2>6
  <2>8. base \o room = Otp!Join(boxes)
    <3>1. m = Len(base) + Len(room)
      BY <1>6, <2>1 DEF m
    <3>2. \A n \in 1..m : (base \o room)[n] = IF n <= Len(base) THEN base[n] ELSE room[n - Len(base)]
      BY SMTT(30), <1>6, <2>1, <3>1
    <3>3. ASSUME NEW n \in 1..m PROVE (base \o room)[n] = boxes[n]
      <4>1. n \in 1..Length /\ n \in Int /\ m \in Int /\ f \in Int /\ size \in Int
        BY <1>1, <1>5, <2>3
      <4>0. n < f \/ n >= f
        BY <4>1
      <4>2. CASE n < f
        <5>1. n <= Len(base) /\ n \in 1..(f - 1)
          BY <2>1, <4>1, <4>2
        <5> QED
          BY <2>1, <2>4, <3>2, <4>1, <4>2, <5>1
      <4>3. CASE n >= f
        <5>1. ~(n <= Len(base)) /\ n - Len(base) = n - f + 1 /\ n - f + 1 \in 1..size
          BY <1>5, <2>1, <4>1, <4>3 DEF m
        <5>2. (base \o room)[n] = room[n - f + 1]
          BY <3>2, <5>1
        <5>3. n <= m
          BY <4>1
        <5>4. boxes[n] = raw[n - f + 1]
          BY <2>4, <4>1, <4>3, <5>3
        <5> QED
          BY <1>6, <5>1, <5>2, <5>4
      <4> QED
        BY <4>0, <4>2, <4>3
    <3>4. base \o room \in Seq(Digits) /\ Len(base \o room) = m
      BY <1>6, <2>1, <3>1
    <3>5. Otp!Join(boxes) \in Seq(Digits)
      BY <1>4, OtpJoin
    <3> QED
      BY <2>6, <2>7, <3>3, <3>4, <3>5, SeqEqual
  <2>9. Otp!Least(f + r, Length) = Otp!Least(m + 1, Length)
    BY <1>1, <1>5 DEF Otp!Least, m, size
  <2> QED
    BY <1>4, <2>7, <2>8, <2>9 DEF base
<1> QED
  BY <1>4, <1>7, OtpJoin

(* The field opens empty, with the focus on the first box.                    *)
LEMMA OtpInit == ASSUME Otp!ConstantsOK, Otp!Init PROVE Otp!FieldInv
BY DEF Otp!ConstantsOK, Otp!Init, Otp!FieldInv, Otp!TypeOK, Otp!BoxesAreOneField, Otp!Least,
   Otp!Boxes

(* A keystroke at the end of the digits acts there as in a text field.        *)
LEMMA OtpStep ==
  ASSUME Otp!ConstantsOK, Otp!FieldInv, [Otp!Next]_Otp!vars
  PROVE  Otp!FieldInv'
<1>1. /\ x1 \in Seq(Digits) /\ Len(x1) <= Length /\ x2 \in 1..Length
      /\ x3 \in Seq(Digits) /\ Len(x3) <= Length /\ x4 \in BOOLEAN
      /\ x4 => x1 = x3 /\ x2 = Otp!Least(Len(x1) + 1, Length)
  BY DEF Otp!FieldInv, Otp!TypeOK, Otp!BoxesAreOneField, Otp!Boxes
<1>2. Length \in Nat \ {0} /\ Len(x1) \in Nat
  BY <1>1 DEF Otp!ConstantsOK
<1>3. ASSUME x1' \in Seq(Digits), Len(x1') <= Length, x2' \in 1..Length, x4' \in BOOLEAN,
             x3' = IF x4' THEN x1' ELSE <<>>,
             x4' => x2' = Otp!Least(Len(x1') + 1, Length)
      PROVE  Otp!FieldInv'
  <2>1. x3' \in Seq(Digits) /\ Len(x3') <= Length
    BY <1>2, <1>3
  <2> QED
    BY <1>3, <2>1 DEF Otp!FieldInv, Otp!TypeOK, Otp!BoxesAreOneField, Otp!Boxes
<1>4. ASSUME NEW n \in 1..(Length + 1), NEW raw \in [1..n -> Digits], Otp!HandleChange(raw)
      PROVE  Otp!FieldInv'
  <2> DEFINE room == SubSeq(raw, 1, Otp!Least(Len(raw), Length - x2 + 1))
  <2>1. /\ x1' = Otp!Filled(x1, x2, raw) /\ x2' = Otp!Least(x2 + Len(raw), Length) /\ x4' = x4
        /\ x3' = IF x4 THEN IF Len(x3) = Length THEN Otp!Front(x3) \o room ELSE x3 \o room ELSE <<>>
    BY <1>4 DEF Otp!HandleChange, Otp!FieldHolds
  <2>2. n \in Nat \ {0} /\ Len(raw) = n
    BY <1>2
  <2>3. /\ x1' \in Seq(Digits) /\ Len(x1') <= Length
        /\ x2 = Otp!Least(Len(x1) + 1, Length) =>
             /\ x1' = IF Len(x1) = Length THEN Otp!Front(x1) \o room ELSE x1 \o room
             /\ Otp!Least(x2 + n, Length) = Otp!Least(Len(x1') + 1, Length)
    <3> HIDE DEF room
    <3>1. raw \in [1..n -> Digits] /\ room = SubSeq(raw, 1, Otp!Least(Len(raw), Length - x2 + 1))
      BY <1>4 DEF room
    <3>2. /\ Otp!Filled(x1, x2, raw) \in Seq(Digits) /\ Len(Otp!Filled(x1, x2, raw)) <= Length
          /\ x2 = Otp!Least(Len(x1) + 1, Length) =>
               /\ Otp!Filled(x1, x2, raw) = IF Len(x1) = Length THEN Otp!Front(x1) \o room ELSE x1 \o room
               /\ Otp!Least(x2 + n, Length) = Otp!Least(Len(Otp!Filled(x1, x2, raw)) + 1, Length)
      <4>1. \A v \in Seq(Digits), f \in 1..Length, q \in Nat \ {0} : \A w \in [1..q -> Digits] :
              LET rest == SubSeq(w, 1, Otp!Least(Len(w), Length - f + 1)) IN
              Len(v) <= Length =>
                /\ Otp!Filled(v, f, w) \in Seq(Digits) /\ Len(Otp!Filled(v, f, w)) <= Length
                /\ f = Otp!Least(Len(v) + 1, Length) =>
                     /\ Otp!Filled(v, f, w) = IF Len(v) = Length THEN Otp!Front(v) \o rest ELSE v \o rest
                     /\ Otp!Least(f + q, Length) = Otp!Least(Len(Otp!Filled(v, f, w)) + 1, Length)
        BY OtpFilled
      <4> QED
        BY ZenonT(60), <1>1, <2>2, <3>1, <4>1
    <3> QED
      BY <2>1, <3>2
  <2>4. x2' \in 1..Length
    BY <1>1, <1>2, <2>1, <2>2 DEF Otp!Least
  <2> HIDE DEF room
  <2> QED
    BY <1>1, <1>3, <2>1, <2>2, <2>3, <2>4
<1>5. CASE Otp!EraseBox
  <2>1. /\ x1' = Otp!Cleared(x1, x2) /\ UNCHANGED <<x2, x4>>
        /\ x3' = IF x4 THEN IF x3 = <<>> THEN x3 ELSE Otp!Front(x3) ELSE <<>>
        /\ Otp!Box(x1, x2) # Otp!Blank
    BY <1>5 DEF Otp!EraseBox, Otp!FieldHolds
  <2>2. x4 => x2 = Len(x1) /\ x2 = Length
    BY <1>1, <1>2, <2>1, OtpBoxes DEF Otp!Least
  <2>3. /\ x1' \in Seq(Digits) /\ Len(x1') <= Length
        /\ x4 => x1' = Otp!Front(x1) /\ x1 # <<>> /\ Len(x1') = Length - 1
    <3>1. /\ Otp!Cleared(x1, x2) \in Seq(Digits) /\ Len(Otp!Cleared(x1, x2)) <= Length
          /\ x2 = Len(x1) => Otp!Cleared(x1, x2) = Otp!Front(x1) /\ x1 # <<>>
                               /\ Len(Otp!Cleared(x1, x2)) = Len(x1) - 1
      BY <1>1, OtpCleared
    <3> QED
      BY <2>1, <2>2, <3>1
  <2>4. x4 => x2 = Otp!Least(Len(x1') + 1, Length)
    BY <1>2, <2>2, <2>3 DEF Otp!Least
  <2> QED
    BY <1>1, <1>3, <2>1, <2>3, <2>4
<1>6. CASE Otp!HandleBackspace
  <2>1. /\ x1' = Otp!Cleared(x1, x2 - 1) /\ x2' = x2 - 1 /\ UNCHANGED x4
        /\ x3' = IF x4 THEN IF x3 = <<>> THEN x3 ELSE Otp!Front(x3) ELSE <<>>
        /\ Otp!Box(x1, x2) = Otp!Blank /\ x2 > 1
    BY <1>6 DEF Otp!HandleBackspace, Otp!FieldHolds
  <2>2. x2 - 1 \in 1..Length
    BY <1>1, <1>2, <2>1
  <2>3. x4 => x2 - 1 = Len(x1)
    BY <1>1, <1>2, <2>1, OtpBoxes DEF Otp!Least
  <2>4. /\ x1' \in Seq(Digits) /\ Len(x1') <= Length
        /\ x4 => x1' = Otp!Front(x1) /\ x1 # <<>> /\ Len(x1') = Len(x1) - 1
    BY <1>1, <2>1, <2>2, <2>3, OtpCleared
  <2>5. x4 => x2' = Otp!Least(Len(x1') + 1, Length)
    BY <1>1, <1>2, <2>1, <2>3, <2>4 DEF Otp!Least
  <2> QED
    BY <1>1, <1>3, <2>1, <2>2, <2>4, <2>5
<1>7. ASSUME NEW i \in Otp!Boxes, Otp!MoveFocus(i)
      PROVE  Otp!FieldInv'
  BY <1>1, <1>3, <1>7 DEF Otp!MoveFocus, Otp!Boxes
<1>8. CASE UNCHANGED Otp!vars
  BY <1>8 DEF Otp!vars, Otp!FieldInv, Otp!TypeOK, Otp!BoxesAreOneField
<1> QED
  BY <1>4, <1>5, <1>6, <1>7, <1>8 DEF Otp!Next

-----------------------------------------------------------------------------
(* TripEditor in the app: rows whose requests did not overlap are on the      *)
(* screen as the server has them.                                             *)
THEOREM AppListIsRight == AppSpec => []ListMatchesServer
<1>1. ListMatchesServer <=> (open = "editor" => Editor!ListMatchesServer)
  BY DEF ListMatchesServer
<1>2. Editor!Spec => []Editor!ListMatchesServer
  BY Editor!ListIsRight, EditorAssumption
<1> QED
  BY <1>1, <1>2, EditorAlone, PTL

(* TripEditor in the app: one create form sends one request at a time.        *)
THEOREM AppOneCreation == AppSpec => []OneCreationInFlight
<1>1. OneCreationInFlight <=> (open = "editor" => Editor!OneCreationInFlight)
  BY DEF OneCreationInFlight
<1>2. Editor!Spec => []Editor!OneCreationInFlight
  BY Editor!OneCreation, EditorAssumption
<1> QED
  BY <1>1, <1>2, EditorAlone, PTL

(* RegisterForm in the app: a verified address and its code were confirmed    *)
(* together, unless the form changed before the answer came.                  *)
THEOREM AppVerifiedPair == AppSpec => []VerifiedPairWasConfirmed
<1>1. VerifiedPairWasConfirmed <=> (open = "register" => Register!VerifiedPairWasConfirmed)
  BY DEF VerifiedPairWasConfirmed
<1>2. Register!Spec => []Register!VerifiedPairWasConfirmed
  BY Register!VerifiedPair, RegisterAssumption
<1> QED
  BY <1>1, <1>2, RegisterAlone, PTL

(* PlaceSearch in the app: a saved place is one place.                        *)
THEOREM AppSavedPlaces == AppSpec => []SavedPlaceIsOnePlace
<1>1. SavedPlaceIsOnePlace <=> (open = "search" => Search!SavedPlaceIsOnePlace)
  BY DEF SavedPlaceIsOnePlace
<1>2. Search!Spec => []Search!SavedPlaceIsOnePlace
  BY Search!SavedPlaces, SearchAssumption
<1> QED
  BY <1>1, <1>2, SearchAlone, PTL

(* PlaceSearch and ExchangeRate in the app: "searched" stands over what the   *)
(* typed query finds, "latest" and "saved" over a rate of the currency that   *)
(* is shown, and the amounts go by the rate in use, which the field shows.    *)
THEOREM AppLabels == AppSpec => []LabelsAreTrue
<1>1. LabelsAreTrue <=> /\ open = "search" => Search!SearchedLabelIsTrue
                        /\ open = "money" => Money!LabelIsTrue /\ Money!AmountsMatchRate
  BY DEF LabelsAreTrue
<1>2. Search!Spec => []Search!SearchedLabelIsTrue
  BY Search!SearchedLabel, SearchAssumption
<1>3. Money!Spec => []Money!RateInv
  BY MoneyInit, MoneyStep, PTL DEF Money!Spec
<1>4. Money!RateInv => Money!LabelIsTrue /\ Money!AmountsMatchRate
  BY DEF Money!RateInv
<1> QED
  BY <1>1, <1>2, <1>3, <1>4, SearchAlone, MoneyAlone, PTL

(* ForgotPassword in the app: a temporary password on the screen is the one   *)
(* some account has, however late the resets of earlier panels are served.    *)
THEOREM AppShownPassword == AppSpec => []ShownPasswordWorks
<1>1. ShownPasswordWorks <=> (open = "forgot" => Forgot!ShownPasswordWorks)
  BY DEF ShownPasswordWorks
<1>2. Forgot!Spec => []Forgot!PanelInv
  BY ForgotInit, ForgotStep, PTL DEF Forgot!Spec
<1>3. Forgot!PanelInv => Forgot!ShownPasswordWorks
  BY DEF Forgot!PanelInv, Forgot!OutcomesWork, Forgot!ShownPasswordWorks, Forgot!Keeps
<1> QED
  BY <1>1, <1>2, <1>3, ForgotAlone, PTL

(* ViewNavigation in the app: with no effect and no event on its way, the     *)
(* fragment of the URL stands for the tab and the view on the screen.         *)
THEOREM AppFragment == AppSpec => []ViewMatchesHash
<1>1. ViewMatchesHash <=> (open = "nav" => Nav!ViewMatchesHash)
  BY DEF ViewMatchesHash
<1>2. Nav!Spec => []Nav!BrowsingInv
  BY NavInit, NavStep, PTL DEF Nav!Spec
<1>3. Nav!BrowsingInv => Nav!ViewMatchesHash
  BY DEF Nav!BrowsingInv
<1> QED
  BY <1>1, <1>2, <1>3, NavAlone, PTL

(* TripMap in the app: a map that is ready shows the trip's pins and the      *)
(* chosen stop, unless it was made under a rendered "ready" and no pins were  *)
(* drawn since; no pin of an earlier map is left.                             *)
THEOREM AppMap == AppSpec => []MapShowsChoice
<1>1. MapShowsChoice <=> (open = "map" => Chart!MapShowsChoice)
  BY DEF MapShowsChoice
<1>2. Chart!Spec => []Chart!MapInv
  BY MapInit, MapStep, PTL DEF Chart!Spec
<1>3. Chart!MapInv => Chart!MapShowsChoice
  BY DEF Chart!MapInv, Chart!MapShowsChoice, Chart!PickedIsShown, Chart!BrightIsShownStop,
         Chart!SelectedMapPlace, Chart!PlaceOf
<1> QED
  BY <1>1, <1>2, <1>3, ChartAlone, PTL

(* PwaUpdate in the app: a version that applies itself finds no write in      *)
(* flight and no typed input, and the reload that follows costs no form that  *)
(* was left alone since.                                                      *)
THEOREM AppTypedInput == AppSpec => TypedInputSurvivesUpdates
<1>1. Pwa!Spec => []Pwa!TrackerInv
  BY PwaInit, PwaStep, PTL DEF Pwa!Spec
<1>2. /\ open = "pwa" => Pwa!TrackerInv
      /\ [AppNext]_allVars
      => [open = "pwa" => Pwa!AppliedSafely]_allVars
  BY AppStep, PwaApplies
<1> QED
  BY <1>1, <1>2, PwaAlone, PTL DEF AppSpec, TypedInputSurvivesUpdates

(* OwnerSession in the app: a list of the server on the screen is that of the *)
(* account of the header.                                                     *)
THEOREM AppListBelongs == AppSpec => []ListBelongsToUser
<1>1. ListBelongsToUser <=> (open = "owner" => Owner!ListBelongsToUser)
  BY DEF ListBelongsToUser
<1>2. Owner!Spec => []Owner!ListBelongsToUser
  BY Owner!ListBelongs, OwnerAssumption
<1> QED
  BY <1>1, <1>2, OwnerAlone, PTL

(* OwnerSession in the app: after writes whose outcome is known, the list     *)
(* page shows the trips the server has.                                       *)
THEOREM AppListIsCurrent == AppSpec => []ListIsCurrent
<1>1. ListIsCurrent <=> (open = "owner" => Owner!ListIsCurrent)
  BY DEF ListIsCurrent
<1>2. Owner!Spec => []Owner!ListIsCurrent
  BY Owner!ListCurrent, OwnerAssumption
<1> QED
  BY <1>1, <1>2, OwnerAlone, PTL

(* OtpCode in the app: while the user types, pastes and erases, the boxes     *)
(* hold what one text field would.                                            *)
THEOREM AppOneField == AppSpec => []BoxesAreOneField
<1>1. BoxesAreOneField <=> (open = "otp" => Otp!BoxesAreOneField)
  BY DEF BoxesAreOneField
<1>2. Otp!Spec => []Otp!FieldInv
  BY OtpInit, OtpStep, OtpAssumption, PTL DEF Otp!Spec
<1>3. Otp!FieldInv => Otp!BoxesAreOneField
  BY DEF Otp!FieldInv
<1> QED
  BY <1>1, <1>2, <1>3, OtpAlone, PTL

(* What ViewSchedules keeps, as long as no other tab writes, is what it       *)
(* shows.                                                                     *)
LEMMA DaysKept == Days!Spec => []Days!KeptInv
BY DaysInit, DaysStep, DaysAssumption, PTL DEF Days!Spec

(* The same of ViewChecklist.                                                 *)
LEMMA ChecksKept == Checks!Spec => []Checks!KeptInv
BY ChecksInit, ChecksStep, ChecksAssumption, PTL DEF Checks!Spec

(* ViewNavigation and ViewSchedules in the app: the schedule tab opens on     *)
(* today's date, and the next schedule is the earliest that is left.          *)
THEOREM AppToday == AppSpec => []TodayComesFirst
<1>1. TodayComesFirst <=> /\ open = "nav" => Nav!ScheduleOpensOnFocus
                          /\ open = "days" => Days!NextScheduleIsEarliest
  BY DEF TodayComesFirst
<1>2. Nav!Spec => []Nav!BrowsingInv
  BY NavInit, NavStep, PTL DEF Nav!Spec
<1>3. Nav!BrowsingInv => Nav!ScheduleOpensOnFocus
  BY DEF Nav!BrowsingInv
<1>4. Days!KeptInv => Days!NextScheduleIsEarliest
  BY DaysNext, DaysAssumption DEF Days!KeptInv
<1> QED
  BY <1>1, <1>2, <1>3, <1>4, DaysKept, NavAlone, DaysAlone, PTL

(* ViewSchedules in the app: an arrow exchanges two neighbours of what the    *)
(* screen shows, and no other step changes the order.                         *)
THEOREM AppMoves == AppSpec => MoveSwapsNeighbours
<1>1. /\ open = "days" => Days!KeptInv
      /\ [AppNext]_allVars
      => [open = "days" => Days!SwappedNeighbours]_allVars
  BY AppStep, DaysMoves, DaysAssumption
<1> QED
  BY <1>1, DaysKept, DaysAlone, PTL DEF AppSpec, MoveSwapsNeighbours

(* ViewChecklist in the app: a tick does not outlive its item.                *)
THEOREM AppTicks == AppSpec => []TicksBelongToItems
<1>1. TicksBelongToItems <=> (open = "checks" => Checks!TicksBelongToItems)
  BY DEF TicksBelongToItems
<1>2. Checks!KeptInv => Checks!TicksBelongToItems
  BY DEF Checks!KeptInv
<1> QED
  BY <1>1, <1>2, ChecksKept, ChecksAlone, PTL

(* ViewSchedules, ViewChecklist and ExchangeRate in the app: a reload shows   *)
(* what the screen shows, and converts by the rate it converted by.           *)
THEOREM AppReload == AppSpec => []ReloadShowsTheSame
<1>1. ReloadShowsTheSame <=> /\ open = "days" => Days!ReloadShowsTheSame
                             /\ open = "checks" => Checks!ReloadShowsTheSame
                             /\ open = "money" => Money!ReopenConvertsTheSame
  BY DEF ReloadShowsTheSame
<1>2. Money!Spec => []Money!RateInv
  BY MoneyInit, MoneyStep, PTL DEF Money!Spec
<1>3. /\ Days!KeptInv => Days!ReloadShowsTheSame
      /\ Checks!KeptInv => Checks!ReloadShowsTheSame
      /\ Money!RateInv => Money!ReopenConvertsTheSame
  BY DEF Days!KeptInv, Checks!KeptInv, Money!RateInv
<1> QED
  BY <1>1, <1>2, <1>3, DaysKept, ChecksKept, DaysAlone, ChecksAlone, MoneyAlone, PTL

(* The shared trip in the app: what the page shows is the trip of its link.   *)
THEOREM AppShownIsOwn == AppSpec => []ShownBelongsToLink
BY SharedTripAlone, ShownIsOwn, PTL

(* The shared trip in the app: a copy carries a warning.                      *)
THEOREM AppCopiesMarked == AppSpec => []CopiesAreMarked
BY SharedTripAlone, CopiesMarked, PTL

(* The shared trip in the app: late answers never take the page back to an    *)
(* older version without a warning.                                           *)
THEOREM AppNeverOlder == AppSpec => NeverSilentlyOlder
BY SharedTripAlone, NeverOlder, PTL DEF NeverSilentlyOlder

(* Every part keeps the types of its state.                                   *)
LEMMA PartTypes ==
    /\ Money!Spec => []Money!TypeOK
    /\ Forgot!Spec => []Forgot!TypeOK
    /\ Nav!Spec => []Nav!TypeOK
    /\ Chart!Spec => []Chart!TypeOK
    /\ Pwa!Spec => []Pwa!TypeOK
    /\ Otp!Spec => []Otp!TypeOK
    /\ Days!Spec => []Days!TypeOK
    /\ Checks!Spec => []Checks!TypeOK
<1>1. Money!Spec => []Money!TypeOK
  <2>1. Money!RateInv => Money!TypeOK
    BY DEF Money!RateInv
  <2> QED
    BY <2>1, MoneyInit, MoneyStep, PTL DEF Money!Spec
<1>2. Forgot!Spec => []Forgot!TypeOK
  <2>1. Forgot!PanelInv => Forgot!TypeOK
    BY DEF Forgot!PanelInv
  <2> QED
    BY <2>1, ForgotInit, ForgotStep, PTL DEF Forgot!Spec
<1>3. Nav!Spec => []Nav!TypeOK
  <2>1. Nav!BrowsingInv => Nav!TypeOK
    BY DEF Nav!BrowsingInv
  <2> QED
    BY <2>1, NavInit, NavStep, PTL DEF Nav!Spec
<1>4. Chart!Spec => []Chart!TypeOK
  <2>1. Chart!MapInv => Chart!TypeOK
    BY DEF Chart!MapInv
  <2> QED
    BY <2>1, MapInit, MapStep, PTL DEF Chart!Spec
<1>5. Pwa!Spec => []Pwa!TypeOK
  <2>1. Pwa!TrackerInv => Pwa!TypeOK
    BY DEF Pwa!TrackerInv
  <2> QED
    BY <2>1, PwaInit, PwaStep, PTL DEF Pwa!Spec
<1>6. Otp!Spec => []Otp!TypeOK
  <2>1. Otp!FieldInv => Otp!TypeOK
    BY DEF Otp!FieldInv
  <2> QED
    BY <2>1, OtpInit, OtpStep, OtpAssumption, PTL DEF Otp!Spec
<1>7. Days!Spec => []Days!TypeOK
  <2>1. Days!KeptInv => Days!TypeOK
    BY DEF Days!KeptInv
  <2> QED
    BY <2>1, DaysKept, PTL
<1>8. Checks!Spec => []Checks!TypeOK
  <2>1. Checks!KeptInv => Checks!TypeOK
    BY DEF Checks!KeptInv
  <2> QED
    BY <2>1, ChecksKept, PTL
<1> QED
  BY <1>1, <1>2, <1>3, <1>4, <1>5, <1>6, <1>7, <1>8

(* The app keeps the types of the shared trip and of the part that is open.   *)
THEOREM AppTypes == AppSpec => []AppTypeOK
<1>1. AppSpec => [](open \in Parts)
  <2>1. AppInit => open \in Parts
    BY DEF AppInit
  <2>2. open \in Parts /\ [AppNext]_allVars => (open \in Parts)'
    BY AppStep
  <2> QED
    BY <2>1, <2>2, PTL DEF AppSpec
<1>2. AppSpec => []TypeOK
  BY SharedTripAlone, TypeCorrect, PTL
<1>3. Editor!Spec => []Editor!TypeOK
  BY Editor!EditorTypes, EditorAssumption
<1>4. Register!Spec => []Register!TypeOK
  BY Register!RegisterTypes, RegisterAssumption
<1>5. Search!Spec => []Search!TypeOK
  BY Search!SearchTypes, SearchAssumption
<1>6. Owner!Spec => []Owner!TypeOK
  BY Owner!OwnerTypes, OwnerAssumption
<1>7. AppTypeOK <=> /\ open \in Parts
                    /\ TypeOK
                    /\ open = "editor" => Editor!TypeOK
                    /\ open = "register" => Register!TypeOK
                    /\ open = "forgot" => Forgot!TypeOK
                    /\ open = "otp" => Otp!TypeOK
                    /\ open = "search" => Search!TypeOK
                    /\ open = "pwa" => Pwa!TypeOK
                    /\ open = "owner" => Owner!TypeOK
                    /\ open = "nav" => Nav!TypeOK
                    /\ open = "days" => Days!TypeOK
                    /\ open = "checks" => Checks!TypeOK
                    /\ open = "map" => Chart!TypeOK
                    /\ open = "money" => Money!TypeOK
  BY DEF AppTypeOK
<1> QED
  BY <1>1, <1>2, <1>3, <1>4, <1>5, <1>6, <1>7, PartTypes, EditorAlone, RegisterAlone, ForgotAlone,
     OtpAlone, SearchAlone, PwaAlone, OwnerAlone, NavAlone, DaysAlone, ChecksAlone, ChartAlone,
     MoneyAlone, PTL
================================================================================
