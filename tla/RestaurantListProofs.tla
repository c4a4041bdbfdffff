------------------------- MODULE RestaurantListProofs -------------------------
(***************************************************************************)
(* The menu that opens is the one of the restaurant that was touched, for  *)
(* any list of restaurants, any categories and any number of touches.      *)
(*                                                                         *)
(* What the filter computes is a fold over the list.  It is reasoned about *)
(* by induction over its prefixes: a set of numbers that holds 0 and, with *)
(* each number, the next one holds them all.                               *)
(***************************************************************************)
EXTENDS RestaurantList, SequenceTheorems, WellFoundedInduction, NaturalsInduction, TLAPS

-----------------------------------------------------------------------------
(* Induction over the numbers, for a set instead of a predicate. *)
LEMMA NatInductiveSet ==
  ASSUME NEW A, 0 \in A, \A n \in Nat : n \in A => n + 1 \in A
  PROVE  Nat \subseteq A
<1> SUFFICES ASSUME ~(Nat \subseteq A) PROVE FALSE
  OBVIOUS
<1> DEFINE T == Nat \ A
<1>1. T # {} /\ T \subseteq Nat
  OBVIOUS
<1>2. IsWellFoundedOn(OpToRel(<, Nat), Nat)
  BY NatLessThanWellFounded
<1>3. PICK x \in T : \A y \in T : ~(<<y, x>> \in OpToRel(<, Nat))
  <2> HIDE DEF T
  <2> QED BY <1>1, <1>2, WFMin, Zenon
<1>4. \A y \in T : ~(y < x)
  BY <1>3, <1>1 DEF OpToRel
<1> QED
  BY <1>4, <1>1

(* A set of numbers with a bound has a largest one. *)
LEMMA LargestExists ==
  \A n \in Nat : \A s \in SUBSET (1 .. n) : s # {} =>
    Max(s) \in s /\ \A y \in s : Max(s) >= y
<1> DEFINE A == {n \in Nat : \A s \in SUBSET (1 .. n) : s # {} =>
                               \E x \in s : \A y \in s : x >= y}
<1>1. 0 \in A
  <2>1. 1 .. 0 = {}
    OBVIOUS
  <2>2. \A s \in SUBSET (1 .. 0) : s = {}
    BY <2>1
  <2> QED BY <2>2
<1>2. ASSUME NEW n \in Nat, n \in A PROVE n + 1 \in A
  <2> SUFFICES ASSUME NEW s \in SUBSET (1 .. n + 1), s # {}
               PROVE  \E x \in s : \A y \in s : x >= y
    OBVIOUS
  <2>1. CASE n + 1 \in s
    BY <2>1
  <2>2. CASE n + 1 \notin s
    <3>1. s \in SUBSET (1 .. n)
      BY <2>2
    <3> QED BY <3>1, <1>2
  <2> QED BY <2>1, <2>2
<1>3. Nat \subseteq A
  <2> HIDE DEF A
  <2> QED BY <1>1, <1>2, NatInductiveSet
<1>4. ASSUME NEW n \in Nat, NEW s \in SUBSET (1 .. n), s # {}
      PROVE  \E x \in s : \A y \in s : x >= y
  BY <1>3, <1>4
<1> QED
  BY <1>4 DEF Max

-----------------------------------------------------------------------------
(* One turn of the loop of didSelectItemAt. *)
Turn(k, found, r) ==
  IF k \in CategoriesOf[r] /\ ~Contains(found, r) THEN Append(found, r) ELSE found

(* The equation of the fold over the first n restaurants of s. *)
FoldOver(k, s, n, g) ==
  g = [t \in SUBSET (1 .. n) |->
         IF t = {} THEN <<>> ELSE Turn(k, g[t \ {Max(t)}], s[Max(t)])]

(* The fold is defined: there is a function that solves its equation. *)
LEMMA FoldExists == \A k, s : \A n \in Nat : \E g : FoldOver(k, s, n, g)
<1> SUFFICES ASSUME NEW k, NEW s PROVE \A n \in Nat : \E g : FoldOver(k, s, n, g)
  OBVIOUS
<1> DEFINE A == {n \in Nat : \E g : FoldOver(k, s, n, g)}
<1>1. 0 \in A
  <2>1. FoldOver(k, s, 0, [t \in SUBSET (1 .. 0) |-> <<>>])
    BY DEF FoldOver
  <2> QED BY <2>1
<1>2. ASSUME NEW n \in Nat, n \in A PROVE n + 1 \in A
  <2>1. PICK g : FoldOver(k, s, n, g)
    BY <1>2
  <2> DEFINE h == [t \in SUBSET (1 .. n + 1) |->
                     IF t = {} THEN <<>> ELSE Turn(k, g[t \ {Max(t)}], s[Max(t)])]
  <2>2. ASSUME NEW t \in SUBSET (1 .. n + 1), t # {}
        PROVE  t \ {Max(t)} \in SUBSET (1 .. n)
    <3>1. n + 1 \in Nat
      OBVIOUS
    <3>2. Max(t) \in t /\ \A y \in t : Max(t) >= y
      BY <2>2, <3>1, LargestExists, Zenon
    <3>3. ASSUME NEW y \in t \ {Max(t)} PROVE y \in 1 .. n
      <4>1. /\ y \in 1 .. n + 1 /\ Max(t) \in 1 .. n + 1
            /\ y # Max(t) /\ Max(t) >= y
        BY <3>2
      <4> HIDE <1>2, <2>1, <2>2, <3>2
      <4> QED BY <4>1
    <3> QED BY <3>3
  <2>3. ASSUME NEW t \in SUBSET (1 .. n) PROVE h[t] = g[t]
    <3>1. t \in SUBSET (1 .. n + 1)
      OBVIOUS
    <3>2. g[t] = IF t = {} THEN <<>> ELSE Turn(k, g[t \ {Max(t)}], s[Max(t)])
      BY <2>1 DEF FoldOver
    <3> QED BY <3>1, <3>2
  <2>4. FoldOver(k, s, n + 1, h)
    <3>1. \A t \in SUBSET (1 .. n + 1) : t # {} => h[t \ {Max(t)}] = g[t \ {Max(t)}]
      <4> HIDE DEF h
      <4> QED BY <2>2, <2>3
    <3>2. h = [t \in SUBSET (1 .. n + 1) |->
                 IF t = {} THEN <<>> ELSE Turn(k, h[t \ {Max(t)}], s[Max(t)])]
      BY <3>1, Zenon
    <3> QED BY <3>2 DEF FoldOver
  <2> QED BY <2>4
<1>3. Nat \subseteq A
  <2> HIDE DEF A
  <2> QED BY <1>1, <1>2, NatInductiveSet
<1> QED
  BY <1>3

(* The rows of a category are found one turn after the other. *)
LEMMA FilteredInTurns ==
  ASSUME NEW k, list \in Seq(Restaurants)
  PROVE  \E g : /\ Filtered(k) = g[1 .. Len(list)]
                /\ g[{}] = <<>>
                /\ \A n \in 0 .. Len(list) - 1 :
                     g[1 .. n + 1] = Turn(k, g[1 .. n], list[n + 1])
<1> DEFINE n == Len(list)
<1>1. n \in Nat /\ DOMAIN list = 1 .. n
  BY LenProperties
<1> DEFINE it == CHOOSE g : FoldOver(k, list, n, g)
<1>2. FoldOver(k, list, n, it)
  BY <1>1, FoldExists
<1>3. Filtered(k) = it[1 .. n]
  BY <1>1 DEF Filtered, FoldLeft, MapThenFoldSet, FoldOver, Turn
<1>4. it[{}] = <<>>
  BY <1>2 DEF FoldOver
<1>5. ASSUME NEW m \in 0 .. n - 1 PROVE it[1 .. m + 1] = Turn(k, it[1 .. m], list[m + 1])
  <2>1. 1 .. m + 1 \in SUBSET (1 .. n) /\ 1 .. m + 1 # {} /\ m + 1 \in Nat
    <3> HIDE DEF n
    <3>1. m \in Nat /\ m + 1 <= n /\ n \in Nat
      BY <1>1
    <3>2. m + 1 \in 1 .. m + 1
      BY <3>1
    <3>3. \A y \in 1 .. m + 1 : y \in 1 .. n
      BY <3>1
    <3>4. 1 .. m + 1 \in SUBSET (1 .. n)
      BY <3>3, Zenon
    <3>5. m + 1 \in Nat
      BY <3>1
    <3> QED BY <3>2, <3>4, <3>5, Zenon
  <2>2. Max(1 .. m + 1) \in 1 .. m + 1 /\ \A y \in 1 .. m + 1 : Max(1 .. m + 1) >= y
    BY <2>1, LargestExists, Zenon
  <2>3. Max(1 .. m + 1) = m + 1
    BY <2>1, <2>2
  <2>4. (1 .. m + 1) \ {m + 1} = 1 .. m
    BY <2>1
  <2>5. it[1 .. m + 1] = Turn(k, it[(1 .. m + 1) \ {Max(1 .. m + 1)}], list[Max(1 .. m + 1)])
    <3> HIDE DEF it
    <3> QED BY <1>2, <2>1 DEF FoldOver
  <2> QED BY <2>3, <2>4, <2>5
<1> QED
  BY <1>3, <1>4, <1>5
(* Every row of a category is in the list. *)
LEMMA FilteredListed ==
  ASSUME NEW k, list \in Seq(Restaurants)
  PROVE  /\ Filtered(k) \in Seq(Restaurants)
         /\ \A i \in DOMAIN Filtered(k) : \E j \in DOMAIN list : list[j] = Filtered(k)[i]
<1> DEFINE Listed(s) == /\ s \in Seq(Restaurants)
                        /\ \A i \in DOMAIN s : \E j \in DOMAIN list : list[j] = s[i]
<1>1. PICK g : /\ Filtered(k) = g[1 .. Len(list)]
               /\ g[{}] = <<>>
               /\ \A n \in 0 .. Len(list) - 1 :
                    g[1 .. n + 1] = Turn(k, g[1 .. n], list[n + 1])
  BY FilteredInTurns
<1> DEFINE A == {n \in Nat : n <= Len(list) => Listed(g[1 .. n])}
<1>2. 0 \in A
  <2>1. 1 .. 0 = {}
    OBVIOUS
  <2>2. Listed(<<>>)
    OBVIOUS
  <2> HIDE DEF Listed
  <2> QED BY <1>1, <2>1, <2>2
<1>3. ASSUME NEW n \in Nat, n \in A PROVE n + 1 \in A
  <2> SUFFICES ASSUME n + 1 <= Len(list) PROVE Listed(g[1 .. n + 1])
    OBVIOUS
  <2>1. Len(list) \in Nat
    BY LenProperties
  <2>2. Listed(g[1 .. n])
    BY <1>3, <2>1
  <2>3. n + 1 \in DOMAIN list /\ list[n + 1] \in Restaurants /\ n \in 0 .. Len(list) - 1
    BY <2>1, LenProperties, ElementOfSeq
  <2>4. g[1 .. n + 1] = Turn(k, g[1 .. n], list[n + 1])
    BY <1>1, <2>3
  <2>5. ASSUME NEW s, Listed(s) PROVE Listed(Append(s, list[n + 1]))
    BY <2>3, <2>5
  <2> HIDE DEF Listed
  <2> QED BY <2>2, <2>4, <2>5 DEF Turn
<1>4. Nat \subseteq A
  <2> HIDE DEF A
  <2> QED BY <1>2, <1>3, NatInductiveSet
<1>5. Len(list) \in Nat
  BY LenProperties
<1>6. Listed(g[1 .. Len(list)])
  <2> HIDE DEF Listed
  <2> QED BY <1>4, <1>5
<1> QED
  BY <1>1, <1>6

-----------------------------------------------------------------------------
(* firstIndex finds what is in the list. *)
LEMMA Position ==
  ASSUME list \in Seq(Restaurants), NEW i, \E j \in DOMAIN list : list[j] = rows[i]
  PROVE  restaurantID(i) \in DOMAIN list /\ list[restaurantID(i)] = rows[i]
<1> DEFINE I == {j \in 1 .. Len(list) : list[j] = rows[i]}
<1>1. DOMAIN list = 1 .. Len(list) /\ Len(list) \in Nat
  BY LenProperties
<1>2. I # {} /\ I \subseteq Nat
  BY <1>1
<1>3. \E x \in I : \A y \in I : ~(<<y, x>> \in OpToRel(<, Nat))
  <2>1. IsWellFoundedOn(OpToRel(<, Nat), Nat)
    BY NatLessThanWellFounded
  <2> HIDE DEF I
  <2> QED BY <1>2, <2>1, WFMin, Zenon
<1>4. \E x \in I : \A y \in I : ~(y < x)
  BY <1>2, <1>3 DEF OpToRel
<1>5. \E x \in I : \A y \in I : x =< y
  BY <1>2, <1>4
<1>6. Min(I) \in I
  BY <1>5 DEF Min
<1>7. restaurantID(i) = Min(I)
  BY <1>2 DEF restaurantID, SelectInSeq
<1> QED
  BY <1>1, <1>6, <1>7

(* Until the list has arrived there are no rows, and it arrives once: a    *)
(* read that may still bring it in, or an alert that may start one, finds  *)
(* it empty.  What is shown is listed.                                     *)
Listed ==
  /\ answer \in Seq(Restaurants) /\ list \in Seq(Restaurants) /\ rows \in Seq(Restaurants)
  /\ alert \in BOOLEAN /\ (alert => request = "none")
  /\ alert \/ request # "none" => list = <<>>
  /\ \A i \in DOMAIN rows : \E j \in DOMAIN list : list[j] = rows[i]
  /\ MenuOfRow

LEMMA ListedInit == Init => Listed
<1> SUFFICES ASSUME Init PROVE Listed
  OBVIOUS
<1>1. <<>> \in Seq(Restaurants) /\ DOMAIN <<>> = {}
  OBVIOUS
<1> QED
  BY <1>1 DEF Init, Listed, MenuOfRow

LEMMA ListedStep == Listed /\ [Next]_vars => Listed'
<1> SUFFICES ASSUME Listed, [Next]_vars PROVE Listed'
  OBVIOUS
<1> USE DEF Listed, MenuOfRow, reading, screen, pushed
<1>1. CASE viewDidLoad
  BY <1>1 DEF viewDidLoad, fetchResultsInfo
<1>2. CASE Retry
  BY <1>2 DEF Retry, fetchResultsInfo
<1>3. CASE Answer
  BY <1>3, ListAssumption DEF Answer
<1>4. CASE Refuse
  BY <1>4 DEF Refuse
<1>5. CASE update
  <2>1. touched = NoRestaurant
    BY <1>5 DEF update
  <2>2. \A i \in DOMAIN answer : \E j \in DOMAIN answer : answer[j] = answer[i]
    OBVIOUS
  <2>3. list' = answer /\ rows' = answer /\ answer' = answer /\ alert' = alert
        /\ request' = "none" /\ touched' = NoRestaurant /\ ~alert
    BY <1>5, <2>1 DEF update
  <2>4. ~MenuOfRow' => FALSE
    BY <2>3
  <2> QED BY <2>2, <2>3, <2>4
<1>6. CASE ChangeNetwork
  BY <1>6 DEF ChangeNetwork
<1>7. CASE Back
  BY <1>7 DEF Back
<1>8. ASSUME NEW k \in Categories, TouchCategory(k) PROVE Listed'
  <2>1. /\ rows' \in Seq(Restaurants)
        /\ \A i \in DOMAIN rows' : \E j \in DOMAIN list : list[j] = rows'[i]
    BY <1>8, FilteredListed DEF TouchCategory, SelectedRows
  <2> QED BY <1>8, <2>1 DEF TouchCategory
<1>9. ASSUME NEW i \in 1 .. Len(rows), TouchRestaurant(i) PROVE Listed'
  <2>1. restaurantID(i) \in DOMAIN list /\ list[restaurantID(i)] = rows[i]
    BY <1>9, Position DEF TouchRestaurant
  <2> QED BY <1>9, <2>1 DEF TouchRestaurant
<1>10. CASE UNCHANGED vars
  BY <1>10 DEF vars
<1> QED
  BY <1>1, <1>2, <1>3, <1>4, <1>5, <1>6, <1>7, <1>8, <1>9, <1>10 DEF Next

(* MenuOfRow: whatever the filter shows, the force-unwrapped firstIndex    *)
(* exists and opens the menu of the restaurant that was touched.           *)
THEOREM MenuIsOfRow == Spec => []MenuOfRow
<1>1. Listed => MenuOfRow
  BY DEF Listed
<1> QED
  BY <1>1, ListedInit, ListedStep, PTL DEF Spec
=============================================================================
