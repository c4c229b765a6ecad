----------------------- MODULE QuoteReconcilerProofs -----------------------
(***************************************************************************)
(* Proofs about the sweeps of the polling loop, for any rows, archive and  *)
(* page sizes.  How long a current quote still has to wait is what lies    *)
(* between the cursor of its queue and the row, counted in pages; every    *)
(* page that passes the row over takes one off, a crash puts a sweep back. *)
(***************************************************************************)
EXTENDS QuoteReconciler, FiniteSetTheorems, WellFoundedInduction, TLAPS

-----------------------------------------------------------------------------
(* Facts about numbers: a set of them has a least member, a finite one a    *)
(* greatest, which is what Min and Max return.                              *)
LEMMA LeastExists ==
  ASSUME NEW S \in SUBSET Nat, S # {}
  PROVE  \E m \in S : \A x \in S : m <= x
<1> DEFINE R == {ss \in Nat \X Nat : ss[1] < ss[2]}
<1>1. R = OpToRel(<, Nat)
  BY Zenon DEF OpToRel
<1>2. IsWellFoundedOn(R, Nat)
  BY <1>1, NatLessThanWellFounded
<1>3. PICK m \in S : \A y \in S : ~ (<<y, m>> \in R)
  <2> HIDE DEF R
  <2> QED  BY <1>2, WFMin
<1>4. \A x \in S : ~ (x < m)
  BY <1>3
<1>5. \A x \in S : m <= x
  BY <1>4
<1> QED  BY <1>5

(* A finite set of numbers is bounded: a smallest one that is not would     *)
(* lose a member and still not be.                                          *)
LEMMA FiniteBounded ==
  ASSUME NEW S \in SUBSET Nat, IsFiniteSet(S)
  PROVE  \E b \in Nat : \A x \in S : x <= b
<1> DEFINE Bad == {n \in Nat : \E T \in SUBSET Nat :
                     /\ IsFiniteSet(T) /\ Cardinality(T) = n
                     /\ ~ \E b \in Nat : \A x \in T : x <= b}
<1>1. SUFFICES ASSUME Bad # {} PROVE FALSE
  BY FS_CardinalityType
<1>2. PICK n \in Bad : \A m \in Bad : n <= m
  <2>1. Bad \in SUBSET Nat
    OBVIOUS
  <2> QED  BY <1>1, <2>1, LeastExists
<1>3. PICK T \in SUBSET Nat : /\ IsFiniteSet(T) /\ Cardinality(T) = n
                              /\ ~ \E b \in Nat : \A x \in T : x <= b
  BY <1>2
<1>4. PICK x \in T : x \in Nat
  BY <1>3
<1>5. IsFiniteSet(T \ {x}) /\ Cardinality(T \ {x}) = n - 1 /\ n \in Nat
  BY <1>3, <1>4, FS_RemoveElement
<1>6. n - 1 \in Nat
  BY <1>5, FS_CardinalityType
<1>7. n - 1 \notin Bad
  BY <1>2, <1>6
<1>8. PICK b \in Nat : \A y \in T \ {x} : y <= b
  <2>1. T \ {x} \in SUBSET Nat
    OBVIOUS
  <2> QED  BY <1>5, <1>6, <1>7, <2>1
<1>9. b + x \in Nat /\ \A y \in T : y <= b + x
  BY <1>4, <1>8
<1> QED  BY <1>3, <1>9

(* Max of a finite set is its greatest member.                              *)
LEMMA MaxFacts ==
  ASSUME NEW S \in SUBSET Nat, IsFiniteSet(S), S # {}
  PROVE  Max(S) \in S /\ \A x \in S : x <= Max(S)
<1> DEFINE B == {b \in Nat : \A x \in S : x <= b}
<1>1. PICK m \in B : \A b \in B : m <= b
  <2>1. B # {} /\ B \in SUBSET Nat
    BY FiniteBounded
  <2> QED  BY <2>1, LeastExists
<1>2. m \in S
  <2>1. SUFFICES ASSUME m \notin S PROVE FALSE
    OBVIOUS
  <2>2. PICK y \in S : y \in Nat
    OBVIOUS
  <2>3. \A x \in S : x \in Nat /\ x < m
    BY <1>1, <2>1
  <2>4. m - 1 \in Nat /\ \A x \in S : x <= m - 1
    BY <1>1, <2>2, <2>3
  <2> QED  BY <1>1, <2>4
<1>3. \E x \in S : \A y \in S : x >= y
  BY <1>1, <1>2
<1>4. Max(S) \in S /\ \A y \in S : Max(S) >= y
  BY <1>3 DEF Max
<1> QED  BY <1>4

(* Min of two numbers is one of them, and no more than the first.           *)
LEMMA MinFacts ==
  ASSUME NEW a \in Nat, NEW b \in Nat
  PROVE  Min({a, b}) \in {a, b} /\ Min({a, b}) <= a
<1>1. \E x \in {a, b} : \A y \in {a, b} : x <= y
  OBVIOUS
<1>2. Min({a, b}) \in {a, b} /\ \A y \in {a, b} : Min({a, b}) <= y
  BY <1>1 DEF Min
<1> QED  BY <1>2

(* Whole pages.                                                             *)
LEMMA DivFacts ==
  ASSUME NEW a \in Nat, NEW b \in Nat, NEW t \in Nat \ {0}
  PROVE  /\ a \div t \in Nat
         /\ a <= b => a \div t <= b \div t
         /\ a + t <= b => (a \div t) + 1 <= b \div t
         /\ (a \div t) + (b \div t) <= (a + b) \div t
<1>1. a \div t \in Nat
  OBVIOUS
<1>2. a <= b => a \div t <= b \div t
  OBVIOUS
<1>3. (a + t) \div t = (a \div t) + 1
  OBVIOUS
<1>4. a + t \in Nat /\ (a + t <= b => (a + t) \div t <= b \div t)
  OBVIOUS
<1>5. (a \div t) + (b \div t) <= (a + b) \div t
  OBVIOUS
<1> QED  BY <1>1, <1>2, <1>3, <1>4, <1>5

-----------------------------------------------------------------------------
(* The first t members of A, as findMany takes them.                        *)
FirstOf(A, t) == {i \in A : Cardinality({j \in A : j <= i}) <= t}

(* A page that leaves a row out is full, and the row lies behind it.        *)
LEMMA PageFacts ==
  ASSUME NEW A \in SUBSET Nat, IsFiniteSet(A), NEW t \in Nat \ {0}
  PROVE  /\ FirstOf(A, t) \in SUBSET A /\ IsFiniteSet(FirstOf(A, t))
         /\ \A i \in A \ FirstOf(A, t) : /\ Cardinality(FirstOf(A, t)) = t
                                         /\ \A j \in FirstOf(A, t) : j < i
<1> DEFINE Upto(i) == {j \in A : j <= i}
           P == FirstOf(A, t)
<1>1. \A i \in A : Upto(i) \in SUBSET A /\ IsFiniteSet(Upto(i)) /\ Cardinality(Upto(i)) \in Nat
  BY FS_Subset, FS_CardinalityType
<1>2. \A i, j \in A : i <= j => Cardinality(Upto(i)) <= Cardinality(Upto(j))
  <2>1. ASSUME NEW i \in A, NEW j \in A, i <= j
        PROVE  Upto(i) \in SUBSET Upto(j)
    <3>1. \A x \in A : x \in Nat
      OBVIOUS
    <3>2. \A x \in A : x <= i => x <= j
      BY <2>1, <3>1
    <3> QED  BY <3>2
  <2> QED  BY <1>1, <2>1, FS_Subset
<1>3. P \in SUBSET A /\ IsFiniteSet(P) /\ Cardinality(P) \in Nat
  BY FS_Subset, FS_CardinalityType DEF FirstOf
<1>4. \A i \in A : i \in P <=> Cardinality(Upto(i)) <= t
  BY DEF FirstOf
<1> HIDE DEF P
<1>5. Cardinality(P) <= t
  <2>1. CASE P = {}
    BY <2>1, FS_EmptySet
  <2>2. CASE P # {}
    <3>1. Max(P) \in P /\ \A x \in P : x <= Max(P)
      BY <1>3, <2>2, MaxFacts
    <3>2. P \in SUBSET Upto(Max(P))
      BY <1>3, <3>1
    <3>3. Cardinality(P) <= Cardinality(Upto(Max(P)))
      BY <1>1, <1>3, <3>1, <3>2, FS_Subset
    <3>4. Cardinality(Upto(Max(P))) <= t /\ Cardinality(Upto(Max(P))) \in Nat
      BY <1>1, <1>3, <1>4, <3>1
    <3> QED  BY <1>3, <3>3, <3>4
  <2> QED  BY <2>1, <2>2
<1>6. ASSUME NEW i \in A \ P
      PROVE  Cardinality(P) = t /\ \A j \in P : j < i
  <2>1. \A j \in P : j < i
    <3>1. SUFFICES ASSUME NEW j \in P, i <= j PROVE FALSE
      BY <1>3
    <3>2. Cardinality(Upto(i)) <= Cardinality(Upto(j)) /\ Cardinality(Upto(j)) <= t
      BY <1>2, <1>3, <1>4, <3>1
    <3> QED  BY <1>1, <1>3, <1>4, <3>2
  <2>2. PICK m \in A \ P : \A x \in A \ P : m <= x
    <3>1. A \ P \in SUBSET Nat /\ A \ P # {}
      OBVIOUS
    <3> QED  BY <3>1, LeastExists
  <2>3. Upto(m) \in SUBSET (P \cup {m})
    <3>1. \A x \in A : x \in Nat
      OBVIOUS
    <3>2. \A x \in A \ P : x <= m => x = m
      BY <2>2, <3>1
    <3> QED  BY <3>2
  <2>4. IsFiniteSet(P \cup {m}) /\ Cardinality(P \cup {m}) = Cardinality(P) + 1
    BY <1>3, <2>2, FS_AddElement
  <2>5. Cardinality(Upto(m)) <= Cardinality(P) + 1
    BY <2>3, <2>4, FS_Subset
  <2>6. ~ (Cardinality(Upto(m)) <= t) /\ Cardinality(Upto(m)) \in Nat
    BY <1>1, <1>4, <2>2
  <2>7. Cardinality(P) = t
    BY <1>3, <1>5, <2>5, <2>6
  <2> QED  BY <2>1, <2>7
<1> QED  BY <1>3, <1>6 DEF P

-----------------------------------------------------------------------------
Current == Ids \ Archive
Pages(S) == Cardinality(S) \div Take["fresh"]

(* The pages of the fresh queue, its cursor at c, that may still pass row i *)
(* over: the rest of this sweep, if the row is behind the cursor, and what  *)
(* comes before the row.                                                    *)
Left(i, c) == IF i > c THEN Pages({j \in Current : c < j /\ j < i})
              ELSE Pages({j \in Current : j > c}) + 1 + Pages({j \in Current : j < i})

(* What a row has to wait for at most, if nothing fails.                    *)
FullSweep == SweepLength(Cardinality(Current), Take["fresh"]) - 1

(* The current quotes are finitely many, and none has id 0.                 *)
LEMMA CurrentFacts ==
  /\ Current \in SUBSET Nat /\ IsFiniteSet(Current) /\ 0 \notin Current
  /\ Take["fresh"] \in Nat \ {0}
  /\ Cardinality(Current) \in Nat
<1>1. IsFiniteSet(Ids) /\ Current \subseteq Ids /\ Ids \subseteq Nat \ {0}
  BY ReconcilerAssumption DEF ReconcilerAssumption, Current
<1>2. IsFiniteSet(Current) /\ Cardinality(Current) \in Nat
  BY <1>1, FS_Subset, FS_CardinalityType
<1>3. Take["fresh"] \in Nat \ {0}
  BY ReconcilerAssumption DEF ReconcilerAssumption, QueueNames
<1> QED  BY <1>1, <1>2, <1>3

(* Counting any part of the current rows.                                   *)
LEMMA PagesFacts ==
  ASSUME NEW S \in SUBSET Current
  PROVE  IsFiniteSet(S) /\ Cardinality(S) \in Nat /\ Pages(S) \in Nat
<1>1. IsFiniteSet(S) /\ Cardinality(S) \in Nat
  BY CurrentFacts, FS_Subset, FS_CardinalityType
<1> QED  BY <1>1, CurrentFacts, DivFacts DEF Pages

(* Disjoint finite sets are counted separately.                             *)
LEMMA DisjointUnion ==
  ASSUME NEW S, NEW U, IsFiniteSet(S), IsFiniteSet(U), S \cap U = {}
  PROVE  IsFiniteSet(S \cup U) /\ Cardinality(S \cup U) = Cardinality(S) + Cardinality(U)
<1>1. /\ IsFiniteSet(S \cup U)
      /\ Cardinality(S \cup U) = Cardinality(S) + Cardinality(U) - Cardinality(S \cap U)
  BY FS_Union
<1>2. Cardinality(S) \in Nat /\ Cardinality(U) \in Nat /\ Cardinality(S \cap U) = 0
  BY FS_CardinalityType, FS_EmptySet
<1> QED  BY <1>1, <1>2

(* Disjoint parts that leave out a row together hold at most a full sweep's *)
(* pages less one.                                                          *)
LEMMA TwoParts ==
  ASSUME NEW i \in Current, NEW S \in SUBSET Current, NEW U \in SUBSET Current,
         i \notin S, i \notin U, S \cap U = {}
  PROVE  Pages(S) + Pages(U) + 1 <= FullSweep /\ FullSweep \in Nat
<1> DEFINE n == Cardinality(Current)
           t == Take["fresh"]
           a == Cardinality(S)
           b == Cardinality(U)
<1>1. n \in Nat /\ t \in Nat \ {0} /\ a \in Nat /\ b \in Nat
  BY CurrentFacts, PagesFacts
<1>2. a + b + 1 <= n
  <2>1. IsFiniteSet(S \cup U) /\ Cardinality(S \cup U) = a + b
    BY <1>1, PagesFacts, DisjointUnion
  <2>2. /\ IsFiniteSet((S \cup U) \cup {i})
        /\ Cardinality((S \cup U) \cup {i}) = a + b + 1
    BY <2>1, FS_AddElement
  <2>3. (S \cup U) \cup {i} \in SUBSET Current
    OBVIOUS
  <2>4. Cardinality((S \cup U) \cup {i}) <= n
    BY <2>3, CurrentFacts, FS_Subset
  <2> QED  BY <2>2, <2>4
<1>3. FullSweep = (n + t - 1) \div t
  <2>1. n + t - 1 \in Nat
    BY <1>1
  <2>2. (n + t - 1) \div t \in Nat
    BY <1>1, <2>1, DivFacts
  <2> QED  BY <2>2 DEF FullSweep, SweepLength
<1> HIDE DEF n, t, a, b
<1>4. (a \div t) + (b \div t) <= (a + b) \div t /\ a \div t \in Nat /\ b \div t \in Nat
  BY <1>1, DivFacts
<1>5. a + b \in Nat /\ n + t - 1 \in Nat /\ (a + b) + t <= n + t - 1
  BY <1>1, <1>2
<1>6. ((a + b) \div t) + 1 <= (n + t - 1) \div t /\ (n + t - 1) \div t \in Nat
      /\ (a + b) \div t \in Nat
  BY <1>1, <1>5, DivFacts
<1>7. (a \div t) + (b \div t) + 1 <= FullSweep /\ FullSweep \in Nat
  BY <1>3, <1>4, <1>6
<1> QED  BY <1>7 DEF Pages, a, b, t

(* Wherever the cursor is, no more than a full sweep is left.               *)
LEMMA LeftBounded ==
  ASSUME NEW i \in Current, NEW c \in Nat
  PROVE  Left(i, c) \in Nat /\ Left(i, c) <= FullSweep /\ FullSweep \in Nat
<1> DEFINE Mid == {j \in Current : c < j /\ j < i}
           Aft == {j \in Current : j > c}
           Bef == {j \in Current : j < i}
<1>1. i \in Nat /\ Current \in SUBSET Nat
  BY CurrentFacts
<1>2. CASE i > c
  <2>1. Pages(Mid) + Pages({}) + 1 <= FullSweep /\ FullSweep \in Nat
        /\ Pages(Mid) \in Nat /\ Pages({}) \in Nat
    BY <1>1, TwoParts, PagesFacts
  <2>2. Left(i, c) = Pages(Mid)
    BY <1>2 DEF Left
  <2> QED  BY <2>1, <2>2
<1>3. CASE ~ (i > c)
  <2>1. Aft \cap Bef = {} /\ i \notin Aft /\ i \notin Bef
    <3>1. \A j \in Current : j \in Nat /\ ~ (j > c /\ j < i)
      BY <1>1, <1>3
    <3>2. ~ (i < i)
      BY <1>1
    <3> QED  BY <1>3, <3>1, <3>2
  <2>2. Pages(Aft) + Pages(Bef) + 1 <= FullSweep /\ FullSweep \in Nat
        /\ Pages(Aft) \in Nat /\ Pages(Bef) \in Nat
    BY <2>1, TwoParts, PagesFacts
  <2>3. Left(i, c) = Pages(Aft) + 1 + Pages(Bef)
    BY <1>3 DEF Left
  <2> HIDE DEF Aft, Bef
  <2> QED  BY <2>2, <2>3
<1> QED  BY <1>2, <1>3

(* A page that lies in S and not in U takes one page off.                   *)
LEMMA OnePageLess ==
  ASSUME NEW S \in SUBSET Current, NEW U \in SUBSET S, NEW P \in SUBSET S,
         P \cap U = {}, Cardinality(P) = Take["fresh"]
  PROVE  Pages(U) + 1 <= Pages(S)
<1>1. P \in SUBSET Current /\ U \in SUBSET Current
  OBVIOUS
<1>2. /\ IsFiniteSet(S) /\ IsFiniteSet(U) /\ IsFiniteSet(P)
      /\ Cardinality(S) \in Nat /\ Cardinality(U) \in Nat /\ Cardinality(P) \in Nat
  BY <1>1, PagesFacts
<1>3. IsFiniteSet(U \cup P) /\ Cardinality(U \cup P) = Cardinality(U) + Cardinality(P)
  <2>1. U \cap P = {}
    OBVIOUS
  <2> QED  BY <1>2, <2>1, DisjointUnion
<1>4. Cardinality(U) + Take["fresh"] <= Cardinality(S)
  <2>1. U \cup P \in SUBSET S
    OBVIOUS
  <2> QED  BY <1>2, <1>3, <2>1, FS_Subset
<1> QED  BY <1>2, <1>4, CurrentFacts, DivFacts DEF Pages

(* A page of the fresh queue that passes a row over leaves it one page less *)
(* to wait for.                                                             *)
LEMMA PassedOver ==
  ASSUME NEW i \in Current, NEW c \in Nat, NEW A \in SUBSET Current, \A j \in A : j > c,
         i > c => i \in A,
         NEW P, P = FirstOf(A, Take["fresh"]), i \notin P,
         NEW d, d = IF Cardinality(P) = Take["fresh"] THEN Max(P) ELSE 0
  PROVE  Left(i, d) + 1 <= Left(i, c)
<1>1. i \in Nat /\ Current \in SUBSET Nat /\ i # 0 /\ Take["fresh"] \in Nat \ {0}
  BY CurrentFacts
<1>2. A \in SUBSET Nat /\ IsFiniteSet(A)
  BY <1>1, PagesFacts
<1>3. /\ P \in SUBSET A /\ IsFiniteSet(P)
      /\ \A x \in A \ P : Cardinality(P) = Take["fresh"] /\ \A j \in P : j < x
  BY <1>1, <1>2, PageFacts
<1>4. CASE Cardinality(P) = Take["fresh"]
  <2>1. P # {} /\ P \in SUBSET Nat
    BY <1>1, <1>2, <1>3, <1>4, FS_EmptySet
  <2>2. d \in P /\ \A x \in P : x <= d
    BY <1>3, <1>4, <2>1, MaxFacts
  <2>3. d \in Nat /\ d > c /\ \A x \in P : c < x /\ x <= d /\ x \in Current
    BY <1>2, <1>3, <2>2
  <2>6. ASSUME NEW x \in P  PROVE x \in Current /\ x > c /\ c < x /\ ~ (x > d) /\ ~ (d < x)
    <3>1. x \in Current /\ x \in Nat /\ c < x /\ x <= d
      BY <1>1, <2>3
    <3> QED  BY <2>3, <3>1
  <2>4. CASE i > c
    <3>1. d < i
      BY <1>3, <2>2, <2>4
    <3> DEFINE S == {j \in Current : c < j /\ j < i}
               U == {j \in Current : d < j /\ j < i}
    <3>2. U \in SUBSET S /\ P \in SUBSET S /\ P \cap U = {} /\ S \in SUBSET Current
      <4>1. \A x \in Current : x \in Nat /\ (d < x => c < x)
        BY <1>1, <2>3
      <4>2. ASSUME NEW x \in P PROVE x < i
        <5>1. x \in Nat /\ x <= d
          BY <1>1, <2>3
        <5> QED  BY <1>1, <2>3, <3>1, <5>1
      <4> QED  BY <2>6, <4>1, <4>2
    <3>3. Pages(U) + 1 <= Pages(S)
      BY <1>4, <3>2, OnePageLess
    <3> QED  BY <1>1, <2>3, <2>4, <3>1, <3>3 DEF Left
  <2>5. CASE ~ (i > c)
    <3> DEFINE S == {j \in Current : j > c}
               U == {j \in Current : j > d}
               B == {j \in Current : j < i}
    <3>1. U \in SUBSET S /\ P \in SUBSET S /\ P \cap U = {} /\ S \in SUBSET Current
          /\ B \in SUBSET Current
      <4>1. \A x \in Current : x \in Nat /\ (x > d => x > c)
        BY <1>1, <2>3
      <4> QED  BY <2>6, <4>1
    <3>2. Pages(U) + 1 <= Pages(S) /\ Pages(U) \in Nat /\ Pages(S) \in Nat /\ Pages(B) \in Nat
      BY <1>4, <3>1, OnePageLess, PagesFacts
    <3>3. ~ (i > d)
      BY <1>1, <2>3, <2>5
    <3>4. Left(i, d) = Pages(U) + 1 + Pages(B) /\ Left(i, c) = Pages(S) + 1 + Pages(B)
      BY <2>5, <3>3 DEF Left
    <3> HIDE DEF S, U, B
    <3> QED  BY <3>2, <3>4
  <2> QED  BY <2>4, <2>5
<1>5. CASE Cardinality(P) # Take["fresh"]
  <2>1. ~ (i > c) /\ d = 0 /\ i > 0
    BY <1>1, <1>3, <1>5
  <2> DEFINE S == {j \in Current : j > c}
             B == {j \in Current : j < i}
  <2>2. {j \in Current : 0 < j /\ j < i} = B
    <3>1. \A j \in Current : j \in Nat /\ 0 < j
      BY CurrentFacts
    <3> QED  BY <3>1
  <2>3. Left(i, d) = Pages(B) /\ Left(i, c) = Pages(S) + 1 + Pages(B)
    BY <2>1, <2>2 DEF Left
  <2>4. Pages(S) \in Nat /\ Pages(B) \in Nat
    BY PagesFacts
  <2> HIDE DEF S, B
  <2> QED  BY <2>3, <2>4
<1> QED  BY <1>4, <1>5

-----------------------------------------------------------------------------
(* The archive is expired, and a batch knows it; rows are in work only in a *)
(* batch.                                                                   *)
ClockInv == /\ Archive \subseteq expired /\ cut \subseteq expired
            /\ queue # "none" => Archive \subseteq cut
            /\ page # NoPage => queue # "none"

(* The waiting done and the waiting left together stay within a sweep per   *)
(* fault and one.                                                           *)
WaitInv == \A i \in Ids \ expired : place[i] = "unbound" =>
             wait[i] + Left(i, cursor["fresh"]) <= (faults + 1) * FullSweep

(* The inductive invariant.                                                 *)
ReconcilerInv == TypeOK /\ ClockInv /\ WaitInv

(* run starts with its cursors reset, and no row has waited.                *)
LEMMA InitReconcilerInv == Init => ReconcilerInv
<1> SUFFICES ASSUME Init PROVE ReconcilerInv
  OBVIOUS
<1>1. 0 \in 0..MaxWait /\ 0 \in 0..MaxFaults
  BY ReconcilerAssumption DEF ReconcilerAssumption
<1>2. TypeOK
  BY <1>1, ReconcilerAssumption DEF Init, TypeOK, Places, ReconcilerAssumption
<1>3. ClockInv
  BY DEF Init, ClockInv
<1>4. WaitInv
  BY DEF Init, WaitInv
<1> QED  BY <1>2, <1>3, <1>4 DEF ReconcilerInv

(* A quote that is not expired is a current row; a cursor is a number.      *)
LEMMA CursorFacts ==
  ASSUME TypeOK, ClockInv
  PROVE  Ids \ expired \subseteq Current /\ cursor["fresh"] \in Nat
<1>1. cursor["fresh"] \in Ids \cup {0}
  BY DEF TypeOK, QueueNames
<1>2. Ids \subseteq Nat
  BY ReconcilerAssumption DEF ReconcilerAssumption
<1>3. Ids \ expired \subseteq Current
  BY DEF ClockInv, Current
<1>4. cursor["fresh"] \in Nat
  <2>1. 0 \in Nat
    OBVIOUS
  <2> QED  BY <1>1, <1>2, <2>1, Zenon
<1> QED  BY <1>3, <1>4

(* A bound on the wait grows with the faults that it allows for.            *)
LEMMA Multiples ==
  ASSUME NEW f \in Nat, NEW g \in Nat, f <= g, NEW w \in Nat
  PROVE  /\ (f + 1) * w \in Nat /\ (g + 1) * w \in Nat
         /\ w <= (f + 1) * w /\ (f + 1) * w <= (g + 1) * w
<1>1. \A a \in Nat : a * w \in Nat
  OBVIOUS
<1>2. (f + 1) * w = f * w + w
  OBVIOUS
<1>3. PICK k \in Nat : g = f + k
  <2>1. g - f \in Nat /\ g = f + (g - f)
    OBVIOUS
  <2> QED  BY <2>1
<1>4. (g + 1) * w = (f + 1) * w + k * w
  BY <1>3
<1>5. f * w \in Nat /\ k * w \in Nat
  BY <1>1
<1> QED  BY <1>2, <1>4, <1>5

(* Rows that move, age or are read again in a step that leaves the cursors: *)
(* a row keeps its count or starts from nothing.                            *)
LEMMA SameCursor ==
  ASSUME ReconcilerInv, TypeOK', expired \subseteq expired', UNCHANGED cursor,
         faults <= faults',
         \A i \in Ids : \/ place'[i] = place[i] /\ wait'[i] = wait[i]
                        \/ wait'[i] = 0
  PROVE  WaitInv'
<1> SUFFICES ASSUME NEW i \in Ids \ expired', place'[i] = "unbound"
             PROVE  wait'[i] + Left(i, cursor["fresh"]) <= (faults' + 1) * FullSweep
  BY DEF WaitInv
<1>1. i \in Current /\ cursor["fresh"] \in Nat
  BY CursorFacts DEF ReconcilerInv
<1>2. /\ Left(i, cursor["fresh"]) \in Nat /\ Left(i, cursor["fresh"]) <= FullSweep
      /\ FullSweep \in Nat
  BY <1>1, LeftBounded
<1>3. faults \in Nat /\ faults' \in Nat /\ wait[i] \in Nat
  BY ReconcilerAssumption DEF ReconcilerInv, TypeOK, ReconcilerAssumption
<1>4. (faults + 1) * FullSweep <= (faults' + 1) * FullSweep
  BY <1>2, <1>3, Multiples
<1>5. FullSweep <= (faults' + 1) * FullSweep
  BY <1>2, <1>3, Multiples
<1>6. (faults + 1) * FullSweep \in Nat /\ (faults' + 1) * FullSweep \in Nat
  BY <1>2, <1>3, Multiples
<1>7. CASE wait'[i] = 0
  BY <1>2, <1>5, <1>6, <1>7
<1>8. CASE place'[i] = place[i] /\ wait'[i] = wait[i]
  <2>1. wait[i] + Left(i, cursor["fresh"]) <= (faults + 1) * FullSweep
    BY <1>8 DEF ReconcilerInv, WaitInv
  <2> QED  BY <1>2, <1>3, <1>4, <1>6, <1>8, <2>1
<1> QED  BY <1>7, <1>8

(* A crash puts the cursor back and with it at most a sweep.                *)
LEMMA CrashKeepsWait ==
  ASSUME ReconcilerInv, Crash
  PROVE  WaitInv'
<1> SUFFICES ASSUME NEW i \in Ids \ expired, place[i] = "unbound"
             PROVE  wait[i] + Left(i, 0) <= (faults + 1 + 1) * FullSweep
  BY DEF WaitInv, Crash, QueueNames
<1>1. i \in Current /\ cursor["fresh"] \in Nat
  BY CursorFacts DEF ReconcilerInv
<1>2. /\ Left(i, cursor["fresh"]) \in Nat /\ FullSweep \in Nat
      /\ Left(i, 0) \in Nat /\ Left(i, 0) <= FullSweep
  BY <1>1, LeftBounded
<1>3. faults \in Nat /\ wait[i] \in Nat
  BY ReconcilerAssumption DEF ReconcilerInv, TypeOK, ReconcilerAssumption
<1>4. wait[i] + Left(i, cursor["fresh"]) <= (faults + 1) * FullSweep
  BY DEF ReconcilerInv, WaitInv
<1>5. /\ (faults + 1 + 1) * FullSweep = (faults + 1) * FullSweep + FullSweep
      /\ (faults + 1) * FullSweep \in Nat
  BY <1>2, <1>3
<1> QED  BY <1>2, <1>3, <1>4, <1>5

(* A page of another queue passes no current quote over.                    *)
LEMMA FreshRows ==
  ASSUME ReconcilerInv, NEW i \in Ids \ expired, place[i] = "unbound", queue # "none"
  PROVE  /\ i \in Where(queue) <=> queue = "fresh"
         /\ Where("fresh") \in SUBSET Current
<1>1. i \notin cut /\ queue \in QueueNames
  BY DEF ReconcilerInv, ClockInv, TypeOK
<1>2. Where("fresh") \in SUBSET Current
  BY DEF ReconcilerInv, ClockInv, Where, Current
<1>3. i \in Where(queue) <=> queue = "fresh"
  BY <1>1 DEF Where, QueueNames
<1> QED  BY <1>2, <1>3

(* A page of the queue itself visits the row or brings it one page nearer.  *)
LEMMA QueryKeepsWait ==
  ASSUME ReconcilerInv, QueryPage
  PROVE  WaitInv'
<1> SUFFICES ASSUME NEW i \in Ids \ expired, place[i] = "unbound"
             PROVE  wait'[i] + Left(i, cursor'["fresh"]) <= (faults + 1) * FullSweep
  BY DEF WaitInv, QueryPage
<1> DEFINE c == cursor["fresh"]
           d == cursor'["fresh"]
           A == {j \in Where("fresh") : j > cursor["fresh"]}
<1>1. i \in Current /\ c \in Nat /\ queue \in QueueNames /\ queue # "none"
  BY CursorFacts DEF ReconcilerInv, TypeOK, QueryPage
<1>2. faults \in Nat /\ wait[i] \in Nat /\ MaxWait \in Nat
  BY ReconcilerAssumption DEF ReconcilerInv, TypeOK, ReconcilerAssumption
<1>3. Left(i, c) \in Nat /\ FullSweep \in Nat
  BY <1>1, LeftBounded
<1>4. wait[i] + Left(i, c) <= (faults + 1) * FullSweep
  BY DEF ReconcilerInv, WaitInv
<1>5. wait'[i] = IF i \in Rows(queue) THEN 0
                 ELSE IF i \in Where(queue) THEN Min({wait[i] + 1, MaxWait}) ELSE wait[i]
  BY DEF QueryPage
<1>6. i \in Where(queue) <=> queue = "fresh"
  BY <1>1, FreshRows
<1>7. Rows(queue) \subseteq Where(queue)
  BY DEF Rows
<1>8. CASE queue # "fresh"
  <2>1. wait'[i] = wait[i] /\ d = c
    BY <1>5, <1>6, <1>7, <1>8 DEF QueryPage, ReconcilerInv, TypeOK, QueueNames
  <2> QED  BY <1>4, <2>1
<1>9. CASE queue = "fresh"
  <2>1. A \in SUBSET Current /\ i \in Where("fresh")
    BY <1>1, <1>6, <1>9, FreshRows
  <2>2. Rows("fresh") = FirstOf(A, Take["fresh"])
    BY DEF Rows, FirstOf
  <2>3. d = IF Cardinality(Rows("fresh")) = Take["fresh"] THEN Max(Rows("fresh")) ELSE 0
    BY <1>9 DEF QueryPage, NextCursor, ReconcilerInv, TypeOK, QueueNames
  <2>4. d \in Nat
    <3>1. A \in SUBSET Nat /\ IsFiniteSet(A) /\ Take["fresh"] \in Nat \ {0}
      BY <2>1, CurrentFacts, PagesFacts
    <3>2. Rows("fresh") \in SUBSET Nat /\ IsFiniteSet(Rows("fresh"))
      BY <2>2, <3>1, PageFacts
    <3>3. Rows("fresh") # {} => Max(Rows("fresh")) \in Nat
      BY <3>2, MaxFacts
    <3>4. Rows("fresh") = {} => Cardinality(Rows("fresh")) = 0
      BY FS_EmptySet
    <3> QED  BY <2>3, <3>1, <3>3, <3>4
  <2>5. Left(i, d) \in Nat /\ Left(i, d) <= FullSweep
    BY <1>1, <2>4, LeftBounded
  <2>6. FullSweep <= (faults + 1) * FullSweep /\ (faults + 1) * FullSweep \in Nat
    BY <1>2, <1>3
  <2>7. CASE i \in Rows("fresh")
    <3>1. wait'[i] = 0
      BY <1>5, <1>9, <2>7
    <3>2. FullSweep \in Nat
      BY <1>3
    <3> HIDE DEF c, d
    <3>3. 0 + Left(i, d) <= (faults + 1) * FullSweep
      BY <2>5, <2>6, <3>2
    <3> QED  BY <3>1, <3>3 DEF d
  <2>8. CASE i \notin Rows("fresh")
    <3>1. wait'[i] = Min({wait[i] + 1, MaxWait})
      BY <1>5, <1>9, <2>1, <2>8
    <3>2. wait'[i] <= wait[i] + 1 /\ wait'[i] \in Nat
      BY <1>2, <3>1, MinFacts
    <3>3. Left(i, d) + 1 <= Left(i, c)
      BY <1>1, <2>1, <2>2, <2>3, <2>8, PassedOver
    <3> HIDE DEF c, d
    <3>4. wait'[i] + Left(i, d) <= (faults + 1) * FullSweep
      BY <1>2, <1>3, <1>4, <2>5, <2>6, <3>2, <3>3
    <3> QED  BY <3>4 DEF d
  <2> QED  BY <2>7, <2>8
<1> QED  BY <1>8, <1>9

-----------------------------------------------------------------------------
(* What moves a row leaves the types and starts its count from nothing.     *)
LEMMA MoveFacts ==
  ASSUME TypeOK, NEW i \in Ids, NEW p \in Places, MoveTo(i, p)
  PROVE  /\ place' \in [Ids -> Places] /\ wait' \in [Ids -> 0..MaxWait]
         /\ \A j \in Ids : \/ place'[j] = place[j] /\ wait'[j] = wait[j]
                           \/ wait'[j] = 0
<1>1. 0 \in 0..MaxWait
  BY ReconcilerAssumption DEF ReconcilerAssumption
<1> QED  BY <1>1 DEF TypeOK, MoveTo

(* A row moves from place to place.                                         *)
LEMMA SuccessorsArePlaces == \A i \in Ids : Successors(i) \subseteq Places
  BY DEF Successors, Places

(* Rows are ids, and a full page has a last row.                            *)
LEMMA QueryFacts ==
  ASSUME TypeOK, NEW x \in QueueNames
  PROVE  Rows(x) \in SUBSET Ids /\ NextCursor(x) \in Ids \cup {0}
<1>1. IsFiniteSet(Ids) /\ Ids \in SUBSET Nat /\ Take[x] \in Nat \ {0}
  BY ReconcilerAssumption DEF ReconcilerAssumption
<1>2. Where(x) \in SUBSET Ids
  BY DEF Where, QueueNames
<1>3. Rows(x) \in SUBSET Ids
  BY <1>2 DEF Rows
<1>4. IsFiniteSet(Rows(x)) /\ Rows(x) \in SUBSET Nat
  BY <1>1, <1>3, FS_Subset
<1>5. Rows(x) # {} => Max(Rows(x)) \in Rows(x)
  BY <1>4, MaxFacts
<1>6. Rows(x) = {} => Cardinality(Rows(x)) = 0
  BY FS_EmptySet
<1> QED  BY <1>1, <1>3, <1>5, <1>6 DEF NextCursor

(* The invariant is inductive.                                              *)
LEMMA NextKeepsReconcilerInv ==
  ASSUME ReconcilerInv, [Next]_vars
  PROVE  ReconcilerInv'
<1>1. TypeOK /\ ClockInv /\ 0 \in 0..MaxWait /\ 0 \notin Ids
      /\ (faults < MaxFaults => faults + 1 \in 0..MaxFaults) /\ faults \in Nat
  BY ReconcilerAssumption DEF ReconcilerInv, TypeOK, ReconcilerAssumption
<1>2. ASSUME NEW i \in Ids, Insert(i) \/ Webhook(i)  PROVE ReconcilerInv'
  <2>1. PICK p \in Places : MoveTo(i, p)
    BY <1>2, SuccessorsArePlaces DEF Insert, Webhook, Places
  <2>2. UNCHANGED <<expired, cut, cursor, queue, page, faults>>
    BY <1>2 DEF Insert, Webhook
  <2>3. TypeOK'
    BY <1>1, <2>1, <2>2, MoveFacts DEF TypeOK
  <2>4. ClockInv'
    BY <1>1, <2>2 DEF ClockInv
  <2>5. WaitInv'
    BY <1>1, <2>1, <2>2, <2>3, MoveFacts, SameCursor
  <2> QED  BY <2>3, <2>4, <2>5 DEF ReconcilerInv
<1>3. ASSUME NEW i \in Ids, Age(i)  PROVE ReconcilerInv'
  <2>1. TypeOK'
    BY <1>1, <1>3 DEF TypeOK, Age
  <2>2. ClockInv'
    BY <1>1, <1>3 DEF ClockInv, Age
  <2>3. WaitInv'
    BY <1>1, <1>3, <2>1, SameCursor DEF Age
  <2> QED  BY <2>1, <2>2, <2>3 DEF ReconcilerInv
<1>4. ASSUME StartBatch  PROVE ReconcilerInv'
  <2>1. TypeOK'
    BY <1>1, <1>4 DEF TypeOK, StartBatch, QueueNames
  <2>2. ClockInv'
    BY <1>1, <1>4 DEF ClockInv, StartBatch
  <2>3. WaitInv'
    BY <1>1, <1>4, <2>1, SameCursor DEF StartBatch
  <2> QED  BY <2>1, <2>2, <2>3 DEF ReconcilerInv
<1>5. ASSUME QueryPage  PROVE ReconcilerInv'
  <2>1. queue \in QueueNames
    BY <1>1, <1>5 DEF QueryPage, TypeOK
  <2>2. Rows(queue) \in SUBSET Ids /\ NextCursor(queue) \in Ids \cup {0}
    BY <1>1, <2>1, QueryFacts
  <2>3. \A i \in Ids : Min({wait[i] + 1, MaxWait}) \in 0..MaxWait
    <3>1. ASSUME NEW i \in Ids PROVE Min({wait[i] + 1, MaxWait}) \in 0..MaxWait
      <4>1. wait[i] \in 0..MaxWait /\ MaxWait \in Nat
        BY <1>1, ReconcilerAssumption DEF TypeOK, ReconcilerAssumption
      <4>2. Min({MaxWait, wait[i] + 1}) \in {MaxWait, wait[i] + 1}
            /\ Min({MaxWait, wait[i] + 1}) <= MaxWait
        BY <4>1, MinFacts
      <4>3. {MaxWait, wait[i] + 1} = {wait[i] + 1, MaxWait}
        OBVIOUS
      <4> QED  BY <4>1, <4>2, <4>3
    <3> QED  BY <3>1
  <2>4. TypeOK'
    BY <1>1, <1>5, <2>2, <2>3 DEF TypeOK, QueryPage
  <2>5. ClockInv'
    BY <1>1, <1>5, <2>1 DEF ClockInv, QueryPage
  <2>6. WaitInv'
    BY <1>5, QueryKeepsWait
  <2> QED  BY <2>4, <2>5, <2>6 DEF ReconcilerInv
<1>6. ASSUME VisitRow  PROVE ReconcilerInv'
  <2> DEFINE i == Min(page)
  <2>1. page \in SUBSET Ids /\ page # {} /\ page' = page \ {i} /\ page # NoPage
        /\ UNCHANGED <<expired, cut, cursor, queue, faults>>
    BY <1>1, <1>6 DEF VisitRow, TypeOK
  <2>2. i \in Ids
    <3>1. page \in SUBSET Nat
      BY <2>1, ReconcilerAssumption DEF ReconcilerAssumption
    <3>2. \E m \in page : \A x \in page : m <= x
      BY <2>1, <3>1, LeastExists
    <3>3. i \in page
      BY <3>2 DEF Min
    <3> QED  BY <2>1, <3>3
  <2>3. (\E p \in Places : MoveTo(i, p)) \/ UNCHANGED <<place, wait>>
    BY <1>6, <2>2, SuccessorsArePlaces DEF VisitRow
  <2> HIDE DEF i
  <2>4. /\ place' \in [Ids -> Places] /\ wait' \in [Ids -> 0..MaxWait]
        /\ \A j \in Ids : \/ place'[j] = place[j] /\ wait'[j] = wait[j]
                          \/ wait'[j] = 0
    BY <1>1, <2>2, <2>3, MoveFacts DEF TypeOK
  <2>5. TypeOK'
    BY <1>1, <2>1, <2>4 DEF TypeOK
  <2>6. ClockInv'
    BY <1>1, <2>1 DEF ClockInv
  <2>7. WaitInv'
    BY <1>1, <2>1, <2>4, <2>5, SameCursor
  <2> QED  BY <2>5, <2>6, <2>7 DEF ReconcilerInv
<1>7. ASSUME EndPage  PROVE ReconcilerInv'
  <2>1. page # NoPage /\ queue \in QueueNames /\ queue # "none"
    BY <1>1, <1>7 DEF EndPage, NoPage, ClockInv, TypeOK
  <2>2. QueueAfter(queue) \in QueueNames \cup {"none"}
    BY <2>1 DEF QueueAfter, QueueNames
  <2>3. TypeOK'
    BY <1>1, <1>7, <2>2 DEF EndPage, TypeOK
  <2>4. ClockInv'
    BY <1>1, <1>7, <2>1 DEF EndPage, ClockInv
  <2>5. WaitInv'
    BY <1>1, <1>7, <2>3, SameCursor DEF EndPage
  <2> QED  BY <2>3, <2>4, <2>5 DEF ReconcilerInv
<1>8. ASSUME QueryFails  PROVE ReconcilerInv'
  <2>1. TypeOK'
    BY <1>1, <1>8 DEF QueryFails, TypeOK
  <2>2. ClockInv'
    BY <1>1, <1>8 DEF QueryFails, ClockInv
  <2>3. faults <= faults'
    BY <1>1, <1>8 DEF QueryFails
  <2>4. WaitInv'
    BY <1>8, <2>1, <2>3, SameCursor DEF QueryFails
  <2> QED  BY <2>1, <2>2, <2>4 DEF ReconcilerInv
<1>9. ASSUME Crash  PROVE ReconcilerInv'
  <2>1. TypeOK'
    BY <1>1, <1>9 DEF Crash, TypeOK
  <2>2. ClockInv'
    BY <1>1, <1>9 DEF Crash, ClockInv
  <2> QED  BY <1>9, <2>1, <2>2, CrashKeepsWait DEF ReconcilerInv
<1>10. ASSUME UNCHANGED vars  PROVE ReconcilerInv'
  BY <1>10 DEF vars, ReconcilerInv, TypeOK, ClockInv, WaitInv
<1> QED
  BY <1>2, <1>3, <1>4, <1>5, <1>6, <1>7, <1>8, <1>9, <1>10 DEF Next, ReconcilerStep

(* Every reachable state of the reconciler satisfies the invariant.         *)
THEOREM ReconcilerInvariant == Spec => []ReconcilerInv
  BY InitReconcilerInv, NextKeepsReconcilerInv, PTL DEF Spec

(* Rows, cursors, pages and counts always have their types; in particular   *)
(* a cursor is undefined or the id of a row.                                *)
THEOREM TypeCorrect == Spec => []TypeOK
<1>1. ReconcilerInv => TypeOK
  BY DEF ReconcilerInv
<1> QED  BY <1>1, ReconcilerInvariant, PTL

(* reconcileBatch reaches a current quote after a number of pages that      *)
(* depends on the current quotes and the faults alone, whatever the size of *)
(* the archive and whichever rows come, go and change queue meanwhile.      *)
THEOREM CurrentReached == Spec => []CurrentNotDelayed
<1>1. ReconcilerInv => CurrentNotDelayed
  <2> SUFFICES ASSUME ReconcilerInv, NEW i \in Ids \ expired, place[i] = "unbound"
               PROVE  wait[i] < (faults + 1) * SweepLength(Cardinality(Current), Take["fresh"])
    BY DEF CurrentNotDelayed, Current
  <2> DEFINE s == SweepLength(Cardinality(Current), Take["fresh"])
  <2>1. i \in Current /\ cursor["fresh"] \in Nat
    BY CursorFacts DEF ReconcilerInv
  <2>2. Left(i, cursor["fresh"]) \in Nat /\ FullSweep \in Nat
    BY <2>1, LeftBounded
  <2>3. faults \in Nat /\ wait[i] \in Nat
    BY ReconcilerAssumption DEF ReconcilerInv, TypeOK, ReconcilerAssumption
  <2>4. wait[i] + Left(i, cursor["fresh"]) <= (faults + 1) * FullSweep
    BY DEF ReconcilerInv, WaitInv
  <2>5. s = FullSweep + 1
    <3>1. s \in Int
      BY CurrentFacts DEF SweepLength
    <3> QED  BY <3>1 DEF FullSweep
  <2>6. (faults + 1) * (FullSweep + 1) = (faults + 1) * FullSweep + faults + 1
        /\ (faults + 1) * FullSweep \in Nat
    BY <2>2, <2>3
  <2> HIDE DEF s
  <2>7. wait[i] < (faults + 1) * s
    BY <2>2, <2>3, <2>4, <2>5, <2>6
  <2> QED  BY <2>7 DEF s
<1> QED  BY <1>1, ReconcilerInvariant, PTL
=============================================================================
