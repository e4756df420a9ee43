--------------------------- MODULE ScoreYearProofs ---------------------------
(***************************************************************************)
(* The order of the badge tiers and the loop behind them, for a year of    *)
(* any length.                                                             *)
(***************************************************************************)
EXTENDS ScoreYear, FiniteSetTheorems, WellFoundedInduction, TLAPS

TypeInv == snap \in Snapshots /\ month \in 0 .. YearLen

LEMMA TypeCorrect == ASSUME TotalsFit PROVE Spec => []TypeInv
  <1>1. Init => TypeInv
    BY YearAssumption DEF Init, TypeInv, Snapshots, Month
  <1>2. TypeInv /\ [EndOfMonth]_<<snap, month>> => TypeInv'
    BY YearAssumption DEF TotalsFit, TypeInv, EndOfMonth, Snapshots, Month
  <1> QED
    BY <1>1, <1>2, PTL DEF Spec

(* A run at a threshold is a run at any lower one, and at any lower length. *)
LEMMA WeakerRun ==
    ASSUME TypeInv, NEW high \in Int, NEW low \in Int, low <= high,
           NEW n \in Nat, NEW k \in Nat, k <= n, HasRun(snap, high, n)
    PROVE  HasRun(snap, low, k)
  <1> DEFINE present(lo, hi) == {m \in lo .. hi : snap[m] # Absent}
  <1>1. PICK lo \in Month, hi \in Month :
           /\ Cardinality(present(lo, hi)) >= n
           /\ \A m \in present(lo, hi) : snap[m] >= high
    BY DEF HasRun, TypeInv, Snapshots
  <1>2. Cardinality(present(lo, hi)) \in Nat
    <2>1. IsFiniteSet(lo .. hi)
      BY FS_Interval DEF Month
    <2> QED
      BY <2>1, FS_Subset, FS_CardinalityType
  <1>3. ASSUME NEW m \in present(lo, hi) PROVE snap[m] >= low
    <2>1. m \in Month /\ snap[m] \in Int
      BY YearAssumption DEF TypeInv, Snapshots, Month, Points, MAX_MONTHLY_SCORE, Absent
    <2> QED
      BY <1>1, <2>1
  <1>4. Cardinality(present(lo, hi)) >= k
    BY <1>1, <1>2
  <1>5. \A m \in present(lo, hi) : snap[m] >= low
    BY <1>3
  <1> QED
    BY <1>4, <1>5 DEF HasRun, TypeInv, Snapshots

(* lo .. hi without an absent or a low month is a run as long as it is.    *)
LEMMA WholeStretch ==
    ASSUME TypeInv, NEW lo \in Month, NEW hi \in Month, lo <= hi, NEW threshold \in Nat,
           \A m \in lo .. hi : snap[m] >= threshold
    PROVE  HasRun(snap, threshold, hi - lo + 1)
  <1> DEFINE present == {m \in lo .. hi : snap[m] # Absent}
  <1>1. present = lo .. hi
    BY DEF Absent
  <1>2. Cardinality(lo .. hi) = hi - lo + 1 /\ lo \in Int /\ hi \in Int
    <2>1. lo \in Int /\ hi \in Int
      BY DEF Month
    <2>2. Cardinality(lo .. hi) = IF lo > hi THEN 0 ELSE hi - lo + 1
      BY <2>1, FS_Interval
    <2> QED
      BY <2>1, <2>2
  <1>3. \A m \in present : snap[m] >= threshold
    OBVIOUS
  <1> HIDE DEF present
  <1>4. Cardinality(present) >= hi - lo + 1
    BY <1>1, <1>2
  <1> QED
    BY <1>3, <1>4 DEF HasRun, present, TypeInv, Snapshots

LEMMA Nested == ASSUME TiersFit PROVE TypeInv => TiersNested
  <1> SUFFICES ASSUME TypeInv PROVE TiersNested
    OBVIOUS
  <1>1. HasRun(snap, 9, GoldRun) => HasRun(snap, 8, SilverRun)
    BY WeakerRun, RunAssumption DEF TiersFit
  <1>2. HasRun(snap, 8, SilverRun) => HasRun(snap, 8, BronzeRun)
    BY WeakerRun, RunAssumption DEF TiersFit
  <1> QED
    BY <1>1, <1>2 DEF TiersNested, Earns

(* One joker month leaves one half of the year, and a half holds a run.    *)
LEMMA HalfYear == ASSUME TiersFit PROVE TypeInv => PlatinumBringsSilver
  <1> SUFFICES ASSUME TypeInv, PlatinumEligible(snap) PROVE HasRun(snap, 8, SilverRun)
    BY DEF PlatinumBringsSilver, Earns
  <1>t. /\ YearLen \in Nat /\ SilverRun \in Nat /\ SilverRun >= 1
        /\ 2 * SilverRun <= YearLen
    BY YearAssumption, RunAssumption DEF TiersFit
  <1>1. IsFiniteSet(Imperfect(snap)) /\ Cardinality(Imperfect(snap)) <= 1
    <2>1. IsFiniteSet(Month)
      BY <1>t, FS_Interval DEF Month
    <2> QED
      BY <2>1, FS_Subset DEF Imperfect, TypeInv, Snapshots, PlatinumEligible
  <1>2. ASSUME NEW p \in Imperfect(snap), NEW q \in Imperfect(snap) PROVE p = q
    <2>1. Cardinality({p}) = 1 /\ Cardinality(Imperfect(snap)) \in Nat
      BY <1>1, FS_Singleton, FS_CardinalityType
    <2>2. /\ Cardinality({p}) <= Cardinality(Imperfect(snap))
          /\ Cardinality(Imperfect(snap)) = Cardinality({p}) => Imperfect(snap) = {p}
      BY <1>1, FS_Subset
    <2>3. Imperfect(snap) = {p}
      BY <1>1, <2>1, <2>2
    <2> QED
      BY <2>3
  <1>3. ASSUME NEW m \in Month, m \notin Imperfect(snap) PROVE snap[m] >= 8
    BY <1>3 DEF Imperfect, TypeInv, Snapshots, Points, MAX_MONTHLY_SCORE, Absent
  <1>4. CASE \A m \in 1 .. SilverRun : m \notin Imperfect(snap)
    <2>1. 1 \in Month /\ SilverRun \in Month /\ 1 .. SilverRun \subseteq Month
      BY <1>t DEF Month
    <2>2. HasRun(snap, 8, SilverRun - 1 + 1)
      BY <1>t, <1>3, <1>4, <2>1, WholeStretch
    <2> QED
      BY <1>t, <2>2
  <1>5. CASE \E p \in 1 .. SilverRun : p \in Imperfect(snap)
    <2> DEFINE lo == SilverRun + 1
               hi == SilverRun + SilverRun
    <2>1. lo \in Month /\ hi \in Month /\ lo <= hi /\ lo .. hi \subseteq Month
      BY <1>t DEF Month
    <2>2. \A m \in lo .. hi : m \notin Imperfect(snap)
      BY <1>t, <1>2, <1>5
    <2>3. HasRun(snap, 8, hi - lo + 1)
      <3> HIDE DEF lo, hi
      <3> QED
        BY <1>3, <2>1, <2>2, WholeStretch
    <2> QED
      BY <1>t, <2>3
  <1> QED
    BY <1>4, <1>5

(* GOLD is never earned without SILVER, nor SILVER without BRONZE.         *)
THEOREM TiersAreNested ==
    ASSUME TotalsFit, TiersFit PROVE Spec => []TiersNested
  BY TypeCorrect, Nested, PTL

(* PLATINUM is never earned without SILVER, wherever the joker falls.      *)
THEOREM PlatinumIncludesSilver ==
    ASSUME TotalsFit, TiersFit PROVE Spec => []PlatinumBringsSilver
  BY TypeCorrect, HalfYear, PTL

-----------------------------------------------------------------------------
(* Induction over an interval, stated of a set and so usable for every     *)
(* definition: a set with the first number and with every successor has    *)
(* them all.                                                               *)

LEMMA Least ==
    ASSUME NEW T, T \subseteq Nat, T # {} PROVE \E x \in T : \A y \in T : x <= y
  <1> DEFINE R == OpToRel(<, Nat)
  <1>1. IsWellFoundedOn(R, Nat)
    BY NatLessThanWellFounded
  <1>2. ASSUME NEW x \in Nat, NEW y \in Nat, <<y, x>> \notin R PROVE x <= y
    BY <1>2 DEF OpToRel
  <1> HIDE DEF R
  <1>3. \E x \in T : \A y \in T : <<y, x>> \notin R
    BY <1>1, WFMin
  <1> QED
    BY <1>2, <1>3

LEMMA IntervalInduction ==
    ASSUME NEW a \in Nat, NEW b \in Nat, NEW S, a \in S,
           \A m \in a + 1 .. b : m - 1 \in S => m \in S
    PROVE  a .. b \subseteq S
  <1> DEFINE T == {m \in a .. b : m \notin S}
  <1> SUFFICES ASSUME T # {} PROVE FALSE
    OBVIOUS
  <1>1. PICK x \in T : \A y \in T : x <= y
    <2>1. T \subseteq Nat
      OBVIOUS
    <2> QED
      BY <2>1, Least
  <1>2. x \in a + 1 .. b
    BY <1>1
  <1>3. x - 1 \in S
    <2>1. x - 1 \notin T /\ x - 1 \in a .. b
      BY <1>1, <1>2
    <2> QED
      BY <2>1
  <1> QED
    BY <1>1, <1>2, <1>3

-----------------------------------------------------------------------------
(* The loop's counter, month by month.                                     *)

After(s, threshold, v, m) ==
    IF s[m] = Absent THEN v ELSE IF s[m] >= threshold THEN v + 1 ELSE 0

(* f is the counter over the first n months.                               *)
Counts(f, n, s, threshold) ==
    /\ f[0] = 0
    /\ \A m \in 1 .. n : f[m] = After(s, threshold, f[m - 1], m)

LEMMA CountsExists ==
    ASSUME NEW s, NEW threshold
    PROVE  \E f \in [0 .. YearLen -> Nat] : Counts(f, YearLen, s, threshold)
  <1> DEFINE S == {n \in Nat : \E f \in [0 .. n -> Nat] : Counts(f, n, s, threshold)}
  <1>t. YearLen \in Nat
    BY YearAssumption
  <1>1. 0 \in S
    <2>1. /\ [m \in 0 .. 0 |-> 0] \in [0 .. 0 -> Nat]
          /\ Counts([m \in 0 .. 0 |-> 0], 0, s, threshold)
      BY DEF Counts
    <2> QED
      BY <2>1
  <1>2. ASSUME NEW n \in 1 .. YearLen, n - 1 \in S PROVE n \in S
    <2>1. PICK f \in [0 .. n - 1 -> Nat] : Counts(f, n - 1, s, threshold)
      BY <1>2
    <2> DEFINE last == After(s, threshold, f[n - 1], n)
               g == [m \in 0 .. n |-> IF m = n THEN last ELSE f[m]]
    <2>2. last \in Nat
      BY <1>t DEF After
    <2>3. g \in [0 .. n -> Nat]
      <3> HIDE DEF last
      <3> QED
        BY <1>t, <2>2
    <2>4. \A m \in 0 .. n - 1 : g[m] = f[m]
      BY <1>t
    <2>5. g[n] = last
      BY <1>t
    <2> HIDE DEF g
    <2>6. g[0] = 0
      BY <1>t, <2>1, <2>4 DEF Counts
    <2>7. ASSUME NEW m \in 1 .. n PROVE g[m] = After(s, threshold, g[m - 1], m)
      <3>1. m - 1 \in 0 .. n - 1
        BY <1>t
      <3>2. CASE m = n
        BY <2>4, <2>5, <3>1, <3>2
      <3>3. CASE m # n
        <4>1. m \in 1 .. n - 1
          BY <1>t, <3>3
        <4> QED
          BY <2>1, <2>4, <3>1, <4>1 DEF Counts
      <3> QED
        BY <3>2, <3>3
    <2>8. Counts(g, n, s, threshold)
      BY <2>6, <2>7 DEF Counts
    <2> QED
      BY <1>t, <2>3, <2>8
  <1> HIDE DEF S
  <1>3. 0 .. YearLen \subseteq S
    BY <1>t, <1>1, <1>2, IntervalInduction
  <1> QED
    BY <1>t, <1>3 DEF S

(* Cur is that counter: the recursive definition has a solution.           *)
LEMMA CurCounts ==
    ASSUME NEW s, NEW threshold
    PROVE  Counts(Cur(s, threshold), YearLen, s, threshold)
  <1> DEFINE Solves(g) ==
         g = [m \in 0 .. YearLen |->
                 IF m = 0 THEN 0
                 ELSE IF s[m] = Absent THEN g[m - 1]
                 ELSE IF s[m] >= threshold THEN g[m - 1] + 1
                 ELSE 0]
  <1>t. YearLen \in Nat
    BY YearAssumption
  <1>1. Cur(s, threshold) = CHOOSE g : Solves(g)
    BY DEF Cur
  <1>2. PICK f \in [0 .. YearLen -> Nat] : Counts(f, YearLen, s, threshold)
    BY CountsExists
  <1>3. Solves(f)
    BY <1>2 DEF Counts, After
  <1>4. Solves(Cur(s, threshold))
    <2> HIDE DEF Solves
    <2> QED
      BY <1>1, <1>3, Zenon
  <1> QED
    <2> DEFINE c == Cur(s, threshold)
    <2>1. Solves(c)
      BY <1>4
    <2> HIDE DEF c
    <2>2. Counts(c, YearLen, s, threshold)
      BY <1>t, <2>1 DEF Counts, After
    <2> QED
      BY <2>2 DEF c

(* The snapshots there are of the months lo to hi.                         *)
Present(s, lo, hi) == {m \in lo .. hi : s[m] # Absent}
Counted(s, lo, hi) == Cardinality(Present(s, lo, hi))

LEMMA PresentStep ==
    ASSUME NEW s, NEW lo \in Month, NEW m \in Month, lo <= m
    PROVE  /\ Counted(s, lo, m - 1) \in Nat
           /\ s[m] = Absent => /\ Present(s, lo, m) = Present(s, lo, m - 1)
                               /\ Counted(s, lo, m) = Counted(s, lo, m - 1)
           /\ s[m] # Absent => /\ Present(s, lo, m) = Present(s, lo, m - 1) \cup {m}
                               /\ Counted(s, lo, m) = Counted(s, lo, m - 1) + 1
  <1>t. lo \in Nat /\ m \in Nat /\ m - 1 \in Int /\ m \in lo .. m
    BY YearAssumption DEF Month
  <1>1. IsFiniteSet(Present(s, lo, m - 1))
    <2>1. IsFiniteSet(lo .. m - 1)
      BY <1>t, FS_Interval
    <2> QED
      BY <2>1, FS_Subset DEF Present
  <1>2. lo .. m = (lo .. m - 1) \cup {m} /\ m \notin Present(s, lo, m - 1)
    BY <1>t DEF Present
  <1>3. s[m] = Absent => Present(s, lo, m) = Present(s, lo, m - 1)
    BY <1>2 DEF Present
  <1>4. s[m] # Absent => Present(s, lo, m) = Present(s, lo, m - 1) \cup {m}
    BY <1>2 DEF Present
  <1>5. Cardinality(Present(s, lo, m - 1) \cup {m}) = Cardinality(Present(s, lo, m - 1)) + 1
    BY <1>1, <1>2, FS_AddElement
  <1>6. Counted(s, lo, m - 1) \in Nat
    BY <1>1, FS_CardinalityType DEF Counted
  <1> QED
    BY <1>3, <1>4, <1>5, <1>6 DEF Counted

LEMMA NonePresent ==
    ASSUME NEW s, NEW lo \in Int, NEW hi \in Int, hi < lo
    PROVE  Present(s, lo, hi) = {} /\ Counted(s, lo, hi) = 0
  <1>1. Present(s, lo, hi) = {}
    BY DEF Present
  <1> QED
    BY <1>1, FS_EmptySet DEF Counted

(* The counter is the length of a run that ends in the month it has come   *)
(* to: lo is the month after the last low one.                             *)
IsRun(s, threshold, lo, hi) == \A p \in Present(s, lo, hi) : s[p] >= threshold

LEMMA CurIsARun ==
    ASSUME NEW s \in Snapshots, NEW threshold
    PROVE  \A m \in 0 .. YearLen : \E lo \in 1 .. m + 1 :
              /\ Counted(s, lo, m) = Cur(s, threshold)[m]
              /\ IsRun(s, threshold, lo, m)
  <1> DEFINE cur == Cur(s, threshold)
             S == {m \in Nat : \E lo \in 1 .. m + 1 : /\ Counted(s, lo, m) = cur[m]
                                                      /\ IsRun(s, threshold, lo, m)}
  <1>c. Counts(cur, YearLen, s, threshold) /\ YearLen \in Nat
    BY CurCounts, YearAssumption
  <1> HIDE DEF cur
  <1>1. 0 \in S
    <2>1. Present(s, 1, 0) = {} /\ Counted(s, 1, 0) = 0
      BY NonePresent
    <2>2. Counted(s, 1, 0) = cur[0] /\ IsRun(s, threshold, 1, 0)
      BY <1>c, <2>1 DEF Counts, IsRun
    <2> QED
      BY <2>2
  <1>2. ASSUME NEW m \in 1 .. YearLen, m - 1 \in S PROVE m \in S
    <2>1. PICK lo \in 1 .. m : /\ Counted(s, lo, m - 1) = cur[m - 1]
                               /\ IsRun(s, threshold, lo, m - 1)
      BY <1>c, <1>2
    <2>2. lo \in Month /\ m \in Month /\ lo <= m /\ m \in Nat
      BY <1>c DEF Month
    <2>3. cur[m] = After(s, threshold, cur[m - 1], m)
      BY <1>c DEF Counts
    <2>4. CASE s[m] = Absent
      <3>1. Counted(s, lo, m) = cur[m] /\ IsRun(s, threshold, lo, m)
        BY <2>1, <2>2, <2>3, <2>4, PresentStep DEF After, IsRun
      <3> QED
        BY <2>2, <3>1
    <2>5. CASE s[m] # Absent /\ s[m] >= threshold
      <3>1. /\ Present(s, lo, m) = Present(s, lo, m - 1) \cup {m}
            /\ Counted(s, lo, m) = Counted(s, lo, m - 1) + 1
        BY <2>2, <2>5, PresentStep
      <3>2. Counted(s, lo, m) = cur[m]
        BY <2>1, <2>3, <2>5, <3>1 DEF After
      <3>3. IsRun(s, threshold, lo, m)
        BY <2>1, <2>5, <3>1 DEF IsRun
      <3> QED
        BY <2>2, <3>2, <3>3
    <2>6. CASE s[m] # Absent /\ ~(s[m] >= threshold)
      <3>1. Present(s, m + 1, m) = {} /\ Counted(s, m + 1, m) = 0
        BY <2>2, NonePresent
      <3>2. cur[m] = 0
        BY <2>3, <2>6 DEF After
      <3>3. Counted(s, m + 1, m) = cur[m] /\ IsRun(s, threshold, m + 1, m)
        BY <3>1, <3>2 DEF IsRun
      <3> QED
        BY <2>2, <3>3
    <2> QED
      BY <2>4, <2>5, <2>6
  <1> HIDE DEF S
  <1>3. 0 .. YearLen \subseteq S
    BY <1>c, <1>1, <1>2, IntervalInduction
  <1> QED
    BY <1>3 DEF S, cur

LEMMA CurType ==
    ASSUME NEW s \in Snapshots, NEW threshold
    PROVE  \A m \in 0 .. YearLen : Cur(s, threshold)[m] \in 0 .. m
  <1> DEFINE cur == Cur(s, threshold)
             S == {m \in Nat : cur[m] \in 0 .. m}
  <1>c. Counts(cur, YearLen, s, threshold) /\ YearLen \in Nat
    BY CurCounts, YearAssumption
  <1> HIDE DEF cur
  <1>1. 0 \in S
    BY <1>c DEF Counts
  <1>2. ASSUME NEW m \in 1 .. YearLen, m - 1 \in S PROVE m \in S
    <2>1. cur[m] = After(s, threshold, cur[m - 1], m)
      BY <1>c DEF Counts
    <2> QED
      BY <1>c, <1>2, <2>1 DEF After
  <1> HIDE DEF S
  <1>3. 0 .. YearLen \subseteq S
    BY <1>c, <1>1, <1>2, IntervalInduction
  <1> QED
    BY <1>3 DEF S, cur

(* And no run that ends there is longer.                                   *)
LEMMA CurIsLongest ==
    ASSUME NEW s \in Snapshots, NEW threshold, NEW lo \in Month, NEW hi \in Month,
           lo <= hi, IsRun(s, threshold, lo, hi)
    PROVE  Counted(s, lo, hi) <= Cur(s, threshold)[hi]
  <1> DEFINE cur == Cur(s, threshold)
             S == {m \in Nat : m <= hi => Counted(s, lo, m) <= cur[m]}
  <1>c. Counts(cur, YearLen, s, threshold) /\ YearLen \in Nat
    BY CurCounts, YearAssumption
  <1>m. \A m \in 0 .. YearLen : cur[m] \in Nat
    BY CurType
  <1>t. lo \in Nat \ {0} /\ hi \in Nat /\ lo <= YearLen /\ hi <= YearLen
    BY <1>c DEF Month
  <1> HIDE DEF cur
  <1>1. lo - 1 \in S
    <2>1. Counted(s, lo, lo - 1) = 0
      BY <1>t, NonePresent
    <2>2. cur[lo - 1] \in Nat
      BY <1>c, <1>m, <1>t
    <2> QED
      BY <1>t, <2>1, <2>2
  <1>2. ASSUME NEW m \in lo - 1 + 1 .. hi, m - 1 \in S PROVE m \in S
    <2>1. m \in Month /\ lo <= m /\ m \in Nat /\ m \in 1 .. YearLen
      BY <1>c, <1>t DEF Month
    <2>2. cur[m] = After(s, threshold, cur[m - 1], m)
      BY <1>c, <2>1 DEF Counts
    <2>3. Counted(s, lo, m - 1) <= cur[m - 1] /\ cur[m - 1] \in Nat
      <3>1. m - 1 <= hi /\ m - 1 \in 0 .. YearLen
        BY <1>c, <1>t, <2>1
      <3>2. Counted(s, lo, m - 1) <= cur[m - 1]
        <4>1. m - 1 \in S
          BY <1>2
        <4> QED
          BY <3>1, <4>1, Zenon
      <3> QED
        BY <1>m, <3>1, <3>2
    <2>4. s[m] # Absent => s[m] >= threshold
      BY <1>t, <2>1 DEF IsRun, Present
    <2>5. Counted(s, lo, m) <= cur[m]
      BY <2>1, <2>2, <2>3, <2>4, PresentStep DEF After
    <2> QED
      BY <2>1, <2>5
  <1> HIDE DEF S
  <1>3. lo - 1 .. hi \subseteq S
    <2>1. lo - 1 \in Nat /\ hi \in Nat
      BY <1>t
    <2>2. \A m \in lo - 1 + 1 .. hi : m - 1 \in S => m \in S
      BY <1>2
    <2> DEFINE a == lo - 1
    <2> HIDE DEF a
    <2>3. a .. hi \subseteq S
      BY <1>1, <2>1, <2>2, IntervalInduction DEF a
    <2> QED
      BY <2>3 DEF a
  <1> QED
    BY <1>t, <1>3 DEF S, cur

(* Max is the largest element of a bounded set of numbers.                 *)
LEMMA MaxOfBounded ==
    ASSUME NEW T, T \subseteq Nat, T # {}, NEW bound \in Nat, \A x \in T : x <= bound
    PROVE  Max(T) \in T /\ \A x \in T : x <= Max(T)
  <1> DEFINE Bounds == {b \in Nat : \A x \in T : x <= b}
  <1>1. PICK b \in Bounds : \A c \in Bounds : b <= c
    <2>1. Bounds \subseteq Nat /\ Bounds # {}
      OBVIOUS
    <2> HIDE DEF Bounds
    <2> QED
      BY <2>1, Least
  <1>2. b \in T
    <2> SUFFICES ASSUME b \notin T PROVE FALSE
      OBVIOUS
    <2>1. b \in Nat /\ \A x \in T : x \in Nat /\ x <= b - 1
      BY <1>1
    <2>2. b - 1 \in Nat
      <3>1. PICK x \in T : x \in Nat /\ x <= b - 1
        BY <2>1
      <3> QED
        BY <2>1, <3>1
    <2>3. b - 1 \in Bounds
      BY <2>1, <2>2
    <2>4. b <= b - 1
      <3> HIDE DEF Bounds
      <3> QED
        BY <1>1, <2>3
    <2> QED
      BY <2>1, <2>4
  <1>3. \E x \in T : \A y \in T : x >= y
    BY <1>1, <1>2
  <1>4. Max(T) \in T /\ \A y \in T : Max(T) >= y
    BY <1>3, Zenon DEF Max
  <1> QED
    BY <1>4

(* What the loop makes of any snapshots at any threshold: the badges of     *)
(* ScoreRules, stated with HasRun, are the ones the code awards             *)
(* (score.service.ts:21-33, 53-63).                                        *)
THEOREM LoopIsRight ==
    ASSUME NEW s \in Snapshots, NEW threshold, NEW n \in Month
    PROVE  MaxConsecutive(s, threshold) >= n <=> HasRun(s, threshold, n)
  <1> DEFINE cur == Cur(s, threshold)
             T == {cur[m] : m \in 0 .. YearLen}
  <1>t. YearLen \in Nat /\ n \in Nat /\ n > 0 /\ 0 \in 0 .. YearLen
    BY YearAssumption DEF Month
  <1>m. \A m \in 0 .. YearLen : cur[m] \in 0 .. m
    BY CurType
  <1>r. \A m \in 0 .. YearLen : \E lo \in 1 .. m + 1 :
           /\ Counted(s, lo, m) = cur[m]
           /\ IsRun(s, threshold, lo, m)
    BY CurIsARun
  <1>l. \A lo, hi \in Month : lo <= hi /\ IsRun(s, threshold, lo, hi)
                                => Counted(s, lo, hi) <= cur[hi]
    BY CurIsLongest
  <1>d. MaxConsecutive(s, threshold) = Max(T)
    BY DEF MaxConsecutive
  <1>h. HasRun(s, threshold, n) <=>
           \E lo, hi \in Month : Counted(s, lo, hi) >= n /\ IsRun(s, threshold, lo, hi)
    BY DEF Snapshots, HasRun, Counted, IsRun, Present
  <1> HIDE DEF cur
  <1>1. Max(T) \in T /\ \A x \in T : x <= Max(T)
    <2>1. T \subseteq Nat /\ T # {} /\ \A x \in T : x <= YearLen
      BY <1>t, <1>m
    <2> HIDE DEF T
    <2> QED
      BY <1>t, <2>1, MaxOfBounded
  <1>2. ASSUME Max(T) >= n PROVE HasRun(s, threshold, n)
    <2>1. PICK m \in 0 .. YearLen : Max(T) = cur[m]
      BY <1>1
    <2>2. PICK lo \in 1 .. m + 1 : Counted(s, lo, m) = cur[m] /\ IsRun(s, threshold, lo, m)
      BY <1>r
    <2>3. Counted(s, lo, m) >= n
      BY <1>2, <2>1, <2>2
    <2>4. lo # m + 1
      <3> SUFFICES ASSUME lo = m + 1 PROVE FALSE
        OBVIOUS
      <3>1. Counted(s, lo, m) = 0
        BY NonePresent
      <3> QED
        BY <1>t, <2>3, <3>1
    <2>5. lo \in Month /\ m \in Month
      BY <1>t, <2>4 DEF Month
    <2> QED
      BY <1>h, <2>2, <2>3, <2>5
  <1>3. ASSUME HasRun(s, threshold, n) PROVE Max(T) >= n
    <2>1. PICK lo \in Month, hi \in Month :
             Counted(s, lo, hi) >= n /\ IsRun(s, threshold, lo, hi)
      BY <1>3, <1>h
    <2>2. lo \in Nat /\ hi \in Nat /\ hi \in 0 .. YearLen
      BY <1>t DEF Month
    <2>3. lo <= hi
      <3> SUFFICES ASSUME hi < lo PROVE FALSE
        BY <2>2
      <3>1. Counted(s, lo, hi) = 0
        BY <2>2, NonePresent
      <3> QED
        BY <1>t, <2>1, <3>1
    <2>4. n <= cur[hi]
      <3>1. Counted(s, lo, hi) <= cur[hi]
        BY <1>l, <2>1, <2>3
      <3>2. Counted(s, lo, hi) \in Int /\ cur[hi] \in Int
        <4>1. IsFiniteSet(lo .. hi)
          BY <2>2, FS_Interval
        <4>2. Counted(s, lo, hi) \in Nat
          BY <4>1, FS_Subset, FS_CardinalityType DEF Counted, Present
        <4> QED
          BY <1>m, <2>2, <4>2
      <3> QED
        BY <1>t, <2>1, <3>1, <3>2
    <2>5. cur[hi] <= Max(T) /\ cur[hi] \in Nat /\ Max(T) \in Nat
      BY <1>1, <1>m, <2>2
    <2> QED
      BY <1>t, <2>4, <2>5
  <1> QED
    BY <1>d, <1>2, <1>3

(* The single pass of maxConsecutive finds a run of n months exactly when  *)
(* there is one, in a year of any length and whatever snapshots are        *)
(* missing (score.service.ts:21-33).                                       *)
THEOREM LoopFindsEveryRun ==
    ASSUME TotalsFit PROVE Spec => []LoopFindsRuns
  <1>1. TypeInv => LoopFindsRuns
    BY LoopIsRight DEF TypeInv, LoopFindsRuns, Month
  <1> QED
    BY <1>1, TypeCorrect, PTL
=============================================================================
