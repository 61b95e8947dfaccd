------------------------ MODULE CurveMonitor_proofs ------------------------
(***************************************************************************)
(* Theorems about the curve mode loop and the arithmetic of FanCurve, for  *)
(* every number of fans and levels, every temperature range, every gap and *)
(* every size of the smoothing window.                                     *)
(*                                                                         *)
(* Two definitions are recursive, the ramp-down curve and the sum of the   *)
(* samples.  What they compute for every input follows from the least      *)
(* number principle: a set of numbers that holds 0 and, with every number, *)
(* the next one, holds all.                                                *)
(***************************************************************************)
EXTENDS CurveMonitor, TLAPS, FiniteSetTheorems, SequenceTheorems,
        WellFoundedInduction

-----------------------------------------------------------------------------
\* Every non-empty set of natural numbers has a least element.
LEMMA LeastElement ==
    ASSUME NEW T, T \subseteq Nat, T # {}
    PROVE  \E m \in T : \A k \in T : m <= k
<1>1. PICK m \in T : \A k \in T : ~(<<k, m>> \in OpToRel(<, Nat))
  BY NatLessThanWellFounded, WFMin, Zenon
<1>2. ASSUME NEW k \in T PROVE m <= k
  <2>1. k \in Nat /\ m \in Nat
    OBVIOUS
  <2>2. <<k, m>> \in Nat \X Nat => ~(k < m)
    BY <1>1 DEF OpToRel
  <2> QED
    BY <2>1, <2>2
<1> QED
  BY <1>2

LEMMA Induction ==
    ASSUME NEW T, 0 \in T, \A n \in Nat : n \in T => n + 1 \in T
    PROVE  Nat \subseteq T
<1> DEFINE M == Nat \ T
<1>1. SUFFICES ASSUME M # {} PROVE FALSE
  OBVIOUS
<1>2. PICK m \in M : \A k \in M : m <= k
  <2> M \subseteq Nat
    OBVIOUS
  <2> HIDE DEF M
  <2> QED
    BY <1>1, LeastElement
<1>3. m # 0 /\ m - 1 \in Nat
  OBVIOUS
<1>4. m - 1 \in T
  BY <1>2, <1>3
<1> QED
  BY <1>3, <1>4, m = (m - 1) + 1

-----------------------------------------------------------------------------
(***************************************************************************)
(* The ramp-down curve                                                     *)
(***************************************************************************)
\* Point i of the ramp-down curve when `floor` is the point before.
DownPoint(up, i, floor) ==
    LET below   == SatSub(up[i], 1)
        raised  == Greatest(Least(SatSub(up[i], RampdownGap), below), floor)
        capped  == IF up[i] > 0 /\ raised >= up[i] THEN up[i] - 1 ELSE raised
    IN  IF i > 1 /\ capped < floor THEN Least(floor, below) ELSE capped

Before(down, i) == IF i = 1 THEN 0 ELSE down[i - 1]

\* The first n points of the ramp-down curve.
DownTo(up, n, down) ==
    /\ down \in [1 .. n -> Temp]
    /\ \A i \in 1 .. n : down[i] = DownPoint(up, i, Before(down, i))

LEMMA DownPointType ==
    ASSUME NEW up \in Ramp, NEW i \in 1 .. NLevels, NEW floor \in Temp
    PROVE  DownPoint(up, i, floor) \in Temp
<1>1. up[i] \in 0 .. MaxTemp /\ MaxTemp \in Nat /\ RampdownGap \in Nat
  BY CurveAssumption DEF Ramp, Temp
<1> QED
  BY <1>1 DEF DownPoint, SatSub, Least, Greatest, Temp

LEMMA DownExists ==
    ASSUME NEW up \in Ramp
    PROVE  \E down : DownTo(up, NLevels, down)
<1> DEFINE T == {n \in Nat : n <= NLevels => \E down : DownTo(up, n, down)}
<1>1. 0 \in T
  <2>1. DownTo(up, 0, [i \in 1 .. 0 |-> 0])
    BY DEF DownTo
  <2> QED
    BY <2>1
<1>2. ASSUME NEW n \in Nat, n \in T PROVE n + 1 \in T
  <2>1. SUFFICES ASSUME n + 1 <= NLevels PROVE \E down : DownTo(up, n + 1, down)
    OBVIOUS
  <2>0. NLevels \in Nat /\ MaxTemp \in Nat
    BY CurveAssumption
  <2>2. PICK d : DownTo(up, n, d)
    BY <1>2, <2>1, <2>0
  <2> DEFINE e == [i \in 1 .. n + 1 |-> IF i = n + 1 THEN DownPoint(up, i, Before(d, i))
                                        ELSE d[i]]
  <2>3. ASSUME NEW i \in 1 .. n + 1 PROVE Before(d, i) \in Temp /\ Before(e, i) = Before(d, i)
    BY <2>0, <2>2 DEF Before, DownTo, Temp
  <2>4. ASSUME NEW i \in 1 .. n + 1
        PROVE  e[i] \in Temp /\ e[i] = DownPoint(up, i, Before(e, i))
    <3>1. CASE i = n + 1
      <4>1. DownPoint(up, i, Before(d, i)) \in Temp
        <5>1. i \in 1 .. NLevels
          BY <2>0, <2>1, <3>1
        <5>2. Before(d, i) \in Temp
          BY <2>3
        <5> QED
          BY <5>1, <5>2, DownPointType
      <4> QED
        BY <2>3, <3>1, <4>1
    <3>2. CASE i \in 1 .. n
      BY <2>2, <2>3, <3>2 DEF DownTo
    <3> QED
      BY <3>1, <3>2
  <2>5. DownTo(up, n + 1, e)
    BY <2>4 DEF DownTo
  <2> QED
    BY <2>5
<1>3. NLevels \in T
  <2> HIDE DEF T
  <2> QED
    BY <1>1, <1>2, Induction, CurveAssumption
<1> QED
  BY <1>3, CurveAssumption

\* The ramp-down curve is a curve, and every point of it is what the loop of
\* derive_rampdown computes from the point before.
LEMMA DeriveRampdownIs ==
    ASSUME NEW up \in Ramp
    PROVE  DownTo(up, NLevels, DeriveRampdown(up))
<1> DEFINE D == DeriveRampdown(up)
<1>1. PICK d : DownTo(up, NLevels, d)
  BY DownExists
<1>2. d = [i \in 1 .. NLevels |->
            LET below   == SatSub(up[i], 1)
                floor   == IF i = 1 THEN 0 ELSE d[i - 1]
                raised  == Greatest(Least(SatSub(up[i], RampdownGap), below), floor)
                capped  == IF up[i] > 0 /\ raised >= up[i] THEN up[i] - 1 ELSE raised
            IN  IF i > 1 /\ capped < floor THEN Least(floor, below) ELSE capped]
  BY <1>1 DEF DownTo, DownPoint, Before
<1>3. D = [i \in 1 .. NLevels |->
            LET below   == SatSub(up[i], 1)
                floor   == IF i = 1 THEN 0 ELSE D[i - 1]
                raised  == Greatest(Least(SatSub(up[i], RampdownGap), below), floor)
                capped  == IF up[i] > 0 /\ raised >= up[i] THEN up[i] - 1 ELSE raised
            IN  IF i > 1 /\ capped < floor THEN Least(floor, below) ELSE capped]
  BY <1>2, Zenon DEF DeriveRampdown
<1>4. \A i \in 1 .. NLevels : D[i] = DownPoint(up, i, Before(D, i))
  <2> HIDE DEF D
  <2> QED
    BY <1>3 DEF DownPoint, Before
<1>5. \A i \in 1 .. NLevels : D[i] \in Temp
  <2> DEFINE T == {n \in Nat : n \in 1 .. NLevels => D[n] \in Temp}
  <2> HIDE DEF D
  <2>1. ASSUME NEW n \in Nat, n \in T PROVE n + 1 \in T
    <3>1. SUFFICES ASSUME n + 1 \in 1 .. NLevels PROVE D[n + 1] \in Temp
      OBVIOUS
    <3>2. Before(D, n + 1) \in Temp
      BY <2>1, <3>1, CurveAssumption DEF Before, Temp
    <3> QED
      BY <1>4, <3>1, <3>2, DownPointType
  <2>2. 0 \in T
    OBVIOUS
  <2>3. Nat \subseteq T
    <3> HIDE DEF T
    <3> QED
      BY <2>1, <2>2, Induction
  <2> QED
    BY <2>3
<1> QED
  BY <1>3, <1>4, <1>5 DEF DownTo

\* Strictly rising, as the built-in curves are and edits keep it.
Rising(up) == \A i \in 1 .. NLevels - 1 : up[i] < up[i + 1]

\* Derived from a rising curve, the ramp-down curve never falls and stays below
\* the ramp-up curve except where that is 0 (curve.rs: derive_rampdown).
LEMMA DeriveRampdownSound ==
    ASSUME NEW up \in Ramp, Rising(up)
    PROVE  /\ \A i \in 1 .. NLevels - 1 : DeriveRampdown(up)[i] <= DeriveRampdown(up)[i + 1]
           /\ \A i \in 1 .. NLevels : DeriveRampdown(up)[i] <= SatSub(up[i], 1)
<1> DEFINE D == DeriveRampdown(up)
<1>1. DownTo(up, NLevels, D)
  BY DeriveRampdownIs
<1> HIDE DEF D
<1>2. NLevels \in Nat \ {0} /\ MaxTemp \in Nat /\ RampdownGap \in Nat
  BY CurveAssumption
<1>3. \A i \in 1 .. NLevels : up[i] \in 0 .. MaxTemp /\ D[i] \in 0 .. MaxTemp
  BY <1>1 DEF Ramp, DownTo, Temp
\* A point is between the one before and the ramp-up point.
<1>4. ASSUME NEW i \in 1 .. NLevels, NEW floor \in Nat, floor <= SatSub(up[i], 1)
      PROVE  floor <= DownPoint(up, i, floor) /\ DownPoint(up, i, floor) <= SatSub(up[i], 1)
  BY <1>2, <1>3, <1>4 DEF DownPoint, SatSub, Greatest, Least
<1>5. \A i \in 1 .. NLevels : D[i] <= SatSub(up[i], 1)
  <2> DEFINE T == {n \in Nat : n \in 1 .. NLevels => D[n] <= SatSub(up[n], 1)}
  <2>1. ASSUME NEW n \in Nat, n \in T PROVE n + 1 \in T
    <3>1. SUFFICES ASSUME n + 1 \in 1 .. NLevels PROVE D[n + 1] <= SatSub(up[n + 1], 1)
      OBVIOUS
    <3>2. Before(D, n + 1) \in Nat /\ Before(D, n + 1) <= SatSub(up[n + 1], 1)
      BY <1>2, <1>3, <2>1, <3>1 DEF Before, SatSub, Greatest, Rising
    <3> QED
      BY <1>1, <1>4, <3>1, <3>2 DEF DownTo
  <2>2. 0 \in T
    OBVIOUS
  <2>3. Nat \subseteq T
    <3> HIDE DEF T
    <3> QED
      BY <2>1, <2>2, Induction
  <2> QED
    BY <2>3
<1>6. ASSUME NEW i \in 1 .. NLevels - 1 PROVE D[i] <= D[i + 1]
  <2>1. i \in 1 .. NLevels /\ i + 1 \in 1 .. NLevels /\ i + 1 # 1
    BY <1>2
  <2>2. D[i] <= SatSub(up[i + 1], 1)
    BY <1>3, <1>5, <2>1 DEF SatSub, Greatest, Rising
  <2>3. D[i + 1] = DownPoint(up, i + 1, D[i])
    BY <1>1, <2>1 DEF DownTo, Before
  <2> QED
    BY <1>3, <1>4, <2>1, <2>2, <2>3
<1> QED
  BY <1>5, <1>6 DEF D

-----------------------------------------------------------------------------
(***************************************************************************)
(* The average of the samples                                              *)
(***************************************************************************)
Some(S) == CHOOSE x \in S : TRUE

\* What the sum g over the positions S of s is made of.
Summand(s, g, S) == IF S = {} THEN 0 ELSE s[Some(S)] + g[S \ {Some(S)}]

Positions(s, n) == {S \in SUBSET DOMAIN s : Cardinality(S) <= n}

SumsUpTo(s, n, g) ==
    /\ g \in [Positions(s, n) -> Nat]
    /\ \A S \in Positions(s, n) : g[S] = Summand(s, g, S)

LEMMA UpToFinite ==
    ASSUME NEW n \in Nat
    PROVE  IsFiniteSet(1 .. n) /\ Cardinality(1 .. n) = n
<1>1. 1 \in Int /\ n \in Int
  OBVIOUS
<1>2. /\ IsFiniteSet(1 .. n)
      /\ Cardinality(1 .. n) = IF 1 > n THEN 0 ELSE n - 1 + 1
  BY <1>1, FS_Interval
<1> QED
  BY <1>2

LEMMA PositionsFinite ==
    ASSUME NEW t \in Seq(Nat), NEW S \in SUBSET DOMAIN t
    PROVE  IsFiniteSet(S) /\ Cardinality(S) \in Nat /\ Cardinality(S) <= Len(t)
<1>1. Len(t) \in Nat /\ DOMAIN t = 1 .. Len(t)
  OBVIOUS
<1>2. IsFiniteSet(DOMAIN t) /\ Cardinality(DOMAIN t) = Len(t)
  BY <1>1, UpToFinite
<1>3. IsFiniteSet(S) /\ Cardinality(S) <= Cardinality(DOMAIN t)
  BY <1>2, FS_Subset
<1> QED
  BY <1>2, <1>3, FS_CardinalityType

LEMMA SmallerSet ==
    ASSUME NEW t \in Seq(Nat), NEW n \in Nat, NEW S \in Positions(t, n + 1), S # {}
    PROVE  /\ Some(S) \in DOMAIN t
           /\ S \ {Some(S)} \in Positions(t, n)
           /\ Cardinality(S) \in Nat \ {0}
           /\ Cardinality(S \ {Some(S)}) = Cardinality(S) - 1
<1>1. Some(S) \in S
  BY DEF Some
<1>3. S \in SUBSET DOMAIN t /\ Cardinality(S) <= n + 1
  BY DEF Positions
<1>4. IsFiniteSet(S)
  BY <1>3, PositionsFinite
<1>5. Cardinality(S) \in Nat /\ Cardinality(S \ {Some(S)}) = Cardinality(S) - 1
  BY <1>1, <1>4, FS_RemoveElement, FS_CardinalityType
<1>6. Cardinality(S) # 0
  BY <1>4, FS_EmptySet
<1> QED
  BY <1>1, <1>3, <1>5, <1>6 DEF Positions

LEMMA SumsExist ==
    ASSUME NEW t \in Seq(Nat), NEW n \in Nat
    PROVE  \E g : SumsUpTo(t, n, g)
<1> DEFINE T == {k \in Nat : \E g : SumsUpTo(t, k, g)}
<1>0. {} \in SUBSET DOMAIN t /\ Cardinality({}) = 0
  BY FS_EmptySet
<1>1. 0 \in T
  <2> DEFINE e == [S \in Positions(t, 0) |-> 0]
  <2>1. ASSUME NEW S \in Positions(t, 0) PROVE S = {}
    <3>1. SUFFICES ASSUME S # {} PROVE FALSE
      OBVIOUS
    <3>2. S \in Positions(t, 0 + 1)
      BY PositionsFinite DEF Positions
    <3>3. Cardinality(S) \in Nat \ {0}
      BY <3>1, <3>2, SmallerSet
    <3> QED
      BY <3>3 DEF Positions
  <2>2. SumsUpTo(t, 0, e)
    BY <2>1 DEF SumsUpTo, Summand
  <2> QED
    BY <2>2
<1>2. ASSUME NEW k \in Nat, k \in T PROVE k + 1 \in T
  <2>1. PICK g : SumsUpTo(t, k, g)
    BY <1>2
  <2> DEFINE e == [S \in Positions(t, k + 1) |-> Summand(t, g, S)]
  <2>2. ASSUME NEW S \in Positions(t, k + 1)
        PROVE  e[S] \in Nat /\ e[S] = Summand(t, e, S)
    <3>1. CASE S = {}
      BY <3>1 DEF Summand
    <3>2. CASE S # {}
      <4>1. /\ Some(S) \in DOMAIN t
            /\ S \ {Some(S)} \in Positions(t, k)
        BY <3>2, SmallerSet
      <4>2. Positions(t, k) \subseteq Positions(t, k + 1)
        <5>1. ASSUME NEW R \in Positions(t, k) PROVE R \in Positions(t, k + 1)
          BY PositionsFinite DEF Positions
        <5> QED
          BY <5>1
      <4>3. g[S \ {Some(S)}] \in Nat /\ t[Some(S)] \in Nat
        BY <2>1, <4>1 DEF SumsUpTo
      <4>4. e[S \ {Some(S)}] = g[S \ {Some(S)}]
        <5>1. e[S \ {Some(S)}] = Summand(t, g, S \ {Some(S)})
          BY <4>1, <4>2
        <5> QED
          BY <2>1, <4>1, <5>1 DEF SumsUpTo
      <4> QED
        BY <3>2, <4>3, <4>4 DEF Summand
    <3> QED
      BY <3>1, <3>2
  <2>3. SumsUpTo(t, k + 1, e)
    BY <2>2 DEF SumsUpTo
  <2> QED
    BY <2>3
<1>3. Nat \subseteq T
  <2> HIDE DEF T
  <2> QED
    BY <1>1, <1>2, Induction
<1> QED
  BY <1>3

\* The sum of the samples is that of all positions, taken one by one.
LEMMA SumIs ==
    ASSUME NEW t \in Seq(Nat)
    PROVE  \E g : /\ \A S \in SUBSET DOMAIN t : g[S] = Summand(t, g, S)
                  /\ FoldSeq(+, 0, t) = g[DOMAIN t]
<1>1. PICK h : SumsUpTo(t, Len(t), h)
  BY SumsExist
<1>2. Positions(t, Len(t)) = SUBSET DOMAIN t
  BY PositionsFinite DEF Positions
<1>3. h = [S \in SUBSET DOMAIN t |->
            IF S = {} THEN 0
            ELSE LET x == CHOOSE y \in S : TRUE IN t[x] + h[S \ {x}]]
  BY <1>1, <1>2 DEF SumsUpTo, Summand, Some
<1> DEFINE g == CHOOSE i : i = [S \in SUBSET DOMAIN t |->
            IF S = {} THEN 0
            ELSE LET x == CHOOSE y \in S : TRUE IN t[x] + i[S \ {x}]]
<1>4. g = [S \in SUBSET DOMAIN t |->
            IF S = {} THEN 0
            ELSE LET x == CHOOSE y \in S : TRUE IN t[x] + g[S \ {x}]]
  BY <1>3, Zenon
<1>5. FoldSeq(+, 0, t) = g[DOMAIN t]
  BY Zenon DEF FoldSeq, FoldFunction, FoldFunctionOnSet, MapThenFoldSet
<1> HIDE DEF g
<1>6. \A S \in SUBSET DOMAIN t : g[S] = Summand(t, g, S)
  BY <1>4 DEF Summand, Some
<1> QED
  BY <1>5, <1>6, Zenon

LEMMA OneMore == ASSUME NEW n \in Nat, NEW m \in Nat PROVE (n + 1) * m = n * m + m
  OBVIOUS

\* No sum exceeds that of as many of the largest sample there may be.
LEMMA SumBound ==
    ASSUME NEW m \in Nat, NEW t \in Seq(0 .. m)
    PROVE  FoldSeq(+, 0, t) \in Nat /\ FoldSeq(+, 0, t) <= Len(t) * m
<1>0. t \in Seq(Nat) /\ Len(t) \in Nat /\ DOMAIN t = 1 .. Len(t)
      /\ \A i \in DOMAIN t : t[i] \in 0 .. m
  <2>1. t \in Seq(Nat)
    BY 0 .. m \subseteq Nat
  <2> QED
    BY <2>1
<1>1. PICK g : /\ \A S \in SUBSET DOMAIN t : g[S] = Summand(t, g, S)
               /\ FoldSeq(+, 0, t) = g[DOMAIN t]
  BY <1>0, SumIs, Zenon
<1> DEFINE Ok(S) == g[S] \in Nat /\ g[S] <= Cardinality(S) * m
<1> DEFINE T == {n \in Nat : \A S \in Positions(t, n) : Ok(S)}
<1>2. ASSUME NEW S \in SUBSET DOMAIN t, S = {} PROVE Ok(S)
  <2>1. Cardinality(S) = 0 /\ g[S] = 0
    BY <1>1, <1>2, FS_EmptySet DEF Summand
  <2> QED
    BY <2>1
<1>3. 0 \in T
  <2>1. ASSUME NEW S \in Positions(t, 0) PROVE S \in SUBSET DOMAIN t /\ S = {}
    BY <1>0, PositionsFinite, FS_EmptySet DEF Positions
  <2> QED
    BY <1>2, <2>1
<1>4. ASSUME NEW n \in Nat, n \in T PROVE n + 1 \in T
  <2>1. ASSUME NEW S \in Positions(t, n + 1), S # {} PROVE Ok(S)
    <3>1. /\ Some(S) \in DOMAIN t
          /\ S \ {Some(S)} \in Positions(t, n)
          /\ Cardinality(S) \in Nat \ {0}
          /\ Cardinality(S \ {Some(S)}) = Cardinality(S) - 1
      BY <1>0, <2>1, SmallerSet
    <3>2. Ok(S \ {Some(S)})
      BY <1>4, <3>1
    <3>3. g[S] = t[Some(S)] + g[S \ {Some(S)}]
      BY <1>1, <2>1 DEF Positions, Summand
    <3>4. Cardinality(S) * m = (Cardinality(S) - 1) * m + m
      BY <3>1, OneMore, Cardinality(S) - 1 \in Nat, Cardinality(S) = (Cardinality(S) - 1) + 1
    <3>5. t[Some(S)] \in 0 .. m
      BY <1>0, <3>1
    <3>6. (Cardinality(S) - 1) * m \in Nat
      BY <3>1
    <3> DEFINE x == g[S \ {Some(S)}]
               p == (Cardinality(S) - 1) * m
               v == t[Some(S)]
    <3>7. x \in Nat /\ x <= p
      BY <3>1, <3>2
    <3>8. g[S] = v + x /\ Cardinality(S) * m = p + m /\ v \in 0 .. m /\ p \in Nat
      BY <3>3, <3>4, <3>5, <3>6
    <3> HIDE DEF x, p, v
    <3> QED
      BY <3>7, <3>8
  <2>2. ASSUME NEW S \in Positions(t, n + 1) PROVE S \in SUBSET DOMAIN t
    BY DEF Positions
  <2> QED
    BY <1>2, <2>1, <2>2
<1>5. Nat \subseteq T
  <2> HIDE DEF T
  <2> QED
    BY <1>3, <1>4, Induction
<1>6. DOMAIN t \in Positions(t, Len(t)) /\ Cardinality(DOMAIN t) = Len(t)
  <2>1. Cardinality(DOMAIN t) = Len(t)
    BY <1>0, UpToFinite
  <2> QED
    BY <1>0, <2>1 DEF Positions
<1> QED
  BY <1>0, <1>1, <1>5, <1>6

\* The average of samples is no larger than the largest there may be.
LEMMA AverageBound ==
    ASSUME NEW m \in Nat, NEW t \in Seq(0 .. m), t # <<>>
    PROVE  AverageTemps(t) \in 0 .. m
<1> DEFINE sum == FoldSeq(+, 0, t)
           n == Len(t)
           q == (sum + n \div 2) \div n
<1>s. sum \in Nat /\ sum <= n * m
  BY SumBound
<1>2. AverageTemps(t) = q
  BY DEF AverageTemps
<1> HIDE DEF sum
<1>1. sum \in Nat /\ sum <= n * m /\ n \in Nat \ {0}
  BY <1>s
<1> HIDE DEF n
<1>3. n \div 2 \in Nat /\ n \div 2 < n
  BY <1>1
<1>4. q \in Int /\ n * q <= sum + n \div 2 /\ sum + n \div 2 < n * q + n
  BY <1>1, <1>3
<1> HIDE DEF q
<1>5. n * q < n * (m + 1)
  BY <1>1, <1>3, <1>4
<1>6. q <= m
  BY <1>1, <1>4, <1>5
<1>7. q >= 0
  BY <1>1, <1>3, <1>4
<1> QED
  BY <1>2, <1>4, <1>6, <1>7

LEMMA WiderSeq ==
    ASSUME NEW S, NEW T, S \subseteq T, NEW t \in Seq(S)
    PROVE  t \in Seq(T)
  OBVIOUS

-----------------------------------------------------------------------------
(***************************************************************************)
(* Levels, points and samples                                              *)
(***************************************************************************)
\* A step of the curve stays within the levels and moves by at most one.
LEMMA NextFanLevelType ==
    ASSUME NEW l \in Level, NEW t \in Temp, NEW up \in Ramp, NEW down \in Ramp
    PROVE  /\ NextFanLevel(l, t, up, down) \in Level
           /\ NextFanLevel(l, t, up, down) \in {l - 1, l, l + 1}
  BY CurveAssumption DEF NextFanLevel, Level, Least

LEMMA GreatestElement ==
    ASSUME NEW n \in Nat, NEW S, S \subseteq 0 .. n, S # {}
    PROVE  Max(S) \in S
<1> DEFINE T == {n - k : k \in S}
<1>1. PICK m \in T : \A k \in T : m <= k
  <2>1. \A k \in S : k \in 0 .. n /\ n - k \in Nat
    OBVIOUS
  <2>2. T \subseteq Nat
    BY <2>1
  <2>3. T # {}
    OBVIOUS
  <2> HIDE DEF T
  <2> QED
    BY <2>2, <2>3, LeastElement
<1>2. PICK x \in S : m = n - x
  OBVIOUS
<1>3. ASSUME NEW y \in S PROVE x >= y
  <2>1. n - x <= n - y
    BY <1>1, <1>2
  <2> QED
    BY <2>1
<1> QED
  BY <1>3 DEF Max

LEMMA InitialLevelType ==
    ASSUME NEW t \in Temp, NEW up \in Ramp
    PROVE  InitialLevel(t, up) \in Level
<1> DEFINE reached == {i \in 1 .. NLevels : t >= up[i]}
<1>1. NLevels \in Nat /\ reached \subseteq 0 .. NLevels
  BY CurveAssumption
<1>2. CASE reached = {}
  BY <1>1, <1>2 DEF InitialLevel, Level
<1>3. CASE reached # {}
  <2>1. Max(reached) \in reached
    <3> HIDE DEF reached
    <3> QED
      BY <1>1, <1>3, GreatestElement
  <2> QED
    BY <1>1, <1>3, <2>1 DEF InitialLevel, Level
<1> QED
  BY <1>2, <1>3

\* A point is either left or put between its neighbours.
LEMMA ClampRampupPointIs ==
    ASSUME NEW up \in Ramp, NEW i \in 1 .. NLevels, NEW t \in Temp
    PROVE  \/ ClampRampupPoint(up, i, t) = up
           \/ \E v \in Temp :
                /\ ClampRampupPoint(up, i, t) = [up EXCEPT ![i] = v]
                /\ i # 1 => up[i - 1] < v
                /\ i # NLevels => v <= SatSub(up[i + 1], 1)
<1> DEFINE lo == IF i = 1 THEN 0 ELSE up[i - 1] + 1
           hi == IF i = NLevels THEN MaxTemp ELSE SatSub(up[i + 1], 1)
           v == Clamp(t, lo, hi)
<1>0. MaxTemp \in Nat /\ NLevels \in Nat \ {0} /\ up \in [1 .. NLevels -> 0 .. MaxTemp]
      /\ t \in 0 .. MaxTemp
  BY CurveAssumption DEF Ramp, Temp
<1>1. lo \in Nat /\ (i # 1 => lo = up[i - 1] + 1 /\ up[i - 1] \in Nat)
  BY <1>0
<1>2. hi \in 0 .. MaxTemp /\ (i # NLevels => hi = SatSub(up[i + 1], 1))
  BY <1>0 DEF SatSub, Greatest
<1>3. ClampRampupPoint(up, i, t) = IF lo > hi THEN up ELSE [up EXCEPT ![i] = v]
  BY DEF ClampRampupPoint
<1> HIDE DEF lo, hi
<1>4. lo <= hi => lo <= v /\ v <= hi /\ v \in Int
  BY <1>0, <1>1, <1>2 DEF Clamp, Greatest, Least
<1> HIDE DEF v
<1>5. CASE lo > hi
  BY <1>3, <1>5
<1>6. CASE lo <= hi
  <2>1. v \in Temp /\ (i # 1 => up[i - 1] < v) /\ (i # NLevels => v <= SatSub(up[i + 1], 1))
    BY <1>0, <1>1, <1>2, <1>4, <1>6 DEF Temp
  <2>2. ClampRampupPoint(up, i, t) = [up EXCEPT ![i] = v]
    BY <1>1, <1>2, <1>3, <1>6
  <2> QED
    BY <2>1, <2>2
<1> QED
  BY <1>1, <1>2, <1>5, <1>6

LEMMA ClampRampupPointType ==
    ASSUME NEW up \in Ramp, NEW i \in 1 .. NLevels, NEW t \in Temp
    PROVE  ClampRampupPoint(up, i, t) \in Ramp
<1>1. \A v \in Temp : [up EXCEPT ![i] = v] \in Ramp
  BY DEF Ramp
<1> QED
  BY <1>1, ClampRampupPointIs

\* A dragged point stays between its neighbours (curve.rs: clamp_rampup_point).
LEMMA ClampRampupPointRising ==
    ASSUME NEW up \in Ramp, Rising(up), NEW i \in 1 .. NLevels, NEW t \in Temp
    PROVE  Rising(ClampRampupPoint(up, i, t))
<1>1. CASE ClampRampupPoint(up, i, t) = up
  BY <1>1
<1>2. ASSUME NEW v \in Temp,
             ClampRampupPoint(up, i, t) = [up EXCEPT ![i] = v],
             i # 1 => up[i - 1] < v,
             i # NLevels => v <= SatSub(up[i + 1], 1)
      PROVE  Rising(ClampRampupPoint(up, i, t))
  <2> DEFINE new == [up EXCEPT ![i] = v]
  <2>0. /\ NLevels \in Nat \ {0} /\ up \in [1 .. NLevels -> Nat] /\ v \in Nat
        /\ \A j \in 1 .. NLevels - 1 : up[j] < up[j + 1]
    BY CurveAssumption DEF Ramp, Temp, Rising
  <2>1. i # NLevels => v < up[i + 1]
    BY <1>2, <2>0 DEF SatSub, Greatest
  <2>2. new[i] = v /\ \A j \in 1 .. NLevels : j # i => new[j] = up[j]
    BY <2>0
  <2> HIDE DEF new
  <2>3. ASSUME NEW j \in 1 .. NLevels - 1 PROVE new[j] < new[j + 1]
    <3>1. CASE j = i
      BY <2>0, <2>1, <2>2, <3>1
    <3>2. CASE j + 1 = i
      BY <1>2, <2>0, <2>2, <3>2
    <3>3. CASE j # i /\ j + 1 # i
      BY <2>0, <2>2, <3>3
    <3> QED
      BY <3>1, <3>2, <3>3
  <2> QED
    BY <1>2, <2>3 DEF Rising, new
<1> QED
  BY <1>1, <1>2, ClampRampupPointIs

\* The window holds samples, at most as many as it was pushed for.
LEMMA PushTempSampleType ==
    ASSUME NEW S, NEW w \in Seq(S), NEW t \in S, NEW n \in Nat \ {0}
    PROVE  /\ PushTempSample(w, t, n) \in Seq(S)
           /\ PushTempSample(w, t, n) # <<>>
           /\ Len(PushTempSample(w, t, n)) <= n
<1> DEFINE v == Append(w, t)
<1>1. v \in Seq(S) /\ Len(v) \in Nat \ {0}
  OBVIOUS
<1>2. PushTempSample(w, t, n) =
        IF Len(v) > n THEN SubSeq(v, Len(v) - n + 1, Len(v)) ELSE v
  BY DEF PushTempSample, Greatest
<1> HIDE DEF v
<1>3. CASE Len(v) > n
  <2>1. /\ SubSeq(v, Len(v) - n + 1, Len(v)) \in Seq(S)
        /\ Len(SubSeq(v, Len(v) - n + 1, Len(v))) = n
    <3>1. \A i \in Len(v) - n + 1 .. Len(v) : v[i] \in S
      BY <1>1, <1>3
    <3>2. Len(v) - n + 1 <= Len(v) /\ Len(v) - (Len(v) - n + 1) + 1 = n
      BY <1>1, <1>3
    <3> QED
      BY <1>1, <3>1, <3>2, SubSeqProperties
  <2>2. PushTempSample(w, t, n) = SubSeq(v, Len(v) - n + 1, Len(v))
    BY <1>2, <1>3
  <2>3. SubSeq(v, Len(v) - n + 1, Len(v)) # <<>>
    BY <2>1
  <2> QED
    BY <2>1, <2>2, <2>3
<1>4. CASE ~(Len(v) > n)
  BY <1>1, <1>2, <1>4
<1> QED
  BY <1>3, <1>4

-----------------------------------------------------------------------------
(***************************************************************************)
(* The invariants                                                          *)
(***************************************************************************)
\* What the monitor does between two ticks needs samples to be taken.
Ticking ==
    /\ mon.pc # "wake" => active
    /\ mon.pc = "push" => mon.sample \in Readings /\ mon.max # 0

MonitorInv == TypeOK /\ Ticking

LEMMA MonitorInit == Init => MonitorInv /\ NoSamplesKeptWhileIdle
<1> SUFFICES ASSUME Init PROVE MonitorInv /\ NoSamplesKeptWhileIdle
  OBVIOUS
<1>1. 0 \in Temp /\ 0 \in Level
  BY CurveAssumption DEF Temp, Level
<1>2. InitRampup \in Ramp /\ InitRampdown \in Ramp
  BY MonitorAssumption
<1>3. curve \in [Fans -> [mode : {"auto", "fixed", "curve"}, up : Ramp, down : Ramp]]
  BY <1>2 DEF Init
<1>4. mon \in [pc : {"wake", "push", "serve"}, sample : Readings \cup {0},
              max : 0 .. MaxSmoothing, avg : Temp]
  BY <1>1, MonitorAssumption DEF Init, AwaitTick
<1>5. edit \in [Fans -> [at : {"none", "up", "down"}, up : Ramp]]
  BY MonitorAssumption DEF Init, NoEdit
<1>6. /\ temp \in Readings /\ level \in [Fans -> Level] /\ smoothing \in 1 .. MaxSmoothing
      /\ window \in Seq(Readings) /\ Len(window) <= MaxSmoothing /\ active \in BOOLEAN
      /\ trim \in 0 .. MaxSmoothing /\ moves \in 0 .. MaxMoves
  <2>1. MaxSmoothing \in Nat \ {0} /\ MaxMoves \in Nat
    BY MonitorAssumption
  <2>2. /\ temp \in Readings /\ level \in [Fans -> Level] /\ active \in BOOLEAN
    BY <1>1 DEF Init
  <2>3. /\ smoothing \in 1 .. MaxSmoothing /\ trim \in 0 .. MaxSmoothing
        /\ moves \in 0 .. MaxMoves
    BY <2>1 DEF Init
  <2>4. window \in Seq(Readings) /\ Len(window) = 0
    BY DEF Init
  <2> QED
    BY <2>1, <2>2, <2>3, <2>4
<1>7. Ticking /\ NoSamplesKeptWhileIdle
  BY DEF Init, AwaitTick, Ticking, NoSamplesKeptWhileIdle
<1> QED
  BY <1>3, <1>4, <1>5, <1>6, <1>7 DEF MonitorInv, TypeOK

LEMMA MonitorStep ==
    ASSUME MonitorInv, [Next]_vars
    PROVE  MonitorInv' /\ (NoSamplesKeptWhileIdle => NoSamplesKeptWhileIdle')
<1> USE DEF MonitorInv
<1>a. /\ MaxSmoothing \in Nat \ {0} /\ NLevels \in Nat \ {0} /\ MaxTemp \in Nat
      /\ MaxMoves \in Nat /\ Readings \subseteq Temp /\ 0 \in Temp /\ Temp \subseteq Nat
  BY MonitorAssumption, CurveAssumption DEF Temp
<1>1. CASE TickIdle
  <2>1. TypeOK'
    <3>1. window' \in Seq(Readings) /\ Len(window') <= MaxSmoothing /\ active' \in BOOLEAN
      <4>1. window' = <<>> /\ ~active'
        BY <1>1 DEF TickIdle
      <4>2. active' \in BOOLEAN
        BY <1>1 DEF TickIdle
      <4>3. <<>> \in Seq(Readings) /\ Len(<<>>) = 0
        OBVIOUS
      <4> QED
        BY <1>a, <4>1, <4>2, <4>3
    <3> QED
      BY <1>1, <3>1 DEF TickIdle, TypeOK
  <2>2. Ticking'
    BY <1>1 DEF TickIdle, Ticking
  <2>3. NoSamplesKeptWhileIdle'
    BY <1>1 DEF TickIdle, NoSamplesKeptWhileIdle
  <2> QED
    BY <2>1, <2>2, <2>3
<1>2. CASE TickSample
  <2>1. mon' \in [pc : {"wake", "push", "serve"}, sample : Readings \cup {0},
                  max : 0 .. MaxSmoothing, avg : Temp]
        /\ mon'.sample = temp /\ mon'.max = smoothing
    <3>1. /\ mon' = [mon EXCEPT !.pc = "push", !.sample = temp, !.max = smoothing]
          /\ temp \in Readings /\ smoothing \in 0 .. MaxSmoothing
      BY <1>a, <1>2 DEF TickSample, TypeOK
    <3>2. mon' = [pc |-> "push", sample |-> temp, max |-> smoothing, avg |-> mon.avg]
          /\ mon.avg \in Temp
      BY <3>1 DEF TypeOK
    <3> QED
      BY <3>1, <3>2
  <2>2. TypeOK'
    BY <1>2, <2>1 DEF TickSample, TypeOK
  <2>3. Ticking' /\ NoSamplesKeptWhileIdle'
    BY <1>a, <1>2, <2>1 DEF TickSample, TypeOK, Ticking, NoSamplesKeptWhileIdle
  <2> QED
    BY <2>2, <2>3
<1>3. CASE TickPush
  <2>1. /\ mon.max \in Nat \ {0} /\ mon.max <= MaxSmoothing /\ mon.sample \in Readings
        /\ active /\ window \in Seq(Readings)
    BY <1>a, <1>3 DEF TickPush, TypeOK, Ticking
  <2>2. /\ window' \in Seq(Readings) /\ window' # <<>> /\ Len(window') <= mon.max
    BY <1>3, <2>1, PushTempSampleType DEF TickPush
  <2>3. window' \in Seq(0 .. MaxTemp)
    <3>1. Readings \subseteq 0 .. MaxTemp
      BY <1>a DEF Temp
    <3> QED
      BY <2>2, <3>1, WiderSeq
  <2>4. AverageTemps(window') \in Temp
    BY <1>a, <2>2, <2>3, AverageBound DEF Temp
  <2>5. Len(window') <= MaxSmoothing
    BY <1>a, <2>1, <2>2
  <2>6. mon' \in [pc : {"wake", "push", "serve"}, sample : Readings \cup {0},
                  max : 0 .. MaxSmoothing, avg : Temp] /\ mon'.pc = "serve"
    <3>1. mon' = [mon EXCEPT !.pc = "serve", !.sample = 0, !.max = 0,
                             !.avg = AverageTemps(window')]
      BY <1>3 DEF TickPush
    <3>2. mon \in [pc : {"wake", "push", "serve"}, sample : Readings \cup {0},
                   max : 0 .. MaxSmoothing, avg : Temp]
      BY DEF TypeOK
    <3> DEFINE a == AverageTemps(window')
    <3>3. mon' = [mon EXCEPT !.pc = "serve", !.sample = 0, !.max = 0, !.avg = a]
      BY <3>1
    <3>4. a \in Temp
      BY <2>4
    <3> HIDE DEF a
    <3>5. mon' = [pc |-> "serve", sample |-> 0, max |-> 0, avg |-> a]
      BY <3>2, <3>3
    <3> QED
      BY <1>a, <3>4, <3>5
  <2> QED
    BY <1>3, <2>1, <2>2, <2>5, <2>6 DEF TickPush, TypeOK, Ticking, NoSamplesKeptWhileIdle
<1>4. CASE TickServe
  <2> DEFINE moving == {f \in CurveFans : Desired(f) # level[f]}
  <2>1. ASSUME NEW f \in Fans PROVE Desired(f) \in Level
    BY NextFanLevelType DEF Desired, TypeOK
  <2>2. moving = {} \/ Min(moving) \in Fans
    <3>1. moving \subseteq Fans /\ Fans \subseteq Nat
      BY DEF CurveFans, Fans
    <3> HIDE DEF moving
    <3>2. ASSUME moving # {} PROVE Min(moving) \in moving
      BY <3>1, <3>2, LeastElement DEF Min
    <3> QED
      BY <3>1, <3>2
  <2>3. level' \in [Fans -> Level]
    BY <1>4, <2>1, <2>2 DEF TickServe, TypeOK
  <2>4. mon' \in [pc : {"wake", "push", "serve"}, sample : Readings \cup {0},
                  max : 0 .. MaxSmoothing, avg : Temp] /\ mon'.pc = "wake"
    BY <1>a, <1>4 DEF TickServe, AwaitTick
  <2> QED
    BY <1>4, <2>3, <2>4 DEF TickServe, TypeOK, Ticking, NoSamplesKeptWhileIdle
<1>5. CASE TempChange
  BY <1>a, <1>5 DEF TempChange, Move, TypeOK, Ticking, NoSamplesKeptWhileIdle
<1>6. ASSUME NEW f \in Fans, LeaveCurve(f)
      PROVE  MonitorInv' /\ (NoSamplesKeptWhileIdle => NoSamplesKeptWhileIdle')
  <2>1. PICK m \in {"auto", "fixed"}, l \in Level :
          /\ curve' = [curve EXCEPT ![f].mode = m]
          /\ level' = [level EXCEPT ![f] = l]
    BY <1>6 DEF LeaveCurve
  <2>2. curve' \in [Fans -> [mode : {"auto", "fixed", "curve"}, up : Ramp, down : Ramp]]
    BY <2>1 DEF TypeOK
  <2>3. level' \in [Fans -> Level]
    BY <2>1 DEF TypeOK
  <2> QED
    BY <1>a, <1>6, <2>2, <2>3
       DEF LeaveCurve, Move, TypeOK, Ticking, NoSamplesKeptWhileIdle
<1>7. ASSUME NEW f \in Fans, CommitCurve(f)
      PROVE  MonitorInv' /\ (NoSamplesKeptWhileIdle => NoSamplesKeptWhileIdle')
  <2>1. PICK i \in 1 .. NLevels, t \in Temp :
          edit' = [edit EXCEPT ![f] =
                      [at |-> "up", up |-> ClampRampupPoint(curve[f].up, i, t)]]
    BY <1>7 DEF CommitCurve
  <2>2. ClampRampupPoint(curve[f].up, i, t) \in Ramp
    BY ClampRampupPointType DEF TypeOK
  <2>3. InitialLevel(temp, curve[f].up) \in Level
    BY <1>a, InitialLevelType DEF TypeOK
  <2>4. edit' \in [Fans -> [at : {"none", "up", "down"}, up : Ramp]]
    BY <2>1, <2>2 DEF TypeOK
  <2>5. level' \in [Fans -> Level]
    BY <1>7, <2>3 DEF CommitCurve, TypeOK
  <2>6. curve' \in [Fans -> [mode : {"auto", "fixed", "curve"}, up : Ramp, down : Ramp]]
    BY <1>7 DEF CommitCurve, TypeOK
  <2>7. UNCHANGED <<temp, smoothing, window, active, mon, trim>> /\ moves' \in 0 .. MaxMoves
    <3>1. Move /\ UNCHANGED <<temp, smoothing, window, active, mon, trim>>
      BY <1>7 DEF CommitCurve
    <3>2. moves \in 0 .. MaxMoves
      BY <1>a DEF TypeOK
    <3> QED
      BY <1>a, <3>1, <3>2, MonitorAssumption DEF Move
  <2>8. Ticking' /\ (NoSamplesKeptWhileIdle => NoSamplesKeptWhileIdle')
    BY <1>a, <2>7 DEF Ticking, NoSamplesKeptWhileIdle
  <2> HIDE <1>7
  <2>9. TypeOK'
    <3>1. /\ temp' \in Readings /\ smoothing' \in 1 .. MaxSmoothing
          /\ mon' = mon /\ window' = window /\ active' \in BOOLEAN
          /\ trim' \in 0 .. MaxSmoothing /\ moves' \in 0 .. MaxMoves
      BY <1>a, <2>7 DEF TypeOK
    <3> QED
      BY <1>a, <2>4, <2>5, <2>6, <3>1, Zenon DEF TypeOK
  <2> QED
    BY <2>8, <2>9
<1>8. ASSUME NEW f \in Fans, Finish(f)
      PROVE  MonitorInv' /\ (NoSamplesKeptWhileIdle => NoSamplesKeptWhileIdle')
  <2>1. edit[f].up \in Ramp /\ DeriveRampdown(edit[f].up) \in Ramp
    BY DeriveRampdownIs DEF TypeOK, DownTo, Ramp
  <2> DEFINE up == edit[f].up
             down == DeriveRampdown(edit[f].up)
  <2>t. /\ curve \in [Fans -> [mode : {"auto", "fixed", "curve"}, up : Ramp, down : Ramp]]
        /\ edit \in [Fans -> [at : {"none", "up", "down"}, up : Ramp]]
    BY DEF TypeOK
  <2>e. \/ /\ curve' = [curve EXCEPT ![f].up = up]
           /\ edit' = [edit EXCEPT ![f].at = "down"]
        \/ /\ curve' = [curve EXCEPT ![f].down = down]
           /\ edit' = [edit EXCEPT ![f] = [at |-> "none", up |-> InitRampup]]
    BY <1>8 DEF Finish, StoreRampup, StoreRampdown, NoEdit
  <2>u. up \in Ramp /\ down \in Ramp
    BY <2>1
  <2> HIDE DEF up, down
  <2>2. curve' \in [Fans -> [mode : {"auto", "fixed", "curve"}, up : Ramp, down : Ramp]]
    <3>1. CASE curve' = [curve EXCEPT ![f].up = up]
      BY <2>t, <2>u, <3>1
    <3>2. CASE curve' = [curve EXCEPT ![f].down = down]
      BY <2>t, <2>u, <3>2
    <3> QED
      BY <2>e, <3>1, <3>2
  <2>3. edit' \in [Fans -> [at : {"none", "up", "down"}, up : Ramp]]
    <3>1. CASE edit' = [edit EXCEPT ![f].at = "down"]
      BY <2>t, <3>1
    <3>2. CASE edit' = [edit EXCEPT ![f] = [at |-> "none", up |-> InitRampup]]
      <4>1. [at |-> "none", up |-> InitRampup] \in [at : {"none", "up", "down"}, up : Ramp]
        BY MonitorAssumption
      <4> QED
        BY <2>t, <3>2, <4>1
    <3> QED
      BY <2>e, <3>1, <3>2
  <2> QED
    BY <1>8, <2>2, <2>3
       DEF Finish, StoreRampup, StoreRampdown, TypeOK, Ticking, NoSamplesKeptWhileIdle
<1>9. CASE SetSmoothing
  BY <1>a, <1>9 DEF SetSmoothing, Move, TypeOK, Ticking, NoSamplesKeptWhileIdle
<1>10. CASE TrimWindow
  <2>1. window' \in Seq(Readings) /\ Len(window') <= MaxSmoothing /\ (window = <<>> => window' = <<>>)
    <3>1. CASE Len(window) > trim
      <4>1. /\ Len(window) \in Nat /\ trim \in Nat \ {0}
            /\ \A i \in Len(window) - trim + 1 .. Len(window) : window[i] \in Readings
        <5>1. /\ window \in Seq(Readings) /\ trim \in Nat \ {0}
          BY <1>a, <1>10 DEF TrimWindow, TypeOK
        <5> QED
          BY <3>1, <5>1
      <4>2. window' = SubSeq(window, Len(window) - trim + 1, Len(window))
        BY <1>10, <3>1 DEF TrimWindow
      <4>3. window' \in Seq(Readings) /\ Len(window') = trim
        <5>1. Len(window) - trim + 1 <= Len(window)
              /\ Len(window) - (Len(window) - trim + 1) + 1 = trim
          BY <4>1
        <5> QED
          BY <4>1, <4>2, <5>1, SubSeqProperties
      <4> QED
        BY <1>a, <3>1, <4>1, <4>3 DEF TypeOK
    <3>2. CASE ~(Len(window) > trim)
      BY <1>10, <3>2 DEF TrimWindow, TypeOK
    <3> QED
      BY <3>1, <3>2
  <2> QED
    BY <1>a, <1>10, <2>1 DEF TrimWindow, TypeOK, Ticking, NoSamplesKeptWhileIdle
<1>11. CASE UNCHANGED vars
  BY <1>11 DEF vars, TypeOK, Ticking, NoSamplesKeptWhileIdle
<1> QED
  BY <1>1, <1>2, <1>3, <1>4, <1>5, <1>6, <1>7, <1>8, <1>9, <1>10, <1>11
     DEF Next, Monitor

\* Every variable of the loop stays in its range: whatever is dragged, every
\* curve is one the loop can index, every average is a temperature, every level
\* one the register takes, and the window never outgrows its largest size.
THEOREM MonitorTypeCorrect == Spec => []TypeOK
<1>1. Init => MonitorInv
  BY MonitorInit
<1>2. MonitorInv /\ [Next]_vars => MonitorInv'
  BY MonitorStep
<1>3. MonitorInv => TypeOK
  BY DEF MonitorInv
<1> QED
  BY <1>1, <1>2, <1>3, PTL DEF Spec

\* Samples from before a pause are never averaged with samples from after it,
\* however the smoothing window is changed meanwhile (clear_temp_window in the
\* monitor loop; set_smoothing_window).
THEOREM PausesDropSamples == Spec => []NoSamplesKeptWhileIdle
<1>1. Init => MonitorInv /\ NoSamplesKeptWhileIdle
  BY MonitorInit
<1>2. MonitorInv /\ NoSamplesKeptWhileIdle /\ [Next]_vars
        => MonitorInv' /\ NoSamplesKeptWhileIdle'
  BY MonitorStep
<1> QED
  BY <1>1, <1>2, PTL DEF Spec

\* A ramp-down curve that never falls and stays below its ramp-up curve.
Below(down, up) ==
    /\ \A i \in 1 .. NLevels - 1 : down[i] <= down[i + 1]
    /\ \A i \in 1 .. NLevels : down[i] <= SatSub(up[i], 1)

\* A fan not being edited has a ramp-down curve that fits its ramp-up curve, one
\* whose ramp-up curve is stored already has that of the edit.
Stored(f) ==
    /\ Rising(curve[f].up) /\ Rising(edit[f].up)
    /\ edit[f].at = "none" => Below(curve[f].down, curve[f].up)
    /\ edit[f].at = "down" => curve[f].up = edit[f].up

EditsInv == \A f \in Fans : Stored(f)

LEMMA EditsInit == Rising(InitRampup) /\ Below(InitRampdown, InitRampup) /\ Init => EditsInv
  BY DEF Init, NoEdit, EditsInv, Stored

\* What happens to fan f leaves the others alone.
LEMMA OthersStored ==
    ASSUME TypeOK, EditsInv, NEW f \in Fans, NEW c, NEW e,
           curve' = [curve EXCEPT ![f] = c], edit' = [edit EXCEPT ![f] = e], Stored(f)'
    PROVE  EditsInv'
<1>1. ASSUME NEW g \in Fans, g # f PROVE Stored(g)'
  <2>1. curve'[g] = curve[g] /\ edit'[g] = edit[g]
    BY <1>1 DEF TypeOK
  <2> QED
    BY <2>1 DEF EditsInv, Stored
<1> QED
  BY <1>1 DEF EditsInv

LEMMA EditsStep ==
    ASSUME TypeOK, EditsInv, Rising(InitRampup), [Next]_vars
    PROVE  EditsInv'
<1>t. /\ curve \in [Fans -> [mode : {"auto", "fixed", "curve"}, up : Ramp, down : Ramp]]
      /\ edit \in [Fans -> [at : {"none", "up", "down"}, up : Ramp]]
  BY DEF TypeOK
<1>1. ASSUME curve' = curve, edit' = edit PROVE EditsInv'
  BY <1>1 DEF EditsInv, Stored
<1>2. ASSUME NEW f \in Fans, LeaveCurve(f) PROVE EditsInv'
  <2>1. PICK m : curve' = [curve EXCEPT ![f].mode = m]
    BY <1>2 DEF LeaveCurve
  <2>2. /\ curve' = [curve EXCEPT ![f] = [curve[f] EXCEPT !.mode = m]]
        /\ edit' = [edit EXCEPT ![f] = edit[f]]
    BY <1>2, <1>t, <2>1 DEF LeaveCurve
  <2>3. curve'[f].up = curve[f].up /\ curve'[f].down = curve[f].down /\ edit'[f] = edit[f]
    BY <1>t, <2>2
  <2>4. Stored(f)'
    BY <2>3 DEF EditsInv, Stored
  <2> QED
    BY <2>2, <2>4, OthersStored
<1>3. ASSUME NEW f \in Fans, CommitCurve(f) PROVE EditsInv'
  <2>1. PICK i \in 1 .. NLevels, t \in Temp :
          edit' = [edit EXCEPT ![f] =
                      [at |-> "up", up |-> ClampRampupPoint(curve[f].up, i, t)]]
    BY <1>3 DEF CommitCurve
  <2>2. Rising(ClampRampupPoint(curve[f].up, i, t))
    BY <1>t, ClampRampupPointRising DEF EditsInv, Stored
  <2>3. curve' = [curve EXCEPT ![f] = [curve[f] EXCEPT !.mode = "curve"]]
    BY <1>3, <1>t DEF CommitCurve
  <2> DEFINE up == ClampRampupPoint(curve[f].up, i, t)
  <2>4. edit' = [edit EXCEPT ![f] = [at |-> "up", up |-> up]] /\ Rising(up)
    BY <2>1, <2>2
  <2> HIDE DEF up
  <2>5. curve'[f].up = curve[f].up /\ edit'[f].at = "up" /\ edit'[f].up = up
    BY <1>t, <2>3, <2>4
  <2>6. Stored(f)'
    BY <2>4, <2>5 DEF EditsInv, Stored
  <2> QED
    BY <2>3, <2>4, <2>6, OthersStored
<1>4. ASSUME NEW f \in Fans, StoreRampup(f) PROVE EditsInv'
  <2>1. /\ curve' = [curve EXCEPT ![f] = [curve[f] EXCEPT !.up = edit[f].up]]
        /\ edit' = [edit EXCEPT ![f] = [edit[f] EXCEPT !.at = "down"]]
    BY <1>4, <1>t DEF StoreRampup
  <2>2. /\ curve'[f].up = edit[f].up /\ edit'[f].at = "down" /\ edit'[f].up = edit[f].up
    BY <1>t, <2>1
  <2>3. Stored(f)'
    BY <2>2 DEF EditsInv, Stored
  <2> QED
    BY <2>1, <2>3, OthersStored
<1>5. ASSUME NEW f \in Fans, StoreRampdown(f) PROVE EditsInv'
  <2> DEFINE down == DeriveRampdown(edit[f].up)
  <2>1. /\ curve' = [curve EXCEPT ![f].down = down]
        /\ edit' = [edit EXCEPT ![f] = [at |-> "none", up |-> InitRampup]]
        /\ curve[f].up = edit[f].up
    BY <1>5 DEF StoreRampdown, NoEdit, EditsInv, Stored
  <2>2. Below(down, curve[f].up)
    BY <1>t, <2>1, DeriveRampdownSound DEF Below, EditsInv, Stored
  <2> HIDE DEF down
  <2>3. curve' = [curve EXCEPT ![f] = [curve[f] EXCEPT !.down = down]]
    BY <1>t, <2>1
  <2>4. /\ curve'[f].up = curve[f].up /\ curve'[f].down = down
        /\ edit'[f].at = "none" /\ edit'[f].up = InitRampup
    BY <1>t, <2>1, <2>3
  <2>5. Stored(f)'
    BY <2>2, <2>4 DEF EditsInv, Stored
  <2> QED
    BY <2>1, <2>3, <2>5, OthersStored
<1>6. CASE TickIdle \/ TickSample \/ TickPush \/ TickServe
  BY <1>1, <1>6 DEF TickIdle, TickSample, TickPush, TickServe
<1>7. CASE TempChange \/ SetSmoothing \/ TrimWindow
  BY <1>1, <1>7 DEF TempChange, SetSmoothing, TrimWindow
<1>8. CASE UNCHANGED vars
  BY <1>1, <1>8 DEF vars
<1> QED
  BY <1>2, <1>3, <1>4, <1>5, <1>6, <1>7, <1>8 DEF Next, Monitor, Finish

\* Whatever points are dragged in whatever order, and wherever between two edits
\* the monitor ticks, a curve that started strictly rising stays so, and the
\* ramp-down curve stored with it never falls and stays below it, if those a
\* controller starts with do (curve.rs: clamp_rampup_point, derive_rampdown;
\* session.rs: apply_fan_edit).
THEOREM EditsKeepCurvesSound ==
    Rising(InitRampup) /\ Below(InitRampdown, InitRampup) => (Spec => []EditedCurvesSound)
<1>1. Rising(InitRampup) /\ Below(InitRampdown, InitRampup) /\ Init => MonitorInv /\ EditsInv
  BY MonitorInit, EditsInit
<1>2. Rising(InitRampup) /\ MonitorInv /\ EditsInv /\ [Next]_vars => MonitorInv' /\ EditsInv'
  BY MonitorStep, EditsStep DEF MonitorInv
<1>3. MonitorInv /\ EditsInv => EditedCurvesSound
  <2> SUFFICES ASSUME MonitorInv, EditsInv, NEW f \in Fans, edit[f].at = "none"
               PROVE  LET c == curve[f] IN
                      /\ \A i \in 1 .. NLevels - 1 :
                           c.up[i] < c.up[i + 1] /\ c.down[i] <= c.down[i + 1]
                      /\ \A i \in 1 .. NLevels : c.up[i] > 0 => c.down[i] < c.up[i]
    BY DEF EditedCurvesSound
  <2> DEFINE up == curve[f].up
             down == curve[f].down
  <2>1. up \in Ramp /\ down \in Ramp /\ Rising(up) /\ Below(down, up)
    BY DEF MonitorInv, TypeOK, EditsInv, Stored
  <2> HIDE DEF up, down
  <2>2. /\ \A i \in 1 .. NLevels - 1 : down[i] <= down[i + 1]
        /\ \A i \in 1 .. NLevels : down[i] <= SatSub(up[i], 1)
        /\ \A i \in 1 .. NLevels : up[i] \in Nat /\ down[i] \in Nat
    <3>1. Temp \subseteq Nat
      BY DEF Temp
    <3> QED
      BY <2>1, <3>1 DEF Ramp, Below
  <2>3. /\ \A i \in 1 .. NLevels - 1 : up[i] < up[i + 1] /\ down[i] <= down[i + 1]
        /\ \A i \in 1 .. NLevels : up[i] > 0 => down[i] < up[i]
    BY <2>1, <2>2 DEF Rising, SatSub, Greatest
  <2> QED
    BY <2>3 DEF up, down
<1>4. CASE Rising(InitRampup) /\ Below(InitRampdown, InitRampup)
  <2>1. Init => MonitorInv /\ EditsInv
    BY <1>1, <1>4
  <2>2. MonitorInv /\ EditsInv /\ [Next]_vars => MonitorInv' /\ EditsInv'
    BY <1>2, <1>4
  <2> QED
    BY <1>3, <2>1, <2>2, PTL DEF Spec
<1> QED
  BY <1>4

\* On a curve that edits leave behind, and at a temperature above 0, a fan never
\* goes back the step it has just taken: one that moved up stays or moves on up,
\* one that moved down stays or moves on down (curve.rs: next_fan_level).  With
\* the temperature still, a fan can therefore only move towards its level of
\* rest, which is why Settles holds.
THEOREM NoStepIsTakenBack ==
    ASSUME NEW up \in Ramp, Rising(up), NEW t \in Temp \ {0}, NEW l \in Level
    PROVE  LET down == DeriveRampdown(up)
               next == NextFanLevel(l, t, up, down)
           IN  /\ next > l => NextFanLevel(next, t, up, down) >= next
               /\ next < l => NextFanLevel(next, t, up, down) <= next
<1> DEFINE down == DeriveRampdown(up)
           next == NextFanLevel(l, t, up, down)
<1>1. /\ NLevels \in Nat \ {0} /\ l \in 0 .. NLevels /\ t \in Nat \ {0}
      /\ \A i \in 1 .. NLevels : up[i] \in Nat /\ down[i] \in Nat
  <2>1. down \in [1 .. NLevels -> Temp] /\ Temp \subseteq Nat
    BY DeriveRampdownIs DEF DownTo, Temp
  <2> HIDE DEF down
  <2> QED
    BY <2>1, CurveAssumption DEF Level, Temp, Ramp
<1>2. \A i \in 1 .. NLevels : t >= up[i] => ~(t <= down[i])
  <2>1. \A i \in 1 .. NLevels : down[i] <= SatSub(up[i], 1)
    BY DeriveRampdownSound
  <2> HIDE DEF down
  <2> QED
    BY <1>1, <2>1 DEF SatSub, Greatest
<1> HIDE DEF down
<1>3. ASSUME next > l PROVE NextFanLevel(next, t, up, down) >= next
  <2>1. next = l + 1 /\ l + 1 \in 1 .. NLevels /\ t >= up[l + 1]
    BY <1>1, <1>3 DEF NextFanLevel, Least
  <2>2. ~(t <= down[l + 1])
    BY <1>2, <2>1
  <2> HIDE DEF next
  <2> QED
    BY <1>1, <2>1, <2>2 DEF NextFanLevel, Least
<1>4. ASSUME next < l PROVE NextFanLevel(next, t, up, down) <= next
  <2>1. next = l - 1 /\ l \in 1 .. NLevels /\ t <= down[l]
    BY <1>1, <1>4 DEF NextFanLevel, Least
  <2>2. ~(t >= up[l])
    BY <1>2, <2>1
  <2> HIDE DEF next
  <2> QED
    BY <1>1, <2>1, <2>2 DEF NextFanLevel, Least
<1> QED
  BY <1>3, <1>4 DEF down
=============================================================================
