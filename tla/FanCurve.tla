------------------------------ MODULE FanCurve ------------------------------
(***************************************************************************)
(* The arithmetic of curve.rs and of the level encoding of ec.rs: which    *)
(* software level a fan takes for a temperature, how recent temperatures   *)
(* are averaged, and how the window derives and edits the two ramps.       *)
(*                                                                         *)
(* The arrays [u8; 5] of the source are functions on 1..NLevels: ramp      *)
(* entry i of this module is index i - 1 of the source.  Temperatures are  *)
(* bytes, and every operator below stays within 0..255 for byte arguments, *)
(* so no wrap-around is modelled.                                          *)
(***************************************************************************)
EXTENDS Integers, Sequences, SequencesExt, FiniteSetsExt

CONSTANTS NLevels,      \* highest software level: 5 in the source
          MaxTemp,      \* CURVE_TEMP_MAX: 100 in the source
          RampdownGap   \* RAMPDOWN_GAP_C: 8 in the source

ASSUME CurveAssumption ==
    /\ NLevels \in Nat \ {0}
    /\ MaxTemp \in Nat
    /\ RampdownGap \in Nat

Level == 0 .. NLevels
Temp  == 0 .. MaxTemp
Ramp  == [1 .. NLevels -> Temp]

Least(a, b)    == IF a <= b THEN a ELSE b
Greatest(a, b) == IF a >= b THEN a ELSE b

\* u8::saturating_sub
SatSub(a, b) == Greatest(a - b, 0)

\* T::clamp, defined for lo <= hi
Clamp(x, lo, hi) == Greatest(lo, Least(x, hi))

(***************************************************************************)
(* One step of a curve: up has priority over down, one level at a time.    *)
(***************************************************************************)
NextFanLevel(current, temp, up, down) ==
    LET c == Least(current, NLevels) IN
    IF c < NLevels /\ temp >= up[c + 1] THEN c + 1
    ELSE IF c > 0 /\ temp <= down[c] THEN c - 1
    ELSE c

\* The level a fan starts from when it enters curve mode: the highest point
\* of the ramp-up curve the temperature has reached.
InitialLevel(temp, up) ==
    LET reached == {i \in 1 .. NLevels : temp >= up[i]}
    IN  IF reached = {} THEN 0 ELSE Max(reached)

\* A fan at level l does not move at temperature t.
AtRest(l, t, up, down) == NextFanLevel(l, t, up, down) = l

\* Each ramp-down point lies below the ramp-up point of the same step.
Hysteretic(up, down) == \A i \in 1 .. NLevels : down[i] < up[i]

(***************************************************************************)
(* Smoothing: the last maxLen samples and their average, rounded half up.  *)
(***************************************************************************)
\* Variant: the window grows without limit.
PushTempSampleKeepsAll(window, t, maxLen) == Append(window, t)

\* Variant: one old sample is dropped where the source drops all there are.
PushTempSampleDropsOne(window, t, maxLen) ==
    IF Len(window) >= maxLen THEN Append(Tail(window), t) ELSE Append(window, t)

PushTempSample(window, t, maxLen) ==
    LET w == Append(window, t)
        n == Greatest(maxLen, 1)
    IN  IF Len(w) > n THEN SubSeq(w, Len(w) - n + 1, Len(w)) ELSE w

AverageTemps(samples) ==
    (FoldSeq(+, 0, samples) + Len(samples) \div 2) \div Len(samples)

(***************************************************************************)
(* The curve editor: the ramp-down curve derived from a ramp-up curve, and *)
(* the range a dragged ramp-up point is kept in.                           *)
(***************************************************************************)
DeriveRampdown(up) ==
    LET down[i \in 1 .. NLevels] ==
            LET below   == SatSub(up[i], 1)
                floor   == IF i = 1 THEN 0 ELSE down[i - 1]
                raised  == Greatest(Least(SatSub(up[i], RampdownGap), below), floor)
                capped  == IF up[i] > 0 /\ raised >= up[i] THEN up[i] - 1 ELSE raised
            IN  IF i > 1 /\ capped < floor THEN Least(floor, below) ELSE capped
    IN  down

\* Variant: a point may reach its upper neighbour.
ClampRampupPointTouching(up, i, t) ==
    LET lo == IF i = 1 THEN 0 ELSE up[i - 1] + 1
        hi == IF i = NLevels THEN MaxTemp ELSE up[i + 1]
    IN  IF lo > hi THEN up ELSE [up EXCEPT ![i] = Clamp(t, lo, hi)]

ClampRampupPoint(up, i, t) ==
    LET lo == IF i = 1 THEN 0 ELSE up[i - 1] + 1
        hi == IF i = NLevels THEN MaxTemp ELSE SatSub(up[i + 1], 1)
    IN  IF lo > hi THEN up ELSE [up EXCEPT ![i] = Clamp(t, lo, hi)]
=============================================================================
