------------------------- MODULE Temperature_proofs -------------------------
(***************************************************************************)
(* Theorems about Temperature, for any hardware: any number of adapters    *)
(* with any readings the drivers' integers hold.                           *)
(***************************************************************************)
EXTENDS Temperature, WellFoundedInduction, TLAPS

-----------------------------------------------------------------------------
(***************************************************************************)
(* The readings.                                                           *)
(***************************************************************************)
\* A set of naturals has a least element, and Min is it.
LEMMA LeastOf ==
    ASSUME NEW T, T \subseteq Nat, T # {}
    PROVE  Min(T) \in T
<1> DEFINE Less == {ss \in Nat \X Nat : ss[1] < ss[2]}
<1>1. IsWellFoundedOn(Less, Nat)
  BY NatLessThanWellFounded DEF OpToRel
<1>2. \E x \in T : \A y \in T : <<y, x>> \notin Less
  BY <1>1, WFMin
<1>3. PICK x \in T : \A y \in T : <<y, x>> \notin Less
  BY <1>2
<1>4. ASSUME NEW y \in T PROVE x <= y
  <2>1. ~(y < x)
    BY <1>3
  <2> QED
    BY <2>1, SMT
<1> QED
  BY <1>4 DEF Min

\* The first reading is a reading, and there is none only if there is none.
LEMMA FirstIsOne ==
    ASSUME NEW readings, DOMAIN readings \subseteq Nat
    PROVE  /\ FirstOf(readings) = None <=> \A i \in DOMAIN readings : readings[i] = None
           /\ FirstOf(readings) # None =>
                \E i \in DOMAIN readings : readings[i] = FirstOf(readings)
<1> DEFINE found == {i \in DOMAIN readings : readings[i] # None}
<1>1. found # {} => Min(found) \in found
  BY LeastOf
<1>2. FirstOf(readings) = IF found = {} THEN None ELSE readings[Min(found)]
  BY DEF FirstOf
<1> QED
  BY <1>1, <1>2

LEMMA PlausibleIsNone ==
    ASSUME NEW c
    PROVE  /\ Plausible(c) = None <=> c \notin 10 .. 115
           /\ Plausible(c) # None => Plausible(c) = c
BY DEF Plausible, None

LEMMA InRangeMeans ==
    ASSUME NEW m \in Int, NEW u \in Nat
    PROVE  InRange(m, u) <=> 19 * u <= 2 * m /\ 2 * m <= 231 * u - 1
<1> DEFINE lo == 19 * u
           hi == 231 * u - 1
           x  == 2 * m
<1>1. lo \in Int /\ hi \in Int /\ x \in Int
  BY SMT
<1>2. InRange(m, u) <=> x \in lo .. hi
  BY DEF InRange
<1> HIDE DEF lo, hi, x
<1>3. InRange(m, u) <=> lo <= x /\ x <= hi
  BY <1>1, <1>2, SMT
<1> QED
  BY <1>3, SMT DEF lo, hi, x

LEMMA WordIsWide ==
    /\ Word \in Nat /\ Word > 232000
    /\ Word \div 2 \in Nat /\ 2 * (Word \div 2) <= Word /\ Word \div 2 >= 116000
<1>1. ASSUME NEW w \in Nat, w > 232000
      PROVE  w \div 2 \in Nat /\ 2 * (w \div 2) <= w /\ w \div 2 >= 116000
  BY <1>1, SMT
<1> QED
  BY <1>1, TemperatureAssumption, SMT

LEMMA SmallModulo ==
    ASSUME NEW a \in Nat, NEW b \in Nat, a < b
    PROVE  a % b = a
BY SMT

LEMMA Rounded ==
    ASSUME NEW n \in Int, NEW u \in Nat \ {0}
    PROVE  n \div u \in Int /\ u * (n \div u) <= n /\ n < u * (n \div u) + u
BY SMT

\* A conversion finds a temperature exactly if the raw reading is in range,
\* and rounds it.
LEMMA DeciCelsiusRounds ==
    ASSUME NEW deci \in Unsigned
    PROVE  /\ DeciCelsius(deci) # None <=> InRange(deci, 10)
           /\ DeciCelsius(deci) # None => /\ DeciCelsius(deci) \in 10 .. 115
                                          /\ Rounds(deci, 10, DeciCelsius(deci))
<1> DEFINE sum == (deci + 5) % Word
           c   == sum \div 10
<1>w. Word \in Nat /\ Word > 232000 /\ deci \in Nat /\ deci < Word
  BY WordIsWide, SMT DEF Unsigned
<1>m. DeciCelsius(deci) = IF deci = 0 THEN None ELSE Plausible(c)
  BY DEF DeciCelsius
<1>i. InRange(deci, 10) <=> 190 <= 2 * deci /\ 2 * deci <= 2309
  <2>1. InRange(deci, 10) <=> 19 * 10 <= 2 * deci /\ 2 * deci <= 231 * 10 - 1
    BY <1>w, InRangeMeans, SMT
  <2> QED
    BY <1>w, <2>1, SMT
<1>n. None \notin 10 .. 115
  BY SMT DEF None
<1>1. CASE deci + 5 < Word
  <2>1. sum = deci + 5
    BY <1>1, <1>w, SmallModulo, SMT
  <2>2. c \in Int /\ 10 * c <= deci + 5 /\ deci + 5 < 10 * c + 10
    <3>1. c \in Int /\ 10 * c <= sum /\ sum < 10 * c + 10
      BY <1>w, <2>1, Rounded, SMT
    <3> QED
      BY <2>1, <3>1, SMT
  <2> HIDE DEF sum, c
  <2>3. c \in 10 .. 115 <=> 190 <= 2 * deci /\ 2 * deci <= 2309
    BY <1>w, <2>2, SMT
  <2>4. c \in 10 .. 115 => deci # 0
    BY <1>w, <2>2, SMT
  <2>5. DeciCelsius(deci) = IF c \in 10 .. 115 THEN c ELSE None
    BY <1>m, <2>4, SMT DEF Plausible
  <2>6. Rounds(deci, 10, c)
    BY <1>w, <2>2, SMT DEF Rounds
  <2>7. DeciCelsius(deci) # None <=> c \in 10 .. 115
    BY <1>n, <2>5
  <2>8. DeciCelsius(deci) # None => DeciCelsius(deci) = c
    BY <1>n, <2>5
  <2>9. InRange(deci, 10) <=> c \in 10 .. 115
    BY <1>i, <2>3
  <2> QED
    BY <2>6, <2>7, <2>8, <2>9
<1>2. CASE deci + 5 >= Word
  <2>1. sum = deci + 5 - Word
    <3>1. /\ deci \in Nat /\ Word \in Nat
          /\ deci + 5 >= Word /\ deci + 5 < 2 * Word
      BY <1>2, <1>w, SMT
    <3> QED
      BY <3>1, SMT
  <2>2. c = 0
    <3>1. sum \in 0 .. 4
      BY <1>w, <2>1, SMT
    <3>2. c \in Int /\ 10 * c <= sum /\ sum < 10 * c + 10
      BY <3>1, Rounded, SMT
    <3> HIDE DEF sum, c
    <3> QED
      BY <3>1, <3>2, SMT
  <2>3. DeciCelsius(deci) = None
    BY <1>m, <2>2, SMT DEF Plausible
  <2>4. ~(2 * deci <= 2309)
    BY <1>2, <1>w, SMT
  <2> QED
    BY <1>i, <2>3, <2>4, SMT
<1> QED
  BY <1>1, <1>2, <1>w, SMT

LEMMA MilliCelsiusRounds ==
    ASSUME NEW milli \in Integer
    PROVE  /\ MilliCelsius(milli) # None <=> InRange(milli, 1000)
           /\ MilliCelsius(milli) # None => MilliCelsius(milli) \in 10 .. 115
<1> DEFINE half == Word \div 2
           sum  == Signed(milli + 500)
           c    == sum \div 1000
<1>w. /\ Word \in Nat /\ 2 * half <= Word /\ half \in Nat /\ half >= 116000
      /\ milli \in Int /\ -half <= milli /\ milli < half
  BY WordIsWide, SMT DEF Integer
<1>s. sum = IF milli + 500 >= half THEN milli + 500 - Word ELSE milli + 500
  BY <1>w, SMT DEF Signed
<1>m. MilliCelsius(milli) = IF milli <= 0 \/ sum < 0 THEN None ELSE Plausible(c)
  BY DEF MilliCelsius
<1>c. sum \in Int => c \in Int /\ 1000 * c <= sum /\ sum < 1000 * c + 1000
  BY Rounded, SMT
<1>i. InRange(milli, 1000) <=> 19000 <= 2 * milli /\ 2 * milli <= 230999
  <2>1. InRange(milli, 1000) <=> 19 * 1000 <= 2 * milli /\ 2 * milli <= 231 * 1000 - 1
    BY <1>w, InRangeMeans, SMT
  <2> QED
    BY <1>w, <2>1, SMT
<1>n. None \notin 10 .. 115
  BY SMT DEF None
<1> HIDE DEF half, sum, c
<1>1. CASE milli + 500 >= half
  <2>1. sum < 0 /\ ~(2 * milli <= 230999)
    BY <1>1, <1>w, <1>s, SMT
  <2>2. MilliCelsius(milli) = None
    BY <1>m, <2>1, SMT
  <2> QED
    BY <1>i, <2>1, <2>2, SMT
<1>2. CASE milli + 500 < half
  <2>1. sum = milli + 500 /\ c \in Int /\ 1000 * c <= sum /\ sum < 1000 * c + 1000
    BY <1>2, <1>w, <1>s, <1>c, SMT
  <2>2. c \in 10 .. 115 <=> 19000 <= 2 * milli /\ 2 * milli <= 230999
    BY <1>w, <2>1, SMT
  <2>3. c \in 10 .. 115 => ~(milli <= 0 \/ sum < 0)
    BY <1>w, <2>1, SMT
  <2>4. MilliCelsius(milli) = IF c \in 10 .. 115 THEN c ELSE None
    BY <1>m, <2>3, SMT DEF Plausible
  <2>5. InRange(milli, 1000) <=> c \in 10 .. 115
    BY <1>i, <2>2, SMT
  <2> QED
    BY <1>n, <2>4, <2>5
<1> QED
  BY <1>1, <1>2, <1>w, SMT
\* What the graphics interface's adapters say, the AMD ones and the others.
AmdReadings(adapters) ==
    [i \in DOMAIN adapters |->
        IF adapters[i].vendor = "amd" THEN WddmAdapter(adapters[i]) ELSE None]
OtherReadings(adapters) ==
    [i \in DOMAIN adapters |->
        IF adapters[i].vendor # "amd" THEN WddmAdapter(adapters[i]) ELSE None]

LEMMA WddmAdapterRounds ==
    ASSUME NEW a \in WddmListed
    PROVE  /\ WddmAdapter(a) # None <=> GpuOn(a)
           /\ WddmAdapter(a) # None => /\ WddmAdapter(a) \in 10 .. 115
                                       /\ Rounds(a.deci, 10, WddmAdapter(a))
<1>1. a.deci \in Unsigned /\ a.software \in BOOLEAN
  BY DEF WddmListed
<1>2. /\ DeciCelsius(a.deci) # None <=> InRange(a.deci, 10)
      /\ DeciCelsius(a.deci) # None => /\ DeciCelsius(a.deci) \in 10 .. 115
                                       /\ Rounds(a.deci, 10, DeciCelsius(a.deci))
  BY <1>1, DeciCelsiusRounds
<1>3. WddmAdapter(a) = IF a.software THEN None ELSE DeciCelsius(a.deci)
  BY DEF WddmAdapter
<1> QED
  BY <1>1, <1>2, <1>3, SMT DEF GpuOn

\* The graphics interface has a temperature exactly if one of its adapters
\* has one, and it is an AMD adapter's if possible.
LEMMA WddmGpuIs ==
    ASSUME NEW adapters \in Seq(WddmListed)
    PROVE  /\ WddmGpu(adapters) = None <=> \A i \in DOMAIN adapters : ~GpuOn(adapters[i])
           /\ WddmGpu(adapters) # None =>
                /\ WddmGpu(adapters) \in 10 .. 115
                /\ \E i \in DOMAIN adapters :
                    /\ GpuOn(adapters[i]) /\ Rounds(adapters[i].deci, 10, WddmGpu(adapters))
                    /\ \/ adapters[i].vendor = "amd"
                       \/ ~ \E j \in DOMAIN adapters :
                                GpuOn(adapters[j]) /\ adapters[j].vendor = "amd"
<1> DEFINE D == DOMAIN adapters
           amd   == AmdReadings(adapters)
           other == OtherReadings(adapters)
<1>1. D \subseteq Nat /\ \A i \in D : adapters[i] \in WddmListed
  BY SMT
<1>2. WddmGpu(adapters) = OrElse(FirstOf(amd), FirstOf(other))
  BY DEF WddmGpu, AmdReadings, OtherReadings
<1>3. DOMAIN amd = D /\ DOMAIN other = D
  BY DEF AmdReadings, OtherReadings
<1>4. \A i \in D : /\ amd[i] = IF adapters[i].vendor = "amd" THEN WddmAdapter(adapters[i]) ELSE None
                   /\ other[i] = IF adapters[i].vendor # "amd" THEN WddmAdapter(adapters[i]) ELSE None
  BY DEF AmdReadings, OtherReadings
<1>5. /\ FirstOf(amd) = None <=> \A i \in D : amd[i] = None
      /\ FirstOf(amd) # None => \E i \in D : amd[i] = FirstOf(amd)
  BY <1>1, <1>3, FirstIsOne
<1>6. /\ FirstOf(other) = None <=> \A i \in D : other[i] = None
      /\ FirstOf(other) # None => \E i \in D : other[i] = FirstOf(other)
  BY <1>1, <1>3, FirstIsOne
<1>7. \A i \in D : /\ WddmAdapter(adapters[i]) # None <=> GpuOn(adapters[i])
                   /\ WddmAdapter(adapters[i]) # None =>
                        /\ WddmAdapter(adapters[i]) \in 10 .. 115
                        /\ Rounds(adapters[i].deci, 10, WddmAdapter(adapters[i]))
  BY <1>1, WddmAdapterRounds
<1> HIDE DEF D, amd, other
<1>8. CASE FirstOf(amd) # None
  <2>1. WddmGpu(adapters) = FirstOf(amd)
    BY <1>2, <1>8 DEF OrElse
  <2>2. PICK i \in D : amd[i] = FirstOf(amd)
    BY <1>5, <1>8
  <2>3. adapters[i].vendor = "amd" /\ WddmAdapter(adapters[i]) = FirstOf(amd)
    BY <1>4, <1>8, <2>2
  <2>4. GpuOn(adapters[i]) /\ Rounds(adapters[i].deci, 10, WddmGpu(adapters))
        /\ WddmGpu(adapters) \in 10 .. 115 /\ WddmGpu(adapters) # None
    BY <1>7, <1>8, <2>1, <2>2, <2>3
  <2> QED
    BY <2>2, <2>3, <2>4 DEF D
<1>9. CASE FirstOf(amd) = None
  <2>1. WddmGpu(adapters) = FirstOf(other)
    BY <1>2, <1>9 DEF OrElse
  <2>2. \A j \in D : ~(GpuOn(adapters[j]) /\ adapters[j].vendor = "amd")
    BY <1>4, <1>5, <1>7, <1>9
  <2>3. CASE FirstOf(other) = None
    <3>1. \A j \in D : ~GpuOn(adapters[j])
      BY <1>4, <1>6, <1>7, <2>2, <2>3
    <3> QED
      BY <2>1, <2>3, <3>1 DEF D
  <2>4. CASE FirstOf(other) # None
    <3>1. PICK i \in D : other[i] = FirstOf(other)
      BY <1>6, <2>4
    <3>2. WddmAdapter(adapters[i]) = FirstOf(other)
      BY <1>4, <2>4, <3>1
    <3>3. GpuOn(adapters[i]) /\ Rounds(adapters[i].deci, 10, WddmGpu(adapters))
          /\ WddmGpu(adapters) \in 10 .. 115 /\ WddmGpu(adapters) # None
      BY <1>7, <2>1, <2>4, <3>1, <3>2
    <3> QED
      BY <2>2, <3>1, <3>3 DEF D
  <2> QED
    BY <2>3, <2>4
<1> QED
  BY <1>8, <1>9

\* What the second interface's adapters say of each sensor.
AdlReadings(adapters, sensor) ==
    [i \in DOMAIN adapters |->
        IF sensor = "gpu" THEN OrElse(Plausible(adapters[i].gfx), Plausible(adapters[i].edge))
        ELSE Plausible(adapters[i][sensor])]

LEMMA AdlSensorsAre ==
    ASSUME NEW adapters \in Seq(AdlListed)
    PROVE  /\ \A s \in {"gpu", "cpu", "soc", "hotspot"} :
                AdlSensors(adapters)[s] \in {None} \cup 10 .. 115
           /\ AdlSensors(adapters).gpu = None =>
                \A i \in DOMAIN adapters :
                    {adapters[i].gfx, adapters[i].edge} \cap 10 .. 115 = {}
           /\ \A s \in {"cpu", "soc", "hotspot"} :
                AdlSensors(adapters)[s] = None =>
                    \A i \in DOMAIN adapters : adapters[i][s] \notin 10 .. 115
<1> DEFINE D == DOMAIN adapters
<1>1. D \subseteq Nat
  BY SMT
<1>2. \A s \in {"gpu", "cpu", "soc", "hotspot"} :
        AdlSensors(adapters)[s] = FirstOf(AdlReadings(adapters, s))
  <2>1. /\ AdlReadings(adapters, "gpu") =
              [i \in D |-> OrElse(Plausible(adapters[i].gfx), Plausible(adapters[i].edge))]
        /\ AdlReadings(adapters, "cpu") = [i \in D |-> Plausible(adapters[i].cpu)]
        /\ AdlReadings(adapters, "soc") = [i \in D |-> Plausible(adapters[i].soc)]
        /\ AdlReadings(adapters, "hotspot") = [i \in D |-> Plausible(adapters[i].hotspot)]
    BY DEF AdlReadings
  <2>2. AdlSensors(adapters) =
            [gpu |-> FirstOf(AdlReadings(adapters, "gpu")),
             cpu |-> FirstOf(AdlReadings(adapters, "cpu")),
             soc |-> FirstOf(AdlReadings(adapters, "soc")),
             hotspot |-> FirstOf(AdlReadings(adapters, "hotspot"))]
    BY <2>1 DEF AdlSensors
  <2> QED
    BY <2>2
<1>3. ASSUME NEW s \in {"gpu", "cpu", "soc", "hotspot"}
      PROVE  /\ AdlSensors(adapters)[s] \in {None} \cup 10 .. 115
             /\ AdlSensors(adapters)[s] = None =>
                    \A i \in D : AdlReadings(adapters, s)[i] = None
  <2>1. DOMAIN AdlReadings(adapters, s) = D
    BY DEF AdlReadings
  <2>2. \A i \in D : AdlReadings(adapters, s)[i] \in {None} \cup 10 .. 115
    BY DEF AdlReadings, OrElse, Plausible
  <2>3. /\ FirstOf(AdlReadings(adapters, s)) = None <=>
                \A i \in D : AdlReadings(adapters, s)[i] = None
        /\ FirstOf(AdlReadings(adapters, s)) # None =>
                \E i \in D : AdlReadings(adapters, s)[i] = FirstOf(AdlReadings(adapters, s))
    BY <1>1, <2>1, FirstIsOne
  <2> QED
    BY <1>2, <2>2, <2>3
<1>4. ASSUME NEW i \in D, AdlReadings(adapters, "gpu")[i] = None
      PROVE  adapters[i].gfx \notin 10 .. 115 /\ adapters[i].edge \notin 10 .. 115
  <2>1. OrElse(Plausible(adapters[i].gfx), Plausible(adapters[i].edge)) = None
    BY <1>4 DEF AdlReadings
  <2>2. Plausible(adapters[i].gfx) = None /\ Plausible(adapters[i].edge) = None
    BY <2>1 DEF OrElse
  <2> QED
    BY <2>2, PlausibleIsNone
<1>5. ASSUME NEW s \in {"cpu", "soc", "hotspot"}, NEW i \in D,
             AdlReadings(adapters, s)[i] = None
      PROVE  adapters[i][s] \notin 10 .. 115
  <2>1. Plausible(adapters[i][s]) = None
    BY <1>5 DEF AdlReadings
  <2> QED
    BY <2>1, PlausibleIsNone
<1> QED
  BY <1>3, <1>4, <1>5

LEMMA HardwareListed ==
    ASSUME NEW h \in Hardware
    PROVE  /\ h.ec \in 0 .. 255 /\ h.wddm \in Seq(WddmListed)
           /\ h.adl \in Seq(AdlListed) /\ h.od5 \in Seq(Integer)
BY TemperatureAssumption, SMT

LEMMA AdlOd5Is ==
    ASSUME NEW adapters \in Seq(Integer)
    PROVE  /\ AdlOd5(adapters) \in {None} \cup 10 .. 115
           /\ AdlOd5(adapters) = None =>
                \A i \in DOMAIN adapters : ~InRange(adapters[i], 1000)
<1> DEFINE D == DOMAIN adapters
           readings == [i \in D |-> MilliCelsius(adapters[i])]
<1>1. D \subseteq Nat /\ \A i \in D : adapters[i] \in Integer
  BY SMT
<1>2. AdlOd5(adapters) = FirstOf(readings)
  BY DEF AdlOd5
<1>3. DOMAIN readings = D /\ \A i \in D : readings[i] = MilliCelsius(adapters[i])
  OBVIOUS
<1>4. \A i \in D : /\ MilliCelsius(adapters[i]) # None <=> InRange(adapters[i], 1000)
                   /\ MilliCelsius(adapters[i]) # None =>
                        MilliCelsius(adapters[i]) \in 10 .. 115
  BY <1>1, MilliCelsiusRounds
<1> HIDE DEF readings
<1>5. /\ FirstOf(readings) = None <=> \A i \in D : readings[i] = None
      /\ FirstOf(readings) # None => \E i \in D : readings[i] = FirstOf(readings)
  BY <1>1, <1>3, FirstIsOne
<1>6. CASE FirstOf(readings) = None
  BY <1>2, <1>3, <1>4, <1>5, <1>6
<1>7. CASE FirstOf(readings) # None
  <2>1. PICK i \in D : readings[i] = FirstOf(readings)
    BY <1>5, <1>7
  <2>2. FirstOf(readings) \in 10 .. 115
    <3>1. readings[i] = MilliCelsius(adapters[i])
      BY <1>3
    <3>2. MilliCelsius(adapters[i]) # None => MilliCelsius(adapters[i]) \in 10 .. 115
      BY <1>4
    <3> QED
      BY <1>7, <2>1, <3>1, <3>2, Zenon
  <2> QED
    BY <1>2, <1>7, <2>2
<1> QED
  BY <1>6, <1>7

\* What the sensors of read_thermal are, in terms of the raw readings.
LEMMA GpuSensorIs ==
    ASSUME NEW h \in Hardware
    PROVE  /\ Sensors[h].gpu \in {None} \cup 10 .. 115
           /\ Sensors[h].gpu = None =>
                /\ AnyGpu(h) = {}
                /\ \A i \in DOMAIN h.adl : {h.adl[i].gfx, h.adl[i].edge} \cap 10 .. 115 = {}
                /\ \A i \in DOMAIN h.od5 : ~InRange(h.od5[i], 1000)
           /\ AnyGpu(h) # {} =>
                \E i \in IF Amd(h) # {} THEN Amd(h) ELSE AnyGpu(h) :
                    Rounds(h.wddm[i].deci, 10, Sensors[h].gpu)
<1> DEFINE w == WddmGpu(h.wddm)
           a == AdlSensors(h.adl).gpu
           o == AdlOd5(h.od5)
<1>1. h.wddm \in Seq(WddmListed) /\ h.adl \in Seq(AdlListed) /\ h.od5 \in Seq(Integer)
  BY HardwareListed
<1>2. Sensors[h].gpu = OrElse(w, OrElse(a, o))
  BY DEF Sensors
<1>3. /\ w \in {None} \cup 10 .. 115
      /\ w = None => \A i \in DOMAIN h.wddm : ~GpuOn(h.wddm[i])
      /\ w # None => \E i \in DOMAIN h.wddm :
                        /\ GpuOn(h.wddm[i]) /\ Rounds(h.wddm[i].deci, 10, w)
                        /\ \/ h.wddm[i].vendor = "amd"
                           \/ ~ \E j \in DOMAIN h.wddm :
                                    GpuOn(h.wddm[j]) /\ h.wddm[j].vendor = "amd"
  BY <1>1, WddmGpuIs, Zenon
<1>4. /\ a \in {None} \cup 10 .. 115
      /\ a = None => \A i \in DOMAIN h.adl : {h.adl[i].gfx, h.adl[i].edge} \cap 10 .. 115 = {}
  BY <1>1, AdlSensorsAre
<1>5. /\ o \in {None} \cup 10 .. 115
      /\ o = None => \A i \in DOMAIN h.od5 : ~InRange(h.od5[i], 1000)
  BY <1>1, AdlOd5Is
<1> HIDE DEF w, a, o
<1>6. /\ Sensors[h].gpu \in {None} \cup 10 .. 115
      /\ Sensors[h].gpu = None => w = None /\ a = None /\ o = None
      /\ w # None => Sensors[h].gpu = w
  BY <1>2, <1>3, <1>4, <1>5 DEF OrElse
<1>7. w = None => AnyGpu(h) = {}
  BY <1>3 DEF AnyGpu
<1>8. w # None => \E i \in IF Amd(h) # {} THEN Amd(h) ELSE AnyGpu(h) :
                        Rounds(h.wddm[i].deci, 10, w)
  <2> SUFFICES ASSUME w # None
               PROVE  \E i \in IF Amd(h) # {} THEN Amd(h) ELSE AnyGpu(h) :
                        Rounds(h.wddm[i].deci, 10, w)
    OBVIOUS
  <2>1. PICK i \in DOMAIN h.wddm :
            /\ GpuOn(h.wddm[i]) /\ Rounds(h.wddm[i].deci, 10, w)
            /\ \/ h.wddm[i].vendor = "amd"
               \/ ~ \E j \in DOMAIN h.wddm : GpuOn(h.wddm[j]) /\ h.wddm[j].vendor = "amd"
    BY <1>3
  <2>2. i \in AnyGpu(h) /\ (h.wddm[i].vendor = "amd" => i \in Amd(h))
    BY <2>1 DEF AnyGpu, Amd
  <2>3. h.wddm[i].vendor # "amd" => Amd(h) = {}
    BY <2>1 DEF Amd
  <2> QED
    BY <2>1, <2>2, <2>3
<1> QED
  BY <1>4, <1>5, <1>6, <1>7, <1>8

LEMMA OtherSensorsAre ==
    ASSUME NEW h \in Hardware, NEW s \in {"cpu", "soc", "hotspot"}
    PROVE  /\ Sensors[h][s] \in {None} \cup 10 .. 115
           /\ Sensors[h][s] = None => \A i \in DOMAIN h.adl : h.adl[i][s] \notin 10 .. 115
<1>1. h.adl \in Seq(AdlListed)
  BY HardwareListed
<1>2. Sensors[h][s] = AdlSensors(h.adl)[s]
  BY DEF Sensors
<1>3. s \in {"gpu", "cpu", "soc", "hotspot"}
  OBVIOUS
<1>4. AdlSensors(h.adl)[s] \in {None} \cup 10 .. 115
  BY <1>1, <1>3, AdlSensorsAre
<1>5. AdlSensors(h.adl)[s] = None => \A i \in DOMAIN h.adl : h.adl[i][s] \notin 10 .. 115
  BY <1>1, AdlSensorsAre
<1> QED
  BY <1>2, <1>4, <1>5, Zenon

\* A GPU temperature put together from several moments is one of them.
LEMMA GpuReadingsAre ==
    ASSUME NEW h \in Hardware, NEW gpu \in GpuReadings[h]
    PROVE  gpu \in {None} \cup 10 .. 115
<1>1. PICK w \in Hardware, o \in Hardware :
        gpu = OrElse(WddmGpu(w.wddm), OrElse(AdlSensors(h.adl).gpu, AdlOd5(o.od5)))
  BY DEF GpuReadings
<1>2. w.wddm \in Seq(WddmListed) /\ h.adl \in Seq(AdlListed) /\ o.od5 \in Seq(Integer)
  BY HardwareListed
<1>3. WddmGpu(w.wddm) \in {None} \cup 10 .. 115
  BY <1>2, WddmGpuIs
<1>4. AdlSensors(h.adl).gpu \in {None} \cup 10 .. 115
  BY <1>2, AdlSensorsAre
<1>5. AdlOd5(o.od5) \in {None} \cup 10 .. 115
  BY <1>2, AdlOd5Is
<1> QED
  BY <1>1, <1>3, <1>4, <1>5, Zenon DEF OrElse

\* The reading the curves and the alert go by.
LEMMA Controls ==
    ASSUME hw \in Hardware, preferred \in Sources, NEW ec \in 0 .. 255, NEW gpu
    PROVE  LET c == ReadThermal(ec, gpu) IN
           /\ c = [temp |-> c.temp, source |-> c.source]
           /\ \/ c.source = "ec" /\ c.temp = ec
              \/ c.source = "gpu" /\ c.temp = gpu /\ c.temp # None
              \/ /\ c.source \in {"cpu", "soc", "hotspot"} /\ c.source = preferred
                 /\ c.temp = Sensors[hw][preferred] /\ c.temp # None
           /\ preferred = "ec" => c.source = "ec"
           /\ preferred # "ec" /\ c.source = "ec" => gpu = None
           /\ preferred \in {"cpu", "soc", "hotspot"} /\ c.source # preferred =>
                Sensors[hw][preferred] = None
<1> DEFINE r == [Sensors[hw] EXCEPT !.ec = ec, !.gpu = gpu]
<1>1. /\ r.gpu = gpu /\ r.cpu = Sensors[hw].cpu /\ r.soc = Sensors[hw].soc
      /\ r.hotspot = Sensors[hw].hotspot /\ r.ec = ec
  BY DEF Sensors
<1>2. ec # None
  BY DEF None
<1>3. ReadThermal(ec, gpu) = PickControl(preferred, r)
  BY DEF ReadThermal
<1> HIDE DEF r
<1>4. /\ \A s \in {"cpu", "soc", "hotspot"} : r[s] = Sensors[hw][s]
      /\ r["gpu"] = gpu /\ r["ec"] = ec
  BY <1>1
<1>5. CASE preferred = "ec"
  BY <1>2, <1>3, <1>4, <1>5 DEF PickControl
<1>6. CASE preferred = "gpu"
  BY <1>1, <1>3, <1>4, <1>6 DEF PickControl
<1>7. CASE preferred \in {"cpu", "soc", "hotspot"}
  BY <1>1, <1>3, <1>4, <1>7 DEF PickControl
<1> QED
  BY <1>5, <1>6, <1>7 DEF Sources

LEMMA FollowsReadme ==
    ASSUME hw \in Hardware, preferred \in Sources
    PROVE  ControlFollowsReadme
<1> DEFINE c == Control
<1>0. hw.ec \in 0 .. 255
  BY HardwareListed
<1>1. /\ c = [temp |-> c.temp, source |-> c.source]
      /\ \/ c.source = "ec" /\ c.temp = hw.ec
         \/ c.source = "gpu" /\ c.temp = Sensors[hw].gpu /\ c.temp # None
         \/ /\ c.source \in {"cpu", "soc", "hotspot"} /\ c.source = preferred
            /\ c.temp = Sensors[hw][preferred] /\ c.temp # None
      /\ preferred = "ec" => c.source = "ec"
      /\ preferred # "ec" /\ c.source = "ec" => Sensors[hw].gpu = None
      /\ preferred \in {"cpu", "soc", "hotspot"} /\ c.source # preferred =>
            Sensors[hw][preferred] = None
  BY <1>0, Controls DEF Control
<1> HIDE DEF c
<1>2. preferred = "ec" => c = [temp |-> hw.ec, source |-> "ec"]
  BY <1>1
<1>3. c.source \in {preferred, "gpu", "ec"}
  BY <1>1
<1>4. c.source = "ec" /\ preferred # "ec" =>
        /\ AnyGpu(hw) = {}
        /\ \A i \in DOMAIN hw.adl : {hw.adl[i].gfx, hw.adl[i].edge} \cap 10 .. 115 = {}
        /\ \A i \in DOMAIN hw.od5 : ~InRange(hw.od5[i], 1000)
  BY <1>1, GpuSensorIs
<1>5. preferred \in {"cpu", "soc", "hotspot"} /\ c.source # preferred =>
        \A i \in DOMAIN hw.adl : hw.adl[i][preferred] \notin 10 .. 115
  BY <1>1, OtherSensorsAre
<1>6. c.source # "ec" => c.temp \in 10 .. 115
  BY <1>1, GpuSensorIs, OtherSensorsAre
<1>7. c.source = "gpu" /\ AnyGpu(hw) # {} =>
        \E i \in IF Amd(hw) # {} THEN Amd(hw) ELSE AnyGpu(hw) :
            Rounds(hw.wddm[i].deci, 10, c.temp)
  BY <1>1, GpuSensorIs
<1> QED
  BY <1>2, <1>3, <1>4, <1>5, <1>6, <1>7 DEF ControlFollowsReadme, c
-----------------------------------------------------------------------------
(***************************************************************************)
(* Type correctness.                                                       *)
(***************************************************************************)
Snapshots  == {<<>>} \cup {<<r>> : r \in Reading}
PollStates == [at : {"idle", "drivers", "publish"}, ec : 0 .. 255, reading : Snapshots]

LEMMA ReadingsTyped ==
    ASSUME hw \in Hardware, preferred \in Sources, NEW ec \in 0 .. 255,
           NEW gpu \in {None} \cup 10 .. 115
    PROVE  ReadThermal(ec, gpu) \in Reading
<1> DEFINE c == ReadThermal(ec, gpu)
<1>1. /\ c = [temp |-> c.temp, source |-> c.source]
      /\ \/ c.source = "ec" /\ c.temp = ec
         \/ c.source = "gpu" /\ c.temp = gpu /\ c.temp # None
         \/ /\ c.source \in {"cpu", "soc", "hotspot"} /\ c.source = preferred
            /\ c.temp = Sensors[hw][preferred] /\ c.temp # None
  BY Controls
<1> HIDE DEF c
<1>2. c.temp \in 0 .. 255
  BY <1>1, OtherSensorsAre
<1>3. c.source \in Sources
  BY <1>1 DEF Sources
<1> QED
  BY <1>1, <1>2, <1>3 DEF Reading, c

LEMMA PollFields ==
    /\ Idle \in PollStates
    /\ \A ec \in 0 .. 255 : [Idle EXCEPT !.at = "drivers", !.ec = ec] \in PollStates
    /\ \A r \in Reading : [Idle EXCEPT !.at = "publish", !.reading = <<r>>] \in PollStates
    /\ \A q \in PollStates : q.ec \in 0 .. 255 /\ q.reading \in Snapshots
<1>1. <<>> \in Snapshots /\ \A r \in Reading : <<r>> \in Snapshots
  BY DEF Snapshots
<1> DEFINE ats == {"idle", "drivers", "publish"}
<1>2. PollStates = [at : ats, ec : 0 .. 255, reading : Snapshots]
  BY DEF PollStates
<1>3. Idle = [at |-> "idle", ec |-> 0, reading |-> <<>>] /\ 0 \in 0 .. 255
  BY DEF Idle
<1>5. {"idle", "drivers", "publish"} \subseteq ats
  OBVIOUS
<1> HIDE DEF ats
<1>6. Idle \in PollStates
  BY <1>1, <1>2, <1>3, <1>5
<1> HIDE DEF Snapshots
<1>4. ASSUME NEW q \in PollStates, NEW a \in ats
      PROVE  /\ \A ec \in 0 .. 255 : [q EXCEPT !.at = a, !.ec = ec] \in PollStates
             /\ \A r \in Snapshots : [q EXCEPT !.at = a, !.reading = r] \in PollStates
  BY <1>2, <1>4
<1>7. \A ec \in 0 .. 255 : [Idle EXCEPT !.at = "drivers", !.ec = ec] \in PollStates
  BY <1>4, <1>5, <1>6
<1>8. \A r \in Reading : [Idle EXCEPT !.at = "publish", !.reading = <<r>>] \in PollStates
  BY <1>1, <1>4, <1>5, <1>6
<1>9. \A q \in PollStates : q.ec \in 0 .. 255 /\ q.reading \in Snapshots
  BY <1>2
<1> QED
  BY <1>6, <1>7, <1>8, <1>9

LEMMA Clamped == \A t \in 0 .. 255 : ClampThreshold(t) \in 70 .. 97
BY DEF ClampThreshold

LEMMA LaterTyped ==
    ASSUME NEW t \in {Never} \cup 0 .. Cooldown
    PROVE  /\ Later(t) \in {Never} \cup 0 .. Cooldown
           /\ Later(t) = Never <=> t = Never
           /\ Later(t) # 0
           /\ t # Never => Later(t) = IF t < Cooldown THEN t + 1 ELSE Cooldown
<1>1. Cooldown \in Nat \ {0}
  BY TemperatureAssumption, SMT
<1> QED
  BY <1>1 DEF Later, Never

\* TypeOK in parts, for the prover.
Chosen ==
    /\ hw \in Hardware /\ preferred \in Sources
    /\ alert \in [enabled : BOOLEAN, threshold : 70 .. 97]
    /\ icon \in BOOLEAN
Polled == metrics \in Snapshots /\ poll \in [Pollers -> PollStates]
Timed  == last \in {Never} \cup 0 .. Cooldown /\ quiet \in {Never} \cup 0 .. Cooldown

LEMMA TypedIsTypeOK == TypeOK <=> Chosen /\ Polled /\ Timed
BY DEF TypeOK, Chosen, Polled, Timed, Snapshots, PollStates

\* The user was shown an alert no later than the last one fired.
FiredSince == quiet # Never => last # Never /\ last <= quiet

LEMMA ChosenStep ==
    ASSUME Chosen, [Next]_vars
    PROVE  Chosen'
<1>1. CASE Sense \/ ChooseSensor
  BY <1>1 DEF Sense, ChooseSensor, Chosen
<1>2. CASE SetAlert
  <2>1. PICK on \in BOOLEAN, t \in Thresholds :
            alert' = [enabled |-> on, threshold |-> ClampThreshold(t)]
    BY <1>2 DEF SetAlert
  <2>2. ClampThreshold(t) \in 70 .. 97
    <3>1. t \in 0 .. 255
      BY TemperatureAssumption, SMT
    <3> QED
      BY <3>1, Clamped
  <2>3. alert' \in [enabled : BOOLEAN, threshold : 70 .. 97]
    BY <2>1, <2>2
  <2> QED
    BY <1>2, <2>3 DEF SetAlert, Chosen
<1>3. CASE IconChange
  <2>1. icon' \in BOOLEAN
    BY <1>3 DEF IconChange
  <2> QED
    BY <1>3, <2>1 DEF IconChange, Chosen
<1>4. CASE \/ Restart \/ Fire \/ Tick \/ UNCHANGED vars
           \/ \E p \in Pollers : ReadEc(p) \/ Poll(p)
  BY <1>4 DEF Restart, Fire, Tick, vars, ReadEc, Poll, ReadDrivers, GiveUp, Publish, Chosen
<1> QED
  BY <1>1, <1>2, <1>3, <1>4 DEF Next

LEMMA PolledStep ==
    ASSUME Chosen, Polled, [Next]_vars
    PROVE  Polled'
<1>1. ASSUME NEW p \in Pollers, ReadEc(p)
      PROVE  Polled'
  <2>1. hw.ec \in 0 .. 255
    BY HardwareListed DEF Chosen
  <2> QED
    BY <1>1, <2>1, PollFields DEF ReadEc, Polled
<1>2. ASSUME NEW p \in Pollers, ReadDrivers(p)
      PROVE  Polled'
  <2>1. poll[p].ec \in 0 .. 255
    BY PollFields DEF Polled
  <2>2. PICK gpu \in IF hw' = hw THEN {Sensors[hw].gpu} ELSE GpuReadings[hw] :
            poll' = [poll EXCEPT ![p] = [Idle EXCEPT !.at = "publish",
                                             !.reading = <<ReadThermal(poll[p].ec, gpu)>>]]
    BY <1>2 DEF ReadDrivers
  <2>3. gpu \in {None} \cup 10 .. 115
    BY <2>2, GpuSensorIs, GpuReadingsAre DEF Chosen
  <2>4. ReadThermal(poll[p].ec, gpu) \in Reading
    BY <2>1, <2>3, ReadingsTyped DEF Chosen
  <2> QED
    BY <1>2, <2>2, <2>4, PollFields DEF ReadDrivers, Polled
<1>3. ASSUME NEW p \in Pollers, GiveUp(p) \/ Publish(p)
      PROVE  Polled'
  BY <1>3, PollFields DEF GiveUp, Publish, Polled
<1>4. CASE Restart
  BY <1>4, PollFields DEF Restart, Polled, Snapshots
<1>5. CASE Sense \/ ChooseSensor \/ SetAlert \/ IconChange \/ Fire \/ Tick \/ UNCHANGED vars
  BY <1>5 DEF Sense, ChooseSensor, SetAlert, IconChange, Fire, Tick, vars, Polled
<1> QED
  BY <1>1, <1>2, <1>3, <1>4, <1>5 DEF Next, Poll

\* Time and the alerts in it.
LEMMA TimedStep ==
    ASSUME Timed, FiredSince, [Next]_vars
    PROVE  /\ Timed' /\ FiredSince'
           /\ quiet # 0 /\ quiet' = 0 => quiet \in {Never, Cooldown}
<1>c. Cooldown \in Nat \ {0}
  BY TemperatureAssumption, SMT
<1>1. CASE UNCHANGED <<last, quiet>>
  BY <1>1 DEF Timed, FiredSince
<1>2. CASE \/ Sense \/ ChooseSensor \/ SetAlert \/ IconChange \/ UNCHANGED vars
           \/ \E p \in Pollers : ReadEc(p) \/ Poll(p)
  BY <1>1, <1>2 DEF Sense, ChooseSensor, SetAlert, IconChange, vars, ReadEc, Poll,
                    ReadDrivers, GiveUp, Publish
<1>3. CASE Restart
  BY <1>3 DEF Restart, Timed, FiredSince, Never
<1>4. CASE Tick
  <2>1. last' = Later(last) /\ quiet' = Later(quiet)
    BY <1>4 DEF Tick
  <2>2. Timed' /\ quiet' # 0
    BY <2>1, LaterTyped DEF Timed
  <2>3. FiredSince'
    BY <1>c, <2>1, LaterTyped DEF Timed, FiredSince, Never
  <2> QED
    BY <2>2, <2>3
<1>5. CASE Fire
  <2>1. last = Never \/ last >= Cooldown
    BY <1>5 DEF Fire, ShouldFire
  <2>2. last' = 0 /\ quiet' \in {0, quiet}
    BY <1>5 DEF Fire
  <2>3. quiet \in {Never, Cooldown}
    BY <1>c, <2>1 DEF Timed, FiredSince, Never
  <2> QED
    BY <1>c, <2>2, <2>3 DEF Timed, FiredSince, Never
<1> QED
  BY <1>1, <1>2, <1>3, <1>4, <1>5 DEF Next

-----------------------------------------------------------------------------
(***************************************************************************)
(* The theorems.                                                           *)
(***************************************************************************)
LEMMA Initially ==
    ASSUME Init
    PROVE  Chosen /\ Polled /\ Timed /\ FiredSince
<1>1. \A t \in Thresholds : ClampThreshold(t) \in 70 .. 97
  <2>1. Thresholds \subseteq 0 .. 255
    BY TemperatureAssumption, SMT
  <2> QED
    BY <2>1, Clamped
<1>2. Chosen
  BY <1>1 DEF Init, Chosen
<1>3. Polled
  BY PollFields DEF Init, Polled, Snapshots
<1>4. Timed /\ FiredSince
  BY DEF Init, Timed, FiredSince
<1> QED
  BY <1>2, <1>3, <1>4

\* Every variable keeps its type: whatever the drivers list and config.json
\* holds, every snapshot has a byte and a known sensor in it, and the alert's
\* threshold is between 70 and 97.
THEOREM TemperatureTypeCorrect == Spec => []TypeOK
<1>1. Init => Chosen /\ Polled /\ Timed /\ FiredSince
  BY Initially
<1>2. (Chosen /\ Polled /\ Timed /\ FiredSince) /\ [Next]_vars
        => (Chosen /\ Polled /\ Timed /\ FiredSince)'
  BY ChosenStep, PolledStep, TimedStep
<1> QED
  BY <1>1, <1>2, TypedIsTypeOK, PTL DEF Spec

\* For any number of adapters on any of the interfaces, and any readings the
\* drivers' integers can hold, the control temperature is what the README
\* says: the chosen sensor's, else the GPU's, and the EC's byte only where no
\* interface knows a GPU temperature; rounded, never wrapped around.
THEOREM ReadmeIsFollowed == Spec => []ControlFollowsReadme
<1>1. Init => Chosen
  BY Initially
<1>2. Chosen /\ [Next]_vars => Chosen'
  BY ChosenStep
<1>3. Chosen => ControlFollowsReadme
  BY FollowsReadme DEF Chosen
<1> QED
  BY <1>1, <1>2, <1>3, PTL DEF Spec

\* Between two alerts the user is shown, the cooldown passes, whatever its
\* length, whatever is switched, moved or chosen meanwhile, and whether or not
\* alerts in between went unseen.
THEOREM AlertsAreSpaced == Spec => AlertsSpaced
<1>1. Init => Timed /\ FiredSince
  BY Initially
<1>2. (Timed /\ FiredSince) /\ [Next]_vars => (Timed /\ FiredSince)'
  BY TimedStep
<1>3. (Timed /\ FiredSince) /\ [Next]_vars
        => [quiet # 0 /\ quiet' = 0 => quiet \in {Never, Cooldown}]_vars
  BY TimedStep
<1> QED
  BY <1>1, <1>2, <1>3, PTL DEF Spec, AlertsSpaced
=============================================================================
