------------------------- MODULE WindowLocks_proofs -------------------------
(***************************************************************************)
(* Theorems about WindowLocks, for any number of spawned threads, with and *)
(* without imports.                                                        *)
(*                                                                         *)
(* The mutexes have ranks, and a thread asks only for one that ranks above *)
(* all it holds, or, in an import, for one it holds itself.  Joining the   *)
(* monitor thread has a rank too, and the monitor thread asks for nothing  *)
(* below it; waiting for the window has the lowest, and the window's       *)
(* thread asks for nothing below that.  Whoever is waited for and waits    *)
(* for another thread waits for something that ranks higher, so no circle  *)
(* closes.                                                                 *)
(***************************************************************************)
EXTENDS WindowLocks, TLAPS

Step == [do : {"lock", "unlock", "touch", "stop", "join", "await", "spawn", "exit"},
         on : Mutexes \cup {"refresh", "edit", "power", "tray_power", "process", "window"}]

Rank(m) == CASE m \in {"ui", "tray"} -> 0
             [] m = "monitor"        -> 1
             [] m = "config"         -> 3
             [] m = "curves"         -> 4
             [] OTHER                -> 5

JoinRank  == 2
AwaitRank == -1

\* What ranks r may be asked for by a thread that holds H and asks for nothing
\* up to rank k.
Room(k, H, r) == k < r /\ \A n \in H : Rank(n) < r

\* What of H counts when m is touched: m itself does not, once imports are
\* carried to the end, since those do ask for a mutex they hold.
Rest(H, m) == IF Imports THEN H \ {m} ELSE H

\* Step x is in order for a thread that holds H.
Fits(k, H, x) ==
    /\ x.do \in {"lock", "unlock", "touch"} => x.on \in Mutexes
    /\ x.do = "lock" => Room(k, H, Rank(x.on))
    /\ x.do = "unlock" => x.on \in H
    /\ x.do = "touch" => Room(k, Rest(H, x.on), Rank(x.on))
    /\ x.do = "join" => Room(k, H, JoinRank)
    /\ x.do = "await" => Room(k, H, AwaitRank)
    /\ x.do = "spawn" => x.on \in DOMAIN Bodies

After(H, x) ==
    IF x.do = "lock" THEN H \cup {x.on} ELSE IF x.do = "unlock" THEN H \ {x.on} ELSE H

(***************************************************************************)
(* A script that starts with H held is in order and ends with E held if    *)
(* some R says what may be left to do while a set of mutexes is held.      *)
(***************************************************************************)
Plans == [SUBSET Mutexes -> SUBSET Seq(Step)]

Runs(k, E, R) ==
    \A H \in SUBSET Mutexes : \A s \in R[H] :
        IF s = <<>> THEN H = E
        ELSE Fits(k, H, Head(s)) /\ Tail(s) \in R[After(H, Head(s))]

Ordered(k, E, H, s) == \E R \in Plans : Runs(k, E, R) /\ s \in R[H]

\* The scripts of S are in order for a thread that holds E, and it holds E
\* again at their end.
Calm(k, E, S) == \A s \in S : s \in Seq(Step) /\ Ordered(k, E, E, s)

(***************************************************************************)
(* The inductive invariant.                                                *)
(***************************************************************************)
Held(t)  == {m \in Mutexes : holder[m] = t}
Floor(t) == IF t = "monitor" THEN JoinRank ELSE IF t = "main" THEN AwaitRank ELSE -2

LockInv ==
    /\ todo \in [Threads -> Seq(Step)]
    /\ holder \in [Mutexes -> Threads \cup {Free}]
    /\ \A t \in Threads : Ordered(Floor(t), {}, Held(t), todo[t])

-----------------------------------------------------------------------------
(***************************************************************************)
(* Scripts.                                                                *)
(***************************************************************************)
LEMMA AfterType ==
    ASSUME NEW H \in SUBSET Mutexes, NEW x \in Step, NEW k, Fits(k, H, x)
    PROVE  After(H, x) \in SUBSET Mutexes
BY DEF After, Fits

LEMMA NothingOrdered ==
    ASSUME NEW k, NEW E \in SUBSET Mutexes
    PROVE  Ordered(k, E, E, <<>>)
<1> DEFINE R == [G \in SUBSET Mutexes |-> {s \in Seq(Step) : s = <<>> /\ G = E}]
<1>1. R \in Plans
  BY DEF Plans
<1>2. Runs(k, E, R)
  BY DEF Runs
<1>3. <<>> \in R[E]
  OBVIOUS
<1> QED
  BY <1>1, <1>2, <1>3 DEF Ordered

LEMMA StepOrdered ==
    ASSUME NEW k, NEW H \in SUBSET Mutexes, NEW x \in Step, Fits(k, H, x)
    PROVE  Ordered(k, After(H, x), H, <<x>>)
<1> DEFINE A == After(H, x)
           Left(G) == {s \in Seq(Step) : (G = H /\ s = <<x>>) \/ (G = A /\ s = <<>>)}
           R == [G \in SUBSET Mutexes |-> Left(G)]
<1>1. <<x>> # <<>> /\ Head(<<x>>) = x /\ Tail(<<x>>) = <<>> /\ <<x>> \in Seq(Step)
      /\ <<>> \in Seq(Step)
  OBVIOUS
<1>2. A \in SUBSET Mutexes
  BY AfterType
<1>3. R \in Plans
  BY DEF Plans
<1> HIDE DEF A
<1>4. <<x>> \in R[H] /\ <<>> \in R[A]
  <2>1. <<x>> \in Left(H) /\ <<>> \in Left(A)
    BY <1>1
  <2>2. R[H] = Left(H) /\ R[A] = Left(A)
    BY <1>2
  <2> QED
    BY <2>1, <2>2
<1>5. ASSUME NEW G \in SUBSET Mutexes, NEW s \in R[G]
      PROVE  (G = H /\ s = <<x>>) \/ (G = A /\ s = <<>>)
  OBVIOUS
<1> HIDE DEF R
<1> USE DEF A
<1>6. Runs(k, A, R)
  <2> SUFFICES ASSUME NEW G \in SUBSET Mutexes, NEW s \in R[G]
               PROVE  IF s = <<>> THEN G = A
                      ELSE Fits(k, G, Head(s)) /\ Tail(s) \in R[After(G, Head(s))]
    BY DEF Runs
  <2>1. CASE G = A /\ s = <<>>
    BY <2>1
  <2>2. CASE G = H /\ s = <<x>>
    BY <1>1, <1>4, <2>2
  <2> QED
    BY <1>5, <2>1, <2>2
<1> QED
  BY <1>3, <1>4, <1>6 DEF Ordered

\* One script after another.
LEMMA OneAfterAnother ==
    ASSUME NEW k, NEW D \in SUBSET Mutexes, NEW E \in SUBSET Mutexes, NEW H \in SUBSET Mutexes,
           NEW a \in Seq(Step), NEW b \in Seq(Step), Ordered(k, E, H, a), Ordered(k, D, E, b)
    PROVE  Ordered(k, D, H, a \o b)
<1>1. PICK Q \in Plans : Runs(k, E, Q) /\ a \in Q[H]
  BY DEF Ordered
<1>2. PICK T \in Plans : Runs(k, D, T) /\ b \in T[E]
  BY DEF Ordered
<1> DEFINE R == [G \in SUBSET Mutexes |-> T[G] \cup {s \o b : s \in Q[G]}]
<1>3. \A G \in SUBSET Mutexes : T[G] \subseteq Seq(Step) /\ Q[G] \subseteq Seq(Step)
  BY <1>1, <1>2 DEF Plans
<1>4. R \in Plans
  <2>1. ASSUME NEW G \in SUBSET Mutexes, NEW s \in Q[G]
        PROVE  s \o b \in Seq(Step)
    <3>1. s \in Seq(Step)
      BY <1>3
    <3> QED
      BY <3>1
  <2>2. \A G \in SUBSET Mutexes : (T[G] \cup {s \o b : s \in Q[G]}) \in SUBSET Seq(Step)
    BY <1>3, <2>1
  <2> QED
    BY <2>2 DEF Plans
<1>5. \A G \in SUBSET Mutexes : R[G] = T[G] \cup {s \o b : s \in Q[G]}
  OBVIOUS
<1> HIDE DEF R
<1>6. ASSUME NEW G \in SUBSET Mutexes, NEW r \in T[G]
      PROVE  IF r = <<>> THEN G = D
             ELSE Fits(k, G, Head(r)) /\ Tail(r) \in R[After(G, Head(r))]
  <2>1. IF r = <<>> THEN G = D
        ELSE Fits(k, G, Head(r)) /\ Tail(r) \in T[After(G, Head(r))]
    BY <1>2, <1>6 DEF Runs
  <2>2. ASSUME r # <<>>
        PROVE  After(G, Head(r)) \in SUBSET Mutexes
    <3>1. Head(r) \in Step
      BY <1>3, <2>2
    <3> QED
      BY <2>1, <2>2, <3>1, AfterType
  <2> QED
    BY <1>5, <2>1, <2>2
<1>7. ASSUME NEW G \in SUBSET Mutexes, NEW s \in Q[G]
      PROVE  IF s \o b = <<>> THEN G = D
             ELSE Fits(k, G, Head(s \o b)) /\ Tail(s \o b) \in R[After(G, Head(s \o b))]
  <2>1. IF s = <<>> THEN G = E
        ELSE Fits(k, G, Head(s)) /\ Tail(s) \in Q[After(G, Head(s))]
    BY <1>1, <1>7 DEF Runs
  <2>2. CASE s = <<>>
    <3>1. s \o b = b
      BY <2>2
    <3> QED
      BY <1>2, <1>6, <2>1, <2>2, <3>1
  <2>3. CASE s # <<>>
    <3>1. s \in Seq(Step) /\ Head(s) \in Step
      BY <1>3, <2>3
    <3>2. s \o b # <<>> /\ Head(s \o b) = Head(s) /\ Tail(s \o b) = Tail(s) \o b
      BY <2>3, <3>1
    <3>3. Fits(k, G, Head(s)) /\ Tail(s) \in Q[After(G, Head(s))]
      BY <2>1, <2>3
    <3>4. After(G, Head(s)) \in SUBSET Mutexes
      BY <3>1, <3>3, AfterType
    <3>5. Tail(s) \o b \in R[After(G, Head(s))]
      BY <1>5, <3>3, <3>4
    <3> QED
      BY <3>2, <3>3, <3>5
  <2> QED
    BY <2>2, <2>3
<1>8. Runs(k, D, R)
  <2> SUFFICES ASSUME NEW G \in SUBSET Mutexes, NEW r \in R[G]
               PROVE  IF r = <<>> THEN G = D
                      ELSE Fits(k, G, Head(r)) /\ Tail(r) \in R[After(G, Head(r))]
    BY DEF Runs
  <2>1. CASE r \in T[G]
    BY <1>6, <2>1
  <2>2. ASSUME NEW s \in Q[G], r = s \o b
        PROVE  IF r = <<>> THEN G = D
               ELSE Fits(k, G, Head(r)) /\ Tail(r) \in R[After(G, Head(r))]
    BY <1>7, <2>2
  <2> QED
    BY <1>5, <2>1, <2>2
<1>9. a \o b \in R[H]
  BY <1>1, <1>5
<1> QED
  BY <1>4, <1>8, <1>9 DEF Ordered

\* What is left after the first step of a script.
LEMMA OrderedStep ==
    ASSUME NEW k, NEW E, NEW H \in SUBSET Mutexes, NEW s \in Seq(Step), Ordered(k, E, H, s)
    PROVE  IF s = <<>> THEN H = E
           ELSE Fits(k, H, Head(s)) /\ Ordered(k, E, After(H, Head(s)), Tail(s))
BY DEF Ordered, Runs

-----------------------------------------------------------------------------
(***************************************************************************)
(* Sets of scripts.  Calm carries over from the parts to the whole.        *)
(***************************************************************************)
LEMMA Composed ==
    ASSUME NEW A, NEW B, NEW c \in A \odot B
    PROVE  \E a \in A, b \in B : c = a \o b
BY DEF \odot

LEMMA InTurn ==
    ASSUME NEW k, NEW E \in SUBSET Mutexes, NEW A, NEW B, Calm(k, E, A), Calm(k, E, B)
    PROVE  Calm(k, E, A \odot B)
<1>1. ASSUME NEW a \in A, NEW b \in B
      PROVE  a \o b \in Seq(Step) /\ Ordered(k, E, E, a \o b)
  <2>1. a \in Seq(Step) /\ b \in Seq(Step) /\ Ordered(k, E, E, a) /\ Ordered(k, E, E, b)
    BY DEF Calm
  <2> QED
    BY <2>1, OneAfterAnother
<1>2. ASSUME NEW c \in A \odot B
      PROVE  \E a \in A, b \in B : c = a \o b
  BY Composed
<1> QED
  BY <1>1, <1>2 DEF Calm

LEMMA Nothing ==
    ASSUME NEW k, NEW E \in SUBSET Mutexes
    PROVE  Calm(k, E, {<<>>})
<1>1. <<>> \in Seq(Step) /\ Ordered(k, E, E, <<>>)
  BY NothingOrdered
<1> QED
  BY <1>1 DEF Calm

LEMMA Perhaps ==
    ASSUME NEW k, NEW E \in SUBSET Mutexes, NEW A, Calm(k, E, A)
    PROVE  Calm(k, E, Maybe(A))
<1>1. Calm(k, E, {<<>>})
  BY Nothing
<1> QED
  BY <1>1 DEF Calm, Maybe

LEMMA Either ==
    ASSUME NEW k, NEW E, NEW A, NEW B, Calm(k, E, A), Calm(k, E, B)
    PROVE  Calm(k, E, A \cup B)
BY DEF Calm

LEMMA Single ==
    ASSUME NEW k, NEW E \in SUBSET Mutexes, NEW d, NEW m, [do |-> d, on |-> m] \in Step,
           d \notin {"lock", "unlock"}, Fits(k, E, [do |-> d, on |-> m])
    PROVE  Calm(k, E, One(d, m))
<1> DEFINE x == [do |-> d, on |-> m]
<1>1. After(E, x) = E
  BY DEF After
<1> HIDE DEF x
<1>2. <<x>> \in Seq(Step) /\ Ordered(k, E, E, <<x>>)
  BY <1>1, StepOrdered DEF x
<1>3. One(d, m) = {<<x>>}
  BY DEF One, x
<1> QED
  BY <1>2, <1>3 DEF Calm

LEMMA Touches ==
    ASSUME NEW k, NEW E \in SUBSET Mutexes, NEW m \in Mutexes, Room(k, Rest(E, m), Rank(m))
    PROVE  Calm(k, E, Touch(m))
<1>1. Calm(k, E, One("touch", m))
  <2>1. [do |-> "touch", on |-> m] \in Step /\ Fits(k, E, [do |-> "touch", on |-> m])
    BY DEF Step, Fits
  <2> QED
    BY <2>1, Single
<1>2. Calm(k, E, {<<>>})
  BY Nothing
<1> QED
  BY <1>1, <1>2 DEF Touch

LEMMA Holds ==
    ASSUME NEW k, NEW E \in SUBSET Mutexes, NEW m \in Mutexes, m \notin E, Room(k, E, Rank(m)),
           NEW S, Calm(k, E \cup {m}, S)
    PROVE  Calm(k, E, Holding(m, S))
<1> DEFINE in  == [do |-> "lock", on |-> m]
           out == [do |-> "unlock", on |-> m]
           F   == E \cup {m}
<1>1. in \in Step /\ out \in Step /\ F \in SUBSET Mutexes
  BY DEF Step
<1>2. Ordered(k, F, E, <<in>>)
  <2>1. Fits(k, E, in) /\ After(E, in) = F
    BY DEF Fits, After
  <2> QED
    BY <1>1, <2>1, StepOrdered
<1>3. Ordered(k, E, F, <<out>>)
  <2>1. Fits(k, F, out) /\ After(F, out) = E
    BY DEF Fits, After
  <2> QED
    BY <1>1, <2>1, StepOrdered
<1> HIDE DEF in, out, F
<1>4. <<in>> \in Seq(Step) /\ <<out>> \in Seq(Step)
  BY <1>1
<1>5. ASSUME NEW s \in S
      PROVE  ((<<in>> \o s) \o <<out>>) \in Seq(Step) /\ Ordered(k, E, E, (<<in>> \o s) \o <<out>>)
  <2>1. s \in Seq(Step) /\ Ordered(k, F, F, s)
    BY DEF Calm, F
  <2>2. Ordered(k, F, E, <<in>> \o s)
    BY <1>1, <1>2, <1>4, <2>1, OneAfterAnother
  <2>3. (<<in>> \o s) \in Seq(Step) /\ ((<<in>> \o s) \o <<out>>) \in Seq(Step)
    BY <1>4, <2>1
  <2>4. Ordered(k, E, E, (<<in>> \o s) \o <<out>>)
    BY <1>1, <1>3, <1>4, <2>2, <2>3, OneAfterAnother
  <2> QED
    BY <2>3, <2>4
<1>6. ASSUME NEW c \in Holding(m, S)
      PROVE  \E s \in S : c = (<<in>> \o s) \o <<out>>
  <2>1. One("lock", m) = {<<in>>} /\ One("unlock", m) = {<<out>>}
    BY DEF One, in, out
  <2>2. PICK b \in One("lock", m) \odot S, d \in One("unlock", m) : c = b \o d
    BY Composed DEF Holding
  <2>3. PICK a \in One("lock", m), s \in S : b = a \o s
    BY Composed
  <2> QED
    BY <2>1, <2>2, <2>3
<1> QED
  BY <1>5, <1>6 DEF Calm

-----------------------------------------------------------------------------
(***************************************************************************)
(* The operations of the code, from the bottom up.  Those of the session   *)
(* and the controller may be called by a thread that holds E as long as    *)
(* there is room for config.                                               *)
(***************************************************************************)
LEMMA TouchesAbove ==
    ASSUME NEW k \in Int, NEW E \in SUBSET Mutexes, NEW r \in Int, Room(k, E, r),
           NEW m \in Mutexes, r <= Rank(m)
    PROVE  Calm(k, E, Touch(m))
<1>1. \A n \in Mutexes : Rank(n) \in Int
  BY DEF Rank, Mutexes
<1>2. Room(k, Rest(E, m), Rank(m))
  BY <1>1 DEF Room, Rest
<1> QED
  BY <1>2, Touches

LEMMA SessionTouches ==
    ASSUME NEW k \in Int, NEW E \in SUBSET Mutexes, Room(k, E, 3),
           NEW m \in {"config", "logger", "curves", "samples", "transaction", "gui_ctx", "notify"}
    PROVE  Calm(k, E, Touch(m))
<1>1. m \in Mutexes /\ 3 <= Rank(m)
  BY DEF Mutexes, Rank
<1> QED
  BY <1>1, TouchesAbove

LEMMA SaveConfigCalm ==
    ASSUME NEW k \in Int, NEW E \in SUBSET Mutexes, Room(k, E, 3)
    PROVE  Calm(k, E, SaveConfig)
<1> DEFINE F == E \cup {"config"}
<1>1. "config" \in Mutexes /\ "logger" \in Mutexes /\ Rank("config") = 3 /\ Rank("logger") = 5
  BY DEF Mutexes, Rank
<1>2. F \in SUBSET Mutexes /\ "config" \notin E
  BY <1>1 DEF Room
<1>3. Calm(k, F, Maybe(Touch("logger")))
  <2>1. \A n \in Mutexes : Rank(n) \in Int
    BY DEF Rank, Mutexes
  <2>2. Room(k, F, 4)
    BY <1>1, <2>1 DEF Room
  <2>3. Calm(k, F, Touch("logger"))
    BY <1>1, <1>2, <2>2, TouchesAbove
  <2> HIDE DEF F
  <2> QED
    BY <1>2, <2>3, Perhaps
<1> QED
  BY <1>1, <1>2, <1>3, Holds DEF SaveConfig

LEMMA ControllerCalm ==
    ASSUME NEW k \in Int, NEW E \in SUBSET Mutexes, Room(k, E, 3)
    PROVE  /\ Calm(k, E, Metrics)
           /\ Calm(k, E, SetPowerMode)
           /\ Calm(k, E, SetFan)
           /\ Calm(k, E, SetSmoothingWindow)
<1> USE InTurn, Perhaps
<1>1. /\ Calm(k, E, Touch("logger")) /\ Calm(k, E, Touch("curves"))
      /\ Calm(k, E, Touch("samples")) /\ Calm(k, E, Touch("transaction"))
  BY SessionTouches
<1>2. Calm(k, E, SaveConfig)
  BY SaveConfigCalm
<1>3. Calm(k, E, Metrics)
  BY <1>1 DEF Metrics
<1>4. Calm(k, E, SetPowerMode)
  BY <1>1, <1>2 DEF SetPowerMode
<1>5. Calm(k, E, SetFan)
  BY <1>1 DEF SetFan
<1>6. Calm(k, E, SetSmoothingWindow)
  BY <1>1, <1>2 DEF SetSmoothingWindow
<1> QED
  BY <1>3, <1>4, <1>5, <1>6

LEMMA SessionCalm ==
    ASSUME NEW k \in Int, NEW E \in SUBSET Mutexes, Room(k, E, 3)
    PROVE  /\ Calm(k, E, ApplyFanEdit)
           /\ Calm(k, E, RestoreSavedState)
           /\ Calm(k, E, AdoptSaved)
<1> USE InTurn, Perhaps, Either
<1>1. Calm(k, E, Touch("logger")) /\ Calm(k, E, Touch("config"))
  BY SessionTouches
<1>2. Calm(k, E, SaveConfig) /\ Calm(k, E, SetPowerMode) /\ Calm(k, E, SetFan)
  BY SaveConfigCalm, ControllerCalm
<1>3. Calm(k, E, ApplyFanEdit)
  BY <1>2 DEF ApplyFanEdit
<1>4. Calm(k, E, RestoreSavedState)
  BY <1>1, <1>2 DEF RestoreSavedState
<1>5. Calm(k, E, AdoptSaved)
  BY <1>1 , <1>2 DEF AdoptSaved
<1> QED
  BY <1>3, <1>4, <1>5

\* Everybody but the monitor thread may ask for whatever it likes while it
\* holds nothing; with the UiState locked, for all but the tray's mutexes.
LEMMA Ranks ==
    /\ Rank("ui") = 0 /\ Rank("tray") = 0 /\ Rank("monitor") = 1
    /\ Rank("config") = 3 /\ Rank("curves") = 4
    /\ \A m \in Mutexes : Rank(m) \in 0..5
    /\ \A m \in Mutexes \ {"ui", "tray", "monitor", "config", "curves"} : Rank(m) = 5
BY DEF Rank, Mutexes

LEMMA WindowTouches ==
    ASSUME NEW E \in {{}, {"ui"}},
           NEW m \in Mutexes, E = {"ui"} => m \in Mutexes \ {"tray"} /\ (m = "ui" => Imports)
    PROVE  Calm(-1, E, Touch(m))
<1>1. Room(-1, Rest(E, m), Rank(m))
  <2>1. CASE Rest(E, m) = {}
    BY <2>1, Ranks DEF Room
  <2>2. CASE Rest(E, m) = {"ui"} /\ m \notin {"ui", "tray"}
    <3>1. Rank(m) > 0
      BY <2>2, Ranks
    <3> QED
      BY <2>2, <3>1, Ranks DEF Room
  <2> QED
    BY <2>1, <2>2 DEF Rest
<1>2. E \in SUBSET Mutexes
  BY DEF Mutexes
<1> QED
  BY <1>1, <1>2, Touches

LEMMA Spawns ==
    ASSUME NEW k, NEW E \in SUBSET Mutexes, NEW w \in {"refresh", "edit", "power", "tray_power"}
    PROVE  Calm(k, E, Spawn(w))
<1>1. [do |-> "spawn", on |-> w] \in Step /\ Fits(k, E, [do |-> "spawn", on |-> w])
  BY DEF Step, Fits, Bodies
<1> QED
  BY <1>1, Single DEF Spawn

LEMMA MonitorCalm == Calm(JoinRank, {}, MonitorTick)
<1> USE InTurn, Perhaps, Either
<1>1. JoinRank \in Int /\ {} \in SUBSET Mutexes /\ Room(JoinRank, {}, 3)
  BY DEF JoinRank, Room
<1>2. /\ Calm(JoinRank, {}, Touch("logger")) /\ Calm(JoinRank, {}, Touch("curves"))
      /\ Calm(JoinRank, {}, Touch("samples")) /\ Calm(JoinRank, {}, Touch("transaction"))
  BY <1>1, SessionTouches
<1>3. Calm(JoinRank, {}, Holding("curves", Touch("transaction")))
  <2>1. {"curves"} \in SUBSET Mutexes /\ "curves" \in Mutexes /\ "transaction" \in Mutexes
    BY DEF Mutexes
  <2>2. Room(JoinRank, {}, Rank("curves")) /\ Room(JoinRank, {"curves"}, 5)
        /\ 5 <= Rank("transaction")
    BY <2>1, Ranks DEF Room, JoinRank
  <2>3. Calm(JoinRank, {"curves"}, Touch("transaction"))
    BY <1>1, <2>1, <2>2, TouchesAbove
  <2> QED
    BY <1>1, <2>1, <2>2, <2>3, Holds
<1>4. Calm(JoinRank, {}, UpdateCurveFans)
  BY <1>1, <1>2, <1>3 DEF UpdateCurveFans
<1>5. Calm(JoinRank, {}, AdoptSaved)
  BY <1>1, SessionCalm
<1> QED
  BY <1>1, <1>2, <1>4, <1>5 DEF MonitorTick

LEMMA ShutdownCalm == Calm(-1, {}, ShutdownSession)
<1> USE InTurn, Perhaps
<1>1. {} \in SUBSET Mutexes /\ {"monitor"} \in SUBSET Mutexes /\ "monitor" \in Mutexes
  BY DEF Mutexes
<1>2. \A m \in {"curves", "samples", "transaction", "logger"} : Calm(-1, {}, Touch(m))
  BY WindowTouches DEF Mutexes
<1>3. Calm(-1, {}, One("stop", "monitor"))
  <2>1. [do |-> "stop", on |-> "monitor"] \in Step
        /\ Fits(-1, {}, [do |-> "stop", on |-> "monitor"])
    BY DEF Step, Fits, Mutexes
  <2> QED
    BY <1>1, <2>1, Single
<1>4. Calm(-1, {"monitor"}, One("join", "monitor"))
  <2>1. [do |-> "join", on |-> "monitor"] \in Step
        /\ Fits(-1, {"monitor"}, [do |-> "join", on |-> "monitor"])
    BY Ranks DEF Step, Fits, Mutexes, Room, JoinRank
  <2> QED
    BY <1>1, <2>1, Single
<1>5. Calm(-1, {}, Holding("monitor", One("join", "monitor")))
  <2>1. Room(-1, {}, Rank("monitor")) /\ {} \cup {"monitor"} = {"monitor"}
    BY Ranks DEF Room
  <2> QED
    BY <1>1, <1>4, <2>1, Holds
<1> QED
  BY <1>1, <1>2, <1>3, <1>5 DEF ShutdownSession

\* What a thread other than the monitor does with the UiState locked or not.
LEMMA ClicksCalm ==
    ASSUME NEW E \in {{}, {"ui"}}
    PROVE  /\ E = {} \/ Imports => Calm(-1, E, RefreshMetrics)
           /\ Calm(-1, E, AdoptSaved)
           /\ Calm(-1, E, Clicks)
<1> USE InTurn, Perhaps, Either
<1>1. E \in SUBSET Mutexes /\ -1 \in Int /\ Room(-1, E, 3)
  BY Ranks DEF Mutexes, Room
<1>2. Calm(-1, E, Touch("config")) /\ (E = {} \/ Imports => Calm(-1, E, Touch("ui")))
  BY WindowTouches DEF Mutexes
<1>3. Calm(-1, E, Spawn("refresh")) /\ Calm(-1, E, Spawn("edit")) /\ Calm(-1, E, Spawn("power"))
  BY <1>1, Spawns
<1>4. E = {} \/ Imports => Calm(-1, E, RefreshMetrics)
  BY <1>1, <1>2, <1>3 DEF RefreshMetrics
<1>5. /\ Calm(-1, E, SaveConfig) /\ Calm(-1, E, SetSmoothingWindow)
      /\ Calm(-1, E, RestoreSavedState) /\ Calm(-1, E, AdoptSaved)
  BY <1>1, SaveConfigCalm, ControllerCalm, SessionCalm
<1>6. Calm(-1, E, ImportConfig)
  <2>1. Calm(-1, E, {})
    BY DEF Calm
  <2>2. Imports => Calm(-1, E, Touch("config") \odot RestoreSavedState \odot RefreshMetrics)
    BY <1>1, <1>2, <1>4, <1>5
  <2>3. Calm(-1, E, IF Imports THEN Touch("config") \odot RestoreSavedState \odot RefreshMetrics
                    ELSE {})
    BY <2>1, <2>2
  <2> QED
    BY <1>1, <1>2, <2>3 DEF ImportConfig
<1>7. Calm(-1, E, {<<>>})
  BY <1>1, Nothing
<1>8. Calm(-1, E, Clicks)
  BY <1>1, <1>3, <1>5, <1>6, <1>7 DEF Clicks
<1> QED
  BY <1>4, <1>5, <1>8

\* What is done with the UiState locked.
LEMMA UiHolds ==
    ASSUME NEW S, Calm(-1, {"ui"}, S)
    PROVE  Calm(-1, {}, Holding("ui", S))
<1>1. "ui" \in Mutexes /\ Room(-1, {}, Rank("ui")) /\ {} \cup {"ui"} = {"ui"}
  BY Ranks DEF Mutexes, Room
<1> QED
  BY <1>1, Holds

LEMMA QuitCalm == Calm(-1, {}, ExitNow) /\ Calm(-1, {}, QuitNow)
<1> USE InTurn
<1>1. {} \in SUBSET Mutexes
  OBVIOUS
<1>2. \A m \in {"ui", "notify", "tray", "gui_ctx"} : Calm(-1, {}, Touch(m))
  BY WindowTouches DEF Mutexes
<1>3. Calm(-1, {}, One("exit", "process"))
  <2>1. [do |-> "exit", on |-> "process"] \in Step
        /\ Fits(-1, {}, [do |-> "exit", on |-> "process"])
    BY DEF Step, Fits
  <2> QED
    BY <1>1, <2>1, Single
<1> QED
  BY <1>1, <1>2, <1>3, ShutdownCalm DEF ExitNow, QuitNow

LEMMA MainCalm == Calm(-1, {}, Draw \cup Logic)
<1> USE InTurn, Perhaps, Either
<1>1. {} \in SUBSET Mutexes /\ {"ui"} \in SUBSET Mutexes
  BY DEF Mutexes
<1>2. Calm(-1, {}, Touch("ui")) /\ Calm(-1, {}, Touch("notify")) /\ Calm(-1, {"ui"}, Touch("config"))
  BY WindowTouches DEF Mutexes
<1>3. /\ Calm(-1, {}, RefreshMetrics) /\ Calm(-1, {}, AdoptSaved) /\ Calm(-1, {"ui"}, Clicks)
      /\ Calm(-1, {}, ExitNow)
  BY ClicksCalm, QuitCalm
<1>4. Calm(-1, {}, Draw)
  BY <1>1, <1>2, <1>3, UiHolds DEF Draw
<1>5. Calm(-1, {}, CloseRequested) /\ Calm(-1, {}, Holding("ui", Touch("config")))
  BY <1>2, UiHolds DEF CloseRequested
<1>6. Calm(-1, {}, Logic)
  <2>1. Calm(-1, {}, CloseRequested \odot Maybe(ExitNow))
    BY <1>1, <1>3, <1>5
  <2>2. Calm(-1, {}, Touch("ui") \odot Maybe(Touch("ui") \odot AdoptSaved \odot RefreshMetrics))
    BY <1>1, <1>2, <1>3
  <2>3. Calm(-1, {}, Holding("ui", Touch("config")) \odot Maybe(Touch("notify")))
    BY <1>1, <1>2, <1>5
  <2> QED
    BY <1>1, <1>3, <2>1, <2>2, <2>3 DEF Logic
<1> QED
  BY <1>4, <1>6

\* A thread that may ask for nothing up to -1 is in order for one that may ask
\* for more.
LEMMA Laxer ==
    ASSUME NEW E \in SUBSET Mutexes, NEW S, Calm(-1, E, S)
    PROVE  Calm(-2, E, S)
<1>1. ASSUME NEW H, NEW r \in Int, Room(-1, H, r)
      PROVE  Room(-2, H, r)
  BY <1>1 DEF Room
<1>2. ASSUME NEW H, NEW x, Fits(-1, H, x)
      PROVE  Fits(-2, H, x)
  <2>1. JoinRank \in Int /\ AwaitRank \in Int /\ \A m \in Mutexes : Rank(m) \in Int
    BY Ranks DEF JoinRank, AwaitRank
  <2> QED
    BY <1>1, <1>2, <2>1 DEF Fits
<1>3. ASSUME NEW R, Runs(-1, E, R)
      PROVE  Runs(-2, E, R)
  BY <1>2, <1>3 DEF Runs
<1>4. ASSUME NEW s, Ordered(-1, E, E, s)
      PROVE  Ordered(-2, E, E, s)
  BY <1>3, <1>4 DEF Ordered
<1> QED
  BY <1>4 DEF Calm

LEMMA OperationsCalm ==
    \A t \in {"main", "monitor", "tray"} : Calm(Floor(t), {}, Operations[t])
<1> USE InTurn, Either
<1>1. {} \in SUBSET Mutexes
  OBVIOUS
<1>2. Calm(-1, {}, Touch("tray")) /\ Calm(-1, {}, Touch("gui_ctx")) /\ Calm(-1, {}, Touch("notify"))
  BY WindowTouches DEF Mutexes
<1>3. Calm(-1, {}, ShowMenu)
  <2>1. "tray" \in Mutexes /\ "config" \in Mutexes /\ {"tray"} \in SUBSET Mutexes
        /\ Room(-1, {}, Rank("tray")) /\ {} \cup {"tray"} = {"tray"}
    BY Ranks DEF Mutexes, Room
  <2>2. Room(-1, {"tray"}, 3)
    BY Ranks DEF Room
  <2>3. Calm(-1, {"tray"}, Touch("config"))
    BY <2>1, <2>2, SessionTouches
  <2> QED
    BY <1>1, <2>1, <2>3, Holds DEF ShowMenu
<1>4. Calm(-2, {}, ShowMainWindow)
  <2>1. Calm(-2, {}, Touch("tray")) /\ Calm(-2, {}, Touch("gui_ctx"))
    BY <1>1, <1>2, Laxer
  <2>2. Calm(-2, {}, One("await", "window"))
    <3>1. [do |-> "await", on |-> "window"] \in Step
          /\ Fits(-2, {}, [do |-> "await", on |-> "window"])
      BY DEF Step, Fits, Room, AwaitRank
    <3> QED
      BY <1>1, <3>1, Single
  <2>3. Calm(-2, {}, Maybe(One("await", "window")))
    BY <1>1, <2>2, Perhaps
  <2> QED
    BY <1>1, <2>1, <2>3 DEF ShowMainWindow
<1>5. Calm(-1, {}, Touch("tray") \odot Spawn("tray_power"))
  BY <1>1, <1>2, Spawns
<1>6. Calm(-2, {}, Operations["tray"])
  <2>1. /\ Calm(-2, {}, ShowMenu) /\ Calm(-2, {}, QuitNow) /\ Calm(-2, {}, Touch("notify"))
        /\ Calm(-2, {}, Touch("tray") \odot Spawn("tray_power"))
    BY <1>1, <1>2, <1>3, <1>5, QuitCalm, Laxer
  <2> QED
    BY <1>4, <2>1 DEF Operations
<1>7. Calm(-1, {}, Operations["main"])
  BY MainCalm DEF Operations
<1>8. Calm(JoinRank, {}, Operations["monitor"])
  BY MonitorCalm DEF Operations
<1> QED
  BY <1>6, <1>7, <1>8 DEF Floor, AwaitRank

LEMMA BodiesCalm == \A w \in DOMAIN Bodies : Calm(-2, {}, Bodies[w])
<1> USE InTurn, Perhaps
<1>1. {} \in SUBSET Mutexes /\ -1 \in Int /\ Room(-1, {}, 3)
  BY DEF Room
<1>2. Calm(-1, {}, Touch("ui")) /\ Calm(-1, {}, Touch("tray")) /\ Calm(-1, {}, Touch("gui_ctx"))
  BY WindowTouches DEF Mutexes
<1>3. Calm(-1, {}, Metrics) /\ Calm(-1, {}, ApplyFanEdit) /\ Calm(-1, {}, SetPowerMode)
  BY <1>1, ControllerCalm, SessionCalm
<1>4. Calm(-1, {}, Bodies["refresh"])
  BY <1>1, <1>2, <1>3 DEF Bodies, Publish
<1>5. Calm(-1, {}, Bodies["edit"])
  BY <1>1, <1>2, <1>3 DEF Bodies
<1>6. Calm(-1, {}, Bodies["power"])
  BY <1>1, <1>2, <1>3 DEF Bodies
<1>7. Calm(-1, {}, Bodies["tray_power"])
  BY <1>1, <1>2, <1>3 DEF Bodies
<1>8. DOMAIN Bodies = {"refresh", "edit", "power", "tray_power"}
  BY DEF Bodies
<1>9. \A w \in DOMAIN Bodies : Calm(-1, {}, Bodies[w])
  BY <1>4, <1>5, <1>6, <1>7, <1>8
<1> QED
  BY <1>1, <1>9, Laxer

-----------------------------------------------------------------------------
(***************************************************************************)
(* LockInv is inductive.                                                   *)
(***************************************************************************)
LEMMA ThreadFacts ==
    Free \notin Threads /\ {"main", "monitor", "tray"} \subseteq Threads /\ Workers \subseteq Threads
    /\ {"main", "monitor", "tray"} \cap Workers = {}
BY WindowLocksAssumption DEF Threads, Free

LEMMA NextStep ==
    ASSUME LockInv, NEW t \in Threads, todo[t] # <<>>
    PROVE  /\ Head(todo[t]) \in Step /\ Tail(todo[t]) \in Seq(Step)
           /\ Held(t) \in SUBSET Mutexes
           /\ Fits(Floor(t), Held(t), Head(todo[t]))
           /\ Ordered(Floor(t), {}, After(Held(t), Head(todo[t])), Tail(todo[t]))
<1>1. todo[t] \in Seq(Step) /\ Held(t) \in SUBSET Mutexes
      /\ Ordered(Floor(t), {}, Held(t), todo[t])
  BY DEF LockInv, Held
<1>2. Head(todo[t]) \in Step /\ Tail(todo[t]) \in Seq(Step)
  BY <1>1
<1> QED
  BY <1>1, <1>2, OrderedStep

LEMMA IdleHoldsNothing ==
    ASSUME LockInv, NEW t \in Threads, todo[t] = <<>>
    PROVE  Held(t) = {}
<1>1. todo[t] \in Seq(Step) /\ Held(t) \in SUBSET Mutexes
      /\ Ordered(Floor(t), {}, Held(t), todo[t])
  BY DEF LockInv, Held
<1> QED
  BY <1>1, OrderedStep

\* A step along the script of t that leaves what the others hold alone.
LEMMA GoneOn ==
    ASSUME LockInv, NEW t \in Threads, todo[t] # <<>>, Advance(t),
           holder' \in [Mutexes -> Threads \cup {Free}],
           Held(t)' = After(Held(t), Head(todo[t])),
           \A u \in Threads \ {t} : Held(u)' = Held(u)
    PROVE  LockInv'
<1>1. Tail(todo[t]) \in Seq(Step)
      /\ Ordered(Floor(t), {}, Held(t)', Tail(todo[t]))
  BY NextStep
<1>2. /\ todo' \in [Threads -> Seq(Step)] /\ todo'[t] = Tail(todo[t])
      /\ \A u \in Threads \ {t} : todo'[u] = todo[u]
  BY <1>1 DEF LockInv, Advance
<1>3. \A u \in Threads : Ordered(Floor(u), {}, Held(u)', todo'[u])
  <2>1. Ordered(Floor(t), {}, Held(t)', todo'[t])
    BY <1>1, <1>2
  <2>2. ASSUME NEW u \in Threads \ {t}
        PROVE  Ordered(Floor(u), {}, Held(u)', todo'[u])
    <3>1. Held(u)' = Held(u) /\ todo'[u] = todo[u]
      BY <1>2
    <3>2. Ordered(Floor(u), {}, Held(u), todo[u])
      BY DEF LockInv
    <3> QED
      BY <3>1, <3>2
  <2> QED
    BY <2>1, <2>2
<1>4. todo' \in [Threads -> Seq(Step)] /\ holder' \in [Mutexes -> Threads \cup {Free}]
  BY <1>2
<1> QED
  BY <1>3, <1>4 DEF LockInv

LEMMA HeldSame ==
    ASSUME holder' = holder
    PROVE  \A u : Held(u)' = Held(u)
BY DEF Held

LEMMA InitLocks == Init => LockInv
<1> SUFFICES ASSUME Init PROVE LockInv
  OBVIOUS
<1>1. \A t \in Threads : Held(t) = {}
  BY ThreadFacts DEF Init, Held
<1>2. \A t \in Threads : Ordered(Floor(t), {}, {}, <<>>)
  BY NothingOrdered
<1>3. todo \in [Threads -> Seq(Step)] /\ \A t \in Threads : todo[t] = <<>>
  BY DEF Init
<1>4. holder \in [Mutexes -> Threads \cup {Free}]
  BY DEF Init
<1> QED
  BY <1>1, <1>2, <1>3, <1>4 DEF LockInv

LEMMA BeginLocks ==
    ASSUME LockInv, NEW t \in {"main", "monitor", "tray"}, Begin(t)
    PROVE  LockInv'
<1>1. t \in Threads /\ todo[t] = <<>> /\ holder' = holder
  BY ThreadFacts DEF Begin
<1>2. PICK s \in Operations[t] : todo' = [todo EXCEPT ![t] = s]
  BY DEF Begin
<1>3. s \in Seq(Step) /\ Ordered(Floor(t), {}, {}, s)
  BY OperationsCalm DEF Calm
<1>4. Held(t) = {}
  BY <1>1, IdleHoldsNothing
<1>5. /\ todo' \in [Threads -> Seq(Step)] /\ todo'[t] = s
      /\ \A u \in Threads \ {t} : todo'[u] = todo[u]
  BY <1>1, <1>2, <1>3 DEF LockInv
<1>6. \A u \in Threads : Ordered(Floor(u), {}, Held(u), todo'[u])
  BY <1>3, <1>4, <1>5 DEF LockInv
<1>7. \A u \in Threads : Held(u)' = Held(u)
  BY <1>1, HeldSame
<1> QED
  BY <1>1, <1>5, <1>6, <1>7 DEF LockInv

LEMMA LockMutexLocks ==
    ASSUME LockInv, NEW t \in Threads, LockMutex(t)
    PROVE  LockInv'
<1> DEFINE m == On(t)
<1>1. todo[t] # <<>> /\ Head(todo[t]).do = "lock" /\ holder[m] = Free
      /\ holder' = [holder EXCEPT ![m] = t] /\ Advance(t)
  BY DEF LockMutex, Doing
<1>2. m \in Mutexes
  BY <1>1, NextStep DEF Fits, On
<1> HIDE DEF m
<1>3. holder' \in [Mutexes -> Threads \cup {Free}]
  BY <1>1 DEF LockInv
<1>4. Held(t)' = Held(t) \cup {m}
  BY <1>1, <1>2 DEF Held, LockInv
<1>5. \A u \in Threads \ {t} : Held(u)' = Held(u)
  BY <1>1, <1>2, ThreadFacts DEF Held, LockInv
<1>6. After(Held(t), Head(todo[t])) = Held(t) \cup {m}
  BY <1>1 DEF After, m, On
<1> QED
  BY <1>1, <1>3, <1>4, <1>5, <1>6, GoneOn

LEMMA UnlockMutexLocks ==
    ASSUME LockInv, NEW t \in Threads, UnlockMutex(t)
    PROVE  LockInv'
<1> DEFINE m == On(t)
<1>1. todo[t] # <<>> /\ Head(todo[t]).do = "unlock"
      /\ holder' = [holder EXCEPT ![m] = Free] /\ Advance(t)
  BY DEF UnlockMutex, Doing
<1>2. m \in Mutexes /\ m \in Held(t)
  BY <1>1, NextStep DEF Fits, On
<1> HIDE DEF m
<1>3. holder' \in [Mutexes -> Threads \cup {Free}]
  BY <1>1 DEF LockInv
<1>4. Held(t)' = Held(t) \ {m}
  BY <1>1, <1>2, ThreadFacts DEF Held, LockInv
<1>5. \A u \in Threads \ {t} : Held(u)' = Held(u)
  BY <1>1, <1>2, ThreadFacts DEF Held, LockInv
<1>6. After(Held(t), Head(todo[t])) = Held(t) \ {m}
  BY <1>1 DEF After, m, On
<1> QED
  BY <1>1, <1>3, <1>4, <1>5, <1>6, GoneOn

\* The steps that change no mutex.
LEMMA OtherStepLocks ==
    ASSUME LockInv, NEW t \in Threads, todo[t] # <<>>,
           Head(todo[t]).do \notin {"lock", "unlock"}, Advance(t), holder' = holder
    PROVE  LockInv'
<1>1. After(Held(t), Head(todo[t])) = Held(t)
  BY DEF After
<1>2. \A u \in Threads : Held(u)' = Held(u)
  BY HeldSame
<1>3. holder' \in [Mutexes -> Threads \cup {Free}]
  BY DEF LockInv
<1> QED
  BY <1>1, <1>2, <1>3, GoneOn

LEMMA SpawnLocks ==
    ASSUME LockInv, NEW t \in Threads, SpawnThread(t)
    PROVE  LockInv'
<1>1. todo[t] # <<>> /\ Head(todo[t]).do = "spawn" /\ holder' = holder
  BY DEF SpawnThread, Doing
<1>2. CASE Advance(t)
  BY <1>1, <1>2, OtherStepLocks
<1>3. ASSUME NEW w \in Workers, NEW s \in Bodies[On(t)], todo[w] = <<>>,
             todo' = [todo EXCEPT ![t] = Tail(todo[t]), ![w] = s]
      PROVE  LockInv'
  <2>1. w \in Threads /\ w # t /\ w \notin {"monitor", "main"}
    BY <1>1, <1>3, ThreadFacts
  <2>2. Tail(todo[t]) \in Seq(Step) /\ Ordered(Floor(t), {}, Held(t), Tail(todo[t]))
        /\ On(t) \in DOMAIN Bodies
    BY <1>1, NextStep DEF After, Fits, On
  <2>3. s \in Seq(Step) /\ Ordered(Floor(w), {}, {}, s)
    BY <2>1, <2>2, BodiesCalm DEF Calm, Floor
  <2>4. Held(w) = {}
    BY <1>3, <2>1, IdleHoldsNothing
  <2>5. /\ todo' \in [Threads -> Seq(Step)] /\ todo'[t] = Tail(todo[t]) /\ todo'[w] = s
        /\ \A u \in Threads \ {t, w} : todo'[u] = todo[u]
    BY <1>3, <2>1, <2>2, <2>3 DEF LockInv
  <2>6. \A u \in Threads : Ordered(Floor(u), {}, Held(u), todo'[u])
    BY <2>2, <2>3, <2>4, <2>5 DEF LockInv
  <2>7. \A u \in Threads : Held(u)' = Held(u)
    BY <1>1, HeldSame
  <2> QED
    BY <1>1, <2>5, <2>6, <2>7 DEF LockInv
<1> QED
  BY <1>2, <1>3 DEF SpawnThread

LEMMA NextLocks ==
    ASSUME LockInv, [Next]_vars
    PROVE  LockInv'
<1>1. CASE todo' = todo /\ holder' = holder
  BY <1>1 DEF LockInv, Held
<1>2. ASSUME NEW t \in {"main", "monitor", "tray"}, Begin(t)
      PROVE  LockInv'
  BY <1>2, BeginLocks
<1>3. CASE EndMonitor
  BY <1>1, <1>3 DEF EndMonitor
<1>4. ASSUME NEW t \in Threads, Go(t)
      PROVE  LockInv'
  <2>1. CASE LockMutex(t)
    BY <2>1, LockMutexLocks
  <2>2. CASE UnlockMutex(t)
    BY <2>2, UnlockMutexLocks
  <2>3. CASE TouchMutex(t)
    BY <2>3, OtherStepLocks DEF TouchMutex, Doing
  <2>4. CASE Stop(t)
    BY <2>4, OtherStepLocks DEF Stop, Doing
  <2>5. CASE JoinMonitor(t)
    BY <2>5, OtherStepLocks DEF JoinMonitor, Doing
  <2>6. CASE AwaitWindow(t)
    BY <2>6, OtherStepLocks DEF AwaitWindow, Doing
  <2>7. CASE SpawnThread(t)
    BY <2>7, SpawnLocks
  <2>8. CASE ExitProcess(t)
    BY <1>1, <2>8 DEF ExitProcess
  <2> QED
    BY <1>4, <2>1, <2>2, <2>3, <2>4, <2>5, <2>6, <2>7, <2>8 DEF Go
<1> QED
  BY <1>1, <1>2, <1>3, <1>4 DEF Next, vars

-----------------------------------------------------------------------------
(***************************************************************************)
(* No circle closes.                                                       *)
(***************************************************************************)
\* The rank of what t waits for.
Awaited(t) ==
    CASE Head(todo[t]).do = "join"  -> JoinRank
      [] Head(todo[t]).do = "await" -> AwaitRank
      [] OTHER                      -> Rank(On(t))

LEMMA Waiting ==
    ASSUME LockInv, NEW t \in Threads, NEW u \in Threads, u \in WaitsFor(t)
    PROVE  /\ todo[t] # <<>>
           /\ \/ Head(todo[t]).do \in {"lock", "touch"} /\ On(t) \in Mutexes /\ holder[On(t)] = u
              \/ Head(todo[t]).do = "join" /\ u = "monitor"
              \/ Head(todo[t]).do = "await" /\ u = "main"
<1>1. CASE Doing(t, "lock") \/ Doing(t, "touch")
  <2>1. todo[t] # <<>> /\ Head(todo[t]).do \in {"lock", "touch"} /\ ~Doing(t, "join")
        /\ ~Doing(t, "await")
    BY <1>1 DEF Doing
  <2>2. WaitsFor(t) = {holder[On(t)]} \ {Free}
    BY <1>1, <2>1 DEF WaitsFor
  <2> QED
    BY <2>1, <2>2, NextStep DEF Fits, On
<1>2. CASE ~(Doing(t, "lock") \/ Doing(t, "touch"))
  <2>1. (Doing(t, "join") /\ u = "monitor") \/ (Doing(t, "await") /\ u = "main")
    BY <1>2 DEF WaitsFor
  <2> QED
    BY <2>1 DEF Doing
<1> QED
  BY <1>1, <1>2

\* A thread that waits for another one has room for what it waits for.
LEMMA RoomToWait ==
    ASSUME LockInv, NEW t \in Threads, NEW u \in Threads, u \in WaitsFor(t), u # t
    PROVE  Room(Floor(t), Held(t), Awaited(t)) /\ Awaited(t) \in (-1)..5
<1>1. /\ todo[t] # <<>>
      /\ \/ Head(todo[t]).do \in {"lock", "touch"} /\ On(t) \in Mutexes /\ holder[On(t)] = u
         \/ Head(todo[t]).do = "join" /\ u = "monitor"
         \/ Head(todo[t]).do = "await" /\ u = "main"
  BY Waiting
<1>2. Fits(Floor(t), Held(t), Head(todo[t]))
  BY <1>1, NextStep
<1>3. CASE Head(todo[t]).do = "join"
  BY <1>2, <1>3 DEF Fits, Awaited, JoinRank
<1>4. CASE Head(todo[t]).do = "await"
  BY <1>2, <1>4 DEF Fits, Awaited, AwaitRank
<1>5. CASE Head(todo[t]).do \notin {"join", "await"}
  <2>1. Awaited(t) = Rank(On(t)) /\ Awaited(t) \in (-1)..5
    BY <1>1, <1>5, Ranks DEF Awaited
  <2>2. On(t) \notin Held(t)
    BY <1>1, <1>5 DEF Held
  <2>3. Rest(Held(t), On(t)) = Held(t)
    BY <2>2 DEF Rest
  <2> QED
    BY <1>1, <1>2, <1>5, <2>1, <2>3 DEF Fits, On
<1> QED
  BY <1>3, <1>4, <1>5

\* Who is waited for waits for something that ranks higher, unless it waits
\* for itself.
LEMMA Uphill ==
    ASSUME LockInv, NEW t \in Threads, NEW u \in Threads, u \in WaitsFor(t), u # t,
           NEW v \in Threads, v \in WaitsFor(u), v # u
    PROVE  Awaited(t) < Awaited(u)
<1>1. Room(Floor(u), Held(u), Awaited(u))
  BY RoomToWait
<1>2. \/ Head(todo[t]).do \in {"lock", "touch"} /\ On(t) \in Mutexes /\ holder[On(t)] = u
      \/ Head(todo[t]).do = "join" /\ u = "monitor"
      \/ Head(todo[t]).do = "await" /\ u = "main"
  BY Waiting
<1>3. CASE Head(todo[t]).do = "join"
  <2>1. Awaited(t) = JoinRank /\ Floor(u) = JoinRank
    BY <1>2, <1>3 DEF Awaited, Floor
  <2> QED
    BY <1>1, <2>1 DEF Room
<1>4. CASE Head(todo[t]).do = "await"
  <2>1. Awaited(t) = AwaitRank /\ Floor(u) = AwaitRank
    BY <1>2, <1>4 DEF Awaited, Floor
  <2> QED
    BY <1>1, <2>1 DEF Room
<1>5. CASE Head(todo[t]).do \notin {"join", "await"}
  <2>1. On(t) \in Held(u) /\ Awaited(t) = Rank(On(t))
    BY <1>2, <1>5 DEF Held, Awaited
  <2> QED
    BY <1>1, <2>1 DEF Room
<1> QED
  BY <1>3, <1>4, <1>5

LEMMA NoCircle == LockInv => NoCircularWait
<1> SUFFICES ASSUME LockInv, NEW S \in SUBSET Threads, S # {},
                    \A t \in S : ~(WaitsFor(t) \cap S \subseteq {t})
             PROVE  FALSE
  BY DEF NoCircularWait
<1>1. \A t \in S : \E u \in S : u \in WaitsFor(t) /\ u # t
  OBVIOUS
<1>2. \A t \in S : Awaited(t) \in (-1)..5
  BY <1>1, RoomToWait
<1>3. ASSUME NEW t \in S
      PROVE  \E u \in S : Awaited(t) < Awaited(u)
  <2>1. PICK u \in S : u \in WaitsFor(t) /\ u # t
    BY <1>1
  <2>2. PICK v \in S : v \in WaitsFor(u) /\ v # u
    BY <1>1
  <2> QED
    BY <2>1, <2>2, Uphill
<1> DEFINE Beyond(n) == \E t \in S : Awaited(t) >= n
<1>4. ASSUME NEW n \in (-1)..5, Beyond(n)
      PROVE  Beyond(n + 1)
  <2>1. PICK t \in S : Awaited(t) >= n
    BY <1>4
  <2>2. PICK u \in S : Awaited(t) < Awaited(u)
    BY <1>3
  <2>3. Awaited(u) >= n + 1
    BY <1>2, <2>1, <2>2
  <2> QED
    BY <2>3
<1>5. Beyond(-1)
  BY <1>2
<1>6. ~Beyond(6)
  BY <1>2
<1> HIDE DEF Beyond
<1>7. Beyond(0) /\ Beyond(1) /\ Beyond(2) /\ Beyond(3)
  BY <1>4, <1>5
<1>8. Beyond(4) /\ Beyond(5) /\ Beyond(6)
  BY <1>4, <1>7
<1> QED
  BY <1>6, <1>8

LEMMA NoSelf ==
    ASSUME LockInv, ~Imports
    PROVE  NoSelfWait
<1> SUFFICES ASSUME NEW t \in Threads, t \in WaitsFor(t)
             PROVE  FALSE
  BY DEF NoSelfWait
<1>1. /\ todo[t] # <<>>
      /\ \/ Head(todo[t]).do \in {"lock", "touch"} /\ On(t) \in Mutexes /\ holder[On(t)] = t
         \/ Head(todo[t]).do = "join" /\ t = "monitor"
         \/ Head(todo[t]).do = "await" /\ t = "main"
  BY Waiting
<1>2. Fits(Floor(t), Held(t), Head(todo[t]))
  BY <1>1, NextStep
<1>3. CASE Head(todo[t]).do = "join"
  BY <1>1, <1>2, <1>3 DEF Fits, Room, Floor, JoinRank
<1>4. CASE Head(todo[t]).do = "await"
  BY <1>1, <1>2, <1>4 DEF Fits, Room, Floor, AwaitRank
<1>5. CASE Head(todo[t]).do \notin {"join", "await"}
  <2>1. Room(Floor(t), Held(t), Rank(On(t)))
    BY <1>1, <1>2, <1>5 DEF Fits, Rest, On
  <2>2. On(t) \in Held(t) /\ Rank(On(t)) \in 0..5
    BY <1>1, <1>5, Ranks DEF Held
  <2> QED
    BY <2>1, <2>2 DEF Room
<1> QED
  BY <1>3, <1>4, <1>5

\* For any number of spawned threads, whatever they, the window, the tray and
\* the monitor are in the middle of, and whether or not imports are carried to
\* the end: no two or more threads wait for one another, through the mutexes of
\* the window process, the join in AppSession::shutdown or ShowWindow.
THEOREM NobodyWaitsInACircle == Spec => []NoCircularWait
<1>1. Init => LockInv
  BY InitLocks
<1>2. LockInv /\ [Next]_vars => LockInv'
  BY NextLocks
<1>3. LockInv => NoCircularWait
  BY NoCircle
<1> QED
  BY <1>1, <1>2, <1>3, PTL DEF Spec

\* As long as no import is carried to the end, no thread asks for a mutex it
\* holds: the import's refresh of the metrics is the only place in the window
\* process that locks itself out.
THEOREM OnlyImportsLockThemselvesOut == ~Imports => (Spec => []NoSelfWait)
<1> SUFFICES ASSUME ~Imports PROVE Spec => []NoSelfWait
  OBVIOUS
<1>1. Init => LockInv
  BY InitLocks
<1>2. LockInv /\ [Next]_vars => LockInv'
  BY NextLocks
<1>3. LockInv => NoSelfWait
  BY NoSelf
<1> QED
  BY <1>1, <1>2, <1>3, PTL DEF Spec
=============================================================================
