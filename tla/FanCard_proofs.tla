--------------------------- MODULE FanCard_proofs ---------------------------
(***************************************************************************)
(* Theorems about FanCard, for curves of any length, any temperatures and  *)
(* levels, and any number of the user's actions.                           *)
(***************************************************************************)
EXTENDS FanCard, TLAPS

(***************************************************************************)
(* The inductive invariants, one for each idea.                            *)
(***************************************************************************)
\* A held widget has its flag, and shows what the pointer was dragged to.
Held ==
    /\ pointer.on = "level" => dragging.level /\ level = pointer.value
    /\ pointer.on = "curve" => dragging.curve /\ curve = pointer.value

\* A snapshot that is not old, stored or being taken, is the fan.
Fresh ==
    /\ ~snap.old => snap.fan = fan
    /\ \A r \in Readers : reader[r] # Idle /\ ~reader[r].old => reader[r].fan = fan

\* While an edit is under way the card is blocked and nothing on it is held;
\* its thread takes its snapshot last.
Underway ==
    /\ applying <=> edit # Idle
    /\ applying => pointer = NoPointer
    /\ reader["edit"] # Idle => edit.at = "read"

\* What has to be so as long as nothing has happened that excuses a loss.
\* Between edits the window knows the fan, ...
Known ==
    /\ ~applying => ~snap.old
    /\ reader["edit"] # Idle => ~reader["edit"].old

\* ... no widget keeps its flag, and no edited curve its buffer, ...
Released ==
    /\ dragging.level => pointer.on = "level"
    /\ dragging.curve => pointer.on = "curve"
    /\ dirty => applying \/ pointer.on = "curve"

\* ... a curve being dragged is what the user wants, and marked as changed
\* where the fan differs, ...
Dragged ==
    pointer.on = "curve" => curve = want.curve /\ (~dirty => curve = fan.curve)

\* ... and the fan has what the user wants, or the edit under way has it.
Settled ==
    /\ fan.mode = want.mode
    /\ fan.mode = "fixed" => fan.level = want.level

Carried ==
    /\ ~applying => Settled /\ (pointer.on # "curve" => fan.curve = want.curve)
    /\ edit.at \in {"mode", "fixed", "curve"} =>
        /\ edit.mode = want.mode
        /\ edit.mode = "fixed" => edit.level = want.level
        /\ IF edit.mode = "curve" THEN edit.curve = want.curve ELSE fan.curve = want.curve
    /\ edit.at \in {"fixed", "curve"} => fan.mode = edit.mode /\ edit.mode = edit.at
    /\ edit.at = "read" => Settled /\ fan.curve = want.curve

Unexcused == excuses = {} => Known /\ Released /\ Dragged /\ Carried
-----------------------------------------------------------------------------
(***************************************************************************)
(* Type correctness.                                                       *)
(***************************************************************************)
LEMMA FanFields ==
    ASSUME NEW f \in Fan
    PROVE  /\ f.mode \in Modes /\ f.level \in Levels /\ f.curve \in Curves
           /\ \A m \in Modes, l \in Levels :
                [f EXCEPT !.mode = m, !.level = l] \in Fan
           /\ \A l \in Levels : [f EXCEPT !.level = l] \in Fan
           /\ \A c \in Curves : [f EXCEPT !.curve = c] \in Fan
BY DEF Fan

\* What the buffers show is something the fan can have.
LEMMA ShownTyped ==
    ASSUME TypeOK
    PROVE  ShownLevel \in Levels /\ ShownCurve \in Curves
BY FanFields DEF TypeOK, Snapshot, ShownLevel, ShownCurve

ReaderStates == {Idle} \cup [at : {"curve", "store"}, fan : Fan, old : BOOLEAN]
EditStates   == {Idle} \cup [at : {"mode", "fixed", "curve", "read"}, mode : Modes,
                             level : Levels, curve : Curves]
Flags        == [level : BOOLEAN, curve : BOOLEAN]

\* TypeOK in parts, for the prover.
Typed ==
    /\ fan \in Fan /\ snap \in Snapshot /\ want \in Fan
    /\ level \in Levels /\ curve \in Curves
    /\ dragging \in Flags
    /\ dirty \in BOOLEAN /\ applying \in BOOLEAN /\ drawn \in BOOLEAN
    /\ pointer \in Pointers
    /\ reader \in [Readers -> ReaderStates]
    /\ edit \in EditStates
    /\ excuses \subseteq Excusable /\ acts \in Nat

LEMMA TypedIsTypeOK == TypeOK <=> Typed
BY DEF TypeOK, Typed, ReaderStates, EditStates, Flags

LEMMA EditFields ==
    /\ Idle \in EditStates
    /\ \A m \in Modes, l \in Levels, c \in Curves :
        [at |-> "mode", mode |-> m, level |-> l, curve |-> c] \in EditStates
    /\ \A e \in EditStates : e.at \in {"mode", "fixed", "curve", "read"} =>
        /\ e.mode \in Modes /\ e.level \in Levels /\ e.curve \in Curves
        /\ \A at \in {"mode", "fixed", "curve", "read"} : [e EXCEPT !.at = at] \in EditStates
BY DEF EditStates, Idle

LEMMA ReaderFields ==
    /\ Idle \in ReaderStates
    /\ \A f \in Fan : [at |-> "curve", fan |-> f, old |-> FALSE] \in ReaderStates
    /\ \A q \in ReaderStates : q # Idle =>
        /\ q.fan \in Fan /\ q.old \in BOOLEAN /\ [fan |-> q.fan, old |-> q.old] \in Snapshot
        /\ [q EXCEPT !.old = TRUE] \in ReaderStates
        /\ \A c \in Curves : [q EXCEPT !.at = "store", !.fan.curve = c] \in ReaderStates
    /\ \A q \in ReaderStates : q.at \in {"curve", "store"} => q # Idle
<1>1. ASSUME NEW q \in ReaderStates, q # Idle
      PROVE  /\ q.fan \in Fan /\ q.old \in BOOLEAN
             /\ [fan |-> q.fan, old |-> q.old] \in Snapshot
             /\ [q EXCEPT !.old = TRUE] \in ReaderStates
  BY <1>1 DEF ReaderStates, Snapshot
<1>2. ASSUME NEW q \in ReaderStates, q # Idle, NEW c \in Curves
      PROVE  [q EXCEPT !.at = "store", !.fan.curve = c] \in ReaderStates
  <2>1. q \in [at : {"curve", "store"}, fan : Fan, old : BOOLEAN] /\ q.fan \in Fan
    BY <1>2 DEF ReaderStates
  <2>2. [q.fan EXCEPT !.curve = c] \in Fan
    BY <1>2, <2>1, FanFields
  <2>3. [q EXCEPT !.at = "store", !.fan = [q.fan EXCEPT !.curve = c]] \in ReaderStates
    BY <2>1, <2>2 DEF ReaderStates
  <2> QED
    BY <2>1, <2>3
<1>3. /\ Idle \in ReaderStates
      /\ \A f \in Fan : [at |-> "curve", fan |-> f, old |-> FALSE] \in ReaderStates
      /\ \A q \in ReaderStates : q.at \in {"curve", "store"} => q # Idle
  BY DEF ReaderStates, Idle
<1> QED
  BY <1>1, <1>2, <1>3

LEMMA PointerFields ==
    /\ NoPointer \in Pointers /\ NoPointer.on = "nothing"
    /\ \A l \in Levels : [on |-> "level", value |-> l] \in Pointers
    /\ \A c \in Curves : [on |-> "curve", value |-> c] \in Pointers
    /\ \A q \in Pointers : /\ q.on \in {"nothing", "level", "curve"}
                           /\ q.on = "nothing" => q = NoPointer
                           /\ q.on = "level" => q.value \in Levels
                           /\ q.on = "curve" => q.value \in Curves
BY DEF Pointers, NoPointer

\* An edit that starts has arguments of the right types.
LEMMA ApplyTyped ==
    ASSUME NEW m \in Modes, NEW l \in Levels, NEW c \in Curves, Apply(m, l, c)
    PROVE  /\ applying' = TRUE /\ dragging' \in Flags /\ edit' \in EditStates
           /\ pointer' \in Pointers
BY EditFields, PointerFields DEF Apply, Flags

LEMMA WriteTyped ==
    ASSUME Typed, NEW new \in Fan, Write(new)
    PROVE  fan' \in Fan /\ snap' \in Snapshot /\ reader' \in [Readers -> ReaderStates]
<1>1. snap' \in Snapshot
  BY DEF Write, Typed, Snapshot
<1>2. reader' \in [Readers -> ReaderStates]
  BY ReaderFields DEF Write, Typed
<1> QED
  BY <1>1, <1>2 DEF Write

LEMMA TypeStep ==
    ASSUME Typed, [Next]_vars
    PROVE  Typed'
<1> USE DEF buffers
<1>s. /\ ShownLevel \in Levels /\ ShownCurve \in Curves /\ snap.fan \in Fan
      /\ snap.fan.level \in Levels /\ snap.fan.curve \in Curves
  BY ShownTyped, TypedIsTypeOK, FanFields DEF Typed, Snapshot
<1>1. ASSUME NEW m \in Modes, ClickMode(m)
      PROVE  Typed'
  <2>1. level' \in Levels /\ curve' \in Curves
    BY <1>s, <1>1 DEF ClickMode
  <2>2. /\ applying' = TRUE /\ dragging' \in Flags /\ edit' \in EditStates
        /\ pointer' \in Pointers
    BY <1>s, <1>1, <2>1, ApplyTyped DEF ClickMode
  <2>3. want' \in Fan
    BY <1>1, <2>1 DEF ClickMode, Typed, Fan
  <2> QED
    BY <1>1, <2>1, <2>2, <2>3 DEF ClickMode, Act, Typed
<1>2. ASSUME NEW l \in Levels, DragLevel(l)
      PROVE  Typed'
  <2>1. dragging' \in Flags /\ pointer' \in Pointers
    BY <1>2, PointerFields DEF DragLevel, Typed, Flags
  <2> QED
    BY <1>s, <1>2, <2>1 DEF DragLevel, Act, Typed
<1>3. ASSUME NEW i \in Points, NEW v \in Temps, DragCurve(i, v)
      PROVE  Typed'
  <2>1. curve' \in Curves
    BY <1>s, <1>3 DEF DragCurve, Curves
  <2>2. dragging' \in Flags /\ pointer' \in Pointers
    BY <1>3, <2>1, PointerFields DEF DragCurve, Typed, Flags
  <2>3. want' \in Fan
    <3>1. [want.curve EXCEPT ![i] = v] \in Curves
      BY FanFields DEF Typed, Curves
    <3>2. want' = [want EXCEPT !.curve = [want.curve EXCEPT ![i] = v]]
      BY <1>3 DEF DragCurve, Typed, Fan
    <3> QED
      BY <3>1, <3>2, FanFields DEF Typed
  <2>4. dirty' \in BOOLEAN
    BY <1>3 DEF DragCurve, Typed
  <2> QED
    BY <1>s, <1>3, <2>1, <2>2, <2>3, <2>4 DEF DragCurve, Act, Typed
<1>4. ASSUME NEW c \in Curves, RestoreDefault(c)
      PROVE  Typed'
  <2>1. /\ applying' = TRUE /\ dragging' \in Flags /\ edit' \in EditStates
        /\ pointer' \in Pointers
    BY <1>s, <1>4, ApplyTyped DEF RestoreDefault, Modes
  <2>2. want' \in Fan
    BY <1>4 DEF RestoreDefault, Typed, Fan, Modes
  <2> QED
    BY <1>s, <1>4, <2>1, <2>2 DEF RestoreDefault, Act, Typed
<1>5. CASE Hide \/ Show
  <2>1. drawn' \in BOOLEAN
    BY <1>5 DEF Hide, Show
  <2>2. acts' \in Nat
    BY <1>5 DEF Hide, Show, Act, Typed
  <2> QED
    BY <1>5, <2>1, <2>2 DEF Hide, Show, Typed
<1>6. CASE ReleaseLevel
  <2>1. /\ applying' = TRUE /\ dragging' \in Flags /\ edit' \in EditStates
        /\ pointer' \in Pointers
    BY <1>s, <1>6, ApplyTyped DEF ReleaseLevel, Modes
  <2>2. want' \in Fan
    BY <1>6, PointerFields DEF ReleaseLevel, Typed, Fan, Modes
  <2> QED
    BY <1>s, <1>6, <2>1, <2>2 DEF ReleaseLevel, Typed
<1>7. CASE ReleaseCurve
  <2>1. /\ applying' \in BOOLEAN /\ dragging' \in Flags /\ edit' \in EditStates
        /\ pointer' \in Pointers
    <3>1. CASE dirty /\ Apply("curve", snap.fan.level, curve')
      BY <1>s, <1>7, <3>1, ApplyTyped DEF ReleaseCurve, Modes
    <3>2. CASE /\ dragging' = [dragging EXCEPT !.curve = FALSE]
               /\ pointer' = NoPointer
               /\ UNCHANGED <<applying, edit>>
      BY <3>2, PointerFields DEF Typed, Flags
    <3> QED
      BY <1>7, <3>1, <3>2 DEF ReleaseCurve
  <2> QED
    BY <1>s, <1>7, <2>1 DEF ReleaseCurve, Typed
<1>8. CASE LoseGrip
  BY <1>8, PointerFields DEF LoseGrip, Typed, Excusable
<1>9. CASE DrawFrame
  <2>1. dragging' \in Flags
    BY <1>9 DEF DrawFrame, Typed, Flags
  <2> QED
    BY <1>s, <1>9, <2>1 DEF DrawFrame, Typed
<1>10. CASE EditMode
  <2>0. edit.mode \in Modes
    BY <1>10, EditFields DEF EditMode, Typed
  <2>1. PICK l \in Levels : Write([fan EXCEPT !.mode = edit.mode, !.level = l])
    BY <1>10, FanFields DEF EditMode, Typed
  <2>2. fan' \in Fan /\ snap' \in Snapshot /\ reader' \in [Readers -> ReaderStates]
    BY <2>0, <2>1, FanFields, WriteTyped DEF Typed
  <2>3. edit' \in EditStates
    BY <1>10, <2>0, EditFields DEF EditMode, Typed, Modes
  <2> QED
    BY <1>10, <2>2, <2>3 DEF EditMode, Typed
<1>11. CASE EditLevel \/ EditCurve
  <2>0. edit.level \in Levels /\ edit.curve \in Curves /\ edit' \in EditStates
    BY <1>11, EditFields DEF EditLevel, EditCurve, Typed
  <2>1. fan' \in Fan /\ snap' \in Snapshot /\ reader' \in [Readers -> ReaderStates]
    BY <1>11, <2>0, FanFields, WriteTyped DEF EditLevel, EditCurve, Typed
  <2> QED
    BY <1>11, <2>0, <2>1 DEF EditLevel, EditCurve, Typed
<1>12. CASE EditStore
  <2>1. "edit" \in Readers /\ reader["edit"] \in ReaderStates
    BY DEF Typed, Readers
  <2>2. snap' \in Snapshot
    BY <1>12, <2>1, ReaderFields DEF EditStore, Taken
  <2> QED
    BY <1>12, <2>1, <2>2, ReaderFields, EditFields DEF EditStore, Typed
<1>13. CASE EditFails
  BY <1>13, ReaderFields, EditFields DEF EditFails, Typed, Excusable
<1>14. ASSUME NEW r \in Readers, ReadMode(r)
      PROVE  Typed'
  BY <1>14, ReaderFields DEF ReadMode, Typed
<1>15. ASSUME NEW r \in Readers, ReadCurve(r)
      PROVE  Typed'
  <2>1. reader[r] \in ReaderStates /\ reader[r] # Idle /\ fan.curve \in Curves
    BY <1>15, ReaderFields, FanFields DEF ReadCurve, Typed
  <2>2. reader' = [reader EXCEPT ![r] =
                     [reader[r] EXCEPT !.at = "store", !.fan.curve = fan.curve]]
    BY <1>15 DEF ReadCurve, Typed
  <2>3. reader' \in [Readers -> ReaderStates]
    BY <2>1, <2>2, ReaderFields DEF Typed
  <2> QED
    BY <1>15, <2>3 DEF ReadCurve, Typed
<1>16. ASSUME NEW r \in Readers, StoreSnapshot(r)
      PROVE  Typed'
  <2>1. snap' \in Snapshot
    BY <1>16, ReaderFields DEF StoreSnapshot, Taken, Typed
  <2>2. excuses' \subseteq Excusable
    BY <1>16 DEF StoreSnapshot, Typed, Excusable
  <2> QED
    BY <1>16, <2>1, <2>2, ReaderFields DEF StoreSnapshot, Typed
<1>17. ASSUME NEW new \in OutsideFans, Outside(new)
      PROVE  Typed'
  <2>1. new \in Fan
    BY FanCardFansAssumption
  <2>2. fan' \in Fan /\ snap' \in Snapshot /\ reader' \in [Readers -> ReaderStates]
    BY <1>17, <2>1, WriteTyped DEF Outside
  <2> QED
    BY <1>17, <2>1, <2>2 DEF Outside, Typed, Excusable
<1>18. CASE UNCHANGED vars
  BY <1>18 DEF vars, Typed
<1> QED
  BY <1>1, <1>2, <1>3, <1>4, <1>5, <1>6, <1>7, <1>8, <1>9, <1>10, <1>11, <1>12, <1>13,
     <1>14, <1>15, <1>16, <1>17, <1>18 DEF Next, User, LetGo, Edit, Take
-----------------------------------------------------------------------------
(***************************************************************************)
(* What is held.                                                           *)
(***************************************************************************)
\* Held widgets keep their buffers.
LEMMA ShownHeld ==
    /\ dragging.level => ShownLevel = level
    /\ dragging.curve \/ applying \/ dirty => ShownCurve = curve
BY DEF ShownLevel, LevelHeld, ShownCurve, CurveHeld

LEMMA LettingGo ==
    ASSUME pointer' = NoPointer
    PROVE  Held'
BY PointerFields DEF Held, NoPointer

LEMMA HeldStep ==
    ASSUME Typed, Held, [Next]_vars
    PROVE  Held'
<1> USE DEF buffers
<1>1. CASE \/ \E m \in Modes : ClickMode(m)
           \/ \E c \in Curves : RestoreDefault(c)
           \/ ReleaseLevel \/ ReleaseCurve \/ LoseGrip
  <2>1. pointer' = NoPointer
    BY <1>1 DEF ClickMode, RestoreDefault, ReleaseLevel, ReleaseCurve, LoseGrip, Apply
  <2> QED
    BY <2>1, LettingGo
<1>2. ASSUME NEW l \in Levels, DragLevel(l)
      PROVE  Held'
  <2>1. /\ level' = l /\ pointer' = [on |-> "level", value |-> l]
        /\ dragging' = [dragging EXCEPT !.level = TRUE]
    BY <1>2 DEF DragLevel
  <2>2. dragging'.level
    BY <2>1 DEF Typed, Flags
  <2> QED
    BY <2>1, <2>2 DEF Held
<1>3. ASSUME NEW i \in Points, NEW v \in Temps, DragCurve(i, v)
      PROVE  Held'
  <2>1. /\ pointer' = [on |-> "curve", value |-> curve']
        /\ dragging' = [dragging EXCEPT !.curve = TRUE]
    BY <1>3 DEF DragCurve
  <2>2. dragging'.curve
    BY <2>1 DEF Typed, Flags
  <2> QED
    BY <2>1, <2>2 DEF Held
<1>4. CASE DrawFrame
  <2>1. pointer' = pointer /\ level' = ShownLevel /\ curve' = ShownCurve
    BY <1>4 DEF DrawFrame
  <2>2. pointer.on = "level" => dragging'.level /\ level' = level
    BY <1>4, ShownHeld DEF DrawFrame, Held
  <2>3. pointer.on = "curve" => dragging'.curve /\ curve' = curve
    BY <1>4, ShownHeld DEF DrawFrame, Held
  <2> QED
    BY <2>1, <2>2, <2>3 DEF Held
<1>5. CASE UNCHANGED <<pointer, level, curve, dragging>>
  BY <1>5 DEF Held
<1>6. CASE \/ Hide \/ Show \/ EditMode \/ EditLevel \/ EditCurve \/ EditStore \/ EditFails
           \/ \E r \in Readers : ReadMode(r) \/ ReadCurve(r) \/ StoreSnapshot(r)
           \/ \E new \in OutsideFans : Outside(new)
  BY <1>5, <1>6 DEF Hide, Show, EditMode, EditLevel, EditCurve, EditStore, EditFails,
                    ReadMode, ReadCurve, StoreSnapshot, Outside
<1> QED
  BY <1>1, <1>2, <1>3, <1>4, <1>5, <1>6 DEF Next, User, LetGo, Edit, Take, vars

(***************************************************************************)
(* Snapshots.                                                              *)
(***************************************************************************)
LEMMA FreshWrite ==
    ASSUME Typed, NEW new, Write(new)
    PROVE  Fresh'
<1>1. snap'.old
  BY DEF Write, Typed, Snapshot
<1>2. ASSUME NEW r \in Readers, reader'[r] # Idle
      PROVE  reader'[r].old
  <2>1. reader[r] # Idle /\ reader'[r] = [reader[r] EXCEPT !.old = TRUE]
    BY <1>2 DEF Write
  <2>2. reader[r] \in [at : {"curve", "store"}, fan : Fan, old : BOOLEAN]
    BY <2>1 DEF Typed, ReaderStates
  <2> QED
    BY <2>1, <2>2
<1> QED
  BY <1>1, <1>2 DEF Fresh

LEMMA FreshStep ==
    ASSUME Typed, Fresh, [Next]_vars
    PROVE  Fresh'
<1> USE DEF buffers
<1>1. CASE \/ EditMode \/ EditLevel \/ EditCurve
           \/ \E new \in OutsideFans : Outside(new)
  BY <1>1, FreshWrite DEF EditMode, EditLevel, EditCurve, Outside
<1>2. ASSUME NEW r \in Readers, snap' = Taken(r), reader[r].at = "store",
             fan' = fan, reader' = [reader EXCEPT ![r] = Idle]
      PROVE  Fresh'
  <2>1. reader[r] # Idle
    BY <1>2 DEF Idle
  <2>2. ~snap'.old => snap'.fan = fan
    BY <1>2, <2>1 DEF Taken, Fresh
  <2> QED
    BY <1>2, <2>2 DEF Fresh, Typed
<1>3. CASE EditStore
  BY <1>2, <1>3 DEF EditStore, Readers
<1>4. ASSUME NEW r \in Readers, StoreSnapshot(r)
      PROVE  Fresh'
  BY <1>2, <1>4 DEF StoreSnapshot
<1>5. CASE EditFails
  BY <1>5 DEF EditFails, Fresh, Typed
<1>6. ASSUME NEW r \in Readers, ReadMode(r)
      PROVE  Fresh'
  BY <1>6 DEF ReadMode, Fresh, Typed
<1>7. ASSUME NEW r \in Readers, ReadCurve(r)
      PROVE  Fresh'
  <2>1. reader[r] # Idle /\ reader[r] \in [at : {"curve", "store"}, fan : Fan, old : BOOLEAN]
    BY <1>7 DEF ReadCurve, Typed, ReaderStates, Idle
  <2>2. reader'[r] = [reader[r] EXCEPT !.at = "store", !.fan.curve = fan.curve]
    BY <1>7 DEF ReadCurve, Typed
  <2>3. reader'[r].old = reader[r].old
        /\ reader'[r].fan = [reader[r].fan EXCEPT !.curve = fan.curve]
    BY <2>1, <2>2
  <2>4. [fan EXCEPT !.curve = fan.curve] = fan
    BY DEF Typed, Fan
  <2>5. ~reader'[r].old => reader'[r].fan = fan
    BY <2>1, <2>3, <2>4 DEF Fresh
  <2>6. \A q \in Readers : q # r => reader'[q] = reader[q]
    BY <1>7 DEF ReadCurve, Typed
  <2>7. UNCHANGED <<fan, snap>>
    BY <1>7 DEF ReadCurve
  <2> QED
    BY <2>5, <2>6, <2>7 DEF Fresh
<1>8. CASE UNCHANGED <<fan, snap, reader>>
  BY <1>8 DEF Fresh
<1>9. CASE \/ User \/ LetGo \/ Show \/ DrawFrame
  BY <1>8, <1>9 DEF User, LetGo, ClickMode, DragLevel, DragCurve, RestoreDefault, Hide,
                    ReleaseLevel, ReleaseCurve, LoseGrip, Show, DrawFrame
<1> QED
  BY <1>1, <1>3, <1>4, <1>5, <1>6, <1>7, <1>8, <1>9 DEF Next, Edit, Take, vars

(***************************************************************************)
(* One edit at a time.                                                     *)
(***************************************************************************)
LEMMA UnderwayApply ==
    ASSUME Typed, Underway, NEW m, NEW l, NEW c, Apply(m, l, c), UNCHANGED reader
    PROVE  Underway'
<1>1. edit = Idle /\ reader["edit"] = Idle
  BY DEF Apply, Underway, Idle
<1>2. edit' # Idle /\ applying' /\ pointer' = NoPointer
  BY DEF Apply, Idle
<1> QED
  BY <1>1, <1>2 DEF Underway

LEMMA UnderwayStep ==
    ASSUME Typed, Underway, [Next]_vars
    PROVE  Underway'
<1> USE DEF buffers
<1>1. CASE \/ \E m \in Modes : ClickMode(m)
           \/ \E c \in Curves : RestoreDefault(c)
           \/ ReleaseLevel
  BY <1>1, UnderwayApply DEF ClickMode, RestoreDefault, ReleaseLevel
<1>2. CASE ReleaseCurve
  BY <1>2, UnderwayApply DEF ReleaseCurve, Underway
<1>3. CASE \/ \E l \in Levels : DragLevel(l)
           \/ \E i \in Points, v \in Temps : DragCurve(i, v)
           \/ LoseGrip
  BY <1>3 DEF DragLevel, DragCurve, LoseGrip, Underway
<1>4. CASE UNCHANGED <<applying, edit, pointer, reader>>
  BY <1>4 DEF Underway
<1>5. CASE Hide \/ Show \/ DrawFrame
  BY <1>4, <1>5 DEF Hide, Show, DrawFrame
<1>e. "edit" \in Readers
  BY DEF Readers
<1>6. CASE EditMode \/ EditLevel \/ EditCurve
  <2>1. edit # Idle /\ edit.at # "read"
    <3>1. edit.at \in {"mode", "fixed", "curve"}
      BY <1>6 DEF EditMode, EditLevel, EditCurve
    <3> QED
      BY <3>1 DEF Idle
  <2>2. reader["edit"] = Idle /\ applying /\ pointer = NoPointer
    BY <2>1 DEF Underway
  <2>3. reader'["edit"] = Idle
    BY <1>6, <1>e, <2>2 DEF EditMode, EditLevel, EditCurve, Write
  <2>4. edit \in [at : {"mode", "fixed", "curve", "read"}, mode : Modes,
                  level : Levels, curve : Curves]
    BY <2>1 DEF Typed, EditStates
  <2>5. \E at \in {"read", "auto", "fixed", "curve"} : edit' = [edit EXCEPT !.at = at]
    BY <1>6, <2>4 DEF EditMode, EditLevel, EditCurve, Modes
  <2>6. edit' # Idle
    BY <2>4, <2>5 DEF Idle
  <2> QED
    BY <1>6, <2>2, <2>3, <2>6 DEF EditMode, EditLevel, EditCurve, Underway
<1>7. CASE EditStore \/ EditFails
  BY <1>7, <1>e DEF EditStore, EditFails, Underway, Typed
<1>8. ASSUME NEW r \in Readers, ReadMode(r)
      PROVE  Underway'
  <2>1. CASE r = "edit"
    BY <1>8, <2>1 DEF ReadMode, Underway
  <2>2. CASE r # "edit"
    BY <1>8, <1>e, <2>2 DEF ReadMode, Underway, Typed
  <2> QED
    BY <2>1, <2>2
<1>9. ASSUME NEW r \in Readers, ReadCurve(r)
      PROVE  Underway'
  <2>1. r = "edit" => reader["edit"] # Idle
    BY <1>9 DEF ReadCurve, Idle
  <2>2. r # "edit" => reader'["edit"] = reader["edit"]
    BY <1>9, <1>e DEF ReadCurve, Typed
  <2> QED
    BY <1>9, <2>1, <2>2 DEF ReadCurve, Underway
<1>10. ASSUME NEW r \in Readers, StoreSnapshot(r)
       PROVE  Underway'
  <2>1. reader'["edit"] = reader["edit"]
    BY <1>10, <1>e DEF StoreSnapshot, Typed
  <2> QED
    BY <1>10, <2>1 DEF StoreSnapshot, Underway
<1>11. ASSUME NEW new \in OutsideFans, Outside(new)
       PROVE  Underway'
  <2>1. reader["edit"] = Idle => reader'["edit"] = Idle
    BY <1>11, <1>e DEF Outside, Write
  <2> QED
    BY <1>11, <2>1 DEF Outside, Underway
<1> QED
  BY <1>1, <1>2, <1>3, <1>4, <1>5, <1>6, <1>7, <1>8, <1>9, <1>10, <1>11
     DEF Next, User, LetGo, Edit, Take, vars

(***************************************************************************)
(* What the user wants, as long as nothing excuses a loss.                 *)
(***************************************************************************)
\* Between edits the card knows the fan and shows the curve the user wants.
LEMMA KnownFan ==
    ASSUME Fresh, Known, ~applying
    PROVE  ~snap.old /\ snap.fan = fan
BY DEF Fresh, Known

LEMMA ShownWanted ==
    ASSUME Held, Fresh, Known, Released, Dragged, Carried, ~applying
    PROVE  ShownCurve = want.curve
<1>1. CASE pointer.on = "curve"
  BY <1>1, ShownHeld DEF Held, Dragged
<1>2. CASE pointer.on # "curve"
  BY <1>2, KnownFan DEF Released, Carried, ShownCurve, CurveHeld
<1> QED
  BY <1>1, <1>2

\* An edit that starts carries what the user wants.
LEMMA ApplyCarries ==
    ASSUME Typed, Underway, NEW m, NEW l, NEW c, Apply(m, l, c),
           UNCHANGED <<snap, fan, reader>>,
           m = want'.mode, m = "fixed" => l = want'.level,
           IF m = "curve" THEN c = want'.curve ELSE fan.curve = want'.curve
    PROVE  Known' /\ Released' /\ Dragged' /\ Carried'
<1>1. /\ applying' = TRUE /\ pointer' = NoPointer /\ reader["edit"] = Idle
      /\ dragging' = [level |-> FALSE, curve |-> FALSE]
      /\ edit' = [at |-> "mode", mode |-> m, level |-> l, curve |-> c]
  BY DEF Apply, Underway, Idle
<1>2. Known'
  BY <1>1 DEF Known
<1>3. Released'
  BY <1>1 DEF Released
<1>4. Dragged'
  BY <1>1, PointerFields DEF Dragged
<1>5. Carried'
  BY <1>1 DEF Carried
<1> QED
  BY <1>2, <1>3, <1>4, <1>5

\* A write marks what is being read as old; the edit's thread is not reading.
LEMMA WriteKnown ==
    ASSUME Typed, Underway, applying, edit.at # "read", NEW new, Write(new), applying' = applying
    PROVE  Known'
<1>1. reader["edit"] = Idle /\ "edit" \in Readers
  BY DEF Underway, Readers
<1>2. reader'["edit"] = Idle
  BY <1>1 DEF Write
<1> QED
  BY <1>2 DEF Known

LEMMA EditIsWhole ==
    ASSUME Typed, edit.at \in {"mode", "fixed", "curve", "read"}
    PROVE  /\ edit.mode \in Modes /\ edit.level \in Levels /\ edit.curve \in Curves
           /\ edit # Idle
           /\ \A at : /\ [edit EXCEPT !.at = at].at = at
                      /\ [edit EXCEPT !.at = at].mode = edit.mode
                      /\ [edit EXCEPT !.at = at].level = edit.level
                      /\ [edit EXCEPT !.at = at].curve = edit.curve
BY DEF Typed, EditStates, Idle

LEMMA UnexcusedStep ==
    ASSUME Typed, Held, Fresh, Underway, Unexcused, [Next]_vars
    PROVE  Unexcused'
<1> USE DEF buffers
<1> SUFFICES ASSUME excuses' = {} PROVE Known' /\ Released' /\ Dragged' /\ Carried'
  BY DEF Unexcused
<1>0. excuses = {}
  BY DEF Next, User, LetGo, Edit, Take, vars, ClickMode, DragLevel, DragCurve,
         RestoreDefault, Hide, ReleaseLevel, ReleaseCurve, LoseGrip, Show, DrawFrame,
         EditMode, EditLevel, EditCurve, EditStore, EditFails, ReadMode, ReadCurve,
         StoreSnapshot, Outside
<1>k. Known /\ Released /\ Dragged /\ Carried
  BY <1>0 DEF Unexcused
<1>s. ~applying => ~snap.old /\ snap.fan = fan /\ ShownCurve = want.curve
  BY <1>k, KnownFan, ShownWanted
<1>e. "edit" \in Readers
  BY DEF Readers
<1>n. pointer = NoPointer => pointer.on = "nothing"
  BY PointerFields
<1>1. ASSUME NEW m \in Modes, ClickMode(m)
      PROVE  Known' /\ Released' /\ Dragged' /\ Carried'
  <2>1. ~applying /\ Apply(m, level', snap.fan.curve) /\ UNCHANGED <<snap, fan, reader>>
        /\ pointer = NoPointer
    BY <1>1 DEF ClickMode, Apply
  <2>2. want'.mode = m /\ (m = "fixed" => want'.level = level') /\ want'.curve = want.curve
    BY <1>1 DEF ClickMode, Typed, Fan
  <2>3. snap.fan.curve = want.curve /\ fan.curve = want.curve
    BY <1>k, <1>s, <1>n, <2>1 DEF Carried
  <2> QED
    BY <2>1, <2>2, <2>3, ApplyCarries
<1>2. ASSUME NEW l \in Levels, DragLevel(l)
      PROVE  Known' /\ Released' /\ Dragged' /\ Carried'
  <2>1. /\ pointer.on # "curve" /\ ~applying
        /\ pointer' = [on |-> "level", value |-> l]
        /\ dragging' = [dragging EXCEPT !.level = TRUE]
        /\ UNCHANGED <<fan, snap, dirty, applying, reader, edit, want>>
    BY <1>2 DEF DragLevel
  <2>2. dragging'.curve = dragging.curve
    BY <2>1 DEF Typed, Flags
  <2>3. Known' /\ Dragged'
    BY <1>k, <2>1 DEF Known, Dragged
  <2>4. Released'
    BY <1>k, <2>1, <2>2 DEF Released
  <2>5. Carried'
    BY <1>k, <2>1 DEF Carried, Settled
  <2> QED
    BY <2>3, <2>4, <2>5
<1>3. ASSUME NEW i \in Points, NEW v \in Temps, DragCurve(i, v)
      PROVE  Known' /\ Released' /\ Dragged' /\ Carried'
  <2>1. /\ pointer.on # "level" /\ ~applying
        /\ curve' = [ShownCurve EXCEPT ![i] = v]
        /\ dirty' = (dirty \/ curve' # ShownCurve)
        /\ pointer' = [on |-> "curve", value |-> curve']
        /\ dragging' = [dragging EXCEPT !.curve = TRUE]
        /\ want' = [want EXCEPT !.curve[i] = v]
        /\ UNCHANGED <<fan, snap, applying, reader, edit>>
    BY <1>3 DEF DragCurve
  <2>2. dragging'.level = dragging.level
    BY <2>1 DEF Typed, Flags
  <2>3. /\ want'.curve = [want.curve EXCEPT ![i] = v]
        /\ want'.mode = want.mode /\ want'.level = want.level
    BY <2>1 DEF Typed, Fan
  <2>4. curve' = want'.curve
    BY <1>s, <2>1, <2>3
  <2>5. ~dirty => want.curve = fan.curve
    <3>1. pointer.on = "curve" \/ fan.curve = want.curve
      BY <1>k, <2>1 DEF Carried
    <3> QED
      BY <1>k, <3>1 DEF Dragged
  <2>6. ~dirty' => curve' = fan'.curve
    BY <1>s, <2>1, <2>5
  <2>7. Known' /\ Dragged'
    BY <1>k, <2>1, <2>4, <2>6 DEF Known, Dragged
  <2>8. Released'
    BY <1>k, <2>1, <2>2 DEF Released
  <2>9. edit = Idle
    BY <2>1 DEF Underway
  <2>10. Carried'
    BY <1>k, <2>1, <2>3, <2>9 DEF Carried, Settled, Idle
  <2> QED
    BY <2>7, <2>8, <2>10
<1>4. ASSUME NEW c \in Curves, RestoreDefault(c)
      PROVE  Known' /\ Released' /\ Dragged' /\ Carried'
  <2>1. Apply("curve", snap.fan.level, c) /\ UNCHANGED <<snap, fan, reader>>
    BY <1>4 DEF RestoreDefault
  <2>2. want'.mode = "curve" /\ want'.curve = c
    BY <1>4 DEF RestoreDefault, Typed, Fan
  <2> QED
    BY <2>1, <2>2, ApplyCarries
<1>5. CASE UNCHANGED <<fan, snap, curve, dragging, dirty, applying, pointer, reader, edit, want>>
  BY <1>5, <1>k DEF Known, Released, Dragged, Carried, Settled
<1>6. CASE Hide \/ Show \/ UNCHANGED vars
  BY <1>5, <1>6 DEF Hide, Show, vars
<1>7. CASE ReleaseLevel
  <2>1. /\ pointer.on = "level" /\ level' = ShownLevel /\ ~applying
        /\ Apply("fixed", level', curve')
        /\ want' = [want EXCEPT !.mode = "fixed", !.level = pointer.value]
        /\ UNCHANGED <<snap, fan, reader>>
    BY <1>7 DEF ReleaseLevel, Apply
  <2>2. want'.mode = "fixed" /\ want'.level = pointer.value /\ want'.curve = want.curve
    BY <2>1 DEF Typed, Fan
  <2>3. level' = pointer.value
    BY <2>1, ShownHeld DEF Held
  <2>4. fan.curve = want.curve
    BY <1>k, <2>1 DEF Carried
  <2> QED
    BY <2>1, <2>2, <2>3, <2>4, ApplyCarries
<1>8. CASE ReleaseCurve
  <2>1. /\ TableDrawn /\ pointer.on = "curve" /\ curve' = ShownCurve
        /\ UNCHANGED <<snap, fan, reader, dirty, want>>
    BY <1>8 DEF ReleaseCurve
  <2>0. ~applying
    BY <2>1, <1>n DEF Underway
  <2>2. CASE dirty /\ Apply("curve", snap.fan.level, curve')
    <3>1. want.mode = "curve"
      BY <1>k, <1>s, <2>0, <2>1 DEF TableDrawn, Carried, Settled
    <3> QED
      BY <1>s, <2>0, <2>1, <2>2, <3>1, ApplyCarries
  <2>3. CASE /\ ~dirty
             /\ dragging' = [dragging EXCEPT !.curve = FALSE]
             /\ pointer' = NoPointer
             /\ UNCHANGED <<applying, edit>>
    <3>1. fan.curve = want.curve
      BY <1>k, <2>1, <2>3 DEF Dragged
    <3>2. pointer'.on = "nothing"
      BY <2>3, PointerFields
    <3>3. ~dragging'.curve /\ dragging'.level = dragging.level
      BY <2>3 DEF Typed, Flags
    <3>4. Known' /\ Dragged'
      BY <1>k, <2>1, <2>3, <3>2 DEF Known, Dragged
    <3>5. Released'
      BY <1>k, <2>1, <2>3, <3>3 DEF Released
    <3>6. Carried'
      BY <1>k, <2>1, <2>3, <3>1 DEF Carried, Settled
    <3> QED
      BY <3>4, <3>5, <3>6
  <2> QED
    BY <1>8, <2>2, <2>3 DEF ReleaseCurve
<1>9. CASE LoseGrip \/ EditFails \/ \E new \in OutsideFans : Outside(new)
  BY <1>9 DEF LoseGrip, EditFails, Outside
<1>10. CASE DrawFrame
  <2>1. /\ curve' = ShownCurve
        /\ UNCHANGED <<fan, snap, dirty, applying, pointer, reader, edit, want>>
    BY <1>10 DEF DrawFrame
  <2>2. pointer.on = "curve" => curve' = curve
    BY <2>1, ShownHeld DEF Held
  <2>3. Known' /\ Dragged'
    BY <1>k, <2>1, <2>2 DEF Known, Dragged
  <2>4. dragging'.level => pointer.on = "level" \/ dragging.level
    BY <1>10 DEF DrawFrame
  <2>5. dragging'.curve => pointer.on = "curve" \/ dragging.curve
    BY <1>10 DEF DrawFrame
  <2>6. Released'
    BY <1>k, <2>1, <2>4, <2>5 DEF Released
  <2>7. Carried'
    BY <1>k, <2>1 DEF Carried, Settled
  <2> QED
    BY <2>3, <2>6, <2>7
<1>w. ASSUME edit.at \in {"mode", "fixed", "curve"}, NEW new, Write(new),
             UNCHANGED <<buffers, applying, pointer, want>>
      PROVE  applying /\ Known' /\ Released' /\ Dragged'
  <2>1. applying /\ pointer = NoPointer
    BY <1>w, EditIsWhole DEF Underway
  <2>2. Known'
    BY <1>w, <2>1, WriteKnown
  <2>3. Released' /\ Dragged'
    BY <1>w, <1>k, <1>n, <2>1 DEF Released, Dragged
  <2> QED
    BY <2>1, <2>2, <2>3
<1>11. CASE EditMode
  <2>1. PICK l : Write([fan EXCEPT !.mode = edit.mode, !.level = l])
    BY <1>11 DEF EditMode
  <2>2. edit.at = "mode" /\ UNCHANGED <<buffers, applying, pointer, want>>
        /\ edit' = [edit EXCEPT !.at = IF edit.mode = "auto" THEN "read" ELSE edit.mode]
    BY <1>11 DEF EditMode
  <2>3. fan'.mode = edit.mode /\ fan'.curve = fan.curve
    BY <2>1 DEF Write, Typed, Fan
  <2>4. /\ edit'.mode = edit.mode /\ edit'.level = edit.level /\ edit'.curve = edit.curve
        /\ edit'.at = IF edit.mode = "auto" THEN "read" ELSE edit.mode
        /\ edit.mode \in Modes
    BY <2>2, EditIsWhole
  <2>5. applying /\ Known' /\ Released' /\ Dragged'
    BY <1>w, <2>1, <2>2
  <2>6. Carried'
    BY <1>k, <2>2, <2>3, <2>4, <2>5 DEF Carried, Settled, Modes
  <2> QED
    BY <2>5, <2>6
<1>12. CASE EditLevel
  <2>1. /\ edit.at = "fixed" /\ UNCHANGED <<buffers, applying, pointer, want>>
        /\ edit' = [edit EXCEPT !.at = "read"]
        /\ Write([fan EXCEPT !.level = edit.level])
    BY <1>12 DEF EditLevel
  <2>2. fan'.mode = fan.mode /\ fan'.curve = fan.curve /\ fan'.level = edit.level
    BY <2>1 DEF Write, Typed, Fan
  <2>3. edit'.at = "read"
    BY <2>1, EditIsWhole
  <2>4. applying /\ Known' /\ Released' /\ Dragged'
    BY <1>w, <2>1
  <2>5. Carried'
    BY <1>k, <2>1, <2>2, <2>3, <2>4 DEF Carried, Settled
  <2> QED
    BY <2>4, <2>5
<1>13. CASE EditCurve
  <2>1. /\ edit.at = "curve" /\ UNCHANGED <<buffers, applying, pointer, want>>
        /\ edit' = [edit EXCEPT !.at = "read"]
        /\ Write([fan EXCEPT !.curve = edit.curve])
    BY <1>13 DEF EditCurve
  <2>2. fan'.mode = fan.mode /\ fan'.curve = edit.curve /\ fan'.level = fan.level
    BY <2>1 DEF Write, Typed, Fan
  <2>3. edit'.at = "read"
    BY <2>1, EditIsWhole
  <2>4. applying /\ Known' /\ Released' /\ Dragged'
    BY <1>w, <2>1
  <2>5. Carried'
    BY <1>k, <2>1, <2>2, <2>3, <2>4 DEF Carried, Settled
  <2> QED
    BY <2>4, <2>5
<1>14. CASE EditStore
  <2>1. /\ reader["edit"].at = "store" /\ snap' = Taken("edit")
        /\ dirty' = FALSE /\ applying' = FALSE
        /\ edit' = Idle /\ reader' = [reader EXCEPT !["edit"] = Idle]
        /\ UNCHANGED <<fan, curve, dragging, pointer, want>>
    BY <1>14 DEF EditStore
  <2>2. reader["edit"] # Idle /\ reader'["edit"] = Idle
    BY <1>e, <2>1 DEF Typed, Idle
  <2>3. edit.at = "read" /\ ~reader["edit"].old
    BY <1>k, <2>2 DEF Underway, Known
  <2>4. applying /\ pointer = NoPointer
    BY <2>3, EditIsWhole DEF Underway
  <2>5. ~snap'.old
    BY <2>1, <2>3 DEF Taken
  <2>6. Known' /\ Dragged'
    BY <1>n, <2>1, <2>2, <2>4, <2>5 DEF Known, Dragged
  <2>7. Released'
    BY <1>k, <2>1 DEF Released
  <2>8. Carried'
    BY <1>k, <2>1, <2>3 DEF Carried, Settled, Idle
  <2> QED
    BY <2>6, <2>7, <2>8
<1>r. ASSUME NEW r \in Readers, ReadMode(r) \/ ReadCurve(r)
      PROVE  Known' /\ Released' /\ Dragged' /\ Carried'
  <2>1. UNCHANGED <<fan, snap, curve, dragging, dirty, applying, pointer, edit, want>>
    BY <1>r DEF ReadMode, ReadCurve
  <2>2. reader'["edit"] # Idle => ~reader'["edit"].old
    <3>1. CASE r = "edit" /\ ReadMode(r)
      BY <1>e, <3>1 DEF ReadMode, Typed
    <3>2. CASE r = "edit" /\ ReadCurve(r)
      <4>1. reader["edit"] # Idle /\ reader["edit"] \in ReaderStates
        BY <1>e, <3>2 DEF ReadCurve, Idle, Typed
      <4>2. reader'["edit"] = [reader["edit"] EXCEPT !.at = "store", !.fan.curve = fan.curve]
        BY <1>e, <3>2 DEF ReadCurve, Typed
      <4>3. reader'["edit"].old = reader["edit"].old
        BY <4>1, <4>2 DEF ReaderStates
      <4> QED
        BY <1>k, <4>1, <4>3 DEF Known
    <3>3. CASE r # "edit"
      <4>1. reader'["edit"] = reader["edit"]
        BY <1>e, <1>r, <3>3 DEF ReadMode, ReadCurve, Typed
      <4> QED
        BY <1>k, <4>1 DEF Known
    <3> QED
      BY <1>r, <3>1, <3>2, <3>3
  <2>3. Known'
    BY <1>k, <2>1, <2>2 DEF Known
  <2> QED
    BY <1>k, <2>1, <2>3 DEF Released, Dragged, Carried, Settled
<1>15. ASSUME NEW r \in Readers, StoreSnapshot(r)
       PROVE  Known' /\ Released' /\ Dragged' /\ Carried'
  <2>1. /\ r # "edit" /\ reader' = [reader EXCEPT ![r] = Idle]
        /\ excuses' = IF snap'.old /\ ~snap.old THEN excuses \cup {"overtaken"} ELSE excuses
        /\ UNCHANGED <<fan, curve, dragging, dirty, applying, pointer, edit, want>>
    BY <1>15 DEF StoreSnapshot
  <2>2. ~snap.old => ~snap'.old
    BY <2>1
  <2>3. reader'["edit"] = reader["edit"]
    BY <1>e, <2>1 DEF Typed
  <2>4. Known'
    BY <1>k, <2>1, <2>2, <2>3 DEF Known
  <2> QED
    BY <1>k, <2>1, <2>4 DEF Released, Dragged, Carried, Settled
<1> QED
  BY <1>1, <1>2, <1>3, <1>4, <1>6, <1>7, <1>8, <1>9, <1>10, <1>11, <1>12, <1>13, <1>14,
     <1>r, <1>15 DEF Next, User, LetGo, Edit, Take
-----------------------------------------------------------------------------
(***************************************************************************)
(* The theorems.                                                           *)
(***************************************************************************)
LEMMA Initially ==
    ASSUME Init
    PROVE  Typed /\ Held /\ Fresh /\ Underway /\ Unexcused
<1>0. fan \in Fan
  BY FanCardFansAssumption DEF Init
<1>1. Typed
  BY <1>0, FanFields, PointerFields, EditFields, ReaderFields
     DEF Init, Typed, Snapshot, Flags, Excusable
<1>2. Held /\ Fresh /\ Underway
  BY PointerFields DEF Init, Held, Fresh, Underway, Readers
<1>3. Known /\ Released /\ Dragged /\ Carried
  BY PointerFields DEF Init, Known, Released, Dragged, Carried, Settled, Readers, Idle
<1> QED
  BY <1>1, <1>2, <1>3 DEF Unexcused

\* Every variable keeps its type: the level and the curve on the card are
\* ones the fan can have, and so is what an edit carries.
THEOREM CardTypeCorrect == Spec => []TypeOK
<1>1. Init => Typed
  BY Initially
<1>2. Typed /\ [Next]_vars => Typed'
  BY TypeStep
<1> QED
  BY <1>1, <1>2, TypedIsTypeOK, PTL DEF Spec

\* No snapshot, whoever takes and stores it and in whatever order, no edit
\* that ends and no frame moves what the pointer holds: the level or curve
\* shown under it is the one it was dragged to.
THEOREM NothingMovesUnderThePointer == Spec => []DragHeld
<1>1. Init => Typed /\ Held
  BY Initially
<1>2. Typed /\ Held /\ [Next]_vars => (Typed /\ Held)'
  BY TypeStep, HeldStep
<1>3. Held => DragHeld
  BY DEF Held, DragHeld
<1> QED
  BY <1>1, <1>2, <1>3, PTL DEF Spec

\* Nothing the user did on the card is lost, as long as no access failed,
\* nobody else wrote the fan, no held widget vanished and no older snapshot
\* replaced a newer one: a quiet card means a fan that does what was asked.
THEOREM NoEditIsLost == Excusable \subseteq Excuses => (Spec => []EditsKept)
<1> SUFFICES ASSUME Excusable \subseteq Excuses PROVE Spec => []EditsKept
  OBVIOUS
<1> DEFINE IInv == Typed /\ Held /\ Fresh /\ Underway /\ Unexcused
<1>1. Init => IInv
  BY Initially
<1>2. IInv /\ [Next]_vars => IInv'
  BY TypeStep, HeldStep, FreshStep, UnderwayStep, UnexcusedStep
<1>3. IInv => EditsKept
  <2> SUFFICES ASSUME IInv, Quiet, excuses \cap Excuses = {}
               PROVE  /\ fan.mode = want.mode /\ fan.curve = want.curve
                      /\ fan.mode = "fixed" => fan.level = want.level
    BY DEF EditsKept
  <2>1. excuses = {}
    BY DEF Typed
  <2>2. Carried /\ ~applying /\ pointer.on = "nothing"
    BY <2>1, PointerFields DEF Unexcused, Quiet
  <2> QED
    BY <2>2 DEF Carried, Settled
<1> QED
  BY <1>1, <1>2, <1>3, PTL DEF Spec
=============================================================================
