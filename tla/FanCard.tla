------------------------------- MODULE FanCard -------------------------------
(***************************************************************************)
(* One fan's card in the window: what it shows, what the user changes on   *)
(* it, and the threads in between.  The card is drawn from the last        *)
(* snapshot that was stored; the level slider and the curve table are      *)
(* drawn from buffers, which follow the snapshot except while the user or  *)
(* an edit needs them.  Three threads take snapshots: the metrics thread,  *)
(* the one of refresh_metrics, and the one that carries out an edit.       *)
(*                                                                         *)
(* A frame is one step: it is drawn with the UiState locked.  Reading a    *)
(* fan takes two steps (mode and level, then its curve), storing what was  *)
(* read a third.  A curve is its ramp-up thresholds; the ramp-down of an   *)
(* edited curve follows from them.                                         *)
(***************************************************************************)
EXTENDS Integers

CONSTANTS NPoints,    \* thresholds of a curve: 5 in the source
          Temps,      \* values of a threshold
          Levels,     \* values of the level slider
          InitFans,   \* the fan as the window finds it
          OutsideFans, \* what others may set the fan to
          Pollers,    \* threads that take snapshots besides the edit's
          Excuses,    \* what may cost the user an edit: see EditsKept
          MaxActs     \* bound on what the user does

Excusable == {"overtaken", "fault", "outside", "grip"}

ASSUME FanCardAssumption ==
    /\ NPoints \in Nat \ {0}
    /\ Temps # {} /\ Levels # {}
    /\ Pollers \subseteq {"metrics", "refresh"}
    /\ Excuses \subseteq Excusable
    /\ MaxActs \in Nat

Points  == 1 .. NPoints
Modes   == {"auto", "fixed", "curve"}
Curves  == [Points -> Temps]
Fan     == [mode : Modes, level : Levels, curve : Curves]
Readers == Pollers \cup {"edit"}

ASSUME FanCardFansAssumption == InitFans \cup OutsideFans \subseteq Fan

Idle      == [at |-> "idle"]
NoPointer == [on |-> "nothing"]
Pointers  == {NoPointer} \cup [on : {"level"}, value : Levels] \cup
             [on : {"curve"}, value : Curves]

VARIABLES fan,      \* the fan itself: registers and controller
          snap,     \* UiState.metrics, for this fan
          level,    \* temp_fan_level
          curve,    \* temp_fan_rampup
          dragging, \* dragging_level, dragging_curve
          dirty,    \* curve_dirty
          applying, \* fan_applying
          pointer,  \* what the user holds, and the value dragged to
          drawn,    \* is the home page drawn, or hidden or another page?
          reader,   \* what each thread has read, and how far it is
          edit,     \* the edit under way: its arguments and how far it is
          want,     \* what the user asked for so far
          excuses,  \* what has happened of Excusable; each at most once
          acts      \* what the user did so far

buffers == <<level, curve, dragging, dirty>>
vars == <<fan, snap, buffers, applying, pointer, drawn, reader, edit, want,
          excuses, acts>>

-----------------------------------------------------------------------------
Init ==
    /\ fan \in InitFans
    /\ snap = [fan |-> fan, old |-> FALSE]
    /\ level = fan.level /\ curve = fan.curve
    /\ dragging = [level |-> FALSE, curve |-> FALSE]
    /\ dirty = FALSE /\ applying = FALSE
    /\ pointer = NoPointer /\ drawn = TRUE
    /\ reader = [r \in Readers |-> Idle]
    /\ edit = Idle
    /\ want = fan
    /\ excuses = {}
    /\ acts = 0

(***************************************************************************)
(* The start of draw_fan: the buffers follow the snapshot unless they are  *)
(* in use.                                                                 *)
(***************************************************************************)
LevelHeld == dragging.level
CurveHeld == dragging.curve \/ applying \/ dirty

\* Variant: the slider follows the snapshot at all times.
ShownLevelAlways == snap.fan.level

ShownLevel == IF LevelHeld THEN level ELSE snap.fan.level
ShownCurve == IF CurveHeld THEN curve ELSE snap.fan.curve

SliderDrawn == drawn /\ snap.fan.mode = "fixed"
TableDrawn  == drawn /\ snap.fan.mode = "curve"

Act == acts < MaxActs /\ acts' = acts + 1

\* Variant: the card is not blocked while the edit is carried out.
ApplyUnguarded(m, l, c) ==
    /\ applying' = FALSE
    /\ dragging' = [level |-> FALSE, curve |-> FALSE]
    /\ edit' = [at |-> "mode", mode |-> m, level |-> l, curve |-> c]
    /\ pointer' = NoPointer

\* apply_fan: the edit's thread is spawned with what it is to write.
Apply(m, l, c) ==
    /\ ~applying
    /\ applying' = TRUE
    /\ dragging' = [level |-> FALSE, curve |-> FALSE]
    /\ edit' = [at |-> "mode", mode |-> m, level |-> l, curve |-> c]
    /\ pointer' = NoPointer

\* Variant: the flags change only when the pointer goes down or up.
DrawFrameKeepsGrip ==
    /\ drawn
    /\ level' = ShownLevel /\ curve' = ShownCurve
    /\ UNCHANGED <<fan, snap, dragging, dirty, applying, pointer, drawn, reader,
                   edit, want, excuses, acts>>

\* Nothing is clicked.  A widget that is drawn and not held clears its flag.
DrawFrame ==
    /\ drawn
    /\ level' = ShownLevel /\ curve' = ShownCurve
    /\ dragging' =
        [level |-> IF SliderDrawn THEN pointer.on = "level" ELSE dragging.level,
         curve |-> IF TableDrawn THEN pointer.on = "curve" ELSE dragging.curve]
    /\ UNCHANGED <<fan, snap, dirty, applying, pointer, drawn, reader, edit,
                   want, excuses, acts>>

\* One of the three mode buttons: the snapshot's curve goes with it.
ClickMode(m) ==
    /\ drawn /\ pointer = NoPointer /\ m # snap.fan.mode
    /\ level' = ShownLevel /\ curve' = ShownCurve
    /\ Apply(m, level', snap.fan.curve)
    /\ want' = [want EXCEPT !.mode = m, !.level = IF m = "fixed" THEN level' ELSE @]
    /\ Act
    /\ UNCHANGED <<fan, snap, dirty, drawn, reader, excuses>>

\* Variant: the slider starts at 1.
DragLevelFromOne(l) ==
    /\ SliderDrawn /\ ~applying /\ pointer.on \in {"nothing", "level"}
    /\ level' = l + 1 /\ pointer' = [on |-> "level", value |-> l + 1]
    /\ dragging' = [dragging EXCEPT !.level = TRUE]
    /\ curve' = ShownCurve
    /\ Act
    /\ UNCHANGED <<fan, snap, dirty, applying, drawn, reader, edit, want,
                   excuses>>

DragLevel(l) ==
    /\ SliderDrawn /\ ~applying /\ pointer.on \in {"nothing", "level"}
    /\ level' = l /\ pointer' = [on |-> "level", value |-> l]
    /\ dragging' = [dragging EXCEPT !.level = TRUE]
    /\ curve' = ShownCurve
    /\ Act
    /\ UNCHANGED <<fan, snap, dirty, applying, drawn, reader, edit, want,
                   excuses>>

ReleaseLevel ==
    /\ SliderDrawn /\ pointer.on = "level"
    /\ level' = ShownLevel /\ curve' = ShownCurve
    /\ Apply("fixed", level', curve')
    /\ want' = [want EXCEPT !.mode = "fixed", !.level = pointer.value]
    /\ UNCHANGED <<fan, snap, dirty, drawn, reader, excuses, acts>>

DragCurve(i, v) ==
    /\ TableDrawn /\ ~applying /\ pointer.on \in {"nothing", "curve"}
    /\ curve' = [ShownCurve EXCEPT ![i] = v]
    /\ dirty' = (dirty \/ curve' # ShownCurve)
    /\ pointer' = [on |-> "curve", value |-> curve']
    /\ dragging' = [dragging EXCEPT !.curve = TRUE]
    /\ level' = ShownLevel
    /\ want' = [want EXCEPT !.curve[i] = v]
    /\ Act
    /\ UNCHANGED <<fan, snap, applying, drawn, reader, edit, excuses>>

\* Pointer-up over the table commits a curve that was changed.
ReleaseCurve ==
    /\ TableDrawn /\ pointer.on = "curve"
    /\ level' = ShownLevel /\ curve' = ShownCurve
    /\ \/ dirty /\ Apply("curve", snap.fan.level, curve')
       \/ /\ ~dirty
          /\ dragging' = [dragging EXCEPT !.curve = FALSE]
          /\ pointer' = NoPointer
          /\ UNCHANGED <<applying, edit>>
    /\ UNCHANGED <<fan, snap, dirty, drawn, reader, want, excuses, acts>>

\* restore_fan_curve
RestoreDefault(c) ==
    /\ TableDrawn /\ pointer = NoPointer /\ c # ShownCurve
    /\ level' = ShownLevel /\ curve' = c /\ dirty' = TRUE
    /\ Apply("curve", snap.fan.level, c)
    /\ want' = [want EXCEPT !.mode = "curve", !.curve = c]
    /\ Act
    /\ UNCHANGED <<fan, snap, drawn, reader, excuses>>

\* The widget is gone when the user lets go: nobody hears of it.
LoseGrip ==
    /\ \/ pointer.on = "level" /\ ~SliderDrawn
       \/ pointer.on = "curve" /\ ~TableDrawn
    /\ pointer' = NoPointer
    /\ excuses' = excuses \cup {"grip"}
    /\ UNCHANGED <<fan, snap, buffers, applying, drawn, reader, edit, want,
                   acts>>

\* Close to tray, or another page; and back.
Hide ==
    /\ drawn /\ drawn' = FALSE
    /\ Act
    /\ UNCHANGED <<fan, snap, buffers, applying, pointer, reader, edit, want,
                   excuses>>

Show ==
    /\ ~drawn /\ drawn' = TRUE
    /\ UNCHANGED <<fan, snap, buffers, applying, pointer, reader, edit, want,
                   excuses, acts>>

-----------------------------------------------------------------------------
\* What thread r has read.
Taken(r) == [fan |-> reader[r].fan, old |-> reader[r].old]

(***************************************************************************)
(* The edit's thread: apply_fan_edit, then session.metrics.  Any of its    *)
(* EC accesses may be refused; then the error is shown and the buffer      *)
(* keeps what the user wanted.                                             *)
(***************************************************************************)
\* Snapshots taken before a write, or while it happens, are old.
Write(new) ==
    /\ fan' = new
    /\ snap' = [snap EXCEPT !.old = TRUE]
    /\ reader' = [r \in Readers |->
                    IF reader[r] = Idle THEN Idle ELSE [reader[r] EXCEPT !.old = TRUE]]

EditMode ==
    /\ edit.at = "mode"
    /\ \E l \in IF edit.mode = "curve" THEN Levels ELSE {fan.level} :
        Write([fan EXCEPT !.mode = edit.mode, !.level = l])
    /\ edit' = [edit EXCEPT !.at = IF edit.mode = "auto" THEN "read" ELSE edit.mode]
    /\ UNCHANGED <<buffers, applying, pointer, drawn, want, excuses, acts>>

EditLevel ==
    /\ edit.at = "fixed"
    /\ Write([fan EXCEPT !.level = edit.level])
    /\ edit' = [edit EXCEPT !.at = "read"]
    /\ UNCHANGED <<buffers, applying, pointer, drawn, want, excuses, acts>>

EditCurve ==
    /\ edit.at = "curve"
    /\ Write([fan EXCEPT !.curve = edit.curve])
    /\ edit' = [edit EXCEPT !.at = "read"]
    /\ UNCHANGED <<buffers, applying, pointer, drawn, want, excuses, acts>>

EditFails ==
    /\ edit # Idle /\ "fault" \notin excuses
    /\ edit' = Idle /\ reader' = [reader EXCEPT !["edit"] = Idle]
    /\ applying' = FALSE
    /\ excuses' = excuses \cup {"fault"}
    /\ UNCHANGED <<fan, snap, buffers, pointer, drawn, want, acts>>

EditStore ==
    /\ reader["edit"].at = "store"
    /\ snap' = Taken("edit")
    /\ dirty' = FALSE /\ applying' = FALSE
    /\ edit' = Idle /\ reader' = [reader EXCEPT !["edit"] = Idle]
    /\ UNCHANGED <<fan, level, curve, dragging, pointer, drawn, want, excuses,
                   acts>>

(***************************************************************************)
(* fan_snapshot, by any of the three threads.                              *)
(***************************************************************************)
ReadMode(r) ==
    /\ reader[r] = Idle
    /\ r = "edit" => edit.at = "read"
    /\ reader' = [reader EXCEPT ![r] = [at |-> "curve", fan |-> fan, old |-> FALSE]]
    /\ UNCHANGED <<fan, snap, buffers, applying, pointer, drawn, edit, want,
                   excuses, acts>>

ReadCurve(r) ==
    /\ reader[r].at = "curve"
    /\ reader' = [reader EXCEPT ![r].at = "store", ![r].fan.curve = fan.curve]
    /\ UNCHANGED <<fan, snap, buffers, applying, pointer, drawn, edit, want,
                   excuses, acts>>

\* Whoever stores last is shown, whoever read last.
StoreSnapshot(r) ==
    /\ r # "edit" /\ reader[r].at = "store"
    /\ snap' = Taken(r)
    /\ reader' = [reader EXCEPT ![r] = Idle]
    /\ excuses' = IF snap'.old /\ ~snap.old THEN excuses \cup {"overtaken"} ELSE excuses
    /\ UNCHANGED <<fan, buffers, applying, pointer, drawn, edit, want, acts>>

\* A command's curve is adopted, or a command writes the fan itself.
Outside(new) ==
    /\ "outside" \notin excuses
    /\ new # fan
    /\ Write(new)
    /\ want' = new
    /\ excuses' = excuses \cup {"outside"}
    /\ UNCHANGED <<buffers, applying, pointer, drawn, edit, acts>>

User ==
    \/ \E m \in Modes : ClickMode(m)
    \/ \E l \in Levels : DragLevel(l)
    \/ \E i \in Points, v \in Temps : DragCurve(i, v)
    \/ \E c \in Curves : RestoreDefault(c)
    \/ Hide

LetGo == ReleaseLevel \/ ReleaseCurve \/ LoseGrip

Edit == EditMode \/ EditLevel \/ EditCurve \/ EditStore

Take(r) == ReadMode(r) \/ ReadCurve(r) \/ StoreSnapshot(r)

Next ==
    \/ User \/ LetGo \/ Show \/ DrawFrame \/ Edit \/ EditFails
    \/ \E r \in Readers : Take(r)
    \/ \E new \in OutsideFans : Outside(new)

Spec == Init /\ [][Next]_vars

(***************************************************************************)
(* Threads run on: the metrics thread polls every second for ever, an edit *)
(* and a refresh run to their ends, a window that is shown is drawn again  *)
(* at least every 200 ms.  The user lets go of the pointer in the end and  *)
(* comes back to the page; nothing else is assumed of the user.            *)
(***************************************************************************)
FairSpec ==
    /\ Spec
    /\ WF_vars(Edit) /\ \A r \in Readers : WF_vars(Take(r))
    /\ SF_vars(DrawFrame) /\ WF_vars(LetGo) /\ WF_vars(Show)

-----------------------------------------------------------------------------
Snapshot == [fan : Fan, old : BOOLEAN]

\* Types; the level on the card is one the fan can have.
TypeOK ==
    /\ fan \in Fan /\ snap \in Snapshot
    /\ level \in Levels /\ curve \in Curves
    /\ dragging \in [level : BOOLEAN, curve : BOOLEAN]
    /\ dirty \in BOOLEAN /\ applying \in BOOLEAN /\ drawn \in BOOLEAN
    /\ pointer \in Pointers
    /\ reader \in [Readers -> {Idle} \cup
                   [at : {"curve", "store"}, fan : Fan, old : BOOLEAN]]
    /\ edit \in {Idle} \cup [at : {"mode", "fixed", "curve", "read"}, mode : Modes,
                            level : Levels, curve : Curves]
    /\ want \in Fan /\ excuses \subseteq Excusable /\ acts \in Nat

\* Snapshots, adoptions and finished edits never pull a value from under the
\* user's pointer.
DragHeld ==
    /\ pointer.on = "level" => level = pointer.value
    /\ pointer.on = "curve" => curve = pointer.value

\* Nothing the user did on the card is lost: once it is quiet, the fan is in
\* the mode, at the level and on the curve that all the changes add up to,
\* unless an access failed, somebody else wrote the fan, the widget vanished
\* from under the pointer, or a snapshot was stored that had been taken
\* before the one it replaced.
Quiet == pointer = NoPointer /\ ~applying

EditsKept ==
    (Quiet /\ excuses \cap Excuses = {}) =>
        /\ fan.mode = want.mode /\ fan.curve = want.curve
        /\ fan.mode = "fixed" => fan.level = want.level

\* The card catches up with the fan for good: in whatever order snapshots
\* were stored and whoever else wrote the fan, a buffer without unsaved
\* changes ends up showing what is in force.
CardShowsFan ==
    /\ snap.fan = fan
    /\ fan.mode = "fixed" => level = fan.level
    /\ fan.mode = "curve" => curve = fan.curve

CatchesUp == <>[](~dirty) => <>[]CardShowsFan
=============================================================================
