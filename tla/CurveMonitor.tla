---------------------------- MODULE CurveMonitor ----------------------------
(***************************************************************************)
(* The closed loop of curve mode inside the GUI process: the monitor       *)
(* thread samples the temperature, smooths it over a window and moves one  *)
(* fan by one level per tick, while the user edits curves, modes and the   *)
(* smoothing window.  A curve edit is the sequence of critical sections of *)
(* apply_fan_edit: mode and initial level, ramp-up, ramp-down; the monitor *)
(* may tick between any two of them.                                       *)
(*                                                                         *)
(* EC transactions succeed here and the level is written in the step that  *)
(* decides it; FanControl models their failures, the lock released before  *)
(* the write, and the threads that race with it.                           *)
(***************************************************************************)
EXTENDS FanCurve

CONSTANTS NFans,          \* 3 in the source
          MaxSmoothing,   \* SMOOTHING_WINDOW_MAX: 20 in the source
          Readings,       \* the temperatures the selected sensor may report
          InitRampup,     \* the ramps a controller starts with, written
          InitRampdown,   \* by hand in FanCurveData::default and new_unchecked
          MaxMoves        \* bound on temperature changes and user actions

ASSUME MonitorAssumption ==
    /\ NFans \in Nat \ {0}
    /\ MaxSmoothing \in Nat \ {0}
    /\ Readings \subseteq Temp \ {0}
    /\ Readings # {}
    /\ InitRampup \in Ramp /\ InitRampdown \in Ramp
    /\ MaxMoves \in Nat

Fans == 1 .. NFans

VARIABLES temp,       \* what read_control_temperature returns now
          curve,      \* fan_curves: mode and both ramps of each fan
          level,      \* the level register of each fan
          smoothing,  \* smoothing_window
          window,     \* temp_window, oldest first
          active,     \* the monitor's local `active`
          mon,        \* the monitor's position, sample, window limit, average
          edit,       \* what apply_fan_edit still has to store, per fan
          trim,       \* set_smoothing_window between its two locks, else 0
          moves       \* temperature changes and user actions so far

vars == <<temp, curve, level, smoothing, window, active, mon, edit, trim, moves>>

AwaitTick == [pc |-> "wake", sample |-> 0, max |-> 0, avg |-> 0]

NoEdit == [at |-> "none", up |-> InitRampup]

Init ==
    /\ temp \in Readings
    /\ curve = [f \in Fans |-> [mode |-> "auto", up |-> InitRampup,
                                down |-> InitRampdown]]
    /\ level = [f \in Fans |-> 0]
    /\ smoothing = MaxSmoothing
    /\ window = <<>>
    /\ active = FALSE
    /\ mon = AwaitTick
    /\ edit = [f \in Fans |-> NoEdit]
    /\ trim = 0
    /\ moves = 0

CurveFans == {f \in Fans : curve[f].mode = "curve"}

Desired(f) == NextFanLevel(level[f], mon.avg, curve[f].up, curve[f].down)

(***************************************************************************)
(* The monitor thread.                                                     *)
(***************************************************************************)
\* Variant: the samples are kept.
TickIdleKeeping ==
    /\ mon.pc = "wake"
    /\ CurveFans = {}
    /\ active
    /\ active' = FALSE
    /\ UNCHANGED <<temp, curve, level, smoothing, window, mon, edit, trim, moves>>

\* A tick that finds no curve fan: the first one drops the samples.
TickIdle ==
    /\ mon.pc = "wake"
    /\ CurveFans = {}
    /\ active
    /\ active' = FALSE
    /\ window' = <<>>
    /\ UNCHANGED <<temp, curve, level, smoothing, mon, edit, trim, moves>>

\* A tick with a curve fan reads the sensor, then the window size.
TickSample ==
    /\ mon.pc = "wake"
    /\ CurveFans # {}
    /\ active' = TRUE
    /\ mon' = [mon EXCEPT !.pc = "push", !.sample = temp, !.max = smoothing]
    /\ UNCHANGED <<temp, curve, level, smoothing, window, edit, trim, moves>>

TickPush ==
    /\ mon.pc = "push"
    /\ window' = PushTempSample(window, mon.sample, mon.max)
    /\ mon' = [mon EXCEPT !.pc = "serve", !.sample = 0, !.max = 0, !.avg = AverageTemps(window')]
    /\ UNCHANGED <<temp, curve, level, smoothing, active, edit, trim, moves>>

\* Variant: only the first curve fan is ever looked at.
TickServeFirst ==
    /\ mon.pc = "serve"
    /\ mon' = AwaitTick
    /\ level' = [f \in Fans |-> IF f \in CurveFans /\ \A g \in CurveFans : f <= g
                               THEN Desired(f) ELSE level[f]]
    /\ UNCHANGED <<temp, curve, smoothing, window, active, edit, trim, moves>>

\* Fans are visited in order and the loop returns after the first one moved.
TickServe ==
    /\ mon.pc = "serve"
    /\ mon' = AwaitTick
    /\ LET moving == {f \in CurveFans : Desired(f) # level[f]}
       IN  level' = IF moving = {} THEN level
                    ELSE [level EXCEPT ![Min(moving)] = Desired(Min(moving))]
    /\ UNCHANGED <<temp, curve, smoothing, window, active, edit, trim, moves>>

Monitor == TickIdle \/ TickSample \/ TickPush \/ TickServe

(***************************************************************************)
(* The user and the hardware.                                              *)
(***************************************************************************)
Move == moves < MaxMoves /\ moves' = moves + 1

TempChange ==
    /\ Move
    /\ temp' \in Readings \ {temp}
    /\ UNCHANGED <<curve, level, smoothing, window, active, mon, edit, trim>>

\* apply_fan_edit with mode auto or fixed
LeaveCurve(f) ==
    /\ Move
    /\ edit[f].at = "none"
    /\ \E m \in {"auto", "fixed"}, l \in Level :
        /\ m = "auto" => l = level[f]
        /\ curve' = [curve EXCEPT ![f].mode = m]
        /\ level' = [level EXCEPT ![f] = l]
    /\ UNCHANGED <<temp, smoothing, window, active, mon, edit, trim>>

\* A ramp-up point dragged in the curve table and committed: the fan enters
\* curve mode with the initial level of the ramps stored so far.
CommitCurve(f) ==
    /\ Move
    /\ edit[f].at = "none"
    /\ \E i \in 1 .. NLevels, t \in Temp :
        edit' = [edit EXCEPT ![f] =
                    [at |-> "up", up |-> ClampRampupPoint(curve[f].up, i, t)]]
    /\ curve' = [curve EXCEPT ![f].mode = "curve"]
    /\ level' = [level EXCEPT ![f] = InitialLevel(temp, curve[f].up)]
    /\ UNCHANGED <<temp, smoothing, window, active, mon, trim>>

StoreRampup(f) ==
    /\ edit[f].at = "up"
    /\ curve' = [curve EXCEPT ![f].up = edit[f].up]
    /\ edit' = [edit EXCEPT ![f].at = "down"]
    /\ UNCHANGED <<temp, level, smoothing, window, active, mon, trim, moves>>

StoreRampdown(f) ==
    /\ edit[f].at = "down"
    /\ curve' = [curve EXCEPT ![f].down = DeriveRampdown(edit[f].up)]
    /\ edit' = [edit EXCEPT ![f] = NoEdit]
    /\ UNCHANGED <<temp, level, smoothing, window, active, mon, trim, moves>>

\* set_smoothing_window stores the new size, then trims the samples.
SetSmoothing ==
    /\ Move
    /\ trim = 0
    /\ \E n \in 1 .. MaxSmoothing : smoothing' = n /\ trim' = n
    /\ UNCHANGED <<temp, curve, level, window, active, mon, edit>>

TrimWindow ==
    /\ trim # 0
    /\ window' = IF Len(window) > trim
                 THEN SubSeq(window, Len(window) - trim + 1, Len(window))
                 ELSE window
    /\ trim' = 0
    /\ UNCHANGED <<temp, curve, level, smoothing, active, mon, edit, moves>>

Finish(f) == StoreRampup(f) \/ StoreRampdown(f)

Next ==
    \/ Monitor
    \/ TempChange
    \/ \E f \in Fans : LeaveCurve(f) \/ CommitCurve(f) \/ Finish(f)
    \/ SetSmoothing
    \/ TrimWindow

(***************************************************************************)
(* The monitor loops every 250 ms until the process stops and an edit runs *)
(* on a thread of its own to its end, so neither stops for good.           *)
(***************************************************************************)
Fairness ==
    /\ WF_vars(Monitor)
    /\ WF_vars(TrimWindow)
    /\ \A f \in Fans : WF_vars(Finish(f))

Spec     == Init /\ [][Next]_vars
FairSpec == Spec /\ Fairness

-----------------------------------------------------------------------------
\* Every variable stays in its range; the window never outgrows the largest
\* configurable size.
TypeOK ==
    /\ temp \in Readings
    /\ curve \in [Fans -> [mode : {"auto", "fixed", "curve"}, up : Ramp, down : Ramp]]
    /\ level \in [Fans -> Level]
    /\ smoothing \in 1 .. MaxSmoothing
    /\ window \in Seq(Readings) /\ Len(window) <= MaxSmoothing
    /\ active \in BOOLEAN
    /\ mon \in [pc : {"wake", "push", "serve"}, sample : Readings \cup {0},
                max : 0 .. MaxSmoothing, avg : Temp]
    /\ edit \in [Fans -> [at : {"none", "up", "down"}, up : Ramp]]
    /\ trim \in 0 .. MaxSmoothing
    /\ moves \in 0 .. MaxMoves

\* Curves reached through the curve table stay usable whatever points were
\* dragged: ramp-up strictly rises, ramp-down never falls, and each ramp-down
\* point is below its ramp-up point (derive_rampdown, clamp_rampup_point).
EditedCurvesSound ==
    \A f \in Fans : edit[f].at = "none" =>
        LET c == curve[f] IN
        /\ \A i \in 1 .. NLevels - 1 : c.up[i] < c.up[i + 1] /\ c.down[i] <= c.down[i + 1]
        /\ \A i \in 1 .. NLevels : c.up[i] > 0 => c.down[i] < c.up[i]

\* Samples taken before monitoring stopped are never averaged with samples
\* taken after it resumed (clear_temp_window in the monitor loop).
NoSamplesKeptWhileIdle == ~active => window = <<>>

\* Once the temperature and the user leave the system alone, every curve fan
\* reaches a level its curve is content with and keeps it: no oscillation, and
\* no fan starved by the fans served before it.
Settles ==
    <>[](\A f \in CurveFans : AtRest(level[f], temp, curve[f].up, curve[f].down))

\* A smaller smoothing window is honoured in the end even when it is set while
\* the monitor is about to push a sample under the old size.
WindowShrinks == <>[](Len(window) <= smoothing)
=============================================================================
