----------------------------- MODULE FanControl -----------------------------
(***************************************************************************)
(* Who writes the fans, and when.  One GUI process (main thread, curve     *)
(* monitor, one worker thread per fan edit, the threads that quit), one    *)
(* CLI process at a time, the EC registers both write, config.json that    *)
(* both rewrite, and the event by which the CLI tells the GUI to reload.   *)
(*                                                                         *)
(* A step is one critical section or one EC transaction: those are atomic  *)
(* in the source (fan_curves, config and monitor mutexes; with_transaction *)
(* around every register access).  Everything between two steps is open to *)
(* the other threads.                                                      *)
(*                                                                         *)
(* Curves, temperatures and the smoothing window are abstracted to what    *)
(* they decide: a fan entering curve mode starts at any level, and a       *)
(* monitor tick moves a curve fan by at most one level.  CurveMonitor      *)
(* models the decision itself.                                             *)
(***************************************************************************)
EXTENDS Integers, FiniteSets, FiniteSetsExt

CONSTANTS NFans,       \* 3 in the source
          NLevels,     \* 5 in the source
          Quitters,    \* the threads that may call shutdown and then exit
          CliModes,    \* the modes CLI commands ask for
          OverlapQuit, \* may a quit overlap an edit, a command, a reload?
          OverlapCli,  \* may an edit overlap a command or the reload it causes?
          Faulty,      \* the kinds of work whose EC accesses or saves may fail
          MaxFaults,   \* bound on such failures
          MaxEdits,    \* bound on fan edits started in the window
          MaxCliRuns,  \* bound on CLI commands started
          MaxLaunches  \* bound on launches of the GUI process

Modes == {"auto", "fixed", "curve"}
Kinds == {"edit", "restore", "adopt", "cli", "monitor", "release"}

ASSUME FanControlAssumption ==
    /\ NFans \in Nat \ {0}
    /\ NLevels \in Nat
    /\ Quitters \subseteq {"gui", "tray", "ctrl"}
    /\ CliModes \subseteq Modes
    /\ OverlapQuit \in BOOLEAN /\ OverlapCli \in BOOLEAN
    /\ Faulty \subseteq Kinds
    /\ {MaxFaults, MaxEdits, MaxCliRuns, MaxLaunches} \subseteq Nat

Fans   == 1 .. NFans
Levels == 0 .. NLevels
Config == [Fans -> [mode : Modes, level : Levels]]

(***************************************************************************)
(* The threads that run a sequence of fan operations: worker f is thread f *)
(* (fan_applying admits one edit per fan), then the monitor, the GUI main  *)
(* thread and the CLI process.                                             *)
(***************************************************************************)
Monitor == NFans + 1
Gui     == NFans + 2
Cli     == NFans + 3
Threads == Fans \cup {Monitor, Gui, Cli}

VARIABLES regMode,   \* EC mode registers: "auto" (0x10) or "manual" (0x11)
          regLevel,  \* EC level registers
          mode,      \* fan_curves[..].mode of the GUI process
          cfg,       \* AppSession.config of the GUI process (its three fans)
          file,      \* config.json
          reload,    \* the auto-reset event is set
          phase,     \* the GUI process
          job,       \* the fan operations each thread is in the middle of
          mon,       \* the monitor thread's position in its loop
          stop, released, handle,  \* AppSession.stop, .released, .monitor
          quit,      \* position of each thread in shutdown
          toReset,   \* `reset` of release_curve_fans_to_auto
          used       \* how much of each bound has been used

ecVars   == <<regMode, regLevel>>
confVars == <<cfg, file>>
quitVars == <<stop, released, handle, quit, toReset>>
vars == <<ecVars, mode, confVars, reload, phase, job, mon, quitVars, used>>

RegOf(m) == IF m = "auto" THEN "auto" ELSE "manual"

NoCfg == [f \in Fans |-> [mode |-> "auto", level |-> 0]]
NoJob == [kind |-> "none", at |-> "done", fan |-> 1,
          mode |-> "auto", level |-> 0, snap |-> NoCfg]
Idle(t) == job[t].kind = "none"

MonOff == [pc |-> "off", fan |-> 1, level |-> 0]
At(pc) == [pc |-> pc, fan |-> 1, level |-> 0]

\* The monitor keeps fan_curves locked while it reads the levels of its fans.
CurvesHeld == mon.pc = "scan"

CurveFans == {f \in Fans : mode[f] = "curve"}

\* A failure of an EC access or of a save done on behalf of `kind`.
Fault(kind) ==
    /\ kind \in Faulty
    /\ used.faults < MaxFaults
    /\ used' = [used EXCEPT !.faults = @ + 1]
NoFault == UNCHANGED used

Init ==
    /\ regMode \in [Fans -> {"auto", "manual"}]
    /\ regLevel \in [Fans -> Levels]
    /\ file \in Config
    /\ cfg = file
    /\ mode = [f \in Fans |-> "auto"]
    /\ reload = FALSE
    /\ phase = "starting"
    /\ job = [t \in Threads |-> NoJob]
    /\ mon = MonOff
    /\ stop = FALSE /\ released = FALSE /\ handle = FALSE
    /\ quit = [q \in Quitters |-> "idle"]
    /\ toReset = {}
    /\ used = [faults |-> 0, edits |-> 0, cli |-> 0, launches |-> 1]

-----------------------------------------------------------------------------
(***************************************************************************)
(* The operations on one fan and the order they come in.  An edit is       *)
(* apply_fan_edit in the window, "cli" the same call in the CLI process,   *)
(* "restore" restore_saved_state at start-up, "adopt" apply_stored_fans    *)
(* after a reload.                                                         *)
(*   mem       fan_curves[f].mode := mode   (the GUI's own memory)         *)
(*   mode      the mode register                                           *)
(*   init      the initial level of a curve fan                            *)
(*   level     the level register                                          *)
(*   save...   update_fan_config: config in memory, then config.json       *)
(***************************************************************************)
AfterLevel(j) ==
    IF j.kind = "restore" \/ (j.kind # "adopt" /\ j.mode = "curve")
    THEN "saveUp" ELSE "done"

AfterMode(j) ==
    IF j.mode = "fixed" \/ (j.mode = "curve" /\ j.kind \in {"restore", "adopt"})
    THEN "level" ELSE AfterLevel(j)

AfterSet(j) == IF j.kind = "adopt" THEN AfterMode(j) ELSE "saveMode"

Following(j) ==
    CASE j.at = "mem"       -> "mode"
      [] j.at = "mode"      -> IF j.mode = "curve" THEN "init" ELSE AfterSet(j)
      [] j.at = "init"      -> AfterSet(j)
      [] j.at = "saveMode"  -> AfterMode(j)
      [] j.at = "level"     -> IF j.kind = "adopt" THEN "done" ELSE "saveLevel"
      [] j.at = "saveLevel" -> AfterLevel(j)
      [] j.at = "saveUp"    -> "saveDown"
      [] j.at = "saveDown"  -> IF j.kind = "cli" THEN "signal" ELSE "done"

\* An edit gives up at the first error; adoption goes on with the next fan;
\* restore ignores the error and makes its next call for the same fan.
Failing(j) ==
    IF j.kind # "restore" THEN "done"
    ELSE IF j.at = "level" THEN AfterLevel(j) ELSE AfterMode(j)

OneFanJob(kind, at, f, m, l) ==
    [NoJob EXCEPT !.kind = kind, !.at = at, !.fan = f, !.mode = m, !.level = l]

FanJob(kind, f, snap) ==
    [kind |-> kind, at |-> "mem", fan |-> f,
     mode |-> snap[f].mode, level |-> snap[f].level, snap |-> snap]

Advance(j, at) ==
    IF at # "done" THEN [j EXCEPT !.at = at]
    ELSE IF j.kind \in {"restore", "adopt"} /\ j.fan < NFans
         THEN FanJob(j.kind, j.fan + 1, j.snap)
         ELSE NoJob

Goto(t, at) == job' = [job EXCEPT ![t] = Advance(job[t], at)]
Continue(t) == Goto(t, Following(job[t]))
Fail(t)     == Fault(job[t].kind) /\ Goto(t, Failing(job[t]))

\* SetFanMode, first half: the mode in memory changes before the register.
SetMem(t) ==
    /\ job[t].at = "mem"
    /\ ~CurvesHeld
    /\ mode' = [mode EXCEPT ![job[t].fan] = job[t].mode]
    /\ Continue(t)
    /\ UNCHANGED <<ecVars, confVars, reload, phase, mon, quitVars, used>>

\* SetFanMode, second half.
WriteMode(t) ==
    /\ job[t].at = "mode"
    /\ \/ /\ regMode' = [regMode EXCEPT ![job[t].fan] = RegOf(job[t].mode)]
          /\ Continue(t) /\ NoFault
       \/ Fail(t) /\ UNCHANGED regMode
    /\ UNCHANGED <<regLevel, mode, confVars, reload, phase, mon, quitVars>>

\* The initial level of a curve fan; skipped when no temperature can be read.
WriteInit(t) ==
    /\ job[t].at = "init"
    /\ \/ /\ \E l \in Levels : regLevel' = [regLevel EXCEPT ![job[t].fan] = l]
          /\ Continue(t) /\ NoFault
       \/ Fault(job[t].kind) /\ Continue(t) /\ UNCHANGED regLevel
       \/ Fail(t) /\ UNCHANGED regLevel
    /\ UNCHANGED <<regMode, mode, confVars, reload, phase, mon, quitVars>>

\* SetFanLevel
WriteLevel(t) ==
    /\ job[t].at = "level"
    /\ \/ /\ regLevel' = [regLevel EXCEPT ![job[t].fan] = job[t].level]
          /\ Continue(t) /\ NoFault
       \/ Fail(t) /\ UNCHANGED regLevel
    /\ UNCHANGED <<regMode, mode, confVars, reload, phase, mon, quitVars>>

\* Variant: a mode that was set is not put into the configuration.
UpdatedLevelOnly(c, j) ==
    IF j.at = "saveLevel" THEN [c EXCEPT ![j.fan].level = j.level] ELSE c

\* What a save changes in the configuration of the process that saves; the
\* ramps, which saveUp and saveDown store, are not part of this model.
Updated(c, j) ==
    CASE j.at = "saveMode"  -> [c EXCEPT ![j.fan].mode = j.mode]
      [] j.at = "saveLevel" -> [c EXCEPT ![j.fan].level = j.level]
      [] OTHER              -> c

\* update_fan_config rewrites all of config.json from this process's copy; a
\* save that fails is logged and otherwise ignored.
Save(t) ==
    LET j == job[t]
        c == Updated(IF t = Cli THEN j.snap ELSE cfg, j)
    IN
    /\ j.at \in {"saveMode", "saveLevel", "saveUp", "saveDown"}
    /\ \/ file' = c /\ NoFault
       \/ file' = file /\ Fault(j.kind)
    /\ IF t = Cli
       THEN /\ job' = [job EXCEPT ![t] = Advance([j EXCEPT !.snap = c], Following(j))]
            /\ UNCHANGED cfg
       ELSE cfg' = c /\ Continue(t)
    /\ UNCHANGED <<ecVars, mode, reload, phase, mon, quitVars>>

\* A ramp typed on the command line may hold a value over 100: it is refused
\* after the mode has been set and saved, and the command ends there.
RefuseRamp(t) ==
    /\ job[t].kind = "cli"
    /\ job[t].at \in {"saveUp", "saveDown"}
    /\ Fault("cli")
    /\ Goto(t, "done")
    /\ UNCHANGED <<ecVars, mode, confVars, reload, phase, mon, quitVars>>

Operate(t) ==
    SetMem(t) \/ WriteMode(t) \/ WriteInit(t) \/ WriteLevel(t) \/ Save(t) \/ RefuseRamp(t)

(***************************************************************************)
(* Adoption: load config.json, install its fans in the configuration, then *)
(* apply them one after the other.                                         *)
(***************************************************************************)
AdoptJob == [NoJob EXCEPT !.kind = "adopt", !.at = "load"]

Load(t) ==
    /\ job[t].at = "load"
    /\ \/ job' = [job EXCEPT ![t].at = "install", ![t].snap = file] /\ NoFault
       \/ job' = [job EXCEPT ![t] = NoJob] /\ Fault("adopt")
    /\ UNCHANGED <<ecVars, mode, confVars, reload, phase, mon, quitVars>>

\* Variant: the loaded fans are applied but not installed.
InstallNothing(t) ==
    /\ job[t].at = "install"
    /\ job' = [job EXCEPT ![t] = FanJob("adopt", 1, job[t].snap)]
    /\ UNCHANGED <<ecVars, mode, confVars, reload, phase, mon, quitVars, used>>

Install(t) ==
    /\ job[t].at = "install"
    /\ cfg' = job[t].snap
    /\ job' = [job EXCEPT ![t] = FanJob("adopt", 1, job[t].snap)]
    /\ UNCHANGED <<ecVars, mode, file, reload, phase, mon, quitVars, used>>

Adopt(t) == Load(t) \/ Install(t)

-----------------------------------------------------------------------------
(***************************************************************************)
(* The monitor thread, spawn_curve_monitor.                                *)
(***************************************************************************)
MonTop ==
    /\ mon.pc = "top"
    /\ mon' = At(IF stop THEN "done" ELSE "slept")
    /\ UNCHANGED <<ecVars, mode, confVars, reload, phase, job, quitVars, used>>

\* Variant: the event is consumed and the reload put off.
MonPollForgets ==
    /\ mon.pc = "slept"
    /\ mon' = At(IF stop THEN "done" ELSE "check")
    /\ reload' = (stop /\ reload)
    /\ UNCHANGED <<ecVars, mode, confVars, phase, job, quitVars, used>>

\* After the sleep: the second look at `stop`, then the reload event.
MonPoll ==
    /\ mon.pc = "slept"
    /\ mon' = At(IF stop THEN "done" ELSE "check")
    /\ IF ~stop /\ reload
       THEN reload' = FALSE /\ job' = [job EXCEPT ![Monitor] = AdoptJob]
       ELSE UNCHANGED <<reload, job>>
    /\ UNCHANGED <<ecVars, mode, confVars, phase, quitVars, used>>

\* has_curve_fans, once an adoption is over.
MonCheck ==
    /\ mon.pc = "check"
    /\ Idle(Monitor)
    /\ mon' = At(IF CurveFans = {} THEN "top" ELSE "sample")
    /\ UNCHANGED <<ecVars, mode, confVars, reload, phase, job, quitVars, used>>

\* update_curve_fans reads the temperature, then locks fan_curves.
MonSample ==
    /\ mon.pc = "sample"
    /\ \/ mon' = At("scan") /\ NoFault
       \/ mon' = At("top") /\ Fault("monitor")
    /\ UNCHANGED <<ecVars, mode, confVars, reload, phase, job, quitVars>>

\* Variant: a level above the last or below zero is possible.
NearbyUnbounded(l) == (l - 1) .. (l + 1)

Nearby(l) == {n \in Levels : n \in (l - 1) .. (l + 1)}

\* The next curve fan's level is read under the lock; the first one that has
\* to move ends the scan, and the lock is dropped before the write.
MonScan ==
    /\ mon.pc = "scan"
    /\ LET rest == {f \in CurveFans : f >= mon.fan} IN
       \/ /\ rest = {}
          /\ mon' = At("top") /\ NoFault
       \/ /\ rest # {}
          /\ \E l \in Nearby(regLevel[Min(rest)]) :
               mon' = IF l = regLevel[Min(rest)]
                      THEN [mon EXCEPT !.fan = Min(rest) + 1]
                      ELSE [pc |-> "write", fan |-> Min(rest), level |-> l]
          /\ NoFault
       \/ rest # {} /\ mon' = At("top") /\ Fault("monitor")
    /\ UNCHANGED <<ecVars, mode, confVars, reload, phase, job, quitVars>>

MonWrite ==
    /\ mon.pc = "write"
    /\ \/ regLevel' = [regLevel EXCEPT ![mon.fan] = mon.level] /\ NoFault
       \/ Fault("monitor") /\ UNCHANGED regLevel
    /\ mon' = At("top")
    /\ UNCHANGED <<regMode, mode, confVars, reload, phase, job, quitVars>>

MonLoop == MonTop \/ MonPoll \/ MonCheck \/ MonSample \/ MonScan \/ MonWrite

-----------------------------------------------------------------------------
(***************************************************************************)
(* Shutdown: stop the monitor and wait for it, then the first caller gives *)
(* the curve fans back to the firmware.  Every caller exits the process as *)
(* soon as its own call returns.                                           *)
(***************************************************************************)
Working == reload \/ \E t \in Threads : ~Idle(t)

\* Variant: the flag the monitor looks at is not set.
QuitUnannounced(q) ==
    /\ quit[q] = "idle"
    /\ phase = "running"
    /\ q = "gui" => Idle(Gui)
    /\ OverlapQuit \/ ~Working
    /\ quit' = [quit EXCEPT ![q] = "lock"]
    /\ UNCHANGED <<ecVars, mode, confVars, reload, phase, job, mon, stop, released,
                   handle, toReset, used>>

Quit(q) ==
    /\ quit[q] = "idle"
    /\ phase = "running"
    /\ q = "gui" => Idle(Gui)
    /\ OverlapQuit \/ ~Working
    /\ stop' = TRUE
    /\ quit' = [quit EXCEPT ![q] = "lock"]
    /\ UNCHANGED <<ecVars, mode, confVars, reload, phase, job, mon, released,
                   handle, toReset, used>>

\* Variant: the monitor mutex is not held during the join.
TakeHandleUnlocked(q) ==
    /\ quit[q] = "lock"
    /\ quit' = [quit EXCEPT ![q] = IF handle THEN "join" ELSE "swap"]
    /\ handle' = FALSE
    /\ UNCHANGED <<ecVars, mode, confVars, reload, phase, job, mon, stop,
                   released, toReset, used>>

\* The monitor mutex is held from here until the join is over.
TakeHandle(q) ==
    /\ quit[q] = "lock"
    /\ \A p \in Quitters : quit[p] # "join"
    /\ quit' = [quit EXCEPT ![q] = IF handle THEN "join" ELSE "swap"]
    /\ handle' = FALSE
    /\ UNCHANGED <<ecVars, mode, confVars, reload, phase, job, mon, stop,
                   released, toReset, used>>

Join(q) ==
    /\ quit[q] = "join"
    /\ mon.pc = "done"
    /\ quit' = [quit EXCEPT ![q] = "swap"]
    /\ UNCHANGED <<ecVars, mode, confVars, reload, phase, job, mon, stop,
                   released, handle, toReset, used>>

Swap(q) ==
    /\ quit[q] = "swap"
    /\ quit' = [quit EXCEPT ![q] = IF released THEN "exit" ELSE "collect"]
    /\ released' = TRUE
    /\ UNCHANGED <<ecVars, mode, confVars, reload, phase, job, mon, stop,
                   handle, toReset, used>>

\* Variant: the fans to reset are listed after their modes were changed.
CollectLate(q) ==
    /\ quit[q] = "collect"
    /\ ~CurvesHeld
    /\ mode' = [f \in Fans |-> IF f \in CurveFans THEN "auto" ELSE mode[f]]
    /\ toReset' = {f \in Fans : mode'[f] = "curve"}
    /\ quit' = [quit EXCEPT ![q] = "write"]
    /\ UNCHANGED <<ecVars, confVars, reload, phase, job, mon, stop, released,
                   handle, used>>

\* Variant: every fan in manual mode is reset.
CollectManual(q) ==
    /\ quit[q] = "collect"
    /\ ~CurvesHeld
    /\ toReset' = {f \in Fans : mode[f] # "auto"}
    /\ mode' = [f \in Fans |-> "auto"]
    /\ quit' = [quit EXCEPT ![q] = "write"]
    /\ UNCHANGED <<ecVars, confVars, reload, phase, job, mon, stop, released,
                   handle, used>>

\* release_curve_fans_to_auto, under fan_curves
Collect(q) ==
    /\ quit[q] = "collect"
    /\ ~CurvesHeld
    /\ toReset' = CurveFans
    /\ mode' = [f \in Fans |-> IF f \in CurveFans THEN "auto" ELSE mode[f]]
    /\ quit' = [quit EXCEPT ![q] = "write"]
    /\ UNCHANGED <<ecVars, confVars, reload, phase, job, mon, stop, released,
                   handle, used>>

\* The writes that follow; an error drops the fans not reached yet.
WriteAuto(q) ==
    /\ quit[q] = "write"
    /\ \/ /\ toReset = {}
          /\ quit' = [quit EXCEPT ![q] = "exit"]
          /\ NoFault /\ UNCHANGED <<regMode, toReset>>
       \/ /\ toReset # {}
          /\ regMode' = [regMode EXCEPT ![Min(toReset)] = "auto"]
          /\ toReset' = toReset \ {Min(toReset)}
          /\ NoFault /\ UNCHANGED quit
       \/ /\ toReset # {}
          /\ toReset' = {}
          /\ Fault("release") /\ UNCHANGED <<regMode, quit>>
    /\ UNCHANGED <<regLevel, mode, confVars, reload, phase, job, mon, stop,
                   released, handle>>

\* process::exit: every thread of the GUI process is gone.
Exit(q) ==
    /\ quit[q] = "exit"
    /\ phase' = "exited"
    /\ job' = [t \in Threads |-> IF t = Cli THEN job[t] ELSE NoJob]
    /\ mode' = [f \in Fans |-> "auto"]
    /\ mon' = MonOff
    /\ quit' = [p \in Quitters |-> "idle"]
    /\ reload' = FALSE /\ stop' = FALSE /\ released' = FALSE /\ handle' = FALSE
    /\ toReset' = {}
    /\ UNCHANGED <<ecVars, confVars, used>>

Shutdown(q) ==
    TakeHandle(q) \/ Join(q) \/ Swap(q) \/ Collect(q) \/ WriteAuto(q) \/ Exit(q)

-----------------------------------------------------------------------------
(***************************************************************************)
(* The life of the GUI process, the user, and the CLI process.             *)
(***************************************************************************)
\* The instance mutex is taken and the configuration loaded.
Launch ==
    /\ phase = "exited"
    /\ used.launches < MaxLaunches
    /\ used' = [used EXCEPT !.launches = @ + 1]
    /\ phase' = "starting"
    /\ cfg' = file
    /\ UNCHANGED <<ecVars, mode, file, reload, job, mon, quitVars>>

\* The reload event exists from here on; the saved state is restored.
Restore ==
    /\ phase = "starting"
    /\ phase' = "restoring"
    /\ job' = [job EXCEPT ![Gui] = FanJob("restore", 1, cfg)]
    /\ UNCHANGED <<ecVars, mode, confVars, reload, mon, quitVars, used>>

SpawnMonitor ==
    /\ phase = "restoring"
    /\ Idle(Gui)
    /\ phase' = "running"
    /\ mon' = At("top")
    /\ handle' = TRUE
    /\ UNCHANGED <<ecVars, mode, confVars, reload, job, stop, released, quit,
                   toReset, used>>

\* The main thread is in its event loop.
GuiAlive ==
    /\ phase = "running"
    /\ Idle(Gui)
    /\ "gui" \in Quitters => quit["gui"] = "idle"
    /\ OverlapQuit \/ ~stop

\* The user applies an edit to fan f; a worker thread runs it.
Edit(f) ==
    /\ GuiAlive
    /\ Idle(f)
    /\ OverlapCli \/ (~reload /\ \A t \in Threads \ Fans : Idle(t))
    /\ used.edits < MaxEdits
    /\ used' = [used EXCEPT !.edits = @ + 1]
    /\ \E m \in Modes, l \in Levels :
        /\ m # "fixed" => l = 0
        /\ job' = [job EXCEPT ![f] = OneFanJob("edit", "mem", f, m, l)]
    /\ UNCHANGED <<ecVars, mode, confVars, reload, phase, mon, quitVars>>

\* The main thread polls the same event as the monitor, and may win it.
GuiPoll ==
    /\ GuiAlive
    /\ reload
    /\ reload' = FALSE
    /\ job' = [job EXCEPT ![Gui] = AdoptJob]
    /\ UNCHANGED <<ecVars, mode, confVars, phase, mon, quitVars, used>>

\* apply_fan_command: curve mode is refused unless the instance mutex exists.
CliStart ==
    /\ Idle(Cli)
    /\ OverlapQuit \/ ~stop
    /\ OverlapCli \/ \A f \in Fans : Idle(f)
    /\ used.cli < MaxCliRuns
    /\ used' = [used EXCEPT !.cli = @ + 1]
    /\ \E f \in Fans, m \in CliModes, l \in Levels :
        /\ m # "fixed" => l = 0
        /\ m = "curve" => phase # "exited"
        /\ job' = [job EXCEPT ![Cli] = OneFanJob("cli", "open", f, m, l)]
    /\ UNCHANGED <<ecVars, mode, confVars, reload, phase, mon, quitVars>>

\* open_session loads config.json into the CLI's own configuration.
CliOpen ==
    /\ job[Cli].at = "open"
    /\ job' = [job EXCEPT ![Cli].at = "mode", ![Cli].snap = file]
    /\ UNCHANGED <<ecVars, mode, confVars, reload, phase, mon, quitVars, used>>

\* signal_reload_fans finds the event only in a process that created it.
CliSignal ==
    /\ job[Cli].at = "signal"
    /\ reload' = (phase \in {"restoring", "running"})
    /\ job' = [job EXCEPT ![Cli] = NoJob]
    /\ UNCHANGED <<ecVars, mode, confVars, phase, mon, quitVars, used>>

Command == CliStart \/ CliOpen \/ CliSignal \/ Operate(Cli)

MonitorThread == MonLoop \/ Adopt(Monitor) \/ Operate(Monitor)
GuiThread     == Restore \/ SpawnMonitor \/ GuiPoll \/ Adopt(Gui) \/ Operate(Gui)

Next ==
    \/ MonitorThread
    \/ GuiThread
    \/ \E f \in Fans : Edit(f) \/ Operate(f)
    \/ \E q \in Quitters : Quit(q) \/ Shutdown(q)
    \/ Launch
    \/ Command

Spec == Init /\ [][Next]_vars

(***************************************************************************)
(* Threads of a live process keep running; nothing obliges the user to     *)
(* edit, quit, launch or type a command, and a worker or the CLI may be    *)
(* arbitrarily slow unless a property is about it.  The monitor sleeps     *)
(* between two ticks with fan_curves unlocked, so a main thread that waits *)
(* for that mutex is not passed over forever.                              *)
(***************************************************************************)
Fairness ==
    /\ WF_vars(MonitorThread)
    /\ WF_vars(GuiThread) /\ SF_vars(SetMem(Gui))
    /\ \A q \in Quitters : WF_vars(Shutdown(q))

FairSpec == Spec /\ Fairness

-----------------------------------------------------------------------------
Job == [kind : {"none", "edit", "restore", "adopt", "cli"},
        at : {"load", "install", "open", "mem", "mode", "init", "saveMode",
              "level", "saveLevel", "saveUp", "saveDown", "signal", "done"},
        fan : Fans, mode : Modes, level : Levels, snap : Config]

\* Every variable stays in its range: levels 0 to 5, at most one value per
\* fan, and the bounds on the environment.
TypeOK ==
    /\ regMode \in [Fans -> {"auto", "manual"}]
    /\ regLevel \in [Fans -> Levels]
    /\ mode \in [Fans -> Modes]
    /\ cfg \in Config /\ file \in Config
    /\ reload \in BOOLEAN
    /\ phase \in {"starting", "restoring", "running", "exited"}
    /\ job \in [Threads -> Job]
    /\ mon \in [pc : {"off", "top", "slept", "check", "sample", "scan", "write", "done"},
                fan : 1 .. NFans + 1, level : Levels]
    /\ stop \in BOOLEAN /\ released \in BOOLEAN /\ handle \in BOOLEAN
    /\ quit \in [Quitters -> {"idle", "lock", "join", "swap", "collect", "write", "exit"}]
    /\ toReset \subseteq Fans
    /\ used \in [faults : Nat, edits : Nat, cli : Nat, launches : Nat]

\* No caller of shutdown gets past the join before the monitor thread has
\* ended, whichever caller took the handle: nothing the monitor was about to
\* write can follow the release (session.rs: shutdown).
MonitorStoppedFirst ==
    \A q \in Quitters :
        quit[q] \in {"swap", "collect", "write", "exit"} => mon.pc = "done"

\* The process is running, nobody is changing a fan, no reload is due.
Quiet == phase = "running" /\ ~Working /\ ~stop

\* Whenever the program is at rest, the saved file, the configuration in
\* memory, the mode the monitor goes by and the mode register agree on every
\* fan: an edit, a restore or an adoption leaves no half of itself behind.
InSync ==
    Quiet => \A f \in Fans :
        /\ file[f] = cfg[f]
        /\ mode[f] = cfg[f].mode
        /\ regMode[f] = RegOf(mode[f])

\* Once the process has exited, no fan saved in curve mode is left in manual
\* mode, at a level nobody adjusts any more (README: quitting writes curve
\* fans back to firmware AUTO).
QuitLeavesAuto ==
    phase = "exited" /\ Idle(Cli) =>
        \A f \in Fans : file[f].mode = "curve" => regMode[f] = "auto"

\* Quitting does not touch a fan the user set to a fixed level (CHANGELOG
\* 2.4.0: fixed and auto fans are left alone).
FixedLeftAlone ==
    phase = "exited" /\ Idle(Cli) =>
        \A f \in Fans : file[f].mode = "fixed" => regMode[f] = "manual"

\* A fan the user set to a fixed level keeps that level once the edit is over.
FixedLevelHeld ==
    Quiet /\ mon.pc # "write" =>
        \A f \in Fans : cfg[f].mode = "fixed" => regLevel[f] = cfg[f].level

\* A quit that was asked for ends the process: the waits for the monitor
\* mutex, the monitor thread and fan_curves are all granted in the end.
QuitTerminates == (\E q \in Quitters : quit[q] # "idle") ~> phase = "exited"

\* A curve the CLI saved and signalled while the window is up comes under the
\* monitor's control, unless the process exits first (poll_reload_fans).
CliCurveAdopted ==
    \A f \in Fans :
        (phase = "running" /\ reload /\ file[f].mode = "curve")
            ~> (mode[f] = "curve" \/ phase = "exited")
=============================================================================
