------------------------------ MODULE Settings ------------------------------
(***************************************************************************)
(* config.json and what it stands for: the power mode register, a fan's    *)
(* curves and the preferred sensor in the controller, the logon task.  The *)
(* window process and the command line each keep the whole configuration   *)
(* in memory and write the whole file; the window does so from three       *)
(* threads.  Crashes, refused accesses and failing saves included.         *)
(*                                                                         *)
(* A thread's work is a sequence of steps, `todo`.  A step is what the     *)
(* code does between two points where another thread or process can get    *)
(* in: an EC write, opening the file with `config` locked, writing it.     *)
(***************************************************************************)
EXTENDS Integers, Sequences

CONSTANTS Modes,        \* power modes: three in the source
          HandMade,     \* configurations found on disk at the first start
          Imports,      \* files the user may import
          PowerOverlap, \* may two threads be setting the power mode at once?
          CurveOverlap, \* may two threads be setting the curves at once?
          CliOverlap,   \* may a command run while the window runs?
          Installed,    \* is the program under Program Files?
          Faulty,       \* what may fail
          MaxFaults, MaxCrashes, MaxLaunches, MaxOps, MaxCli  \* bounds

ASSUME SettingsAssumption ==
    /\ {PowerOverlap, CurveOverlap, CliOverlap, Installed} \subseteq BOOLEAN
    /\ Faulty \subseteq {"user", "restore", "save", "toggle", "import", "late"}
    /\ {MaxFaults, MaxCrashes, MaxLaunches, MaxOps, MaxCli} \subseteq Nat

(***************************************************************************)
(* A configuration.  `fan` stands for the curves of fan 3: absent, its own *)
(* defaults, fan 1's, the user's, or curves with a point over 100.         *)
(***************************************************************************)
Curves    == {"stock", "foreign", "own", "over100"}
Languages == {"en", "zh"}
Elsewhere == {"de", "fr"}  \* languages a file may name and the program does not know
Sources   == {"gpu", "cpu"}

Config == [power : Modes \cup {"none", "turbo"}, fan : Curves \cup {"missing"},
           start : BOOLEAN, lang : Languages \cup Elsewhere, source : Sources]

\* ServerConfig::default
DefaultConfig == [power |-> "none", fan |-> "stock", start |-> FALSE,
                  lang |-> "en", source |-> "gpu"]

ASSUME SettingsFilesAssumption ==
    /\ HandMade \subseteq Config
    /\ Imports \subseteq Config

\* Variant: an unknown power mode is kept.
SanitisedNot(c) == c

\* sanitize_loaded_config
Sanitised(c) == [c EXCEPT !.power = IF @ \in Modes THEN @ ELSE "none"]

\* PortableConfig::validate, validate_fan
Valid(c) ==
    /\ c.power \in Modes \cup {"none"}
    /\ c.fan # "missing"
    /\ c.lang \in Languages

\* to_portable: a fan without settings is exported with fan 1's.
Portable(c) == [c EXCEPT !.fan = IF @ = "missing" THEN "foreign" ELSE @]

\* Variant: the edit is applied to a fan that has no settings.
UpdatedVerbatim(c, change) ==
    [f \in DOMAIN c |-> IF f \in DOMAIN change THEN change[f] ELSE c[f]]

\* What a save changes: the fields named.  "keep" is an edit of the fan that
\* leaves its curves alone; a fan without settings gets FanConfig::default().
Updated(c, change) ==
    [f \in DOMAIN c |->
        IF f \notin DOMAIN change THEN c[f]
        ELSE IF f # "fan" \/ change[f] # "keep" THEN change[f]
        ELSE IF c.fan = "missing" THEN "foreign" ELSE c.fan]

Absent == [no |-> "file"]
Torn   == [no |-> "JSON"]  \* empty, cut off, or with another text's tail
Free   == "free"

Procs   == {"window", "cli"}
Threads == {"main", "worker", "tray", "cli"}
ProcessOf(t) == IF t = "cli" THEN "cli" ELSE "window"

VARIABLES file,      \* config.json: Absent, Torn or a configuration
          cfg,       \* the configuration in each process's memory
          lock,      \* holder of `config` in each process
          apu,       \* power mode register
          curves,    \* fan 3's curves in the window's controller
          preferred, \* preferred sensor of the window's controller
          task,      \* logon task: "none", "ours", "foreign" (other program)
          phase,     \* of the window: "down", "starting", "running"
          todo,      \* what each thread still does
          ops, faults, crashes, launches, runs

memory   == <<cfg, lock>>
hardware == <<apu, curves, preferred, task>>
counters == <<ops, faults, crashes, launches, runs>>
vars == <<file, memory, hardware, phase, todo, counters>>

-----------------------------------------------------------------------------
(***************************************************************************)
(* The steps.  A failing save or EC write is ignored by most callers; one  *)
(* that is `strict` gives up the rest of its work.                         *)
(***************************************************************************)
Power(m, who)      == [do |-> "power", mode |-> m, who |-> who]
FanCurve(c, who)   == [do |-> "curves", curves |-> c, who |-> who]
Prefer(s)          == [do |-> "prefer", source |-> s]
Save(change, strict) == [do |-> "save", change |-> change, strict |-> strict]
Flush(text)        == [do |-> "flush", text |-> text]
Task(on, undo)     == [do |-> "task", on |-> on, undo |-> undo]
Step(s)            == [do |-> s]

\* Variant: the power mode is left to the register.
RestoreStepsFansOnly(c) ==
    IF c.fan = "missing" THEN <<>> ELSE <<FanCurve(c.fan, "restore")>>

\* restore_saved_state: a copy of the power mode and the fans is taken first.
RestoreSteps(c) ==
    (IF c.power = "none" THEN <<>> ELSE <<Power(c.power, "restore")>>) \o
    (IF c.fan = "missing" THEN <<>> ELSE <<FanCurve(c.fan, "restore")>>)

\* import_config, once the file is accepted.  refresh_metrics then locks the
\* UiState its caller has locked: the main thread is stuck.
ImportSteps(p) ==
    <<Save(p, TRUE), Prefer(p.source), Task(p.start, FALSE),
      Step("restore"), Step("stuck")>>

StartSteps == <<Step("preferSaved"), Step("restore"), Step("sync"), Step("ready")>>

-----------------------------------------------------------------------------
Init ==
    /\ file \in HandMade \cup {Absent}
    /\ cfg = [p \in Procs |-> DefaultConfig]
    /\ lock = [p \in Procs |-> Free]
    /\ apu \in Modes
    /\ curves = "stock" /\ preferred = "gpu"
    /\ task \in {"none", "ours", "foreign"}
    /\ phase = "down"
    /\ todo = [t \in Threads |-> <<>>]
    /\ ops = 0 /\ faults = 0 /\ crashes = 0 /\ launches = 0 /\ runs = 0

Idle(t)    == todo[t] = <<>>
At(t, s)   == ~Idle(t) /\ Head(todo[t]).do = s
Now(t)     == Head(todo[t])
Rest(t)    == Tail(todo[t])
Goes(t, s) == todo' = [todo EXCEPT ![t] = s]

Fails(kind) ==
    /\ kind \in Faulty /\ faults < MaxFaults
    /\ faults' = faults + 1
    /\ UNCHANGED <<ops, crashes, launches, runs>>

WindowIdle == \A t \in {"main", "worker", "tray"} : Idle(t)

(***************************************************************************)
(* ServerConfig::load.  Without a file the default one is written first;   *)
(* a file that does not parse ends the program.                            *)
(***************************************************************************)
Load(p, t, steps) ==
    \/ /\ file \in Config
       /\ cfg' = [cfg EXCEPT ![p] = Sanitised(file)]
       /\ Goes(t, steps)
       /\ UNCHANGED <<file, lock>>
    \/ /\ file = Absent
       /\ cfg' = [cfg EXCEPT ![p] = DefaultConfig]
       /\ file' = Torn
       /\ lock' = [lock EXCEPT ![p] = t]
       /\ Goes(t, <<Flush(DefaultConfig)>> \o steps)

\* AppSession::start; the new controller has stock curves.
Launch ==
    /\ phase = "down" /\ launches < MaxLaunches
    /\ CliOverlap \/ Idle("cli")
    /\ launches' = launches + 1
    /\ \/ /\ Load("window", "main", StartSteps)
          /\ phase' = "starting"
          /\ curves' = "stock" /\ preferred' = "gpu"
       \/ /\ file = Torn
          /\ UNCHANGED <<file, memory, curves, preferred, phase, todo>>
    /\ UNCHANGED <<apu, task, ops, faults, crashes, runs>>

\* evox2ctl mode <mode>
CliMode(m) ==
    /\ Idle("cli") /\ runs < MaxCli
    /\ CliOverlap \/ phase = "down"
    /\ runs' = runs + 1
    /\ Load("cli", "cli", <<Power(m, "user")>>)
    /\ UNCHANGED <<hardware, phase, ops, faults, crashes, launches>>

(***************************************************************************)
(* What the user does in the running window.                               *)
(***************************************************************************)
Begin(t, steps) ==
    /\ phase = "running" /\ Idle(t) /\ ops < MaxOps
    /\ ops' = ops + 1
    /\ Goes(t, steps)
    /\ UNCHANGED <<file, memory, hardware, phase, faults, crashes, launches, runs>>

SettingPower(t) ==
    \E i \in DOMAIN todo[t] :
        \/ todo[t][i].do \in {"power", "restore"}
        \/ todo[t][i].do = "save" /\ "power" \in DOMAIN todo[t][i].change

MaySetPower == PowerOverlap \/ \A t \in Threads \ {"cli"} : ~SettingPower(t)

SettingCurves(t) ==
    \E i \in DOMAIN todo[t] :
        \/ todo[t][i].do \in {"curves", "restore"}
        \/ /\ todo[t][i].do = "save" /\ "fan" \in DOMAIN todo[t][i].change
           /\ todo[t][i].change.fan # "keep"

MaySetCurves == CurveOverlap \/ \A t \in Threads \ {"cli"} : ~SettingCurves(t)

\* apply_power_mode of the tray, apply_power of the window
ChoosePower(t, m) == MaySetPower /\ Begin(t, <<Power(m, "user")>>)

EditCurves == MaySetCurves /\ Begin("worker", <<FanCurve("own", "user")>>)

\* Any edit that leaves the curves alone: a name, a mode, a level.
EditOther == Begin("worker", <<Save([fan |-> "keep"], FALSE)>>)

\* persist_settings: when the check box changed the task follows it.
PersistSettings(on) ==
    Begin("main", <<Save([start |-> on], TRUE)>> \o
                  (IF cfg["window"].start # on THEN <<Task(on, TRUE)>> ELSE <<>>))

PersistSource(s) == Begin("main", <<Save([source |-> s], TRUE), Prefer(s)>>)

\* import_config: a file that validate refuses is left alone.
ImportConfig(p) ==
    /\ Valid(p) /\ MaySetPower /\ MaySetCurves
    /\ Begin("main", ImportSteps(p))

\* Quit in the tray or the window; the process ends between two steps of
\* whatever else it was doing, and Crash ends it in the middle of a save.
WindowGone ==
    /\ phase' = "down"
    /\ todo' = [t \in Threads |-> IF t = "cli" THEN todo[t] ELSE <<>>]
    /\ lock' = [lock EXCEPT !["window"] = Free]
    /\ UNCHANGED <<file, cfg, hardware, ops, faults, launches, runs>>

Quit == phase = "running" /\ WindowIdle /\ WindowGone /\ UNCHANGED crashes

Crash ==
    /\ phase # "down" /\ crashes < MaxCrashes
    /\ crashes' = crashes + 1
    /\ WindowGone

-----------------------------------------------------------------------------
(***************************************************************************)
(* The steps' effects.                                                     *)
(***************************************************************************)
\* set_power_mode: the register first, then memory and file.  The controller
\* refuses a mode it does not know.
WritePower(t) ==
    /\ At(t, "power")
    /\ \/ /\ Now(t).mode \in Modes
          /\ apu' = Now(t).mode
          /\ Goes(t, <<Save([power |-> Now(t).mode], FALSE)>> \o Rest(t))
          /\ UNCHANGED counters
       \/ /\ Now(t).mode \notin Modes
          /\ Goes(t, Rest(t)) /\ UNCHANGED <<apu, counters>>
       \/ Fails(Now(t).who) /\ Goes(t, Rest(t)) /\ UNCHANGED apu
    /\ UNCHANGED <<file, memory, curves, preferred, task, phase>>

\* SetFanRampupCurve: a point over 100 is refused.
InstallCurves(t) ==
    /\ At(t, "curves")
    /\ \/ /\ Now(t).curves # "over100"
          /\ curves' = Now(t).curves
          /\ Goes(t, <<Save([fan |-> Now(t).curves], FALSE)>> \o Rest(t))
       \/ Now(t).curves = "over100" /\ Goes(t, Rest(t)) /\ UNCHANGED curves
    /\ UNCHANGED <<file, memory, apu, preferred, task, phase, counters>>

InstallSource(t) ==
    /\ \/ At(t, "prefer") /\ preferred' = Now(t).source
       \/ At(t, "preferSaved") /\ preferred' = cfg["window"].source
    /\ Goes(t, Rest(t))
    /\ UNCHANGED <<file, memory, apu, curves, task, phase, counters>>

\* Variant: the text is made under the lock and written after it.
OpenFileUnlocked(t) ==
    /\ At(t, "save") /\ lock[ProcessOf(t)] = Free
    /\ LET p == ProcessOf(t)
           c == Updated(cfg[p], Now(t).change)
       IN  /\ cfg' = [cfg EXCEPT ![p] = c]
           /\ file' = Torn
           /\ Goes(t, <<Flush(c)>> \o Rest(t))
           /\ UNCHANGED <<lock, counters>>
    /\ UNCHANGED <<hardware, phase>>

\* ServerConfig::save, first half: memory is changed with `config` locked and
\* fs::write opens the file, which empties it.  Or it cannot be opened.
OpenFile(t) ==
    /\ At(t, "save") /\ lock[ProcessOf(t)] = Free
    /\ LET p == ProcessOf(t)
           c == Updated(cfg[p], Now(t).change)
       IN  /\ cfg' = [cfg EXCEPT ![p] = c]
           /\ \/ /\ file' = Torn
                 /\ lock' = [lock EXCEPT ![p] = t]
                 /\ Goes(t, <<Flush(c)>> \o Rest(t))
                 /\ UNCHANGED counters
              \/ /\ Fails("save")
                 /\ Goes(t, IF Now(t).strict THEN <<>> ELSE Rest(t))
                 /\ UNCHANGED <<file, lock>>
    /\ UNCHANGED <<hardware, phase>>

\* Second half.  If the other process wrote since the file was emptied, the
\* longer text's tail stays behind the shorter one.
WriteFile(t) ==
    /\ At(t, "flush")
    /\ \/ file' = Now(t).text
       \/ file \in Config /\ file # Now(t).text /\ file' = Torn
    /\ lock' = [lock EXCEPT ![ProcessOf(t)] = Free]
    /\ Goes(t, Rest(t))
    /\ UNCHANGED <<cfg, hardware, phase, counters>>

Restore(t) ==
    /\ At(t, "restore") /\ lock["window"] = Free
    /\ Goes(t, RestoreSteps(cfg["window"]) \o Rest(t))
    /\ UNCHANGED <<file, memory, hardware, phase, counters>>

\* Variant: the check box keeps what the user chose.
AfterTaskErrorKept(t) == <<>>

\* persist_settings takes the choice back; import_config returns.
AfterTaskError(t) ==
    IF Now(t).undo THEN <<Save([start |-> ~Now(t).on], FALSE)>> ELSE <<>>

\* schtasks /Create and /Delete, for this program
Registered(on) == IF on THEN "ours" ELSE "none"

\* A task for another program's file is removed.
Reconciled == IF task = "ours" THEN "ours" ELSE "none"

\* schtasks has obeyed, what follows fails: after /Create the query whether the
\* task is there, after /Delete the removal of the old Run entries.
LateFailure == Fails("late")

\* set_start_with_windows
SetTask(t) ==
    /\ At(t, "task")
    /\ \/ /\ Now(t).on => Installed
          /\ task' = Registered(Now(t).on)
          /\ Goes(t, Rest(t)) /\ UNCHANGED counters
       \/ /\ Now(t).on /\ ~Installed
          /\ Goes(t, AfterTaskError(t)) /\ UNCHANGED <<task, counters>>
       \/ /\ Now(t).on \/ task # "none"
          /\ Fails(IF Now(t).undo THEN "toggle" ELSE "import")
          /\ Goes(t, AfterTaskError(t)) /\ UNCHANGED task
       \/ /\ Now(t).on => Installed
          /\ LateFailure
          /\ task' = Registered(Now(t).on)
          /\ Goes(t, AfterTaskError(t))
    /\ UNCHANGED <<file, memory, apu, curves, preferred, phase>>

\* sync_start_with_windows: the setting follows the task.
SyncTask(t) ==
    /\ At(t, "sync")
    /\ task' = Reconciled
    /\ LET actual == task = "ours"
       IN  Goes(t, IF cfg["window"].start = actual THEN Rest(t)
                   ELSE <<Save([start |-> actual], FALSE)>> \o Rest(t))
    /\ UNCHANGED <<file, memory, apu, curves, preferred, phase, counters>>

Ready ==
    /\ At("main", "ready")
    /\ phase' = "running"
    /\ Goes("main", Rest("main"))
    /\ UNCHANGED <<file, memory, hardware, counters>>

Advance(t) ==
    \/ WritePower(t) \/ InstallCurves(t) \/ InstallSource(t) \/ OpenFile(t)
    \/ WriteFile(t) \/ Restore(t) \/ SetTask(t) \/ SyncTask(t)

Next ==
    \/ Launch \/ Quit \/ Crash \/ Ready
    \/ \E m \in Modes : CliMode(m) \/ \E t \in {"worker", "tray"} : ChoosePower(t, m)
    \/ EditCurves \/ EditOther
    \/ \E on \in BOOLEAN : PersistSettings(on)
    \/ \E s \in Sources : PersistSource(s)
    \/ \E p \in Imports : ImportConfig(p)
    \/ \E t \in Threads : Advance(t)

Spec == Init /\ [][Next]_vars

-----------------------------------------------------------------------------
Steps ==
    [do : {"power"}, mode : Modes, who : {"user", "restore"}] \cup
    [do : {"curves"}, curves : Curves, who : {"user", "restore"}] \cup
    [do : {"prefer"}, source : Sources] \cup
    [do : {"save"}, strict : BOOLEAN,
     change : Config \cup [power : Modes] \cup [fan : Curves \cup {"keep"}] \cup
              [start : BOOLEAN] \cup [source : Sources]] \cup
    [do : {"flush"}, text : Config] \cup
    [do : {"task"}, on : BOOLEAN, undo : BOOLEAN] \cup
    [do : {"preferSaved", "restore", "stuck", "sync", "ready"}]

\* Types; a power mode or a fan the configuration does not know never gets
\* into memory, and a curve over 100 never into the controller.
TypeOK ==
    /\ file \in Config \cup {Absent, Torn}
    /\ cfg \in [Procs -> Config]
    /\ lock \in [Procs -> Threads \cup {Free}]
    /\ apu \in Modes /\ curves \in Curves \ {"over100"} /\ preferred \in Sources
    /\ task \in {"none", "ours", "foreign"}
    /\ phase \in {"down", "starting", "running"}
    /\ todo \in [Threads -> Seq(Steps)]
    /\ ops \in Nat /\ faults \in Nat /\ crashes \in Nat /\ launches \in Nat /\ runs \in Nat

AtRest ==
    /\ phase = "running"
    /\ \A t \in Threads : Idle(t) \/ At(t, "stuck")

\* Whatever threads of the window save at once, no save is lost or mixed with
\* another: read again, the file gives what the window has in memory.
SavedIsMemory == AtRest => file \in Config /\ Sanitised(file) = cfg["window"]

\* What the window shows as its settings is in force, after any mix of starts,
\* crashes, commands, edits and imports: the power mode register, the curves
\* and the sensor of the controller are those of the configuration.
SettingsInForce ==
    AtRest =>
        /\ cfg["window"].power \in {"none", apu}
        /\ cfg["window"].fan \in {"missing", curves}
        /\ cfg["window"].source = preferred

\* The check box tells the truth about the logon task, also when registering
\* it failed, or the program died between the save and the registration.
AutostartAgrees == AtRest => cfg["window"].start = (task = "ours")

\* Unknown languages the configurations found at the first start name.
UnknownFound == {c.lang : c \in HandMade} \ Languages

\* What the program exports it would import: whatever mode or fan it found on
\* disk, imported or was told to set since, nothing that validate refuses is in
\* memory - except for a language, which sanitize_loaded_config lets through:
\* an unknown one that was in the file found is exported and refused.
ExportAccepted ==
    phase = "running" =>
        \/ Valid(Portable(cfg["window"]))
        \/ /\ cfg["window"].lang \in UnknownFound
           /\ Valid([Portable(cfg["window"]) EXCEPT !.lang = "en"])

\* config.json stays readable: when nobody is writing and no write was cut
\* off, the next start can parse it.
FileReadable == (file = Torn /\ crashes = 0) => \E t \in Threads : At(t, "flush")
=============================================================================
