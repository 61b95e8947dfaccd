# TLA+ models of ec-su_axb35-win

`ec-su_axb35-win` controls the fans and the power mode of Sixunited AXB35
boards (GMKtec EVO-X2) through the board's embedded controller (EC): a window
with a tray icon (`evox2-control`) and a command line tool (`evox2ctl`), both
in `src/server`. This directory holds TLA+ modules of its concurrent core, the
TLC configurations that check them and proofs checked by TLAPS. Paths below
are relative to `src/server/src` unless they say otherwise.

## 1. The system

| Component | State | Operations | Interacts with |
|---|---|---|---|
| EC port protocol (`ec.rs` 562-664, `ec_io.rs`) | none of its own; the EC's input and output buffers | `read_byte`, `write_byte` with polling and retries | EC firmware; other processes through `Global\Access_EC` |
| EC controller (`ec.rs`) | `fan_curves` (mode and ramps), `temp_window`, `smoothing_window`, `transaction` | `execute_operation`, `update_curve_fans`, `release_curve_fans_to_auto` | called by every thread of both processes |
| Curve arithmetic (`curve.rs`) | none | next level, averaging, ramp derivation and clamping | controller, window |
| Session (`session.rs`) | `config`, `stop`, `released`, `monitor`, `reload_fans` | edits, restore, adoption, shutdown, metrics | owns the monitor thread |
| Configuration (`config.rs`) | `config.json` | load, save, import, export, sanitise | written by both processes |
| Window (`gui.rs`) | `UiState` (snapshot, edit buffers, charts) | frames, worker threads, import and export | main thread, metrics thread, one worker per edit |
| Tray (`tray.rs`) | `TRAY`, `NOTIFY`, `GUI_CTX`, `FORCE_QUIT` | menu, power mode, quit, console control handler | its own thread |
| Command line (`cli.rs`, `fan.rs`) | none | status, mode, fan, exit codes | its own process; the reload event |
| Platform (`platform.rs`) | instance mutex, reload event, `Access_EC`, scheduled task | guards, autostart | both processes |
| Temperature (`thermal.rs`), alert (`alert.rs`) | preferred source; time of the last alert | choice of a sensor; threshold and cooldown | controller, window |
| Logger (`logger.rs`) | the log file | append, rotate | everyone |

The remaining files (drivers, hardening, identification, diagnostics,
translations, build, installer) are listed in `PROJECT.json` with the reason
each is not modelled.

What is hard here: up to seven threads of two processes share three fans'
registers, a configuration in memory per process and one file, and none of
these changes together with another. A fan's state lives in four places (the
mode and level registers, `fan_curves`, `config`, `config.json`), and every
property that matters relates two of them: at rest they agree; after a quit no
fan is left at a software level that nobody adjusts; what the user set last is
in force. `PROJECT.json` lists the hazards line by line.

## 2. Modules

| Module | Models | Checked by |
|---|---|---|
| `FanCurve` | `curve.rs` and the initial level of `ec.rs` as operators | through `CurveMonitor` |
| `CurveMonitor` | the closed loop of curve mode: monitor tick, curve edits, smoothing | `MCCurveMonitor`, 1 run; `CurveMonitor_proofs` |
| `FanControl` | who writes the fans and when: both processes, all threads, faults, quit, relaunch | 2 passing runs, 1 violation; `FanControl_proofs` |
| `EcRegisters` | the promise of `read_byte` and `write_byte`: atomic registers | as a property |
| `EcTransaction` | the ACPI EC protocol, shown to implement `EcRegisters` | `MCEcTransaction`, 2 runs; `EcTransaction_proofs` |
| `WindowLocks` | every mutex of the window process and the order they are taken in | 1 passing run, 1 violation; `WindowLocks_proofs` |
| `Settings` | `config.json` against what it stands for: power mode, curves, sensor, logon task | `MCSettings`, 1 run; `Settings_proofs` |
| `FanCard` | a fan's card: edit buffers, dragging, snapshots that arrive out of order | `MCFanCard`, 1 run; `FanCard_proofs` |
| `Temperature` | from the raw readings to the control temperature, the window and the alert | `MCTemperature`, 1 run; `Temperature_proofs` |
| `Gates` | what start-up checks, in its order, and the exit code of each refusal | through `Lifecycle` |
| `Lifecycle` | launches, commands, tray, hiding, showing, quitting, signing out, Explorer | `MCLifecycle`, 1 run; `Lifecycle_proofs` |

The modules ending in `_proofs` hold theorems about the module they extend
(section 3).

The modules form a stack. `EcTransaction` justifies that a register access is
one step of `FanControl` and `Settings`; `WindowLocks` justifies that a critical
section is; `CurveMonitor` contains the decision that `FanControl` abstracts to
"a tick moves a curve fan by at most one level"; `Temperature` produces what
`CurveMonitor` reads. `Lifecycle` has every process from start to end and
reduces the fans to "taken over" and "given back"; `FanControl` has that part in
full and starts where `Lifecycle` has a session.

A definition whose comment begins with "Variant" is a plausible mistake in the
definition that follows it. It is used nowhere; put in the other's place it
breaks a property, and `PROJECT.json` says which.

### FanCurve

Ramps are functions on `1..NLevels`: entry `i` is element `i - 1` of the
source's array. `DeriveRampdown` is a recursive function, not a RECURSIVE
operator, so that theorems may be stated about it.

### CurveMonitor

One `Monitor` tick is three steps: `TickSample` reads the sensor and the window
size, `TickPush` pushes and averages, `TickServe` visits the fans in order and
moves the first one whose level differs. The first curves are the built-in ones
of `FanCurveData::default`, both ramps written by hand; edits derive the down
ramp from the up ramp. `TickIdle` is the tick that drops the samples when the
last curve fan has gone. Curve edits are the three critical sections of
`apply_fan_edit` (`CommitCurve`, `StoreRampup`, `StoreRampdown`); `SetSmoothing`
and `TrimWindow` are the two locks of `set_smoothing_window`.

The run `CurveMonitor` checks `TypeOK` (the window is bounded),
`EditedCurvesSound`, `NoSamplesKeptWhileIdle` and, under fairness, `Settles`
(no starvation though one fan moves per tick, no oscillation) and
`WindowShrinks`.

Bounds: two fans (one can starve the other), two levels (both directions and a
middle level), temperatures 0..4 with three readings (below, between and above
the ramps), a smoothing window of at most 2, three user actions or temperature
changes. `Settles` holds for curves made in the window, whose ramps cannot
cross; curves typed on the command line may cross and are not in this model.

Fairness: the monitor loops every 250 ms until the process stops; an edit runs
on its own thread to its end.

### FanControl

State: `regMode`, `regLevel` (the EC), `mode` (`fan_curves[..].mode` of the
window process), `cfg` (its `config`), `file` (`config.json`), `reload` (the
auto-reset event), `job` (what each thread is in the middle of), `mon` (the
monitor's position), and the state of shutdown.

A fan operation is a `job` that advances through positions: `mem` (the mode in
memory, `ec.rs` 289), `mode` (the register, 292), `init` (the initial level,
294-309), `level`, and the saves of `update_fan_config`. `Following` gives the
order and `Failing` where each caller goes on after an error: an edit gives up,
an adoption goes to the next fan, a restore to its next call. The same
positions serve the window's worker threads, `restore_saved_state`, both
adopters and the command line, because the code uses the same functions.

`MonTop` to `MonWrite` is the monitor loop; `MonScan` reads levels with
`fan_curves` locked (`CurvesHeld`), `MonWrite` writes after the lock is
dropped. `Quit` to `Exit` is `AppSession::shutdown` by any of the threads that
call it. `Launch`, `Restore`, `SpawnMonitor` are the start, with the previous
run's registers and file as they were left. `CliStart` to `CliSignal` is the
`fan` command in its own process with its own copy of the configuration.

Constants choose the question: which threads quit, which modes the command
line asks for, which kinds of work may fail and how often, `OverlapQuit`
(whether a quit may overlap other work) and `OverlapCli` (whether a command may
overlap an edit).

| Run | Shows |
|---|---|
| `FanControl_serial` | one quitter, an edit, a curve command, two launches, nothing overlapping a quit, no faults, two fans: `TypeOK`, `InSync`, `QuitLeavesAuto`, `FixedLeftAlone`, and the reload event becomes an adoption (`CliCurveAdopted`) |
| `FanControl_shutdown` | two quitters over everything at once, with a fault of any kind: `MonitorStoppedFirst`, `QuitTerminates` |

`InSync`, `QuitLeavesAuto` and `FixedLeftAlone` hold under the restrictions of
`FanControl_serial` and not beyond them: section 4 says which restriction hides
what.

Bounds: two fans where the property relates fans (a release that writes one
after the other, an adoption of two), one in `FanControl_shutdown`; levels 0 and
1, because only "the level that was set" and "another one" are told apart; one
edit and one command, one fault. Two launches let the second start find what
the first left.

Fairness (`FairSpec`): the monitor, the main thread and a thread in shutdown
keep running. The main thread's wait for `fan_curves` is strongly fair: the
monitor takes that mutex every tick but sleeps with it unlocked in between, so a
waiter gets it in the end; with weak fairness alone the adoption of a second fan
could wait for ever while the monitor serves the first. Nothing is assumed of
the user, the workers or the command line.

### EcRegisters, EcTransaction

`EcTransaction` has the EC's input buffer, output buffer and command state, the
in-process mutex, `Access_EC`, and a position per client. A poll that waits for
a status bit is a guard; `PollTimeout` may fire whenever the bit is not there
yet, so every length of EC delay is covered. `PortFault` is a port access the
driver refuses. `Die` ends a process anywhere; the next waiter gets the
abandoned mutex, as `AccessEcGuard::acquire` does. The EC is external: its
states are those of the test double in `ec_io.rs`, its timing is free.

- `EcTransaction_atomic`: `TypeOK` and `AtomicRegisters`, refinement of
  `EcRegisters`. The refinement mapping `Effective` counts a value as written
  when it enters the input buffer: the EC takes it before it takes any other
  byte, even if the writer has returned or died.
- `EcTransaction_progress`: `HolderFinishes`, with an EC that may stop for good
  and answers that may be late; fairness is that a client inside a call keeps
  running.

Bounds: one client per process (two in the progress run), two registers and two
values (enough to see a wrong register or value), two attempts instead of five
(a retry after a retry repeats the same states), one fault, one death.

### WindowLocks

Each operation is reduced to the mutexes it takes, in order: `Holding(m, S)`
runs `S` with `m` locked, `Touch(m)` locks it for a stretch that waits for
nothing. For a mutex that nobody keeps locked while going on, that is no step at
all: it is free whenever somebody asks. `Kept` names the others, and TLC
compares it with the scripts (`KeptAssumption`). A thread picks an operation,
then a script of it, and steps through it. Branches of the code become
alternative scripts. Besides mutexes a thread may wait for the join of the
monitor and, in the tray's `ShowWindow`, for the window's thread to take
messages (`AwaitWindow`), which it does between two operations. Threads: the
main thread, the monitor, the tray and slots for spawned threads (the metrics
thread does what `RefreshMetrics` spawns). The console control handler, which
calls `shutdown` like the tray, is left out here and covered in `FanControl`.

- `WindowLocks`: `NoCircularWait` over mutexes, the join of shutdown and the
  tray's wait for the window's thread, by two or more threads, and
  `TrayQuitEnds`, both with imports that hang the window. A tray that is
  already waiting for a hung window serves no click any more; `TrayQuitEnds` is
  about an Exit it has begun to serve.
  The fairness is strong on each thread: `std::sync::Mutex` promises no order,
  but every other holder releases within a stretch of code and then sleeps,
  draws or waits for a message, so a waiter is not passed over for good.
- `WindowLocks_import` (violation): `NoSelfWait`, an import that succeeds. For
  everything else it is proved (section 3), and holds in TLC with
  `Imports = FALSE`.

Bounds: one slot for spawned threads: such a thread never holds two mutexes but
`config` and `logger`, which the main thread does as well; and the theorems of
`WindowLocks_proofs` hold for any number of slots.

### Settings

State: `file` (`config.json`: absent, torn, or a configuration), `cfg` and
`lock` (each process's `config` mutex and what it guards), `apu` (the power mode
register), `curves` and `preferred` (the window's controller), `task` (the logon
task), `phase` of the window and `todo`, the steps each thread still has to
take. A step is the code between two points where another thread or process can
get in: an EC write (`WritePower`, `InstallCurves`), `OpenFile` (memory changed
under the lock, the file opened and thereby emptied), `WriteFile`, `SetTask`,
`SyncTask`. `Launch`, `CliMode`, `ChoosePower`, `EditCurves`, `EditOther`,
`PersistSettings`, `PersistSource` and `ImportConfig` say what steps an
operation of `session.rs`, `gui.rs`, `tray.rs` or `cli.rs` consists of, early
returns included; `Quit` and `Crash` end the process, the latter in the middle
of a save too.

The configuration is five fields of different fate: the power mode (a register;
sanitised when loaded), the curves of fan 3 (refused by the controller when over
100; possibly absent), start with Windows (a logon task), the language
(validated by an import, not sanitised by a load) and the sensor (a copy in the
controller). Curves are told apart by where they come from.

The run `Settings_window` checks `TypeOK`; `SavedIsMemory`, that no save of
three threads is lost; `SettingsInForce`, that what the window has in memory is
what the hardware does; `AutostartAgrees`, the check box against the task;
`ExportAccepted`, that the program would import its own export, whatever it
found on disk, but for a language that the file found named and the program does
not know; and `FileReadable`.

Three constants say who may overlap: `CliOverlap` a command with the window,
`PowerOverlap` two threads that set the power mode, `CurveOverlap` two that set
the curves. All are FALSE in the run. A setting is written to the hardware and
to memory in two steps, and two of the code's routes take them in opposite
orders, so two overlapping threads can leave them different (section 4).

Bounds: two launches (the second finds what the first or its crash left), three
operations, one command between two launches, one crash, one failing access of
kind "user" (a register) or "toggle" (the logon task); three files to find, one
of which names an unknown language, and two to import. Section 4 says what the
restrictions hide. No liveness: a user's operation that never comes to its end
is the hanging import of `WindowLocks`.

### FanCard

State: the fan itself, the last stored snapshot, the buffers of the card
(`level`, `curve`), the flags that keep them from following the snapshot
(`dragging`, `dirty`, `applying`), the user's pointer, whether the card is drawn,
what each thread has read so far, the edit under way, and `want`, what all the
user's actions add up to. `DrawFrame` is the start of `draw_fan`, in which
buffers follow the snapshot; `DragLevel`, `DragCurve`, `ReleaseLevel`,
`ReleaseCurve`, `ClickMode`, `RestoreDefault` are its widgets, `LoseGrip` a
pointer whose widget has gone, `Hide` and `Show` the window or the page.
`ReadMode`, `ReadCurve`, `StoreSnapshot` take a snapshot in pieces, `EditMode` to
`EditStore` are the edit's thread, `Outside` is a command or the monitor.

The run `FanCard` checks `TypeOK`; `DragHeld`, that no snapshot or finished edit
pulls a value from under the pointer; `EditsKept`, that no action of the user is
lost; and `CatchesUp`, that the card ends up showing the fan. `EditsKept` excuses
four things, each of which does cost an edit (section 4): an older snapshot
stored after a newer one, a failing access, somebody else's write, a widget that
vanishes while held.

Bounds: a curve of two points and two temperatures, two levels, two user
actions, one other thread that takes snapshots besides the edit's own. Each
excuse happens at most once.

Fairness: the metrics thread polls for ever, an edit runs to its end, a window
that is shown is drawn; the user lets go in the end and comes back to the page.

### Temperature

State: `hw`, what the drivers and the EC would answer (it changes at any time),
the chosen sensor and alert settings, the icon, the last snapshot, each poller's
snapshot in the making, and two clocks: `last` is the code's time of the last
alert, `quiet` the time since the user saw one. The conversions and the
choice of an adapter and a sensor are operators on raw readings, in their units
and with the driver's word size where a sum may wrap around. `ReadEc` and
`ReadDrivers` are the two moments of `thermal_reading`; the drivers are asked one
after the other, and in `ReadDrivers` the sensors may change meanwhile, so that
the GPU temperature is put together from several states of them
(`GpuReadings`). `Publish` is the store
under the UiState mutex, `Fire` is `maybe_temp_alert`.

The run `Temperature` checks `TypeOK`; `ControlFollowsReadme`, which says what
the control temperature is from the raw readings alone, without the
program's conversions; `AlertsSpaced`, ten minutes between alerts whatever is
switched meanwhile; and under fairness `HeatReported` (lasting heat is reported
again and again) and `ChoiceShown` (a chosen sensor reaches the window).

Bounds: seven states of the sensors, picked so that every way to find, miss or
refuse a reading occurs, at the boundaries of the ranges; words of 2^18 instead
of 2^32, large enough for 115.5 degrees in thousandths, because TLC's own
integers have 32 bits; a cooldown of two ticks; one threshold, out of range, as
a file may have it.

Fairness: time passes, the event loop runs, the metrics thread polls and does
not fail for ever.

### Gates, Lifecycle

`Gates` lists the checks of `AppSession::start` in their order, the words each
refusal contains and the exit code that `exit_code_from_error` finds by
searching for words.

State of `Lifecycle`: the main thread of each launch, the processes with a
handle to the instance mutex, the fans, the tray thread with the messages posted
to its window, icon and taskbar, the window (`visible` for Windows, `hidden` for
the program, the frame in progress, the last viewport command, the event, the
close request, `FORCE_QUIT`), the machine's condition and the command of
`evox2ctl` under way. `Launch` to `Exit` follow the main thread through
`run_gui`, `Logic` and `EndFrame` are a pass of `ControlApp::logic`, the
`Take...` actions the tray's window procedure, `SendShow`, `CommandShow`,
`ShowNative` the three steps of `show_main_window`, `TakeExit` to `TrayExit` its
quit; `SignOut`, `ExplorerGone`, `ExplorerBack` come from outside. `shutdown` is
two steps for each of its callers: `Release` and `TrayRelease` set `released`,
and the one that found it unset gives the fans back in `Write` or `TrayWrite`
(`GiveBack`, which may fail and does nothing on another board), while the other
goes on at once and may end the process. Every write to the fans goes through
`SetFanMode` or `GiveBack`, which ask about the board and record in `touched`
that a register was written: `Setup` restores, `Edit` is an edit of a fan or the
power mode, `Adopt` a reload. (`Work`, a command, asks before it picks one.)
`Command`, `Probe`, `OpenSession` and what follows are one command after the
other. Windows itself is external: a named mutex lives as long as its last
handle, a message waits for the thread of its window, Explorer broadcasts its
return.

The run `Lifecycle` checks `TypeOK`; `OneSession`, one process has the fans;
`NoFanLeftBehind`, they are given back when it ends by window, tray, failure or
sign-out, except if of window and tray, quitting at once, one ends the process
while the other is writing (`cutShort`; the run reaches it, and without the
excuse TLC finds that counterexample); `DrawnIfVisible`, the
window is neither blank nor lost; `IconWithProgram`; `ForeignBoardUntouched`, on
an unknown board neither the restore nor an edit, an adoption, a command, a
release or a sign-out writes a register, and no fan is in curve mode in memory;
`ExitCodeTells`; and under fairness
`LaunchAnswered`, every launch ends with the window on the screen or a message.

`SignOut` assumes that Windows calls `console_ctrl_handler` and waits for it, as
CHANGELOG.md 55 does ("signing out, or shutting down writes curve fans back to
EC"). The program is
built for the windows subsystem (`main.rs` 1), and Windows does not promise
logoff and shutdown events to the handler of such a process; `"handler"` in
`Faulty` drops the assumption.

Bounds: two launches (three were checked as well: 946 272 states), every single
condition of a machine and one pair, a window that may fail to open. `Races`
names what may overlap; the run has none of them, and section 4 what each does.
`OneSession`, `ForeignBoardUntouched`, `ExitCodeTells` and `TypeOK` were
also checked with all races and all failures but `"port"`, which
`ExitCodeTells` does not survive (11 753 056 states).

Fairness: the program's threads run, the message queue is served in order,
`ShowWindow` of another thread gets its turn between two frames. Nobody has to
do anything.

## 3. What is proved

Each module ending in `_proofs` extends the module it is about, so its theorems
hold for every value of the constants that satisfies the named assumptions of
that module: any number of fans, levels, threads, launches, faults. Every
invariant and every action property that a run checks is the conclusion of a
theorem here; the runs show it on an instance, and show with the constants
loosened why a theorem has the hypotheses it has (section 4).

The proofs have one shape. An invariant that is not inductive is strengthened
by named parts, one for each idea; every part has a lemma per group of actions
that says which parts it needs; the theorem combines them. Where the parts can
be evaluated they were checked with TLC first.

### FanControl_proofs

- `TypeCorrect`: `[]TypeOK`. It rests on what `Following` and `Failing` may
  return: the order of operations stays within its positions.
- `MonitorStopsFirst`: `[]MonitorStoppedFirst`. A caller of shutdown that finds
  the handle taken has joined nothing itself, so the invariant adds
  `HandleTaken` (with the handle gone while the process runs, a caller is
  between the take and the end of the join and holds the monitor mutex, or the
  monitor has ended) and `QuitNeedsRunning`.
- `CopiesAgreeAtRest`: `[]InSync`. A fan's four copies change one at a time, so
  they disagree in the middle of every operation. `SyncInv` says who may be in
  the middle of what (`Employed`, `Timely`, `TakeTurns`) and which copies
  already have the new value at each position of each kind of job (`Restoring`,
  `Adopted`, `Agreement`).
- `FixedFansKept`: `[]FixedLeftAlone`; adds `Leaving`, what a thread in shutdown
  has collected and what it has still to write.
- `CurveFansGivenBack`: `[]QuitLeavesAuto`; adds `GivingBack`, for one quitter.

Their hypotheses are the restrictions of `FanControl_serial`, and each is one
the code needs: `Reliable` (no failing access or save; the mode in memory is
ahead of a refused register), `OneByOne` (a command does not overlap an edit
and sets curves only; the window does not hear of a fixed level), `~OverlapQuit`
(shutdown does not wait for an edit's thread), `QuitsOnce` (of two quitters the
second ends the process early) and `[][Patient]_vars` (a command waits for the
last one to be adopted). `OneCommandIsPatient` proves that the last holds by
itself with at most one command, as in the run.

### EcTransaction_proofs

- `EcTypeCorrect`: `[]TypeOK`.
- `RegistersAreAtomic`: the protocol implements `EcRegisters`: under the mapping
  `Effective` every step is a step of the promise or a stutter. `EcInv` adds
  where the locks are (`InCall`, `Ownership`), that a byte in the buffer is one
  the EC's command expects even if its sender has died (`Bytes`), and for each
  position of a client how far the EC is (`Dialogue`: it has not taken the last
  byte yet, or is where that byte leads). The hypothesis `~LateAnswers` is what
  the code relies on without checking.

### WindowLocks_proofs

- `NobodyWaitsInACircle`: `[]NoCircularWait` for any number of spawned threads,
  imports included.
- `OnlyImportsLockThemselvesOut`: `[]NoSelfWait` unless imports are carried to
  their end; the run `WindowLocks_import` is what one of those does.

Mutexes have ranks: `ui` and `tray`, `monitor`, the join of the monitor thread,
`config`, `fan_curves`, and all that nobody keeps. A script is `Ordered` if
along it a thread asks only for what ranks above all it holds. That is a
statement about sequences of any length; it is carried by a set of what may be
left to do with what held, so that it follows from the parts of a script
without induction: `InTurn`, `Perhaps`, `Either`, `Touches`, `Holds` for the
five ways to build scripts, and one lemma per operation of the code
(`SaveConfigCalm` to `BodiesCalm`). `LockInv` says that every thread's rest of
a script is `Ordered` from what it holds. Somebody who is waited for and waits
then waits for a higher rank (`Uphill`), and there are six ranks.

### Settings_proofs

- `SettingsTypeCorrect`: `[]TypeOK`: no unknown power mode in memory and no
  curve over 100 in the controller.
- `FileStaysReadable`: without `CliOverlap`; the writer holds the mutex
  (`WriterHolds`) and the file is torn exactly while somebody writes
  (`TornWhileWritten`).
- `NoSaveIsLost`: `[]SavedIsMemory` without `CliOverlap` and failing saves;
  adds `Saved`, the memory is in the file or in the hands of a writer.
- `ExportIsAccepted`: `[]ExportAccepted`, without a hypothesis; adds `Spoken`,
  the languages that can be in memory and on disk.
- `AutostartIsTold`: `[]AutostartAgrees` if accesses other than a user's obey
  (`Obeyed`: no failing save or import, no clean-up that fails after the task is
  registered, an installed copy).
- `SettingsAreInForce`: `[]SettingsInForce` without the three overlaps, if
  `Obeyed`, what a start restores is not refused, and the files the user brings
  are sound (`FilesSound`: no fan without an entry, no curve over 100).

The last two have one invariant per setting. A step is loud for a setting if it
changes the setting in memory or in the hardware, and quiet otherwise. The
invariant says of the thread that sets it: all its work is quiet and the two
agree, or it `Awaits` a certain loud step, and what agrees until then
(`StartForm`, `SourceForm`, `PowerForm`, `FanForm`). `AdvanceFollows`,
`ComesTo` and `ComesLater` say what a step does to work of such a form. The
attempt to prove this for the curves without the hypothesis `~CurveOverlap`
failed for a reason: an edit and an import write controller and configuration in
opposite orders.

### FanCard_proofs

- `CardTypeCorrect`, and `NothingMovesUnderThePointer`: `[]DragHeld`, from
  `Held` (a held widget has its flag and shows where the pointer is).
- `NoEditIsLost`: `[]EditsKept`. `Fresh` says which snapshots are the fan,
  `Underway` what an edit under way blocks, and `Unexcused` what is so as long as
  none of the four accidents has happened: the window knows the fan, no widget
  keeps its flag, the buffer of an edited curve is what the user wants, and the
  fan has it or the edit does. The hypothesis is that the accidents may be
  named as excuses.

### Temperature_proofs

- `TemperatureTypeCorrect`; `ReadmeIsFollowed`: `[]ControlFollowsReadme` for any
  list of adapters and any readings of the drivers' word size, from lemmas on
  each conversion (ranges, rounding, no wrap-around while the word holds twice
  116 degrees in thousandths) and on the choice of the adapter.
- `AlertsAreSpaced`: `AlertsSpaced` relates the time the user saw an alert to
  the time the code remembers (`Timed`, `FiredSince`).

### CurveMonitor_proofs

- `MonitorTypeCorrect`: `[]TypeOK`, with the average of a window between its
  least and greatest sample.
- `PausesDropSamples`: `[]NoSamplesKeptWhileIdle`.
- `EditsKeepCurvesSound`: `[]EditedCurvesSound` if the built-in up ramp rises and
  the built-in down ramp is below it, as they do and are.
- `NoStepIsTakenBack`: a lemma of its own about `NextFanLevel` and
  `DeriveRampdown`: no oscillation at one temperature, for any number of
  levels. It is what `Settles` rests on.

What a recursive function computes for every input needs induction over data,
and the library's induction theorems cannot be instantiated here. The proofs go
through least elements instead: `LeastElement`, from the well-foundedness of the
naturals, and `Induction`, stated for sets of numbers.

### Lifecycle_proofs

- `LifecycleTypeCorrect`; `NeverTwoSessions`: `[]OneSession` from `OneOwner` (who
  is past the mutex has a handle and is alone), with all races and failures.
- `ForeignBoardNeverWritten`: `[]ForeignBoardUntouched`, with all races and
  failures. The step proof has a case for each route that writes. Restore, edit
  and adoption depend on `ensure_writes_allowed`, the restore on its own check
  as well; release and sign-out are safe twice, by the check of
  `release_curve_fans_to_auto` and because no fan is in curve mode.
- `ExitCodesTellWhy`: `[]ExitCodeTells` from `CommandKnown`, what every position
  of a command says about the machine. Without `"port"`: a refused access is
  reported as a missing driver.
- `FansGivenBack`: `[]NoFanLeftBehind` from `OneOwner`, `Together` (what the
  tray thread's position says about the process), `FansHeld` and
  `CommandsAccompanied`. Both callers of shutdown may overlap; what they can
  do to each other is the excuse in the property. Hypotheses (`Undisturbed`):
  Windows calls and awaits the handler, and there is no sign-out before the tray
  is set; a tray window; no write that gives a fan back fails and no access of a
  command is refused half-way; no command across a start or exit, no edit's
  thread across an exit. Section 4 has what happens without each.
- `IconComesAndGoes`: `[]IconWithProgram` from `IconKept`.
- `NeverBlankNorGone`: `[]DrawnIfVisible` from `ShowAndHide`, which follows a
  request to show through the tray's three steps and the frames between them.

### Only model-checked

All liveness: `QuitTerminates`, `CliCurveAdopted`, `Settles`, `WindowShrinks`,
`HolderFinishes`, `TrayQuitEnds`, `CatchesUp`, `HeatReported`, `ChoiceShown`,
`LaunchAnswered`. They rest on fairness, hence on ENABLED, which the prover does
not treat.

## 4. Where the code and its documentation disagree

Two are runs that TLC ends with a counterexample; `PROJECT.json` quotes the
sentences they contradict.

| Run | Behaviour |
|---|---|
| `FanControl_two_quitters` | tray and window quit at once; the second ends the process before the first has written |
| `WindowLocks_import` | a successful import locks the window out of itself |

The same modules show more when a constant of a passing run is loosened; each
line below was reproduced with TLC.

| Run | Loosened | Violated | Behaviour |
|---|---|---|---|
| `FanControl_serial` | the property `FixedLevelHeld` checked | itself | the monitor writes the level it decided on over a fixed level set meanwhile (`ec.rs` 473); README.md 62-65: settings "are written immediately" |
| | `CliModes = {"fixed"}` | `FixedLeftAlone` | the window does not hear of a fixed level set by the command line and resets it at quit (`cli.rs` 357); CHANGELOG.md 55-57: "Fixed and auto fans are left alone" |
| | `OverlapQuit = TRUE` | `QuitLeavesAuto` | an edit's thread, which shutdown does not wait for, enters curve mode after the release (`gui.rs` 1658); a command's check that the window runs is stale when it writes (`cli.rs` 327) |
| | `Faulty = {"release"}`, `MaxFaults = 1` | `QuitLeavesAuto` | one failed write abandons the fans after it (`ec.rs` 509) |
| | `Faulty = {"edit"}`, `MaxFaults = 1` | `InSync`, `QuitLeavesAuto`, `FixedLeftAlone` | the mode in memory is ahead of a register whose write failed (`ec.rs` 289) |
| | `MaxCliRuns = 2` | `InSync` | window and monitor adopt one reload each, the older one finishes last (`gui.rs` 592, `session.rs` 527) |
| `EcTransaction_atomic` | `LateAnswers = TRUE` | `AtomicRegisters` | an answer that comes after its reader gave up is returned to the next read (`ec.rs` 610) |
| `Settings_window` | `PowerOverlap = TRUE` | `SettingsInForce` | two callers write the register and the configuration in opposite orders (`session.rs` 285) |
| | `CurveOverlap = TRUE` | `SettingsInForce` | an edit's thread writes the controller and then the configuration, an import the configuration and then the controller (`session.rs` 407, 430; `gui.rs` 1558) |
| | `CliOverlap = TRUE` | `FileReadable`, `SettingsInForce` | two processes write the file at once, or one writes over the other's setting (`config.rs` 229) |
| | `Faulty = {"save", "user"}` | `AutostartAgrees`, `SettingsInForce` | a failed save returns with memory changed and the task and sensor not (`gui.rs` 1441) |
| | `Faulty = {"import", "user"}` | `AutostartAgrees` | an import whose task is refused keeps the check box and restores nothing (`gui.rs` 1553) |
| | `Faulty = {"late", "user"}` | `AutostartAgrees` | the task is deleted, the clean-up after it fails, the check box is put back (`platform.rs` 384); the task is registered, the query for it fails, the check box is taken back (378) |
| | `Faulty = {"restore", "user"}` | `SettingsInForce` | a register write that fails at start-up is not tried again |
| | `Installed = FALSE` | `AutostartAgrees` | an import on a copy outside Program Files keeps a check box without a task |
| | a file without a fan in `HandMade` | `SettingsInForce` | its first update fills it with fan 1's curves, which are not in force (`session.rs` 594) |
| | a curve over 100 in `HandMade` or `Imports` | `SettingsInForce` | accepted by `validate_fan`, refused by the controller (`config.rs` 328) |
| | the excuse of `ExportAccepted` removed | itself | a file found with an unknown language is not sanitised, and exported as what an import refuses (`config.rs` 343) |
| `FanCard` | an excuse other than "outside" removed | `EditsKept` | an older snapshot stored last (`gui.rs` 264), a held widget that vanishes, a failing access |
| `Lifecycle` | `Races = {"quit"}` | `LaunchAnswered` | a launch finds the mutex of a process on its way out and leaves (`platform.rs` 229) |
| | the excuse `cutShort` removed | `NoFanLeftBehind` | the tray's Exit makes the window leave too; the second to call shutdown ends the process before the first has written (`session.rs` 223) |
| | `Races = {"edit"}` | `NoFanLeftBehind` | an edit's thread enters curve mode after the release (`gui.rs` 1658) |
| | `Races = {"show"}` | `DrawnIfVisible` | the tray shows a window whose frame is hiding it: it stays blank (`tray.rs` 292) |
| | `Races = {"signout"}` | `NoFanLeftBehind` | signing out before `TRAY` is set gives nothing back (`tray.rs` 218) |
| | `Races = {"icon"}` | `IconWithProgram` | an icon added while the process ends stays behind (`tray.rs` 216) |
| | `Races = {"command"}` | `NoFanLeftBehind`, `LaunchAnswered` | the window goes between a command's check and its write (`cli.rs` 327); a command's probe holds the mutex a launch finds (`platform.rs` 257) |
| | `Faulty = {"tray"}` | `IconWithProgram`, `LaunchAnswered`, `NoFanLeftBehind` | without its window the tray thread ends, nobody shows the hidden window again, and `TRAY` is never set for a sign-out (`tray.rs` 207) |
| | `Faulty = {"release"}` | `NoFanLeftBehind` | a fan whose release fails stays at its last level, with a warning in the log (`session.rs` 231) |
| | `Faulty = {"handler"}` | `NoFanLeftBehind` | Windows ends the process at sign-out without the handler (`tray.rs` 98) |
| | `Faulty = {"port"}` | `ExitCodeTells`, `NoFanLeftBehind` | a refused port access exits as "PawnIO unavailable" (`pawnio.rs` 154); a command that fails before it signals (`cli.rs` 356) |

## 5. Not modelled

- Text: parsing of arguments, printing, translations, the diagnostics report,
  names in BIOS strings, the window's layout, charts and the fan name editor.
  Nothing that another part depends on but the outcomes, which are inputs of
  `Lifecycle` and `Settings`.
- The speed of a fan: two register reads, shown and forgotten. The pair may be
  torn for one second; nothing acts on it.
- Log rotation: one writer per file, no other reader.
- Driver I/O, process hardening, installer, packaging, build script.
- The console control handler's thread in `WindowLocks`; a curve whose ramps
  cross in `CurveMonitor`; the moment between loading the configuration and
  creating the reload event in `Lifecycle`.

## 6. Still planned

1. Step lemmas behind the liveness properties, as `NoStepIsTakenBack` is behind
   `Settles`: what keeps each of them from going back (`QuitTerminates`: the
   positions of shutdown only advance; `WindowShrinks`: a push never lengthens
   a window that is too long).
2. `FanControl`: what a single failure does cost, instead of `Reliable`: a
   refused register separates one fan's copies and no other's.
3. `EcTransaction`: what late answers can still not do: put a value into a
   register nobody wrote it to.
4. `Lifecycle` against `FanControl`: that "taken over" and "given back" in the
   one are what the other does step by step.
