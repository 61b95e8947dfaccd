--------------------------- MODULE Settings_proofs ---------------------------
(***************************************************************************)
(* Theorems about Settings, for any sets of modes, files and imports and   *)
(* any number of faults, crashes, starts and commands.                     *)
(***************************************************************************)
EXTENDS Settings, SequenceTheorems, TLAPS

\* The configurations a process can have in memory.
Known == [power : Modes \cup {"none"}, fan : Curves \cup {"missing"}, start : BOOLEAN,
          lang : Languages \cup Elsewhere, source : Sources]

\* What a save can change, and the steps that may come after another one: a
\* file is written by the step after the one that opens it.
Changes == {p \in Known : p.lang \in Languages}
           \cup [power : Modes] \cup [fan : Curves \cup {"keep"}]
           \cup [start : BOOLEAN] \cup [source : Sources]

Plain ==
    [do : {"power"}, mode : Modes, who : {"user", "restore"}] \cup
    [do : {"curves"}, curves : Curves, who : {"user", "restore"}] \cup
    [do : {"prefer"}, source : Sources] \cup
    [do : {"save"}, strict : BOOLEAN, change : Changes] \cup
    [do : {"task"}, on : BOOLEAN, undo : BOOLEAN] \cup
    [do : {"preferSaved", "restore", "stuck", "sync", "ready"}]

(***************************************************************************)
(* The inductive invariants, one for each idea.                            *)
(***************************************************************************)
\* Every thread's work is plain steps, after the end of a save at most.
Orderly(work) ==
    \/ work \in Seq(Plain)
    \/ \E text \in Known, rest \in Seq(Plain) : work = <<Flush(text)>> \o rest

\* The range of every variable.
HardwareTyped ==
    /\ apu \in Modes /\ curves \in Curves \ {"over100"} /\ preferred \in Sources
    /\ task \in {"none", "ours", "foreign"}
    /\ ops \in Nat /\ faults \in Nat /\ crashes \in Nat /\ launches \in Nat /\ runs \in Nat

Typed ==
    /\ HardwareTyped
    /\ file \in Config \cup {Absent, Torn}
    /\ cfg \in [Procs -> Known]
    /\ lock \in [Procs -> Threads \cup {Free}]
    /\ phase \in {"down", "starting", "running"}
    /\ todo = [t \in Threads |-> todo[t]] /\ \A t \in Threads : Orderly(todo[t])

\* A thread that is writing holds `config` of its process, and writes what
\* the process has in memory.
WriterHolds ==
    \A t \in Threads :
        At(t, "flush") => /\ lock[ProcessOf(t)] = t
                          /\ Now(t).text = cfg[ProcessOf(t)]

\* Without a window none of its threads has anything to do.
DownIsIdle == phase = "down" => WindowIdle

\* The command line and the window are not up at once.
Apart == phase # "down" => Idle("cli")

\* The file is being written exactly as long as it cannot be read.
TornWhileWritten ==
    /\ \A t \in Threads : At(t, "flush") => file = Torn
    /\ FileReadable

\* The window's memory is in the file, or about to be.
Saved ==
    phase # "down" =>
        \/ \E t \in Threads : ProcessOf(t) = "window" /\ At(t, "flush")
        \/ file \in Config /\ Sanitised(file) = cfg["window"]

\* The languages the program knows or has found.
Heard == Languages \cup {c.lang : c \in HandMade}

\* Only they are in memory, or in the file.
Spoken ==
    /\ \A p \in Procs : cfg[p].lang \in Heard
    /\ file \in Config => file.lang \in Heard
-----------------------------------------------------------------------------
(***************************************************************************)
(* Work: sequences of steps.                                               *)
(***************************************************************************)
\* A flush is no plain step.
LEMMA PlainIsNoFlush == \A s \in Plain : s.do # "flush"
BY DEF Plain

LEMMA FlushFields ==
    ASSUME NEW text
    PROVE  Flush(text).do = "flush" /\ Flush(text).text = text
BY DEF Flush

\* The first step of some work, and the rest of it.
LEMMA InFront ==
    ASSUME NEW x, NEW s \in Seq(Plain)
    PROVE  /\ <<x>> \o s # <<>>
           /\ Head(<<x>> \o s) = x
           /\ Tail(<<x>> \o s) = s
<1> DEFINE S == Plain \cup {x}
<1>1. s \in Seq(S) /\ <<x>> \in Seq(S) /\ <<x>> # <<>>
  OBVIOUS
<1> QED
  BY <1>1

\* A thread at a step other than the end of a save has plain work, whose rest
\* is plain.
LEMMA PlainWork ==
    ASSUME NEW w, Orderly(w), w # <<>>, Head(w).do # "flush"
    PROVE  w \in Seq(Plain) /\ Head(w) \in Plain /\ Tail(w) \in Seq(Plain)
<1>1. w \in Seq(Plain)
  <2>1. ASSUME NEW text \in Known, NEW rest \in Seq(Plain), w = <<Flush(text)>> \o rest
        PROVE  FALSE
    BY <2>1, InFront, FlushFields
  <2> QED
    BY <2>1 DEF Orderly
<1> QED
  BY <1>1

\* A thread at the end of a save has the text of a configuration, and plain
\* work after it.
LEMMA FlushWork ==
    ASSUME NEW w, Orderly(w), w # <<>>, Head(w).do = "flush"
    PROVE  Head(w).text \in Known /\ Tail(w) \in Seq(Plain)
<1>1. w \notin Seq(Plain)
  BY PlainIsNoFlush
<1>2. PICK text \in Known, rest \in Seq(Plain) : w = <<Flush(text)>> \o rest
  BY <1>1 DEF Orderly
<1> QED
  BY <1>2, InFront, FlushFields

\* Plain work is orderly, and stays plain with plain steps before it.
LEMMA Plainly ==
    ASSUME NEW s \in Seq(Plain)
    PROVE  /\ Orderly(s) /\ Orderly(<<>>)
           /\ \A text \in Known : Orderly(<<Flush(text)>> \o s)
           /\ \A x \in Plain : <<x>> \o s \in Seq(Plain)
           /\ s # <<>> => Head(s).do # "flush"
<1>1. s # <<>> => Head(s) \in Plain
  OBVIOUS
<1>2. <<>> \in Seq(Plain)
  OBVIOUS
<1>3. \A x \in Plain : <<x>> \o s \in Seq(Plain)
  OBVIOUS
<1> QED
  BY <1>1, <1>2, <1>3, PlainIsNoFlush DEF Orderly

-----------------------------------------------------------------------------
(***************************************************************************)
(* Configurations.                                                         *)
(***************************************************************************)
LEMMA DefaultIsKnown ==
    /\ DefaultConfig \in Known /\ DefaultConfig \in Config
    /\ DefaultConfig.lang \in Languages
    /\ Sanitised(DefaultConfig) = DefaultConfig
BY DEF DefaultConfig, Known, Config, Curves, Languages, Sources, Sanitised

\* What is read is known, and nothing of what is known is lost in reading it.
LEMMA ReadIsKnown ==
    /\ \A c \in Config : Sanitised(c) \in Known /\ Sanitised(c).lang = c.lang
    /\ \A c \in Known : c \in Config /\ Sanitised(c) = c
<1>1. ASSUME NEW c \in Config PROVE Sanitised(c) \in Known /\ Sanitised(c).lang = c.lang
  BY DEF Config, Known, Sanitised
<1>2. ASSUME NEW c \in Known PROVE c \in Config /\ Sanitised(c) = c
  BY DEF Config, Known, Sanitised
<1> QED
  BY <1>1, <1>2

\* A save leaves a known configuration.
LEMMA SavedIsKnown ==
    ASSUME NEW c \in Known, NEW change \in Changes
    PROVE  /\ Updated(c, change) \in Known
           /\ c.lang \in Heard => Updated(c, change).lang \in Heard
<1> DEFINE u == Updated(c, change)
<1>1. DOMAIN c = {"power", "fan", "start", "lang", "source"}
  BY DEF Known
<1>2. u = [f \in DOMAIN c |-> u[f]] /\ DOMAIN u = DOMAIN c
  BY DEF Updated
<1>3. ASSUME NEW f \in DOMAIN c, f \notin DOMAIN change PROVE u[f] = c[f]
  BY <1>3 DEF Updated
<1>4. ASSUME NEW f \in DOMAIN c, f \in DOMAIN change, f # "fan" PROVE u[f] = change[f]
  BY <1>4 DEF Updated
<1>5. ASSUME "fan" \in DOMAIN change
      PROVE  u["fan"] \in {change["fan"], c["fan"], "foreign"}
             /\ (change["fan"] = "keep" => u["fan"] \in {c["fan"], "foreign"})
  BY <1>1, <1>5 DEF Updated
<1> HIDE DEF u
<1>6. u["power"] \in Modes \cup {"none"} /\ u["start"] \in BOOLEAN /\ u["source"] \in Sources
      /\ u["lang"] \in Languages \cup Elsewhere
      /\ (c["lang"] \in Heard => u["lang"] \in Heard)
  BY <1>1, <1>3, <1>4 DEF Changes, Known, Heard
<1>7. u["fan"] \in Curves \cup {"missing"}
  BY <1>1, <1>3, <1>5 DEF Changes, Known, Curves
<1>8. u \in Known
  BY <1>1, <1>2, <1>6, <1>7 DEF Known
<1> QED
  BY <1>6, <1>8 DEF u
-----------------------------------------------------------------------------
(***************************************************************************)
(* The kinds of steps.                                                     *)
(***************************************************************************)
LEMMA StepFields ==
    ASSUME NEW x \in Plain
    PROVE  /\ x.do = "power" => x.mode \in Modes
           /\ x.do = "curves" => x.curves \in Curves
           /\ x.do = "prefer" => x.source \in Sources
           /\ x.do = "save" => x.change \in Changes
           /\ x.do = "task" => x.on \in BOOLEAN /\ x.undo \in BOOLEAN
BY DEF Plain

LEMMA PlainSteps ==
    /\ \A m \in Modes, who \in {"user", "restore"} : Power(m, who) \in Plain
    /\ \A c \in Curves, who \in {"user", "restore"} : FanCurve(c, who) \in Plain
    /\ \A s \in Sources : Prefer(s) \in Plain
    /\ \A change \in Changes, strict \in BOOLEAN : Save(change, strict) \in Plain
    /\ \A on \in BOOLEAN, undo \in BOOLEAN : Task(on, undo) \in Plain
    /\ \A do \in {"preferSaved", "restore", "stuck", "sync", "ready"} : Step(do) \in Plain
BY DEF Power, FanCurve, Prefer, Save, Task, Step, Plain

LEMMA ChangesMade ==
    /\ \A m \in Modes : [power |-> m] \in Changes
    /\ \A c \in Curves \cup {"keep"} : [fan |-> c] \in Changes
    /\ \A on \in BOOLEAN : [start |-> on] \in Changes
    /\ \A s \in Sources : [source |-> s] \in Changes
    /\ \A p \in Imports : Valid(p) => p \in Changes /\ p.start \in BOOLEAN /\ p.source \in Sources
<1>1. ASSUME NEW p \in Imports, Valid(p)
      PROVE  p \in Known /\ p.lang \in Languages /\ p.start \in BOOLEAN /\ p.source \in Sources
  BY <1>1, SettingsFilesAssumption DEF Valid, Known, Config
<1> QED
  BY <1>1 DEF Changes

\* The sequences of steps a thread is given are plain.
LEMMA PlainSequences ==
    /\ \A c \in Known : RestoreSteps(c) \in Seq(Plain)
    /\ \A p \in Imports : Valid(p) => ImportSteps(p) \in Seq(Plain)
    /\ StartSteps \in Seq(Plain)
    /\ \A x \in Plain : <<x>> \in Seq(Plain)
    /\ \A r, s \in Seq(Plain) : r \o s \in Seq(Plain)
    /\ <<>> \in Seq(Plain)
<1>0. /\ \A x \in Plain : <<x>> \in Seq(Plain)
      /\ \A r, s \in Seq(Plain) : r \o s \in Seq(Plain)
      /\ <<>> \in Seq(Plain)
  OBVIOUS
<1>1. ASSUME NEW c \in Known PROVE RestoreSteps(c) \in Seq(Plain)
  <2>1. c.power # "none" => Power(c.power, "restore") \in Plain
    BY PlainSteps DEF Known
  <2>2. c.fan # "missing" => FanCurve(c.fan, "restore") \in Plain
    BY PlainSteps DEF Known
  <2> QED
    BY <1>0, <2>1, <2>2 DEF RestoreSteps
<1>2. ASSUME NEW p \in Imports, Valid(p) PROVE ImportSteps(p) \in Seq(Plain)
  <2>1. /\ Save(p, TRUE) \in Plain /\ Prefer(p.source) \in Plain
        /\ Task(p.start, FALSE) \in Plain
        /\ Step("restore") \in Plain /\ Step("stuck") \in Plain
    BY <1>2, PlainSteps, ChangesMade
  <2>2. \A a, b, c, d, e \in Plain : <<a, b, c, d, e>> \in Seq(Plain)
    OBVIOUS
  <2> QED
    BY <2>1, <2>2, Zenon DEF ImportSteps
<1>3. StartSteps \in Seq(Plain)
  <2>1. /\ Step("preferSaved") \in Plain /\ Step("restore") \in Plain
        /\ Step("sync") \in Plain /\ Step("ready") \in Plain
    BY PlainSteps
  <2> QED
    BY <2>1 DEF StartSteps
<1> QED
  BY <1>0, <1>1, <1>2, <1>3

\* What is known of a thread's present step.
LEMMA PresentStep ==
    ASSUME Typed, NEW t \in Threads, NEW at, At(t, at)
    PROVE  /\ todo[t] # <<>> /\ Now(t).do = at
           /\ at # "flush" => Now(t) \in Plain /\ Rest(t) \in Seq(Plain) /\ ~At(t, "flush")
           /\ at = "flush" => Now(t).text \in Known /\ Rest(t) \in Seq(Plain)
<1>1. todo[t] # <<>> /\ Head(todo[t]).do = at /\ Orderly(todo[t])
  BY DEF At, Idle, Typed
<1>2. at # "flush" => Head(todo[t]) \in Plain /\ Tail(todo[t]) \in Seq(Plain)
  BY <1>1, PlainWork
<1>3. at = "flush" => Head(todo[t]).text \in Known /\ Tail(todo[t]) \in Seq(Plain)
  BY <1>1, FlushWork
<1> QED
  BY <1>1, <1>2, <1>3 DEF At, Idle, Now, Rest

\* Nothing of the kinds below.
Rests == UNCHANGED <<file, cfg, lock, phase, todo, crashes>>

\* A thread goes on, or begins, with plain work.
Works(t) ==
    /\ ~At(t, "flush")
    /\ todo[t] # <<>> \/ (t # "cli" /\ phase = "running")
    /\ \E w \in Seq(Plain) : todo' = [todo EXCEPT ![t] = w]
    /\ phase' = phase \/ (phase # "down" /\ phase' = "running")
    /\ UNCHANGED <<file, cfg, lock, crashes>>

Remembers(p, c) ==
    /\ cfg' = [cfg EXCEPT ![p] = c]
    /\ c \in Known
    /\ cfg[p].lang \in Heard => c.lang \in Heard

\* A thread opens the file for what it has put into memory, or cannot.
Opens(t) ==
    /\ ~At(t, "flush") /\ todo[t] # <<>> /\ lock[ProcessOf(t)] = Free
    /\ \E c, w : /\ Remembers(ProcessOf(t), c)
                 /\ w \in Seq(Plain)
                 /\ todo' = [todo EXCEPT ![t] = <<Flush(c)>> \o w]
    /\ file' = Torn
    /\ lock' = [lock EXCEPT ![ProcessOf(t)] = t]
    /\ UNCHANGED <<phase, crashes>>

FailsToOpen(t) ==
    /\ "save" \in Faulty
    /\ ~At(t, "flush") /\ todo[t] # <<>> /\ lock[ProcessOf(t)] = Free
    /\ \E c : Remembers(ProcessOf(t), c)
    /\ \E w \in Seq(Plain) : todo' = [todo EXCEPT ![t] = w]
    /\ UNCHANGED <<file, lock, phase, crashes>>

\* A thread writes the text, on top of another one's in the worst case.
Writes(t) ==
    /\ At(t, "flush")
    /\ file' = Now(t).text \/ (file \in Config /\ file' = Torn)
    /\ lock' = [lock EXCEPT ![ProcessOf(t)] = Free]
    /\ \E w \in Seq(Plain) : todo' = [todo EXCEPT ![t] = w]
    /\ UNCHANGED <<cfg, phase, crashes>>

\* A process starts with the file that is there, or with a new one.
Starts(p, t) ==
    /\ ProcessOf(t) = p /\ Idle(t)
    /\ p = "window" => phase = "down" /\ phase' = "starting" /\ (CliOverlap \/ Idle("cli"))
    /\ p = "cli" => phase' = phase /\ (CliOverlap \/ phase = "down")
    /\ \E w \in Seq(Plain) :
        \/ /\ file \in Config
           /\ cfg' = [cfg EXCEPT ![p] = Sanitised(file)]
           /\ todo' = [todo EXCEPT ![t] = w]
           /\ UNCHANGED <<file, lock>>
        \/ /\ file = Absent
           /\ cfg' = [cfg EXCEPT ![p] = DefaultConfig]
           /\ file' = Torn
           /\ lock' = [lock EXCEPT ![p] = t]
           /\ todo' = [todo EXCEPT ![t] = <<Flush(DefaultConfig)>> \o w]
    /\ UNCHANGED crashes

\* The window is gone.
Ends ==
    /\ phase # "down" /\ phase' = "down"
    /\ todo' = [t \in Threads |-> IF t = "cli" THEN todo[t] ELSE <<>>]
    /\ lock' = [lock EXCEPT !["window"] = Free]
    /\ crashes' = crashes + 1 \/ (crashes' = crashes /\ WindowIdle)
    /\ UNCHANGED <<file, cfg>>

AnyKind ==
    \/ Rests \/ Ends
    \/ \E t \in Threads : Works(t) \/ Opens(t) \/ FailsToOpen(t) \/ Writes(t)
    \/ Starts("window", "main") \/ Starts("cli", "cli")

\* A thread of the window is given work by its user.
LEMMA BeginKind ==
    ASSUME Typed, NEW t \in {"main", "worker", "tray"}, NEW w \in Seq(Plain), Begin(t, w)
    PROVE  Works(t)
BY DEF Begin, Goes, Works, At, memory, counters, Idle, Threads

LEMMA UserKinds ==
    ASSUME Typed,
           \/ \E m \in Modes, t \in {"worker", "tray"} : ChoosePower(t, m)
           \/ EditCurves \/ EditOther
           \/ \E on \in BOOLEAN : PersistSettings(on)
           \/ \E s \in Sources : PersistSource(s)
           \/ \E p \in Imports : ImportConfig(p)
    PROVE  \E t \in Threads : Works(t)
<1>0. {"main", "worker", "tray"} \subseteq Threads
  BY DEF Threads
<1>1. ASSUME NEW m \in Modes, NEW t \in {"worker", "tray"}, ChoosePower(t, m)
      PROVE  Works(t)
  <2>1. <<Power(m, "user")>> \in Seq(Plain)
    BY PlainSteps, PlainSequences
  <2> QED
    BY <1>1, <2>1, BeginKind DEF ChoosePower
<1>2. CASE EditCurves
  <2>1. <<FanCurve("own", "user")>> \in Seq(Plain)
    BY PlainSteps, PlainSequences DEF Curves
  <2> QED
    BY <1>0, <1>2, <2>1, BeginKind DEF EditCurves
<1>3. CASE EditOther
  <2>1. <<Save([fan |-> "keep"], FALSE)>> \in Seq(Plain)
    BY PlainSteps, PlainSequences, ChangesMade
  <2> QED
    BY <1>0, <1>3, <2>1, BeginKind DEF EditOther
<1>4. ASSUME NEW on \in BOOLEAN, PersistSettings(on)
      PROVE  Works("main")
  <2>1. <<Save([start |-> on], TRUE)>> \in Seq(Plain) /\ <<Task(on, TRUE)>> \in Seq(Plain)
    BY PlainSteps, PlainSequences, ChangesMade
  <2>2. <<Save([start |-> on], TRUE)>>
          \o (IF cfg["window"].start # on THEN <<Task(on, TRUE)>> ELSE <<>>) \in Seq(Plain)
    BY <2>1, PlainSequences
  <2> QED
    BY <1>4, <2>2, BeginKind DEF PersistSettings
<1>5. ASSUME NEW s \in Sources, PersistSource(s)
      PROVE  Works("main")
  <2>1. Save([source |-> s], TRUE) \in Plain /\ Prefer(s) \in Plain
    BY PlainSteps, ChangesMade
  <2>2. \A x, y \in Plain : <<x, y>> \in Seq(Plain)
    OBVIOUS
  <2> QED
    BY <1>5, <2>1, <2>2, BeginKind DEF PersistSource
<1>6. ASSUME NEW p \in Imports, ImportConfig(p)
      PROVE  Works("main")
  <2>1. ImportSteps(p) \in Seq(Plain)
    BY <1>6, PlainSequences DEF ImportConfig
  <2> QED
    BY <1>6, <2>1, BeginKind DEF ImportConfig
<1> QED
  BY <1>0, <1>1, <1>2, <1>3, <1>4, <1>5, <1>6

\* A step that only goes on with plain work.
LEMMA GoesKind ==
    ASSUME Typed, NEW t \in Threads, todo[t] # <<>>, ~At(t, "flush"),
           NEW w \in Seq(Plain), Goes(t, w),
           UNCHANGED <<file, cfg, lock, crashes>>,
           phase' = phase \/ (phase # "down" /\ phase' = "running")
    PROVE  Works(t)
BY DEF Goes, Works

LEMMA AdvanceKinds ==
    ASSUME Typed, NEW t \in Threads, Advance(t)
    PROVE  Works(t) \/ Opens(t) \/ FailsToOpen(t) \/ Writes(t)
<1> USE DEF memory, hardware, counters
<1>k. /\ cfg["window"] \in Known /\ ProcessOf(t) \in Procs
      /\ cfg[ProcessOf(t)] \in Known
  BY DEF Typed, Procs, ProcessOf
<1>f. ASSUME NEW kind, Fails(kind) PROVE UNCHANGED crashes
  BY <1>f DEF Fails
<1>1. CASE WritePower(t)
  <2>1. /\ todo[t] # <<>> /\ Now(t) \in Plain /\ Rest(t) \in Seq(Plain) /\ ~At(t, "flush")
        /\ Now(t).do = "power"
    BY <1>1, PresentStep DEF WritePower
  <2>2. <<Save([power |-> Now(t).mode], FALSE)>> \o Rest(t) \in Seq(Plain)
    <3>1. Save([power |-> Now(t).mode], FALSE) \in Plain
      BY <2>1, StepFields, PlainSteps, ChangesMade
    <3> QED
      BY <2>1, <3>1, PlainSequences
  <2>3. UNCHANGED <<file, cfg, lock, crashes, phase>>
    BY <1>1, <1>f DEF WritePower
  <2> QED
    BY <1>1, <2>1, <2>2, <2>3, GoesKind DEF WritePower
<1>2. CASE InstallCurves(t)
  <2>1. /\ todo[t] # <<>> /\ Now(t) \in Plain /\ Rest(t) \in Seq(Plain) /\ ~At(t, "flush")
        /\ Now(t).do = "curves"
    BY <1>2, PresentStep DEF InstallCurves
  <2>2. <<Save([fan |-> Now(t).curves], FALSE)>> \o Rest(t) \in Seq(Plain)
    <3>1. Save([fan |-> Now(t).curves], FALSE) \in Plain
      BY <2>1, StepFields, PlainSteps, ChangesMade
    <3> QED
      BY <2>1, <3>1, PlainSequences
  <2>3. UNCHANGED <<file, cfg, lock, crashes, phase>>
    BY <1>2 DEF InstallCurves
  <2> QED
    BY <1>2, <2>1, <2>2, <2>3, GoesKind DEF InstallCurves
<1>3. CASE InstallSource(t)
  <2>1. todo[t] # <<>> /\ Rest(t) \in Seq(Plain) /\ ~At(t, "flush")
    BY <1>3, PresentStep DEF InstallSource
  <2> QED
    BY <1>3, <2>1, GoesKind DEF InstallSource
<1>4. CASE OpenFile(t)
  <2> DEFINE p == ProcessOf(t)
             c == Updated(cfg[p], Now(t).change)
  <2>1. /\ todo[t] # <<>> /\ Now(t) \in Plain /\ Rest(t) \in Seq(Plain) /\ ~At(t, "flush")
        /\ Now(t).do = "save"
    BY <1>4, PresentStep DEF OpenFile
  <2>2. cfg' = [cfg EXCEPT ![p] = c]
    BY <1>4 DEF OpenFile
  <2>3. Remembers(p, c)
    <3>1. Now(t).change \in Changes
      BY <2>1, StepFields
    <3>2. c \in Known /\ (cfg[p].lang \in Heard => c.lang \in Heard)
      BY <1>k, <3>1, SavedIsKnown
    <3> QED
      BY <2>2, <3>2 DEF Remembers
  <2>4. lock[p] = Free /\ UNCHANGED phase
    BY <1>4 DEF OpenFile
  <2> HIDE DEF c
  <2>5. \/ /\ file' = Torn /\ lock' = [lock EXCEPT ![p] = t]
           /\ Goes(t, <<Flush(c)>> \o Rest(t)) /\ UNCHANGED counters
        \/ /\ Fails("save")
           /\ Goes(t, IF Now(t).strict THEN <<>> ELSE Rest(t))
           /\ UNCHANGED <<file, lock>>
    BY <1>4 DEF OpenFile, c
  <2>6. CASE file' = Torn /\ lock' = [lock EXCEPT ![p] = t]
             /\ Goes(t, <<Flush(c)>> \o Rest(t)) /\ UNCHANGED counters
    BY <2>1, <2>3, <2>4, <2>6 DEF Opens, Goes
  <2>7. CASE Fails("save") /\ Goes(t, IF Now(t).strict THEN <<>> ELSE Rest(t))
             /\ UNCHANGED <<file, lock>>
    <3>1. (IF Now(t).strict THEN <<>> ELSE Rest(t)) \in Seq(Plain)
      BY <2>1, PlainSequences
    <3> QED
      BY <2>1, <2>3, <2>4, <2>7, <3>1 DEF FailsToOpen, Goes, Fails
  <2> QED
    BY <2>5, <2>6, <2>7
<1>5. CASE WriteFile(t)
  <2>1. At(t, "flush") /\ Rest(t) \in Seq(Plain)
    BY <1>5, PresentStep DEF WriteFile
  <2> QED
    BY <1>5, <2>1 DEF WriteFile, Writes, Goes
<1>6. CASE Restore(t)
  <2>1. todo[t] # <<>> /\ Rest(t) \in Seq(Plain) /\ ~At(t, "flush")
    BY <1>6, PresentStep DEF Restore
  <2>2. RestoreSteps(cfg["window"]) \o Rest(t) \in Seq(Plain)
    BY <1>k, <2>1, PlainSequences
  <2> QED
    BY <1>6, <2>1, <2>2, GoesKind DEF Restore
<1>7. CASE SetTask(t)
  <2>1. /\ todo[t] # <<>> /\ Now(t) \in Plain /\ Rest(t) \in Seq(Plain) /\ ~At(t, "flush")
        /\ Now(t).do = "task"
    BY <1>7, PresentStep DEF SetTask
  <2>2. AfterTaskError(t) \in Seq(Plain)
    <3>1. (~Now(t).on) \in BOOLEAN
      BY <2>1, StepFields
    <3>2. Save([start |-> ~Now(t).on], FALSE) \in Plain
      BY <3>1, ChangesMade, PlainSteps
    <3> QED
      BY <3>2, PlainSequences DEF AfterTaskError
  <2>3. UNCHANGED <<file, cfg, lock, phase, crashes>>
    BY <1>7, <1>f DEF SetTask, LateFailure
  <2>4. Goes(t, Rest(t)) \/ Goes(t, AfterTaskError(t))
    BY <1>7 DEF SetTask
  <2> QED
    BY <2>1, <2>2, <2>3, <2>4, GoesKind
<1>8. CASE SyncTask(t)
  <2>1. todo[t] # <<>> /\ Rest(t) \in Seq(Plain) /\ ~At(t, "flush")
    BY <1>8, PresentStep DEF SyncTask
  <2>2. \A on \in BOOLEAN : <<Save([start |-> on], FALSE)>> \o Rest(t) \in Seq(Plain)
    BY <2>1, PlainSteps, ChangesMade, PlainSequences
  <2>3. \/ Goes(t, Rest(t))
        \/ \E on \in BOOLEAN : Goes(t, <<Save([start |-> on], FALSE)>> \o Rest(t))
    BY <1>8 DEF SyncTask
  <2> QED
    BY <1>8, <2>1, <2>2, <2>3, GoesKind DEF SyncTask
<1> QED
  BY <1>1, <1>2, <1>3, <1>4, <1>5, <1>6, <1>7, <1>8 DEF Advance

LEMMA StartKinds ==
    ASSUME Typed, Launch \/ \E m \in Modes : CliMode(m)
    PROVE  Rests \/ Starts("window", "main") \/ Starts("cli", "cli") \/ (~DownIsIdle)
<1> USE DEF memory, hardware, counters
<1>1. CASE Launch
  <2>1. StartSteps \in Seq(Plain)
    BY PlainSequences
  <2> QED
    BY <1>1, <2>1 DEF Launch, Load, Goes, Starts, Rests, DownIsIdle, WindowIdle, ProcessOf
<1>2. ASSUME NEW m \in Modes, CliMode(m)
      PROVE  Starts("cli", "cli")
  <2>1. <<Power(m, "user")>> \in Seq(Plain)
    BY PlainSteps, PlainSequences
  <2> QED
    BY <1>2, <2>1 DEF CliMode, Load, Goes, Starts, ProcessOf
<1> QED
  BY <1>1, <1>2

\* Every step of the specification is of one of the kinds.
LEMMA StepKinds ==
    ASSUME Typed, DownIsIdle, [Next]_vars
    PROVE  AnyKind
<1> USE DEF memory, hardware, counters
<1>1. CASE UNCHANGED vars
  BY <1>1 DEF vars, AnyKind, Rests
<1>2. CASE Quit \/ Crash
  BY <1>2 DEF Quit, Crash, WindowGone, AnyKind, Ends
<1>3. CASE Ready
  <2>1. todo["main"] # <<>> /\ Rest("main") \in Seq(Plain) /\ ~At("main", "flush")
    BY <1>3, PresentStep DEF Ready, Threads
  <2>2. phase # "down"
    BY <2>1 DEF DownIsIdle, WindowIdle, Idle
  <2>3. Works("main")
    BY <1>3, <2>1, <2>2, GoesKind DEF Ready, Threads
  <2> QED
    BY <2>3 DEF AnyKind, Threads
<1> QED
  BY <1>1, <1>2, <1>3, UserKinds, AdvanceKinds, StartKinds DEF Next, AnyKind
-----------------------------------------------------------------------------
(***************************************************************************)
(* Type correctness.                                                       *)
(***************************************************************************)
LEMMA NoConfig == Absent \notin Config /\ Torn \notin Config /\ Absent # Torn
BY DEF Absent, Torn, Config

LEMMA HardwareStep ==
    ASSUME Typed, [Next]_vars
    PROVE  HardwareTyped'
<1> USE DEF memory, hardware, counters, HardwareTyped
<1>0. HardwareTyped
  BY DEF Typed
<1>f. ASSUME NEW kind, Fails(kind)
      PROVE  /\ ops' \in Nat /\ faults' \in Nat /\ crashes' \in Nat
             /\ launches' \in Nat /\ runs' \in Nat
  BY <1>0, <1>f DEF Fails
<1>1. CASE Launch
  BY <1>0, <1>1 DEF Launch, Curves, Sources
<1>2. CASE Quit \/ Crash \/ Ready \/ UNCHANGED vars
  BY <1>0, <1>2 DEF Quit, Crash, Ready, WindowGone, vars
<1>3. ASSUME NEW m \in Modes, CliMode(m)
      PROVE  HardwareTyped'
  BY <1>0, <1>3 DEF CliMode
<1>4. CASE \/ \E m \in Modes, t \in {"worker", "tray"} : ChoosePower(t, m)
           \/ EditCurves \/ EditOther
           \/ \E on \in BOOLEAN : PersistSettings(on)
           \/ \E s \in Sources : PersistSource(s)
           \/ \E p \in Imports : ImportConfig(p)
  <2>1. PICK t, w : Begin(t, w)
    BY <1>4 DEF ChoosePower, EditCurves, EditOther, PersistSettings, PersistSource, ImportConfig
  <2> QED
    BY <1>0, <2>1 DEF Begin
<1>5. ASSUME NEW t \in Threads, Advance(t)
      PROVE  HardwareTyped'
  <2>k. cfg["window"] \in Known
    BY DEF Typed, Procs
  <2>1. CASE WritePower(t)
    <3>1. apu' \in Modes
      BY <1>0, <2>1 DEF WritePower
    <3>2. /\ ops' \in Nat /\ faults' \in Nat /\ crashes' \in Nat
          /\ launches' \in Nat /\ runs' \in Nat
      BY <1>0, <1>f, <2>1 DEF WritePower
    <3> QED
      BY <1>0, <2>1, <3>1, <3>2 DEF WritePower
  <2>2. CASE InstallCurves(t)
    <3>1. Now(t) \in Plain /\ Now(t).do = "curves"
      BY <2>2, PresentStep DEF InstallCurves
    <3>2. Now(t).curves \in Curves
      BY <3>1, StepFields
    <3> QED
      BY <1>0, <2>2, <3>2 DEF InstallCurves
  <2>3. CASE InstallSource(t)
    <3>1. preferred' \in Sources
      <4>1. CASE At(t, "prefer") /\ preferred' = Now(t).source
        <5>1. Now(t) \in Plain /\ Now(t).do = "prefer"
          BY <4>1, PresentStep
        <5> QED
          BY <4>1, <5>1, StepFields
      <4>2. CASE preferred' = cfg["window"].source
        BY <2>k, <4>2 DEF Known
      <4> QED
        BY <2>3, <4>1, <4>2 DEF InstallSource
    <3> QED
      BY <1>0, <2>3, <3>1 DEF InstallSource
  <2>4. CASE OpenFile(t)
    BY <1>0, <1>f, <2>4 DEF OpenFile
  <2>5. CASE WriteFile(t) \/ Restore(t)
    BY <1>0, <2>5 DEF WriteFile, Restore
  <2>6. CASE SetTask(t)
    <3>1. task' \in {"none", "ours", "foreign"}
      BY <1>0, <2>6 DEF SetTask, Registered
    <3>2. /\ ops' \in Nat /\ faults' \in Nat /\ crashes' \in Nat
          /\ launches' \in Nat /\ runs' \in Nat
      BY <1>0, <1>f, <2>6 DEF SetTask, LateFailure
    <3> QED
      BY <1>0, <2>6, <3>1, <3>2 DEF SetTask
  <2>7. CASE SyncTask(t)
    BY <1>0, <2>7 DEF SyncTask, Reconciled
  <2> QED
    BY <1>5, <2>1, <2>2, <2>3, <2>4, <2>5, <2>6, <2>7 DEF Advance
<1> QED
  BY <1>1, <1>2, <1>3, <1>4, <1>5 DEF Next

\* One thread's work changes, and stays orderly.
LEMMA OrderlyStep ==
    ASSUME Typed, NEW t \in Threads, NEW w, Orderly(w), todo' = [todo EXCEPT ![t] = w]
    PROVE  todo' = [s \in Threads |-> todo'[s]] /\ \A s \in Threads : Orderly(todo'[s])
BY DEF Typed

LEMMA TypedStep ==
    ASSUME Typed, DownIsIdle, [Next]_vars
    PROVE  Typed'
<1>k. AnyKind /\ HardwareTyped'
  BY StepKinds, HardwareStep
<1>p. \A w \in Seq(Plain) : Orderly(w) /\ \A text \in Known : Orderly(<<Flush(text)>> \o w)
  BY Plainly
<1>t. \A t \in Threads : ProcessOf(t) \in Procs
  BY DEF ProcessOf, Procs
<1>d. DefaultConfig \in Known /\ DefaultConfig \in Config /\ \A c \in Known : c \in Config
  BY DefaultIsKnown, ReadIsKnown
<1>1. CASE Rests
  BY <1>1, <1>k DEF Rests, Typed
<1>2. CASE Ends
  <2>1. todo' = [s \in Threads |-> todo'[s]] /\ \A s \in Threads : Orderly(todo'[s])
    BY <1>2, <1>p, Plainly, PlainSequences DEF Ends, Typed
  <2> QED
    BY <1>2, <1>k, <2>1 DEF Ends, Typed
<1>3. ASSUME NEW t \in Threads, Works(t)
      PROVE  Typed'
  <2>1. todo' = [s \in Threads |-> todo'[s]] /\ \A s \in Threads : Orderly(todo'[s])
    BY <1>3, <1>p, OrderlyStep DEF Works
  <2> QED
    BY <1>3, <1>k, <2>1 DEF Works, Typed
<1>4. ASSUME NEW t \in Threads, Opens(t)
      PROVE  Typed'
  <2>1. todo' = [s \in Threads |-> todo'[s]] /\ \A s \in Threads : Orderly(todo'[s])
    BY <1>4, <1>p, OrderlyStep DEF Opens, Remembers
  <2> QED
    BY <1>4, <1>k, <1>t, <2>1 DEF Opens, Remembers, Typed
<1>5. ASSUME NEW t \in Threads, FailsToOpen(t)
      PROVE  Typed'
  <2>1. todo' = [s \in Threads |-> todo'[s]] /\ \A s \in Threads : Orderly(todo'[s])
    BY <1>5, <1>p, OrderlyStep DEF FailsToOpen
  <2> QED
    BY <1>5, <1>k, <1>t, <2>1 DEF FailsToOpen, Remembers, Typed
<1>6. ASSUME NEW t \in Threads, Writes(t)
      PROVE  Typed'
  <2>1. todo' = [s \in Threads |-> todo'[s]] /\ \A s \in Threads : Orderly(todo'[s])
    BY <1>6, <1>p, OrderlyStep DEF Writes
  <2>2. Now(t).text \in Config
    BY <1>6, <1>d, PresentStep DEF Writes
  <2> QED
    BY <1>6, <1>k, <1>t, <2>1, <2>2 DEF Writes, Typed
<1>7. ASSUME NEW t \in {"main", "cli"}, NEW p \in Procs, Starts(p, t)
      PROVE  Typed'
  <2>0. t \in Threads
    BY DEF Threads
  <2>1. todo' = [s \in Threads |-> todo'[s]] /\ \A s \in Threads : Orderly(todo'[s])
    BY <1>7, <1>d, <1>p, <2>0, OrderlyStep DEF Starts
  <2>2. cfg' \in [Procs -> Known]
    BY <1>7, <1>d, ReadIsKnown DEF Starts, Typed
  <2>3. phase' \in {"down", "starting", "running"}
    BY <1>7 DEF Starts, Typed, Procs
  <2> QED
    BY <1>7, <1>k, <2>0, <2>1, <2>2, <2>3 DEF Starts, Typed
<1> QED
  BY <1>k, <1>1, <1>2, <1>3, <1>4, <1>5, <1>6, <1>7 DEF AnyKind, Procs
-----------------------------------------------------------------------------
(***************************************************************************)
(* The invariants, kind by kind.                                           *)
(***************************************************************************)
LEMMA DownIsIdleStep ==
    ASSUME Typed, DownIsIdle, [Next]_vars
    PROVE  DownIsIdle'
<1>k. AnyKind /\ DOMAIN todo = Threads
  BY StepKinds DEF Typed
<1>1. CASE Rests
  BY <1>1 DEF Rests, DownIsIdle, WindowIdle, Idle
<1>2. CASE Ends
  BY <1>2 DEF Ends, DownIsIdle, WindowIdle, Idle, Threads
<1>3. ASSUME NEW t \in Threads, Works(t) \/ Opens(t) \/ FailsToOpen(t) \/ Writes(t)
      PROVE  DownIsIdle'
  <2>1. phase' = phase \/ (phase # "down" /\ phase' = "running")
    BY <1>3 DEF Works, Opens, FailsToOpen, Writes
  <2>2. \E w : todo' = [todo EXCEPT ![t] = w]
    BY <1>3 DEF Works, Opens, FailsToOpen, Writes
  <2>3. todo[t] # <<>> \/ phase = "running"
    BY <1>3 DEF Works, Opens, FailsToOpen, Writes, At, Idle
  <2>4. CASE phase = "down"
    <3>1. t = "cli"
      BY <2>3, <2>4 DEF DownIsIdle, WindowIdle, Idle, Threads
    <3> QED
      BY <1>k, <2>2, <2>4, <3>1 DEF DownIsIdle, WindowIdle, Idle
  <2> QED
    BY <2>1, <2>4 DEF DownIsIdle
<1>4. CASE Starts("window", "main")
  BY <1>4 DEF Starts, DownIsIdle
<1>5. CASE Starts("cli", "cli")
  <2>1. phase' = phase /\ \E w : todo' = [todo EXCEPT !["cli"] = w]
    BY <1>5 DEF Starts
  <2> QED
    BY <1>k, <2>1 DEF DownIsIdle, WindowIdle, Idle
<1> QED
  BY <1>k, <1>1, <1>2, <1>3, <1>4, <1>5 DEF AnyKind

\* Who is at the end of a save after a step of each kind.
LEMMA NobodyElseFlushes ==
    ASSUME Typed, WriterHolds, NEW s \in Threads, NEW t \in Threads,
           ProcessOf(s) = ProcessOf(t), lock[ProcessOf(t)] \in {Free, t}, At(s, "flush")
    PROVE  s = t
BY DEF WriterHolds, Free, Threads

LEMMA FlushAfter ==
    ASSUME Typed, NEW t \in Threads, NEW w \in Seq(Plain), NEW text
    PROVE  /\ todo' = [todo EXCEPT ![t] = w] =>
                \A s \in Threads :
                    At(s, "flush")' <=> (s # t /\ At(s, "flush"))
           /\ todo' = [todo EXCEPT ![t] = <<Flush(text)>> \o w] =>
                /\ \A s \in Threads : At(s, "flush")' <=> (s = t \/ At(s, "flush"))
                /\ todo'[t] # <<>> /\ Head(todo'[t]).text = text
<1>1. DOMAIN todo = Threads
  BY DEF Typed
<1>2. w # <<>> => Head(w).do # "flush"
  BY Plainly
<1>3. <<Flush(text)>> \o w # <<>> /\ Head(<<Flush(text)>> \o w) = Flush(text)
  BY InFront
<1>4. Flush(text).do = "flush" /\ Flush(text).text = text
  BY FlushFields
<1> QED
  BY <1>1, <1>2, <1>3, <1>4 DEF At, Idle

\* The thread that writes is the one that locked `config`, in every step.
LEMMA WriterHoldsStep ==
    ASSUME Typed, DownIsIdle, WriterHolds, [Next]_vars
    PROVE  WriterHolds'
<1>k. AnyKind /\ DOMAIN todo = Threads
  BY StepKinds DEF Typed
<1>t. /\ DOMAIN cfg = Procs /\ DOMAIN lock = Procs
      /\ \A t \in Threads : ProcessOf(t) \in Procs
  BY DEF Typed, ProcessOf, Procs
<1>1. CASE Rests
  BY <1>1 DEF Rests, WriterHolds, At, Idle, Now
<1>2. CASE Ends
  BY <1>2, <1>k, <1>t DEF Ends, WriterHolds, At, Idle, Now, ProcessOf, Threads
<1>3. ASSUME NEW t \in Threads, Works(t)
      PROVE  WriterHolds'
  <2>1. PICK w \in Seq(Plain) : todo' = [todo EXCEPT ![t] = w]
    BY <1>3 DEF Works
  <2>2. \A s \in Threads : At(s, "flush")' <=> (s # t /\ At(s, "flush"))
    BY <2>1, FlushAfter
  <2>3. /\ UNCHANGED <<cfg, lock>>
        /\ \A s \in Threads : s # t => todo'[s] = todo[s]
    BY <1>3, <1>k, <2>1 DEF Works
  <2> QED
    BY <2>2, <2>3 DEF WriterHolds, Now
<1>4. ASSUME NEW t \in Threads, Opens(t)
      PROVE  WriterHolds'
  <2>1. PICK c, w : /\ Remembers(ProcessOf(t), c) /\ w \in Seq(Plain)
                    /\ todo' = [todo EXCEPT ![t] = <<Flush(c)>> \o w]
    BY <1>4 DEF Opens
  <2>2. /\ \A s \in Threads : At(s, "flush")' <=> (s = t \/ At(s, "flush"))
        /\ Head(todo'[t]).text = c
    BY <2>1, FlushAfter
  <2>3. \A s \in Threads : s # t /\ At(s, "flush") => ProcessOf(s) # ProcessOf(t)
    BY <1>4, NobodyElseFlushes DEF Opens
  <2>4. /\ cfg' = [cfg EXCEPT ![ProcessOf(t)] = c]
        /\ lock' = [lock EXCEPT ![ProcessOf(t)] = t]
    BY <1>4, <2>1 DEF Opens, Remembers
  <2>5. \A s \in Threads : s # t => todo'[s] = todo[s]
    BY <1>k, <2>1
  <2> QED
    BY <1>t, <2>2, <2>3, <2>4, <2>5 DEF WriterHolds, Now
<1>5. ASSUME NEW t \in Threads, FailsToOpen(t)
      PROVE  WriterHolds'
  <2>1. PICK c, w : /\ Remembers(ProcessOf(t), c) /\ w \in Seq(Plain)
                    /\ todo' = [todo EXCEPT ![t] = w]
    BY <1>5 DEF FailsToOpen
  <2>2. \A s \in Threads : At(s, "flush")' <=> (s # t /\ At(s, "flush"))
    BY <2>1, FlushAfter
  <2>3. \A s \in Threads : s # t /\ At(s, "flush") => ProcessOf(s) # ProcessOf(t)
    BY <1>5, NobodyElseFlushes DEF FailsToOpen
  <2>4. cfg' = [cfg EXCEPT ![ProcessOf(t)] = c] /\ lock' = lock
    BY <1>5, <2>1 DEF FailsToOpen, Remembers
  <2>5. \A s \in Threads : s # t => todo'[s] = todo[s]
    BY <1>k, <2>1
  <2> QED
    BY <1>t, <2>2, <2>3, <2>4, <2>5 DEF WriterHolds, Now
<1>6. ASSUME NEW t \in Threads, Writes(t)
      PROVE  WriterHolds'
  <2>1. PICK w \in Seq(Plain) : todo' = [todo EXCEPT ![t] = w]
    BY <1>6 DEF Writes
  <2>2. \A s \in Threads : At(s, "flush")' <=> (s # t /\ At(s, "flush"))
    BY <2>1, FlushAfter
  <2>3. \A s \in Threads : s # t /\ At(s, "flush") => ProcessOf(s) # ProcessOf(t)
    BY <1>6, NobodyElseFlushes DEF Writes, WriterHolds
  <2>4. cfg' = cfg /\ lock' = [lock EXCEPT ![ProcessOf(t)] = Free]
    BY <1>6 DEF Writes
  <2>5. \A s \in Threads : s # t => todo'[s] = todo[s]
    BY <1>k, <2>1
  <2> QED
    BY <1>t, <2>2, <2>3, <2>4, <2>5 DEF WriterHolds, Now
<1>7. ASSUME NEW t \in {"main", "cli"}, NEW p \in Procs, Starts(p, t),
             p = "window" <=> t = "main"
      PROVE  WriterHolds'
  <2>0. t \in Threads /\ ProcessOf(t) = p
    BY <1>7 DEF Threads, Starts
  <2>1. \A s \in Threads : ProcessOf(s) = p => Idle(s)
    BY <1>7, <2>0 DEF Starts, DownIsIdle, WindowIdle, ProcessOf, Threads
  <2>2. PICK w \in Seq(Plain) :
        \/ /\ cfg' = [cfg EXCEPT ![p] = Sanitised(file)]
           /\ todo' = [todo EXCEPT ![t] = w]
           /\ UNCHANGED <<file, lock>>
        \/ /\ cfg' = [cfg EXCEPT ![p] = DefaultConfig]
           /\ lock' = [lock EXCEPT ![p] = t]
           /\ todo' = [todo EXCEPT ![t] = <<Flush(DefaultConfig)>> \o w]
    BY <1>7 DEF Starts
  <2>3. \A s \in Threads : At(s, "flush") => ProcessOf(s) # p /\ s # t
    BY <2>0, <2>1 DEF At
  <2>4. \A s \in Threads : s # t => todo'[s] = todo[s]
    BY <1>k, <2>2
  <2>5. CASE cfg' = [cfg EXCEPT ![p] = Sanitised(file)]
             /\ todo' = [todo EXCEPT ![t] = w] /\ UNCHANGED <<file, lock>>
    <3>1. \A s \in Threads : At(s, "flush")' <=> (s # t /\ At(s, "flush"))
      BY <2>0, <2>5, FlushAfter
    <3> QED
      BY <1>t, <2>3, <2>4, <2>5, <3>1 DEF WriterHolds, Now
  <2>6. CASE /\ cfg' = [cfg EXCEPT ![p] = DefaultConfig]
             /\ lock' = [lock EXCEPT ![p] = t]
             /\ todo' = [todo EXCEPT ![t] = <<Flush(DefaultConfig)>> \o w]
    <3>1. /\ \A s \in Threads : At(s, "flush")' <=> (s = t \/ At(s, "flush"))
          /\ Head(todo'[t]).text = DefaultConfig
      BY <2>0, <2>6, FlushAfter
    <3> QED
      BY <1>t, <2>0, <2>3, <2>4, <2>6, <3>1 DEF WriterHolds, Now
  <2> QED
    BY <2>2, <2>5, <2>6
<1>8. Starts("window", "main") => WriterHolds'
  BY <1>7 DEF Procs
<1>9. Starts("cli", "cli") => WriterHolds'
  BY <1>7 DEF Procs
<1> QED
  BY <1>k, <1>1, <1>2, <1>3, <1>4, <1>5, <1>6, <1>8, <1>9 DEF AnyKind

\* Without overlap, one process is idle while the other is up.
LEMMA ApartStep ==
    ASSUME ~CliOverlap, Typed, DownIsIdle, Apart, [Next]_vars
    PROVE  Apart'
<1>k. AnyKind /\ DOMAIN todo = Threads
  BY StepKinds DEF Typed
<1>1. CASE Rests
  BY <1>1 DEF Rests, Apart, Idle
<1>2. CASE Ends
  BY <1>2 DEF Ends, Apart
<1>3. ASSUME NEW t \in Threads, Works(t) \/ Opens(t) \/ FailsToOpen(t) \/ Writes(t)
      PROVE  Apart'
  <2>1. phase' = phase \/ (phase # "down" /\ phase' = "running")
    BY <1>3 DEF Works, Opens, FailsToOpen, Writes
  <2>2. \E w : todo' = [todo EXCEPT ![t] = w]
    BY <1>3 DEF Works, Opens, FailsToOpen, Writes
  <2>3. t # "cli" \/ todo[t] # <<>>
    BY <1>3 DEF Works, Opens, FailsToOpen, Writes, At, Idle
  <2>4. phase # "down" => t # "cli"
    BY <2>3 DEF Apart, Idle
  <2> QED
    BY <1>k, <2>1, <2>2, <2>4 DEF Apart, Idle, Threads
<1>4. CASE Starts("window", "main")
  <2>1. Idle("cli") /\ \E w : todo' = [todo EXCEPT !["main"] = w]
    BY <1>4 DEF Starts
  <2> QED
    BY <1>k, <2>1 DEF Apart, Idle, Threads
<1>5. CASE Starts("cli", "cli")
  BY <1>5 DEF Starts, Apart
<1> QED
  BY <1>k, <1>1, <1>2, <1>3, <1>4, <1>5 DEF AnyKind

\* One thread at most is at the end of a save.
LEMMA OneWriter ==
    ASSUME Typed, DownIsIdle, Apart, WriterHolds,
           NEW s \in Threads, NEW t \in Threads, At(s, "flush"), At(t, "flush")
    PROVE  s = t
<1>1. phase = "down" => s = "cli" /\ t = "cli"
  BY DEF DownIsIdle, WindowIdle, At, Threads
<1>2. phase # "down" => s # "cli" /\ t # "cli"
  BY DEF Apart, At
<1>3. ProcessOf(s) = ProcessOf(t)
  BY <1>1, <1>2 DEF ProcessOf
<1> QED
  BY <1>3, NobodyElseFlushes DEF WriterHolds

Writing == \E t \in Threads : At(t, "flush")

\* How each kind of step changes the file, and whether it is being written.
LEMMA WritingStep ==
    ASSUME ~CliOverlap, Typed, DownIsIdle, Apart, WriterHolds, TornWhileWritten, [Next]_vars
    PROVE  \/ /\ Writing' /\ file' = Torn
           \/ /\ ~Writing /\ ~Writing' /\ file' \in {file} \cup Config
              /\ crashes' # 0 \/ crashes' = crashes
           \/ /\ Writing /\ ~Writing' /\ file' \in Config /\ crashes' = crashes
           \/ /\ Writing /\ ~Writing' /\ file' = Torn /\ crashes' = crashes + 1
<1>k. AnyKind /\ DOMAIN todo = Threads /\ crashes \in Nat
  BY StepKinds DEF Typed, HardwareTyped
<1>w. Writing => file = Torn
  BY DEF TornWhileWritten, Writing
<1>1. CASE Rests
  BY <1>1, <1>w DEF Rests, Writing, At, Idle
<1>2. CASE Ends
  <2>1. Idle("cli")
    BY <1>2 DEF Apart, Ends
  <2>2. ~Writing'
    BY <1>2, <2>1 DEF Ends, Writing, At, Idle
  <2>3. crashes' = crashes + 1 \/ (crashes' = crashes /\ ~Writing)
    BY <1>2, <2>1 DEF Ends, WindowIdle, Writing, At, Threads
  <2> QED
    BY <1>2, <1>k, <1>w, <2>2, <2>3 DEF Ends
<1>3. ASSUME NEW t \in Threads, Works(t) \/ FailsToOpen(t)
      PROVE  file' = file /\ crashes' = crashes /\ (Writing' <=> Writing)
  <2>1. PICK w \in Seq(Plain) : todo' = [todo EXCEPT ![t] = w]
    BY <1>3 DEF Works, FailsToOpen
  <2>2. \A s \in Threads : At(s, "flush")' <=> (s # t /\ At(s, "flush"))
    BY <2>1, FlushAfter
  <2>3. ~At(t, "flush") /\ file' = file /\ crashes' = crashes
    BY <1>3 DEF Works, FailsToOpen
  <2> QED
    BY <2>2, <2>3 DEF Writing
<1>4. ASSUME NEW t \in Threads, Opens(t)
      PROVE  Writing' /\ file' = Torn
  <2>1. PICK c, w : w \in Seq(Plain) /\ todo' = [todo EXCEPT ![t] = <<Flush(c)>> \o w]
    BY <1>4 DEF Opens
  <2>2. At(t, "flush")'
    BY <2>1, FlushAfter
  <2> QED
    BY <1>4, <2>2 DEF Opens, Writing
<1>5. ASSUME NEW t \in Threads, Writes(t)
      PROVE  Writing /\ ~Writing' /\ file' \in Config /\ crashes' = crashes
  <2>1. PICK w \in Seq(Plain) : todo' = [todo EXCEPT ![t] = w]
    BY <1>5 DEF Writes
  <2>2. \A s \in Threads : At(s, "flush")' <=> (s # t /\ At(s, "flush"))
    BY <2>1, FlushAfter
  <2>3. At(t, "flush") /\ \A s \in Threads : At(s, "flush") => s = t
    BY <1>5, OneWriter DEF Writes
  <2>4. Writing /\ ~Writing'
    BY <2>2, <2>3 DEF Writing
  <2>5. Now(t).text \in Config
    BY <2>3, PresentStep, ReadIsKnown
  <2> QED
    BY <1>5, <1>w, <2>4, <2>5, NoConfig DEF Writes
<1>6. ASSUME NEW t \in {"main", "cli"}, NEW p \in Procs, Starts(p, t)
      PROVE  \/ Writing' /\ file' = Torn
             \/ ~Writing /\ ~Writing' /\ file' = file /\ crashes' = crashes
  <2>0. t \in Threads
    BY DEF Threads
  <2>1. PICK w \in Seq(Plain) :
        \/ /\ file \in Config
           /\ todo' = [todo EXCEPT ![t] = w]
           /\ UNCHANGED file
        \/ /\ file' = Torn
           /\ todo' = [todo EXCEPT ![t] = <<Flush(DefaultConfig)>> \o w]
    BY <1>6 DEF Starts
  <2>2. CASE /\ file \in Config
             /\ todo' = [todo EXCEPT ![t] = w] /\ UNCHANGED file
    <3>1. \A s \in Threads : At(s, "flush")' <=> (s # t /\ At(s, "flush"))
      BY <2>0, <2>2, FlushAfter
    <3>2. ~Writing
      BY <1>w, <2>2, NoConfig
    <3> QED
      BY <1>6, <2>2, <3>1, <3>2 DEF Writing, Starts
  <2>3. CASE file' = Torn /\ todo' = [todo EXCEPT ![t] = <<Flush(DefaultConfig)>> \o w]
    <3>1. At(t, "flush")'
      BY <2>0, <2>3, FlushAfter
    <3> QED
      BY <2>0, <2>3, <3>1 DEF Writing
  <2> QED
    BY <2>1, <2>2, <2>3
<1>7. "main" \in {"main", "cli"} /\ "cli" \in {"main", "cli"} /\ "window" \in Procs /\ "cli" \in Procs
  BY DEF Procs
<1> QED
  BY <1>k, <1>w, <1>1, <1>2, <1>3, <1>4, <1>5, <1>6, <1>7 DEF AnyKind

\* A file that cannot be read is being written, or a write was cut off.
LEMMA TornWhileWrittenStep ==
    ASSUME ~CliOverlap, Typed, DownIsIdle, Apart, WriterHolds, TornWhileWritten, [Next]_vars
    PROVE  TornWhileWritten'
<1>1. TornWhileWritten <=> (Writing => file = Torn) /\ (file = Torn /\ crashes = 0 => Writing)
  BY DEF TornWhileWritten, FileReadable, Writing
<1>2. TornWhileWritten' <=> (Writing' => file' = Torn) /\ (file' = Torn /\ crashes' = 0 => Writing')
  BY DEF TornWhileWritten, FileReadable, Writing
<1>3. crashes \in Nat
  BY DEF Typed, HardwareTyped
<1> QED
  BY <1>1, <1>2, <1>3, WritingStep, NoConfig

\* What the window remembers is what it has just opened the file for.
LEMMA SavedStep ==
    ASSUME ~CliOverlap, "save" \notin Faulty,
           Typed, DownIsIdle, Apart, WriterHolds, TornWhileWritten, Saved, [Next]_vars
    PROVE  Saved'
<1> DEFINE WindowWriting == \E t \in Threads : ProcessOf(t) = "window" /\ At(t, "flush")
<1>k. AnyKind /\ DOMAIN todo = Threads /\ DOMAIN cfg = Procs
  BY StepKinds DEF Typed
<1>s. Saved <=> (phase # "down" => WindowWriting \/ (file \in Config /\ Sanitised(file) = cfg["window"]))
  BY DEF Saved
<1>p. Saved' <=> (phase' # "down" =>
                    WindowWriting' \/ (file' \in Config /\ Sanitised(file') = cfg'["window"]))
  BY DEF Saved, Sanitised
<1>1. CASE Rests
  BY <1>1, <1>s, <1>p DEF Rests, At, Idle
<1>2. CASE Ends
  BY <1>2, <1>p DEF Ends
<1>3. ASSUME NEW t \in Threads, Works(t)
      PROVE  Saved'
  <2>1. PICK w \in Seq(Plain) : todo' = [todo EXCEPT ![t] = w]
    BY <1>3 DEF Works
  <2>2. \A s \in Threads : At(s, "flush")' <=> (s # t /\ At(s, "flush"))
    BY <2>1, FlushAfter
  <2>3. ~At(t, "flush") /\ file' = file /\ cfg' = cfg /\ (phase' # "down" => phase # "down")
    BY <1>3 DEF Works
  <2>4. WindowWriting => WindowWriting'
    BY <2>2, <2>3
  <2> QED
    BY <1>s, <1>p, <2>3, <2>4
<1>4. ASSUME NEW t \in Threads, Opens(t)
      PROVE  Saved'
  <2>1. PICK c, w : w \in Seq(Plain) /\ todo' = [todo EXCEPT ![t] = <<Flush(c)>> \o w]
    BY <1>4 DEF Opens
  <2>2. At(t, "flush")'
    BY <2>1, FlushAfter
  <2>3. phase' = phase /\ (phase # "down" => t # "cli")
    BY <1>4 DEF Opens, Apart, Idle
  <2> QED
    BY <1>p, <2>2, <2>3 DEF ProcessOf
<1>5. ASSUME NEW t \in Threads, Writes(t)
      PROVE  Saved'
  <2>1. PICK w \in Seq(Plain) : todo' = [todo EXCEPT ![t] = w]
    BY <1>5 DEF Writes
  <2>2. At(t, "flush") /\ phase' = phase /\ cfg' = cfg
    BY <1>5 DEF Writes
  <2>3. Now(t).text \in Known /\ Now(t).text = cfg[ProcessOf(t)]
    BY <2>2, PresentStep DEF WriterHolds
  <2>4. file = Torn
    BY <2>2 DEF TornWhileWritten
  <2>5. file' = Now(t).text
    BY <1>5, <2>4, NoConfig DEF Writes
  <2>6. phase # "down" => ProcessOf(t) = "window"
    BY <2>2 DEF Apart, At, ProcessOf
  <2> QED
    BY <1>p, <2>2, <2>3, <2>5, <2>6, ReadIsKnown
<1>6. CASE Starts("window", "main")
  <2>1. PICK w \in Seq(Plain) :
        \/ /\ file \in Config
           /\ cfg' = [cfg EXCEPT !["window"] = Sanitised(file)]
           /\ UNCHANGED file
        \/ todo' = [todo EXCEPT !["main"] = <<Flush(DefaultConfig)>> \o w]
    BY <1>6 DEF Starts
  <2>2. CASE todo' = [todo EXCEPT !["main"] = <<Flush(DefaultConfig)>> \o w]
    <3>1. "main" \in Threads /\ At("main", "flush")'
      BY <2>2, FlushAfter DEF Threads
    <3> QED
      BY <1>p, <3>1 DEF ProcessOf
  <2> QED
    BY <1>k, <1>p, <2>1, <2>2 DEF Procs
<1>7. CASE Starts("cli", "cli")
  BY <1>7, <1>p DEF Starts
<1>8. \A t \in Threads : ~FailsToOpen(t)
  BY DEF FailsToOpen
<1> QED
  BY <1>k, <1>1, <1>2, <1>3, <1>4, <1>5, <1>6, <1>7, <1>8 DEF AnyKind

\* No step brings in a language that was not there.
LEMMA SpokenStep ==
    ASSUME Typed, DownIsIdle, WriterHolds, Spoken, [Next]_vars
    PROVE  Spoken'
<1>k. AnyKind /\ DOMAIN cfg = Procs /\ \A t \in Threads : ProcessOf(t) \in Procs
  BY StepKinds DEF Typed, ProcessOf, Procs
<1>d. DefaultConfig.lang \in Heard
  BY DefaultIsKnown DEF Heard
<1>1. CASE Rests \/ Ends
  BY <1>1 DEF Rests, Ends, Spoken
<1>2. ASSUME NEW t \in Threads, Works(t)
      PROVE  Spoken'
  BY <1>2 DEF Works, Spoken
<1>3. ASSUME NEW t \in Threads, Opens(t) \/ FailsToOpen(t)
      PROVE  Spoken'
  <2>1. \E c : Remembers(ProcessOf(t), c)
    BY <1>3 DEF Opens, FailsToOpen
  <2>2. \A p \in Procs : cfg'[p].lang \in Heard
    BY <1>k, <2>1 DEF Remembers, Spoken
  <2>3. file' \in {file, Torn}
    BY <1>3 DEF Opens, FailsToOpen
  <2> QED
    BY <2>2, <2>3, NoConfig DEF Spoken
<1>4. ASSUME NEW t \in Threads, Writes(t)
      PROVE  Spoken'
  <2>1. Now(t).text = cfg[ProcessOf(t)]
    BY <1>4 DEF Writes, WriterHolds
  <2>2. Now(t).text.lang \in Heard
    BY <1>k, <2>1 DEF Spoken
  <2> QED
    BY <1>4, <2>2, NoConfig DEF Writes, Spoken
<1>5. ASSUME NEW p \in Procs, NEW t, Starts(p, t)
      PROVE  Spoken'
  <2>1. \/ /\ file \in Config /\ UNCHANGED file
           /\ cfg' = [cfg EXCEPT ![p] = Sanitised(file)]
        \/ file' = Torn /\ cfg' = [cfg EXCEPT ![p] = DefaultConfig]
    BY <1>5 DEF Starts
  <2>2. file \in Config => Sanitised(file).lang \in Heard
    BY ReadIsKnown DEF Spoken
  <2> QED
    BY <1>d, <1>k, <2>1, <2>2, NoConfig DEF Spoken
<1> QED
  BY <1>k, <1>1, <1>2, <1>3, <1>4, <1>5 DEF AnyKind, Procs
-----------------------------------------------------------------------------
(***************************************************************************)
(* The theorems.                                                           *)
(***************************************************************************)
LEMMA Initially ==
    ASSUME Init
    PROVE  /\ Typed /\ DownIsIdle /\ WriterHolds /\ Apart /\ TornWhileWritten /\ Saved
           /\ Spoken
<1>0. <<>> \in Seq(Plain) /\ Orderly(<<>>)
  BY Plainly, PlainSequences
<1>1. DefaultConfig \in Known /\ DefaultConfig.lang \in Languages
  BY DefaultIsKnown
<1>2. file \in Config \cup {Absent}
  BY SettingsFilesAssumption DEF Init
<1>3. \A t \in Threads : Idle(t)
  BY DEF Init, Idle
<1>4. HardwareTyped
  BY DEF Init, HardwareTyped, Curves, Sources
<1>5. Typed
  BY <1>0, <1>1, <1>2, <1>4 DEF Typed, Init
<1>6. DownIsIdle /\ WriterHolds /\ Apart /\ Saved
  BY <1>3 DEF Init, DownIsIdle, WindowIdle, WriterHolds, Apart, Saved, At, Threads
<1>7. TornWhileWritten
  BY <1>2, <1>3, NoConfig DEF TornWhileWritten, FileReadable, At
<1>8. Spoken
  BY <1>1, NoConfig DEF Init, Spoken, Heard
<1> QED
  BY <1>5, <1>6, <1>7, <1>8

\* What the invariants say in the words of the module.
LEMMA TypedIsTypeOK ==
    ASSUME Typed
    PROVE  TypeOK
<1>1. \A c \in Known : c \in Config
  BY ReadIsKnown
<1>2. Changes \subseteq Config \cup [power : Modes] \cup [fan : Curves \cup {"keep"}] \cup
                        [start : BOOLEAN] \cup [source : Sources]
  BY <1>1 DEF Changes
<1>3. Plain \subseteq Steps
  BY <1>2 DEF Plain, Steps
<1>4. \A text \in Known : Flush(text) \in Steps
  BY <1>1 DEF Flush, Steps
<1>5. \A w \in Seq(Plain) : w \in Seq(Steps)
  BY <1>3
<1>6. \A x \in Steps, w \in Seq(Steps) : <<x>> \o w \in Seq(Steps)
  OBVIOUS
<1>7. \A w : Orderly(w) => w \in Seq(Steps)
  BY <1>4, <1>5, <1>6 DEF Orderly
<1>8. cfg \in [Procs -> Config]
  BY <1>1 DEF Typed
<1> QED
  BY <1>7, <1>8 DEF Typed, HardwareTyped, TypeOK

\* Every variable keeps its type; in particular no power mode and no curve
\* the program does not know reaches memory or the controller.
THEOREM SettingsTypeCorrect == Spec => []TypeOK
<1>1. Init => Typed /\ DownIsIdle
  BY Initially
<1>2. Typed /\ DownIsIdle /\ [Next]_vars => (Typed /\ DownIsIdle)'
  BY TypedStep, DownIsIdleStep
<1> QED
  BY <1>1, <1>2, TypedIsTypeOK, PTL DEF Spec

\* config.json is readable whenever nobody is writing it and the program has
\* never crashed, if no command runs beside the window: the threads of one
\* process never write it at the same time.
THEOREM FileStaysReadable == ~CliOverlap => (Spec => []FileReadable)
<1> SUFFICES ASSUME ~CliOverlap PROVE Spec => []FileReadable
  OBVIOUS
<1> DEFINE IInv == Typed /\ DownIsIdle /\ Apart /\ WriterHolds /\ TornWhileWritten
<1>1. Init => IInv
  BY Initially
<1>2. IInv /\ [Next]_vars => IInv'
  BY TypedStep, DownIsIdleStep, ApartStep, WriterHoldsStep, TornWhileWrittenStep
<1>3. IInv => FileReadable
  BY DEF TornWhileWritten
<1> QED
  BY <1>1, <1>2, <1>3, PTL DEF Spec

\* Whatever the window's threads save, and wherever it crashes, once its
\* threads are at rest config.json read again gives what it has in memory, if
\* no command runs beside it and no save fails.
THEOREM NoSaveIsLost ==
    ~CliOverlap /\ "save" \notin Faulty => (Spec => []SavedIsMemory)
<1> SUFFICES ASSUME ~CliOverlap, "save" \notin Faulty PROVE Spec => []SavedIsMemory
  OBVIOUS
<1> DEFINE IInv == /\ Typed /\ DownIsIdle /\ Apart /\ WriterHolds /\ TornWhileWritten
                   /\ Saved
<1>1. Init => IInv
  BY Initially
<1>2. IInv /\ [Next]_vars => IInv'
  BY TypedStep, DownIsIdleStep, ApartStep, WriterHoldsStep, TornWhileWrittenStep, SavedStep
<1>3. IInv => SavedIsMemory
  BY DEF Saved, SavedIsMemory, AtRest, At
<1> QED
  BY <1>1, <1>2, <1>3, PTL DEF Spec

\* What the window exports passes the check of its own import, whatever runs
\* beside it, fails or crashes, but for a language that was in a file found at
\* the first start and that the program does not know.
THEOREM ExportIsAccepted == Spec => []ExportAccepted
<1> DEFINE IInv == Typed /\ DownIsIdle /\ WriterHolds /\ Spoken
<1>1. Init => IInv
  BY Initially
<1>2. IInv /\ [Next]_vars => IInv'
  BY TypedStep, DownIsIdleStep, WriterHoldsStep, SpokenStep
<1>3. IInv => ExportAccepted
  <2> SUFFICES ASSUME Typed, Spoken PROVE ExportAccepted
    OBVIOUS
  <2> DEFINE c == cfg["window"]
  <2>1. c \in Known /\ c.lang \in Heard
    BY DEF Typed, Spoken, Procs
  <2> HIDE DEF c
  <2>2. CASE c.lang \in Languages
    <3>1. Valid(Portable(c))
      BY <2>1, <2>2 DEF Valid, Portable, Known
    <3> QED
      BY <3>1 DEF ExportAccepted, c
  <2>3. CASE c.lang \notin Languages
    <3>1. c.lang \in UnknownFound
      BY <2>1, <2>3 DEF Heard, UnknownFound
    <3>2. Valid([Portable(c) EXCEPT !.lang = "en"])
      BY <2>1 DEF Valid, Portable, Known, Languages
    <3> QED
      BY <3>1, <3>2 DEF ExportAccepted, c
  <2> QED
    BY <2>2, <2>3
<1> QED
  BY <1>1, <1>2, <1>3, PTL DEF Spec

-----------------------------------------------------------------------------
(***************************************************************************)
(* At rest the settings the window shows are in force, and the check box   *)
(* tells the truth about the logon task.                                   *)
(*                                                                         *)
(* A setting is in two places, the configuration and the hardware (or the  *)
(* task), and the steps of a thread change one after the other.  A step is *)
(* loud for a setting if it changes what either place says, and quiet      *)
(* otherwise.  One invariant for each setting says which loud step the     *)
(* thread that sets it comes to next, and what agrees until then: all its  *)
(* work is quiet and the two places agree, or it awaits a save of what the *)
(* hardware has, or a write of what the configuration has, or a restore,   *)
(* or it is at the head of an import.  The check box and the sensor are    *)
(* the main thread's; the power mode and the curves belong to any thread   *)
(* of the window, one at a time.                                           *)
(***************************************************************************)

\* A step a thread may have to do, the end of a save included.
Doable == Plain \cup [do : {"flush"}, text : Known]

Changing(x, field) == x.do = "save" /\ field \in DOMAIN x.change

LoudForStart(x)  == x.do \in {"sync", "task"} \/ Changing(x, "start")
LoudForSource(x) == x.do \in {"preferSaved", "prefer"} \/ Changing(x, "source")
LoudForPower(x)  == x.do \in {"restore", "power"} \/ Changing(x, "power")
LoudForFan(x)    == \/ x.do \in {"restore", "curves"}
                    \/ Changing(x, "fan") /\ x.change.fan # "keep"

\* Steps after which a thread always comes to the next one.
Passing(x) == x.do \notin {"stuck", "ready"} /\ (x.do = "task" => ~x.undo)

StartQuiet  == {x \in Doable : ~LoudForStart(x)}
SourceQuiet == {x \in Doable : ~LoudForSource(x)}
PowerQuiet  == {x \in Doable : ~LoudForPower(x)}
FanQuiet    == {x \in Doable : ~LoudForFan(x)}

\* Work whose next loud step, one that is certain to come, is x.
Awaits(R, w, x) ==
    \E q \in Seq({y \in R : Passing(y)}), r \in Seq(R) : w = q \o (<<x>> \o r)

\* What a step is replaced with.
Follows(t, x, s) ==
    \/ s = <<>>
    \/ x.do = "power" /\ s = <<Save([power |-> x.mode], FALSE)>>
    \/ x.do = "curves" /\ s = <<Save([fan |-> x.curves], FALSE)>>
    \/ x.do = "save" /\ s = <<Flush(Updated(cfg[ProcessOf(t)], x.change))>>
    \/ x.do = "restore" /\ s = RestoreSteps(cfg["window"])
    \/ x.do = "sync" /\ \E on \in BOOLEAN : s = <<Save([start |-> on], FALSE)>>

\* A failing registration takes the check box back, and nothing else is done.
TakenBack(t, x) ==
    /\ x.do = "task" /\ x.undo
    /\ todo' = [todo EXCEPT ![t] = <<Save([start |-> ~x.on], FALSE)>>]

\* Saves succeed, an import can register its task, and what schtasks has done
\* is not reported as a failure.  A registration the user asks for may fail.
Obeyed == {"save", "import", "late"} \cap Faulty = {} /\ Installed

LEMMA AnyWork ==
    ASSUME NEW w, Orderly(w)
    PROVE  w \in Seq(Doable)
<1>1. CASE w \in Seq(Plain)
  BY <1>1 DEF Doable
<1>2. ASSUME NEW text \in Known, NEW rest \in Seq(Plain), w = <<Flush(text)>> \o rest
      PROVE  w \in Seq(Doable)
  <2>1. Flush(text) \in Doable
    BY DEF Flush, Doable
  <2>2. rest \in Seq(Doable) /\ <<Flush(text)>> \in Seq(Doable)
    BY <2>1 DEF Doable
  <2> QED
    BY <1>2, <2>2
<1> QED
  BY <1>1, <1>2 DEF Orderly

\* Quiet work goes on quietly.
LEMMA GoesOn ==
    ASSUME NEW R, NEW w \in Seq(R), w # <<>>
    PROVE  Head(w) \in R /\ Tail(w) \in Seq(R) /\ \A s \in Seq(R) : s \o Tail(w) \in Seq(R)
  OBVIOUS

\* Work with a loud step to come is at that step or at one before it.
LEMMA ComesTo ==
    ASSUME NEW R, NEW w, NEW x, Awaits(R, w, x)
    PROVE  /\ w # <<>>
           /\ \/ Head(w) = x /\ Tail(w) \in Seq(R)
              \/ /\ Head(w) \in R /\ Passing(Head(w))
                 /\ \A s \in Seq({y \in R : Passing(y)}) : Awaits(R, s \o Tail(w), x)
<1> DEFINE Q == {y \in R : Passing(y)}
           A == R \cup {x}
<1>1. PICK q \in Seq(Q), r \in Seq(R) : w = q \o (<<x>> \o r)
  BY DEF Awaits
<1> HIDE DEF Q
<1>q. Q \subseteq R /\ \A y \in Q : Passing(y)
  BY DEF Q
<1>2. <<x>> \o r \in Seq(A) /\ <<x>> \o r # <<>> /\ Head(<<x>> \o r) = x /\ Tail(<<x>> \o r) = r
  OBVIOUS
<1>3. CASE q = <<>>
  <2>1. w = <<x>> \o r
    BY <1>1, <1>2, <1>3
  <2> QED
    BY <1>2, <2>1
<1>4. CASE q # <<>>
  <2> DEFINE v == <<x>> \o r
  <2>1. q \in Seq(A) /\ Head(q) \in Q /\ Tail(q) \in Seq(Q) /\ Tail(q) \in Seq(A)
    BY <1>4, <1>q
  <2>2. w # <<>> /\ Head(w) = Head(q) /\ Tail(w) = Tail(q) \o v
    <3>1. v \in Seq(A)
      BY <1>2
    <3> HIDE DEF v
    <3>2. w = q \o v
      BY <1>1 DEF v
    <3> QED
      BY <1>4, <2>1, <3>1, <3>2
  <2>3. ASSUME NEW s \in Seq(Q) PROVE Awaits(R, s \o Tail(w), x)
    <3>1. s \o Tail(q) \in Seq(Q)
      BY <2>1
    <3> DEFINE u == Tail(q)
    <3>2. s \o Tail(w) = (s \o u) \o v
      <4>1. v \in Seq(A) /\ s \in Seq(A) /\ u \in Seq(A)
        BY <1>2, <1>q, <2>1
      <4>2. Tail(w) = u \o v
        BY <2>2
      <4> HIDE DEF A, u, v
      <4>3. (s \o u) \o v = s \o (u \o v)
        BY <4>1, ConcatAssociative
      <4> QED
        BY <4>2, <4>3
    <3> QED
      BY <3>1, <3>2 DEF Awaits, Q
  <2> QED
    BY <1>q, <2>1, <2>2, <2>3 DEF Q
<1> QED
  BY <1>3, <1>4

LEMMA ComesNext ==
    ASSUME NEW R, NEW x, NEW r \in Seq(R)
    PROVE  /\ Awaits(R, <<x>> \o r, x)
           /\ \A y \in R : Passing(y) => Awaits(R, <<y>> \o (<<x>> \o r), x)
<1>1. <<>> \in Seq({y \in R : Passing(y)})
      /\ \A y \in R : Passing(y) => <<y>> \in Seq({z \in R : Passing(z)})
  OBVIOUS
<1>2. <<x>> \o r \in Seq(R \cup {x})
  OBVIOUS
<1>3. <<>> \o (<<x>> \o r) = <<x>> \o r
  BY <1>2
<1> QED
  BY <1>1, <1>3 DEF Awaits
-----------------------------------------------------------------------------
\* A thread at a step takes the action for it.
LEMMA WhichAction ==
    ASSUME NEW t, Advance(t)
    PROVE  /\ todo[t] # <<>>
           /\ Now(t).do = "power" => WritePower(t)
           /\ Now(t).do = "curves" => InstallCurves(t)
           /\ Now(t).do \in {"prefer", "preferSaved"} => InstallSource(t)
           /\ Now(t).do = "save" => OpenFile(t)
           /\ Now(t).do = "flush" => WriteFile(t)
           /\ Now(t).do = "restore" => Restore(t)
           /\ Now(t).do = "task" => SetTask(t)
           /\ Now(t).do = "sync" => SyncTask(t)
           /\ Now(t).do \in {"power", "curves", "prefer", "preferSaved", "save", "flush",
                             "restore", "task", "sync"}
BY DEF Advance, WritePower, InstallCurves, InstallSource, OpenFile, WriteFile, Restore,
       SetTask, SyncTask, At, Now, Idle

LEMMA DoableWork ==
    ASSUME Typed, NEW t \in Threads
    PROVE  todo[t] \in Seq(Doable)
BY AnyWork DEF Typed

LEMMA DoableFields ==
    ASSUME NEW x \in Doable
    PROVE  /\ x.do = "power" => x.mode \in Modes /\ x.who \in {"user", "restore"}
           /\ x.do = "curves" => x.curves \in Curves
           /\ x.do = "prefer" => x.source \in Sources
           /\ x.do = "save" => x.change \in Changes
           /\ x.do = "task" => x.on \in BOOLEAN /\ x.undo \in BOOLEAN
BY DEF Plain, Doable

\* One step of a thread puts others in its place, if what is written succeeds.
LEMMA AdvanceGoes ==
    ASSUME Typed, Obeyed, NEW t \in Threads, Advance(t)
    PROVE  /\ todo[t] \in Seq(Doable) /\ todo[t] # <<>>
           /\ \/ \E s : Follows(t, Now(t), s) /\ todo' = [todo EXCEPT ![t] = s \o Rest(t)]
              \/ TakenBack(t, Now(t))
<1> DEFINE x == Now(t)
           Fine(s) == Follows(t, x, s) /\ todo' = [todo EXCEPT ![t] = s \o Rest(t)]
<1>0. todo[t] \in Seq(Doable) /\ todo[t] # <<>> /\ x \in Doable /\ Rest(t) \in Seq(Doable)
  <2>1. todo[t] \in Seq(Doable) /\ todo[t] # <<>>
    BY DoableWork, WhichAction
  <2> QED
    BY <2>1 DEF Now, Rest
<1>1. <<>> \o Rest(t) = Rest(t)
  BY <1>0
<1>2. Goes(t, Rest(t)) => Fine(<<>>)
  BY <1>1 DEF Goes, Follows
<1>f. ASSUME NEW k \in {"save", "import", "late"} PROVE ~Fails(k)
  BY DEF Obeyed, Fails
<1>3. CASE x.do = "power"
  <2>1. \/ Goes(t, <<Save([power |-> x.mode], FALSE)>> \o Rest(t))
        \/ Goes(t, Rest(t))
    BY <1>3, WhichAction DEF WritePower
  <2>2. Goes(t, <<Save([power |-> x.mode], FALSE)>> \o Rest(t))
           => Fine(<<Save([power |-> x.mode], FALSE)>>)
    BY <1>3 DEF Goes, Follows
  <2> QED
    BY <1>0, <1>2, <2>1, <2>2
<1>4. CASE x.do = "curves"
  <2>1. \/ Goes(t, <<Save([fan |-> x.curves], FALSE)>> \o Rest(t))
        \/ Goes(t, Rest(t))
    BY <1>4, WhichAction DEF InstallCurves
  <2>2. Goes(t, <<Save([fan |-> x.curves], FALSE)>> \o Rest(t))
           => Fine(<<Save([fan |-> x.curves], FALSE)>>)
    BY <1>4 DEF Goes, Follows
  <2> QED
    BY <1>0, <1>2, <2>1, <2>2
<1>5. CASE x.do \in {"prefer", "preferSaved"}
  BY <1>0, <1>2, <1>5, WhichAction DEF InstallSource
<1>6. CASE x.do = "save"
  <2>1. Goes(t, <<Flush(Updated(cfg[ProcessOf(t)], x.change))>> \o Rest(t))
    BY <1>6, <1>f, WhichAction DEF OpenFile
  <2>2. Fine(<<Flush(Updated(cfg[ProcessOf(t)], x.change))>>)
    BY <1>6, <2>1 DEF Goes, Follows
  <2> QED
    BY <1>0, <2>2
<1>7. CASE x.do = "flush"
  BY <1>0, <1>2, <1>7, WhichAction DEF WriteFile
<1>8. CASE x.do = "restore"
  <2>1. Goes(t, RestoreSteps(cfg["window"]) \o Rest(t))
    BY <1>8, WhichAction DEF Restore
  <2>2. Fine(RestoreSteps(cfg["window"]))
    BY <1>8, <2>1 DEF Goes, Follows
  <2> QED
    BY <1>0, <2>2
<1>9. CASE x.do = "task"
  <2>1. SetTask(t) /\ x.on \in BOOLEAN /\ x.undo \in BOOLEAN /\ Installed
    BY <1>0, <1>9, WhichAction, DoableFields DEF Obeyed
  <2>2. \/ Goes(t, Rest(t))
        \/ x.undo /\ Goes(t, AfterTaskError(t))
    BY <1>f, <2>1 DEF SetTask, LateFailure
  <2>3. x.undo /\ Goes(t, AfterTaskError(t)) => TakenBack(t, x)
    BY <1>9 DEF Goes, AfterTaskError, TakenBack
  <2> QED
    BY <1>0, <1>2, <2>2, <2>3
<1>10. CASE x.do = "sync"
  <2>1. \/ Goes(t, Rest(t))
        \/ \E on \in BOOLEAN : Goes(t, <<Save([start |-> on], FALSE)>> \o Rest(t))
    BY <1>10, WhichAction DEF SyncTask
  <2>2. \A on \in BOOLEAN : Goes(t, <<Save([start |-> on], FALSE)>> \o Rest(t))
           => Fine(<<Save([start |-> on], FALSE)>>)
    BY <1>10 DEF Goes, Follows
  <2> QED
    BY <1>0, <1>2, <2>1, <2>2
<1> QED
  BY <1>3, <1>4, <1>5, <1>6, <1>7, <1>8, <1>9, <1>10, WhichAction

\* What a step does not touch.
LEMMA AdvanceKeeps ==
    ASSUME Typed, NEW t \in Threads, Advance(t)
    PROVE  /\ phase' = phase
           /\ Now(t).do \notin {"task", "sync"} => task' = task
           /\ Now(t).do # "power" => apu' = apu
           /\ Now(t).do # "curves" => curves' = curves
           /\ Now(t).do \notin {"prefer", "preferSaved"} => preferred' = preferred
           /\ Now(t).do # "save" \/ t = "cli" => cfg'["window"] = cfg["window"]
<1> USE DEF hardware, memory
<1>0. DOMAIN cfg = Procs /\ Procs = {"window", "cli"}
  BY DEF Typed, Procs
<1>1. CASE Now(t).do = "power"
  BY <1>1, WhichAction DEF WritePower
<1>2. CASE Now(t).do = "curves"
  BY <1>2, WhichAction DEF InstallCurves
<1>3. CASE Now(t).do \in {"prefer", "preferSaved"}
  BY <1>3, WhichAction DEF InstallSource
<1>4. CASE Now(t).do = "save"
  <2>1. \E c : cfg' = [cfg EXCEPT ![ProcessOf(t)] = c]
    BY <1>4, WhichAction DEF OpenFile
  <2>2. UNCHANGED <<hardware, phase>>
    BY <1>4, WhichAction DEF OpenFile
  <2>3. t = "cli" => cfg'["window"] = cfg["window"]
    BY <1>0, <2>1 DEF ProcessOf
  <2> QED
    BY <1>4, <2>2, <2>3
<1>5. CASE Now(t).do = "flush"
  BY <1>5, WhichAction DEF WriteFile
<1>6. CASE Now(t).do = "restore"
  BY <1>6, WhichAction DEF Restore
<1>7. CASE Now(t).do = "task"
  BY <1>7, WhichAction DEF SetTask
<1>8. CASE Now(t).do = "sync"
  BY <1>8, WhichAction DEF SyncTask
<1> QED
  BY <1>1, <1>2, <1>3, <1>4, <1>5, <1>6, <1>7, <1>8, WhichAction

\* What a save of the window changes of its configuration.
LEMMA SaveMakes ==
    ASSUME Typed, NEW t \in Threads, t # "cli", Advance(t), Now(t).do = "save"
    PROVE  /\ \A f \in {"power", "fan", "start", "source"} :
                f \notin DOMAIN Now(t).change => cfg'["window"][f] = cfg["window"][f]
           /\ \A f \in {"power", "start", "source"} :
                f \in DOMAIN Now(t).change => cfg'["window"][f] = Now(t).change[f]
           /\ "fan" \in DOMAIN Now(t).change =>
                /\ Now(t).change.fan # "keep" => cfg'["window"].fan = Now(t).change.fan
                /\ Now(t).change.fan = "keep" /\ cfg["window"].fan # "missing"
                        => cfg'["window"].fan = cfg["window"].fan
<1> DEFINE c == cfg["window"]
           u == Updated(c, Now(t).change)
<1>1. cfg' = [cfg EXCEPT !["window"] = u]
  BY WhichAction DEF OpenFile, ProcessOf
<1>2. c \in Known /\ DOMAIN c = {"power", "fan", "start", "lang", "source"}
      /\ "window" \in DOMAIN cfg
  BY DEF Typed, Procs, Known
<1>3. cfg'["window"] = u
  BY <1>1, <1>2
<1>4. \A f \in DOMAIN c : f \notin DOMAIN Now(t).change => u[f] = c[f]
  BY DEF Updated
<1>5. \A f \in DOMAIN c : f \in DOMAIN Now(t).change /\ f # "fan" => u[f] = Now(t).change[f]
  BY DEF Updated
<1>6. "fan" \in DOMAIN Now(t).change =>
        /\ Now(t).change["fan"] # "keep" => u["fan"] = Now(t).change["fan"]
        /\ Now(t).change["fan"] = "keep" /\ c["fan"] # "missing" => u["fan"] = c["fan"]
  BY <1>2 DEF Updated
<1> HIDE DEF u
<1> QED
  BY <1>2, <1>3, <1>4, <1>5, <1>6
-----------------------------------------------------------------------------
(***************************************************************************)
(* Quiet work stays quiet.                                                 *)
(***************************************************************************)
\* What the threads other than the main one do.
Side == {x \in Doable : \/ x.do \in {"power", "curves", "flush"}
                        \/ /\ x.do = "save"
                           /\ DOMAIN x.change \in {{"power"}, {"fan"}}}

Certain(R) == {y \in R : Passing(y)}

LEMMA SingleFields ==
    /\ \A m : DOMAIN [power |-> m] = {"power"} /\ [power |-> m].power = m
    /\ \A c : DOMAIN [fan |-> c] = {"fan"} /\ [fan |-> c].fan = c
    /\ \A on : DOMAIN [start |-> on] = {"start"} /\ [start |-> on].start = on
    /\ \A s : DOMAIN [source |-> s] = {"source"} /\ [source |-> s].source = s
    /\ \A change, strict : /\ Save(change, strict).do = "save"
                           /\ Save(change, strict).change = change
    /\ \A text : Flush(text).do = "flush"
    /\ \A m, who : /\ Power(m, who).do = "power" /\ Power(m, who).mode = m
                   /\ Power(m, who).who = who
    /\ \A c, who : FanCurve(c, who).do = "curves" /\ FanCurve(c, who).curves = c
    /\ \A s : Prefer(s).do = "prefer" /\ Prefer(s).source = s
    /\ \A on, undo : /\ Task(on, undo).do = "task" /\ Task(on, undo).on = on
                     /\ Task(on, undo).undo = undo
    /\ \A do : Step(do).do = do
BY DEF Save, Flush, Power, FanCurve, Prefer, Task, Step

\* The steps a step is replaced with are Doable and certain to be passed.
LEMMA FollowersDoable ==
    /\ \A m \in Modes : Save([power |-> m], FALSE) \in Doable
    /\ \A c \in Curves : Save([fan |-> c], FALSE) \in Doable
    /\ \A on \in BOOLEAN : Save([start |-> on], FALSE) \in Doable
    /\ \A text \in Known : Flush(text) \in Doable
    /\ \A m \in Modes : Power(m, "restore") \in Doable
    /\ \A c \in Curves : FanCurve(c, "restore") \in Doable
BY PlainSteps, ChangesMade DEF Doable, Flush

LEMMA Alone ==
    ASSUME NEW R, NEW x, x \in R, Passing(x)
    PROVE  <<x>> \in Seq(Certain(R))
BY DEF Certain

\* A quiet step is replaced with quiet steps that are certain to be passed.
LEMMA QuietFollows ==
    ASSUME Typed, NEW t \in Threads, NEW x \in Doable, NEW s, Follows(t, x, s)
    PROVE  /\ x \in StartQuiet => s \in Seq(Certain(StartQuiet))
           /\ x \in SourceQuiet => s \in Seq(Certain(SourceQuiet))
           /\ x \in PowerQuiet => s \in Seq(Certain(PowerQuiet))
           /\ x \in FanQuiet => s \in Seq(Certain(FanQuiet))
           /\ x \in Side => s \in Seq(Side)
<1> USE DEF LoudForStart, LoudForSource, LoudForPower, LoudForFan, Changing
<1>k. cfg["window"] \in Known /\ cfg[ProcessOf(t)] \in Known
  BY DEF Typed, Procs, ProcessOf
<1>1. CASE s = <<>>
  BY <1>1
<1>2. CASE x.do = "power" /\ s = <<Save([power |-> x.mode], FALSE)>>
  <2> DEFINE y == Save([power |-> x.mode], FALSE)
  <2>1. y \in Doable /\ y.do = "save" /\ DOMAIN y.change = {"power"}
    <3>1. y \in Doable
      BY <1>2, FollowersDoable, DoableFields
    <3>2. y.do = "save" /\ y.change = [power |-> x.mode]
      BY DEF Save
    <3> HIDE DEF y
    <3> QED
      BY <3>1, <3>2
  <2> HIDE DEF y
  <2>2. y \in StartQuiet /\ y \in SourceQuiet /\ y \in FanQuiet /\ y \in Side /\ Passing(y)
    BY <2>1 DEF StartQuiet, SourceQuiet, FanQuiet, Side, Passing
  <2>3. x \notin PowerQuiet
    BY <1>2 DEF PowerQuiet
  <2>4. s = <<y>>
    BY <1>2 DEF y
  <2> QED
    BY <2>2, <2>3, <2>4, Alone
<1>3. CASE x.do = "curves" /\ s = <<Save([fan |-> x.curves], FALSE)>>
  <2> DEFINE y == Save([fan |-> x.curves], FALSE)
  <2>1. y \in Doable /\ y.do = "save" /\ DOMAIN y.change = {"fan"}
    <3>1. y \in Doable
      BY <1>3, FollowersDoable, DoableFields
    <3>2. y.do = "save" /\ y.change = [fan |-> x.curves]
      BY DEF Save
    <3> HIDE DEF y
    <3> QED
      BY <3>1, <3>2
  <2> HIDE DEF y
  <2>2. y \in StartQuiet /\ y \in SourceQuiet /\ y \in PowerQuiet /\ y \in Side /\ Passing(y)
    BY <2>1 DEF StartQuiet, SourceQuiet, PowerQuiet, Side, Passing
  <2>3. x \notin FanQuiet
    BY <1>3 DEF FanQuiet
  <2>4. s = <<y>>
    BY <1>3 DEF y
  <2> QED
    BY <2>2, <2>3, <2>4, Alone
<1>4. CASE x.do = "save" /\ s = <<Flush(Updated(cfg[ProcessOf(t)], x.change))>>
  <2> DEFINE y == Flush(Updated(cfg[ProcessOf(t)], x.change))
  <2>1. y \in Doable /\ y.do = "flush"
    BY <1>k, <1>4, FollowersDoable, DoableFields, SingleFields, SavedIsKnown
  <2>4. s = <<y>>
    BY <1>4
  <2> HIDE DEF y
  <2>2. /\ y \in StartQuiet /\ y \in SourceQuiet /\ y \in PowerQuiet /\ y \in FanQuiet
        /\ y \in Side /\ Passing(y)
    BY <2>1 DEF StartQuiet, SourceQuiet, PowerQuiet, FanQuiet, Side, Passing
  <2> QED
    BY <2>2, <2>4, Alone
<1>5. CASE x.do = "restore" /\ s = RestoreSteps(cfg["window"])
  <2> DEFINE c == cfg["window"]
             a == IF c.power = "none" THEN <<>> ELSE <<Power(c.power, "restore")>>
             b == IF c.fan = "missing" THEN <<>> ELSE <<FanCurve(c.fan, "restore")>>
  <2>1. c.power = "none" \/ c.power \in Modes
    BY <1>k DEF Known
  <2>2. c.fan = "missing" \/ c.fan \in Curves
    BY <1>k DEF Known
  <2>3. /\ c.power \in Modes => /\ Power(c.power, "restore") \in StartQuiet
                                /\ Power(c.power, "restore") \in SourceQuiet
        /\ Passing(Power(c.power, "restore"))
    BY FollowersDoable, SingleFields DEF StartQuiet, SourceQuiet, Passing
  <2>4. /\ c.fan \in Curves => /\ FanCurve(c.fan, "restore") \in StartQuiet
                               /\ FanCurve(c.fan, "restore") \in SourceQuiet
        /\ Passing(FanCurve(c.fan, "restore"))
    BY FollowersDoable, SingleFields DEF StartQuiet, SourceQuiet, Passing
  <2>5. a \in Seq(Certain(StartQuiet)) /\ a \in Seq(Certain(SourceQuiet))
    BY <2>1, <2>3, Alone
  <2>6. b \in Seq(Certain(StartQuiet)) /\ b \in Seq(Certain(SourceQuiet))
    BY <2>2, <2>4, Alone
  <2>7. s = a \o b
    BY <1>5 DEF RestoreSteps
  <2>8. x \notin PowerQuiet /\ x \notin FanQuiet /\ x \notin Side
    BY <1>5 DEF PowerQuiet, FanQuiet, Side
  <2> HIDE DEF a, b
  <2> QED
    BY <2>5, <2>6, <2>7, <2>8
<1>6. ASSUME NEW on \in BOOLEAN, x.do = "sync", s = <<Save([start |-> on], FALSE)>>
      PROVE  /\ x \notin StartQuiet /\ x \notin Side
             /\ s \in Seq(Certain(SourceQuiet))
             /\ s \in Seq(Certain(PowerQuiet)) /\ s \in Seq(Certain(FanQuiet))
  <2> DEFINE y == Save([start |-> on], FALSE)
  <2>1. y \in Doable /\ y.do = "save" /\ DOMAIN y.change = {"start"}
    <3>1. y \in Doable
      BY FollowersDoable
    <3>2. y.do = "save" /\ y.change = [start |-> on]
      BY DEF Save
    <3> HIDE DEF y
    <3> QED
      BY <3>1, <3>2
  <2>4. s = <<y>>
    BY <1>6
  <2> HIDE DEF y
  <2>2. y \in SourceQuiet /\ y \in PowerQuiet /\ y \in FanQuiet /\ Passing(y)
    BY <2>1 DEF SourceQuiet, PowerQuiet, FanQuiet, Passing
  <2>3. x \notin StartQuiet /\ x \notin Side
    BY <1>6 DEF StartQuiet, Side
  <2> QED
    BY <2>2, <2>3, <2>4, Alone
<1> QED
  BY <1>1, <1>2, <1>3, <1>4, <1>5, <1>6 DEF Follows

\* A check box taken back is loud for nothing but itself.
LEMMA TakenBackQuietly ==
    ASSUME Typed, NEW t \in Threads, NEW x \in Doable, TakenBack(t, x)
    PROVE  /\ todo'[t] \in Seq(SourceQuiet) /\ todo'[t] \in Seq(PowerQuiet)
           /\ todo'[t] \in Seq(FanQuiet)
           /\ x \notin Side /\ ~Passing(x)
<1> USE DEF LoudForSource, LoudForPower, LoudForFan, Changing
<1> DEFINE y == Save([start |-> ~x.on], FALSE)
<1>1. y \in Doable /\ y.do = "save" /\ DOMAIN y.change = {"start"}
  <2>1. (~x.on) \in BOOLEAN
    BY DoableFields DEF TakenBack
  <2>2. y \in Doable
    BY <2>1, FollowersDoable
  <2>3. y.do = "save" /\ y.change = [start |-> ~x.on]
    BY DEF Save
  <2> HIDE DEF y
  <2> QED
    BY <2>2, <2>3
<1>2. todo'[t] = <<y>>
  BY DEF TakenBack, Typed
<1> HIDE DEF y
<1>3. y \in SourceQuiet /\ y \in PowerQuiet /\ y \in FanQuiet
  BY <1>1 DEF SourceQuiet, PowerQuiet, FanQuiet
<1>4. x \notin Side /\ ~Passing(x)
  BY DEF TakenBack, Side, Passing
<1> QED
  BY <1>2, <1>3, <1>4
-----------------------------------------------------------------------------
(***************************************************************************)
(* Threads other than the main one only set the power mode and fans.       *)
(***************************************************************************)
SideInv == \A t \in Threads \ {"main"} : todo[t] \in Seq(Side)

LEMMA SideSteps ==
    /\ \A m \in Modes : <<Power(m, "user")>> \in Seq(Side)
    /\ <<FanCurve("own", "user")>> \in Seq(Side)
    /\ <<Save([fan |-> "keep"], FALSE)>> \in Seq(Side)
    /\ <<Flush(DefaultConfig)>> \in Seq(Side)
<1>1. ASSUME NEW m \in Modes PROVE Power(m, "user") \in Side
  BY PlainSteps, SingleFields DEF Side, Doable
<1>2. FanCurve("own", "user") \in Side
  BY PlainSteps, SingleFields DEF Side, Doable, Curves
<1>3. Save([fan |-> "keep"], FALSE) \in Side
  <2> DEFINE y == Save([fan |-> "keep"], FALSE)
  <2>1. y \in Doable
    BY PlainSteps, ChangesMade DEF Doable
  <2>2. y.do = "save" /\ y.change = [fan |-> "keep"]
    BY DEF Save
  <2> HIDE DEF y
  <2>3. y \in Side
    BY <2>1, <2>2 DEF Side
  <2> QED
    BY <2>3 DEF y
<1>4. Flush(DefaultConfig) \in Side
  BY FollowersDoable, SingleFields, DefaultIsKnown DEF Side
<1>5. \A x \in Side : <<x>> \in Seq(Side)
  OBVIOUS
<1> QED
  BY <1>1, <1>2, <1>3, <1>4, <1>5

\* A user's operation gives an idle thread its work, and nothing else.
LEMMA BeginMakes ==
    ASSUME Typed, NEW t \in Threads, NEW w, Begin(t, w)
    PROVE  /\ phase = "running" /\ phase' = phase /\ todo[t] = <<>>
           /\ todo'[t] = w /\ \A s \in Threads : s # t => todo'[s] = todo[s]
           /\ cfg' = cfg /\ task' = task /\ apu' = apu /\ curves' = curves
           /\ preferred' = preferred /\ file' = file
BY DEF Begin, Goes, Idle, Typed, hardware, memory

LEMMA ReadyMakes ==
    ASSUME Typed, Ready
    PROVE  /\ todo["main"] # <<>> /\ Head(todo["main"]).do = "ready" /\ phase' # "down"
           /\ todo'["main"] = Tail(todo["main"])
           /\ \A s \in Threads : s # "main" => todo'[s] = todo[s]
           /\ cfg' = cfg /\ task' = task /\ apu' = apu /\ curves' = curves
           /\ preferred' = preferred /\ file' = file
BY DEF Ready, Goes, At, Idle, Rest, Typed, hardware, memory, Threads

LEMMA EndMakes ==
    ASSUME Quit \/ Crash
    PROVE  /\ phase' = "down" /\ cfg' = cfg /\ file' = file
           /\ \A s \in Threads : todo'[s] \in {todo[s], <<>>}
BY DEF Quit, Crash, WindowGone

LEMMA LaunchMakes ==
    ASSUME Typed, Launch
    PROVE  \/ UNCHANGED <<file, cfg, lock, apu, curves, preferred, task, phase, todo>>
           \/ /\ phase = "down" /\ phase' = "starting" /\ curves' = "stock"
              /\ CliOverlap \/ todo["cli"] = <<>>
              /\ \A s \in Threads : s # "main" => todo'[s] = todo[s]
              /\ \/ /\ todo'["main"] = StartSteps /\ file \in Config /\ file' = file
                    /\ cfg' = [cfg EXCEPT !["window"] = Sanitised(file)]
                 \/ /\ todo'["main"] = <<Flush(DefaultConfig)>> \o StartSteps
                    /\ file' = Torn /\ cfg' = [cfg EXCEPT !["window"] = DefaultConfig]
BY DEF Launch, Load, Goes, Idle, Typed, hardware, memory, Threads

LEMMA CommandMakes ==
    ASSUME Typed, NEW m \in Modes, CliMode(m)
    PROVE  /\ CliOverlap \/ phase = "down"
           /\ phase' = phase /\ task' = task /\ apu' = apu /\ curves' = curves
           /\ preferred' = preferred /\ cfg'["window"] = cfg["window"]
           /\ \A s \in Threads : s # "cli" => todo'[s] = todo[s]
           /\ \/ /\ todo'["cli"] = <<Power(m, "user")>> /\ file \in Config /\ file' = file
                 /\ cfg' = [cfg EXCEPT !["cli"] = Sanitised(file)]
              \/ /\ todo'["cli"] = <<Flush(DefaultConfig)>> \o <<Power(m, "user")>>
                 /\ file' = Torn /\ cfg' = [cfg EXCEPT !["cli"] = DefaultConfig]
BY DEF CliMode, Load, Goes, Typed, hardware, memory, Threads, Procs

\* A thread's step leaves the others' work alone.
LEMMA AdvanceAlone ==
    ASSUME Typed, Obeyed, NEW t \in Threads, Advance(t)
    PROVE  \A s \in Threads : s # t => todo'[s] = todo[s]
<1>1. \E w : todo' = [todo EXCEPT ![t] = w]
  BY AdvanceGoes DEF TakenBack
<1> QED
  BY <1>1 DEF Typed

\* The first step and the rest of some work, and what it becomes.
LEMMA AdvanceFollows ==
    ASSUME Typed, Obeyed, NEW t \in Threads, Advance(t)
    PROVE  /\ todo[t] # <<>> /\ Now(t) \in Doable
           /\ \/ \E s : Follows(t, Now(t), s) /\ todo'[t] = s \o Tail(todo[t])
              \/ TakenBack(t, Now(t))
<1>1. todo[t] \in Seq(Doable) /\ todo[t] # <<>> /\ t \in DOMAIN todo
  BY AdvanceGoes DEF Typed
<1>2. Now(t) \in Doable
  BY <1>1 DEF Now
<1>3. CASE TakenBack(t, Now(t))
  BY <1>1, <1>2, <1>3
<1>4. CASE \E s : Follows(t, Now(t), s) /\ todo' = [todo EXCEPT ![t] = s \o Rest(t)]
  <2>1. PICK s : Follows(t, Now(t), s) /\ todo' = [todo EXCEPT ![t] = s \o Rest(t)]
    BY <1>4
  <2>2. todo'[t] = s \o Tail(todo[t])
    BY <1>1, <2>1, Zenon DEF Rest
  <2> QED
    BY <1>1, <1>2, <2>1, <2>2
<1> QED
  BY <1>3, <1>4, AdvanceGoes

LEMMA SideStep ==
    ASSUME Typed, Obeyed, DownIsIdle, SideInv, [Next]_vars
    PROVE  SideInv'
<1> SUFFICES ASSUME NEW s \in Threads \ {"main"} PROVE todo'[s] \in Seq(Side)
  BY DEF SideInv
<1>0. todo[s] \in Seq(Side) /\ <<>> \in Seq(Side)
  BY DEF SideInv
<1>1. CASE UNCHANGED vars
  BY <1>0, <1>1 DEF vars
<1>2. CASE Launch
  BY <1>0, <1>2, LaunchMakes
<1>3. CASE Quit \/ Crash
  BY <1>0, <1>3, EndMakes
<1>4. CASE Ready
  BY <1>0, <1>4, ReadyMakes
<1>5. ASSUME NEW m \in Modes, CliMode(m)
      PROVE  todo'[s] \in Seq(Side)
  <2>1. <<Power(m, "user")>> \in Seq(Side) /\ <<Flush(DefaultConfig)>> \in Seq(Side)
    BY SideSteps
  <2>2. <<Flush(DefaultConfig)>> \o <<Power(m, "user")>> \in Seq(Side)
    BY <2>1
  <2>3. /\ s # "cli" => todo'[s] = todo[s]
        /\ todo'["cli"] \in {<<Power(m, "user")>>,
                             <<Flush(DefaultConfig)>> \o <<Power(m, "user")>>}
    BY <1>5, CommandMakes
  <2> QED
    BY <1>0, <2>1, <2>2, <2>3
<1>6. ASSUME NEW m \in Modes, NEW t \in {"worker", "tray"}, ChoosePower(t, m)
      PROVE  todo'[s] \in Seq(Side)
  <2>1. t \in Threads
    BY DEF Threads
  <2> QED
    BY <1>0, <1>6, <2>1, BeginMakes, SideSteps DEF ChoosePower
<1>7. CASE EditCurves \/ EditOther
  <2>1. "worker" \in Threads
    BY DEF Threads
  <2> QED
    BY <1>0, <1>7, <2>1, BeginMakes, SideSteps DEF EditCurves, EditOther
<1>8. CASE \/ \E on \in BOOLEAN : PersistSettings(on)
           \/ \E o \in Sources : PersistSource(o)
           \/ \E p \in Imports : ImportConfig(p)
  <2>1. "main" \in Threads
    BY DEF Threads
  <2>2. \E w : Begin("main", w)
    BY <1>8 DEF PersistSettings, PersistSource, ImportConfig
  <2> QED
    BY <1>0, <2>1, <2>2, BeginMakes
<1>9. ASSUME NEW t \in Threads, Advance(t)
      PROVE  todo'[s] \in Seq(Side)
  <2>1. CASE s # t
    BY <1>0, <1>9, <2>1, AdvanceAlone
  <2>2. CASE s = t
    <3>1. todo[t] # <<>> /\ Now(t) \in Side /\ Tail(todo[t]) \in Seq(Side)
      BY <1>0, <1>9, <2>2, AdvanceFollows DEF Now
    <3>2. ~TakenBack(t, Now(t))
      BY <1>9, <3>1, AdvanceFollows, TakenBackQuietly
    <3>3. PICK r : Follows(t, Now(t), r) /\ todo'[t] = r \o Tail(todo[t])
      BY <1>9, <3>2, AdvanceFollows
    <3>4. r \in Seq(Side)
      BY <1>9, <3>1, <3>3, AdvanceFollows, QuietFollows
    <3> QED
      BY <2>2, <3>1, <3>3, <3>4
  <2> QED
    BY <2>1, <2>2
<1> QED
  BY <1>1, <1>2, <1>3, <1>4, <1>5, <1>6, <1>7, <1>8, <1>9 DEF Next
-----------------------------------------------------------------------------
(***************************************************************************)
(* The check box and the logon task.                                       *)
(***************************************************************************)
Ours(tk) == tk = "ours"

\* The main thread's work w, the check box on and the task tk: they agree, or
\* the next thing the main thread does about them will make them agree.
StartForm(w, on, tk) ==
    \/ w \in Seq(StartQuiet) /\ on = Ours(tk) /\ tk # "foreign"
    \/ Awaits(StartQuiet, w, Step("sync"))
    \/ /\ \E strict \in BOOLEAN :
            Awaits(StartQuiet, w, Save([start |-> Ours(tk)], strict))
       /\ tk # "foreign"
    \/ \E new \in BOOLEAN : /\ w = <<Save([start |-> new], TRUE), Task(new, TRUE)>>
                            /\ tk = Registered(~new)
    \/ /\ \E undo \in BOOLEAN : /\ Awaits(StartQuiet, w, Task(on, undo))
                                /\ undo => tk = Registered(~on)
       /\ tk # "foreign"
    \/ \E p \in Imports : Valid(p) /\ w = ImportSteps(p) /\ tk # "foreign"

StartInv == phase # "down" => StartForm(todo["main"], cfg["window"].start, task)

LEMMA Registration ==
    /\ \A on \in BOOLEAN : Registered(on) # "foreign" /\ Ours(Registered(on)) = on
    /\ \A on \in BOOLEAN : Ours(Registered(~on)) = ~on
    /\ \A tk : Ours(tk) \in BOOLEAN
    /\ Reconciled # "foreign" /\ Ours(Reconciled) = Ours(task)
<1>1. ASSUME NEW on \in BOOLEAN
      PROVE  Registered(on) # "foreign" /\ Ours(Registered(on)) = on
  BY <1>1 DEF Registered, Ours
<1>2. \A on \in BOOLEAN : (~on) \in BOOLEAN
  OBVIOUS
<1> QED
  BY <1>1, <1>2, Zenon DEF Ours, Reconciled

\* The steps that are loud for the check box.
LEMMA StartLoud ==
    /\ \A on, strict : Save([start |-> on], strict) \notin StartQuiet
    /\ \A on, undo : Task(on, undo) \notin StartQuiet
    /\ Step("sync") \notin StartQuiet
    /\ \A p \in Imports : \A strict : Valid(p) => Save(p, strict) \notin StartQuiet
<1> USE DEF StartQuiet, LoudForStart, Changing
<1>1. ASSUME NEW on, NEW strict PROVE Save([start |-> on], strict) \notin StartQuiet
  BY DEF Save
<1>2. ASSUME NEW on, NEW undo PROVE Task(on, undo) \notin StartQuiet
  BY DEF Task
<1>3. Step("sync") \notin StartQuiet
  BY DEF Step
<1>4. ASSUME NEW p \in Imports, NEW strict, Valid(p) PROVE Save(p, strict) \notin StartQuiet
  <2>1. "start" \in DOMAIN p
    BY SettingsFilesAssumption DEF Config
  <2> QED
    BY <2>1 DEF Save
<1> QED
  BY <1>1, <1>2, <1>3, <1>4

\* The first of five steps, and the others.
LEMMA Five ==
    ASSUME NEW a, NEW b, NEW c, NEW d, NEW e
    PROVE  /\ <<a, b, c, d, e>> # <<>> /\ Head(<<a, b, c, d, e>>) = a
           /\ Tail(<<a, b, c, d, e>>) = <<b, c, d, e>>
<1> DEFINE S == {a, b, c, d, e}
           w == <<a, b, c, d, e>>
           v == <<b, c, d, e>>
<1>1. w \in Seq(S) /\ Len(w) = 5 /\ w # <<>>
  OBVIOUS
<1>2. v \in Seq(S) /\ Len(v) = 4
  OBVIOUS
<1>3. Head(w) = a
  OBVIOUS
<1>4. Tail(w) \in Seq(S) /\ Len(Tail(w)) = 4
  BY <1>1
<1>5. \A i \in 1 .. 4 : Tail(w)[i] = v[i]
  OBVIOUS
<1> QED
  BY <1>1, <1>2, <1>3, <1>4, <1>5, SeqEqual

\* An import's first step, and the others.
LEMMA ImportHead ==
    ASSUME NEW p
    PROVE  /\ ImportSteps(p) # <<>> /\ Head(ImportSteps(p)) = Save(p, TRUE)
           /\ Tail(ImportSteps(p)) = <<Prefer(p.source), Task(p.start, FALSE),
                                       Step("restore"), Step("stuck")>>
<1> DEFINE a == Save(p, TRUE)
           b == Prefer(p.source)
           c == Task(p.start, FALSE)
           d == Step("restore")
           e == Step("stuck")
<1>1. ImportSteps(p) = <<a, b, c, d, e>>
  BY DEF ImportSteps
<1> HIDE DEF a, b, c, d, e
<1>2. /\ ImportSteps(p) # <<>> /\ Head(ImportSteps(p)) = a
      /\ Tail(ImportSteps(p)) = <<b, c, d, e>>
  BY <1>1, Five
<1> QED
  BY <1>2 DEF a, b, c, d, e

\* A quiet step changes nothing of the form.
LEMMA StartQuietGoes ==
    ASSUME NEW w, NEW on, NEW tk, StartForm(w, on, tk), w # <<>>, Head(w) \in StartQuiet,
           NEW s \in Seq(Certain(StartQuiet))
    PROVE  StartForm(s \o Tail(w), on, tk)
<1> DEFINE v == s \o Tail(w)
<1>1. CASE w \in Seq(StartQuiet) /\ on = Ours(tk) /\ tk # "foreign"
  <2>1. s \in Seq(StartQuiet)
    BY DEF Certain
  <2>2. v \in Seq(StartQuiet)
    BY <1>1, <2>1
  <2> QED
    BY <1>1, <2>2, Zenon DEF StartForm
<1>a. ASSUME NEW x, x \notin StartQuiet, Awaits(StartQuiet, w, x)
      PROVE  Awaits(StartQuiet, v, x)
  BY <1>a, ComesTo DEF Certain
<1>2. CASE Awaits(StartQuiet, w, Step("sync"))
  BY <1>2, <1>a, StartLoud, Zenon DEF StartForm
<1>3. CASE /\ \E strict \in BOOLEAN :
                Awaits(StartQuiet, w, Save([start |-> Ours(tk)], strict))
           /\ tk # "foreign"
  BY <1>3, <1>a, StartLoud, Zenon DEF StartForm
<1>4. ASSUME NEW new, w = <<Save([start |-> new], TRUE), Task(new, TRUE)>>
      PROVE  FALSE
  <2>1. Head(w) = Save([start |-> new], TRUE)
    BY <1>4
  <2> QED
    BY <2>1, StartLoud
<1>5. CASE /\ \E undo \in BOOLEAN : /\ Awaits(StartQuiet, w, Task(on, undo))
                                    /\ undo => tk = Registered(~on)
           /\ tk # "foreign"
  BY <1>5, <1>a, StartLoud, Zenon DEF StartForm
<1>6. ASSUME NEW p \in Imports, Valid(p), w = ImportSteps(p)
      PROVE  FALSE
  BY <1>6, ImportHead, StartLoud
<1> HIDE DEF v
<1> QED
  BY <1>1, <1>2, <1>3, <1>4, <1>5, <1>6, Zenon DEF StartForm, v
-----------------------------------------------------------------------------
\* After some quiet work comes x.
LEMMA ComesAfter ==
    ASSUME NEW R, NEW x, NEW s \in Seq(Certain(R)), NEW r \in Seq(R)
    PROVE  Awaits(R, s \o (<<x>> \o r), x)
BY DEF Awaits, Certain

LEMMA ComesAlone ==
    ASSUME NEW R, NEW x, NEW s \in Seq(Certain(R))
    PROVE  Awaits(R, s \o <<x>>, x) /\ Awaits(R, <<x>>, x)
<1>1. <<x>> \o <<>> = <<x>> /\ <<>> \o <<x>> = <<x>> /\ <<>> \in Seq(R)
      /\ <<>> \in Seq(Certain(R))
  OBVIOUS
<1> QED
  BY <1>1, ComesAfter

\* Two steps.
LEMMA Two ==
    ASSUME NEW a, NEW b
    PROVE  /\ <<a>> \o <<b>> = <<a, b>> /\ <<a>> \o <<>> = <<a>>
           /\ \A S : a \in S /\ b \in S => <<a, b>> \in Seq(S)
<1>1. <<a>> \o <<b>> = <<a, b>>
  <2> DEFINE v == <<a>> \o <<b>>
             w == <<a, b>>
  <2>1. v \in Seq({a, b}) /\ Len(v) = 2 /\ w \in Seq({a, b}) /\ Len(w) = 2
    OBVIOUS
  <2>2. \A i \in 1 .. 2 : v[i] = w[i]
    OBVIOUS
  <2> QED
    BY <2>1, <2>2, SeqEqual
<1>2. <<a>> \o <<>> = <<a>>
  OBVIOUS
<1>3. ASSUME NEW S, a \in S, b \in S PROVE <<a, b>> \in Seq(S)
  BY <1>3
<1> QED
  BY <1>1, <1>2, <1>3

\* Four steps, taken apart.
LEMMA Four ==
    ASSUME NEW a, NEW b, NEW c, NEW d
    PROVE  /\ <<a, b>> \o (<<c>> \o <<d>>) = <<a, b, c, d>>
           /\ <<a>> \o (<<b>> \o <<c, d>>) = <<a, b, c, d>>
           /\ <<a>> \o <<b, c, d>> = <<a, b, c, d>>
<1> DEFINE S == {a, b, c, d}
           w == <<a, b, c, d>>
<1>0. w \in Seq(S) /\ Len(w) = 4 /\ <<c>> \o <<d>> \in Seq(S)
      /\ <<b>> \o <<c, d>> \in Seq(S)
  OBVIOUS
<1>1. <<a, b>> \o (<<c>> \o <<d>>) = w
  <2> DEFINE v == <<a, b>> \o (<<c>> \o <<d>>)
  <2>1. v \in Seq(S) /\ Len(v) = 4
    OBVIOUS
  <2>2. \A i \in 1 .. 4 : v[i] = w[i]
    OBVIOUS
  <2> QED
    BY <1>0, <2>1, <2>2, SeqEqual
<1>2. <<a>> \o (<<b>> \o <<c, d>>) = w
  <2> DEFINE v == <<a>> \o (<<b>> \o <<c, d>>)
  <2>1. v \in Seq(S) /\ Len(v) = 4
    OBVIOUS
  <2>2. \A i \in 1 .. 4 : v[i] = w[i]
    OBVIOUS
  <2> QED
    BY <1>0, <2>1, <2>2, SeqEqual
<1>3. <<a>> \o <<b, c, d>> = w
  <2> DEFINE v == <<a>> \o <<b, c, d>>
  <2>1. v \in Seq(S) /\ Len(v) = 4
    OBVIOUS
  <2>2. \A i \in 1 .. 4 : v[i] = w[i]
    OBVIOUS
  <2> QED
    BY <1>0, <2>1, <2>2, SeqEqual
<1> QED
  BY <1>1, <1>2, <1>3

\* Some quiet work in front.
LEMMA ComesLater ==
    ASSUME NEW R, NEW x, NEW w, Awaits(R, w, x), NEW s \in Seq(Certain(R))
    PROVE  Awaits(R, s \o w, x)
<1>1. PICK q \in Seq(Certain(R)), r \in Seq(R) : w = q \o (<<x>> \o r)
  BY DEF Awaits, Certain
<1> DEFINE A == R \cup {x}
           v == <<x>> \o r
<1>2. q \in Seq(A) /\ s \in Seq(A) /\ v \in Seq(A) /\ s \o q \in Seq(Certain(R))
  BY DEF Certain
<1>3. Awaits(R, (s \o q) \o v, x)
  BY <1>2, ComesAfter
<1>4. s \o w = (s \o q) \o v
  <2> HIDE DEF A, v
  <2>1. w = q \o v
    BY <1>1 DEF v
  <2>2. (s \o q) \o v = s \o (q \o v)
    BY <1>2, ConcatAssociative
  <2> QED
    BY <2>1, <2>2
<1> QED
  BY <1>3, <1>4

\* The second or the third of four steps.
LEMMA OneOfFour ==
    ASSUME NEW R, NEW a, NEW b, NEW x, NEW c \in R, NEW d \in R, a \in Certain(R),
           b \in Certain(R)
    PROVE  Awaits(R, <<a, b, x, d>>, x) /\ Awaits(R, <<a, x, c, d>>, x)
<1>1. <<a, b>> \in Seq(Certain(R)) /\ <<d>> \in Seq(R)
  OBVIOUS
<1>2. <<a, b>> \o (<<x>> \o <<d>>) = <<a, b, x, d>>
  BY Four
<1>3. <<a>> \in Seq(Certain(R)) /\ <<c, d>> \in Seq(R)
  OBVIOUS
<1>4. <<a>> \o (<<x>> \o <<c, d>>) = <<a, x, c, d>>
  BY Four
<1> QED
  BY <1>1, <1>2, <1>3, <1>4, ComesAfter

\* The first of four steps.
LEMMA FirstOfFour ==
    ASSUME NEW R, NEW x, NEW b \in R, NEW c \in R, NEW d \in R
    PROVE  Awaits(R, <<x, b, c, d>>, x)
<1>1. <<b, c, d>> \in Seq(R)
  OBVIOUS
<1>2. <<x>> \o <<b, c, d>> = <<x, b, c, d>>
  BY Four
<1> QED
  BY <1>1, <1>2, ComesNext

\* A save is followed by the rest of it.
LEMMA SaveFollows ==
    ASSUME Typed, NEW t \in Threads, NEW x \in Doable, x.do = "save", NEW s, Follows(t, x, s)
    PROVE  /\ s \in Seq(Certain(StartQuiet)) /\ s \in Seq(Certain(SourceQuiet))
           /\ s \in Seq(Certain(PowerQuiet)) /\ s \in Seq(Certain(FanQuiet))
<1> DEFINE y == Flush(Updated(cfg[ProcessOf(t)], x.change))
<1>1. s = <<>> \/ s = <<y>>
  BY DEF Follows
<1>2. y \in Doable /\ y.do = "flush"
  <2>1. cfg[ProcessOf(t)] \in Known
    BY DEF Typed, Procs, ProcessOf
  <2> QED
    BY <2>1, FollowersDoable, DoableFields, SingleFields, SavedIsKnown
<1> HIDE DEF y
<1>3. /\ y \in StartQuiet /\ y \in SourceQuiet /\ y \in PowerQuiet /\ y \in FanQuiet
      /\ Passing(y)
  BY <1>2 DEF StartQuiet, SourceQuiet, PowerQuiet, FanQuiet, Passing, LoudForStart,
              LoudForSource, LoudForPower, LoudForFan, Changing
<1>4. /\ <<y>> \in Seq(Certain(StartQuiet)) /\ <<y>> \in Seq(Certain(SourceQuiet))
      /\ <<y>> \in Seq(Certain(PowerQuiet)) /\ <<y>> \in Seq(Certain(FanQuiet))
  BY <1>3, Alone
<1>5. \A R : <<>> \in Seq(Certain(R))
  OBVIOUS
<1> QED
  BY <1>1, <1>4, <1>5

\* The steps that are quiet for the check box.
LEMMA StartQuietSteps ==
    /\ Step("preferSaved") \in Certain(StartQuiet)
    /\ Step("restore") \in Certain(StartQuiet)
    /\ Step("ready") \in StartQuiet /\ Step("stuck") \in StartQuiet
    /\ \A s \in Sources : /\ Prefer(s) \in Certain(StartQuiet)
                          /\ Save([source |-> s], TRUE) \in StartQuiet
    /\ Flush(DefaultConfig) \in Certain(StartQuiet)
<1> USE DEF StartQuiet, LoudForStart, Changing, Certain, Passing
<1>1. ASSUME NEW do \in {"preferSaved", "restore", "ready", "stuck"}
      PROVE  Step(do) \in StartQuiet /\ (do \notin {"ready", "stuck"} => Passing(Step(do)))
  BY PlainSteps, SingleFields DEF Doable
<1>2. ASSUME NEW s \in Sources
      PROVE  Prefer(s) \in Certain(StartQuiet)
  BY PlainSteps, SingleFields DEF Doable
<1>3. ASSUME NEW s \in Sources
      PROVE  Save([source |-> s], TRUE) \in StartQuiet
  <2> DEFINE y == Save([source |-> s], TRUE)
  <2>1. y \in Doable
    BY PlainSteps, ChangesMade DEF Doable
  <2>2. y.do = "save" /\ y.change = [source |-> s]
    BY DEF Save
  <2> HIDE DEF y
  <2>3. y \in StartQuiet
    BY <2>1, <2>2
  <2> QED
    BY <2>3 DEF y
<1>4. Flush(DefaultConfig) \in Certain(StartQuiet)
  BY FollowersDoable, SingleFields, DefaultIsKnown
<1> QED
  BY <1>1, <1>2, <1>3, <1>4
-----------------------------------------------------------------------------
\* When the main thread is idle the check box and the task agree.
LEMMA StartIdle ==
    ASSUME NEW on, NEW tk, StartForm(<<>>, on, tk)
    PROVE  on = Ours(tk) /\ tk # "foreign"
<1>1. \A x : ~Awaits(StartQuiet, <<>>, x)
  BY ComesTo
<1>2. \A a, b : <<a, b>> # <<>>
  OBVIOUS
<1>3. \A p : ImportSteps(p) # <<>>
  BY ImportHead
<1> QED
  BY <1>1, <1>2, <1>3, Zenon DEF StartForm

\* The loud step the main thread is at, and what comes after it.
LEMMA StartLoudNow ==
    ASSUME NEW w, NEW on, NEW tk, StartForm(w, on, tk), w # <<>>, Head(w) \notin StartQuiet
    PROVE  \/ Head(w) = Step("sync") /\ Tail(w) \in Seq(StartQuiet)
           \/ /\ \E strict \in BOOLEAN : Head(w) = Save([start |-> Ours(tk)], strict)
              /\ Tail(w) \in Seq(StartQuiet) /\ tk # "foreign"
           \/ \E new \in BOOLEAN : /\ w = <<Save([start |-> new], TRUE), Task(new, TRUE)>>
                                   /\ tk = Registered(~new)
           \/ /\ \E undo \in BOOLEAN : /\ Head(w) = Task(on, undo)
                                       /\ undo => tk = Registered(~on)
              /\ Tail(w) \in Seq(StartQuiet) /\ tk # "foreign"
           \/ \E p \in Imports : Valid(p) /\ w = ImportSteps(p) /\ tk # "foreign"
<1>1. w \notin Seq(StartQuiet)
  OBVIOUS
<1>2. ASSUME NEW x, Awaits(StartQuiet, w, x)
      PROVE  Head(w) = x /\ Tail(w) \in Seq(StartQuiet)
  BY <1>2, ComesTo
<1> QED
  BY <1>1, <1>2, Zenon DEF StartForm

\* What the user begins in the main thread.
LEMMA StartBegins ==
    ASSUME Typed, StartInv,
           \/ \E on \in BOOLEAN : PersistSettings(on)
           \/ \E s \in Sources : PersistSource(s)
           \/ \E p \in Imports : ImportConfig(p)
    PROVE  StartInv'
<1> DEFINE c == cfg["window"]
<1>0. "main" \in Threads
  BY DEF Threads
<1>1. /\ phase = "running" /\ todo["main"] = <<>> /\ UNCHANGED <<cfg, task>>
  BY <1>0, BeginMakes DEF PersistSettings, PersistSource, ImportConfig
<1>2. c.start = Ours(task) /\ task # "foreign" /\ StartForm(<<>>, c.start, task)
  BY <1>1, StartIdle DEF StartInv
<1>3. c.start \in BOOLEAN /\ task \in {"none", "ours"}
  BY <1>2 DEF Typed, HardwareTyped, Known, Procs
<1>4. SUFFICES StartForm(todo'["main"], c.start, task)
  BY <1>1 DEF StartInv
<1>5. ASSUME NEW on \in BOOLEAN, PersistSettings(on)
      PROVE  StartForm(todo'["main"], c.start, task)
  <2> DEFINE a == Save([start |-> on], TRUE)
             b == Task(on, TRUE)
  <2>1. todo'["main"] = <<a>> \o (IF c.start # on THEN <<b>> ELSE <<>>)
    BY <1>0, <1>5, BeginMakes DEF PersistSettings
  <2>2. CASE c.start # on
    <3>1. todo'["main"] = <<a, b>>
      <4> HIDE DEF a, b, c
      <4>1. todo'["main"] = <<a>> \o <<b>>
        BY <2>1, <2>2, Zenon
      <4> QED
        BY <4>1, Two, Zenon
    <3>2. task = Registered(~on)
      BY <1>2, <1>3, <2>2 DEF Ours, Registered
    <3> HIDE DEF c
    <3> QED
      BY <3>1, <3>2, Zenon DEF StartForm
  <2>3. CASE c.start = on
    <3>1. todo'["main"] = <<a>>
      <4> HIDE DEF a, b, c
      <4>1. todo'["main"] = <<a>> \o <<>>
        BY <2>1, <2>3, Zenon
      <4> QED
        BY <4>1, Two, Zenon
    <3>2. a = Save([start |-> Ours(task)], TRUE)
      BY <1>2, <2>3
    <3>3. Awaits(StartQuiet, <<a>>, a)
      <4>1. <<>> \in Seq(Certain(StartQuiet))
        OBVIOUS
      <4> QED
        BY <4>1, ComesAlone
    <3>4. TRUE \in BOOLEAN
      OBVIOUS
    <3> HIDE DEF a, c
    <3> QED
      BY <1>2, <3>1, <3>2, <3>3, <3>4, Zenon DEF StartForm
  <2> QED
    BY <2>2, <2>3
<1>6. ASSUME NEW s \in Sources, PersistSource(s)
      PROVE  StartForm(todo'["main"], c.start, task)
  <2>1. todo'["main"] = <<Save([source |-> s], TRUE), Prefer(s)>>
    BY <1>0, <1>6, BeginMakes DEF PersistSource
  <2>2. Save([source |-> s], TRUE) \in StartQuiet /\ Prefer(s) \in StartQuiet
    BY StartQuietSteps DEF Certain
  <2>3. todo'["main"] \in Seq(StartQuiet)
    BY <2>1, <2>2, Two, Zenon
  <2> HIDE DEF c
  <2> QED
    BY <1>2, <2>3, Zenon DEF StartForm
<1>7. ASSUME NEW p \in Imports, ImportConfig(p)
      PROVE  StartForm(todo'["main"], c.start, task)
  <2>1. Valid(p) /\ todo'["main"] = ImportSteps(p)
    BY <1>0, <1>7, BeginMakes DEF ImportConfig
  <2> HIDE DEF c
  <2> QED
    BY <1>2, <2>1, Zenon DEF StartForm
<1> QED
  BY <1>4, <1>5, <1>6, <1>7

\* The main thread's steps.
LEMMA StartAdvances ==
    ASSUME Typed, Obeyed, StartInv, phase # "down", Advance("main")
    PROVE  StartInv'
<1> DEFINE w == todo["main"]
           c == cfg["window"]
           d == cfg'["window"]
           x == Now("main")
<1>0. "main" \in Threads /\ "main" # "cli"
  BY DEF Threads
<1>1. w # <<>> /\ x \in Doable /\ x = Head(w) /\ StartForm(w, c.start, task)
  BY <1>0, AdvanceFollows DEF StartInv, Now
<1>2. c.start \in BOOLEAN
  BY DEF Typed, Known, Procs
<1>3. SUFFICES StartForm(todo'["main"], d.start, task')
  BY DEF StartInv
<1>f. ASSUME NEW k \in {"save", "import", "late"} PROVE ~Fails(k)
  BY DEF Obeyed, Fails
<1>4. CASE x \in StartQuiet
  <2>1. ~TakenBack("main", x)
    BY <1>4 DEF TakenBack, StartQuiet, LoudForStart
  <2>2. PICK s : Follows("main", x, s) /\ todo'["main"] = s \o Tail(w)
    BY <1>0, <2>1, AdvanceFollows
  <2>3. s \in Seq(Certain(StartQuiet))
    BY <1>0, <1>1, <1>4, <2>2, QuietFollows
  <2>4. task' = task
    BY <1>0, <1>4, AdvanceKeeps DEF StartQuiet, LoudForStart
  <2>5. d.start = c.start
    BY <1>0, <1>4, AdvanceKeeps, SaveMakes DEF StartQuiet, LoudForStart, Changing
  <2>6. StartForm(s \o Tail(w), c.start, task)
    BY <1>1, <1>4, <2>3, StartQuietGoes
  <2> QED
    BY <2>2, <2>4, <2>5, <2>6
<1>5. CASE x = Step("sync") /\ Tail(w) \in Seq(StartQuiet)
  <2>1. x.do = "sync"
    BY <1>5, SingleFields
  <2>2. d = c /\ SyncTask("main")
    BY <1>0, <2>1, AdvanceKeeps, WhichAction
  <2>3. task' = Reconciled
    BY <2>2 DEF SyncTask
  <2>4. task' # "foreign" /\ Ours(task') = Ours(task) /\ Ours(task) \in BOOLEAN
    BY <2>3, Registration
  <2>5. todo'["main"] = IF c.start = Ours(task) THEN Tail(w)
                        ELSE <<Save([start |-> Ours(task)], FALSE)>> \o Tail(w)
    BY <1>0, <2>2 DEF SyncTask, Goes, Rest, Typed, Ours
  <2>6. CASE c.start = Ours(task)
    <3>1. todo'["main"] \in Seq(StartQuiet) /\ d.start = Ours(task')
      BY <1>5, <2>2, <2>4, <2>5, <2>6
    <3> HIDE DEF d
    <3> QED
      BY <2>4, <3>1, Zenon DEF StartForm
  <2>7. CASE c.start # Ours(task)
    <3>1. Awaits(StartQuiet, <<Save([start |-> Ours(task)], FALSE)>> \o Tail(w),
                 Save([start |-> Ours(task)], FALSE))
      BY <1>5, ComesNext
    <3>2. Awaits(StartQuiet, todo'["main"], Save([start |-> Ours(task')], FALSE))
      BY <2>4, <2>5, <2>7, <3>1
    <3>3. FALSE \in BOOLEAN
      OBVIOUS
    <3> HIDE DEF d
    <3> QED
      BY <2>4, <3>2, <3>3, Zenon DEF StartForm
  <2> QED
    BY <2>6, <2>7
<1>s. ASSUME x.do = "save"
      PROVE  /\ task' = task
             /\ \E s \in Seq(Certain(StartQuiet)) : todo'["main"] = s \o Tail(w)
             /\ "start" \in DOMAIN x.change => d.start = x.change["start"]
  <2>1. task' = task
    BY <1>0, <1>s, AdvanceKeeps
  <2>2. ~TakenBack("main", x)
    BY <1>s DEF TakenBack
  <2>3. PICK s : Follows("main", x, s) /\ todo'["main"] = s \o Tail(w)
    BY <1>0, <2>2, AdvanceFollows
  <2>4. s \in Seq(Certain(StartQuiet))
    BY <1>0, <1>1, <1>s, <2>3, SaveFollows
  <2>5. "start" \in DOMAIN x.change => d.start = x.change["start"]
    BY <1>0, <1>s, SaveMakes
  <2> QED
    BY <2>1, <2>3, <2>4, <2>5
<1>6. ASSUME NEW strict \in BOOLEAN, x = Save([start |-> Ours(task)], strict),
             Tail(w) \in Seq(StartQuiet), task # "foreign"
      PROVE  StartForm(todo'["main"], d.start, task')
  <2>1. x.do = "save" /\ x.change = [start |-> Ours(task)]
    BY <1>6 DEF Save
  <2>2. "start" \in DOMAIN x.change /\ x.change["start"] = Ours(task)
    BY <2>1
  <2>3. todo'["main"] \in Seq(StartQuiet)
    <3>1. PICK s \in Seq(Certain(StartQuiet)) : todo'["main"] = s \o Tail(w)
      BY <1>s, <2>1
    <3>2. s \in Seq(StartQuiet)
      BY DEF Certain
    <3> HIDE DEF w
    <3> QED
      BY <1>6, <3>1, <3>2
  <2>4. d.start = Ours(task') /\ task' # "foreign"
    BY <1>6, <1>s, <2>1, <2>2
  <2> HIDE DEF d
  <2> QED
    BY <2>3, <2>4, Zenon DEF StartForm
<1>7. ASSUME NEW new \in BOOLEAN, w = <<Save([start |-> new], TRUE), Task(new, TRUE)>>,
             task = Registered(~new)
      PROVE  StartForm(todo'["main"], d.start, task')
  <2> DEFINE a == Save([start |-> new], TRUE)
             b == Task(new, TRUE)
  <2>1. Head(w) = a /\ Tail(w) = <<b>>
    <3>1. w = <<a, b>>
      BY <1>7
    <3> HIDE DEF a, b, w
    <3> QED
      BY <3>1
  <2>2. x.do = "save" /\ x.change = [start |-> new]
    BY <1>1, <2>1 DEF Save
  <2>3. "start" \in DOMAIN x.change /\ x.change["start"] = new
    BY <2>2
  <2>4. PICK s \in Seq(Certain(StartQuiet)) : todo'["main"] = s \o <<b>>
    BY <1>s, <2>1, <2>2
  <2>5. Awaits(StartQuiet, todo'["main"], b)
    BY <2>4, ComesAlone
  <2>6. d.start = new /\ task' = Registered(~new) /\ task' # "foreign"
    <3>1. (~new) \in BOOLEAN
      OBVIOUS
    <3> QED
      BY <1>7, <1>s, <2>2, <2>3, <3>1, Registration
  <2>7. TRUE \in BOOLEAN
    OBVIOUS
  <2> HIDE DEF d
  <2> QED
    BY <2>5, <2>6, <2>7, Zenon DEF StartForm
<1>8. ASSUME NEW undo \in BOOLEAN, x = Task(c.start, undo), undo => task = Registered(~c.start),
             Tail(w) \in Seq(StartQuiet), task # "foreign"
      PROVE  StartForm(todo'["main"], d.start, task')
  <2> DEFINE on == c.start
             y == Save([start |-> ~on], FALSE)
  <2>1. x.do = "task" /\ x.on = on /\ x.undo = undo
    BY <1>8, SingleFields
  <2>2. d = c /\ SetTask("main") /\ Installed
    BY <1>0, <2>1, AdvanceKeeps, WhichAction DEF Obeyed
  <2>3. \/ task' = Registered(on) /\ Goes("main", Rest("main"))
        \/ task' = task /\ undo /\ Goes("main", AfterTaskError("main"))
    BY <1>f, <2>1, <2>2 DEF SetTask, LateFailure
  <2>4. CASE task' = Registered(on) /\ Goes("main", Rest("main"))
    <3>1. todo'["main"] = Tail(w)
      BY <1>0, <2>4 DEF Goes, Rest, Typed
    <3>2. d.start = Ours(task') /\ task' # "foreign"
      BY <1>2, <2>2, <2>4, Registration
    <3>3. todo'["main"] \in Seq(StartQuiet)
      BY <1>8, <3>1
    <3> HIDE DEF d
    <3> QED
      BY <3>2, <3>3, Zenon DEF StartForm
  <2>5. CASE task' = task /\ undo /\ Goes("main", AfterTaskError("main"))
    <3>1. todo'["main"] = <<y>>
      BY <1>0, <2>1, <2>5 DEF Goes, AfterTaskError, Typed
    <3>2. Ours(task') = ~on /\ task' # "foreign"
      BY <1>2, <1>8, <2>5, Registration
    <3>3. y = Save([start |-> Ours(task')], FALSE)
      BY <3>2
    <3>4. Awaits(StartQuiet, <<y>>, y)
      <4>1. <<>> \in Seq(Certain(StartQuiet))
        OBVIOUS
      <4> QED
        BY <4>1, ComesAlone
    <3>5. FALSE \in BOOLEAN
      OBVIOUS
    <3> HIDE DEF d, y
    <3> QED
      BY <3>1, <3>2, <3>3, <3>4, <3>5, Zenon DEF StartForm
  <2> QED
    BY <2>3, <2>4, <2>5
<1>9. ASSUME NEW p \in Imports, Valid(p), w = ImportSteps(p), task # "foreign"
      PROVE  StartForm(todo'["main"], d.start, task')
  <2> DEFINE a == Prefer(p.source)
             b == Task(p.start, FALSE)
             e == Step("restore")
             f == Step("stuck")
  <2>1. x = Save(p, TRUE) /\ Tail(w) = <<a, b, e, f>>
    BY <1>1, <1>9, ImportHead
  <2>2. x.do = "save" /\ x.change = p
    BY <2>1 DEF Save
  <2>3. "start" \in DOMAIN p /\ p.source \in Sources
    BY SettingsFilesAssumption DEF Config
  <2>4. a \in Certain(StartQuiet) /\ e \in Certain(StartQuiet) /\ f \in StartQuiet
    BY <2>3, StartQuietSteps
  <2>5. PICK s \in Seq(Certain(StartQuiet)) : todo'["main"] = s \o Tail(w)
    BY <1>s, <2>2
  <2>6. Awaits(StartQuiet, todo'["main"], b)
    <3>1. Awaits(StartQuiet, <<a, b, e, f>>, b)
      <4> HIDE DEF a, b, e, f
      <4> QED
        BY <2>4, OneOfFour DEF Certain
    <3>2. Awaits(StartQuiet, Tail(w), b)
      BY <2>1, <3>1
    <3> HIDE DEF a, b, e, f, w
    <3> QED
      BY <2>5, <3>2, ComesLater
  <2>7. d.start = p.start /\ task' # "foreign"
    BY <1>9, <1>s, <2>2, <2>3
  <2>8. FALSE \in BOOLEAN
    OBVIOUS
  <2>9. Awaits(StartQuiet, todo'["main"], Task(d.start, FALSE))
    BY <2>6, <2>7
  <2> HIDE DEF d
  <2> QED
    BY <2>7, <2>8, <2>9, Zenon DEF StartForm
<1>10. CASE x \notin StartQuiet
  <2>1. Head(w) \notin StartQuiet
    BY <1>1, <1>10
  <2> HIDE DEF w, d, c, x
  <2> QED
    BY <1>1, <2>1, <1>5, <1>6, <1>7, <1>8, <1>9, StartLoudNow, Zenon
<1> QED
  BY <1>4, <1>10
\* What the start of the program leaves for the check box and for the sensor.
LEMMA StartUp ==
    /\ Awaits(StartQuiet, StartSteps, Step("sync"))
    /\ Awaits(StartQuiet, <<Flush(DefaultConfig)>> \o StartSteps, Step("sync"))
<1> DEFINE a == Step("preferSaved")
           b == Step("restore")
           x == Step("sync")
           d == Step("ready")
           f == Flush(DefaultConfig)
<1>1. a \in Certain(StartQuiet) /\ b \in Certain(StartQuiet) /\ d \in StartQuiet
      /\ f \in Certain(StartQuiet)
  BY StartQuietSteps
<1>2. StartSteps = <<a, b, x, d>>
  BY DEF StartSteps
<1> HIDE DEF a, b, x, d, f
<1>3. Awaits(StartQuiet, <<a, b, x, d>>, x) /\ <<f>> \in Seq(Certain(StartQuiet))
  <2>1. Awaits(StartQuiet, <<a, b, x, d>>, x)
    BY <1>1, OneOfFour DEF Certain
  <2>2. <<f>> \in Seq(Certain(StartQuiet))
    BY <1>1
  <2> QED
    BY <2>1, <2>2
<1>4. Awaits(StartQuiet, <<f>> \o <<a, b, x, d>>, x)
  BY <1>3, ComesLater
<1> QED
  BY <1>2, <1>3, <1>4 DEF f, x

\* What the threads other than the main one leave alone.
LEMMA OthersKeep ==
    ASSUME Typed, Obeyed, SideInv, NEW t \in Threads, t # "main", Advance(t)
    PROVE  /\ task' = task /\ preferred' = preferred /\ todo'["main"] = todo["main"]
           /\ cfg'["window"].start = cfg["window"].start
           /\ cfg'["window"].source = cfg["window"].source
<1>1. Now(t) \in Side
  <2>1. todo[t] \in Seq(Side) /\ todo[t] # <<>>
    BY AdvanceFollows DEF SideInv
  <2> QED
    BY <2>1 DEF Now
<1>2. "main" \in Threads
  BY DEF Threads
<1>3. /\ Now(t).do \notin {"task", "sync", "prefer", "preferSaved"}
      /\ Now(t).do = "save" => DOMAIN Now(t).change \in {{"power"}, {"fan"}}
  BY <1>1 DEF Side
<1>4. task' = task /\ preferred' = preferred
  BY <1>3, AdvanceKeeps
<1>5. todo'["main"] = todo["main"]
  BY <1>2, AdvanceAlone
<1>6. CASE Now(t).do # "save" \/ t = "cli"
  BY <1>4, <1>5, <1>6, AdvanceKeeps
<1>7. CASE Now(t).do = "save" /\ t # "cli"
  BY <1>3, <1>4, <1>5, <1>7, SaveMakes
<1> QED
  BY <1>6, <1>7

LEMMA StartStep ==
    ASSUME Typed, Obeyed, DownIsIdle, SideInv, StartInv, [Next]_vars
    PROVE  StartInv'
<1> DEFINE w == todo["main"]
           c == cfg["window"]
<1>0. "main" \in Threads /\ \A t \in {"worker", "tray"} : t \in Threads /\ t # "main"
  BY DEF Threads
<1>u. ASSUME todo'["main"] = w, cfg'["window"].start = c.start, task' = task, phase' = phase
      PROVE  StartInv'
  BY <1>u, Zenon DEF StartInv
<1>1. CASE UNCHANGED vars
  BY <1>1, <1>u DEF vars, memory, hardware
<1>2. CASE Launch
  <2>1. CASE UNCHANGED <<file, cfg, lock, apu, curves, preferred, task, phase, todo>>
    BY <1>u, <2>1
  <2>2. CASE todo'["main"] \in {StartSteps, <<Flush(DefaultConfig)>> \o StartSteps}
    <3>1. Awaits(StartQuiet, todo'["main"], Step("sync"))
      BY <2>2, StartUp
    <3> QED
      BY <3>1, Zenon DEF StartInv, StartForm
  <2> QED
    BY <1>2, <2>1, <2>2, LaunchMakes
<1>3. CASE Quit \/ Crash
  BY <1>3, EndMakes DEF StartInv
<1>4. CASE Ready
  <2>1. w # <<>> /\ Head(w).do = "ready" /\ todo'["main"] = Tail(w) /\ phase # "down"
    <3>1. w # <<>> /\ Head(w).do = "ready" /\ todo'["main"] = Tail(w)
      BY <1>4, ReadyMakes
    <3>2. phase # "down"
      BY <3>1 DEF DownIsIdle, WindowIdle, Idle
    <3> QED
      BY <3>1, <3>2
  <2>2. Head(w) \in StartQuiet
    <3>1. Head(w) \in Doable
      BY <1>0, <2>1, DoableWork
    <3> QED
      BY <2>1, <3>1 DEF StartQuiet, LoudForStart, Changing
  <2>3. <<>> \in Seq(Certain(StartQuiet)) /\ <<>> \o Tail(w) = Tail(w)
    <3>1. Tail(w) \in Seq(Doable)
      BY <1>0, <2>1, DoableWork
    <3> QED
      BY <3>1
  <2>4. StartForm(w, c.start, task)
    BY <2>1 DEF StartInv
  <2>5. StartForm(<<>> \o Tail(w), c.start, task)
    BY <2>1, <2>2, <2>3, <2>4, StartQuietGoes
  <2>6. StartForm(todo'["main"], c.start, task)
    BY <2>1, <2>3, <2>5
  <2> QED
    BY <1>4, <2>6, ReadyMakes DEF StartInv
<1>5. ASSUME NEW m \in Modes, CliMode(m)
      PROVE  StartInv'
  BY <1>0, <1>5, <1>u, CommandMakes, "main" # "cli"
<1>6. ASSUME NEW t \in {"worker", "tray"}, NEW s, Begin(t, s)
      PROVE  StartInv'
  <2>1. UNCHANGED <<cfg, task, phase>> /\ todo'["main"] = w
    BY <1>0, <1>6, BeginMakes
  <2> QED
    BY <1>u, <2>1
<1>7. ASSUME NEW m \in Modes, NEW t \in {"worker", "tray"}, ChoosePower(t, m)
      PROVE  StartInv'
  BY <1>6, <1>7 DEF ChoosePower
<1>8. CASE EditCurves \/ EditOther
  BY <1>6, <1>8 DEF EditCurves, EditOther
<1>9. CASE \/ \E on \in BOOLEAN : PersistSettings(on)
           \/ \E s \in Sources : PersistSource(s)
           \/ \E p \in Imports : ImportConfig(p)
  BY <1>9, StartBegins
<1>10. ASSUME NEW t \in Threads, t # "main", Advance(t)
       PROVE  StartInv'
  BY <1>10, <1>u, OthersKeep, AdvanceKeeps
<1>11. CASE Advance("main")
  <2>1. phase # "down"
    BY <1>11, WhichAction DEF DownIsIdle, WindowIdle, Idle
  <2> QED
    BY <1>11, <2>1, StartAdvances
<1> QED
  BY <1>1, <1>2, <1>3, <1>4, <1>5, <1>7, <1>8, <1>9, <1>10, <1>11 DEF Next

\* A main thread that is idle or stuck has no loud work left.
LEMMA StartAtRest ==
    ASSUME Typed, StartInv, AtRest
    PROVE  cfg["window"].start = (task = "ours")
<1> DEFINE w == todo["main"]
           c == cfg["window"]
<1>0. "main" \in Threads
  BY DEF Threads
<1>1. StartForm(w, c.start, task) /\ (w = <<>> \/ Head(w).do = "stuck")
  BY <1>0 DEF AtRest, StartInv, Idle, At
<1>2. w # <<>> => Head(w) \in Doable
  BY <1>0, DoableWork
<1>3. w # <<>> /\ Head(w).do = "stuck" => Head(w) \in StartQuiet /\ ~Passing(Head(w))
  BY <1>2 DEF StartQuiet, LoudForStart, Changing, Passing
<1>4. ASSUME NEW x, x \notin StartQuiet, Awaits(StartQuiet, w, x)
      PROVE  FALSE
  BY <1>1, <1>3, <1>4, ComesTo
<1>5. ASSUME NEW new, w = <<Save([start |-> new], TRUE), Task(new, TRUE)>>
      PROVE  FALSE
  <2>1. w # <<>> /\ Head(w) = Save([start |-> new], TRUE)
    BY <1>5
  <2>2. Save([start |-> new], TRUE).do = "save"
    BY DEF Save
  <2> HIDE DEF w
  <2> QED
    BY <1>1, <2>1, <2>2
<1>6. ASSUME NEW p \in Imports, w = ImportSteps(p)
      PROVE  FALSE
  <2>1. Head(w) = Save(p, TRUE) /\ w # <<>> /\ Save(p, TRUE).do = "save"
    BY <1>6, ImportHead DEF Save
  <2> HIDE DEF w
  <2> QED
    BY <1>1, <2>1
<1>7. c.start = Ours(task)
  <2> HIDE DEF c, w
  <2> QED
    BY <1>1, <1>4, <1>5, <1>6, StartLoud, Zenon DEF StartForm
<1> QED
  BY <1>7 DEF Ours

\* At rest the check box says whether the logon task is this program's:
\* whatever the user clicked or imported, whether or not the registration
\* failed, and wherever the program died between the save and the
\* registration, for the next start asks schtasks.  Commands may run beside.
THEOREM AutostartIsTold == Obeyed => (Spec => []AutostartAgrees)
<1> SUFFICES ASSUME Obeyed PROVE Spec => []AutostartAgrees
  OBVIOUS
<1> DEFINE IInv == Typed /\ DownIsIdle /\ SideInv /\ StartInv
<1>1. Init => IInv
  <2> SUFFICES ASSUME Init PROVE SideInv /\ StartInv
    BY Initially
  <2>1. \A t \in Threads : todo[t] \in Seq(Side)
    BY DEF Init
  <2> QED
    BY <2>1 DEF Init, SideInv, StartInv
<1>2. IInv /\ [Next]_vars => IInv'
  BY TypedStep, DownIsIdleStep, SideStep, StartStep
<1>3. IInv => AutostartAgrees
  BY StartAtRest DEF AutostartAgrees
<1> QED
  BY <1>1, <1>2, <1>3, PTL DEF Spec
-----------------------------------------------------------------------------
(***************************************************************************)
(* The preferred sensor.                                                   *)
(***************************************************************************)
\* The main thread's work w, the sensor of the configuration and that of the
\* controller: they agree, or the main thread will make them agree.
SourceForm(w, saved, used) ==
    \/ w \in Seq(SourceQuiet) /\ saved = used
    \/ Awaits(SourceQuiet, w, Step("preferSaved"))
    \/ Awaits(SourceQuiet, w, Prefer(saved))
    \/ \E s \in Sources : w = <<Save([source |-> s], TRUE), Prefer(s)>>
    \/ \E p \in Imports : Valid(p) /\ w = ImportSteps(p)

SourceInv == phase # "down" => SourceForm(todo["main"], cfg["window"].source, preferred)

LEMMA SourceLoud ==
    /\ \A s, strict : Save([source |-> s], strict) \notin SourceQuiet
    /\ \A s : Prefer(s) \notin SourceQuiet
    /\ Step("preferSaved") \notin SourceQuiet
    /\ \A p \in Imports : \A strict : Valid(p) => Save(p, strict) \notin SourceQuiet
<1> USE DEF SourceQuiet, LoudForSource, Changing
<1>1. ASSUME NEW s, NEW strict PROVE Save([source |-> s], strict) \notin SourceQuiet
  BY DEF Save
<1>2. ASSUME NEW s PROVE Prefer(s) \notin SourceQuiet
  BY DEF Prefer
<1>3. Step("preferSaved") \notin SourceQuiet
  BY DEF Step
<1>4. ASSUME NEW p \in Imports, NEW strict, Valid(p) PROVE Save(p, strict) \notin SourceQuiet
  <2>1. "source" \in DOMAIN p
    BY SettingsFilesAssumption DEF Config
  <2> QED
    BY <2>1 DEF Save
<1> QED
  BY <1>1, <1>2, <1>3, <1>4

LEMMA SourceQuietSteps ==
    /\ Step("restore") \in SourceQuiet /\ Step("sync") \in SourceQuiet
    /\ Step("ready") \in SourceQuiet /\ Step("stuck") \in SourceQuiet
    /\ \A on \in BOOLEAN : /\ Save([start |-> on], TRUE) \in SourceQuiet
                           /\ Task(on, TRUE) \in SourceQuiet /\ Task(on, FALSE) \in SourceQuiet
    /\ Flush(DefaultConfig) \in Certain(SourceQuiet)
<1> USE DEF SourceQuiet, LoudForSource, Changing, Certain, Passing
<1>1. ASSUME NEW do \in {"restore", "sync", "ready", "stuck"}
      PROVE  Step(do) \in SourceQuiet
  BY PlainSteps, SingleFields DEF Doable
<1>2. ASSUME NEW on \in BOOLEAN, NEW undo \in BOOLEAN
      PROVE  Task(on, undo) \in SourceQuiet
  BY PlainSteps, SingleFields DEF Doable
<1>3. ASSUME NEW on \in BOOLEAN
      PROVE  Save([start |-> on], TRUE) \in SourceQuiet
  <2> DEFINE y == Save([start |-> on], TRUE)
  <2>1. y \in Doable
    BY PlainSteps, ChangesMade DEF Doable
  <2>2. y.do = "save" /\ y.change = [start |-> on]
    BY DEF Save
  <2> HIDE DEF y
  <2>3. y \in SourceQuiet
    BY <2>1, <2>2
  <2> QED
    BY <2>3 DEF y
<1>4. Flush(DefaultConfig) \in Certain(SourceQuiet)
  BY FollowersDoable, SingleFields, DefaultIsKnown
<1> QED
  BY <1>1, <1>2, <1>3, <1>4

LEMMA SourceIdle ==
    ASSUME NEW saved, NEW used, SourceForm(<<>>, saved, used)
    PROVE  saved = used
<1>1. \A x : ~Awaits(SourceQuiet, <<>>, x)
  BY ComesTo
<1>2. \A a, b : <<a, b>> # <<>>
  OBVIOUS
<1>3. \A p : ImportSteps(p) # <<>>
  BY ImportHead
<1> QED
  BY <1>1, <1>2, <1>3, Zenon DEF SourceForm

LEMMA SourceLoudNow ==
    ASSUME NEW w, NEW saved, NEW used, SourceForm(w, saved, used), w # <<>>,
           Head(w) \notin SourceQuiet
    PROVE  \/ Head(w) = Step("preferSaved") /\ Tail(w) \in Seq(SourceQuiet)
           \/ Head(w) = Prefer(saved) /\ Tail(w) \in Seq(SourceQuiet)
           \/ \E s \in Sources : w = <<Save([source |-> s], TRUE), Prefer(s)>>
           \/ \E p \in Imports : Valid(p) /\ w = ImportSteps(p)
<1>1. w \notin Seq(SourceQuiet)
  OBVIOUS
<1>2. ASSUME NEW x, Awaits(SourceQuiet, w, x)
      PROVE  Head(w) = x /\ Tail(w) \in Seq(SourceQuiet)
  BY <1>2, ComesTo
<1> QED
  BY <1>1, <1>2, Zenon DEF SourceForm

\* A quiet step changes nothing of the form, and one that is not certain to be
\* passed is taken only when the sensors agree.
LEMMA SourceQuietGoes ==
    ASSUME NEW w, NEW saved, NEW used, SourceForm(w, saved, used), w # <<>>,
           Head(w) \in SourceQuiet
    PROVE  /\ \A s \in Seq(Certain(SourceQuiet)) : SourceForm(s \o Tail(w), saved, used)
           /\ ~Passing(Head(w)) => saved = used
<1>1. CASE w \in Seq(SourceQuiet) /\ saved = used
  <2>1. ASSUME NEW s \in Seq(Certain(SourceQuiet)) PROVE SourceForm(s \o Tail(w), saved, used)
    <3>1. s \in Seq(SourceQuiet)
      BY DEF Certain
    <3>2. s \o Tail(w) \in Seq(SourceQuiet)
      BY <1>1, <3>1
    <3> QED
      BY <1>1, <3>2, Zenon DEF SourceForm
  <2> QED
    BY <1>1, <2>1
<1>a. ASSUME NEW x, x \notin SourceQuiet, Awaits(SourceQuiet, w, x)
      PROVE  /\ \A s \in Seq(Certain(SourceQuiet)) : Awaits(SourceQuiet, s \o Tail(w), x)
             /\ Passing(Head(w))
  BY <1>a, ComesTo DEF Certain
<1>2. CASE Awaits(SourceQuiet, w, Step("preferSaved"))
  BY <1>2, <1>a, SourceLoud, Zenon DEF SourceForm
<1>3. CASE Awaits(SourceQuiet, w, Prefer(saved))
  BY <1>3, <1>a, SourceLoud, Zenon DEF SourceForm
<1>4. ASSUME NEW s, w = <<Save([source |-> s], TRUE), Prefer(s)>>
      PROVE  FALSE
  <2>1. Head(w) = Save([source |-> s], TRUE)
    BY <1>4
  <2> QED
    BY <2>1, SourceLoud
<1>5. ASSUME NEW p \in Imports, Valid(p), w = ImportSteps(p)
      PROVE  FALSE
  BY <1>5, ImportHead, SourceLoud
<1> QED
  BY <1>1, <1>2, <1>3, <1>4, <1>5, Zenon DEF SourceForm

LEMMA SourceBegins ==
    ASSUME Typed, SourceInv,
           \/ \E on \in BOOLEAN : PersistSettings(on)
           \/ \E s \in Sources : PersistSource(s)
           \/ \E p \in Imports : ImportConfig(p)
    PROVE  SourceInv'
<1> DEFINE c == cfg["window"]
<1>0. "main" \in Threads
  BY DEF Threads
<1>1. /\ phase = "running" /\ todo["main"] = <<>> /\ UNCHANGED <<cfg, preferred>>
  BY <1>0, BeginMakes DEF PersistSettings, PersistSource, ImportConfig
<1>2. c.source = preferred
  BY <1>1, SourceIdle DEF SourceInv
<1>4. SUFFICES SourceForm(todo'["main"], c.source, preferred)
  BY <1>1 DEF SourceInv
<1>5. ASSUME NEW on \in BOOLEAN, PersistSettings(on)
      PROVE  SourceForm(todo'["main"], c.source, preferred)
  <2> DEFINE a == Save([start |-> on], TRUE)
             b == Task(on, TRUE)
  <2>1. todo'["main"] = <<a>> \o (IF c.start # on THEN <<b>> ELSE <<>>)
    BY <1>0, <1>5, BeginMakes DEF PersistSettings
  <2>2. a \in SourceQuiet /\ b \in SourceQuiet
    BY SourceQuietSteps
  <2> HIDE DEF a, b, c
  <2>3. todo'["main"] \in Seq(SourceQuiet)
    BY <2>1, <2>2
  <2> QED
    BY <1>2, <2>3, Zenon DEF SourceForm
<1>6. ASSUME NEW s \in Sources, PersistSource(s)
      PROVE  SourceForm(todo'["main"], c.source, preferred)
  <2>1. todo'["main"] = <<Save([source |-> s], TRUE), Prefer(s)>>
    BY <1>0, <1>6, BeginMakes DEF PersistSource
  <2> HIDE DEF c
  <2> QED
    BY <2>1, Zenon DEF SourceForm
<1>7. ASSUME NEW p \in Imports, ImportConfig(p)
      PROVE  SourceForm(todo'["main"], c.source, preferred)
  <2>1. Valid(p) /\ todo'["main"] = ImportSteps(p)
    BY <1>0, <1>7, BeginMakes DEF ImportConfig
  <2> HIDE DEF c
  <2> QED
    BY <2>1, Zenon DEF SourceForm
<1> QED
  BY <1>4, <1>5, <1>6, <1>7
LEMMA SourceAdvances ==
    ASSUME Typed, Obeyed, SourceInv, phase # "down", Advance("main")
    PROVE  SourceInv'
<1> DEFINE w == todo["main"]
           c == cfg["window"]
           d == cfg'["window"]
           x == Now("main")
<1>0. "main" \in Threads /\ "main" # "cli"
  BY DEF Threads
<1>1. w # <<>> /\ x \in Doable /\ x = Head(w) /\ SourceForm(w, c.source, preferred)
  BY <1>0, AdvanceFollows DEF SourceInv, Now
<1>3. SUFFICES SourceForm(todo'["main"], d.source, preferred')
  BY DEF SourceInv
<1>4. CASE x \in SourceQuiet
  <2>1. preferred' = preferred
    BY <1>0, <1>4, AdvanceKeeps DEF SourceQuiet, LoudForSource
  <2>2. d.source = c.source
    BY <1>0, <1>4, AdvanceKeeps, SaveMakes DEF SourceQuiet, LoudForSource, Changing
  <2>3. CASE TakenBack("main", x)
    <3>1. todo'["main"] \in Seq(SourceQuiet) /\ ~Passing(x)
      BY <1>0, <1>1, <2>3, TakenBackQuietly
    <3>2. c.source = preferred
      BY <1>1, <1>4, <3>1, SourceQuietGoes
    <3>3. d.source = preferred'
      BY <2>1, <2>2, <3>2
    <3> HIDE DEF d
    <3> QED
      BY <3>1, <3>3, Zenon DEF SourceForm
  <2>4. ASSUME NEW s, Follows("main", x, s), todo'["main"] = s \o Tail(w)
        PROVE  SourceForm(todo'["main"], d.source, preferred')
    <3>1. s \in Seq(Certain(SourceQuiet))
      BY <1>0, <1>1, <1>4, <2>4, QuietFollows
    <3>2. SourceForm(s \o Tail(w), c.source, preferred)
      BY <1>1, <1>4, <3>1, SourceQuietGoes
    <3> QED
      BY <2>1, <2>2, <2>4, <3>2
  <2> QED
    BY <1>0, <2>3, <2>4, AdvanceFollows
<1>5. ASSUME Tail(w) \in Seq(SourceQuiet), x.do \in {"prefer", "preferSaved"},
             preferred' = c.source
      PROVE  SourceForm(todo'["main"], d.source, preferred')
  <2>1. d = c
    BY <1>0, <1>5, AdvanceKeeps
  <2>2. todo'["main"] = Tail(w)
    BY <1>0, <1>5, WhichAction DEF InstallSource, Goes, Rest, Typed
  <2> HIDE DEF d, c
  <2> QED
    BY <1>5, <2>1, <2>2, Zenon DEF SourceForm
<1>6. CASE x = Step("preferSaved") /\ Tail(w) \in Seq(SourceQuiet)
  <2>1. x.do = "preferSaved"
    BY <1>6, SingleFields
  <2>2. preferred' = c.source
    BY <2>1, WhichAction DEF InstallSource, At, Now
  <2> QED
    BY <1>5, <1>6, <2>1, <2>2
<1>7. CASE x = Prefer(c.source) /\ Tail(w) \in Seq(SourceQuiet)
  <2>1. x.do = "prefer" /\ x.source = c.source
    BY <1>7, SingleFields
  <2>2. preferred' = c.source
    BY <2>1, WhichAction DEF InstallSource, At, Now
  <2> QED
    BY <1>5, <1>7, <2>1, <2>2
<1>s. ASSUME x.do = "save"
      PROVE  /\ preferred' = preferred
             /\ \E s \in Seq(Certain(SourceQuiet)) : todo'["main"] = s \o Tail(w)
             /\ "source" \in DOMAIN x.change => d.source = x.change["source"]
  <2>1. preferred' = preferred
    BY <1>0, <1>s, AdvanceKeeps
  <2>2. ~TakenBack("main", x)
    BY <1>s DEF TakenBack
  <2>3. PICK s : Follows("main", x, s) /\ todo'["main"] = s \o Tail(w)
    BY <1>0, <2>2, AdvanceFollows
  <2>4. s \in Seq(Certain(SourceQuiet))
    BY <1>0, <1>1, <1>s, <2>3, SaveFollows
  <2>5. "source" \in DOMAIN x.change => d.source = x.change["source"]
    BY <1>0, <1>s, SaveMakes
  <2> QED
    BY <2>1, <2>3, <2>4, <2>5
<1>8. ASSUME NEW new \in Sources, w = <<Save([source |-> new], TRUE), Prefer(new)>>
      PROVE  SourceForm(todo'["main"], d.source, preferred')
  <2> DEFINE a == Save([source |-> new], TRUE)
             b == Prefer(new)
  <2>1. Head(w) = a /\ Tail(w) = <<b>>
    <3>1. w = <<a, b>>
      BY <1>8
    <3> HIDE DEF a, b, w
    <3> QED
      BY <3>1
  <2>2. x.do = "save" /\ x.change = [source |-> new]
    BY <1>1, <2>1 DEF Save
  <2>3. "source" \in DOMAIN x.change /\ x.change["source"] = new
    BY <2>2
  <2>4. PICK s \in Seq(Certain(SourceQuiet)) : todo'["main"] = s \o <<b>>
    BY <1>s, <2>1, <2>2
  <2>5. Awaits(SourceQuiet, todo'["main"], b)
    BY <2>4, ComesAlone
  <2>6. d.source = new
    BY <1>s, <2>2, <2>3
  <2>7. Awaits(SourceQuiet, todo'["main"], Prefer(d.source))
    BY <2>5, <2>6
  <2> HIDE DEF d
  <2> QED
    BY <2>7, Zenon DEF SourceForm
<1>9. ASSUME NEW p \in Imports, Valid(p), w = ImportSteps(p)
      PROVE  SourceForm(todo'["main"], d.source, preferred')
  <2> DEFINE a == Prefer(p.source)
             b == Task(p.start, FALSE)
             e == Step("restore")
             f == Step("stuck")
  <2>1. x = Save(p, TRUE) /\ Tail(w) = <<a, b, e, f>>
    BY <1>1, <1>9, ImportHead
  <2>2. x.do = "save" /\ x.change = p
    BY <2>1 DEF Save
  <2>3. "source" \in DOMAIN p /\ p.start \in BOOLEAN
    BY SettingsFilesAssumption DEF Config
  <2>4. b \in SourceQuiet /\ e \in SourceQuiet /\ f \in SourceQuiet
    BY <2>3, SourceQuietSteps
  <2>5. PICK s \in Seq(Certain(SourceQuiet)) : todo'["main"] = s \o Tail(w)
    BY <1>s, <2>2
  <2>6. Awaits(SourceQuiet, todo'["main"], a)
    <3>1. Awaits(SourceQuiet, <<a, b, e, f>>, a)
      <4> HIDE DEF a, b, e, f
      <4> QED
        BY <2>4, FirstOfFour
    <3>2. Awaits(SourceQuiet, Tail(w), a)
      BY <2>1, <3>1
    <3> HIDE DEF a, b, e, f, w
    <3> QED
      BY <2>5, <3>2, ComesLater
  <2>7. d.source = p.source
    BY <1>9, <1>s, <2>2, <2>3
  <2>8. Awaits(SourceQuiet, todo'["main"], Prefer(d.source))
    BY <2>6, <2>7
  <2> HIDE DEF d
  <2> QED
    BY <2>8, Zenon DEF SourceForm
<1>10. CASE x \notin SourceQuiet
  <2>1. Head(w) \notin SourceQuiet
    BY <1>1, <1>10
  <2> HIDE DEF w, d, c, x
  <2> QED
    BY <1>1, <2>1, <1>6, <1>7, <1>8, <1>9, SourceLoudNow, Zenon
<1> QED
  BY <1>4, <1>10

LEMMA SourceStartUp ==
    /\ Awaits(SourceQuiet, StartSteps, Step("preferSaved"))
    /\ Awaits(SourceQuiet, <<Flush(DefaultConfig)>> \o StartSteps, Step("preferSaved"))
<1> DEFINE x == Step("preferSaved")
           b == Step("restore")
           c == Step("sync")
           d == Step("ready")
           f == Flush(DefaultConfig)
<1>1. b \in SourceQuiet /\ c \in SourceQuiet /\ d \in SourceQuiet /\ f \in Certain(SourceQuiet)
  BY SourceQuietSteps
<1>2. StartSteps = <<x, b, c, d>>
  BY DEF StartSteps
<1> HIDE DEF x, b, c, d, f
<1>3. Awaits(SourceQuiet, <<x, b, c, d>>, x)
  BY <1>1, FirstOfFour
<1>4. <<f>> \in Seq(Certain(SourceQuiet))
  BY <1>1
<1>5. Awaits(SourceQuiet, <<f>> \o <<x, b, c, d>>, x)
  BY <1>3, <1>4, ComesLater
<1> QED
  BY <1>2, <1>3, <1>5 DEF f, x

LEMMA SourceStep ==
    ASSUME Typed, Obeyed, DownIsIdle, SideInv, SourceInv, [Next]_vars
    PROVE  SourceInv'
<1> DEFINE w == todo["main"]
           c == cfg["window"]
<1>0. "main" \in Threads /\ \A t \in {"worker", "tray"} : t \in Threads /\ t # "main"
  BY DEF Threads
<1>u. ASSUME todo'["main"] = w, cfg'["window"].source = c.source, preferred' = preferred,
             phase' = phase
      PROVE  SourceInv'
  BY <1>u, Zenon DEF SourceInv
<1>1. CASE UNCHANGED vars
  BY <1>1, <1>u DEF vars, memory, hardware
<1>2. CASE Launch
  <2>1. CASE UNCHANGED <<file, cfg, lock, apu, curves, preferred, task, phase, todo>>
    BY <1>u, <2>1
  <2>2. CASE todo'["main"] \in {StartSteps, <<Flush(DefaultConfig)>> \o StartSteps}
    <3>1. Awaits(SourceQuiet, todo'["main"], Step("preferSaved"))
      BY <2>2, SourceStartUp
    <3> QED
      BY <3>1, Zenon DEF SourceInv, SourceForm
  <2> QED
    BY <1>2, <2>1, <2>2, LaunchMakes
<1>3. CASE Quit \/ Crash
  BY <1>3, EndMakes DEF SourceInv
<1>4. CASE Ready
  <2>1. w # <<>> /\ Head(w).do = "ready" /\ todo'["main"] = Tail(w) /\ phase # "down"
    <3>1. w # <<>> /\ Head(w).do = "ready" /\ todo'["main"] = Tail(w)
      BY <1>4, ReadyMakes
    <3>2. phase # "down"
      BY <3>1 DEF DownIsIdle, WindowIdle, Idle
    <3> QED
      BY <3>1, <3>2
  <2>2. Head(w) \in SourceQuiet
    <3>1. Head(w) \in Doable
      BY <1>0, <2>1, DoableWork
    <3> QED
      BY <2>1, <3>1 DEF SourceQuiet, LoudForSource, Changing
  <2>3. <<>> \in Seq(Certain(SourceQuiet)) /\ <<>> \o Tail(w) = Tail(w)
    <3>1. Tail(w) \in Seq(Doable)
      BY <1>0, <2>1, DoableWork
    <3> QED
      BY <3>1
  <2>4. SourceForm(w, c.source, preferred)
    BY <2>1 DEF SourceInv
  <2>5. SourceForm(<<>> \o Tail(w), c.source, preferred)
    BY <2>1, <2>2, <2>3, <2>4, SourceQuietGoes
  <2>6. SourceForm(todo'["main"], c.source, preferred)
    BY <2>1, <2>3, <2>5
  <2> QED
    BY <1>4, <2>6, ReadyMakes DEF SourceInv
<1>5. ASSUME NEW m \in Modes, CliMode(m)
      PROVE  SourceInv'
  BY <1>0, <1>5, <1>u, CommandMakes, "main" # "cli"
<1>6. ASSUME NEW t \in {"worker", "tray"}, NEW s, Begin(t, s)
      PROVE  SourceInv'
  <2>1. UNCHANGED <<cfg, preferred, phase>> /\ todo'["main"] = w
    BY <1>0, <1>6, BeginMakes
  <2> QED
    BY <1>u, <2>1
<1>7. ASSUME NEW m \in Modes, NEW t \in {"worker", "tray"}, ChoosePower(t, m)
      PROVE  SourceInv'
  BY <1>6, <1>7 DEF ChoosePower
<1>8. CASE EditCurves \/ EditOther
  BY <1>6, <1>8 DEF EditCurves, EditOther
<1>9. CASE \/ \E on \in BOOLEAN : PersistSettings(on)
           \/ \E s \in Sources : PersistSource(s)
           \/ \E p \in Imports : ImportConfig(p)
  BY <1>9, SourceBegins
<1>10. ASSUME NEW t \in Threads, t # "main", Advance(t)
       PROVE  SourceInv'
  BY <1>10, <1>u, OthersKeep, AdvanceKeeps
<1>11. CASE Advance("main")
  <2>1. phase # "down"
    BY <1>11, WhichAction DEF DownIsIdle, WindowIdle, Idle
  <2> QED
    BY <1>11, <2>1, SourceAdvances
<1> QED
  BY <1>1, <1>2, <1>3, <1>4, <1>5, <1>7, <1>8, <1>9, <1>10, <1>11 DEF Next

LEMMA SourceAtRest ==
    ASSUME Typed, SourceInv, AtRest
    PROVE  cfg["window"].source = preferred
<1> DEFINE w == todo["main"]
           c == cfg["window"]
<1>0. "main" \in Threads
  BY DEF Threads
<1>1. SourceForm(w, c.source, preferred) /\ (w = <<>> \/ Head(w).do = "stuck")
  BY <1>0 DEF AtRest, SourceInv, Idle, At
<1>2. CASE w = <<>>
  BY <1>1, <1>2, SourceIdle
<1>3. CASE w # <<>> /\ Head(w).do = "stuck"
  <2>1. Head(w) \in Doable
    BY <1>0, <1>3, DoableWork
  <2>2. Head(w) \in SourceQuiet /\ ~Passing(Head(w))
    BY <1>3, <2>1 DEF SourceQuiet, LoudForSource, Changing, Passing
  <2> QED
    BY <1>1, <1>3, <2>2, SourceQuietGoes
<1> QED
  BY <1>1, <1>2, <1>3
-----------------------------------------------------------------------------
(***************************************************************************)
(* The power mode.  Any thread of the window may be setting it, one at a   *)
(* time.                                                                   *)
(***************************************************************************)
Windows == Threads \ {"cli"}

InForce(saved, used, absent) == saved = absent \/ saved = used

\* One thread's work w, the mode of the configuration and the register's: they
\* agree and w leaves them alone, or w will make them agree.
PowerForm(w, saved, used) ==
    \/ w \in Seq(PowerQuiet) /\ InForce(saved, used, "none")
    \/ /\ \E m \in Modes : Awaits(PowerQuiet, w, Power(m, "user"))
       /\ InForce(saved, used, "none")
    \/ \E strict \in BOOLEAN : Awaits(PowerQuiet, w, Save([power |-> used], strict))
    \/ Awaits(PowerQuiet, w, Step("restore"))
    \/ Awaits(PowerQuiet, w, Power(saved, "restore")) /\ saved \in Modes
    \/ \E p \in Imports : Valid(p) /\ w = ImportSteps(p)

PowerSetBy(u) ==
    /\ \A t \in Windows \ {u} : todo[t] \in Seq(PowerQuiet)
    /\ PowerForm(todo[u], cfg["window"].power, apu)

PowerInv == phase # "down" => \E u \in Windows : PowerSetBy(u)

LEMMA PowerLoud ==
    /\ \A m, strict : Save([power |-> m], strict) \notin PowerQuiet
    /\ \A m, who : Power(m, who) \notin PowerQuiet
    /\ Step("restore") \notin PowerQuiet
    /\ \A p \in Imports : \A strict : Valid(p) => Save(p, strict) \notin PowerQuiet
<1> USE DEF PowerQuiet, LoudForPower, Changing
<1>1. ASSUME NEW m, NEW strict PROVE Save([power |-> m], strict) \notin PowerQuiet
  BY DEF Save
<1>2. ASSUME NEW m, NEW who PROVE Power(m, who) \notin PowerQuiet
  BY DEF Power
<1>3. Step("restore") \notin PowerQuiet
  BY DEF Step
<1>4. ASSUME NEW p \in Imports, NEW strict, Valid(p) PROVE Save(p, strict) \notin PowerQuiet
  <2>1. "power" \in DOMAIN p
    BY SettingsFilesAssumption DEF Config
  <2> QED
    BY <2>1 DEF Save
<1> QED
  BY <1>1, <1>2, <1>3, <1>4

LEMMA PowerQuietSteps ==
    /\ Step("preferSaved") \in Certain(PowerQuiet) /\ Step("sync") \in PowerQuiet
    /\ Step("ready") \in PowerQuiet /\ Step("stuck") \in PowerQuiet
    /\ \A s \in Sources : Prefer(s) \in Certain(PowerQuiet)
    /\ \A s \in Sources : Save([source |-> s], TRUE) \in PowerQuiet
    /\ \A on \in BOOLEAN : Save([start |-> on], TRUE) \in PowerQuiet
    /\ \A on \in BOOLEAN : Task(on, TRUE) \in PowerQuiet
    /\ \A on \in BOOLEAN : Task(on, FALSE) \in Certain(PowerQuiet)
    /\ FanCurve("own", "user") \in PowerQuiet
    /\ Save([fan |-> "keep"], FALSE) \in PowerQuiet
    /\ \A c \in Curves : FanCurve(c, "restore") \in PowerQuiet
    /\ Flush(DefaultConfig) \in Certain(PowerQuiet)
<1> USE DEF PowerQuiet, LoudForPower, Changing, Certain, Passing
<1>1. ASSUME NEW do \in {"preferSaved", "sync", "ready", "stuck"}
      PROVE  Step(do) \in PowerQuiet /\ (do = "preferSaved" => Passing(Step(do)))
  BY PlainSteps, SingleFields DEF Doable
<1>2. ASSUME NEW on \in BOOLEAN, NEW undo \in BOOLEAN
      PROVE  Task(on, undo) \in PowerQuiet /\ (~undo => Passing(Task(on, undo)))
  BY PlainSteps, SingleFields DEF Doable
<1>3. ASSUME NEW s \in Sources
      PROVE  Prefer(s) \in Certain(PowerQuiet)
  BY PlainSteps, SingleFields DEF Doable
<1>4. ASSUME NEW change \in Changes, NEW strict \in BOOLEAN, "power" \notin DOMAIN change
      PROVE  Save(change, strict) \in PowerQuiet
  <2>1. Save(change, strict) \in Doable
    BY PlainSteps DEF Doable
  <2>2. Save(change, strict).do = "save" /\ Save(change, strict).change = change
    BY DEF Save
  <2> QED
    BY <1>4, <2>1, <2>2
<1>5. /\ \A s \in Sources : [source |-> s] \in Changes /\ "power" \notin DOMAIN [source |-> s]
      /\ \A on \in BOOLEAN : [start |-> on] \in Changes /\ "power" \notin DOMAIN [start |-> on]
      /\ [fan |-> "keep"] \in Changes /\ "power" \notin DOMAIN [fan |-> "keep"]
  BY ChangesMade
<1>6. ASSUME NEW c \in Curves, NEW who \in {"user", "restore"}
      PROVE  FanCurve(c, who) \in PowerQuiet
  BY PlainSteps, SingleFields DEF Doable
<1>7. Flush(DefaultConfig) \in Certain(PowerQuiet)
  BY FollowersDoable, SingleFields, DefaultIsKnown
<1>8. "own" \in Curves
  BY DEF Curves
<1>9. /\ \A s \in Sources : Save([source |-> s], TRUE) \in PowerQuiet
      /\ \A on \in BOOLEAN : Save([start |-> on], TRUE) \in PowerQuiet
      /\ Save([fan |-> "keep"], FALSE) \in PowerQuiet
  <2> HIDE DEF PowerQuiet
  <2> QED
    BY <1>4, <1>5, Zenon
<1> HIDE DEF PowerQuiet, Certain, Passing
<1> QED
  BY <1>1, <1>2, <1>3, <1>6, <1>7, <1>8, <1>9 DEF Certain

\* Work that awaits a loud step is not quiet.
LEMMA AwaitsLoud ==
    ASSUME NEW R, NEW w, NEW x, Awaits(R, w, x), w \in Seq(R)
    PROVE  x \in R
<1>1. PICK q \in Seq({y \in R : Passing(y)}), r \in Seq(R) : w = q \o (<<x>> \o r)
  BY DEF Awaits
<1> DEFINE v == <<x>> \o r
           A == R \cup {x}
<1>2. q \in Seq(A) /\ v \in Seq(A) /\ Len(v) = 1 + Len(r) /\ v[1] = x
  BY SMT
<1>3. Len(q) \in Nat /\ Len(r) \in Nat
  OBVIOUS
<1> HIDE DEF v
<1>4. w = q \o v
  BY <1>1 DEF v
<1>5. Len(w) = Len(q) + Len(v) /\ w[Len(q) + 1] = v[1]
  <2>1. /\ Len(q \o v) = Len(q) + Len(v)
        /\ \A i \in 1 .. Len(q) + Len(v) :
             (q \o v)[i] = IF i <= Len(q) THEN q[i] ELSE v[i - Len(q)]
    <3>1. q \in Seq(A) /\ v \in Seq(A)
      BY <1>2
    <3> HIDE DEF A
    <3> QED
      BY <3>1, ConcatProperties
  <2>2. Len(q) + 1 \in 1 .. Len(q) + Len(v) /\ (Len(q) + 1) - Len(q) = 1
        /\ ~(Len(q) + 1 <= Len(q))
    BY <1>2, <1>3
  <2> QED
    BY <1>4, <2>1, <2>2
<1>6. Len(q) + 1 \in 1 .. Len(w)
  BY <1>2, <1>3, <1>5
<1> QED
  BY <1>2, <1>5, <1>6

\* Work that is quiet goes with settings in force.
LEMMA PowerAgrees ==
    ASSUME NEW w, NEW saved, NEW used, PowerForm(w, saved, used), w \in Seq(PowerQuiet)
    PROVE  InForce(saved, used, "none")
<1>1. \A x : Awaits(PowerQuiet, w, x) => x \in PowerQuiet
  BY AwaitsLoud
<1>2. ASSUME NEW p \in Imports, Valid(p), w = ImportSteps(p)
      PROVE  FALSE
  <2>1. w # <<>> /\ Head(w) \notin PowerQuiet
    BY <1>2, ImportHead, PowerLoud
  <2> QED
    BY <2>1
<1> QED
  BY <1>1, <1>2, PowerLoud, Zenon DEF PowerForm

\* A quiet step changes nothing of the form, and one that is not certain to be
\* passed is taken only when all that comes is quiet.
LEMMA PowerQuietGoes ==
    ASSUME NEW w, NEW saved, NEW used, PowerForm(w, saved, used), w # <<>>,
           Head(w) \in PowerQuiet
    PROVE  /\ \A s \in Seq(Certain(PowerQuiet)) : PowerForm(s \o Tail(w), saved, used)
           /\ ~Passing(Head(w)) => InForce(saved, used, "none")
<1>1. CASE w \in Seq(PowerQuiet) /\ InForce(saved, used, "none")
  <2>1. ASSUME NEW s \in Seq(Certain(PowerQuiet)) PROVE PowerForm(s \o Tail(w), saved, used)
    <3>1. s \in Seq(PowerQuiet)
      BY DEF Certain
    <3>2. s \o Tail(w) \in Seq(PowerQuiet)
      BY <1>1, <3>1
    <3> QED
      BY <1>1, <3>2, Zenon DEF PowerForm
  <2> QED
    BY <1>1, <2>1
<1>a. ASSUME NEW x, x \notin PowerQuiet, Awaits(PowerQuiet, w, x)
      PROVE  /\ \A s \in Seq(Certain(PowerQuiet)) : Awaits(PowerQuiet, s \o Tail(w), x)
             /\ Passing(Head(w))
  BY <1>a, ComesTo DEF Certain
<1>2. CASE /\ \E m \in Modes : Awaits(PowerQuiet, w, Power(m, "user"))
           /\ InForce(saved, used, "none")
  BY <1>2, <1>a, PowerLoud, Zenon DEF PowerForm
<1>3. CASE \E strict \in BOOLEAN : Awaits(PowerQuiet, w, Save([power |-> used], strict))
  BY <1>3, <1>a, PowerLoud, Zenon DEF PowerForm
<1>4. CASE Awaits(PowerQuiet, w, Step("restore"))
  BY <1>4, <1>a, PowerLoud, Zenon DEF PowerForm
<1>5. CASE Awaits(PowerQuiet, w, Power(saved, "restore")) /\ saved \in Modes
  BY <1>5, <1>a, PowerLoud, Zenon DEF PowerForm
<1>6. ASSUME NEW p \in Imports, Valid(p), w = ImportSteps(p)
      PROVE  FALSE
  BY <1>6, ImportHead, PowerLoud
<1> QED
  BY <1>1, <1>2, <1>3, <1>4, <1>5, <1>6, Zenon DEF PowerForm

LEMMA PowerLoudNow ==
    ASSUME NEW w, NEW saved, NEW used, PowerForm(w, saved, used), w # <<>>,
           Head(w) \notin PowerQuiet
    PROVE  \/ /\ Tail(w) \in Seq(PowerQuiet)
              /\ \/ \E m \in Modes : Head(w) = Power(m, "user") /\ InForce(saved, used, "none")
                 \/ \E strict \in BOOLEAN : Head(w) = Save([power |-> used], strict)
                 \/ Head(w) = Step("restore")
                 \/ Head(w) = Power(saved, "restore") /\ saved \in Modes
           \/ \E p \in Imports : Valid(p) /\ w = ImportSteps(p)
<1>1. w \notin Seq(PowerQuiet)
  OBVIOUS
<1>2. ASSUME NEW x, Awaits(PowerQuiet, w, x)
      PROVE  Head(w) = x /\ Tail(w) \in Seq(PowerQuiet)
  BY <1>2, ComesTo
<1>3. CASE /\ \E m \in Modes : Awaits(PowerQuiet, w, Power(m, "user"))
           /\ InForce(saved, used, "none")
  <2>1. PICK m \in Modes : Awaits(PowerQuiet, w, Power(m, "user"))
    BY <1>3
  <2>2. Head(w) = Power(m, "user") /\ Tail(w) \in Seq(PowerQuiet)
    BY <1>2, <2>1, Zenon
  <2> QED
    BY <1>3, <2>2, Zenon
<1>4. CASE \E strict \in BOOLEAN : Awaits(PowerQuiet, w, Save([power |-> used], strict))
  BY <1>2, <1>4, Zenon
<1>5. CASE Awaits(PowerQuiet, w, Step("restore"))
  BY <1>2, <1>5, Zenon
<1>6. CASE Awaits(PowerQuiet, w, Power(saved, "restore")) /\ saved \in Modes
  BY <1>2, <1>6, Zenon
<1> QED
  BY <1>1, <1>3, <1>4, <1>5, <1>6, Zenon DEF PowerForm

\* When no thread is setting the mode, all of them are quiet.
LEMMA NobodySetsPower ==
    ASSUME Typed, NEW t \in Threads, ~SettingPower(t)
    PROVE  todo[t] \in Seq(PowerQuiet)
<1>1. todo[t] \in Seq(Doable)
  BY DoableWork
<1>2. \A i \in DOMAIN todo[t] : todo[t][i] \in PowerQuiet
  BY <1>1 DEF SettingPower, PowerQuiet, LoudForPower, Changing
<1>3. DOMAIN todo[t] = 1 .. Len(todo[t]) /\ Len(todo[t]) \in Nat
  BY <1>1
<1>4. todo[t] = [i \in 1 .. Len(todo[t]) |-> todo[t][i]]
  BY <1>1
<1> QED
  BY <1>2, <1>3, <1>4
-----------------------------------------------------------------------------
\* A thread that moves without a loud step moves within its form.
LEMMA PowerMoves ==
    ASSUME Typed, PowerInv, phase # "down", NEW t \in Windows,
           \A s \in Windows \ {t} : todo'[s] = todo[s],
           cfg'["window"].power = cfg["window"].power, apu' = apu,
           todo[t] \in Seq(PowerQuiet) => todo'[t] \in Seq(PowerQuiet),
           \A saved, used : PowerForm(todo[t], saved, used) => PowerForm(todo'[t], saved, used)
    PROVE  PowerInv'
<1>1. PICK u \in Windows : PowerSetBy(u)
  BY DEF PowerInv
<1>2. PowerForm(todo'[u], cfg'["window"].power, apu')
  BY <1>1, Zenon DEF PowerSetBy
<1>3. \A s \in Windows \ {u} : todo'[s] \in Seq(PowerQuiet)
  BY <1>1 DEF PowerSetBy
<1> QED
  BY <1>2, <1>3, Zenon DEF PowerInv, PowerSetBy

LEMMA PowerNobody ==
    ASSUME Typed, PowerInv, phase # "down", ~PowerOverlap, MaySetPower
    PROVE  /\ \A t \in Windows : todo[t] \in Seq(PowerQuiet)
           /\ InForce(cfg["window"].power, apu, "none")
<1>1. \A t \in Windows : todo[t] \in Seq(PowerQuiet)
  BY NobodySetsPower DEF MaySetPower, Windows
<1>2. PICK u \in Windows : PowerSetBy(u)
  BY DEF PowerInv
<1>3. PowerForm(todo[u], cfg["window"].power, apu) /\ todo[u] \in Seq(PowerQuiet)
  BY <1>1, <1>2, Zenon DEF PowerSetBy
<1>4. InForce(cfg["window"].power, apu, "none")
  BY <1>3, PowerAgrees
<1> QED
  BY <1>1, <1>4

\* A thread begins to set the mode when nobody does.
LEMMA PowerTakes ==
    ASSUME Typed, PowerInv, phase # "down", ~PowerOverlap, MaySetPower,
           NEW t \in Windows, NEW w, Begin(t, w),
           PowerForm(w, cfg["window"].power, apu)
    PROVE  PowerInv'
<1>1. t \in Threads
  BY DEF Windows
<1>2. /\ \A s \in Windows \ {t} : todo'[s] = todo[s]
      /\ todo'[t] = w /\ cfg' = cfg /\ apu' = apu
  BY <1>1, BeginMakes DEF Windows
<1>3. \A s \in Windows \ {t} : todo'[s] \in Seq(PowerQuiet)
  BY <1>2, PowerNobody
<1>4. PowerForm(todo'[t], cfg'["window"].power, apu')
  BY <1>2, Zenon
<1> QED
  BY <1>3, <1>4, Zenon DEF PowerInv, PowerSetBy

\* An idle thread begins something else.
LEMMA PowerBegins ==
    ASSUME Typed, PowerInv, phase # "down", NEW t \in Windows, NEW w \in Seq(PowerQuiet),
           Begin(t, w)
    PROVE  PowerInv'
<1>1. t \in Threads
  BY DEF Windows
<1>2. /\ \A s \in Windows \ {t} : todo'[s] = todo[s]
      /\ todo[t] = <<>> /\ todo'[t] = w /\ cfg' = cfg /\ apu' = apu
  BY <1>1, BeginMakes DEF Windows
<1>3. todo[t] \in Seq(PowerQuiet)
  BY <1>2
<1>4. ASSUME NEW saved, NEW used, PowerForm(todo[t], saved, used)
      PROVE  PowerForm(todo'[t], saved, used)
  <2>1. InForce(saved, used, "none")
    BY <1>3, <1>4, PowerAgrees
  <2> QED
    BY <1>2, <2>1, Zenon DEF PowerForm
<1> QED
  BY <1>2, <1>4, PowerMoves

\* What the user may begin.
LEMMA PowerUser ==
    ASSUME Typed, PowerInv, phase # "down", ~PowerOverlap,
           \/ \E m \in Modes, t \in {"worker", "tray"} : ChoosePower(t, m)
           \/ EditCurves \/ EditOther
           \/ \E on \in BOOLEAN : PersistSettings(on)
           \/ \E s \in Sources : PersistSource(s)
           \/ \E p \in Imports : ImportConfig(p)
    PROVE  PowerInv'
<1>0. {"main", "worker", "tray"} \subseteq Windows
  BY DEF Windows, Threads
<1>q. \A x \in PowerQuiet : <<x>> \in Seq(PowerQuiet)
  OBVIOUS
<1>1. ASSUME NEW m \in Modes, NEW t \in {"worker", "tray"}, ChoosePower(t, m)
      PROVE  PowerInv'
  <2> DEFINE x == Power(m, "user")
  <2>1. MaySetPower /\ Begin(t, <<x>>)
    BY <1>1 DEF ChoosePower
  <2>2. InForce(cfg["window"].power, apu, "none")
    BY <2>1, PowerNobody
  <2>3. Awaits(PowerQuiet, <<x>>, x)
    <3>1. <<>> \in Seq(Certain(PowerQuiet))
      OBVIOUS
    <3> QED
      BY <3>1, ComesAlone
  <2>4. PowerForm(<<x>>, cfg["window"].power, apu)
    BY <2>2, <2>3, Zenon DEF PowerForm
  <2> HIDE DEF x
  <2>5. t \in Windows
    BY <1>0
  <2> QED
    BY <2>1, <2>4, <2>5, PowerTakes
<1>2. CASE EditCurves
  BY <1>0, <1>2, <1>q, PowerQuietSteps, PowerBegins DEF EditCurves
<1>3. CASE EditOther
  BY <1>0, <1>3, <1>q, PowerQuietSteps, PowerBegins DEF EditOther
<1>4. ASSUME NEW on \in BOOLEAN, PersistSettings(on)
      PROVE  PowerInv'
  <2> DEFINE a == Save([start |-> on], TRUE)
             b == Task(on, TRUE)
             w == <<a>> \o (IF cfg["window"].start # on THEN <<b>> ELSE <<>>)
  <2>1. a \in PowerQuiet /\ b \in PowerQuiet
    BY PowerQuietSteps
  <2>2. Begin("main", w)
    BY <1>4 DEF PersistSettings
  <2>3. w \in Seq(PowerQuiet)
    <3> HIDE DEF a, b
    <3> QED
      BY <2>1
  <2> HIDE DEF w
  <2> QED
    BY <1>0, <2>2, <2>3, PowerBegins
<1>5. ASSUME NEW s \in Sources, PersistSource(s)
      PROVE  PowerInv'
  <2> DEFINE w == <<Save([source |-> s], TRUE), Prefer(s)>>
  <2>1. w \in Seq(PowerQuiet)
    BY PowerQuietSteps, Two, Zenon DEF Certain
  <2>2. Begin("main", w)
    BY <1>5 DEF PersistSource
  <2> HIDE DEF w
  <2> QED
    BY <1>0, <2>1, <2>2, PowerBegins
<1>6. ASSUME NEW p \in Imports, ImportConfig(p)
      PROVE  PowerInv'
  <2>1. MaySetPower /\ Valid(p) /\ Begin("main", ImportSteps(p))
    BY <1>6 DEF ImportConfig
  <2>2. PowerForm(ImportSteps(p), cfg["window"].power, apu)
    BY <2>1, Zenon DEF PowerForm
  <2> QED
    BY <1>0, <2>1, <2>2, PowerTakes
<1> QED
  BY <1>1, <1>2, <1>3, <1>4, <1>5, <1>6

\* A step that is quiet for the power mode.
LEMMA PowerQuietly ==
    ASSUME Typed, Obeyed, PowerInv, phase # "down", NEW t \in Windows, Advance(t),
           Now(t) \in PowerQuiet
    PROVE  PowerInv'
<1> DEFINE x == Now(t)
<1>0. t \in Threads /\ t # "cli" /\ Windows \subseteq Threads
  BY DEF Windows
<1>1. todo[t] # <<>> /\ x = Head(todo[t]) /\ x \in Doable
  BY <1>0, AdvanceFollows DEF Now
<1>2. apu' = apu
  BY <1>0, AdvanceKeeps DEF PowerQuiet, LoudForPower
<1>3. cfg'["window"].power = cfg["window"].power
  BY <1>0, AdvanceKeeps, SaveMakes DEF PowerQuiet, LoudForPower, Changing
<1>4. \A s \in Windows \ {t} : todo'[s] = todo[s]
  BY <1>0, AdvanceAlone
<1>5. CASE TakenBack(t, x)
  <2>1. todo'[t] \in Seq(PowerQuiet) /\ ~Passing(x)
    BY <1>0, <1>1, <1>5, TakenBackQuietly
  <2>2. ASSUME NEW saved, NEW used, PowerForm(todo[t], saved, used)
        PROVE  PowerForm(todo'[t], saved, used)
    <3>1. InForce(saved, used, "none")
      BY <1>1, <2>1, <2>2, PowerQuietGoes
    <3> QED
      BY <2>1, <3>1, Zenon DEF PowerForm
  <2> QED
    BY <1>2, <1>3, <1>4, <2>1, <2>2, PowerMoves
<1>6. ASSUME NEW s, Follows(t, x, s), todo'[t] = s \o Tail(todo[t])
      PROVE  PowerInv'
  <2>1. s \in Seq(Certain(PowerQuiet))
    BY <1>0, <1>1, <1>6, QuietFollows
  <2>2. ASSUME NEW saved, NEW used, PowerForm(todo[t], saved, used)
        PROVE  PowerForm(todo'[t], saved, used)
    BY <1>1, <1>6, <2>1, <2>2, PowerQuietGoes
  <2>3. ASSUME todo[t] \in Seq(PowerQuiet) PROVE todo'[t] \in Seq(PowerQuiet)
    <3>1. s \in Seq(PowerQuiet)
      BY <2>1 DEF Certain
    <3> QED
      BY <1>1, <1>6, <2>3, <3>1
  <2> QED
    BY <1>2, <1>3, <1>4, <2>2, <2>3, PowerMoves
<1> QED
  BY <1>0, <1>5, <1>6, AdvanceFollows
-----------------------------------------------------------------------------
\* What restoring leaves to be done about the mode: nothing, if there is none.
LEMMA PowerRestores ==
    ASSUME NEW c \in Known, NEW r \in Seq(PowerQuiet)
    PROVE  /\ c.power = "none" => RestoreSteps(c) \o r \in Seq(PowerQuiet)
           /\ c.power # "none" =>
                /\ c.power \in Modes
                /\ Awaits(PowerQuiet, RestoreSteps(c) \o r, Power(c.power, "restore"))
<1> DEFINE x == Power(c.power, "restore")
           y == FanCurve(c.fan, "restore")
           b == IF c.fan = "missing" THEN <<>> ELSE <<y>>
<1>1. c.fan = "missing" \/ y \in PowerQuiet
  BY PowerQuietSteps DEF Known
<1>2. b \in Seq(PowerQuiet)
  <2> HIDE DEF y
  <2> QED
    BY <1>1
<1>3. RestoreSteps(c) = (IF c.power = "none" THEN <<>> ELSE <<x>>) \o b
  BY DEF RestoreSteps
<1> HIDE DEF b, x
<1>4. ASSUME c.power = "none"
      PROVE  RestoreSteps(c) \o r \in Seq(PowerQuiet)
  <2>1. RestoreSteps(c) = <<>> \o b
    BY <1>3, <1>4
  <2> QED
    BY <1>2, <2>1
<1>5. ASSUME c.power # "none"
      PROVE  /\ c.power \in Modes
             /\ Awaits(PowerQuiet, RestoreSteps(c) \o r, x)
  <2>1. RestoreSteps(c) = <<x>> \o b
    BY <1>3, <1>5
  <2>2. b \o r \in Seq(PowerQuiet)
    BY <1>2
  <2>3. (<<x>> \o b) \o r = <<x>> \o (b \o r)
    <3> DEFINE A == PowerQuiet \cup {x}
    <3>1. <<x>> \in Seq(A) /\ b \in Seq(A) /\ r \in Seq(A)
      BY <1>2
    <3> HIDE DEF A
    <3> QED
      BY <3>1, ConcatAssociative
  <2>4. Awaits(PowerQuiet, <<x>> \o (b \o r), x)
    BY <2>2, ComesNext
  <2> QED
    BY <1>5, <2>1, <2>3, <2>4 DEF Known
<1> QED
  BY <1>4, <1>5 DEF x

\* A step that is loud for the power mode.
LEMMA PowerLoudly ==
    ASSUME Typed, Obeyed, "restore" \notin Faulty, PowerInv, phase # "down",
           NEW t \in Windows, Advance(t), Now(t) \notin PowerQuiet
    PROVE  PowerInv'
<1> DEFINE w == todo[t]
           c == cfg["window"]
           d == cfg'["window"]
           x == Now(t)
<1>0. t \in Threads /\ t # "cli" /\ Windows \subseteq Threads /\ c \in Known
  BY DEF Windows, Typed, Procs
<1>1. w # <<>> /\ x \in Doable /\ x = Head(w) /\ w \notin Seq(PowerQuiet)
  BY <1>0, AdvanceFollows DEF Now
<1>2. PowerForm(w, c.power, apu) /\ \A s \in Windows \ {t} : todo[s] \in Seq(PowerQuiet)
  <2>1. PICK u \in Windows : PowerSetBy(u)
    BY DEF PowerInv
  <2>2. u = t
    BY <1>1, <2>1 DEF PowerSetBy
  <2> QED
    BY <2>1, <2>2, Zenon DEF PowerSetBy
<1>3. \A s \in Windows \ {t} : todo'[s] \in Seq(PowerQuiet)
  BY <1>0, <1>2, AdvanceAlone
<1>4. SUFFICES PowerForm(todo'[t], d.power, apu')
  BY <1>3, Zenon DEF PowerInv, PowerSetBy
<1>f. ~Fails("restore")
  BY DEF Fails
<1>g. \A s : Goes(t, s) => todo'[t] = s
  BY <1>0 DEF Goes, Typed
<1>r. Rest(t) = Tail(w)
  BY DEF Rest
<1>5. ASSUME NEW m \in Modes, x = Power(m, "user"), InForce(c.power, apu, "none"),
             Tail(w) \in Seq(PowerQuiet)
      PROVE  PowerForm(todo'[t], d.power, apu')
  <2>1. x.do = "power" /\ x.mode = m
    BY <1>5, SingleFields
  <2>2. d = c /\ WritePower(t)
    BY <1>0, <2>1, AdvanceKeeps, WhichAction
  <2>3. \/ apu' = m /\ Goes(t, <<Save([power |-> m], FALSE)>> \o Tail(w))
        \/ apu' = apu /\ Goes(t, Tail(w))
    BY <1>r, <2>1, <2>2 DEF WritePower
  <2>4. CASE apu' = m /\ Goes(t, <<Save([power |-> m], FALSE)>> \o Tail(w))
    <3>1. todo'[t] = <<Save([power |-> apu'], FALSE)>> \o Tail(w)
      BY <1>g, <2>4
    <3>2. Awaits(PowerQuiet, todo'[t], Save([power |-> apu'], FALSE)) /\ FALSE \in BOOLEAN
      BY <1>5, <3>1, ComesNext
    <3> HIDE DEF d
    <3> QED
      BY <3>2, Zenon DEF PowerForm
  <2>5. CASE apu' = apu /\ Goes(t, Tail(w))
    <3>1. todo'[t] \in Seq(PowerQuiet) /\ InForce(d.power, apu', "none")
      BY <1>5, <1>g, <2>2, <2>5
    <3> HIDE DEF d
    <3> QED
      BY <3>1, Zenon DEF PowerForm
  <2> QED
    BY <2>3, <2>4, <2>5
<1>6. ASSUME x = Power(c.power, "restore"), c.power \in Modes, Tail(w) \in Seq(PowerQuiet)
      PROVE  PowerForm(todo'[t], d.power, apu')
  <2>1. x.do = "power" /\ x.mode = c.power /\ x.who = "restore"
    BY <1>6, SingleFields
  <2>2. d = c /\ WritePower(t)
    BY <1>0, <2>1, AdvanceKeeps, WhichAction
  <2>3. apu' = c.power /\ Goes(t, <<Save([power |-> c.power], FALSE)>> \o Tail(w))
    BY <1>6, <1>f, <1>r, <2>1, <2>2 DEF WritePower
  <2>4. todo'[t] = <<Save([power |-> apu'], FALSE)>> \o Tail(w)
    BY <1>g, <2>3
  <2>5. Awaits(PowerQuiet, todo'[t], Save([power |-> apu'], FALSE)) /\ FALSE \in BOOLEAN
    BY <1>6, <2>4, ComesNext
  <2> HIDE DEF d
  <2> QED
    BY <2>5, Zenon DEF PowerForm
<1>7. CASE x = Step("restore") /\ Tail(w) \in Seq(PowerQuiet)
  <2>1. x.do = "restore"
    BY <1>7, SingleFields
  <2>2. d = c /\ apu' = apu /\ Restore(t)
    BY <1>0, <2>1, AdvanceKeeps, WhichAction
  <2>3. todo'[t] = RestoreSteps(c) \o Tail(w)
    BY <1>g, <1>r, <2>2 DEF Restore
  <2>4. CASE c.power = "none"
    <3>1. todo'[t] \in Seq(PowerQuiet) /\ InForce(d.power, apu', "none")
      BY <1>0, <1>7, <2>2, <2>3, <2>4, PowerRestores DEF InForce
    <3> HIDE DEF d
    <3> QED
      BY <3>1, Zenon DEF PowerForm
  <2>5. CASE c.power # "none"
    <3>1. d.power \in Modes /\ Awaits(PowerQuiet, todo'[t], Power(d.power, "restore"))
      BY <1>0, <1>7, <2>2, <2>3, <2>5, PowerRestores
    <3> HIDE DEF d
    <3> QED
      BY <3>1, Zenon DEF PowerForm
  <2> QED
    BY <2>4, <2>5
<1>s. ASSUME x.do = "save"
      PROVE  /\ apu' = apu
             /\ \E s \in Seq(Certain(PowerQuiet)) : todo'[t] = s \o Tail(w)
             /\ "power" \in DOMAIN x.change => d.power = x.change["power"]
  <2>1. apu' = apu
    BY <1>0, <1>s, AdvanceKeeps
  <2>2. ~TakenBack(t, x)
    BY <1>s DEF TakenBack
  <2>3. PICK s : Follows(t, x, s) /\ todo'[t] = s \o Tail(w)
    BY <1>0, <2>2, AdvanceFollows
  <2>4. s \in Seq(Certain(PowerQuiet))
    BY <1>0, <1>1, <1>s, <2>3, SaveFollows
  <2>5. "power" \in DOMAIN x.change => d.power = x.change["power"]
    BY <1>0, <1>s, SaveMakes
  <2> QED
    BY <2>1, <2>3, <2>4, <2>5
<1>8. ASSUME NEW strict \in BOOLEAN, x = Save([power |-> apu], strict),
             Tail(w) \in Seq(PowerQuiet)
      PROVE  PowerForm(todo'[t], d.power, apu')
  <2>1. x.do = "save" /\ x.change = [power |-> apu]
    BY <1>8 DEF Save
  <2>2. "power" \in DOMAIN x.change /\ x.change["power"] = apu
    BY <2>1
  <2>3. todo'[t] \in Seq(PowerQuiet)
    <3>1. PICK s \in Seq(Certain(PowerQuiet)) : todo'[t] = s \o Tail(w)
      BY <1>s, <2>1
    <3>2. s \in Seq(PowerQuiet)
      BY DEF Certain
    <3> HIDE DEF w
    <3> QED
      BY <1>8, <3>1, <3>2
  <2>4. InForce(d.power, apu', "none")
    BY <1>s, <2>1, <2>2 DEF InForce
  <2> HIDE DEF d
  <2> QED
    BY <2>3, <2>4, Zenon DEF PowerForm
<1>9. ASSUME NEW p \in Imports, Valid(p), w = ImportSteps(p)
      PROVE  PowerForm(todo'[t], d.power, apu')
  <2> DEFINE a == Prefer(p.source)
             b == Task(p.start, FALSE)
             e == Step("restore")
             f == Step("stuck")
  <2>1. x = Save(p, TRUE) /\ Tail(w) = <<a, b, e, f>>
    BY <1>1, <1>9, ImportHead
  <2>2. x.do = "save"
    BY <2>1 DEF Save
  <2>3. p.start \in BOOLEAN /\ p.source \in Sources
    BY SettingsFilesAssumption DEF Config
  <2>4. a \in Certain(PowerQuiet) /\ b \in Certain(PowerQuiet) /\ f \in PowerQuiet
    BY <2>3, PowerQuietSteps
  <2>5. PICK s \in Seq(Certain(PowerQuiet)) : todo'[t] = s \o Tail(w)
    BY <1>s, <2>2
  <2>6. Awaits(PowerQuiet, todo'[t], e)
    <3>1. Awaits(PowerQuiet, <<a, b, e, f>>, e)
      <4> HIDE DEF a, b, e, f
      <4> QED
        BY <2>4, OneOfFour DEF Certain
    <3>2. Awaits(PowerQuiet, Tail(w), e)
      BY <2>1, <3>1
    <3> HIDE DEF a, b, e, f, w
    <3> QED
      BY <2>5, <3>2, ComesLater
  <2> HIDE DEF d
  <2> QED
    BY <2>6, Zenon DEF PowerForm
<1> QED
  <2>1. Head(w) \notin PowerQuiet
    BY <1>1
  <2> HIDE DEF w, d, c, x
  <2> QED
    BY <1>1, <1>2, <2>1, <1>5, <1>6, <1>7, <1>8, <1>9, PowerLoudNow, Zenon

LEMMA PowerStartUp ==
    /\ Awaits(PowerQuiet, StartSteps, Step("restore"))
    /\ Awaits(PowerQuiet, <<Flush(DefaultConfig)>> \o StartSteps, Step("restore"))
<1> DEFINE a == Step("preferSaved")
           x == Step("restore")
           c == Step("sync")
           d == Step("ready")
           f == Flush(DefaultConfig)
<1>1. a \in Certain(PowerQuiet) /\ c \in PowerQuiet /\ d \in PowerQuiet
      /\ f \in Certain(PowerQuiet)
  BY PowerQuietSteps
<1>2. StartSteps = <<a, x, c, d>>
  BY DEF StartSteps
<1> HIDE DEF a, x, c, d, f
<1>3. Awaits(PowerQuiet, <<a, x, c, d>>, x)
  BY <1>1, OneOfFour
<1>4. <<f>> \in Seq(Certain(PowerQuiet))
  BY <1>1
<1>5. Awaits(PowerQuiet, <<f>> \o <<a, x, c, d>>, x)
  BY <1>3, <1>4, ComesLater
<1> QED
  BY <1>2, <1>3, <1>5 DEF f, x

LEMMA PowerStep ==
    ASSUME Typed, Obeyed, "restore" \notin Faulty, ~CliOverlap, ~PowerOverlap,
           DownIsIdle, Apart, PowerInv, [Next]_vars
    PROVE  PowerInv'
<1>0. Windows = {"main", "worker", "tray"} /\ Windows \subseteq Threads
  BY DEF Windows, Threads
<1>u. ASSUME UNCHANGED <<todo, cfg, apu, phase>>
      PROVE  PowerInv'
  BY <1>u, Zenon DEF PowerInv, PowerSetBy
<1>1. CASE UNCHANGED vars
  BY <1>1, <1>u DEF vars, memory, hardware
<1>2. CASE Launch
  <2>1. CASE UNCHANGED <<file, cfg, lock, apu, curves, preferred, task, phase, todo>>
    BY <1>u, <2>1
  <2>2. CASE /\ phase = "down" /\ \A s \in Threads : s # "main" => todo'[s] = todo[s]
             /\ todo'["main"] \in {StartSteps, <<Flush(DefaultConfig)>> \o StartSteps}
    <3>1. Awaits(PowerQuiet, todo'["main"], Step("restore"))
      BY <2>2, PowerStartUp
    <3>2. \A s \in Windows \ {"main"} : todo'[s] \in Seq(PowerQuiet)
      <4>1. \A s \in Windows \ {"main"} : todo'[s] = <<>>
        BY <1>0, <2>2 DEF DownIsIdle, WindowIdle, Idle
      <4>2. <<>> \in Seq(PowerQuiet)
        OBVIOUS
      <4> QED
        BY <4>1, <4>2, Zenon
    <3>3. "main" \in Windows
      BY <1>0
    <3> QED
      BY <3>1, <3>2, <3>3, Zenon DEF PowerInv, PowerSetBy, PowerForm
  <2> QED
    BY <1>2, <2>1, <2>2, LaunchMakes
<1>3. CASE Quit \/ Crash
  BY <1>3, EndMakes DEF PowerInv
<1>4. CASE Ready
  <2> DEFINE w == todo["main"]
  <2>1. /\ w # <<>> /\ Head(w).do = "ready" /\ todo'["main"] = Tail(w)
        /\ UNCHANGED <<cfg, apu>> /\ \A s \in Windows \ {"main"} : todo'[s] = todo[s]
    BY <1>0, <1>4, ReadyMakes
  <2>2. phase # "down"
    BY <2>1 DEF DownIsIdle, WindowIdle, Idle
  <2>3. Head(w) \in PowerQuiet /\ Tail(w) \in Seq(Doable)
    <3>1. Head(w) \in Doable /\ Tail(w) \in Seq(Doable)
      BY <1>0, <2>1, DoableWork
    <3> QED
      BY <2>1, <3>1 DEF PowerQuiet, LoudForPower, Changing
  <2>4. <<>> \in Seq(Certain(PowerQuiet)) /\ <<>> \o Tail(w) = Tail(w)
    BY <2>3
  <2>5. ASSUME NEW saved, NEW used, PowerForm(w, saved, used)
        PROVE  PowerForm(todo'["main"], saved, used)
    <3>1. PowerForm(<<>> \o Tail(w), saved, used)
      BY <2>1, <2>3, <2>4, <2>5, PowerQuietGoes
    <3> QED
      BY <2>1, <2>4, <3>1
  <2>6. w \in Seq(PowerQuiet) => todo'["main"] \in Seq(PowerQuiet)
    BY <2>1
  <2> QED
    BY <1>0, <2>1, <2>2, <2>5, <2>6, PowerMoves
<1>5. ASSUME NEW m \in Modes, CliMode(m)
      PROVE  PowerInv'
  BY <1>5, CommandMakes DEF PowerInv
<1>6. CASE \/ \E m \in Modes, t \in {"worker", "tray"} : ChoosePower(t, m)
           \/ EditCurves \/ EditOther
           \/ \E on \in BOOLEAN : PersistSettings(on)
           \/ \E s \in Sources : PersistSource(s)
           \/ \E p \in Imports : ImportConfig(p)
  <2>1. phase # "down"
    BY <1>6 DEF ChoosePower, EditCurves, EditOther, PersistSettings, PersistSource,
                ImportConfig, Begin
  <2> QED
    BY <1>6, <2>1, PowerUser
<1>7. ASSUME NEW t \in Threads, Advance(t)
      PROVE  PowerInv'
  <2>1. todo[t] # <<>> /\ phase' = phase
    BY <1>7, WhichAction, AdvanceKeeps
  <2>2. CASE phase = "down"
    BY <2>1, <2>2 DEF PowerInv
  <2>3. CASE phase # "down"
    <3>1. t \in Windows
      BY <2>1, <2>3 DEF Apart, Idle, Windows
    <3> QED
      BY <1>7, <2>3, <3>1, PowerQuietly, PowerLoudly
  <2> QED
    BY <2>2, <2>3
<1>8. ASSUME Next
      PROVE  \/ Launch \/ Quit \/ Crash \/ Ready \/ \E m \in Modes : CliMode(m)
             \/ \E m \in Modes, t \in {"worker", "tray"} : ChoosePower(t, m)
             \/ EditCurves \/ EditOther
             \/ \E on \in BOOLEAN : PersistSettings(on)
             \/ \E s \in Sources : PersistSource(s)
             \/ \E p \in Imports : ImportConfig(p)
             \/ \E t \in Threads : Advance(t)
  BY <1>8, Zenon DEF Next
<1> QED
  BY <1>1, <1>2, <1>3, <1>4, <1>5, <1>6, <1>7, <1>8

LEMMA PowerAtRest ==
    ASSUME Typed, PowerInv, AtRest
    PROVE  cfg["window"].power \in {"none", apu}
<1>1. PICK u \in Windows : PowerSetBy(u)
  BY DEF PowerInv, AtRest
<1> DEFINE w == todo[u]
           c == cfg["window"]
<1>2. u \in Threads /\ (w = <<>> \/ Head(w).do = "stuck")
  BY DEF Windows, AtRest, Idle, At
<1>3. PowerForm(w, c.power, apu)
  BY <1>1, Zenon DEF PowerSetBy
<1>4. CASE w = <<>>
  <2>1. w \in Seq(PowerQuiet)
    BY <1>4
  <2>2. InForce(c.power, apu, "none")
    BY <1>3, <2>1, PowerAgrees
  <2> QED
    BY <2>2 DEF InForce
<1>5. CASE w # <<>> /\ Head(w).do = "stuck"
  <2>1. Head(w) \in Doable
    BY <1>2, <1>5, DoableWork
  <2>2. Head(w) \in PowerQuiet /\ ~Passing(Head(w))
    BY <1>5, <2>1 DEF PowerQuiet, LoudForPower, Changing, Passing
  <2>3. InForce(c.power, apu, "none")
    BY <1>3, <1>5, <2>2, PowerQuietGoes
  <2> QED
    BY <2>3 DEF InForce
<1> QED
  BY <1>2, <1>4, <1>5
-----------------------------------------------------------------------------
(***************************************************************************)
(* Curves the controller accepts, everywhere.                              *)
(***************************************************************************)
Drivable == Curves \ {"over100"}

Sound == {x \in Doable :
            /\ x.do = "curves" => x.curves \in Drivable
            /\ Changing(x, "fan") => x.change["fan"] \in Drivable \cup {"keep"}
            /\ x.do = "flush" => x.text.fan \in Drivable}

\* No file the user brings has a curve over 100 or leaves a fan out.
FilesSound == \A c \in HandMade \cup Imports : c.fan \in Drivable

SoundInv ==
    /\ \A p \in Procs : cfg[p].fan \in Drivable
    /\ file \in Config => file.fan \in Drivable
    /\ \A t \in Threads : todo[t] \in Seq(Sound)

LEMMA SoundSteps ==
    /\ \A do \in {"preferSaved", "restore", "stuck", "sync", "ready"} : Step(do) \in Sound
    /\ \A m \in Modes, who \in {"user", "restore"} : Power(m, who) \in Sound
    /\ \A c \in Drivable, who \in {"user", "restore"} : FanCurve(c, who) \in Sound
    /\ \A s \in Sources : Prefer(s) \in Sound
    /\ \A on \in BOOLEAN, undo \in BOOLEAN : Task(on, undo) \in Sound
    /\ \A change \in Changes, strict \in BOOLEAN :
         ("fan" \in DOMAIN change => change["fan"] \in Drivable \cup {"keep"})
            => Save(change, strict) \in Sound
    /\ \A text \in Known : text.fan \in Drivable => Flush(text) \in Sound
<1> USE DEF Sound, Changing
<1>1. ASSUME NEW do \in {"preferSaved", "restore", "stuck", "sync", "ready"}
      PROVE  Step(do) \in Sound
  BY PlainSteps, SingleFields DEF Doable
<1>2. ASSUME NEW m \in Modes, NEW who \in {"user", "restore"} PROVE Power(m, who) \in Sound
  BY PlainSteps, SingleFields DEF Doable
<1>3. ASSUME NEW c \in Drivable, NEW who \in {"user", "restore"}
      PROVE  FanCurve(c, who) \in Sound
  BY PlainSteps, SingleFields DEF Doable, Drivable
<1>4. ASSUME NEW s \in Sources PROVE Prefer(s) \in Sound
  BY PlainSteps, SingleFields DEF Doable
<1>5. ASSUME NEW on \in BOOLEAN, NEW undo \in BOOLEAN PROVE Task(on, undo) \in Sound
  BY PlainSteps, SingleFields DEF Doable
<1>6. ASSUME NEW change \in Changes, NEW strict \in BOOLEAN,
             "fan" \in DOMAIN change => change["fan"] \in Drivable \cup {"keep"}
      PROVE  Save(change, strict) \in Sound
  <2>1. Save(change, strict) \in Doable
    BY PlainSteps DEF Doable
  <2>2. Save(change, strict).do = "save" /\ Save(change, strict).change = change
    BY DEF Save
  <2> QED
    BY <1>6, <2>1, <2>2
<1>7. ASSUME NEW text \in Known, text.fan \in Drivable PROVE Flush(text) \in Sound
  BY <1>7, FollowersDoable, FlushFields
<1> HIDE DEF Sound
<1> QED
  BY <1>1, <1>2, <1>3, <1>4, <1>5, <1>6, <1>7

LEMMA SoundWork ==
    /\ \A x \in Sound : <<x>> \in Seq(Sound)
    /\ \A r, s \in Seq(Sound) : r \o s \in Seq(Sound)
    /\ <<>> \in Seq(Sound)
    /\ \A a, b, c, d, e \in Sound : /\ <<a, b>> \in Seq(Sound)
                                    /\ <<a, b, c, d>> \in Seq(Sound)
                                    /\ <<a, b, c, d, e>> \in Seq(Sound)
<1>1. ASSUME NEW x \in Sound PROVE <<x>> \in Seq(Sound)
  OBVIOUS
<1>2. ASSUME NEW r \in Seq(Sound), NEW s \in Seq(Sound) PROVE r \o s \in Seq(Sound)
  OBVIOUS
<1>3. <<>> \in Seq(Sound)
  OBVIOUS
<1>4. ASSUME NEW a \in Sound, NEW b \in Sound, NEW c \in Sound, NEW d \in Sound, NEW e \in Sound
      PROVE  /\ <<a, b>> \in Seq(Sound) /\ <<a, b, c, d>> \in Seq(Sound)
             /\ <<a, b, c, d, e>> \in Seq(Sound)
  OBVIOUS
<1> QED
  BY <1>1, <1>2, <1>3, <1>4

\* A sound save leaves a sound configuration.
LEMMA SoundSave ==
    ASSUME NEW c \in Known, NEW change \in Changes, c.fan \in Drivable,
           "fan" \in DOMAIN change => change["fan"] \in Drivable \cup {"keep"}
    PROVE  Updated(c, change).fan \in Drivable
<1> DEFINE u == Updated(c, change)
<1>1. "fan" \in DOMAIN c /\ c["fan"] # "missing"
  BY DEF Known, Drivable, Curves
<1>2. u["fan"] = IF "fan" \notin DOMAIN change THEN c["fan"]
                 ELSE IF change["fan"] # "keep" THEN change["fan"] ELSE c["fan"]
  BY <1>1 DEF Updated
<1> HIDE DEF u
<1>3. u["fan"] \in Drivable
  BY <1>2
<1> QED
  BY <1>3 DEF u

\* Sound steps are replaced with sound ones.
LEMMA SoundFollows ==
    ASSUME Typed, SoundInv, NEW t \in Threads, NEW x \in Sound, NEW s, Follows(t, x, s)
    PROVE  s \in Seq(Sound)
<1>k. cfg["window"] \in Known /\ cfg[ProcessOf(t)] \in Known
      /\ cfg["window"].fan \in Drivable /\ cfg[ProcessOf(t)].fan \in Drivable
  BY DEF Typed, SoundInv, Procs, ProcessOf
<1>x. x \in Doable
  BY DEF Sound
<1>b. FALSE \in BOOLEAN
  OBVIOUS
<1>1. CASE s = <<>>
  BY <1>1, SoundWork
<1>2. CASE x.do = "power" /\ s = <<Save([power |-> x.mode], FALSE)>>
  <2>1. [power |-> x.mode] \in Changes /\ "fan" \notin DOMAIN [power |-> x.mode]
    BY <1>2, <1>x, DoableFields, ChangesMade
  <2>2. Save([power |-> x.mode], FALSE) \in Sound
    BY <1>b, <2>1, SoundSteps, Zenon
  <2> QED
    BY <1>2, <2>2, SoundWork
<1>3. CASE x.do = "curves" /\ s = <<Save([fan |-> x.curves], FALSE)>>
  <2>1. x.curves \in Drivable /\ x.curves \in Curves
    BY <1>3 DEF Sound, Drivable
  <2>2. [fan |-> x.curves] \in Changes /\ [fan |-> x.curves]["fan"] \in Drivable \cup {"keep"}
    BY <2>1, ChangesMade
  <2>3. Save([fan |-> x.curves], FALSE) \in Sound
    BY <1>b, <2>2, SoundSteps, Zenon
  <2> QED
    BY <1>3, <2>3, SoundWork
<1>4. CASE x.do = "save" /\ s = <<Flush(Updated(cfg[ProcessOf(t)], x.change))>>
  <2> DEFINE u == Updated(cfg[ProcessOf(t)], x.change)
  <2>1. x.change \in Changes
    BY <1>4, <1>x, DoableFields
  <2>2. "fan" \in DOMAIN x.change => x.change["fan"] \in Drivable \cup {"keep"}
    BY <1>4 DEF Sound, Changing
  <2>3. u \in Known /\ u.fan \in Drivable
    BY <1>k, <2>1, <2>2, SoundSave, SavedIsKnown
  <2> HIDE DEF u
  <2>4. Flush(u) \in Sound
    BY <2>3, SoundSteps
  <2>5. s = <<Flush(u)>>
    BY <1>4 DEF u
  <2> QED
    BY <2>4, <2>5, SoundWork
<1>5. CASE x.do = "restore" /\ s = RestoreSteps(cfg["window"])
  <2> DEFINE c == cfg["window"]
             a == IF c.power = "none" THEN <<>> ELSE <<Power(c.power, "restore")>>
             b == IF c.fan = "missing" THEN <<>> ELSE <<FanCurve(c.fan, "restore")>>
  <2>1. c.power = "none" \/ Power(c.power, "restore") \in Sound
    BY <1>k, SoundSteps DEF Known
  <2>2. FanCurve(c.fan, "restore") \in Sound
    BY <1>k, SoundSteps
  <2>3. a \in Seq(Sound)
    BY <2>1, SoundWork
  <2>4. b \in Seq(Sound)
    BY <2>2, SoundWork
  <2>5. s = a \o b
    BY <1>5 DEF RestoreSteps
  <2> HIDE DEF a, b
  <2> QED
    BY <2>3, <2>4, <2>5, SoundWork
<1>6. ASSUME NEW on \in BOOLEAN, s = <<Save([start |-> on], FALSE)>>
      PROVE  s \in Seq(Sound)
  <2>1. [start |-> on] \in Changes /\ "fan" \notin DOMAIN [start |-> on]
    BY ChangesMade
  <2>2. Save([start |-> on], FALSE) \in Sound
    BY <1>b, <2>1, SoundSteps, Zenon
  <2> QED
    BY <1>6, <2>2, SoundWork
<1> QED
  BY <1>1, <1>2, <1>3, <1>4, <1>5, <1>6 DEF Follows
-----------------------------------------------------------------------------
\* What a step does to the memory of the processes and to the file.
LEMMA AdvanceSaves ==
    ASSUME Typed, NEW t \in Threads, Advance(t)
    PROVE  /\ Now(t).do # "save" => cfg' = cfg
           /\ Now(t).do = "save" =>
                cfg' = [cfg EXCEPT ![ProcessOf(t)] = Updated(cfg[ProcessOf(t)], Now(t).change)]
           /\ file' \in {file, Torn} \/ (Now(t).do = "flush" /\ file' = Now(t).text)
<1> USE DEF memory
<1>1. CASE Now(t).do = "power"
  BY <1>1, WhichAction DEF WritePower
<1>2. CASE Now(t).do = "curves"
  BY <1>2, WhichAction DEF InstallCurves
<1>3. CASE Now(t).do \in {"prefer", "preferSaved"}
  BY <1>3, WhichAction DEF InstallSource
<1>4. CASE Now(t).do = "save"
  BY <1>4, WhichAction DEF OpenFile
<1>5. CASE Now(t).do = "flush"
  BY <1>5, WhichAction DEF WriteFile
<1>6. CASE Now(t).do = "restore"
  BY <1>6, WhichAction DEF Restore
<1>7. CASE Now(t).do = "task"
  BY <1>7, WhichAction DEF SetTask
<1>8. CASE Now(t).do = "sync"
  BY <1>8, WhichAction DEF SyncTask
<1> QED
  BY <1>1, <1>2, <1>3, <1>4, <1>5, <1>6, <1>7, <1>8, WhichAction

\* The works the threads are given are sound.
LEMMA SoundGiven ==
    ASSUME FilesSound
    PROVE  /\ StartSteps \in Seq(Sound)
           /\ \A p \in Imports : Valid(p) => ImportSteps(p) \in Seq(Sound)
           /\ \A m \in Modes : <<Power(m, "user")>> \in Seq(Sound)
           /\ <<FanCurve("own", "user")>> \in Seq(Sound)
           /\ <<Save([fan |-> "keep"], FALSE)>> \in Seq(Sound)
           /\ \A on \in BOOLEAN : /\ <<Save([start |-> on], TRUE)>> \in Seq(Sound)
                                  /\ <<Task(on, TRUE)>> \in Seq(Sound)
           /\ \A s \in Sources : <<Save([source |-> s], TRUE), Prefer(s)>> \in Seq(Sound)
           /\ <<Flush(DefaultConfig)>> \in Seq(Sound)
<1>b. TRUE \in BOOLEAN /\ FALSE \in BOOLEAN
  OBVIOUS
<1>1. StartSteps \in Seq(Sound)
  BY SoundSteps, SoundWork, Zenon DEF StartSteps
<1>2. ASSUME NEW p \in Imports, Valid(p)
      PROVE  ImportSteps(p) \in Seq(Sound)
  <2>1. p \in Changes /\ p.start \in BOOLEAN /\ p.source \in Sources
    BY <1>2, ChangesMade
  <2>2. p["fan"] \in Drivable \cup {"keep"}
    BY DEF FilesSound
  <2>3. Save(p, TRUE) \in Sound
    BY <1>b, <2>1, <2>2, SoundSteps
  <2>4. /\ Prefer(p.source) \in Sound /\ Task(p.start, FALSE) \in Sound
        /\ Step("restore") \in Sound /\ Step("stuck") \in Sound
    BY <2>1, SoundSteps
  <2> QED
    BY <2>3, <2>4, SoundWork, Zenon DEF ImportSteps
<1>3. ASSUME NEW m \in Modes PROVE <<Power(m, "user")>> \in Seq(Sound)
  BY SoundSteps, SoundWork
<1>4. <<FanCurve("own", "user")>> \in Seq(Sound)
  BY SoundSteps, SoundWork DEF Drivable, Curves
<1>5. Save([fan |-> "keep"], FALSE) \in Sound
  <2>1. [fan |-> "keep"] \in Changes /\ [fan |-> "keep"]["fan"] \in Drivable \cup {"keep"}
    BY ChangesMade
  <2> QED
    BY <1>b, <2>1, SoundSteps, Zenon
<1>6. ASSUME NEW on \in BOOLEAN
      PROVE  Save([start |-> on], TRUE) \in Sound /\ Task(on, TRUE) \in Sound
  <2>1. [start |-> on] \in Changes /\ "fan" \notin DOMAIN [start |-> on]
    BY ChangesMade
  <2>2. Save([start |-> on], TRUE) \in Sound
    BY <1>b, <2>1, SoundSteps, Zenon
  <2> QED
    BY <2>2, SoundSteps
<1>7. ASSUME NEW s \in Sources
      PROVE  Save([source |-> s], TRUE) \in Sound /\ Prefer(s) \in Sound
  <2>1. [source |-> s] \in Changes /\ "fan" \notin DOMAIN [source |-> s]
    BY ChangesMade
  <2>2. Save([source |-> s], TRUE) \in Sound
    BY <1>b, <2>1, SoundSteps, Zenon
  <2> QED
    BY <2>2, SoundSteps
<1>8. Flush(DefaultConfig) \in Sound
  <2>1. DefaultConfig.fan \in Drivable
    BY DEF DefaultConfig, Drivable, Curves
  <2> QED
    BY <2>1, DefaultIsKnown, SoundSteps
<1> QED
  BY <1>1, <1>2, <1>3, <1>4, <1>5, <1>6, <1>7, <1>8, SoundWork, Zenon

\* The user's operations give sound work.
LEMMA SoundUser ==
    ASSUME Typed, SoundInv, FilesSound,
           \/ \E m \in Modes, t \in {"worker", "tray"} : ChoosePower(t, m)
           \/ EditCurves \/ EditOther
           \/ \E on \in BOOLEAN : PersistSettings(on)
           \/ \E s \in Sources : PersistSource(s)
           \/ \E p \in Imports : ImportConfig(p)
    PROVE  SoundInv'
<1>0. {"main", "worker", "tray"} \subseteq Threads
  BY DEF Threads
<1>1. ASSUME NEW t \in {"main", "worker", "tray"}, NEW w \in Seq(Sound), Begin(t, w)
      PROVE  SoundInv'
  <2>1. /\ t \in Threads /\ cfg' = cfg /\ file' = file
        /\ todo'[t] = w /\ \A s \in Threads : s # t => todo'[s] = todo[s]
    BY <1>0, <1>1, BeginMakes
  <2> QED
    BY <2>1 DEF SoundInv
<1>2. ASSUME NEW on \in BOOLEAN, PersistSettings(on)
      PROVE  SoundInv'
  <2> DEFINE a == <<Save([start |-> on], TRUE)>>
             b == <<Task(on, TRUE)>>
             r == IF cfg["window"].start # on THEN b ELSE <<>>
  <2>1. Begin("main", a \o r)
    BY <1>2 DEF PersistSettings
  <2>2. a \in Seq(Sound) /\ b \in Seq(Sound)
    BY SoundGiven
  <2> HIDE DEF a, b
  <2>3. r \in Seq(Sound)
    BY <2>2, SoundWork
  <2> HIDE DEF r
  <2>4. a \o r \in Seq(Sound)
    BY <2>2, <2>3
  <2> QED
    BY <1>1, <2>1, <2>4
<1>3. ASSUME NEW m \in Modes, NEW t \in {"worker", "tray"}, ChoosePower(t, m)
      PROVE  SoundInv'
  BY <1>1, <1>3, SoundGiven DEF ChoosePower
<1>4. CASE EditCurves \/ EditOther
  BY <1>1, <1>4, SoundGiven DEF EditCurves, EditOther
<1>5. ASSUME NEW s \in Sources, PersistSource(s)
      PROVE  SoundInv'
  BY <1>1, <1>5, SoundGiven DEF PersistSource
<1>6. ASSUME NEW p \in Imports, ImportConfig(p)
      PROVE  SoundInv'
  BY <1>1, <1>6, SoundGiven DEF ImportConfig
<1> QED
  BY <1>2, <1>3, <1>4, <1>5, <1>6

LEMMA SoundAdvances ==
    ASSUME Typed, Obeyed, SoundInv, NEW t \in Threads, Advance(t)
    PROVE  SoundInv'
<1> DEFINE x == Now(t)
           p == ProcessOf(t)
<1>0. p \in Procs /\ DOMAIN cfg = Procs /\ \A s \in Procs : cfg[s] \in Known
  BY DEF Typed, ProcessOf, Procs
<1>1. todo[t] # <<>> /\ todo[t] \in Seq(Sound) /\ x \in Sound /\ x \in Doable
      /\ Tail(todo[t]) \in Seq(Sound)
  <2>1. todo[t] # <<>> /\ todo[t] \in Seq(Sound)
    BY AdvanceFollows DEF SoundInv
  <2> QED
    BY <2>1 DEF Now, Sound
<1>2. todo'[t] \in Seq(Sound)
  <2>1. CASE TakenBack(t, x)
    <3>1. x.on \in BOOLEAN /\ (~x.on) \in BOOLEAN /\ FALSE \in BOOLEAN
      BY <1>1, <2>1, DoableFields DEF TakenBack
    <3>2. [start |-> ~x.on] \in Changes /\ "fan" \notin DOMAIN [start |-> ~x.on]
      BY <3>1, ChangesMade
    <3>3. Save([start |-> ~x.on], FALSE) \in Sound
      BY <3>1, <3>2, SoundSteps, Zenon
    <3>4. todo'[t] = <<Save([start |-> ~x.on], FALSE)>>
      BY <2>1 DEF TakenBack, Typed
    <3> QED
      BY <3>3, <3>4, SoundWork
  <2>2. ASSUME NEW s, Follows(t, x, s), todo'[t] = s \o Tail(todo[t])
        PROVE  todo'[t] \in Seq(Sound)
    BY <1>1, <2>2, SoundFollows, SoundWork
  <2> QED
    BY <2>1, <2>2, AdvanceFollows
<1>3. \A s \in Threads : s # t => todo'[s] = todo[s]
  BY AdvanceAlone
<1>4. \A s \in Procs : cfg'[s].fan \in Drivable
  <2>1. CASE x.do # "save"
    BY <2>1, AdvanceSaves DEF SoundInv
  <2>2. CASE x.do = "save"
    <3> DEFINE u == Updated(cfg[p], x.change)
    <3>1. u.fan \in Drivable
      <4>1. x.change \in Changes
        BY <1>1, <2>2, DoableFields
      <4>2. "fan" \in DOMAIN x.change => x.change["fan"] \in Drivable \cup {"keep"}
        BY <1>1, <2>2 DEF Sound, Changing
      <4>3. cfg[p].fan \in Drivable /\ cfg[p] \in Known
        BY <1>0 DEF SoundInv
      <4> QED
        BY <4>1, <4>2, <4>3, SoundSave
    <3>2. cfg' = [cfg EXCEPT ![p] = u]
      BY <2>2, AdvanceSaves
    <3> HIDE DEF u
    <3> QED
      BY <1>0, <3>1, <3>2 DEF SoundInv
  <2> QED
    BY <2>1, <2>2
<1>5. file' \in Config => file'.fan \in Drivable
  <2>1. CASE file' \in {file, Torn}
    BY <2>1, NoConfig DEF SoundInv
  <2>2. CASE x.do = "flush" /\ file' = x.text
    BY <1>1, <2>2 DEF Sound
  <2> QED
    BY <2>1, <2>2, AdvanceSaves
<1> QED
  BY <1>2, <1>3, <1>4, <1>5 DEF SoundInv

LEMMA SoundStep ==
    ASSUME Typed, Obeyed, DownIsIdle, FilesSound, SoundInv, [Next]_vars
    PROVE  SoundInv'
<1>0. "main" \in Threads /\ "cli" \in Threads /\ "cli" # "main"
  BY DEF Threads
<1>p. Procs = {"window", "cli"} /\ DOMAIN cfg = Procs
  BY DEF Procs, Typed
<1>d. DefaultConfig.fan \in Drivable
  BY DEF DefaultConfig, Drivable, Curves
<1>f. file \in Config => Sanitised(file).fan \in Drivable
  BY DEF Sanitised, SoundInv, Config
<1>u. ASSUME UNCHANGED <<file, cfg, todo>>
      PROVE  SoundInv'
  BY <1>u DEF SoundInv
<1>1. CASE UNCHANGED vars
  BY <1>1, <1>u DEF vars, memory
<1>2. CASE Launch
  <2>1. CASE UNCHANGED <<file, cfg, lock, apu, curves, preferred, task, phase, todo>>
    BY <1>u, <2>1
  <2>2. ASSUME \A s \in Threads : s # "main" => todo'[s] = todo[s],
               todo'["main"] = StartSteps, file \in Config, file' = file,
               cfg' = [cfg EXCEPT !["window"] = Sanitised(file)]
        PROVE  SoundInv'
    <3>1. todo'["main"] \in Seq(Sound)
      BY <2>2, SoundGiven
    <3>2. \A p \in Procs : cfg'[p].fan \in Drivable
      BY <1>f, <1>p, <2>2 DEF SoundInv
    <3> QED
      BY <2>2, <3>1, <3>2 DEF SoundInv
  <2>3. ASSUME \A s \in Threads : s # "main" => todo'[s] = todo[s],
               todo'["main"] = <<Flush(DefaultConfig)>> \o StartSteps, file' = Torn,
               cfg' = [cfg EXCEPT !["window"] = DefaultConfig]
        PROVE  SoundInv'
    <3>1. todo'["main"] \in Seq(Sound)
      BY <2>3, SoundGiven, SoundWork
    <3>2. \A p \in Procs : cfg'[p].fan \in Drivable
      BY <1>d, <1>p, <2>3 DEF SoundInv
    <3> QED
      BY <2>3, <3>1, <3>2, NoConfig DEF SoundInv
  <2> QED
    BY <1>2, <2>1, <2>2, <2>3, LaunchMakes
<1>3. CASE Quit \/ Crash
  <2>1. cfg' = cfg /\ file' = file /\ \A s \in Threads : todo'[s] \in {todo[s], <<>>}
    BY <1>3, EndMakes
  <2> QED
    BY <2>1, SoundWork DEF SoundInv
<1>4. CASE Ready
  <2>1. /\ cfg' = cfg /\ file' = file /\ todo["main"] # <<>>
        /\ todo'["main"] = Tail(todo["main"])
        /\ \A s \in Threads : s # "main" => todo'[s] = todo[s]
    BY <1>4, ReadyMakes
  <2>2. todo'["main"] \in Seq(Sound)
    <3>1. todo["main"] \in Seq(Sound)
      BY <1>0 DEF SoundInv
    <3> QED
      BY <2>1, <3>1
  <2> QED
    BY <2>1, <2>2 DEF SoundInv
<1>5. ASSUME NEW m \in Modes, CliMode(m)
      PROVE  SoundInv'
  <2>1. \A s \in Threads : s # "cli" => todo'[s] = todo[s]
    BY <1>5, CommandMakes
  <2>2. CASE /\ todo'["cli"] = <<Power(m, "user")>> /\ file \in Config /\ file' = file
             /\ cfg' = [cfg EXCEPT !["cli"] = Sanitised(file)]
    <3>1. todo'["cli"] \in Seq(Sound)
      BY <2>2, SoundGiven
    <3>2. \A p \in Procs : cfg'[p].fan \in Drivable
      BY <1>f, <1>p, <2>2 DEF SoundInv
    <3> QED
      BY <2>1, <2>2, <3>1, <3>2 DEF SoundInv
  <2>3. CASE /\ todo'["cli"] = <<Flush(DefaultConfig)>> \o <<Power(m, "user")>>
             /\ file' = Torn /\ cfg' = [cfg EXCEPT !["cli"] = DefaultConfig]
    <3>1. todo'["cli"] \in Seq(Sound)
      BY <2>3, SoundGiven, SoundWork
    <3>2. \A p \in Procs : cfg'[p].fan \in Drivable
      BY <1>d, <1>p, <2>3 DEF SoundInv
    <3> QED
      BY <2>1, <2>3, <3>1, <3>2, NoConfig DEF SoundInv
  <2> QED
    BY <1>5, <2>2, <2>3, CommandMakes
<1>6. CASE \/ \E m \in Modes, t \in {"worker", "tray"} : ChoosePower(t, m)
           \/ EditCurves \/ EditOther
           \/ \E on \in BOOLEAN : PersistSettings(on)
           \/ \E s \in Sources : PersistSource(s)
           \/ \E p \in Imports : ImportConfig(p)
  BY <1>6, SoundUser
<1>7. ASSUME NEW t \in Threads, Advance(t)
      PROVE  SoundInv'
  BY <1>7, SoundAdvances
<1>8. ASSUME Next
      PROVE  \/ Launch \/ Quit \/ Crash \/ Ready \/ \E m \in Modes : CliMode(m)
             \/ \E m \in Modes, t \in {"worker", "tray"} : ChoosePower(t, m)
             \/ EditCurves \/ EditOther
             \/ \E on \in BOOLEAN : PersistSettings(on)
             \/ \E s \in Sources : PersistSource(s)
             \/ \E p \in Imports : ImportConfig(p)
             \/ \E t \in Threads : Advance(t)
  BY <1>8, Zenon DEF Next
<1> QED
  BY <1>1, <1>2, <1>3, <1>4, <1>5, <1>6, <1>7, <1>8
-----------------------------------------------------------------------------
(***************************************************************************)
(* The curves, with the files' curves sound.                               *)
(***************************************************************************)
\* One thread's work w, the curves of the configuration and the controller's.
FanForm(w, saved, used) ==
    \/ w \in Seq(FanQuiet) /\ saved = used
    \/ /\ \E k \in Drivable : Awaits(FanQuiet, w, FanCurve(k, "user"))
       /\ saved = used
    \/ /\ \E strict \in BOOLEAN : Awaits(FanQuiet, w, Save([fan |-> used], strict))
       /\ used \in Drivable
    \/ Awaits(FanQuiet, w, Step("restore"))
    \/ Awaits(FanQuiet, w, FanCurve(saved, "restore")) /\ saved \in Drivable
    \/ \E p \in Imports : Valid(p) /\ w = ImportSteps(p)

FanSetBy(u) ==
    /\ \A t \in Windows \ {u} : todo[t] \in Seq(FanQuiet)
    /\ FanForm(todo[u], cfg["window"].fan, curves)

FanInv == phase # "down" => \E u \in Windows : FanSetBy(u)

LEMMA FanLoud ==
    /\ \A k \in Drivable : \A strict : Save([fan |-> k], strict) \notin FanQuiet
    /\ \A k, who : FanCurve(k, who) \notin FanQuiet
    /\ Step("restore") \notin FanQuiet
    /\ \A p \in Imports : \A strict : Valid(p) => Save(p, strict) \notin FanQuiet
<1> USE DEF FanQuiet, LoudForFan, Changing
<1>1. ASSUME NEW k \in Drivable, NEW strict PROVE Save([fan |-> k], strict) \notin FanQuiet
  <2>1. k # "keep" /\ [fan |-> k].fan = k /\ "fan" \in DOMAIN [fan |-> k]
    BY DEF Drivable, Curves
  <2>2. Save([fan |-> k], strict).do = "save"
        /\ Save([fan |-> k], strict).change = [fan |-> k]
    BY DEF Save
  <2> QED
    BY <2>1, <2>2
<1>2. ASSUME NEW k, NEW who PROVE FanCurve(k, who) \notin FanQuiet
  BY DEF FanCurve
<1>3. Step("restore") \notin FanQuiet
  BY DEF Step
<1>4. ASSUME NEW p \in Imports, NEW strict, Valid(p) PROVE Save(p, strict) \notin FanQuiet
  <2>1. "fan" \in DOMAIN p /\ p.fan # "keep"
    BY SettingsFilesAssumption DEF Config, Curves
  <2> QED
    BY <2>1 DEF Save
<1> QED
  BY <1>1, <1>2, <1>3, <1>4

LEMMA FanQuietSteps ==
    /\ Step("preferSaved") \in Certain(FanQuiet) /\ Step("sync") \in FanQuiet
    /\ Step("ready") \in FanQuiet /\ Step("stuck") \in FanQuiet
    /\ \A s \in Sources : Prefer(s) \in Certain(FanQuiet)
    /\ \A s \in Sources : Save([source |-> s], TRUE) \in FanQuiet
    /\ \A on \in BOOLEAN : Save([start |-> on], TRUE) \in FanQuiet
    /\ \A on \in BOOLEAN : Task(on, TRUE) \in FanQuiet
    /\ \A on \in BOOLEAN : Task(on, FALSE) \in Certain(FanQuiet)
    /\ \A m \in Modes : Power(m, "user") \in FanQuiet
    /\ \A m \in Modes : Power(m, "restore") \in Certain(FanQuiet)
    /\ Save([fan |-> "keep"], FALSE) \in FanQuiet
    /\ Flush(DefaultConfig) \in Certain(FanQuiet)
<1> USE DEF FanQuiet, LoudForFan, Changing, Certain, Passing
<1>1. ASSUME NEW do \in {"preferSaved", "sync", "ready", "stuck"}
      PROVE  Step(do) \in FanQuiet /\ (do = "preferSaved" => Passing(Step(do)))
  BY PlainSteps, SingleFields DEF Doable
<1>2. ASSUME NEW on \in BOOLEAN, NEW undo \in BOOLEAN
      PROVE  Task(on, undo) \in FanQuiet /\ (~undo => Passing(Task(on, undo)))
  BY PlainSteps, SingleFields DEF Doable
<1>3. ASSUME NEW s \in Sources
      PROVE  Prefer(s) \in Certain(FanQuiet)
  BY PlainSteps, SingleFields DEF Doable
<1>4. ASSUME NEW change \in Changes, NEW strict \in BOOLEAN,
             "fan" \in DOMAIN change => change.fan = "keep"
      PROVE  Save(change, strict) \in FanQuiet
  <2>1. Save(change, strict) \in Doable
    BY PlainSteps DEF Doable
  <2>2. Save(change, strict).do = "save" /\ Save(change, strict).change = change
    BY DEF Save
  <2> QED
    BY <1>4, <2>1, <2>2
<1>5. /\ \A s \in Sources : [source |-> s] \in Changes /\ "fan" \notin DOMAIN [source |-> s]
      /\ \A on \in BOOLEAN : [start |-> on] \in Changes /\ "fan" \notin DOMAIN [start |-> on]
      /\ [fan |-> "keep"] \in Changes /\ [fan |-> "keep"].fan = "keep"
  BY ChangesMade
<1>6. ASSUME NEW m \in Modes, NEW who \in {"user", "restore"}
      PROVE  Power(m, who) \in Certain(FanQuiet)
  BY PlainSteps, SingleFields DEF Doable
<1>7. Flush(DefaultConfig) \in Certain(FanQuiet)
  BY FollowersDoable, SingleFields, DefaultIsKnown
<1>9. /\ \A s \in Sources : Save([source |-> s], TRUE) \in FanQuiet
      /\ \A on \in BOOLEAN : Save([start |-> on], TRUE) \in FanQuiet
      /\ Save([fan |-> "keep"], FALSE) \in FanQuiet
  <2> HIDE DEF FanQuiet
  <2> QED
    BY <1>4, <1>5, Zenon
<1> HIDE DEF FanQuiet, Certain, Passing
<1> QED
  BY <1>1, <1>2, <1>3, <1>6, <1>7, <1>9 DEF Certain

LEMMA FanAgrees ==
    ASSUME NEW w, NEW saved, NEW used, FanForm(w, saved, used), w \in Seq(FanQuiet)
    PROVE  saved = used
<1>1. \A x : Awaits(FanQuiet, w, x) => x \in FanQuiet
  BY AwaitsLoud
<1>2. ASSUME NEW p \in Imports, Valid(p), w = ImportSteps(p)
      PROVE  FALSE
  <2>1. w # <<>> /\ Head(w) \notin FanQuiet
    BY <1>2, ImportHead, FanLoud
  <2> QED
    BY <2>1
<1> QED
  BY <1>1, <1>2, FanLoud, Zenon DEF FanForm

LEMMA FanQuietGoes ==
    ASSUME NEW w, NEW saved, NEW used, FanForm(w, saved, used), w # <<>>,
           Head(w) \in FanQuiet
    PROVE  /\ \A s \in Seq(Certain(FanQuiet)) : FanForm(s \o Tail(w), saved, used)
           /\ ~Passing(Head(w)) => saved = used
<1>1. CASE w \in Seq(FanQuiet) /\ saved = used
  <2>1. ASSUME NEW s \in Seq(Certain(FanQuiet)) PROVE FanForm(s \o Tail(w), saved, used)
    <3>1. s \in Seq(FanQuiet)
      BY DEF Certain
    <3>2. s \o Tail(w) \in Seq(FanQuiet)
      BY <1>1, <3>1
    <3> QED
      BY <1>1, <3>2, Zenon DEF FanForm
  <2> QED
    BY <1>1, <2>1
<1>a. ASSUME NEW x, x \notin FanQuiet, Awaits(FanQuiet, w, x)
      PROVE  /\ \A s \in Seq(Certain(FanQuiet)) : Awaits(FanQuiet, s \o Tail(w), x)
             /\ Passing(Head(w))
  BY <1>a, ComesTo DEF Certain
<1>2. CASE /\ \E k \in Drivable : Awaits(FanQuiet, w, FanCurve(k, "user"))
           /\ saved = used
  BY <1>2, <1>a, FanLoud, Zenon DEF FanForm
<1>3. CASE /\ \E strict \in BOOLEAN : Awaits(FanQuiet, w, Save([fan |-> used], strict))
           /\ used \in Drivable
  BY <1>3, <1>a, FanLoud, Zenon DEF FanForm
<1>4. CASE Awaits(FanQuiet, w, Step("restore"))
  BY <1>4, <1>a, FanLoud, Zenon DEF FanForm
<1>5. CASE Awaits(FanQuiet, w, FanCurve(saved, "restore")) /\ saved \in Drivable
  BY <1>5, <1>a, FanLoud, Zenon DEF FanForm
<1>6. ASSUME NEW p \in Imports, Valid(p), w = ImportSteps(p)
      PROVE  FALSE
  BY <1>6, ImportHead, FanLoud
<1> QED
  BY <1>1, <1>2, <1>3, <1>4, <1>5, <1>6, Zenon DEF FanForm

LEMMA FanLoudNow ==
    ASSUME NEW w, NEW saved, NEW used, FanForm(w, saved, used), w # <<>>,
           Head(w) \notin FanQuiet
    PROVE  \/ /\ Tail(w) \in Seq(FanQuiet)
              /\ \/ \E k \in Drivable : Head(w) = FanCurve(k, "user") /\ saved = used
                 \/ \E strict \in BOOLEAN : /\ Head(w) = Save([fan |-> used], strict)
                                            /\ used \in Drivable
                 \/ Head(w) = Step("restore")
                 \/ Head(w) = FanCurve(saved, "restore") /\ saved \in Drivable
           \/ \E p \in Imports : Valid(p) /\ w = ImportSteps(p)
<1>1. w \notin Seq(FanQuiet)
  OBVIOUS
<1>2. ASSUME NEW x, Awaits(FanQuiet, w, x)
      PROVE  Head(w) = x /\ Tail(w) \in Seq(FanQuiet)
  BY <1>2, ComesTo
<1>3. CASE /\ \E k \in Drivable : Awaits(FanQuiet, w, FanCurve(k, "user"))
           /\ saved = used
  <2>1. PICK k \in Drivable : Awaits(FanQuiet, w, FanCurve(k, "user"))
    BY <1>3
  <2>2. Head(w) = FanCurve(k, "user") /\ Tail(w) \in Seq(FanQuiet)
    BY <1>2, <2>1, Zenon
  <2> QED
    BY <1>3, <2>2, Zenon
<1>4. CASE /\ \E strict \in BOOLEAN : Awaits(FanQuiet, w, Save([fan |-> used], strict))
           /\ used \in Drivable
  <2>1. PICK strict \in BOOLEAN : Awaits(FanQuiet, w, Save([fan |-> used], strict))
    BY <1>4
  <2>2. Head(w) = Save([fan |-> used], strict) /\ Tail(w) \in Seq(FanQuiet)
    BY <1>2, <2>1, Zenon
  <2> QED
    BY <1>4, <2>2, Zenon
<1>5. CASE Awaits(FanQuiet, w, Step("restore"))
  BY <1>2, <1>5, Zenon
<1>6. CASE Awaits(FanQuiet, w, FanCurve(saved, "restore")) /\ saved \in Drivable
  BY <1>2, <1>6, Zenon
<1> QED
  BY <1>1, <1>3, <1>4, <1>5, <1>6, Zenon DEF FanForm

LEMMA NobodySetsCurves ==
    ASSUME Typed, NEW t \in Threads, ~SettingCurves(t)
    PROVE  todo[t] \in Seq(FanQuiet)
<1>1. todo[t] \in Seq(Doable)
  BY DoableWork
<1>2. \A i \in DOMAIN todo[t] : todo[t][i] \in FanQuiet
  BY <1>1 DEF SettingCurves, FanQuiet, LoudForFan, Changing
<1>3. DOMAIN todo[t] = 1 .. Len(todo[t]) /\ Len(todo[t]) \in Nat
  BY <1>1
<1>4. todo[t] = [i \in 1 .. Len(todo[t]) |-> todo[t][i]]
  BY <1>1
<1> QED
  BY <1>2, <1>3, <1>4
-----------------------------------------------------------------------------
\* A thread that moves without a loud step moves within its form.
LEMMA FanMoves ==
    ASSUME Typed, FanInv, phase # "down", NEW t \in Windows,
           \A s \in Windows \ {t} : todo'[s] = todo[s],
           cfg'["window"].fan = cfg["window"].fan, curves' = curves,
           todo[t] \in Seq(FanQuiet) => todo'[t] \in Seq(FanQuiet),
           \A saved, used : FanForm(todo[t], saved, used) => FanForm(todo'[t], saved, used)
    PROVE  FanInv'
<1>1. PICK u \in Windows : FanSetBy(u)
  BY DEF FanInv
<1>2. FanForm(todo'[u], cfg'["window"].fan, curves')
  BY <1>1, Zenon DEF FanSetBy
<1>3. \A s \in Windows \ {u} : todo'[s] \in Seq(FanQuiet)
  BY <1>1 DEF FanSetBy
<1> QED
  BY <1>2, <1>3, Zenon DEF FanInv, FanSetBy

LEMMA FanNobody ==
    ASSUME Typed, FanInv, phase # "down", ~CurveOverlap, MaySetCurves
    PROVE  /\ \A t \in Windows : todo[t] \in Seq(FanQuiet)
           /\ cfg["window"].fan = curves
<1>1. \A t \in Windows : todo[t] \in Seq(FanQuiet)
  BY NobodySetsCurves DEF MaySetCurves, Windows
<1>2. PICK u \in Windows : FanSetBy(u)
  BY DEF FanInv
<1>3. FanForm(todo[u], cfg["window"].fan, curves) /\ todo[u] \in Seq(FanQuiet)
  BY <1>1, <1>2, Zenon DEF FanSetBy
<1>4. cfg["window"].fan = curves
  BY <1>3, FanAgrees
<1> QED
  BY <1>1, <1>4

\* A thread begins to set curves when nobody does.
LEMMA FanTakes ==
    ASSUME Typed, FanInv, phase # "down", ~CurveOverlap, MaySetCurves,
           NEW t \in Windows, NEW w, Begin(t, w),
           FanForm(w, cfg["window"].fan, curves)
    PROVE  FanInv'
<1>1. t \in Threads
  BY DEF Windows
<1>2. /\ \A s \in Windows \ {t} : todo'[s] = todo[s]
      /\ todo'[t] = w /\ cfg' = cfg /\ curves' = curves
  BY <1>1, BeginMakes DEF Windows
<1>3. \A s \in Windows \ {t} : todo'[s] \in Seq(FanQuiet)
  BY <1>2, FanNobody
<1>4. FanForm(todo'[t], cfg'["window"].fan, curves')
  BY <1>2, Zenon
<1> QED
  BY <1>3, <1>4, Zenon DEF FanInv, FanSetBy

\* An idle thread begins something else.
LEMMA FanBegins ==
    ASSUME Typed, FanInv, phase # "down", NEW t \in Windows, NEW w \in Seq(FanQuiet),
           Begin(t, w)
    PROVE  FanInv'
<1>1. t \in Threads
  BY DEF Windows
<1>2. /\ \A s \in Windows \ {t} : todo'[s] = todo[s]
      /\ todo[t] = <<>> /\ todo'[t] = w /\ cfg' = cfg /\ curves' = curves
  BY <1>1, BeginMakes DEF Windows
<1>3. todo[t] \in Seq(FanQuiet)
  BY <1>2
<1>4. ASSUME NEW saved, NEW used, FanForm(todo[t], saved, used)
      PROVE  FanForm(todo'[t], saved, used)
  <2>1. saved = used
    BY <1>3, <1>4, FanAgrees
  <2> QED
    BY <1>2, <2>1, Zenon DEF FanForm
<1> QED
  BY <1>2, <1>4, FanMoves

\* What the user may begin.
LEMMA FanUser ==
    ASSUME Typed, FanInv, phase # "down", ~CurveOverlap,
           \/ \E m \in Modes, t \in {"worker", "tray"} : ChoosePower(t, m)
           \/ EditCurves \/ EditOther
           \/ \E on \in BOOLEAN : PersistSettings(on)
           \/ \E s \in Sources : PersistSource(s)
           \/ \E p \in Imports : ImportConfig(p)
    PROVE  FanInv'
<1>0. {"main", "worker", "tray"} \subseteq Windows
  BY DEF Windows, Threads
<1>q. \A x \in FanQuiet : <<x>> \in Seq(FanQuiet)
  OBVIOUS
<1>1. ASSUME NEW m \in Modes, NEW t \in {"worker", "tray"}, ChoosePower(t, m)
      PROVE  FanInv'
  <2>1. t \in Windows /\ Begin(t, <<Power(m, "user")>>)
    BY <1>0, <1>1 DEF ChoosePower
  <2>2. <<Power(m, "user")>> \in Seq(FanQuiet)
    BY <1>q, FanQuietSteps
  <2> QED
    BY <2>1, <2>2, FanBegins
<1>2. CASE EditCurves
  <2> DEFINE x == FanCurve("own", "user")
  <2>1. MaySetCurves /\ Begin("worker", <<x>>)
    BY <1>2 DEF EditCurves
  <2>2. cfg["window"].fan = curves
    BY <2>1, FanNobody
  <2>3. Awaits(FanQuiet, <<x>>, x) /\ "own" \in Drivable
    <3>1. <<>> \in Seq(Certain(FanQuiet))
      OBVIOUS
    <3> QED
      BY <3>1, ComesAlone DEF Drivable, Curves
  <2>4. FanForm(<<x>>, cfg["window"].fan, curves)
    BY <2>2, <2>3, Zenon DEF FanForm
  <2> HIDE DEF x
  <2> QED
    BY <1>0, <2>1, <2>4, FanTakes
<1>3. CASE EditOther
  BY <1>0, <1>3, <1>q, FanQuietSteps, FanBegins DEF EditOther
<1>4. ASSUME NEW on \in BOOLEAN, PersistSettings(on)
      PROVE  FanInv'
  <2> DEFINE a == Save([start |-> on], TRUE)
             b == Task(on, TRUE)
             w == <<a>> \o (IF cfg["window"].start # on THEN <<b>> ELSE <<>>)
  <2>1. a \in FanQuiet /\ b \in FanQuiet
    BY FanQuietSteps
  <2>2. Begin("main", w)
    BY <1>4 DEF PersistSettings
  <2>3. w \in Seq(FanQuiet)
    <3> HIDE DEF a, b
    <3> QED
      BY <2>1
  <2> HIDE DEF w
  <2> QED
    BY <1>0, <2>2, <2>3, FanBegins
<1>5. ASSUME NEW s \in Sources, PersistSource(s)
      PROVE  FanInv'
  <2> DEFINE w == <<Save([source |-> s], TRUE), Prefer(s)>>
  <2>1. w \in Seq(FanQuiet)
    BY FanQuietSteps, Two, Zenon DEF Certain
  <2>2. Begin("main", w)
    BY <1>5 DEF PersistSource
  <2> HIDE DEF w
  <2> QED
    BY <1>0, <2>1, <2>2, FanBegins
<1>6. ASSUME NEW p \in Imports, ImportConfig(p)
      PROVE  FanInv'
  <2>1. MaySetCurves /\ Valid(p) /\ Begin("main", ImportSteps(p))
    BY <1>6 DEF ImportConfig
  <2>2. FanForm(ImportSteps(p), cfg["window"].fan, curves)
    BY <2>1, Zenon DEF FanForm
  <2> QED
    BY <1>0, <2>1, <2>2, FanTakes
<1> QED
  BY <1>1, <1>2, <1>3, <1>4, <1>5, <1>6

\* A step that is quiet for the curves.
LEMMA FanQuietly ==
    ASSUME Typed, Obeyed, SoundInv, FanInv, phase # "down", NEW t \in Windows, Advance(t),
           Now(t) \in FanQuiet
    PROVE  FanInv'
<1> DEFINE x == Now(t)
<1>0. t \in Threads /\ t # "cli" /\ Windows \subseteq Threads
  BY DEF Windows
<1>1. todo[t] # <<>> /\ x = Head(todo[t]) /\ x \in Doable
  BY <1>0, AdvanceFollows DEF Now
<1>2. curves' = curves
  BY <1>0, AdvanceKeeps DEF FanQuiet, LoudForFan
<1>3. cfg'["window"].fan = cfg["window"].fan
  <2>1. CASE x.do # "save"
    BY <1>0, <2>1, AdvanceKeeps
  <2>2. CASE x.do = "save"
    <3>1. "fan" \in DOMAIN x.change => x.change.fan = "keep"
      BY <2>2 DEF FanQuiet, LoudForFan, Changing
    <3>2. cfg["window"].fan # "missing"
      BY DEF SoundInv, Drivable, Curves, Procs
    <3> QED
      BY <1>0, <2>2, <3>1, <3>2, SaveMakes
  <2> QED
    BY <2>1, <2>2
<1>4. \A s \in Windows \ {t} : todo'[s] = todo[s]
  BY <1>0, AdvanceAlone
<1>5. CASE TakenBack(t, x)
  <2>1. todo'[t] \in Seq(FanQuiet) /\ ~Passing(x)
    BY <1>0, <1>1, <1>5, TakenBackQuietly
  <2>2. ASSUME NEW saved, NEW used, FanForm(todo[t], saved, used)
        PROVE  FanForm(todo'[t], saved, used)
    <3>1. saved = used
      BY <1>1, <2>1, <2>2, FanQuietGoes
    <3> QED
      BY <2>1, <3>1, Zenon DEF FanForm
  <2> QED
    BY <1>2, <1>3, <1>4, <2>1, <2>2, FanMoves
<1>6. ASSUME NEW s, Follows(t, x, s), todo'[t] = s \o Tail(todo[t])
      PROVE  FanInv'
  <2>1. s \in Seq(Certain(FanQuiet))
    BY <1>0, <1>1, <1>6, QuietFollows
  <2>2. ASSUME NEW saved, NEW used, FanForm(todo[t], saved, used)
        PROVE  FanForm(todo'[t], saved, used)
    BY <1>1, <1>6, <2>1, <2>2, FanQuietGoes
  <2>3. ASSUME todo[t] \in Seq(FanQuiet) PROVE todo'[t] \in Seq(FanQuiet)
    <3>1. s \in Seq(FanQuiet)
      BY <2>1 DEF Certain
    <3> QED
      BY <1>1, <1>6, <2>3, <3>1
  <2> QED
    BY <1>2, <1>3, <1>4, <2>2, <2>3, FanMoves
<1> QED
  BY <1>0, <1>5, <1>6, AdvanceFollows
-----------------------------------------------------------------------------
\* What restoring leaves to be done about the curves.
LEMMA FanRestores ==
    ASSUME NEW c \in Known, c.fan \in Drivable, NEW r \in Seq(FanQuiet)
    PROVE  Awaits(FanQuiet, RestoreSteps(c) \o r, FanCurve(c.fan, "restore"))
<1> DEFINE y == Power(c.power, "restore")
           x == FanCurve(c.fan, "restore")
           a == IF c.power = "none" THEN <<>> ELSE <<y>>
<1>1. c.power = "none" \/ y \in Certain(FanQuiet)
  BY FanQuietSteps DEF Known
<1>2. a \in Seq(Certain(FanQuiet))
  <2> HIDE DEF y
  <2> QED
    BY <1>1
<1>3. RestoreSteps(c) = a \o <<x>>
  BY DEF RestoreSteps, Drivable, Curves
<1> HIDE DEF a, x
<1>4. (a \o <<x>>) \o r = a \o (<<x>> \o r)
  <2> DEFINE A == FanQuiet \cup {x}
  <2>1. a \in Seq(A) /\ <<x>> \in Seq(A) /\ r \in Seq(A)
    BY <1>2 DEF Certain
  <2> HIDE DEF A
  <2> QED
    BY <2>1, ConcatAssociative
<1>5. Awaits(FanQuiet, a \o (<<x>> \o r), x)
  BY <1>2, ComesAfter
<1> QED
  BY <1>3, <1>4, <1>5 DEF x

\* A step that is loud for the curves.
LEMMA FanLoudly ==
    ASSUME Typed, Obeyed, SoundInv, FanInv, phase # "down",
           NEW t \in Windows, Advance(t), Now(t) \notin FanQuiet
    PROVE  FanInv'
<1> DEFINE w == todo[t]
           c == cfg["window"]
           d == cfg'["window"]
           x == Now(t)
<1>0. t \in Threads /\ t # "cli" /\ Windows \subseteq Threads /\ c \in Known
      /\ c.fan \in Drivable
  BY DEF Windows, Typed, Procs, SoundInv
<1>1. w # <<>> /\ x \in Doable /\ x = Head(w) /\ w \notin Seq(FanQuiet)
  BY <1>0, AdvanceFollows DEF Now
<1>2. FanForm(w, c.fan, curves) /\ \A s \in Windows \ {t} : todo[s] \in Seq(FanQuiet)
  <2>1. PICK u \in Windows : FanSetBy(u)
    BY DEF FanInv
  <2>2. u = t
    BY <1>1, <2>1 DEF FanSetBy
  <2> QED
    BY <2>1, <2>2, Zenon DEF FanSetBy
<1>3. \A s \in Windows \ {t} : todo'[s] \in Seq(FanQuiet)
  BY <1>0, <1>2, AdvanceAlone
<1>4. SUFFICES FanForm(todo'[t], d.fan, curves')
  BY <1>3, Zenon DEF FanInv, FanSetBy
<1>g. \A s : Goes(t, s) => todo'[t] = s
  BY <1>0 DEF Goes, Typed
<1>r. Rest(t) = Tail(w)
  BY DEF Rest
<1>5. ASSUME NEW k \in Drivable, NEW who, x = FanCurve(k, who), Tail(w) \in Seq(FanQuiet)
      PROVE  FanForm(todo'[t], d.fan, curves')
  <2>1. x.do = "curves" /\ x.curves = k /\ k # "over100"
    BY <1>5, SingleFields DEF Drivable
  <2>2. InstallCurves(t)
    BY <2>1, WhichAction
  <2>3. curves' = k /\ Goes(t, <<Save([fan |-> k], FALSE)>> \o Tail(w))
    BY <1>r, <2>1, <2>2 DEF InstallCurves
  <2>4. todo'[t] = <<Save([fan |-> curves'], FALSE)>> \o Tail(w) /\ curves' \in Drivable
    BY <1>g, <2>3
  <2>5. Awaits(FanQuiet, todo'[t], Save([fan |-> curves'], FALSE)) /\ FALSE \in BOOLEAN
    BY <1>5, <2>4, ComesNext
  <2> HIDE DEF d
  <2> QED
    BY <2>4, <2>5, Zenon DEF FanForm
<1>7. CASE x = Step("restore") /\ Tail(w) \in Seq(FanQuiet)
  <2>1. x.do = "restore"
    BY <1>7, SingleFields
  <2>2. d = c /\ curves' = curves /\ Restore(t)
    BY <1>0, <2>1, AdvanceKeeps, WhichAction
  <2>3. todo'[t] = RestoreSteps(c) \o Tail(w)
    BY <1>g, <1>r, <2>2 DEF Restore
  <2>4. d.fan \in Drivable /\ Awaits(FanQuiet, todo'[t], FanCurve(d.fan, "restore"))
    BY <1>0, <1>7, <2>2, <2>3, FanRestores
  <2> HIDE DEF d
  <2> QED
    BY <2>4, Zenon DEF FanForm
<1>s. ASSUME x.do = "save"
      PROVE  /\ curves' = curves
             /\ \E s \in Seq(Certain(FanQuiet)) : todo'[t] = s \o Tail(w)
             /\ "fan" \in DOMAIN x.change /\ x.change.fan # "keep" => d.fan = x.change.fan
  <2>1. curves' = curves
    BY <1>0, <1>s, AdvanceKeeps
  <2>2. ~TakenBack(t, x)
    BY <1>s DEF TakenBack
  <2>3. PICK s : Follows(t, x, s) /\ todo'[t] = s \o Tail(w)
    BY <1>0, <2>2, AdvanceFollows
  <2>4. s \in Seq(Certain(FanQuiet))
    BY <1>0, <1>1, <1>s, <2>3, SaveFollows
  <2>5. "fan" \in DOMAIN x.change /\ x.change.fan # "keep" => d.fan = x.change.fan
    BY <1>0, <1>s, SaveMakes
  <2> QED
    BY <2>1, <2>3, <2>4, <2>5
<1>8. ASSUME NEW strict \in BOOLEAN, x = Save([fan |-> curves], strict), curves \in Drivable,
             Tail(w) \in Seq(FanQuiet)
      PROVE  FanForm(todo'[t], d.fan, curves')
  <2>1. x.do = "save" /\ x.change = [fan |-> curves]
    BY <1>8 DEF Save
  <2>2. "fan" \in DOMAIN x.change /\ x.change.fan = curves /\ curves # "keep"
    BY <1>8, <2>1 DEF Drivable, Curves
  <2>3. todo'[t] \in Seq(FanQuiet)
    <3>1. PICK s \in Seq(Certain(FanQuiet)) : todo'[t] = s \o Tail(w)
      BY <1>s, <2>1
    <3>2. s \in Seq(FanQuiet)
      BY DEF Certain
    <3> HIDE DEF w
    <3> QED
      BY <1>8, <3>1, <3>2
  <2>4. d.fan = curves'
    BY <1>s, <2>1, <2>2
  <2> HIDE DEF d
  <2> QED
    BY <2>3, <2>4, Zenon DEF FanForm
<1>9. ASSUME NEW p \in Imports, Valid(p), w = ImportSteps(p)
      PROVE  FanForm(todo'[t], d.fan, curves')
  <2> DEFINE a == Prefer(p.source)
             b == Task(p.start, FALSE)
             e == Step("restore")
             f == Step("stuck")
  <2>1. x = Save(p, TRUE) /\ Tail(w) = <<a, b, e, f>>
    BY <1>1, <1>9, ImportHead
  <2>2. x.do = "save"
    BY <2>1 DEF Save
  <2>3. p.start \in BOOLEAN /\ p.source \in Sources
    BY SettingsFilesAssumption DEF Config
  <2>4. a \in Certain(FanQuiet) /\ b \in Certain(FanQuiet) /\ f \in FanQuiet
    BY <2>3, FanQuietSteps
  <2>5. PICK s \in Seq(Certain(FanQuiet)) : todo'[t] = s \o Tail(w)
    BY <1>s, <2>2
  <2>6. Awaits(FanQuiet, todo'[t], e)
    <3>1. Awaits(FanQuiet, <<a, b, e, f>>, e)
      <4> HIDE DEF a, b, e, f
      <4> QED
        BY <2>4, OneOfFour DEF Certain
    <3>2. Awaits(FanQuiet, Tail(w), e)
      BY <2>1, <3>1
    <3> HIDE DEF a, b, e, f, w
    <3> QED
      BY <2>5, <3>2, ComesLater
  <2> HIDE DEF d
  <2> QED
    BY <2>6, Zenon DEF FanForm
<1> QED
  <2>1. Head(w) \notin FanQuiet
    BY <1>1
  <2> HIDE DEF w, d, c, x
  <2> QED
    BY <1>1, <1>2, <2>1, <1>5, <1>7, <1>8, <1>9, FanLoudNow, Zenon

LEMMA FanStartUp ==
    /\ Awaits(FanQuiet, StartSteps, Step("restore"))
    /\ Awaits(FanQuiet, <<Flush(DefaultConfig)>> \o StartSteps, Step("restore"))
<1> DEFINE a == Step("preferSaved")
           x == Step("restore")
           c == Step("sync")
           d == Step("ready")
           f == Flush(DefaultConfig)
<1>1. a \in Certain(FanQuiet) /\ c \in FanQuiet /\ d \in FanQuiet
      /\ f \in Certain(FanQuiet)
  BY FanQuietSteps
<1>2. StartSteps = <<a, x, c, d>>
  BY DEF StartSteps
<1> HIDE DEF a, x, c, d, f
<1>3. Awaits(FanQuiet, <<a, x, c, d>>, x)
  BY <1>1, OneOfFour
<1>4. <<f>> \in Seq(Certain(FanQuiet))
  BY <1>1
<1>5. Awaits(FanQuiet, <<f>> \o <<a, x, c, d>>, x)
  BY <1>3, <1>4, ComesLater
<1> QED
  BY <1>2, <1>3, <1>5 DEF f, x

LEMMA FanStep ==
    ASSUME Typed, Obeyed, ~CliOverlap, ~CurveOverlap,
           DownIsIdle, Apart, SoundInv, FanInv, [Next]_vars
    PROVE  FanInv'
<1>0. Windows = {"main", "worker", "tray"} /\ Windows \subseteq Threads
  BY DEF Windows, Threads
<1>u. ASSUME UNCHANGED <<todo, cfg, curves, phase>>
      PROVE  FanInv'
  BY <1>u, Zenon DEF FanInv, FanSetBy
<1>1. CASE UNCHANGED vars
  BY <1>1, <1>u DEF vars, memory, hardware
<1>2. CASE Launch
  <2>1. CASE UNCHANGED <<file, cfg, lock, apu, curves, preferred, task, phase, todo>>
    BY <1>u, <2>1
  <2>2. CASE /\ phase = "down" /\ \A s \in Threads : s # "main" => todo'[s] = todo[s]
             /\ todo'["main"] \in {StartSteps, <<Flush(DefaultConfig)>> \o StartSteps}
    <3>1. Awaits(FanQuiet, todo'["main"], Step("restore"))
      BY <2>2, FanStartUp
    <3>2. \A s \in Windows \ {"main"} : todo'[s] \in Seq(FanQuiet)
      <4>1. \A s \in Windows \ {"main"} : todo'[s] = <<>>
        BY <1>0, <2>2 DEF DownIsIdle, WindowIdle, Idle
      <4>2. <<>> \in Seq(FanQuiet)
        OBVIOUS
      <4> QED
        BY <4>1, <4>2, Zenon
    <3>3. "main" \in Windows
      BY <1>0
    <3> QED
      BY <3>1, <3>2, <3>3, Zenon DEF FanInv, FanSetBy, FanForm
  <2> QED
    BY <1>2, <2>1, <2>2, LaunchMakes
<1>3. CASE Quit \/ Crash
  BY <1>3, EndMakes DEF FanInv
<1>4. CASE Ready
  <2> DEFINE w == todo["main"]
  <2>1. /\ w # <<>> /\ Head(w).do = "ready" /\ todo'["main"] = Tail(w)
        /\ UNCHANGED <<cfg, curves>> /\ \A s \in Windows \ {"main"} : todo'[s] = todo[s]
    BY <1>0, <1>4, ReadyMakes
  <2>2. phase # "down"
    BY <2>1 DEF DownIsIdle, WindowIdle, Idle
  <2>3. Head(w) \in FanQuiet /\ Tail(w) \in Seq(Doable)
    <3>1. Head(w) \in Doable /\ Tail(w) \in Seq(Doable)
      BY <1>0, <2>1, DoableWork
    <3> QED
      BY <2>1, <3>1 DEF FanQuiet, LoudForFan, Changing
  <2>4. <<>> \in Seq(Certain(FanQuiet)) /\ <<>> \o Tail(w) = Tail(w)
    BY <2>3
  <2>5. ASSUME NEW saved, NEW used, FanForm(w, saved, used)
        PROVE  FanForm(todo'["main"], saved, used)
    <3>1. FanForm(<<>> \o Tail(w), saved, used)
      BY <2>1, <2>3, <2>4, <2>5, FanQuietGoes
    <3> QED
      BY <2>1, <2>4, <3>1
  <2>6. w \in Seq(FanQuiet) => todo'["main"] \in Seq(FanQuiet)
    BY <2>1
  <2> QED
    BY <1>0, <2>1, <2>2, <2>5, <2>6, FanMoves
<1>5. ASSUME NEW m \in Modes, CliMode(m)
      PROVE  FanInv'
  BY <1>5, CommandMakes DEF FanInv
<1>6. CASE \/ \E m \in Modes, t \in {"worker", "tray"} : ChoosePower(t, m)
           \/ EditCurves \/ EditOther
           \/ \E on \in BOOLEAN : PersistSettings(on)
           \/ \E s \in Sources : PersistSource(s)
           \/ \E p \in Imports : ImportConfig(p)
  <2>1. phase # "down"
    BY <1>6 DEF ChoosePower, EditCurves, EditOther, PersistSettings, PersistSource,
                ImportConfig, Begin
  <2> QED
    BY <1>6, <2>1, FanUser
<1>7. ASSUME NEW t \in Threads, Advance(t)
      PROVE  FanInv'
  <2>1. todo[t] # <<>> /\ phase' = phase
    BY <1>7, WhichAction, AdvanceKeeps
  <2>2. CASE phase = "down"
    BY <2>1, <2>2 DEF FanInv
  <2>3. CASE phase # "down"
    <3>1. t \in Windows
      BY <2>1, <2>3 DEF Apart, Idle, Windows
    <3> QED
      BY <1>7, <2>3, <3>1, FanQuietly, FanLoudly
  <2> QED
    BY <2>2, <2>3
<1>8. ASSUME Next
      PROVE  \/ Launch \/ Quit \/ Crash \/ Ready \/ \E m \in Modes : CliMode(m)
             \/ \E m \in Modes, t \in {"worker", "tray"} : ChoosePower(t, m)
             \/ EditCurves \/ EditOther
             \/ \E on \in BOOLEAN : PersistSettings(on)
             \/ \E s \in Sources : PersistSource(s)
             \/ \E p \in Imports : ImportConfig(p)
             \/ \E t \in Threads : Advance(t)
  BY <1>8, Zenon DEF Next
<1> QED
  BY <1>1, <1>2, <1>3, <1>4, <1>5, <1>6, <1>7, <1>8

LEMMA FanAtRest ==
    ASSUME Typed, FanInv, AtRest
    PROVE  cfg["window"].fan = curves
<1>1. PICK u \in Windows : FanSetBy(u)
  BY DEF FanInv, AtRest
<1> DEFINE w == todo[u]
           c == cfg["window"]
<1>2. u \in Threads /\ (w = <<>> \/ Head(w).do = "stuck")
  BY DEF Windows, AtRest, Idle, At
<1>3. FanForm(w, c.fan, curves)
  BY <1>1, Zenon DEF FanSetBy
<1>4. CASE w = <<>>
  <2>1. w \in Seq(FanQuiet)
    BY <1>4
  <2>2. c.fan = curves
    BY <1>3, <2>1, FanAgrees
  <2> QED
    BY <2>2
<1>5. CASE w # <<>> /\ Head(w).do = "stuck"
  <2>1. Head(w) \in Doable
    BY <1>2, <1>5, DoableWork
  <2>2. Head(w) \in FanQuiet /\ ~Passing(Head(w))
    BY <1>5, <2>1 DEF FanQuiet, LoudForFan, Changing, Passing
  <2>3. c.fan = curves
    BY <1>3, <1>5, <2>2, FanQuietGoes
  <2> QED
    BY <2>3
<1> QED
  BY <1>2, <1>4, <1>5
-----------------------------------------------------------------------------
\* At rest the settings the window shows are in force: the register holds the
\* power mode, the controller the curves and the sensor.  Each of the three is
\* set by one thread at a time and no command runs beside the window; what a
\* start or an import restores is not refused, nor a save; and the files the
\* user brings have curves the controller accepts.
THEOREM SettingsAreInForce ==
    /\ ~CliOverlap /\ ~PowerOverlap /\ ~CurveOverlap
    /\ Obeyed /\ "restore" \notin Faulty /\ FilesSound
    => (Spec => []SettingsInForce)
<1> SUFFICES ASSUME ~CliOverlap, ~PowerOverlap, ~CurveOverlap,
                    Obeyed, "restore" \notin Faulty, FilesSound
             PROVE  Spec => []SettingsInForce
  OBVIOUS
<1> DEFINE Shared == Typed /\ DownIsIdle /\ Apart /\ SideInv /\ SoundInv
           IInv == Shared /\ SourceInv /\ PowerInv /\ FanInv
<1>1. Init => IInv
  <2> SUFFICES ASSUME Init PROVE SideInv /\ SoundInv /\ SourceInv /\ PowerInv /\ FanInv
    BY Initially
  <2>1. \A t \in Threads : todo[t] \in Seq(Side) /\ todo[t] \in Seq(Sound)
    BY DEF Init
  <2>2. \A p \in Procs : cfg[p].fan \in Drivable
    BY DEF Init, DefaultConfig, Drivable, Curves
  <2>3. file \in Config => file.fan \in Drivable
    BY NoConfig DEF Init, FilesSound
  <2> QED
    BY <2>1, <2>2, <2>3 DEF Init, SideInv, SoundInv, SourceInv, PowerInv, FanInv
<1>2. IInv /\ [Next]_vars => IInv'
  BY TypedStep, DownIsIdleStep, ApartStep, SideStep, SoundStep, SourceStep, PowerStep,
     FanStep
<1>3. IInv => SettingsInForce
  <2> SUFFICES ASSUME IInv, AtRest
               PROVE  /\ cfg["window"].power \in {"none", apu}
                      /\ cfg["window"].fan \in {"missing", curves}
                      /\ cfg["window"].source = preferred
    BY DEF SettingsInForce
  <2> QED
    BY PowerAtRest, FanAtRest, SourceAtRest
<1> QED
  BY <1>1, <1>2, <1>3, PTL DEF Spec
=============================================================================
