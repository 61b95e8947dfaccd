-------------------------- MODULE FanControl_proofs --------------------------
(***************************************************************************)
(* Theorems about FanControl, for every number of fans and levels, every   *)
(* set of quitting threads, and every pattern of failures the model has.   *)
(***************************************************************************)
EXTENDS FanControl, TLAPS, WellFoundedInduction

USE DEF ecVars, confVars, quitVars

\* The fan a loop in ascending order reaches first is one of its fans.
LEMMA MinInSet ==
    ASSUME NEW S \in SUBSET Fans, S # {}
    PROVE  Min(S) \in S
<1>1. S \subseteq Nat
  BY FanControlAssumption DEF Fans
<1>2. PICK m \in S : \A k \in S : ~ (<<k, m>> \in OpToRel(<, Nat))
  BY <1>1, NatLessThanWellFounded, WFMin, Zenon
<1>3. \A k \in S : m <= k
  <2> TAKE k \in S
  <2>1. k \in Nat /\ m \in Nat
    BY <1>1
  <2>2. <<k, m>> \in Nat \X Nat => ~ (k < m)
    BY <1>2 DEF OpToRel
  <2> QED
    BY <2>1, <2>2
<1> QED
  BY <1>3 DEF Min

\* What the order of operations can lead to: positions, then whole jobs.
LEMMA PositionsType ==
    ASSUME NEW j \in Job
    PROVE  /\ AfterLevel(j) \in {"saveUp", "done"}
           /\ AfterMode(j) \in {"level", "saveUp", "done"}
           /\ AfterSet(j) \in {"level", "saveMode", "saveUp", "done"}
           /\ Failing(j) \in {"level", "saveUp", "done"}
           /\ j.at \in {"mem", "mode", "init", "saveMode", "level", "saveLevel",
                        "saveUp", "saveDown"}
              => Following(j) \in {"mode", "init", "saveMode", "level", "saveLevel",
                                   "saveUp", "saveDown", "signal", "done"}
<1>1. AfterLevel(j) \in {"saveUp", "done"}
  BY DEF AfterLevel
<1>2. AfterMode(j) \in {"level", "saveUp", "done"}
  BY <1>1 DEF AfterMode
<1>3. AfterSet(j) \in {"level", "saveMode", "saveUp", "done"}
  BY <1>2 DEF AfterSet
<1>4. Failing(j) \in {"level", "saveUp", "done"}
  BY <1>1, <1>2 DEF Failing
<1>5. ASSUME j.at \in {"mem", "mode", "init", "saveMode", "level", "saveLevel",
                        "saveUp", "saveDown"}
      PROVE  Following(j) \in {"mode", "init", "saveMode", "level", "saveLevel",
                               "saveUp", "saveDown", "signal", "done"}
  BY <1>1, <1>2, <1>3, <1>5 DEF Following
<1> QED
  BY <1>1, <1>2, <1>3, <1>4, <1>5

\* Every job the model builds (an edit or a command on one fan, a restore or an
\* adoption of all fans) is one a thread may hold.
LEMMA JobsType ==
    /\ NoCfg \in Config
    /\ NoJob \in Job
    /\ \A f \in Fans, c \in Config, k \in {"restore", "adopt"} : FanJob(k, f, c) \in Job
<1>0. 0 \in Levels /\ 1 \in Fans
  BY FanControlAssumption DEF Levels, Fans
<1>1. NoCfg \in Config
  BY <1>0 DEF NoCfg, Config, Modes
<1>2. NoJob \in Job
  BY <1>0, <1>1 DEF NoJob, Job, Modes
<1>3. ASSUME NEW f \in Fans, NEW c \in Config, NEW k \in {"restore", "adopt"}
      PROVE  FanJob(k, f, c) \in Job
  BY <1>3 DEF FanJob, Job, Config
<1> QED
  BY <1>1, <1>2, <1>3

\* A job that moves on to its next operation, or to its next fan, is still one.
LEMMA AdvanceType ==
    ASSUME NEW j \in Job,
           NEW at \in {"mode", "init", "saveMode", "level", "saveLevel", "saveUp",
                       "saveDown", "signal", "done"}
    PROVE  Advance(j, at) \in Job
<1>1. CASE at # "done"
  BY <1>1 DEF Advance, Job
<1>2. CASE at = "done" /\ j.kind \in {"restore", "adopt"} /\ j.fan < NFans
  <2>1. j.fan + 1 \in Fans /\ j.snap \in Config
    BY <1>2, FanControlAssumption DEF Job, Fans
  <2> QED
    BY <1>2, <2>1, JobsType DEF Advance
<1>3. CASE at = "done" /\ ~(j.kind \in {"restore", "adopt"} /\ j.fan < NFans)
  BY <1>3, JobsType DEF Advance
<1> QED
  BY <1>1, <1>2, <1>3
-----------------------------------------------------------------------------
\* The steps of a thread that runs fan operations keep the types.
LEMMA OperateType ==
    ASSUME TypeOK, NEW t \in Threads, Operate(t) \/ Adopt(t)
    PROVE  TypeOK'
<1>j. job[t] \in Job
  BY DEF TypeOK
<1>f. job[t].fan \in Fans /\ job[t].mode \in Modes /\ job[t].level \in Levels
  BY <1>j DEF Job
<1>u. ASSUME Fault(job[t].kind) \/ Fault("adopt") \/ Fault("cli") \/ NoFault
      PROVE  used' \in [faults : Nat, edits : Nat, cli : Nat, launches : Nat]
  BY <1>u DEF TypeOK, Fault, NoFault
<1>g. ASSUME NEW at \in {"mode", "init", "saveMode", "level", "saveLevel", "saveUp",
                          "saveDown", "signal", "done"},
             Goto(t, at)
      PROVE  job' \in [Threads -> Job]
  <2>1. Advance(job[t], at) \in Job
    BY <1>j, AdvanceType
  <2> QED
    BY <1>g, <2>1 DEF Goto, TypeOK
<1>c. ASSUME job[t].at \in {"mem", "mode", "init", "saveMode", "level", "saveLevel",
                             "saveUp", "saveDown"},
             Continue(t)
      PROVE  job' \in [Threads -> Job]
  BY <1>c, <1>g, <1>j, PositionsType DEF Continue
<1>x. ASSUME Fail(t)
      PROVE  job' \in [Threads -> Job]
  BY <1>x, <1>g, <1>j, PositionsType DEF Fail
<1>1. CASE SetMem(t)
  <2>1. mode' \in [Fans -> Modes]
    BY <1>1, <1>f DEF SetMem, TypeOK
  <2>2. job' \in [Threads -> Job]
    BY <1>1, <1>c DEF SetMem
  <2> QED
    BY <1>1, <2>1, <2>2 DEF SetMem, TypeOK
<1>2. CASE WriteMode(t)
  <2>1. regMode' \in [Fans -> {"auto", "manual"}]
    BY <1>2, <1>f DEF WriteMode, RegOf, TypeOK
  <2>2. job' \in [Threads -> Job]
    BY <1>2, <1>c, <1>x DEF WriteMode
  <2>3. used' \in [faults : Nat, edits : Nat, cli : Nat, launches : Nat]
    BY <1>2, <1>u DEF WriteMode, Fail
  <2> QED
    BY <1>2, <2>1, <2>2, <2>3 DEF WriteMode, TypeOK
<1>3. CASE WriteInit(t)
  <2>1. regLevel' \in [Fans -> Levels]
    BY <1>3, <1>f DEF WriteInit, TypeOK
  <2>2. job' \in [Threads -> Job]
    BY <1>3, <1>c, <1>x DEF WriteInit
  <2>3. used' \in [faults : Nat, edits : Nat, cli : Nat, launches : Nat]
    BY <1>3, <1>u DEF WriteInit, Fail
  <2> QED
    BY <1>3, <2>1, <2>2, <2>3 DEF WriteInit, TypeOK
<1>4. CASE WriteLevel(t)
  <2>1. regLevel' \in [Fans -> Levels]
    BY <1>4, <1>f DEF WriteLevel, TypeOK
  <2>2. job' \in [Threads -> Job]
    BY <1>4, <1>c, <1>x DEF WriteLevel
  <2>3. used' \in [faults : Nat, edits : Nat, cli : Nat, launches : Nat]
    BY <1>4, <1>u DEF WriteLevel, Fail
  <2> QED
    BY <1>4, <2>1, <2>2, <2>3 DEF WriteLevel, TypeOK
<1>5. CASE Save(t)
  <2> DEFINE c == Updated(IF t = Cli THEN job[t].snap ELSE cfg, job[t])
  <2>0. job[t].at \in {"saveMode", "saveLevel", "saveUp", "saveDown"}
    BY <1>5 DEF Save
  <2>1. (IF t = Cli THEN job[t].snap ELSE cfg) \in Config
    BY <1>j DEF Job, TypeOK
  <2>2. c \in Config
    BY <2>1, <1>f DEF Updated, Config
  <2>3. cfg' \in Config /\ file' \in Config
    BY <1>5, <2>2 DEF Save, TypeOK
  <2>4. job' \in [Threads -> Job]
    <3>1. CASE t = Cli
      <4>1. [job[t] EXCEPT !.snap = c] \in Job
        BY <1>j, <2>2 DEF Job
      <4>2. Following(job[t]) \in {"mode", "init", "saveMode", "level", "saveLevel",
                                   "saveUp", "saveDown", "signal", "done"}
        BY <1>j, <2>0, PositionsType
      <4>3. Advance([job[t] EXCEPT !.snap = c], Following(job[t])) \in Job
        BY <4>1, <4>2, AdvanceType
      <4> QED
        BY <1>5, <3>1, <4>3 DEF Save, TypeOK
    <3>2. CASE t # Cli
      BY <1>5, <2>0, <3>2, <1>c DEF Save
    <3> QED
      BY <3>1, <3>2
  <2>5. used' \in [faults : Nat, edits : Nat, cli : Nat, launches : Nat]
    BY <1>5, <1>u DEF Save
  <2> QED
    BY <1>5, <2>3, <2>4, <2>5 DEF Save, TypeOK
<1>6. CASE RefuseRamp(t)
  <2>1. job' \in [Threads -> Job]
    BY <1>6, <1>g DEF RefuseRamp
  <2>2. used' \in [faults : Nat, edits : Nat, cli : Nat, launches : Nat]
    BY <1>6, <1>u DEF RefuseRamp
  <2> QED
    BY <1>6, <2>1, <2>2 DEF RefuseRamp, TypeOK
<1>7. CASE Load(t)
  <2>1. job' \in [Threads -> Job]
    BY <1>7, <1>j, JobsType DEF Load, Job, TypeOK
  <2>2. used' \in [faults : Nat, edits : Nat, cli : Nat, launches : Nat]
    BY <1>7, <1>u DEF Load
  <2> QED
    BY <1>7, <2>1, <2>2 DEF Load, TypeOK
<1>8. CASE Install(t)
  <2>1. job[t].snap \in Config /\ 1 \in Fans
    BY <1>j, FanControlAssumption DEF Job, Fans
  <2>2. FanJob("adopt", 1, job[t].snap) \in Job
    BY <2>1, JobsType
  <2> QED
    BY <1>8, <2>1, <2>2 DEF Install, TypeOK
<1> QED
  BY <1>1, <1>2, <1>3, <1>4, <1>5, <1>6, <1>7, <1>8 DEF Operate, Adopt

\* So do the steps of the monitor loop.
LEMMA MonitorType ==
    ASSUME TypeOK, MonLoop
    PROVE  TypeOK'
<1>n. 0 \in Levels /\ 1 \in 1 .. NFans + 1 /\ Monitor \in Threads
  BY FanControlAssumption DEF Levels, Threads
<1>a. AdoptJob \in Job
  BY JobsType DEF AdoptJob, Job
<1>1. CASE MonTop
  BY <1>1, <1>n DEF MonTop, At, TypeOK
<1>2. CASE MonPoll
  <2>1. job' \in [Threads -> Job] /\ reload' \in BOOLEAN
    BY <1>2, <1>a DEF MonPoll, TypeOK
  <2> QED
    BY <1>2, <1>n, <2>1 DEF MonPoll, At, TypeOK
<1>3. CASE MonCheck
  BY <1>3, <1>n DEF MonCheck, At, TypeOK
<1>4. CASE MonSample
  BY <1>4, <1>n DEF MonSample, At, TypeOK, Fault, NoFault
<1>5. CASE MonScan
  <2> DEFINE rest == {f \in CurveFans : f >= mon.fan}
             Step(l) == IF l = regLevel[Min(rest)]
                        THEN [mon EXCEPT !.fan = Min(rest) + 1]
                        ELSE [pc |-> "write", fan |-> Min(rest), level |-> l]
             MonType == [pc : {"off", "top", "slept", "check", "sample", "scan",
                               "write", "done"},
                         fan : 1 .. NFans + 1, level : Levels]
  <2>1. At("top") \in MonType
    BY <1>n DEF At
  <2>2. ASSUME rest # {}, NEW l \in Nearby(regLevel[Min(rest)])
        PROVE  Step(l) \in MonType
    <3>1. Min(rest) \in Fans
      BY <2>2, MinInSet DEF CurveFans
    <3>2. l \in Levels /\ Min(rest) \in 1 .. NFans + 1 /\ Min(rest) + 1 \in 1 .. NFans + 1
      BY <3>1, FanControlAssumption DEF Fans, Nearby
    <3>3. mon \in MonType
      BY DEF TypeOK
    <3> QED
      BY <3>2, <3>3
  <2>3. mon' \in MonType
    BY <1>5, <2>1, <2>2 DEF MonScan
  <2>4. used' \in [faults : Nat, edits : Nat, cli : Nat, launches : Nat]
    BY <1>5 DEF MonScan, TypeOK, Fault, NoFault
  <2> QED
    BY <1>5, <2>3, <2>4 DEF MonScan, TypeOK
<1>6. CASE MonWrite
  <2>1. regLevel' \in [Fans -> Levels]
    BY <1>6 DEF MonWrite, TypeOK
  <2> QED
    BY <1>6, <1>n, <2>1 DEF MonWrite, At, TypeOK, Fault, NoFault
<1> QED
  BY <1>1, <1>2, <1>3, <1>4, <1>5, <1>6 DEF MonLoop

\* So do the steps of a thread that quits.
LEMMA ShutdownType ==
    ASSUME TypeOK, NEW q \in Quitters, Quit(q) \/ Shutdown(q)
    PROVE  TypeOK'
<1>n. 0 \in Levels /\ 1 \in 1 .. NFans + 1
  BY FanControlAssumption DEF Levels
<1>1. CASE Quit(q)
  BY <1>1 DEF Quit, TypeOK
<1>2. CASE TakeHandle(q)
  BY <1>2 DEF TakeHandle, TypeOK
<1>3. CASE Join(q)
  BY <1>3 DEF Join, TypeOK
<1>4. CASE Swap(q)
  BY <1>4 DEF Swap, TypeOK
<1>5. CASE Collect(q)
  <2>1. mode' \in [Fans -> Modes] /\ toReset' \subseteq Fans
    BY <1>5 DEF Collect, CurveFans, Modes, TypeOK
  <2> QED
    BY <1>5, <2>1 DEF Collect, TypeOK
<1>6. CASE WriteAuto(q)
  <2>1. regMode' \in [Fans -> {"auto", "manual"}]
    BY <1>6 DEF WriteAuto, TypeOK
  <2>2. toReset' \subseteq Fans
    BY <1>6 DEF WriteAuto, TypeOK
  <2>3. quit' \in [Quitters -> {"idle", "lock", "join", "swap", "collect", "write", "exit"}]
    BY <1>6 DEF WriteAuto, TypeOK
  <2>4. used' \in [faults : Nat, edits : Nat, cli : Nat, launches : Nat]
    BY <1>6 DEF WriteAuto, TypeOK, Fault, NoFault
  <2> QED
    BY <1>6, <2>1, <2>2, <2>3, <2>4 DEF WriteAuto, TypeOK
<1>7. CASE Exit(q)
  <2>1. job' \in [Threads -> Job] /\ mode' \in [Fans -> Modes]
    BY <1>7, JobsType DEF Exit, Modes, TypeOK
  <2>2. mon' \in [pc : {"off", "top", "slept", "check", "sample", "scan", "write", "done"},
                   fan : 1 .. NFans + 1, level : Levels]
    BY <1>7, <1>n DEF Exit, MonOff
  <2> QED
    BY <1>7, <2>1, <2>2 DEF Exit, TypeOK
<1> QED
  BY <1>1, <1>2, <1>3, <1>4, <1>5, <1>6, <1>7 DEF Shutdown

\* And those that start threads, jobs and processes, or signal them.
LEMMA StartType ==
    ASSUME TypeOK,
           \/ Launch \/ Restore \/ SpawnMonitor \/ GuiPoll
           \/ \E f \in Fans : Edit(f)
           \/ CliStart \/ CliOpen \/ CliSignal
    PROVE  TypeOK'
<1>n. 0 \in Levels /\ 1 \in 1 .. NFans + 1 /\ 1 \in Fans
  BY FanControlAssumption DEF Levels, Fans
<1>t. Gui \in Threads /\ Cli \in Threads /\ Fans \subseteq Threads
  BY DEF Threads
<1>1. CASE Launch
  BY <1>1 DEF Launch, TypeOK
<1>2. CASE Restore
  <2>1. FanJob("restore", 1, cfg) \in Job
    BY <1>n, JobsType DEF TypeOK
  <2> QED
    BY <1>2, <1>t, <2>1 DEF Restore, TypeOK
<1>3. CASE SpawnMonitor
  BY <1>3, <1>n DEF SpawnMonitor, At, TypeOK
<1>4. CASE GuiPoll
  <2>1. AdoptJob \in Job
    BY JobsType DEF AdoptJob, Job
  <2> QED
    BY <1>4, <1>t, <2>1 DEF GuiPoll, TypeOK
<1>5. CASE \E f \in Fans : Edit(f)
  <2>1. PICK f \in Fans : Edit(f)
    BY <1>5
  <2>2. PICK m \in Modes, l \in Levels :
          job' = [job EXCEPT ![f] = OneFanJob("edit", "mem", f, m, l)]
    BY <2>1 DEF Edit
  <2>3. OneFanJob("edit", "mem", f, m, l) \in Job
    BY JobsType DEF OneFanJob, Job
  <2>4. job' \in [Threads -> Job]
    BY <1>t, <2>2, <2>3 DEF TypeOK
  <2>5. used' \in [faults : Nat, edits : Nat, cli : Nat, launches : Nat]
    BY <2>1 DEF Edit, TypeOK
  <2>6. UNCHANGED <<ecVars, mode, confVars, reload, phase, mon, quitVars>>
    BY <2>1 DEF Edit
  <2> QED
    BY <2>4, <2>5, <2>6 DEF TypeOK
<1>6. CASE CliStart
  <2>1. PICK f \in Fans, m \in CliModes, l \in Levels :
          job' = [job EXCEPT ![Cli] = OneFanJob("cli", "open", f, m, l)]
    BY <1>6 DEF CliStart
  <2>2. m \in Modes
    BY FanControlAssumption
  <2>3. OneFanJob("cli", "open", f, m, l) \in Job
    BY <2>2, JobsType DEF OneFanJob, Job
  <2>4. job' \in [Threads -> Job]
    BY <1>t, <2>1, <2>3 DEF TypeOK
  <2>5. used' \in [faults : Nat, edits : Nat, cli : Nat, launches : Nat]
    <3>1. used' = [used EXCEPT !.cli = @ + 1]
      BY <1>6 DEF CliStart
    <3> QED
      BY <3>1 DEF TypeOK
  <2>6. UNCHANGED <<ecVars, mode, confVars, reload, phase, mon, quitVars>>
    BY <1>6 DEF CliStart
  <2> QED
    BY <2>4, <2>5, <2>6 DEF TypeOK
<1>7. CASE CliOpen
  <2>1. [job[Cli] EXCEPT !.at = "mode", !.snap = file] \in Job
    <3>1. job[Cli] \in Job /\ file \in Config
      BY <1>t DEF TypeOK
    <3> QED
      BY <3>1 DEF Job
  <2>2. job' = [job EXCEPT ![Cli] = [job[Cli] EXCEPT !.at = "mode", !.snap = file]]
    BY <1>7, <1>t DEF CliOpen, TypeOK
  <2> QED
    BY <1>7, <1>t, <2>1, <2>2 DEF CliOpen, TypeOK
<1>8. CASE CliSignal
  BY <1>8, <1>t, JobsType DEF CliSignal, TypeOK
<1> QED
  BY <1>1, <1>2, <1>3, <1>4, <1>5, <1>6, <1>7, <1>8

\* The program starts with every variable in its range.
LEMMA InitType == Init => TypeOK
<1> SUFFICES ASSUME Init PROVE TypeOK
  OBVIOUS
<1>1. 0 \in Levels /\ 1 \in 1 .. NFans + 1
  BY FanControlAssumption DEF Levels
<1>2. mode \in [Fans -> Modes] /\ job \in [Threads -> Job]
  BY JobsType DEF Init, Modes
<1>3. mon \in [pc : {"off", "top", "slept", "check", "sample", "scan", "write", "done"},
                fan : 1 .. NFans + 1, level : Levels]
  BY <1>1 DEF Init, MonOff
<1> QED
  BY <1>2, <1>3 DEF Init, TypeOK

\* No step of any thread, of the user or of the CLI process leaves the ranges.
LEMMA NextType == TypeOK /\ [Next]_vars => TypeOK'
<1> SUFFICES ASSUME TypeOK, [Next]_vars PROVE TypeOK'
  OBVIOUS
<1>1. Fans \subseteq Threads /\ {Monitor, Gui, Cli} \subseteq Threads
  BY DEF Threads
<1>2. CASE MonitorThread
  BY <1>1, <1>2, MonitorType, OperateType DEF MonitorThread
<1>3. CASE GuiThread
  BY <1>1, <1>3, StartType, OperateType DEF GuiThread
<1>4. CASE \E f \in Fans : Edit(f) \/ Operate(f)
  BY <1>1, <1>4, StartType, OperateType
<1>5. CASE \E q \in Quitters : Quit(q) \/ Shutdown(q)
  BY <1>5, ShutdownType
<1>6. CASE Launch
  BY <1>6, StartType
<1>7. CASE Command
  BY <1>1, <1>7, StartType, OperateType DEF Command
<1>8. CASE UNCHANGED vars
  BY <1>8 DEF vars, TypeOK
<1> QED
  BY <1>2, <1>3, <1>4, <1>5, <1>6, <1>7, <1>8 DEF Next

\* Whatever the threads, the two processes and the failures do, every
\* register, mode, configuration entry and thread position stays in range.
THEOREM TypeCorrect == Spec => []TypeOK
<1>1. Init => TypeOK
  BY InitType
<1>2. TypeOK /\ [Next]_vars => TypeOK'
  BY NextType
<1> QED
  BY <1>1, <1>2, PTL DEF Spec
-----------------------------------------------------------------------------
(***************************************************************************)
(* The argument for MonitorStoppedFirst.  A caller of shutdown gets past   *)
(* the join in two ways: it joined the monitor, or it found the handle     *)
(* taken.  In the second case whoever took it held the monitor mutex from  *)
(* the take to the end of the join, so the monitor has ended; HandleTaken  *)
(* says just that.  QuitNeedsRunning keeps a new monitor from being        *)
(* started under a quit.                                                   *)
(***************************************************************************)
QuitNeedsRunning == phase # "running" => \A q \in Quitters : quit[q] = "idle"

HandleTaken ==
    phase = "running" /\ ~handle =>
        mon.pc = "done" \/ \E q \in Quitters : quit[q] = "join"

StopInv == TypeOK /\ QuitNeedsRunning /\ HandleTaken /\ MonitorStoppedFirst

\* A step that leaves the quitting threads alone, and the monitor where it is
\* when it has ended, keeps the argument's three facts.
LEMMA StopUndisturbed ==
    ASSUME QuitNeedsRunning, HandleTaken, MonitorStoppedFirst,
           UNCHANGED <<quit, handle, phase>>,
           mon.pc = "done" => UNCHANGED mon
    PROVE  QuitNeedsRunning' /\ HandleTaken' /\ MonitorStoppedFirst'
BY DEF QuitNeedsRunning, HandleTaken, MonitorStoppedFirst

\* The steps of a thread in shutdown keep the three facts: it gets past the
\* monitor mutex only after the join of whoever took the handle.
LEMMA StopShutdown ==
    ASSUME StopInv, NEW q \in Quitters, Quit(q) \/ Shutdown(q)
    PROVE  QuitNeedsRunning' /\ HandleTaken' /\ MonitorStoppedFirst'
<1>q. quit \in [Quitters -> {"idle", "lock", "join", "swap", "collect", "write", "exit"}]
  BY DEF StopInv, TypeOK
<1>r. quit[q] # "idle" => phase = "running"
  BY DEF StopInv, QuitNeedsRunning
<1> USE DEF StopInv, QuitNeedsRunning, HandleTaken, MonitorStoppedFirst
<1>1. CASE Quit(q)
  BY <1>1, <1>q DEF Quit
<1>2. CASE TakeHandle(q)
  <2>1. phase = "running" /\ phase' = phase /\ mon' = mon
    BY <1>2, <1>r DEF TakeHandle
  <2>2. CASE handle
    <3>1. quit' = [quit EXCEPT ![q] = "join"]
      BY <1>2, <2>2 DEF TakeHandle
    <3>2. quit'[q] = "join" /\ \A p \in Quitters \ {q} : quit'[p] = quit[p]
      BY <3>1, <1>q
    <3> QED
      BY <2>1, <3>2
  <2>3. CASE ~handle
    <3>1. mon.pc = "done"
      BY <1>2, <2>1, <2>3 DEF TakeHandle
    <3> QED
      BY <2>1, <3>1
  <2> QED
    BY <2>2, <2>3
<1>3. CASE Join(q)
  BY <1>3, <1>q, <1>r DEF Join
<1>4. CASE Swap(q)
  BY <1>4, <1>q, <1>r DEF Swap
<1>5. CASE Collect(q)
  BY <1>5, <1>q, <1>r DEF Collect
<1>6. CASE WriteAuto(q)
  <2>1. phase = "running" /\ phase' = phase /\ mon' = mon /\ mon.pc = "done"
    BY <1>6, <1>r DEF WriteAuto
  <2> QED
    BY <2>1
<1>7. CASE Exit(q)
  BY <1>7 DEF Exit
<1> QED
  BY <1>1, <1>2, <1>3, <1>4, <1>5, <1>6, <1>7 DEF Shutdown

\* So does every other step.
LEMMA StopStep == StopInv /\ [Next]_vars => StopInv'
<1> SUFFICES ASSUME StopInv, [Next]_vars
             PROVE  QuitNeedsRunning' /\ HandleTaken' /\ MonitorStoppedFirst'
  BY NextType DEF StopInv
<1> USE DEF StopInv
<1>1. ASSUME NEW t \in Threads, Operate(t) \/ Adopt(t)
      PROVE  QuitNeedsRunning' /\ HandleTaken' /\ MonitorStoppedFirst'
  <2>1. UNCHANGED <<quit, handle, phase, mon>>
    BY <1>1 DEF Operate, SetMem, WriteMode, WriteInit, WriteLevel, Save, RefuseRamp,
                Adopt, Load, Install
  <2> QED
    BY <2>1, StopUndisturbed
<1>t. Fans \subseteq Threads /\ {Monitor, Gui, Cli} \subseteq Threads
  BY DEF Threads
<1>2. CASE MonLoop
  <2>1. UNCHANGED <<quit, handle, phase>> /\ mon.pc # "done"
    BY <1>2 DEF MonLoop, MonTop, MonPoll, MonCheck, MonSample, MonScan, MonWrite
  <2> QED
    BY <2>1, StopUndisturbed
<1>3. CASE Restore
  BY <1>3 DEF Restore, QuitNeedsRunning, HandleTaken, MonitorStoppedFirst
<1>4. CASE SpawnMonitor
  BY <1>4 DEF SpawnMonitor, QuitNeedsRunning, HandleTaken, MonitorStoppedFirst
<1>5. CASE GuiPoll
  BY <1>5, StopUndisturbed DEF GuiPoll
<1>6. CASE \E f \in Fans : Edit(f)
  BY <1>6, StopUndisturbed DEF Edit
<1>7. CASE \E q \in Quitters : Quit(q) \/ Shutdown(q)
  BY <1>7, StopShutdown
<1>8. CASE Launch
  BY <1>8 DEF Launch, QuitNeedsRunning, HandleTaken, MonitorStoppedFirst
<1>9. CASE CliStart \/ CliOpen \/ CliSignal
  BY <1>9, StopUndisturbed DEF CliStart, CliOpen, CliSignal
<1>10. CASE UNCHANGED vars
  BY <1>10, StopUndisturbed DEF vars
<1> QED
  BY <1>1, <1>t, <1>2, <1>3, <1>4, <1>5, <1>6, <1>7, <1>8, <1>9, <1>10
     DEF Next, MonitorThread, GuiThread, Command

\* However many threads call shutdown, in whatever order, and whatever edits,
\* reloads, commands and failures they overlap with, none of them releases a
\* fan or exits before the curve monitor has ended.
THEOREM MonitorStopsFirst == Spec => []MonitorStoppedFirst
<1>1. Init => StopInv
  <2>1. Init => QuitNeedsRunning /\ HandleTaken /\ MonitorStoppedFirst
    BY DEF Init, QuitNeedsRunning, HandleTaken, MonitorStoppedFirst
  <2> QED
    BY <2>1, InitType DEF StopInv
<1>2. StopInv /\ [Next]_vars => StopInv'
  BY StopStep
<1>3. StopInv => MonitorStoppedFirst
  BY DEF StopInv
<1> QED
  BY <1>1, <1>2, <1>3, PTL DEF Spec
-----------------------------------------------------------------------------
(***************************************************************************)
(* At rest the file, the memory of the program and the mode registers      *)
(* agree, and quitting leaves the fans as they should be left.             *)
(*                                                                         *)
(* The argument is one of taking turns.  An edit in the window never       *)
(* overlaps a command or the reload it causes (OverlapCli), and the user   *)
(* starts no command before the last one has been adopted (Patient).  So   *)
(* there is at most one adoption, and while a command runs, its reload is  *)
(* due or its adoption is underway, nobody relies on the file: Clean says  *)
(* that none of the three is the case, and Agreement what then holds.  An  *)
(* adoption, a restore or an edit sets fan after fan, on each one memory   *)
(* first, then the register, then the configuration; Known says how far it *)
(* has come with the fan it is at.                                         *)
(***************************************************************************)
Adopting == \E t \in {Monitor, Gui} : job[t].kind = "adopt"

\* A command is started only when the one before has been adopted.
Patient == CliStart => ~reload /\ ~Adopting

\* What no thread works on at the moment, and nothing is due.
Clean == Idle(Cli) /\ ~reload /\ ~Adopting

EditAt  == {"mem", "mode", "init", "saveMode", "level", "saveLevel", "saveUp", "saveDown"}
AdoptAt == {"load", "install", "mem", "mode", "init", "level"}
CliAt   == {"open", "mode", "init", "saveMode", "saveUp", "saveDown", "signal"}

EditJob(j)    == j.kind = "edit" /\ j.at \in EditAt
RestoreJob(j) == j.kind = "restore" /\ j.at \in EditAt
AdoptingJob(j)   == j.kind = "adopt" /\ j.at \in AdoptAt
CliJob(j)     == j.kind = "cli" /\ j.at \in CliAt /\ j.mode = "curve"

\* Each thread has its own kind of work.
Employed ==
    /\ \A t \in Threads : Idle(t) => job[t] = NoJob
    /\ \A f \in Fans : Idle(f) \/ (EditJob(job[f]) /\ job[f].fan = f)
    /\ Idle(Monitor) \/ AdoptingJob(job[Monitor])
    /\ Idle(Gui) \/ RestoreJob(job[Gui]) \/ AdoptingJob(job[Gui])
    /\ Idle(Cli) \/ CliJob(job[Cli])

\* And its time for it.
Timely ==
    /\ phase # "running" => ~stop /\ Idle(Monitor) /\ \A f \in Fans : Idle(f)
    /\ phase \in {"starting", "exited"} => Idle(Gui) /\ ~reload
    /\ phase = "restoring" => job[Gui].kind # "adopt"
    /\ phase = "running" => job[Gui].kind # "restore"
    /\ mon.pc # "off" => phase = "running"
    /\ \A q \in Quitters : quit[q] # "idle" => stop

\* Edits, commands, reloads and adoptions take turns.
TakeTurns ==
    /\ ~Idle(Cli) => ~reload /\ ~Adopting
    /\ reload => ~Adopting
    /\ Idle(Monitor) \/ Idle(Gui)
    /\ ~Idle(Cli) \/ reload \/ Adopting => \A f \in Fans : Idle(f)

Agrees(f) == mode[f] = cfg[f].mode /\ regMode[f] = RegOf(cfg[f].mode)

\* What holds of fan f, which is to get mode m, once position `at` is reached.
Reached(at, f, m) ==
    /\ at # "mem" => mode[f] = m
    /\ at \notin {"mem", "mode"} => regMode[f] = RegOf(m)
    /\ at \notin {"mem", "mode", "init", "saveMode"} => cfg[f].mode = m

\* How far job j has come with its fan.
Known(j) == Reached(j.at, j.fan, j.mode)

\* And with the fans before it.
DoneBefore(j) == \A g \in Fans : g < j.fan => Agrees(g)

Restoring ==
    job[Gui].kind = "restore" =>
        LET j == job[Gui] IN
        /\ j.snap = cfg /\ j.mode = cfg[j.fan].mode /\ j.level = cfg[j.fan].level
        /\ Clean =>
            /\ Known(j) /\ DoneBefore(j)
            /\ j.fan > 1 \/ j.at \in {"level", "saveLevel", "saveUp", "saveDown"} =>
                 file = cfg

Adopts(j) ==
    /\ j.at = "install" => j.snap = file
    /\ j.at \notin {"load", "install"} =>
        /\ j.snap = cfg /\ file = cfg /\ j.mode = cfg[j.fan].mode
        /\ Known(j) /\ DoneBefore(j)

Adopted == \A t \in {Monitor, Gui} : job[t].kind = "adopt" /\ ~stop => Adopts(job[t])

Agreement ==
    Clean /\ ((phase = "restoring" /\ Idle(Gui)) \/ (phase = "running" /\ ~stop)) =>
        /\ file = cfg
        /\ \A f \in Fans : IF Idle(f) THEN Agrees(f) ELSE Known(job[f])

Discipline == Employed /\ Timely /\ TakeTurns
Truth      == Restoring /\ Adopted /\ Agreement
SyncInv    == TypeOK /\ Discipline /\ Truth

\* Nothing is underway and nothing is due.
AllIdle == ~reload /\ \A t \in Threads : Idle(t)

\* While the program quits nobody changes the configuration, the fans that are
\* not curve fans keep agreeing with it, and only curve fans are given back.
Leaving ==
    /\ ~stop => toReset = {} /\ ~released /\ \A q \in Quitters : quit[q] = "idle"
    /\ stop => /\ AllIdle /\ file = cfg
               /\ \A f \in Fans : cfg[f].mode # "curve" => Agrees(f)
               /\ \A f \in toReset : cfg[f].mode = "curve"
    /\ phase = "exited" => Idle(Cli) /\ FixedLeftAlone

\* How far the one that quits has come: the curve fans not written yet are in
\* the list of those to write, which is empty when it exits.
GivingBack ==
    /\ stop => \E q \in Quitters : quit[q] # "idle"
    /\ \A q \in Quitters :
        /\ quit[q] \in {"lock", "join", "swap"} => ~released
        /\ quit[q] \in {"lock", "join", "swap", "collect"} => \A f \in Fans : Agrees(f)
        /\ quit[q] \in {"write", "exit"} => \A f \in Fans :
              cfg[f].mode = "curve" => f \in toReset \/ regMode[f] = "auto"
        /\ quit[q] = "exit" => toReset = {}
    /\ phase = "exited" => QuitLeavesAuto
-----------------------------------------------------------------------------
(***************************************************************************)
(* What the theorems assume of the environment.                            *)
(***************************************************************************)
Reliable == {"edit", "restore", "adopt", "cli"} \cap Faulty = {}

OneByOne == ~OverlapCli /\ CliModes \subseteq {"curve"}

LEMMA ThreadsApart ==
    /\ Fans \subseteq Threads /\ {Monitor, Gui, Cli} \subseteq Threads
    /\ Monitor \notin Fans /\ Gui \notin Fans /\ Cli \notin Fans
    /\ Monitor # Gui /\ Monitor # Cli /\ Gui # Cli
    /\ \A t \in Threads : t \in Fans \/ t \in {Monitor, Gui, Cli}
BY FanControlAssumption DEF Fans, Threads, Monitor, Gui, Cli

\* The records that go around.
LEMMA FieldsTyped ==
    ASSUME TypeOK
    PROVE  /\ job \in [Threads -> Job]
           /\ \A t \in Threads :
                /\ job[t] \in Job /\ job[t].fan \in Fans /\ job[t].mode \in Modes
                /\ job[t].level \in Levels /\ job[t].snap \in Config
           /\ mode \in [Fans -> Modes] /\ regMode \in [Fans -> {"auto", "manual"}]
           /\ cfg \in Config /\ file \in Config
BY DEF TypeOK, Job

LEMMA ConfigFields ==
    ASSUME NEW c \in Config, NEW f \in Fans, NEW m \in Modes, NEW l \in Levels
    PROVE  /\ c[f] \in [mode : Modes, level : Levels]
           /\ c[f].mode \in Modes
           /\ [c[f] EXCEPT !.mode = m].mode = m
           /\ [c[f] EXCEPT !.level = l].mode = c[f].mode
           /\ c[f].mode = m => [c[f] EXCEPT !.mode = m] = c[f]
           /\ c[f].level = l => [c[f] EXCEPT !.level = l] = c[f]
<1>1. c[f] \in [mode : Modes, level : Levels]
  BY DEF Config
<1> QED
  BY <1>1

\* The order of the operations on one fan, for each kind of work.
LEMMA Order ==
    ASSUME NEW j \in Job, j.at \in EditAt
    PROVE  LET next == Following(j) IN
           /\ j.at = "mem" => next = "mode"
           /\ j.at = "mode" /\ j.kind # "adopt" => next \in {"init", "saveMode"}
           /\ j.at = "init" /\ j.kind # "adopt" => next = "saveMode"
           /\ j.at = "saveMode" => next \in {"level", "saveUp", "done"}
           /\ j.at = "level" /\ j.kind # "adopt" => next = "saveLevel"
           /\ j.at = "saveLevel" => next \in {"saveUp", "done"}
           /\ j.at = "saveUp" => next = "saveDown"
           /\ j.at = "saveDown" /\ j.kind # "cli" => next = "done"
           /\ j.at \in {"mode", "init", "level"} /\ j.kind = "adopt" =>
                next \in {"init", "level", "done"}
           /\ j.at \notin {"mem", "mode"} => next # "init"
           /\ next # "mem"
           /\ j.kind = "cli" /\ j.mode = "curve" =>
                /\ j.at = "saveMode" => next = "saveUp"
                /\ j.at = "saveDown" => next = "signal"
BY DEF Following, AfterSet, AfterMode, AfterLevel, EditAt

\* An operation of a thread of the window, when no access fails.
LEMMA Operation ==
    ASSUME TypeOK, Reliable, NEW t \in Threads, t # Cli, Operate(t),
           job[t].kind \in {"edit", "restore", "adopt"}
    PROVE  LET j == job[t]
               f == job[t].fan
           IN
           /\ job' = [job EXCEPT ![t] = Advance(j, Following(j))]
           /\ UNCHANGED <<reload, phase, mon, stop, quit, toReset, released>>
           /\ \/ /\ j.at = "mem" /\ mode' = [mode EXCEPT ![f] = j.mode]
                 /\ UNCHANGED <<regMode, cfg, file>>
              \/ /\ j.at = "mode" /\ regMode' = [regMode EXCEPT ![f] = RegOf(j.mode)]
                 /\ UNCHANGED <<mode, cfg, file>>
              \/ /\ j.at \in {"init", "level"}
                 /\ UNCHANGED <<mode, regMode, cfg, file>>
              \/ /\ j.at \in {"saveMode", "saveLevel", "saveUp", "saveDown"}
                 /\ cfg' = Updated(cfg, j) /\ file' = cfg'
                 /\ UNCHANGED <<mode, regMode>>
<1>1. job[t].kind \notin Faulty /\ job[t].kind # "cli"
  BY DEF Reliable
<1>2. ~Fault(job[t].kind) /\ ~Fail(t)
  BY <1>1 DEF Fault, Fail
<1>3. CASE SetMem(t)
  BY <1>3 DEF SetMem, Continue, Goto, ecVars, confVars, quitVars
<1>4. CASE WriteMode(t)
  BY <1>2, <1>4 DEF WriteMode, Continue, Goto, confVars, quitVars
<1>5. CASE WriteInit(t)
  BY <1>2, <1>5 DEF WriteInit, Continue, Goto, confVars, quitVars
<1>6. CASE WriteLevel(t)
  BY <1>2, <1>6 DEF WriteLevel, Continue, Goto, confVars, quitVars
<1>7. CASE Save(t)
  BY <1>2, <1>7 DEF Save, Continue, Goto, ecVars, quitVars
<1>8. CASE RefuseRamp(t)
  BY <1>1, <1>8 DEF RefuseRamp
<1> QED
  BY <1>3, <1>4, <1>5, <1>6, <1>7, <1>8 DEF Operate

\* It gets the fan it works on one step further, and leaves the others alone.
LEMMA FanServed ==
    ASSUME TypeOK, Reliable, NEW t \in Threads, t # Cli, Operate(t),
           NEW j \in Job, j = job[t], j.kind \in {"edit", "restore", "adopt"},
           j.at \in EditAt, NEW next, next = Following(j)
    PROVE  /\ \A g \in Fans : g # j.fan =>
                mode'[g] = mode[g] /\ regMode'[g] = regMode[g] /\ cfg'[g] = cfg[g]
           /\ Reached(j.at, j.fan, j.mode) /\ (j.kind = "adopt" => cfg[j.fan].mode = j.mode) =>
                Reached(next, j.fan, j.mode)'
           /\ j.at \in {"mem", "mode", "init", "level"} => UNCHANGED <<cfg, file>>
           /\ j.at \in {"saveMode", "saveLevel", "saveUp", "saveDown"} => file' = cfg'
           /\ cfg[j.fan].mode = j.mode /\ cfg[j.fan].level = j.level => cfg' = cfg
<1>t. /\ j.fan \in Fans /\ j.mode \in Modes /\ j.level \in Levels
      /\ cfg \in Config /\ mode \in [Fans -> Modes] /\ regMode \in [Fans -> {"auto", "manual"}]
  BY FieldsTyped
<1>o. /\ job' = [job EXCEPT ![t] = Advance(j, next)]
      /\ \/ /\ j.at = "mem" /\ mode' = [mode EXCEPT ![j.fan] = j.mode]
            /\ UNCHANGED <<regMode, cfg, file>>
         \/ /\ j.at = "mode" /\ regMode' = [regMode EXCEPT ![j.fan] = RegOf(j.mode)]
            /\ UNCHANGED <<mode, cfg, file>>
         \/ /\ j.at \in {"init", "level"}
            /\ UNCHANGED <<mode, regMode, cfg, file>>
         \/ /\ j.at \in {"saveMode", "saveLevel", "saveUp", "saveDown"}
            /\ cfg' = Updated(cfg, j) /\ file' = cfg'
            /\ UNCHANGED <<mode, regMode>>
  BY Operation
<1>n. /\ j.at = "mem" => next = "mode"
      /\ j.at = "mode" /\ j.kind # "adopt" => next \in {"init", "saveMode"}
      /\ j.at = "init" /\ j.kind # "adopt" => next = "saveMode"
      /\ next # "mem"
      /\ j.at \notin {"mem", "mode"} => next # "init"
  BY Order
<1>c. j.at \in {"saveMode", "saveLevel", "saveUp", "saveDown"} =>
        /\ \A g \in Fans : g # j.fan => cfg'[g] = cfg[g]
        /\ j.at = "saveMode" => cfg'[j.fan].mode = j.mode
        /\ j.at # "saveMode" => cfg'[j.fan].mode = cfg[j.fan].mode
        /\ cfg[j.fan].mode = j.mode /\ cfg[j.fan].level = j.level => cfg' = cfg
  <2>1. CASE j.at = "saveMode"
    <3>1. cfg' = [cfg EXCEPT ![j.fan].mode = j.mode]
      BY <1>o, <2>1 DEF Updated
    <3>2. /\ cfg[j.fan] \in [mode : Modes, level : Levels]
          /\ [cfg[j.fan] EXCEPT !.mode = j.mode].mode = j.mode
          /\ cfg[j.fan].mode = j.mode => [cfg[j.fan] EXCEPT !.mode = j.mode] = cfg[j.fan]
      BY <1>t, ConfigFields
    <3> QED
      BY <1>t, <2>1, <3>1, <3>2 DEF Config
  <2>2. CASE j.at = "saveLevel"
    <3>1. cfg' = [cfg EXCEPT ![j.fan].level = j.level]
      BY <1>o, <2>2 DEF Updated
    <3>2. /\ cfg[j.fan] \in [mode : Modes, level : Levels]
          /\ [cfg[j.fan] EXCEPT !.level = j.level].mode = cfg[j.fan].mode
          /\ cfg[j.fan].level = j.level => [cfg[j.fan] EXCEPT !.level = j.level] = cfg[j.fan]
      BY <1>t, ConfigFields
    <3> QED
      BY <1>t, <2>2, <3>1, <3>2 DEF Config
  <2>3. CASE j.at \in {"saveUp", "saveDown"}
    BY <1>o, <2>3 DEF Updated
  <2> QED
    BY <2>1, <2>2, <2>3
<1>1. CASE j.at = "mem"
  BY <1>1, <1>t, <1>o, <1>n DEF Reached
<1>2. CASE j.at = "mode"
  BY <1>2, <1>t, <1>o, <1>n DEF Reached
<1>3. CASE j.at \in {"init", "level"}
  BY <1>3, <1>t, <1>o, <1>n DEF Reached
<1>4. CASE j.at \in {"saveMode", "saveLevel", "saveUp", "saveDown"}
  BY <1>4, <1>t, <1>o, <1>c DEF Reached
<1> QED
  BY <1>1, <1>2, <1>3, <1>4 DEF EditAt

\* The work that is left: none, the same fan further on, or the next fan.
LEMMA WorkLeft ==
    ASSUME NEW j \in Job, NEW next
    PROVE  LET k == Advance(j, next) IN
           \/ next # "done" /\ k = [j EXCEPT !.at = next]
           \/ /\ next = "done" /\ j.kind \in {"restore", "adopt"} /\ j.fan < NFans
              /\ k = FanJob(j.kind, j.fan + 1, j.snap)
           \/ /\ next = "done" /\ (j.kind \in {"restore", "adopt"} => j.fan = NFans)
              /\ k = NoJob
BY FanControlAssumption DEF Advance, Job, Fans
-----------------------------------------------------------------------------
(***************************************************************************)
(* The discipline of the threads.                                          *)
(***************************************************************************)
\* k is what may be left of work j.
Leaves(j, k) ==
    \/ k = NoJob
    \/ /\ k.kind = j.kind /\ (k.kind = "edit" => k.fan = j.fan)
       /\ EditJob(k) \/ RestoreJob(k) \/ AdoptingJob(k) \/ CliJob(k)

LEMMA NoWork == NoJob.kind = "none" /\ NoJob.at = "done"
BY DEF NoJob

LEMMA OperationLeaves ==
    ASSUME NEW j \in Job, j.at \in EditAt,
           EditJob(j) \/ RestoreJob(j) \/ AdoptingJob(j) \/ CliJob(j)
    PROVE  Leaves(j, Advance(j, Following(j)))
<1> DEFINE next == Following(j)
           k    == Advance(j, next)
<1>1. \/ next # "done" /\ k = [j EXCEPT !.at = next]
      \/ /\ next = "done" /\ j.kind \in {"restore", "adopt"} /\ j.fan < NFans
         /\ k = FanJob(j.kind, j.fan + 1, j.snap)
      \/ k = NoJob
  BY WorkLeft
<1>2. /\ j.at = "mem" => next = "mode"
      /\ j.at = "mode" /\ j.kind # "adopt" => next \in {"init", "saveMode"}
      /\ j.at = "init" /\ j.kind # "adopt" => next = "saveMode"
      /\ j.at = "saveMode" => next \in {"level", "saveUp", "done"}
      /\ j.at = "level" /\ j.kind # "adopt" => next = "saveLevel"
      /\ j.at = "saveLevel" => next \in {"saveUp", "done"}
      /\ j.at = "saveUp" => next = "saveDown"
      /\ j.at = "saveDown" /\ j.kind # "cli" => next = "done"
      /\ j.at \in {"mode", "init", "level"} /\ j.kind = "adopt" =>
           next \in {"init", "level", "done"}
      /\ j.kind = "cli" /\ j.mode = "curve" =>
           /\ j.at = "saveMode" => next = "saveUp"
           /\ j.at = "saveDown" => next = "signal"
  BY Order
<1> HIDE DEF next, k
<1>3. ASSUME next # "done" /\ k = [j EXCEPT !.at = next]
      PROVE  Leaves(j, k)
  <2>1. k.kind = j.kind /\ k.fan = j.fan /\ k.at = next /\ k.mode = j.mode
    BY <1>3 DEF Job
  <2>2. CASE EditJob(j) \/ RestoreJob(j)
    <3>1. next \in EditAt
      BY <1>2, <1>3, <2>2 DEF EditJob, RestoreJob, EditAt
    <3> QED
      BY <2>1, <2>2, <3>1 DEF Leaves, EditJob, RestoreJob, AdoptingJob, CliJob
  <2>3. CASE AdoptingJob(j)
    <3>1. next \in AdoptAt
      BY <1>2, <1>3, <2>3 DEF AdoptingJob, EditAt, AdoptAt
    <3> QED
      BY <2>1, <2>3, <3>1 DEF Leaves, EditJob, RestoreJob, AdoptingJob, CliJob
  <2>4. CASE CliJob(j)
    <3>1. next \in CliAt
      BY <1>2, <1>3, <2>4 DEF CliJob, EditAt, CliAt
    <3> QED
      BY <2>1, <2>4, <3>1 DEF Leaves, EditJob, RestoreJob, AdoptingJob, CliJob
  <2> QED
    BY <2>2, <2>3, <2>4
<1>4. ASSUME k = FanJob(j.kind, j.fan + 1, j.snap) /\ j.kind \in {"restore", "adopt"}
      PROVE  Leaves(j, k)
  <2>1. k.kind = j.kind /\ k.at = "mem" /\ k.kind # "edit"
    BY <1>4 DEF FanJob
  <2>2. RestoreJob(k) \/ AdoptingJob(k)
    BY <1>4, <2>1 DEF RestoreJob, AdoptingJob, EditAt, AdoptAt
  <2> QED
    BY <2>1, <2>2 DEF Leaves, EditJob, RestoreJob, AdoptingJob, CliJob
<1>5. Leaves(j, k)
  BY <1>1, <1>3, <1>4 DEF Leaves
<1> QED
  BY <1>5 DEF k, next

\* A step in which one thread gets on with its work, or finishes it.
LEMMA WorkGoesOn ==
    ASSUME TypeOK, Discipline, NEW t \in Threads, NEW k, Leaves(job[t], k),
           job' = [job EXCEPT ![t] = k],
           reload' = reload, phase' = phase, stop' = stop, quit' = quit, mon' = mon
    PROVE  Discipline'
<1>1. /\ \A s \in Threads : s # t => job'[s] = job[s]
      /\ job'[t] = k
  BY FieldsTyped
<1>2. \/ k = NoJob /\ k.kind = "none"
      \/ /\ k.kind = job[t].kind /\ k.kind # "none" /\ (k.kind = "edit" => k.fan = job[t].fan)
         /\ k.kind = "edit" => EditJob(k)
         /\ k.kind = "restore" => RestoreJob(k)
         /\ k.kind = "adopt" => AdoptingJob(k)
         /\ k.kind = "cli" => CliJob(k)
  BY NoWork DEF Leaves, EditJob, RestoreJob, AdoptingJob, CliJob
<1>3. Employed'
  BY <1>1, <1>2, ThreadsApart
     DEF Discipline, Employed, Idle, EditJob, RestoreJob, AdoptingJob, CliJob
<1>4. Timely'
  BY <1>1, <1>2, ThreadsApart DEF Discipline, Timely, Idle
<1>5. TakeTurns'
  BY <1>1, <1>2, ThreadsApart DEF Discipline, TakeTurns, Idle, Adopting
<1> QED
  BY <1>3, <1>4, <1>5 DEF Discipline

\* A step that starts and ends no work.
LEMMA NobodyWorks ==
    ASSUME Discipline, job' = job, reload' = reload, phase' = phase, stop' = stop,
           quit' = quit, mon'.pc # "off" => mon.pc # "off"
    PROVE  Discipline'
BY DEF Discipline, Employed, Timely, TakeTurns, Idle, Adopting

\* The command line tool touches the registers and the file only.
LEMMA CliOperation ==
    ASSUME TypeOK, Discipline, Reliable, Operate(Cli)
    PROVE  /\ CliJob(job[Cli])
           /\ \E k : /\ job' = [job EXCEPT ![Cli] = k] /\ Leaves(job[Cli], k)
                     /\ k.kind = "cli"
           /\ UNCHANGED <<mode, cfg, reload, phase, mon, stop, quit, toReset, released>>
<1> DEFINE j == job[Cli]
           next == Following(j)
<1>t. j \in Job /\ Cli \in Threads
  BY ThreadsApart, FieldsTyped
<1>a. j.at \in {"mem", "mode", "init", "level", "saveMode", "saveLevel", "saveUp", "saveDown"}
  BY DEF Operate, SetMem, WriteMode, WriteInit, WriteLevel, Save, RefuseRamp
<1>b. CliJob(j)
  BY <1>a, <1>t, NoWork DEF Discipline, Employed, Idle
<1>c. j.at \in {"mode", "init", "saveMode", "saveUp", "saveDown"} /\ j.mode = "curve"
      /\ j.kind = "cli" /\ j.at \in EditAt
  BY <1>a, <1>b DEF CliJob, CliAt, EditAt
<1>d. /\ j.at = "mode" => next \in {"init", "saveMode"}
      /\ j.at = "init" => next = "saveMode"
      /\ j.at = "saveMode" => next = "saveUp"
      /\ j.at = "saveUp" => next = "saveDown"
      /\ j.at = "saveDown" => next = "signal"
  BY <1>c, <1>t, Order
<1>e. next \in {"init", "saveMode", "saveUp", "saveDown", "signal"}
  BY <1>c, <1>d
<1>f. ~Fault(j.kind) /\ ~Fail(Cli) /\ ~Fault("cli")
  BY <1>c DEF Reliable, Fault, Fail
<1>g. \A c \in Config :
        LET i == [j EXCEPT !.snap = c] IN
        /\ i \in Job /\ i.kind = "cli" /\ i.mode = "curve" /\ i.at = j.at
  BY <1>t, <1>c DEF Job
<1>h. ASSUME NEW i \in Job, i.kind = "cli", i.mode = "curve"
      PROVE  /\ Leaves(j, Advance(i, next)) /\ Advance(i, next).kind = "cli"
  <2>1. Advance(i, next) = [i EXCEPT !.at = next]
    BY <1>e DEF Advance
  <2>2. /\ Advance(i, next).kind = "cli" /\ Advance(i, next).mode = "curve"
        /\ Advance(i, next).at = next
    BY <1>h, <2>1 DEF Job
  <2>3. CliJob(Advance(i, next))
    BY <1>e, <2>2 DEF CliJob, CliAt
  <2> QED
    BY <1>c, <2>2, <2>3 DEF Leaves
<1>i. ASSUME Continue(Cli), UNCHANGED <<mode, cfg, reload, phase, mon, stop, quit, toReset, released>>
      PROVE  /\ \E k : /\ job' = [job EXCEPT ![Cli] = k] /\ Leaves(job[Cli], k)
                       /\ k.kind = "cli"
             /\ UNCHANGED <<mode, cfg, reload, phase, mon, stop, quit, toReset, released>>
  <2>1. Leaves(j, Advance(j, next)) /\ Advance(j, next).kind = "cli"
    BY <1>c, <1>t, <1>h
  <2>2. job' = [job EXCEPT ![Cli] = Advance(j, next)]
    BY <1>i DEF Continue, Goto
  <2> QED
    BY <1>i, <2>1, <2>2
<1>1. CASE SetMem(Cli)
  BY <1>1, <1>c DEF SetMem
<1>2. CASE WriteMode(Cli)
  BY <1>2, <1>b, <1>f, <1>i DEF WriteMode, confVars, quitVars
<1>3. CASE WriteInit(Cli)
  BY <1>3, <1>b, <1>f, <1>i DEF WriteInit, confVars, quitVars
<1>4. CASE WriteLevel(Cli)
  BY <1>4, <1>c DEF WriteLevel
<1>5. CASE Save(Cli)
  <2>1. PICK c : /\ job' = [job EXCEPT ![Cli] = Advance([j EXCEPT !.snap = c], next)]
                 /\ c = Updated(j.snap, j)
                 /\ UNCHANGED cfg
    BY <1>5 DEF Save
  <2>2. c \in Config
    <3>1. j.snap \in Config /\ j.snap[j.fan] \in [mode : Modes, level : Levels]
          /\ j.mode \in Modes /\ j.level \in Levels /\ j.fan \in Fans
      BY <1>t, ConfigFields DEF Job
    <3> QED
      BY <2>1, <3>1 DEF Updated, Config
  <2>3. UNCHANGED <<mode, reload, phase, mon, stop, quit, toReset, released>>
    BY <1>5 DEF Save, quitVars
  <2>4. /\ Leaves(j, Advance([j EXCEPT !.snap = c], next))
        /\ Advance([j EXCEPT !.snap = c], next).kind = "cli"
    BY <1>g, <1>h, <2>2
  <2> QED
    BY <1>b, <2>1, <2>3, <2>4
<1>6. CASE RefuseRamp(Cli)
  BY <1>6, <1>f DEF RefuseRamp
<1> QED
  BY <1>1, <1>2, <1>3, <1>4, <1>5, <1>6 DEF Operate

\* A thread of the window that operates on a fan has work of its own kind.
LEMMA Operating ==
    ASSUME TypeOK, Discipline, NEW t \in Threads, t # Cli, Operate(t)
    PROVE  /\ job[t].at \in EditAt /\ job[t].kind \in {"edit", "restore", "adopt"}
           /\ EditJob(job[t]) \/ RestoreJob(job[t]) \/ AdoptingJob(job[t])
           /\ t \in Fans <=> job[t].kind = "edit"
           /\ t \in Fans => job[t].fan = t
<1>a. job[t].at \in {"mem", "mode", "init", "level", "saveMode", "saveLevel", "saveUp", "saveDown"}
  BY DEF Operate, SetMem, WriteMode, WriteInit, WriteLevel, Save, RefuseRamp
<1>b. ~Idle(t)
  BY <1>a, NoWork DEF Discipline, Employed
<1>c. /\ t \in Fans => EditJob(job[t]) /\ job[t].fan = t
      /\ t = Monitor => AdoptingJob(job[t])
      /\ t = Gui => RestoreJob(job[t]) \/ AdoptingJob(job[t])
      /\ t \in Fans \/ t = Monitor \/ t = Gui
  BY <1>b, ThreadsApart DEF Discipline, Employed
<1>d. job[t].at \in EditAt
  BY <1>a DEF EditAt
<1> QED
  BY <1>c, <1>d, ThreadsApart DEF EditJob, RestoreJob, AdoptingJob

LEMMA WindowOperates ==
    ASSUME TypeOK, Discipline, Reliable, NEW t \in Threads, t # Cli, Operate(t)
    PROVE  /\ Leaves(job[t], Advance(job[t], Following(job[t])))
           /\ job' = [job EXCEPT ![t] = Advance(job[t], Following(job[t]))]
           /\ UNCHANGED <<reload, phase, mon, stop, quit, toReset, released>>
<1>1. job[t].at \in EditAt /\ job[t].kind \in {"edit", "restore", "adopt"} /\ job[t] \in Job
  BY Operating, FieldsTyped
<1>2. EditJob(job[t]) \/ RestoreJob(job[t]) \/ AdoptingJob(job[t])
  BY Operating
<1>3. Leaves(job[t], Advance(job[t], Following(job[t])))
  BY <1>1, <1>2, OperationLeaves
<1> QED
  BY <1>1, <1>3, Operation

\* Loading and installing the saved fans, when the file can be read.
LEMMA Loading ==
    ASSUME TypeOK, Discipline, Reliable, NEW t \in {Monitor, Gui}, Adopt(t)
    PROVE  LET j == job[t] IN
           /\ AdoptingJob(j) /\ j.at \in {"load", "install"}
           /\ UNCHANGED <<regMode, mode, file, reload, phase, mon, stop, quit, toReset, released>>
           /\ \E k : /\ job' = [job EXCEPT ![t] = k] /\ Leaves(j, k)
                     /\ j.at = "load" => k.at = "install" /\ k.snap = file /\ cfg' = cfg
                     /\ j.at = "install" => k = FanJob("adopt", 1, j.snap) /\ cfg' = j.snap
<1>t. t \in Threads /\ job \in [Threads -> Job] /\ job[t] \in Job
  BY ThreadsApart, FieldsTyped
<1>a. job[t].at \in {"load", "install"} /\ ~Idle(t)
  BY <1>t, NoWork DEF Adopt, Load, Install, Discipline, Employed
<1>b. AdoptingJob(job[t])
  BY <1>a DEF Discipline, Employed, RestoreJob, EditAt
<1>c. ~Fault("adopt")
  BY DEF Reliable, Fault
<1>1. CASE Load(t)
  <2>1. job' = [job EXCEPT ![t].at = "install", ![t].snap = file] /\ job[t].at = "load"
        /\ UNCHANGED <<regMode, mode, file, reload, phase, mon, stop, quit, toReset, released>>
        /\ cfg' = cfg
    BY <1>1, <1>c DEF Load, ecVars, confVars, quitVars
  <2> DEFINE k == [job[t] EXCEPT !.at = "install", !.snap = file]
  <2>2. job' = [job EXCEPT ![t] = k]
    BY <1>t, <2>1
  <2>3. k.at = "install" /\ k.snap = file /\ k.kind = "adopt"
    BY <1>t, <1>b DEF Job, AdoptingJob
  <2>4. Leaves(job[t], k)
    <3> HIDE DEF k
    <3>1. AdoptingJob(k)
      BY <2>3 DEF AdoptingJob, AdoptAt
    <3> QED
      BY <1>b, <2>3, <3>1 DEF Leaves, AdoptingJob
  <2> QED
    BY <1>b, <2>1, <2>2, <2>3, <2>4
<1>2. CASE Install(t)
  <2> DEFINE k == FanJob("adopt", 1, job[t].snap)
  <2>1. job' = [job EXCEPT ![t] = k] /\ job[t].at = "install" /\ cfg' = job[t].snap
        /\ UNCHANGED <<regMode, mode, file, reload, phase, mon, stop, quit, toReset, released>>
    BY <1>2 DEF Install, ecVars, quitVars
  <2>2. k.kind = "adopt" /\ k.at = "mem"
    BY DEF FanJob
  <2>3. Leaves(job[t], k)
    <3> HIDE DEF k
    <3>1. AdoptingJob(k)
      BY <2>2 DEF AdoptingJob, AdoptAt
    <3> QED
      BY <1>b, <2>2, <3>1 DEF Leaves, AdoptingJob
  <2> QED
    BY <1>b, <2>1, <2>3
<1> QED
  BY <1>1, <1>2 DEF Adopt

\* Edits, commands and reloads take turns because GUI and user wait for them.
LEMMA DisciplineStep ==
    ASSUME TypeOK, Discipline, Reliable, OneByOne, Next, Patient
    PROVE  Discipline'
<1>j. job \in [Threads -> Job] /\ Fans \subseteq Threads /\ {Monitor, Gui, Cli} \subseteq Threads
  BY ThreadsApart, FieldsTyped
<1>o. ~OverlapCli /\ CliModes \subseteq {"curve"}
  BY DEF OneByOne
<1>n. NoJob.kind = "none"
  BY NoWork
<1>1. ASSUME NEW t \in Threads, t # Cli, Operate(t)
      PROVE  Discipline'
  <2> DEFINE k == Advance(job[t], Following(job[t]))
  <2>1. Leaves(job[t], k) /\ job' = [job EXCEPT ![t] = k]
        /\ reload' = reload /\ phase' = phase /\ stop' = stop /\ quit' = quit /\ mon' = mon
    BY <1>1, WindowOperates
  <2> HIDE DEF k
  <2> QED
    BY <2>1, WorkGoesOn, Zenon
<1>2. ASSUME Operate(Cli) PROVE Discipline'
  <2>1. PICK k : job' = [job EXCEPT ![Cli] = k] /\ Leaves(job[Cli], k)
    BY <1>2, CliOperation, Zenon
  <2>2. reload' = reload /\ phase' = phase /\ stop' = stop /\ quit' = quit /\ mon' = mon
    BY <1>2, CliOperation
  <2> QED
    BY <1>j, <2>1, <2>2, WorkGoesOn, Zenon
<1>3. ASSUME NEW t \in {Monitor, Gui}, Adopt(t) PROVE Discipline'
  <2>1. PICK k : job' = [job EXCEPT ![t] = k] /\ Leaves(job[t], k)
    BY <1>3, Loading, Zenon
  <2>2. reload' = reload /\ phase' = phase /\ stop' = stop /\ quit' = quit /\ mon' = mon
    BY <1>3, Loading
  <2>3. t \in Threads
    BY <1>j
  <2> QED
    BY <2>1, <2>2, <2>3, WorkGoesOn, Zenon
<1>4. CASE MonLoop
  <2>1. CASE MonPoll /\ ~stop /\ reload
    <3>1. /\ reload' = FALSE /\ job' = [job EXCEPT ![Monitor] = AdoptJob]
          /\ UNCHANGED <<phase, stop, quit>> /\ mon.pc = "slept" /\ mon'.pc = "check"
      BY <2>1 DEF MonPoll, At, quitVars
    <3>2. phase = "running" /\ ~Adopting /\ Idle(Cli) /\ (\A f \in Fans : Idle(f))
      BY <3>1, <2>1 DEF Discipline, Timely, TakeTurns
    <3>3. job'[Monitor] = AdoptJob /\ \A t \in Threads : t # Monitor => job'[t] = job[t]
      BY <1>j, <3>1
    <3>4. AdoptJob.kind = "adopt" /\ AdoptJob.at = "load"
      BY DEF AdoptJob, NoJob
    <3>5. Idle(Gui)
      BY <3>2 DEF Discipline, Employed, Timely, Adopting, RestoreJob, AdoptingJob
    <3>6. Employed'
      BY <3>3, <3>4, <1>j, ThreadsApart DEF Discipline, Employed, Idle, EditJob, RestoreJob,
         AdoptingJob, CliJob, AdoptAt
    <3>7. Timely'
      BY <3>1, <3>2, <3>3, <3>4, <1>j, ThreadsApart DEF Discipline, Timely, Idle
    <3>8. TakeTurns'
      BY <3>1, <3>2, <3>3, <3>4, <3>5, <1>j, ThreadsApart DEF TakeTurns, Idle, Adopting
    <3> QED
      BY <3>6, <3>7, <3>8 DEF Discipline
  <2>2. CASE ~(MonPoll /\ ~stop /\ reload)
    <3>1. UNCHANGED <<job, reload, phase, stop, quit>>
      BY <1>4, <2>2 DEF MonLoop, MonTop, MonPoll, MonCheck, MonSample, MonScan, MonWrite, quitVars
    <3>2. mon.pc # "off" /\ mon'.pc # "off"
      <4>m. mon \in [pc : {"off", "top", "slept", "check", "sample", "scan", "write", "done"},
                     fan : 1 .. NFans + 1, level : Levels]
        BY DEF TypeOK
      <4>1. CASE MonTop \/ MonPoll \/ MonCheck \/ MonSample \/ MonWrite
        BY <4>1 DEF MonTop, MonPoll, MonCheck, MonSample, MonWrite, At
      <4>2. CASE MonScan
        <5> DEFINE rest == {f \in CurveFans : f >= mon.fan}
        <5>1. \/ mon' = At("top")
              \/ \E n : mon' = [mon EXCEPT !.fan = n]
              \/ \E f, l : mon' = [pc |-> "write", fan |-> f, level |-> l]
          BY <4>2 DEF MonScan
        <5>2. mon.pc = "scan"
          BY <4>2 DEF MonScan
        <5> QED
          BY <5>1, <5>2, <4>m DEF At
      <4> QED
        BY <1>4, <4>1, <4>2 DEF MonLoop
    <3> QED
      BY <3>1, <3>2, NobodyWorks
  <2> QED
    BY <2>1, <2>2
<1>5. CASE Restore
  <2>1. /\ phase = "starting" /\ phase' = "restoring"
        /\ job' = [job EXCEPT ![Gui] = FanJob("restore", 1, cfg)]
        /\ UNCHANGED <<reload, stop, quit, mon>>
    BY <1>5 DEF Restore, quitVars
  <2>2. job'[Gui] = FanJob("restore", 1, cfg) /\ \A t \in Threads : t # Gui => job'[t] = job[t]
    BY <1>j, <2>1
  <2>3. FanJob("restore", 1, cfg).kind = "restore" /\ FanJob("restore", 1, cfg).at = "mem"
    BY DEF FanJob
  <2>4. ~reload /\ Idle(Gui) /\ Idle(Monitor) /\ ~stop /\ \A f \in Fans : Idle(f)
    BY <2>1 DEF Discipline, Timely
  <2>5. Employed'
    BY <2>2, <2>3, <1>j, ThreadsApart DEF Discipline, Employed, Idle, EditJob, RestoreJob,
       AdoptingJob, CliJob, EditAt
  <2>6. Timely'
    BY <2>1, <2>2, <2>3, <2>4, <1>j, ThreadsApart DEF Discipline, Timely, Idle
  <2>7. TakeTurns'
    BY <2>1, <2>2, <2>3, <2>4, <1>j, ThreadsApart DEF TakeTurns, Idle, Adopting
  <2> QED
    BY <2>5, <2>6, <2>7 DEF Discipline
<1>6. CASE SpawnMonitor
  <2>1. phase = "restoring" /\ phase' = "running" /\ Idle(Gui)
        /\ UNCHANGED <<job, reload, stop, quit>>
    BY <1>6 DEF SpawnMonitor
  <2> QED
    BY <2>1 DEF Discipline, Employed, Timely, TakeTurns, Idle, Adopting
<1>7. CASE GuiPoll
  <2>1. /\ phase = "running" /\ Idle(Gui) /\ reload /\ reload' = FALSE
        /\ job' = [job EXCEPT ![Gui] = AdoptJob]
        /\ UNCHANGED <<phase, stop, quit, mon>>
    BY <1>7 DEF GuiPoll, GuiAlive, quitVars
  <2>2. ~Adopting /\ Idle(Cli) /\ (\A f \in Fans : Idle(f))
    BY <2>1 DEF Discipline, TakeTurns
  <2>3. job'[Gui] = AdoptJob /\ \A t \in Threads : t # Gui => job'[t] = job[t]
    BY <1>j, <2>1
  <2>4. AdoptJob.kind = "adopt" /\ AdoptJob.at = "load"
    BY DEF AdoptJob, NoJob
  <2>5. Idle(Monitor)
    BY <2>2 DEF Discipline, Employed, Adopting, AdoptingJob
  <2>6. Employed'
    BY <2>3, <2>4, <1>j, ThreadsApart DEF Discipline, Employed, Idle, EditJob, RestoreJob,
       AdoptingJob, CliJob, AdoptAt
  <2>7. Timely'
    BY <2>1, <2>2, <2>3, <2>4, <1>j, ThreadsApart DEF Discipline, Timely, Idle
  <2>8. TakeTurns'
    BY <2>1, <2>2, <2>3, <2>4, <2>5, <1>j, ThreadsApart DEF TakeTurns, Idle, Adopting
  <2> QED
    BY <2>6, <2>7, <2>8 DEF Discipline
<1>8. ASSUME NEW f \in Fans, Edit(f) PROVE Discipline'
  <2>1. PICK m \in Modes, l \in Levels :
          job' = [job EXCEPT ![f] = OneFanJob("edit", "mem", f, m, l)]
    BY <1>8 DEF Edit
  <2>2. /\ phase = "running" /\ ~reload /\ \A t \in Threads \ Fans : Idle(t)
        /\ UNCHANGED <<reload, phase, stop, quit, mon>>
    BY <1>8, <1>o DEF Edit, GuiAlive, quitVars
  <2> DEFINE e == OneFanJob("edit", "mem", f, m, l)
  <2>3. e.kind = "edit" /\ e.at = "mem" /\ e.fan = f
    BY DEF OneFanJob, NoJob
  <2>4. job'[f] = e /\ \A t \in Threads : t # f => job'[t] = job[t]
    BY <1>j, <2>1
  <2> HIDE DEF e
  <2>5. Employed'
    BY <2>3, <2>4, <1>j, ThreadsApart DEF Discipline, Employed, Idle, EditJob, RestoreJob,
       AdoptingJob, CliJob, EditAt
  <2>6. Timely'
    BY <2>2, <2>3, <2>4, <1>j, ThreadsApart DEF Discipline, Timely, Idle
  <2>7. TakeTurns'
    BY <2>2, <2>3, <2>4, <1>j, ThreadsApart DEF TakeTurns, Idle, Adopting
  <2> QED
    BY <2>5, <2>6, <2>7 DEF Discipline
<1>9. ASSUME NEW q \in Quitters, Quit(q) \/ Shutdown(q) PROVE Discipline'
  <2>1. CASE Exit(q)
    <3>1. /\ phase' = "exited" /\ mon'.pc = "off" /\ reload' = FALSE /\ stop' = FALSE
          /\ quit' = [p \in Quitters |-> "idle"]
          /\ job' = [t \in Threads |-> IF t = Cli THEN job[t] ELSE NoJob]
      BY <2>1 DEF Exit, MonOff
    <3>2. job'[Cli] = job[Cli] /\ \A t \in Threads : t # Cli => job'[t] = NoJob
      BY <1>j, <3>1
    <3>3. Employed'
      BY <1>n, <1>j, <3>2, ThreadsApart DEF Discipline, Employed, Idle, CliJob
    <3>4. Timely'
      BY <1>n, <1>j, <3>1, <3>2, ThreadsApart DEF Timely, Idle
    <3>5. TakeTurns'
      BY <1>n, <1>j, <3>1, <3>2, ThreadsApart DEF TakeTurns, Idle, Adopting
    <3> QED
      BY <3>3, <3>4, <3>5 DEF Discipline
  <2>2. CASE Quit(q)
    <3>1. /\ phase = "running" /\ stop' = TRUE /\ UNCHANGED <<job, reload, phase, mon>>
      BY <2>2 DEF Quit
    <3> QED
      BY <3>1 DEF Discipline, Employed, Timely, TakeTurns, Idle, Adopting
  <2>3. CASE Shutdown(q) /\ ~Exit(q)
    <3>1. /\ quit[q] # "idle" /\ UNCHANGED <<job, reload, phase, mon, stop>>
      BY <2>3 DEF Shutdown, TakeHandle, Join, Swap, Collect, WriteAuto
    <3>2. stop
      BY <3>1 DEF Discipline, Timely
    <3> QED
      BY <3>1, <3>2 DEF Discipline, Employed, Timely, TakeTurns, Idle, Adopting
  <2> QED
    BY <1>9, <2>1, <2>2, <2>3
<1>10. CASE Launch
  <2>1. /\ phase = "exited" /\ phase' = "starting" /\ UNCHANGED <<job, reload, mon, stop, quit>>
    BY <1>10 DEF Launch, quitVars
  <2> QED
    BY <2>1 DEF Discipline, Employed, Timely, TakeTurns, Idle, Adopting
<1>11. CASE CliStart
  <2>1. PICK f \in Fans, m \in CliModes, l \in Levels :
          job' = [job EXCEPT ![Cli] = OneFanJob("cli", "open", f, m, l)]
    BY <1>11 DEF CliStart
  <2>2. /\ ~reload /\ ~Adopting /\ (\A g \in Fans : Idle(g)) /\ m = "curve"
        /\ UNCHANGED <<reload, phase, stop, quit, mon>>
    BY <1>11, <1>o DEF CliStart, Patient, quitVars
  <2> DEFINE e == OneFanJob("cli", "open", f, m, l)
  <2>3. e.kind = "cli" /\ e.at = "open" /\ e.mode = "curve"
    BY <2>2 DEF OneFanJob, NoJob
  <2>4. job'[Cli] = e /\ \A t \in Threads : t # Cli => job'[t] = job[t]
    BY <1>j, <2>1
  <2> HIDE DEF e
  <2>5. Employed'
    BY <2>3, <2>4, <1>j, ThreadsApart DEF Discipline, Employed, Idle, EditJob, RestoreJob,
       AdoptingJob, CliJob, CliAt
  <2>6. Timely'
    BY <2>2, <2>3, <2>4, <1>j, ThreadsApart DEF Discipline, Timely, Idle
  <2>7. TakeTurns'
    BY <2>2, <2>3, <2>4, <1>j, ThreadsApart DEF Discipline, TakeTurns, Idle, Adopting
  <2> QED
    BY <2>5, <2>6, <2>7 DEF Discipline
<1>12. CASE CliOpen
  <2> DEFINE k == [job[Cli] EXCEPT !.at = "mode", !.snap = file]
  <2>1. /\ job[Cli].at = "open" /\ job' = [job EXCEPT ![Cli] = k]
        /\ reload' = reload /\ phase' = phase /\ stop' = stop /\ quit' = quit /\ mon' = mon
    BY <1>j, <1>12 DEF CliOpen, quitVars
  <2>2. CliJob(job[Cli])
    BY <1>j, <2>1, NoWork DEF Discipline, Employed, Idle
  <2>3. k.kind = job[Cli].kind /\ k.at = "mode" /\ k.mode = job[Cli].mode
    BY <1>j DEF Job
  <2>4. Leaves(job[Cli], k)
    <3> HIDE DEF k
    <3>1. CliJob(k) /\ k.kind # "edit"
      BY <2>2, <2>3 DEF CliJob, CliAt
    <3> QED
      BY <2>3, <3>1 DEF Leaves
  <2> HIDE DEF k
  <2> QED
    BY <1>j, <2>1, <2>4, WorkGoesOn, Zenon
<1>13. CASE CliSignal
  <2>1. /\ job[Cli].at = "signal" /\ job' = [job EXCEPT ![Cli] = NoJob]
        /\ reload' = (phase \in {"restoring", "running"})
        /\ UNCHANGED <<phase, stop, quit, mon>>
    BY <1>13 DEF CliSignal, quitVars
  <2>2. ~Idle(Cli)
    BY <1>j, <2>1, NoWork DEF Discipline, Employed
  <2>3. ~Adopting /\ \A f \in Fans : Idle(f)
    BY <2>2 DEF Discipline, TakeTurns
  <2>4. job'[Cli] = NoJob /\ \A t \in Threads : t # Cli => job'[t] = job[t]
    BY <1>j, <2>1
  <2>5. Employed'
    BY <1>n, <1>j, <2>4, ThreadsApart DEF Discipline, Employed, Idle, EditJob, RestoreJob,
       AdoptingJob
  <2>6. Timely'
    BY <1>n, <1>j, <2>1, <2>4, ThreadsApart DEF Discipline, Timely, Idle
  <2>7. TakeTurns'
    BY <1>n, <1>j, <2>1, <2>3, <2>4, ThreadsApart DEF Discipline, TakeTurns, Idle, Adopting
  <2> QED
    BY <2>5, <2>6, <2>7 DEF Discipline
<1> QED
  BY <1>1, <1>2, <1>3, <1>4, <1>5, <1>6, <1>7, <1>8, <1>9, <1>10, <1>11, <1>12, <1>13,
     ThreadsApart DEF Next, MonitorThread, GuiThread, Command
-----------------------------------------------------------------------------
(***************************************************************************)
(* What holds of the fans while they take turns.                           *)
(***************************************************************************)
LEMMA Undisturbed ==
    ASSUME Truth, job' = job, cfg' = cfg, file' = file, mode' = mode, regMode' = regMode,
           reload' = reload, phase' = phase, stop' = stop
    PROVE  Truth'
BY DEF Truth, Restoring, Adopted, Agreement, Clean, Adopting, Idle, Adopts, Agrees, Known,
       Reached, DoneBefore

\* A fan whose last operation is done agrees with the configuration.
LEMMA ServedAgrees ==
    ASSUME NEW f \in Fans, NEW m, Reached("done", f, m)
    PROVE  Agrees(f)
BY DEF Reached, Agrees

\* A step of an edit.
LEMMA EditKeepsTruth ==
    ASSUME SyncInv, Reliable, NEW f \in Fans, Operate(f)
    PROVE  Truth'
<1>i. TypeOK /\ Discipline /\ Restoring /\ Adopted /\ Agreement
  BY DEF SyncInv, Truth
<1>t. f \in Threads /\ f # Cli /\ f # Gui /\ f # Monitor /\ job \in [Threads -> Job]
  BY <1>i, ThreadsApart, FieldsTyped
<1>1. PICK j \in Job : j = job[f]
  BY <1>t
<1>2. PICK next : next = Following(j)
  OBVIOUS
<1>3. PICK k : k = Advance(j, next)
  OBVIOUS
<1>4. j.at \in EditAt /\ j.kind = "edit" /\ j.fan = f
  BY <1>i, <1>t, <1>1, Operating
<1>5. /\ job' = [job EXCEPT ![f] = k]
      /\ UNCHANGED <<reload, phase, stop>>
  BY <1>i, <1>t, <1>1, <1>2, <1>3, WindowOperates
<1>6. /\ \A g \in Fans : g # f =>
           mode'[g] = mode[g] /\ regMode'[g] = regMode[g] /\ cfg'[g] = cfg[g]
      /\ Reached(j.at, f, j.mode) => Reached(next, f, j.mode)'
      /\ j.at \in {"mem", "mode", "init", "level"} => UNCHANGED <<cfg, file>>
      /\ j.at \in {"saveMode", "saveLevel", "saveUp", "saveDown"} => file' = cfg'
  BY <1>i, <1>t, <1>1, <1>2, <1>4, FanServed
<1>7. ~Idle(f)
  BY <1>1, <1>4 DEF Idle
<1>8. Idle(Cli) /\ ~reload /\ ~Adopting /\ phase = "running" /\ Idle(Gui)
  <2>1. Idle(Cli) /\ ~reload /\ ~Adopting /\ phase = "running"
    BY <1>i, <1>7 DEF Discipline, TakeTurns, Timely
  <2> QED
    BY <1>i, <2>1 DEF Discipline, Employed, Timely, Adopting, RestoreJob, AdoptingJob
<1>9. Clean
  BY <1>8 DEF Clean
<1>10. /\ job'[f] = k /\ \A g \in Threads : g # f => job'[g] = job[g]
  BY <1>t, <1>5
<1>11. Idle(Gui)' /\ ~Adopting'
  BY <1>8, <1>10, <1>t, ThreadsApart DEF Idle, Adopting
<1>12. Restoring' /\ Adopted'
  BY <1>11, ThreadsApart DEF Restoring, Adopted, Adopting, Idle
<1>13. ASSUME ~stop
       PROVE  /\ (file = cfg)'
              /\ \A g \in Fans : IF Idle(g)' THEN Agrees(g)' ELSE Known(job[g])'
  <2>1. file = cfg /\ \A g \in Fans : IF Idle(g) THEN Agrees(g) ELSE Known(job[g])
    BY <1>i, <1>8, <1>9, <1>13 DEF Agreement
  <2>2. Reached(j.at, f, j.mode)
    BY <1>1, <1>4, <1>7, <2>1 DEF Known
  <2>3. Reached(next, f, j.mode)'
    BY <1>6, <2>2
  <2>4. file' = cfg'
    BY <1>4, <1>6, <2>1 DEF EditAt
  <2>5. ASSUME NEW g \in Fans, g # f
        PROVE  IF Idle(g)' THEN Agrees(g)' ELSE Known(job[g])'
    <3>1. job'[g] = job[g] /\ mode'[g] = mode[g] /\ regMode'[g] = regMode[g] /\ cfg'[g] = cfg[g]
      BY <1>6, <1>10, <2>5, ThreadsApart
    <3>2. ~Idle(g) => job[g].fan = g
      BY <1>i DEF Discipline, Employed
    <3>3. IF Idle(g) THEN Agrees(g) ELSE Known(job[g])
      BY <2>1
    <3> QED
      BY <3>1, <3>2, <3>3 DEF Idle, Agrees, Known, Reached
  <2>6. IF Idle(f)' THEN Agrees(f)' ELSE Known(job[f])'
    <3>1. CASE next # "done"
      <4>1. k = [j EXCEPT !.at = next]
        BY <1>3, <3>1 DEF Advance
      <4>2. k.at = next /\ k.fan = f /\ k.mode = j.mode /\ k.kind = "edit"
        BY <1>4, <4>1 DEF Job
      <4> QED
        BY <1>10, <1>t, <2>3, <4>2 DEF Idle, Known, Reached
    <3>2. CASE next = "done"
      <4>1. k = NoJob
        BY <1>3, <1>4, <3>2 DEF Advance
      <4> QED
        BY <1>10, <1>t, <2>3, <3>2, <4>1, NoWork DEF Idle, Reached, Agrees
    <3> QED
      BY <3>1, <3>2
  <2> QED
    BY <2>4, <2>5, <2>6
<1>14. Agreement'
  BY <1>5, <1>8, <1>13 DEF Agreement
<1> QED
  BY <1>12, <1>14 DEF Truth

\* A step of the restore at start-up.
LEMMA RestoreKeepsTruth ==
    ASSUME SyncInv, Reliable, Operate(Gui), job[Gui].kind = "restore"
    PROVE  Truth'
<1>i. TypeOK /\ Discipline /\ Restoring /\ Adopted /\ Agreement
  BY DEF SyncInv, Truth
<1>t. Gui \in Threads /\ Gui # Cli /\ Gui # Monitor /\ Gui \notin Fans /\ job \in [Threads -> Job]
      /\ cfg \in Config /\ file \in Config
  BY <1>i, ThreadsApart, FieldsTyped
<1>1. PICK j \in Job : j = job[Gui]
  BY <1>t
<1>2. PICK next : next = Following(j)
  OBVIOUS
<1>3. PICK k : k = Advance(j, next)
  OBVIOUS
<1>4. j.at \in EditAt /\ j.kind = "restore" /\ j.fan \in Fans /\ j.snap \in Config
  BY <1>i, <1>t, <1>1, Operating DEF Job
<1>5. /\ job' = [job EXCEPT ![Gui] = k]
      /\ UNCHANGED <<reload, phase, stop>>
  BY <1>i, <1>t, <1>1, <1>2, <1>3, WindowOperates
<1>6. /\ \A g \in Fans : g # j.fan =>
           mode'[g] = mode[g] /\ regMode'[g] = regMode[g] /\ cfg'[g] = cfg[g]
      /\ Reached(j.at, j.fan, j.mode) => Reached(next, j.fan, j.mode)'
      /\ j.at \in {"mem", "mode", "init", "level"} => UNCHANGED <<cfg, file>>
      /\ j.at \in {"saveMode", "saveLevel", "saveUp", "saveDown"} => file' = cfg'
      /\ cfg[j.fan].mode = j.mode /\ cfg[j.fan].level = j.level => cfg' = cfg
  BY <1>i, <1>t, <1>1, <1>2, <1>4, FanServed
<1>7. j.snap = cfg /\ j.mode = cfg[j.fan].mode /\ j.level = cfg[j.fan].level /\ cfg' = cfg
  BY <1>i, <1>1, <1>4, <1>6 DEF Restoring
<1>8. phase = "restoring" /\ Idle(Monitor)
  BY <1>i, <1>1, <1>4, <1>t DEF Discipline, Timely, Idle, TypeOK
<1>10. /\ job'[Gui] = k /\ \A t \in Threads : t # Gui => job'[t] = job[t]
  BY <1>t, <1>5
<1>n. \/ next # "done" /\ k = [j EXCEPT !.at = next]
      \/ next = "done" /\ j.fan < NFans /\ k = FanJob("restore", j.fan + 1, j.snap)
      \/ next = "done" /\ j.fan = NFans /\ k = NoJob
  BY <1>1, <1>3, <1>4, WorkLeft
<1>k. \/ k.kind = "restore" /\ k.snap = j.snap
      \/ k = NoJob /\ k.kind = "none"
  BY <1>4, <1>n, NoWork DEF Job, FanJob
<1>11. ~Adopting' /\ Clean' = Clean
  BY <1>1, <1>4, <1>5, <1>8, <1>10, <1>k, ThreadsApart DEF Idle, Adopting, Clean
<1>12. Adopted'
  BY <1>11 DEF Adopted, Adopting
<1>13. ASSUME Clean
       PROVE  /\ Reached(next, j.fan, j.mode)'
              /\ DoneBefore(j) /\ \A g \in Fans : g < j.fan => Agrees(g)'
              /\ next = "done" => Agrees(j.fan)' /\ file' = cfg'
              /\ j.fan > 1 => file' = cfg'
              /\ next \in {"level", "saveLevel", "saveUp", "saveDown"} => file' = cfg'
  <2>1. /\ Reached(j.at, j.fan, j.mode) /\ DoneBefore(j)
        /\ j.fan > 1 \/ j.at \in {"level", "saveLevel", "saveUp", "saveDown"} => file = cfg
    BY <1>i, <1>1, <1>4, <1>13 DEF Restoring, Known
  <2>2. Reached(next, j.fan, j.mode)'
    BY <1>6, <2>1
  <2>3. \A g \in Fans : g < j.fan => Agrees(g)'
    <3>1. \A g \in Fans : g < j.fan => Agrees(g) /\ g # j.fan
      BY <2>1, <1>4, FanControlAssumption DEF DoneBefore, Fans
    <3> QED
      BY <3>1, <1>6 DEF Agrees
  <2>4. next = "done" => Agrees(j.fan)'
    BY <1>4, <2>2 DEF Reached, Agrees
  <2>5. /\ j.at = "mem" => next = "mode"
        /\ j.at = "mode" => next \in {"init", "saveMode"}
        /\ j.at = "init" => next = "saveMode"
        /\ j.at = "level" => next = "saveLevel"
    BY <1>2, <1>4, Order
  <2>6. file = cfg => file' = cfg'
    BY <1>4, <1>6 DEF EditAt
  <2>7. next \in {"done", "level", "saveLevel", "saveUp", "saveDown"} => file' = cfg'
    <3>1. ASSUME next \in {"done", "level", "saveLevel", "saveUp", "saveDown"}
          PROVE  j.at \in {"saveMode", "level", "saveLevel", "saveUp", "saveDown"}
      BY <3>1, <2>5, <1>4 DEF EditAt
    <3> QED
      BY <3>1, <1>6, <2>1, <2>6
  <2> QED
    BY <2>1, <2>2, <2>3, <2>4, <2>6, <2>7
<1>14. CASE next # "done" /\ k = [j EXCEPT !.at = next]
  <2>1. /\ k.kind = "restore" /\ k.at = next /\ k.fan = j.fan /\ k.mode = j.mode
        /\ k.level = j.level /\ k.snap = j.snap
    BY <1>4, <1>14 DEF Job
  <2>2. Restoring'
    BY <1>1, <1>7, <1>10, <1>11, <1>13, <2>1 DEF Restoring, Known, Reached, DoneBefore, Agrees
  <2>3. Agreement'
    BY <1>5, <1>8, <1>10, <1>t, <2>1 DEF Agreement, Idle
  <2> QED
    BY <1>12, <2>2, <2>3 DEF Truth
<1>15. CASE next = "done" /\ j.fan < NFans /\ k = FanJob("restore", j.fan + 1, j.snap)
  <2>1. /\ k.kind = "restore" /\ k.at = "mem" /\ k.fan = j.fan + 1 /\ k.snap = j.snap
        /\ k.mode = j.snap[j.fan + 1].mode /\ k.level = j.snap[j.fan + 1].level
    BY <1>15 DEF FanJob
  <2>2. j.fan + 1 > 1 /\ \A g \in Fans : g < j.fan + 1 => g = j.fan \/ g < j.fan
    BY <1>4 DEF Fans
  <2>3. Clean => \A g \in Fans : g < k.fan => Agrees(g)'
    BY <1>13, <1>15, <2>1, <2>2
  <2>4. Clean => file' = cfg'
    BY <1>13, <1>15
  <2>5. Known(k)'
    BY <2>1 DEF Known, Reached
  <2>6. Clean => DoneBefore(k)'
    BY <2>3 DEF DoneBefore
  <2>7. k.snap = cfg' /\ k.mode = cfg'[k.fan].mode /\ k.level = cfg'[k.fan].level
    BY <1>7, <2>1
  <2>8. Restoring'
    <3>1. job'[Gui].kind = "restore" => job'[Gui] = k
      BY <1>10
    <3> QED
      BY <3>1, <1>11, <2>4, <2>5, <2>6, <2>7 DEF Restoring, Known, DoneBefore, Reached, Agrees
  <2>9. Agreement'
    BY <1>5, <1>8, <1>10, <1>t, <2>1 DEF Agreement, Idle
  <2> QED
    BY <1>12, <2>8, <2>9 DEF Truth
<1>16. CASE next = "done" /\ j.fan = NFans /\ k = NoJob
  <2>1. Restoring'
    BY <1>10, <1>16, NoWork DEF Restoring
  <2>2. Clean => file' = cfg' /\ \A g \in Fans : Agrees(g)'
    <3>1. \A g \in Fans : g = j.fan \/ g < j.fan
      BY <1>16, FanControlAssumption DEF Fans
    <3> QED
      BY <3>1, <1>13, <1>16
  <2>3. \A g \in Fans : Idle(g)'
    <3>1. \A g \in Fans : Idle(g) /\ g \in Threads /\ g # Gui
      BY <1>i, <1>8, ThreadsApart DEF Discipline, Timely
    <3> QED
      BY <3>1, <1>10 DEF Idle
  <2>4. Agreement'
    BY <2>2, <2>3, <1>11 DEF Agreement
  <2> QED
    BY <1>12, <2>1, <2>4 DEF Truth
<1> QED
  BY <1>n, <1>14, <1>15, <1>16

\* While one of the two adopts, the other, the workers and the command line
\* tool have nothing to do.
LEMMA AdoptsAlone ==
    ASSUME TypeOK, Discipline, NEW t \in {Monitor, Gui}, job[t].kind = "adopt"
    PROVE  /\ phase = "running" /\ ~reload /\ Adopting
           /\ \A s \in Threads : s # t => Idle(s)
<1>1. Adopting /\ ~Idle(t)
  BY DEF Adopting, Idle
<1>2. ~reload /\ Idle(Cli) /\ \A f \in Fans : Idle(f)
  BY <1>1 DEF Discipline, TakeTurns
<1>3. phase \in {"starting", "restoring", "running", "exited"}
  BY DEF TypeOK
<1>4. phase = "running"
  BY <1>1, <1>3, ThreadsApart DEF Discipline, Timely
<1>5. Idle(Monitor) \/ Idle(Gui)
  BY DEF Discipline, TakeTurns
<1> QED
  BY <1>1, <1>2, <1>4, <1>5, ThreadsApart

\* A step of an adoption.
LEMMA AdoptionKeepsTruth ==
    ASSUME SyncInv, Reliable, NEW t \in {Monitor, Gui}, Operate(t), job[t].kind = "adopt"
    PROVE  Truth'
<1>i. TypeOK /\ Discipline /\ Restoring /\ Adopted /\ Agreement
  BY DEF SyncInv, Truth
<1>t. t \in Threads /\ t # Cli /\ t \notin Fans /\ job \in [Threads -> Job]
      /\ cfg \in Config /\ file \in Config
  BY <1>i, ThreadsApart, FieldsTyped
<1>1. PICK j \in Job : j = job[t]
  BY <1>t
<1>2. PICK next : next = Following(j)
  OBVIOUS
<1>3. PICK k : k = Advance(j, next)
  OBVIOUS
<1>4. /\ j.at \in EditAt /\ j.kind = "adopt" /\ j.fan \in Fans /\ j.snap \in Config
      /\ j.at \in {"mem", "mode", "init", "level"}
  <2>1. j.at \in EditAt /\ j.kind = "adopt" /\ AdoptingJob(j)
    BY <1>i, <1>t, <1>1, Operating DEF EditJob, RestoreJob
  <2> QED
    BY <2>1 DEF AdoptingJob, AdoptAt, EditAt, Job
<1>5. /\ job' = [job EXCEPT ![t] = k]
      /\ UNCHANGED <<reload, phase, stop>>
  BY <1>i, <1>t, <1>1, <1>2, <1>3, WindowOperates
<1>6. /\ \A g \in Fans : g # j.fan =>
           mode'[g] = mode[g] /\ regMode'[g] = regMode[g] /\ cfg'[g] = cfg[g]
      /\ Reached(j.at, j.fan, j.mode) /\ cfg[j.fan].mode = j.mode =>
           Reached(next, j.fan, j.mode)'
      /\ UNCHANGED <<cfg, file>>
  BY <1>i, <1>t, <1>1, <1>2, <1>4, FanServed
<1>7. phase = "running" /\ ~reload /\ \A s \in Threads : s # t => Idle(s)
  BY <1>i, <1>1, <1>4, AdoptsAlone
<1>10. /\ job'[t] = k /\ \A s \in Threads : s # t => job'[s] = job[s] /\ Idle(s)'
  BY <1>t, <1>5, <1>7 DEF Idle
<1>n. \/ next # "done" /\ k = [j EXCEPT !.at = next]
      \/ next = "done" /\ j.fan < NFans /\ k = FanJob("adopt", j.fan + 1, j.snap)
      \/ next = "done" /\ j.fan = NFans /\ k = NoJob
  BY <1>1, <1>3, <1>4, WorkLeft
<1>m. next # "mem" /\ next \in {"mode", "init", "level", "done"}
  BY <1>2, <1>4, Order
<1>k. k.kind \in {"adopt", "none"}
  BY <1>4, <1>n, NoWork DEF Job, FanJob
<1>12. Restoring'
  BY <1>k, <1>t, <1>10, ThreadsApart DEF Restoring, Idle
<1>13. ASSUME ~stop
       PROVE  /\ Reached(next, j.fan, j.mode)'
              /\ j.snap = cfg /\ file = cfg /\ j.mode = cfg[j.fan].mode
              /\ \A g \in Fans : g < j.fan => Agrees(g)'
              /\ next = "done" => Agrees(j.fan)'
  <2>1. Adopts(j)
    BY <1>i, <1>1, <1>4, <1>13 DEF Adopted
  <2>2. /\ j.snap = cfg /\ file = cfg /\ j.mode = cfg[j.fan].mode
        /\ Reached(j.at, j.fan, j.mode) /\ DoneBefore(j)
    BY <1>4, <2>1 DEF Adopts, Known
  <2>3. Reached(next, j.fan, j.mode)'
    BY <1>6, <2>2
  <2>4. \A g \in Fans : g < j.fan => Agrees(g)'
    <3>1. \A g \in Fans : g < j.fan => Agrees(g) /\ g # j.fan
      BY <2>2, <1>4, FanControlAssumption DEF DoneBefore, Fans
    <3> QED
      BY <3>1, <1>6 DEF Agrees
  <2>5. next = "done" => Agrees(j.fan)'
    BY <1>4, <2>3 DEF Reached, Agrees
  <2> QED
    BY <2>2, <2>3, <2>4, <2>5
<1>14. CASE next # "done" /\ k = [j EXCEPT !.at = next]
  <2>1. /\ k.kind = "adopt" /\ k.at = next /\ k.fan = j.fan /\ k.mode = j.mode
        /\ k.snap = j.snap
    BY <1>4, <1>14 DEF Job
  <2>2. ~stop => Adopts(k)'
    BY <1>6, <1>13, <1>14, <1>m, <2>1 DEF Adopts, Known, Reached, DoneBefore, Agrees
  <2>3. Adopted'
    <3>1. \A s \in {Monitor, Gui} : job'[s].kind = "adopt" => s = t /\ job'[s] = k
      BY <1>10, ThreadsApart DEF Idle
    <3> QED
      BY <1>5, <2>2, <3>1 DEF Adopted, Adopts, Known, Reached, DoneBefore, Agrees
  <2>4. ~Clean'
    BY <1>10, <2>1 DEF Clean, Adopting
  <2> QED
    BY <1>12, <2>3, <2>4 DEF Truth, Agreement
<1>15. CASE next = "done" /\ j.fan < NFans /\ k = FanJob("adopt", j.fan + 1, j.snap)
  <2>1. /\ k.kind = "adopt" /\ k.at = "mem" /\ k.fan = j.fan + 1 /\ k.snap = j.snap
        /\ k.mode = j.snap[j.fan + 1].mode
    BY <1>15 DEF FanJob
  <2>2. \A g \in Fans : g < j.fan + 1 => g = j.fan \/ g < j.fan
    BY <1>4 DEF Fans
  <2>3. ~stop => \A g \in Fans : g < k.fan => Agrees(g)'
    BY <1>13, <1>15, <2>1, <2>2
  <2>4. Known(k)'
    BY <2>1 DEF Known, Reached
  <2>5. ~stop => DoneBefore(k)'
    BY <2>3 DEF DoneBefore
  <2>6. ~stop => k.snap = cfg' /\ file' = cfg' /\ k.mode = cfg'[k.fan].mode
    BY <1>6, <1>13, <2>1
  <2>7. ~stop => Adopts(k)'
    BY <2>1, <2>4, <2>5, <2>6 DEF Adopts, Known, Reached, DoneBefore, Agrees
  <2>8. Adopted'
    <3>1. \A s \in {Monitor, Gui} : job'[s].kind = "adopt" => s = t /\ job'[s] = k
      BY <1>10, ThreadsApart DEF Idle
    <3> QED
      BY <1>5, <2>7, <3>1 DEF Adopted, Adopts, Known, Reached, DoneBefore, Agrees
  <2>9. ~Clean'
    BY <1>10, <2>1 DEF Clean, Adopting
  <2> QED
    BY <1>12, <2>8, <2>9 DEF Truth, Agreement
<1>16. CASE next = "done" /\ j.fan = NFans /\ k = NoJob
  <2>1. ~Adopting'
    BY <1>10, <1>16, NoWork, ThreadsApart DEF Adopting, Idle
  <2>2. ~stop => file' = cfg' /\ \A g \in Fans : Agrees(g)'
    <3>1. \A g \in Fans : g = j.fan \/ g < j.fan
      BY <1>16, FanControlAssumption DEF Fans
    <3> QED
      BY <3>1, <1>6, <1>13, <1>16
  <2>3. \A g \in Fans : Idle(g)'
    BY <1>10, <1>t, ThreadsApart
  <2>4. Agreement'
    BY <1>5, <1>7, <2>2, <2>3 DEF Agreement
  <2> QED
    BY <1>12, <2>1, <2>4 DEF Truth, Adopted, Adopting
<1> QED
  BY <1>n, <1>14, <1>15, <1>16

\* The first two steps of an adoption.
LEMMA LoadingKeepsTruth ==
    ASSUME SyncInv, Reliable, NEW t \in {Monitor, Gui}, Adopt(t)
    PROVE  Truth'
<1>i. TypeOK /\ Discipline /\ Restoring /\ Adopted /\ Agreement
  BY DEF SyncInv, Truth
<1>t. t \in Threads /\ t # Cli /\ t \notin Fans /\ job \in [Threads -> Job]
  BY <1>i, ThreadsApart, FieldsTyped
<1>1. PICK j \in Job : j = job[t]
  BY <1>t
<1>2. PICK k : /\ job' = [job EXCEPT ![t] = k] /\ Leaves(j, k)
               /\ j.at = "load" => k.at = "install" /\ k.snap = file /\ cfg' = cfg
               /\ j.at = "install" => k = FanJob("adopt", 1, j.snap) /\ cfg' = j.snap
  BY <1>i, <1>1, Loading
<1>3. /\ AdoptingJob(j) /\ j.at \in {"load", "install"}
      /\ UNCHANGED <<regMode, mode, file, reload, phase, stop>>
  BY <1>i, <1>1, Loading
<1>4. phase = "running" /\ \A s \in Threads : s # t => Idle(s)
  BY <1>i, <1>1, <1>3, AdoptsAlone DEF AdoptingJob
<1>5. /\ job'[t] = k /\ \A s \in Threads : s # t => job'[s] = job[s] /\ Idle(s)'
  BY <1>t, <1>2, <1>4 DEF Idle
<1>6. k.kind = "adopt"
  <2>1. k # NoJob
    BY <1>2, <1>3, NoWork DEF FanJob
  <2> QED
    BY <1>2, <1>3, <2>1 DEF Leaves, AdoptingJob
<1>7. Restoring' /\ ~Clean'
  BY <1>5, <1>6, <1>t, ThreadsApart DEF Restoring, Clean, Adopting, Idle
<1>8. ~stop => Adopts(k)'
  <2>1. CASE j.at = "load"
    <3>1. k.at = "install" /\ k.snap = file /\ file' = file
      BY <1>2, <1>3, <2>1
    <3> QED
      BY <3>1 DEF Adopts
  <2>2. CASE j.at = "install"
    <3>1. ~stop => j.snap = file
      BY <1>i, <1>1, <1>3, <2>2 DEF Adopted, Adopts, AdoptingJob
    <3>2. k = FanJob("adopt", 1, j.snap) /\ cfg' = j.snap /\ file' = file
      BY <1>2, <1>3, <2>2
    <3>3. k.at = "mem" /\ k.snap = j.snap /\ k.mode = j.snap[1].mode /\ k.fan = 1
      BY <3>2 DEF FanJob
    <3>4. Known(k)' /\ DoneBefore(k)'
      BY <3>3, FanControlAssumption DEF Known, Reached, DoneBefore, Fans
    <3>5. ~stop => k.snap = cfg' /\ file' = cfg' /\ k.mode = cfg'[k.fan].mode
      BY <3>1, <3>2, <3>3
    <3> QED
      BY <3>3, <3>4, <3>5 DEF Adopts, Known, Reached, DoneBefore, Agrees
  <2> QED
    BY <1>3, <2>1, <2>2
<1>9. Adopted'
  <2>1. \A s \in {Monitor, Gui} : job'[s].kind = "adopt" => s = t /\ job'[s] = k
    BY <1>5, ThreadsApart DEF Idle
  <2> QED
    BY <1>3, <1>8, <2>1 DEF Adopted, Adopts, Known, Reached, DoneBefore, Agrees
<1> QED
  BY <1>7, <1>9 DEF Truth, Agreement

\* Nothing is claimed while a command runs, is to be adopted or is adopted.
LEMMA CommandKeepsTruth ==
    ASSUME SyncInv, Reliable, OneByOne, Patient,
           CliStart \/ CliOpen \/ CliSignal \/ Operate(Cli), Discipline'
    PROVE  Truth'
<1>i. TypeOK /\ Discipline /\ Restoring /\ Adopted /\ Agreement
  BY DEF SyncInv, Truth
<1>t. Cli \in Threads /\ Cli # Gui /\ Cli # Monitor /\ Gui \in Threads /\ Monitor \in Threads
      /\ Cli \notin Fans /\ Fans \subseteq Threads
      /\ job \in [Threads -> Job]
  BY <1>i, ThreadsApart, FieldsTyped
<1>1. /\ \A s \in Threads : s # Cli => job'[s] = job[s]
      /\ UNCHANGED <<mode, cfg, phase, stop>>
  <2>1. CASE CliStart
    BY <1>t, <2>1 DEF CliStart, confVars, quitVars
  <2>2. CASE CliOpen
    BY <1>t, <2>2 DEF CliOpen, confVars, quitVars
  <2>3. CASE CliSignal
    BY <1>t, <2>3 DEF CliSignal, confVars, quitVars
  <2>4. CASE Operate(Cli)
    BY <1>i, <1>t, <2>4, CliOperation
  <2> QED
    BY <2>1, <2>2, <2>3, <2>4
<1>2. /\ ~Adopting
      /\ phase \in {"restoring", "running"} => ~Clean'
  <2>1. CASE CliStart
    <3>1. PICK f \in Fans, m \in CliModes, l \in Levels :
            job' = [job EXCEPT ![Cli] = OneFanJob("cli", "open", f, m, l)]
      BY <2>1 DEF CliStart
    <3>2. OneFanJob("cli", "open", f, m, l).kind = "cli"
      BY DEF OneFanJob, NoJob
    <3> QED
      BY <1>t, <2>1, <3>1, <3>2 DEF Clean, Idle, Patient
  <2>2. CASE CliOpen
    <3>1. job[Cli].at = "open" /\ job' = [job EXCEPT ![Cli].at = "mode", ![Cli].snap = file]
      BY <2>2 DEF CliOpen
    <3>2. ~Idle(Cli)
      BY <1>i, <1>t, <3>1, NoWork DEF Discipline, Employed
    <3>3. job'[Cli].kind = job[Cli].kind
      BY <1>t, <3>1 DEF Job
    <3> QED
      BY <1>i, <3>2, <3>3 DEF Discipline, TakeTurns, Clean, Idle
  <2>3. CASE CliSignal
    <3>1. job[Cli].at = "signal" /\ reload' = (phase \in {"restoring", "running"})
      BY <2>3 DEF CliSignal
    <3>2. ~Idle(Cli)
      BY <1>i, <1>t, <3>1, NoWork DEF Discipline, Employed
    <3> QED
      BY <1>i, <3>1, <3>2 DEF Discipline, TakeTurns, Clean
  <2>4. CASE Operate(Cli)
    <3>1. PICK k : job' = [job EXCEPT ![Cli] = k] /\ k.kind = "cli"
      BY <1>i, <2>4, CliOperation, Zenon
    <3>2. CliJob(job[Cli])
      BY <1>i, <2>4, CliOperation, Zenon
    <3>3. ~Idle(Cli)
      BY <3>2 DEF CliJob, Idle
    <3> QED
      BY <1>i, <1>t, <3>1, <3>3 DEF Discipline, TakeTurns, Clean, Idle
  <2> QED
    BY <2>1, <2>2, <2>3, <2>4
<1>3. ~Adopting' /\ job'[Gui] = job[Gui]
  BY <1>1, <1>2, <1>t DEF Adopting
<1>4. Adopted'
  BY <1>3 DEF Adopted, Adopting
<1>5. Agreement'
  BY <1>1, <1>2 DEF Agreement
<1>6. Restoring'
  <2>1. job[Gui].kind = "restore" => phase = "restoring"
    BY <1>i, <1>t DEF Discipline, Timely, Idle, TypeOK
  <2> QED
    BY <1>i, <1>1, <1>2, <1>3, <2>1 DEF Restoring
<1> QED
  BY <1>4, <1>5, <1>6 DEF Truth

\* Every step keeps what holds of the fans.
LEMMA TruthStep ==
    ASSUME SyncInv, Reliable, OneByOne, Next, Patient, Discipline'
    PROVE  Truth'
<1>i. TypeOK /\ Discipline /\ Restoring /\ Adopted /\ Agreement
  BY DEF SyncInv, Truth
<1>j. job \in [Threads -> Job] /\ Fans \subseteq Threads /\ {Monitor, Gui, Cli} \subseteq Threads
      /\ Monitor \notin Fans /\ Gui \notin Fans /\ Cli \notin Fans
      /\ Monitor # Gui /\ Monitor # Cli /\ Gui # Cli
  BY <1>i, ThreadsApart, FieldsTyped
<1>n. NoJob.kind = "none" /\ AdoptJob.kind = "adopt" /\ AdoptJob.at = "load"
  BY NoWork DEF AdoptJob, NoJob
<1>u. ASSUME UNCHANGED <<job, cfg, file, mode, regMode, reload, phase, stop>>
      PROVE  Truth'
  BY <1>i, <1>u, Undisturbed DEF Truth
<1>1. ASSUME NEW t \in Threads, t # Cli, Operate(t)
      PROVE  Truth'
  <2>1. job[t].kind \in {"edit", "restore", "adopt"}
        /\ (t \in Fans <=> job[t].kind = "edit")
        /\ (EditJob(job[t]) \/ RestoreJob(job[t]) \/ AdoptingJob(job[t]))
    BY <1>i, <1>1, Operating
  <2>2. CASE t \in Fans
    BY <1>1, <2>2, EditKeepsTruth
  <2>3. CASE t \notin Fans /\ job[t].kind = "adopt"
    <3>1. t \in {Monitor, Gui}
      BY <1>1, <2>3, ThreadsApart
    <3> QED
      BY <1>1, <2>3, <3>1, AdoptionKeepsTruth
  <2>4. CASE t \notin Fans /\ job[t].kind = "restore"
    <3>1. t = Gui
      BY <1>i, <1>1, <2>4, ThreadsApart DEF Discipline, Employed, AdoptingJob, Idle
    <3> QED
      BY <1>1, <2>4, <3>1, RestoreKeepsTruth
  <2> QED
    BY <2>1, <2>2, <2>3, <2>4
<1>2. CASE Command
  BY <1>2, CommandKeepsTruth DEF Command
<1>3. ASSUME NEW t \in {Monitor, Gui}, Adopt(t) PROVE Truth'
  BY <1>3, LoadingKeepsTruth
<1>4. ASSUME NEW t \in {Monitor, Gui}, job' = [job EXCEPT ![t] = AdoptJob], Idle(t),
             phase = "running", UNCHANGED <<stop, phase>>
      PROVE  Truth'
  <2>1. job'[t] = AdoptJob /\ \A s \in Threads : s # t => job'[s] = job[s]
    BY <1>j, <1>4
  <2>2. Adopting' /\ ~Clean'
    BY <2>1, <1>n DEF Adopting, Clean
  <2>3. job'[Gui].kind # "restore"
    BY <1>i, <1>j, <1>4, <2>1, <1>n DEF Discipline, Timely
  <2>4. Adopts(job[t])'
    BY <2>1, <1>n DEF Adopts
  <2>5. \A s \in {Monitor, Gui} : s # t => job'[s].kind # "adopt"
    <3>1. \A s \in {Monitor, Gui} : s # t => job'[s] = job[s]
      BY <1>j, <2>1
    <3>2. Discipline'
      OBVIOUS
    <3>3. (Idle(Monitor) \/ Idle(Gui))'
      BY <3>2 DEF Discipline, TakeTurns
    <3> QED
      BY <2>1, <3>3, <1>n DEF Idle
  <2>6. Adopted'
    BY <2>4, <2>5 DEF Adopted
  <2> QED
    BY <2>2, <2>3, <2>6 DEF Truth, Restoring, Agreement
<1>5. CASE MonLoop
  <2>1. CASE MonPoll /\ ~stop /\ reload
    <3>1. /\ job' = [job EXCEPT ![Monitor] = AdoptJob] /\ UNCHANGED <<phase, stop>>
          /\ mon.pc = "slept"
      BY <2>1 DEF MonPoll, quitVars
    <3>2. phase = "running" /\ ~Adopting
      BY <1>i, <3>1, <2>1 DEF Discipline, Timely, TakeTurns
    <3>3. Idle(Monitor)
      BY <1>i, <3>2 DEF Discipline, Employed, Adopting, AdoptingJob
    <3> QED
      BY <3>1, <3>2, <3>3, <1>4
  <2>2. CASE ~(MonPoll /\ ~stop /\ reload)
    <3>1. UNCHANGED <<job, cfg, file, mode, regMode, reload, phase, stop>>
      BY <1>5, <2>2 DEF MonLoop, MonTop, MonPoll, MonCheck, MonSample, MonScan, MonWrite,
                        quitVars, ecVars, confVars
    <3> QED
      BY <3>1, <1>u
  <2> QED
    BY <2>1, <2>2
<1>6. CASE Restore
  <2>1. /\ phase = "starting" /\ phase' = "restoring"
        /\ job' = [job EXCEPT ![Gui] = FanJob("restore", 1, cfg)]
        /\ UNCHANGED <<cfg>>
    BY <1>6 DEF Restore, confVars
  <2> DEFINE k == FanJob("restore", 1, cfg)
  <2>2. job'[Gui] = k /\ job'[Monitor] = job[Monitor]
    BY <1>j, <2>1
  <2>3. /\ k.kind = "restore" /\ k.at = "mem" /\ k.fan = 1 /\ k.snap = cfg
        /\ k.mode = cfg[1].mode /\ k.level = cfg[1].level
    BY DEF FanJob
  <2> HIDE DEF k
  <2>5. Restoring'
    BY <2>1, <2>2, <2>3, FanControlAssumption
       DEF Restoring, Known, Reached, DoneBefore, Agrees, Fans
  <2>6. ~Adopting'
    BY <1>i, <2>1, <2>2, <2>3 DEF Adopting, Discipline, Timely, Idle
  <2>4. ~Idle(Gui)'
    BY <2>2, <2>3 DEF Idle
  <2> QED
    BY <2>1, <2>4, <2>5, <2>6 DEF Truth, Adopted, Adopting, Agreement
<1>7. CASE SpawnMonitor
  <2>1. phase = "restoring" /\ phase' = "running" /\ Idle(Gui)
        /\ UNCHANGED <<job, cfg, file, mode, regMode, reload, stop>>
    BY <1>7 DEF SpawnMonitor, ecVars, confVars
  <2>2. job' = job /\ cfg' = cfg /\ file' = file /\ mode' = mode /\ regMode' = regMode
        /\ reload' = reload /\ stop' = stop
    BY <2>1
  <2>3. Agreement'
    BY <1>i, <2>1, <2>2 DEF Agreement, Clean, Adopting, Idle, Agrees, Known, Reached
  <2>4. Adopted' /\ Restoring'
    BY <1>i, <2>2 DEF Adopted, Restoring, Adopts, Known, Reached, DoneBefore, Agrees, Clean,
       Adopting, Idle
  <2> QED
    BY <2>3, <2>4 DEF Truth
<1>8. CASE GuiPoll
  BY <1>8, <1>4 DEF GuiPoll, GuiAlive, quitVars
<1>9. ASSUME NEW f \in Fans, Edit(f) PROVE Truth'
  <2>1. PICK m \in Modes, l \in Levels :
          job' = [job EXCEPT ![f] = OneFanJob("edit", "mem", f, m, l)]
    BY <1>9 DEF Edit
  <2> DEFINE e == OneFanJob("edit", "mem", f, m, l)
  <2>2. e.kind = "edit" /\ e.at = "mem" /\ e.fan = f
    BY DEF OneFanJob, NoJob
  <2>3. job'[f] = e /\ \A t \in Threads : t # f => job'[t] = job[t]
    BY <1>j, <2>1
  <2> HIDE DEF e
  <2>4. /\ Idle(Gui) /\ Idle(f) /\ phase = "running" /\ ~reload
        /\ \A t \in Threads \ Fans : Idle(t)
        /\ cfg' = cfg /\ file' = file /\ mode' = mode /\ regMode' = regMode /\ reload' = reload
        /\ phase' = phase /\ stop' = stop
    BY <1>9 DEF Edit, GuiAlive, OneByOne, ecVars, confVars, quitVars
  <2>5. Clean /\ ~Adopting
    BY <1>j, <2>4 DEF Clean, Adopting, Idle
  <2>6. ~Adopting' /\ job'[Gui] = job[Gui]
    BY <1>j, <2>3, <2>5 DEF Adopting
  <2>7. Known(e)'
    BY <2>2 DEF Known, Reached
  <2>8. Agreement'
    <3>1. ASSUME ~stop
          PROVE  \A g \in Fans : IF Idle(g)' THEN Agrees(g)' ELSE Known(job[g])'
      <4>1. \A g \in Fans : IF Idle(g) THEN Agrees(g) ELSE Known(job[g])
        BY <1>i, <2>4, <2>5, <3>1 DEF Agreement
      <4>2. ASSUME NEW g \in Fans, g # f
            PROVE  IF Idle(g)' THEN Agrees(g)' ELSE Known(job[g])'
        BY <4>1, <4>2, <1>j, <2>3, <2>4 DEF Idle, Agrees, Known, Reached
      <4>3. ~Idle(f)' /\ Known(job[f])'
        BY <2>2, <2>3 DEF Idle, Known, Reached
      <4> QED
        BY <4>2, <4>3
    <3> QED
      BY <1>i, <2>4, <2>5, <3>1 DEF Agreement
  <2>9. Adopted' /\ Restoring'
    BY <2>4, <2>6 DEF Adopted, Restoring, Adopting, Idle
  <2> QED
    BY <2>8, <2>9 DEF Truth
<1>10. ASSUME NEW q \in Quitters, Quit(q) \/ Shutdown(q) PROVE Truth'
  <2>1. CASE Exit(q)
    <3>1. phase' = "exited" /\ job' = [t \in Threads |-> IF t = Cli THEN job[t] ELSE NoJob]
      BY <2>1 DEF Exit
    <3>2. job'[Gui] = NoJob /\ job'[Monitor] = NoJob
      BY <1>j, <3>1
    <3> QED
      BY <3>1, <3>2, <1>n DEF Truth, Restoring, Adopted, Agreement
  <2>2. ASSUME stop', phase' = "running"
        PROVE  Truth'
    <3>1. job'[Gui].kind # "restore"
      BY <2>2 DEF Discipline, Timely
    <3> QED
      BY <2>2, <3>1 DEF Truth, Restoring, Adopted, Agreement
  <2>3. CASE Quit(q)
    BY <2>3, <2>2 DEF Quit
  <2>4. CASE Shutdown(q) /\ ~Exit(q)
    <3>1. /\ quit[q] # "idle" /\ phase' = phase /\ stop' = stop
      BY <2>4 DEF Shutdown, TakeHandle, Join, Swap, Collect, WriteAuto
    <3>2. stop /\ phase = "running"
      BY <1>i, <3>1 DEF Discipline, Timely
    <3> QED
      BY <3>1, <3>2, <2>2
  <2> QED
    BY <1>10, <2>1, <2>3, <2>4
<1>11. CASE Launch
  <2>1. phase = "exited" /\ phase' = "starting" /\ job' = job
    BY <1>11 DEF Launch
  <2>2. job[Gui].kind = "none" /\ job[Monitor].kind = "none"
    BY <1>i, <2>1 DEF Discipline, Timely, Idle
  <2> QED
    BY <2>1, <2>2 DEF Truth, Restoring, Adopted, Agreement
<1> QED
  BY <1>1, <1>2, <1>3, <1>5, <1>6, <1>7, <1>8, <1>9, <1>10, <1>11, <1>j
     DEF Next, MonitorThread, GuiThread

LEMMA SyncInit == Init => SyncInv
<1> SUFFICES ASSUME Init PROVE SyncInv
  OBVIOUS
<1>1. \A t \in Threads : job[t] = NoJob /\ Idle(t)
  BY NoWork DEF Init, Idle
<1>2. /\ ~reload /\ ~stop /\ phase = "starting" /\ mon.pc = "off"
      /\ \A q \in Quitters : quit[q] = "idle"
  BY DEF Init, MonOff
<1>3. TypeOK
  BY InitType
<1>4. Discipline
  BY <1>1, <1>2, ThreadsApart DEF Discipline, Employed, Timely, TakeTurns, Adopting, Idle
<1>5. Truth
  BY <1>1, <1>2, ThreadsApart DEF Truth, Restoring, Adopted, Agreement, Idle
<1> QED
  BY <1>3, <1>4, <1>5 DEF SyncInv

LEMMA SyncStep ==
    ASSUME Reliable, OneByOne, SyncInv, [Next]_vars, [Patient]_vars
    PROVE  SyncInv'
<1>1. TypeOK'
  BY NextType DEF SyncInv
<1>2. CASE UNCHANGED vars
  <2>1. /\ reload' = reload /\ phase' = phase /\ stop' = stop /\ quit' = quit /\ mon' = mon
        /\ job' = job /\ cfg' = cfg /\ file' = file /\ mode' = mode /\ regMode' = regMode
    BY <1>2 DEF vars, ecVars, confVars, quitVars
  <2>2. Discipline' /\ Truth'
    BY <2>1, NobodyWorks, Undisturbed DEF SyncInv
  <2> QED
    BY <1>1, <2>2 DEF SyncInv
<1>3. CASE Next /\ Patient
  <2>1. Discipline'
    BY <1>3, DisciplineStep DEF SyncInv
  <2>2. Truth'
    BY <1>3, <2>1, TruthStep
  <2> QED
    BY <1>1, <2>1, <2>2 DEF SyncInv
<1> QED
  BY <1>2, <1>3

\* When everybody is at rest the three copies of the fans' modes agree.
LEMMA RestAgrees == SyncInv => InSync
<1> SUFFICES ASSUME SyncInv, Quiet, NEW f \in Fans
             PROVE  file[f] = cfg[f] /\ mode[f] = cfg[f].mode /\ regMode[f] = RegOf(mode[f])
  BY DEF InSync
<1>1. phase = "running" /\ ~stop /\ ~reload /\ \A t \in Threads : Idle(t)
  BY DEF Quiet, Working
<1>2. Clean /\ Idle(f)
  BY <1>1, ThreadsApart DEF Clean, Adopting, Idle
<1> QED
  BY <1>1, <1>2 DEF SyncInv, Truth, Agreement, Agrees

\* However many fans, edits, commands, launches and quits there are, and
\* whatever they overlap with short of what the assumptions exclude: whenever
\* the program is at rest, the saved file, the configuration in memory, the
\* mode the monitor goes by and the mode register agree on every fan.  It is
\* assumed that the EC and the disk obey, that a fan is not edited while a
\* command or its reload is underway, and that a command is not started before
\* the last one has been adopted (session.rs: apply_fan_edit,
\* restore_saved_state, apply_stored_fans; poll_reload_fans).
THEOREM CopiesAgreeAtRest ==
    Reliable /\ OneByOne => (Spec /\ [][Patient]_vars => []InSync)
<1>1. Init => SyncInv
  BY SyncInit
<1>2. Reliable /\ OneByOne /\ SyncInv /\ [Next]_vars /\ [Patient]_vars => SyncInv'
  BY SyncStep
<1>3. SyncInv => InSync
  BY RestAgrees
<1>4. CASE Reliable /\ OneByOne
  <2>1. SyncInv /\ [Next]_vars /\ [Patient]_vars => SyncInv'
    BY <1>2, <1>4
  <2> QED
    BY <1>1, <1>3, <2>1, PTL DEF Spec
<1> QED
  BY <1>4
-----------------------------------------------------------------------------
(***************************************************************************)
(* Quitting.  It is asked for when everybody is at rest and nothing is     *)
(* started any more, so what holds at that moment lasts: Leaving says what *)
(* the threads that quit, however many, leave alone, GivingBack what the   *)
(* only one of them has done so far.                                       *)
(***************************************************************************)
LEMMA IdleThreadsRest ==
    ASSUME TypeOK, Discipline, NEW t \in Threads, Idle(t)
    PROVE  ~Operate(t) /\ ~Adopt(t) /\ (t = Cli => ~CliOpen /\ ~CliSignal)
<1>1. job[t].at = "done"
  BY NoWork DEF Discipline, Employed
<1> QED
  BY <1>1 DEF Operate, SetMem, WriteMode, WriteInit, WriteLevel, Save, RefuseRamp,
              Adopt, Load, Install, CliOpen, CliSignal

\* Once a thread quits, only the monitor and the threads that quit go on.
LEMMA OnlyQuittersMove ==
    ASSUME SyncInv, AllIdle, ~OverlapQuit, Next,
           stop \/ (phase = "exited" /\ CliModes \subseteq {"curve"})
    PROVE  \/ MonLoop /\ stop
           \/ \E q \in Quitters : stop /\ (Quit(q) \/ Shutdown(q))
           \/ Launch /\ ~stop
<1>i. TypeOK /\ Discipline
  BY DEF SyncInv
<1>j. Fans \subseteq Threads /\ {Monitor, Gui, Cli} \subseteq Threads
  BY ThreadsApart
<1>1. /\ \A t \in Threads : ~Operate(t) /\ ~Adopt(t)
      /\ ~CliOpen /\ ~CliSignal
  BY <1>i, <1>j, IdleThreadsRest DEF AllIdle
<1>2. ~reload /\ (stop => phase = "running")
  BY <1>i DEF AllIdle, Discipline, Timely
<1>3. ~Restore /\ ~SpawnMonitor
  BY <1>2 DEF Restore, SpawnMonitor
<1>4. ~GuiPoll /\ \A f \in Fans : ~Edit(f)
  BY <1>2 DEF GuiPoll, Edit, GuiAlive
<1>5. ~CliStart
  BY DEF CliStart
<1>6. stop => ~Launch
  BY <1>2 DEF Launch
<1>7. phase = "exited" => ~MonLoop
  BY <1>i DEF Discipline, Timely, MonLoop, MonTop, MonPoll, MonCheck, MonSample, MonScan, MonWrite
<1>8. phase = "exited" => \A q \in Quitters : ~Quit(q) /\ ~Shutdown(q)
  BY <1>i DEF Discipline, Timely, Quit, Shutdown, TakeHandle, Join, Swap, Collect, WriteAuto, Exit
<1> QED
  BY <1>1, <1>3, <1>4, <1>5, <1>6, <1>7, <1>8, <1>j
     DEF Next, MonitorThread, GuiThread, Command

\* The moment a quit is asked for.
LEMMA RestWhenAsked ==
    ASSUME SyncInv, ~OverlapQuit, NEW q \in Quitters, Quit(q), ~stop
    PROVE  AllIdle /\ file = cfg /\ \A f \in Fans : Agrees(f)
<1>1. phase = "running" /\ ~reload /\ \A t \in Threads : Idle(t)
  BY DEF Quit, Working
<1>2. Clean /\ \A f \in Fans : Idle(f)
  BY <1>1, ThreadsApart DEF Clean, Adopting, Idle
<1>3. Agreement
  BY DEF SyncInv, Truth
<1> QED
  BY <1>1, <1>2, <1>3 DEF AllIdle, Agreement

LEMMA LeavingStep ==
    ASSUME SyncInv, SyncInv', Leaving, OneByOne, ~OverlapQuit, Next
    PROVE  Leaving'
<1>i. TypeOK /\ Discipline /\ Discipline'
  BY DEF SyncInv
<1>q. quit \in [Quitters -> {"idle", "lock", "join", "swap", "collect", "write", "exit"}]
      /\ toReset \subseteq Fans /\ mode \in [Fans -> Modes]
      /\ regMode \in [Fans -> {"auto", "manual"}]
  BY <1>i DEF TypeOK
<1>1. CASE stop
  <2>1. /\ AllIdle /\ file = cfg /\ phase = "running"
        /\ \A f \in Fans : cfg[f].mode # "curve" => Agrees(f)
        /\ \A f \in toReset : cfg[f].mode = "curve"
    BY <1>1, <1>i DEF Leaving, Discipline, Timely
  <2>s. MonLoop \/ \E q \in Quitters : Quit(q) \/ Shutdown(q)
    BY <1>1, <2>1, OnlyQuittersMove
  <2>r. ASSUME stop', job' = job, reload' = reload, cfg' = cfg, file' = file,
               phase' = phase,
               \A f \in Fans : cfg[f].mode # "curve" =>
                  mode'[f] = mode[f] /\ regMode'[f] = regMode[f],
               \A f \in toReset' : cfg[f].mode = "curve"
        PROVE  Leaving'
    BY <2>1, <2>r DEF Leaving, AllIdle, Idle, Agrees
  <2>2. CASE MonLoop
    <3>1. /\ job' = job /\ reload' = reload /\ cfg' = cfg /\ file' = file /\ phase' = phase
          /\ mode' = mode /\ regMode' = regMode /\ toReset' = toReset /\ stop' = stop
      BY <1>1, <2>2 DEF MonLoop, MonTop, MonPoll, MonCheck, MonSample, MonScan, MonWrite,
                        quitVars, ecVars, confVars
    <3> QED
      BY <1>1, <2>1, <2>r, <3>1
  <2>3. ASSUME NEW q \in Quitters,
               Quit(q) \/ TakeHandle(q) \/ Join(q) \/ Swap(q)
        PROVE  Leaving'
    <3>1. /\ job' = job /\ reload' = reload /\ cfg' = cfg /\ file' = file /\ phase' = phase
          /\ mode' = mode /\ regMode' = regMode /\ toReset' = toReset /\ stop'
      BY <1>1, <2>3 DEF Quit, TakeHandle, Join, Swap, ecVars, confVars
    <3> QED
      BY <2>1, <2>r, <3>1
  <2>4. ASSUME NEW q \in Quitters, Collect(q) PROVE Leaving'
    <3>1. /\ job' = job /\ reload' = reload /\ cfg' = cfg /\ file' = file /\ phase' = phase
          /\ regMode' = regMode /\ stop'
          /\ toReset' = CurveFans
          /\ mode' = [f \in Fans |-> IF f \in CurveFans THEN "auto" ELSE mode[f]]
      BY <1>1, <2>4 DEF Collect, ecVars, confVars
    <3>2. \A f \in Fans : cfg[f].mode # "curve" => f \notin CurveFans
      BY <2>1 DEF Agrees, CurveFans
    <3>3. \A f \in Fans : cfg[f].mode # "curve" => mode'[f] = mode[f]
      BY <3>1, <3>2
    <3>4. \A f \in toReset' : cfg[f].mode = "curve"
      BY <3>1, <3>2 DEF CurveFans
    <3> QED
      BY <2>r, <3>1, <3>3, <3>4
  <2>5. ASSUME NEW q \in Quitters, WriteAuto(q) PROVE Leaving'
    <3>1. /\ job' = job /\ reload' = reload /\ cfg' = cfg /\ file' = file /\ phase' = phase
          /\ mode' = mode /\ stop'
          /\ toReset' \subseteq toReset
          /\ \/ regMode' = regMode
             \/ toReset # {} /\ regMode' = [regMode EXCEPT ![Min(toReset)] = "auto"]
      BY <1>1, <2>5 DEF WriteAuto, confVars
    <3>2. toReset # {} => Min(toReset) \in toReset
      BY <1>q, MinInSet
    <3>3. \A f \in Fans : cfg[f].mode # "curve" => regMode'[f] = regMode[f]
      BY <2>1, <1>q, <3>1, <3>2
    <3> QED
      BY <2>1, <2>r, <3>1, <3>3
  <2>6. ASSUME NEW q \in Quitters, Exit(q) PROVE Leaving'
    <3>1. /\ phase' = "exited" /\ stop' = FALSE /\ released' = FALSE /\ toReset' = {}
          /\ quit' = [p \in Quitters |-> "idle"]
          /\ file' = file /\ regMode' = regMode
          /\ job' = [t \in Threads |-> IF t = Cli THEN job[t] ELSE NoJob]
      BY <2>6 DEF Exit, ecVars, confVars
    <3>2. Idle(Cli)'
      BY <2>1, <3>1, ThreadsApart DEF AllIdle, Idle
    <3>3. \A f \in Fans : file[f].mode = "fixed" => regMode[f] = "manual"
      BY <2>1 DEF Agrees, RegOf
    <3>4. FixedLeftAlone'
      BY <3>1, <3>3 DEF FixedLeftAlone
    <3> QED
      BY <3>1, <3>2, <3>4 DEF Leaving
  <2> QED
    BY <2>s, <2>2, <2>3, <2>4, <2>5, <2>6 DEF Shutdown
<1>2. CASE ~stop /\ phase = "exited"
  <2>1. AllIdle
    BY <1>2, <1>i, ThreadsApart DEF Leaving, AllIdle, Discipline, Timely
  <2>2. Launch
    BY <1>2, <2>1, OnlyQuittersMove DEF OneByOne
  <2>3. phase' = "starting" /\ stop' = stop /\ toReset' = toReset /\ released' = released
        /\ quit' = quit
    BY <2>2 DEF Launch, quitVars
  <2> QED
    BY <1>2, <2>3 DEF Leaving
<1>3. CASE ~stop /\ phase # "exited"
  <2>1. toReset = {} /\ ~released /\ \A q \in Quitters : quit[q] = "idle"
    BY <1>3 DEF Leaving
  <2>2. ASSUME NEW q \in Quitters, Quit(q) PROVE Leaving'
    <3>1. AllIdle /\ file = cfg /\ \A f \in Fans : Agrees(f)
      BY <1>3, <2>2, RestWhenAsked
    <3>2. /\ stop' = TRUE /\ phase' = phase
          /\ job' = job /\ reload' = reload /\ cfg' = cfg /\ file' = file
          /\ mode' = mode /\ regMode' = regMode /\ toReset' = toReset
      BY <2>2 DEF Quit, ecVars, confVars
    <3> QED
      BY <1>3, <2>1, <3>1, <3>2 DEF Leaving, AllIdle, Idle, Agrees
  <2>3. ASSUME stop' = stop, toReset' = toReset, released' = released, quit' = quit,
               phase' # "exited"
        PROVE  Leaving'
    BY <1>3, <2>1, <2>3 DEF Leaving
  <2>4. \A q \in Quitters : ~Shutdown(q)
    BY <2>1 DEF Shutdown, TakeHandle, Join, Swap, Collect, WriteAuto, Exit
  <2>5. ASSUME NEW t \in Threads, Operate(t) \/ Adopt(t) PROVE Leaving'
    BY <1>3, <2>5, <2>3 DEF Operate, SetMem, WriteMode, WriteInit, WriteLevel, Save, RefuseRamp,
                     Adopt, Load, Install, quitVars
  <2>6. ASSUME MonLoop PROVE Leaving'
    BY <1>3, <2>6, <2>3 DEF MonLoop, MonTop, MonPoll, MonCheck, MonSample, MonScan, MonWrite,
                     quitVars
  <2>7. ASSUME Restore \/ SpawnMonitor \/ GuiPoll \/ Launch PROVE Leaving'
    BY <1>3, <2>7, <2>3 DEF Restore, SpawnMonitor, GuiPoll, Launch, quitVars
  <2>8. ASSUME NEW f \in Fans, Edit(f) PROVE Leaving'
    BY <1>3, <2>8, <2>3 DEF Edit, quitVars
  <2>9. ASSUME CliStart \/ CliOpen \/ CliSignal PROVE Leaving'
    BY <1>3, <2>9, <2>3 DEF CliStart, CliOpen, CliSignal, quitVars
  <2> QED
    BY <2>2, <2>4, <2>5, <2>6, <2>7, <2>8, <2>9, ThreadsApart
       DEF Next, MonitorThread, GuiThread, Command
<1> QED
  BY <1>1, <1>2, <1>3

\* A fan set to a fixed level is left alone by however many threads that quit
\* at once, whichever of them ends the process, and also when giving back the
\* curve fans fails half-way (session.rs: shutdown, release_curve_fans_to_auto).
\* The assumptions are those of CopiesAgreeAtRest, and that nobody quits while
\* an edit, a command or a reload is underway.
THEOREM FixedFansKept ==
    Reliable /\ OneByOne /\ ~OverlapQuit =>
        (Spec /\ [][Patient]_vars => []FixedLeftAlone)
<1>1. Init => SyncInv /\ Leaving
  <2>1. Init => SyncInv
    BY SyncInit
  <2>2. Init => Leaving
    BY DEF Init, Leaving
  <2> QED
    BY <2>1, <2>2
<1>2. ASSUME Reliable, OneByOne, ~OverlapQuit, SyncInv, Leaving, [Next]_vars, [Patient]_vars
      PROVE  SyncInv' /\ Leaving'
  <2>1. SyncInv'
    BY <1>2, SyncStep
  <2>2. CASE Next
    BY <1>2, <2>1, <2>2, LeavingStep
  <2>3. CASE UNCHANGED vars
    <3>1. /\ quit' = quit /\ stop' = stop /\ released' = released /\ toReset' = toReset
          /\ phase' = phase /\ file' = file /\ cfg' = cfg /\ mode' = mode /\ regMode' = regMode
          /\ job' = job /\ reload' = reload
      BY <2>3 DEF vars, ecVars, confVars, quitVars
    <3>2. Leaving'
      BY <1>2, <3>1 DEF Leaving, AllIdle, Idle, Agrees, FixedLeftAlone
    <3> QED
      BY <2>1, <3>2
  <2> QED
    BY <1>2, <2>1, <2>2, <2>3
<1>3. Leaving => FixedLeftAlone
  BY DEF Leaving, FixedLeftAlone
<1>4. CASE Reliable /\ OneByOne /\ ~OverlapQuit
  <2>1. SyncInv /\ Leaving /\ [Next]_vars /\ [Patient]_vars => SyncInv' /\ Leaving'
    BY <1>2, <1>4
  <2> QED
    BY <1>1, <1>3, <2>1, PTL DEF Spec
<1> QED
  BY <1>4

\* The window is the only one that quits, and giving the fans back succeeds.
QuitsOnce == (\A p, q \in Quitters : p = q) /\ "release" \notin Faulty

LEMMA GivingBackStep ==
    ASSUME SyncInv, SyncInv', Leaving, GivingBack, OneByOne, ~OverlapQuit, QuitsOnce, Next
    PROVE  GivingBack'
<1>i. TypeOK /\ Discipline
  BY DEF SyncInv
<1>q. quit \in [Quitters -> {"idle", "lock", "join", "swap", "collect", "write", "exit"}]
      /\ toReset \subseteq Fans /\ mode \in [Fans -> Modes]
      /\ regMode \in [Fans -> {"auto", "manual"}] /\ cfg \in Config
  BY <1>i DEF TypeOK
<1>o. \A p, q \in Quitters : p = q
  BY DEF QuitsOnce
<1>1. CASE stop
  <2>1. /\ AllIdle /\ file = cfg /\ phase = "running"
    BY <1>1, <1>i DEF Leaving, Discipline, Timely
  <2>s. MonLoop \/ \E q \in Quitters : Quit(q) \/ Shutdown(q)
    BY <1>1, <2>1, OnlyQuittersMove
  <2>2. CASE MonLoop
    <3>1. /\ cfg' = cfg /\ file' = file /\ phase' = phase /\ released' = released
          /\ mode' = mode /\ regMode' = regMode /\ toReset' = toReset /\ stop' = stop
          /\ quit' = quit
      BY <1>1, <2>2 DEF MonLoop, MonTop, MonPoll, MonCheck, MonSample, MonScan, MonWrite,
                        quitVars, ecVars, confVars
    <3> QED
      BY <2>1, <3>1 DEF GivingBack, Agrees
  <2>3. ASSUME NEW q \in Quitters, Quit(q) \/ Shutdown(q)
        PROVE  GivingBack'
    <3>1. quit[q] # "idle"
      BY <1>1, <1>o DEF GivingBack
    <3>2. ~Quit(q)
      BY <3>1 DEF Quit
    <3>u. ASSUME NEW n, quit' = [quit EXCEPT ![q] = n], n # "idle", phase' = phase,
                 cfg' = cfg, stop' = stop,
                 n \in {"lock", "join", "swap"} => ~released',
                 n \in {"lock", "join", "swap", "collect"} => \A f \in Fans : Agrees(f)',
                 n \in {"write", "exit"} => \A f \in Fans :
                    cfg[f].mode = "curve" => f \in toReset' \/ regMode'[f] = "auto",
                 n = "exit" => toReset' = {}
          PROVE  GivingBack'
      <4>1. quit'[q] = n /\ \A p \in Quitters : quit'[p] = n
        BY <1>o, <1>q, <3>u
      <4> QED
        BY <2>1, <3>u, <4>1 DEF GivingBack
    <3>3. CASE TakeHandle(q) \/ Join(q)
      <4>1. /\ quit[q] \in {"lock", "join"}
            /\ \E n \in {"join", "swap"} : quit' = [quit EXCEPT ![q] = n]
            /\ phase' = phase /\ cfg' = cfg /\ stop' = stop /\ released' = released
            /\ mode' = mode /\ regMode' = regMode
        BY <3>3 DEF TakeHandle, Join, ecVars, confVars
      <4>2. ~released /\ \A f \in Fans : Agrees(f)
        BY <4>1 DEF GivingBack
      <4>3. ~released' /\ \A f \in Fans : Agrees(f)'
        BY <4>1, <4>2 DEF Agrees
      <4>4. PICK n \in {"join", "swap"} : quit' = [quit EXCEPT ![q] = n]
        BY <4>1
      <4>5. n # "idle" /\ n # "collect" /\ n \notin {"write", "exit"} /\ n # "exit"
        BY <4>4
      <4> QED
        BY <3>u, <4>1, <4>3, <4>4, <4>5
    <3>4. CASE Swap(q)
      <4>1. quit[q] = "swap" /\ ~released /\ \A f \in Fans : Agrees(f)
        BY <3>4 DEF Swap, GivingBack
      <4>2. /\ quit' = [quit EXCEPT ![q] = "collect"]
            /\ phase' = phase /\ cfg' = cfg /\ stop' = stop
            /\ mode' = mode /\ regMode' = regMode
        BY <3>4, <4>1 DEF Swap, ecVars, confVars
      <4>3. \A f \in Fans : Agrees(f)'
        BY <4>1, <4>2 DEF Agrees
      <4> QED
        BY <3>u, <4>2, <4>3
    <3>5. CASE Collect(q)
      <4>1. quit[q] = "collect" /\ \A f \in Fans : Agrees(f)
        BY <3>5 DEF Collect, GivingBack
      <4>2. /\ quit' = [quit EXCEPT ![q] = "write"]
            /\ phase' = phase /\ cfg' = cfg /\ stop' = stop
            /\ toReset' = CurveFans
        BY <3>5 DEF Collect, confVars
      <4>3. \A f \in Fans : cfg[f].mode = "curve" => f \in toReset'
        BY <4>1, <4>2 DEF Agrees, CurveFans
      <4> QED
        BY <3>u, <4>2, <4>3
    <3>6. CASE WriteAuto(q)
      <4>1. /\ quit[q] = "write"
            /\ \A f \in Fans : cfg[f].mode = "curve" => f \in toReset \/ regMode[f] = "auto"
        BY <3>6 DEF WriteAuto, GivingBack
      <4>2. phase' = phase /\ cfg' = cfg /\ stop' = stop
        BY <3>6 DEF WriteAuto, confVars
      <4>3. CASE toReset = {}
        <5>1. quit' = [quit EXCEPT ![q] = "exit"] /\ regMode' = regMode /\ toReset' = {}
          BY <3>6, <4>3 DEF WriteAuto
        <5> QED
          BY <3>u, <4>1, <4>2, <4>3, <5>1
      <4>4. CASE toReset # {}
        <5>1. ~Fault("release")
          BY DEF QuitsOnce, Fault
        <5>2. /\ regMode' = [regMode EXCEPT ![Min(toReset)] = "auto"]
              /\ toReset' = toReset \ {Min(toReset)} /\ quit' = quit
          BY <3>6, <4>4, <5>1 DEF WriteAuto
        <5>3. \A f \in Fans : cfg[f].mode = "curve" => f \in toReset' \/ regMode'[f] = "auto"
          BY <1>q, <4>1, <5>2
        <5>4. quit' = [quit EXCEPT ![q] = "write"]
          BY <1>q, <4>1, <5>2
        <5> QED
          BY <3>u, <4>2, <5>3, <5>4
      <4> QED
        BY <4>3, <4>4
    <3>7. CASE Exit(q)
      <4>1. quit[q] = "exit"
        BY <3>7 DEF Exit
      <4>2. /\ toReset = {}
            /\ \A f \in Fans : cfg[f].mode = "curve" => f \in toReset \/ regMode[f] = "auto"
        BY <4>1 DEF GivingBack
      <4>3. /\ quit' = [p \in Quitters |-> "idle"] /\ file' = file /\ regMode' = regMode
            /\ stop' = FALSE /\ phase' = "exited"
        BY <3>7 DEF Exit, ecVars, confVars
      <4>4. QuitLeavesAuto'
        BY <2>1, <4>2, <4>3 DEF QuitLeavesAuto
      <4> QED
        BY <4>3, <4>4 DEF GivingBack
    <3> QED
      BY <2>3, <3>2, <3>3, <3>4, <3>5, <3>6, <3>7 DEF Shutdown
  <2> QED
    BY <2>s, <2>2, <2>3
<1>2. CASE ~stop
  <2>1. toReset = {} /\ ~released /\ \A q \in Quitters : quit[q] = "idle"
    BY <1>2 DEF Leaving
  <2>2. ASSUME NEW q \in Quitters, Quit(q) PROVE GivingBack'
    <3>1. \A f \in Fans : Agrees(f)
      BY <1>2, <2>2, RestWhenAsked
    <3>2. /\ phase' = phase /\ phase = "running" /\ quit' = [quit EXCEPT ![q] = "lock"]
          /\ cfg' = cfg /\ mode' = mode /\ regMode' = regMode /\ released' = released
      BY <2>2 DEF Quit, ecVars, confVars
    <3>3. quit'[q] = "lock" /\ \A p \in Quitters : quit'[p] = "lock"
      BY <1>o, <1>q, <3>2
    <3>4. \A f \in Fans : Agrees(f)'
      BY <3>1, <3>2 DEF Agrees
    <3> QED
      BY <2>1, <3>2, <3>3, <3>4 DEF GivingBack
  <2>3. ASSUME stop' = stop, quit' = quit, phase' # "exited"
        PROVE  GivingBack'
    BY <1>2, <2>1, <2>3 DEF GivingBack
  <2>4. \A q \in Quitters : ~Shutdown(q)
    BY <2>1 DEF Shutdown, TakeHandle, Join, Swap, Collect, WriteAuto, Exit
  <2>5. CASE phase = "exited"
    <3>1. AllIdle
      BY <1>2, <2>5, <1>i, ThreadsApart DEF Leaving, AllIdle, Discipline, Timely
    <3>2. Launch
      BY <1>2, <2>5, <3>1, OnlyQuittersMove DEF OneByOne
    <3> QED
      BY <3>2, <2>3 DEF Launch, quitVars
  <2>6. CASE phase # "exited" /\ \A q \in Quitters : ~Quit(q)
    <3>1. stop' = stop /\ quit' = quit /\ phase' # "exited"
      <4>1. ASSUME NEW t \in Threads, Operate(t) \/ Adopt(t)
            PROVE  stop' = stop /\ quit' = quit /\ phase' # "exited"
        BY <2>6, <4>1 DEF Operate, SetMem, WriteMode, WriteInit, WriteLevel, Save, RefuseRamp,
                     Adopt, Load, Install, quitVars
      <4>2. ASSUME MonLoop PROVE stop' = stop /\ quit' = quit /\ phase' # "exited"
        BY <2>6, <4>2 DEF MonLoop, MonTop, MonPoll, MonCheck, MonSample, MonScan, MonWrite,
                     quitVars
      <4>3. ASSUME Restore \/ SpawnMonitor \/ GuiPoll \/ Launch
            PROVE  stop' = stop /\ quit' = quit /\ phase' # "exited"
        BY <2>6, <4>3 DEF Restore, SpawnMonitor, GuiPoll, Launch, quitVars
      <4>4. ASSUME NEW f \in Fans, Edit(f)
            PROVE  stop' = stop /\ quit' = quit /\ phase' # "exited"
        BY <2>6, <4>4 DEF Edit, quitVars
      <4>5. ASSUME CliStart \/ CliOpen \/ CliSignal
            PROVE  stop' = stop /\ quit' = quit /\ phase' # "exited"
        BY <2>6, <4>5 DEF CliStart, CliOpen, CliSignal, quitVars
      <4> QED
        BY <2>4, <2>6, <4>1, <4>2, <4>3, <4>4, <4>5, ThreadsApart
           DEF Next, MonitorThread, GuiThread, Command
    <3> QED
      BY <3>1, <2>3
  <2> QED
    BY <2>2, <2>5, <2>6
<1> QED
  BY <1>1, <1>2

\* Once the process has exited, every fan saved in curve mode is back under
\* firmware control: no fan is left in manual mode at a level nobody adjusts.
\* That takes, besides the assumptions of FixedFansKept, that writing the
\* registers succeeds and that only one thread quits: FanControl_two_quitters
\* shows what two do.
THEOREM CurveFansGivenBack ==
    Reliable /\ OneByOne /\ ~OverlapQuit /\ QuitsOnce =>
        (Spec /\ [][Patient]_vars => []QuitLeavesAuto)
<1>1. Init => SyncInv /\ Leaving /\ GivingBack
  <2>1. Init => SyncInv
    BY SyncInit
  <2>2. Init => Leaving /\ GivingBack
    BY DEF Init, Leaving, GivingBack
  <2> QED
    BY <2>1, <2>2
<1>2. ASSUME Reliable, OneByOne, ~OverlapQuit, QuitsOnce, SyncInv, Leaving, GivingBack,
             [Next]_vars, [Patient]_vars
      PROVE  SyncInv' /\ Leaving' /\ GivingBack'
  <2>1. SyncInv'
    BY <1>2, SyncStep
  <2>2. CASE Next
    BY <1>2, <2>1, <2>2, LeavingStep, GivingBackStep
  <2>3. CASE UNCHANGED vars
    <3>1. /\ quit' = quit /\ stop' = stop /\ released' = released /\ toReset' = toReset
          /\ phase' = phase /\ file' = file /\ cfg' = cfg /\ mode' = mode /\ regMode' = regMode
          /\ job' = job /\ reload' = reload
      BY <2>3 DEF vars, ecVars, confVars, quitVars
    <3>2. Leaving'
      BY <1>2, <3>1 DEF Leaving, AllIdle, Idle, Agrees, FixedLeftAlone
    <3>3. GivingBack'
      BY <1>2, <3>1 DEF GivingBack, Idle, Agrees, QuitLeavesAuto
    <3> QED
      BY <2>1, <3>2, <3>3
  <2> QED
    BY <1>2, <2>1, <2>2, <2>3
<1>3. GivingBack => QuitLeavesAuto
  BY DEF GivingBack, QuitLeavesAuto
<1>4. CASE Reliable /\ OneByOne /\ ~OverlapQuit /\ QuitsOnce
  <2>1. SyncInv /\ Leaving /\ GivingBack /\ [Next]_vars /\ [Patient]_vars =>
          SyncInv' /\ Leaving' /\ GivingBack'
    BY <1>2, <1>4
  <2> QED
    BY <1>1, <1>3, <2>1, PTL DEF Spec
<1> QED
  BY <1>4
-----------------------------------------------------------------------------
(***************************************************************************)
(* With one command at most there is never one before it to be adopted.    *)
(***************************************************************************)
\* Work that does not come from a command.
Unasked(j) == /\ j.kind \notin {"adopt", "cli"}
              /\ j.at \notin {"load", "install", "open", "signal"}

NothingAsked ==
    used.cli = 0 => /\ ~reload /\ job[Cli] = NoJob
                    /\ \A t \in Threads : Unasked(job[t])

LEMMA UnaskedGoesOn ==
    ASSUME NEW j \in Job, Unasked(j), j.at \in EditAt, NEW next,
           next \in {Following(j), Failing(j)}
    PROVE  Unasked(Advance(j, next))
<1>1. next \in {"mode", "init", "saveMode", "level", "saveLevel", "saveUp", "saveDown", "done"}
  <2>1. Failing(j) \in {"level", "saveUp", "done"}
    BY PositionsType
  <2>2. Following(j) \in {"mode", "init", "saveMode", "level", "saveLevel", "saveUp",
                          "saveDown", "done"}
    <3>1. /\ AfterLevel(j) \in {"saveUp", "done"}
          /\ AfterMode(j) \in {"level", "saveUp", "done"}
          /\ AfterSet(j) \in {"level", "saveMode", "saveUp", "done"}
      BY PositionsType
    <3> QED
      BY <3>1 DEF Following, EditAt, Unasked
  <2> QED
    BY <2>1, <2>2
<1>2. \/ Advance(j, next) = [j EXCEPT !.at = next]
      \/ Advance(j, next) = FanJob(j.kind, j.fan + 1, j.snap)
      \/ Advance(j, next) = NoJob
  BY WorkLeft
<1>3. CASE Advance(j, next) = [j EXCEPT !.at = next]
  BY <1>1, <1>3 DEF Unasked, Job
<1>4. CASE Advance(j, next) = FanJob(j.kind, j.fan + 1, j.snap)
  BY <1>4 DEF Unasked, FanJob
<1>5. CASE Advance(j, next) = NoJob
  BY <1>5, NoWork DEF Unasked
<1> QED
  BY <1>2, <1>3, <1>4, <1>5

LEMMA UnaskedOperates ==
    ASSUME TypeOK, NEW t \in Threads, t # Cli, Unasked(job[t]), Operate(t)
    PROVE  /\ \E k : job' = [job EXCEPT ![t] = k] /\ Unasked(k)
           /\ reload' = reload /\ used'.cli = used.cli
<1>1. job[t] \in Job /\ used \in [faults : Nat, edits : Nat, cli : Nat, launches : Nat]
  BY DEF TypeOK
<1>2. /\ job[t].at \in EditAt /\ reload' = reload
      /\ Continue(t) \/ (\E kind : Fail(t) \/ (Fault(kind) /\ Continue(t)))
  <2>1. ~RefuseRamp(t)
    BY DEF RefuseRamp, Unasked
  <2>2. CASE SetMem(t)
    BY <2>2 DEF SetMem, EditAt
  <2>3. CASE WriteMode(t)
    BY <2>3 DEF WriteMode, EditAt
  <2>4. CASE WriteInit(t)
    BY <2>4 DEF WriteInit, EditAt
  <2>5. CASE WriteLevel(t)
    BY <2>5 DEF WriteLevel, EditAt
  <2>6. CASE Save(t)
    BY <2>6 DEF Save, EditAt
  <2> QED
    BY <2>1, <2>2, <2>3, <2>4, <2>5, <2>6 DEF Operate
<1>3. used' = used \/ \E kind : Fault(kind)
  BY DEF Operate, SetMem, WriteMode, WriteInit, WriteLevel, Save, RefuseRamp, Fail, NoFault
<1>4. used'.cli = used.cli
  BY <1>1, <1>3 DEF Fault
<1>5. \E next \in {Following(job[t]), Failing(job[t])} :
          job' = [job EXCEPT ![t] = Advance(job[t], next)]
  BY <1>2 DEF Continue, Fail, Goto
<1> QED
  BY <1>1, <1>2, <1>4, <1>5, UnaskedGoesOn

LEMMA NothingAskedStep ==
    ASSUME TypeOK, NothingAsked, [Next]_vars
    PROVE  NothingAsked'
<1>t. /\ job \in [Threads -> Job] /\ Fans \subseteq Threads /\ {Monitor, Gui, Cli} \subseteq Threads
      /\ used \in [faults : Nat, edits : Nat, cli : Nat, launches : Nat]
      /\ Gui # Cli /\ Monitor # Cli /\ Cli \notin Fans
  BY ThreadsApart DEF TypeOK
<1>n. Unasked(NoJob) /\ NoJob.at = "done"
  BY NoWork DEF Unasked
<1>1. SUFFICES ASSUME used'.cli = 0
               PROVE  ~reload' /\ job'[Cli] = NoJob /\ \A t \in Threads : Unasked(job'[t])
  BY DEF NothingAsked
<1>c. ~CliStart
  BY <1>1, <1>t DEF CliStart
<1>2. used.cli = 0
  <2>1. used' = used \/ (\E kind : Fault(kind)) \/ CliStart \/ Launch \/ \E f \in Fans : Edit(f)
    <3>1. ASSUME NEW t \in Threads, Operate(t) \/ Adopt(t)
          PROVE  used' = used \/ \E kind : Fault(kind)
      BY <3>1 DEF Operate, SetMem, WriteMode, WriteInit, WriteLevel, Save, RefuseRamp, Fail,
                  NoFault, Adopt, Load, Install
    <3>2. ASSUME MonLoop \/ Restore \/ SpawnMonitor \/ GuiPoll \/ CliOpen \/ CliSignal
          PROVE  used' = used \/ \E kind : Fault(kind)
      BY <3>2 DEF MonLoop, MonTop, MonPoll, MonCheck, MonSample, MonScan, MonWrite, Restore,
                  SpawnMonitor, GuiPoll, CliOpen, CliSignal, NoFault
    <3>3. ASSUME NEW q \in Quitters, Quit(q) \/ Shutdown(q)
          PROVE  used' = used \/ \E kind : Fault(kind)
      BY <3>3 DEF Quit, Shutdown, TakeHandle, Join, Swap, Collect, WriteAuto, Exit, NoFault
    <3>4. CASE UNCHANGED vars
      BY <3>4 DEF vars
    <3> QED
      BY <1>t, <3>1, <3>2, <3>3, <3>4 DEF Next, MonitorThread, GuiThread, Command
  <2> QED
    BY <1>1, <1>c, <1>t, <2>1 DEF Fault, Launch, Edit
<1>3. ~reload /\ job[Cli] = NoJob /\ \A t \in Threads : Unasked(job[t])
  BY <1>2 DEF NothingAsked
<1>4. ASSUME reload' = reload, job' = job
      PROVE  ~reload' /\ job'[Cli] = NoJob /\ \A t \in Threads : Unasked(job'[t])
  BY <1>3, <1>4
<1>5. ASSUME reload' = reload, NEW t \in Threads, t # Cli, NEW k, Unasked(k),
             job' = [job EXCEPT ![t] = k]
      PROVE  ~reload' /\ job'[Cli] = NoJob /\ \A s \in Threads : Unasked(job'[s])
  BY <1>3, <1>5, <1>t
<1>6. \A t \in Threads : ~Adopt(t)
  BY <1>3 DEF Adopt, Load, Install, Unasked
<1>7. ~CliOpen /\ ~CliSignal /\ ~Operate(Cli) /\ ~GuiPoll
  BY <1>3, <1>n DEF CliOpen, CliSignal, GuiPoll, Operate, SetMem, WriteMode, WriteInit,
                    WriteLevel, Save, RefuseRamp
<1>8. ASSUME NEW t \in Threads, t # Cli, Operate(t)
      PROVE  ~reload' /\ job'[Cli] = NoJob /\ \A s \in Threads : Unasked(job'[s])
  BY <1>3, <1>5, <1>8, UnaskedOperates
<1>9. CASE MonLoop
  BY <1>3, <1>4, <1>9 DEF MonLoop, MonTop, MonPoll, MonCheck, MonSample, MonScan, MonWrite
<1>10. CASE Restore
  <2>1. Unasked(FanJob("restore", 1, cfg))
    BY DEF Unasked, FanJob
  <2> QED
    BY <1>5, <1>10, <1>t, <2>1 DEF Restore
<1>11. CASE SpawnMonitor \/ Launch
  BY <1>4, <1>11 DEF SpawnMonitor, Launch
<1>12. ASSUME NEW f \in Fans, Edit(f)
       PROVE  ~reload' /\ job'[Cli] = NoJob /\ \A s \in Threads : Unasked(job'[s])
  <2>1. PICK m \in Modes, l \in Levels :
            job' = [job EXCEPT ![f] = OneFanJob("edit", "mem", f, m, l)]
    BY <1>12 DEF Edit
  <2>2. Unasked(OneFanJob("edit", "mem", f, m, l))
    BY DEF Unasked, OneFanJob, NoJob
  <2>3. reload' = reload
    BY <1>12 DEF Edit
  <2> QED
    BY <1>5, <1>t, <2>1, <2>2, <2>3
<1>13. ASSUME NEW q \in Quitters, Quit(q) \/ Shutdown(q)
       PROVE  ~reload' /\ job'[Cli] = NoJob /\ \A s \in Threads : Unasked(job'[s])
  <2>1. CASE Exit(q)
    BY <1>3, <1>n, <1>t, <2>1 DEF Exit
  <2>2. CASE ~Exit(q)
    BY <1>4, <1>13, <2>2 DEF Quit, Shutdown, TakeHandle, Join, Swap, Collect, WriteAuto
  <2> QED
    BY <2>1, <2>2
<1>14. CASE UNCHANGED vars
  BY <1>4, <1>14 DEF vars
<1> QED
  BY <1>c, <1>t, <1>6, <1>7, <1>8, <1>9, <1>10, <1>11, <1>12, <1>13, <1>14
     DEF Next, MonitorThread, GuiThread, Command

\* A command finds no other before it whose reload has not been adopted, if
\* there is at most one.  The three theorems about agreement then hold of
\* every behaviour, those of the runs among them.
THEOREM OneCommandIsPatient == MaxCliRuns <= 1 => (Spec => [][Patient]_vars)
<1> SUFFICES ASSUME MaxCliRuns <= 1 PROVE Spec => [][Patient]_vars
  OBVIOUS
<1>1. Init => TypeOK /\ NothingAsked
  <2>1. ASSUME Init PROVE NothingAsked
    <3>1. ~reload /\ \A t \in Threads : job[t] = NoJob
      BY <2>1 DEF Init
    <3> QED
      BY <3>1, NoWork, ThreadsApart DEF NothingAsked, Unasked
  <2> QED
    BY <2>1, InitType
<1>2. TypeOK /\ NothingAsked /\ [Next]_vars => (TypeOK /\ NothingAsked)'
  BY NextType, NothingAskedStep
<1>3. TypeOK /\ NothingAsked /\ [Next]_vars => [Patient]_vars
  <2> SUFFICES ASSUME TypeOK, NothingAsked, CliStart PROVE ~reload /\ ~Adopting
    BY DEF Patient
  <2>1. used.cli = 0
    BY FanControlAssumption DEF CliStart, TypeOK
  <2> QED
    BY <2>1, ThreadsApart DEF NothingAsked, Unasked, Adopting
<1> QED
  BY <1>1, <1>2, <1>3, PTL DEF Spec
=============================================================================
