---------------------------- MODULE WindowLocks ----------------------------
(***************************************************************************)
(* Who waits for whom in the window process.  Every operation of every     *)
(* thread is reduced to its locking: the mutexes it locks, those it keeps  *)
(* locked while it goes on, the threads it starts or joins, the window it  *)
(* waits for.  Data, EC and files are left out; where the code takes a     *)
(* branch, both are possible.                                              *)
(*                                                                         *)
(* An operation is a set of scripts, one per way through its code.  To     *)
(* touch a mutex is to lock it for a stretch of code that waits for        *)
(* nothing; that is one step, and none if nobody keeps that mutex locked   *)
(* while it goes on, since it is then free whenever somebody asks for it.  *)
(* What is done three times, once per fan, is done once.                   *)
(***************************************************************************)
EXTENDS Integers, Sequences

CONSTANTS Workers,  \* slots for the threads the window and the tray spawn
          Imports   \* may a configuration file be imported to the end?

ASSUME WindowLocksAssumption ==
    /\ Workers \cap {"main", "monitor", "tray", "free"} = {}
    /\ Imports \in BOOLEAN

Threads == {"main", "monitor", "tray"} \cup Workers
Mutexes == {"ui", "config", "logger", "curves", "samples", "transaction",
            "monitor", "tray", "gui_ctx", "notify"}
Free == "free"

VARIABLES todo,    \* what is left of each thread's script
          holder,  \* who holds each mutex
          stop,    \* AppSession.stop
          ended,   \* the monitor thread has returned
          exited   \* the process is gone

vars == <<todo, holder, stop, ended, exited>>

-----------------------------------------------------------------------------
\* The mutexes some script keeps locked.
Kept == {"ui", "config", "curves", "monitor", "tray"}

A \odot B  == {a \o b : a \in A, b \in B}
Maybe(S)   == S \cup {<<>>}
One(d, x)  == {<<[do |-> d, on |-> x]>>}
Touch(m)   == IF m \in Kept THEN One("touch", m) ELSE {<<>>}
Holding(m, S) == One("lock", m) \odot S \odot One("unlock", m)
Spawn(w)   == One("spawn", w)

(***************************************************************************)
(* AppSession and EcController                                             *)
(***************************************************************************)
\* Variant: the tray is told what has changed with config still locked.
SaveConfigTelling == Holding("config", Touch("tray"))

\* config.save() fails: the warning is logged with config still locked.
SaveConfig == Holding("config", Maybe(Touch("logger")))

Metrics == Touch("transaction") \odot Touch("curves")

SetPowerMode == Touch("transaction") \odot Maybe(Touch("logger") \odot SaveConfig)

\* SetFanMode, level and ramps
SetFan ==
    Touch("curves") \odot Touch("transaction") \odot
    Maybe(Touch("curves") \odot Touch("transaction"))

ApplyFanEdit == SetFan \odot Maybe(SaveConfig)

RestoreSavedState ==
    Touch("logger") \odot
    Maybe(Touch("config") \odot SetPowerMode \odot SetFan \odot SaveConfig \odot
          Touch("logger"))

\* ServerConfig::load, then apply_stored_fans
AdoptSaved ==
    Touch("logger") \cup
    (Touch("config") \odot SetFan \odot Touch("logger"))

SetSmoothingWindow == Touch("samples") \odot SaveConfig

\* update_curve_fans reads the fans' levels with fan_curves locked.
UpdateCurveFans ==
    Touch("transaction") \odot Touch("samples") \odot
    Holding("curves", Touch("transaction")) \odot Maybe(Touch("transaction")) \odot
    Touch("logger")

\* The monitor mutex stays locked while the thread is joined.  The second
\* caller finds the fans released.
ShutdownSession ==
    One("stop", "monitor") \odot Holding("monitor", One("join", "monitor")) \odot
    Maybe(Touch("curves") \odot Touch("samples") \odot Touch("transaction") \odot
          Touch("logger"))

(***************************************************************************)
(* The window, the tray and the threads they spawn                         *)
(***************************************************************************)
Publish == Metrics \odot Touch("ui")

RefreshMetrics == Touch("ui") \odot Spawn("refresh")

\* Up to its early returns; and to the end, where the window asks for fresh
\* metrics.
ImportConfig ==
    Maybe(Touch("config")) \cup
    (IF Imports THEN Touch("config") \odot RestoreSavedState \odot RefreshMetrics ELSE {})

\* What the user can click on while a frame is drawn.
Clicks ==
    {<<>>} \cup Spawn("edit") \cup Spawn("power") \cup SaveConfig \cup
    SetSmoothingWindow \cup ImportConfig

\* The whole frame is drawn with the UiState locked.
Draw == Holding("ui", Touch("config") \odot Clicks)

CloseRequested == Holding("ui", Touch("config"))

ExitNow == Touch("ui") \odot Touch("notify") \odot ShutdownSession \odot One("exit", "process")

Logic ==
    RefreshMetrics \cup
    (CloseRequested \odot Maybe(ExitNow)) \cup
    (Touch("ui") \odot Maybe(Touch("ui") \odot AdoptSaved \odot RefreshMetrics)) \cup
    (Holding("ui", Touch("config")) \odot Maybe(Touch("notify"))) \cup
    ExitNow

MonitorTick ==
    Maybe(AdoptSaved) \odot Touch("curves") \odot
    (Maybe(Touch("samples") \odot Touch("logger")) \cup UpdateCurveFans)

\* The menu is built with TRAY locked while the language is read.
ShowMenu == Holding("tray", Touch("config"))

\* ShowWindow waits until the thread of the window takes its messages, which is
\* between two operations; without a window there is nothing to show.
ShowMainWindow ==
    Touch("tray") \odot Touch("gui_ctx") \odot Maybe(One("await", "window"))

\* Variant: the tray looks at the window's state before it quits.
QuitNowAsking ==
    Touch("tray") \odot Touch("ui") \odot Touch("gui_ctx") \odot Touch("notify") \odot
    Touch("tray") \odot ShutdownSession \odot One("exit", "process")

QuitNow ==
    Touch("tray") \odot Touch("gui_ctx") \odot Touch("notify") \odot
    Touch("tray") \odot ShutdownSession \odot One("exit", "process")

Operations ==
    [main    |-> Draw \cup Logic,
     monitor |-> MonitorTick,
     tray    |-> ShowMenu \cup ShowMainWindow \cup QuitNow \cup Touch("notify") \cup
                 (Touch("tray") \odot Spawn("tray_power"))]

\* The bodies of the spawned threads.
Bodies ==
    [refresh    |-> Publish,
     edit       |-> ApplyFanEdit \odot Maybe(Metrics) \odot Touch("ui"),
     power      |-> SetPowerMode \odot Maybe(Metrics) \odot Touch("ui"),
     tray_power |-> SetPowerMode \odot Touch("tray") \odot Touch("gui_ctx")]

ASSUME KeptAssumption ==
    LET scripts == (UNION {Operations[t] : t \in DOMAIN Operations}) \cup
                   (UNION {Bodies[w] : w \in DOMAIN Bodies})
    IN Kept = {m \in Mutexes : \E s \in scripts : \E i \in DOMAIN s :
                                  s[i] = [do |-> "lock", on |-> m]}

-----------------------------------------------------------------------------
Init ==
    /\ todo = [t \in Threads |-> <<>>]
    /\ holder = [m \in Mutexes |-> Free]
    /\ stop = FALSE
    /\ ended = FALSE
    /\ exited = FALSE

Doing(t, d) == ~exited /\ todo[t] # <<>> /\ Head(todo[t]).do = d
On(t) == Head(todo[t]).on
Advance(t) == todo' = [todo EXCEPT ![t] = Tail(todo[t])]

Begin(t) ==
    /\ ~exited /\ todo[t] = <<>>
    /\ t = "monitor" => ~ended /\ ~stop
    /\ \E s \in Operations[t] : todo' = [todo EXCEPT ![t] = s]
    /\ UNCHANGED <<holder, stop, ended, exited>>

\* The monitor looks at `stop` between two ticks only.
EndMonitor ==
    /\ ~exited /\ todo["monitor"] = <<>>
    /\ stop /\ ~ended
    /\ ended' = TRUE
    /\ UNCHANGED <<todo, holder, stop, exited>>

LockMutex(t) ==
    /\ Doing(t, "lock") /\ holder[On(t)] = Free
    /\ holder' = [holder EXCEPT ![On(t)] = t]
    /\ Advance(t)
    /\ UNCHANGED <<stop, ended, exited>>

UnlockMutex(t) ==
    /\ Doing(t, "unlock")
    /\ holder' = [holder EXCEPT ![On(t)] = Free]
    /\ Advance(t)
    /\ UNCHANGED <<stop, ended, exited>>

TouchMutex(t) ==
    /\ Doing(t, "touch") /\ holder[On(t)] = Free
    /\ Advance(t)
    /\ UNCHANGED <<holder, stop, ended, exited>>

Stop(t) ==
    /\ Doing(t, "stop")
    /\ stop' = TRUE
    /\ Advance(t)
    /\ UNCHANGED <<holder, ended, exited>>

JoinMonitor(t) ==
    /\ Doing(t, "join") /\ ended
    /\ Advance(t)
    /\ UNCHANGED <<holder, stop, ended, exited>>

AwaitWindow(t) ==
    /\ Doing(t, "await") /\ todo["main"] = <<>>
    /\ Advance(t)
    /\ UNCHANGED <<holder, stop, ended, exited>>

\* A thread is spawned into a free slot; with none left the step is idle.
SpawnThread(t) ==
    /\ Doing(t, "spawn")
    /\ \/ \E w \in Workers, s \in Bodies[On(t)] :
            /\ todo[w] = <<>>
            /\ todo' = [todo EXCEPT ![t] = Tail(todo[t]), ![w] = s]
       \/ (\A w \in Workers : todo[w] # <<>>) /\ Advance(t)
    /\ UNCHANGED <<holder, stop, ended, exited>>

ExitProcess(t) ==
    /\ Doing(t, "exit")
    /\ exited' = TRUE
    /\ UNCHANGED <<todo, holder, stop, ended>>

Go(t) ==
    \/ LockMutex(t) \/ UnlockMutex(t) \/ TouchMutex(t) \/ Stop(t) \/ JoinMonitor(t)
    \/ AwaitWindow(t) \/ SpawnThread(t) \/ ExitProcess(t)

Next ==
    \/ \E t \in {"main", "monitor", "tray"} : Begin(t)
    \/ EndMonitor
    \/ \E t \in Threads : Go(t)

Spec == Init /\ [][Next]_vars

(***************************************************************************)
(* A thread inside an operation goes on, and gets a mutex it waits for if  *)
(* that is released again and again: every other holder keeps it for a     *)
(* moment and then sleeps, draws or waits for an event.                    *)
(***************************************************************************)
FairSpec ==
    /\ Spec
    /\ WF_vars(EndMonitor)
    /\ \A t \in Threads : SF_vars(Go(t))

-----------------------------------------------------------------------------
\* The threads t cannot go on before they do something.
WaitsFor(t) ==
    CASE Doing(t, "lock") \/ Doing(t, "touch")      -> {holder[On(t)]} \ {Free}
      [] Doing(t, "join") /\ ~ended                -> {"monitor"}
      [] Doing(t, "await") /\ todo["main"] # <<>>  -> {"main"}
      [] OTHER                                     -> {}

\* No two or more threads wait for one another in a circle, through mutexes,
\* the join of shutdown or the messages of the window, whatever the window, the
\* monitor, the tray and the threads they spawn are in the middle of.
NoCircularWait ==
    \A S \in (SUBSET Threads) \ {{}} :
        \E t \in S : WaitsFor(t) \cap S \subseteq {t}

\* No thread asks for a mutex it already holds: none of them is reentrant.
NoSelfWait == \A t \in Threads : t \notin WaitsFor(t)

\* Exit in the tray menu ends the process whatever the window is doing, even
\* when it no longer draws: the tray needs nothing that a frame keeps locked.
\* (A tray that waits for such a window to show itself serves no click any more,
\* and Exit cannot be chosen.)
TrayQuitEnds ==
    (todo["tray"] # <<>> /\ todo["tray"][Len(todo["tray"])].do = "exit") ~> exited
=============================================================================
