---------------------------- MODULE Temperature ----------------------------
(***************************************************************************)
(* From the sensors to the temperature the window shows, the curves follow *)
(* and the alert goes by: thermal.rs, alert.rs and maybe_temp_alert.       *)
(*                                                                         *)
(* The drivers are external: three programming interfaces list adapters,   *)
(* each with raw readings in units of its own, and the EC has a register.  *)
(* `hw` is what they would answer now, and changes at any time.            *)
(***************************************************************************)
EXTENDS Integers, Sequences, FiniteSetsExt

CONSTANTS Hardware,    \* the states of the sensors
          Thresholds,  \* alert thresholds found in a file or chosen
          Word,        \* the range of the driver's integers, 2^32
          Cooldown,    \* ticks between two alerts: 10 minutes
          Pollers      \* threads that take snapshots

Sources == {"gpu", "cpu", "soc", "hotspot", "ec"}

\* What the interfaces list: unsigned and signed 32-bit integers.  A sensor
\* the second interface does not have reads -1.
Unsigned == 0 .. Word - 1
Integer  == (-(Word \div 2)) .. (Word \div 2) - 1

WddmListed == [software : BOOLEAN, vendor : {"amd", "other", "unknown"}, deci : Unsigned]
AdlListed  == [gfx : Integer, edge : Integer, cpu : Integer, soc : Integer, hotspot : Integer]

ASSUME TemperatureAssumption ==
    /\ Word \in Nat /\ Word > 2 * 116000
    /\ Cooldown \in Nat \ {0}
    /\ "metrics" \in Pollers
    /\ Thresholds \subseteq 0 .. 255
    /\ \A h \in Hardware :
        /\ h.ec \in 0 .. 255
        /\ h.wddm \in Seq(WddmListed) /\ h.adl \in Seq(AdlListed) /\ h.od5 \in Seq(Integer)

VARIABLES hw,         \* what the drivers and the EC would answer
          preferred,  \* sensor chosen in Settings
          alert,      \* [enabled, threshold], in the configuration
          icon,       \* the tray icon is there
          metrics,    \* last snapshot the window has: <<>> or <<reading>>
          poll,       \* each poller's snapshot in the making
          last,       \* ticks since last_temp_alert, or Never
          quiet       \* ticks since the user was shown an alert, or Never

vars == <<hw, preferred, alert, icon, metrics, poll, last, quiet>>

-----------------------------------------------------------------------------
(***************************************************************************)
(* Readings and their conversion.                                          *)
(***************************************************************************)
None == -1

\* plausible_celsius
Plausible(celsius) == IF celsius \in 10 .. 115 THEN celsius ELSE None

\* deci_celsius_to_u8, in unsigned arithmetic that wraps around.
DeciCelsius(deci) ==
    IF deci = 0 THEN None ELSE Plausible(((deci + 5) % Word) \div 10)

Signed(n) == IF n >= Word \div 2 THEN n - Word ELSE n

\* millicelsius_to_u8; a sum that wraps around is negative.
MilliCelsius(milli) ==
    LET sum == Signed(milli + 500) IN
    IF milli <= 0 \/ sum < 0 THEN None ELSE Plausible(sum \div 1000)

OrElse(a, b) == IF a # None THEN a ELSE b

FirstOf(readings) ==
    LET found == {i \in DOMAIN readings : readings[i] # None}
    IN  IF found = {} THEN None ELSE readings[Min(found)]

(***************************************************************************)
(* read_wddm_adapter: nothing from a software adapter, or without a        *)
(* temperature (0, also for a query that fails).                           *)
(***************************************************************************)
WddmAdapter(a) == IF a.software THEN None ELSE DeciCelsius(a.deci)

\* Variant: the first adapter with a reading.
WddmGpuAnyVendor(adapters) == FirstOf([i \in DOMAIN adapters |-> WddmAdapter(adapters[i])])

\* read_wddm_gpu_temp: an AMD adapter before the first of the others.
WddmGpu(adapters) ==
    LET of(test(_)) == FirstOf([i \in DOMAIN adapters |->
                                    IF test(adapters[i]) THEN WddmAdapter(adapters[i]) ELSE None])
        amd(a)   == a.vendor = "amd"
        other(a) == a.vendor # "amd"
    IN  OrElse(of(amd), of(other))

\* query_adl_sensors: for each sensor the first adapter that has it; the GPU's
\* is GFX, else EDGE.  An adapter whose query fails has none (-1).
AdlSensors(adapters) ==
    LET first(of(_)) == FirstOf([i \in DOMAIN adapters |-> of(adapters[i])])
        gpu(a)     == OrElse(Plausible(a.gfx), Plausible(a.edge))
        cpu(a)     == Plausible(a.cpu)
        soc(a)     == Plausible(a.soc)
        hotspot(a) == Plausible(a.hotspot)
    IN  [gpu |-> first(gpu), cpu |-> first(cpu), soc |-> first(soc),
         hotspot |-> first(hotspot)]

\* query_adl_od5: the first adapter with a plausible reading
AdlOd5(adapters) == FirstOf([i \in DOMAIN adapters |-> MilliCelsius(adapters[i])])

\* The sensors of read_thermal
Sensors == [h \in Hardware |->
    LET adl == AdlSensors(h.adl)
        gpu == OrElse(WddmGpu(h.wddm), OrElse(adl.gpu, AdlOd5(h.od5)))
    IN  [gpu |-> gpu, cpu |-> adl.cpu, soc |-> adl.soc, hotspot |-> adl.hotspot,
         ec |-> h.ec]]

\* pick_control_temp
PickControl(choice, r) ==
    IF r[choice] # None THEN [temp |-> r[choice], source |-> choice]
    ELSE IF r.gpu # None THEN [temp |-> r.gpu, source |-> "gpu"]
    ELSE [temp |-> r.ec, source |-> "ec"]

\* The GPU temperatures read_thermal may find when the sensors change while it
\* asks: the three interfaces are asked one after the other, the logged sensors
\* first.
GpuReadings == [h \in Hardware |->
    {OrElse(WddmGpu(w.wddm), OrElse(AdlSensors(h.adl).gpu, AdlOd5(o.od5))) :
        w \in Hardware, o \in Hardware}]

\* read_thermal, with an EC byte read before the drivers were asked
ReadThermal(ec, gpu) == PickControl(preferred, [Sensors[hw] EXCEPT !.ec = ec, !.gpu = gpu])

\* What it returns when everything is read at once.
Control == ReadThermal(hw.ec, Sensors[hw].gpu)

-----------------------------------------------------------------------------
(***************************************************************************)
(* The alert.                                                              *)
(***************************************************************************)
Never == -1

\* Variant: a threshold found in a file is used as it is.
ClampThresholdNot(celsius) == celsius

\* clamp_threshold, applied when a file is loaded or imported, when the
\* slider is moved, and again when the threshold is used.
ClampThreshold(celsius) ==
    IF celsius < 70 THEN 70 ELSE IF celsius > 97 THEN 97 ELSE celsius

\* should_fire_temp_alert
ShouldFire(temp) ==
    /\ alert.enabled
    /\ temp >= ClampThreshold(alert.threshold)
    /\ last = Never \/ last >= Cooldown

Idle == [at |-> "idle", ec |-> 0, reading |-> <<>>]

Init ==
    /\ hw \in Hardware
    /\ preferred \in Sources
    /\ alert \in [enabled : BOOLEAN, threshold : {ClampThreshold(t) : t \in Thresholds}]
    /\ icon \in BOOLEAN
    /\ metrics = <<>>
    /\ poll = [p \in Pollers |-> Idle]
    /\ last = Never /\ quiet = Never

\* The machine warms up or cools down, a driver is reset, sleeps or wakes.
Sense ==
    /\ hw' \in Hardware
    /\ UNCHANGED <<preferred, alert, icon, metrics, poll, last, quiet>>

\* thermal_reading reads the EC's register before it asks the drivers.
ReadEc(p) ==
    /\ poll[p].at = "idle"
    /\ poll' = [poll EXCEPT ![p] = [Idle EXCEPT !.at = "drivers", !.ec = hw.ec]]
    /\ UNCHANGED <<hw, preferred, alert, icon, metrics, last, quiet>>

\* Meanwhile the sensors may change.
ReadDrivers(p) ==
    /\ poll[p].at = "drivers"
    /\ hw' \in Hardware
    /\ \E gpu \in IF hw' = hw THEN {Sensors[hw].gpu} ELSE GpuReadings[hw] :
        poll' = [poll EXCEPT ![p] = [Idle EXCEPT !.at = "publish",
                                                 !.reading = <<ReadThermal(poll[p].ec, gpu)>>]]
    /\ UNCHANGED <<preferred, alert, icon, metrics, last, quiet>>

\* Another register cannot be read: the snapshot is dropped.
GiveUp(p) ==
    /\ poll[p].at = "drivers"
    /\ poll' = [poll EXCEPT ![p] = Idle]
    /\ UNCHANGED <<hw, preferred, alert, icon, metrics, last, quiet>>

\* Variant: a reading that is there is kept.
PublishFirst(p) ==
    /\ poll[p].at = "publish"
    /\ metrics' = IF metrics = <<>> THEN poll[p].reading ELSE metrics
    /\ poll' = [poll EXCEPT ![p] = Idle]
    /\ UNCHANGED <<hw, preferred, alert, icon, last, quiet>>

\* Under the UiState mutex, in whatever order the pollers get it.
Publish(p) ==
    /\ poll[p].at = "publish"
    /\ metrics' = poll[p].reading
    /\ poll' = [poll EXCEPT ![p] = Idle]
    /\ UNCHANGED <<hw, preferred, alert, icon, last, quiet>>

\* persist_temp_source, persist_alert
ChooseSensor ==
    /\ preferred' \in Sources
    /\ UNCHANGED <<hw, alert, icon, metrics, poll, last, quiet>>

SetAlert ==
    /\ \E on \in BOOLEAN, t \in Thresholds :
        alert' = [enabled |-> on, threshold |-> ClampThreshold(t)]
    /\ UNCHANGED <<hw, preferred, icon, metrics, poll, last, quiet>>

\* Variant: the time of the alert is not kept.
FireForgets ==
    /\ metrics # <<>> /\ ShouldFire(metrics[1].temp)
    /\ last' = last
    /\ quiet' = IF icon THEN 0 ELSE quiet
    /\ UNCHANGED <<hw, preferred, alert, icon, metrics, poll>>

\* maybe_temp_alert, in every pass of the event loop.  The balloon needs the
\* tray icon; the alert is taken for given without it too.
Fire ==
    /\ metrics # <<>> /\ ShouldFire(metrics[1].temp)
    /\ last' = 0
    /\ quiet' = IF icon THEN 0 ELSE quiet
    /\ UNCHANGED <<hw, preferred, alert, icon, metrics, poll>>

Later(t) == IF t = Never THEN Never ELSE IF t < Cooldown THEN t + 1 ELSE Cooldown

Tick ==
    /\ last' = Later(last) /\ quiet' = Later(quiet)
    /\ UNCHANGED <<hw, preferred, alert, icon, metrics, poll>>

\* Explorer was not ready, or restarts: the icon comes and goes.
IconChange ==
    /\ icon' = ~icon
    /\ UNCHANGED <<hw, preferred, alert, metrics, poll, last, quiet>>

\* The program ends and is started again; the settings are saved ones, the
\* time of the last alert is not.
Restart ==
    /\ metrics' = <<>>
    /\ poll' = [p \in Pollers |-> Idle]
    /\ last' = Never /\ quiet' = Never
    /\ UNCHANGED <<hw, preferred, alert, icon>>

Poll(p) == ReadDrivers(p) \/ GiveUp(p) \/ Publish(p)

Next ==
    \/ Sense \/ ChooseSensor \/ SetAlert \/ IconChange \/ Restart
    \/ \E p \in Pollers : ReadEc(p) \/ Poll(p)
    \/ Fire \/ Tick

Spec == Init /\ [][Next]_vars

(***************************************************************************)
(* Time passes, the event loop runs, at least once a second even when the  *)
(* window is hidden.  A snapshot that was begun is finished; the metrics   *)
(* thread begins one every second, and the EC does not fail for ever.      *)
(***************************************************************************)
FairSpec ==
    /\ Spec
    /\ WF_vars(Tick) /\ WF_vars(Fire)
    /\ WF_vars(ReadEc("metrics")) /\ SF_vars(ReadDrivers("metrics"))
    /\ \A p \in Pollers : WF_vars(Poll(p)) /\ SF_vars(Publish(p))

-----------------------------------------------------------------------------
Reading == [temp : 0 .. 255, source : Sources]

\* Types; the threshold is between 70 and 97 whatever config.json or the
\* window's field held.
TypeOK ==
    /\ hw \in Hardware /\ preferred \in Sources
    /\ alert \in [enabled : BOOLEAN, threshold : 70 .. 97]
    /\ icon \in BOOLEAN
    /\ metrics \in {<<>>} \cup {<<r>> : r \in Reading}
    /\ poll \in [Pollers -> [at : {"idle", "drivers", "publish"}, ec : 0 .. 255,
                             reading : {<<>>} \cup {<<r>> : r \in Reading}]]
    /\ last \in {Never} \cup 0 .. Cooldown
    /\ quiet \in {Never} \cup 0 .. Cooldown

\* A raw temperature in units of 1/u degree rounds to c.
Rounds(raw, u, c) == 2 * (raw - u * c) \in (-u) .. (u - 1)
InRange(raw, u)   == 2 * raw \in 19 * u .. 231 * u - 1

GpuOn(a)  == ~a.software /\ InRange(a.deci, 10)
Amd(h)    == {i \in DOMAIN h.wddm : GpuOn(h.wddm[i]) /\ h.wddm[i].vendor = "amd"}
AnyGpu(h) == {i \in DOMAIN h.wddm : GpuOn(h.wddm[i])}

\* README, "Temperature": what the control temperature is, said of the raw
\* readings alone.  Without the chosen sensor it is the GPU's, and the EC's
\* byte counts only when no interface knows a GPU temperature; whatever is
\* not the EC's byte is plausible and within half a degree of an adapter's
\* own figure, an AMD adapter's if there is one, never a software adapter's.
ControlFollowsReadme ==
    LET c == Control IN
    /\ preferred = "ec" => c = [temp |-> hw.ec, source |-> "ec"]
    /\ c.source \in {preferred, "gpu", "ec"}
    /\ c.source = "ec" /\ preferred # "ec" =>
        /\ AnyGpu(hw) = {}
        /\ \A i \in DOMAIN hw.adl : {hw.adl[i].gfx, hw.adl[i].edge} \cap 10 .. 115 = {}
        /\ \A i \in DOMAIN hw.od5 : ~InRange(hw.od5[i], 1000)
    /\ preferred \in {"cpu", "soc", "hotspot"} /\ c.source # preferred =>
        \A i \in DOMAIN hw.adl : hw.adl[i][preferred] \notin 10 .. 115
    /\ c.source # "ec" => c.temp \in 10 .. 115
    /\ c.source = "gpu" /\ AnyGpu(hw) # {} =>
        \E i \in IF Amd(hw) # {} THEN Amd(hw) ELSE AnyGpu(hw) :
            Rounds(hw.wddm[i].deci, 10, c.temp)

\* README: alerts wait at least 10 minutes between notifications, however
\* often the alert is switched off and on, its threshold moved or the sensor
\* changed meanwhile, as long as the program runs.
AlertsSpaced == [][quiet # 0 /\ quiet' = 0 => quiet \in {Never, Cooldown}]_vars

\* Heat that lasts is reported, and reported again, whatever threshold the
\* file had, whichever sensor is chosen, and with the window hidden.
Hot == alert.enabled /\ icon /\ Control.temp >= 97
HeatReported ==
    <>[](Hot /\ metrics # <<>>) /\ <>[][UNCHANGED <<hw, preferred>>]_vars
        => []<>(quiet = 0)

\* A sensor chosen in Settings is what the window goes by in the end: no
\* snapshot taken before the choice stays behind.
ChoiceShown ==
    <>[](preferred = "cpu" /\ Sensors[hw].cpu # None /\ metrics # <<>>)
        => <>[](metrics # <<>> => metrics[1].source = "cpu")
=============================================================================
