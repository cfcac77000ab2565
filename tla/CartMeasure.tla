---------------------------- MODULE CartMeasure ----------------------------
(***************************************************************************)
(* The measurements of one cartridge assembly: CartAssembly with the       *)
(* ColdCartImpl and WCAImpl it owns, and the workers of OPTIMIZE that      *)
(* displace the bias of the receiver and must put it back.  A cartridge of *)
(* band 5 to 10: it has SIS mixers, magnets and mixer heaters.             *)
(*                                                                         *)
(* Host calls come one at a time from the LabVIEW thread; every worker is  *)
(* a thread of its own and nothing excludes two of them, or a host call    *)
(* and a worker, from using the same cartridge.                            *)
(*                                                                         *)
(* A setting is abstracted to how it relates to what the host asked last:  *)
(* "host" (it is that), "zero" (it is off and the host asked for more),    *)
(* "other" (a point of a sweep), or "lost": two actors moved it at once,   *)
(* or something happened that BiasRestored names, and until the host asks  *)
(* again nobody can say what it is.  One setting stands for both           *)
(* polarizations and both sidebands.                                       *)
(***************************************************************************)
EXTENDS Integers

CONSTANTS
    Kinds,          \* the measurements that are run
    Overlaps,       \* bound: the sets of workers that are alive at once
    MaxHeat         \* bound: turns of the heating loop before it times out

AllKinds == {"IV", "VErr", "SISCurr", "IFPower", "FineLO", "LOPA", "Deflux",
             "Heat", "Health"}

ASSUME KindsAssumption == Kinds \subseteq AllKinds
ASSUME OverlapsAssumption == Overlaps \subseteq SUBSET Kinds
ASSUME MaxHeatAssumption == MaxHeat \in Nat \ {0}

VARIABLES
    bias,           \* bias[x]: setting x of the hardware
    off,            \* of the magnets and the LO: what the host asked to be off
    sis,            \* sisEnableSet_m
    mag,            \* sisMagnetEnableSet_m
    pa,             \* paEnable_m
    paused,         \* monitor threads told to hold back: "WCA", "CC"
    heater,         \* the heater control lines of the hardware
    heatStop,       \* mixerHeatingStop_m
    left,           \* time before mixerHeatingtimerStart_m + timeout, in turns
    w,              \* w[k]: worker k, see Worker
    abandoned       \* a stopped MixerDeflux left the monitors paused

hw == <<bias, off, sis, mag, pa>>
heating == <<heater, heatStop, left>>
vars == <<hw, paused, heating, w, abandoned>>

Settings == {"vj", "imag", "vd", "lo"}
Values == {"host", "zero", "other", "lost"}
CanBeOff == {"imag", "lo"}
Devices == {"WCA", "CC"}
PCs == {"idle", "top", "work", "moved", "curve", "swept", "dark", "unlit",
        "heat", "light", "hot", "cool", "resume", "restore", "exit"}

\* Where it stands, its stop_m, the settings it will put back, and
\* magWasEnabled or magnetsPriorState.
Worker == [pc : PCs, stop : BOOLEAN, saved : [Settings -> Values],
           magWas : BOOLEAN]
IdleWorker == [pc |-> "idle", stop |-> FALSE,
               saved |-> [x \in Settings |-> "host"], magWas |-> FALSE]

TypeOK ==
    /\ bias \in [Settings -> Values] /\ off \subseteq CanBeOff
    /\ sis \in BOOLEAN /\ mag \in BOOLEAN /\ pa \in BOOLEAN
    /\ paused \subseteq Devices
    /\ heater \in BOOLEAN /\ heatStop \in BOOLEAN /\ left \in 0..MaxHeat
    /\ w \in [Kinds -> Worker]
    /\ abandoned \in BOOLEAN

\* What a worker moves, what it saves first, and whom it holds back.
Moves(k) == CASE k \in {"IV", "Health"} -> {"vj"}
              [] k \in {"VErr", "SISCurr"} -> {"vj", "imag"}
              [] k = "IFPower" -> {"vj", "vd"}
              [] k = "FineLO" -> {"vj", "vd", "lo"}
              [] k = "LOPA" -> {"vd"}
              [] k = "Deflux" -> {"vj", "vd", "imag"}
              [] k = "Heat" -> {"imag"}

\* heatStop and left are read only while a process heats.
Heating == {k \in Kinds : w[k].pc \in {"light", "hot", "cool"}}
Busy == {k \in Kinds : w[k].pc # "idle"}
IsZero(v, x) == v = "zero" \/ (v = "host" /\ x \in off)
Zeroed(x, s) == IF x \in s THEN "host" ELSE "zero"

Init ==
    /\ bias = [x \in Settings |-> "host"] /\ off = CanBeOff
    /\ sis = FALSE /\ mag = FALSE /\ pa = FALSE
    /\ paused = {} /\ heater = FALSE /\ heatStop = FALSE /\ left = 0
    /\ w = [k \in Kinds |-> IdleWorker]
    /\ abandoned = FALSE

-----------------------------------------------------------------------------
(* Host calls.                                                              *)

\* The host asks for the settings xs, and for asked \subseteq xs to be zero.
\* What a worker saved before is older than this.
Ask(xs, asked) ==
    /\ bias' = [x \in Settings |-> IF x \notin xs THEN bias[x]
                                  ELSE IF Busy = {} THEN "host" ELSE "lost"]
    /\ off' = (off \ xs) \cup (asked \cap CanBeOff)

\* With no parameters for this LO frequency the voltages stay as they are.
SetSISBias(on) ==
    /\ sis' = on
    /\ \/ on /\ Ask({"vj"}, {})
       \/ on /\ UNCHANGED <<bias, off>>
       \/ ~on /\ sis /\ Ask({"vj"}, {"vj"})
       \/ ~on /\ ~sis /\ UNCHANGED <<bias, off>>
    /\ UNCHANGED <<mag, pa, paused, heating, w, abandoned>>

SetSISMagnet(on) ==
    /\ mag' = on
    /\ \/ on /\ Ask({"imag"}, {})
       \/ on /\ UNCHANGED <<bias, off>>
       \/ ~on /\ mag /\ Ask({"imag"}, {"imag"})
       \/ ~on /\ ~mag /\ UNCHANGED <<bias, off>>
    /\ UNCHANGED <<sis, pa, paused, heating, w, abandoned>>

SetLOPowerAmps(on) ==
    /\ pa' = on
    /\ \/ on /\ Ask({"vd"}, {})
       \/ on /\ UNCHANGED <<bias, off>>
       \/ ~on /\ Ask({"vd"}, {"vd"})
    /\ UNCHANGED <<sis, mag, paused, heating, w, abandoned>>

SetVJVD ==
    /\ \E xs \in (SUBSET {"vj", "vd"}) \ {{}} : Ask(xs, {})
    /\ UNCHANGED <<sis, mag, pa, paused, heating, w, abandoned>>

\* The frequency is forgotten before it is found to be out of range.
SetLOFrequency ==
    /\ \E inRange \in BOOLEAN : Ask({"lo"}, IF inRange THEN {} ELSE {"lo"})
    /\ UNCHANGED <<sis, mag, pa, paused, heating, w, abandoned>>

\* onDisableTasks and reset, which forgets the heating process that may run.
ClearEnable ==
    /\ Ask(Settings, Settings)
    /\ sis' = FALSE /\ mag' = FALSE /\ pa' = FALSE
    /\ heatStop' = FALSE /\ left' = 0
    /\ UNCHANGED <<paused, heater, w, abandoned>>

CanMeasure(k) ==
    /\ k = "LOPA" => ~IsZero(bias["lo"], "lo")
    /\ k \in {"LOPA", "FineLO"} => pa
    /\ k \in {"LOPA", "FineLO", "IV"} => sis

Saved(k) == [x \in Settings |->
               IF x \in Moves(k) /\ bias[x] # "lost" THEN bias[x] ELSE "host"]
Shared(k) == Moves(k) \cap UNION {Moves(j) : j \in Busy \ {k}}
Lose(b, xs) == [x \in Settings |-> IF x \in xs THEN "lost" ELSE b[x]]

\* MeasureIFPower saves the settings, moves the first and pauses the monitor
\* before its thread runs.
StartIFPower(k) ==
    /\ \E x \in {"vj", "vd"} :
         bias' = Lose([bias EXCEPT ![x] = IF @ = "lost" THEN @ ELSE "other"],
                      Shared(k))
    /\ w' = [w EXCEPT ![k].pc = "top", ![k].saved = Saved(k)]
    /\ paused' = paused \cup {"CC"}

\* A measurement starts.  Two that move the same setting leave it to chance.
Start(k) ==
    /\ k \notin Busy
    /\ Busy = {} \/ Busy \cup {k} \in Overlaps
    /\ CanMeasure(k)
    /\ IF k = "IFPower"
       THEN StartIFPower(k)
       ELSE /\ bias' = Lose(bias, Shared(k))
            /\ w' = [w EXCEPT ![k].pc = "top"]
            /\ UNCHANGED paused
    /\ UNCHANGED <<off, sis, mag, pa, heating, abandoned>>

\* The workers that look at stop_m once they have begun.
Stoppable == {"LOPA", "Deflux"}

\* The voltage errors and the health check are not stopped.  A heater object
\* of an earlier process takes the stop for the heating of another worker.
AbortMeasurement ==
    /\ Busy # {}
    /\ w' = [k \in Kinds |->
               [w[k] EXCEPT !.stop =
                  \/ @
                  \/ /\ k \in Busy \ {"VErr", "Health"}
                     /\ (w[k].pc = "top" \/ k \in Stoppable)]]
    /\ heatStop' \in IF Heating = {} THEN {heatStop}
                    ELSE IF "Heat" \in Busy THEN {TRUE} ELSE {heatStop, TRUE}
    /\ UNCHANGED <<hw, paused, heater, left, abandoned>>

DisableHeaters ==
    /\ heater' = FALSE
    /\ heatStop' \in IF Heating = {} THEN {heatStop}
                    ELSE IF "Heat" \in Busy THEN {TRUE} ELSE {heatStop, TRUE}
    /\ w' = [k \in Kinds |->
               [w[k] EXCEPT !.stop = @ \/ (k = "Heat" /\ w[k].pc = "top")]]
    /\ UNCHANGED <<hw, paused, left, abandoned>>

Host ==
    \/ \E on \in BOOLEAN : SetSISBias(on) \/ SetSISMagnet(on)
                           \/ SetLOPowerAmps(on)
    \/ SetVJVD \/ SetLOFrequency \/ ClearEnable
    \/ \E k \in Kinds : Start(k)
    \/ AbortMeasurement \/ DisableHeaters

-----------------------------------------------------------------------------
(* Workers.                                                                 *)

Goto(k, label) == w' = [w EXCEPT ![k] = IF label = "idle" THEN IdleWorker
                                        ELSE [@ EXCEPT !.pc = label]]

\* The settings xs get the values f; what is lost stays so.
Set(xs, f) == bias' = [x \in Settings |->
                         IF x \in xs /\ bias[x] # "lost" THEN f[x] ELSE bias[x]]
Move(xs) == Set(xs, [x \in xs |-> "other"])
Clear(xs) == Set(xs, [x \in xs |-> Zeroed(x, off)])
PutBack(k, xs) == Set(xs, w[k].saved)

\* Monitoring that a stopped MixerDeflux left paused goes on with the rest.
ResumeMonitor(devices) ==
    /\ paused' = paused \ devices
    /\ abandoned' = (abandoned /\ paused' # {})

\* optimizeThread: told to stop before it began, a worker runs no more than
\* its exitAction.  MeasureFineLOSweep then puts back what an earlier sweep
\* saved.
EndStopped(k) ==
    /\ w[k].pc = "top" /\ w[k].stop
    /\ bias' = IF k = "FineLO" THEN Lose(bias, Moves(k)) ELSE bias
    /\ Goto(k, IF k \in {"IFPower", "FineLO"} THEN "exit" ELSE "idle")
    /\ UNCHANGED <<off, sis, mag, pa, paused, heating, abandoned>>

\* pauseMonitor, then the settings in effect are saved; MixerDeflux saves the
\* nominal magnet currents instead, where there are any.
Begin(k) ==
    /\ w[k].pc = "top" /\ ~w[k].stop /\ k \notin {"IFPower", "Heat"}
    /\ paused' = CASE k = "IV" -> {"CC"}
                   [] k = "SISCurr" -> paused \cup {"CC"}
                   [] OTHER -> Devices
    /\ w' = [w EXCEPT ![k].pc = IF k \in {"IV", "Health"} THEN "curve"
                                                          ELSE "work",
                      ![k].saved = IF k \in {"LOPA", "IV", "Health"} THEN @
                                                          ELSE Saved(k),
                      ![k].magWas = (k = "VErr" /\ mag)]
    /\ bias' \in IF k = "Deflux" THEN {bias, Lose(bias, {"imag"})} ELSE {bias}
    /\ UNCHANGED <<off, sis, mag, pa, heating, abandoned>>

BeginAtOnce(k) ==
    /\ w[k].pc = "top" /\ ~w[k].stop /\ k \in {"IFPower", "Heat"}
    /\ Goto(k, IF k = "Heat" THEN "heat" ELSE "work")
    /\ UNCHANGED <<hw, paused, heating, abandoned>>

\* Every point of the sweep tunes the LO and may set the drain voltage.
SweepFineLO(k) ==
    /\ w[k].pc = "work" /\ k = "FineLO"
    /\ \E xs \in SUBSET {"vd", "lo"} : Move(xs \cup {"vj"})
    /\ Goto(k, "exit")
    /\ UNCHANGED <<off, sis, mag, pa, paused, heating, abandoned>>

SweepSISCurrent(k) ==
    /\ w[k].pc = "work" /\ k = "SISCurr"
    /\ \E xs \in SUBSET {"imag", "vj"} : Move(xs)
    /\ Goto(k, "restore")
    /\ UNCHANGED <<off, sis, mag, pa, paused, heating, abandoned>>

\* Readings arrive, or it is stopped, or none comes in time.
SweepIFPower(k) ==
    /\ w[k].pc = "work" /\ k = "IFPower"
    /\ Goto(k, "exit")
    /\ UNCHANGED <<hw, paused, heating, abandoned>>

\* measureSISVoltageError: the magnets are enabled at their nominal currents,
\* when there are any, and each junction is held at its test voltage.
MeasureError(k) ==
    /\ w[k].pc = "work" /\ k = "VErr"
    /\ mag' = TRUE
    /\ \E xs \in {{"vj"}, {"vj", "imag"}} : Move(xs)
    /\ Goto(k, "restore")
    /\ UNCHANGED <<off, sis, pa, paused, heating, abandoned>>

\* setSISMagnetEnable(val), and what the magnets are after it: no change is
\* no operation.
MagnetsAfter(val) == IF mag /\ ~val THEN Zeroed("imag", off) ELSE bias["imag"]

\* Mutant: the magnets stay where the measurement left them.
RestoreVoltages(k) ==
    /\ w[k].pc = "restore"
    /\ PutBack(k, Moves(k) \ {"imag"})
    /\ mag' = IF k = "VErr" THEN w[k].magWas ELSE mag
    /\ ResumeMonitor(IF k = "SISCurr" THEN {"CC"} ELSE Devices)
    /\ Goto(k, "idle")
    /\ UNCHANGED <<off, sis, pa, heating>>

\* The settings are put back and the monitors go on, in either order.
Restore(k) ==
    /\ w[k].pc = "restore"
    /\ IF k = "VErr"
       THEN /\ Set({"vj", "imag"},
                   [w[k].saved EXCEPT !["imag"] = IF w[k].magWas THEN @
                                                  ELSE MagnetsAfter(FALSE)])
            /\ mag' = w[k].magWas
       ELSE PutBack(k, Moves(k)) /\ UNCHANGED mag
    /\ ResumeMonitor(IF k = "SISCurr" THEN {"CC"} ELSE Devices)
    /\ Goto(k, "idle")
    /\ UNCHANGED <<off, sis, pa, heating>>

\* Mutant: only the monitor that the I-V curve paused goes on.
ResumeColdCart(k) ==
    /\ w[k].pc = "resume"
    /\ ResumeMonitor({"CC"})
    /\ pa' = (pa \/ k = "Health")
    /\ Goto(k, "idle")
    /\ UNCHANGED <<bias, off, sis, mag, heating>>

\* Only the monitors, and WCAImpl::setEnableLO(true) in the health check.
Resume(k) ==
    /\ w[k].pc = "resume"
    /\ ResumeMonitor(Devices)
    /\ pa' = (pa \/ k = "Health")
    /\ Goto(k, "idle")
    /\ UNCHANGED <<bias, off, sis, mag, heating>>

\* exitAction.  An LO frequency that was never set is not put back.
ExitAction(k) ==
    /\ w[k].pc = "exit"
    /\ IF k = "FineLO" /\ IsZero(w[k].saved["lo"], "lo")
       THEN Set(Moves(k), [w[k].saved EXCEPT !["lo"] = "lost"])
       ELSE PutBack(k, Moves(k))
    /\ ResumeMonitor(IF k = "FineLO" THEN Devices ELSE {"CC"})
    /\ Goto(k, "idle")
    /\ UNCHANGED <<off, sis, mag, pa, heating>>

\* adjustLOPASinglePol: what it finds is what the host asked it to find.
AdjustPA(k) ==
    /\ w[k].pc = "work" /\ k = "LOPA"
    /\ IF sis /\ pa /\ ~w[k].stop
       THEN Set({"vd"}, [vd |-> "host"]) ELSE UNCHANGED bias
    /\ Goto(k, "resume")
    /\ UNCHANGED <<off, sis, mag, pa, paused, heating, abandoned>>

\* measureIVCurve and its first inner loop, which may refuse its range.
SweepCurve(k) ==
    /\ w[k].pc \in {"curve", "dark"} /\ sis
    /\ w' = [w EXCEPT ![k].saved = Saved(k),
                      ![k].pc = IF @ = "curve" THEN "swept" ELSE "unlit"]
    /\ Move({"vj"})
    /\ UNCHANGED <<off, sis, mag, pa, paused, heating, abandoned>>

\* A second range that is refused leaves the junction where it is.
EndCurve(k) ==
    /\ w[k].pc \in {"swept", "unlit"}
    /\ PutBack(k, {"vj"}) \/ bias' = Lose(bias, {"vj"})
    /\ w' = [w EXCEPT ![k].pc = IF @ = "swept" THEN "curve" ELSE "dark"]
    /\ UNCHANGED <<off, sis, mag, pa, paused, heating, abandoned>>

\* The health check repeats the curves with the LO switched off.
EndCurves(k) ==
    /\ w[k].pc \in {"curve", "dark"}
    /\ LET dark == k = "Health" /\ w[k].pc = "curve"
       IN /\ pa' = (pa /\ ~dark)
          /\ Goto(k, IF dark THEN "dark" ELSE "resume")
    /\ UNCHANGED <<bias, off, sis, mag, paused, heating, abandoned>>

\* MixerDeflux: everything to zero, then the magnets are cycled.
Demagnetize(k) ==
    /\ w[k].pc = "work" /\ k = "Deflux"
    /\ Clear(Moves(k))
    /\ Goto(k, "moved")
    /\ UNCHANGED <<off, sis, mag, pa, paused, heating, abandoned>>

\* Told to stop while it cycles them, it puts nothing back.
LeaveDeflux(k) ==
    /\ w[k].pc = "moved"
    /\ IF w[k].stop
       THEN bias' = Lose(bias, Moves(k)) /\ abandoned' = (paused # {})
       ELSE UNCHANGED <<bias, abandoned>>
    /\ Goto(k, IF w[k].stop THEN "idle" ELSE "heat")
    /\ UNCHANGED <<off, sis, mag, pa, paused, heating>>

-----------------------------------------------------------------------------
(* sisMixerHeatingProcess, which MixerHeating and MixerDeflux both run.     *)

\* resetMixerHeating, the checks of the arguments, magnets and heaters off:
\* MixerHeating says that it does not switch the magnets on again.
PrepareHeating(k) ==
    /\ w[k].pc = "heat"
    /\ heatStop' = FALSE /\ left' = 0
    /\ \/ /\ k = "Heat"                             \* arguments refused
          /\ Goto(k, "idle")
          /\ UNCHANGED <<bias, mag, heater>>
       \/ /\ Set({"imag"}, [imag |-> IF k = "Heat" /\ mag THEN "lost"
                                     ELSE MagnetsAfter(FALSE)])
          /\ mag' = FALSE
          /\ heater' = FALSE
          /\ w' = [w EXCEPT ![k].pc = "light", ![k].magWas = mag]
    /\ UNCHANGED <<off, sis, pa, paused, abandoned>>

LightHeaters(k) ==
    /\ w[k].pc = "light"
    /\ heater' = TRUE /\ left' = MaxHeat
    /\ Goto(k, "hot")
    /\ UNCHANGED <<hw, paused, heatStop, abandoned>>

\* Mutant: the timer runs past its end.
KeepHeatingLate(k) ==
    /\ w[k].pc = "hot" /\ ~heatStop
    /\ left' = left - 1
    /\ heater' \in {heater, TRUE}
    /\ UNCHANGED <<hw, paused, heatStop, w, abandoned>>

\* One turn of the loop: the heaters have tripped and are set off again, or not.
KeepHeating(k) ==
    /\ w[k].pc = "hot" /\ ~heatStop /\ left > 0
    /\ left' = left - 1
    /\ heater' \in {heater, TRUE}
    /\ UNCHANGED <<hw, paused, heatStop, w, abandoned>>

\* Mutant: the heaters are left on when the time is out.
ExtinguishWarm(k) ==
    /\ w[k].pc = "hot"
    /\ heater' = (heater /\ left = 0)
    /\ Goto(k, "cool")
    /\ UNCHANGED <<hw, paused, heatStop, left, abandoned>>

\* Stopped, timed out, or the mixers are warm.
Extinguish(k) ==
    /\ w[k].pc = "hot"
    /\ heater' = FALSE
    /\ Goto(k, "cool")
    /\ UNCHANGED <<hw, paused, heatStop, left, abandoned>>

\* The mixers are cool again, or have not become so in 5 minutes.
EndHeating(k) ==
    /\ w[k].pc = "cool"
    /\ Set({"imag"}, [imag |-> MagnetsAfter(w[k].magWas)])
    /\ mag' = w[k].magWas
    /\ Goto(k, IF k = "Deflux" THEN "restore" ELSE "idle")
    /\ heatStop' = (heatStop /\ Heating # {k})
    /\ left' = IF Heating = {k} THEN 0 ELSE left
    /\ UNCHANGED <<off, sis, pa, paused, heater, abandoned>>

\* The cartridge itself limits how long a heater stays on.
HeaterTrips ==
    /\ heater
    /\ heater' = FALSE
    /\ UNCHANGED <<hw, paused, heatStop, left, w, abandoned>>

Work(k) ==
    \/ EndStopped(k) \/ Begin(k) \/ BeginAtOnce(k)
    \/ SweepFineLO(k) \/ SweepSISCurrent(k) \/ SweepIFPower(k)
    \/ MeasureError(k) \/ Restore(k) \/ Resume(k) \/ ExitAction(k)
    \/ AdjustPA(k) \/ SweepCurve(k) \/ EndCurve(k) \/ EndCurves(k)
    \/ Demagnetize(k) \/ LeaveDeflux(k)
    \/ PrepareHeating(k) \/ LightHeaters(k) \/ KeepHeating(k) \/ Extinguish(k)
    \/ EndHeating(k)

Next == Host \/ HeaterTrips \/ \E k \in Kinds : Work(k)

\* The worker threads run; the host and the heaters need not do anything.
Spec == Init /\ [][Next]_vars /\ \A k \in Kinds : WF_vars(Work(k))

-----------------------------------------------------------------------------
(* Properties.                                                              *)

\* When the measurements are over every setting is the one the host asked
\* for, but for the exceptions that Lose names: two actors moved it at once,
\* MixerDeflux was stopped or found nominal magnet currents, the fine LO
\* sweep was stopped before it began or had no frequency to go back to,
\* heating switched the magnets off, an I-V curve was refused half-way.
BiasRestored ==
    Busy = {} => \A x \in Settings : bias[x] \in {"host", "lost"}

\* When the measurements are over the monitor threads of the cartridge run
\* again, however they were stopped and overlapped: MixerDeflux excepted.
MonitorsResumed ==
    Busy = {} /\ ~abandoned => paused = {}

\* The mixer heaters do not stay on: every heating process times out, also
\* when its stop request is lost or its timer is reset by another call.
HeatersGoOff == heater ~> ~heater
=============================================================================
