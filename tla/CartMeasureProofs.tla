------------------------- MODULE CartMeasureProofs --------------------------
(* For any set of measurements that overlap in any way, and any heating     *)
(* time: the monitors run again (MonitorsResumed) and the bias is back      *)
(* where the host put it (BiasRestored) when the measurements are over.     *)
(* Overlaps plays no part in it.                                            *)
EXTENDS CartMeasure, TLAPS

-----------------------------------------------------------------------------
(* Settings and workers.                                                    *)

Elsewhere(k) == \A j \in Kinds \ {k} : w'[j] = w[j]

LEMMA MovesType ==
    ASSUME NEW k \in Kinds
    PROVE  Moves(k) \subseteq Settings
  BY KindsAssumption DEF Moves, AllKinds, Settings

LEMMA ZeroedType ==
    ASSUME NEW x, NEW s
    PROVE  Zeroed(x, s) \in Values
  BY DEF Zeroed, Values

LEMMA SetType ==
    ASSUME bias \in [Settings -> Values], NEW xs, NEW f, Set(xs, f),
           \A x \in xs \cap Settings : f[x] \in Values
    PROVE  bias' \in [Settings -> Values]
  BY DEF Set

LEMMA LoseType ==
    ASSUME NEW b \in [Settings -> Values], NEW xs
    PROVE  Lose(b, xs) \in [Settings -> Values]
  BY DEF Lose, Values

LEMMA AskType ==
    ASSUME TypeOK, NEW xs \in SUBSET Settings, NEW asked \in SUBSET Settings, Ask(xs, asked)
    PROVE  bias' \in [Settings -> Values] /\ off' \subseteq CanBeOff
  BY DEF TypeOK, Ask, Values

LEMMA SavedType ==
    ASSUME TypeOK, NEW k \in Kinds
    PROVE  Saved(k) \in [Settings -> Values]
  BY DEF TypeOK, Saved, Values

LEMMA MagnetsAfterType ==
    ASSUME TypeOK, NEW val \in BOOLEAN
    PROVE  MagnetsAfter(val) \in Values
  BY ZeroedType DEF TypeOK, MagnetsAfter, Settings

LEMMA WorkerType ==
    ASSUME TypeOK, NEW k \in Kinds
    PROVE  /\ w[k].pc \in PCs /\ w[k].stop \in BOOLEAN /\ w[k].magWas \in BOOLEAN
           /\ w[k].saved \in [Settings -> Values]
  BY DEF TypeOK, Worker

LEMMA GotoWorker ==
    ASSUME TypeOK, NEW k \in Kinds, NEW label \in PCs, Goto(k, label)
    PROVE  /\ w' \in [Kinds -> Worker] /\ Elsewhere(k)
           /\ w'[k].pc = label
           /\ label # "idle" => /\ w'[k].saved = w[k].saved
                                /\ w'[k].magWas = w[k].magWas
<1>1. IdleWorker \in Worker
  BY DEF IdleWorker, Worker, PCs, Values
<1>2. [w[k] EXCEPT !.pc = label] \in Worker
  BY DEF TypeOK, Worker
<1>3. w' = [w EXCEPT ![k] = IF label = "idle" THEN IdleWorker
                            ELSE [w[k] EXCEPT !.pc = label]]
  BY DEF Goto
<1>4. w'[k] = IF label = "idle" THEN IdleWorker ELSE [w[k] EXCEPT !.pc = label]
  BY <1>3 DEF TypeOK
<1>5. w' \in [Kinds -> Worker] /\ Elsewhere(k)
  BY <1>1, <1>2, <1>3 DEF TypeOK, Elsewhere
<1>6. CASE label = "idle"
  BY <1>4, <1>5, <1>6 DEF IdleWorker
<1>7. CASE label # "idle"
  BY <1>4, <1>5, <1>7 DEF TypeOK, Worker
<1> QED BY <1>6, <1>7

(* The steps that record more than where the worker stands. *)
LEMMA BeginWorker ==
    ASSUME TypeOK, NEW k \in Kinds, Begin(k)
    PROVE  /\ w' \in [Kinds -> Worker] /\ Elsewhere(k)
           /\ w'[k].pc = IF k \in {"IV", "Health"} THEN "curve" ELSE "work"
           /\ k \notin {"LOPA", "IV", "Health"} => w'[k].saved = Saved(k)
           /\ k = "VErr" => w'[k].magWas = mag
<1> DEFINE r == [w[k] EXCEPT !.pc = IF k \in {"IV", "Health"} THEN "curve" ELSE "work",
                             !.saved = IF k \in {"LOPA", "IV", "Health"} THEN w[k].saved
                                                                         ELSE Saved(k),
                             !.magWas = (k = "VErr" /\ mag)]
<1>1. w' = [w EXCEPT ![k] = r]
  BY DEF Begin
<1>2. r \in Worker
  BY SavedType DEF TypeOK, Worker, PCs
<1>3. w' \in [Kinds -> Worker] /\ Elsewhere(k) /\ w'[k] = r
  BY <1>1, <1>2 DEF TypeOK, Elsewhere
<1>4. /\ r.pc = IF k \in {"IV", "Health"} THEN "curve" ELSE "work"
      /\ k \notin {"LOPA", "IV", "Health"} => r.saved = Saved(k)
      /\ r.magWas = (k = "VErr" /\ mag)
  BY DEF TypeOK, Worker
<1>5. k = "VErr" => r.magWas = mag
  BY <1>4 DEF TypeOK
<1> HIDE DEF r
<1> QED BY <1>3, <1>4, <1>5

LEMMA StartWorker ==
    ASSUME TypeOK, NEW k \in Kinds, Start(k)
    PROVE  /\ w' \in [Kinds -> Worker] /\ Elsewhere(k)
           /\ w'[k].pc = "top"
           /\ k = "IFPower" => w'[k].saved = Saved(k)
<1>1. CASE k = "IFPower"
  <2> DEFINE r == [w[k] EXCEPT !.pc = "top", !.saved = Saved(k)]
  <2>1. w' = [w EXCEPT ![k] = r]
    BY <1>1 DEF Start, StartIFPower
  <2>2. r \in Worker /\ r.pc = "top" /\ r.saved = Saved(k)
    BY SavedType DEF TypeOK, Worker, PCs
  <2>3. w' \in [Kinds -> Worker] /\ Elsewhere(k) /\ w'[k] = r
    BY <2>1, <2>2 DEF TypeOK, Elsewhere
  <2> QED BY <2>2, <2>3
<1>2. CASE k # "IFPower"
  <2> DEFINE r == [w[k] EXCEPT !.pc = "top"]
  <2>1. w' = [w EXCEPT ![k] = r]
    BY <1>2 DEF Start
  <2>2. r \in Worker /\ r.pc = "top"
    BY DEF TypeOK, Worker, PCs
  <2>3. w' \in [Kinds -> Worker] /\ Elsewhere(k) /\ w'[k] = r
    BY <2>1, <2>2 DEF TypeOK, Elsewhere
  <2> QED BY <1>2, <2>2, <2>3
<1> QED BY <1>1, <1>2

LEMMA SweepWorker ==
    ASSUME TypeOK, NEW k \in Kinds, SweepCurve(k)
    PROVE  /\ w' \in [Kinds -> Worker] /\ Elsewhere(k)
           /\ w'[k].pc = IF w[k].pc = "curve" THEN "swept" ELSE "unlit"
           /\ w'[k].saved = Saved(k)
<1> DEFINE r == [w[k] EXCEPT !.saved = Saved(k),
                             !.pc = IF w[k].pc = "curve" THEN "swept" ELSE "unlit"]
<1>1. w' = [w EXCEPT ![k] = r]
  BY DEF SweepCurve, TypeOK, Worker
<1>2. /\ r \in Worker /\ r.pc = IF w[k].pc = "curve" THEN "swept" ELSE "unlit"
      /\ r.saved = Saved(k)
  BY SavedType DEF TypeOK, Worker, PCs
<1>3. w' \in [Kinds -> Worker] /\ Elsewhere(k) /\ w'[k] = r
  BY <1>1, <1>2 DEF TypeOK, Elsewhere
<1> QED BY <1>2, <1>3

LEMMA EndCurveWorker ==
    ASSUME TypeOK, NEW k \in Kinds, EndCurve(k)
    PROVE  /\ w' \in [Kinds -> Worker] /\ Elsewhere(k)
           /\ w'[k].pc = IF w[k].pc = "swept" THEN "curve" ELSE "dark"
<1> DEFINE r == [w[k] EXCEPT !.pc = IF w[k].pc = "swept" THEN "curve" ELSE "dark"]
<1>1. w' = [w EXCEPT ![k] = r]
  BY DEF EndCurve
<1>2. r \in Worker /\ r.pc = IF w[k].pc = "swept" THEN "curve" ELSE "dark"
  BY DEF TypeOK, Worker, PCs
<1>3. w' \in [Kinds -> Worker] /\ Elsewhere(k) /\ w'[k] = r
  BY <1>1, <1>2 DEF TypeOK, Elsewhere
<1> QED BY <1>2, <1>3

LEMMA HeatWorker ==
    ASSUME TypeOK, NEW k \in Kinds, PrepareHeating(k)
    PROVE  /\ w' \in [Kinds -> Worker] /\ Elsewhere(k)
           /\ \/ /\ k = "Heat" /\ w'[k].pc = "idle" /\ UNCHANGED <<bias, mag, heater>>
              \/ /\ w'[k].pc = "light" /\ w'[k].saved = w[k].saved /\ w'[k].magWas = mag
                 /\ Set({"imag"}, [imag |-> IF k = "Heat" /\ mag THEN "lost"
                                            ELSE MagnetsAfter(FALSE)])
                 /\ mag' = FALSE /\ heater' = FALSE
<1>1. CASE k = "Heat" /\ Goto(k, "idle") /\ UNCHANGED <<bias, mag, heater>>
  BY <1>1, GotoWorker DEF PCs
<1>2. CASE /\ Set({"imag"}, [imag |-> IF k = "Heat" /\ mag THEN "lost"
                                      ELSE MagnetsAfter(FALSE)])
           /\ mag' = FALSE /\ heater' = FALSE
           /\ w' = [w EXCEPT ![k].pc = "light", ![k].magWas = mag]
  <2> DEFINE r == [w[k] EXCEPT !.pc = "light", !.magWas = mag]
  <2>1. w' = [w EXCEPT ![k] = r]
    BY <1>2
  <2>2. /\ r \in Worker /\ r.pc = "light" /\ r.saved = w[k].saved /\ r.magWas = mag
    BY DEF TypeOK, Worker, PCs
  <2>3. w' \in [Kinds -> Worker] /\ Elsewhere(k) /\ w'[k] = r
    BY <2>1, <2>2 DEF TypeOK, Elsewhere
  <2>4. /\ w'[k].pc = "light" /\ w'[k].saved = w[k].saved /\ w'[k].magWas = mag
    BY <2>2, <2>3
  <2> HIDE DEF r
  <2> QED BY <1>2, <2>3, <2>4
<1> QED BY <1>1, <1>2 DEF PrepareHeating

(* A stop request is all that a host call changes in a worker. *)
LEMMA StopRequests ==
    ASSUME TypeOK, AbortMeasurement \/ DisableHeaters
    PROVE  /\ w' \in [Kinds -> Worker]
           /\ \A k \in Kinds : /\ w'[k].pc = w[k].pc /\ w'[k].saved = w[k].saved
                               /\ w'[k].magWas = w[k].magWas
<1>1. CASE AbortMeasurement
  <2> DEFINE stop(k) == \/ w[k].stop
                        \/ /\ k \in Busy \ {"VErr", "Health"}
                           /\ (w[k].pc = "top" \/ k \in Stoppable)
  <2>1. w' = [k \in Kinds |-> [w[k] EXCEPT !.stop = stop(k)]]
    BY <1>1 DEF AbortMeasurement, TypeOK, Worker
  <2>2. \A k \in Kinds : stop(k) \in BOOLEAN
    OBVIOUS
  <2> HIDE DEF stop
  <2> QED BY <2>1, <2>2 DEF TypeOK, Worker
<1>2. CASE DisableHeaters
  <2> DEFINE stop(k) == w[k].stop \/ (k = "Heat" /\ w[k].pc = "top")
  <2>1. w' = [k \in Kinds |-> [w[k] EXCEPT !.stop = stop(k)]]
    BY <1>2 DEF DisableHeaters, TypeOK, Worker
  <2>2. \A k \in Kinds : stop(k) \in BOOLEAN
    OBVIOUS
  <2> HIDE DEF stop
  <2> QED BY <2>1, <2>2 DEF TypeOK, Worker
<1> QED BY <1>1, <1>2

(* Where a step of a worker leaves it, and what it does not touch. *)
LEMMA WorkWorker ==
    ASSUME TypeOK, NEW k \in Kinds, Work(k)
    PROVE  w' \in [Kinds -> Worker] /\ Elsewhere(k) /\ off' = off
<1>1. CASE EndStopped(k)
  BY <1>1, GotoWorker DEF EndStopped, PCs
<1>2. CASE Begin(k)
  BY <1>2, BeginWorker DEF Begin
<1>3. CASE BeginAtOnce(k)
  BY <1>3, GotoWorker DEF BeginAtOnce, PCs, hw
<1>4. CASE SweepFineLO(k) \/ SweepSISCurrent(k) \/ SweepIFPower(k) \/ MeasureError(k)
  BY <1>4, GotoWorker DEF SweepFineLO, SweepSISCurrent, SweepIFPower, MeasureError, PCs, hw
<1>5. CASE Restore(k) \/ Resume(k) \/ ExitAction(k) \/ AdjustPA(k)
  BY <1>5, GotoWorker DEF Restore, Resume, ExitAction, AdjustPA, PCs
<1>6. CASE SweepCurve(k)
  BY <1>6, SweepWorker DEF SweepCurve
<1>7. CASE EndCurve(k)
  BY <1>7, EndCurveWorker DEF EndCurve
<1>8. CASE EndCurves(k)
  BY <1>8, GotoWorker DEF EndCurves, PCs
<1>9. CASE Demagnetize(k) \/ LeaveDeflux(k)
  BY <1>9, GotoWorker DEF Demagnetize, LeaveDeflux, PCs
<1>10. CASE PrepareHeating(k)
  BY <1>10, HeatWorker DEF PrepareHeating
<1>11. CASE LightHeaters(k) \/ Extinguish(k) \/ EndHeating(k)
  BY <1>11, GotoWorker DEF LightHeaters, Extinguish, EndHeating, PCs, hw
<1>12. CASE KeepHeating(k)
  BY <1>12 DEF KeepHeating, TypeOK, Elsewhere, hw
<1> QED BY <1>1, <1>2, <1>3, <1>4, <1>5, <1>6, <1>7, <1>8, <1>9, <1>10, <1>11, <1>12
        DEF Work

(* The settings keep their type. *)
LEMMA WorkBiasType ==
    ASSUME TypeOK, NEW k \in Kinds, Work(k)
    PROVE  bias' \in [Settings -> Values]
<1> USE DEF TypeOK
<1>1. bias \in [Settings -> Values] /\ w[k].saved \in [Settings -> Values]
  BY WorkerType
<1>2. ASSUME NEW xs, Move(xs) PROVE bias' \in [Settings -> Values]
  <2>1. \A x \in xs : [y \in xs |-> "other"][x] \in Values
    BY DEF Values
  <2> QED BY <1>1, <1>2, <2>1, SetType DEF Move
<1>3. ASSUME NEW xs, PutBack(k, xs) PROVE bias' \in [Settings -> Values]
  BY <1>1, <1>3, SetType DEF PutBack
<1>4. CASE EndStopped(k)
  BY <1>1, <1>4, LoseType DEF EndStopped
<1>5. CASE Begin(k)
  BY <1>1, <1>5, LoseType DEF Begin
<1>6. CASE SweepFineLO(k) \/ SweepSISCurrent(k) \/ MeasureError(k) \/ SweepCurve(k)
  BY <1>2, <1>6 DEF SweepFineLO, SweepSISCurrent, MeasureError, SweepCurve
<1>7. CASE Restore(k)
  <2>1. CASE k = "VErr"
    <3> DEFINE f == [w[k].saved EXCEPT !["imag"] = IF w[k].magWas THEN w[k].saved["imag"]
                                                   ELSE MagnetsAfter(FALSE)]
    <3>1. f \in [Settings -> Values]
      BY <1>1, MagnetsAfterType DEF Settings
    <3>2. Set({"vj", "imag"}, f)
      BY <1>7, <2>1 DEF Restore
    <3> HIDE DEF f
    <3> QED BY <1>1, <3>1, <3>2, SetType
  <2> QED BY <1>3, <1>7, <2>1 DEF Restore
<1>8. CASE ExitAction(k)
  <2> DEFINE f == [w[k].saved EXCEPT !["lo"] = "lost"]
  <2>1. f \in [Settings -> Values]
    BY <1>1 DEF Values
  <2>2. Set(Moves(k), f) \/ PutBack(k, Moves(k))
    BY <1>8 DEF ExitAction
  <2> HIDE DEF f
  <2> QED BY <1>1, <1>3, <2>1, <2>2, SetType
<1>9. CASE AdjustPA(k)
  <2>1. [vd |-> "host"]["vd"] \in Values
    BY DEF Values
  <2>2. CASE Set({"vd"}, [vd |-> "host"])
    BY <1>1, <2>1, <2>2, SetType
  <2> QED BY <1>1, <1>9, <2>2 DEF AdjustPA
<1>10. CASE EndCurve(k)
  BY <1>1, <1>3, <1>10, LoseType DEF EndCurve
<1>11. CASE Demagnetize(k)
  BY <1>1, <1>11, SetType, ZeroedType DEF Demagnetize, Clear
<1>12. CASE LeaveDeflux(k)
  BY <1>1, <1>12, LoseType DEF LeaveDeflux
<1>13. CASE PrepareHeating(k)
  <2> DEFINE f == [imag |-> IF k = "Heat" /\ mag THEN "lost" ELSE MagnetsAfter(FALSE)]
  <2>1. f["imag"] \in Values
    BY MagnetsAfterType DEF Values
  <2>2. bias' = bias \/ Set({"imag"}, f)
    BY <1>13 DEF PrepareHeating
  <2> HIDE DEF f
  <2> QED BY <1>1, <2>1, <2>2, SetType
<1>14. CASE EndHeating(k)
  <2> DEFINE f == [imag |-> MagnetsAfter(w[k].magWas)]
  <2>1. f["imag"] \in Values
    BY WorkerType, MagnetsAfterType
  <2>2. Set({"imag"}, f)
    BY <1>14 DEF EndHeating
  <2> HIDE DEF f
  <2> QED BY <1>1, <2>1, <2>2, SetType
<1>15. CASE \/ BeginAtOnce(k) \/ SweepIFPower(k) \/ Resume(k) \/ EndCurves(k)
            \/ LightHeaters(k) \/ KeepHeating(k) \/ Extinguish(k)
  BY <1>1, <1>15 DEF BeginAtOnce, SweepIFPower, Resume, EndCurves, LightHeaters,
                     KeepHeating, Extinguish, hw
<1> QED BY <1>4, <1>5, <1>6, <1>7, <1>8, <1>9, <1>10, <1>11, <1>12, <1>13, <1>14, <1>15
        DEF Work

(* The flags, the monitors and the heating. *)
LEMMA WorkRestType ==
    ASSUME TypeOK, NEW k \in Kinds, Work(k)
    PROVE  /\ sis' \in BOOLEAN /\ mag' \in BOOLEAN /\ pa' \in BOOLEAN
           /\ paused' \subseteq Devices /\ abandoned' \in BOOLEAN
           /\ heater' \in BOOLEAN /\ heatStop' \in BOOLEAN /\ left' \in 0..MaxHeat
<1> USE DEF TypeOK
<1>1. w[k].magWas \in BOOLEAN
  BY WorkerType
<1>2. ASSUME NEW devices, ResumeMonitor(devices)
      PROVE  paused' \subseteq Devices /\ abandoned' \in BOOLEAN
  BY <1>2 DEF ResumeMonitor
<1>3. CASE \/ EndStopped(k) \/ Begin(k) \/ BeginAtOnce(k) \/ SweepFineLO(k)
           \/ SweepSISCurrent(k) \/ SweepIFPower(k) \/ MeasureError(k)
  BY <1>3 DEF EndStopped, Begin, BeginAtOnce, SweepFineLO, SweepSISCurrent, SweepIFPower,
              MeasureError, hw, heating, Devices
<1>4. CASE Restore(k) \/ Resume(k) \/ ExitAction(k)
  <2>1. paused' \subseteq Devices /\ abandoned' \in BOOLEAN
    BY <1>2, <1>4 DEF Restore, Resume, ExitAction
  <2> QED BY <1>1, <1>4, <2>1 DEF Restore, Resume, ExitAction, heating
<1>5. CASE \/ AdjustPA(k) \/ SweepCurve(k) \/ EndCurve(k) \/ EndCurves(k)
           \/ Demagnetize(k) \/ LeaveDeflux(k)
  BY <1>5 DEF AdjustPA, SweepCurve, EndCurve, EndCurves, Demagnetize, LeaveDeflux, heating
<1>6. CASE PrepareHeating(k)
  <2>1. 0 \in 0..MaxHeat
    BY MaxHeatAssumption
  <2>2. mag' \in BOOLEAN /\ heater' \in BOOLEAN
    BY <1>6, HeatWorker
  <2> QED BY <1>6, <2>1, <2>2 DEF PrepareHeating
<1>7. CASE LightHeaters(k) \/ KeepHeating(k) \/ Extinguish(k)
  <2>1. heater' \in BOOLEAN
    BY <1>7 DEF LightHeaters, KeepHeating, Extinguish
  <2>2. left' \in 0..MaxHeat
    <3>1. MaxHeat \in Nat /\ left \in 0..MaxHeat
      BY MaxHeatAssumption
    <3>2. left' = MaxHeat \/ left' = left \/ (left > 0 /\ left' = left - 1)
      BY <1>7 DEF LightHeaters, KeepHeating, Extinguish
    <3> QED BY <3>1, <3>2
  <2> QED BY <1>7, <2>1, <2>2 DEF LightHeaters, KeepHeating, Extinguish, hw
<1>8. CASE EndHeating(k)
  BY <1>1, <1>8, MaxHeatAssumption DEF EndHeating
<1> QED BY <1>3, <1>4, <1>5, <1>6, <1>7, <1>8 DEF Work

LEMMA HostType ==
    ASSUME TypeOK, Host
    PROVE  TypeOK'
<1> USE DEF TypeOK
<1>1. {"vj"} \subseteq Settings /\ {"imag"} \subseteq Settings /\ {"vd"} \subseteq Settings
  BY DEF Settings
<1>2. ASSUME NEW on \in BOOLEAN, SetSISBias(on) PROVE TypeOK'
  BY <1>1, <1>2, AskType DEF SetSISBias, heating
<1>3. ASSUME NEW on \in BOOLEAN, SetSISMagnet(on) PROVE TypeOK'
  BY <1>1, <1>3, AskType DEF SetSISMagnet, heating
<1>4. ASSUME NEW on \in BOOLEAN, SetLOPowerAmps(on) PROVE TypeOK'
  <2>1. bias' \in [Settings -> Values] /\ off' \subseteq CanBeOff
    <3>1. Ask({"vd"}, {}) \/ Ask({"vd"}, {"vd"}) \/ UNCHANGED <<bias, off>>
      BY <1>4 DEF SetLOPowerAmps
    <3>2. CASE Ask({"vd"}, {})
      BY <1>1, <3>2, AskType
    <3>3. CASE Ask({"vd"}, {"vd"})
      BY <1>1, <3>3, AskType
    <3>4. CASE UNCHANGED <<bias, off>>
      BY <3>4
    <3> QED BY <3>1, <3>2, <3>3, <3>4
  <2> QED BY <1>4, <2>1 DEF SetLOPowerAmps, heating
<1>5. CASE SetVJVD
  <2>1. PICK xs \in (SUBSET {"vj", "vd"}) \ {{}} : Ask(xs, {})
    BY <1>5 DEF SetVJVD
  <2>2. xs \in SUBSET Settings
    BY DEF Settings
  <2>3. bias' \in [Settings -> Values] /\ off' \subseteq CanBeOff
    BY <2>1, <2>2, AskType
  <2> QED BY <1>5, <2>3 DEF SetVJVD, heating
<1>6. CASE SetLOFrequency
  <2>1. bias' \in [Settings -> Values] /\ off' \subseteq CanBeOff
    <3>1. {"lo"} \in SUBSET Settings
      BY DEF Settings
    <3>2. PICK asked \in SUBSET {"lo"} : Ask({"lo"}, asked)
      BY <1>6 DEF SetLOFrequency
    <3> QED BY <3>1, <3>2, AskType
  <2> QED BY <1>6, <2>1 DEF SetLOFrequency, heating
<1>7. CASE ClearEnable
  <2>1. bias' \in [Settings -> Values] /\ off' \subseteq CanBeOff
    BY <1>7, AskType DEF ClearEnable
  <2>2. 0 \in 0..MaxHeat
    BY MaxHeatAssumption
  <2> QED BY <1>7, <2>1, <2>2 DEF ClearEnable
<1>8. ASSUME NEW k \in Kinds, Start(k) PROVE TypeOK'
  <2>1. bias' \in [Settings -> Values]
    <3>1. CASE k = "IFPower"
      <4>1. PICK x \in {"vj", "vd"} :
               bias' = Lose([bias EXCEPT ![x] = IF bias[x] = "lost" THEN bias[x] ELSE "other"],
                            Shared(k))
        BY <1>8, <3>1 DEF Start, StartIFPower
      <4> DEFINE b == [bias EXCEPT ![x] = IF bias[x] = "lost" THEN bias[x] ELSE "other"]
      <4>2. b \in [Settings -> Values]
        BY DEF Values
      <4>3. bias' = Lose(b, Shared(k))
        BY <4>1
      <4> HIDE DEF b
      <4> QED BY <4>2, <4>3, LoseType
    <3>2. CASE k # "IFPower"
      BY <1>8, <3>2, LoseType DEF Start
    <3> QED BY <3>1, <3>2
  <2>2. paused' \subseteq Devices
    BY <1>8 DEF Start, StartIFPower, Devices
  <2> QED BY <1>8, <2>1, <2>2, StartWorker DEF Start, StartIFPower, heating
<1>9. CASE AbortMeasurement
  BY <1>9, StopRequests DEF AbortMeasurement, hw
<1>10. CASE DisableHeaters
  BY <1>10, StopRequests DEF DisableHeaters, hw
<1> QED BY <1>2, <1>3, <1>4, <1>5, <1>6, <1>7, <1>8, <1>9, <1>10 DEF Host

(* Every variable keeps its type, and the heating timer never runs below    *)
(* zero.                                                                    *)
THEOREM TypeCorrect == Spec => []TypeOK
<1>1. Init => TypeOK
  <2> SUFFICES ASSUME Init PROVE TypeOK
    OBVIOUS
  <2>1. IdleWorker \in Worker
    BY DEF IdleWorker, Worker, PCs, Values
  <2>2. w \in [Kinds -> Worker]
    BY <2>1 DEF Init
  <2>3. bias \in [Settings -> Values]
    BY DEF Init, Values
  <2>4. 0 \in 0..MaxHeat
    BY MaxHeatAssumption
  <2> QED BY <2>2, <2>3, <2>4 DEF Init, TypeOK
<1>2. TypeOK /\ [Next]_vars => TypeOK'
  <2> SUFFICES ASSUME TypeOK, [Next]_vars PROVE TypeOK'
    OBVIOUS
  <2>1. CASE Host
    BY <2>1, HostType
  <2>2. CASE HeaterTrips
    BY <2>2 DEF HeaterTrips, TypeOK, hw
  <2>3. ASSUME NEW k \in Kinds, Work(k) PROVE TypeOK'
    BY <2>3, WorkWorker, WorkBiasType, WorkRestType DEF TypeOK
  <2>4. CASE UNCHANGED vars
    BY <2>4 DEF vars, hw, heating, TypeOK
  <2> QED BY <2>1, <2>2, <2>3, <2>4 DEF Next
<1> QED BY <1>1, <1>2, PTL DEF Spec

-----------------------------------------------------------------------------
(* Monitors.                                                                *)

(* Where a worker of each kind can be. *)
Phases(k) ==
    CASE k \in {"IV", "Health"} -> {"top", "curve", "swept", "dark", "unlit", "resume"}
      [] k = "LOPA" -> {"top", "work", "resume"}
      [] k \in {"IFPower", "FineLO"} -> {"top", "work", "exit"}
      [] k \in {"VErr", "SISCurr"} -> {"top", "work", "restore"}
      [] k = "Deflux" -> {"top", "work", "moved", "heat", "light", "hot", "cool", "restore"}
      [] k = "Heat" -> {"top", "heat", "light", "hot", "cool"}

PhaseInv == \A k \in Kinds : w[k].pc \in Phases(k) \cup {"idle"}

(* A worker that will let the monitors go on. *)
Pauses(k) ==
    /\ k # "Heat" /\ w[k].pc # "idle"
    /\ w[k].pc = "top" => k = "IFPower"

PauseInv ==
    ~abandoned =>
        /\ "CC" \in paused => \E k \in Kinds : Pauses(k)
        /\ "WCA" \in paused => \E k \in Kinds \ {"SISCurr", "IFPower"} : Pauses(k)

LEMMA OnePhase ==
    ASSUME NEW k \in Kinds, PhaseInv, TypeOK, w' \in [Kinds -> Worker], Elsewhere(k),
           w'[k].pc \in Phases(k) \cup {"idle"}
    PROVE  PhaseInv'
  BY DEF PhaseInv, Elsewhere, Phases

LEMMA WorkPhase ==
    ASSUME TypeOK, PhaseInv, NEW k \in Kinds, Work(k)
    PROVE  PhaseInv'
<1>1. k \in AllKinds /\ w[k].pc \in Phases(k) \cup {"idle"}
  BY KindsAssumption DEF PhaseInv
<1>2. w' \in [Kinds -> Worker] /\ Elsewhere(k)
  BY WorkWorker
<1> SUFFICES w'[k].pc \in Phases(k) \cup {"idle"}
  BY <1>2, OnePhase
<1> USE <1>1 DEF Phases, AllKinds
<1>3. CASE EndStopped(k)
  BY <1>3, GotoWorker DEF EndStopped, PCs
<1>4. CASE Begin(k)
  <2>1. k \notin {"IFPower", "Heat"}
    BY <1>4 DEF Begin
  <2>2. w'[k].pc = IF k \in {"IV", "Health"} THEN "curve" ELSE "work"
    BY <1>4, BeginWorker
  <2>3. CASE k \in {"IV", "Health"}
    BY <2>2, <2>3
  <2>4. CASE k \notin {"IV", "Health"}
    BY <2>1, <2>2, <2>4
  <2> QED BY <2>3, <2>4
<1>5. CASE BeginAtOnce(k)
  BY <1>5, GotoWorker DEF BeginAtOnce, PCs
<1>6. CASE SweepFineLO(k) \/ SweepSISCurrent(k) \/ SweepIFPower(k) \/ MeasureError(k)
  BY <1>6, GotoWorker DEF SweepFineLO, SweepSISCurrent, SweepIFPower, MeasureError, PCs
<1>7. CASE Restore(k) \/ Resume(k) \/ ExitAction(k) \/ AdjustPA(k)
  BY <1>7, GotoWorker DEF Restore, Resume, ExitAction, AdjustPA, PCs
<1>8. CASE SweepCurve(k)
  <2>1. k \in {"IV", "Health"}
    BY <1>8 DEF SweepCurve
  <2>2. w'[k].pc \in {"swept", "unlit"}
    BY <1>8, SweepWorker
  <2> QED BY <2>1, <2>2
<1>9. CASE EndCurve(k)
  BY <1>9, EndCurveWorker DEF EndCurve
<1>10. CASE EndCurves(k)
  BY <1>10, GotoWorker DEF EndCurves, PCs
<1>11. CASE Demagnetize(k) \/ LeaveDeflux(k)
  BY <1>11, GotoWorker DEF Demagnetize, LeaveDeflux, PCs
<1>12. CASE PrepareHeating(k)
  BY <1>12, HeatWorker DEF PrepareHeating
<1>13. CASE LightHeaters(k) \/ Extinguish(k) \/ EndHeating(k)
  BY <1>13, GotoWorker DEF LightHeaters, Extinguish, EndHeating, PCs
<1>14. CASE KeepHeating(k)
  BY <1>14 DEF KeepHeating
<1> QED BY <1>3, <1>4, <1>5, <1>6, <1>7, <1>8, <1>9, <1>10, <1>11, <1>12, <1>13, <1>14
        DEF Work

LEMMA PhaseStep ==
    ASSUME TypeOK, PhaseInv, [Next]_vars
    PROVE  PhaseInv'
<1>1. ASSUME NEW k \in Kinds, Work(k) PROVE PhaseInv'
  BY <1>1, WorkPhase
<1>2. ASSUME NEW k \in Kinds, Start(k) PROVE PhaseInv'
  <2>1. "top" \in Phases(k)
    BY KindsAssumption DEF Phases, AllKinds
  <2> QED BY <1>2, <2>1, StartWorker, OnePhase
<1>3. CASE AbortMeasurement \/ DisableHeaters
  BY <1>3, StopRequests DEF PhaseInv, Phases
<1>4. CASE w' = w
  BY <1>4 DEF PhaseInv, Phases
<1>5. \/ w' = w \/ AbortMeasurement \/ DisableHeaters
      \/ \E k \in Kinds : Start(k) \/ Work(k)
  BY DEF Next, Host, SetSISBias, SetSISMagnet, SetLOPowerAmps, SetVJVD, SetLOFrequency,
         ClearEnable, HeaterTrips, vars
<1> QED BY <1>1, <1>2, <1>3, <1>4, <1>5

(* The other workers go on holding the monitors back. *)
LEMMA OthersPause ==
    ASSUME NEW k \in Kinds, Elsewhere(k)
    PROVE  \A j \in Kinds \ {k} : Pauses(j)' <=> Pauses(j)
  BY DEF Elsewhere, Pauses

(* What the last of them resumes. *)
LEMMA LastResumes ==
    ASSUME TypeOK, PauseInv, NEW k \in Kinds, Elsewhere(k), NEW devices,
           ResumeMonitor(devices), "CC" \in devices,
           k \notin {"SISCurr", "IFPower"} => "WCA" \in devices
    PROVE  PauseInv'
<1>1. "CC" \notin paused' /\ (k \notin {"SISCurr", "IFPower"} => "WCA" \notin paused')
  BY DEF ResumeMonitor
<1>2. SUFFICES ASSUME ~abandoned', "WCA" \in paused'
               PROVE  \E j \in Kinds \ {"SISCurr", "IFPower"} : Pauses(j)'
  BY <1>1 DEF PauseInv
<1>3. ~abandoned /\ "WCA" \in paused
  BY <1>2 DEF ResumeMonitor, TypeOK
<1>4. PICK j \in Kinds \ {"SISCurr", "IFPower"} : Pauses(j)
  BY <1>3 DEF PauseInv
<1>5. j # k
  BY <1>1, <1>2
<1> QED BY <1>4, <1>5, OthersPause

(* A worker that goes on, or begins, and holds the monitors back after it. *)
LEMMA HolderPauses ==
    ASSUME PauseInv, NEW k \in Kinds, Elsewhere(k), Pauses(k)',
           paused' \subseteq paused \/ k \notin {"SISCurr", "IFPower"}
             \/ paused' = paused \cup {"CC"},
           abandoned' = abandoned
    PROVE  PauseInv'
<1>1. \A j \in Kinds : Pauses(j) => Pauses(j)'
  BY OthersPause
<1> QED BY <1>1 DEF PauseInv

(* A worker that does not pause the monitors before or after. *)
LEMMA BystanderPauses ==
    ASSUME PauseInv, NEW k \in Kinds, Elsewhere(k), ~Pauses(k),
           UNCHANGED <<paused, abandoned>>
    PROVE  PauseInv'
  BY OthersPause DEF PauseInv

LEMMA WorkPause ==
    ASSUME TypeOK, PhaseInv, PauseInv, NEW k \in Kinds, Work(k)
    PROVE  PauseInv'
<1>1. k \in AllKinds /\ w[k].pc \in Phases(k) \cup {"idle"}
  BY KindsAssumption DEF PhaseInv
<1>2. Elsewhere(k)
  BY WorkWorker
<1>3. CASE EndStopped(k)
  <2>1. UNCHANGED <<paused, abandoned>> /\ w[k].pc = "top"
    BY <1>3 DEF EndStopped
  <2>2. CASE k = "IFPower"
    <3>1. Pauses(k)'
      BY <1>3, <2>2, GotoWorker DEF EndStopped, Pauses, PCs
    <3> QED BY <1>2, <2>1, <3>1, HolderPauses
  <2>3. CASE k # "IFPower"
    BY <1>2, <2>1, <2>3, BystanderPauses DEF Pauses
  <2> QED BY <2>2, <2>3
<1>4. CASE Begin(k)
  <2>1. Pauses(k)' /\ abandoned' = abandoned
    <3>1. w'[k].pc \notin {"idle", "top"}
      BY <1>4, BeginWorker
    <3>2. k # "Heat" /\ abandoned' = abandoned
      BY <1>4 DEF Begin
    <3> QED BY <3>1, <3>2 DEF Pauses
  <2>2. k = "SISCurr" => paused' = paused \cup {"CC"}
    BY <1>4 DEF Begin
  <2> QED BY <1>2, <1>4, <2>1, <2>2, HolderPauses DEF Begin
<1>5. CASE Restore(k)
  <2>1. ResumeMonitor(IF k = "SISCurr" THEN {"CC"} ELSE Devices) /\ k # "IFPower"
    BY <1>1, <1>5 DEF Restore, Phases
  <2> QED BY <1>2, <2>1, LastResumes DEF Devices
<1>6. CASE Resume(k)
  <2>1. ResumeMonitor(Devices)
    BY <1>6 DEF Resume
  <2> QED BY <1>2, <2>1, LastResumes DEF Devices
<1>7. CASE ExitAction(k)
  <2>1. ResumeMonitor(IF k = "FineLO" THEN Devices ELSE {"CC"}) /\ k \in {"FineLO", "IFPower"}
    BY <1>1, <1>7 DEF ExitAction, Phases, AllKinds
  <2> QED BY <1>2, <2>1, LastResumes DEF Devices
<1>8. CASE LeaveDeflux(k)
  <2>1. CASE w[k].stop
    BY <1>8, <2>1 DEF LeaveDeflux, PauseInv
  <2>2. CASE ~w[k].stop
    <3>1. Pauses(k)'
      BY <1>1, <1>8, <2>2, GotoWorker DEF LeaveDeflux, Phases, Pauses, PCs
    <3> QED BY <1>2, <1>8, <2>2, <3>1, HolderPauses DEF LeaveDeflux
  <2> QED BY <2>1, <2>2
<1>9. CASE k = "Heat" /\ UNCHANGED <<paused, abandoned>>
  BY <1>2, <1>9, BystanderPauses DEF Pauses
<1>10. CASE k # "Heat" /\ UNCHANGED <<paused, abandoned>> /\ w'[k].pc \notin {"idle", "top"}
  BY <1>2, <1>10, HolderPauses DEF Pauses
<1>11. CASE \/ BeginAtOnce(k) \/ SweepFineLO(k) \/ SweepSISCurrent(k) \/ SweepIFPower(k)
            \/ MeasureError(k) \/ AdjustPA(k) \/ EndCurves(k) \/ Demagnetize(k)
            \/ LightHeaters(k) \/ Extinguish(k)
  <2>1. UNCHANGED <<paused, abandoned>>
    BY <1>11 DEF BeginAtOnce, SweepFineLO, SweepSISCurrent, SweepIFPower, MeasureError,
                 AdjustPA, EndCurves, Demagnetize, LightHeaters, Extinguish
  <2>2. w'[k].pc \notin {"idle", "top"}
    BY <1>11, GotoWorker
       DEF BeginAtOnce, SweepFineLO, SweepSISCurrent, SweepIFPower, MeasureError,
           AdjustPA, EndCurves, Demagnetize, LightHeaters, Extinguish, PCs
  <2> QED BY <1>9, <1>10, <2>1, <2>2
<1>12. CASE SweepCurve(k) \/ EndCurve(k)
  <2>1. UNCHANGED <<paused, abandoned>>
    BY <1>12 DEF SweepCurve, EndCurve
  <2>2. w'[k].pc \notin {"idle", "top"}
    BY <1>12, SweepWorker, EndCurveWorker
  <2> QED BY <1>9, <1>10, <2>1, <2>2
<1>13. CASE PrepareHeating(k)
  <2>1. UNCHANGED <<paused, abandoned>>
    BY <1>13 DEF PrepareHeating
  <2>2. k = "Heat" \/ w'[k].pc \notin {"idle", "top"}
    BY <1>13, HeatWorker
  <2> QED BY <1>9, <1>10, <2>1, <2>2
<1>14. CASE KeepHeating(k)
  <2>1. UNCHANGED <<paused, abandoned, w>>
    BY <1>14 DEF KeepHeating
  <2> QED BY <2>1 DEF PauseInv, Pauses
<1>15. CASE EndHeating(k)
  <2>1. UNCHANGED <<paused, abandoned>> /\ k \in {"Heat", "Deflux"}
    BY <1>1, <1>15 DEF EndHeating, Phases, AllKinds
  <2>2. k = "Heat" \/ w'[k].pc \notin {"idle", "top"}
    BY <1>15, <2>1, GotoWorker DEF EndHeating, PCs
  <2> QED BY <1>9, <1>10, <2>1, <2>2
<1> QED BY <1>3, <1>4, <1>5, <1>6, <1>7, <1>8, <1>11, <1>12, <1>13, <1>14, <1>15 DEF Work

(* When the measurements are over the monitors of the cartridge run again   *)
(* (pauseMonitor and resumeMonitor of the OPTIMIZE workers), however many   *)
(* overlap: a stopped MixerDeflux excepted.                                 *)
THEOREM MonitorsResumedHolds == Spec => []MonitorsResumed
<1>1. Init => PhaseInv /\ PauseInv
  BY DEF Init, IdleWorker, PhaseInv, PauseInv
<1>2. TypeOK /\ PhaseInv /\ PauseInv /\ [Next]_vars => PauseInv'
  <2> SUFFICES ASSUME TypeOK, PhaseInv, PauseInv, [Next]_vars PROVE PauseInv'
    OBVIOUS
  <2>1. ASSUME NEW k \in Kinds, Work(k) PROVE PauseInv'
    BY <2>1, WorkPause
  <2>2. ASSUME NEW k \in Kinds, Start(k) PROVE PauseInv'
    <3>1. Elsewhere(k) /\ w'[k].pc = "top" /\ w[k].pc = "idle" /\ abandoned' = abandoned
      BY <2>2, StartWorker DEF Start, Busy
    <3>2. CASE k = "IFPower"
      BY <2>2, <3>1, <3>2, HolderPauses DEF Start, StartIFPower, Pauses
    <3>3. CASE k # "IFPower"
      BY <2>2, <3>1, <3>3, BystanderPauses DEF Start, Pauses
    <3> QED BY <3>2, <3>3
  <2>3. CASE AbortMeasurement \/ DisableHeaters
    <3>1. \A k \in Kinds : Pauses(k)' <=> Pauses(k)
      BY <2>3, StopRequests DEF Pauses
    <3>2. UNCHANGED <<paused, abandoned>>
      BY <2>3 DEF AbortMeasurement, DisableHeaters
    <3> QED BY <3>1, <3>2 DEF PauseInv
  <2>4. CASE UNCHANGED <<w, paused, abandoned>>
    BY <2>4 DEF PauseInv, Pauses
  <2>5. \/ UNCHANGED <<w, paused, abandoned>> \/ AbortMeasurement \/ DisableHeaters
        \/ \E k \in Kinds : Start(k) \/ Work(k)
    BY DEF Next, Host, SetSISBias, SetSISMagnet, SetLOPowerAmps, SetVJVD, SetLOFrequency,
           ClearEnable, HeaterTrips, vars
  <2> QED BY <2>1, <2>2, <2>3, <2>4, <2>5
<1>3. TypeOK /\ PauseInv => MonitorsResumed
  BY DEF TypeOK, Devices, PauseInv, MonitorsResumed, Busy, Pauses
<1> QED BY <1>1, <1>2, <1>3, PhaseStep, TypeCorrect, PTL DEF Spec

-----------------------------------------------------------------------------
(* The bias.                                                                *)

(* Where a worker has moved a setting that it will put back. *)
Dirty(k) ==
    \/ k = "IFPower" /\ w[k].pc \in {"top", "work", "exit"}
    \/ k = "FineLO" /\ w[k].pc = "exit"
    \/ k \in {"SISCurr", "VErr"} /\ w[k].pc = "restore"
    \/ k \in {"IV", "Health"} /\ w[k].pc \in {"swept", "unlit"}
    \/ k = "Deflux" /\ w[k].pc \in {"moved", "heat", "light", "hot", "cool", "restore"}

(* Where what it has saved matters. *)
Keeps(k) ==
    \/ Dirty(k)
    \/ k \in {"FineLO", "SISCurr", "VErr", "Deflux"} /\ w[k].pc = "work"

(* Where it remembers whether the magnets were on. *)
Heated(k) == w[k].pc \in {"light", "hot", "cool"}
Remembers(k) == Heated(k) \/ (k = "VErr" /\ w[k].pc \in {"work", "restore"})

(* Magnets that are disabled are off because the host asked for that, or    *)
(* because MixerDeflux heats and will enable them.                          *)
MagnetsKnown(k) ==
    /\ mag \/ "imag" \in off \/ (k = "Deflux" /\ Heated(k) /\ w[k].magWas)
    /\ Remembers(k) => w[k].magWas \/ "imag" \in off
    /\ k = "VErr" /\ w[k].pc = "restore" => mag

(* Worker k is the only one to move x, and will put it back. *)
Good(k, x) ==
    /\ bias[x] = "host" \/ Dirty(k)
    /\ Keeps(k) => w[k].saved[x] = "host"
    /\ x = "imag" => MagnetsKnown(k)

Clean(x) == bias[x] = "host" /\ (x = "imag" => mag \/ "imag" \in off)

BiasAt(x) ==
    \/ bias[x] = "lost"
    \/ Clean(x) /\ \A k \in Busy : x \notin Moves(k)
    \/ \E k \in Busy : Good(k, x) /\ \A j \in Busy : x \in Moves(j) <=> j = k

BiasInv == \A x \in Settings : BiasAt(x)

(* A setting no step has touched. *)
LEMMA SameBias ==
    ASSUME TypeOK, TypeOK', NEW x \in Settings, BiasAt(x), bias'[x] = bias[x],
           \A k \in Kinds : /\ w'[k].pc = w[k].pc /\ w'[k].saved = w[k].saved
                            /\ w'[k].magWas = w[k].magWas,
           x = "imag" => ("imag" \in off => "imag" \in off') /\ (mag => mag')
    PROVE  BiasAt(x)'
<1>1. Busy' = Busy
  BY DEF Busy
<1>2. \A k \in Kinds : /\ Dirty(k)' <=> Dirty(k)
                       /\ Keeps(k)' <=> Keeps(k)
                       /\ Heated(k)' <=> Heated(k)
                       /\ Remembers(k)' <=> Remembers(k)
  BY DEF Dirty, Keeps, Heated, Remembers
<1>3. \A k \in Kinds : Moves(k)' = Moves(k)
  BY DEF Moves
<1>4. CASE bias[x] = "lost"
  BY <1>4 DEF BiasAt
<1>5. CASE Clean(x) /\ \A k \in Busy : x \notin Moves(k)
  <2>1. Clean(x)'
    BY <1>5 DEF Clean
  <2> QED BY <1>1, <1>3, <1>5, <2>1 DEF BiasAt
<1>6. CASE \E k \in Busy : Good(k, x) /\ \A j \in Busy : x \in Moves(j) <=> j = k
  <2>1. PICK k \in Busy : Good(k, x) /\ \A j \in Busy : x \in Moves(j) <=> j = k
    BY <1>6
  <2>2. k \in Kinds
    BY DEF Busy
  <2>3. x = "imag" => MagnetsKnown(k)'
    BY <1>2, <2>1, <2>2 DEF Good, MagnetsKnown
  <2>4. Good(k, x)'
    BY <1>2, <2>1, <2>2, <2>3 DEF Good
  <2> QED BY <1>1, <1>3, <2>1, <2>4 DEF BiasAt, Busy
<1> QED BY <1>4, <1>5, <1>6 DEF BiasAt

(* A step of worker k: the settings it does not move stay, and with those   *)
(* it moves alone it does well.                                             *)
LEMMA OwnBias ==
    ASSUME TypeOK, TypeOK', BiasInv, NEW k \in Busy, Elsewhere(k), off' = off,
           \A x \in Settings : bias[x] = "lost" => bias'[x] = "lost",
           \A x \in Settings \ Moves(k) : bias'[x] = bias[x],
           "imag" \notin Moves(k) => mag' = mag,
           \A x \in Moves(k) : Good(k, x) => bias'[x] = "lost" \/ Good(k, x)'
    PROVE  BiasInv'
<1> SUFFICES ASSUME NEW x \in Settings PROVE BiasAt(x)'
  BY DEF BiasInv
<1>1. BiasAt(x) /\ k \in Kinds
  BY DEF BiasInv, Busy
<1>2. \A j \in Kinds : j # k => (j \in Busy' <=> j \in Busy)
  BY DEF Elsewhere, Busy
<1>3. \A j \in Kinds : Moves(j)' = Moves(j)
  BY DEF Moves
<1>4. CASE bias[x] = "lost"
  BY <1>4 DEF BiasAt
<1>5. CASE bias[x] # "lost" /\ x \in Moves(k)
  <2>1. Good(k, x) /\ \A j \in Busy : x \in Moves(j) <=> j = k
    BY <1>1, <1>5 DEF BiasAt
  <2>2. CASE bias'[x] = "lost"
    BY <2>2 DEF BiasAt
  <2>3. CASE Good(k, x)' /\ k \in Busy'
    <3>1. \A j \in Busy' : x \in Moves(j)' <=> j = k
      BY <1>1, <1>2, <1>3, <1>5, <2>1 DEF Busy
    <3> QED BY <2>3, <3>1 DEF BiasAt
  <2>4. CASE Good(k, x)' /\ k \notin Busy'
    <3>1. w'[k].pc = "idle"
      BY <1>1, <2>4 DEF Busy
    <3>2. Clean(x)'
      BY <2>4, <3>1 DEF Good, Dirty, MagnetsKnown, Heated, Clean
    <3>3. \A j \in Busy' : x \notin Moves(j)'
      BY <1>1, <1>2, <1>3, <2>1, <2>4 DEF Busy
    <3> QED BY <3>2, <3>3 DEF BiasAt
  <2> QED BY <1>5, <2>1, <2>2, <2>3, <2>4
<1>6. CASE bias[x] # "lost" /\ x \notin Moves(k) /\ Clean(x) /\ \A j \in Busy : x \notin Moves(j)
  <2>1. Clean(x)'
    BY <1>6 DEF Clean
  <2>2. \A j \in Busy' : x \notin Moves(j)'
    BY <1>1, <1>2, <1>3, <1>6 DEF Busy
  <2> QED BY <2>1, <2>2 DEF BiasAt
<1>7. CASE /\ bias[x] # "lost" /\ x \notin Moves(k)
           /\ \E i \in Busy : Good(i, x) /\ \A j \in Busy : x \in Moves(j) <=> j = i
  <2>1. PICK i \in Busy : Good(i, x) /\ \A j \in Busy : x \in Moves(j) <=> j = i
    BY <1>7
  <2>2. i \in Kinds /\ i # k /\ w'[i] = w[i]
    BY <1>7, <2>1 DEF Busy, Elsewhere
  <2>3. bias'[x] = bias[x] /\ (x = "imag" => mag' = mag)
    BY <1>7
  <2>4. (Dirty(i)' <=> Dirty(i)) /\ (Keeps(i)' <=> Keeps(i))
    BY <2>2 DEF Dirty, Keeps
  <2>5. x = "imag" => MagnetsKnown(i)'
    BY <2>1, <2>2, <2>3 DEF Good, MagnetsKnown, Remembers, Heated
  <2>6. Good(i, x)'
    BY <2>1, <2>2, <2>3, <2>4, <2>5 DEF Good
  <2>7. i \in Busy' /\ \A j \in Busy' : x \in Moves(j)' <=> j = i
    BY <1>1, <1>2, <1>3, <1>7, <2>1, <2>2 DEF Busy
  <2> QED BY <2>6, <2>7 DEF BiasAt
<1> QED BY <1>1, <1>4, <1>5, <1>6, <1>7 DEF BiasAt

(* How a step of worker k treats a setting: what is lost stays so. *)
LEMMA SetStays ==
    ASSUME TypeOK, NEW xs, NEW f, Set(xs, f)
    PROVE  \A x \in Settings : /\ bias[x] = "lost" => bias'[x] = "lost"
                               /\ x \notin xs => bias'[x] = bias[x]
                               /\ x \in xs /\ bias[x] # "lost" => bias'[x] = f[x]
  BY DEF TypeOK, Set

LEMMA LoseStays ==
    ASSUME TypeOK, NEW xs, bias' = Lose(bias, xs)
    PROVE  \A x \in Settings : /\ x \in xs => bias'[x] = "lost"
                               /\ x \notin xs => bias'[x] = bias[x]
  BY DEF TypeOK, Lose

(* A worker with no more to remember leaves the magnets as the host has     *)
(* them, or they are lost.                                                  *)
LEMMA MagnetsBack ==
    ASSUME TypeOK, NEW k \in Kinds, MagnetsKnown(k), Remembers(k), bias["imag"] = "host",
           NEW val \in BOOLEAN, val = w[k].magWas
    PROVE  MagnetsAfter(val) = "host"
  BY DEF MagnetsKnown, MagnetsAfter, Zeroed

LEMMA WorkBias ==
    ASSUME TypeOK, TypeOK', PhaseInv, BiasInv, NEW k \in Kinds, Work(k)
    PROVE  BiasInv'
<1>1. k \in AllKinds /\ w[k].pc \in Phases(k) \cup {"idle"}
  BY KindsAssumption DEF PhaseInv
<1>2. Elsewhere(k) /\ off' = off /\ Moves(k) \subseteq Settings
  BY WorkWorker, MovesType
<1>3. k \in Busy
  BY DEF Busy, Work, EndStopped, Begin, BeginAtOnce, SweepFineLO, SweepSISCurrent,
         SweepIFPower, MeasureError, Restore, Resume, ExitAction, AdjustPA, SweepCurve,
         EndCurve, EndCurves, Demagnetize, LeaveDeflux, PrepareHeating, LightHeaters,
         KeepHeating, Extinguish, EndHeating
<1>4. w[k].magWas \in BOOLEAN /\ mag \in BOOLEAN
  BY WorkerType DEF TypeOK
(* It is enough to look at what k itself moves. *)
<1>5. ASSUME \A x \in Settings : bias[x] = "lost" => bias'[x] = "lost",
             \A x \in Settings \ Moves(k) : bias'[x] = bias[x],
             "imag" \notin Moves(k) => mag' = mag,
             \A x \in Moves(k) : Good(k, x) => bias'[x] = "lost" \/ Good(k, x)'
      PROVE  BiasInv'
  BY <1>2, <1>3, <1>5, OwnBias
<1>6. CASE EndStopped(k)
  <2>1. w[k].pc = "top" /\ mag' = mag
    BY <1>6 DEF EndStopped
  <2>2. CASE k = "FineLO"
    <3>1. bias' = Lose(bias, Moves(k))
      BY <1>6, <2>2 DEF EndStopped
    <3> QED BY <1>2, <1>5, <2>1, <3>1, LoseStays
  <2>3. CASE k # "FineLO"
    <3>1. bias' = bias
      BY <1>6, <2>3 DEF EndStopped
    <3>2. CASE k = "IFPower"
      <4>1. w'[k].pc = "exit" /\ w'[k].saved = w[k].saved /\ w'[k].magWas = w[k].magWas
        BY <1>6, <3>2, GotoWorker DEF EndStopped, PCs
      <4>2. \A x \in Moves(k) : Good(k, x) => Good(k, x)'
        BY <1>2, <2>1, <3>1, <3>2, <4>1
           DEF Good, Dirty, Keeps, MagnetsKnown, Heated, Remembers, Moves
      <4> QED BY <1>5, <2>1, <3>1, <4>2
    <3>3. CASE k # "IFPower"
      <4>1. w'[k].pc = "idle"
        BY <1>6, <2>3, <3>3, GotoWorker DEF EndStopped, PCs
      <4>2. \A x \in Moves(k) : Good(k, x) => Good(k, x)'
        BY <1>2, <2>1, <3>1, <3>3, <4>1
           DEF Good, Dirty, Keeps, MagnetsKnown, Heated, Remembers
      <4> QED BY <1>5, <2>1, <3>1, <4>2
    <3> QED BY <3>2, <3>3
  <2> QED BY <2>2, <2>3
<1>7. CASE Begin(k)
  <2>1. /\ w[k].pc = "top" /\ mag' = mag /\ k \notin {"IFPower", "Heat"}
        /\ bias' = bias \/ bias' = Lose(bias, {"imag"})
        /\ k # "Deflux" => bias' = bias
    BY <1>7 DEF Begin
  <2>2. /\ w'[k].pc \in {"curve", "work"} /\ (k \in {"IV", "Health"} => w'[k].pc = "curve")
        /\ k \notin {"LOPA", "IV", "Health"} => w'[k].saved = Saved(k)
        /\ k = "VErr" => w'[k].magWas = mag
    BY <1>7, BeginWorker
  <2>3. ~Dirty(k) /\ ~Heated(k)
    BY <2>1 DEF Dirty, Heated
  <2>4. ASSUME NEW x \in Moves(k), Good(k, x), bias'[x] # "lost" PROVE Good(k, x)'
    <3>1. bias[x] = "host" /\ bias'[x] = "host" /\ x \in Settings
      BY <1>2, <2>1, <2>3, <2>4, LoseStays DEF Good
    <3>2. Saved(k)[x] = "host"
      BY <2>4, <3>1 DEF Saved
    <3>3. (Keeps(k) => w[k].saved[x] = "host")'
      BY <2>2, <3>2 DEF Keeps, Dirty
    <3>4. x = "imag" => MagnetsKnown(k)'
      BY <1>2, <2>1, <2>2, <2>3, <2>4 DEF Good, MagnetsKnown, Heated, Remembers
    <3> QED BY <3>1, <3>3, <3>4 DEF Good
  <2>5. \A x \in Settings \ Moves(k) : bias'[x] = bias[x]
    BY <2>1, LoseStays DEF Moves
  <2>6. \A x \in Settings : bias[x] = "lost" => bias'[x] = "lost"
    BY <2>1, LoseStays
  <2> QED BY <1>5, <2>1, <2>4, <2>5, <2>6
(* Steps that move nothing. *)
<1>8. ASSUME UNCHANGED <<bias, mag>>,
             Dirty(k) => Dirty(k)', Heated(k) => Heated(k)',
             Keeps(k)' => Keeps(k) /\ w'[k].saved = w[k].saved,
             Remembers(k)' => Remembers(k) /\ w'[k].magWas = w[k].magWas,
             ~(k = "VErr" /\ w'[k].pc = "restore")
      PROVE  BiasInv'
  <2>1. ASSUME NEW x \in Moves(k), Good(k, x) PROVE Good(k, x)'
    <3>1. x = "imag" => MagnetsKnown(k)'
      BY <1>2, <1>8, <2>1 DEF Good, MagnetsKnown, Remembers
    <3> QED BY <1>8, <2>1, <3>1 DEF Good
  <2> QED BY <1>5, <1>8, <2>1
<1>9. CASE BeginAtOnce(k) \/ SweepIFPower(k) \/ LightHeaters(k) \/ Extinguish(k)
  <2>1. /\ w'[k].saved = w[k].saved /\ w'[k].magWas = w[k].magWas
        /\ UNCHANGED <<bias, mag>>
    BY <1>9, GotoWorker DEF BeginAtOnce, SweepIFPower, LightHeaters, Extinguish, PCs, hw
  <2>2. \/ k = "IFPower" /\ w[k].pc \in {"top", "work"} /\ w'[k].pc \in {"work", "exit"}
        \/ k = "Heat" /\ w[k].pc = "top" /\ w'[k].pc = "heat"
        \/ k \in {"Heat", "Deflux"} /\ Heated(k) /\ w'[k].pc \in {"hot", "cool"}
    BY <1>1, <1>9, GotoWorker
       DEF BeginAtOnce, SweepIFPower, LightHeaters, Extinguish, PCs, Phases, AllKinds, Heated
  <2> QED BY <1>8, <2>1, <2>2 DEF Dirty, Keeps, Heated, Remembers
<1>10. CASE KeepHeating(k)
  <2>1. UNCHANGED <<bias, mag, w>> /\ w[k].pc = "hot"
    BY <1>10 DEF KeepHeating, hw
  <2> QED BY <1>8, <2>1 DEF Dirty, Keeps, Heated, Remembers
<1>11. CASE Resume(k) \/ EndCurves(k)
  <2>1. UNCHANGED <<bias, mag>> /\ k \in {"LOPA", "IV", "Health"}
    BY <1>1, <1>11 DEF Resume, EndCurves, Phases, AllKinds
  <2>2. w[k].pc \in {"resume", "curve", "dark"} /\ w'[k].pc \in {"idle", "dark", "resume"}
    BY <1>11, GotoWorker DEF Resume, EndCurves, PCs
  <2> QED BY <1>8, <2>1, <2>2 DEF Dirty, Keeps, Heated, Remembers
<1>12. CASE LeaveDeflux(k)
  <2>1. k = "Deflux" /\ w[k].pc = "moved" /\ mag' = mag
    BY <1>1, <1>12 DEF LeaveDeflux, Phases, AllKinds
  <2>2. CASE w[k].stop
    <3>1. bias' = Lose(bias, Moves(k))
      BY <1>12, <2>2 DEF LeaveDeflux
    <3> QED BY <1>2, <1>5, <2>1, <3>1, LoseStays
  <2>3. CASE ~w[k].stop
    <3>1. /\ w'[k].pc = "heat" /\ w'[k].saved = w[k].saved /\ w'[k].magWas = w[k].magWas
          /\ bias' = bias
      BY <1>12, <2>3, GotoWorker DEF LeaveDeflux, PCs
    <3> QED BY <1>8, <2>1, <3>1 DEF Dirty, Keeps, Heated, Remembers
  <2> QED BY <2>2, <2>3
(* Steps that move settings away, and remember where they were. *)
<1>13. ASSUME NEW xs \in SUBSET Moves(k), NEW f, Set(xs, f), Dirty(k)',
              ~Heated(k), ~Heated(k)', Keeps(k), w'[k].saved = w[k].saved,
              mag' = mag \/ (mag' /\ "imag" \in Moves(k)),
              Remembers(k)' => Remembers(k) /\ w'[k].magWas = w[k].magWas,
              k = "VErr" => mag'
       PROVE  BiasInv'
  <2>1. "imag" \notin Moves(k) => mag' = mag
    BY <1>13
  <2>2. ASSUME NEW x \in Moves(k), Good(k, x) PROVE Good(k, x)'
    <3>1. x = "imag" => MagnetsKnown(k)'
      BY <1>2, <1>13, <2>2 DEF Good, MagnetsKnown
    <3> QED BY <1>13, <2>2, <3>1 DEF Good
  <2> QED BY <1>2, <1>5, <1>13, <2>1, <2>2, SetStays
<1>14. CASE SweepFineLO(k) \/ SweepSISCurrent(k) \/ MeasureError(k)
  <2>1. \/ k = "FineLO" /\ w'[k].pc = "exit" /\ mag' = mag
        \/ k = "SISCurr" /\ w'[k].pc = "restore" /\ mag' = mag
        \/ k = "VErr" /\ w'[k].pc = "restore" /\ mag'
    BY <1>14, GotoWorker DEF SweepFineLO, SweepSISCurrent, MeasureError, PCs
  <2>2. w[k].pc = "work" /\ w'[k].saved = w[k].saved /\ w'[k].magWas = w[k].magWas
    BY <1>14, GotoWorker DEF SweepFineLO, SweepSISCurrent, MeasureError, PCs
  <2>3. PICK xs \in SUBSET Moves(k) : Move(xs)
    BY <1>14 DEF SweepFineLO, SweepSISCurrent, MeasureError, Moves
  <2> QED BY <1>13, <2>1, <2>2, <2>3 DEF Move, Moves, Dirty, Keeps, Heated, Remembers
<1>15. CASE Demagnetize(k)
  <2>1. /\ k = "Deflux" /\ w[k].pc = "work" /\ w'[k].pc = "moved" /\ mag' = mag
        /\ w'[k].saved = w[k].saved
    BY <1>15, GotoWorker DEF Demagnetize, PCs
  <2> QED BY <1>13, <1>15, <2>1 DEF Demagnetize, Clear, Dirty, Keeps, Heated, Remembers
(* Steps that put settings back. *)
<1>16. CASE Restore(k)
  <2>1. k \in {"SISCurr", "VErr", "Deflux"} /\ w[k].pc = "restore" /\ w'[k].pc = "idle"
    BY <1>1, <1>16, GotoWorker DEF Restore, Phases, AllKinds, PCs
  <2>2. Dirty(k) /\ Keeps(k) /\ ~Heated(k) /\ (k = "VErr" => Remembers(k))
    BY <2>1 DEF Dirty, Keeps, Heated, Remembers
  <2>3. ~Keeps(k)' /\ ~Heated(k)' /\ ~Remembers(k)'
    BY <2>1 DEF Dirty, Keeps, Heated, Remembers
  <2>4. CASE k = "VErr"
    <3> DEFINE f == [w[k].saved EXCEPT !["imag"] = IF w[k].magWas THEN w[k].saved["imag"]
                                                   ELSE MagnetsAfter(FALSE)]
    <3>1. Set({"vj", "imag"}, f) /\ mag' = w[k].magWas
      BY <1>16, <2>4 DEF Restore
    <3>2. Moves(k) = {"vj", "imag"}
      BY <2>4 DEF Moves
    <3>3. f["vj"] = w[k].saved["vj"]
      BY WorkerType DEF Settings
    <3>4. f["imag"] = IF w[k].magWas THEN w[k].saved["imag"] ELSE MagnetsAfter(FALSE)
      BY WorkerType DEF Settings
    <3> HIDE DEF f
    <3>5. ASSUME Good(k, "imag") PROVE f["imag"] = "host" /\ (w[k].magWas \/ "imag" \in off)
      <4>1. CASE w[k].magWas
        BY <2>2, <3>4, <3>5, <4>1 DEF Good
      <4>2. CASE ~w[k].magWas
        <5>1. mag /\ "imag" \in off
          BY <2>1, <2>2, <2>4, <3>5, <4>2 DEF Good, MagnetsKnown
        <5>2. MagnetsAfter(FALSE) = "host"
          BY <5>1 DEF MagnetsAfter, Zeroed
        <5> QED BY <3>4, <4>2, <5>1, <5>2
      <4> QED BY <4>1, <4>2
    <3>6. ASSUME NEW x \in Moves(k), Good(k, x) PROVE bias'[x] = "lost" \/ Good(k, x)'
      <4>1. f[x] = "host"
        BY <2>2, <3>2, <3>3, <3>5, <3>6 DEF Good
      <4>2. bias'[x] \in {"host", "lost"}
        BY <1>2, <3>1, <3>2, <4>1, SetStays
      <4>3. x = "imag" => MagnetsKnown(k)'
        BY <1>2, <1>4, <2>1, <2>3, <3>1, <3>5, <3>6 DEF MagnetsKnown
      <4> QED BY <2>3, <4>2, <4>3 DEF Good
    <3> QED BY <1>2, <1>5, <3>1, <3>2, <3>6, SetStays
  <2>5. CASE k # "VErr"
    <3>1. Set(Moves(k), w[k].saved) /\ mag' = mag
      BY <1>16, <2>5 DEF Restore, PutBack
    <3>2. ASSUME NEW x \in Moves(k), Good(k, x) PROVE bias'[x] = "lost" \/ Good(k, x)'
      <4>1. bias'[x] \in {"host", "lost"}
        BY <1>2, <2>2, <3>1, <3>2, SetStays DEF Good
      <4>2. x = "imag" => MagnetsKnown(k)'
        BY <1>2, <2>2, <2>3, <2>5, <3>1, <3>2 DEF Good, MagnetsKnown
      <4> QED BY <2>3, <4>1, <4>2 DEF Good
    <3> QED BY <1>2, <1>5, <3>1, <3>2, SetStays
  <2> QED BY <2>4, <2>5
<1>17. CASE ExitAction(k)
  <2>1. /\ k \in {"IFPower", "FineLO"} /\ w[k].pc = "exit" /\ w'[k].pc = "idle"
        /\ mag' = mag
    BY <1>1, <1>17, GotoWorker DEF ExitAction, Phases, AllKinds, PCs
  <2>2. Keeps(k) /\ ~Keeps(k)' /\ "imag" \notin Moves(k)
    BY <2>1 DEF Dirty, Keeps, Moves
  <2>3. PICK f \in [Settings -> Values] :
           Set(Moves(k), f) /\ \A x \in Settings : f[x] \in {w[k].saved[x], "lost"}
    <3>1. [w[k].saved EXCEPT !["lo"] = "lost"] \in [Settings -> Values]
      BY WorkerType DEF Values
    <3>2. \A x \in Settings : [w[k].saved EXCEPT !["lo"] = "lost"][x] \in {w[k].saved[x], "lost"}
      BY WorkerType
    <3> QED BY <1>17, <3>1, <3>2, WorkerType DEF ExitAction, PutBack
  <2>4. ASSUME NEW x \in Moves(k), Good(k, x) PROVE bias'[x] = "lost" \/ Good(k, x)'
    BY <1>2, <2>2, <2>3, <2>4, SetStays DEF Good
  <2> QED BY <1>2, <1>5, <2>1, <2>3, <2>4, SetStays
<1>18. CASE AdjustPA(k)
  <2>1. /\ k = "LOPA" /\ w[k].pc = "work" /\ w'[k].pc = "resume" /\ mag' = mag
    BY <1>18, GotoWorker DEF AdjustPA, PCs
  <2>2. Moves(k) = {"vd"} /\ ~Dirty(k) /\ ~Keeps(k)'
    BY <2>1 DEF Moves, Dirty, Keeps
  <2>3. CASE Set({"vd"}, [vd |-> "host"])
    <3>1. [vd |-> "host"]["vd"] = "host"
      OBVIOUS
    <3>2. bias'["vd"] \in {"host", "lost"}
      BY <1>2, <2>2, <2>3, <3>1, SetStays
    <3>3. \A x \in Moves(k) : Good(k, x) => bias'[x] = "lost" \/ Good(k, x)'
      BY <2>2, <3>2 DEF Good
    <3> QED BY <1>5, <2>1, <2>2, <2>3, <3>3, SetStays
  <2>4. CASE bias' = bias
    <3>1. \A x \in Moves(k) : Good(k, x) => bias'[x] = "lost" \/ Good(k, x)'
      BY <2>2, <2>4 DEF Good
    <3> QED BY <1>5, <2>1, <2>4, <3>1
  <2> QED BY <1>18, <2>3, <2>4 DEF AdjustPA
<1>19. CASE SweepCurve(k)
  <2>1. k \in {"IV", "Health"} /\ w[k].pc \in {"curve", "dark"} /\ mag' = mag
    BY <1>1, <1>19 DEF SweepCurve, Phases, AllKinds
  <2>2. w'[k].pc \in {"swept", "unlit"} /\ w'[k].saved = Saved(k)
    BY <1>19, SweepWorker
  <2>3. Moves(k) = {"vj"} /\ ~Dirty(k) /\ Dirty(k)'
    BY <2>1, <2>2 DEF Moves, Dirty
  <2>4. Good(k, "vj") => Good(k, "vj")'
    <3>1. bias["vj"] = "host" => Saved(k)["vj"] = "host"
      BY <2>3 DEF Saved, Settings
    <3> QED BY <2>2, <2>3, <3>1 DEF Good
  <2>5. Set({"vj"}, [x \in {"vj"} |-> "other"])
    BY <1>19 DEF SweepCurve, Move
  <2> QED BY <1>5, <2>1, <2>3, <2>4, <2>5, SetStays
<1>20. CASE EndCurve(k)
  <2>1. k \in {"IV", "Health"} /\ w[k].pc \in {"swept", "unlit"} /\ mag' = mag
    BY <1>1, <1>20 DEF EndCurve, Phases, AllKinds
  <2>2. w'[k].pc \in {"curve", "dark"}
    BY <1>20, EndCurveWorker
  <2>3. Moves(k) = {"vj"} /\ Keeps(k) /\ ~Keeps(k)'
    BY <2>1, <2>2 DEF Moves, Dirty, Keeps
  <2>4. CASE Set({"vj"}, w[k].saved)
    <3>1. Good(k, "vj") => bias'["vj"] = "lost" \/ Good(k, "vj")'
      BY <1>2, <2>3, <2>4, SetStays DEF Good
    <3> QED BY <1>5, <2>1, <2>3, <2>4, <3>1, SetStays
  <2>5. CASE bias' = Lose(bias, {"vj"})
    BY <1>2, <1>5, <2>1, <2>3, <2>5, LoseStays
  <2> QED BY <1>20, <2>4, <2>5 DEF EndCurve, PutBack
(* Heating. *)
<1>21. CASE PrepareHeating(k)
  <2>1. k \in {"Heat", "Deflux"} /\ w[k].pc = "heat"
    BY <1>1, <1>21 DEF PrepareHeating, Phases, AllKinds
  <2>2. CASE k = "Heat" /\ w'[k].pc = "idle" /\ UNCHANGED <<bias, mag>>
    BY <1>8, <2>1, <2>2 DEF Dirty, Keeps, Heated, Remembers
  <2>3. CASE /\ w'[k].pc = "light" /\ w'[k].saved = w[k].saved /\ w'[k].magWas = mag
             /\ Set({"imag"}, [imag |-> IF k = "Heat" /\ mag THEN "lost"
                                        ELSE MagnetsAfter(FALSE)])
             /\ mag' = FALSE
    <3>1. "imag" \in Moves(k)
      BY <2>1 DEF Moves
    <3>2. Heated(k)' /\ ~Heated(k) /\ k # "VErr" /\ (Dirty(k)' <=> k = "Deflux")
      BY <2>1, <2>3 DEF Heated, Dirty
    <3>3. (Keeps(k)' <=> k = "Deflux") /\ (k = "Deflux" => Keeps(k)) /\ (k = "Heat" => ~Dirty(k))
      BY <2>1, <2>3 DEF Keeps, Dirty
    <3> DEFINE f == [imag |-> IF k = "Heat" /\ mag THEN "lost" ELSE MagnetsAfter(FALSE)]
    <3>4. f["imag"] = IF k = "Heat" /\ mag THEN "lost" ELSE MagnetsAfter(FALSE)
      OBVIOUS
    <3>5. Set({"imag"}, f)
      BY <2>3
    <3> HIDE DEF f
    <3>6. ASSUME NEW x \in Moves(k), Good(k, x) PROVE bias'[x] = "lost" \/ Good(k, x)'
      <4>1. CASE k = "Deflux"
        <5>1. x = "imag" => MagnetsKnown(k)'
          BY <1>2, <2>3, <3>2, <3>6, <4>1 DEF Good, MagnetsKnown
        <5> QED BY <2>3, <3>2, <3>3, <3>6, <4>1, <5>1 DEF Good
      <4>2. CASE k = "Heat"
        <5>1. x = "imag" /\ bias["imag"] = "host" /\ (mag \/ "imag" \in off)
          BY <3>2, <3>3, <3>6, <4>2 DEF Good, MagnetsKnown, Moves
        <5>2. CASE mag
          BY <1>2, <3>4, <3>5, <4>2, <5>1, <5>2, SetStays DEF Settings
        <5>3. CASE ~mag
          <6>1. bias'["imag"] = "host"
            BY <1>2, <3>4, <3>5, <4>2, <5>1, <5>3, SetStays DEF MagnetsAfter, Settings
          <6>2. MagnetsKnown(k)'
            BY <1>2, <3>2, <5>1, <5>3 DEF MagnetsKnown
          <6> QED BY <3>3, <4>2, <5>1, <6>1, <6>2 DEF Good
        <5> QED BY <5>2, <5>3
      <4> QED BY <2>1, <4>1, <4>2
    <3> QED BY <1>5, <3>1, <3>5, <3>6, SetStays
  <2> QED BY <1>21, <2>2, <2>3, HeatWorker
<1>22. CASE EndHeating(k)
  <2>1. k \in {"Heat", "Deflux"} /\ w[k].pc = "cool" /\ mag' = w[k].magWas
    BY <1>1, <1>22 DEF EndHeating, Phases, AllKinds
  <2>2. w'[k].pc = IF k = "Deflux" THEN "restore" ELSE "idle"
    BY <1>22, GotoWorker DEF EndHeating, PCs
  <2>3. k = "Deflux" => w'[k].saved = w[k].saved
    BY <1>22, GotoWorker DEF EndHeating, PCs
  <2>4. "imag" \in Moves(k) /\ Remembers(k) /\ ~Remembers(k)' /\ ~Heated(k)' /\ k # "VErr"
    BY <2>1, <2>2 DEF Moves, Heated, Remembers
  <2> DEFINE f == [imag |-> MagnetsAfter(w[k].magWas)]
  <2>5. Set({"imag"}, f) /\ f["imag"] = MagnetsAfter(w[k].magWas)
    BY <1>22 DEF EndHeating
  <2> HIDE DEF f
  <2>6. ASSUME NEW x \in Moves(k), Good(k, x) PROVE bias'[x] = "lost" \/ Good(k, x)'
    <3>1. x = "imag" => MagnetsKnown(k)'
      BY <1>2, <2>1, <2>4, <2>6 DEF Good, MagnetsKnown
    <3>2. CASE k = "Deflux"
      <4>1. Dirty(k)' /\ Keeps(k)
        BY <2>1, <2>2, <3>2 DEF Dirty, Keeps
      <4> QED BY <2>3, <2>6, <3>1, <3>2, <4>1 DEF Good
    <3>3. CASE k = "Heat"
      <4>1. x = "imag" /\ bias["imag"] = "host" /\ MagnetsKnown(k)
        BY <2>6, <3>3 DEF Good, Dirty, Moves
      <4>2. MagnetsAfter(w[k].magWas) = "host"
        BY <1>4, <2>4, <4>1, MagnetsBack
      <4>3. bias'["imag"] = "host"
        BY <2>5, <4>1, <4>2, SetStays DEF Settings
      <4>4. ~Keeps(k)'
        BY <2>2, <3>3 DEF Keeps, Dirty
      <4> QED BY <3>1, <4>1, <4>3, <4>4 DEF Good
    <3> QED BY <2>1, <3>2, <3>3
  <2> QED BY <1>5, <2>4, <2>5, <2>6, SetStays
<1> QED BY <1>6, <1>7, <1>9, <1>10, <1>11, <1>12, <1>14, <1>15, <1>16, <1>17, <1>18, <1>19,
           <1>20, <1>21, <1>22 DEF Work

-----------------------------------------------------------------------------
(* Host calls.                                                              *)

(* What the host asks for it has, or it is lost while a worker runs. *)
LEMMA AskBias ==
    ASSUME TypeOK, TypeOK', BiasInv, NEW xs, NEW asked, Ask(xs, asked), w' = w,
           "imag" \in xs => mag' \/ "imag" \in asked,
           "imag" \notin xs => mag' = mag
    PROVE  BiasInv'
<1> SUFFICES ASSUME NEW x \in Settings PROVE BiasAt(x)'
  BY DEF BiasInv
<1>1. BiasAt(x) /\ Busy' = Busy
  BY DEF BiasInv, Busy
<1>2. /\ bias'[x] = IF x \notin xs THEN bias[x] ELSE IF Busy = {} THEN "host" ELSE "lost"
      /\ off' = (off \ xs) \cup (asked \cap CanBeOff)
  BY DEF TypeOK, Ask
<1>3. CASE x \notin xs
  BY <1>1, <1>2, <1>3, SameBias
<1>4. CASE x \in xs /\ Busy # {}
  BY <1>2, <1>4 DEF BiasAt
<1>5. CASE x \in xs /\ Busy = {}
  <2>1. Clean(x)'
    BY <1>2, <1>5 DEF Clean, CanBeOff
  <2> QED BY <1>1, <1>5, <2>1 DEF BiasAt
<1> QED BY <1>3, <1>4, <1>5

LEMMA StartBias ==
    ASSUME TypeOK, TypeOK', BiasInv, NEW k \in Kinds, Start(k)
    PROVE  BiasInv'
<1> SUFFICES ASSUME NEW x \in Settings PROVE BiasAt(x)'
  BY DEF BiasInv
<1>1. /\ BiasAt(x) /\ k \notin Busy /\ UNCHANGED <<off, mag>>
      /\ Elsewhere(k) /\ w'[k].pc = "top"
      /\ k = "IFPower" => w'[k].saved = Saved(k)
  BY StartWorker DEF BiasInv, Start
<1>2. Busy' = Busy \cup {k} /\ k \in Kinds
  BY <1>1 DEF Busy, Elsewhere
<1>3. \A j \in Kinds : Moves(j)' = Moves(j)
  BY DEF Moves
<1>4. /\ x \in Shared(k) => bias'[x] = "lost"
      /\ bias[x] = "lost" => bias'[x] = "lost"
      /\ x \notin Moves(k) => bias'[x] = bias[x]
      /\ k # "IFPower" /\ x \notin Shared(k) => bias'[x] = bias[x]
  <2>1. CASE k = "IFPower"
    <3>1. PICK y \in {"vj", "vd"} :
             bias' = Lose([bias EXCEPT ![y] = IF bias[y] = "lost" THEN bias[y] ELSE "other"],
                          Shared(k))
      BY <2>1 DEF Start, StartIFPower
    <3>2. y \in Moves(k) /\ Shared(k) \subseteq Moves(k)
      BY <2>1 DEF Moves, Shared
    <3> QED BY <2>1, <3>1, <3>2 DEF Lose, TypeOK
  <2>2. CASE k # "IFPower"
    <3>1. bias' = Lose(bias, Shared(k))
      BY <2>2 DEF Start
    <3>2. Shared(k) \subseteq Moves(k)
      BY DEF Shared
    <3> QED BY <3>1, <3>2, LoseStays
  <2> QED BY <2>1, <2>2
<1>5. CASE bias[x] = "lost" \/ x \in Shared(k)
  BY <1>4, <1>5 DEF BiasAt
<1>6. CASE bias[x] # "lost" /\ x \in Moves(k) /\ x \notin Shared(k)
  <2>1. \A j \in Busy : x \notin Moves(j)
    BY <1>1, <1>6 DEF Shared
  <2>2. Clean(x)
    BY <1>1, <1>6, <2>1 DEF BiasAt
  <2>3. x = "imag" => MagnetsKnown(k)'
    BY <1>1, <2>2 DEF Clean, MagnetsKnown, Heated, Remembers
  <2>4. Good(k, x)'
    <3>1. CASE k = "IFPower"
      <4>1. Saved(k)[x] = "host"
        BY <2>2 DEF Clean, Saved
      <4>2. Dirty(k)'
        BY <1>1, <3>1 DEF Dirty
      <4> QED BY <1>1, <2>3, <3>1, <4>1, <4>2 DEF Good
    <3>2. CASE k # "IFPower"
      <4>1. ~Keeps(k)'
        BY <1>1, <3>2 DEF Keeps, Dirty
      <4> QED BY <1>4, <1>6, <2>2, <2>3, <3>2, <4>1 DEF Good, Clean
    <3> QED BY <3>1, <3>2
  <2>5. \A j \in Busy' : x \in Moves(j)' <=> j = k
    BY <1>2, <1>3, <1>6, <2>1 DEF Busy
  <2> QED BY <1>2, <2>4, <2>5 DEF BiasAt
<1>7. CASE bias[x] # "lost" /\ x \notin Moves(k)
  <2>1. CASE Clean(x) /\ \A j \in Busy : x \notin Moves(j)
    <3>1. Clean(x)'
      BY <1>1, <1>4, <1>7, <2>1 DEF Clean
    <3> QED BY <1>2, <1>3, <1>7, <2>1, <3>1 DEF BiasAt, Busy
  <2>2. CASE \E i \in Busy : Good(i, x) /\ \A j \in Busy : x \in Moves(j) <=> j = i
    <3>1. PICK i \in Busy : Good(i, x) /\ \A j \in Busy : x \in Moves(j) <=> j = i
      BY <2>2
    <3>2. i \in Kinds /\ i # k /\ w'[i] = w[i]
      BY <1>1, <3>1 DEF Busy, Elsewhere
    <3>3. (Dirty(i)' <=> Dirty(i)) /\ (Keeps(i)' <=> Keeps(i))
      BY <3>2 DEF Dirty, Keeps
    <3>4. x = "imag" => MagnetsKnown(i)'
      BY <1>1, <3>1, <3>2 DEF Good, MagnetsKnown, Remembers, Heated
    <3>5. Good(i, x)'
      BY <1>4, <1>7, <3>1, <3>2, <3>3, <3>4 DEF Good
    <3>6. i \in Busy' /\ \A j \in Busy' : x \in Moves(j)' <=> j = i
      BY <1>2, <1>3, <1>7, <3>1, <3>2 DEF Busy
    <3> QED BY <3>5, <3>6 DEF BiasAt
  <2> QED BY <1>1, <1>7, <2>1, <2>2 DEF BiasAt
<1> QED BY <1>5, <1>6, <1>7

LEMMA HostBias ==
    ASSUME TypeOK, TypeOK', BiasInv, Host
    PROVE  BiasInv'
(* mag may have been set without a current to set. *)
<1>1. ASSUME UNCHANGED <<bias, off, w>>, mag => mag' PROVE BiasInv'
  BY <1>1, SameBias DEF BiasInv
<1>2. ASSUME NEW on \in BOOLEAN, SetSISBias(on) \/ SetLOPowerAmps(on) PROVE BiasInv'
  <2>1. w' = w /\ mag' = mag
    BY <1>2 DEF SetSISBias, SetLOPowerAmps
  <2>2. ASSUME NEW x \in {"vj", "vd"}, NEW asked, Ask({x}, asked) PROVE BiasInv'
    BY <2>1, <2>2, AskBias
  <2> QED BY <1>1, <1>2, <2>1, <2>2 DEF SetSISBias, SetLOPowerAmps
<1>3. ASSUME NEW on \in BOOLEAN, SetSISMagnet(on) PROVE BiasInv'
  <2>1. w' = w /\ mag' = on
    BY <1>3 DEF SetSISMagnet
  <2>2. CASE on /\ Ask({"imag"}, {})
    BY <2>1, <2>2, AskBias
  <2>3. CASE ~on /\ Ask({"imag"}, {"imag"})
    BY <2>1, <2>3, AskBias
  <2>4. CASE UNCHANGED <<bias, off>> /\ (on \/ ~mag)
    BY <1>1, <2>1, <2>4
  <2> QED BY <1>3, <2>2, <2>3, <2>4 DEF SetSISMagnet
<1>4. CASE SetVJVD
  <2>1. PICK xs \in (SUBSET {"vj", "vd"}) \ {{}} : Ask(xs, {})
    BY <1>4 DEF SetVJVD
  <2>2. w' = w /\ mag' = mag
    BY <1>4 DEF SetVJVD
  <2> QED BY <2>1, <2>2, AskBias
<1>5. CASE SetLOFrequency
  <2>1. PICK asked \in SUBSET {"lo"} : Ask({"lo"}, asked)
    BY <1>5 DEF SetLOFrequency
  <2>2. w' = w /\ mag' = mag
    BY <1>5 DEF SetLOFrequency
  <2> QED BY <2>1, <2>2, AskBias
<1>6. CASE ClearEnable
  <2>1. w' = w /\ Ask(Settings, Settings)
    BY <1>6 DEF ClearEnable
  <2> QED BY <2>1, AskBias DEF Settings
<1>7. ASSUME NEW k \in Kinds, Start(k) PROVE BiasInv'
  BY <1>7, StartBias
<1>8. CASE AbortMeasurement \/ DisableHeaters
  <2>1. UNCHANGED <<bias, off, mag>>
    BY <1>8 DEF AbortMeasurement, DisableHeaters, hw
  <2>2. \A k \in Kinds : /\ w'[k].pc = w[k].pc /\ w'[k].saved = w[k].saved
                         /\ w'[k].magWas = w[k].magWas
    BY <1>8, StopRequests
  <2> QED BY <2>1, <2>2, SameBias DEF BiasInv
<1> QED BY <1>2, <1>3, <1>4, <1>5, <1>6, <1>7, <1>8 DEF Host

(* When the measurements are over the bias of the receiver is what the host *)
(* asked for last (the saved settings and exitAction of the OPTIMIZE        *)
(* workers), but for the exceptions that Lose names.                        *)
THEOREM BiasRestoredHolds == Spec => []BiasRestored
<1>1. Init => BiasInv
  BY DEF Init, BiasInv, BiasAt, Clean, Busy, IdleWorker, CanBeOff
<1>2. Init => PhaseInv
  <2> SUFFICES ASSUME Init, NEW k \in Kinds PROVE w[k].pc \in Phases(k) \cup {"idle"}
    BY DEF PhaseInv
  <2>1. w[k].pc = "idle"
    BY DEF Init, IdleWorker
  <2> QED BY <2>1
<1>3. TypeOK /\ TypeOK' /\ PhaseInv /\ BiasInv /\ [Next]_vars => BiasInv'
  <2> SUFFICES ASSUME TypeOK, TypeOK', PhaseInv, BiasInv, [Next]_vars PROVE BiasInv'
    OBVIOUS
  <2>1. CASE Host
    BY <2>1, HostBias
  <2>2. ASSUME NEW k \in Kinds, Work(k) PROVE BiasInv'
    BY <2>2, WorkBias
  <2>3. CASE UNCHANGED <<hw, w>>
    BY <2>3, SameBias DEF BiasInv, hw
  <2> QED BY <2>1, <2>2, <2>3 DEF Next, HeaterTrips, vars
<1>4. TypeOK /\ BiasInv => BiasRestored
  BY DEF TypeOK, BiasInv, BiasAt, Clean, BiasRestored
<1> QED BY <1>1, <1>2, <1>3, <1>4, PhaseStep, TypeCorrect, PTL DEF Spec
=============================================================================
