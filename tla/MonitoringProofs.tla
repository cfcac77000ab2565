-------------------------- MODULE MonitoringProofs --------------------------
(***************************************************************************)
(* Theorems about the monitoring of the devices.                           *)
(*                                                                         *)
(* MonitorThread: safety of the flags for any number of threads and        *)
(* measurements and any error limit: types, and an error stop that is      *)
(* flagged is in force or being lifted.                                    *)
(*                                                                         *)
(* DevicePoints: the monitor registry of every class of device, whatever   *)
(* number of temporary entries is pushed in front of it; and that values   *)
(* show at their own points.                                               *)
(***************************************************************************)
EXTENDS MonitorThread, DevicePoints, SequenceTheorems, TLAPS

(***************************************************************************)
(* MonitorThread.                                                          *)
(***************************************************************************)
LEMMA ErrorCapType == ErrorCap \in Nat /\ ErrorCap > MaxErrorCount
BY LimitsAssumption DEF ErrorCap

LEMMA Callers ==
    Owner \in Caller /\ Thread \subseteq Caller /\ Measurement \subseteq Caller
BY DEF Caller

(* The flags and counters keep their types whatever the interleaving of the *)
(* owner, the measurements and the monitor threads (FEHardwareDevice).      *)
THEOREM TypeCorrect == Spec => []TypeOK
<1> USE DEF flags, threads, calls, rest, CallPause
<1>1. Init => TypeOK
  <2> SUFFICES ASSUME Init PROVE TypeOK
    OBVIOUS
  <2>1. running \in BOOLEAN /\ stopped \in BOOLEAN /\ paused \in BOOLEAN /\ exceeded \in BOOLEAN
    BY Zenon DEF Init
  <2>2. errors \in 0..ErrorCap /\ pauses \in 0..MaxPauses /\ opc \in OwnerPCs
    BY ErrorCapType, LimitsAssumption DEF Init, OwnerPCs
  <2>3. /\ tpc \in [Thread -> ThreadPCs] /\ sawRunning \in [Thread -> BOOLEAN]
        /\ sawErrors \in [Thread -> 0..ErrorCap]
    BY ErrorCapType DEF Init, ThreadPCs
  <2>4. /\ ppc \in [Caller -> PausePCs] /\ arg \in [Caller -> BOOLEAN]
        /\ measuring \in [Measurement -> BOOLEAN]
    BY DEF Init, PausePCs
  <2> QED BY <2>1, <2>2, <2>3, <2>4 DEF TypeOK
<1>2. TypeOK /\ [Next]_vars => TypeOK'
  <2> SUFFICES ASSUME TypeOK, [Next]_vars PROVE TypeOK'
    OBVIOUS
  <2> USE ErrorCapType, Callers, LimitsAssumption
      DEF TypeOK, OwnerPCs, ThreadPCs, PausePCs
  <2>1. CASE StartMonitor
    BY <2>1 DEF StartMonitor
  <2>2. CASE ClearStopped
    BY <2>2 DEF ClearStopped
  <2>3. CASE CreateThread
    BY <2>3 DEF CreateThread
  <2>4. CASE SetRunning
    BY <2>4 DEF SetRunning
  <2>5. CASE StartReturns
    BY <2>5 DEF StartReturns
  <2>6. CASE StopMonitor
    BY <2>6 DEF StopMonitor
  <2>7. CASE ClearRunning
    BY <2>7 DEF ClearRunning
  <2>8. CASE PollStopped
    BY <2>8 DEF PollStopped
  <2>9. CASE StopGivesUp
    BY <2>9 DEF StopGivesUp
  <2>10. ASSUME NEW m \in Measurement, BeginMeasurement(m) PROVE TypeOK'
    BY <2>10 DEF BeginMeasurement
  <2>11. ASSUME NEW m \in Measurement, EndMeasurement(m) PROVE TypeOK'
    BY <2>11 DEF EndMeasurement
  <2>12. ASSUME NEW a \in Caller, TestPaused(a) PROVE TypeOK'
    BY <2>12 DEF TestPaused
  <2>13. ASSUME NEW a \in Caller, SetPaused(a) PROVE TypeOK'
    BY <2>13 DEF SetPaused
  <2>14. ASSUME NEW a \in Caller, RecheckPaused(a) PROVE TypeOK'
    BY <2>14 DEF RecheckPaused
  <2>15. ASSUME NEW a \in Caller, ZeroErrorCount(a) PROVE TypeOK'
    BY <2>15 DEF ZeroErrorCount
  <2>16. ASSUME NEW a \in Caller, ClearExceeded(a) PROVE TypeOK'
    BY <2>16 DEF ClearExceeded
  <2>17. ASSUME NEW t \in Thread, ReadRunning(t) PROVE TypeOK'
    BY <2>17 DEF ReadRunning
  <2>18. ASSUME NEW t \in Thread, WriteStopped(t) PROVE TypeOK'
    BY <2>18 DEF WriteStopped
  <2>19. ASSUME NEW t \in Thread, TestStopped(t) PROVE TypeOK'
    BY <2>19 DEF TestStopped
  <2>20. ASSUME NEW t \in Thread, TestPausedFlag(t) PROVE TypeOK'
    BY <2>20 DEF TestPausedFlag
  <2>21. ASSUME NEW t \in Thread, MonitorAction(t) PROVE TypeOK'
    BY <2>21 DEF MonitorAction
  <2>22. ASSUME NEW t \in Thread, IncrementErrors(t) PROVE TypeOK'
    BY <2>22 DEF IncrementErrors
  <2>23. ASSUME NEW t \in Thread, CheckExceededErrorCount(t) PROVE TypeOK'
    BY <2>23 DEF CheckExceededErrorCount
  <2>24. ASSUME NEW t \in Thread, SetExceeded(t) PROVE TypeOK'
    BY <2>24 DEF SetExceeded
  <2>25. ASSUME NEW t \in Thread, PauseReturns(t) PROVE TypeOK'
    BY <2>25 DEF PauseReturns
  <2>26. CASE UNCHANGED vars
    BY <2>26 DEF vars
  <2> QED
    BY <2>1, <2>2, <2>3, <2>4, <2>5, <2>6, <2>7, <2>8, <2>9, <2>10, <2>11, <2>12, <2>13,
       <2>14, <2>15, <2>16, <2>17, <2>18, <2>19, <2>20, <2>21, <2>22, <2>23, <2>24, <2>25, <2>26
       DEF Next, OwnerProceeds, PauseMonitor, RunThread
<1> QED BY <1>1, <1>2, PTL DEF Spec

-----------------------------------------------------------------------------
(* Who is about to end the state "flagged but not paused": a caller that    *)
(* resets the error count, or one that is going to set paused_m.            *)
Settling(a) == \/ ppc[a] \in {"recheck", "zero", "unflag"}
               \/ ppc[a] \in {"test", "set"} /\ arg[a]

ErrorStopInv == exceeded => paused \/ \E a \in Caller : Settling(a)

LEMMA ErrorStopStep == TypeOK /\ ErrorStopInv /\ [Next]_vars => ErrorStopInv'
<1> USE DEF flags, threads, calls, rest, CallPause
<1> SUFFICES ASSUME TypeOK, ErrorStopInv, [Next]_vars PROVE ErrorStopInv'
  OBVIOUS
<1> USE Callers DEF TypeOK, ErrorStopInv, Settling
<1>1. CASE StartMonitor
  BY <1>1 DEF StartMonitor
<1>2. CASE ClearStopped
  BY <1>2 DEF ClearStopped
<1>3. CASE CreateThread
  BY <1>3 DEF CreateThread
<1>4. CASE SetRunning
  BY <1>4 DEF SetRunning
<1>5. CASE StartReturns
  BY <1>5 DEF StartReturns
<1>6. CASE StopMonitor
  BY <1>6 DEF StopMonitor
<1>7. CASE ClearRunning
  BY <1>7 DEF ClearRunning
<1>8. CASE PollStopped
  BY <1>8 DEF PollStopped
<1>9. CASE StopGivesUp
  BY <1>9 DEF StopGivesUp
<1>10. ASSUME NEW m \in Measurement, BeginMeasurement(m) PROVE ErrorStopInv'
  BY <1>10 DEF BeginMeasurement
<1>11. ASSUME NEW m \in Measurement, EndMeasurement(m) PROVE ErrorStopInv'
  BY <1>11 DEF EndMeasurement
<1>12. ASSUME NEW a \in Caller, TestPaused(a) PROVE ErrorStopInv'
  BY <1>12 DEF TestPaused
<1>13. ASSUME NEW a \in Caller, SetPaused(a) PROVE ErrorStopInv'
  BY <1>13 DEF SetPaused
<1>14. ASSUME NEW a \in Caller, RecheckPaused(a) PROVE ErrorStopInv'
  BY <1>14 DEF RecheckPaused
<1>15. ASSUME NEW a \in Caller, ZeroErrorCount(a) PROVE ErrorStopInv'
  BY <1>15 DEF ZeroErrorCount
<1>16. ASSUME NEW a \in Caller, ClearExceeded(a) PROVE ErrorStopInv'
  BY <1>16 DEF ClearExceeded
<1>17. ASSUME NEW t \in Thread, ReadRunning(t) PROVE ErrorStopInv'
  BY <1>17 DEF ReadRunning
<1>18. ASSUME NEW t \in Thread, WriteStopped(t) PROVE ErrorStopInv'
  BY <1>18 DEF WriteStopped
<1>19. ASSUME NEW t \in Thread, TestStopped(t) PROVE ErrorStopInv'
  BY <1>19 DEF TestStopped
<1>20. ASSUME NEW t \in Thread, TestPausedFlag(t) PROVE ErrorStopInv'
  BY <1>20 DEF TestPausedFlag
<1>21. ASSUME NEW t \in Thread, MonitorAction(t) PROVE ErrorStopInv'
  BY <1>21 DEF MonitorAction
<1>22. ASSUME NEW t \in Thread, IncrementErrors(t) PROVE ErrorStopInv'
  BY <1>22 DEF IncrementErrors
<1>23. ASSUME NEW t \in Thread, CheckExceededErrorCount(t) PROVE ErrorStopInv'
  BY <1>23 DEF CheckExceededErrorCount
<1>24. ASSUME NEW t \in Thread, SetExceeded(t) PROVE ErrorStopInv'
  BY <1>24 DEF SetExceeded
<1>25. ASSUME NEW t \in Thread, PauseReturns(t) PROVE ErrorStopInv'
  BY <1>25 DEF PauseReturns
<1>26. CASE UNCHANGED vars
  BY <1>26 DEF vars
<1> QED
  BY <1>1, <1>2, <1>3, <1>4, <1>5, <1>6, <1>7, <1>8, <1>9, <1>10, <1>11, <1>12, <1>13,
     <1>14, <1>15, <1>16, <1>17, <1>18, <1>19, <1>20, <1>21, <1>22, <1>23, <1>24, <1>25, <1>26
     DEF Next, OwnerProceeds, PauseMonitor, RunThread

(* isErrorStop() is true only while the monitoring is suspended or a call   *)
(* that settles the matter is under way, for any threads and limits.        *)
THEOREM ErrorStopIsPausedHolds == Spec => []ErrorStopIsPaused
<1>1. Init => ErrorStopInv
  BY DEF Init, ErrorStopInv
<1>2. TypeOK /\ ErrorStopInv /\ [Next]_vars => ErrorStopInv'
  BY ErrorStopStep
<1>3. ErrorStopInv => ErrorStopIsPaused
  BY DEF ErrorStopInv, ErrorStopIsPaused, Settling
<1> QED BY <1>1, <1>2, <1>3, TypeCorrect, PTL DEF Spec

(***************************************************************************)
(* DevicePoints: the tables of the devices are lists.                      *)
(***************************************************************************)
(* A finite list, of whatever. *)
IsList(s) == Len(s) \in Nat /\ s = [k \in 1..Len(s) |-> s[k]]

(* Every sequence is one. *)
LEMMA SeqIsList ==
  ASSUME NEW S, NEW s \in Seq(S)
  PROVE  IsList(s)
<1>1. Len(s) \in Nat /\ s \in [1..Len(s) -> S]
  OBVIOUS
<1> QED BY <1>1 DEF IsList

(* Two lists after one another are a list. *)
LEMMA Joined ==
  ASSUME NEW s, NEW t, IsList(s), IsList(t)
  PROVE  IsList(s \o t)
<1> DEFINE S == {s[k] : k \in 1..Len(s)} \cup {t[k] : k \in 1..Len(t)}
<1>1. s \in Seq(S)
  BY DEF IsList
<1>2. t \in Seq(S)
  BY DEF IsList
<1> HIDE DEF S
<1>3. s \o t \in Seq(S)
  BY <1>1, <1>2
<1> QED BY <1>3, SeqIsList

(* Names at each of a list of places are a list of points. *)
LEMMA Crossed ==
  ASSUME NEW names, NEW places, IsList(names), IsList(places)
  PROVE  IsList(Cross(names, places))
<1> DEFINE c == Cross(names, places)
<1> DEFINE n == Len(names) * Len(places)
<1>1. n \in Nat
  BY DEF IsList
<1>2. c = [k \in 1..n |-> c[k]]
  BY DEF Cross
<1> HIDE DEF c, n
<1>3. Len(c) = n
  BY <1>1, <1>2
<1> QED BY <1>1, <1>2, <1>3 DEF IsList, c

(* The lists of places of the device classes. *)
LEMMA Places ==
  /\ IsList(<< <<0, 0>> >>) /\ IsList(Pols) /\ IsList(PolSbs)
  /\ \A last \in Nat : IsList(UpTo(last))
<1>1. IsList(<< <<0, 0>> >>)
  BY DEF IsList
<1>2. IsList(Pols)
  BY DEF Pols, IsList
<1>3. IsList(PolSbs)
  BY DEF PolSbs, IsList
<1>4. ASSUME NEW last \in Nat PROVE IsList(UpTo(last))
  <2>1. UpTo(last) = [k \in 1..last + 1 |-> <<k - 1, 0>>]
    BY DEF UpTo
  <2>2. Len(UpTo(last)) = last + 1
    BY <2>1
  <2> QED BY <2>1, <2>2 DEF IsList
<1> QED BY <1>1, <1>2, <1>3, <1>4


(* The warm cartridge assembly's registry. *)
LEMMA WCARegistryIsList == IsList(WCARegistry)
<1>1. IsList(<<"PHOTOMIXER_VOLTAGE", "PHOTOMIXER_CURRENT", "PLL_LOCK_DETECT_VOLTAGE",
            "PLL_CORRECTION_VOLTAGE", "PLL_REF_TOTAL_POWER", "PLL_IF_TOTAL_POWER",
            "AMC_GATE_A_VOLTAGE", "AMC_DRAIN_A_VOLTAGE", "AMC_DRAIN_A_CURRENT",
            "AMC_GATE_B_VOLTAGE", "AMC_DRAIN_B_VOLTAGE", "AMC_DRAIN_B_CURRENT",
            "AMC_GATE_E_VOLTAGE", "AMC_DRAIN_E_VOLTAGE", "AMC_DRAIN_E_CURRENT">>)
  BY DEF IsList
<1>2. IsList(<<"PA_GATE_VOLTAGE", "PA_DRAIN_VOLTAGE", "PA_DRAIN_CURRENT">>)
  BY DEF IsList
<1>3. IsList(<<"AMC_MULTIPLIER_D_CURRENT", "AMC_SUPPLY_VOLTAGE_5V", "PA_SUPPLY_VOLTAGE_3V",
            "PA_SUPPLY_VOLTAGE_5V", "PLL_ASSEMBLY_TEMP", "PLL_YTO_HEATER_CURRENT">>)
  BY DEF IsList
<1> QED BY <1>1, <1>2, <1>3, Crossed, Joined, Places DEF WCARegistry, Plain

(* The cold cartridge's. *)
LEMMA ColdCartRegistryIsList == IsList(ColdCartRegistry)
<1>1. IsList(<<"SIS_VOLTAGE">>)
  BY DEF IsList
<1>2. IsList(<<"SIS_CURRENT">>)
  BY DEF IsList
<1>3. IsList(<<"SIS_MAGNET_VOLTAGE", "SIS_MAGNET_CURRENT">>)
  BY DEF IsList
<1>4. IsList(<<"LNA1_DRAIN_VOLTAGE", "LNA1_DRAIN_CURRENT", "LNA1_GATE_VOLTAGE",
            "LNA2_DRAIN_VOLTAGE", "LNA2_DRAIN_CURRENT", "LNA2_GATE_VOLTAGE",
            "LNA3_DRAIN_VOLTAGE", "LNA3_DRAIN_CURRENT", "LNA3_GATE_VOLTAGE">>)
  BY DEF IsList
<1>5. IsList(<<"SIS_HEATER_CURRENT">>)
  BY DEF IsList
<1>6. IsList(<<"CARTRIDGE_TEMP">>)
  BY DEF IsList
<1> QED BY <1>1, <1>2, <1>3, <1>4, <1>5, <1>6, Crossed, Joined, Places DEF ColdCartRegistry, Plain

(* The power module's. *)
LEMMA PowerModuleRegistryIsList == IsList(PowerModuleRegistry)
<1>1. IsList(<<"VOLTAGE_P6V", "CURRENT_P6V", "VOLTAGE_N6V", "CURRENT_N6V", "VOLTAGE_P15V",
            "CURRENT_P15V", "VOLTAGE_N15V", "CURRENT_N15V", "VOLTAGE_P24V",
            "CURRENT_N24V", "VOLTAGE_P8V", "CURRENT_P8V">>)
  BY DEF IsList
<1> QED BY <1>1, Crossed, Places DEF PowerModuleRegistry, Plain

(* The IF switch's. *)
LEMMA IFSwitchRegistryIsList == IsList(IFSwitchRegistry)
<1>1. IsList(<<"ASSEMBLY_TEMP">>)
  BY DEF IsList
<1> QED BY <1>1, Crossed, Places DEF IFSwitchRegistry, Plain

(* The optical switch's. *)
LEMMA LPRRegistryIsList == IsList(LPRRegistry)
<1>1. IsList(<<"LPR_TEMPERATURE_0", "LPR_TEMPERATURE_1", "EDFA_LASER_PUMP_TEMPERATURE",
            "EDFA_LASER_DRIVE_CURRENT", "EDFA_LASER_PHOTODETECT_CURRENT",
            "EDFA_PHOTODETECT_CURRENT", "EDFA_PHOTODETECT_POWER",
            "EDFA_MODULATION_INPUT">>)
  BY DEF IsList
<1> QED BY <1>1, Crossed, Places DEF LPRRegistry, Plain

(* The cryostat's. *)
LEMMA CryostatRegistryIsList == IsList(CryostatRegistry)
<1>1. IsList(<<"CRYOSTAT_TEMP">>)
  BY DEF IsList
<1>2. IsList(<<"VACUUM_CRYOSTAT_PRES", "VACUUM_PORT_PRES", "SUPPLY_CURRENT_230V">>)
  BY DEF IsList
<1> QED BY <1>1, <1>2, Crossed, Joined, Places DEF CryostatRegistry, Plain

(* The interlock module's. *)
LEMMA FETIMRegistryIsList == IsList(FETIMRegistry)
<1>1. IsList(<<"INT_TEMP">>)
  BY DEF IsList
<1>2. IsList(<<"EXT_TEMP">>)
  BY DEF IsList
<1>3. IsList(<<"FLOW_SENS">>)
  BY DEF IsList
<1>4. IsList(<<"HE2_PRESS", "GLITCH_VALUE">>)
  BY DEF IsList
<1> QED BY <1>1, <1>2, <1>3, <1>4, Crossed, Joined, Places DEF FETIMRegistry, Plain

(* Every class of device, those included that have no registry, has a list  *)
(* of points to monitor for good.                                           *)
LEMMA RegistryIsList == \A c \in Classes : IsList(RegistryOf(c))
<1>1. IsList(<<>>)
  BY DEF IsList
<1> QED
  BY <1>1, WCARegistryIsList, ColdCartRegistryIsList, PowerModuleRegistryIsList,
     IFSwitchRegistryIsList, LPRRegistryIsList, CryostatRegistryIsList, FETIMRegistryIsList
     DEF RegistryOf

(* How many points a device monitors for good. *)
Count(d) == Len(Permanents[d[1]])

(* They are numbered from 1. *)
LEMMA Numbered ==
  ASSUME NEW d \in Devices
  PROVE  Count(d) \in Nat /\ Numbers[d[1]] = [k \in 1..Count(d) |-> k]
<1>1. d[1] \in Classes
  BY DEF Devices
<1>2. IsList(Permanents[d[1]])
  BY <1>1, RegistryIsList DEF Permanents
<1>3. Count(d) \in Nat /\ DOMAIN Permanents[d[1]] = 1..Count(d)
  BY <1>2 DEF IsList, Count
<1> QED BY <1>1, <1>3 DEF Numbers

(* A registry with m temporary entries in front of the n for good. *)
Layout(m, n) == [i \in 1..m + n |-> IF i <= m THEN 0 ELSE i - m]

-----------------------------------------------------------------------------
(* Its entries, read one by one. *)
LEMMA LayoutIsSeq ==
  ASSUME NEW m \in Nat, NEW n \in Nat
  PROVE  /\ Layout(m, n) \in Seq(Nat) /\ Len(Layout(m, n)) = m + n
         /\ \A i \in 1..m : Layout(m, n)[i] = 0
         /\ \A i \in 1..n : Layout(m, n)[m + i] = i
<1>1. Layout(m, n) \in [1..m + n -> Nat]
  BY DEF Layout
<1>2. Layout(m, n) \in Seq(Nat) /\ Len(Layout(m, n)) = m + n
  BY <1>1
<1>3. ASSUME NEW i \in 1..m PROVE Layout(m, n)[i] = 0
  <2>1. i \in 1..m + n
    OBVIOUS
  <2> QED BY <2>1 DEF Layout
<1>4. ASSUME NEW i \in 1..n PROVE Layout(m, n)[m + i] = i
  <2>1. m + i \in 1..m + n /\ ~(m + i <= m) /\ m + i - m = i
    OBVIOUS
  <2> QED BY <2>1 DEF Layout
<1> QED BY <1>2, <1>3, <1>4

(* A sequence with those entries is that registry. *)
LEMMA IsLayout ==
  ASSUME NEW s, NEW m \in Nat, NEW n \in Nat, s \in Seq(Nat), Len(s) = m + n,
         \A i \in 1..m : s[i] = 0,
         \A i \in 1..n : s[m + i] = i
  PROVE  s = Layout(m, n)
<1> DEFINE t == Layout(m, n)
<1>1. /\ t \in Seq(Nat) /\ Len(t) = m + n
      /\ \A i \in 1..m : t[i] = 0
      /\ \A i \in 1..n : t[m + i] = i
  BY LayoutIsSeq
<1> HIDE DEF t
<1>2. ASSUME NEW i \in 1..Len(s) PROVE s[i] = t[i]
  <2>1. CASE i <= m
    <3>1. i \in 1..m
      BY <2>1
    <3> QED BY <1>1, <3>1
  <2>2. CASE ~(i <= m)
    <3>1. i - m \in 1..n /\ m + (i - m) = i
      BY <2>2
    <3>2. s[m + (i - m)] = i - m /\ t[m + (i - m)] = i - m
      BY <1>1, <3>1
    <3> QED BY <3>1, <3>2
  <2> QED BY <2>1, <2>2
<1> QED BY <1>1, <1>2, SeqEqual DEF t

(* The entries of two sequences after one another. *)
LEMMA Ends ==
  ASSUME NEW s \in Seq(Nat), NEW t \in Seq(Nat)
  PROVE  /\ s \o t \in Seq(Nat) /\ Len(s \o t) = Len(s) + Len(t)
         /\ \A i \in 1..Len(s) : (s \o t)[i] = s[i]
         /\ \A i \in 1..Len(t) : (s \o t)[Len(s) + i] = t[i]
<1>1. /\ s \o t \in Seq(Nat) /\ Len(s \o t) = Len(s) + Len(t)
      /\ \A i \in 1..Len(s) + Len(t) : (s \o t)[i] = IF i <= Len(s) THEN s[i] ELSE t[i - Len(s)]
  BY ConcatProperties
<1>2. Len(s) \in Nat /\ Len(t) \in Nat
  OBVIOUS
<1>3. ASSUME NEW i \in 1..Len(s) PROVE (s \o t)[i] = s[i]
  <2>1. i \in 1..Len(s) + Len(t) /\ i <= Len(s)
    BY <1>2
  <2> QED BY <1>1, <2>1
<1>4. ASSUME NEW i \in 1..Len(t) PROVE (s \o t)[Len(s) + i] = t[i]
  <2>1. Len(s) + i \in 1..Len(s) + Len(t) /\ ~(Len(s) + i <= Len(s)) /\ Len(s) + i - Len(s) = i
    BY <1>2
  <2> QED BY <1>1, <2>1
<1> QED BY <1>1, <1>3, <1>4

(* The registry as the model writes it. *)
LEMMA LayoutJoins ==
  ASSUME NEW m \in Nat, NEW n \in Nat
  PROVE  [k \in 1..m |-> Temporary] \o [k \in 1..n |-> k] = Layout(m, n)
<1> DEFINE s == [k \in 1..m |-> Temporary]
<1> DEFINE t == [k \in 1..n |-> k]
<1>1. s \in Seq(Nat) /\ t \in Seq(Nat) /\ Len(s) = m /\ Len(t) = n
  BY DEF Temporary
<1>2. /\ \A k \in 1..m : s[k] = 0
      /\ \A k \in 1..n : t[k] = k
  BY DEF Temporary
<1> HIDE DEF s, t
<1>3. /\ s \o t \in Seq(Nat) /\ Len(s \o t) = m + n
      /\ \A i \in 1..m : (s \o t)[i] = s[i]
      /\ \A i \in 1..n : (s \o t)[m + i] = t[i]
  BY <1>1, Ends
<1> QED BY <1>2, <1>3, IsLayout DEF s, t

(* addMon(..., true) in front of a registry leaves a registry. *)
LEMMA LayoutGrows ==
  ASSUME NEW m \in Nat, NEW n \in Nat
  PROVE  <<Temporary>> \o Layout(m, n) = Layout(m + 1, n)
<1> DEFINE s == Layout(m, n)
<1> DEFINE t == <<Temporary>>
<1>1. /\ s \in Seq(Nat) /\ Len(s) = m + n
      /\ \A i \in 1..m : s[i] = 0
      /\ \A i \in 1..n : s[m + i] = i
  BY LayoutIsSeq
<1>2. t \in Seq(Nat) /\ Len(t) = 1 /\ t[1] = 0
  BY DEF Temporary
<1> HIDE DEF s, t
<1>3. /\ t \o s \in Seq(Nat) /\ Len(t \o s) = 1 + (m + n)
      /\ \A i \in 1..1 : (t \o s)[i] = t[i]
      /\ \A i \in 1..m + n : (t \o s)[1 + i] = s[i]
  <2>1. /\ t \o s \in Seq(Nat) /\ Len(t \o s) = Len(t) + Len(s)
        /\ \A i \in 1..Len(t) : (t \o s)[i] = t[i]
        /\ \A i \in 1..Len(s) : (t \o s)[Len(t) + i] = s[i]
    BY <1>1, <1>2, Ends
  <2> QED BY <1>1, <1>2, <2>1
<1>4. ASSUME NEW i \in 1..m + 1 PROVE (t \o s)[i] = 0
  <2>1. CASE i = 1
    BY <1>2, <1>3, <2>1
  <2>2. CASE i # 1
    <3>1. i - 1 \in 1..m /\ i - 1 \in 1..m + n /\ 1 + (i - 1) = i
      BY <2>2
    <3>2. (t \o s)[1 + (i - 1)] = s[i - 1]
      BY <1>3, <3>1
    <3> QED BY <1>1, <3>1, <3>2
  <2> QED BY <2>1, <2>2
<1>5. ASSUME NEW i \in 1..n PROVE (t \o s)[m + 1 + i] = i
  <2>1. m + i \in 1..m + n /\ 1 + (m + i) = m + 1 + i
    OBVIOUS
  <2>2. (t \o s)[1 + (m + i)] = s[m + i]
    BY <1>3, <2>1
  <2> QED BY <1>1, <2>1, <2>2
<1>6. m + 1 \in Nat /\ Len(t \o s) = m + 1 + n
  BY <1>3
<1> QED BY <1>3, <1>4, <1>5, <1>6, IsLayout DEF s, t

(* Erasing any one of the temporary entries leaves a registry. *)
LEMMA LayoutShrinks ==
  ASSUME NEW m \in Nat \ {0}, NEW n \in Nat, NEW j \in 1..m
  PROVE  RemoveAt(Layout(m, n), j) = Layout(m - 1, n)
<1> DEFINE s == Layout(m, n)
<1> DEFINE a == SubSeq(s, 1, j - 1)
<1> DEFINE b == SubSeq(s, j + 1, Len(s))
<1>1. /\ s \in Seq(Nat) /\ Len(s) = m + n
      /\ \A i \in 1..m : s[i] = 0
      /\ \A i \in 1..n : s[m + i] = i
  BY LayoutIsSeq
<1>2. RemoveAt(s, j) = a \o b
  BY DEF RemoveAt
<1> HIDE DEF s
<1>3. \A i \in 1..m + n : s[i] \in Nat
  BY <1>1
<1>4. a \in Seq(Nat) /\ Len(a) = j - 1 /\ \A i \in 1..j - 1 : a[i] = s[i]
  <2>1. /\ a \in Seq(Nat) /\ Len(a) = (IF 1 <= j - 1 THEN j - 1 - 1 + 1 ELSE 0)
        /\ \A i \in 1..j - 1 - 1 + 1 : a[i] = s[1 + i - 1]
    <3>1. 1 \in Int /\ j - 1 \in Int /\ \A i \in 1..j - 1 : s[i] \in Nat
      BY <1>3
    <3> HIDE DEF a
    <3> QED BY <3>1, SubSeqProperties DEF a
  <2> HIDE DEF a
  <2>2. Len(a) = j - 1
    BY <2>1
  <2>3. ASSUME NEW i \in 1..j - 1 PROVE a[i] = s[i]
    <3>1. i \in 1..j - 1 - 1 + 1 /\ 1 + i - 1 = i
      OBVIOUS
    <3>2. a[i] = s[1 + i - 1]
      BY <2>1, <3>1
    <3> QED BY <3>1, <3>2
  <2> QED BY <2>1, <2>2, <2>3
<1>5. b \in Seq(Nat) /\ Len(b) = m + n - j /\ \A i \in 1..m + n - j : b[i] = s[j + i]
  <2>1. /\ b \in Seq(Nat) /\ Len(b) = (IF j + 1 <= m + n THEN m + n - (j + 1) + 1 ELSE 0)
        /\ \A i \in 1..m + n - (j + 1) + 1 : b[i] = s[j + 1 + i - 1]
    <3>1. j + 1 \in Int /\ m + n \in Int /\ \A i \in j + 1..m + n : s[i] \in Nat
      BY <1>3
    <3>2. b = SubSeq(s, j + 1, m + n)
      BY <1>1
    <3> HIDE DEF b
    <3> QED BY <3>1, <3>2, SubSeqProperties
  <2> HIDE DEF b
  <2>2. Len(b) = m + n - j
    BY <2>1
  <2>3. ASSUME NEW i \in 1..m + n - j PROVE b[i] = s[j + i]
    <3>1. i \in 1..m + n - (j + 1) + 1 /\ j + 1 + i - 1 = j + i
      OBVIOUS
    <3>2. b[i] = s[j + 1 + i - 1]
      BY <2>1, <3>1
    <3> QED BY <3>1, <3>2
  <2> QED BY <2>1, <2>2, <2>3
<1> HIDE DEF a, b
<1>6. /\ a \o b \in Seq(Nat) /\ Len(a \o b) = j - 1 + (m + n - j)
      /\ \A i \in 1..j - 1 : (a \o b)[i] = a[i]
      /\ \A i \in 1..m + n - j : (a \o b)[j - 1 + i] = b[i]
  <2>1. /\ a \o b \in Seq(Nat) /\ Len(a \o b) = Len(a) + Len(b)
        /\ \A i \in 1..Len(a) : (a \o b)[i] = a[i]
        /\ \A i \in 1..Len(b) : (a \o b)[Len(a) + i] = b[i]
    BY <1>4, <1>5, Ends
  <2> QED BY <1>4, <1>5, <2>1
<1>7. ASSUME NEW i \in 1..m - 1 PROVE (a \o b)[i] = 0
  <2>1. CASE i <= j - 1
    <3>1. i \in 1..j - 1 /\ i \in 1..m
      BY <2>1
    <3> QED BY <1>1, <1>4, <1>6, <3>1
  <2>2. CASE ~(i <= j - 1)
    <3> DEFINE k == i - (j - 1)
    <3>1. k \in 1..m + n - j /\ j - 1 + k = i /\ j + k = i + 1 /\ i + 1 \in 1..m
      BY <2>2
    <3> HIDE DEF k
    <3>2. (a \o b)[j - 1 + k] = b[k] /\ b[k] = s[j + k]
      BY <1>5, <1>6, <3>1
    <3>3. s[i + 1] = 0
      BY <1>1, <3>1
    <3> QED BY <3>1, <3>2, <3>3
  <2> QED BY <2>1, <2>2
<1>8. ASSUME NEW i \in 1..n PROVE (a \o b)[m - 1 + i] = i
  <2> DEFINE k == m + i - j
  <2>1. k \in 1..m + n - j /\ j - 1 + k = m - 1 + i /\ j + k = m + i
    OBVIOUS
  <2> HIDE DEF k
  <2>2. (a \o b)[j - 1 + k] = b[k] /\ b[k] = s[j + k]
    BY <1>5, <1>6, <2>1
  <2>3. s[m + i] = i
    BY <1>1
  <2> QED BY <2>1, <2>2, <2>3
<1>9. m - 1 \in Nat /\ Len(a \o b) = m - 1 + n
  BY <1>6
<1> QED BY <1>2, <1>6, <1>7, <1>8, <1>9, IsLayout DEF s

-----------------------------------------------------------------------------
(* The inductive invariant of the registry.  What the thread is about to    *)
(* erase is temporary: the entry that it took was, and if others have been  *)
(* pushed in front of it in the meantime, the first of them is erased       *)
(* instead.                                                                 *)
RegistryInv ==
  /\ dev \in Devices
  /\ Temps \in Nat
  /\ PermanentsStay
  /\ nextMon \in Nat \ {0}
  /\ serving.temp => at = 0 /\ nextMon <= Temps

(* The registry of a state with the invariant. *)
LEMMA LaidOut ==
  ASSUME RegistryInv
  PROVE  /\ registry = Layout(Temps, Count(dev)) /\ Count(dev) \in Nat
         /\ Len(registry) = Temps + Count(dev)
<1>1. Count(dev) \in Nat /\ Numbers[dev[1]] = [k \in 1..Count(dev) |-> k]
  BY Numbered DEF RegistryInv
<1>2. registry = Layout(Temps, Count(dev))
  BY <1>1, LayoutJoins DEF RegistryInv, PermanentsStay
<1>3. Temps \in Nat
  BY DEF RegistryInv
<1>4. Len(registry) = Temps + Count(dev)
  BY <1>1, <1>2, <1>3 DEF Layout
<1> QED BY <1>1, <1>2, <1>4

(* A registry that is laid out so has the points for good in their order. *)
LEMMA Relaid ==
  ASSUME NEW m \in Nat, dev' \in Devices, registry' = Layout(m, Count(dev'))
  PROVE  Temps' = m /\ PermanentsStay'
<1>1. Count(dev') \in Nat /\ Numbers[dev'[1]] = [k \in 1..Count(dev') |-> k]
  BY Numbered
<1>2. Len(registry') = m + Count(dev')
  BY <1>1 DEF Layout
<1>3. Len(Numbers[dev'[1]]) = Count(dev')
  BY <1>1
<1>4. Temps' = m
  BY <1>1, <1>2, <1>3 DEF Temps
<1>5. registry' = [k \in 1..m |-> Temporary] \o Numbers[dev'[1]]
  BY <1>1, LayoutJoins
<1> QED BY <1>4, <1>5 DEF PermanentsStay

(* A device begins with its points for good and nothing in front of them. *)
LEMMA RegistryInit == DeviceInit => RegistryInv
<1> SUFFICES ASSUME DeviceInit PROVE RegistryInv
  OBVIOUS
<1>1. dev \in Devices /\ registry = Numbers[dev[1]] /\ nextMon = 1 /\ ~serving.temp
  BY DEF DeviceInit, NoEntry
<1>2. Temps = 0
  <2>1. Len(Numbers[dev[1]]) \in Nat
    BY <1>1, Numbered
  <2> QED BY <1>1, <2>1 DEF Temps
<1>3. PermanentsStay
  <2>1. Count(dev) \in Nat /\ Numbers[dev[1]] = [k \in 1..Count(dev) |-> k]
    BY <1>1, Numbered
  <2>2. [k \in 1..0 |-> Temporary] \o [k \in 1..Count(dev) |-> k] = Layout(0, Count(dev))
    BY <2>1, LayoutJoins
  <2>3. Layout(0, Count(dev)) = [k \in 1..Count(dev) |-> k]
    BY <2>1 DEF Layout
  <2> QED BY <1>1, <1>2, <2>1, <2>2, <2>3 DEF PermanentsStay
<1> QED BY <1>1, <1>2, <1>3 DEF RegistryInv

(* A step that leaves the registry and the iterator alone, and takes no     *)
(* temporary entry, keeps the invariant.                                    *)
LEMMA RegistryKept ==
  ASSUME RegistryInv, UNCHANGED <<dev, registry, nextMon, at>>,
         serving'.temp => serving.temp
  PROVE  RegistryInv'
<1>1. Temps' = Temps /\ (PermanentsStay' <=> PermanentsStay)
  BY DEF Temps, PermanentsStay
<1> QED BY <1>1 DEF RegistryInv

(* So does one that pushes a temporary entry while the thread is between    *)
(* fetching and moving on.                                                  *)
LEMMA Pushed ==
  ASSUME RegistryInv, AddTemporary, UNCHANGED <<dev, at, serving>>
  PROVE  RegistryInv'
<1>1. /\ registry = Layout(Temps, Count(dev)) /\ Temps \in Nat /\ Count(dev) \in Nat
      /\ dev' = dev /\ dev \in Devices
  BY LaidOut DEF RegistryInv
<1>2. registry' = Layout(Temps + 1, Count(dev)) /\ nextMon' = 1
  BY <1>1, LayoutGrows DEF AddTemporary
<1>3. Temps' = Temps + 1 /\ PermanentsStay'
  BY <1>1, <1>2, Relaid
<1> QED BY <1>1, <1>2, <1>3 DEF RegistryInv

(* What the host and the hardware do in the meantime is one or the other. *)
LEMMA Changed ==
  ASSUME RegistryInv, Changes
  PROVE  RegistryInv'
<1>1. UNCHANGED <<dev, at, serving>>
  BY DEF Changes
<1>2. AddTemporary \/ UNCHANGED <<registry, nextMon>>
  BY DEF Changes, Command, DeviceChanges, MinimalMonitor, Standby2
<1> QED BY <1>1, <1>2, Pushed, RegistryKept

(* An entry is taken for temporary only from the front of the registry. *)
LEMMA Fetched ==
  ASSUME RegistryInv, Fetch
  PROVE  RegistryInv'
<1>1. UNCHANGED <<dev, registry>> /\ serving = NoEntry /\ ~serving.temp
  BY DEF Fetch, host, NoEntry
<1>2. Temps' = Temps /\ (PermanentsStay' <=> PermanentsStay)
  BY <1>1 DEF Temps, PermanentsStay
<1>3. CASE at = 0 /\ nextMon > Len(registry)
  <2>1. nextMon' = 1 /\ serving' = serving
    BY <1>3 DEF Fetch
  <2> QED BY <1>1, <1>2, <2>1 DEF RegistryInv
<1>4. CASE at = 0 /\ ~(nextMon > Len(registry))
  <2>1. serving' = EntryOf(registry[nextMon]) /\ UNCHANGED <<nextMon, at>>
    BY <1>4 DEF Fetch
  <2>2. serving'.temp <=> registry[nextMon] = Temporary
    BY <2>1 DEF EntryOf
  <2>3. /\ registry = Layout(Temps, Count(dev)) /\ Temps \in Nat /\ Count(dev) \in Nat
        /\ Len(registry) = Temps + Count(dev) /\ nextMon \in Nat \ {0}
    BY LaidOut DEF RegistryInv
  <2>4. registry[nextMon] = IF nextMon <= Temps THEN 0 ELSE nextMon - Temps
    BY <1>4, <2>3 DEF Layout
  <2>5. serving'.temp => nextMon <= Temps
    BY <2>2, <2>3, <2>4 DEF Temporary
  <2> QED BY <1>1, <1>2, <1>4, <2>1, <2>5 DEF RegistryInv
<1>5. CASE at # 0
  <2>1. serving' = Permanent(Digital[dev[1]][at]) /\ UNCHANGED <<nextMon, at>>
    BY <1>5 DEF Fetch
  <2>2. ~serving'.temp
    BY <2>1 DEF Permanent
  <2> QED BY <1>1, <1>2, <2>1, <2>2 DEF RegistryInv
<1> QED BY <1>3, <1>4, <1>5

(* Moving on erases one temporary entry, or passes over one for good. *)
LEMMA Stored ==
  ASSUME RegistryInv, Store
  PROVE  RegistryInv'
<1>1. dev' = dev /\ ~serving'.temp /\ dev \in Devices
  BY DEF Store, NoEntry, RegistryInv
<1>2. CASE at = 0 /\ serving.temp
  <2>1. registry' = RemoveAt(registry, nextMon) /\ nextMon' = nextMon
    BY <1>2 DEF Store, Advance
  <2>2. /\ registry = Layout(Temps, Count(dev)) /\ Temps \in Nat /\ Count(dev) \in Nat
        /\ nextMon \in 1..Temps
    BY <1>2, LaidOut DEF RegistryInv
  <2>3. Temps \in Nat \ {0} /\ Temps - 1 \in Nat
    BY <2>2
  <2>4. registry' = Layout(Temps - 1, Count(dev))
    BY <2>1, <2>2, <2>3, LayoutShrinks
  <2>5. Temps' = Temps - 1 /\ PermanentsStay'
    BY <1>1, <2>3, <2>4, Relaid
  <2> QED BY <1>1, <2>1, <2>2, <2>3, <2>5 DEF RegistryInv
<1>3. CASE ~(at = 0 /\ serving.temp)
  <2>1. registry' = registry /\ (nextMon' = nextMon + 1 \/ nextMon' = nextMon)
    BY <1>3 DEF Store, Advance
  <2>2. Temps' = Temps /\ (PermanentsStay' <=> PermanentsStay)
    BY <1>1, <2>1 DEF Temps, PermanentsStay
  <2> QED BY <1>1, <2>1, <2>2 DEF RegistryInv
<1> QED BY <1>2, <1>3

(* Every step keeps the invariant. *)
LEMMA RegistryStep ==
  ASSUME RegistryInv, [DeviceNext]_deviceVars
  PROVE  RegistryInv'
<1>1. CASE Changes
  BY <1>1, Changed
<1>2. CASE Fetch
  BY <1>2, Fetched
<1>3. CASE Store
  BY <1>3, Stored
<1>4. ASSUME NEW ok \in BOOLEAN, Read(ok) \/ MinimalPass(ok) \/ HostReads(ok) PROVE RegistryInv'
  BY <1>4, RegistryKept DEF Read, MinimalPass, HostReads
<1>5. CASE UNCHANGED deviceVars
  BY <1>5, RegistryKept DEF deviceVars, monitor
<1> QED BY <1>1, <1>2, <1>3, <1>4, <1>5 DEF DeviceNext, Monitor

(* The invariant of the registry holds throughout, for every class of       *)
(* device, port and number of temporary entries.                            *)
THEOREM RegistryInductive == DeviceSpec => []RegistryInv
<1>1. RegistryInv /\ [DeviceNext]_deviceVars => RegistryInv'
  BY RegistryStep
<1> QED BY <1>1, RegistryInit, PTL DEF DeviceSpec

(* The points that are monitored for good stay in the registry, in their    *)
(* order, whatever is pushed in front of them while the thread is between   *)
(* fetching an entry and moving on from it.                                 *)
THEOREM PermanentsRemain == DeviceSpec => []PermanentsStay
<1>1. RegistryInv => PermanentsStay
  BY DEF RegistryInv
<1> QED BY <1>1, RegistryInductive, PTL

(***************************************************************************)
(* DevicePoints: values show at their own points.                          *)
(***************************************************************************)
(* Up to three phases, put together: the first, and each of the others after *)
(* what there was.                                                           *)
LEMMA PhasesJoined ==
  ASSUME NEW q, Len(q) \in 1..3
  PROVE  /\ Len(q) = 1 => FlattenSeq(q) = q[1]
         /\ Len(q) = 2 => FlattenSeq(q) = q[1] \o q[2]
         /\ Len(q) = 3 => FlattenSeq(q) = (q[1] \o q[2]) \o q[3]
<1> DEFINE fl == CHOOSE f : f = [i \in 1..Len(q) |-> IF i = 1 THEN q[i] ELSE f[i - 1] \o q[i]]
<1> DEFINE g == [i \in 1..Len(q) |-> IF i = 1 THEN q[1] ELSE IF i = 2 THEN q[1] \o q[2]
                                     ELSE (q[1] \o q[2]) \o q[3]]
<1>1. g = [i \in 1..Len(q) |-> IF i = 1 THEN q[i] ELSE g[i - 1] \o q[i]]
  <2>1. ASSUME NEW i \in 1..Len(q)
        PROVE  g[i] = IF i = 1 THEN q[i] ELSE g[i - 1] \o q[i]
    <3>1. CASE i = 1
      BY <3>1
    <3>2. CASE i = 2
      <4>1. 1 \in 1..Len(q) /\ 2 \in 1..Len(q) /\ 2 # 1 /\ i - 1 = 1
        BY <3>2
      <4>2. g[1] = q[1] /\ g[2] = q[1] \o q[2]
        BY <4>1, Zenon
      <4> QED BY <3>2, <4>1, <4>2, Zenon
    <3>3. CASE i = 3
      <4>1. 2 \in 1..Len(q) /\ 3 \in 1..Len(q) /\ 2 # 1 /\ 3 # 1 /\ 3 # 2 /\ i - 1 = 2
        BY <3>3
      <4>2. g[2] = q[1] \o q[2] /\ g[3] = (q[1] \o q[2]) \o q[3]
        BY <4>1, Zenon
      <4> QED BY <3>3, <4>1, <4>2, Zenon
    <3> QED BY <3>1, <3>2, <3>3
  <2> QED BY <2>1
<1> HIDE DEF g
<1>2. fl = [i \in 1..Len(q) |-> IF i = 1 THEN q[i] ELSE fl[i - 1] \o q[i]]
  BY <1>1
<1>3. FlattenSeq(q) = fl[Len(q)]
  BY DEF FlattenSeq
<1> HIDE DEF fl
<1>4. fl[1] = q[1]
  BY <1>2
<1>5. ASSUME NEW i \in 2..Len(q), NEW j, i - 1 = j PROVE fl[i] = fl[j] \o q[i]
  <2>1. i \in 1..Len(q) /\ i # 1
    OBVIOUS
  <2>2. fl[i] = IF i = 1 THEN q[i] ELSE fl[i - 1] \o q[i]
    BY <1>2, <2>1, Zenon
  <2> QED BY <1>5, <2>1, <2>2, Zenon
<1>6. ASSUME Len(q) \in 2..3 PROVE fl[2] = fl[1] \o q[2]
  <2>1. 2 \in 2..Len(q) /\ 2 - 1 = 1
    BY <1>6
  <2> QED BY <1>5, <2>1, Zenon
<1>7. ASSUME Len(q) = 3 PROVE fl[3] = fl[2] \o q[3]
  <2>1. 3 \in 2..Len(q) /\ 3 - 1 = 2
    BY <1>7
  <2> QED BY <1>5, <2>1, Zenon
<1>8. CASE Len(q) = 1
  BY <1>3, <1>4, <1>8
<1>9. CASE Len(q) = 2
  <2>1. FlattenSeq(q) = fl[2] /\ Len(q) \in 2..3
    BY <1>3, <1>9
  <2> QED BY <1>4, <1>6, <1>9, <2>1
<1>10. CASE Len(q) = 3
  <2>1. FlattenSeq(q) = fl[3] /\ Len(q) \in 2..3
    BY <1>3, <1>10
  <2> QED BY <1>4, <1>6, <1>7, <1>10, <2>1
<1> QED BY <1>8, <1>9, <1>10
(* A list that is not empty. *)
Filled(s) == IsList(s) /\ Len(s) > 0

(* Put together, such lists stay so. *)
LEMMA StaysFilled ==
  /\ \A s, t : Filled(s) /\ Filled(t) => Filled(s \o t)
  /\ \A s, t : Filled(s) /\ Filled(t) => Filled(Cross(s, t))
<1>1. ASSUME NEW s, NEW t, Filled(s), Filled(t) PROVE Filled(s \o t)
  <2>1. IsList(s \o t)
    BY <1>1, Joined DEF Filled
  <2>2. Len(s \o t) = Len(s) + Len(t)
    <3> DEFINE S == {s[k] : k \in 1..Len(s)} \cup {t[k] : k \in 1..Len(t)}
    <3>1. s \in Seq(S) /\ t \in Seq(S)
      BY <1>1 DEF Filled, IsList
    <3> HIDE DEF S
    <3> QED BY <3>1
  <2> QED BY <1>1, <2>1, <2>2 DEF Filled, IsList
<1>2. ASSUME NEW s, NEW t, Filled(s), Filled(t) PROVE Filled(Cross(s, t))
  <2>1. IsList(Cross(s, t))
    BY <1>2, Crossed DEF Filled
  <2>2. Len(s) \in Nat \ {0} /\ Len(t) \in Nat \ {0}
    BY <1>2 DEF Filled, IsList
  <2>3. DOMAIN Cross(s, t) = 1..Len(s) * Len(t)
    BY DEF Cross
  <2>4. DOMAIN Cross(s, t) = 1..Len(Cross(s, t)) /\ Len(Cross(s, t)) \in Nat
    BY <2>1 DEF IsList
  <2>5. Len(s) * Len(t) >= 1
    BY <2>2, SMT
  <2>6. 1 \in DOMAIN Cross(s, t)
    BY <2>2, <2>3, <2>5, SMT
  <2> QED BY <2>1, <2>4, <2>6 DEF Filled
<1> QED BY <1>1, <1>2

(* The places are. *)
LEMMA PlacesFilled ==
  /\ Filled(<< <<0, 0>> >>) /\ Filled(Pols) /\ Filled(PolSbs)
  /\ \A last \in Nat : Filled(UpTo(last))
<1>1. Len(Pols) > 0 /\ Len(PolSbs) > 0 /\ Len(<< <<0, 0>> >>) > 0
  BY DEF Pols, PolSbs
<1>2. ASSUME NEW last \in Nat PROVE Len(UpTo(last)) > 0
  <2>1. UpTo(last) = [k \in 1..last + 1 |-> <<k - 1, 0>>]
    BY DEF UpTo
  <2> QED BY <2>1
<1> QED BY <1>1, <1>2, Places DEF Filled

(* So are up to three phases, put together. *)
LEMMA FilledPhases ==
  ASSUME NEW q, Len(q) \in 1..3, \A i \in 1..Len(q) : Filled(q[i])
  PROVE  Filled(FlattenSeq(q))
<1>1. CASE Len(q) = 1
  <2>1. FlattenSeq(q) = q[1]
    BY <1>1, PhasesJoined, Zenon
  <2>2. Filled(q[1])
    BY <1>1
  <2> QED BY <2>1, <2>2, Zenon
<1>2. CASE Len(q) = 2
  <2>1. FlattenSeq(q) = q[1] \o q[2]
    BY <1>2, PhasesJoined
  <2>2. Filled(q[1]) /\ Filled(q[2])
    BY <1>2
  <2>3. Filled(q[1] \o q[2])
    BY <2>2, StaysFilled
  <2> QED BY <2>1, <2>3, Zenon
<1>3. CASE Len(q) = 3
  <2>1. FlattenSeq(q) = (q[1] \o q[2]) \o q[3]
    BY <1>3, PhasesJoined, Zenon
  <2>2. Filled(q[1]) /\ Filled(q[2]) /\ Filled(q[3])
    BY <1>3
  <2>3. Filled(q[1] \o q[2])
    BY <2>2, StaysFilled
  <2>4. Filled((q[1] \o q[2]) \o q[3])
    BY <2>2, <2>3, StaysFilled
  <2> QED BY <2>1, <2>4, Zenon
<1> QED BY <1>1, <1>2, <1>3

(* So is one name. *)
LEMMA OneName == \A n : Filled(<<n>>)
  BY DEF Filled, IsList

(* The warm cartridge assembly's digital points. *)
LEMMA WCADigital == Filled(FlattenSeq(WCAPhases))
<1>1. Filled(<<"PLL_UNLOCK_DETECT_LATCH", "YTO_COARSE_TUNE",
                "PLL_NULL_LOOP_INTEGRATOR">>)
  BY DEF Filled, IsList
<1>2. Filled(Plain(<<"PLL_UNLOCK_DETECT_LATCH", "YTO_COARSE_TUNE",
                        "PLL_NULL_LOOP_INTEGRATOR">>))
  BY <1>1, StaysFilled, PlacesFilled DEF Plain
<1>3. Filled(<<"AMC_MULTIPLIER_D_COUNTS", "PHOTOMIXER_ENABLE",
                "PLL_LOOP_BANDWIDTH_SELECT", "PLL_SIDEBAND_LOCK_POL_SELECT">>)
  BY DEF Filled, IsList
<1>4. Filled(Plain(<<"AMC_MULTIPLIER_D_COUNTS", "PHOTOMIXER_ENABLE",
                        "PLL_LOOP_BANDWIDTH_SELECT", "PLL_SIDEBAND_LOCK_POL_SELECT">>))
  BY <1>3, StaysFilled, PlacesFilled DEF Plain
<1>5. Len(WCAPhases) = 2 /\ \A i \in 1..2 : Filled(WCAPhases[i])
  BY <1>2, <1>4 DEF WCAPhases
<1> QED BY <1>5, FilledPhases

(* The cold cartridge's. *)
LEMMA ColdCartDigital == Filled(FlattenSeq(ColdCartPhases))
<1>1. Filled(Cross(<<"SIS_OPEN_LOOP">>, PolSbs))
  BY OneName, StaysFilled, PlacesFilled DEF Plain
<1>2. Filled(Cross(<<"LNA_ENABLE">>, PolSbs))
  BY OneName, StaysFilled, PlacesFilled DEF Plain
<1>3. Filled(Cross(<<"LNA_LED_ENABLE">>, Pols))
  BY OneName, StaysFilled, PlacesFilled DEF Plain
<1>4. Len(ColdCartPhases) = 3 /\ \A i \in 1..3 : Filled(ColdCartPhases[i])
  BY <1>1, <1>2, <1>3 DEF ColdCartPhases
<1> QED BY <1>4, FilledPhases

(* The power module's. *)
LEMMA PowerModuleDigital == Filled(FlattenSeq(PowerModulePhases))
<1>1. Filled(Plain(<<"ENABLE_MODULE">>))
  BY OneName, StaysFilled, PlacesFilled DEF Plain
<1>2. Len(PowerModulePhases) = 1 /\ \A i \in 1..1 : Filled(PowerModulePhases[i])
  BY <1>1 DEF PowerModulePhases
<1> QED BY <1>2, FilledPhases

(* The IF switch's. *)
LEMMA IFSwitchDigital == Filled(FlattenSeq(IFSwitchPhases))
<1>1. Filled(Plain(<<"SWITCH_CARTRIDGE">>)
              \o Cross(<<"ATTENUATION">>, PolSbs)
              \o Cross(<<"TEMP_SERVO_ENABLE">>, PolSbs))
  BY OneName, StaysFilled, PlacesFilled DEF Plain
<1>2. Len(IFSwitchPhases) = 1 /\ \A i \in 1..1 : Filled(IFSwitchPhases[i])
  BY <1>1 DEF IFSwitchPhases
<1> QED BY <1>2, FilledPhases

(* The optical switch's. *)
LEMMA LPRDigital == Filled(FlattenSeq(LPRPhases))
<1>1. Filled(<<"OPTICAL_SWITCH_PORT", "OPTICAL_SWITCH_SHUTTER",
                "OPTICAL_SWITCH_STATE", "OPTICAL_SWITCH_BUSY">>)
  BY DEF Filled, IsList
<1>2. Filled(Plain(<<"OPTICAL_SWITCH_PORT", "OPTICAL_SWITCH_SHUTTER",
                        "OPTICAL_SWITCH_STATE", "OPTICAL_SWITCH_BUSY">>))
  BY <1>1, StaysFilled, PlacesFilled DEF Plain
<1>3. Len(LPRPhases) = 1 /\ \A i \in 1..1 : Filled(LPRPhases[i])
  BY <1>2 DEF LPRPhases
<1> QED BY <1>3, FilledPhases

(* The cryostat's. *)
LEMMA CryostatDigital == Filled(FlattenSeq(CryostatPhases))
<1>1. Filled(<<"BACKING_PUMP_ENABLE", "TURBO_PUMP_ENABLE", "TURBO_PUMP_STATE",
                "TURBO_PUMP_SPEED", "GATE_VALVE_STATE", "SOLENOID_VALVE_STATE",
                "VACUUM_GAUGE_ENABLE", "VACUUM_GAUGE_STATE">>)
  BY DEF Filled, IsList
<1>2. Filled(Plain(<<"BACKING_PUMP_ENABLE", "TURBO_PUMP_ENABLE", "TURBO_PUMP_STATE",
                        "TURBO_PUMP_SPEED", "GATE_VALVE_STATE", "SOLENOID_VALVE_STATE",
                        "VACUUM_GAUGE_ENABLE", "VACUUM_GAUGE_STATE">>))
  BY <1>1, StaysFilled, PlacesFilled DEF Plain
<1>3. Len(CryostatPhases) = 1 /\ \A i \in 1..1 : Filled(CryostatPhases[i])
  BY <1>2 DEF CryostatPhases
<1> QED BY <1>3, FilledPhases

(* The interlock module's. *)
LEMMA FETIMDigital == Filled(FlattenSeq(FETIMPhases))
<1>1. Filled(<<"FLOW_OOR", "HE2_PRESS_OOR">>)
  BY DEF Filled, IsList
<1>2. Filled(Plain(<<"INT_TEMP_OOR">>)
              \o Cross(<<"EXT_TEMP_OOR">>, UpTo(1))
              \o Plain(<<"FLOW_OOR", "HE2_PRESS_OOR">>))
  BY <1>1, OneName, StaysFilled, PlacesFilled DEF Plain
<1>3. Filled(<<"SINGLE_FAIL", "MULT_FAIL", "GLITCH_CNT_TRIG", "DELAY_TRIG",
                "SHUTDOWN_TRIG">>)
  BY DEF Filled, IsList
<1>4. Filled(Plain(<<"SINGLE_FAIL", "MULT_FAIL", "GLITCH_CNT_TRIG", "DELAY_TRIG",
                        "SHUTDOWN_TRIG">>))
  BY <1>3, StaysFilled, PlacesFilled DEF Plain
<1>5. Filled(<<"FE_STATUS", "INTRLK_STATUS", "CABLE_STATUS">>)
  BY DEF Filled, IsList
<1>6. Filled(Plain(<<"FE_STATUS", "INTRLK_STATUS", "CABLE_STATUS">>))
  BY <1>5, StaysFilled, PlacesFilled DEF Plain
<1>7. Len(FETIMPhases) = 3 /\ \A i \in 1..3 : Filled(FETIMPhases[i])
  BY <1>2, <1>4, <1>6 DEF FETIMPhases
<1> QED BY <1>7, FilledPhases

(* The reference test module's. *)
LEMMA LORTMDigital == Filled(FlattenSeq(LORTMPhases))
<1>1. Filled(<<"SYSTEM_GET_STATUS", "SYSTEM_GET_ERROR", "SYSTEM_GET_WARNING",
                "PHASELOCK_GET_STATUS", "PHASELOCK_GET_SELECTED_LASER",
                "PHASELOCK_GET_SELECTED_BAND">>)
  BY DEF Filled, IsList
<1>2. Filled(Plain(<<"SYSTEM_GET_STATUS", "SYSTEM_GET_ERROR", "SYSTEM_GET_WARNING",
                        "PHASELOCK_GET_STATUS", "PHASELOCK_GET_SELECTED_LASER",
                        "PHASELOCK_GET_SELECTED_BAND">>)
              \o Cross(<<"SIGNAL_LASER_BIAS_MON">>, UpTo(3))
              \o Cross(<<"SIGNAL_LASER_TEMP_MON">>, UpTo(3))
              \o Plain(<<"SIGNAL_LASER_SLOW_CORR_MON">>)
              \o Cross(<<"LASER_GET_STATUS">>, UpTo(3)))
  BY <1>1, OneName, StaysFilled, PlacesFilled DEF Plain
<1>3. Filled(<<"AMBSI_NUM_ERRORS", "AMBSI_NUM_TRANSACTIONS",
                "GET_AMBIENT_TEMPERATURE">>)
  BY DEF Filled, IsList
<1>4. Filled(<<"SIGNAL_RF_AGC_GAIN_MON", "SIGNAL_RF_POW_MON_34DB",
                "SIGNAL_EXTERN_THERM_MON", "SIGNAL_INTERN_THERM_MON">>)
  BY DEF Filled, IsList
<1>5. Filled(Plain(<<"AMBSI_NUM_ERRORS", "AMBSI_NUM_TRANSACTIONS",
                        "GET_AMBIENT_TEMPERATURE">>)
              \o Cross(<<"SIGNAL_LASER_TEC_I_MON">>, UpTo(3))
              \o Cross(<<"SIGNAL_LASER_POW_MON">>, UpTo(3))
              \o Cross(<<"SIGNAL_PHMIX_BIAS_MON">>, UpTo(3))
              \o Plain(<<"SIGNAL_RF_AGC_GAIN_MON", "SIGNAL_RF_POW_MON_34DB",
                        "SIGNAL_EXTERN_THERM_MON", "SIGNAL_INTERN_THERM_MON">>))
  BY <1>3, <1>4, OneName, StaysFilled, PlacesFilled DEF Plain
<1>6. Len(LORTMPhases) = 2 /\ \A i \in 1..2 : Filled(LORTMPhases[i])
  BY <1>2, <1>5 DEF LORTMPhases
<1> QED BY <1>6, FilledPhases

(* The compressor's. *)
LEMMA CompressorDigital == Filled(FlattenSeq(CompressorPhases))
<1>1. Filled(<<"GET_RET_PRESSURE", "GET_AUX_2", "GET_SUPPLY_PRESSURE",
                "GET_PRESSURE_ALARM", "GET_TEMP_ALARM", "GET_DRIVE_INDICATION",
                "GET_ICCU_STATUS_ERROR", "GET_ICCU_CABLE_DETECT_ERROR",
                "GET_FETIM_STATUS_ERROR", "GET_FETIM_CABLE_ERROR",
                "GET_INTERLOCK_OVERRIDE", "GET_FAULT_STATUS_ERROR",
                "GET_TIME_SINCE_LAST_POWER_ON", "GET_TIME_SINCE_LAST_POWER_OFF">>)
  BY DEF Filled, IsList
<1>2. Filled(Cross(<<"GET_TEMP">>, UpTo(3))
              \o Plain(<<"GET_RET_PRESSURE", "GET_AUX_2", "GET_SUPPLY_PRESSURE",
                        "GET_PRESSURE_ALARM", "GET_TEMP_ALARM", "GET_DRIVE_INDICATION",
                        "GET_ICCU_STATUS_ERROR", "GET_ICCU_CABLE_DETECT_ERROR",
                        "GET_FETIM_STATUS_ERROR", "GET_FETIM_CABLE_ERROR",
                        "GET_INTERLOCK_OVERRIDE", "GET_FAULT_STATUS_ERROR",
                        "GET_TIME_SINCE_LAST_POWER_ON", "GET_TIME_SINCE_LAST_POWER_OFF">>))
  BY <1>1, OneName, StaysFilled, PlacesFilled DEF Plain
<1>3. Len(CompressorPhases) = 1 /\ \A i \in 1..1 : Filled(CompressorPhases[i])
  BY <1>2 DEF CompressorPhases
<1> QED BY <1>3, FilledPhases

(* Every class of device has a list of digital points. *)
LEMMA DigitalIsFilled == \A c \in Classes : Filled(Digital[c])
<1> SUFFICES ASSUME NEW c \in Classes PROVE Filled(FlattenSeq(PhasesOf(c)))
  BY DEF Digital
<1>1. c \in AtPorts \cup Single
  BY ClassesAssumption
<1> QED
  BY <1>1, WCADigital, ColdCartDigital, PowerModuleDigital, IFSwitchDigital, LPRDigital,
     CryostatDigital, FETIMDigital, LORTMDigital, CompressorDigital DEF PhasesOf, AtPorts, Single

(* There is at least one, and each is a point of the device. *)
LEMMA DigitalPoints ==
  ASSUME NEW d \in Devices
  PROVE  /\ Len(Digital[d[1]]) \in Nat \ {0}
         /\ \A k \in 1..Len(Digital[d[1]]) : Digital[d[1]][k] \in PointsOf(d)
<1>1. d[1] \in Classes
  BY DEF Devices
<1>2. Filled(Digital[d[1]])
  BY <1>1, DigitalIsFilled
<1> DEFINE list == Digital[d[1]]
<1>3. Scheduled[d[1]] = Points(Permanents[d[1]]) \cup Points(list)
  BY <1>1 DEF Scheduled
<1>4. Points(list) \subseteq PointsOf(d)
  BY <1>3 DEF PointsOf
<1> HIDE DEF list
<1>5. Len(list) \in Nat /\ Len(list) > 0 /\ DOMAIN list = 1..Len(list)
  BY <1>2 DEF Filled, IsList, list
<1>6. \A k \in 1..Len(list) : list[k] \in Points(list)
  BY <1>5 DEF Points
<1> QED BY <1>4, <1>5, <1>6 DEF list

(* What the tables say of the probe.                                        *)
LEMMA TablesOfProbe ==
  ASSUME dev \in Devices, probe \in PointsOf(dev), probe[1] \notin Unprobed
  PROVE  /\ Moving \subseteq PointsOf(dev)
         /\ \A q \in Moving : PointsAt[Moved(dev, q)] \subseteq {<<dev, m>> : m \in Moving}
         /\ \A q \in Moving, x \in PointsOf(dev) :
               Register(dev, Reads(dev, x)) = Moved(dev, q) => x \in Moving
<1> DEFINE moving == {probe, GateOf(dev, probe)}
<1>1. probe \in {q \in PointsOf(dev) : q[1] \notin Unprobed}
  OBVIOUS
<1>2. /\ moving \subseteq PointsOf(dev)
      /\ \A q \in moving :
            /\ PointsAt[Moved(dev, q)] \subseteq {<<dev, m>> : m \in moving}
            /\ \A x \in PointsOf(dev) \ moving : Register(dev, Reads(dev, x)) # Moved(dev, q)
  BY <1>1, TablesAssumption DEF KeptApart
<1>3. Moving = moving
  BY DEF Moving
<1> HIDE DEF moving
<1> QED BY <1>2, <1>3

(* The registers that are not 0 are those of what moves; so is what is       *)
(* cached, and what the thread has read and not yet stored.  The thread      *)
(* serves points of its own device.                                          *)
ShowInv ==
  /\ probe \in PointsOf(dev) /\ probe[1] \notin Unprobed
  /\ at \in 0..Len(Digital[dev[1]])
  /\ minimal => dev[1] = "WCA" /\ "WCA" \in Classes
  /\ serving = NoEntry => reading = <<>>
  /\ serving # NoEntry => serving.point \in PointsOf(dev)
  /\ on \subseteq {Moved(dev, q) : q \in Moving}
  /\ cached \subseteq Moving
  /\ reading # <<>> /\ reading[1] => serving.point \in Moving

(* It gives the property. *)
LEMMA ShowsOwn == RegistryInv /\ ShowInv => OwnValueShows
<1> SUFFICES ASSUME RegistryInv, ShowInv PROVE OwnValueShows
  OBVIOUS
<1>1. ASSUME NEW r \in on PROVE PointsAt[r] \subseteq {<<dev, p>> : p \in Moving}
  <2>1. PICK q \in Moving : r = Moved(dev, q)
    BY DEF ShowInv
  <2> QED BY <2>1, TablesOfProbe DEF ShowInv, RegistryInv
<1> QED BY <1>1 DEF OwnValueShows, ShowInv

(* An accessor that returns a value that is not 0 is one of what moves.      *)
LEMMA AccessorIsHonest ==
  ASSUME RegistryInv, ShowInv, NEW x \in PointsOf(dev), NEW ok \in BOOLEAN,
         ok \/ x = probe, NEW v \in Returned(dev, x, ok), v
  PROVE  x \in Moving
<1>1. probe \in Moving
  BY DEF Moving
<1>2. CASE x = probe
  BY <1>1, <1>2
<1>3. CASE x # probe
  <2>1. ok /\ ~Unknown(dev, x)
    BY <1>3 DEF Unknown
  <2>2. ~Absent(dev, x)
    BY DEF Returned
  <2>3. CASE Shut(dev, x)
    <3>1. v = (KeptWhenShut(dev, x) /\ x \in cached)
      BY <2>2, <2>3 DEF Returned
    <3> QED BY <3>1 DEF ShowInv
  <2>4. CASE ~Shut(dev, x)
    <3>1. v = (Register(dev, Reads(dev, x)) \in on)
      BY <2>1, <2>2, <2>4 DEF Returned
    <3>2. PICK q \in Moving : Register(dev, Reads(dev, x)) = Moved(dev, q)
      BY <3>1 DEF ShowInv
    <3> QED BY <3>2, TablesOfProbe DEF ShowInv, RegistryInv
  <2> QED BY <2>3, <2>4
<1> QED BY <1>2, <1>3

(* At the beginning nothing has moved. *)
LEMMA ShowInit == DeviceInit => ShowInv
<1> SUFFICES ASSUME DeviceInit PROVE ShowInv
  OBVIOUS
<1>1. dev \in Devices /\ dev[1] \in Classes
  BY DEF DeviceInit, Devices
<1>2. Len(Digital[dev[1]]) \in Nat \ {0}
  BY <1>1, DigitalPoints
<1>3. at \in {0, 1}
  BY DEF DeviceInit, StartsAt
<1>4. at \in 0..Len(Digital[dev[1]])
  BY <1>2, <1>3
<1> QED BY <1>4 DEF DeviceInit, ShowInv

(* The host and the hardware change the registers of what moves. *)
LEMMA ShowChanged ==
  ASSUME RegistryInv, ShowInv, Changes
  PROVE  ShowInv'
<1>1. /\ UNCHANGED <<dev, probe, at, serving, reading>>
      /\ Moving' = Moving /\ dev \in Devices /\ dev[1] \in Classes
  BY DEF Changes, Moving, RegistryInv, Devices
<1>2. /\ on' \subseteq {Moved(dev, q) : q \in Moving}
      /\ cached' \subseteq Moving
      /\ minimal' => minimal \/ dev[1] = "WCA"
  <2>1. ASSUME NEW p \in Moving, NEW v \in BOOLEAN, NEW ok \in BOOLEAN, Command(p, v, ok)
        PROVE  <1>2!:
    <3>1. p \in Commanded[dev] /\ minimal' = minimal
      BY <2>1 DEF Command
    <3>2. Moved(dev, p) = Register(dev, Writes(dev, p))
      BY <3>1 DEF Moved
    <3>3. on' \subseteq on \cup {Moved(dev, p)}
      BY <2>1, <3>2 DEF Command, Taken
    <3>4. cached' \subseteq cached \cup {p}
      BY <2>1 DEF Command, WithValue
    <3> QED BY <3>1, <3>3, <3>4 DEF ShowInv
  <2>2. ASSUME NEW p \in Moving, DeviceChanges(p)
        PROVE  <1>2!:
    <3>1. p \notin Commanded[dev] /\ UNCHANGED <<minimal, cached>>
      BY <2>2 DEF DeviceChanges
    <3>2. Moved(dev, p) = Hardware[<<dev, p>>]
      BY <3>1 DEF Moved
    <3>3. on' \subseteq on \cup {Moved(dev, p)}
      BY <2>2, <3>2 DEF DeviceChanges
    <3> QED BY <3>1, <3>3 DEF ShowInv
  <2>3. CASE MinimalMonitor
    BY <2>3 DEF MinimalMonitor, ShowInv
  <2>4. CASE Standby2
    <3>1. on' \subseteq on /\ UNCHANGED <<minimal, cached>>
      BY <2>4 DEF Standby2
    <3> QED BY <3>1 DEF ShowInv
  <2> QED BY <2>1, <2>2, <2>3, <2>4 DEF Changes
<1>3. {Moved(dev, q) : q \in Moving}' = {Moved(dev, q) : q \in Moving}
  BY <1>1
<1> QED BY <1>1, <1>2, <1>3 DEF ShowInv

(* The thread takes the next entry, which is of its device. *)
LEMMA ShowFetched ==
  ASSUME RegistryInv, ShowInv, Fetch
  PROVE  ShowInv'
<1>1. /\ UNCHANGED <<dev, probe, on, minimal, cached, reading>> /\ serving = NoEntry
      /\ Moving' = Moving /\ dev \in Devices /\ dev[1] \in Classes /\ reading = <<>>
  BY DEF Fetch, host, Moving, RegistryInv, Devices, ShowInv
<1>2. {Moved(dev, q) : q \in Moving}' = {Moved(dev, q) : q \in Moving}
  BY <1>1
<1>3. Len(Digital[dev[1]]) \in Nat \ {0}
  BY <1>1, DigitalPoints
<1>4. at' \in 0..Len(Digital[dev[1]]) /\ (serving' # NoEntry => serving'.point \in PointsOf(dev))
  <2>1. CASE at = 0 /\ nextMon > Len(registry)
    BY <1>1, <1>3, <2>1 DEF Fetch
  <2>2. CASE at = 0 /\ ~(nextMon > Len(registry))
    <3>1. serving' = EntryOf(registry[nextMon]) /\ at' = at
      BY <2>2 DEF Fetch
    <3>2. CASE registry[nextMon] = Temporary
      BY <3>1, <3>2 DEF EntryOf, ShowInv
    <3>3. CASE registry[nextMon] # Temporary
      <4>1. /\ registry = Layout(Temps, Count(dev)) /\ Count(dev) \in Nat /\ Temps \in Nat
            /\ Len(registry) = Temps + Count(dev) /\ nextMon \in Nat \ {0}
        BY LaidOut DEF RegistryInv
      <4> DEFINE k == registry[nextMon]
      <4>2. k = IF nextMon <= Temps THEN 0 ELSE nextMon - Temps
        BY <2>2, <4>1 DEF Layout
      <4>3. k \in 1..Count(dev)
        BY <2>2, <3>3, <4>1, <4>2 DEF Temporary
      <4>4. DOMAIN Permanents[dev[1]] = 1..Count(dev)
        BY <1>1, RegistryIsList DEF Permanents, Count, IsList
      <4> HIDE DEF k
      <4>5. Permanents[dev[1]][k] \in PointsOf(dev)
        BY <1>1, <4>3, <4>4 DEF PointsOf, Scheduled, Points
      <4>6. serving'.point = Permanents[dev[1]][k]
        BY <3>1, <3>3 DEF EntryOf, k
      <4> QED BY <3>1, <4>5, <4>6 DEF ShowInv
    <3> QED BY <3>2, <3>3
  <2>3. CASE at # 0
    <3>1. serving' = Permanent(Digital[dev[1]][at]) /\ at' = at
      BY <2>3 DEF Fetch
    <3>2. at \in 1..Len(Digital[dev[1]])
      BY <1>3, <2>3 DEF ShowInv
    <3>3. Digital[dev[1]][at] \in PointsOf(dev)
      BY <1>1, <3>2, DigitalPoints
    <3>4. serving'.point \in PointsOf(dev)
      BY <3>1, <3>3 DEF Permanent
    <3> QED BY <3>1, <3>4 DEF ShowInv
  <2> QED BY <2>1, <2>2, <2>3
<1> QED BY <1>1, <1>2, <1>4 DEF ShowInv

(* It reads it. *)
LEMMA ShowRead ==
  ASSUME RegistryInv, ShowInv, NEW ok \in BOOLEAN, Read(ok)
  PROVE  ShowInv'
<1>1. /\ UNCHANGED <<dev, probe, on, minimal, cached, at, serving>> /\ serving # NoEntry
      /\ Moving' = Moving
  BY DEF Read, host, Moving
<1>2. {Moved(dev, q) : q \in Moving}' = {Moved(dev, q) : q \in Moving}
  BY <1>1
<1>3. PICK v \in Returned(dev, serving.point, ok) : reading' = <<v, ok>>
  BY DEF Read
<1>4. reading'[1] = v
  BY <1>3
<1>5. v => serving.point \in Moving
  <2>1. serving.point \in PointsOf(dev) /\ (ok \/ serving.point = probe)
    BY <1>1 DEF ShowInv, Read
  <2> QED BY <2>1, AccessorIsHonest
<1> QED BY <1>1, <1>2, <1>4, <1>5 DEF ShowInv

(* It stores what it has read, at the point it is of. *)
LEMMA ShowStored ==
  ASSUME RegistryInv, ShowInv, Store
  PROVE  ShowInv'
<1>1. /\ UNCHANGED <<dev, probe, on, minimal>> /\ serving' = NoEntry /\ reading' = <<>>
      /\ Moving' = Moving /\ dev \in Devices
  BY DEF Store, host, Moving, RegistryInv
<1>2. {Moved(dev, q) : q \in Moving}' = {Moved(dev, q) : q \in Moving}
  BY <1>1
<1>3. cached' \subseteq Moving
  BY DEF Store, WithValue, ShowInv
<1>4. Len(Digital[dev[1]]) \in Nat
  BY <1>1, DigitalPoints
<1>5. at' \in 0..Len(Digital[dev[1]])
  <2> DEFINE n == Len(Digital[dev[1]])
  <2>1. at' = at \/ at' = (at + 1) % (n + 1)
    BY DEF Store
  <2>2. at \in 0..n /\ n \in Nat
    BY <1>4 DEF ShowInv
  <2> HIDE DEF n
  <2>3. at' \in 0..n
    BY <2>1, <2>2, SMT
  <2> QED BY <2>3 DEF n
<1> QED BY <1>1, <1>2, <1>3, <1>5 DEF ShowInv

(* In the minimal pass it reads the points of that pass. *)
LEMMA ShowMinimal ==
  ASSUME RegistryInv, ShowInv, NEW ok \in BOOLEAN, MinimalPass(ok)
  PROVE  ShowInv'
<1>1. /\ UNCHANGED <<dev, probe, on, minimal, at, serving, reading>> /\ minimal
      /\ Moving' = Moving
  BY DEF MinimalPass, host, Moving
<1>2. {Moved(dev, q) : q \in Moving}' = {Moved(dev, q) : q \in Moving}
  BY <1>1
<1>3. WCAMinimal \subseteq PointsOf(dev)
  BY <1>1, TablesAssumption DEF ShowInv, PointsOf
<1>4. ASSUME NEW x \in cached' PROVE x \in Moving
  <2>1. CASE x \in cached
    BY <2>1 DEF ShowInv
  <2>2. CASE x \notin cached
    <3>1. x \in WCAMinimal /\ TRUE \in Returned(dev, x, ok \/ x # probe)
      BY <1>4, <2>2 DEF MinimalPass
    <3>2. x \in PointsOf(dev) /\ (ok \/ x # probe) \in BOOLEAN
      BY <1>3, <3>1
    <3>3. CASE x = probe
      BY <3>3 DEF Moving
    <3>4. CASE x # probe
      <4>1. TRUE \in Returned(dev, x, TRUE)
        BY <3>1, <3>4
      <4> QED BY <3>2, <4>1, AccessorIsHonest
    <3> QED BY <3>3, <3>4
  <2> QED BY <2>1, <2>2
<1> QED BY <1>1, <1>2, <1>4 DEF ShowInv

(* A caller of the device reads a point that the thread does not. *)
LEMMA ShowHost ==
  ASSUME RegistryInv, ShowInv, NEW ok \in BOOLEAN, HostReads(ok)
  PROVE  ShowInv'
<1>1. /\ UNCHANGED <<dev, probe, on, minimal, at, serving, reading>>
      /\ Moving' = Moving
  BY DEF HostReads, host, Moving
<1>2. {Moved(dev, q) : q \in Moving}' = {Moved(dev, q) : q \in Moving}
  BY <1>1
<1>3. cached' \subseteq cached \cup {probe}
  BY DEF HostReads, WithValue
<1>4. cached' \subseteq Moving
  BY <1>3 DEF ShowInv, Moving
<1> QED BY <1>1, <1>2, <1>4 DEF ShowInv

(* Every step keeps it. *)
LEMMA ShowStep ==
  ASSUME RegistryInv, ShowInv, [DeviceNext]_deviceVars
  PROVE  ShowInv'
<1>1. CASE Changes
  BY <1>1, ShowChanged
<1>2. CASE Fetch
  BY <1>2, ShowFetched
<1>3. CASE Store
  BY <1>3, ShowStored
<1>4. ASSUME NEW ok \in BOOLEAN, Read(ok) PROVE ShowInv'
  BY <1>4, ShowRead
<1>5. ASSUME NEW ok \in BOOLEAN, MinimalPass(ok) PROVE ShowInv'
  BY <1>5, ShowMinimal
<1>6. ASSUME NEW ok \in BOOLEAN, HostReads(ok) PROVE ShowInv'
  BY <1>6, ShowHost
<1>7. CASE UNCHANGED deviceVars
  <2>1. UNCHANGED <<dev, probe, on, minimal, cached, at, serving, reading>> /\ Moving' = Moving
    BY <1>7 DEF deviceVars, host, monitor, Moving
  <2>2. {Moved(dev, q) : q \in Moving}' = {Moved(dev, q) : q \in Moving}
    BY <2>1
  <2> QED BY <2>1, <2>2 DEF ShowInv
<1> QED BY <1>1, <1>2, <1>3, <1>4, <1>5, <1>6, <1>7 DEF DeviceNext, Monitor

(* A value shows at its own point and nowhere else, whatever the thread      *)
(* reads, however often a temporary entry overtakes it and whichever         *)
(* readings fail, for every class of device, port and number of temporary    *)
(* entries; given that the tables keep the registers apart.                  *)
THEOREM OwnValuesShow == DeviceSpec => []OwnValueShows
<1>1. RegistryInv /\ ShowInv /\ [DeviceNext]_deviceVars => ShowInv'
  BY ShowStep
<1>2. RegistryInv /\ ShowInv => OwnValueShows
  BY ShowsOwn
<1> QED BY <1>1, <1>2, RegistryInductive, ShowInit, PTL DEF DeviceSpec
=============================================================================
