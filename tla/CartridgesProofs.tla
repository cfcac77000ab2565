-------------------------- MODULE CartridgesProofs --------------------------
(***************************************************************************)
(* Safety of the front end's control functions for any set of ports and    *)
(* any limit of the firmware, with transactions failing and the program    *)
(* starting again at any step.                                             *)
(***************************************************************************)
EXTENDS Cartridges, TLAPS, FiniteSetTheorems

(* Within a control function the port is known.                            *)
Named == pc \notin {"down", "idle", "Query"} => port \in Port

(* What the command being sent asks for *)
Commanding ==
  /\ pc = "DisableCart" => op = "Off" /\ cmd = 0
  /\ pc \in {"Command", "Test"} =>
       \/ op = "Off" /\ cmd = 0
       \/ op = "On" /\ cmd = 1
       \/ op = "Standby2" /\ port = StandbyPort

Typed == TypeOK /\ Named

(* Away from port 6 a power module is behind its port only while the       *)
(* status of the command that powered it waits for its test, and then the  *)
(* status will make the module catch up.                                   *)
Known ==
  cpds /\ ~faulted =>
    \A q \in Port \ {StandbyPort} :
      power[q] # 0 =>
        IF pc = "Test" /\ port = q
          THEN cmd = 1 /\ op = "On" /\ (poweredOn[q] \/ statusOk[q])
          ELSE poweredOn[q]

(* While the program starts, no command is sent: the modules agree with    *)
(* the firmware, and the carts with them as far as the loop has come.      *)
Catching ==
  starting /\ cpds /\ ~faulted =>
    /\ pc \in {"Query", "EnableCart", "SwitchLPR", "SwitchIF", "SetObserving"}
    /\ \A q \in Port : poweredOn[q] <=> power[q] # 0
    /\ \A q \in toQuery : ~enable[q]
    /\ \A q \in Port \ toQuery :
         IF pc = "EnableCart" /\ port = q
           THEN power[q] # 0
           ELSE enable[q] <=> power[q] # 0
    /\ pc = "EnableCart" => port \in Port \ toQuery

LEMMA PortFinite == IsFiniteSet(Port)
<1>1. 1 \in Int /\ 10 \in Int
  OBVIOUS
<1>2. IsFiniteSet(1..10)
  BY <1>1, FS_Interval, Zenon
<1> QED
  BY <1>2, PortAssumption, FS_Subset

LEMMA AnswerType ==
  ASSUME NEW p, NEW payload
  PROVE  FirmwareAccepts(p, payload) \in BOOLEAN
BY DEF FirmwareAccepts

LEMMA EnabledFinite == IsFiniteSet(EnabledCarts)
BY PortFinite, FS_Subset DEF EnabledCarts

LEMMA NoPortOutside == NoPort \notin Port
BY PortAssumption DEF NoPort

(* Every variable keeps its type, and within a control function the port   *)
(* is one of the configured ones.                                          *)
LEMMA TypedHolds == Spec => []Typed
<1> USE DEF hardware, modules, carts, switches, query, control, vars, Goto
<1>1. Init => Typed
  <2> SUFFICES ASSUME Init PROVE Typed
    OBVIOUS
  <2>1. cpds \in BOOLEAN /\ starting \in BOOLEAN /\ faulted \in BOOLEAN
    BY Zenon DEF Init
  <2>2. /\ poweredOn \in [Port -> BOOLEAN] /\ statusOk \in [Port -> BOOLEAN]
        /\ enable \in [Port -> BOOLEAN] /\ observing \in [Port -> BOOLEAN]
    BY Zenon DEF Init
  <2>3. /\ power \in [Port -> PowerState] /\ cmd \in PowerState
        /\ numEnabled \in Int /\ toQuery \subseteq Port
    BY DEF Init, PowerState
  <2>4. paused \in [Port -> {"no", "user", "off"}]
    BY DEF Init
  <2>5. /\ observingPort = NoPort /\ lprPort = NoPort /\ ifPort = NoPort
        /\ port = NoPort /\ observingBand = NoPort
    BY DEF Init
  <2>6. pc = "down" /\ op = "None"
    BY DEF Init
  <2>7. TypeOK
    BY <2>1, <2>2, <2>3, <2>4, <2>5, <2>6, Zenon DEF TypeOK
  <2>8. Named
    BY <2>6 DEF Named
  <2> QED
    BY <2>7, <2>8 DEF Typed
<1>2. Typed /\ [Next]_vars => Typed'
  <2> SUFFICES ASSUME Typed, [Next]_vars PROVE Typed'
    OBVIOUS
  <2> USE DEF Typed, TypeOK, Named, PowerState
  <2>1. CASE FEControlInit
    BY <2>1 DEF FEControlInit, ConstructModules
  <2>2. ASSUME NEW p \in Port, SetCartridgeOff(p) PROVE Typed'
    BY <2>2 DEF SetCartridgeOff
  <2>3. ASSUME NEW p \in Port, SetCartridgeOn(p) PROVE Typed'
    BY <2>3 DEF SetCartridgeOn, PowerOn
  <2>4. ASSUME NEW p \in Port, NEW enter \in BOOLEAN, SetCartridgeStandby2(p, enter) PROVE Typed'
    BY <2>4 DEF SetCartridgeStandby2
  <2>5. ASSUME NEW p \in Port, NEW pause \in BOOLEAN, CartPauseMonitor(p, pause) PROVE Typed'
    BY <2>5 DEF CartPauseMonitor
  <2>6. ASSUME NEW p \in Port, SetCartridgeObserving(p) PROVE Typed'
    BY <2>6 DEF SetCartridgeObserving, Observe, ClearObserving
  <2>7. ASSUME NEW p \in Port, LprSetOpticalSwitchPort(p) PROVE Typed'
    BY <2>7 DEF LprSetOpticalSwitchPort
  <2>8. ASSUME NEW p \in Port, QueryPort(p) PROVE Typed'
    BY <2>8 DEF QueryPort, PowerOn, QueryEnable
  <2>9. ASSUME NEW p \in Port, MonitorAction(p) PROVE Typed'
    BY <2>9 DEF MonitorAction
  <2>10. CASE Command
    BY <2>10, AnswerType DEF Command, AfterCommand, PowerAfter, Return
  <2>11. CASE CommandFaulty
    BY <2>11 DEF CommandFaulty, AfterCommand, PowerAfter, Return
  <2>12. CASE Test
    BY <2>12 DEF Test, EnabledAfter, WantedOn, Return
  <2>13. CASE EnableCart
    BY <2>13 DEF EnableCart, Return
  <2>14. CASE DisableCart
    BY <2>14 DEF DisableCart, Return
  <2>15. CASE SwitchLPR
    BY <2>15 DEF SwitchLPR, Return
  <2>16. CASE SwitchIF
    BY <2>16 DEF SwitchIF, Return
  <2>17. CASE SetObserving
    BY <2>17 DEF SetObserving, Return
  <2>18. CASE ClearCartridgeObserving
    BY <2>18 DEF ClearCartridgeObserving, ClearObserving
  <2>19. CASE QueryObserving
    BY <2>19 DEF QueryObserving, Observe, ClearObserving
  <2>20. CASE QueryDone
    BY <2>20 DEF QueryDone
  <2>21. CASE UNCHANGED vars
    BY <2>21
  <2> QED
    BY <2>1, <2>2, <2>3, <2>4, <2>5, <2>6, <2>7, <2>8, <2>9, <2>10, <2>11, <2>12, <2>13, <2>14, <2>15, <2>16, <2>17, <2>18, <2>19, <2>20, <2>21 DEF Next
<1> QED
  BY <1>1, <1>2, PTL DEF Spec

(* TypeOK is an invariant of the control functions, the restart and the    *)
(* monitor threads (FrontEndImpl, CartridgesContainer, PowerModuleImpl).   *)
THEOREM TypeCorrect == Spec => []TypeOK
BY TypedHolds, PTL DEF Typed

(* The observing port holds an enabled cartridge that knows it, and no      *)
(* other cartridge observes (CartridgesContainer::setObserving,            *)
(* clearObserving, clearEnable), for any number of ports.                  *)
THEOREM ObservingIsEnabledHolds == Spec => []ObservingIsEnabled
<1> USE DEF hardware, modules, carts, switches, query, control, vars, Goto
<1>1. Init => ObservingIsEnabled
  BY NoPortOutside DEF Init, ObservingIsEnabled
<1>2. Typed /\ ObservingIsEnabled /\ [Next]_vars => ObservingIsEnabled'
  <2> SUFFICES ASSUME Typed, ObservingIsEnabled, [Next]_vars PROVE ObservingIsEnabled'
    OBVIOUS
  <2> USE DEF Typed, TypeOK, Named, ObservingIsEnabled
  <2>1. CASE FEControlInit
    BY <2>1, NoPortOutside DEF FEControlInit
  <2>2. ASSUME NEW p \in Port, SetCartridgeOff(p) PROVE ObservingIsEnabled'
    BY <2>2 DEF SetCartridgeOff
  <2>3. ASSUME NEW p \in Port, SetCartridgeOn(p) PROVE ObservingIsEnabled'
    BY <2>3 DEF SetCartridgeOn, PowerOn
  <2>4. ASSUME NEW p \in Port, NEW enter \in BOOLEAN, SetCartridgeStandby2(p, enter) PROVE ObservingIsEnabled'
    BY <2>4 DEF SetCartridgeStandby2
  <2>5. ASSUME NEW p \in Port, NEW pause \in BOOLEAN, CartPauseMonitor(p, pause) PROVE ObservingIsEnabled'
    BY <2>5 DEF CartPauseMonitor
  <2>6. ASSUME NEW p \in Port, SetCartridgeObserving(p) PROVE ObservingIsEnabled'
    BY <2>6, NoPortOutside DEF SetCartridgeObserving, Observe, ClearObserving
  <2>7. ASSUME NEW p \in Port, LprSetOpticalSwitchPort(p) PROVE ObservingIsEnabled'
    BY <2>7 DEF LprSetOpticalSwitchPort
  <2>8. ASSUME NEW p \in Port, QueryPort(p) PROVE ObservingIsEnabled'
    BY <2>8 DEF QueryPort, PowerOn, QueryEnable
  <2>9. ASSUME NEW p \in Port, MonitorAction(p) PROVE ObservingIsEnabled'
    BY <2>9 DEF MonitorAction
  <2>10. CASE Command
    BY <2>10 DEF Command
  <2>11. CASE CommandFaulty
    BY <2>11 DEF CommandFaulty
  <2>12. CASE Test
    BY <2>12 DEF Test
  <2>13. CASE EnableCart
    <3>1. observingPort \in Port => enable'[observingPort]
      BY <2>13, NoPortOutside DEF EnableCart
    <3>2. ASSUME NEW q \in Port PROVE observing'[q] <=> observing[q]
      <4>1. CASE enable[port]
        BY <2>13, <4>1 DEF EnableCart
      <4>2. CASE ~enable[port]
        <5>1. ~observing[port]
          BY <2>13, <4>2, NoPortOutside DEF EnableCart
        <5> QED
          BY <2>13, <4>2, <5>1 DEF EnableCart
      <4> QED
        BY <4>1, <4>2
    <3>3. observingPort' = observingPort
      BY <2>13 DEF EnableCart
    <3> QED
      BY <3>1, <3>2, <3>3
  <2>14. CASE DisableCart
    BY <2>14, NoPortOutside DEF DisableCart
  <2>15. CASE SwitchLPR
    BY <2>15 DEF SwitchLPR
  <2>16. CASE SwitchIF
    BY <2>16 DEF SwitchIF
  <2>17. CASE SetObserving
    BY <2>17, NoPortOutside DEF SetObserving
  <2>18. CASE ClearCartridgeObserving
    BY <2>18, NoPortOutside DEF ClearCartridgeObserving, ClearObserving
  <2>19. CASE QueryObserving
    BY <2>19, NoPortOutside DEF QueryObserving, Observe, ClearObserving
  <2>20. CASE QueryDone
    BY <2>20 DEF QueryDone
  <2>21. CASE UNCHANGED vars
    BY <2>21
  <2> QED
    BY <2>1, <2>2, <2>3, <2>4, <2>5, <2>6, <2>7, <2>8, <2>9, <2>10, <2>11, <2>12, <2>13, <2>14, <2>15, <2>16, <2>17, <2>18, <2>19, <2>20, <2>21 DEF Next
<1> QED
  BY <1>1, <1>2, TypedHolds, PTL DEF Spec

(* Where setCartridgeObserving has sent the switches                       *)
Aligned ==
  /\ pc \in {"SwitchIF", "SetObserving"} => lprPort = port
  /\ pc = "SetObserving" => ifPort = port

(* The switches are where the steps of setCartridgeObserving that are done *)
(* have sent them.                                                         *)
LEMMA AlignedHolds == Spec => []Aligned
<1> USE DEF hardware, modules, carts, switches, query, control, vars, Goto
<1>1. Init => Aligned
  BY DEF Init, Aligned
<1>2. Typed /\ Aligned /\ [Next]_vars => Aligned'
  <2> SUFFICES ASSUME Typed, Aligned, [Next]_vars PROVE Aligned'
    OBVIOUS
  <2> USE DEF Aligned
  <2>1. CASE FEControlInit
    BY <2>1 DEF FEControlInit, ConstructModules
  <2>2. ASSUME NEW p \in Port, SetCartridgeOff(p) PROVE Aligned'
    BY <2>2 DEF SetCartridgeOff
  <2>3. ASSUME NEW p \in Port, SetCartridgeOn(p) PROVE Aligned'
    BY <2>3 DEF SetCartridgeOn, PowerOn
  <2>4. ASSUME NEW p \in Port, NEW enter \in BOOLEAN, SetCartridgeStandby2(p, enter) PROVE Aligned'
    BY <2>4 DEF SetCartridgeStandby2
  <2>5. ASSUME NEW p \in Port, NEW pause \in BOOLEAN, CartPauseMonitor(p, pause) PROVE Aligned'
    BY <2>5 DEF CartPauseMonitor
  <2>6. ASSUME NEW p \in Port, SetCartridgeObserving(p) PROVE Aligned'
    BY <2>6 DEF SetCartridgeObserving, Observe, ClearObserving
  <2>7. ASSUME NEW p \in Port, LprSetOpticalSwitchPort(p) PROVE Aligned'
    BY <2>7 DEF LprSetOpticalSwitchPort
  <2>8. ASSUME NEW p \in Port, QueryPort(p) PROVE Aligned'
    BY <2>8 DEF QueryPort, PowerOn, QueryEnable
  <2>9. ASSUME NEW p \in Port, MonitorAction(p) PROVE Aligned'
    BY <2>9 DEF MonitorAction
  <2>10. CASE Command
    BY <2>10 DEF Command, AfterCommand, PowerAfter, Return
  <2>11. CASE CommandFaulty
    BY <2>11 DEF CommandFaulty, AfterCommand, PowerAfter, Return
  <2>12. CASE Test
    BY <2>12 DEF Test, EnabledAfter, WantedOn, Return
  <2>13. CASE EnableCart
    BY <2>13 DEF EnableCart, Return
  <2>14. CASE DisableCart
    BY <2>14 DEF DisableCart, Return
  <2>15. CASE SwitchLPR
    BY <2>15 DEF SwitchLPR, Return
  <2>16. CASE SwitchIF
    BY <2>16 DEF SwitchIF, Return
  <2>17. CASE SetObserving
    BY <2>17 DEF SetObserving, Return
  <2>18. CASE ClearCartridgeObserving
    BY <2>18 DEF ClearCartridgeObserving, ClearObserving
  <2>19. CASE QueryObserving
    BY <2>19 DEF QueryObserving, Observe, ClearObserving
  <2>20. CASE QueryDone
    BY <2>20 DEF QueryDone
  <2>21. CASE UNCHANGED vars
    BY <2>21
  <2> QED
    BY <2>1, <2>2, <2>3, <2>4, <2>5, <2>6, <2>7, <2>8, <2>9, <2>10, <2>11, <2>12, <2>13, <2>14, <2>15, <2>16, <2>17, <2>18, <2>19, <2>20, <2>21 DEF Next
<1> QED
  BY <1>1, <1>2, TypedHolds, PTL DEF Spec

(* A port becomes the observing one only with both switches there          *)
(* (FrontEndImpl::setCartridgeObserving).                                  *)
THEOREM ObservedIsSwitchedHolds == Spec => ObservedIsSwitched
<1> DEFINE A == observingPort' \notin {observingPort, NoPort} =>
                  lprPort = observingPort' /\ ifPort = observingPort'
<1>1. Aligned /\ [Next]_vars => [A]_vars
  <2> SUFFICES ASSUME Aligned, [Next]_vars PROVE A
    OBVIOUS
  <2> USE DEF Aligned, hardware, modules, carts, switches, query, control, vars
  <2>1. CASE FEControlInit
    BY <2>1 DEF FEControlInit
  <2>2. ASSUME NEW p \in Port, SetCartridgeOff(p) PROVE A
    BY <2>2 DEF SetCartridgeOff
  <2>3. ASSUME NEW p \in Port, SetCartridgeOn(p) PROVE A
    BY <2>3 DEF SetCartridgeOn
  <2>4. ASSUME NEW p \in Port, NEW enter \in BOOLEAN, SetCartridgeStandby2(p, enter) PROVE A
    BY <2>4 DEF SetCartridgeStandby2
  <2>5. ASSUME NEW p \in Port, NEW pause \in BOOLEAN, CartPauseMonitor(p, pause) PROVE A
    BY <2>5 DEF CartPauseMonitor
  <2>6. ASSUME NEW p \in Port, SetCartridgeObserving(p) PROVE A
    BY <2>6 DEF SetCartridgeObserving, Observe, ClearObserving
  <2>7. ASSUME NEW p \in Port, LprSetOpticalSwitchPort(p) PROVE A
    BY <2>7 DEF LprSetOpticalSwitchPort
  <2>8. ASSUME NEW p \in Port, QueryPort(p) PROVE A
    BY <2>8 DEF QueryPort
  <2>9. ASSUME NEW p \in Port, MonitorAction(p) PROVE A
    BY <2>9 DEF MonitorAction
  <2>10. CASE Command
    BY <2>10 DEF Command
  <2>11. CASE CommandFaulty
    BY <2>11 DEF CommandFaulty
  <2>12. CASE Test
    BY <2>12 DEF Test
  <2>13. CASE EnableCart
    BY <2>13 DEF EnableCart
  <2>14. CASE DisableCart
    BY <2>14 DEF DisableCart
  <2>15. CASE SwitchLPR
    BY <2>15 DEF SwitchLPR
  <2>16. CASE SwitchIF
    BY <2>16 DEF SwitchIF
  <2>17. CASE SetObserving
    BY <2>17 DEF SetObserving
  <2>18. CASE ClearCartridgeObserving
    BY <2>18 DEF ClearCartridgeObserving, ClearObserving
  <2>19. CASE QueryObserving
    BY <2>19 DEF QueryObserving, Observe, ClearObserving
  <2>20. CASE QueryDone
    BY <2>20 DEF QueryDone
  <2>21. CASE UNCHANGED vars
    BY <2>21
  <2> QED
    BY <2>1, <2>2, <2>3, <2>4, <2>5, <2>6, <2>7, <2>8, <2>9, <2>10, <2>11, <2>12, <2>13, <2>14, <2>15, <2>16, <2>17, <2>18, <2>19, <2>20, <2>21 DEF Next
<1>2. Spec => [][A]_vars
  BY <1>1, AlignedHolds, PTL DEF Spec
<1> QED
  BY <1>2 DEF ObservedIsSwitched

(* Each command carries the payload of the function that sends it.         *)
LEMMA CommandingHolds == Spec => []Commanding
<1> USE DEF hardware, modules, carts, switches, query, control, vars, Goto
<1>1. Init => Commanding
  BY DEF Init, Commanding
<1>2. Typed /\ Commanding /\ [Next]_vars => Commanding'
  <2> SUFFICES ASSUME Typed, Commanding, [Next]_vars PROVE Commanding'
    OBVIOUS
  <2> USE DEF Commanding
  <2>1. CASE FEControlInit
    BY <2>1 DEF FEControlInit, ConstructModules
  <2>2. ASSUME NEW p \in Port, SetCartridgeOff(p) PROVE Commanding'
    BY <2>2 DEF SetCartridgeOff
  <2>3. ASSUME NEW p \in Port, SetCartridgeOn(p) PROVE Commanding'
    BY <2>3 DEF SetCartridgeOn, PowerOn
  <2>4. ASSUME NEW p \in Port, NEW enter \in BOOLEAN, SetCartridgeStandby2(p, enter) PROVE Commanding'
    BY <2>4 DEF SetCartridgeStandby2
  <2>5. ASSUME NEW p \in Port, NEW pause \in BOOLEAN, CartPauseMonitor(p, pause) PROVE Commanding'
    BY <2>5 DEF CartPauseMonitor
  <2>6. ASSUME NEW p \in Port, SetCartridgeObserving(p) PROVE Commanding'
    BY <2>6 DEF SetCartridgeObserving, Observe, ClearObserving
  <2>7. ASSUME NEW p \in Port, LprSetOpticalSwitchPort(p) PROVE Commanding'
    BY <2>7 DEF LprSetOpticalSwitchPort
  <2>8. ASSUME NEW p \in Port, QueryPort(p) PROVE Commanding'
    BY <2>8 DEF QueryPort, PowerOn, QueryEnable
  <2>9. ASSUME NEW p \in Port, MonitorAction(p) PROVE Commanding'
    BY <2>9 DEF MonitorAction
  <2>10. CASE Command
    BY <2>10 DEF Command, AfterCommand, PowerAfter, Return
  <2>11. CASE CommandFaulty
    BY <2>11 DEF CommandFaulty, AfterCommand, PowerAfter, Return
  <2>12. CASE Test
    BY <2>12 DEF Test, EnabledAfter, WantedOn, Return
  <2>13. CASE EnableCart
    BY <2>13 DEF EnableCart, Return
  <2>14. CASE DisableCart
    BY <2>14 DEF DisableCart, Return
  <2>15. CASE SwitchLPR
    BY <2>15 DEF SwitchLPR, Return
  <2>16. CASE SwitchIF
    BY <2>16 DEF SwitchIF, Return
  <2>17. CASE SetObserving
    BY <2>17 DEF SetObserving, Return
  <2>18. CASE ClearCartridgeObserving
    BY <2>18 DEF ClearCartridgeObserving, ClearObserving
  <2>19. CASE QueryObserving
    BY <2>19 DEF QueryObserving, Observe, ClearObserving
  <2>20. CASE QueryDone
    BY <2>20 DEF QueryDone
  <2>21. CASE UNCHANGED vars
    BY <2>21
  <2> QED
    BY <2>1, <2>2, <2>3, <2>4, <2>5, <2>6, <2>7, <2>8, <2>9, <2>10, <2>11, <2>12, <2>13, <2>14, <2>15, <2>16, <2>17, <2>18, <2>19, <2>20, <2>21 DEF Next
<1> QED
  BY <1>1, <1>2, TypedHolds, PTL DEF Spec

(* Away from port 6 a powered port is known to its power module, or will   *)
(* be when the pending status is tested.                                   *)
LEMMA KnownHolds == Spec => []Known
<1> USE DEF hardware, modules, carts, switches, query, control, vars, Goto
<1>1. Init => Known
  BY DEF Init, Known
<1>2. Typed /\ Commanding /\ Known /\ [Next]_vars => Known'
  <2> SUFFICES ASSUME Typed, Commanding, Known, [Next]_vars PROVE Known'
    OBVIOUS
  <2> USE DEF Typed, TypeOK, Named, Commanding, Known, PowerState, StandbyPort
  <2>1. CASE FEControlInit
    BY <2>1 DEF FEControlInit, ConstructModules
  <2>2. ASSUME NEW p \in Port, SetCartridgeOff(p) PROVE Known'
    BY <2>2 DEF SetCartridgeOff
  <2>3. ASSUME NEW p \in Port, SetCartridgeOn(p) PROVE Known'
    BY <2>3 DEF SetCartridgeOn, PowerOn
  <2>4. ASSUME NEW p \in Port, NEW enter \in BOOLEAN, SetCartridgeStandby2(p, enter) PROVE Known'
    BY <2>4 DEF SetCartridgeStandby2
  <2>5. ASSUME NEW p \in Port, NEW pause \in BOOLEAN, CartPauseMonitor(p, pause) PROVE Known'
    BY <2>5 DEF CartPauseMonitor
  <2>6. ASSUME NEW p \in Port, SetCartridgeObserving(p) PROVE Known'
    BY <2>6 DEF SetCartridgeObserving, Observe, ClearObserving
  <2>7. ASSUME NEW p \in Port, LprSetOpticalSwitchPort(p) PROVE Known'
    BY <2>7 DEF LprSetOpticalSwitchPort
  <2>8. ASSUME NEW p \in Port, QueryPort(p) PROVE Known'
    BY <2>8 DEF QueryPort, PowerOn, QueryEnable
  <2>9. ASSUME NEW p \in Port, MonitorAction(p) PROVE Known'
    BY <2>9 DEF MonitorAction
  <2>10. CASE Command
    BY <2>10 DEF Command, AfterCommand, PowerAfter, Return, FirmwareAccepts
  <2>11. CASE CommandFaulty
    BY <2>11 DEF CommandFaulty, AfterCommand, PowerAfter, Return
  <2>12. CASE Test
    BY <2>12 DEF Test, EnabledAfter, WantedOn, Return
  <2>13. CASE EnableCart
    BY <2>13 DEF EnableCart, Return
  <2>14. CASE DisableCart
    BY <2>14 DEF DisableCart, Return
  <2>15. CASE SwitchLPR
    BY <2>15 DEF SwitchLPR, Return
  <2>16. CASE SwitchIF
    BY <2>16 DEF SwitchIF, Return
  <2>17. CASE SetObserving
    BY <2>17 DEF SetObserving, Return
  <2>18. CASE ClearCartridgeObserving
    BY <2>18 DEF ClearCartridgeObserving, ClearObserving
  <2>19. CASE QueryObserving
    BY <2>19 DEF QueryObserving, Observe, ClearObserving
  <2>20. CASE QueryDone
    BY <2>20 DEF QueryDone
  <2>21. CASE UNCHANGED vars
    BY <2>21
  <2> QED
    BY <2>1, <2>2, <2>3, <2>4, <2>5, <2>6, <2>7, <2>8, <2>9, <2>10, <2>11, <2>12, <2>13, <2>14, <2>15, <2>16, <2>17, <2>18, <2>19, <2>20, <2>21 DEF Next
<1> QED
  BY <1>1, <1>2, TypedHolds, CommandingHolds, PTL DEF Spec

(* PowerIsKnown: short of a failed transaction, setCartridgeOff finds      *)
(* every powered port but 6 enabled in its power module, whenever the      *)
(* monitor threads run (PowerModuleImpl::enableModule).                    *)
THEOREM PowerIsKnownHolds == Spec => []PowerIsKnown
<1>1. Known => PowerIsKnown
  BY DEF Known, PowerIsKnown
<1> QED
  BY <1>1, KnownHolds, PTL

(* While the program starts the modules agree with the firmware, and the   *)
(* carts with them as far as the loop has come.                            *)
LEMMA CatchingHolds == Spec => []Catching
<1> USE DEF hardware, modules, carts, switches, query, control, vars, Goto
<1>1. Init => Catching
  BY DEF Init, Catching
<1>2. Typed /\ Catching /\ [Next]_vars => Catching'
  <2> SUFFICES ASSUME Typed, Catching, [Next]_vars PROVE Catching'
    OBVIOUS
  <2> USE DEF Typed, TypeOK, Named, Catching
  <2>1. CASE FEControlInit
    BY <2>1 DEF FEControlInit, ConstructModules
  <2>2. ASSUME NEW p \in Port, SetCartridgeOff(p) PROVE Catching'
    BY <2>2 DEF SetCartridgeOff
  <2>3. ASSUME NEW p \in Port, SetCartridgeOn(p) PROVE Catching'
    BY <2>3 DEF SetCartridgeOn, PowerOn
  <2>4. ASSUME NEW p \in Port, NEW enter \in BOOLEAN, SetCartridgeStandby2(p, enter) PROVE Catching'
    BY <2>4 DEF SetCartridgeStandby2
  <2>5. ASSUME NEW p \in Port, NEW pause \in BOOLEAN, CartPauseMonitor(p, pause) PROVE Catching'
    BY <2>5 DEF CartPauseMonitor
  <2>6. ASSUME NEW p \in Port, SetCartridgeObserving(p) PROVE Catching'
    BY <2>6 DEF SetCartridgeObserving, Observe, ClearObserving
  <2>7. ASSUME NEW p \in Port, LprSetOpticalSwitchPort(p) PROVE Catching'
    BY <2>7 DEF LprSetOpticalSwitchPort
  <2>8. ASSUME NEW p \in Port, QueryPort(p) PROVE Catching'
    BY <2>8 DEF QueryPort, PowerOn, QueryEnable
  <2>9. ASSUME NEW p \in Port, MonitorAction(p) PROVE Catching'
    BY <2>9 DEF MonitorAction
  <2>10. CASE Command
    BY <2>10 DEF Command, AfterCommand, PowerAfter, Return
  <2>11. CASE CommandFaulty
    BY <2>11 DEF CommandFaulty, AfterCommand, PowerAfter, Return
  <2>12. CASE Test
    BY <2>12 DEF Test, EnabledAfter, WantedOn, Return
  <2>13. CASE EnableCart
    BY <2>13 DEF EnableCart, Return
  <2>14. CASE DisableCart
    BY <2>14 DEF DisableCart, Return
  <2>15. CASE SwitchLPR
    BY <2>15 DEF SwitchLPR, Return
  <2>16. CASE SwitchIF
    BY <2>16 DEF SwitchIF, Return
  <2>17. CASE SetObserving
    BY <2>17 DEF SetObserving, Return
  <2>18. CASE ClearCartridgeObserving
    BY <2>18 DEF ClearCartridgeObserving, ClearObserving
  <2>19. CASE QueryObserving
    BY <2>19 DEF QueryObserving, Observe, ClearObserving
  <2>20. CASE QueryDone
    BY <2>20 DEF QueryDone
  <2>21. CASE UNCHANGED vars
    BY <2>21
  <2> QED
    BY <2>1, <2>2, <2>3, <2>4, <2>5, <2>6, <2>7, <2>8, <2>9, <2>10, <2>11, <2>12, <2>13, <2>14, <2>15, <2>16, <2>17, <2>18, <2>19, <2>20, <2>21 DEF Next
<1> QED
  BY <1>1, <1>2, TypedHolds, PTL DEF Spec

(* RestartFindsPower: a program started on a powered front end enables     *)
(* exactly the powered cartridges (FrontEndImpl::queryCartridgeState).     *)
THEOREM RestartFindsPowerHolds == Spec => []RestartFindsPower
<1>1. Catching => RestartFindsPower
  BY DEF Catching, RestartFindsPower
<1> QED
  BY <1>1, CatchingHolds, PTL

(* numEnabled_m counts the enabled cartridges (CartridgesContainer::       *)
(* setEnable and clearEnable), for any number of ports.                    *)
THEOREM CountIsRightHolds == Spec => []CountIsRight
<1> USE DEF hardware, modules, carts, switches, query, control, vars, Goto
<1>1. Init => CountIsRight
  BY FS_EmptySet DEF Init, CountIsRight, EnabledCarts
<1>2. Typed /\ CountIsRight /\ [Next]_vars => CountIsRight'
  <2> SUFFICES ASSUME Typed, CountIsRight, [Next]_vars PROVE CountIsRight'
    OBVIOUS
  <2> USE DEF Typed, TypeOK, Named, CountIsRight
  <2>1. CASE FEControlInit
    <3>1. EnabledCarts' = {} /\ numEnabled' = 0
      BY <2>1 DEF FEControlInit, EnabledCarts
    <3> QED
      BY <3>1, FS_EmptySet
  <2>2. ASSUME NEW p \in Port, SetCartridgeOff(p) PROVE CountIsRight'
    BY <2>2 DEF SetCartridgeOff, EnabledCarts
  <2>3. ASSUME NEW p \in Port, SetCartridgeOn(p) PROVE CountIsRight'
    BY <2>3 DEF SetCartridgeOn, EnabledCarts, PowerOn
  <2>4. ASSUME NEW p \in Port, NEW enter \in BOOLEAN, SetCartridgeStandby2(p, enter) PROVE CountIsRight'
    BY <2>4 DEF SetCartridgeStandby2, EnabledCarts
  <2>5. ASSUME NEW p \in Port, NEW pause \in BOOLEAN, CartPauseMonitor(p, pause) PROVE CountIsRight'
    BY <2>5 DEF CartPauseMonitor, EnabledCarts
  <2>6. ASSUME NEW p \in Port, SetCartridgeObserving(p) PROVE CountIsRight'
    BY <2>6 DEF SetCartridgeObserving, EnabledCarts, Observe, ClearObserving
  <2>7. ASSUME NEW p \in Port, LprSetOpticalSwitchPort(p) PROVE CountIsRight'
    BY <2>7 DEF LprSetOpticalSwitchPort, EnabledCarts
  <2>8. ASSUME NEW p \in Port, QueryPort(p) PROVE CountIsRight'
    BY <2>8 DEF QueryPort, EnabledCarts, PowerOn, QueryEnable
  <2>9. ASSUME NEW p \in Port, MonitorAction(p) PROVE CountIsRight'
    BY <2>9 DEF MonitorAction, EnabledCarts
  <2>10. CASE Command
    BY <2>10 DEF Command, EnabledCarts
  <2>11. CASE CommandFaulty
    BY <2>11 DEF CommandFaulty, EnabledCarts
  <2>12. CASE Test
    BY <2>12 DEF Test, EnabledCarts
  <2>13. CASE EnableCart
    <3>1. EnabledCarts' = EnabledCarts \cup {port}
      BY <2>13 DEF EnableCart, EnabledCarts
    <3>2. port \in EnabledCarts <=> enable[port]
      BY <2>13 DEF EnableCart, EnabledCarts
    <3>3. numEnabled' = IF enable[port] THEN numEnabled ELSE numEnabled + 1
      BY <2>13 DEF EnableCart
    <3> QED
      BY <3>1, <3>2, <3>3, EnabledFinite, FS_AddElement
  <2>14. CASE DisableCart
    <3>1. EnabledCarts' = EnabledCarts \ {port}
      BY <2>14 DEF DisableCart, EnabledCarts
    <3>2. port \in EnabledCarts <=> enable[port]
      BY <2>14 DEF DisableCart, EnabledCarts
    <3>3. numEnabled' = IF enable[port] THEN numEnabled - 1 ELSE numEnabled
      BY <2>14 DEF DisableCart
    <3> QED
      BY <3>1, <3>2, <3>3, EnabledFinite, FS_RemoveElement
  <2>15. CASE SwitchLPR
    BY <2>15 DEF SwitchLPR, EnabledCarts
  <2>16. CASE SwitchIF
    BY <2>16 DEF SwitchIF, EnabledCarts
  <2>17. CASE SetObserving
    BY <2>17 DEF SetObserving, EnabledCarts
  <2>18. CASE ClearCartridgeObserving
    BY <2>18 DEF ClearCartridgeObserving, EnabledCarts, ClearObserving
  <2>19. CASE QueryObserving
    BY <2>19 DEF QueryObserving, EnabledCarts, Observe, ClearObserving
  <2>20. CASE QueryDone
    BY <2>20 DEF QueryDone, EnabledCarts
  <2>21. CASE UNCHANGED vars
    BY <2>21 DEF EnabledCarts
  <2> QED
    BY <2>1, <2>2, <2>3, <2>4, <2>5, <2>6, <2>7, <2>8, <2>9, <2>10, <2>11, <2>12, <2>13, <2>14, <2>15, <2>16, <2>17, <2>18, <2>19, <2>20, <2>21 DEF Next
<1> QED
  BY <1>1, <1>2, TypedHolds, PTL DEF Spec

=============================================================================
