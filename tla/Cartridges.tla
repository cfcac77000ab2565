----------------------------- MODULE Cartridges -----------------------------
(***************************************************************************)
(* Powering, observing and restarting the cartridges of a front end:       *)
(* FrontEndImpl with its CartridgesContainer and PowerModulesContainer,    *)
(* one CartAssembly and one PowerModuleImpl per port, the monitor thread   *)
(* of every power module, and the monitor and control firmware behind the  *)
(* bus, whose power states outlive the program.                            *)
(*                                                                         *)
(* The host calls one control function at a time; each function is a walk  *)
(* of pc through the steps in which it touches shared state.  Beside it    *)
(* the power modules' monitor threads overwrite enableModule_status, and   *)
(* the program may be shut down, or die, and start again at any step.      *)
(*                                                                         *)
(* The receiver is fully configured: an LPR, an IF switch, and at every    *)
(* port a cartridge and a power module; with or without a CPDS.  Left out: *)
(* PowerModulesContainer::numEnabled_m, which nothing reads, the minimal   *)
(* monitoring mode of the WCA, and the SIS voltage measurement that        *)
(* setCartridgeOn starts for bands above 2.                                *)
(***************************************************************************)
EXTENDS Integers, FiniteSets

CONSTANTS Port,        \* the ports that are configured
          PowerLimit   \* the cartridges the firmware allows ON at once

ASSUME PortAssumption == Port \subseteq 1..10
ASSUME LimitAssumption == PowerLimit \in Nat \ {0}

NoPort == -1
StandbyPort == 6
PowerState == 0..2     \* OFF, ON, STANDBY2

VARIABLES
  (* the firmware *)
  power,         \* the power state of each port
  (* PowerModuleImpl, one per port *)
  poweredOn,     \* enabled_m
  statusOk,      \* enableModule_status = FEMC_NO_ERROR
  (* CartAssembly, one per port *)
  enable,        \* enable_m
  observing,     \* observing_m
  paused,        \* paused_m of the cold cartridge, with who paused it
  (* CartridgesContainer *)
  numEnabled, observingPort,
  (* FrontEndImpl, LPRImpl and IFSwitchImpl *)
  cpds,          \* cpds_m
  lprPort,       \* observingBand_m of the LPR
  ifPort,        \* observingBand_m of the IF switch
  (* the control thread *)
  pc, op, port, cmd,
  starting,      \* within queryCartridgeState
  toQuery,       \* the ports its loop has still to visit
  observingBand, \* its local of that name
  faulted        \* ghost: a transaction failed since the program started

hardware == <<power>>
modules == <<poweredOn, statusOk>>
carts == <<enable, observing, numEnabled, observingPort>>
switches == <<lprPort, ifPort>>
query == <<starting, toQuery, observingBand>>
control == <<pc, op, port, cmd>>
vars == <<power, poweredOn, statusOk, enable, observing, numEnabled,
          observingPort, paused, lprPort, ifPort, starting, toQuery,
          observingBand, pc, op, port, cmd, cpds, faulted>>

TypeOK ==
  /\ power \in [Port -> PowerState]
  /\ poweredOn \in [Port -> BOOLEAN]
  /\ statusOk \in [Port -> BOOLEAN]
  /\ enable \in [Port -> BOOLEAN]
  /\ observing \in [Port -> BOOLEAN]
  /\ paused \in [Port -> {"no", "user", "off"}]
  /\ numEnabled \in Int
  /\ observingPort \in Port \cup {NoPort}
  /\ cpds \in BOOLEAN
  /\ lprPort \in Port \cup {NoPort}
  /\ ifPort \in Port \cup {NoPort}
  /\ pc \in {"down", "idle", "DisableCart", "Command", "Test", "EnableCart",
             "SwitchLPR", "SwitchIF", "SetObserving", "Query"}
  /\ op \in {"None", "Off", "On", "Standby2", "Observe"}
  /\ port \in Port \cup {NoPort}
  /\ cmd \in PowerState
  /\ starting \in BOOLEAN
  /\ toQuery \subseteq Port
  /\ observingBand \in Port \cup {NoPort}
  /\ faulted \in BOOLEAN

-----------------------------------------------------------------------------
(* The front end has just been powered and the program is not running.     *)
Init ==
  /\ power = [p \in Port |-> 0]
  /\ cpds \in BOOLEAN
  /\ poweredOn = [p \in Port |-> FALSE]
  /\ statusOk = [p \in Port |-> TRUE]
  /\ enable = [p \in Port |-> FALSE]
  /\ observing = [p \in Port |-> FALSE]
  /\ paused = [p \in Port |-> "no"]
  /\ numEnabled = 0
  /\ observingPort = NoPort
  /\ lprPort = NoPort
  /\ ifPort = NoPort
  /\ pc = "down"
  /\ op = "None"
  /\ port = NoPort
  /\ cmd = 0
  /\ starting = FALSE
  /\ toQuery = {}
  /\ observingBand = NoPort
  /\ faulted = FALSE

(* A mutant of ConstructModules: they do not read their state. *)
ConstructModulesUnread ==
  /\ poweredOn' = [p \in Port |-> FALSE]
  /\ statusOk' = [p \in Port |-> TRUE]
  /\ faulted' = FALSE

(* The constructor of PowerModuleImpl reads the state of its port; a read  *)
(* that fails answers false.                                               *)
ConstructModules ==
  \E failing \in SUBSET Port :
    /\ poweredOn' = [p \in Port |-> power[p] # 0 /\ p \notin failing]
    /\ statusOk' = [p \in Port |-> p \notin failing]
    /\ faulted' = (failing # {})

(* FEControlInit, whether the program was shut down before, died at any    *)
(* step, or never ran: every object is new, the power states are what they *)
(* were.  The IF switch may be found anywhere.                             *)
FEControlInit ==
  /\ ConstructModules
  /\ enable' = [p \in Port |-> FALSE]
  /\ observing' = [p \in Port |-> FALSE]
  /\ paused' = [p \in Port |-> "no"]
  /\ numEnabled' = 0
  /\ observingPort' = NoPort
  /\ lprPort' = NoPort
  /\ ifPort' = NoPort
  /\ pc' = "Query"
  /\ op' = "None"
  /\ port' = NoPort
  /\ cmd' = 0
  /\ starting' = TRUE
  /\ toQuery' = Port
  /\ observingBand' \in Port \cup {NoPort}
  /\ UNCHANGED <<power, cpds>>

-----------------------------------------------------------------------------
(* Steps shared by the control functions *)

EnabledCarts == {p \in Port : enable[p]}

Goto(label) == pc' = label

(* The end of a control function: back to its caller. *)
Return == Goto(IF starting THEN "Query" ELSE "idle")

(* The firmware: at most PowerLimit cartridges ON, STANDBY2 only at port 6. *)
FirmwareAccepts(p, payload) ==
  \/ payload = 0
  \/ payload = 1 /\ Cardinality({q \in Port \ {p} : power[q] = 1}) < PowerLimit
  \/ payload = 2 /\ p = StandbyPort

PowerAfter(p, payload) ==
  IF FirmwareAccepts(p, payload) THEN [power EXCEPT ![p] = payload] ELSE power

(* What follows the command in each function; the status is tested only    *)
(* through a power module, that is with a CPDS.                            *)
AfterCommand ==
  IF cpds THEN Goto("Test")
  ELSE IF op = "Off" THEN Return ELSE Goto("EnableCart")

(* syncCommand: the command and its readback *)
Command ==
  /\ pc = "Command"
  /\ power' = PowerAfter(port, cmd)
  /\ statusOk' = IF cpds THEN [statusOk EXCEPT ![port] = FirmwareAccepts(port, cmd)]
                 ELSE statusOk
  /\ AfterCommand
  /\ UNCHANGED <<poweredOn, carts, paused, switches, query, op, port, cmd, cpds, faulted>>

(* Either transaction may fail: the command may or may not have arrived,   *)
(* and the status is that of the readback alone.                           *)
CommandFaulty ==
  /\ pc = "Command"
  /\ power' \in {power, PowerAfter(port, cmd)}
  /\ \E ok \in BOOLEAN :
       statusOk' = IF cpds THEN [statusOk EXCEPT ![port] = ok] ELSE statusOk
  /\ faulted' = TRUE
  /\ AfterCommand
  /\ UNCHANGED <<poweredOn, carts, paused, switches, query, op, port, cmd, cpds>>

(* The argument of enableModule and of standby2Module *)
WantedOn == IF op = "Standby2" THEN cmd = 2 ELSE cmd = 1

(* The rest of enableModule and standby2Module, after the command *)
EnabledAfter ==
  IF poweredOn[port] THEN WantedOn ELSE WantedOn /\ statusOk[port]

Test ==
  /\ pc = "Test"
  /\ poweredOn' = [poweredOn EXCEPT ![port] = EnabledAfter]
  /\ IF op = "Standby2" \/ (op = "On" /\ poweredOn'[port])
       THEN Goto("EnableCart")
       ELSE Return
  /\ UNCHANGED <<power, statusOk, carts, paused, switches, query, op, port, cmd, cpds, faulted>>

(* A mutant of EnableCart: a cartridge that is on already is counted again. *)
EnableCartTwice ==
  /\ pc = "EnableCart"
  /\ enable' = [enable EXCEPT ![port] = TRUE]
  /\ observing' = IF enable[port] THEN observing
                  ELSE [observing EXCEPT ![port] = FALSE]
  /\ numEnabled' = numEnabled + 1
  /\ Return
  /\ UNCHANGED <<power, modules, observingPort, paused, switches, query, op, port, cmd, cpds, faulted>>

(* CartridgesContainer::setEnable with CartAssembly::setEnable *)
EnableCart ==
  /\ pc = "EnableCart"
  /\ enable' = [enable EXCEPT ![port] = TRUE]
  /\ observing' = IF enable[port] THEN observing
                  ELSE [observing EXCEPT ![port] = FALSE]
  /\ numEnabled' = IF enable[port] THEN numEnabled ELSE numEnabled + 1
  /\ Return
  /\ UNCHANGED <<power, modules, observingPort, paused, switches, query, op, port, cmd, cpds, faulted>>

(* A mutant of PowerOn: a module that is enabled already reports failure. *)
PowerOnRefused(p) ==
  /\ op' = "On"
  /\ port' = p
  /\ cmd' = 1
  /\ IF cpds /\ poweredOn[p] THEN Return ELSE Goto("Command")

(* PowerModulesContainer::setEnable, or powerEnableModule without a CPDS *)
PowerOn(p) ==
  /\ op' = "On"
  /\ port' = p
  /\ cmd' = 1
  /\ Goto(IF cpds /\ poweredOn[p] THEN "EnableCart" ELSE "Command")

-----------------------------------------------------------------------------
(* setCartridgeOff *)

SetCartridgeOff(p) ==
  /\ pc = "idle"
  /\ op' = "Off"
  /\ port' = p
  /\ cmd' = 0
  /\ paused' = [paused EXCEPT ![p] = IF @ = "no" THEN "off" ELSE @]
  /\ Goto("DisableCart")
  /\ UNCHANGED <<power, modules, carts, switches, query, cpds, faulted>>

(* A mutant of DisableCart: the container keeps its observing port. *)
DisableCartObserving ==
  /\ pc = "DisableCart"
  /\ enable' = [enable EXCEPT ![port] = FALSE]
  /\ observing' = IF enable[port] THEN [observing EXCEPT ![port] = FALSE]
                  ELSE observing
  /\ numEnabled' = IF enable[port] THEN numEnabled - 1 ELSE numEnabled
  /\ IF cpds /\ ~poweredOn[port] THEN Return ELSE Goto("Command")
  /\ UNCHANGED <<power, modules, observingPort, paused, switches, query, op, port, cmd, cpds, faulted>>

(* CartridgesContainer::clearEnable with CartAssembly::clearEnable, then   *)
(* PowerModulesContainer::clearEnable, which commands only a module it     *)
(* believes to be enabled.                                                 *)
DisableCart ==
  /\ pc = "DisableCart"
  /\ enable' = [enable EXCEPT ![port] = FALSE]
  /\ observing' = IF enable[port] \/ port = observingPort
                  THEN [observing EXCEPT ![port] = FALSE] ELSE observing
  /\ observingPort' = IF port = observingPort THEN NoPort ELSE observingPort
  /\ numEnabled' = IF enable[port] THEN numEnabled - 1 ELSE numEnabled
  /\ IF cpds /\ ~poweredOn[port] THEN Return ELSE Goto("Command")
  /\ UNCHANGED <<power, modules, paused, switches, query, op, port, cmd, cpds, faulted>>

(* FESetCartridgeOn and setCartridgeOn *)
SetCartridgeOn(p) ==
  /\ pc = "idle"
  /\ ~enable[p]
  /\ PowerOn(p)
  /\ UNCHANGED <<power, modules, carts, paused, switches, query, cpds, faulted>>

(* setCartridgeStandby2: 2 to enter; to leave, 1 through the power module, *)
(* and without a CPDS 1 if the cartridge is enabled.                       *)
SetCartridgeStandby2(p, enter) ==
  /\ pc = "idle"
  /\ p = StandbyPort
  /\ op' = "Standby2"
  /\ port' = p
  /\ cmd' = IF enter THEN 2 ELSE IF cpds \/ enable[p] THEN 1 ELSE 0
  /\ Goto("Command")
  /\ UNCHANGED <<power, modules, carts, paused, switches, query, cpds, faulted>>

(* cartPauseMonitor, for the cold cartridge *)
CartPauseMonitor(p, pause) ==
  /\ pc = "idle"
  /\ paused' = [paused EXCEPT ![p] = IF pause THEN IF @ = "no" THEN "user" ELSE @
                                     ELSE "no"]
  /\ UNCHANGED <<power, modules, carts, switches, query, control, cpds, faulted>>

-----------------------------------------------------------------------------
(* setCartridgeObserving and clearCartridgeObserving *)

(* A mutant of ClearObserving: ports are taken to start at 0. *)
ClearObservingZero ==
  /\ observing' = [p \in Port |-> observing[p] /\ p # observingPort]
  /\ observingPort' = 0

(* CartridgesContainer::clearObserving *)
ClearObserving ==
  /\ observing' = [p \in Port |-> observing[p] /\ p # observingPort]
  /\ observingPort' = NoPort

Observe(p) ==
  /\ observingPort # p
  /\ op' = "Observe"
  /\ port' = p
  /\ cmd' = 0
  /\ ClearObserving
  /\ Goto("SwitchLPR")
  /\ UNCHANGED <<enable, numEnabled>>

SetCartridgeObserving(p) ==
  /\ pc = "idle"
  /\ Observe(p)
  /\ UNCHANGED <<power, modules, paused, switches, query, cpds, faulted>>

(* A mutant of SwitchLPR: the IF switch is left for later. *)
SwitchLPROnly ==
  /\ pc = "SwitchLPR"
  /\ lprPort' = port
  /\ IF enable[port] THEN Goto("SetObserving") ELSE Return
  /\ UNCHANGED <<power, modules, carts, paused, ifPort, query, op, port, cmd, cpds, faulted>>

(* LPRImpl::setObservingBand fails if the switch stays busy for 2 s. *)
SwitchLPR ==
  /\ pc = "SwitchLPR"
  /\ lprPort' = port
  /\ \/ Goto("SwitchIF")
     \/ Return
  /\ UNCHANGED <<power, modules, carts, paused, ifPort, query, op, port, cmd, cpds, faulted>>

SwitchIF ==
  /\ pc = "SwitchIF"
  /\ ifPort' = port
  /\ IF enable[port] THEN Goto("SetObserving") ELSE Return
  /\ UNCHANGED <<power, modules, carts, paused, lprPort, query, op, port, cmd, cpds, faulted>>

(* CartridgesContainer::setObserving *)
SetObserving ==
  /\ pc = "SetObserving"
  /\ enable[port]
  /\ observing' = [p \in Port |-> p = port \/ (observing[p] /\ p # observingPort)]
  /\ observingPort' = port
  /\ Return
  /\ UNCHANGED <<power, modules, enable, numEnabled, paused, switches, query, op, port, cmd, cpds, faulted>>

ClearCartridgeObserving ==
  /\ pc = "idle"
  /\ ClearObserving
  /\ UNCHANGED <<power, modules, enable, numEnabled, paused, switches, query, control, cpds, faulted>>

(* lprSetOpticalSwitchPort moves the optical switch and nothing else. *)
LprSetOpticalSwitchPort(p) ==
  /\ pc = "idle"
  /\ lprPort' = p
  /\ UNCHANGED <<power, modules, carts, paused, ifPort, query, control, cpds, faulted>>

-----------------------------------------------------------------------------
(* queryCartridgeState: visit the ports in order, turn on those that have  *)
(* power, then observe the port the IF switch was found at.                *)

(* PowerModulesContainer::queryEnable; a failed read answers false. *)
QueryEnable(p, failing) ==
  /\ statusOk' = IF cpds THEN [statusOk EXCEPT ![p] = ~failing] ELSE statusOk
  /\ faulted' = (faulted \/ (cpds /\ failing))

QueryPort(p) ==
  /\ pc = "Query"
  /\ p \in toQuery
  /\ \A q \in toQuery : p <= q
  /\ toQuery' = toQuery \ {p}
  /\ \E failing \in BOOLEAN :
       /\ QueryEnable(p, failing)
       /\ IF cpds /\ power[p] # 0 /\ ~failing
            THEN PowerOn(p) /\ UNCHANGED observingBand
            ELSE /\ observingBand' = IF p = observingBand THEN NoPort
                                     ELSE observingBand
                 /\ UNCHANGED control
  /\ UNCHANGED <<power, poweredOn, carts, paused, switches, starting, cpds>>

QueryObserving ==
  /\ pc = "Query"
  /\ toQuery = {}
  /\ observingBand # NoPort
  /\ observingBand' = NoPort
  /\ Observe(observingBand)
  /\ UNCHANGED <<power, modules, paused, switches, starting, toQuery, cpds, faulted>>

QueryDone ==
  /\ pc = "Query"
  /\ toQuery = {}
  /\ observingBand = NoPort
  /\ starting' = FALSE
  /\ Goto("idle")
  /\ UNCHANGED <<power, modules, carts, paused, switches, toQuery, observingBand, op, port, cmd, cpds, faulted>>

-----------------------------------------------------------------------------
(* The monitor thread of a power module reads enableModule every 2 s and   *)
(* leaves the outcome in the status the control functions test.            *)
MonitorAction(p) ==
  /\ cpds
  /\ pc # "down"
  /\ \E failing \in BOOLEAN :
       /\ statusOk' = [statusOk EXCEPT ![p] = ~failing]
       /\ faulted' = (faulted \/ failing)
  /\ UNCHANGED <<power, poweredOn, carts, paused, switches, query, control, cpds>>

Next ==
  \/ FEControlInit
  \/ \E p \in Port :
       \/ SetCartridgeOff(p)
       \/ SetCartridgeOn(p)
       \/ \E enter \in BOOLEAN : SetCartridgeStandby2(p, enter)
       \/ \E pause \in BOOLEAN : CartPauseMonitor(p, pause)
       \/ SetCartridgeObserving(p)
       \/ LprSetOpticalSwitchPort(p)
       \/ QueryPort(p)
       \/ MonitorAction(p)
  \/ Command
  \/ CommandFaulty
  \/ Test
  \/ EnableCart
  \/ DisableCart
  \/ SwitchLPR
  \/ SwitchIF
  \/ SetObserving
  \/ ClearCartridgeObserving
  \/ QueryObserving
  \/ QueryDone

Spec == Init /\ [][Next]_vars

-----------------------------------------------------------------------------
(* The port that is observing holds an enabled cartridge that knows it is  *)
(* observing, and no other cartridge believes so: CartridgesContainer      *)
(* drops observingPort_m when that cartridge is disabled, and clears the   *)
(* old cartridge before it marks the new one.                              *)
ObservingIsEnabled ==
  /\ observingPort # NoPort => enable[observingPort]
  /\ \A p \in Port : observing[p] <=> p = observingPort

(* numEnabled_m of the container counts the enabled cartridges, whatever   *)
(* is turned on twice or off twice.                                        *)
CountIsRight == numEnabled = Cardinality(EnabledCarts)

(* A port becomes the observing one only when the optical switch and the   *)
(* IF switch have both been sent there; setCartridgeObserving gives up     *)
(* before that if the LPR fails.                                           *)
ObservedIsSwitched ==
  [][observingPort' \notin {observingPort, NoPort} =>
       lprPort = observingPort' /\ ifPort = observingPort']_vars

(* A program started on a front end that is already powered ends its       *)
(* queries with exactly the powered cartridges enabled, if no transaction  *)
(* failed: queryCartridgeState sees what the last program left.            *)
RestartFindsPower ==
  starting /\ pc = "Query" /\ toQuery = {} /\ cpds /\ ~faulted =>
    \A p \in Port : enable[p] <=> power[p] # 0

(* As long as no transaction failed, a powered port is known to its power  *)
(* module, so that setCartridgeOff can turn it off, whenever the monitor   *)
(* thread overwrites the status.  Only between the command and the test of *)
(* its status is the module behind.  Port 6 is excepted: leaving STANDBY2  *)
(* breaks this, see OffIsOff.                                              *)
PowerIsKnown ==
  cpds /\ ~faulted =>
    \A p \in Port \ {StandbyPort} :
      power[p] # 0 => poweredOn[p] \/ (pc = "Test" /\ port = p)

(* "tell CPDS to turn off the cartridge:" (FrontEndImpl.cpp, in            *)
(* setCartridgeOff): once the function has returned, the port has no       *)
(* power.                                                                  *)
OffIsOff ==
  pc = "idle" /\ op = "Off" /\ ~faulted => power[port] = 0

(* "set the CartAssembly to powered on state:" (FrontEndImpl.cpp, in       *)
(* setCartridgeOn, after a status that was not good has made it return):   *)
(* a cartridge that setCartridgeOn has just enabled has power.             *)
OnIsOn ==
  pc = "idle" /\ op = "On" /\ cpds /\ ~faulted =>
    (enable[port] => power[port] # 0)

(* "Power the cartridge assembly on, start monitoring, etc."               *)
(* (CartAssembly.h, of setEnable): no enabled cartridge stays paused by    *)
(* the setCartridgeOff that came before.                                   *)
EnabledIsMonitored ==
  pc = "idle" => \A p \in Port : enable[p] => paused[p] # "off"
=============================================================================
