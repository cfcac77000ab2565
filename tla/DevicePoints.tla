---------------------------- MODULE DevicePoints ----------------------------
(***************************************************************************)
(* From a register of the hardware to the value the program keeps of it:   *)
(* the monitor thread of one device walks its monitor registry and then    *)
(* its digital points (monitorAction), while another thread commands the   *)
(* device and pushes temporary entries to the front of the same registry,  *)
(* without a lock.                                                         *)
(*                                                                         *)
(* The hardware at the other end is that of the acceptance tests: a point  *)
(* that has a test is where its test finds it, and not where the program   *)
(* looks for it.                                                           *)
(*                                                                         *)
(* One point, the probe, is moved; every other register holds 0.  A value  *)
(* is abstracted to zero or not.  A behaviour begins by choosing the       *)
(* probe, so that the run goes through every point of every device.        *)
(***************************************************************************)
EXTENDS ICDTests, SequencesExt

CONSTANTS
    Classes,        \* the classes of device that exist
    Ports,          \* the ports, and bands, that are fitted
    Watched,        \* bound: those of them whose devices run
    Unprobed,       \* names of the points that are not moved
    MaxTemps        \* bound: temporary entries in the registry at once

AtPorts == {"WCA", "ColdCart", "PowerModule"}
Single == {"IFSwitch", "LPR", "Cryostat", "FETIM", "LORTM", "Compressor"}

ASSUME ClassesAssumption == Classes \subseteq AtPorts \cup Single
ASSUME PortsAssumption == Ports \subseteq 1..10 /\ Watched \subseteq Ports
ASSUME MaxTempsAssumption == MaxTemps \in Nat

Devices == ((Classes \cap AtPorts) \X Ports) \cup ((Classes \cap Single) \X {0})

VARIABLES
    dev,            \* the device whose monitor thread runs
    probe,          \* the point of it that moves
    on,             \* registers that are not 0, of the whole front end
    standby,        \* dev is in STANDBY2
    cached,         \* points of dev whose <name>_value is not 0
    registry,       \* monitorRegistry: Permanents by number, or Temporary
    nextMon,        \* nextMon, as an index
    at,             \* monitorPhase: 0 the registry, else a digital point
    serving,        \* the entry executeNextMon took, or the digital point
    reading,        \* <<what its accessor returned, whether the bus answered>>
    minimal         \* minimalMonitoring_m

host == <<on, standby, minimal>>
monitor == <<cached, registry, nextMon, at, serving, reading>>
deviceVars == <<dev, probe, host, monitor>>

(***************************************************************************)
(* The tables of the device classes, put together.                         *)
(***************************************************************************)
Register(d, p) ==
    CASE d[1] = "WCA" -> <<"FEMC", WCAAddress(d[2], p)>>
      [] d[1] = "ColdCart" -> <<"FEMC", ColdCartAddress(d[2], p)>>
      [] d[1] = "PowerModule" -> <<"FEMC", PowerModuleAddress(d[2], p)>>
      [] d[1] = "IFSwitch" -> <<"FEMC", IFSwitchAddress(p)>>
      [] d[1] = "LPR" -> <<"FEMC", LPRAddress(p)>>
      [] d[1] = "Cryostat" -> <<"FEMC", CryostatAddress(p)>>
      [] d[1] = "FETIM" -> <<"FEMC", FETIMAddress(p)>>
      [] d[1] = "LORTM" -> <<"LORTM", LORTMAddress(p)>>
      [] d[1] = "Compressor" -> <<"Compressor", CompressorAddress(p)>>

RegistryOf(class) ==
    CASE class = "WCA" -> WCARegistry
      [] class = "ColdCart" -> ColdCartRegistry
      [] class = "PowerModule" -> PowerModuleRegistry
      [] class = "IFSwitch" -> IFSwitchRegistry
      [] class = "LPR" -> LPRRegistry
      [] class = "Cryostat" -> CryostatRegistry
      [] class = "FETIM" -> FETIMRegistry
      [] OTHER -> <<>>

PhasesOf(class) ==
    CASE class = "WCA" -> WCAPhases
      [] class = "ColdCart" -> ColdCartPhases
      [] class = "PowerModule" -> PowerModulePhases
      [] class = "IFSwitch" -> IFSwitchPhases
      [] class = "LPR" -> LPRPhases
      [] class = "Cryostat" -> CryostatPhases
      [] class = "FETIM" -> FETIMPhases
      [] class = "LORTM" -> LORTMPhases
      [] class = "Compressor" -> CompressorPhases

Permanents == [c \in Classes |-> RegistryOf(c)]
Digital == [c \in Classes |-> FlattenSeq(PhasesOf(c))]

Unscheduled(d) ==
    CASE d[1] = "WCA" -> WCAUnscheduled
      [] d[1] = "LORTM" -> LORTMUnscheduled
      [] OTHER -> {}

CommandsOf(d) ==
    CASE d[1] = "WCA" -> WCACommands
      [] d[1] = "ColdCart" -> ColdCartCommands(d[2])
      [] d[1] = "PowerModule" -> Points(Plain(<<"ENABLE_MODULE">>))
      [] d[1] = "IFSwitch" -> Points(Digital["IFSwitch"])
      [] d[1] = "LPR" -> LPRCommands
      [] d[1] = "Cryostat" -> CryostatCommands
      [] d[1] = "FETIM" -> Points(Plain(<<"DEWAR_N2_FILL">>))
      [] d[1] = "LORTM" -> LORTMCommands
      [] OTHER -> {}

StartsSet(d) ==
    CASE d[1] = "Cryostat" -> CryostatStartsSet
      [] d[1] = "FETIM" -> FETIMStartsSet
      [] OTHER -> {}

Commanded == [d \in Devices |-> CommandsOf(d)]
Scheduled == [c \in Classes |-> Points(Permanents[c]) \cup Points(Digital[c])]
PointsOf(d) == Scheduled[d[1]] \cup Unscheduled(d) \cup Commanded[d]

AllPoints == UNION {{<<d, p>> : p \in PointsOf(d)} : d \in Devices}
Tested == [d \in Devices |-> TestsOf(d)]

\* Where the hardware has a point.
Hardware ==
    [x \in AllPoints |-> IF x[2] \in Tested[x[1]] THEN TestedRegister(x[1], x[2])
                         ELSE Register(x[1], x[2])]

\* Where each point is: for the program, and in the hardware.
Located == {<<x, Register(x[1], x[2]), Hardware[x]>> : x \in AllPoints}

\* Every point of the front end that the program, or the hardware, has at a
\* given register.
PointsAt ==
    [r \in UNION {{e[2], e[3]} : e \in Located} |->
        {e[1] : e \in {f \in Located : r \in {f[2], f[3]}}}]

(***************************************************************************)
(* Reading a point.                                                        *)
(***************************************************************************)
\* The point whose cached value decides whether this one is read at all.
GateOf(d, p) ==
    CASE d[1] = "Cryostat"
         /\ p[1] \in {"SUPPLY_CURRENT_230V", "TURBO_PUMP_ENABLE",
                      "TURBO_PUMP_STATE", "TURBO_PUMP_SPEED",
                      "SOLENOID_VALVE_STATE"} -> <<"BACKING_PUMP_ENABLE", 0, 0>>
      [] d[1] = "IFSwitch" /\ p[1] = "ASSEMBLY_TEMP" ->
             <<"TEMP_SERVO_ENABLE", p[2], p[3]>>
      [] d[1] = "LORTM" /\ p[1] \in {"SYSTEM_GET_ERROR", "SYSTEM_GET_WARNING"} ->
             <<"SYSTEM_GET_STATUS", 0, 0>>
      [] d[1] = "LORTM" /\ p[1] \in {"PHASELOCK_GET_SELECTED_LASER",
                                     "PHASELOCK_GET_SELECTED_BAND"} ->
             <<"PHASELOCK_GET_STATUS", 0, 0>>
      [] OTHER -> p

Shut(d, p) == GateOf(d, p) # p /\ GateOf(d, p) \notin cached

\* With its gate shut the point keeps the value it had; the others get 0.
KeptWhenShut(d, p) == d[1] = "LORTM" \/ p[1] = "SOLENOID_VALVE_STATE"

Absent(d, p) == d[1] = "ColdCart" /\ ~Fitted(d[2], p)

\* A transaction that fails leaves the local it should fill uninitialised in
\* the SYNCMON2 macros and in the temperature readings of the cryostat; the
\* SYNCMON macros, and the LORTM's own status functions, return 0.
AfterFailure(d, p) ==
    IF \/ d[1] = "LORTM" /\ p \notin LORTMStatus
       \/ d[1] = "Compressor"
       \/ p[1] = "CRYOSTAT_TEMP"
    THEN BOOLEAN ELSE {FALSE}

Reads(d, p) == IF d[1] = "LORTM" THEN LORTMReads(p) ELSE p
Writes(d, p) == IF d[1] = "WCA" THEN WCAWrites(p) ELSE p

Unpumped(d) ==
    d[1] = "Cryostat" /\ Hardware[<<d, <<"BACKING_PUMP_ENABLE", 0, 0>>>>] \notin on

\* The value that comes with the status "blocked" is used as any other.
\* Bound: only the probe's is ever unknown.
Unknown(d, p) ==
    p = probe /\ Unpumped(d) /\ p \in UnknownUnpumped \cup CurrentUnpumped

\* The hardware takes no command for p.
Refused(p) ==
    \/ standby /\ p \in HeldInStandby
    \/ Unpumped(dev) /\ p \in RefusedUnpumped

\* What the accessor of p may return.
Returned(d, p, ok) ==
    IF Absent(d, p) THEN {FALSE}
    ELSE IF Shut(d, p) THEN {KeptWhenShut(d, p) /\ p \in cached}
    ELSE IF ok /\ Unknown(d, p) THEN BOOLEAN
    ELSE IF ok THEN {(Register(d, Reads(d, p)) \in on)}
    ELSE AfterFailure(d, p)

\* The register that a command to a point, or the device itself, changes.
Moved(d, p) ==
    IF p \in Commanded[d] THEN Register(d, Writes(d, p)) ELSE Hardware[<<d, p>>]

\* The tables keep the registers apart.  What moves with a point has registers
\* that the front end has for nothing else, and no accessor of the device reads
\* anything else from them.
KeptApart ==
    \A d \in Devices : \A p \in {q \in PointsOf(d) : q[1] \notin Unprobed} :
        LET moving == {p, GateOf(d, p)}
        IN  /\ moving \subseteq PointsOf(d)
            /\ \A q \in moving :
                /\ PointsAt[Moved(d, q)] \subseteq {<<d, m>> : m \in moving}
                /\ \A x \in PointsOf(d) \ moving :
                       Register(d, Reads(d, x)) # Moved(d, q)

ASSUME TablesAssumption ==
    /\ KeptApart
    /\ "WCA" \in Classes => WCAMinimal \subseteq Scheduled["WCA"]

(***************************************************************************)
(* Initial states: a point that the program reads or commands.             *)
(***************************************************************************)
Permanent(p) == [point |-> p, temp |-> FALSE]
NoEntry == [point |-> <<"", 0, 0>>, temp |-> FALSE]

\* A temporary entry is one for the probe.
Temporary == 0
Numbers == [c \in Classes |-> [k \in DOMAIN Permanents[c] |-> k]]
EntryOf(k) ==
    [point |-> IF k = Temporary THEN probe ELSE Permanents[dev[1]][k],
     temp |-> k = Temporary]

\* monitorAction of the IF switch and of the power modules reads the digital
\* points first.
StartsAt(d) == IF d[1] \in {"IFSwitch", "PowerModule"} THEN 1 ELSE 0

Moving == {probe, GateOf(dev, probe)}

\* Of the points that do not move the value of the constructor is left out.
DeviceInit ==
    /\ dev \in {d \in Devices : d[2] \in Watched \cup {0}}
    /\ probe \in {p \in PointsOf(dev) : p[1] \notin Unprobed}
    /\ on = {} /\ minimal = FALSE /\ standby = FALSE
    /\ cached = Moving \cap StartsSet(dev)
    /\ registry = Numbers[dev[1]]
    /\ nextMon = 1 /\ at = StartsAt(dev)
    /\ serving = NoEntry /\ reading = <<>>

(***************************************************************************)
(* The host, and the hardware.                                             *)
(***************************************************************************)
\* addMon(..., true): in front of the registry, and next.
AddTemporary ==
    /\ registry' = <<Temporary>> \o registry
    /\ nextMon' = 1

\* The setters of ColdCartImpl that monitor right away.
ReadsRightAway(p) ==
    dev[1] = "ColdCart" /\ p[1] \in {"SIS_OPEN_LOOP", "LNA_ENABLE", "LNA_LED_ENABLE"}

DrainNames == {LNADrains[k] : k \in DOMAIN LNADrains}
IsDrain(p) == dev[1] = "ColdCart" /\ p[1] \in DrainNames

Temps == Len(registry) - Len(Numbers[dev[1]])

WithValue(p, v) == IF v THEN cached \cup {p} ELSE cached \ {p}

\* What an accepted command leaves in the register.
Taken(r, v) == IF v THEN on \cup {r} ELSE on \ {r}

\* A control function of the device: SYNCCMD, then what the override adds.
\* The bus or the hardware may refuse the command; nobody looks.  The reading
\* made right away may fail and give 0.
Command(p, v, ok) ==
    LET r == Register(dev, Writes(dev, p))
    IN  /\ p \in Moving \cap Commanded[dev]
        /\ on' = IF ~ok \/ Refused(p) THEN on ELSE Taken(r, v)
        /\ IF IsDrain(p)
           THEN Temps < MaxTemps /\ AddTemporary
           ELSE UNCHANGED <<registry, nextMon>>
        /\ IF ReadsRightAway(p)
           THEN \E v2 \in {(r \in on'), FALSE} : cached' = WithValue(p, v2)
           ELSE UNCHANGED cached
        /\ UNCHANGED <<standby, minimal>>

\* What the device measures, or decides, changes.
DeviceChanges(p) ==
    LET r == Hardware[<<dev, p>>]
    IN  /\ p \in Moving \ Commanded[dev]
        /\ on' = IF r \in on THEN on \ {r} ELSE on \cup {r}
        /\ UNCHANGED <<standby, minimal, cached, registry, nextMon>>

\* The power module of the cartridge is commanded to STANDBY2, or ON again.
\* Bound: only while a point that knows the difference is moved.
Standby2 ==
    /\ dev = <<"ColdCart", StandbyBand>> /\ probe \in HeldInStandby
    /\ standby' = ~standby
    /\ on' = IF standby THEN on
             ELSE on \ {TestedRegister(dev, p) : p \in ColdElectronics}
    /\ UNCHANGED <<minimal, cached, registry, nextMon>>

\* An accessor that only callers of the device use.
HostReads(ok) ==
    /\ probe \in Unscheduled(dev)
    /\ \E v \in Returned(dev, probe, ok) : cached' = WithValue(probe, v)
    /\ UNCHANGED <<dev, probe, host, registry, nextMon, at, serving, reading>>

\* WCAImplBase alone looks at the flag.
MinimalMonitor ==
    /\ dev[1] = "WCA"
    /\ minimal' = ~minimal
    /\ UNCHANGED <<on, standby, cached, registry, nextMon>>

(***************************************************************************)
(* The monitor thread.                                                     *)
(***************************************************************************)
\* monitorAction is entered here: before an entry of the registry, or before
\* the first point of a phase.
Entered ==
    /\ serving = NoEntry
    /\ \/ at = 0
       \/ \E k \in DOMAIN PhasesOf(dev[1]) :
              at = 1 + Len(FlattenSeq(SubSeq(PhasesOf(dev[1]), 1, k - 1)))

MinimalPass(ok) ==
    /\ minimal /\ Entered
    /\ ok \/ probe \in WCAMinimal
    /\ cached' = (cached \ WCAMinimal) \cup
           {p \in WCAMinimal : TRUE \in Returned(dev, p, ok \/ p # probe)}
    /\ UNCHANGED <<dev, probe, host, registry, nextMon, at, serving, reading>>

\* Mutant: does not go back to the first entry.
FetchOnce ==
    /\ serving = NoEntry /\ ~(minimal /\ Entered)
    /\ IF at = 0 /\ nextMon > Len(registry)
       THEN at' = 1 /\ UNCHANGED <<nextMon, serving>>
       ELSE /\ serving' = IF at = 0 THEN EntryOf(registry[nextMon])
                          ELSE Permanent(Digital[dev[1]][at])
            /\ UNCHANGED <<nextMon, at>>
    /\ UNCHANGED <<dev, probe, host, cached, registry, reading>>

\* executeNextMon takes an entry, or comes to the end of the registry.
Fetch ==
    /\ serving = NoEntry /\ ~(minimal /\ Entered)
    /\ IF at = 0 /\ nextMon > Len(registry)
       THEN nextMon' = 1 /\ at' = 1 /\ UNCHANGED serving
       ELSE /\ serving' = IF at = 0 THEN EntryOf(registry[nextMon])
                          ELSE Permanent(Digital[dev[1]][at])
            /\ UNCHANGED <<nextMon, at>>
    /\ UNCHANGED <<dev, probe, host, cached, registry, reading>>

\* (this ->* pf)(): a bus transaction.  Bound: only the probe's ever fail.
Read(ok) ==
    /\ serving # NoEntry /\ reading = <<>>
    /\ ok \/ (serving.point = probe /\ ~Absent(dev, probe) /\ ~Shut(dev, probe))
    /\ \E v \in Returned(dev, serving.point, ok) : reading' = <<v, ok>>
    /\ UNCHANGED <<dev, probe, host, cached, registry, nextMon, at, serving>>

\* Mutant: moves on, and then erases.
AdvanceFirst ==
    IF serving.temp
    THEN registry' = RemoveAt(registry, nextMon + 1) /\ UNCHANGED nextMon
    ELSE nextMon' = nextMon + 1 /\ UNCHANGED registry

\* The iterator has moved if addMon was called in between.
Advance ==
    IF serving.temp
    THEN registry' = RemoveAt(registry, nextMon) /\ UNCHANGED nextMon
    ELSE nextMon' = nextMon + 1 /\ UNCHANGED registry

\* Mutant: the next point gets the value of this one.
StoreKeepsReading ==
    /\ reading # <<>>
    /\ cached' = WithValue(serving.point, reading[1])
    /\ IF at = 0
       THEN Advance /\ UNCHANGED at
       ELSE /\ at' = (at + 1) % (Len(Digital[dev[1]]) + 1)
            /\ UNCHANGED <<registry, nextMon>>
    /\ serving' = NoEntry /\ UNCHANGED reading
    /\ UNCHANGED <<dev, probe, host>>

Store ==
    /\ reading # <<>>
    /\ cached' = WithValue(serving.point, reading[1])
    /\ IF at = 0
       THEN Advance /\ UNCHANGED at
       ELSE /\ at' = (at + 1) % (Len(Digital[dev[1]]) + 1)
            /\ UNCHANGED <<registry, nextMon>>
    /\ serving' = NoEntry /\ reading' = <<>>
    /\ UNCHANGED <<dev, probe, host>>

Monitor ==
    \/ Fetch
    \/ Store
    \/ \E ok \in BOOLEAN : Read(ok) \/ MinimalPass(ok)

\* The thread stays where it is.
Changes ==
    /\ UNCHANGED <<dev, probe, at, serving, reading>>
    /\ \/ \E p \in Moving : \/ \E v, ok \in BOOLEAN : Command(p, v, ok)
                            \/ DeviceChanges(p)
       \/ MinimalMonitor
       \/ Standby2

DeviceNext ==
    \/ Monitor
    \/ Changes
    \/ \E ok \in BOOLEAN : HostReads(ok)

\* The monitor thread runs as long as its device is not stopped or paused.
DeviceSpec == DeviceInit /\ [][DeviceNext]_deviceVars /\ WF_deviceVars(Monitor)

(***************************************************************************)
(* Properties.                                                             *)
(***************************************************************************)
\* What is moved is moved nowhere else: no other point of the front end has
\* the register that a command or the hardware changed, and the program takes
\* the value for no other point, whatever it reads and however often it
\* overtakes itself.
OwnValueShows ==
    /\ \A r \in on : PointsAt[r] \subseteq {<<dev, p>> : p \in Moving}
    /\ cached \subseteq Moving

\* The points that are monitored for good stay in the registry, in their
\* order, whatever is pushed in front of them while the thread is between
\* fetching an entry and moving on from it.
PermanentsStay ==
    registry = [k \in 1..Temps |-> Temporary] \o Numbers[dev[1]]

\* What the program should have of the probe, and the registry should be: what
\* has a test shows the register its test uses, whatever the program says its
\* cartridge has.
Settled ==
    /\ Temps = 0
    /\ probe \in Scheduled[dev[1]] =>
         \/ Shut(dev, probe) /\ KeptWhenShut(dev, probe)
         \/ (probe \in cached) =
                (/\ probe \in Tested[dev] \/ ~Absent(dev, probe)
                 /\ ~Shut(dev, probe) /\ Hardware[<<dev, probe>>] \in on)

ReadFails == reading # <<>> /\ ~reading[2]

\* Once nothing moves, readings do not fail for ever, and the device is not
\* monitored minimally for ever, the program has the value of every point
\* that it monitors, and the temporary entries are gone.
CatchesUp ==
    \/ []<><<Changes>>_deviceVars
    \/ []<>ReadFails
    \/ []<>minimal
    \/ <>[]Settled

=============================================================================
