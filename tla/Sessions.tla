------------------------------ MODULE Sessions ------------------------------
(* The life of the library behind its exported calls.  Four modules (front  *)
(* end, laser reference LORTM, signal source, compressor) are initialized   *)
(* and shut down by any number of clients, each counted; each holds one     *)
(* device object, and all share the bus, the logger and the event queue     *)
(* that LVWrapperInit creates for the first and LVWrapperShutdown destroys  *)
(* with the last.  The front end can bring the compressor up with it.       *)
(* The counts are raised before anything can fail and are not lowered when  *)
(* it does, so a failed initialization is a session too: its client is      *)
(* taken to shut down what it tried to start, once for each attempt.        *)
(* A method called through a NULL pointer ends the process, and the library *)
(* starts anew with the program that loads it next.                         *)
EXTENDS Calls, FiniteSets

CONSTANTS Callers,      \* threads of the host inside the library
          MaxSessions,  \* bound: sessions a module's clients hold at once
          MaxConnected, \* bound: value of connectedModules
          Carts,        \* port -> halves of the cartridge the ini file names
          Subsystems    \* the subsystems the ini file names

Modules == {"FE", "LORTM", "SigSrc", "Compressor"}
Ports   == DOMAIN Carts
Source  == -1           \* the port number of the signal source
Objects == {"none", "idle", "monitoring"}

ASSUME SessionsAssumption ==
  /\ MaxSessions \in [Modules -> Nat] /\ MaxConnected \in Nat
  /\ Source \notin Ports
  /\ \A p \in Ports : Carts[p] \subseteq {"WCA", "CCA"}

VARIABLES
  connectedModules,      \* callers of LVWrapperInit
  LVWrapperValid,
  bus,                   \* canBus, AmbInterface, logger and event queue exist
  clients,               \* module -> connectedXClients
  valid,                 \* module -> XValid
  object,                \* module -> its device object
  abandoned,             \* modules with a monitoring object nothing points to
  startCompressorModule, \* the option as FEControlInit last read it
  equipped,              \* the front end's subsystems were created
  sourceCart,            \* the signal source has its assembly
  on,                    \* ports enabled
  call,                  \* caller -> the call it is in
  owed,                  \* module -> sessions not shut down yet
  served,                \* module -> those of them that left the module valid
  clean                  \* no initialization has failed or found nothing

wrapper == <<connectedModules, LVWrapperValid, bus>>
fitted  == <<equipped, sourceCart, on>>
ledger  == <<owed, served, clean>>
sessionsVars ==
  <<wrapper, clients, valid, object, abandoned, startCompressorModule, fitted,
    call, ledger>>

PCs  == {"idle", "enter", "build", "install", "create", "compressor", "load"}
CallType == [pc : PCs, module : Modules, ret : BOOLEAN, nested : BOOLEAN]
Idle == [pc |-> "idle", module |-> "FE", ret |-> TRUE, nested |-> FALSE]

SessionsTypeOK ==
  /\ connectedModules \in 0..MaxConnected + 1 /\ LVWrapperValid \in BOOLEAN /\ bus \in BOOLEAN
  /\ clients \in [Modules -> Int] /\ valid \in [Modules -> BOOLEAN]
  /\ object \in [Modules -> Objects] /\ abandoned \subseteq Modules
  /\ startCompressorModule \in BOOLEAN /\ equipped \in BOOLEAN /\ sourceCart \in BOOLEAN
  /\ on \subseteq (IF equipped THEN Ports ELSE {}) \cup (IF sourceCart THEN {Source} ELSE {})
  /\ call \in [Callers -> CallType]
  /\ owed \in [Modules -> Nat] /\ clean \in BOOLEAN
  /\ served \in [Modules -> Nat] /\ \A m \in Modules : served[m] <= owed[m]

\* The names of the ini files are taken to be known.  A library that has not
\* read them yet differs only in this: FELoadConfiguration and
\* sigSrcLoadConfiguration fail and change nothing.
SessionsInit ==
  /\ connectedModules = 0 /\ LVWrapperValid = FALSE /\ bus = FALSE
  /\ clients = [m \in Modules |-> 0] /\ valid = [m \in Modules |-> FALSE]
  /\ object = [m \in Modules |-> "none"] /\ abandoned = {}
  /\ startCompressorModule = FALSE
  /\ equipped = FALSE /\ sourceCart = FALSE /\ on = {}
  /\ call = [c \in Callers |-> Idle]
  /\ owed = [m \in Modules |-> 0] /\ served = [m \in Modules |-> 0] /\ clean = TRUE

-----------------------------------------------------------------------------
Goto(c, pc) == call' = [call EXCEPT ![c].pc = pc]
At(c, pc)   == call[c].pc = pc

\* The object a module makes replaces the pointer to the one it had.
NewObject(m, kind) ==
  /\ object' = [object EXCEPT ![m] = kind]
  /\ abandoned' = IF object[m] = "monitoring" THEN abandoned \cup {m} ELSE abandoned

\* The ini file names the node of a new object; when it names none the call
\* goes on with the object of an earlier attempt.
Obtain(m) ==
  \/ NewObject(m, "idle")
  \/ object[m] # "none" /\ UNCHANGED <<object, abandoned>>

\* A method was called through a NULL pointer: the process ends.
ProcessEnds ==
  /\ connectedModules' = 0 /\ LVWrapperValid' = FALSE /\ bus' = FALSE
  /\ clients' = [m \in Modules |-> 0] /\ valid' = [m \in Modules |-> FALSE]
  /\ object' = [m \in Modules |-> "none"] /\ abandoned' = {}
  /\ startCompressorModule' = FALSE
  /\ equipped' = FALSE /\ sourceCart' = FALSE /\ on' = {}
  /\ call' = [c \in Callers |-> Idle]
  /\ owed' = [m \in Modules |-> 0] /\ served' = [m \in Modules |-> 0] /\ clean' = TRUE

\* The initialization of m by c returns: an error, or a module that is valid.
\* FEControlInit goes on after the compressor whatever became of it.
Fail(c) ==
  /\ IF call[c].nested
     THEN call' = [call EXCEPT ![c].pc = "load", ![c].module = "FE", ![c].nested = FALSE]
     ELSE call' = [call EXCEPT ![c] = Idle]
  /\ clean' = FALSE
  /\ UNCHANGED <<owed, served>>

Succeed(c) ==
  /\ IF call[c].nested
     THEN /\ call' = [call EXCEPT ![c].pc = "load", ![c].module = "FE", ![c].nested = FALSE]
          /\ UNCHANGED served
     ELSE /\ call' = [call EXCEPT ![c] = Idle]
          /\ served' = [served EXCEPT ![call[c].module] = @ + 1]
  /\ UNCHANGED <<owed, clean>>

\* (mutant) A client that finds the module up is not counted.
BeginInitUncounted(c, m) ==
  /\ At(c, "idle") /\ owed[m] < MaxSessions[m] /\ connectedModules < MaxConnected
  /\ owed' = [owed EXCEPT ![m] = @ + 1]
  /\ IF object[m] # "none" /\ valid[m]
     THEN /\ served' = [served EXCEPT ![m] = @ + 1]
          /\ UNCHANGED <<call, clients>>
     ELSE /\ call' = [call EXCEPT ![c] = [Idle EXCEPT !.pc = "enter", !.module = m]]
          /\ clients' = [clients EXCEPT ![m] = @ + 1]
          /\ UNCHANGED served
  /\ UNCHANGED <<wrapper, valid, object, abandoned, startCompressorModule, fitted, clean>>

\* XControlInit: the client is counted; a module that is up is shared.
BeginInit(c, m) ==
  /\ At(c, "idle") /\ owed[m] < MaxSessions[m] /\ connectedModules < MaxConnected
  /\ clients' = [clients EXCEPT ![m] = @ + 1]
  /\ owed' = [owed EXCEPT ![m] = @ + 1]
  /\ IF object[m] # "none" /\ valid[m]
     THEN /\ served' = [served EXCEPT ![m] = @ + 1]
          /\ UNCHANGED call
     ELSE /\ call' = [call EXCEPT ![c] = [Idle EXCEPT !.pc = "enter", !.module = m]]
          /\ UNCHANGED served
  /\ UNCHANGED <<wrapper, valid, object, abandoned, startCompressorModule, fitted, clean>>

\* (mutant) Only the caller that builds the shared objects is counted.
EnterWrapperUncounted(c) ==
  /\ At(c, "enter")
  /\ connectedModules' = IF LVWrapperValid THEN connectedModules ELSE connectedModules + 1
  /\ Goto(c, IF LVWrapperValid THEN "create" ELSE "build")
  /\ UNCHANGED <<LVWrapperValid, bus, clients, valid, object, abandoned,
                 startCompressorModule, fitted, ledger>>

\* LVWrapperInit counts its caller and looks, under the lock, whether the
\* shared objects are there.
EnterWrapper(c) ==
  /\ At(c, "enter")
  /\ connectedModules' = connectedModules + 1
  /\ Goto(c, IF LVWrapperValid THEN "create" ELSE "build")
  /\ UNCHANGED <<LVWrapperValid, bus, clients, valid, object, abandoned,
                 startCompressorModule, fitted, ledger>>

\* The ini file cannot be read.
WrapperFails(c) ==
  /\ At(c, "build")
  /\ Fail(c)
  /\ UNCHANGED <<wrapper, clients, valid, object, abandoned, startCompressorModule, fitted>>

\* The old bus is deleted, ...
DropBus(c) ==
  /\ At(c, "build")
  /\ bus' = FALSE
  /\ Goto(c, "install")
  /\ UNCHANGED <<connectedModules, LVWrapperValid, clients, valid, object, abandoned,
                 startCompressorModule, fitted, ledger>>

\* ... a new one is made, and the library is marked as initialized.
InstallBus(c) ==
  /\ At(c, "install")
  /\ bus' = TRUE /\ LVWrapperValid' = TRUE
  /\ Goto(c, "create")
  /\ UNCHANGED <<connectedModules, clients, valid, object, abandoned,
                 startCompressorModule, fitted, ledger>>

\* The module's part of the ini file cannot be read, or names no node; only
\* FEControlInit goes on without a node.
ConfigFails(c) ==
  /\ At(c, "create")
  /\ Fail(c)
  /\ UNCHANGED <<wrapper, clients, valid, object, abandoned, startCompressorModule, fitted>>

\* It does so though it has no object of an earlier attempt either, and so
\* does sigSrcControlInit when CAN_noTransmit is set.
NoNode(c) ==
  /\ At(c, "create") /\ call[c].module \in {"FE", "SigSrc"}
  /\ object[call[c].module] = "none"
  /\ ProcessEnds

CreateLORTM(c) ==
  /\ At(c, "create") /\ call[c].module = "LORTM"
  /\ NewObject("LORTM", "monitoring")
  /\ valid' = [valid EXCEPT !["LORTM"] = TRUE]
  /\ Succeed(c)
  /\ UNCHANGED <<wrapper, clients, startCompressorModule, fitted>>

CreateCompressor(c) ==
  /\ At(c, "create") /\ call[c].module = "Compressor"
  /\ NewObject("Compressor", "monitoring")
  /\ valid' = [valid EXCEPT !["Compressor"] = TRUE]
  /\ Succeed(c)
  /\ UNCHANGED <<wrapper, clients, startCompressorModule, fitted>>

-----------------------------------------------------------------------------
(* FEControlInit: the object, then the compressor if the ini file wants it, *)
(* then the configuration and what it names.                                *)

CreateFrontEnd(c, connected, wanted) ==
  /\ At(c, "create") /\ call[c].module = "FE"
  /\ Obtain("FE")
  /\ startCompressorModule' = wanted
  /\ call' = [call EXCEPT ![c].ret = connected,
                          ![c].pc = IF wanted THEN "compressor" ELSE "load"]
  /\ UNCHANGED <<wrapper, clients, valid, fitted, ledger>>

\* CompressorControlInit called by FEControlInit.
BeginCompressor(c) ==
  /\ At(c, "compressor")
  /\ clients' = [clients EXCEPT !["Compressor"] = @ + 1]
  /\ call' = IF object["Compressor"] # "none" /\ valid["Compressor"]
             THEN [call EXCEPT ![c].pc = "load"]
             ELSE [call EXCEPT ![c].pc = "enter", ![c].module = "Compressor",
                               ![c].nested = TRUE]
  /\ UNCHANGED <<wrapper, valid, object, abandoned, startCompressorModule, fitted, ledger>>

\* The configuration names a front end: its subsystems are made, every
\* monitor thread is started, and cartridges found powered are enabled.
LoadFrontEnd(c, found) ==
  /\ At(c, "load") /\ call[c].module = "FE" /\ call[c].ret
  /\ found \subseteq {p \in Ports : Carts[p] # {}}
  /\ valid' = [valid EXCEPT !["FE"] = TRUE]
  /\ object' = [object EXCEPT !["FE"] = "monitoring"]
  /\ equipped' = TRUE
  /\ on' = (on \cap {Source}) \cup found
  /\ Succeed(c)
  /\ UNCHANGED <<wrapper, clients, abandoned, startCompressorModule, sourceCart>>

\* The configuration names no front end: the call returns success and the
\* monitor thread runs, but the module is not marked valid.
LoadNothing(c) ==
  /\ At(c, "load") /\ call[c].module = "FE" /\ call[c].ret
  /\ object' = [object EXCEPT !["FE"] = "monitoring"]
  /\ Fail(c)
  /\ UNCHANGED <<wrapper, clients, valid, abandoned, startCompressorModule, fitted>>

\* There is no such configuration, or the front end did not answer.
LoadFails(c) ==
  /\ At(c, "load") /\ call[c].module = "FE"
  /\ Fail(c)
  /\ UNCHANGED <<wrapper, clients, valid, object, abandoned, startCompressorModule, fitted>>

\* FELoadConfiguration marks the front end valid whatever it is; without an
\* object it ends the process unless the configuration is empty.
\* Bound: neither is called while an initialization is under way.
ReloadFrontEnd ==
  /\ \A c \in Callers : At(c, "idle")
  /\ \/ /\ valid' = [valid EXCEPT !["FE"] = TRUE]
        /\ UNCHANGED <<wrapper, clients, object, abandoned, startCompressorModule, fitted,
                       call, ledger>>
     \/ object["FE"] = "none" /\ ProcessEnds

\* Every export of a front end that is valid without an object uses it.
UseNothing ==
  /\ valid["FE"] /\ object["FE"] = "none"
  /\ ProcessEnds

-----------------------------------------------------------------------------
(* sigSrcControlInit and the exports of the signal source that change it.   *)

CreateSource(c, connected) ==
  /\ At(c, "create") /\ call[c].module = "SigSrc"
  /\ Obtain("SigSrc")
  /\ IF connected THEN Goto(c, "load") /\ UNCHANGED ledger ELSE Fail(c)
  /\ UNCHANGED <<wrapper, clients, valid, startCompressorModule, fitted>>

\* (mutant) A port without a cartridge is enabled.
FitSourceUnchecked(powered) ==
  /\ valid' = [valid EXCEPT !["SigSrc"] = TRUE]
  /\ on' = IF powered THEN on \cup {Source} ELSE on
  /\ sourceCart' \in {TRUE, sourceCart}
  /\ UNCHANGED equipped

\* sigSrcLoadConfiguration: a configuration with a cartridge replaces the
\* assembly, one without leaves it; queryCartridgeState enables it if powered.
FitSource(powered) ==
  /\ valid' = [valid EXCEPT !["SigSrc"] = TRUE]
  /\ \/ /\ sourceCart' = TRUE
        /\ on' = IF powered THEN on \cup {Source} ELSE on \ {Source}
     \/ /\ powered => sourceCart
        /\ on' = IF powered THEN on \cup {Source} ELSE on
        /\ UNCHANGED sourceCart
  /\ UNCHANGED equipped

LoadSource(c, powered) ==
  /\ At(c, "load") /\ call[c].module = "SigSrc"
  /\ FitSource(powered)
  /\ Succeed(c)
  /\ UNCHANGED <<wrapper, clients, object, abandoned, startCompressorModule>>

SourceLoadFails(c) ==
  /\ At(c, "load") /\ call[c].module = "SigSrc"
  /\ Fail(c)
  /\ UNCHANGED <<wrapper, clients, valid, object, abandoned, startCompressorModule, fitted>>

\* Without an object every configuration that can be read ends the process.
ReloadSource(powered) ==
  /\ \A c \in Callers : At(c, "idle")
  /\ IF object["SigSrc"] = "none" THEN ProcessEnds
     ELSE /\ FitSource(powered)
          /\ UNCHANGED <<wrapper, clients, object, abandoned, startCompressorModule, call, ledger>>

\* sigSrcEnableMonitoring(1) starts the monitor threads and queries the
\* state of the assembly; stopping stops only the assembly's thread.
MonitorSource(powered) ==
  /\ valid["SigSrc"]
  /\ object' = [object EXCEPT !["SigSrc"] = "monitoring"]
  /\ powered => sourceCart
  /\ on' = IF powered THEN on \cup {Source} ELSE on
  /\ UNCHANGED <<wrapper, clients, valid, abandoned, startCompressorModule,
                 equipped, sourceCart, call, ledger>>

CartAt(p) ==
  CASE p = Source -> IF sourceCart THEN {"WCA"} ELSE {}
    [] OTHER      -> IF equipped THEN Carts[p] ELSE {}

ModuleOf(p) == IF p = Source THEN "SigSrc" ELSE "FE"

\* FESetCartridgeOn and FESetCartridgeOff, which for a negative port are the
\* signal source's.
SetCartridge(p, enable) ==
  /\ valid[ModuleOf(p)] /\ CartAt(p) # {}
  /\ on' = IF enable THEN on \cup {p} ELSE on \ {p}
  /\ on' # on
  /\ UNCHANGED <<wrapper, clients, valid, object, abandoned, startCompressorModule,
                 equipped, sourceCart, call, ledger>>

-----------------------------------------------------------------------------
(* Shutting down.                                                           *)

\* LVWrapperShutdown, on the record w of the shared objects.
Released(w) ==
  IF ~w.valid THEN w
  ELSE [connected |-> w.connected - 1,
        valid |-> w.connected > 1, bus |-> w.connected > 1 /\ w.bus]

SetWrapper(w) ==
  /\ connectedModules' = w.connected /\ LVWrapperValid' = w.valid /\ bus' = w.bus

Wrapper == [connected |-> connectedModules, valid |-> LVWrapperValid, bus |-> bus]

\* The session that ends is one that was served or one that was not.
EndSession(m) ==
  /\ \A c \in Callers : At(c, "idle")
  /\ owed[m] > 0
  /\ owed' = [owed EXCEPT ![m] = @ - 1]
  /\ \E s \in {served[m], served[m] - 1} :
        s \in 0..owed'[m] /\ served' = [served EXCEPT ![m] = s]
  /\ UNCHANGED <<clean, call, abandoned, startCompressorModule>>

\* LORTMControlShutdown, CompressorControlShutdown: nothing is undone when
\* the module is not valid.
ShutdownPlain(m) ==
  /\ m \in {"LORTM", "Compressor"}
  /\ EndSession(m)
  /\ IF ~valid[m] THEN UNCHANGED <<wrapper, clients, valid, object>>
     ELSE /\ clients' = [clients EXCEPT ![m] = @ - 1]
          /\ IF clients[m] > 1 THEN UNCHANGED <<wrapper, valid, object>>
             ELSE /\ valid' = [valid EXCEPT ![m] = FALSE]
                  /\ object' = [object EXCEPT ![m] = "none"]
                  /\ SetWrapper(Released(Wrapper))
  /\ UNCHANGED fitted

\* sigSrcControlShutdown
ShutdownSource ==
  /\ EndSession("SigSrc")
  /\ clients' = [clients EXCEPT !["SigSrc"] = @ - 1]
  /\ IF clients["SigSrc"] > 1 THEN UNCHANGED <<wrapper, valid, object, fitted>>
     ELSE /\ valid' = [valid EXCEPT !["SigSrc"] = FALSE]
          /\ object' = [object EXCEPT !["SigSrc"] = "none"]
          /\ sourceCart' = FALSE /\ on' = on \ {Source} /\ UNCHANGED equipped
          /\ SetWrapper(Released(Wrapper))

\* (mutant) The compressor is taken for one that others started.
CompressorStays == FALSE

\* FEControlShutdown shuts the compressor down whenever the option is set.
CompressorGoes == startCompressorModule /\ valid["Compressor"]

\* FEControlShutdown
ShutdownFrontEnd ==
  LET gone == CompressorGoes
      last == gone /\ clients["Compressor"] <= 1
      down == IF last THEN {"FE", "Compressor"} ELSE {"FE"}
  IN  /\ EndSession("FE")
      /\ IF clients["FE"] > 1
         THEN /\ clients' = [clients EXCEPT !["FE"] = @ - 1]
              /\ UNCHANGED <<wrapper, valid, object, fitted>>
         ELSE /\ clients' = [clients EXCEPT !["FE"] = @ - 1,
                                            !["Compressor"] = IF gone THEN @ - 1 ELSE @]
              /\ valid' = [m \in Modules |-> m \notin down /\ valid[m]]
              /\ object' = [m \in Modules |-> IF m \in down THEN "none" ELSE object[m]]
              /\ equipped' = FALSE /\ on' = on \cap {Source} /\ UNCHANGED sourceCart
              /\ SetWrapper(Released(IF last THEN Released(Wrapper) ELSE Wrapper))

-----------------------------------------------------------------------------
Initialize(c) ==
  \/ \E m \in Modules : BeginInit(c, m)
  \/ EnterWrapper(c) \/ WrapperFails(c) \/ DropBus(c) \/ InstallBus(c)
  \/ ConfigFails(c) \/ NoNode(c) \/ CreateLORTM(c) \/ CreateCompressor(c)
  \/ \E connected, wanted \in BOOLEAN : CreateFrontEnd(c, connected, wanted)
  \/ BeginCompressor(c)
  \/ \E found \in SUBSET Ports : LoadFrontEnd(c, found)
  \/ LoadNothing(c) \/ LoadFails(c)
  \/ \E connected \in BOOLEAN : CreateSource(c, connected)
  \/ \E powered \in BOOLEAN : LoadSource(c, powered)
  \/ SourceLoadFails(c)

Export ==
  \/ ReloadFrontEnd \/ UseNothing
  \/ \E powered \in BOOLEAN : ReloadSource(powered) \/ MonitorSource(powered)
  \/ \E p \in Ports \cup {Source}, enable \in BOOLEAN : SetCartridge(p, enable)

Shutdown ==
  \/ \E m \in Modules : ShutdownPlain(m)
  \/ ShutdownSource \/ ShutdownFrontEnd

SessionsNext == (\E c \in Callers : Initialize(c)) \/ Export \/ Shutdown

SessionsSpec == SessionsInit /\ [][SessionsNext]_sessionsVars

-----------------------------------------------------------------------------
(* Properties.                                                              *)

\* Every device object, and every monitor thread that outlived the pointer
\* to its object, has the bus it sends its requests to: the count that
\* LVWrapperShutdown lowers never falls below the objects that are left,
\* whatever initialization failed and in whatever order clients come and go.
LiveHaveBus ==
  \A m \in Modules : object[m] # "none" \/ m \in abandoned => bus

\* A client whose initialization left the module valid finds it valid until
\* it shuts it down itself, however often others fail to start it or stop.
\* Not so for the compressor once the front end starts it:
\* FEControlShutdown gives back a session that a failed FEControlInit never
\* took, and takes the compressor from its own clients.
SessionIsServed ==
  \A m \in Modules :
     /\ \A c \in Callers : At(c, "idle")
     /\ m = "Compressor" => clean
     /\ served[m] > 0
     => valid[m]

\* When every initialization succeeded and every session is shut down,
\* nothing is left: no object, no monitor thread, no bus, no count.
EverythingIsReleased ==
  /\ \A m \in Modules : owed[m] = 0
  /\ clean /\ \A c \in Callers : At(c, "idle")
  => /\ ~bus /\ ~LVWrapperValid /\ connectedModules = 0 /\ abandoned = {}
     /\ \A m \in Modules : object[m] = "none" /\ clients[m] = 0

\* What exists for a call of module m on port p.
Present(m, p) ==
  (IF object[m] # "none" THEN {"module"} ELSE {}) \cup
  (IF CartAt(p) # {} THEN {"cartridge"} \cup CartAt(p) ELSE {}) \cup
  (IF p \in on THEN {"enabled"} ELSE {}) \cup
  (IF m = "FE" /\ equipped THEN Subsystems ELSE {})

PortsOf(m) == IF m = "SigSrc" THEN {Source} ELSE Ports

\* A call that passes the test of its module and those of the method behind
\* it uses only objects that exist, in every state the sessions can reach;
\* the calls of Unguarded do not.  As FELoadConfiguration is one of them, a
\* front end can be marked valid when it has no object, but not while a client
\* has it open whose initialization succeeded.
CallsFindObjects ==
  \A m \in {n \in Modules : valid[n]} : \A p \in PortsOf(m) :
     \A k \in CallsOf(m) :
        /\ k.checks \subseteq Present(m, p)
        /\ m = "FE" => object["FE"] # "none" \/ served["FE"] > 0
        => k.uses \subseteq Present(m, p)

\* "true if we have connected to and configured the front end": a valid front
\* end has an object.  Not so after FELoadConfiguration with an empty
\* configuration, when no client has the front end open.
ValidIsConnected == valid["FE"] => object["FE"] # "none"

\* "true if all objects here were created and configured": while the library
\* is marked as initialized, the bus exists.
ValidIsCreated == LVWrapperValid => bus
=============================================================================
