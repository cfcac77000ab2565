------------------------------ MODULE Cryostat ------------------------------
(* CryostatPumping, the worker that waits until a cryostat is cold and then *)
(* closes its valves and stops its pumps, with the parts of CryostatImpl it *)
(* stands on.  It runs beside the host, which may start it again, stop it   *)
(* and work the pumps and valves by hand, and beside the monitor thread,    *)
(* whose last readings of the temperatures it goes by.  A transaction that  *)
(* fails reads as zero: no pump, a closed valve, a temperature far below    *)
(* the target.  Time is counted in cycles of cycleTimeSec.                  *)
EXTENDS Naturals

CONSTANTS Workers,    \* bound: worker threads, one for each start
          Timeout     \* timeoutSec in cycles

ASSUME CryostatAssumption == Timeout \in Nat

VARIABLES
  pc,           \* worker -> where it is in optimizeThread and optimizeAction
  doStop,       \* worker -> doStopBackingPump
  enable,       \* enable_m
  elapsed,      \* elapsedSec_m
  finished,     \* finished_m of OptimizeBase
  backing, turbo,       \* the pumps run
  gate, solenoid,       \* the valves, open unless shown closed
  belowTargets,         \* the last readings of both stages are below their targets
  seenPump,             \* backingPumpEnable_value
  trust         \* since the start nothing failed and no hand interfered

worker  == <<pc, doStop>>
process == <<enable, elapsed, finished>>
plant   == <<backing, turbo, gate, solenoid>>
seen    == <<belowTargets, seenPump>>
vars    == <<worker, process, plant, seen, trust>>

PCs == {"new", "top", "cycle", "closeGate", "awaitGate", "testGate",
        "closeSolenoid", "awaitSolenoid", "testAgain", "stopTurbo", "stopBacking",
        "finish", "check", "ended"}

Alive == {w \in Workers : pc[w] \notin {"new", "ended"}}

Valve == {"open", "closing", "closed"}
Close(valve) == IF valve = "open" THEN "closing" ELSE valve
Sent(valve, open) == IF open THEN "open" ELSE Close(valve)

TypeOK ==
  /\ pc \in [Workers -> PCs] /\ doStop \in [Workers -> BOOLEAN]
  /\ enable \in BOOLEAN /\ elapsed \in Nat /\ finished \in BOOLEAN
  /\ backing \in BOOLEAN /\ turbo \in BOOLEAN /\ gate \in Valve /\ solenoid \in Valve
  /\ belowTargets \in BOOLEAN /\ seenPump \in BOOLEAN
  /\ trust \in BOOLEAN

Init ==
  /\ pc = [w \in Workers |-> "new"] /\ doStop = [w \in Workers |-> TRUE]
  /\ enable = FALSE /\ elapsed = 0 /\ finished = FALSE
  /\ backing = FALSE /\ turbo = FALSE
  /\ gate = "closed" /\ solenoid = "closed"
  /\ belowTargets = TRUE /\ seenPump = FALSE
  /\ trust = TRUE

-----------------------------------------------------------------------------
(* The host.                                                                *)

\* cryoPumpingEnable(true) asks for the backing pump first, and does not ask
\* whether a worker is running.
StartPumping ==
  /\ backing
  /\ \E w \in Workers : pc[w] = "new" /\ pc' = [pc EXCEPT ![w] = "top"]
  /\ enable' = TRUE /\ elapsed' = 0 /\ finished' = FALSE
  /\ trust' = (trust \/ Alive = {})
  /\ UNCHANGED <<doStop, plant, seen>>

StopPumping ==
  /\ \E w \in Workers : pc[w] # "new"
  /\ enable /\ enable' = FALSE
  /\ UNCHANGED <<worker, elapsed, finished, plant, seen, trust>>

\* The pumps and valves worked by hand.
ByHand ==
  /\ \E on \in BOOLEAN :
        \/ backing' = on /\ UNCHANGED <<turbo, gate, solenoid>>
        \/ turbo' = on /\ UNCHANGED <<backing, gate, solenoid>>
        \/ gate' = Sent(gate, on) /\ UNCHANGED <<backing, turbo, solenoid>>
        \/ solenoid' = Sent(solenoid, on) /\ UNCHANGED <<backing, turbo, gate>>
  /\ plant' # plant
  /\ trust' = (trust /\ Alive = {})
  /\ UNCHANGED <<worker, process, seen>>

Host == StartPumping \/ StopPumping \/ ByHand

-----------------------------------------------------------------------------
(* The cryostat and its monitor thread.                                     *)

GateMoves ==
  /\ gate = "closing" /\ gate' = "closed"
  /\ UNCHANGED <<worker, process, backing, turbo, solenoid, seen, trust>>

SolenoidMoves ==
  /\ solenoid = "closing" /\ solenoid' = "closed"
  /\ UNCHANGED <<worker, process, backing, turbo, gate, seen, trust>>

\* A temperature not read yet, failed or senseless counts as -1, which is
\* below every target.
ReadTemperatures ==
  /\ belowTargets' = ~belowTargets
  /\ UNCHANGED <<worker, process, plant, seenPump, trust>>

ReadPump(fails) ==
  /\ seenPump' = (backing /\ ~fails)
  /\ seenPump' # seenPump
  /\ UNCHANGED <<worker, process, plant, belowTargets, trust>>

-----------------------------------------------------------------------------
(* The worker.                                                              *)

Goto(w, label) == pc' = [pc EXCEPT ![w] = label]
Step(w, from, to) == pc[w] = from /\ Goto(w, to)

\* (mutant) A cryostat that stays warm is waited for without end.
StayWarmForEver(w) ==
  /\ enable /\ ~belowTargets /\ Step(w, "top", "cycle")
  /\ UNCHANGED <<doStop, process, plant, seen, trust>>

Stopped(w) ==
  /\ ~enable /\ Step(w, "top", "finish")
  /\ UNCHANGED <<doStop, process, plant, seen, trust>>

StayWarm(w) ==
  /\ enable /\ ~belowTargets
  /\ Step(w, "top", IF elapsed > Timeout THEN "finish" ELSE "cycle")
  /\ UNCHANGED <<doStop, process, plant, seen, trust>>

ReachTarget(w) ==
  /\ enable /\ belowTargets /\ Step(w, "top", "closeGate")
  /\ doStop' = [doStop EXCEPT ![w] = TRUE]
  /\ UNCHANGED <<process, plant, seen, trust>>

\* A stop ends the cycle; all workers count in elapsedSec_m.
Cycle(w) ==
  /\ Step(w, "cycle", "check")
  /\ elapsed' = IF enable THEN elapsed + 1 ELSE elapsed
  /\ UNCHANGED <<doStop, enable, finished, plant, seen, trust>>

\* A command, unless it is lost.
CloseGate(w, fails) ==
  /\ Step(w, "closeGate", "awaitGate")
  /\ gate' = IF fails THEN gate ELSE Close(gate)
  /\ UNCHANGED <<doStop, process, backing, turbo, solenoid, seen>>

\* gateValveState: a failure reads as closed.
GateReads(closed, fails) == closed = (gate = "closed" \/ fails)

\* The retries are not counted: the loop ends when the valve reads closed.
AwaitGate(w, fails) ==
  /\ Step(w, "awaitGate", "testGate") /\ GateReads(TRUE, fails)
  /\ UNCHANGED <<doStop, process, plant, seen>>

\* An open gate keeps the backing pump running.
TestGate(w, fails) ==
  /\ Step(w, "testGate", "closeSolenoid")
  /\ \E closed \in BOOLEAN : GateReads(closed, fails) /\ doStop' = [doStop EXCEPT ![w] = closed]
  /\ UNCHANGED <<process, plant, seen>>

CloseSolenoid(w, fails) ==
  /\ Step(w, "closeSolenoid", "awaitSolenoid")
  /\ solenoid' = IF fails THEN solenoid ELSE Close(solenoid)
  /\ UNCHANGED <<doStop, process, backing, turbo, gate, seen>>

\* (mutant) The gate valve is awaited again.
AwaitSolenoidGate(w, fails) ==
  /\ Step(w, "awaitSolenoid", "testAgain") /\ GateReads(TRUE, fails)
  /\ UNCHANGED <<doStop, process, plant, seen>>

\* solenoidValveState answers with what it remembers while the backing pump
\* was last seen off, which counts as a failure here.
AwaitSolenoid(w, fails) ==
  /\ Step(w, "awaitSolenoid", "testAgain")
  /\ fails \/ (seenPump /\ solenoid = "closed")
  /\ UNCHANGED <<doStop, process, plant, seen>>

\* Where the solenoid valve should be tested the gate valve is.
TestAgain(w, fails) ==
  /\ \E closed \in BOOLEAN :
        GateReads(closed, fails) /\ Step(w, "testAgain", IF closed THEN "stopTurbo" ELSE "finish")
  /\ UNCHANGED <<doStop, process, plant, seen>>

StopTurbo(w, fails) ==
  /\ Step(w, "stopTurbo", "stopBacking")
  /\ turbo' = (turbo /\ fails)
  /\ UNCHANGED <<doStop, process, backing, gate, solenoid, seen>>

StopBacking(w, fails) ==
  /\ Step(w, "stopBacking", "finish")
  /\ backing' = (backing /\ (fails \/ ~doStop[w]))
  /\ UNCHANGED <<doStop, process, turbo, gate, solenoid, seen>>

SetFinished(w) ==
  /\ Step(w, "finish", "check")
  /\ finished' = TRUE
  /\ doStop' = [doStop EXCEPT ![w] = TRUE]
  /\ UNCHANGED <<enable, elapsed, plant, seen, trust>>

\* (mutant) An end is only heard of by a worker that is stopped.
TestFinishedAndStopped(w) ==
  /\ Step(w, "check", IF finished /\ ~enable THEN "ended" ELSE "top")
  /\ UNCHANGED <<doStop, process, plant, seen, trust>>

\* finished_m is that of the object: any worker's end ends them all.
TestFinished(w) ==
  /\ Step(w, "check", IF finished THEN "ended" ELSE "top")
  /\ UNCHANGED <<doStop, process, plant, seen, trust>>

Transact(w, fails) ==
  /\ \/ CloseGate(w, fails) \/ AwaitGate(w, fails) \/ TestGate(w, fails)
     \/ CloseSolenoid(w, fails) \/ AwaitSolenoid(w, fails) \/ TestAgain(w, fails)
     \/ StopTurbo(w, fails) \/ StopBacking(w, fails)
  /\ trust' = (trust /\ ~fails)

OptimizeThread(w) ==
  \/ Stopped(w) \/ StayWarm(w) \/ ReachTarget(w) \/ Cycle(w)
  \/ SetFinished(w) \/ TestFinished(w)

Next ==
  \/ Host \/ GateMoves \/ SolenoidMoves \/ ReadTemperatures
  \/ \E fails \in BOOLEAN : ReadPump(fails)
  \/ \E w \in Workers : OptimizeThread(w)
  \/ \E w \in Workers, fails \in BOOLEAN : Transact(w, fails)

\* The worker and the valves go on.  No transaction has to fail.
Fairness ==
  /\ \A w \in Workers : WF_vars(OptimizeThread(w) \/ Transact(w, FALSE))
  /\ WF_vars(GateMoves) /\ WF_vars(SolenoidMoves)

Spec == Init /\ [][Next]_vars /\ Fairness

-----------------------------------------------------------------------------
(* Properties.                                                              *)

\* As long as no transaction fails, no remembered reading is used and nobody
\* works a pump or a valve by hand, the turbo pump is stopped only behind two
\* closed valves and the backing pump only behind a stopped turbo pump,
\* also when two workers close the cryostat down together.
PumpsStopInOrder ==
  trust =>
     /\ \A w \in Alive : pc[w] = "stopBacking" =>
           gate = "closed" /\ solenoid = "closed" /\ ~turbo
     /\ Alive # {} /\ ~backing => gate = "closed" /\ solenoid = "closed" /\ ~turbo

\* Pumping that nobody interferes with ends, however many workers share it
\* and although the retries for a valve are never counted: the cryostat is
\* closed down, or the host stops it, or it gives up after its timeout.
PumpingEnds == Alive # {} ~> Alive = {} \/ ~trust \/ ~seenPump

\* "int retries = 20" and "ERROR: Gate valve did not close" say that the wait
\* for the gate valve ends.
RetriesEnd == \A w \in Workers : pc[w] = "awaitGate" ~> pc[w] # "awaitGate"

=============================================================================
