--------------------------- MODULE CryostatProofs ---------------------------
(* For any number of workers and any timeout: the pumps are stopped in      *)
(* order (PumpsStopInOrder).  A worker that has come past a valve without a *)
(* failure has seen it closed, and while nobody works it by hand a closed   *)
(* valve stays closed and a stopped turbo pump stays stopped, whatever      *)
(* another worker does meanwhile.                                           *)
EXTENDS Cryostat, TLAPS

-----------------------------------------------------------------------------
(* Types.                                                                   *)

LEMMA Moved ==
    ASSUME TypeOK, NEW w \in Workers, NEW from \in PCs, NEW to \in PCs, Step(w, from, to)
    PROVE  pc' \in [Workers -> PCs]
  BY DEF TypeOK, Step, Goto

LEMMA Closing ==
    ASSUME NEW v \in Valve
    PROVE  Close(v) \in Valve /\ \A on \in BOOLEAN : Sent(v, on) \in Valve
  BY DEF Valve, Close, Sent

LEMMA TransactType ==
    ASSUME TypeOK, NEW w \in Workers, NEW fails \in BOOLEAN, Transact(w, fails)
    PROVE  TypeOK'
<1> USE DEF TypeOK
<1>1. trust' \in BOOLEAN
  BY DEF Transact
<1>2. CASE CloseGate(w, fails)
  <2>1. pc' \in [Workers -> PCs]
    BY <1>2, Moved DEF CloseGate, PCs
  <2>2. gate' \in Valve
    BY <1>2, Closing DEF CloseGate
  <2> QED BY <1>1, <1>2, <2>1, <2>2 DEF CloseGate, process, seen
<1>3. CASE AwaitGate(w, fails)
  <2>1. pc' \in [Workers -> PCs]
    BY <1>3, Moved DEF AwaitGate, PCs
  <2> QED BY <1>1, <1>3, <2>1 DEF AwaitGate, process, plant, seen
<1>4. CASE TestGate(w, fails)
  <2>1. pc' \in [Workers -> PCs]
    BY <1>4, Moved DEF TestGate, PCs
  <2>2. doStop' \in [Workers -> BOOLEAN]
    BY <1>4 DEF TestGate
  <2> QED BY <1>1, <1>4, <2>1, <2>2 DEF TestGate, process, plant, seen
<1>5. CASE CloseSolenoid(w, fails)
  <2>1. pc' \in [Workers -> PCs]
    BY <1>5, Moved DEF CloseSolenoid, PCs
  <2>2. solenoid' \in Valve
    BY <1>5, Closing DEF CloseSolenoid
  <2> QED BY <1>1, <1>5, <2>1, <2>2 DEF CloseSolenoid, process, seen
<1>6. CASE AwaitSolenoid(w, fails)
  <2>1. pc' \in [Workers -> PCs]
    BY <1>6, Moved DEF AwaitSolenoid, PCs
  <2> QED BY <1>1, <1>6, <2>1 DEF AwaitSolenoid, process, plant, seen
<1>7. CASE TestAgain(w, fails)
  <2>1. pc' \in [Workers -> PCs]
    BY <1>7, Moved DEF TestAgain, PCs
  <2> QED BY <1>1, <1>7, <2>1 DEF TestAgain, process, plant, seen
<1>8. CASE StopTurbo(w, fails)
  <2>1. pc' \in [Workers -> PCs]
    BY <1>8, Moved DEF StopTurbo, PCs
  <2>2. turbo' \in BOOLEAN
    BY <1>8 DEF StopTurbo
  <2> QED BY <1>1, <1>8, <2>1, <2>2 DEF StopTurbo, process, seen
<1>9. CASE StopBacking(w, fails)
  <2>1. pc' \in [Workers -> PCs]
    BY <1>9, Moved DEF StopBacking, PCs
  <2>2. backing' \in BOOLEAN
    BY <1>9 DEF StopBacking
  <2> QED BY <1>1, <1>9, <2>1, <2>2 DEF StopBacking, process, seen
<1> QED BY <1>2, <1>3, <1>4, <1>5, <1>6, <1>7, <1>8, <1>9 DEF Transact

LEMMA ThreadType ==
    ASSUME TypeOK, NEW w \in Workers, OptimizeThread(w)
    PROVE  TypeOK'
<1> USE DEF TypeOK
<1>1. CASE Stopped(w)
  <2>1. pc' \in [Workers -> PCs]
    BY <1>1, Moved DEF Stopped, PCs
  <2> QED BY <1>1, <2>1 DEF Stopped, process, plant, seen
<1>2. CASE StayWarm(w)
  <2>1. pc' \in [Workers -> PCs]
    BY <1>2, Moved DEF StayWarm, PCs
  <2> QED BY <1>2, <2>1 DEF StayWarm, process, plant, seen
<1>3. CASE ReachTarget(w)
  <2>1. pc' \in [Workers -> PCs]
    BY <1>3, Moved DEF ReachTarget, PCs
  <2>2. doStop' \in [Workers -> BOOLEAN]
    BY <1>3 DEF ReachTarget
  <2> QED BY <1>3, <2>1, <2>2 DEF ReachTarget, process, plant, seen
<1>4. CASE Cycle(w)
  <2>1. pc' \in [Workers -> PCs]
    BY <1>4, Moved DEF Cycle, PCs
  <2>2. elapsed' \in Nat
    BY <1>4 DEF Cycle
  <2> QED BY <1>4, <2>1, <2>2 DEF Cycle, plant, seen
<1>5. CASE SetFinished(w)
  <2>1. pc' \in [Workers -> PCs]
    BY <1>5, Moved DEF SetFinished, PCs
  <2>2. doStop' \in [Workers -> BOOLEAN]
    BY <1>5 DEF SetFinished
  <2> QED BY <1>5, <2>1, <2>2 DEF SetFinished, plant, seen
<1>6. CASE TestFinished(w)
  <2>1. pc' \in [Workers -> PCs]
    BY <1>6, Moved DEF TestFinished, PCs
  <2> QED BY <1>6, <2>1 DEF TestFinished, process, plant, seen
<1> QED BY <1>1, <1>2, <1>3, <1>4, <1>5, <1>6 DEF OptimizeThread

(* Every variable keeps its type. *)
THEOREM TypeCorrect == Spec => []TypeOK
<1>1. Init => TypeOK
  <2> SUFFICES ASSUME Init PROVE TypeOK
    OBVIOUS
  <2>1. pc \in [Workers -> PCs]
    BY DEF Init, PCs
  <2>2. doStop \in [Workers -> BOOLEAN]
    BY DEF Init
  <2> QED BY <2>1, <2>2 DEF Init, TypeOK, Valve
<1>2. TypeOK /\ [Next]_vars => TypeOK'
  <2> SUFFICES ASSUME TypeOK, [Next]_vars PROVE TypeOK'
    OBVIOUS
  <2> USE DEF TypeOK
  <2>1. CASE StartPumping
    <3>1. pc' \in [Workers -> PCs]
      BY <2>1 DEF StartPumping, PCs
    <3>2. trust' \in BOOLEAN /\ enable' \in BOOLEAN /\ elapsed' \in Nat /\ finished' \in BOOLEAN
      BY <2>1 DEF StartPumping
    <3> QED BY <2>1, <3>1, <3>2 DEF StartPumping, plant, seen
  <2>2. CASE StopPumping
    BY <2>2 DEF StopPumping, worker, plant, seen
  <2>3. CASE ByHand
    <3>1. trust' \in BOOLEAN /\ UNCHANGED <<worker, process, seen>>
      BY <2>3 DEF ByHand
    <3>2. PICK on \in BOOLEAN :
             \/ backing' = on /\ UNCHANGED <<turbo, gate, solenoid>>
             \/ turbo' = on /\ UNCHANGED <<backing, gate, solenoid>>
             \/ gate' = Sent(gate, on) /\ UNCHANGED <<backing, turbo, solenoid>>
             \/ solenoid' = Sent(solenoid, on) /\ UNCHANGED <<backing, turbo, gate>>
      BY <2>3 DEF ByHand
    <3> QED BY <3>1, <3>2, Closing DEF worker, process, seen
  <2>4. CASE GateMoves
    BY <2>4 DEF GateMoves, worker, process, seen, Valve
  <2>5. CASE SolenoidMoves
    BY <2>5 DEF SolenoidMoves, worker, process, seen, Valve
  <2>6. CASE ReadTemperatures
    BY <2>6 DEF ReadTemperatures, worker, process, plant
  <2>7. ASSUME NEW fails \in BOOLEAN, ReadPump(fails) PROVE TypeOK'
    BY <2>7 DEF ReadPump, worker, process, plant
  <2>8. ASSUME NEW w \in Workers, OptimizeThread(w) PROVE TypeOK'
    BY <2>8, ThreadType
  <2>9. ASSUME NEW w \in Workers, NEW fails \in BOOLEAN, Transact(w, fails) PROVE TypeOK'
    BY <2>9, TransactType
  <2>10. CASE UNCHANGED vars
    BY <2>10 DEF vars, worker, process, plant, seen
  <2> QED BY <2>1, <2>2, <2>3, <2>4, <2>5, <2>6, <2>7, <2>8, <2>9, <2>10 DEF Next, Host
<1> QED BY <1>1, <1>2, PTL DEF Spec

-----------------------------------------------------------------------------
(* The order of closing down.                                               *)

PastGate     == {"testGate", "closeSolenoid", "awaitSolenoid", "testAgain",
                 "stopTurbo", "stopBacking"}
PastSolenoid == {"testAgain", "stopTurbo", "stopBacking"}

Behind(w) ==
    /\ pc[w] \in PastGate => gate = "closed"
    /\ pc[w] \in PastSolenoid => solenoid = "closed"
    /\ pc[w] = "stopBacking" => ~turbo

Shut == gate = "closed" /\ solenoid = "closed" /\ ~turbo

OrderInv == trust => /\ \A w \in Workers : Behind(w)
                     /\ Alive # {} /\ ~backing => Shut

(* What is closed and stopped stays so. *)
Kept == /\ gate = "closed" => gate' = "closed"
        /\ solenoid = "closed" => solenoid' = "closed"
        /\ ~turbo => ~turbo'

(* It is enough to look at the worker that moves. *)
LEMMA Onward ==
    ASSUME TypeOK, OrderInv, trust, Kept,
           NEW w \in Workers, NEW from \in PCs \ {"new", "ended"}, NEW to \in PCs,
           Step(w, from, to), Behind(w)', backing' = backing \/ Shut'
    PROVE  OrderInv'
<1>1. w \in Alive
  BY DEF Step, Alive
<1>2. \A v \in Workers : v # w => pc'[v] = pc[v]
  BY DEF TypeOK, Step, Goto
<1>3. \A v \in Workers : Behind(v)'
  <2> SUFFICES ASSUME NEW v \in Workers, v # w PROVE Behind(v)'
    OBVIOUS
  <2> QED BY <1>2 DEF OrderInv, Behind, Kept
<1>4. ~backing' => Shut'
  <2>1. CASE Shut'
    BY <2>1
  <2>2. CASE backing' = backing
    BY <1>1, <2>2 DEF OrderInv, Shut, Kept
  <2> QED BY <2>1, <2>2
<1> QED BY <1>3, <1>4 DEF OrderInv

LEMMA Closed ==
    ASSUME NEW v \in Valve
    PROVE  v = "closed" => Close(v) = "closed"
  BY DEF Close

(* A transaction that does not fail. *)
LEMMA TransactInOrder ==
    ASSUME TypeOK, OrderInv, NEW w \in Workers, NEW fails \in BOOLEAN, Transact(w, fails)
    PROVE  OrderInv'
<1> SUFFICES ASSUME trust' PROVE OrderInv'
  BY DEF OrderInv
<1>1. trust /\ ~fails
  BY DEF Transact
<1>2. Behind(w)
  BY <1>1 DEF OrderInv
<1> USE DEF PastGate, PastSolenoid
<1>3. CASE CloseGate(w, fails)
  <2>1. Step(w, "closeGate", "awaitGate") /\ pc'[w] = "awaitGate"
    BY <1>3 DEF CloseGate, Step, Goto, TypeOK
  <2>2. Kept /\ backing' = backing
    BY <1>3, Closed DEF CloseGate, Kept, TypeOK
  <2> QED BY <1>1, <2>1, <2>2, Onward DEF Behind, PCs
<1>4. CASE AwaitGate(w, fails)
  <2>1. Step(w, "awaitGate", "testGate") /\ pc'[w] = "testGate"
    BY <1>4 DEF AwaitGate, Step, Goto, TypeOK
  <2>2. Kept /\ backing' = backing /\ gate' = "closed"
    BY <1>1, <1>4 DEF AwaitGate, GateReads, plant, Kept
  <2> QED BY <1>1, <2>1, <2>2, Onward DEF Behind, PCs
<1>5. CASE TestGate(w, fails)
  <2>1. pc[w] = "testGate" /\ Step(w, "testGate", "closeSolenoid") /\ pc'[w] = "closeSolenoid"
    BY <1>5 DEF TestGate, Step, Goto, TypeOK
  <2>2. Kept /\ backing' = backing /\ gate' = "closed"
    BY <1>2, <1>5, <2>1 DEF TestGate, plant, Kept, Behind
  <2> QED BY <1>1, <2>1, <2>2, Onward DEF Behind, PCs
<1>6. CASE CloseSolenoid(w, fails)
  <2>1. /\ pc[w] = "closeSolenoid" /\ Step(w, "closeSolenoid", "awaitSolenoid")
        /\ pc'[w] = "awaitSolenoid"
    BY <1>6 DEF CloseSolenoid, Step, Goto, TypeOK
  <2>2. Kept /\ backing' = backing /\ gate' = "closed"
    BY <1>2, <1>6, <2>1, Closed DEF CloseSolenoid, Kept, Behind, TypeOK
  <2> QED BY <1>1, <2>1, <2>2, Onward DEF Behind, PCs
<1>7. CASE AwaitSolenoid(w, fails)
  <2>1. /\ pc[w] = "awaitSolenoid" /\ Step(w, "awaitSolenoid", "testAgain")
        /\ pc'[w] = "testAgain"
    BY <1>7 DEF AwaitSolenoid, Step, Goto, TypeOK
  <2>2. Kept /\ backing' = backing /\ gate' = "closed" /\ solenoid' = "closed"
    BY <1>1, <1>2, <1>7, <2>1 DEF AwaitSolenoid, plant, Kept, Behind
  <2> QED BY <1>1, <2>1, <2>2, Onward DEF Behind, PCs
<1>8. CASE TestAgain(w, fails)
  <2>1. pc[w] = "testAgain"
    BY <1>8 DEF TestAgain, Step
  <2>2. Step(w, "testAgain", "stopTurbo") /\ pc'[w] = "stopTurbo"
    BY <1>1, <1>2, <1>8, <2>1 DEF TestAgain, GateReads, Behind, Step, Goto, TypeOK
  <2>3. Kept /\ backing' = backing /\ gate' = "closed" /\ solenoid' = "closed"
    BY <1>2, <1>8, <2>1 DEF TestAgain, plant, Kept, Behind
  <2> QED BY <1>1, <2>2, <2>3, Onward DEF Behind, PCs
<1>9. CASE StopTurbo(w, fails)
  <2>1. /\ pc[w] = "stopTurbo" /\ Step(w, "stopTurbo", "stopBacking")
        /\ pc'[w] = "stopBacking"
    BY <1>9 DEF StopTurbo, Step, Goto, TypeOK
  <2>2. Kept /\ backing' = backing /\ gate' = "closed" /\ solenoid' = "closed" /\ ~turbo'
    BY <1>1, <1>2, <1>9, <2>1 DEF StopTurbo, Kept, Behind
  <2> QED BY <1>1, <2>1, <2>2, Onward DEF Behind, PCs
<1>10. CASE StopBacking(w, fails)
  <2>1. /\ pc[w] = "stopBacking" /\ Step(w, "stopBacking", "finish")
        /\ pc'[w] = "finish"
    BY <1>10 DEF StopBacking, Step, Goto, TypeOK
  <2>2. Kept /\ Shut'
    BY <1>2, <1>10, <2>1 DEF StopBacking, Kept, Behind, Shut
  <2> QED BY <1>1, <2>1, <2>2, Onward DEF Behind, PCs
<1> QED BY <1>3, <1>4, <1>5, <1>6, <1>7, <1>8, <1>9, <1>10 DEF Transact

(* The rest of optimizeThread leaves the cryostat alone, and brings no      *)
(* worker past a valve.                                                     *)
LEMMA ThreadInOrder ==
    ASSUME TypeOK, OrderInv, NEW w \in Workers, OptimizeThread(w)
    PROVE  OrderInv'
<1> SUFFICES ASSUME trust' PROVE OrderInv'
  BY DEF OrderInv
<1>1. trust /\ UNCHANGED plant
  BY DEF OptimizeThread, Stopped, StayWarm, ReachTarget, Cycle, SetFinished, TestFinished
<1>2. Kept /\ backing' = backing
  BY <1>1 DEF plant, Kept
<1>3. PICK from \in PCs \ {"new", "ended"}, to \in PCs \ PastGate : Step(w, from, to)
  BY DEF OptimizeThread, Stopped, StayWarm, ReachTarget, Cycle, SetFinished, TestFinished,
         PCs, PastGate
<1>4. Behind(w)'
  BY <1>3 DEF Behind, Step, Goto, TypeOK, PastGate, PastSolenoid
<1> QED BY <1>1, <1>2, <1>3, <1>4, Onward

(* Behind valves that were seen to be closed the pumps are stopped in order *)
(* (optimizeAction of CryostatPumping), until something fails or a hand     *)
(* interferes.                                                              *)
THEOREM PumpsStopInOrderHolds == Spec => []PumpsStopInOrder
<1>1. Init => OrderInv
  BY DEF Init, OrderInv, Alive, Behind, PastGate, PastSolenoid
<1>2. TypeOK /\ OrderInv /\ [Next]_vars => OrderInv'
  <2> SUFFICES ASSUME TypeOK, OrderInv, [Next]_vars PROVE OrderInv'
    OBVIOUS
  <2>1. CASE StartPumping
    <3>1. PICK w \in Workers : pc[w] = "new" /\ pc' = [pc EXCEPT ![w] = "top"]
      BY <2>1 DEF StartPumping
    <3>2. UNCHANGED plant /\ backing /\ trust' = (trust \/ Alive = {})
      BY <2>1 DEF StartPumping
    <3>3. ASSUME trust', NEW v \in Workers PROVE Behind(v)'
      <4>1. CASE v = w
        BY <3>1, <4>1 DEF Behind, PastGate, PastSolenoid, TypeOK
      <4>2. CASE v # w /\ trust
        BY <3>1, <3>2, <4>2 DEF OrderInv, Behind, plant, TypeOK
      <4>3. CASE v # w /\ Alive = {}
        BY <3>1, <4>3 DEF Alive, Behind, PastGate, PastSolenoid, TypeOK
      <4> QED BY <3>2, <3>3, <4>1, <4>2, <4>3
    <3> QED BY <3>2, <3>3 DEF OrderInv, plant
  <2>2. CASE StopPumping
    BY <2>2 DEF StopPumping, worker, plant, OrderInv, Alive, Behind, Shut
  <2>3. CASE ByHand
    <3>1. pc' = pc /\ trust' = (trust /\ Alive = {})
      BY <2>3 DEF ByHand, worker
    <3> QED BY <3>1 DEF OrderInv, Alive, Behind, PastGate, PastSolenoid
  <2>4. CASE GateMoves
    BY <2>4 DEF GateMoves, worker, OrderInv, Alive, Behind, Shut
  <2>5. CASE SolenoidMoves
    BY <2>5 DEF SolenoidMoves, worker, OrderInv, Alive, Behind, Shut
  <2>6. CASE ReadTemperatures
    BY <2>6 DEF ReadTemperatures, worker, plant, OrderInv, Alive, Behind, Shut
  <2>7. ASSUME NEW fails \in BOOLEAN, ReadPump(fails) PROVE OrderInv'
    BY <2>7 DEF ReadPump, worker, plant, OrderInv, Alive, Behind, Shut
  <2>8. ASSUME NEW w \in Workers, OptimizeThread(w) PROVE OrderInv'
    BY <2>8, ThreadInOrder
  <2>9. ASSUME NEW w \in Workers, NEW fails \in BOOLEAN, Transact(w, fails) PROVE OrderInv'
    BY <2>9, TransactInOrder
  <2>10. CASE UNCHANGED vars
    BY <2>10 DEF vars, worker, plant, OrderInv, Alive, Behind, Shut
  <2> QED BY <2>1, <2>2, <2>3, <2>4, <2>5, <2>6, <2>7, <2>8, <2>9, <2>10 DEF Next, Host
<1>3. OrderInv => PumpsStopInOrder
  BY DEF OrderInv, PumpsStopInOrder, Alive, Behind, Shut, PastGate, PastSolenoid
<1> QED BY <1>1, <1>2, <1>3, TypeCorrect, PTL DEF Spec
=============================================================================
