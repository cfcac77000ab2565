--------------------------- MODULE OptimizeWorker ---------------------------
(***************************************************************************)
(* FrontEndControl2/OPTIMIZE: OptimizeBase, the worker thread behind every *)
(* measurement, with the measurement it was written for: MeasureIVCurve,   *)
(* which suspends the monitoring of its cartridge, repeats a curve until   *)
(* it has enough or is told to stop, and resumes the monitoring.           *)
(*                                                                         *)
(* The host calls one function at a time: start, requestStop, delete.  It  *)
(* may call start while a worker of an earlier call is still alive, since  *)
(* CartAssembly asks nobody before it calls it.  The flags of optimizeData *)
(* are shared; the methods that take its mutex write under it, the reads   *)
(* of stop_m, start_m and stopped_m do not.                                *)
(***************************************************************************)
EXTENDS Integers

CONSTANTS
    Thread,         \* bound: worker threads alive at the same time
    Slow            \* one curve may outlast the 25 s of stopWorkerThread

ASSUME ThreadAssumption == Thread # {}
ASSUME SlowAssumption == Slow \in BOOLEAN

VARIABLES
    hpc,            \* where the host stands
    wpc,            \* wpc[t]: where worker t stands, "none" when there is none
    start,          \* optimizeData: start_m
    stop,           \* stop_m
    stopped,        \* stopped_m
    finished,       \* finished_m
    success,        \* success_m
    paused,         \* the monitoring of the cartridge is suspended
    freed           \* the object has been deleted

flags == <<start, stop, stopped, finished, success>>
vars == <<hpc, wpc, flags, paused, freed>>

HostPCs == {"idle", "mark", "create", "busy", "halt", "poll", "reset", "free",
            "gone"}
WorkerPCs == {"none", "top", "pause", "work", "resume", "finish", "check",
              "exit", "ack"}

TypeOK ==
    /\ hpc \in HostPCs
    /\ wpc \in [Thread -> WorkerPCs]
    /\ start \in BOOLEAN /\ stop \in BOOLEAN /\ stopped \in BOOLEAN
    /\ finished \in BOOLEAN /\ success \in BOOLEAN
    /\ success => finished
    /\ paused \in BOOLEAN /\ freed \in BOOLEAN

Cleared ==
    /\ start' = FALSE /\ stop' = FALSE /\ stopped' = FALSE
    /\ finished' = FALSE /\ success' = FALSE

Init ==
    /\ hpc = "idle"
    /\ wpc = [t \in Thread |-> "none"]
    /\ start = FALSE /\ stop = FALSE /\ stopped = FALSE
    /\ finished = FALSE /\ success = FALSE
    /\ paused = FALSE /\ freed = FALSE

Alive == {t \in Thread : wpc[t] # "none"}

-----------------------------------------------------------------------------
(* The host.                                                                *)

\* MeasureIVCurve::start, then startWorkerThread: reset clears the flags of
\* whatever worker there is.
StartMeasurement ==
    /\ hpc = "idle"
    /\ Alive # Thread
    /\ Cleared
    /\ hpc' = "mark"
    /\ UNCHANGED <<wpc, paused, freed>>

MarkStarted ==
    /\ hpc = "mark"
    /\ start' = TRUE
    /\ hpc' = "create"
    /\ UNCHANGED <<wpc, stop, stopped, finished, success, paused, freed>>

CreateWorker ==
    /\ hpc = "create"
    /\ \E t \in Thread \ Alive : wpc' = [wpc EXCEPT ![t] = "top"]
    /\ hpc' = "idle"
    /\ UNCHANGED <<flags, paused, freed>>

RequestStop ==
    /\ hpc = "idle"
    /\ stop' = TRUE
    /\ UNCHANGED <<hpc, wpc, start, stopped, finished, success, paused, freed>>

\* ~OptimizeBase runs stopWorkerThread.
Delete ==
    /\ hpc = "idle"
    /\ hpc' = "busy"
    /\ UNCHANGED <<wpc, flags, paused, freed>>

TestBusy ==
    /\ hpc = "busy"
    /\ hpc' = IF ~start \/ stopped THEN "free" ELSE "halt"
    /\ UNCHANGED <<wpc, flags, paused, freed>>

HaltWorker ==
    /\ hpc = "halt"
    /\ stop' = TRUE
    /\ hpc' = "poll"
    /\ UNCHANGED <<wpc, start, stopped, finished, success, paused, freed>>

PollStopped ==
    /\ hpc = "poll"
    /\ stopped
    /\ hpc' = "reset"
    /\ UNCHANGED <<wpc, flags, paused, freed>>

\* 250 polls of 100 ms have passed: nothing but a measurement, which talks to
\* the hardware, takes that long.
PollGivesUp ==
    /\ hpc = "poll"
    /\ ~stopped
    /\ Slow
    /\ \E t \in Thread : wpc[t] = "work"
    /\ hpc' = "reset"
    /\ UNCHANGED <<wpc, flags, paused, freed>>

ResetAfterStop ==
    /\ hpc = "reset"
    /\ Cleared
    /\ hpc' = "free"
    /\ UNCHANGED <<wpc, paused, freed>>

FreeObject ==
    /\ hpc = "free"
    /\ freed' = TRUE
    /\ hpc' = "gone"
    /\ UNCHANGED <<wpc, flags, paused>>

-----------------------------------------------------------------------------
(* The worker: optimizeThread, and optimizeAction of MeasureIVCurve.        *)

Goto(t, label) == wpc' = [wpc EXCEPT ![t] = label]

TestStop(t) ==
    /\ wpc[t] = "top"
    /\ Goto(t, IF stop THEN "exit" ELSE "pause")
    /\ UNCHANGED <<hpc, flags, paused, freed>>

PauseMonitor(t) ==
    /\ wpc[t] = "pause"
    /\ paused' = TRUE
    /\ Goto(t, "work")
    /\ UNCHANGED <<hpc, flags, freed>>

\* The loop over the curves ends when there are enough of them.
MeasureEnough(t) ==
    /\ wpc[t] = "work"
    /\ Goto(t, "resume")
    /\ UNCHANGED <<hpc, flags, paused, freed>>

\* Mutant: a stopped measurement returns without resuming the monitoring.
MeasureStoppedLeaving(t) ==
    /\ wpc[t] = "work"
    /\ stop
    /\ Goto(t, "finish")
    /\ UNCHANGED <<hpc, flags, paused, freed>>

\* Mutant: the loop tests the wrong flag.
MeasureStoppedLate(t) ==
    /\ wpc[t] = "work"
    /\ stopped
    /\ Goto(t, "resume")
    /\ UNCHANGED <<hpc, flags, paused, freed>>

\* It also ends, short of them, on stopRequested.
MeasureStopped(t) ==
    /\ wpc[t] = "work"
    /\ stop
    /\ Goto(t, "resume")
    /\ UNCHANGED <<hpc, flags, paused, freed>>

ResumeMonitor(t) ==
    /\ wpc[t] = "resume"
    /\ paused' = FALSE
    /\ Goto(t, "finish")
    /\ UNCHANGED <<hpc, flags, freed>>

\* Mutant: setFinished reports the outcome and does not mark the end.
SetFinishedHalf(t) ==
    /\ wpc[t] = "finish"
    /\ success' \in BOOLEAN
    /\ start' = FALSE
    /\ Goto(t, "check")
    /\ UNCHANGED <<hpc, stop, stopped, finished, paused, freed>>

SetFinished(t) ==
    /\ wpc[t] = "finish"
    /\ success' \in BOOLEAN
    /\ finished' = TRUE
    /\ start' = FALSE
    /\ Goto(t, "check")
    /\ UNCHANGED <<hpc, stop, stopped, paused, freed>>

TestFinished(t) ==
    /\ wpc[t] = "check"
    /\ Goto(t, IF finished THEN "exit" ELSE "top")
    /\ UNCHANGED <<hpc, flags, paused, freed>>

\* exitAction reports to the client, through the object.
ExitAction(t) ==
    /\ wpc[t] = "exit"
    /\ Goto(t, "ack")
    /\ UNCHANGED <<hpc, flags, paused, freed>>

\* Mutant: the worker ends without acknowledging the stop.
AckStoppedSilent(t) ==
    /\ wpc[t] = "ack"
    /\ Goto(t, "none")
    /\ UNCHANGED <<hpc, flags, paused, freed>>

AckStopped(t) ==
    /\ wpc[t] = "ack"
    /\ stopped' = TRUE
    /\ Goto(t, "none")
    /\ UNCHANGED <<hpc, start, stop, finished, success, paused, freed>>

\* What a worker does with an object that is gone is undefined; the model
\* says no more of it than that it ends.
Astray(t) ==
    /\ freed
    /\ wpc[t] # "none"
    /\ Goto(t, "none")
    /\ UNCHANGED <<hpc, flags, paused, freed>>

\* Everything a worker does but to decide that it has measured enough.
WorkerProceeds(t) ==
    /\ ~freed
    /\ \/ TestStop(t) \/ PauseMonitor(t) \/ MeasureStopped(t)
       \/ ResumeMonitor(t) \/ SetFinished(t) \/ TestFinished(t)
       \/ ExitAction(t) \/ AckStopped(t)

OptimizeThread(t) == WorkerProceeds(t) \/ (~freed /\ MeasureEnough(t))

-----------------------------------------------------------------------------
HostProceeds ==
    \/ MarkStarted \/ CreateWorker \/ TestBusy \/ HaltWorker \/ PollStopped
    \/ ResetAfterStop \/ FreeObject

Next ==
    \/ StartMeasurement \/ RequestStop \/ Delete \/ PollGivesUp
    \/ HostProceeds
    \/ \E t \in Thread : OptimizeThread(t) \/ Astray(t)

Spec == Init /\ [][Next]_vars

\* Calls in progress proceed and workers run; nobody has to call anything, a
\* measurement need not end by itself, and the patience of stopWorkerThread is
\* not what makes it return.
FairSpec ==
    /\ Spec
    /\ WF_vars(HostProceeds)
    /\ \A t \in Thread : WF_vars(WorkerProceeds(t))

-----------------------------------------------------------------------------
(* When the monitoring of the cartridge is suspended, a worker that will    *)
(* resume it is at work: however starts, stops and the deletion overlap,    *)
(* the last worker to leave does not leave the cartridge unmonitored        *)
(* (MeasureIVCurve.cpp, the pair of pauseMonitor calls).                    *)
MonitoringResumed ==
    paused /\ ~freed => \E t \in Thread : wpc[t] \in {"work", "resume"}

(* A request to stop ends every worker, unless a new start or the deletion  *)
(* of the object takes it back: the worker loop and the measurement's own   *)
(* loop both see it.                                                        *)
StopIsObeyed == stop ~> (~stop \/ freed \/ Alive = {})

(* The deletion of a measurement returns: a worker sees the stop and        *)
(* acknowledges it, or there is nothing to wait for.                        *)
DeleteReturns == hpc = "busy" ~> hpc = "gone"

(* OptimizeBase.h:35: "destructor forces worker thread to stop."  When the  *)
(* object is gone, so is every worker.                                      *)
DestructorStops == freed => Alive = {}
=============================================================================
