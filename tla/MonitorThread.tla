---------------------------- MODULE MonitorThread ----------------------------
(***************************************************************************)
(* FEHardwareDevice: the monitor thread every front end device owns.       *)
(*                                                                         *)
(* The owner (the thread that enables, disables and destroys the device)   *)
(* calls startMonitor and stopMonitor; measurements (lock search, I-V      *)
(* curves, deflux...) call pauseMonitor(true) and later pauseMonitor(false)*)
(* from threads of their own; the monitor thread reads the flags, performs *)
(* monitorAction, counts errors and pauses itself when there are too many. *)
(* The flags are plain bools without a lock, so each read and each write   *)
(* is a step.                                                              *)
(***************************************************************************)
EXTENDS Integers

CONSTANTS
    Owner,          \* the thread that starts and stops the monitoring
    Measurement,    \* threads that pause and resume the monitoring
    Thread,         \* bound: monitor threads, one for each call that starts one
    MaxErrorCount,  \* maxErrorCount_m; 0 means no limit
    MaxPauses       \* bound: pauses requested by all the measurements

ASSUME LimitsAssumption == MaxErrorCount \in Nat /\ MaxPauses \in Nat
ASSUME CallersAssumption ==
    /\ Measurement \intersect Thread = {}
    /\ Owner \notin Measurement \union Thread

Caller == Measurement \union Thread \union {Owner}
ErrorCap == MaxErrorCount + 1       \* bound: errorCount_m is counted up to here

VARIABLES
    running,        \* running_m
    stopped,        \* stopped_m
    paused,         \* paused_m
    exceeded,       \* exceededErrorCount_m
    errors,         \* errorCount_m
    opc,            \* where the owner stands
    tpc,            \* tpc[t]: where monitor thread t stands
    sawRunning,     \* sawRunning[t]: the value of running_m it read
    sawErrors,      \* sawErrors[t]: the value of errorCount_m it will increment
    ppc,            \* ppc[a]: where caller a stands in pauseMonitor
    arg,            \* arg[a]: the argument of that call
    measuring,      \* measuring[m]: m has paused the monitoring and not resumed it
    pauses          \* pauses requested so far

flags   == <<running, stopped, paused, exceeded, errors>>
threads == <<tpc, sawRunning, sawErrors>>
calls   == <<ppc, arg>>
rest    == <<measuring, pauses>>
vars    == <<flags, opc, threads, calls, rest>>

OwnerPCs  == {"idle", "clear", "create", "run", "reset", "halt", "poll", "gone"}
ThreadPCs == {"none", "read", "write", "test", "gate", "act", "incr", "errors",
              "flag", "pause", "exited"}
PausePCs  == {"off", "test", "set", "recheck", "zero", "unflag"}

TypeOK ==
    /\ running \in BOOLEAN /\ stopped \in BOOLEAN /\ paused \in BOOLEAN
    /\ exceeded \in BOOLEAN /\ errors \in 0..ErrorCap
    /\ opc \in OwnerPCs
    /\ tpc \in [Thread -> ThreadPCs]
    /\ sawRunning \in [Thread -> BOOLEAN]
    /\ sawErrors \in [Thread -> 0..ErrorCap]
    /\ ppc \in [Caller -> PausePCs]
    /\ arg \in [Caller -> BOOLEAN]
    /\ measuring \in [Measurement -> BOOLEAN]
    /\ pauses \in 0..MaxPauses

Init ==
    /\ running = FALSE /\ stopped = TRUE /\ paused = FALSE
    /\ exceeded = FALSE /\ errors = 0
    /\ opc = "idle"
    /\ tpc = [t \in Thread |-> "none"]
    /\ sawRunning = [t \in Thread |-> FALSE]
    /\ sawErrors = [t \in Thread |-> 0]
    /\ ppc = [a \in Caller |-> "off"]
    /\ arg = [a \in Caller |-> FALSE]
    /\ measuring = [m \in Measurement |-> FALSE]
    /\ pauses = 0

Live(t) == tpc[t] \notin {"none", "exited"}

-----------------------------------------------------------------------------
(* pauseMonitor and resetErrorCount, for whoever calls them.                *)

TestPaused(a) ==
    /\ ppc[a] = "test"
    /\ ppc' = [ppc EXCEPT ![a] = IF paused # arg[a] THEN "set" ELSE "off"]
    /\ UNCHANGED <<flags, opc, threads, arg, rest>>

SetPaused(a) ==
    /\ ppc[a] = "set"
    /\ paused' = arg[a]
    /\ ppc' = [ppc EXCEPT ![a] = "recheck"]
    /\ UNCHANGED <<running, stopped, exceeded, errors, opc, threads, arg, rest>>

\* The code tests paused_m again, not its argument.
RecheckPaused(a) ==
    /\ ppc[a] = "recheck"
    /\ ppc' = [ppc EXCEPT ![a] = IF paused THEN "off" ELSE "zero"]
    /\ UNCHANGED <<flags, opc, threads, arg, rest>>

ZeroErrorCount(a) ==
    /\ ppc[a] = "zero"
    /\ errors' = 0
    /\ ppc' = [ppc EXCEPT ![a] = "unflag"]
    /\ UNCHANGED <<running, stopped, paused, exceeded, opc, threads, arg, rest>>

ClearExceeded(a) ==
    /\ ppc[a] = "unflag"
    /\ exceeded' = FALSE
    /\ ppc' = [ppc EXCEPT ![a] = "off"]
    /\ UNCHANGED <<running, stopped, paused, errors, opc, threads, arg, rest>>

PauseMonitor(a) ==
    \/ TestPaused(a) \/ SetPaused(a) \/ RecheckPaused(a)
    \/ ZeroErrorCount(a) \/ ClearExceeded(a)

CallPause(a, pause) ==
    /\ ppc[a] = "off"
    /\ ppc' = [ppc EXCEPT ![a] = "test"]
    /\ arg' = [arg EXCEPT ![a] = pause]

-----------------------------------------------------------------------------
(* Measurements.                                                            *)

BeginMeasurement(m) ==
    /\ ~measuring[m]
    /\ pauses < MaxPauses
    /\ CallPause(m, TRUE)
    /\ measuring' = [measuring EXCEPT ![m] = TRUE]
    /\ pauses' = pauses + 1
    /\ UNCHANGED <<flags, opc, threads>>

EndMeasurement(m) ==
    /\ measuring[m]
    /\ CallPause(m, FALSE)
    /\ measuring' = [measuring EXCEPT ![m] = FALSE]
    /\ UNCHANGED <<flags, opc, threads, pauses>>

-----------------------------------------------------------------------------
(* The owner: startMonitor, stopMonitor.                                    *)

StartMonitor ==
    /\ opc = "idle"
    /\ ~running
    /\ \E t \in Thread : tpc[t] = "none"
    /\ opc' = "clear"
    /\ UNCHANGED <<flags, threads, calls, rest>>

ClearStopped ==
    /\ opc = "clear"
    /\ stopped' = FALSE
    /\ opc' = "create"
    /\ UNCHANGED <<running, paused, exceeded, errors, threads, calls, rest>>

CreateThread ==
    /\ opc = "create"
    /\ tpc' = [tpc EXCEPT ![CHOOSE t \in Thread : tpc[t] = "none"] = "read"]
    /\ opc' = "run"
    /\ UNCHANGED <<flags, sawRunning, sawErrors, calls, rest>>

SetRunning ==
    /\ opc = "run"
    /\ running' = TRUE
    /\ opc' = "reset"
    /\ ppc' = [ppc EXCEPT ![Owner] = "zero"]
    /\ UNCHANGED <<stopped, paused, exceeded, errors, threads, arg, rest>>

StartReturns ==
    /\ opc = "reset"
    /\ ppc[Owner] = "off"
    /\ opc' = "idle"
    /\ UNCHANGED <<flags, threads, calls, rest>>

StopMonitor ==
    /\ opc = "idle"
    /\ running
    /\ opc' = "halt"
    /\ UNCHANGED <<flags, threads, calls, rest>>

ClearRunning ==
    /\ opc = "halt"
    /\ running' = FALSE
    /\ opc' = "poll"
    /\ UNCHANGED <<stopped, paused, exceeded, errors, threads, calls, rest>>

PollStopped ==
    /\ opc = "poll"
    /\ stopped
    /\ opc' = "idle"
    /\ UNCHANGED <<flags, threads, calls, rest>>

\* 250 polls of 100 ms have passed: nothing but a monitorAction, which talks
\* to the hardware, takes that long.
StopGivesUp ==
    /\ opc = "poll"
    /\ \E t \in Thread : tpc[t] = "act"
    /\ opc' = "idle"
    /\ UNCHANGED <<flags, threads, calls, rest>>

-----------------------------------------------------------------------------
(* The monitor thread.                                                      *)

ReadRunning(t) ==
    /\ tpc[t] = "read"
    /\ sawRunning' = [sawRunning EXCEPT ![t] = running]
    /\ tpc' = [tpc EXCEPT ![t] = "write"]
    /\ UNCHANGED <<flags, opc, sawErrors, calls, rest>>

\* Mutant: the thread does not report that it stops.
WriteStoppedSilent(t) ==
    /\ tpc[t] = "write"
    /\ stopped' = (stopped /\ ~sawRunning[t])
    /\ sawRunning' = [sawRunning EXCEPT ![t] = FALSE]
    /\ tpc' = [tpc EXCEPT ![t] = "test"]
    /\ UNCHANGED <<running, paused, exceeded, errors, opc, sawErrors, calls,
                   rest>>

WriteStopped(t) ==
    /\ tpc[t] = "write"
    /\ stopped' = ~sawRunning[t]
    /\ sawRunning' = [sawRunning EXCEPT ![t] = FALSE]     \* not read again
    /\ tpc' = [tpc EXCEPT ![t] = "test"]
    /\ UNCHANGED <<running, paused, exceeded, errors, opc, sawErrors, calls,
                   rest>>

TestStopped(t) ==
    /\ tpc[t] = "test"
    /\ tpc' = [tpc EXCEPT ![t] = IF stopped THEN "exited" ELSE "gate"]
    /\ UNCHANGED <<flags, opc, sawRunning, sawErrors, calls, rest>>

\* Mutant: a paused thread waits for its resumption and looks at nothing else.
TestPausedFlagWaiting(t) ==
    /\ tpc[t] = "gate"
    /\ ~paused
    /\ tpc' = [tpc EXCEPT ![t] = "act"]
    /\ UNCHANGED <<flags, opc, sawRunning, sawErrors, calls, rest>>

TestPausedFlag(t) ==
    /\ tpc[t] = "gate"
    /\ tpc' = [tpc EXCEPT ![t] = IF paused THEN "errors" ELSE "act"]
    /\ UNCHANGED <<flags, opc, sawRunning, sawErrors, calls, rest>>

\* The transactions of one monitorAction all succeed, or some fail.
MonitorAction(t) ==
    /\ tpc[t] = "act"
    /\ \/ /\ tpc' = [tpc EXCEPT ![t] = "errors"]
          /\ UNCHANGED sawErrors
       \/ /\ tpc' = [tpc EXCEPT ![t] = "incr"]
          /\ sawErrors' = [sawErrors EXCEPT ![t] = errors]
    /\ UNCHANGED <<flags, opc, sawRunning, calls, rest>>

\* Mutant: failures are counted past every limit.
IncrementErrorsTwice(t) ==
    /\ tpc[t] = "incr"
    /\ errors' = sawErrors[t] + 2
    /\ sawErrors' = [sawErrors EXCEPT ![t] = 0]
    /\ tpc' = [tpc EXCEPT ![t] = "errors"]
    /\ UNCHANGED <<running, stopped, paused, exceeded, opc, sawRunning, calls,
                   rest>>

IncrementErrors(t) ==
    /\ tpc[t] = "incr"
    /\ errors' = IF sawErrors[t] < ErrorCap THEN sawErrors[t] + 1 ELSE ErrorCap
    /\ sawErrors' = [sawErrors EXCEPT ![t] = 0]           \* not read again
    /\ tpc' = [tpc EXCEPT ![t] = "errors"]
    /\ UNCHANGED <<running, stopped, paused, exceeded, opc, sawRunning, calls,
                   rest>>

CheckExceededErrorCount(t) ==
    /\ tpc[t] = "errors"
    /\ tpc' = [tpc EXCEPT ![t] =
                  IF ~exceeded /\ MaxErrorCount > 0 /\ errors > MaxErrorCount
                  THEN "flag" ELSE "read"]
    /\ UNCHANGED <<flags, opc, sawRunning, sawErrors, calls, rest>>

\* Mutant: the error stop is flagged and the monitoring goes on.
SetExceededOnly(t) ==
    /\ tpc[t] = "flag"
    /\ exceeded' = TRUE
    /\ tpc' = [tpc EXCEPT ![t] = "read"]
    /\ UNCHANGED <<running, stopped, paused, errors, opc, sawRunning,
                   sawErrors, calls, rest>>

SetExceeded(t) ==
    /\ tpc[t] = "flag"
    /\ exceeded' = TRUE
    /\ CallPause(t, TRUE)
    /\ tpc' = [tpc EXCEPT ![t] = "pause"]
    /\ UNCHANGED <<running, stopped, paused, errors, opc, sawRunning,
                   sawErrors, rest>>

PauseReturns(t) ==
    /\ tpc[t] = "pause"
    /\ ppc[t] = "off"
    /\ tpc' = [tpc EXCEPT ![t] = "read"]
    /\ UNCHANGED <<flags, opc, sawRunning, sawErrors, calls, rest>>

RunThread(t) ==
    \/ ReadRunning(t) \/ WriteStopped(t) \/ TestStopped(t) \/ TestPausedFlag(t)
    \/ MonitorAction(t) \/ IncrementErrors(t) \/ CheckExceededErrorCount(t)
    \/ SetExceeded(t) \/ PauseReturns(t)

-----------------------------------------------------------------------------
OwnerProceeds ==
    \/ ClearStopped \/ CreateThread \/ SetRunning \/ StartReturns
    \/ ClearRunning \/ PollStopped

Next ==
    \/ StartMonitor \/ StopMonitor \/ StopGivesUp \/ OwnerProceeds
    \/ \E m \in Measurement : BeginMeasurement(m) \/ EndMeasurement(m)
    \/ \E a \in Caller : PauseMonitor(a)
    \/ \E t \in Thread : RunThread(t)

Spec == Init /\ [][Next]_vars

\* Threads run, calls in progress proceed and the transactions of a
\* monitorAction are answered; nobody has to call anything, and the patience
\* of stopMonitor is not what makes it return.
Fairness ==
    /\ WF_vars(OwnerProceeds)
    /\ \A a \in Caller : WF_vars(PauseMonitor(a))
    /\ \A t \in Thread : WF_vars(RunThread(t))

FairSpec == Spec /\ Fairness

-----------------------------------------------------------------------------
(* An error stop is never flagged while the device is being monitored       *)
(* unless a call of pauseMonitor or resetErrorCount is about to put that    *)
(* right: isErrorStop() true means the monitoring is suspended.             *)
ErrorStopIsPaused ==
    exceeded => paused \/ \E a \in Caller : ppc[a] # "off"

(* stopMonitor sees its monitor thread stop: whatever pauses, error stops   *)
(* and lingering threads of earlier starts there are, some thread reports   *)
(* through stopped_m and the owner's poll ends.                             *)
StopReturns == opc = "poll" ~> opc # "poll"

(* When the owner stops the monitor for good every monitor thread exits,    *)
(* also one that an earlier stopMonitor gave up on, or that read stopped_m  *)
(* after the next startMonitor had cleared it.                              *)
StoppedThreadsExit == <>[](~running) => <>[](\A t \in Thread : ~Live(t))

(* FEHardwareDevice.h:57: startMonitor will "start the monitor thread".     *)
(* When it has returned, and until stopMonitor is called, there is one.     *)
StartedIsMonitored ==
    opc = "idle" /\ running => \E t \in Thread : Live(t)
=============================================================================
