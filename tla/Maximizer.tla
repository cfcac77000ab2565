----------------------------- MODULE Maximizer -----------------------------
(***************************************************************************)
(* FrontEndControl2/OPTIMIZE: Maximizer::maximize, the search for the      *)
(* control value (a junction or drain voltage) at which a measured power   *)
(* is largest, and what MaximizeIFPower adds to it: the control values it  *)
(* remembers to detect an oscillation, and the power meter readings that a *)
(* LabVIEW thread delivers whenever it has one.                            *)
(*                                                                         *)
(* The search looks at three (control, value) pairs, decides how the       *)
(* function runs through them, and takes a fourth.  Values are noise-free: *)
(* the power is a function of the control value, any function.  Control    *)
(* values are integers where the code has floats.                          *)
(***************************************************************************)
EXTENDS Integers, Sequences

CONSTANTS
    ControlMin,     \* controlMin_m
    ControlMax,     \* controlMax_m
    ControlStep,    \* controlStep
    MaxIter,        \* maxIter
    TimeOut,        \* timeOut, in units of interval
    Powers,         \* values the dependent variable may have
    Metered         \* bound: functions explored with the readings of the meter

ASSUME RangeAssumption ==
    /\ ControlMin \in Int /\ ControlMax \in Int
    /\ ControlMin <= ControlMax
ASSUME StepAssumption == ControlStep \in Nat \ {0}
ASSUME BoundsAssumption == MaxIter \in Nat /\ TimeOut \in Nat \ {0}
ASSUME PowersAssumption == Powers \subseteq Int /\ Powers # {}

Controls == ControlMin..ControlMax

ASSUME MeteredAssumption == Metered \subseteq [Controls -> Powers]

VARIABLES
    power,          \* the dependent value as a function of the control value
    immediate,      \* requestDependentValue returns the value at once
    pc,             \* where maximize stands
    probe,          \* which of the values it is about to measure
    case,           \* searchCases: "a", "b" or "c"
    control,        \* the control value
    direction,      \* 1 or -1
    iter,           \* analysis rounds so far
    a,              \* A1, A2, A3
    p,              \* P1, P2, P3
    elapsed,        \* time waited for a value, in units of interval
    result,         \* "none", "found" or "failed"
    stop,           \* stop_m
    commanded,      \* the control value the hardware has
    history,        \* controlHistory
    ready,          \* depValReady_m
    depVal,         \* depVal_m
    reading         \* the measurement the LabVIEW thread has not delivered

searchVars == <<pc, probe, case, control, direction, iter, a, p, elapsed,
                result>>
meterVars  == <<ready, depVal, reading>>
hardware   == <<commanded, history>>
given      == <<power, immediate>>
vars == <<searchVars, stop, hardware, meterVars, given>>

PCs == {"idle", "set", "wait", "drain", "request", "await", "analyse", "done"}

\* The probe of the way back to A2; the others are numbered like the values.
AtPeak == 5

SomePower == CHOOSE v \in Powers : TRUE

\* The locals of maximize before they are assigned.
NoControls == [i \in 1..3 |-> ControlMin]
NoPowers   == [i \in 1..3 |-> SomePower]

TypeOK ==
    /\ power \in [Controls -> Powers] /\ immediate \in BOOLEAN
    /\ pc \in PCs
    /\ probe \in 1..5
    /\ case \in {"a", "b", "c"}
    /\ control \in Int
    /\ direction \in {-1, 1}
    /\ iter \in Nat
    /\ a \in [1..3 -> Int] /\ p \in [1..3 -> Powers]
    /\ elapsed \in 0..TimeOut
    /\ result \in {"none", "found", "failed"}
    /\ stop \in BOOLEAN
    /\ commanded \in Controls
    /\ history \in Seq(Controls)
    /\ ready \in BOOLEAN /\ depVal \in Powers /\ reading \in Powers

\* Maximizer::reset.
Init ==
    /\ power \in [Controls -> Powers] /\ immediate \in BOOLEAN
    /\ immediate \/ power \in Metered
    /\ pc = "idle" /\ probe = 1 /\ case = "a"
    /\ control = ControlMin /\ direction = 1 /\ iter = 0
    /\ a = NoControls /\ p = NoPowers
    /\ elapsed = 0 /\ result = "none" /\ stop = FALSE
    /\ commanded = ControlMin /\ history = <<>>
    /\ ready = FALSE /\ depVal = SomePower /\ reading = power[ControlMin]

-----------------------------------------------------------------------------
(* The search.                                                              *)

Return(r) ==
    /\ pc' = "done"
    /\ result' = r

Stride(d) == ControlStep * d

Aim(target, value) ==
    /\ pc' = "set"
    /\ probe' = target
    /\ control' = value

\* maximize is called again and again, on a control that may be anywhere in
\* the range; performPhase clears the history first.  A stop requested before
\* the call is forgotten.
BeginSearch ==
    /\ pc \in {"idle", "done"}
    /\ \E c \in Controls : Aim(1, c)
    /\ direction' \in {-1, 1}
    /\ iter' = 0 /\ a' = NoControls /\ p' = NoPowers /\ case' = "a"
    /\ elapsed' = 0 /\ result' = "none"
    /\ stop' = FALSE
    /\ history' = <<>>
    /\ UNCHANGED <<commanded, meterVars, given>>

\* controlRangeCheck fails and maximize returns.
OutOfRange ==
    /\ pc = "set"
    /\ control \notin Controls
    /\ Return("failed")
    /\ UNCHANGED <<probe, case, control, direction, iter, a, p, elapsed, stop,
                   hardware, meterVars, given>>

LastFive(h) == IF Len(h) <= 5 THEN h ELSE SubSeq(h, Len(h) - 4, Len(h))

Oscillates(h) == Len(h) = 5 /\ h[1] = h[3] /\ h[3] = h[5]

\* Mutant: the search is not stopped when the control oscillates.
SetControlUnwatched ==
    /\ pc = "set"
    /\ control \in Controls
    /\ pc' = "wait"
    /\ commanded' = control
    /\ history' = LastFive(Append(history, control))
    /\ elapsed' = 0
    /\ UNCHANGED <<probe, case, control, direction, iter, a, p, result, stop,
                   meterVars, given>>

\* Mutant: the range is not checked.
SetControlUnchecked ==
    /\ pc = "set"
    /\ pc' = "wait"
    /\ commanded' = control
    /\ history' = LastFive(Append(history, control))
    /\ stop' = (stop \/ Oscillates(history'))
    /\ elapsed' = 0
    /\ UNCHANGED <<probe, case, control, direction, iter, a, p, result,
                   meterVars, given>>

\* controlRangeCheck, then MaximizeIFPower::setControlValue, which stops the
\* search when the last five control values alternate.
SetControl ==
    /\ pc = "set"
    /\ control \in Controls
    /\ pc' = "wait"
    /\ commanded' = control
    /\ history' = LastFive(Append(history, control))
    /\ stop' = (stop \/ Oscillates(history'))
    /\ elapsed' = 0
    /\ UNCHANGED <<probe, case, control, direction, iter, a, p, result,
                   meterVars, given>>

\* What maximize does with the value v it waited for.
Climb(v) ==     \* cases a: the function rises along the search
    /\ a' = <<a[2], a[3], control>>
    /\ p' = <<p[2], p[3], v>>
    /\ pc' = "analyse"
    /\ UNCHANGED <<probe, control, result>>

Reverse(v) ==   \* cases b: the first two pairs change places
    /\ a' = <<a[2], a[1], control>>
    /\ p' = <<p[2], p[1], v>>
    /\ pc' = "analyse"
    /\ UNCHANGED <<probe, control, result>>

\* Mutant: one step back from A4, to A3.
CrestShort(v) ==
    IF v < p[3] /\ v < p[2]
    THEN /\ Aim(AtPeak, control - Stride(direction))
         /\ UNCHANGED <<a, p, result>>
    ELSE /\ a' = <<a[3], control, a[3]>>
         /\ p' = <<p[3], v, p[3]>>
         /\ Aim(3, control - ControlStep)
         /\ UNCHANGED result

\* Cases c: back to A2 if the fourth value is lower than the two before it;
\* otherwise on from A3 and A4, where the code steps down in both directions.
Crest(v) ==
    IF v < p[3] /\ v < p[2]
    THEN /\ Aim(AtPeak, control - 2 * Stride(direction))
         /\ UNCHANGED <<a, p, result>>
    ELSE /\ a' = <<a[3], control, a[3]>>
         /\ p' = <<p[3], v, p[3]>>
         /\ Aim(3, control - ControlStep)
         /\ UNCHANGED result

Record(i, v) ==
    /\ a' = [a EXCEPT ![i] = control]
    /\ p' = [p EXCEPT ![i] = v]

Use(v) ==
    \/ /\ probe \in {1, 2}
       /\ Record(probe, v)
       /\ Aim(probe + 1, control + Stride(direction))
       /\ UNCHANGED result
    \/ /\ probe = 3
       /\ Record(3, v)
       /\ pc' = "analyse"
       /\ UNCHANGED <<probe, control, result>>
    \/ /\ probe = AtPeak
       /\ Record(2, v)
       /\ Return("found")
       /\ UNCHANGED <<probe, control>>
    \/ probe = 4 /\ case = "a" /\ Climb(v)
    \/ probe = 4 /\ case = "b" /\ Reverse(v)
    \/ probe = 4 /\ case = "c" /\ Crest(v)

\* The analysis of three values, in the order the code tries the cases.
Rising(q)  == (q[3] >= q[2] /\ q[2] >= q[1]) \/ (q[2] <= q[3] /\ q[2] <= q[1] /\ q[3] > q[1])
Falling(q) == (q[3] <= q[2] /\ q[2] <= q[1]) \/ (q[2] <= q[3] /\ q[2] <= q[1] /\ q[3] < q[1])
Crested(q) == q[2] >= q[3] /\ q[2] >= q[1]

Hopeless(q) ==
    \/ q[1] = q[2] /\ q[2] = q[3]
    \/ ~Rising(q) /\ ~Falling(q) /\ ~Crested(q)

CaseOf(q) == IF Rising(q) THEN "a" ELSE IF Falling(q) THEN "b" ELSE "c"

Analyse ==
    /\ pc = "analyse"
    /\ ~stop
    /\ iter' = iter + 1
    /\ IF iter' >= MaxIter \/ Hopeless(p)
       THEN Return("failed") /\ UNCHANGED <<probe, case, control, direction>>
       ELSE /\ case' = CaseOf(p)
            /\ direction' = IF case' = "b" THEN -direction ELSE direction
            /\ Aim(4, control + Stride(direction'))
            /\ UNCHANGED result
    /\ UNCHANGED <<a, p, elapsed, stop, hardware, meterVars, given>>

\* The loop ends on stop_m.
AnalyseStopped ==
    /\ pc = "analyse"
    /\ stop
    /\ Return("failed")
    /\ UNCHANGED <<probe, case, control, direction, iter, a, p, elapsed, stop,
                   hardware, meterVars, given>>

-----------------------------------------------------------------------------
(* waitForDependentValue.                                                   *)

Longer(t) == IF t < TimeOut THEN t + 1 ELSE TimeOut

\* The test at the top and the one after the draining.
TestStop ==
    /\ pc \in {"wait", "request"}
    /\ stop
    /\ Return("failed")
    /\ UNCHANGED <<probe, case, control, direction, iter, a, p, elapsed, stop,
                   hardware, meterVars, given>>

StartWaiting ==
    /\ pc = "wait"
    /\ ~stop
    /\ pc' = "drain"
    /\ UNCHANGED <<probe, case, control, direction, iter, a, p, elapsed,
                   result, stop, hardware, meterVars, given>>

\* Values left at the input are thrown away; nothing but an empty input ends
\* this loop.
Drain ==
    /\ pc = "drain"
    /\ IF ready THEN elapsed' = Longer(elapsed) /\ UNCHANGED pc
                ELSE pc' = "request" /\ UNCHANGED elapsed
    /\ ready' = FALSE
    /\ UNCHANGED <<probe, case, control, direction, iter, a, p, result, stop,
                   hardware, depVal, reading, given>>

RequestImmediate ==
    /\ pc = "request"
    /\ ~stop
    /\ immediate
    /\ Use(power[commanded])
    /\ UNCHANGED <<case, direction, iter, elapsed, stop, hardware, meterVars,
                   given>>

RequestLater ==
    /\ pc = "request"
    /\ ~stop
    /\ ~immediate
    /\ pc' = "await"
    /\ UNCHANGED <<probe, case, control, direction, iter, a, p, elapsed,
                   result, stop, hardware, meterVars, given>>

TakeValue ==
    /\ pc = "await"
    /\ ready
    /\ ready' = FALSE
    /\ Use(depVal)
    /\ UNCHANGED <<case, direction, iter, elapsed, stop, hardware, depVal,
                   reading, given>>

\* Mutant: the time waited is not compared with the limit.
KeepWaitingForever ==
    /\ pc = "await"
    /\ ~ready
    /\ elapsed' = Longer(elapsed)
    /\ IF stop THEN Return("failed") ELSE UNCHANGED <<pc, result>>
    /\ UNCHANGED <<probe, case, control, direction, iter, a, p, stop,
                   hardware, meterVars, given>>

KeepWaiting ==
    /\ pc = "await"
    /\ ~ready
    /\ elapsed' = Longer(elapsed)
    /\ IF elapsed' >= TimeOut \/ stop
       THEN Return("failed") ELSE UNCHANGED <<pc, result>>
    /\ UNCHANGED <<probe, case, control, direction, iter, a, p, stop,
                   hardware, meterVars, given>>

-----------------------------------------------------------------------------
(* The threads outside: stopMaximizer, and LabVIEW reading the power meter  *)
(* and calling setIFPower, whether or not a value was asked for.            *)

StopMaximizer ==
    /\ ~stop
    /\ stop' = TRUE
    /\ UNCHANGED <<searchVars, hardware, meterVars, given>>

ReadMeter ==
    /\ ~immediate
    /\ reading' = power[commanded]
    /\ UNCHANGED <<searchVars, stop, hardware, ready, depVal, given>>

SetDependentValue ==
    /\ ~immediate
    /\ depVal' = reading
    /\ ready' = TRUE
    /\ UNCHANGED <<searchVars, stop, hardware, reading, given>>

-----------------------------------------------------------------------------
Search ==
    \/ OutOfRange \/ SetControl \/ Analyse \/ AnalyseStopped
    \/ TestStop \/ StartWaiting \/ Drain \/ RequestImmediate \/ RequestLater
    \/ TakeValue \/ KeepWaiting

Next ==
    \/ BeginSearch
    \/ Search
    \/ StopMaximizer
    \/ ReadMeter
    \/ SetDependentValue

Spec == Init /\ [][Next]_vars

\* The thread that runs maximize runs; nobody has to call it or to stop it,
\* and the meter need not answer.
FairSpec == Spec /\ WF_vars(Search)

-----------------------------------------------------------------------------
(* maximize "Returns true if maximum found.  The control value where the    *)
(* maximum was found is returned in controlStart."  When the values it is   *)
(* given are those of the control values it set, a search that returns true *)
(* leaves the hardware at the control value it returns, and the power there *)
(* is at least that of the values a step below and a step above, which lie  *)
(* in the range.  The three pairs must stay the neighbours of each other    *)
(* through every change of direction for this to hold.                      *)
SuccessIsPeak ==
    result = "found" =>
        /\ commanded = control
        /\ immediate =>
            \A s \in {-ControlStep, ControlStep} :
                control + s \in Controls /\ power[control + s] <= power[control]

(* A search that is given the values it asks for ends by itself: it finds a *)
(* peak, leaves the range, meets a flat stretch or is caught oscillating,   *)
(* in no more analysis rounds than there are control values.  The upward    *)
(* search that steps down where it should step on (Maximizer.cpp:463) is    *)
(* caught by the oscillation test, not by the limit on the iterations.      *)
NoRunaway ==
    immediate => iter <= ((ControlMax - ControlMin) \div ControlStep) + 1

(* maximize returns: after a peak, an error, a timeout, a stop or too many  *)
(* iterations.  The one thing that can keep it is the loop that drains the  *)
(* input, if a value arrives before each of its turns.                      *)
SearchReturns == pc # "idle" ~> (pc = "done" \/ [](pc = "drain"))
=============================================================================
