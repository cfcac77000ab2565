------------------------- MODULE MeasurementProofs --------------------------
(***************************************************************************)
(* Theorems about the workers that measure and what they make of it.       *)
(*                                                                         *)
(* Maximizer: for every range, step, limit and function the search keeps   *)
(* its types and its range, a peak that it reports is one, and it ends     *)
(* after at most one analysis round more than the range has steps.         *)
(*                                                                         *)
(* HealthCheck: for any cartridges, missing tables and number of threads,  *)
(* rows stand under headers of their kind, and the settings that a health  *)
(* check records are those it made.                                        *)
(***************************************************************************)
EXTENDS Maximizer, HealthCheck, SequenceTheorems, TLAPS

(***************************************************************************)
(* Maximizer.                                                              *)
(***************************************************************************)
LEMMA StrideType == \A d \in {-1, 1} : Stride(d) \in Int
BY StepAssumption DEF Stride

LEMMA StrideValue == Stride(1) = ControlStep /\ Stride(-1) = -ControlStep
BY StepAssumption, SMT DEF Stride

LEMMA SomePowerType == SomePower \in Powers
BY PowersAssumption DEF SomePower

LEMMA NothingYetType == NoControls \in [1..3 -> Int] /\ NoPowers \in [1..3 -> Powers]
<1>1. ControlMin \in Int
  BY RangeAssumption
<1>2. NoControls \in [1..3 -> Int]
  BY <1>1 DEF NoControls
<1>3. NoPowers \in [1..3 -> Powers]
  BY SomePowerType DEF NoPowers
<1> QED
  BY <1>2, <1>3

LEMMA NoHistoryType == <<>> \in Seq(Controls)
OBVIOUS

LEMMA LongerType == \A t \in 0..TimeOut : Longer(t) \in 0..TimeOut
BY BoundsAssumption DEF Longer

LEMMA LowestIsControl == ControlMin \in Controls /\ Controls \subseteq Int
BY RangeAssumption DEF Controls

LEMMA LastFiveType ==
    ASSUME NEW h \in Seq(Controls), NEW c \in Controls
    PROVE  LastFive(Append(h, c)) \in Seq(Controls)
<1> DEFINE g == Append(h, c)
<1>1. g \in Seq(Controls) /\ Len(g) \in Nat
  OBVIOUS
<1>2. CASE Len(g) <= 5
  BY <1>1, <1>2 DEF LastFive
<1>3. CASE Len(g) > 5
  <2>1. SubSeq(g, Len(g) - 4, Len(g)) \in Seq(Controls)
    <3>1. \A i \in (Len(g) - 4)..Len(g) : g[i] \in Controls
      BY <1>1, <1>3
    <3> HIDE DEF g
    <3> QED
      BY <1>1, <1>3, <3>1
  <2> QED
    BY <1>1, <1>3, <2>1 DEF LastFive
<1> QED
  BY <1>1, <1>2, <1>3

-----------------------------------------------------------------------------
LEMMA UseType ==
    ASSUME TypeOK, NEW v \in Powers, Use(v)
    PROVE  /\ pc' \in PCs /\ probe' \in 1..5 /\ control' \in Int
           /\ a' \in [1..3 -> Int] /\ p' \in [1..3 -> Powers]
           /\ result' \in {"none", "found", "failed"}
<1> USE StrideType, StepAssumption DEF TypeOK, PCs, Aim, AtPeak
<1>1. CASE probe \in {1, 2} /\ Record(probe, v) /\ Aim(probe + 1, control + Stride(direction)) /\ UNCHANGED result
  BY <1>1 DEF Record
<1>2. CASE probe = 3 /\ Record(3, v) /\ pc' = "analyse" /\ UNCHANGED <<probe, control, result>>
  BY <1>2 DEF Record
<1>3. CASE probe = AtPeak /\ Record(2, v) /\ Return("found") /\ UNCHANGED <<probe, control>>
  BY <1>3 DEF Record, Return
<1>4. CASE Climb(v)
  BY <1>4 DEF Climb
<1>5. CASE Reverse(v)
  BY <1>5 DEF Reverse
<1>6. CASE Crest(v)
  BY <1>6 DEF Crest
<1> QED
  BY <1>1, <1>2, <1>3, <1>4, <1>5, <1>6 DEF Use

(* Every variable of the search keeps its type, and the hardware only ever *)
(* gets control values within the range.                                   *)
THEOREM TypeCorrect == Spec => []TypeOK
<1> USE DEF searchVars, meterVars, hardware, given, PCs
<1>1. Init => TypeOK
  <2> SUFFICES ASSUME Init PROVE TypeOK
    OBVIOUS
  <2>1. /\ a \in [1..3 -> Int] /\ p \in [1..3 -> Powers]
        /\ history \in Seq(Controls)
    BY NothingYetType, NoHistoryType DEF Init
  <2>2. /\ control \in Int /\ commanded \in Controls
        /\ power[ControlMin] \in Powers
    BY LowestIsControl DEF Init
  <2>3. elapsed \in 0..TimeOut
    BY BoundsAssumption DEF Init
  <2>4. /\ power \in [Controls -> Powers] /\ immediate \in BOOLEAN
        /\ stop \in BOOLEAN /\ ready \in BOOLEAN
    BY Zenon DEF Init
  <2>5. /\ pc \in PCs /\ probe \in 1..5 /\ case \in {"a", "b", "c"}
        /\ direction \in {-1, 1} /\ iter \in Nat
        /\ result \in {"none", "found", "failed"}
    BY DEF Init
  <2>6. depVal \in Powers /\ reading \in Powers
    BY <2>2, SomePowerType DEF Init
  <2> QED
    BY <2>1, <2>2, <2>3, <2>4, <2>5, <2>6, Zenon DEF TypeOK
<1>2. TypeOK /\ [Next]_vars => TypeOK'
  <2> SUFFICES ASSUME TypeOK, [Next]_vars PROVE TypeOK'
    OBVIOUS
  <2> USE DEF TypeOK
  <2>1. CASE BeginSearch
    <3>1. /\ a' \in [1..3 -> Int] /\ p' \in [1..3 -> Powers]
          /\ history' \in Seq(Controls)
      BY <2>1, NothingYetType, NoHistoryType DEF BeginSearch
    <3>2. elapsed' \in 0..TimeOut
      BY <2>1, BoundsAssumption DEF BeginSearch
    <3>3. control' \in Int /\ pc' = "set" /\ probe' = 1
      BY <2>1, LowestIsControl DEF BeginSearch, Aim
    <3>4. /\ case' \in {"a", "b", "c"} /\ direction' \in {-1, 1}
          /\ iter' \in Nat /\ result' \in {"none", "found", "failed"}
      BY <2>1 DEF BeginSearch
    <3>5. /\ power' \in [Controls' -> Powers] /\ immediate' \in BOOLEAN
          /\ stop' \in BOOLEAN /\ ready' \in BOOLEAN
          /\ commanded' \in Controls /\ depVal' \in Powers /\ reading' \in Powers
      BY <2>1, Zenon DEF BeginSearch, Controls
    <3>6. pc' \in PCs /\ probe' \in 1..5
      BY <3>3
    <3> QED
      BY <3>1, <3>2, <3>3, <3>4, <3>5, <3>6, Zenon DEF TypeOK, Controls
  <2>2. CASE OutOfRange
    BY <2>2 DEF OutOfRange, Return
  <2>3. CASE SetControl
    BY <2>3, LastFiveType, BoundsAssumption DEF SetControl, Oscillates
  <2>4. CASE Analyse
    <3>1. direction' \in {-1, 1} /\ case' \in {"a", "b", "c"}
      BY <2>4 DEF Analyse, CaseOf, Return
    <3>2. control' \in Int
      BY <2>4, <3>1, StrideType DEF Analyse, Return, Aim
    <3> QED
      BY <2>4, <3>1, <3>2 DEF Analyse, Return, Aim
  <2>5. CASE AnalyseStopped
    BY <2>5 DEF AnalyseStopped, Return
  <2>6. CASE TestStop
    BY <2>6 DEF TestStop, Return
  <2>7. CASE StartWaiting
    BY <2>7 DEF StartWaiting
  <2>8. CASE Drain
    BY <2>8, LongerType DEF Drain
  <2>9. CASE RequestImmediate
    <3>1. power[commanded] \in Powers /\ Use(power[commanded])
      BY <2>9 DEF RequestImmediate
    <3> QED
      BY <2>9, <3>1, UseType DEF RequestImmediate
  <2>10. CASE RequestLater
    BY <2>10 DEF RequestLater
  <2>11. CASE TakeValue
    <3>1. depVal \in Powers /\ Use(depVal)
      BY <2>11 DEF TakeValue
    <3> QED
      BY <2>11, <3>1, UseType DEF TakeValue
  <2>12. CASE KeepWaiting
    BY <2>12, LongerType DEF KeepWaiting, Return
  <2>13. CASE StopMaximizer
    BY <2>13 DEF StopMaximizer
  <2>14. CASE ReadMeter
    BY <2>14 DEF ReadMeter
  <2>15. CASE SetDependentValue
    BY <2>15 DEF SetDependentValue
  <2>16. CASE UNCHANGED vars
    BY <2>16 DEF vars
  <2> QED
    BY <2>1, <2>2, <2>3, <2>4, <2>5, <2>6, <2>7, <2>8, <2>9, <2>10, <2>11,
       <2>12, <2>13, <2>14, <2>15, <2>16 DEF Next, Search
<1> QED
  BY <1>1, <1>2, PTL DEF Spec

-----------------------------------------------------------------------------
(* The inductive invariant behind SuccessIsPeak.                            *)

\* Between setControlValue and the use of the value, and during the analysis,
\* the hardware has the search's control value; a peak is only reported there.
\* A search that is given its values at once waits for none.
Settled ==
    /\ pc \in {"wait", "drain", "request", "await", "analyse"}
          => commanded = control
    /\ result = "found" => pc = "done" /\ commanded = control
    /\ immediate => pc # "await"

\* The pair i was measured.
Known(i) == a[i] \in Controls /\ p[i] = power[a[i]]

\* Three pairs in a row, or the first two after a change of direction that
\* brought the search back to the first.
Line(d) == a[2] = a[1] + Stride(d) /\ a[3] = a[2] + Stride(d)
Fold(d) == a[2] = a[1] + Stride(d) /\ a[3] = a[1]

Known3  == Known(1) /\ Known(2) /\ Known(3)

\* What the search relies on when it goes for each of its values.
Aimed ==
    /\ probe = 2 => Known(1) /\ control = a[1] + Stride(direction)
    /\ probe = 3 => /\ Known(1) /\ Known(2)
                    /\ a[2] = a[1] + Stride(direction)
                    /\ control \in {a[1], a[2] + Stride(direction)}
    /\ probe = 4 /\ case = "a" => /\ Known3 /\ Line(direction)
                                  /\ control = a[3] + Stride(direction)
    /\ probe = 4 /\ case = "b" => /\ Known3 /\ Line(-direction)
                                  /\ control = a[2]
    /\ probe = 4 /\ case = "c" => /\ Known3 /\ Crested(p)
                                  /\ Line(direction) \/ Fold(direction)
                                  /\ control = a[3] + Stride(direction)
    /\ probe = 5 => Known3 /\ Line(direction) /\ Crested(p) /\ control = a[2]

Placed ==
    immediate =>
        /\ pc \in {"set", "wait", "drain", "request", "await"} => Aimed
        /\ pc = "analyse" => /\ Known3 /\ control = a[3]
                             /\ Line(direction) \/ Fold(direction)
        /\ result = "found" => /\ Known3 /\ control = a[2] /\ Crested(p)
                               /\ Line(direction)

PeakInv == Settled /\ Placed

InPlace ==      \* Placed without its guard
    /\ pc \in {"set", "wait", "drain", "request", "await"} => Aimed
    /\ pc = "analyse" => /\ Known3 /\ control = a[3]
                         /\ Line(direction) \/ Fold(direction)
    /\ result = "found" => /\ Known3 /\ control = a[2] /\ Crested(p)
                           /\ Line(direction)

(* With the value of the control value it asked for, the search goes on    *)
(* with pairs that are neighbours of each other.                            *)
LEMMA UseKeepsPlace ==
    ASSUME TypeOK, Aimed, control \in Controls, result # "found",
           Use(power[control]), UNCHANGED <<case, direction, power>>
    PROVE  InPlace'
<1> DEFINE v == power[control]
<1>1. v \in Powers /\ v \in Int
  BY PowersAssumption DEF TypeOK
<1>2. Stride(direction) \in Int
  BY StrideType DEF TypeOK
<1>3. direction \in {-1, 1} /\ a \in [1..3 -> Int] /\ p \in [1..3 -> Int] /\ control \in Int
  BY PowersAssumption DEF TypeOK
<1>4. Stride(direction') = Stride(direction)
  BY DEF Stride
<1>5. CASE probe \in {1, 2} /\ Record(probe, v) /\ Aim(probe + 1, control + Stride(direction)) /\ UNCHANGED result
  <2>1. pc' = "set" /\ result' # "found" /\ probe' \in {2, 3}
    BY <1>5 DEF Aim
  <2>2. Aimed'
    BY <1>2, <1>3, <1>4, <1>5 DEF Record, Aim, Aimed, Known
  <2> QED
    BY <2>1, <2>2 DEF InPlace
<1>6. CASE probe = 3 /\ Record(3, v) /\ pc' = "analyse" /\ UNCHANGED <<probe, control, result>>
  <2>1. Known3' /\ control' = a'[3]
    BY <1>3, <1>6 DEF Record, Aimed, Known3, Known
  <2>2. (Line(direction) \/ Fold(direction))'
    BY <1>2, <1>3, <1>4, <1>6 DEF Record, Aimed, Line, Fold
  <2> QED
    BY <1>6, <2>1, <2>2 DEF InPlace
<1>7. CASE probe = AtPeak /\ Record(2, v) /\ Return("found") /\ UNCHANGED <<probe, control>>
  <2>1. a' = a /\ p' = p
    BY <1>3, <1>7 DEF Record, Aimed, Known3, Known, AtPeak
  <2> QED
    BY <1>4, <1>7, <2>1 DEF InPlace, Return, Aimed, AtPeak, Known3, Known, Line, Crested
<1>8. CASE probe = 4 /\ case = "a" /\ Climb(v)
  <2>1. Known3' /\ control' = a'[3]
    BY <1>3, <1>8 DEF Climb, Aimed, Known3, Known
  <2>2. Line(direction)'
    BY <1>2, <1>3, <1>4, <1>8 DEF Climb, Aimed, Line
  <2> QED
    BY <1>8, <2>1, <2>2 DEF InPlace, Climb
<1>9. CASE probe = 4 /\ case = "b" /\ Reverse(v)
  <2>1. Known3' /\ control' = a'[3]
    BY <1>3, <1>9 DEF Reverse, Aimed, Known3, Known
  <2>2. Fold(direction)'
    <3>1. Stride(-direction) = -Stride(direction)
      BY <1>3, StrideValue, StepAssumption
    <3>2. a[2] = a[1] - Stride(direction) /\ control = a[2]
      BY <1>2, <1>3, <1>9, <3>1 DEF Aimed, Line
    <3>3. a'[1] = a[2] /\ a'[2] = a[1] /\ a'[3] = control
      BY <1>9 DEF Reverse
    <3> QED
      BY <1>2, <1>3, <1>4, <3>2, <3>3 DEF Fold
  <2> QED
    BY <1>9, <2>1, <2>2 DEF InPlace, Reverse
<1>10. CASE probe = 4 /\ case = "c" /\ Crest(v)
  <2>1. /\ Known3 /\ Crested(p) /\ control = a[3] + Stride(direction)
        /\ Line(direction) \/ Fold(direction)
    BY <1>10 DEF Aimed
  <2>2. pc' = "set" /\ result' # "found"
    BY <1>10 DEF Crest, Aim
  <2>3. CASE v < p[3] /\ v < p[2]
    <3>1. ~Fold(direction)
      BY <1>2, <1>3, <2>1, <2>3 DEF Fold, Known3, Known
    <3>2. /\ probe' = 5 /\ control' = control - 2 * Stride(direction)
          /\ a' = a /\ p' = p
      BY <1>10, <2>3 DEF Crest, Aim, AtPeak
    <3>3. Aimed'
      BY <1>2, <1>3, <1>4, <2>1, <3>1, <3>2 DEF Aimed, Known3, Known, Line, Crested
    <3> QED
      BY <2>2, <3>3 DEF InPlace
  <2>4. CASE ~(v < p[3] /\ v < p[2])
    <3>1. /\ probe' = 3 /\ control' = control - ControlStep
          /\ a' = <<a[3], control, a[3]>> /\ p' = <<p[3], v, p[3]>>
      BY <1>10, <2>4 DEF Crest, Aim
    <3>2. Known(1)' /\ Known(2)' /\ a'[2] = a'[1] + Stride(direction)
      BY <1>3, <2>1, <3>1 DEF Known3, Known
    <3>3. control' \in {a'[1], a'[2] + Stride(direction)}
      BY <1>3, <2>1, <3>1, StrideValue, StepAssumption
    <3>4. Aimed'
      BY <1>4, <3>1, <3>2, <3>3 DEF Aimed
    <3> QED
      BY <2>2, <3>4 DEF InPlace
  <2> QED
    BY <2>3, <2>4
<1> QED
  BY <1>5, <1>6, <1>7, <1>8, <1>9, <1>10 DEF Use

(* The analysis aims at the fourth value with what its case needs.         *)
LEMMA AnalyseKeepsPlace ==
    ASSUME TypeOK, InPlace, result # "found", Analyse
    PROVE  InPlace'
<1>1. Stride(direction) \in Int /\ Stride(-direction) = -Stride(direction)
  BY StrideType, StrideValue, StepAssumption DEF TypeOK
<1>2. direction \in {-1, 1} /\ a \in [1..3 -> Int] /\ p \in [1..3 -> Int]
  BY PowersAssumption DEF TypeOK
<1>3. Known3 /\ control = a[3] /\ (Line(direction) \/ Fold(direction))
  BY DEF InPlace, Analyse
<1>4. UNCHANGED <<a, p, power>>
  BY DEF Analyse, given
<1>5. CASE iter' >= MaxIter \/ Hopeless(p)
  BY <1>5 DEF Analyse, Return, InPlace
<1>6. CASE ~(iter' >= MaxIter \/ Hopeless(p))
  <2>1. /\ pc' = "set" /\ probe' = 4 /\ result' # "found"
        /\ case' = CaseOf(p)
        /\ direction' = IF case' = "b" THEN -direction ELSE direction
        /\ control' = control + Stride(direction')
    BY <1>6 DEF Analyse, Aim
  <2>2. Fold(direction) => CaseOf(p) = "c"
    BY <1>2, <1>3, <1>6 DEF Fold, Known3, Known, Hopeless, CaseOf, Rising, Falling, Crested
  <2>3. Known3'
    BY <1>4 , <1>3 DEF Known3, Known
  <2>4. CASE CaseOf(p) = "a"
    <3>1. Line(direction)
      BY <1>3, <2>2, <2>4
    <3> QED
      BY <1>3, <1>4, <2>1, <2>3, <2>4, <3>1 DEF InPlace, Aimed, Line
  <2>5. CASE CaseOf(p) = "b"
    <3>1. Line(direction) /\ direction' = -direction
      BY <1>3, <2>1, <2>2, <2>5
    <3>2. -direction' = direction
      BY <1>2, <3>1
    <3>3. control' = a[2]
      BY <1>1, <1>2, <1>3, <2>1, <3>1 DEF Line
    <3>4. Line(-direction)'
      BY <1>4, <3>1, <3>2 DEF Line
    <3> QED
      BY <1>4, <2>1, <2>3, <2>5, <3>3, <3>4 DEF InPlace, Aimed
  <2>6. CASE CaseOf(p) = "c"
    <3>1. Crested(p) /\ direction' = direction
      BY <1>6, <2>1, <2>6 DEF Hopeless, CaseOf
    <3> QED
      BY <1>3, <1>4, <2>1, <2>3, <2>6, <3>1 DEF InPlace, Aimed, Line, Fold
  <2> QED
    BY <2>4, <2>5, <2>6 DEF CaseOf
<1> QED
  BY <1>5, <1>6

LEMMA PeakInvHolds == Spec => []PeakInv
<1> USE DEF searchVars, meterVars, hardware, given
<1>1. Init => PeakInv
  BY DEF Init, PeakInv, Settled, Placed
<1>2. TypeOK /\ PeakInv /\ [Next]_vars => PeakInv'
  <2> SUFFICES ASSUME TypeOK, PeakInv, [Next]_vars PROVE PeakInv'
    OBVIOUS
  <2>0. Settled /\ (immediate => InPlace)
    BY DEF PeakInv, Placed, InPlace
  <2>1. Settled'
    <3> USE <2>0 DEF Settled, Aim, Return
    <3>1. CASE BeginSearch
      BY <3>1 DEF BeginSearch
    <3>2. CASE OutOfRange
      BY <3>2 DEF OutOfRange
    <3>3. CASE SetControl
      BY <3>3 DEF SetControl
    <3>4. CASE Analyse
      BY <3>4 DEF Analyse
    <3>5. CASE AnalyseStopped
      BY <3>5 DEF AnalyseStopped
    <3>6. CASE TestStop
      BY <3>6 DEF TestStop
    <3>7. CASE StartWaiting
      BY <3>7 DEF StartWaiting
    <3>8. CASE Drain
      BY <3>8 DEF Drain
    <3>9. CASE RequestImmediate
      BY <3>9 DEF RequestImmediate, Use, Climb, Reverse, Crest
    <3>10. CASE RequestLater
      BY <3>10 DEF RequestLater
    <3>11. CASE TakeValue
      BY <3>11 DEF TakeValue, Use, Climb, Reverse, Crest
    <3>12. CASE KeepWaiting
      BY <3>12 DEF KeepWaiting
    <3>13. CASE StopMaximizer \/ ReadMeter \/ SetDependentValue \/ UNCHANGED vars
      BY <3>13 DEF StopMaximizer, ReadMeter, SetDependentValue, vars
    <3> QED
      BY <3>1, <3>2, <3>3, <3>4, <3>5, <3>6, <3>7, <3>8, <3>9, <3>10, <3>11,
         <3>12, <3>13 DEF Next, Search
  <2>2. ASSUME immediate' PROVE InPlace'
    <3>1. immediate /\ InPlace
      BY <2>0, <2>2 DEF Next, Search, BeginSearch, OutOfRange, SetControl, Analyse,
         AnalyseStopped, TestStop, StartWaiting, Drain, RequestImmediate,
         RequestLater, TakeValue, KeepWaiting, StopMaximizer, ReadMeter,
         SetDependentValue, vars
    <3>2. CASE BeginSearch
      BY <3>2 DEF BeginSearch, Aim, InPlace, Aimed
    <3>3. CASE Analyse
      <4>1. result # "found"
        BY <2>0, <3>3 DEF Settled, Analyse
      <4> QED
        BY <3>1, <3>3, <4>1, AnalyseKeepsPlace
    <3>4. CASE RequestImmediate
      <4>1. result # "found" /\ commanded = control /\ Aimed
        BY <2>0, <3>1, <3>4 DEF Settled, RequestImmediate, InPlace
      <4>2. control \in Controls
        BY <4>1 DEF TypeOK
      <4>3. Use(power[control]) /\ UNCHANGED <<case, direction, power>>
        BY <3>4, <4>1 DEF RequestImmediate
      <4> QED
        BY <4>1, <4>2, <4>3, UseKeepsPlace
    <3>5. CASE OutOfRange \/ AnalyseStopped \/ TestStop
      BY <2>0, <3>1, <3>5 DEF OutOfRange, AnalyseStopped, TestStop, Return, InPlace, Settled
    <3>6. CASE SetControl \/ StartWaiting \/ Drain \/ RequestLater
      <4>1. /\ UNCHANGED <<probe, case, control, direction, a, p, power, result>>
            /\ pc \in {"set", "wait", "drain", "request"}
            /\ pc' \in {"wait", "drain", "request", "await"}
        BY <3>6 DEF SetControl, StartWaiting, Drain, RequestLater
      <4> QED
        BY <2>0, <3>1, <4>1 DEF InPlace, Settled, Aimed, Known3, Known, Line, Fold, Crested
    <3>7. CASE KeepWaiting \/ TakeValue
      BY <2>0, <3>1, <3>7 DEF KeepWaiting, TakeValue, Settled
    <3>8. CASE StopMaximizer \/ ReadMeter \/ SetDependentValue \/ UNCHANGED vars
      <4>1. UNCHANGED <<pc, probe, case, control, direction, a, p, power, result>>
        BY <3>8 DEF StopMaximizer, ReadMeter, SetDependentValue, vars
      <4> QED
        BY <3>1, <4>1 DEF InPlace, Aimed, Known3, Known, Line, Fold, Crested
    <3> QED
      BY <3>2, <3>3, <3>4, <3>5, <3>6, <3>7, <3>8 DEF Next, Search
  <2> QED
    BY <2>1, <2>2 DEF PeakInv, Placed, InPlace
<1> QED
  BY <1>1, <1>2, TypeCorrect, PTL DEF Spec

(* A search that reports success has left the hardware at the value it     *)
(* returns, and no control value a step away gives more power, whatever    *)
(* the function, the range and the step.                                    *)
THEOREM SuccessIsPeakHolds == Spec => []SuccessIsPeak
<1>1. TypeOK /\ PeakInv => SuccessIsPeak
  <2> SUFFICES ASSUME TypeOK, PeakInv, result = "found" PROVE SuccessIsPeak
    BY DEF SuccessIsPeak
  <2>1. commanded = control
    BY DEF PeakInv, Settled
  <2>2. ASSUME immediate
        PROVE  \A s \in {-ControlStep, ControlStep} :
                  control + s \in Controls /\ power[control + s] <= power[control]
    <3>1. Known3 /\ control = a[2] /\ Crested(p) /\ Line(direction)
      BY <2>2 DEF PeakInv, Placed
    <3>2. direction \in {-1, 1} /\ a \in [1..3 -> Int]
      BY DEF TypeOK
    <3>3. \/ a[1] = control - ControlStep /\ a[3] = control + ControlStep
          \/ a[1] = control + ControlStep /\ a[3] = control - ControlStep
      BY <3>1, <3>2, StrideValue, StepAssumption DEF Line
    <3>4. /\ a[1] \in Controls /\ a[3] \in Controls
          /\ power[a[1]] <= power[control] /\ power[a[3]] <= power[control]
      BY <3>1 DEF Known3, Known, Crested
    <3>5. control + (-ControlStep) = control - ControlStep
      BY <3>1, <3>2, StepAssumption
    <3> QED
      BY <3>3, <3>4, <3>5
  <2> QED
    BY <2>1, <2>2 DEF SuccessIsPeak
<1> QED
  BY <1>1, TypeCorrect, PeakInvHolds, PTL

-----------------------------------------------------------------------------
(* The inductive invariant behind NoRunaway: every analysis round but two   *)
(* has taken the search a step further from the end of the range it came    *)
(* from.  Of those two one is spent where the function falls from the start *)
(* or is flat on top, and the other ends the search.  A search that steps   *)
(* back where it should step on has set the same control value every other  *)
(* time, and the oscillation test ends it before its next round.            *)

Width == ControlMax - ControlMin
Rounds(n) == ControlStep * n    \* the distance that n rounds cover
Behind(x) == IF direction = 1 THEN x - ControlMin ELSE ControlMax - x

\* The control value that was set k values before the last one, and k values
\* before the last one the search has used.
Past(k, x) == Len(history) > k /\ history[Len(history) - k] = x
Been(k, x) == Past(IF pc = "set" THEN k ELSE k + 1, x)

Probing == {"set", "wait", "drain", "request", "await"}

\* What the search knows on its way to the third value: it is its first round,
\* it goes on downward, or it has stepped back; and if it does so for the
\* second time, it will not come further than to setting it.
Third ==
    /\ Been(0, a[2])
    /\ \/ iter = 0 /\ control = a[2] + Stride(direction)
       \/ /\ direction = -1 /\ control = a[2] + Stride(direction)
          /\ p[1] <= p[2] /\ Rounds(iter + 1) <= Behind(control)
       \/ /\ direction = 1 /\ control = a[1]
          /\ Rounds(iter) <= Width /\ Been(1, control)
       \/ direction = 1 /\ pc = "set" /\ Been(1, control) /\ Been(3, control)

\* On its way to the fourth, when the function falls: it does so from a flat
\* top, or in the first round.
Fall ==
    \/ p[1] = p[2] /\ Rounds(iter) <= Width
    \/ iter = 1 /\ direction = -1 /\ a[2] + ControlStep <= ControlMax
    \/ /\ iter = 1 /\ direction = 1
       /\ Been(1, control) /\ ControlStep <= Width

\* When it has a crest.
Top ==
    /\ Been(0, a[3])
    /\ \/ Line(direction) /\ Rounds(iter) <= Behind(a[3])
       \/ /\ Fold(direction) /\ direction = -1 /\ iter = 2
          /\ a[3] + ControlStep <= ControlMax
       \/ Fold(direction) /\ direction = 1 /\ Been(2, a[3])

Nearing ==
    /\ probe \in {1, 2} => iter = 0
    /\ probe = 3 => Third
    /\ probe = 4 /\ case = "a" => p[2] <= p[3] /\ Rounds(iter) <= Behind(a[3])
    /\ probe = 4 /\ case = "b" => Fall
    /\ probe = 4 /\ case = "c" => Top

\* Before an analysis round: the first, one on the way up, one on a flat top,
\* the second when the first was a fall, and one after a step back.
Looking ==
    \/ iter = 0 /\ Line(direction) /\ Been(0, a[2])
    \/ Line(direction) /\ p[1] <= p[2] /\ Rounds(iter + 1) <= Behind(a[3])
    \/ Fold(direction) /\ p[1] = p[2] /\ Rounds(iter) <= Width
    \/ /\ Fold(direction) /\ direction = -1 /\ iter = 1
       /\ a[3] + ControlStep <= ControlMax
    \/ Fold(direction) /\ direction = 1 /\ Rounds(iter) <= Width /\ Been(1, a[3])

Bounded ==
    /\ pc \in {"wait", "drain", "request", "analyse"} => Past(0, control)
    /\ pc \in Probing => Nearing
    /\ pc = "analyse" => Looking

EndInv == NoRunaway /\ (immediate /\ ~stop => Bounded)

(* Rounds that fit into the range are as many as it has steps, at most.     *)
LEMMA RoundsFit ==
    ASSUME NEW n \in Nat, Rounds(n) <= Width
    PROVE  n <= (ControlMax - ControlMin) \div ControlStep
<1> DEFINE q == Width \div ControlStep
<1>1. ControlStep \in Nat /\ ControlStep > 0 /\ Width \in Nat
  BY StepAssumption, RangeAssumption DEF Width
<1> HIDE DEF q
<1>2. q \in Int /\ Width < ControlStep * (q + 1)
  BY <1>1, SMT DEF q
<1>3. ASSUME n >= q + 1 PROVE FALSE
  <2>1. ControlStep * n >= ControlStep * (q + 1)
    BY <1>1, <1>2, <1>3, SMT
  <2> QED
    BY <1>1, <1>2, <2>1, SMT DEF Rounds
<1>4. n <= q
  BY <1>2, <1>3
<1> QED
  BY <1>4 DEF q, Width

(* The distance of one round more.                                          *)
LEMMA RoundMore ==
    ASSUME NEW n \in Nat
    PROVE  /\ Rounds(n) \in Nat /\ Rounds(n + 1) = Rounds(n) + ControlStep
           /\ Rounds(0) = 0 /\ Rounds(1) = ControlStep
           /\ Rounds(2) = 2 * ControlStep /\ Rounds(3) = 3 * ControlStep
  BY StepAssumption, SMT DEF Rounds

(* What the last five control values keep of those before.                  *)
LEMMA LastFiveKeeps ==
    ASSUME NEW h \in Seq(Controls), NEW c \in Controls
    PROVE  LET g == LastFive(Append(h, c))
           IN  /\ Len(g) \in 1..5 /\ g[Len(g)] = c
               /\ \A k \in 0..3 : Len(h) > k =>
                     Len(g) > k + 1 /\ g[Len(g) - (k + 1)] = h[Len(h) - k]
<1> DEFINE e == Append(h, c)
<1>1. /\ e \in Seq(Controls) /\ Len(e) = Len(h) + 1 /\ Len(h) \in Nat
      /\ e[Len(h) + 1] = c /\ \A i \in 1..Len(h) : e[i] = h[i]
  OBVIOUS
<1> HIDE DEF e
<1>2. CASE Len(e) <= 5
  <2>1. LastFive(e) = e
    BY <1>2 DEF LastFive
  <2> QED
    BY <1>1, <1>2, <2>1 DEF e
<1>3. CASE Len(e) > 5
  <2> DEFINE g == SubSeq(e, Len(e) - 4, Len(e))
  <2>1. LastFive(e) = g
    BY <1>1, <1>3 DEF LastFive
  <2>2. Len(g) = 5 /\ \A i \in 1..5 : g[i] = e[Len(e) - 5 + i]
    BY <1>1, <1>3
  <2> HIDE DEF g
  <2>3. g[5] = c
    BY <1>1, <2>2
  <2>4. ASSUME NEW k \in 0..3 PROVE g[5 - (k + 1)] = h[Len(h) - k]
    <3>1. 5 - (k + 1) \in 1..5 /\ Len(e) - 5 + (5 - (k + 1)) = Len(h) - k
      BY <1>1, <1>3
    <3>2. Len(h) - k \in 1..Len(h)
      BY <1>1, <1>3
    <3> QED
      BY <1>1, <2>2, <3>1, <3>2
  <2> QED
    BY <2>1, <2>2, <2>3, <2>4 DEF e
<1> QED
  BY <1>1, <1>2, <1>3

(* Setting a control value keeps what was set before; the second step back  *)
(* makes the search oscillate.                                              *)
LEMMA SettingKeepsBounded ==
    ASSUME TypeOK, Bounded, SetControl, ~stop'
    PROVE  Bounded'
<1>1. /\ pc = "set" /\ pc' = "wait" /\ control \in Controls
      /\ UNCHANGED <<probe, case, control, direction, iter, a, p>>
      /\ history \in Seq(Controls) /\ history' = LastFive(Append(history, control))
      /\ ~Oscillates(history')
  BY DEF SetControl, TypeOK
<1>2. /\ Len(history') \in 1..5 /\ history'[Len(history')] = control
      /\ \A k \in 0..3 : Len(history) > k =>
            Len(history') > k + 1 /\ history'[Len(history') - (k + 1)] = history[Len(history) - k]
  BY <1>1, LastFiveKeeps
<1>3. Past(0, control)'
  <2>1. Len(history') > 0 /\ Len(history') - 0 = Len(history')
    BY <1>2
  <2> QED
    BY <1>1, <1>2, <2>1 DEF Past
<1>4. ASSUME NEW k \in 0..3, NEW x, Been(k, x) PROVE Been(k, x)'
  BY <1>1, <1>2, <1>4 DEF Been, Past
<1>5. ~(Been(1, control) /\ Been(3, control))
  <2> SUFFICES ASSUME Been(1, control), Been(3, control) PROVE FALSE
    OBVIOUS
  <2>1. /\ Len(history) > 3 /\ history[Len(history) - 1] = control
        /\ history[Len(history) - 3] = control
    BY <1>1 DEF Been, Past
  <2>2. /\ Len(history') > 4 /\ history'[Len(history') - 2] = control
        /\ history'[Len(history') - 4] = control
    BY <1>1, <1>2, <2>1
  <2>3. Len(history') = 5
    BY <1>2, <2>2
  <2> QED
    BY <1>1, <1>2, <2>2, <2>3 DEF Oscillates
<1>6. Nearing
  BY <1>1 DEF Bounded, Probing
<1>7. probe = 3 => Third'
  <2> SUFFICES ASSUME probe = 3 PROVE Third'
    OBVIOUS
  <2>1. Third
    BY <1>6 DEF Nearing
  <2>2. Been(0, a[2])' /\ (Been(1, control) => Been(1, control)')
    BY <1>1, <1>4, <2>1 DEF Third
  <2> QED
    BY <1>1, <1>5, <2>1, <2>2 DEF Third, Behind
<1>8. probe = 4 /\ case = "b" => Fall'
  <2>1. Been(1, control) => Been(1, control)'
    BY <1>1, <1>4
  <2> QED
    BY <1>1, <1>6, <2>1 DEF Nearing, Fall
<1>9. probe = 4 /\ case = "c" => Top'
  <2>1. (Been(0, a[3]) => Been(0, a[3])') /\ (Been(2, a[3]) => Been(2, a[3])')
    BY <1>1, <1>4
  <2> QED
    BY <1>1, <1>6, <2>1 DEF Nearing, Top, Line, Fold, Behind
<1> QED
  BY <1>1, <1>3, <1>6, <1>7, <1>8, <1>9 DEF Bounded, Probing, Nearing, Behind

(* The analysis after a rise, a fall and at a crest.                        *)
LEMMA AnalysisKeepsBounded ==
    ASSUME TypeOK, InPlace, result # "found", Bounded, Analyse
    PROVE  iter' <= Width \div ControlStep + 1 /\ Bounded'
<1>1. /\ pc = "analyse" /\ Looking /\ Past(0, control) /\ Known3 /\ control = a[3]
      /\ Line(direction) \/ Fold(direction)
      /\ iter' = iter + 1 /\ UNCHANGED <<a, p, history>>
  BY DEF Analyse, Bounded, InPlace, hardware
<1>2. /\ direction \in {-1, 1} /\ iter \in Nat /\ a \in [1..3 -> Int] /\ p \in [1..3 -> Int]
      /\ ControlStep \in Nat /\ ControlStep > 0 /\ ControlMin \in Int /\ ControlMax \in Int
      /\ \A i \in 1..3 : ControlMin <= a[i] /\ a[i] <= ControlMax
      /\ Width = ControlMax - ControlMin /\ Width >= 0
  <2>1. \A i \in 1..3 : a[i] \in Controls
    BY <1>1 DEF Known3, Known
  <2>2. direction \in {-1, 1} /\ iter \in Nat /\ a \in [1..3 -> Int] /\ p \in [1..3 -> Int]
    BY PowersAssumption DEF TypeOK
  <2>3. /\ ControlStep \in Nat /\ ControlStep > 0 /\ ControlMin \in Int /\ ControlMax \in Int
        /\ Width = ControlMax - ControlMin /\ Width >= 0
    BY StepAssumption, RangeAssumption DEF Width
  <2> QED
    BY <2>1, <2>2, <2>3 DEF Controls
<1>3. /\ Rounds(iter) \in Nat /\ Rounds(iter + 1) = Rounds(iter) + ControlStep
      /\ Rounds(0) = 0 /\ Rounds(1) = ControlStep
  BY <1>2, RoundMore
<1>4. \A x : Behind(x) = IF direction = 1 THEN x - ControlMin ELSE ControlMax - x
  BY DEF Behind
<1>5. /\ Line(direction) => \/ direction = 1 /\ a[2] = a[1] + ControlStep /\ a[3] = a[2] + ControlStep
                            \/ direction = -1 /\ a[2] = a[1] - ControlStep /\ a[3] = a[2] - ControlStep
      /\ Fold(direction) => /\ a[3] = a[1]
                            /\ \/ direction = 1 /\ a[2] = a[1] + ControlStep
                               \/ direction = -1 /\ a[2] = a[1] - ControlStep
  BY <1>2, StrideValue DEF Line, Fold
<1>6. iter = 0 \/ Rounds(iter) <= Width
  BY <1>1, <1>2, <1>3, <1>4 DEF Looking
<1>7. iter' <= Width \div ControlStep + 1
  BY <1>1, <1>2, <1>3, <1>6, RoundsFit DEF Width
<1>8. CASE iter' >= MaxIter \/ Hopeless(p)
  <2>1. pc' = "done"
    BY <1>8 DEF Analyse, Return
  <2> QED
    BY <1>7, <2>1 DEF Bounded, Probing
<1>9. CASE ~(iter' >= MaxIter \/ Hopeless(p))
  <2>1. /\ pc' = "set" /\ probe' = 4 /\ case' = CaseOf(p)
        /\ direction' = IF case' = "b" THEN -direction ELSE direction
        /\ control' = control + Stride(direction')
    BY <1>9 DEF Analyse, Aim
  <2>2. \A x, k : Past(k, x) => Been(k, x)'
    BY <1>1, <2>1 DEF Been, Past
  <2>3. \A x : (Been(0, x) => Been(1, x)') /\ (Been(1, x) => Been(2, x)')
    BY <1>1, <2>1 DEF Been, Past
  <2>4. Fold(direction) => CaseOf(p) = "c" /\ p[1] # p[2]
    BY <1>1, <1>2, <1>9 DEF Fold, Known3, Known, Hopeless, CaseOf, Rising, Falling, Crested
  <2>5. CASE CaseOf(p) = "a"
    <3>1. direction' = direction /\ p[2] <= p[3] /\ Line(direction)
      BY <1>1, <1>2, <2>1, <2>4, <2>5 DEF CaseOf, Rising
    <3>2. Rounds(iter') <= Behind(a[3])
      BY <1>1, <1>2, <1>3, <1>4, <1>5, <3>1, <2>4, <2>5 DEF Looking
    <3> QED
      BY <1>1, <1>7, <2>1, <2>5, <3>1, <3>2 DEF Bounded, Nearing, Probing, Behind
  <2>6. CASE CaseOf(p) = "b"
    <3>1. /\ direction' = -direction /\ Line(direction) /\ control' = a[2]
          /\ p[3] <= p[2] \/ (p[2] <= p[1] /\ p[3] < p[1])
          /\ ~Rising(p) /\ Falling(p)
      <4>1. direction' = -direction /\ Line(direction)
        BY <1>1, <2>1, <2>4, <2>6
      <4>2. Stride(-direction) = -Stride(direction) /\ Stride(direction) \in Int
        BY <1>2, StrideType, StrideValue, StepAssumption
      <4> QED
        BY <1>1, <1>2, <2>1, <2>6, <4>1, <4>2 DEF Line, CaseOf, Falling
    <3>2. CASE iter = 0 /\ Been(0, a[2])
      <4>1. Been(1, control)'
        BY <2>3, <3>1, <3>2
      <4>2. /\ ControlStep <= Width
            /\ direction' = -1 => a[2] + ControlStep <= ControlMax
        BY <1>2, <1>5, <3>1
      <4>3. iter' = 1 /\ direction' \in {-1, 1}
        BY <1>1, <1>2, <3>1, <3>2
      <4>4. Fall'
        BY <1>1, <4>1, <4>2, <4>3 DEF Fall, Width
      <4> QED
        BY <1>7, <2>1, <2>6, <4>4 DEF Bounded, Nearing, Probing
    <3>3. CASE p[1] <= p[2] /\ Rounds(iter + 1) <= Behind(a[3])
      <4>1. p[1] = p[2]
        BY <1>2, <3>1, <3>3 DEF Rising, Falling
      <4>2. Rounds(iter') <= Width
        BY <1>1, <1>2, <1>3, <1>4, <3>3
      <4>3. Fall'
        BY <1>1, <4>1, <4>2 DEF Fall, Width, Rounds
      <4> QED
        BY <1>7, <2>1, <2>6, <4>3 DEF Bounded, Nearing, Probing
    <3>4. ~Fold(direction)
      BY <2>4, <2>6
    <3> QED
      BY <1>1, <3>2, <3>3, <3>4 DEF Looking
  <2>7. CASE CaseOf(p) = "c"
    <3>1. direction' = direction
      BY <2>1, <2>7
    <3>2. Been(0, a[3])'
      BY <1>1, <2>2
    <3>3. CASE Line(direction) /\ (iter = 0 \/ Rounds(iter + 1) <= Behind(a[3]))
      <4>1. Rounds(iter') <= Behind(a[3])
        BY <1>1, <1>2, <1>3, <1>4, <1>5, <3>3
      <4>2. Top'
        BY <1>1, <3>1, <3>2, <3>3, <4>1 DEF Top, Line, Behind
      <4> QED
        BY <1>7, <2>1, <2>7, <4>2 DEF Bounded, Nearing, Probing
    <3>4. CASE Fold(direction) /\ direction = -1 /\ iter = 1 /\ a[3] + ControlStep <= ControlMax
      <4>1. Top'
        BY <1>1, <3>1, <3>2, <3>4 DEF Top, Fold
      <4> QED
        BY <1>7, <2>1, <2>7, <4>1 DEF Bounded, Nearing, Probing
    <3>5. CASE Fold(direction) /\ direction = 1 /\ Been(1, a[3])
      <4>1. Been(2, a[3])'
        BY <1>1, <2>3, <3>5
      <4>2. Top'
        BY <1>1, <3>1, <3>2, <3>5, <4>1 DEF Top, Fold
      <4> QED
        BY <1>7, <2>1, <2>7, <4>2 DEF Bounded, Nearing, Probing
    <3> QED
      BY <1>1, <2>4, <3>3, <3>4, <3>5 DEF Looking
  <2> QED
    BY <2>5, <2>6, <2>7 DEF CaseOf
<1> QED
  BY <1>8, <1>9

(* The use of a value leads to the next control value or to the analysis.   *)
LEMMA UseKeepsBounded ==
    ASSUME TypeOK, Aimed, Bounded, pc = "request", commanded = control,
           control \in Controls, Use(power[control]),
           UNCHANGED <<case, direction, iter, history, power>>
    PROVE  Bounded'
<1> DEFINE v == power[control]
<1>1. /\ Past(0, control) /\ Nearing
      /\ pc' \in {"set", "analyse", "done"}
      /\ pc' = "analyse" => control' = control
  <2>1. Past(0, control) /\ Nearing
    BY DEF Bounded, Probing
  <2>2. /\ pc' \in {"set", "analyse", "done"}
        /\ pc' = "analyse" => control' = control
    BY DEF Use, Aim, Return, Climb, Reverse, Crest
  <2> QED
    BY <2>1, <2>2
<1>2. /\ direction \in {-1, 1} /\ iter \in Nat /\ a \in [1..3 -> Int] /\ p \in [1..3 -> Int]
      /\ control \in Int /\ v \in Int /\ ControlMin <= control /\ control <= ControlMax
      /\ ControlStep \in Nat /\ ControlStep > 0 /\ ControlMin \in Int /\ ControlMax \in Int
      /\ Width = ControlMax - ControlMin /\ Width >= 0 /\ Stride(direction) \in Int
  <2>1. /\ direction \in {-1, 1} /\ iter \in Nat /\ a \in [1..3 -> Int] /\ p \in [1..3 -> Int]
        /\ control \in Int /\ v \in Int
    BY PowersAssumption DEF TypeOK
  <2>2. /\ ControlStep \in Nat /\ ControlStep > 0 /\ ControlMin \in Int /\ ControlMax \in Int
        /\ Width = ControlMax - ControlMin /\ Width >= 0
    BY StepAssumption, RangeAssumption DEF Width
  <2>3. ControlMin <= control /\ control <= ControlMax
    BY <2>2 DEF Controls
  <2> QED
    BY <2>1, <2>2, <2>3, StrideType
<1> HIDE DEF v
<1>3. /\ Rounds(iter) \in Nat /\ Rounds(iter + 1) = Rounds(iter) + ControlStep
      /\ Rounds(0) = 0 /\ Rounds(1) = ControlStep
      /\ Rounds(2) = 2 * ControlStep /\ Rounds(3) = 3 * ControlStep
  BY <1>2, RoundMore
<1>4. /\ \A x : Behind(x) = IF direction = 1 THEN x - ControlMin ELSE ControlMax - x
      /\ \A x : Behind(x)' = IF direction = 1 THEN x' - ControlMin ELSE ControlMax - x'
  BY DEF Behind
<1>5. /\ direction = 1 => Stride(direction) = ControlStep
      /\ direction = -1 => Stride(direction) = -ControlStep
      /\ Stride(direction') = Stride(direction)
  BY StrideValue
<1>6. \A x : (Been(0, x) => Past(1, x)) /\ (Been(1, x) => Past(2, x)) /\ (Been(2, x) => Past(3, x))
  BY DEF Been
<1>7. \A x, k : Past(k, x) => Past(k, x)'
  BY DEF Past
<1>8. pc' = "set" => \A x, k : Past(k, x) => Been(k, x)'
  BY <1>7 DEF Been
<1>9. pc' = "analyse" => \A x : (Past(1, x) => Been(0, x)') /\ (Past(2, x) => Been(1, x)')
  BY <1>7 DEF Been
<1>10. CASE probe \in {1, 2} /\ Record(probe, v) /\ Aim(probe + 1, control + Stride(direction)) /\ UNCHANGED result
  <2>1. /\ pc' = "set" /\ iter = 0 /\ probe' \in {2, 3}
        /\ control' = control + Stride(direction)
        /\ probe' = 3 => a'[2] = control
    BY <1>1, <1>2, <1>10 DEF Aim, Record, Nearing
  <2>2. probe' = 3 => Third'
    <3>1. \A x : x = control => Been(0, x)'
      BY <1>1, <1>8, <2>1
    <3>2. probe' = 3 => Been(0, a[2])'
      BY <2>1, <3>1
    <3> QED
      BY <1>2, <1>5, <2>1, <3>2 DEF Third
  <2> QED
    BY <2>1, <2>2 DEF Bounded, Nearing, Probing
<1>11. CASE probe = 3 /\ Record(3, v) /\ pc' = "analyse" /\ UNCHANGED <<probe, control, result>>
  <2>1. Third
    BY <1>1, <1>11 DEF Nearing
  <2>2. /\ a'[1] = a[1] /\ a'[2] = a[2] /\ a'[3] = control
        /\ p'[1] = p[1] /\ p'[2] = p[2]
        /\ a[2] = a[1] + Stride(direction)
    BY <1>2, <1>11 DEF Record, Aimed
  <2>3. /\ control = a[2] + Stride(direction) => Line(direction)'
        /\ control = a[1] => Fold(direction)'
    BY <1>5, <2>2 DEF Line, Fold
  <2>4. Been(0, a[2])'
    BY <1>6, <1>9, <1>11, <2>1, <2>2 DEF Third
  <2>5. Been(1, control) => Been(1, a[3])'
    BY <1>6, <1>9, <1>11, <2>2
  <2>6. Looking'
    BY <1>4, <1>11, <2>1, <2>2, <2>3, <2>4, <2>5 DEF Looking, Third, Width, Rounds
  <2>7. Past(0, control)'
    BY <1>1, <1>7, <1>11
  <2> QED
    BY <1>11, <2>6, <2>7 DEF Bounded, Probing
<1>12. CASE probe = 4 /\ case = "a" /\ Climb(v)
  <2>1. /\ p[2] <= p[3] /\ Rounds(iter) <= Behind(a[3])
        /\ Line(direction) /\ control = a[3] + Stride(direction)
    BY <1>1, <1>12 DEF Nearing, Aimed
  <2>2. /\ pc' = "analyse" /\ control' = control /\ probe' = probe
        /\ a'[1] = a[2] /\ a'[2] = a[3] /\ a'[3] = control
        /\ p'[1] = p[2] /\ p'[2] = p[3]
    BY <1>12 DEF Climb
  <2>3. Line(direction)'
    BY <1>5, <2>1, <2>2 DEF Line
  <2>4. Rounds(iter + 1) <= Behind(a[3])'
    BY <1>2, <1>3, <1>4, <1>5, <2>1, <2>2
  <2>5. Looking'
    BY <2>1, <2>2, <2>3, <2>4 DEF Looking, Rounds
  <2>6. Past(0, control)'
    BY <1>1, <1>7, <2>2
  <2> QED
    BY <2>2, <2>5, <2>6 DEF Bounded, Probing
<1>13. CASE probe = 4 /\ case = "b" /\ Reverse(v)
  <2>1. /\ Known3 /\ Line(-direction) /\ control = a[2] /\ Fall
    BY <1>1, <1>13 DEF Nearing, Aimed
  <2>2. /\ pc' = "analyse" /\ control' = control /\ probe' = probe
        /\ a'[1] = a[2] /\ a'[2] = a[1] /\ a'[3] = control
        /\ p'[1] = p[2] /\ p'[2] = p[1]
    BY <1>13 DEF Reverse
  <2>3. Fold(direction)'
    <3>1. Stride(-direction) = -Stride(direction)
      BY <1>2, StrideValue, StepAssumption
    <3> QED
      BY <1>2, <1>5, <2>1, <2>2, <3>1 DEF Fold, Line
  <2>4. Been(1, control) => Been(1, a[3])'
    BY <1>6, <1>9, <2>2
  <2>5. Looking'
    BY <1>2, <1>3, <2>1, <2>2, <2>3, <2>4 DEF Looking, Fall, Width, Rounds
  <2>6. Past(0, control)'
    BY <1>1, <1>7, <2>2
  <2> QED
    BY <2>2, <2>5, <2>6 DEF Bounded, Probing
<1>14. CASE probe = 4 /\ case = "c" /\ Crest(v) /\ v < p[3] /\ v < p[2]
  BY <1>14 DEF Crest, Aim, AtPeak, Bounded, Nearing, Probing
<1>15. CASE probe = 4 /\ case = "c" /\ Crest(v) /\ ~(v < p[3] /\ v < p[2])
  <2>1. /\ Known3 /\ Crested(p) /\ control = a[3] + Stride(direction) /\ Top
    BY <1>1, <1>15 DEF Nearing, Aimed
  <2>2. /\ pc' = "set" /\ probe' = 3 /\ control' = control - ControlStep
        /\ a'[1] = a[3] /\ a'[2] = control /\ p'[1] = p[3] /\ p'[2] = v
    BY <1>15 DEF Crest, Aim
  <2>3. p'[1] <= p'[2]
    BY <1>2, <1>15, <2>1, <2>2 DEF Crested
  <2>4. Been(0, a[2])'
    BY <1>1, <1>8, <2>2
  <2>5. \A x : Been(0, x) => Been(1, x)'
    BY <1>6, <1>8, <2>2
  <2>6. \A x : Been(2, x) => Been(3, x)'
    BY <1>6, <1>8, <2>2
  <2>7. CASE direction = -1
    <3>1. control' = a'[2] + Stride(direction')
      BY <1>5, <2>2, <2>7
    <3>2. Rounds(iter + 1) <= Behind(control)'
      BY <1>2, <1>3, <1>4, <1>5, <2>1, <2>2, <2>7 DEF Top
    <3>3. Third'
      BY <2>3, <2>4, <2>7, <3>1, <3>2 DEF Third, Rounds
    <3> QED
      BY <2>2, <3>3 DEF Bounded, Nearing, Probing
  <2>8. CASE direction = 1
    <3>1. control' = a[3] /\ control' = a'[1]
      BY <1>2, <1>5, <2>1, <2>2, <2>8
    <3>2. Been(1, control)'
      BY <2>1, <2>5, <3>1 DEF Top
    <3>3. CASE Rounds(iter) <= Behind(a[3])
      <4>1. Rounds(iter) <= Width
        BY <1>2, <1>3, <1>4, <1>5, <2>1, <2>8, <3>3
      <4> QED
        BY <2>2, <2>4, <2>8, <3>1, <3>2, <4>1 DEF Third, Bounded, Nearing, Probing, Rounds, Width
    <3>4. CASE Been(2, a[3])
      <4>1. Been(3, control)'
        BY <2>6, <3>1, <3>4
      <4> QED
        BY <2>2, <2>4, <2>8, <3>2, <4>1 DEF Third, Bounded, Nearing, Probing
    <3> QED
      BY <2>1, <2>8, <3>3, <3>4 DEF Top
  <2> QED
    BY <1>2, <2>7, <2>8
<1>16. CASE probe = AtPeak /\ Return("found")
  BY <1>16 DEF Return, Bounded, Probing
<1> QED
  BY <1>10, <1>11, <1>12, <1>13, <1>14, <1>15, <1>16 DEF Use, v

LEMMA EndInvHolds == Spec => []EndInv
<1> USE DEF searchVars, meterVars, hardware, given
<1>1. Init => EndInv
  <2> SUFFICES ASSUME Init PROVE EndInv
    OBVIOUS
  <2>1. 0 <= (ControlMax - ControlMin) \div ControlStep
    BY RoundMore, RoundsFit, RangeAssumption DEF Width
  <2>2. iter = 0 /\ pc = "idle"
    BY DEF Init
  <2>3. NoRunaway
    BY <2>1, <2>2, StepAssumption, RangeAssumption DEF NoRunaway
  <2> QED
    BY <2>2, <2>3 DEF EndInv, Bounded, Probing
<1>2. TypeOK /\ PeakInv /\ EndInv /\ [Next]_vars => EndInv'
  <2> SUFFICES ASSUME TypeOK, PeakInv, EndInv, [Next]_vars PROVE EndInv'
    OBVIOUS
  <2>1. Settled /\ (immediate => InPlace) /\ NoRunaway /\ (immediate /\ ~stop => Bounded)
    BY DEF PeakInv, Placed, InPlace, EndInv
  <2> SUFFICES ASSUME immediate'
               PROVE  iter' <= (ControlMax - ControlMin) \div ControlStep + 1 /\ (~stop' => Bounded')
    BY DEF EndInv, NoRunaway
  <2>2. immediate
    BY DEF Next, Search, BeginSearch, OutOfRange, SetControl, Analyse,
       AnalyseStopped, TestStop, StartWaiting, Drain, RequestImmediate,
       RequestLater, TakeValue, KeepWaiting, StopMaximizer, ReadMeter,
       SetDependentValue, vars
  <2>3. InPlace /\ iter <= (ControlMax - ControlMin) \div ControlStep + 1
    BY <2>1, <2>2 DEF NoRunaway
  <2>4. CASE BeginSearch
    <3>1. 0 <= (ControlMax - ControlMin) \div ControlStep
      BY RoundMore, RoundsFit, RangeAssumption DEF Width
    <3>2. (ControlMax - ControlMin) \div ControlStep \in Int
      BY StepAssumption, RangeAssumption
    <3>3. iter' = 0 /\ pc' = "set" /\ probe' = 1
      BY <2>4 DEF BeginSearch, Aim
    <3> QED
      BY <3>1, <3>2, <3>3 DEF Bounded, Nearing, Probing
  <2>5. CASE Analyse
    <3>1. result # "found" /\ ~stop
      BY <2>1, <2>5 DEF Settled, Analyse
    <3> QED
      BY <2>1, <2>2, <2>3, <2>5, <3>1, AnalysisKeepsBounded DEF Width
  <2>6. CASE RequestImmediate
    <3>1. pc = "request" /\ ~stop /\ commanded = control /\ Aimed
      BY <2>1, <2>3, <2>6 DEF Settled, RequestImmediate, InPlace
    <3>2. control \in Controls
      BY <3>1 DEF TypeOK
    <3>3. Use(power[control]) /\ UNCHANGED <<case, direction, iter, history, power>>
      BY <2>6, <3>1 DEF RequestImmediate
    <3>4. Bounded'
      BY <2>1, <2>2, <3>1, <3>2, <3>3, UseKeepsBounded
    <3> QED
      BY <2>3, <3>3, <3>4
  <2>7. CASE SetControl
    <3>1. ~stop' => ~stop
      BY <2>7 DEF SetControl
    <3>2. ~stop' => Bounded'
      BY <2>1, <2>2, <2>7, <3>1, SettingKeepsBounded
    <3> QED
      BY <2>3, <2>7, <3>2 DEF SetControl
  <2>8. CASE OutOfRange \/ AnalyseStopped \/ TestStop
    BY <2>3, <2>8 DEF OutOfRange, AnalyseStopped, TestStop, Return, Bounded, Probing
  <2>9. CASE StartWaiting \/ Drain
    <3>1. /\ UNCHANGED <<probe, case, control, direction, iter, a, p, history, stop>>
          /\ pc \in {"wait", "drain"} /\ pc' \in {"drain", "request"}
      BY <2>9 DEF StartWaiting, Drain
    <3> QED
      BY <2>1, <2>2, <2>3, <3>1 DEF Bounded, Probing, Nearing, Third, Fall, Top, Been,
         Past, Line, Fold, Behind
  <2>10. CASE KeepWaiting \/ TakeValue \/ RequestLater \/ ReadMeter \/ SetDependentValue
    BY <2>1, <2>2, <2>10 DEF KeepWaiting, TakeValue, RequestLater, ReadMeter,
       SetDependentValue, Settled
  <2>11. CASE StopMaximizer \/ UNCHANGED vars
    <3>1. /\ UNCHANGED <<pc, probe, case, control, direction, iter, a, p, history>>
      BY <2>11 DEF StopMaximizer, vars
    <3>2. ~stop' => ~stop
      BY <2>11, Zenon DEF StopMaximizer, vars
    <3> QED
      BY <2>1, <2>2, <2>3, <3>1, <3>2 DEF Bounded, Probing, Nearing, Looking, Third,
         Fall, Top, Been, Past, Line, Fold, Behind
  <2> QED
    BY <2>4, <2>5, <2>6, <2>7, <2>8, <2>9, <2>10, <2>11 DEF Next, Search
<1> QED
  BY <1>1, <1>2, TypeCorrect, PeakInvHolds, PTL DEF Spec

(* Whatever the function and the limit on the iterations, a search that is  *)
(* given its values at once ends after as many analysis rounds as the range *)
(* has steps, and one.                                                      *)
THEOREM SearchIsBounded == Spec => []NoRunaway
  BY EndInvHolds, PTL DEF EndInv

(***************************************************************************)
(* HealthCheck.                                                            *)
(***************************************************************************)
(* Types of test data, and the operations a thread may have to do: those    *)
(* that put something into the database, with what they need, and the       *)
(* others.                                                                  *)
Data == Banded \cup
    {insertCryostatData, insertIfSwitchData, insertLPRMonitorData, PowerModuleData,
     PhotomixerData, FLOOGDistHealthData, CooldownData}
Ops ==
    [do : {"insert"}, data : Data, anew : {FALSE}]
    \cup [do : {"find", "create"}, data : Data, anew : BOOLEAN]
    \cup [do : {"row", "sub"}, data : Data]
    \cup [do : {"started", "plot"}]
    \cup [do : {"check"}, port : Ports, freqLO : {"center", "none"}]

(* How far a thread has come with its first operation. *)
Stages == {"look", "made", "overtaken", "rows"}

(* Every data status a thread may work with, every header it may hold on    *)
(* to, and what it may have to do.                                          *)
AllStatuses == Statuses \cup {"COLD_PAI", "unknown"}
Headers == {Invalid, Lost} \cup [type : Data, band : Nat, status : AllStatuses]
Job == [todo : Seq(Ops), stage : Stages, local : Headers, band : Nat,
        status : AllStatuses, freqLO : {"old", "center", "none"}]

(* Types. The host asks for statuses of its own; the threads have one more. *)
HealthTypeOK ==
    /\ job \in [Jobs -> Job]
    /\ id \in [Jobs -> Headers]
    /\ hc \in [started : BOOLEAN, status : Statuses \cup {"unknown"}]
    /\ record \in BOOLEAN

(* Looking for or creating a header of this type, forgetting the last one. *)
Opens(op, data) == op.do \in {"find", "create"} /\ op.data = data /\ op.anew

(* In the program s the rows of operation i go under a header that the      *)
(* operation before it leaves, or the one before that when only an Insert,  *)
(* which has a header of its own, is between them.                          *)
Follows(s, i, data) ==
    \/ i > 1 /\ Opens(s[i - 1], data)
    \/ i > 2 /\ s[i - 1].do = "insert" /\ Opens(s[i - 2], data)

(* The headers that rows of this type may find in a thread with job r. *)
For(r, data) == {Invalid, Lost, Header(data, r.band, r.status)}

(* The rows of operation i will find their header: it is one of the         *)
(* operations still to be done that leaves it, or the header h of the       *)
(* thread is it already.                                                    *)
Prepared(r, i, h) ==
    \/ Follows(r.todo, i, r.todo[i].data)
    \/ /\ i = 1 \/ (i = 2 /\ r.todo[1].do = "insert")
       /\ h \in For(r, r.todo[i].data)

(* What thread j, working with this data status, may be given to do. Only   *)
(* the thermal log adds rows to the cooldown plot, whose header only the    *)
(* host creates; a sweep has no headers but its own; and a health check     *)
(* records the settings only of what the cartridge has.                     *)
MayDo(j, status, op) ==
    /\ op.do = "row" => (op.data = CooldownData <=> j = Log)
    /\ op.do = "sub" => j[1] = "sweep" /\ op.data = FineLOSweepData
    /\ op.do \in {"find", "create"} =>
          /\ j # Log
          /\ op.data = CooldownData => j = Host /\ status = "COLD_PAI"
          /\ j[1] = "sweep" => op.data = FineLOSweepData
    /\ op.do = "check" => j = Host
    /\ op.do = "row" /\ j[1] = "check" =>
          /\ op.data = LNAMonitorData => j[2] \in WithCCA
          /\ op.data = SISMonitorData => j[2] \in WithCCA /\ hasSIS(j[2])

(* Thread j with job r and header h can go on without an error: it may do   *)
(* what it has to do, every row will find its header, and the header of an  *)
(* Insert is right when its rows are written. The thermal log is not asked  *)
(* where its rows find the header: HeldOK says it of all that it can hold.  *)
Fit(j, r, h) ==
    /\ \A i \in 1..Len(r.todo) : MayDo(j, r.status, r.todo[i])
    /\ j # Log => \A i \in 1..Len(r.todo) : r.todo[i].do = "row" => Prepared(r, i, h)
    /\ r.todo # <<>> =>
          /\ j[1] \in {"log", "sweep"} => r.status = "COLD_PAI"
          /\ j[1] = "sweep" => r.band = j[2]
          /\ j[1] = "check" => r.freqLO \in {"center", "none"}
    /\ r.stage \in {"made", "overtaken"} =>
          r.todo # <<>> /\ Head(r.todo).do \in Creating \cup {"sub"}
    /\ r.stage = "rows" =>
          /\ r.todo # <<>> /\ Head(r.todo).do \in {"insert", "sub"}
          /\ r.local \in For(r, Head(r.todo).data)

(* The header of the cooldown plot and those of the sweeps outlive the job  *)
(* that made them, and stay of their type, band and status.                 *)
HeldOK ==
    /\ id[Log] \in {Invalid, Lost, Header(CooldownData, 0, "COLD_PAI")}
    /\ \A j \in Jobs : j[1] = "sweep" =>
          id[j] \in {Invalid, Lost, Header(FineLOSweepData, j[2], "COLD_PAI")}

(* The inductive invariant behind RowsAreFiled and RecordedIsApplied. *)
HealthInv ==
    /\ HeldOK
    /\ \A j \in Jobs : Fit(j, job[j], id[j])
    /\ RowsAreFiled

(* The threads, told apart by what they do and for which band. *)
LEMMA Threads ==
    /\ Host \in Jobs /\ Log \in Jobs /\ Host # Log
    /\ \A j \in Jobs :
          /\ (j[1] = "host" <=> j = Host) /\ (j[1] = "log" <=> j = Log)
          /\ j[1] \in {"host", "log", "check", "sweep"}
          /\ j[1] \in {"check", "sweep"} => j[2] \in Ports
    /\ \A q \in Ports :
          /\ Check(q) \in Jobs /\ Check(q)[1] = "check" /\ Check(q)[2] = q
          /\ Sweep(q) \in Jobs /\ Sweep(q)[1] = "sweep" /\ Sweep(q)[2] = q
          /\ Check(q) \notin {Host, Log} /\ Sweep(q) \notin {Host, Log}
          /\ \A r \in Ports : Check(q) # Sweep(r)
<1>1. Host[1] = "host" /\ Log[1] = "log"
  BY DEF Host, Log
<1>2. \A q : /\ Check(q)[1] = "check" /\ Check(q)[2] = q
             /\ Sweep(q)[1] = "sweep" /\ Sweep(q)[2] = q
  BY DEF Check, Sweep
<1>3. Host \in Jobs /\ Log \in Jobs /\ \A q \in Ports : Check(q) \in Jobs /\ Sweep(q) \in Jobs
  BY DEF Jobs
<1>4. ASSUME NEW j \in Jobs
      PROVE  \/ j = Host \/ j = Log
             \/ \E q \in Ports : j = Check(q) \/ j = Sweep(q)
  BY DEF Jobs
<1> QED
  BY <1>1, <1>2, <1>3, <1>4

(* The types of test data that matter here are types, and different ones. *)
LEMMA Kinds ==
    /\ CooldownData \in Data /\ FineLOSweepData \in Data /\ CooldownData \notin Banded
    /\ FineLOSweepData \in Banded /\ CooldownData # FineLOSweepData
    /\ Banded \subseteq Data
    /\ LNAMonitorData \in Banded /\ SISMonitorData \in Banded /\ LNAMonitorData # SISMonitorData
    /\ PowerModuleData \in Data /\ PhotomixerData \in Data /\ FLOOGDistHealthData \in Data
    /\ CooldownData \notin {PowerModuleData, PhotomixerData, FLOOGDistHealthData,
                            LNAMonitorData, SISMonitorData}
  BY DEF CooldownData, FineLOSweepData, Banded, Data, LNAMonitorData, SISMonitorData,
         PowerModuleData, PhotomixerData, FLOOGDistHealthData, insertAMCMonitorData,
         insertPAMonitorData, insertPLLMonitorData, insertCartTempData, insertIVCurveData,
         insertIFTotalPowerData, insertYFactorData

(* A header for a job's rows is one, and that of the plot has no band. *)
LEMMA HeaderType ==
    ASSUME NEW r \in Job, NEW d \in Data
    PROVE  /\ Header(d, r.band, r.status) \in Headers /\ For(r, d) \subseteq Headers
           /\ For(r, CooldownData) = {Invalid, Lost, Header(CooldownData, 0, r.status)}
<1>1. r.band \in Nat /\ r.status \in AllStatuses
  BY DEF Job
<1>2. Header(d, r.band, r.status) \in Headers
  BY <1>1 DEF Header, Headers
<1>3. Header(CooldownData, r.band, r.status) = Header(CooldownData, 0, r.status)
  BY Kinds DEF Header
<1> QED
  BY <1>2, <1>3 DEF For, Headers

(* A thread with nothing to do can go on, whatever its header. *)
LEMMA IdleFits ==
    ASSUME NEW j, NEW h
    PROVE  IdleJob \in Job /\ Fit(j, IdleJob, h)
<1>1. IdleJob.todo = <<>> /\ IdleJob.stage = "look"
  BY DEF IdleJob
<1>2. IdleJob \in Job
  BY DEF IdleJob, Job, Stages, Headers, AllStatuses
<1>3. Len(IdleJob.todo) = 0
  BY <1>1
<1> QED
  BY <1>1, <1>2, <1>3 DEF Fit

(* What an operation comes with. *)
LEMMA OpTypes ==
    \A op \in Ops :
        /\ op.do \in Creating \cup {"sub", "row"} => op.data \in Data
        /\ op.do \in Creating => op.anew \in BOOLEAN
        /\ op.do = "insert" => op.anew = FALSE
        /\ op.do = "check" => op.port \in Ports /\ op.freqLO \in {"center", "none"}
  BY DEF Ops, Creating

(* The rest of the work of a thread whose first operation is done fits the  *)
(* header g it has then: the old one after an Insert, one of its type after *)
(* an operation that leaves a header.                                       *)
LEMMA RestFits ==
    ASSUME NEW j, NEW r \in Job, NEW h, NEW g, NEW s,
           Fit(j, r, h), r.todo # <<>>,
           s.todo = Tail(r.todo), s.stage = "look", s.band = r.band,
           s.status = r.status, s.freqLO = r.freqLO,
           j # Log /\ Len(r.todo) > 1 =>
              /\ Head(r.todo).do = "insert" => g = h
              /\ \A d \in Data \ {CooldownData} : Opens(Head(r.todo), d) => g \in For(r, d)
    PROVE  Fit(j, s, g)
<1> DEFINE n == Len(r.todo)
<1>1. /\ r.todo \in Seq(Ops) /\ n \in Nat /\ n > 0
      /\ Len(s.todo) = n - 1 /\ \A i \in 1..(n - 1) : s.todo[i] = r.todo[i + 1]
      /\ Head(r.todo) = r.todo[1] /\ \A i \in 1..n : r.todo[i] \in Ops
  BY DEF Job
<1>2. \A d : For(s, d) = For(r, d)
  BY DEF For
<1>3. \A i \in 1..(n - 1) : MayDo(j, s.status, s.todo[i])
  BY <1>1 DEF Fit
<1>4. ASSUME j # Log, NEW i \in 1..(n - 1), s.todo[i].do = "row"
      PROVE  Prepared(s, i, g)
  <2> DEFINE d == r.todo[i + 1].data
  <2>1. r.todo[i + 1].do = "row" /\ s.todo[i].data = d /\ i + 1 \in 1..n
    BY <1>1, <1>4
  <2>2. d \in Data \ {CooldownData}
    BY <1>1, <1>4, <2>1, OpTypes DEF Fit, MayDo
  <2>3. Prepared(r, i + 1, h)
    BY <1>4, <2>1 DEF Fit
  <2> HIDE DEF d
  <2>4. CASE i = 1
    <3>1. \/ Opens(r.todo[1], d)
          \/ r.todo[1].do = "insert" /\ h \in For(r, d)
      BY <1>1, <2>1, <2>3, <2>4 DEF Prepared, Follows, d
    <3>2. g \in For(s, d)
      BY <1>1, <1>2, <1>4, <2>2, <2>4, <3>1
    <3> QED
      BY <2>1, <2>4, <3>2 DEF Prepared
  <2>5. CASE i = 2
    <3>1. \/ Opens(r.todo[2], d)
          \/ r.todo[2].do = "insert" /\ Opens(r.todo[1], d)
      BY <1>1, <2>1, <2>3, <2>5 DEF Prepared, Follows, d
    <3>2. s.todo[1] = r.todo[2]
      BY <1>1, <1>4, <2>5
    <3>3. Opens(r.todo[1], d) => g \in For(s, d)
      BY <1>1, <1>2, <1>4, <2>2, <2>5
    <3> QED
      BY <2>1, <2>5, <3>1, <3>2, <3>3 DEF Prepared, Follows
  <2>6. CASE i > 2
    <3>1. \/ Opens(r.todo[i], d)
          \/ r.todo[i].do = "insert" /\ Opens(r.todo[i - 1], d)
      BY <1>1, <2>1, <2>3, <2>6 DEF Prepared, Follows, d
    <3>2. s.todo[i - 1] = r.todo[i] /\ s.todo[i - 2] = r.todo[i - 1]
      <4>1. i - 1 \in 1..(n - 1) /\ i - 2 \in 1..(n - 1) /\ i - 1 + 1 = i /\ i - 2 + 1 = i - 1
        BY <1>1, <2>6
      <4> QED
        BY <1>1, <4>1
    <3> QED
      BY <2>1, <2>6, <3>1, <3>2 DEF Prepared, Follows
  <2> QED
    BY <1>1, <2>4, <2>5, <2>6
<1> QED
  BY <1>1, <1>3, <1>4 DEF Fit

(* A program that a thread may be given: every row in it follows its        *)
(* header.                                                                  *)
Legal(j, status, s) ==
    /\ s \in Seq(Ops)
    /\ \A i \in 1..Len(s) :
          /\ MayDo(j, status, s[i])
          /\ s[i].do = "row" => Follows(s, i, s[i].data)

(* The last operation of s leaves a header of this type. *)
Fresh(s, data) == Len(s) > 0 /\ Opens(s[Len(s)], data)

(* After s, rows of this type will find their header. *)
Ready(s, data) ==
    \/ Fresh(s, data)
    \/ Len(s) > 1 /\ s[Len(s)].do = "insert" /\ Opens(s[Len(s) - 1], data)

(* A thread that is given a legal program can go on, whatever its header. *)
LEMMA LegalFits ==
    ASSUME NEW j \in Jobs, NEW r \in Job, NEW h, Legal(j, r.status, r.todo), r.stage = "look",
           j[1] \in {"log", "sweep"} => r.status = "COLD_PAI",
           j[1] = "sweep" => r.band = j[2],
           j[1] = "check" => r.freqLO \in {"center", "none"}
    PROVE  Fit(j, r, h)
  BY DEF Legal, Fit, Prepared

(* The empty program is legal. *)
LEMMA NothingIsLegal ==
    ASSUME NEW j, NEW status
    PROVE  Legal(j, status, <<>>)
  BY DEF Legal

(* A legal program stays legal with one more operation that the thread may  *)
(* do, if it is not a row or the program is ready for it; and what it is    *)
(* ready for then.                                                          *)
LEMMA OneMore ==
    ASSUME NEW j, NEW status, NEW s, Legal(j, status, s), NEW op \in Ops,
           MayDo(j, status, op), op.do = "row" => Ready(s, op.data)
    PROVE  /\ Legal(j, status, s \o <<op>>)
           /\ \A d : Opens(op, d) => Fresh(s \o <<op>>, d)
           /\ \A d : Fresh(s, d) /\ op.do = "insert" => Ready(s \o <<op>>, d)
<1> DEFINE t == s \o <<op>>
           n == Len(s)
<1>1. n \in Nat /\ s \in Seq(Ops) /\ <<op>> \in Seq(Ops) /\ Len(<<op>>) = 1 /\ <<op>>[1] = op
  BY DEF Legal
<1>2. /\ Len(s \o <<op>>) = Len(s) + Len(<<op>>)
      /\ \A i \in 1..(Len(s) + Len(<<op>>)) :
            (s \o <<op>>)[i] = IF i <= Len(s) THEN s[i] ELSE <<op>>[i - Len(s)]
  BY <1>1, ConcatProperties
<1>3. t \in Seq(Ops)
  BY <1>1, ConcatProperties
<1>4. Len(t) = n + 1 /\ t[n + 1] = op /\ \A i \in 1..n : t[i] = s[i]
  BY <1>1, <1>2
<1> HIDE DEF t
<1>5. ASSUME NEW i \in 1..n, s[i].do = "row" PROVE Follows(t, i, s[i].data)
  <2>1. Follows(s, i, s[i].data)
    BY <1>5 DEF Legal
  <2>2. (i > 1 => t[i - 1] = s[i - 1]) /\ (i > 2 => t[i - 2] = s[i - 2])
    BY <1>1, <1>4
  <2> QED
    BY <2>1, <2>2 DEF Follows
<1>6. op.do = "row" => Follows(t, n + 1, op.data)
  BY <1>1, <1>4 DEF Ready, Fresh, Follows
<1>7. Legal(j, status, t)
  BY <1>1, <1>3, <1>4, <1>5, <1>6 DEF Legal
<1> QED
  BY <1>1, <1>4, <1>7 DEF t, Fresh, Ready

(* Two legal programs after each other are a legal program. *)
LEMMA LegalConcat ==
    ASSUME NEW j, NEW status, NEW s, NEW t, Legal(j, status, s), Legal(j, status, t)
    PROVE  Legal(j, status, s \o t)
<1> DEFINE u == s \o t
           n == Len(s)
           m == Len(t)
<1>1. n \in Nat /\ m \in Nat /\ s \in Seq(Ops) /\ t \in Seq(Ops)
  BY DEF Legal
<1>2. /\ Len(s \o t) = Len(s) + Len(t)
      /\ \A i \in 1..(Len(s) + Len(t)) :
            (s \o t)[i] = IF i <= Len(s) THEN s[i] ELSE t[i - Len(s)]
  BY <1>1, ConcatProperties
<1>3. u \in Seq(Ops)
  BY <1>1, ConcatProperties
<1>4. Len(u) = n + m /\ (\A i \in 1..n : u[i] = s[i]) /\ (\A i \in (n + 1)..(n + m) : u[i] = t[i - n])
  BY <1>1, <1>2
<1> HIDE DEF u
<1>5. ASSUME NEW i \in 1..n
      PROVE  MayDo(j, status, u[i]) /\ (u[i].do = "row" => Follows(u, i, u[i].data))
  <2>1. MayDo(j, status, s[i]) /\ (s[i].do = "row" => Follows(s, i, s[i].data))
    BY <1>5 DEF Legal
  <2>2. u[i] = s[i] /\ (i > 1 => u[i - 1] = s[i - 1]) /\ (i > 2 => u[i - 2] = s[i - 2])
    BY <1>1, <1>4
  <2> QED
    BY <2>1, <2>2 DEF Follows
<1>6. ASSUME NEW i \in (n + 1)..(n + m)
      PROVE  MayDo(j, status, u[i]) /\ (u[i].do = "row" => Follows(u, i, u[i].data))
  <2>1. i - n \in 1..m /\ u[i] = t[i - n]
    BY <1>1, <1>4
  <2>2. MayDo(j, status, t[i - n]) /\ (t[i - n].do = "row" => Follows(t, i - n, t[i - n].data))
    BY <2>1 DEF Legal
  <2>3. i - n > 1 => u[i - 1] = t[(i - n) - 1]
    <3>1. i - n > 1 => i - 1 \in (n + 1)..(n + m) /\ (i - 1) - n = (i - n) - 1
      BY <1>1
    <3> QED
      BY <1>4, <3>1
  <2>4. i - n > 2 => u[i - 2] = t[(i - n) - 2]
    <3>1. i - n > 2 => i - 2 \in (n + 1)..(n + m) /\ (i - 2) - n = (i - n) - 2
      BY <1>1
    <3> QED
      BY <1>4, <3>1
  <2> QED
    BY <1>1, <2>1, <2>2, <2>3, <2>4 DEF Follows
<1> QED
  BY <1>1, <1>3, <1>4, <1>5, <1>6 DEF u, Legal

(* The operations that programs consist of are operations. *)
LEMMA Steps ==
    ASSUME NEW d \in Data, NEW anew \in BOOLEAN
    PROVE  /\ [do |-> "insert", data |-> d, anew |-> FALSE] \in Ops
           /\ [do |-> "find", data |-> d, anew |-> anew] \in Ops
           /\ [do |-> "create", data |-> d, anew |-> anew] \in Ops
           /\ [do |-> "row", data |-> d] \in Ops
           /\ [do |-> "sub", data |-> d] \in Ops
           /\ [do |-> "started"] \in Ops /\ [do |-> "plot"] \in Ops
           /\ \A q \in Ports, f \in {"center", "none"} :
                 [do |-> "check", port |-> q, freqLO |-> f] \in Ops
<1>1. [do |-> "insert", data |-> d, anew |-> FALSE] \in Ops
  BY DEF Ops
<1>2. [do |-> "find", data |-> d, anew |-> anew] \in Ops
  BY DEF Ops
<1>3. [do |-> "create", data |-> d, anew |-> anew] \in Ops
  BY DEF Ops
<1>4. [do |-> "row", data |-> d] \in Ops /\ [do |-> "sub", data |-> d] \in Ops
  BY DEF Ops
<1>5. [do |-> "started"] \in Ops /\ [do |-> "plot"] \in Ops
  BY DEF Ops
<1>6. \A q \in Ports, f \in {"center", "none"} :
          [do |-> "check", port |-> q, freqLO |-> f] \in Ops
  BY DEF Ops
<1> QED
  BY <1>1, <1>2, <1>3, <1>4, <1>5, <1>6

(* An Insert may stand anywhere, and does not stand between a header and    *)
(* its rows.                                                                *)
LEMMA InsertIsLegal ==
    ASSUME NEW j \in Jobs, NEW status, NEW s, Legal(j, status, s), NEW d \in Data
    PROVE  /\ Legal(j, status, s \o Insert(d))
           /\ \A e : Fresh(s, e) => Ready(s \o Insert(d), e)
<1> DEFINE op == [do |-> "insert", data |-> d, anew |-> FALSE]
<1>1. op \in Ops /\ MayDo(j, status, op) /\ op.do = "insert" /\ op.do # "row"
  BY Steps DEF MayDo
<1> HIDE DEF op
<1> QED
  BY <1>1, OneMore DEF Insert, op

(* The host and a health check may look for or create a header anywhere. *)
LEMMA OpenIsLegal ==
    ASSUME NEW j \in Jobs, NEW status, NEW s, Legal(j, status, s),
           j[1] \in {"host", "check"}, NEW d \in Data,
           d = CooldownData => j = Host /\ status = "COLD_PAI"
    PROVE  /\ Legal(j, status, s \o Find(d, TRUE)) /\ Fresh(s \o Find(d, TRUE), d)
           /\ Legal(j, status, s \o Create(d, TRUE)) /\ Fresh(s \o Create(d, TRUE), d)
<1> DEFINE op == [do |-> "find", data |-> d, anew |-> TRUE]
           oq == [do |-> "create", data |-> d, anew |-> TRUE]
<1>1. j # Log
  BY Threads
<1>2. op \in Ops /\ MayDo(j, status, op) /\ op.do # "row" /\ Opens(op, d)
  BY <1>1, Steps DEF MayDo, Opens
<1>3. oq \in Ops /\ MayDo(j, status, oq) /\ oq.do # "row" /\ Opens(oq, d)
  BY <1>1, Steps DEF MayDo, Opens
<1> HIDE DEF op, oq
<1>4. Legal(j, status, s \o <<op>>) /\ Fresh(s \o <<op>>, d)
  BY <1>2, OneMore
<1>5. Legal(j, status, s \o <<oq>>) /\ Fresh(s \o <<oq>>, d)
  BY <1>3, OneMore
<1> QED
  BY <1>4, <1>5 DEF Find, Create, op, oq

(* Rows may be added when the program is ready for them. *)
LEMMA RowIsLegal ==
    ASSUME NEW j \in Jobs, NEW status, NEW s, Legal(j, status, s), j # Log,
           NEW d \in Data \ {CooldownData}, Ready(s, d),
           j[1] = "check" => /\ d = LNAMonitorData => j[2] \in WithCCA
                             /\ d = SISMonitorData => j[2] \in WithCCA /\ hasSIS(j[2])
    PROVE  Legal(j, status, s \o Row(d))
<1> DEFINE op == [do |-> "row", data |-> d]
<1>1. op \in Ops /\ MayDo(j, status, op) /\ op.data = d
  BY Steps DEF MayDo
<1> HIDE DEF op
<1> QED
  BY <1>1, OneMore DEF Row, op

(* Programs of one operation. *)
LEMMA Alone ==
    ASSUME NEW j \in Jobs, NEW status, NEW d \in Data
    PROVE  /\ Legal(j, status, Insert(d))
           /\ j[1] \in {"host", "check"} /\ (d = CooldownData => j = Host /\ status = "COLD_PAI")
              => /\ Legal(j, status, Find(d, TRUE)) /\ Fresh(Find(d, TRUE), d)
                 /\ Legal(j, status, Create(d, TRUE)) /\ Fresh(Create(d, TRUE), d)
<1>1. Legal(j, status, <<>>)
  BY NothingIsLegal
<1>2. \A x : <<>> \o <<x>> = <<x>>
  <2> TAKE x
  <2>1. <<x>> \in Seq({x})
    OBVIOUS
  <2> QED
    BY <2>1, ConcatEmptySeq
<1>3. /\ <<>> \o Insert(d) = Insert(d) /\ <<>> \o Find(d, TRUE) = Find(d, TRUE)
      /\ <<>> \o Create(d, TRUE) = Create(d, TRUE)
  BY <1>2 DEF Insert, Find, Create
<1>4. Legal(j, status, Insert(d))
  <2>1. Legal(j, status, <<>> \o Insert(d))
    BY <1>1, InsertIsLegal
  <2> QED
    BY <1>3, <2>1
<1>5. ASSUME j[1] \in {"host", "check"}, d = CooldownData => j = Host /\ status = "COLD_PAI"
      PROVE  /\ Legal(j, status, Find(d, TRUE)) /\ Fresh(Find(d, TRUE), d)
             /\ Legal(j, status, Create(d, TRUE)) /\ Fresh(Create(d, TRUE), d)
  <2>1. /\ Legal(j, status, <<>> \o Find(d, TRUE)) /\ Fresh(<<>> \o Find(d, TRUE), d)
        /\ Legal(j, status, <<>> \o Create(d, TRUE)) /\ Fresh(<<>> \o Create(d, TRUE), d)
    BY <1>1, <1>5, OpenIsLegal
  <2> QED
    BY <1>3, <2>1
<1> QED
  BY <1>4, <1>5

(* The types of test data that the programs name. *)
LEMMA AllKinds ==
    {insertCryostatData, insertIfSwitchData, insertLPRMonitorData, PowerModuleData,
     PhotomixerData, FLOOGDistHealthData, insertAMCMonitorData, insertPAMonitorData,
     insertPLLMonitorData, insertCartTempData, LNAMonitorData, SISMonitorData,
     insertIVCurveData, insertIFTotalPowerData, insertYFactorData, FineLOSweepData} \subseteq Data
  BY DEF Data, Banded

(* The programs of the host are legal: the health check, the power modules, *)
(* the IF power and the cooldown plot.                                      *)
LEMMA HostPrograms ==
    ASSUME NEW status
    PROVE  /\ Legal(Host, status, HealthCheckJob)
           /\ \A q \in Ports, f \in {"center", "none"} : Legal(Host, status, PowerModuleJob(q, f))
           /\ \A y \in BOOLEAN : Legal(Host, status, IFPowerJob(y))
           /\ status = "COLD_PAI" => Legal(Host, status, PlotJob)
<1>0. Host \in Jobs /\ Host[1] = "host" /\ Host # Log
  BY Threads
<1>1. Legal(Host, status, HealthCheckJob)
  <2>1. Legal(Host, status, Insert(insertCryostatData))
    BY <1>0, AllKinds, Alone
  <2>2. Legal(Host, status, Insert(insertCryostatData) \o Insert(insertIfSwitchData))
    BY <1>0, <2>1, AllKinds, InsertIsLegal
  <2>3. Legal(Host, status, Insert(insertCryostatData) \o Insert(insertIfSwitchData)
                            \o Insert(insertLPRMonitorData))
    BY <1>0, <2>2, AllKinds, InsertIsLegal
  <2>4. [do |-> "started"] \in Ops /\ MayDo(Host, status, [do |-> "started"])
    BY DEF Ops, MayDo
  <2> QED
    BY <2>3, <2>4, OneMore DEF HealthCheckJob, Then
<1>2. ASSUME NEW q \in Ports, NEW f \in {"center", "none"}
      PROVE  Legal(Host, status, PowerModuleJob(q, f))
  <2>1. Legal(Host, status, Find(PowerModuleData, TRUE)) /\ Fresh(Find(PowerModuleData, TRUE), PowerModuleData)
    BY <1>0, AllKinds, Alone, Kinds
  <2>2. Legal(Host, status, Find(PowerModuleData, TRUE) \o Row(PowerModuleData))
    BY <1>0, <2>1, AllKinds, Kinds, RowIsLegal DEF Ready
  <2> DEFINE op == [do |-> "check", port |-> q, freqLO |-> f]
  <2>3. op \in Ops /\ MayDo(Host, status, op) /\ op.do # "row"
    BY DEF Ops, MayDo
  <2> HIDE DEF op
  <2>4. Legal(Host, status, Find(PowerModuleData, TRUE) \o Row(PowerModuleData) \o <<op>>)
    BY <2>2, <2>3, OneMore
  <2> QED
    BY <2>4 DEF PowerModuleJob, op
<1>3. ASSUME NEW y \in BOOLEAN PROVE Legal(Host, status, IFPowerJob(y))
  <2>1. /\ Legal(Host, status, Insert(insertIFTotalPowerData))
        /\ Legal(Host, status, Insert(insertYFactorData)) /\ Legal(Host, status, <<>>)
    BY <1>0, AllKinds, Alone, NothingIsLegal
  <2>2. Legal(Host, status, IF y THEN Insert(insertYFactorData) ELSE <<>>)
    BY <2>1
  <2> QED
    BY <2>1, <2>2, LegalConcat DEF IFPowerJob
<1>4. ASSUME status = "COLD_PAI" PROVE Legal(Host, status, PlotJob)
  <2>1. Legal(Host, status, Create(CooldownData, TRUE))
    BY <1>0, <1>4, Alone, Kinds
  <2>2. [do |-> "plot"] \in Ops /\ MayDo(Host, status, [do |-> "plot"])
    BY DEF Ops, MayDo
  <2> QED
    BY <2>1, <2>2, OneMore DEF PlotJob, Then
<1> QED
  BY <1>1, <1>2, <1>3, <1>4

(* The program of a health check is legal in every cartridge: the header of *)
(* the FLOOG distributor, of the photomixer, of the LNA and of the SIS each *)
(* before its rows, and no rows of an LNA or SIS that the cartridge does    *)
(* not have.                                                                *)
LEMMA CheckPrograms ==
    ASSUME NEW q \in Ports, NEW status
    PROVE  \A cold \in BOOLEAN : Legal(Check(q), status, CheckJob(q, cold))
<1> DEFINE j == Check(q)
<1>0. j \in Jobs /\ j[1] = "check" /\ j[2] = q /\ j # Log
  BY Threads
<1> HIDE DEF j
<1> USE DEF Ready
<1>1. Legal(j, status, WCAJob)
  <2> DEFINE s1 == Insert(insertAMCMonitorData)
             s2 == s1 \o Insert(insertPAMonitorData)
             s3 == s2 \o Find(FLOOGDistHealthData, TRUE)
             s4 == s3 \o Insert(insertPLLMonitorData)
             s5 == s4 \o Row(FLOOGDistHealthData)
             s6 == s5 \o Find(PhotomixerData, TRUE)
             s7 == s6 \o Row(PhotomixerData)
  <2>1. Legal(j, status, s1)
    BY <1>0, AllKinds, Alone
  <2>2. Legal(j, status, s2)
    BY <1>0, <2>1, AllKinds, InsertIsLegal
  <2> HIDE DEF s2
  <2>3. Legal(j, status, s3) /\ Fresh(s3, FLOOGDistHealthData)
    BY <1>0, <2>2, Kinds, OpenIsLegal
  <2> HIDE DEF s3
  <2>4. Legal(j, status, s4) /\ Ready(s4, FLOOGDistHealthData)
    BY <1>0, <2>3, AllKinds, InsertIsLegal
  <2> HIDE DEF s4
  <2>5. Legal(j, status, s5)
    <3>1. FLOOGDistHealthData \notin {LNAMonitorData, SISMonitorData}
      BY DEF FLOOGDistHealthData, LNAMonitorData, SISMonitorData
    <3> QED
      BY <1>0, <2>4, <3>1, Kinds, RowIsLegal
  <2> HIDE DEF s5
  <2>6. Legal(j, status, s6) /\ Fresh(s6, PhotomixerData)
    BY <1>0, <2>5, Kinds, OpenIsLegal
  <2> HIDE DEF s6
  <2>7. Legal(j, status, s7)
    <3>1. PhotomixerData \notin {LNAMonitorData, SISMonitorData}
      BY DEF PhotomixerData, LNAMonitorData, SISMonitorData
    <3> QED
      BY <1>0, <2>6, <3>1, Kinds, RowIsLegal
  <2> QED
    BY <2>7 DEF WCAJob, s2, s3, s4, s5, s6
<1>2. q \in WithCCA => Legal(j, status, ColdCartJob(q))
  <2> SUFFICES ASSUME q \in WithCCA PROVE Legal(j, status, ColdCartJob(q))
    OBVIOUS
  <2> DEFINE s1 == Insert(insertCartTempData)
             s2 == s1 \o Create(LNAMonitorData, TRUE)
             s3 == s2 \o Row(LNAMonitorData)
             s4 == s3 \o Create(SISMonitorData, TRUE)
             s5 == s4 \o Row(SISMonitorData)
             s6 == s4 \o <<>>
  <2>0. LNAMonitorData \in Data \ {CooldownData} /\ SISMonitorData \in Data \ {CooldownData}
    BY Kinds
  <2>1. Legal(j, status, s1)
    BY <1>0, AllKinds, Alone
  <2> HIDE DEF s1
  <2>2. Legal(j, status, s2) /\ Fresh(s2, LNAMonitorData)
    BY <1>0, <2>0, <2>1, OpenIsLegal
  <2> HIDE DEF s2
  <2>3. Legal(j, status, s3)
    BY <1>0, <2>0, <2>2, Kinds, RowIsLegal
  <2> HIDE DEF s3
  <2>4. Legal(j, status, s4) /\ Fresh(s4, SISMonitorData)
    BY <1>0, <2>0, <2>3, OpenIsLegal
  <2> HIDE DEF s4
  <2>5. hasSIS(q) => Legal(j, status, s5)
    BY <1>0, <2>0, <2>4, Kinds, RowIsLegal
  <2>6. Legal(j, status, s6)
    BY <2>4, NothingIsLegal, LegalConcat
  <2>7. ColdCartJob(q) = IF hasSIS(q) THEN s5 ELSE s6
    BY DEF ColdCartJob, s1, s2, s3, s4
  <2> QED
    BY <2>5, <2>6, <2>7
<1>3. Legal(j, status, CurvesJob)
  BY <1>0, AllKinds, Alone, InsertIsLegal DEF CurvesJob
<1>4. ASSUME NEW cold \in BOOLEAN PROVE Legal(j, status, CheckJob(q, cold))
  <2>1. Legal(j, status, IF q \in WithCCA THEN ColdCartJob(q) ELSE <<>>)
    BY <1>2, NothingIsLegal
  <2>2. Legal(j, status, IF q \in WithCCA /\ hasSIS(q) /\ cold THEN CurvesJob ELSE <<>>)
    BY <1>3, NothingIsLegal
  <2> QED
    BY <1>1, <2>1, <2>2, LegalConcat DEF CheckJob
<1> QED
  BY <1>4 DEF j

(* The program of a sweep is legal. *)
LEMMA SweepPrograms ==
    ASSUME NEW q \in Ports, NEW status
    PROVE  \A pols \in {1, 2} : Legal(Sweep(q), status, SweepJob(pols))
<1> DEFINE j == Sweep(q)
<1>0. j \in Jobs /\ j[1] = "sweep" /\ j # Log
  BY Threads
<1> HIDE DEF j
<1> DEFINE op == [do |-> "create", data |-> FineLOSweepData, anew |-> FALSE]
           sub == [do |-> "sub", data |-> FineLOSweepData]
<1>1. op \in Ops /\ op.do = "create" /\ op.data = FineLOSweepData
  BY Kinds DEF Ops
<1>2. sub \in Ops /\ sub.do = "sub" /\ sub.data = FineLOSweepData
  BY Kinds DEF Ops
<1> HIDE DEF op, sub
<1>3. MayDo(j, status, op) /\ MayDo(j, status, sub)
  BY <1>0, <1>1, <1>2, Kinds DEF MayDo
<1>4. Legal(j, status, <<op>>)
  BY <1>1, <1>3 DEF Legal
<1>5. ASSUME NEW pols \in {1, 2} PROVE Legal(j, status, [i \in 1..pols |-> sub])
  <2>1. [i \in 1..pols |-> sub] \in Seq(Ops) /\ Len([i \in 1..pols |-> sub]) = pols
    BY <1>2
  <2> QED
    BY <1>2, <1>3, <2>1 DEF Legal
<1>6. ASSUME NEW pols \in {1, 2} PROVE Legal(j, status, <<op>> \o [i \in 1..pols |-> sub])
  BY <1>4, <1>5, LegalConcat
<1> QED
  BY <1>6 DEF SweepJob, Create, j, op, sub

(* A thread to which nothing happens but another thread's INSERT, or the    *)
(* thermal log when the host changes its header, can go on as before.       *)
LEMMA OthersFit ==
    ASSUME NEW k, NEW r, NEW h, NEW s, NEW g, Fit(k, r, h), g = h \/ k = Log,
           s = r \/ /\ r.stage = "made" /\ s.stage = "overtaken"
                    /\ s.todo = r.todo /\ s.local = r.local /\ s.band = r.band
                    /\ s.status = r.status /\ s.freqLO = r.freqLO
    PROVE  Fit(k, s, g)
  BY DEF Fit, Prepared, For

(* An INSERT changes nothing in the jobs of others but that the ID one of   *)
(* them was about to read is lost.                                          *)
LEMMA OvertakenIs ==
    ASSUME NEW j \in Jobs, NEW jobs \in [Jobs -> Job]
    PROVE  /\ Overtaken(j, jobs) \in [Jobs -> Job]
           /\ Overtaken(j, jobs)[j] = jobs[j]
           /\ \A k \in Jobs : LET r == jobs[k]
                                  s == Overtaken(j, jobs)[k]
                              IN  s = r \/ /\ r.stage = "made" /\ s.stage = "overtaken"
                                           /\ s.todo = r.todo /\ s.local = r.local
                                           /\ s.band = r.band /\ s.status = r.status
                                           /\ s.freqLO = r.freqLO
<1>1. ASSUME NEW r \in Job
      PROVE  LET s == [r EXCEPT !.stage = "overtaken"]
             IN  /\ s \in Job /\ s.stage = "overtaken"
                 /\ s.todo = r.todo /\ s.local = r.local
                 /\ s.band = r.band /\ s.status = r.status
                 /\ s.freqLO = r.freqLO
  BY DEF Job, Stages
<1>2. \A k \in Jobs : Overtaken(j, jobs)[k] = IF k # j /\ jobs[k].stage = "made"
                                              THEN [jobs[k] EXCEPT !.stage = "overtaken"]
                                              ELSE jobs[k]
  BY DEF Overtaken
<1>3. \A k \in Jobs : Overtaken(j, jobs)[k] \in Job
  BY <1>1, <1>2
<1>4. Overtaken(j, jobs) \in [Jobs -> Job]
  BY <1>3 DEF Overtaken
<1>5. Overtaken(j, jobs)[j] = jobs[j]
  BY <1>2
<1>6. ASSUME NEW k \in Jobs
      PROVE  LET r == jobs[k]
                 s == Overtaken(j, jobs)[k]
             IN  s = r \/ /\ r.stage = "made" /\ s.stage = "overtaken"
                          /\ s.todo = r.todo /\ s.local = r.local
                          /\ s.band = r.band /\ s.status = r.status
                          /\ s.freqLO = r.freqLO
  <2>1. CASE k # j /\ jobs[k].stage = "made"
    <3>1. Overtaken(j, jobs)[k] = [jobs[k] EXCEPT !.stage = "overtaken"]
      BY <1>2, <2>1
    <3>2. jobs[k] \in Job
      OBVIOUS
    <3> QED
      BY <1>1, <2>1, <3>1, <3>2
  <2>2. CASE ~(k # j /\ jobs[k].stage = "made")
    BY <1>2, <2>2
  <2> QED
    BY <2>1, <2>2
<1> QED
  BY <1>4, <1>5, <1>6

(* The job of a thread that is done with an operation. *)
LEMMA AdvancedIs ==
    ASSUME HealthTypeOK, NEW j \in Jobs, job[j].todo # <<>>
    PROVE  /\ Advanced(j) \in [Jobs -> Job]
           /\ \A k \in Jobs \ {j} : Advanced(j)[k] = job[k]
           /\ Len(job[j].todo) = 1 => Advanced(j)[j] = IdleJob
           /\ Len(job[j].todo) # 1 =>
                 LET r == job[j]
                     s == Advanced(j)[j]
                 IN  /\ s.todo = Tail(r.todo) /\ s.stage = "look" /\ s.band = r.band
                     /\ s.status = r.status /\ s.freqLO = r.freqLO
<1> DEFINE r == job[j]
           s == [r EXCEPT !.todo = Tail(r.todo), !.stage = "look", !.local = Invalid]
<1>1. r \in Job /\ r.todo \in Seq(Ops) /\ r.todo # <<>> /\ job \in [Jobs -> Job]
  BY DEF HealthTypeOK, Job
<1>2. Tail(r.todo) \in Seq(Ops)
  BY <1>1
<1>3. s \in Job
  BY <1>1, <1>2 DEF Job, Stages, Headers
<1>4. /\ s.todo = Tail(r.todo) /\ s.stage = "look" /\ s.band = r.band
      /\ s.status = r.status /\ s.freqLO = r.freqLO
  BY <1>1 DEF Job
<1>5. IdleJob \in Job
  BY IdleFits
<1>6. Advanced(j) = [job EXCEPT ![j] = IF Len(r.todo) = 1 THEN IdleJob ELSE s]
  BY DEF Advanced
<1> HIDE DEF s
<1> QED
  BY <1>1, <1>3, <1>4, <1>5, <1>6

(* What a step of thread j does to the headers, as far as the invariant     *)
(* needs it: it leaves those of the others alone, but for the plot's, and   *)
(* its own is the right one for the rows to come.                           *)
Moved(j) ==
    /\ id' \in [Jobs -> Headers]
    /\ HeldOK'
    /\ \A k \in Jobs \ {j} : k # Log => id'[k] = id[k]
    /\ j # Log /\ Len(job[j].todo) > 1 =>
          /\ Op(j).do = "insert" => id'[j] = id[j]
          /\ \A d \in Data \ {CooldownData} : Opens(Op(j), d) => id'[j] \in For(job[j], d)

(* When a thread is done with an operation and has moved the headers so,    *)
(* everybody can go on.                                                     *)
LEMMA AdvanceFits ==
    ASSUME HealthTypeOK, \A k \in Jobs : Fit(k, job[k], id[k]),
           NEW j \in Jobs, job[j].todo # <<>>, Moved(j),
           job' = Advanced(j) \/ job' = Overtaken(j, Advanced(j))
    PROVE  job' \in [Jobs -> Job] /\ \A k \in Jobs : Fit(k, job'[k], id'[k])
<1>1. job \in [Jobs -> Job] /\ job[j] \in Job /\ job[j].todo \in Seq(Ops)
  BY DEF HealthTypeOK, Job
<1>2. /\ job' \in [Jobs -> Job] /\ job'[j] = Advanced(j)[j]
      /\ \A k \in Jobs \ {j} :
            LET r == job[k]
                s == job'[k]
            IN  s = r \/ /\ r.stage = "made" /\ s.stage = "overtaken"
                         /\ s.todo = r.todo /\ s.local = r.local /\ s.band = r.band
                         /\ s.status = r.status /\ s.freqLO = r.freqLO
  BY AdvancedIs, OvertakenIs
<1>3. ASSUME NEW k \in Jobs \ {j} PROVE Fit(k, job'[k], id'[k])
  <2>1. id'[k] = id[k] \/ k = Log
    BY <1>3 DEF Moved
  <2> QED
    BY <1>2, <2>1, OthersFit
<1>4. Fit(j, job'[j], id'[j])
  <2>1. CASE Len(job[j].todo) = 1
    BY <1>2, <2>1, AdvancedIs, IdleFits
  <2>2. CASE Len(job[j].todo) # 1
    <3>1. /\ j # Log /\ Len(job[j].todo) > 1 =>
                /\ Head(job[j].todo).do = "insert" => id'[j] = id[j]
                /\ \A d \in Data \ {CooldownData} :
                      Opens(Head(job[j].todo), d) => id'[j] \in For(job[j], d)
      BY DEF Moved, Op
    <3>2. LET r == job[j]
              s == job'[j]
          IN  /\ s.todo = Tail(r.todo) /\ s.stage = "look" /\ s.band = r.band
              /\ s.status = r.status /\ s.freqLO = r.freqLO
      BY <1>2, <2>2, AdvancedIs
    <3> QED
      BY <1>1, <3>1, <3>2, RestFits
  <2> QED
    BY <2>1, <2>2
<1> QED
  BY <1>2, <1>3, <1>4

(* An operation that leaves no header does not disturb the headers: a local *)
(* one is gone with the job.                                                *)
LEMMA IdStays ==
    ASSUME HealthTypeOK, HeldOK, NEW j \in Jobs, job[j].todo # <<>>,
           id' = id \/ id' = Kept(j),
           \A d : ~Opens(Op(j), d)
    PROVE  Moved(j)
<1>1. id \in [Jobs -> Headers] /\ Invalid \in Headers
  BY DEF HealthTypeOK, Headers
<1>2. CASE id' = id
  BY <1>1, <1>2 DEF Moved, HeldOK
<1>3. CASE id' = Kept(j) /\ id' # id
  <2>1. Len(job[j].todo) = 1 /\ j[1] \in {"host", "check"} /\ id' = [id EXCEPT ![j] = Invalid]
    BY <1>3 DEF Kept
  <2> QED
    BY <1>1, <2>1, Threads DEF Moved, HeldOK
<1> QED
  BY <1>2, <1>3

(* One that leaves a header leaves the right one, where those look for it   *)
(* who put rows under it.                                                   *)
LEMMA HoldingMoves ==
    ASSUME HealthTypeOK, HeldOK, NEW j \in Jobs, job[j].todo # <<>>, Fit(j, job[j], id[j]),
           Op(j).do \in {"find", "create"}, NEW header \in For(job[j], Op(j).data),
           id' = Holding(j, header)
    PROVE  Moved(j)
<1>1. /\ id \in [Jobs -> Headers] /\ Invalid \in Headers /\ job[j] \in Job
      /\ job[j].todo \in Seq(Ops) /\ Op(j) \in Ops
      /\ Op(j) = job[j].todo[1] /\ 1 \in 1..Len(job[j].todo)
  BY DEF HealthTypeOK, Headers, Job, Op
<1> DEFINE data == Op(j).data
           r == job[j]
<1>2. data \in Data
  BY <1>1, OpTypes DEF Creating
<1>3. /\ MayDo(j, r.status, Op(j)) /\ j # Log
      /\ data = CooldownData => j = Host /\ r.status = "COLD_PAI"
      /\ j[1] = "sweep" => data = FineLOSweepData /\ r.status = "COLD_PAI" /\ r.band = j[2]
  BY <1>1 DEF Fit, MayDo
<1>4. header \in Headers
  BY <1>1, <1>2, HeaderType
<1>5. CASE Len(r.todo) = 1 /\ j[1] = "check"
  <2>1. id' = [id EXCEPT ![j] = Invalid]
    BY <1>5 DEF Holding, Kept
  <2> QED
    BY <1>1, <1>5, <2>1, Threads DEF Moved, HeldOK
<1>6. CASE ~(Len(r.todo) = 1 /\ j[1] = "check") /\ data = CooldownData
  <2>1. id' = [id EXCEPT ![Log] = header]
    BY <1>6 DEF Holding, Holder
  <2>2. header \in {Invalid, Lost, Header(CooldownData, 0, "COLD_PAI")}
    BY <1>1, <1>2, <1>3, <1>6, HeaderType
  <2>3. HeldOK'
    BY <1>1, <2>1, <2>2, Threads DEF HeldOK
  <2>4. Op(j).do # "insert" /\ \A d \in Data \ {CooldownData} : ~Opens(Op(j), d)
    BY <1>6 DEF Opens
  <2> QED
    BY <1>1, <1>4, <2>1, <2>3, <2>4, Threads DEF Moved
<1>7. CASE ~(Len(r.todo) = 1 /\ j[1] = "check") /\ data # CooldownData
  <2>1. id' = [id EXCEPT ![j] = header]
    BY <1>7 DEF Holding, Holder
  <2>2. j[1] = "sweep" => header \in {Invalid, Lost, Header(FineLOSweepData, j[2], "COLD_PAI")}
    BY <1>3 DEF For
  <2>3. HeldOK'
    BY <1>1, <1>3, <2>1, <2>2, Threads DEF HeldOK
  <2>4. Op(j).do # "insert" /\ \A d : Opens(Op(j), d) => d = data
    BY DEF Opens
  <2> QED
    BY <1>1, <1>4, <2>1, <2>3, <2>4 DEF Moved
<1> QED
  BY <1>5, <1>6, <1>7

(* A thread is given a legal program, and everybody can go on. *)
LEMMA BeginFits ==
    ASSUME HealthTypeOK, \A k \in Jobs : Fit(k, job[k], id[k]),
           NEW j \in Jobs, NEW todo, NEW band \in Nat, NEW status \in AllStatuses,
           Legal(j, status, todo), Begin(j, todo, band, status), UNCHANGED id,
           j[1] # "check", j[1] = "sweep" => status = "COLD_PAI" /\ band = j[2],
           j = Log => status = "COLD_PAI"
    PROVE  job' \in [Jobs -> Job] /\ \A k \in Jobs : Fit(k, job'[k], id'[k])
<1> DEFINE s == [IdleJob EXCEPT !.todo = todo, !.band = band, !.status = status]
<1>1. job \in [Jobs -> Job] /\ todo \in Seq(Ops) /\ IdleJob \in Job /\ IdleJob.stage = "look"
  BY IdleFits DEF HealthTypeOK, Legal, IdleJob
<1>2. s \in Job /\ s.todo = todo /\ s.band = band /\ s.status = status /\ s.stage = "look"
  BY <1>1 DEF Job
<1> HIDE DEF s
<1>3. Fit(j, s, id[j])
  BY <1>2, Threads, LegalFits
<1>4. job' = [job EXCEPT ![j] = IF todo = <<>> THEN IdleJob ELSE s]
  BY DEF Begin, s
<1>5. Fit(j, IdleJob, id[j])
  BY IdleFits
<1> QED
  BY <1>1, <1>2, <1>3, <1>4, <1>5

(* In the beginning nobody has anything to do. *)
LEMMA HealthInitial ==
    ASSUME HealthInit
    PROVE  HealthTypeOK /\ HealthInv
<1>1. IdleJob \in Job /\ Invalid \in Headers /\ \A j \in Jobs : Fit(j, IdleJob, Invalid)
  BY IdleFits DEF Headers
<1>2. HealthTypeOK
  BY <1>1 DEF HealthInit, HealthTypeOK
<1>3. HeldOK /\ RowsAreFiled /\ \A j \in Jobs : Fit(j, job[j], id[j])
  BY <1>1, Threads DEF HealthInit, HeldOK, RowsAreFiled
<1> QED
  BY <1>2, <1>3 DEF HealthInv

(* What is to be shown of a step, beside the types of what the host keeps:  *)
(* it leaves everybody able to go on, and puts no row astray.               *)
Keeps ==
    /\ job' \in [Jobs -> Job] /\ id' \in [Jobs -> Headers]
    /\ HeldOK' /\ \A k \in Jobs : Fit(k, job'[k], id'[k])
    /\ astray' = astray

(* The calls of the host, and the thermal log when it is due. *)
LEMMA CallsKeep ==
    ASSUME HealthTypeOK, HealthInv, Calls \/ appendThermalLog
    PROVE  Keeps /\ hc' \in [started : BOOLEAN, status : Statuses \cup {"unknown"}]
                 /\ record' \in BOOLEAN
<1> USE DEF HealthTypeOK, HealthInv
<1>0. /\ Statuses \subseteq AllStatuses /\ "COLD_PAI" \in AllStatuses /\ hc.status \in AllStatuses
      /\ "unknown" \in AllStatuses
  BY DEF AllStatuses
<1>1. /\ Host \in Jobs /\ Host[1] = "host" /\ Host # Log /\ Log \in Jobs /\ Log[1] = "log"
      /\ \A q \in Ports : Sweep(q) \in Jobs /\ Sweep(q)[1] = "sweep" /\ Sweep(q)[2] = q /\ Sweep(q) # Log
      /\ Ports \subseteq Nat
  BY Threads, PortsAssumption
<1>2. ASSUME NEW status \in Statuses, startHealthCheck(status) PROVE Keeps /\ hc' \in [started : BOOLEAN, status : Statuses \cup {"unknown"}] /\ record' \in BOOLEAN
  <2>1. PICK inRange \in BOOLEAN :
            /\ hc' = [hc EXCEPT !.status = status]
            /\ Begin(Host, IF inRange THEN HealthCheckJob ELSE <<>>, 0, status)
    BY <1>2 DEF startHealthCheck
  <2>2. UNCHANGED <<id, astray, record>>
    BY <1>2 DEF startHealthCheck
  <2>3. Legal(Host, status, IF inRange THEN HealthCheckJob ELSE <<>>)
    BY HostPrograms, NothingIsLegal
  <2>4. job' \in [Jobs -> Job] /\ \A k \in Jobs : Fit(k, job'[k], id'[k])
    BY <1>0, <1>1, <2>1, <2>2, <2>3, BeginFits
  <2> QED
    BY <2>1, <2>2, <2>4 DEF Keeps, HeldOK
<1>3. ASSUME NEW q \in Ports, cartHealthCheck(q) PROVE Keeps /\ UNCHANGED <<hc, record>>
  <2>1. PICK f \in {"center", "none"} : Begin(Host, PowerModuleJob(q, f), q, hc.status)
    BY <1>3 DEF cartHealthCheck
  <2>2. UNCHANGED <<id, astray, hc, record>>
    BY <1>3 DEF cartHealthCheck
  <2>3. Legal(Host, hc.status, PowerModuleJob(q, f))
    BY HostPrograms
  <2>4. job' \in [Jobs -> Job] /\ \A k \in Jobs : Fit(k, job'[k], id'[k])
    BY <1>0, <1>1, <2>1, <2>2, <2>3, BeginFits
  <2> QED
    BY <2>2, <2>4 DEF Keeps, HeldOK
<1>4. ASSUME NEW q \in Ports, cartHealthCheckSaveIFPowerData(q) PROVE Keeps /\ UNCHANGED <<hc, record>>
  <2>1. PICK y \in BOOLEAN : Begin(Host, IFPowerJob(y), q, hc.status)
    BY <1>4 DEF cartHealthCheckSaveIFPowerData
  <2>2. UNCHANGED <<id, astray, hc, record>>
    BY <1>4 DEF cartHealthCheckSaveIFPowerData
  <2>3. Legal(Host, hc.status, IFPowerJob(y))
    BY HostPrograms
  <2>4. job' \in [Jobs -> Job] /\ \A k \in Jobs : Fit(k, job'[k], id'[k])
    BY <1>0, <1>1, <2>1, <2>2, <2>3, BeginFits
  <2> QED
    BY <2>2, <2>4 DEF Keeps, HeldOK
<1>5. ASSUME NEW q \in Ports, measureFineLOSweep(q) PROVE Keeps /\ UNCHANGED <<hc, record>>
  <2>1. PICK pols \in {1, 2} : Begin(Sweep(q), SweepJob(pols), q, "COLD_PAI")
    BY <1>5 DEF measureFineLOSweep
  <2>2. UNCHANGED <<id, astray, hc, record>>
    BY <1>5 DEF measureFineLOSweep
  <2>3. Legal(Sweep(q), "COLD_PAI", SweepJob(pols))
    BY SweepPrograms
  <2>4. job' \in [Jobs -> Job] /\ \A k \in Jobs : Fit(k, job'[k], id'[k])
    BY <1>0, <1>1, <2>1, <2>2, <2>3, BeginFits
  <2> QED
    BY <2>2, <2>4 DEF Keeps, HeldOK
<1>6. ASSUME finishHealthCheck PROVE Keeps /\ hc' \in [started : BOOLEAN, status : Statuses \cup {"unknown"}] /\ UNCHANGED record
  BY <1>6 DEF finishHealthCheck, Keeps, HeldOK
<1>7. ASSUME startCooldownPlot PROVE Keeps /\ UNCHANGED <<hc, record>>
  <2>1. Begin(Host, PlotJob, 0, "COLD_PAI") /\ UNCHANGED <<id, astray, hc, record>>
    BY <1>7 DEF startCooldownPlot
  <2>2. Legal(Host, "COLD_PAI", PlotJob)
    BY HostPrograms
  <2>3. job' \in [Jobs -> Job] /\ \A k \in Jobs : Fit(k, job'[k], id'[k])
    BY <1>0, <1>1, <2>1, <2>2, BeginFits
  <2> QED
    BY <2>1, <2>3 DEF Keeps, HeldOK
<1>8. ASSUME stopCooldownPlot PROVE Keeps /\ UNCHANGED hc /\ record' \in BOOLEAN
  <2>1. id' = [id EXCEPT ![Log] = Invalid] /\ record' = FALSE /\ UNCHANGED <<job, astray, hc>>
    BY <1>8 DEF stopCooldownPlot
  <2>2. \A k \in Jobs \ {Log} : id'[k] = id[k]
    BY <2>1
  <2>3. \A k \in Jobs : Fit(k, job'[k], id'[k])
    BY <2>1, <2>2, OthersFit
  <2>4. HeldOK' /\ id' \in [Jobs -> Headers]
    BY <1>1, <2>1 DEF HeldOK, Headers
  <2> QED
    BY <2>1, <2>3, <2>4 DEF Keeps
<1>9. ASSUME appendThermalLog PROVE Keeps /\ UNCHANGED <<hc, record>>
  <2> DEFINE op == [do |-> "row", data |-> CooldownData]
             s == [IdleJob EXCEPT !.todo = <<op>>]
  <2>1. job' = [job EXCEPT ![Log] = s] /\ UNCHANGED <<id, astray, hc, record>>
    BY <1>9 DEF appendThermalLog, Row
  <2>2. op \in Ops /\ op.do = "row" /\ op.data = CooldownData
    BY Kinds DEF Ops
  <2>3. IdleJob \in Job /\ IdleJob.stage = "look" /\ IdleJob.status = "COLD_PAI"
    BY IdleFits DEF IdleJob
  <2> HIDE DEF op
  <2>4. s \in Job /\ s.todo = <<op>> /\ s.stage = "look" /\ s.status = "COLD_PAI"
    <3>1. <<op>> \in Seq(Ops)
      BY <2>2
    <3> QED
      BY <2>3, <3>1 DEF Job
  <2> HIDE DEF s
  <2>5. MayDo(Log, s.status, op)
    BY <1>1, <2>2 DEF MayDo
  <2>6. Fit(Log, s, id[Log])
    <3>1. \A i \in 1..Len(s.todo) : s.todo[i] = op
      BY <2>4
    <3> QED
      BY <1>1, <2>4, <2>5, <3>1 DEF Fit
  <2>7. job' \in [Jobs -> Job] /\ \A k \in Jobs : Fit(k, job'[k], id'[k])
    BY <1>1, <2>1, <2>4, <2>6
  <2> QED
    BY <2>1, <2>7 DEF Keeps, HeldOK
<1> QED
  BY <1>2, <1>3, <1>4, <1>5, <1>6, <1>7, <1>8, <1>9 DEF Calls

(* The queries of the threads. The ones that matter are LastInsertID, which *)
(* gives a thread a header or loses it, and InsertRows.                     *)
LEMMA WorkKeeps ==
    ASSUME HealthTypeOK, HealthInv, NEW j \in Jobs, Work(j)
    PROVE  Keeps /\ hc' \in [started : BOOLEAN, status : Statuses \cup {"unknown"}]
                 /\ record' \in BOOLEAN
<1> DEFINE r == job[j]
           data == Op(j).data
<1>0. /\ job \in [Jobs -> Job] /\ id \in [Jobs -> Headers] /\ r \in Job
      /\ hc \in [started : BOOLEAN, status : Statuses \cup {"unknown"}] /\ record \in BOOLEAN
      /\ HeldOK /\ RowsAreFiled /\ \A k \in Jobs : Fit(k, job[k], id[k])
  BY DEF HealthTypeOK, HealthInv
<1>1. /\ r.todo # <<>> /\ r.todo \in Seq(Ops) /\ Len(r.todo) \in Nat /\ Len(r.todo) > 0
      /\ Op(j) = r.todo[1] /\ Op(j) = Head(r.todo) /\ Op(j) \in Ops /\ 1 \in 1..Len(r.todo)
  BY <1>0 DEF Work, Busy, Op, Job
<1>2. Fit(j, r, id[j]) /\ MayDo(j, r.status, Op(j))
  BY <1>0, <1>1 DEF Fit
<1>3. /\ r.stage \in {"made", "overtaken"} => Op(j).do \in Creating \cup {"sub"}
      /\ r.stage = "rows" => Op(j).do \in {"insert", "sub"} /\ r.local \in For(r, data)
      /\ r.stage \in Stages
  BY <1>0, <1>1, <1>2 DEF Fit, Job
<1>4. HeaderFor(j) = Header(data, r.band, r.status)
  BY DEF HeaderFor
<1>5. Invalid \in For(r, data) /\ Lost \in For(r, data) /\ HeaderFor(j) \in For(r, data)
  BY <1>4 DEF For
<1>6. \A d : Opens(Op(j), d) => Op(j).do \in {"find", "create"} /\ Op(j).anew = TRUE /\ d = data
  BY <1>1, OpTypes DEF Opens, Creating
<1>7. Op(j).do = "sub" => id[j] \in For(r, data)
  BY <1>0, <1>1, <1>2, Threads DEF MayDo, Fit, HeldOK, For
<1>8. ASSUME Moved(j), job' = Advanced(j) \/ job' = Overtaken(j, Advanced(j)), UNCHANGED astray
      PROVE  Keeps
  BY <1>0, <1>1, <1>8, AdvanceFits DEF Keeps, Moved
<1>9. ASSUME NEW s \in Job, s.todo = r.todo, s.band = r.band, s.status = r.status,
             s.freqLO = r.freqLO,
             \/ s.stage = "made" /\ Op(j).do \in Creating \cup {"sub"}
             \/ s.stage = "rows" /\ Op(j).do \in {"insert", "sub"} /\ s.local \in For(r, data)
      PROVE  Fit(j, s, id[j])
  BY <1>1, <1>2, <1>9 DEF Fit, Prepared, For
<1>10. CASE ReturnEarly(j)
  <2>1. /\ id' = IF Op(j).anew THEN Holding(j, Invalid) ELSE Kept(j)
        /\ job' = Advanced(j) /\ Op(j).do \in Creating /\ UNCHANGED <<astray, hc, record>>
    BY <1>10 DEF ReturnEarly, Advance
  <2>2. CASE Op(j).anew = TRUE
    <3>1. Op(j).do \in {"find", "create"}
      BY <1>1, <2>1, <2>2, OpTypes DEF Creating
    <3>2. Moved(j)
      BY <1>0, <1>1, <1>2, <1>5, <2>1, <2>2, <3>1, HoldingMoves
    <3> QED
      BY <1>0, <1>8, <2>1, <3>2
  <2>3. CASE Op(j).anew = FALSE
    <3>1. Moved(j)
      BY <1>0, <1>1, <1>6, <2>1, <2>3, IdStays
    <3> QED
      BY <1>0, <1>8, <2>1, <3>1
  <2> QED
    BY <1>1, <2>1, <2>2, <2>3, OpTypes
<1>11. CASE FindHeader(j)
  <2>1. /\ id' = Holding(j, HeaderFor(j)) /\ Op(j).do = "find"
        /\ job' = Advanced(j) /\ UNCHANGED <<astray, hc, record>>
    BY <1>11 DEF FindHeader, Advance
  <2>2. Moved(j)
    BY <1>0, <1>1, <1>2, <1>5, <2>1, HoldingMoves
  <2> QED
    BY <1>0, <1>8, <2>1, <2>2
<1>12. CASE InsertHeader(j)
  <2>1. Op(j).do \in Creating \cup {"sub"} /\ UNCHANGED <<astray, hc, record>>
    BY <1>12 DEF InsertHeader
  <2>2. CASE job' = Overtaken(j, [job EXCEPT ![j].stage = "made"]) /\ UNCHANGED id
    <3> DEFINE s == [r EXCEPT !.stage = "made"]
               jobs == [job EXCEPT ![j] = s]
    <3>1. /\ s \in Job /\ s.stage = "made" /\ s.todo = r.todo /\ s.band = r.band
          /\ s.status = r.status /\ s.freqLO = r.freqLO
      BY <1>0 DEF Job, Stages
    <3> HIDE DEF s
    <3>2. jobs \in [Jobs -> Job] /\ jobs[j] = s /\ \A k \in Jobs \ {j} : jobs[k] = job[k]
      BY <1>0, <3>1
    <3>3. job' = Overtaken(j, jobs)
      BY <2>2 DEF s
    <3> HIDE DEF jobs
    <3>4. Fit(j, s, id[j])
      BY <1>9, <2>1, <3>1
    <3>5. \A k \in Jobs : Fit(k, jobs[k], id[k])
      BY <1>0, <3>2, <3>4
    <3>6. job' \in [Jobs -> Job] /\ \A k \in Jobs : Fit(k, job'[k], id'[k])
      <4>1. /\ Overtaken(j, jobs) \in [Jobs -> Job]
            /\ \A k \in Jobs : LET q == jobs[k]
                                   t == Overtaken(j, jobs)[k]
                               IN  t = q \/ /\ q.stage = "made" /\ t.stage = "overtaken"
                                            /\ t.todo = q.todo /\ t.local = q.local
                                            /\ t.band = q.band /\ t.status = q.status
                                            /\ t.freqLO = q.freqLO
        BY <3>2, OvertakenIs
      <4>2. ASSUME NEW k \in Jobs PROVE Fit(k, job'[k], id'[k])
        BY <2>2, <3>3, <3>5, <4>1, OthersFit
      <4> QED
        BY <3>3, <4>1, <4>2
    <3> QED
      BY <1>0, <2>1, <2>2, <3>6 DEF Keeps, HeldOK
  <2>3. CASE /\ id' = IF Op(j).do \in {"insert", "sub"} THEN Kept(j) ELSE Holding(j, Invalid)
             /\ job' = Advanced(j)
    <3>1. CASE Op(j).do \in {"insert", "sub"}
      <4>1. Moved(j)
        BY <1>0, <1>1, <1>6, <2>3, <3>1, IdStays
      <4> QED
        BY <1>0, <1>8, <2>1, <2>3, <4>1
    <3>2. CASE Op(j).do \notin {"insert", "sub"}
      <4>1. Op(j).do \in {"find", "create"}
        BY <2>1, <3>2 DEF Creating
      <4>2. Moved(j)
        BY <1>0, <1>1, <1>2, <1>5, <2>3, <3>2, <4>1, HoldingMoves
      <4> QED
        BY <1>0, <1>8, <2>1, <2>3, <4>2
    <3> QED
      BY <3>1, <3>2
  <2> QED
    BY <1>12, <2>2, <2>3 DEF InsertHeader, Advance
<1>13. CASE LastInsertID(j)
  <2> DEFINE h == IF r.stage = "overtaken" THEN Lost
                  ELSE IF Op(j).do = "sub" THEN id[j] ELSE HeaderFor(j)
  <2>1. /\ r.stage \in {"made", "overtaken"} /\ UNCHANGED <<astray, hc, record>>
        /\ IF Op(j).do \in {"insert", "sub"}
           THEN /\ job' = [job EXCEPT ![j].stage = "rows", ![j].local = h]
                /\ UNCHANGED id
           ELSE /\ id' = Holding(j, h)
                /\ job' = Advanced(j)
    BY <1>13 DEF LastInsertID, Advance
  <2>2. h \in For(r, data)
    BY <1>5, <1>7
  <2>3. data \in Data
    BY <1>1, <1>3, <2>1, OpTypes
  <2> HIDE DEF h
  <2>4. CASE Op(j).do \in {"insert", "sub"}
    <3> DEFINE s == [r EXCEPT !.stage = "rows", !.local = h]
    <3>1. h \in Headers
      BY <1>0, <2>2, <2>3, HeaderType
    <3>2. /\ s \in Job /\ s.stage = "rows" /\ s.todo = r.todo /\ s.band = r.band
          /\ s.status = r.status /\ s.freqLO = r.freqLO /\ s.local = h
      BY <1>0, <3>1 DEF Job, Stages
    <3>3. job' = [job EXCEPT ![j] = s] /\ UNCHANGED id
      BY <1>0, <2>1, <2>4
    <3> HIDE DEF s
    <3>4. Fit(j, s, id[j])
      BY <1>9, <2>2, <2>4, <3>2
    <3>5. job' \in [Jobs -> Job] /\ \A k \in Jobs : Fit(k, job'[k], id'[k])
      BY <1>0, <3>2, <3>3, <3>4
    <3> QED
      BY <1>0, <2>1, <3>3, <3>5 DEF Keeps, HeldOK
  <2>5. CASE Op(j).do \notin {"insert", "sub"}
    <3>1. Op(j).do \in {"find", "create"}
      BY <1>3, <2>1, <2>5 DEF Creating
    <3>2. Moved(j)
      BY <1>0, <1>1, <1>2, <2>1, <2>2, <2>5, <3>1, HoldingMoves
    <3> QED
      BY <1>0, <1>8, <2>1, <2>5, <3>2
  <2> QED
    BY <2>4, <2>5
<1>14. CASE InsertRows(j)
  <2>1. /\ Op(j).do = "row" \/ r.stage = "rows"
        /\ \/ /\ Target(j) # Invalid
              /\ job' = Overtaken(j, Advanced(j))
              /\ astray' = IF Target(j) \in {Lost, HeaderFor(j)} THEN astray
                           ELSE astray \cup {<<HeaderFor(j), Target(j)>>}
           \/ job' = Advanced(j) /\ UNCHANGED astray
        /\ id' = Kept(j) /\ UNCHANGED <<hc, record>>
    BY <1>14 DEF InsertRows, Advance
  <2>2. Target(j) \in {Invalid, Lost, HeaderFor(j)}
    <3>1. CASE r.stage = "rows"
      BY <1>3, <1>4, <3>1 DEF Target, For
    <3>2. CASE r.stage # "rows" /\ j = Log
      <4>1. data = CooldownData /\ Target(j) = id[Log] /\ r.status = "COLD_PAI"
        BY <1>1, <1>2, <2>1, <3>2, Threads DEF MayDo, Target, Holder, Fit
      <4> QED
        BY <1>0, <1>4, <4>1, Kinds DEF HeldOK, Header
    <3>3. CASE r.stage # "rows" /\ j # Log
      <4>1. data # CooldownData /\ Target(j) = id[j]
        BY <1>2, <2>1, <3>3 DEF MayDo, Target, Holder
      <4>2. Prepared(r, 1, id[j])
        BY <1>1, <1>2, <2>1, <3>3 DEF Fit
      <4>3. id[j] \in For(r, data)
        BY <1>1, <4>2 DEF Prepared, Follows
      <4> QED
        BY <1>4, <4>1, <4>3 DEF For
    <3> QED
      BY <3>1, <3>2, <3>3
  <2>3. astray' = astray
    BY <2>1, <2>2
  <2>4. Op(j).do \notin {"find", "create"}
    BY <1>3, <2>1
  <2>5. Moved(j)
    BY <1>0, <1>1, <1>6, <2>1, <2>4, IdStays
  <2> QED
    BY <1>0, <1>8, <2>1, <2>3, <2>5
<1>15. CASE SkipSub(j) \/ Started(j) \/ StartPlot(j)
  <2>1. /\ Op(j).do \in {"sub", "started", "plot"} /\ UNCHANGED <<id, astray>>
        /\ job' = Advanced(j) \/ job' = Overtaken(j, Advanced(j))
    BY <1>15 DEF SkipSub, Started, StartPlot, Advance
  <2>2. Moved(j)
    BY <1>0, <1>1, <1>6, <2>1, IdStays
  <2>3. hc' \in [started : BOOLEAN, status : Statuses \cup {"unknown"}] /\ record' \in BOOLEAN
    BY <1>0, <1>15 DEF SkipSub, Started, StartPlot
  <2> QED
    BY <1>8, <2>1, <2>2, <2>3
<1>16. CASE StartCheck(j)
  <2> DEFINE q == Op(j).port
  <2>1. Op(j).do = "check" /\ q \in Ports /\ Op(j).freqLO \in {"center", "none"} /\ j = Host
    BY <1>1, <1>2, <1>16, OpTypes DEF StartCheck, MayDo
  <2>2. PICK cold \in BOOLEAN :
           job' = [Advanced(j) EXCEPT
                     ![Check(q)] = [IdleJob EXCEPT !.todo = CheckJob(q, cold), !.band = q,
                                                   !.freqLO = Op(j).freqLO, !.status = job[j].status]]
    BY <1>16 DEF StartCheck
  <2>3. UNCHANGED <<id, astray, hc, record>>
    BY <1>16 DEF StartCheck
  <2> DEFINE s == [IdleJob EXCEPT !.todo = CheckJob(q, cold), !.band = q,
                                  !.freqLO = Op(j).freqLO, !.status = job[j].status]
  <2>4. Check(q) \in Jobs /\ Check(q)[1] = "check" /\ q \in Nat
    <3>1. \A k \in Ports : Check(k) \in Jobs /\ Check(k)[1] = "check"
      BY Threads, Zenon
    <3>2. \A k \in Ports : k \in Nat
      BY PortsAssumption
    <3> HIDE DEF q
    <3> QED
      BY <2>1, <3>1, <3>2, Zenon
  <2>5. Legal(Check(q), r.status, CheckJob(q, cold))
    BY <2>1, CheckPrograms
  <2>6. IdleJob \in Job /\ IdleJob.stage = "look" /\ r.status \in AllStatuses /\ CheckJob(q, cold) \in Seq(Ops)
    BY <1>0, <2>5, IdleFits DEF IdleJob, Job, Legal
  <2>7. /\ s \in Job /\ s.todo = CheckJob(q, cold) /\ s.band = q /\ s.status = r.status
        /\ s.freqLO = Op(j).freqLO /\ s.stage = "look"
    BY <2>1, <2>4, <2>6 DEF Job
  <2>8. job' = [Advanced(j) EXCEPT ![Check(q)] = s]
    BY <2>2
  <2> HIDE DEF s
  <2>9. Fit(Check(q), s, id[Check(q)])
    BY <2>1, <2>4, <2>5, <2>7, LegalFits
  <2>10. Advanced(j) \in [Jobs -> Job] /\ \A k \in Jobs \ {j} : Advanced(j)[k] = job[k]
    BY <1>1, AdvancedIs
  <2>11. Fit(j, Advanced(j)[j], id[j])
    <3>1. CASE Len(r.todo) = 1
      BY <1>1, <3>1, AdvancedIs, IdleFits
    <3>2. CASE Len(r.todo) # 1
      <4>1. \A d : ~Opens(Head(r.todo), d)
        BY <1>1, <1>6, <2>1
      <4> QED
        BY <1>0, <1>1, <1>2, <3>2, <4>1, AdvancedIs, RestFits
    <3> QED
      BY <3>1, <3>2
  <2>12. job' \in [Jobs -> Job] /\ \A k \in Jobs : Fit(k, job'[k], id[k])
    BY <1>0, <2>4, <2>7, <2>8, <2>9, <2>10, <2>11
  <2> QED
    BY <1>0, <2>3, <2>12 DEF Keeps, HeldOK
<1> QED
  BY <1>10, <1>11, <1>12, <1>13, <1>14, <1>15, <1>16 DEF Work

(* The invariant holds in every reachable state, whatever queries fail,     *)
(* however many threads are at work, and whatever the cartridges have and   *)
(* the tables lack.                                                         *)
THEOREM HealthInductive == HealthSpec => [](HealthTypeOK /\ HealthInv)
<1>1. HealthInit => HealthTypeOK /\ HealthInv
  BY HealthInitial
<1>2. HealthTypeOK /\ HealthInv /\ [HealthNext]_healthVars => HealthTypeOK' /\ HealthInv'
  <2> SUFFICES ASSUME HealthTypeOK, HealthInv, [HealthNext]_healthVars
               PROVE  HealthTypeOK' /\ HealthInv'
    OBVIOUS
  <2>1. CASE Keeps /\ hc' \in [started : BOOLEAN, status : Statuses \cup {"unknown"}]
                   /\ record' \in BOOLEAN
    BY <2>1 DEF Keeps, HealthTypeOK, HealthInv, RowsAreFiled
  <2>2. CASE HealthNext
    BY <2>1, <2>2, CallsKeep, WorkKeeps DEF HealthNext
  <2>3. CASE UNCHANGED healthVars
    BY <2>3 DEF healthVars, HealthTypeOK, HealthInv, HeldOK, RowsAreFiled
  <2> QED
    BY <2>2, <2>3
<1> QED
  BY <1>1, <1>2, PTL DEF HealthSpec

(* Every variable keeps its type. *)
THEOREM HealthTyped == HealthSpec => []HealthTypeOK
  BY HealthInductive, PTL

(* Every row stands under a header of its type, band and data status, or    *)
(* under one whose ID another thread's INSERT took away, for any number of  *)
(* cartridges and threads (FrontEndDatabase, CartHealthCheck,               *)
(* MeasureFineLOSweep and ThermalLogger on one connection).                 *)
THEOREM RowsFiled == HealthSpec => []RowsAreFiled
<1>1. HealthInv => RowsAreFiled
  BY DEF HealthInv
<1> QED
  BY <1>1, HealthInductive, PTL

(* An LNA table that the configuration has was set when the health check    *)
(* was prepared, or one that was to be set before it is missing.            *)
LEMMA TablesAreSet ==
    ASSUME NEW q \in WithCCA, NEW i \in DOMAIN LNATables(q), LNATables(q)[i] \notin empty
    PROVE  \/ LNATables(q)[i] \in prepare(q)
           \/ \E m, n \in DOMAIN LNATables(q) :
                m < n /\ LNATables(q)[m] \in empty /\ LNATables(q)[n] = LNATables(q)[i]
<1> DEFINE t == LNATables(q)
<1>1. t \in Seq(Tables)
  <2>1. <<"LNA01", "LNA02", "LNA11", "LNA12">> \in Seq(Tables)
    BY DEF Tables
  <2>2. <<"LNA01", "LNA11">> \in Seq(Tables)
    BY DEF Tables
  <2> QED
    BY <2>1, <2>2, Zenon DEF LNATables
<1>2. DOMAIN t = 1..Len(t) /\ Len(t) \in Nat
  BY <1>1
<1> HIDE DEF t
<1>3. CASE \A m \in 1..i : t[m] \notin empty
  BY <1>3 DEF prepare, setLNABias, t
<1>4. CASE \E m \in 1..i : t[m] \in empty
  <2>1. PICK m \in 1..i : t[m] \in empty
    BY <1>4
  <2>2. m < i /\ m \in DOMAIN t /\ i \in DOMAIN t
    BY <1>2, <2>1 DEF t
  <2> QED
    BY <2>1, <2>2 DEF t
<1> QED
  BY <1>3, <1>4

(* The settings that a health check records are those it made in            *)
(* CartHealthCheck::prepare, but for the reasons that RecordedIsApplied     *)
(* names, for any cartridges and any missing tables.                        *)
THEOREM AppliedIsRecorded == HealthSpec => []RecordedIsApplied
<1>1. HealthTypeOK /\ HealthInv => RecordedIsApplied
  <2> SUFFICES ASSUME HealthTypeOK, HealthInv, NEW q \in Ports, Check(q) \in Busy,
                      Op(Check(q)).do = "row", NEW x \in RecordedTables(q)
               PROVE  \/ Applied(q, x) = Recorded(x)
                      \/ job[Check(q)].freqLO = "none"
                      \/ x \in empty
                      \/ x = "Magnet" /\ ~hasMagnet(q)
                      \/ \E m, n \in DOMAIN LNATables(q) :
                           m < n /\ LNATables(q)[m] \in empty /\ LNATables(q)[n] = x
    BY DEF RecordedIsApplied
  <2> DEFINE j == Check(q)
             r == job[j]
  <2>1. /\ j \in Jobs /\ j[1] = "check" /\ j[2] = q
        /\ r.todo # <<>> /\ r \in Job /\ r.todo \in Seq(Ops) /\ Op(j) = r.todo[1]
        /\ 1 \in 1..Len(r.todo)
    BY Threads DEF Busy, HealthTypeOK, Job, Op
  <2>2. r.freqLO \in {"center", "none"} /\ MayDo(j, r.status, Op(j))
    BY <2>1 DEF HealthInv, Fit
  <2>3. /\ Op(j).data = LNAMonitorData => q \in WithCCA
        /\ Op(j).data = SISMonitorData => q \in WithCCA /\ hasSIS(q)
    BY <2>1, <2>2 DEF MayDo
  <2>4. x \in prepare(q) /\ r.freqLO = "center" /\ x \notin empty => Applied(q, x) = Recorded(x)
    BY DEF Applied, Recorded
  <2>5. CASE Op(j).data = LNAMonitorData
    <3>1. PICK i \in DOMAIN LNATables(q) : x = LNATables(q)[i]
      BY <2>5, Kinds DEF RecordedTables
    <3> QED
      BY <2>2, <2>3, <2>4, <2>5, <3>1, TablesAreSet, Zenon
  <2>6. CASE Op(j).data = SISMonitorData
    <3>1. x \in {"Mixer", "Magnet"} /\ hasSIS(q) /\ q \in WithCCA
      BY <2>3, <2>6, Kinds DEF RecordedTables
    <3>2. x \notin empty /\ (x = "Magnet" => hasMagnet(q)) => x \in prepare(q)
      BY <3>1 DEF prepare, setSISBias, setSISMagnet
    <3> QED
      BY <2>2, <2>4, <3>2
  <2>7. CASE Op(j).data \notin {LNAMonitorData, SISMonitorData}
    BY <2>7 DEF RecordedTables
  <2> QED
    BY <2>5, <2>6, <2>7
<1> QED
  BY <1>1, HealthInductive, PTL
=============================================================================
