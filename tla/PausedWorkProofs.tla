-------------------------- MODULE PausedWorkProofs --------------------------
(* Theorems about what runs while the monitors are paused: OptimizeWorker, *)
(* for any number of overlapping workers, and LockSearch, for any range of *)
(* tunings, window, row of points and span.                                *)
EXTENDS OptimizeWorker, LockSearch, TLAPS

-----------------------------------------------------------------------------
(* OptimizeWorker.                                                          *)

(* Every variable keeps its type, and a success is only reported together  *)
(* with the end of the measurement.                                         *)
THEOREM TypeCorrect == Spec => []TypeOK
<1> USE DEF flags
<1>1. Init => TypeOK
  BY DEF Init, TypeOK, HostPCs, WorkerPCs
<1>2. TypeOK /\ [Next]_vars => TypeOK'
  <2> SUFFICES ASSUME TypeOK, [Next]_vars PROVE TypeOK'
    OBVIOUS
  <2> USE DEF TypeOK, HostPCs, WorkerPCs
  <2>1. CASE StartMeasurement \/ ResetAfterStop
    BY <2>1 DEF StartMeasurement, ResetAfterStop, Cleared
  <2>2. CASE MarkStarted \/ RequestStop \/ HaltWorker
    <3>1. hpc' \in HostPCs
      BY <2>2 DEF MarkStarted, RequestStop, HaltWorker
    <3>2. start' \in BOOLEAN /\ stop' \in BOOLEAN
      BY <2>2, Zenon DEF MarkStarted, RequestStop, HaltWorker
    <3>3. UNCHANGED <<wpc, stopped, finished, success, paused, freed>>
      BY <2>2, Zenon DEF MarkStarted, RequestStop, HaltWorker
    <3> QED
      BY <3>1, <3>2, <3>3, Zenon
  <2>3. CASE CreateWorker
    BY <2>3 DEF CreateWorker, Alive
  <2>4. CASE Delete \/ TestBusy \/ PollStopped \/ PollGivesUp \/ FreeObject
    <3>1. hpc' \in HostPCs
      BY <2>4 DEF Delete, TestBusy, PollStopped, PollGivesUp, FreeObject
    <3>2. freed' \in BOOLEAN
      BY <2>4, Zenon DEF Delete, TestBusy, PollStopped, PollGivesUp, FreeObject
    <3>3. UNCHANGED <<wpc, flags, paused>>
      BY <2>4, Zenon DEF Delete, TestBusy, PollStopped, PollGivesUp, FreeObject
    <3> QED
      BY <3>1, <3>2, <3>3, Zenon
  <2>5. ASSUME NEW t \in Thread, OptimizeThread(t) PROVE TypeOK'
    <3> USE DEF Goto
    <3>1. CASE TestStop(t) \/ TestFinished(t) \/ ExitAction(t)
      BY <3>1 DEF TestStop, TestFinished, ExitAction
    <3>2. CASE PauseMonitor(t) \/ ResumeMonitor(t)
      <4>1. paused' \in BOOLEAN
        BY <3>2, Zenon DEF PauseMonitor, ResumeMonitor
      <4>2. wpc' \in [Thread -> WorkerPCs]
        BY <3>2 DEF PauseMonitor, ResumeMonitor
      <4>3. UNCHANGED <<hpc, flags, freed>>
        BY <3>2, Zenon DEF PauseMonitor, ResumeMonitor
      <4> QED
        BY <4>1, <4>2, <4>3, Zenon
    <3>3. CASE MeasureStopped(t) \/ MeasureEnough(t)
      BY <3>3 DEF MeasureStopped, MeasureEnough
    <3>4. CASE SetFinished(t)
      BY <3>4 DEF SetFinished
    <3>5. CASE AckStopped(t)
      BY <3>5 DEF AckStopped
    <3> QED
      BY <2>5, <3>1, <3>2, <3>3, <3>4, <3>5 DEF OptimizeThread, WorkerProceeds
  <2>6. ASSUME NEW t \in Thread, Astray(t) PROVE TypeOK'
    BY <2>6 DEF Astray, Goto
  <2>7. CASE UNCHANGED vars
    BY <2>7 DEF vars
  <2> QED
    BY <2>1, <2>2, <2>3, <2>4, <2>5, <2>6, <2>7 DEF Next, HostProceeds
<1> QED
  BY <1>1, <1>2, PTL DEF Spec

(* The cartridge is unmonitored only while a worker is between its two     *)
(* calls of pauseMonitor, for any number of workers that overlap.          *)
THEOREM MonitoringResumedHolds == Spec => []MonitoringResumed
<1> USE DEF flags, MonitoringResumed
<1>1. Init => MonitoringResumed
  BY DEF Init
<1>2. TypeOK /\ MonitoringResumed /\ [Next]_vars => MonitoringResumed'
  <2> SUFFICES ASSUME TypeOK, MonitoringResumed, [Next]_vars,
                      paused' /\ ~freed'
               PROVE  \E t \in Thread : wpc'[t] \in {"work", "resume"}
    OBVIOUS
  <2>1. ~freed
    BY DEF TypeOK, Next, HostProceeds, StartMeasurement, MarkStarted, CreateWorker,
       RequestStop, Delete, TestBusy, HaltWorker, PollStopped, PollGivesUp,
       ResetAfterStop, FreeObject, OptimizeThread, WorkerProceeds, Astray, vars,
       TestStop, PauseMonitor, MeasureStopped, MeasureEnough, ResumeMonitor,
       SetFinished, TestFinished, ExitAction, AckStopped
  <2>2. ASSUME paused, UNCHANGED wpc
        PROVE  \E t \in Thread : wpc'[t] \in {"work", "resume"}
    BY <2>1, <2>2
  <2>3. CASE StartMeasurement \/ MarkStarted \/ RequestStop \/ Delete \/ TestBusy
             \/ HaltWorker \/ PollStopped \/ PollGivesUp \/ ResetAfterStop
             \/ FreeObject \/ UNCHANGED vars
    BY <2>2, <2>3 DEF StartMeasurement, MarkStarted, RequestStop, Delete,
       TestBusy, HaltWorker, PollStopped, PollGivesUp, ResetAfterStop,
       FreeObject, vars
  <2>4. CASE CreateWorker
    <3>1. PICK t \in Thread : wpc[t] \in {"work", "resume"}
      BY <2>1, <2>4 DEF CreateWorker
    <3>2. PICK u \in Thread \ Alive : wpc' = [wpc EXCEPT ![u] = "top"]
      BY <2>4 DEF CreateWorker
    <3>3. u # t
      BY <3>1, <3>2 DEF Alive
    <3> QED
      BY <3>1, <3>2, <3>3 DEF TypeOK
  <2>5. ASSUME NEW t \in Thread, OptimizeThread(t)
        PROVE  \E u \in Thread : wpc'[u] \in {"work", "resume"}
    <3>1. CASE PauseMonitor(t)
      BY <3>1 DEF PauseMonitor, Goto, TypeOK
    <3>2. CASE MeasureStopped(t) \/ MeasureEnough(t)
      BY <3>2 DEF MeasureStopped, MeasureEnough, Goto, TypeOK
    <3>3. CASE ResumeMonitor(t)
      BY <3>3 DEF ResumeMonitor
    <3>4. CASE TestStop(t) \/ SetFinished(t) \/ TestFinished(t) \/ ExitAction(t)
               \/ AckStopped(t)
      <4>1. /\ wpc[t] \notin {"work", "resume"} /\ paused
            /\ \E label \in WorkerPCs : wpc' = [wpc EXCEPT ![t] = label]
        BY <3>4 DEF TestStop, SetFinished, TestFinished, ExitAction, AckStopped,
           Goto, WorkerPCs
      <4>2. PICK u \in Thread : wpc[u] \in {"work", "resume"}
        BY <2>1, <4>1
      <4> QED
        BY <4>1, <4>2 DEF TypeOK
    <3> QED
      BY <2>5, <3>1, <3>2, <3>3, <3>4 DEF OptimizeThread, WorkerProceeds
  <2>6. ASSUME NEW t \in Thread, Astray(t) PROVE FALSE
    BY <2>1, <2>6 DEF Astray
  <2> QED
    BY <2>3, <2>4, <2>5, <2>6 DEF Next, HostProceeds
<1> QED
  BY <1>1, <1>2, TypeCorrect, PTL DEF Spec

-----------------------------------------------------------------------------
(* LockSearch.                                                              *)

(* The pauses: the monitors are off during a call, and only the two ends of *)
(* a row that share one tuning leave them so.                               *)
PausesFit ==
  /\ pc # "idle" => unmonitored
  /\ pc \in {"point", "fit"} => strategy = "points"
  /\ MonitorsResumed

(* The points of a row lie in the order of the row, unless one was misread. *)
RowInOrder ==
  pc \in {"point", "fit"} /\ ~misread /\ points # <<>> =>
    \E i \in 0..index - 1 :
       /\ First.tune = PointTune(i)
       /\ Len(points) > 1 => \E j \in i + 1..index - 1 : Last.tune = PointTune(j)

(* The row has been tested up to the point that comes next. *)
RowIsTested ==
  /\ pc = "point" => index < NumPoints
  /\ pc = "fit" => index = NumPoints
  /\ pc \in {"point", "fit"} => \A i \in 0..index - 1 : PointTune(i) \in tested

(* How many steps there are to either side of the window, and where each of *)
(* them is.                                                                 *)
Steps == WindowSteps \div StepSize
Place(k) == coarse + k * StepSize

(* From lo to hi every tuning of the window has been tested, or is now.     *)
Covered(lo, hi) ==
  \A k \in lo..hi :
     -Steps <= k /\ k <= Steps /\ Place(k) \in Tunes => Place(k) \in tested \cup {tune}

(* The search has gone as far to one side as to the other, or one further.  *)
WindowToAndFro ==
  pc = "test" =>
    /\ tune \in Tunes
    /\ \E j \in Nat \ {0} :
         \/ step = j * StepSize /\ Covered(1 - j, j - 1)
         \/ step = -(j * StepSize) /\ Covered(1 - j, j)

(* Where the first offset aims at, and what is within a span of it. *)
Guess == coarse - step
Near(t) == t \in Tunes /\ Abs(t - Guess) <= Span

(* What has been measured lies within the span, and so does the next        *)
(* tuning, which is far enough from the best one to halve the distance.     *)
SpanIsHalved ==
  /\ pc = "span" => tune = Sent(Guess)
  /\ pc \in {"maximize", "second"} =>
       /\ best \in measured
       /\ \A m \in measured : m.power <= best.power
       /\ ~misread /\ Guess \in Tunes => \A m \in measured : Near(m.tune)
  /\ pc = "maximize" /\ ~misread /\ Guess \in Tunes /\ Span <= MaxTune =>
       Near(Clip(high)) /\ Abs(Clip(high) - best.tune) >= index
  /\ pc = "second" => tune = best.tune

(* The inductive invariant of a call of lockPLL: its types, the pauses, and *)
(* for each strategy how far it has come.                                   *)
LockInv ==
  /\ LockTypeOK /\ PausesFit /\ RowInOrder /\ RowIsTested /\ WindowToAndFro /\ SpanIsHalved

-----------------------------------------------------------------------------
(* Arithmetic of the searches.                                              *)

(* A larger factor gives a larger product. *)
LEMMA TimesMonotone ==
  ASSUME NEW s \in Nat \ {0}, NEW a \in Int, NEW b \in Int, a < b
  PROVE  a * s \in Int /\ b * s \in Int /\ a * s < b * s /\ s * a < s * b /\ s * a \in Int
<1>1. (b - a) * s > 0
  OBVIOUS
<1>2. b * s = a * s + (b - a) * s /\ s * a = a * s /\ s * b = b * s
  OBVIOUS
<1> QED BY <1>1, <1>2

(* A step of the search lies in the window exactly when its number does. *)
LEMMA StepsFit ==
  /\ StepSize \in Nat \ {0} /\ WindowSteps \in Nat /\ Steps \in Nat
  /\ \A k \in Nat : k <= Steps <=> k * StepSize <= WindowSteps
<1>1. StepSize \in Nat \ {0} /\ WindowSteps \in Nat
  BY LockAssumption
<1>2. Steps \in Nat /\ StepSize * Steps <= WindowSteps /\ WindowSteps < StepSize * (Steps + 1)
  BY <1>1 DEF Steps
<1>3. ASSUME NEW k \in Nat PROVE k <= Steps <=> k * StepSize <= WindowSteps
  <2>1. ASSUME k <= Steps PROVE k * StepSize <= WindowSteps
    <3>1. CASE k = Steps
      BY <1>1, <1>2, <3>1
    <3>2. CASE k < Steps
      BY <1>1, <1>2, <3>2, TimesMonotone
    <3> QED BY <2>1, <3>1, <3>2, <1>2
  <2>2. ASSUME ~(k <= Steps) PROVE ~(k * StepSize <= WindowSteps)
    <3>1. CASE k = Steps + 1
      BY <1>1, <1>2, <3>1
    <3>2. CASE k > Steps + 1
      BY <1>1, <1>2, <3>2, TimesMonotone
    <3> QED BY <2>2, <3>1, <3>2, <1>2
  <2> QED BY <2>1, <2>2
<1> QED BY <1>1, <1>2, <1>3

(* Two points of a row with one tuning are at an end of the range. *)
LEMMA SameTuneAtEnd ==
  ASSUME coarse \in Int, NEW i \in Int, NEW j \in Int, i < j, PointTune(i) = PointTune(j)
  PROVE  PointTune(i) \in {0, MaxTune}
<1> DEFINE a == i - NumPoints \div 2
<1> DEFINE b == j - NumPoints \div 2
<1>1. a \in Int /\ b \in Int /\ a < b
  BY LockAssumption
<1>2. PointTune(i) = Clip(coarse + Interval * a) /\ PointTune(j) = Clip(coarse + Interval * b)
  BY DEF PointTune
<1> HIDE DEF a, b
<1>3. Interval * a \in Int /\ Interval * b \in Int /\ Interval * a < Interval * b
  BY <1>1, LockAssumption, TimesMonotone
<1> DEFINE x == coarse + Interval * a
<1> DEFINE y == coarse + Interval * b
<1>4. x \in Int /\ y \in Int /\ x < y
  BY <1>3
<1>5. PointTune(i) = Clip(x) /\ PointTune(j) = Clip(y)
  BY <1>2
<1> HIDE DEF x, y
<1>6. Clip(x) = Clip(y)
  BY <1>5
<1>7. Clip(x) \in {0, MaxTune}
  BY <1>4, <1>6, LockAssumption DEF Clip
<1> QED BY <1>5, <1>7

(* Whatever is clipped is a tuning of the YTO. *)
LEMMA ClipInRange == \A v \in Int : Clip(v) \in Tunes
  BY LockAssumption DEF Clip, Tunes

(* So is every point of the row. *)
LEMMA PointInRange == \A i \in Int : coarse \in Int => PointTune(i) \in Tunes
<1> SUFFICES ASSUME NEW i \in Int, coarse \in Int PROVE PointTune(i) \in Tunes
  OBVIOUS
<1>1. i - NumPoints \div 2 \in Int /\ Interval \in Int
  BY LockAssumption
<1>2. Interval * (i - NumPoints \div 2) \in Int
  BY <1>1
<1>3. coarse + Interval * (i - NumPoints \div 2) \in Int
  BY <1>2
<1> QED BY <1>3, ClipInRange DEF PointTune

(* Of its size the proofs need only that it is a number. *)
LEMMA WordIsNat == Word \in Nat \ {0}
  BY DEF Word

(* Whatever is sent to the YTO arrives as an unsigned short. *)
LEMMA SentInRange == \A v \in Int : Sent(v) \in Shorts
  BY WordIsNat DEF Sent, Shorts

(* The unsigned shorts are the numbers in their range. *)
LEMMA ShortsAreInts ==
  /\ \A v \in Shorts : v \in Int /\ 0 <= v /\ v < Word
  /\ \A v \in Int : 0 <= v /\ v < Word => v \in Shorts
  BY WordIsNat DEF Shorts

(* What cannot be read is 0, which is a tuning.                             *)
LEMMA ZeroInRange == 0 \in Shorts /\ 0 \in Tunes /\ 0 \in 0..Retries
<1>1. 0 \in Shorts
  BY WordIsNat DEF Shorts
<1>2. 0 \in Tunes
  BY LockAssumption DEF Tunes
<1>3. 0 \in 0..Retries
  BY LockAssumption
<1> QED BY <1>1, <1>2, <1>3

(* A tuning within the range of the YTO arrives as what it is. *)
LEMMA TunesSent ==
  ASSUME NEW t \in Tunes
  PROVE  t \in Shorts /\ t \in Int /\ Sent(t) = t
<1>1. t \in Int /\ 0 <= t /\ t < Word
  BY LockAssumption, WordIsNat DEF Tunes
<1>2. t % Word = t
  BY <1>1, WordIsNat
<1>3. Sent(t) = t
  BY <1>2 DEF Sent
<1> QED BY <1>1, <1>3, ShortsAreInts

-----------------------------------------------------------------------------
(* Each step keeps LockInv.                                                 *)

Phases == PausesFit /\ RowInOrder /\ RowIsTested /\ WindowToAndFro /\ SpanIsHalved

(* Nothing is asked of a call that has its tuning, or none yet. *)
LEMMA BetweenPhases ==
  ASSUME pc' \in {"offset", "beginAdjust", "adjust"}, unmonitored' = TRUE
  PROVE  Phases'
  BY DEF Phases, PausesFit, RowInOrder, RowIsTested, WindowToAndFro, SpanIsHalved, MonitorsResumed

(* Nor of one that has returned by way of pauseMonitor(false, false). *)
LEMMA Returned ==
  ASSUME Return
  PROVE  Phases'
  BY DEF Phases, PausesFit, RowInOrder, RowIsTested, WindowToAndFro, SpanIsHalved, MonitorsResumed,
         Return

(* Before the first call the invariant holds. *)
LEMMA LockInitHolds == LockInit => LockInv
<1> SUFFICES ASSUME LockInit PROVE LockInv
  OBVIOUS
<1> USE DEF LockInit
<1>1. 0 \in Tunes /\ 0 \in Shorts /\ 0 \in 0..Retries
  BY ZeroInRange
<1>2. LockTypeOK
  <2>1. pc \in PCs /\ strategy \in {"normal", "points", "online"}
    BY DEF PCs
  <2>4. unmonitored \in BOOLEAN /\ misread \in BOOLEAN
    OBVIOUS
  <2>2. /\ coarse \in Tunes /\ tune \in Shorts
        /\ step \in Int /\ tested \subseteq Tunes /\ index \in Nat /\ high \in Int
        /\ measured \subseteq Measures /\ best \in Measures \cup {NoMeasure}
        /\ origin \in Shorts /\ try \in Int /\ retries \in 0..Retries
    BY <1>1
  <2>3. points \in Seq(Points) /\ history \in Seq(Shorts)
    OBVIOUS
  <2> QED BY <2>1, <2>2, <2>3, <2>4, Zenon DEF LockTypeOK
<1>3. PausesFit /\ RowInOrder /\ RowIsTested /\ WindowToAndFro /\ SpanIsHalved
  BY DEF PausesFit, RowInOrder, RowIsTested, WindowToAndFro, SpanIsHalved, MonitorsResumed
<1> QED BY <1>2, <1>3 DEF LockInv

(* What every call begins with. *)
LEMMA BeginTypes ==
  ASSUME LockTypeOK, NEW by \in {"normal", "points", "online"}, NEW c \in Tunes, Begin(by, c),
         tune' \in Shorts, pc' \in PCs
  PROVE  LockTypeOK' /\ unmonitored' = TRUE
<1>1. /\ strategy' = by /\ coarse' = c /\ unmonitored' = TRUE /\ misread' = FALSE
      /\ step' = (IF by = "normal" THEN StepSize ELSE 0) /\ tested' = {} /\ points' = <<>>
      /\ index' = 0 /\ best' = NoMeasure /\ high' = 0 /\ measured' = {}
      /\ origin' = 0 /\ try' = 0 /\ retries' = 0 /\ history' = <<>>
  BY DEF Begin, ClearSearch
<1>2. 0 \in Shorts /\ 0 \in 0..Retries
  BY ZeroInRange
<1>3. points' \in Seq(Points) /\ history' \in Seq(Shorts)
  BY <1>1
<1>4. step' \in Int
  BY <1>1, LockAssumption
<1>5. unmonitored' \in BOOLEAN /\ misread' \in BOOLEAN
  BY <1>1
<1>6. /\ tested' \subseteq Tunes /\ index' \in Nat /\ high' \in Int
      /\ measured' \subseteq Measures /\ best' \in Measures \cup {NoMeasure}
      /\ origin' \in Shorts /\ try' \in Int /\ retries' \in 0..Retries
  BY <1>1, <1>2
<1>7. strategy' \in {"normal", "points", "online"} /\ coarse' \in Tunes
  BY <1>1
<1> QED BY <1>1, <1>3, <1>4, <1>5, <1>6, <1>7, Zenon DEF LockTypeOK

(* LOCK_Normal begins where the lock should be, with nothing tested. *)
LEMMA BeginsNormal ==
  ASSUME LockInv, NEW c \in Tunes, BeginNormal(c)
  PROVE  LockInv'
<1>1. /\ Begin("normal", c) /\ tune' = c /\ pc' = "test" /\ coarse' = c
      /\ step' = StepSize /\ tested' = {}
  BY DEF BeginNormal, Begin, ClearSearch
<1>2. LockTypeOK' /\ unmonitored' = TRUE
  BY <1>1, BeginTypes, TunesSent DEF LockInv, PCs
<1>3. WindowToAndFro'
  <2>1. c \in Int /\ StepSize \in Nat
    BY TunesSent, LockAssumption
  <2>2. c + 0 * StepSize = c /\ 1 * StepSize = StepSize
    BY <2>1
  <2>3. Covered(1 - 1, 1 - 1)'
    BY <1>1, <2>2 DEF Covered, Place
  <2> QED BY <1>1, <2>2, <2>3 DEF WindowToAndFro
<1>4. PausesFit' /\ RowInOrder' /\ RowIsTested' /\ SpanIsHalved'
  BY <1>1, <1>2 DEF PausesFit, RowInOrder, RowIsTested, SpanIsHalved, MonitorsResumed
<1> QED BY <1>2, <1>3, <1>4 DEF LockInv

(* The maximization begins where the lock should be, with the monitors      *)
(* paused.                                                                  *)
LEMMA BeginsOnline ==
  ASSUME LockInv, NEW c \in Tunes, BeginOnline(c)
  PROVE  LockInv'
<1>1. Begin("online", c) /\ tune' = c /\ pc' = "offset"
  BY DEF BeginOnline
<1>2. LockTypeOK' /\ unmonitored' = TRUE
  BY <1>1, BeginTypes, TunesSent DEF LockInv, PCs
<1> QED BY <1>1, <1>2, BetweenPhases DEF LockInv, Phases

(* The row of points begins with its first place, unless there is a lock    *)
(* already.                                                                 *)
LEMMA BeginsPoints ==
  ASSUME LockInv, NEW c \in Tunes, NEW locked \in BOOLEAN, BeginPoints(c, locked)
  PROVE  LockInv'
<1>1. /\ Begin("points", c) /\ tune' = tune /\ pc' \in {"beginAdjust", "point"}
      /\ strategy' = "points" /\ points' = <<>> /\ index' = 0
  BY DEF BeginPoints, Begin, ClearSearch
<1>2. LockTypeOK' /\ unmonitored' = TRUE
  <2>1. tune' \in Shorts
    BY <1>1 DEF LockInv, LockTypeOK
  <2> QED BY <1>1, <2>1, BeginTypes DEF LockInv, PCs
<1>3. CASE pc' = "beginAdjust"
  BY <1>2, <1>3, BetweenPhases DEF LockInv, Phases
<1>4. CASE pc' = "point"
  <2>1. PausesFit' /\ RowInOrder' /\ RowIsTested'
    <3>1. 0 < NumPoints
      BY LockAssumption
    <3> QED BY <1>1, <1>2, <1>4, <3>1 DEF PausesFit, RowInOrder, RowIsTested, MonitorsResumed
  <2>2. WindowToAndFro' /\ SpanIsHalved'
    BY <1>4 DEF WindowToAndFro, SpanIsHalved
  <2> QED BY <1>2, <2>1, <2>2 DEF LockInv
<1> QED BY <1>1, <1>3, <1>4

(* One more place has been tested when Test goes on to the next. *)
LEMMA Tests ==
  ASSUME LockInv, NEW locked \in BOOLEAN, Test(locked)
  PROVE  LockInv'
<1> USE DEF LockInv
<1>1. /\ pc = "test" /\ unmonitored = TRUE /\ tune \in Tunes /\ coarse \in Int
      /\ tested' = tested \cup {tune}
      /\ UNCHANGED <<strategy, coarse, points, index, best, high, measured,
                     origin, try, retries, history, misread>>
  <2>1. /\ pc = "test" /\ tested' = tested \cup {tune}
        /\ UNCHANGED <<strategy, coarse, points, index, best, high, measured,
                       origin, try, retries, history, misread>>
    BY DEF Test, maximize, adjust
  <2>2. unmonitored \in BOOLEAN /\ coarse \in Tunes
    BY DEF LockTypeOK
  <2>3. unmonitored = TRUE
    BY <2>1, <2>2 DEF PausesFit
  <2>4. tune \in Tunes
    BY <2>1 DEF WindowToAndFro
  <2> QED BY <2>1, <2>2, <2>3, <2>4, TunesSent
<1>2. CASE locked
  <2>1. pc' = "beginAdjust" /\ UNCHANGED <<tune, step, unmonitored>>
    BY <1>2 DEF Test
  <2>2. LockTypeOK'
    BY <1>1, <2>1 DEF LockTypeOK, PCs
  <2> QED BY <1>1, <2>1, <2>2, BetweenPhases DEF Phases
<1>3. CASE ~locked
  <2>1. /\ tune' = IF InWindow(coarse + step) THEN coarse + step ELSE tune
        /\ step' = NextStep
        /\ IF NextStep > WindowSteps THEN Return ELSE UNCHANGED <<pc, unmonitored>>
    BY <1>3 DEF Test
  <2>2. tune' \in Tunes /\ step \in Int /\ step' \in Int
    <3>1. step \in Int
      BY DEF LockTypeOK
    <3>2. NextStep \in Int
      BY <3>1, LockAssumption DEF NextStep
    <3> QED BY <1>1, <2>1, <3>1, <3>2 DEF InWindow
  <2>3. LockTypeOK'
    <3>1. pc' \in PCs /\ unmonitored' \in BOOLEAN
      BY <2>1 DEF Return, PCs, LockTypeOK
    <3> QED BY <1>1, <2>2, <3>1, TunesSent DEF LockTypeOK
  <2>4. CASE NextStep > WindowSteps
    BY <2>1, <2>3, <2>4, Returned DEF Phases
  <2>5. CASE ~(NextStep > WindowSteps)
    <3>1. pc' = "test" /\ unmonitored' = TRUE
      BY <1>1, <2>1, <2>5
    <3>2. WindowToAndFro'
      <4>1. PICK j \in Nat \ {0} : \/ step = j * StepSize /\ Covered(1 - j, j - 1)
                                   \/ step = -(j * StepSize) /\ Covered(1 - j, j)
        BY <1>1 DEF WindowToAndFro
      <4>2. j * StepSize \in Nat \ {0} /\ (-j) * StepSize = -(j * StepSize)
        BY LockAssumption
      <4>3. CASE step = j * StepSize /\ Covered(1 - j, j - 1)
        <5>1. step' = -(j * StepSize)
          BY <2>1, <4>2, <4>3 DEF NextStep
        <5>2. ASSUME NEW k \in 1 - j..j, -Steps <= k, k <= Steps, Place(k)' \in Tunes
              PROVE  Place(k)' \in tested' \cup {tune'}
          <6>1. Place(k)' = Place(k)
            BY <1>1 DEF Place
          <6>2. CASE k \in 1 - j..j - 1
            BY <1>1, <4>3, <5>2, <6>1, <6>2 DEF Covered
          <6>3. CASE k = j
            <7>1. j * StepSize <= WindowSteps
              BY <5>2, <6>3, StepsFit
            <7>2. Place(k) = coarse + step
              BY <4>3, <6>3 DEF Place
            <7>3. InWindow(coarse + step)
              BY <1>1, <4>2, <4>3, <5>2, <6>1, <7>1, <7>2 DEF InWindow, Abs
            <7> QED BY <2>1, <6>1, <7>2, <7>3
          <6> QED BY <5>2, <6>2, <6>3
        <5>3. Covered(1 - j, j)'
          BY <5>2 DEF Covered
        <5> QED BY <2>2, <5>1, <5>3 DEF WindowToAndFro
      <4>4. CASE step = -(j * StepSize) /\ Covered(1 - j, j)
        <5>1. step' = (j + 1) * StepSize
          <6>1. step' = StepSize + j * StepSize
            BY <2>1, <4>2, <4>4, LockAssumption DEF NextStep
          <6> QED BY <6>1, LockAssumption
        <5>2. ASSUME NEW k \in -j..j, -Steps <= k, k <= Steps, Place(k)' \in Tunes
              PROVE  Place(k)' \in tested' \cup {tune'}
          <6>1. Place(k)' = Place(k)
            BY <1>1 DEF Place
          <6>2. CASE k \in 1 - j..j
            BY <1>1, <4>4, <5>2, <6>1, <6>2 DEF Covered
          <6>3. CASE k = -j
            <7>1. j * StepSize <= WindowSteps
              <8>1. j <= Steps
                BY <5>2, <6>3, StepsFit
              <8> QED BY <8>1, StepsFit
            <7>2. Place(k) = coarse + step
              BY <4>2, <4>4, <6>3 DEF Place
            <7>3. InWindow(coarse + step)
              BY <1>1, <4>2, <4>4, <5>2, <6>1, <7>1, <7>2 DEF InWindow, Abs
            <7> QED BY <2>1, <6>1, <7>2, <7>3
          <6> QED BY <5>2, <6>2, <6>3
        <5>3. Covered(1 - (j + 1), (j + 1) - 1)'
          <6>1. 1 - (j + 1) = -j /\ (j + 1) - 1 = j
            OBVIOUS
          <6> QED BY <5>2, <6>1 DEF Covered
        <5> QED BY <2>2, <5>1, <5>3 DEF WindowToAndFro
      <4> QED BY <4>1, <4>3, <4>4
    <3>3. PausesFit' /\ RowInOrder' /\ RowIsTested' /\ SpanIsHalved'
      BY <3>1 DEF PausesFit, RowInOrder, RowIsTested, SpanIsHalved, MonitorsResumed
    <3> QED BY <2>3, <3>2, <3>3
  <2> QED BY <2>4, <2>5
<1> QED BY <1>2, <1>3

(* Point adds its place to the row, and its tuning to the points if the     *)
(* lock was found there.                                                    *)
LEMMA PointsOn ==
  ASSUME LockInv, NEW locked \in BOOLEAN, NEW fails \in BOOLEAN, NEW corr \in -1..1,
         Point(locked, corr, fails)
  PROVE  LockInv'
<1> DEFINE p == PointTune(index)
<1> DEFINE q == [tune |-> IF fails THEN 0 ELSE p, corr |-> corr]
<1> USE DEF LockInv
<1>1. /\ pc = "point" /\ tune' = p /\ tested' = tested \cup {p}
      /\ points' = IF locked THEN Append(points, q) ELSE points
      /\ (misread' <=> misread \/ fails) /\ misread' \in BOOLEAN
      /\ index' = index + 1 /\ pc' = (IF index' = NumPoints THEN "fit" ELSE "point")
      /\ UNCHANGED <<strategy, coarse, unmonitored, step, best, high, measured,
                     origin, try, retries, history>>
  <2>1. misread' = (misread \/ fails)
    BY DEF Point
  <2> QED BY <2>1 DEF Point, maximize, adjust
<1>2. index \in Nat /\ coarse \in Int /\ points \in Seq(Points) /\ misread \in BOOLEAN
  BY TunesSent DEF LockTypeOK
<1>3. p \in Tunes /\ q \in Points
  <2>1. p \in Tunes
    BY <1>2, PointInRange
  <2>2. 0 \in Tunes
    BY ZeroInRange
  <2> QED BY <2>1, <2>2 DEF Points
<1>4. /\ unmonitored /\ strategy = "points" /\ index < NumPoints
      /\ \A i \in 0..index - 1 : PointTune(i) \in tested
  BY <1>1 DEF PausesFit, RowIsTested
<1>5. \A i \in Int : PointTune(i)' = PointTune(i)
  BY <1>1 DEF PointTune
<1> HIDE DEF p, q
<1>6. points' \in Seq(Points)
  BY <1>1, <1>2, <1>3
<1>7. LockTypeOK'
  <2>1. tune' \in Shorts /\ tested' \subseteq Tunes
    BY <1>1, <1>3, TunesSent DEF LockTypeOK
  <2>2. pc' \in PCs /\ index' \in Nat
    BY <1>1, <1>2 DEF PCs
  <2>3. /\ strategy' \in {"normal", "points", "online"} /\ coarse' \in Tunes
        /\ unmonitored' \in BOOLEAN /\ step' \in Int
        /\ best' \in Measures \cup {NoMeasure} /\ high' \in Int /\ measured' \subseteq Measures
        /\ origin' \in Shorts /\ try' \in Int /\ retries' \in 0..Retries /\ history' \in Seq(Shorts)
    BY <1>1 DEF LockTypeOK
  <2> QED BY <1>1, <1>6, <2>1, <2>2, <2>3, Zenon DEF LockTypeOK
<1>8. PausesFit'
  BY <1>1, <1>4 DEF PausesFit, MonitorsResumed
<1>9. RowIsTested'
  <2>1. ASSUME NEW i \in 0..index' - 1 PROVE PointTune(i)' \in tested'
    <3>1. i \in 0..index - 1 \/ i = index
      BY <1>1, <1>2
    <3> QED BY <1>1, <1>4, <1>5, <3>1, <1>2 DEF p
  <2>2. NumPoints \in Nat /\ index' <= NumPoints
    BY <1>1, <1>2, <1>4, LockAssumption
  <2> QED BY <1>1, <2>1, <2>2 DEF RowIsTested
<1>10. RowInOrder'
  <2> SUFFICES ASSUME ~misread', points' # <<>>
               PROVE  \E i \in 0..index' - 1 :
                         /\ points'[1].tune = PointTune(i)
                         /\ Len(points') > 1 =>
                              \E j \in i + 1..index' - 1 : points'[Len(points')].tune = PointTune(j)
    BY <1>1, <1>2, <1>5 DEF RowInOrder, First, Last
  <2>1. ~misread /\ ~fails
    BY <1>1
  <2>2. CASE ~locked
    <3>1. points' = points /\ points # <<>>
      BY <1>1, <2>2
    <3>2. PICK i \in 0..index - 1 :
             /\ points[1].tune = PointTune(i)
             /\ Len(points) > 1 =>
                  \E j \in i + 1..index - 1 : points[Len(points)].tune = PointTune(j)
      BY <1>1, <2>1, <3>1 DEF RowInOrder, First, Last
    <3>3. i \in 0..index' - 1 /\ \A j \in i + 1..index - 1 : j \in i + 1..index' - 1
      BY <1>1, <1>2
    <3> QED BY <3>1, <3>2, <3>3
  <2>3. CASE locked
    <3>1. points' = Append(points, q) /\ q.tune = PointTune(index)
      BY <1>1, <2>1, <2>3 DEF p, q
    <3>2. CASE points = <<>>
      <4>1. points'[1] = q /\ Len(points') = 1 /\ index \in 0..index' - 1
        BY <1>1, <1>2, <3>1, <3>2
      <4> QED BY <3>1, <4>1
    <3>3. CASE points # <<>>
      <4>1. PICK i \in 0..index - 1 : points[1].tune = PointTune(i)
        BY <1>1, <2>1, <3>3 DEF RowInOrder, First
      <4>2. points'[1] = points[1] /\ points'[Len(points')] = q
        BY <1>2, <1>3, <3>1, <3>3
      <4>3. i \in 0..index' - 1 /\ index \in i + 1..index' - 1
        BY <1>1, <1>2
      <4> QED BY <3>1, <4>1, <4>2, <4>3
    <3> QED BY <3>2, <3>3
  <2> QED BY <2>2, <2>3
<1>11. WindowToAndFro' /\ SpanIsHalved'
  BY <1>1 DEF WindowToAndFro, SpanIsHalved
<1> QED BY <1>7, <1>8, <1>9, <1>10, <1>11

(* What Fit sends is a number, whatever the points are. *)
LEMMA ZeroIsInt ==
  ASSUME points \in Seq(Points), Len(points) > 1, First.tune # Last.tune
  PROVE  TuneZero \in Int
<1>1. points[1] \in Points /\ points[Len(points)] \in Points
  OBVIOUS
<1>2. /\ First.tune \in Int /\ Last.tune \in Int /\ First.corr \in Int /\ Last.corr \in Int
  BY <1>1, TunesSent DEF First, Last, Points
<1>3. ASSUME NEW a \in Int, NEW b \in Int, b # 0 PROVE Quotient(a, b) \in Int
  <2>1. Abs(a) \in Nat /\ Abs(b) \in Nat \ {0}
    BY <1>3 DEF Abs
  <2>2. Abs(a) \div Abs(b) \in Int
    BY <2>1
  <2> QED BY <2>2 DEF Quotient
<1> DEFINE rise == Last.corr - First.corr
<1> DEFINE run == Last.tune - First.tune
<1>4. rise \in Int /\ run \in Int
  BY <1>2
<1>5. TuneZero = IF rise * run < 0 THEN Quotient(First.tune * rise - First.corr * run, rise)
                 ELSE (First.tune + Last.tune) \div 2
  BY DEF TuneZero
<1> HIDE DEF rise, run
<1>6. CASE rise * run < 0
  <2>1. rise # 0
    BY <1>4, <1>6
  <2>2. First.tune * rise \in Int /\ First.corr * run \in Int
    BY <1>2, <1>4
  <2>3. First.tune * rise - First.corr * run \in Int
    BY <2>2
  <2> QED BY <1>3, <1>4, <1>5, <1>6, <2>1, <2>3
<1>7. CASE ~(rise * run < 0)
  BY <1>2, <1>5, <1>7
<1> QED BY <1>6, <1>7

(* Two points at one tuning are the only way out that leaves the monitors   *)
(* off; in a row that was read well they are at an end of the range.        *)
LEMMA FitEnds ==
  ASSUME LockInv, Fit
  PROVE  LockInv'
<1> USE DEF LockInv
<1>1. /\ pc = "fit"
      /\ UNCHANGED <<strategy, coarse, step, tested, points, index, best, high, measured,
                     origin, try, retries, history, misread>>
  BY DEF Fit, search, maximize, adjust
<1>2. /\ unmonitored /\ strategy = "points" /\ points \in Seq(Points)
      /\ coarse \in Int /\ index \in Nat
  BY <1>1, TunesSent DEF PausesFit, LockTypeOK
<1>3. ASSUME pc' \in PCs, tune' \in Shorts, unmonitored' \in BOOLEAN
      PROVE  LockTypeOK'
  <2>1. /\ strategy' \in {"normal", "points", "online"} /\ coarse' \in Tunes
        /\ misread' \in BOOLEAN /\ step' \in Int /\ tested' \subseteq Tunes
        /\ points' \in Seq(Points) /\ index' \in Nat
        /\ best' \in Measures \cup {NoMeasure} /\ high' \in Int /\ measured' \subseteq Measures
        /\ origin' \in Shorts /\ try' \in Int /\ retries' \in 0..Retries /\ history' \in Seq(Shorts)
    BY <1>1 DEF LockTypeOK
  <2> QED BY <1>3, <2>1, Zenon DEF LockTypeOK
<1>4. tune \in Shorts
  BY DEF LockTypeOK
<1>5. CASE points = <<>> /\ Return /\ UNCHANGED tune
  <2>1. LockTypeOK'
    BY <1>3, <1>4, <1>5 DEF Return, PCs
  <2> QED BY <1>5, <2>1, Returned DEF Phases
<1>6. CASE Len(points) = 1 /\ tune' = First.tune /\ pc' = "beginAdjust" /\ UNCHANGED unmonitored
  <2>1. First.tune \in Shorts
    <3>1. points[1] \in Points
      BY <1>2, <1>6
    <3> QED BY <3>1, TunesSent DEF First, Points
  <2>2. unmonitored' \in BOOLEAN /\ unmonitored' = TRUE
    BY <1>2, <1>6 DEF LockTypeOK
  <2>3. LockTypeOK'
    BY <1>3, <1>6, <2>1, <2>2 DEF PCs
  <2> QED BY <1>6, <2>2, <2>3, BetweenPhases DEF Phases
<1>7. CASE Len(points) > 1 /\ First.tune # Last.tune /\ tune' = Sent(TuneZero) /\ Return
  <2>1. tune' \in Shorts
    BY <1>2, <1>7, ZeroIsInt, SentInRange
  <2>2. LockTypeOK'
    BY <1>3, <1>7, <2>1 DEF Return, PCs
  <2> QED BY <1>7, <2>2, Returned DEF Phases
<1>8. CASE /\ Len(points) > 1 /\ First.tune = Last.tune
           /\ pc' = "idle" /\ UNCHANGED <<tune, unmonitored>>
  <2>1. LockTypeOK'
    <3>1. unmonitored' \in BOOLEAN
      BY <1>8 DEF LockTypeOK
    <3> QED BY <1>3, <1>4, <1>8, <3>1 DEF PCs
  <2>2. misread \/ First.tune \in {0, MaxTune}
    <3> SUFFICES ASSUME ~misread PROVE First.tune \in {0, MaxTune}
      OBVIOUS
    <3>1. points # <<>>
      BY <1>2, <1>8
    <3>2. PICK i \in 0..index - 1 :
             /\ First.tune = PointTune(i)
             /\ \E j \in i + 1..index - 1 : Last.tune = PointTune(j)
      BY <1>1, <1>8, <3>1 DEF RowInOrder
    <3>3. PICK j \in i + 1..index - 1 : Last.tune = PointTune(j)
      BY <3>2
    <3>4. i \in Int /\ j \in Int /\ i < j
      BY <1>2
    <3> QED BY <1>2, <1>8, <3>2, <3>3, <3>4, SameTuneAtEnd
  <2>3. PausesFit'
    <3>1. First' = First /\ Len(points') > 1 /\ strategy' = "points" /\ (misread' <=> misread)
      BY <1>1, <1>2, <1>8 DEF First
    <3> QED BY <1>8, <2>2, <3>1 DEF PausesFit, MonitorsResumed
  <2>4. RowInOrder' /\ RowIsTested' /\ WindowToAndFro' /\ SpanIsHalved'
    BY <1>8 DEF RowInOrder, RowIsTested, WindowToAndFro, SpanIsHalved
  <2> QED BY <2>1, <2>3, <2>4
<1> QED BY <1>5, <1>6, <1>7, <1>8 DEF Fit

-----------------------------------------------------------------------------
(* LOCK_ONLINE_2021JUL_B.                                                   *)

(* The first offset is sent as the guess, taken as an unsigned short. *)
LEMMA OffsetsFirst ==
  ASSUME LockInv, NEW offset \in Offsets, NEW sbLock \in 0..1, FirstOffset(offset, sbLock)
  PROVE  LockInv'
<1> USE DEF LockInv
<1>1. /\ pc = "offset" /\ pc' = "span" /\ tune' = Sent(coarse - step')
      /\ step' = offset * (IF sbLock = 1 THEN 1 ELSE -1)
      /\ UNCHANGED <<strategy, coarse, unmonitored, tested, points, index, best, high, measured,
                     origin, try, retries, history, misread>>
  BY DEF FirstOffset, maximize, adjust
<1>2. step' \in Int /\ coarse \in Int
  <2>1. offset \in Int
    BY LockAssumption
  <2> QED BY <1>1, <2>1, TunesSent DEF LockTypeOK
<1>3. LockTypeOK'
  <2>1. /\ strategy' \in {"normal", "points", "online"} /\ coarse' \in Tunes
        /\ unmonitored' \in BOOLEAN /\ misread' \in BOOLEAN /\ tested' \subseteq Tunes
        /\ points' \in Seq(Points) /\ index' \in Nat
        /\ best' \in Measures \cup {NoMeasure} /\ high' \in Int /\ measured' \subseteq Measures
        /\ origin' \in Shorts /\ try' \in Int /\ retries' \in 0..Retries /\ history' \in Seq(Shorts)
    BY <1>1 DEF LockTypeOK
  <2>2. pc' \in PCs
    BY <1>1 DEF PCs
  <2>3. tune' \in Shorts
    BY <1>1, <1>2, SentInRange
  <2> QED BY <1>2, <2>1, <2>2, <2>3, Zenon DEF LockTypeOK
<1>4. unmonitored'
  BY <1>1 DEF PausesFit
<1>5. tune' = Sent(Guess)'
  BY <1>1 DEF Guess, Sent
<1> QED BY <1>1, <1>3, <1>4, <1>5
        DEF PausesFit, MonitorsResumed, RowInOrder, RowIsTested, WindowToAndFro, SpanIsHalved

(* One span below and one span above a tuning, cut off at the ends of the   *)
(* range, are still a span apart if the range has room for one.             *)
LEMMA LowEndNear ==
  ASSUME NEW g \in Tunes
  PROVE  LET low == IF g < Span THEN 0 ELSE g - Span IN
         /\ low \in Tunes /\ Abs(low - g) <= Span
         /\ Span <= MaxTune =>
              /\ Clip(g + Span) \in Tunes /\ Abs(Clip(g + Span) - g) <= Span
              /\ Abs(Clip(g + Span) - low) >= Span
<1> DEFINE low == IF g < Span THEN 0 ELSE g - Span
<1>1. g \in Int /\ 0 <= g /\ g <= MaxTune /\ MaxTune \in Nat /\ Span \in Nat
  BY LockAssumption DEF Tunes
<1>2. low \in Int /\ 0 <= low /\ low <= g /\ g - low <= Span
  BY <1>1
<1>3. low \in Tunes
  BY <1>1, <1>2 DEF Tunes
<1>4. Abs(low - g) <= Span
  BY <1>1, <1>2 DEF Abs
<1>5. ASSUME Span <= MaxTune
      PROVE  /\ Clip(g + Span) \in Tunes /\ Abs(Clip(g + Span) - g) <= Span
             /\ Abs(Clip(g + Span) - low) >= Span
  <2>1. Clip(g + Span) \in Tunes
    BY <1>1, ClipInRange
  <2>2. CASE g + Span <= MaxTune
    <3>1. Clip(g + Span) = g + Span
      BY <1>1, <2>2 DEF Clip
    <3> QED BY <1>1, <1>2, <2>1, <3>1 DEF Abs
  <2>3. CASE g + Span > MaxTune
    <3>1. Clip(g + Span) = MaxTune
      BY <1>1, <2>3 DEF Clip
    <3>2. MaxTune - low >= Span
      BY <1>1, <1>5
    <3> QED BY <1>1, <1>2, <2>1, <2>3, <3>1, <3>2 DEF Abs
  <2> QED BY <1>1, <2>2, <2>3
<1> QED BY <1>3, <1>4, <1>5

(* A step from the better of two tunings towards the other, no wider than   *)
(* their distance, ends between them.                                       *)
LEMMA Between ==
  ASSUME NEW g \in Tunes, NEW a \in Tunes, NEW b \in Tunes, NEW i \in Nat \ {0},
         Abs(a - g) <= Span, Abs(b - g) <= Span, Abs(a - b) >= i,
         NEW x \in Int, x = IF a > b THEN a - i ELSE a + i
  PROVE  Clip(x) \in Tunes /\ Abs(Clip(x) - g) <= Span /\ Abs(Clip(x) - a) >= i \div 2
<1>1. /\ g \in Int /\ a \in Int /\ b \in Int /\ 0 <= a /\ a <= MaxTune /\ 0 <= b /\ b <= MaxTune
      /\ MaxTune \in Nat /\ Span \in Nat
  BY LockAssumption DEF Tunes
<1>2. g - Span <= a /\ a <= g + Span /\ g - Span <= b /\ b <= g + Span
  BY <1>1 DEF Abs
<1>3. (b <= x /\ x <= a /\ a - x = i) \/ (a <= x /\ x <= b /\ x - a = i)
  BY <1>1 DEF Abs
<1>4. 0 <= x /\ x <= MaxTune /\ g - Span <= x /\ x <= g + Span
  BY <1>1, <1>2, <1>3
<1>5. Clip(x) = x /\ x \in Tunes
  BY <1>1, <1>4 DEF Clip, Tunes
<1>6. Abs(x - g) <= Span /\ Abs(x - a) = i
  BY <1>1, <1>3, <1>4 DEF Abs
<1>7. i \div 2 <= i
  OBVIOUS
<1> QED BY <1>5, <1>6, <1>7

(* The lower end is measured where the guess was sent. *)
LEMMA MeasuresLowerEnd ==
  ASSUME LockInv, NEW fails \in BOOLEAN, NEW power \in Powers, LowerEnd(fails, power)
  PROVE  LockInv'
<1> DEFINE low == IF Read(fails) < Span THEN 0 ELSE Read(fails) - Span
<1> DEFINE m == [tune |-> low, power |-> power]
<1> USE DEF LockInv
<1>1. /\ pc = "span" /\ pc' = "maximize" /\ tune' = low /\ best' = m /\ measured' = {m}
      /\ high' = Read(fails) + Span /\ index' = Span
      /\ (misread' <=> misread \/ fails) /\ misread' \in BOOLEAN
      /\ UNCHANGED <<strategy, coarse, unmonitored, step, tested, points,
                     origin, try, retries, history>>
  <2>1. misread' = (misread \/ fails)
    BY DEF LowerEnd
  <2>2. misread' \in BOOLEAN
    BY <2>1
  <2> QED BY <2>1, <2>2 DEF LowerEnd, adjust
<1>2. Read(fails) \in Shorts
  <2>1. tune \in Shorts
    BY DEF LockTypeOK
  <2>2. 0 \in Shorts
    BY ZeroInRange
  <2> QED BY <2>1, <2>2 DEF Read
<1>3. low \in Shorts /\ Read(fails) \in Int /\ Span \in Nat
  <2>1. Span \in Nat
    BY LockAssumption
  <2>2. Read(fails) \in Int /\ 0 <= Read(fails) /\ Read(fails) < Word
    BY <1>2, ShortsAreInts
  <2>3. low \in Int /\ 0 <= low /\ low < Word
    BY <2>1, <2>2, WordIsNat
  <2> HIDE DEF low
  <2> QED BY <2>1, <2>2, <2>3, ShortsAreInts
<1>4. m \in Measures /\ m.tune = low /\ m.power = power
  BY <1>3 DEF Measures
<1>5. power <= power
  BY LockAssumption
<1> HIDE DEF m
<1>6. LockTypeOK'
  <2>1. /\ strategy' \in {"normal", "points", "online"} /\ coarse' \in Tunes
        /\ unmonitored' \in BOOLEAN /\ step' \in Int /\ tested' \subseteq Tunes
        /\ points' \in Seq(Points)
        /\ origin' \in Shorts /\ try' \in Int /\ retries' \in 0..Retries /\ history' \in Seq(Shorts)
    BY <1>1 DEF LockTypeOK
  <2>2. pc' \in PCs
    BY <1>1 DEF PCs
  <2>3. /\ tune' \in Shorts /\ index' \in Nat /\ high' \in Int
        /\ best' \in Measures \cup {NoMeasure} /\ measured' \subseteq Measures
    BY <1>1, <1>3, <1>4
  <2> QED BY <1>1, <2>1, <2>2, <2>3, Zenon DEF LockTypeOK
<1>7. PausesFit' /\ RowInOrder' /\ RowIsTested' /\ WindowToAndFro'
  BY <1>1 DEF PausesFit, RowInOrder, RowIsTested, WindowToAndFro, MonitorsResumed
<1>8. SpanIsHalved'
  <2>1. best' \in measured' /\ \A n \in measured' : n.power <= best'.power
    BY <1>1, <1>4, <1>5
  <2>2. ASSUME ~misread', Guess \in Tunes
        PROVE  /\ \A n \in measured' : Near(n.tune)
               /\ Span <= MaxTune => /\ Near(Clip(high'))
                                     /\ Abs(Clip(high') - best'.tune) >= index'
    <3>1. Read(fails) = Guess
      <4>1. tune = Sent(Guess) /\ ~fails
        BY <1>1, <2>2 DEF SpanIsHalved
      <4> QED BY <2>2, <4>1, TunesSent DEF Read
    <3>2. low = IF Guess < Span THEN 0 ELSE Guess - Span
      BY <3>1
    <3> HIDE DEF low
    <3>3. /\ low \in Tunes /\ Abs(low - Guess) <= Span
          /\ Span <= MaxTune =>
               /\ Clip(Guess + Span) \in Tunes /\ Abs(Clip(Guess + Span) - Guess) <= Span
               /\ Abs(Clip(Guess + Span) - low) >= Span
      BY <2>2, <3>2, LowEndNear
    <3> QED BY <1>1, <1>4, <3>1, <3>3 DEF Near
  <2>3. Guess' = Guess /\ (\A t : Near(t)' <=> Near(t)) /\ (Near(Clip(high))' <=> Near(Clip(high')))
    <3>1. Guess' = Guess
      BY <1>1 DEF Guess
    <3> QED BY <3>1 DEF Near, Clip, Abs
  <2>4. /\ ~misread' /\ Guess' \in Tunes => \A n \in measured' : Near(n.tune)'
        /\ ~misread' /\ Guess' \in Tunes /\ Span <= MaxTune =>
              Near(Clip(high))' /\ Abs(Clip(high') - best'.tune) >= index'
    BY <2>2, <2>3
  <2> QED BY <1>1, <2>1, <2>4 DEF SpanIsHalved, Clip, Abs
<1> QED BY <1>6, <1>7, <1>8

(* Of two tunings the better is kept, and the next is between them. *)
LEMMA Halves ==
  ASSUME LockInv, NEW power \in Powers, Halve(power)
  PROVE  LockInv'
<1> DEFINE h == Clip(high)
<1> DEFINE m == [tune |-> h, power |-> power]
<1> DEFINE sign == IF h > best.tune THEN 1 ELSE -1
<1> USE DEF LockInv
<1>1. /\ pc = "maximize" /\ pc' = "maximize" /\ index > 0 /\ tune' = h
      /\ measured' = measured \cup {m} /\ index' = index \div 2
      /\ IF power > best.power THEN best' = m /\ high' = h - index * sign
         ELSE best' = best /\ high' = best.tune + index * sign
      /\ UNCHANGED <<strategy, coarse, unmonitored, step, tested, points,
                     origin, try, retries, history, misread>>
  BY DEF Halve, adjust
<1>2. /\ h \in Tunes /\ h \in Shorts /\ h \in Int
      /\ best \in measured /\ best \in Measures /\ best.tune \in Int /\ best.power \in Int
      /\ index \in Nat \ {0} /\ power \in Int /\ unmonitored
  <2>1. h \in Tunes
    BY ClipInRange DEF LockTypeOK
  <2>2. best \in measured /\ measured \subseteq Measures /\ index \in Nat
    BY <1>1 DEF SpanIsHalved, LockTypeOK
  <2>3. Powers \subseteq Int /\ Shorts \subseteq Int
    BY LockAssumption, WordIsNat DEF Shorts
  <2>4. best.tune \in Int /\ best.power \in Int
    BY <2>2, <2>3 DEF Measures
  <2>5. unmonitored
    BY <1>1 DEF PausesFit
  <2> QED BY <1>1, <2>1, <2>2, <2>3, <2>4, <2>5, TunesSent
<1>3. m \in Measures /\ m.tune = h /\ m.power = power
  BY <1>2 DEF Measures
<1> HIDE DEF m
<1>4. high' \in Int /\ high' = IF power > best.power
                               THEN (IF h > best.tune THEN h - index ELSE h + index)
                               ELSE (IF best.tune >= h THEN best.tune - index ELSE best.tune + index)
  BY <1>1, <1>2
<1> HIDE DEF h
<1>5. LockTypeOK'
  <2>1. /\ strategy' \in {"normal", "points", "online"} /\ coarse' \in Tunes
        /\ unmonitored' \in BOOLEAN /\ misread' \in BOOLEAN /\ step' \in Int
        /\ tested' \subseteq Tunes /\ points' \in Seq(Points)
        /\ origin' \in Shorts /\ try' \in Int /\ retries' \in 0..Retries /\ history' \in Seq(Shorts)
    BY <1>1 DEF LockTypeOK
  <2>2. pc' \in PCs
    BY <1>1 DEF PCs
  <2>3. best' \in Measures \cup {NoMeasure} /\ measured' \subseteq Measures
    BY <1>1, <1>2, <1>3 DEF LockTypeOK
  <2>4. tune' \in Shorts /\ index' \in Nat
    BY <1>1, <1>2
  <2> QED BY <1>4, <2>1, <2>2, <2>3, <2>4, Zenon DEF LockTypeOK
<1>6. PausesFit' /\ RowInOrder' /\ RowIsTested' /\ WindowToAndFro'
  BY <1>1, <1>2 DEF PausesFit, RowInOrder, RowIsTested, WindowToAndFro, MonitorsResumed
<1>7. SpanIsHalved'
  <2>1. best' \in measured' /\ \A n \in measured' : n.power <= best'.power
    <3>1. \A n \in measured : n.power <= best.power /\ n.power \in Int
      <4>1. \A n \in measured : n.power <= best.power
        BY <1>1 DEF SpanIsHalved
      <4>2. measured \subseteq Measures /\ Powers \subseteq Int
        BY LockAssumption DEF LockTypeOK
      <4> QED BY <4>1, <4>2 DEF Measures
    <3>2. CASE power > best.power
      BY <1>1, <1>2, <1>3, <3>1, <3>2
    <3>3. CASE ~(power > best.power)
      BY <1>1, <1>2, <1>3, <3>1, <3>3
    <3> QED BY <3>2, <3>3
  <2>2. ASSUME ~misread, Guess \in Tunes
        PROVE  /\ \A n \in measured' : Near(n.tune)
               /\ Span <= MaxTune => /\ Near(Clip(high'))
                                     /\ Abs(Clip(high') - best'.tune) >= index'
    <3>1. /\ \A n \in measured : Near(n.tune)
          /\ Span <= MaxTune => Near(h) /\ Abs(h - best.tune) >= index
      BY <1>1, <2>2 DEF SpanIsHalved, h
    <3>2. Near(h)
      <4>1. CASE Span <= MaxTune
        BY <3>1, <4>1
      <4>2. CASE Span > MaxTune
        <5>1. Abs(h - Guess) <= MaxTune
          BY <1>2, <2>2, LockAssumption DEF Tunes, Abs
        <5>2. Abs(h - Guess) \in Int
          BY <1>2, <2>2, TunesSent DEF Abs
        <5> QED BY <1>2, <4>2, <5>1, <5>2, LockAssumption DEF Near
      <4> QED BY <4>1, <4>2, LockAssumption
    <3>3. \A n \in measured' : Near(n.tune)
      BY <1>1, <1>3, <3>1, <3>2
    <3>4. ASSUME Span <= MaxTune
          PROVE  Near(Clip(high')) /\ Abs(Clip(high') - best'.tune) >= index'
      <4>1. /\ best.tune \in Tunes /\ Abs(best.tune - Guess) <= Span
            /\ Abs(h - Guess) <= Span /\ Abs(h - best.tune) >= index
            /\ Abs(best.tune - h) >= index
        <5>1. Near(best.tune) /\ Near(h) /\ Abs(h - best.tune) >= index
          BY <1>2, <3>1, <3>2, <3>4
        <5>2. Abs(best.tune - h) = Abs(h - best.tune)
          BY <1>2 DEF Abs
        <5> QED BY <5>1, <5>2 DEF Near
      <4>2. CASE power > best.power
        <5>1. best'.tune = h /\ high' = IF h > best.tune THEN h - index ELSE h + index
          BY <1>1, <1>3, <1>4, <4>2
        <5>2. /\ Clip(high') \in Tunes /\ Abs(Clip(high') - Guess) <= Span
              /\ Abs(Clip(high') - h) >= index \div 2
          BY <1>2, <1>4, <2>2, <4>1, <5>1, Between
        <5> QED BY <1>1, <5>1, <5>2 DEF Near
      <4>3. CASE ~(power > best.power)
        <5>1. h # best.tune
          BY <1>2, <4>1 DEF Abs
        <5>2. best' = best /\ high' = IF best.tune > h THEN best.tune - index ELSE best.tune + index
          BY <1>1, <1>2, <1>4, <4>3, <5>1
        <5>3. /\ Clip(high') \in Tunes /\ Abs(Clip(high') - Guess) <= Span
              /\ Abs(Clip(high') - best.tune) >= index \div 2
          BY <1>2, <1>4, <2>2, <4>1, <5>2, Between
        <5> QED BY <1>1, <5>2, <5>3 DEF Near
      <4> QED BY <4>2, <4>3
    <3> QED BY <3>3, <3>4
  <2>3. Guess' = Guess /\ (\A t : Near(t)' <=> Near(t)) /\ (Near(Clip(high))' <=> Near(Clip(high')))
    <3>1. Guess' = Guess
      BY <1>1 DEF Guess
    <3> QED BY <3>1 DEF Near, Clip, Abs
  <2>4. /\ ~misread' /\ Guess' \in Tunes => \A n \in measured' : Near(n.tune)'
        /\ ~misread' /\ Guess' \in Tunes /\ Span <= MaxTune =>
              Near(Clip(high))' /\ Abs(Clip(high') - best'.tune) >= index'
    <3>1. misread' <=> misread
      BY <1>1
    <3> QED BY <2>2, <2>3, <3>1
  <2> QED BY <1>1, <2>1, <2>4 DEF SpanIsHalved, Clip, Abs
<1> QED BY <1>5, <1>6, <1>7

(* The maximization leaves the tuning at the best. *)
LEMMA Maximizes ==
  ASSUME LockInv, Maximized
  PROVE  LockInv'
<1> USE DEF LockInv
<1>1. /\ pc = "maximize" /\ pc' = "second" /\ tune' = best.tune
      /\ UNCHANGED <<strategy, coarse, unmonitored, step, tested, points, index,
                     best, high, measured, origin, try, retries, history, misread>>
  BY DEF Maximized, search, maximize, adjust
<1>2. best \in Measures /\ unmonitored
  <2>1. measured \subseteq Measures
    BY DEF LockTypeOK
  <2> QED BY <1>1, <2>1 DEF SpanIsHalved, PausesFit
<1>3. LockTypeOK'
  <2>1. /\ strategy' \in {"normal", "points", "online"} /\ coarse' \in Tunes
        /\ unmonitored' \in BOOLEAN /\ misread' \in BOOLEAN /\ step' \in Int
        /\ tested' \subseteq Tunes /\ points' \in Seq(Points) /\ index' \in Nat
        /\ best' \in Measures \cup {NoMeasure} /\ high' \in Int /\ measured' \subseteq Measures
        /\ origin' \in Shorts /\ try' \in Int /\ retries' \in 0..Retries /\ history' \in Seq(Shorts)
    BY <1>1 DEF LockTypeOK
  <2>2. pc' \in PCs
    BY <1>1 DEF PCs
  <2>3. tune' \in Shorts
    BY <1>1, <1>2 DEF Measures
  <2> QED BY <2>1, <2>2, <2>3, Zenon DEF LockTypeOK
<1>4. PausesFit' /\ RowInOrder' /\ RowIsTested' /\ WindowToAndFro'
  BY <1>1, <1>2 DEF PausesFit, RowInOrder, RowIsTested, WindowToAndFro, MonitorsResumed
<1>5. SpanIsHalved'
  <2>1. Guess' = Guess /\ (\A t : Near(t)' <=> Near(t))
    BY <1>1 DEF Guess, Near
  <2> QED BY <1>1, <2>1 DEF SpanIsHalved
<1> QED BY <1>3, <1>4, <1>5

(* The second offset ends the maximization, and asks nothing of its result. *)
LEMMA OffsetsSecond ==
  ASSUME LockInv, SecondOffset
  PROVE  LockInv'
<1> USE DEF LockInv
<1>1. /\ pc = "second" /\ pc' = "beginAdjust" /\ tune' = Sent(coarse + step)
      /\ UNCHANGED <<strategy, coarse, unmonitored, step, tested, points, index,
                     best, high, measured, origin, try, retries, history, misread>>
  BY DEF SecondOffset, search, maximize, adjust
<1>2. unmonitored /\ unmonitored \in BOOLEAN
  BY <1>1 DEF PausesFit, LockTypeOK
<1>3. LockTypeOK'
  <2>1. /\ strategy' \in {"normal", "points", "online"} /\ coarse' \in Tunes
        /\ unmonitored' \in BOOLEAN /\ misread' \in BOOLEAN /\ step' \in Int
        /\ tested' \subseteq Tunes /\ points' \in Seq(Points) /\ index' \in Nat
        /\ best' \in Measures \cup {NoMeasure} /\ high' \in Int /\ measured' \subseteq Measures
        /\ origin' \in Shorts /\ try' \in Int /\ retries' \in 0..Retries /\ history' \in Seq(Shorts)
    BY <1>1 DEF LockTypeOK
  <2>2. pc' \in PCs
    BY <1>1 DEF PCs
  <2>3. tune' \in Shorts
    <3>1. coarse \in Int /\ step \in Int
      BY TunesSent DEF LockTypeOK
    <3>2. coarse + step \in Int
      BY <3>1
    <3> QED BY <1>1, <3>2, SentInRange
  <2> QED BY <2>1, <2>2, <2>3, Zenon DEF LockTypeOK
<1> QED BY <1>1, <1>2, <1>3, BetweenPhases DEF Phases

(* What adjustPLL reads of the tuning is a short, and so is what it sends.  *)
LEMMA AdjustBegins ==
  ASSUME LockInv, NEW fails \in BOOLEAN, BeginAdjust(fails)
  PROVE  LockInv'
<1> USE DEF LockInv
<1>1. /\ pc = "beginAdjust" /\ pc' = "adjust"
      /\ origin' = Read(fails) /\ try' = Read(fails) /\ tune' = Read(fails)
      /\ history' = <<Read(fails)>> /\ retries' = Retries
      /\ misread' \in BOOLEAN
      /\ step' = 0 /\ tested' = {} /\ points' = <<>> /\ index' = 0
      /\ best' = NoMeasure /\ high' = 0 /\ measured' = {}
      /\ UNCHANGED <<strategy, coarse, unmonitored>>
  <2>1. misread' = (misread \/ fails)
    BY DEF BeginAdjust
  <2>2. misread' \in BOOLEAN
    BY <2>1
  <2> QED BY <2>2 DEF BeginAdjust, ClearSearch
<1>2. unmonitored /\ unmonitored \in BOOLEAN
  BY <1>1 DEF PausesFit, LockTypeOK
<1>3. Read(fails) \in Shorts /\ Read(fails) \in Int
  <2>1. tune \in Shorts
    BY DEF LockTypeOK
  <2>2. 0 \in Shorts
    BY ZeroInRange
  <2>3. Read(fails) \in Shorts
    BY <2>1, <2>2 DEF Read
  <2> QED BY <2>3, ShortsAreInts
<1>4. LockTypeOK'
  <2>1. strategy' \in {"normal", "points", "online"} /\ coarse' \in Tunes /\ unmonitored' \in BOOLEAN
    BY <1>1 DEF LockTypeOK
  <2>2. pc' \in PCs
    BY <1>1 DEF PCs
  <2>3. /\ step' \in Int /\ tested' \subseteq Tunes /\ index' \in Nat
        /\ best' \in Measures \cup {NoMeasure} /\ high' \in Int /\ measured' \subseteq Measures
    BY <1>1
  <2>4. points' \in Seq(Points)
    BY <1>1
  <2>5. tune' \in Shorts /\ origin' \in Shorts /\ try' \in Int
    BY <1>1, <1>3
  <2>6. history' \in Seq(Shorts)
    BY <1>1, <1>3
  <2>7. retries' \in 0..Retries
    BY <1>1, LockAssumption
  <2> QED BY <1>1, <2>1, <2>2, <2>3, <2>4, <2>5, <2>6, <2>7, Zenon DEF LockTypeOK
<1> QED BY <1>1, <1>2, <1>4, BetweenPhases DEF Phases

(* One count of adjustPLL stays a short, or is not sent. *)
LEMMA Adjusts ==
  ASSUME LockInv, NEW corr \in -1..1, Adjust(corr)
  PROVE  LockInv'
<1> USE DEF LockInv
<1>1. /\ pc = "adjust" /\ pc' = "adjust" /\ retries > 1
      /\ try' = try + corr /\ retries' = retries - 1
      /\ IF try' \in Tunes
         THEN tune' = try' /\ history' = Newest(Append(history, try'))
         ELSE UNCHANGED <<tune, history>>
      /\ UNCHANGED <<strategy, coarse, unmonitored, step, tested, points, index,
                     best, high, measured, origin, misread>>
  BY DEF Adjust, search, maximize
<1>2. unmonitored /\ unmonitored \in BOOLEAN
  BY <1>1 DEF PausesFit, LockTypeOK
<1>3. tune' \in Shorts /\ history' \in Seq(Shorts)
  <2>1. tune \in Shorts /\ history \in Seq(Shorts)
    BY DEF LockTypeOK
  <2>2. CASE try' \in Tunes
    <3>1. try' \in Shorts
      BY <2>2, TunesSent
    <3>2. Append(history, try') \in Seq(Shorts)
      BY <2>1, <3>1
    <3>3. \A h \in Seq(Shorts) : Newest(h) \in Seq(Shorts)
      <4> SUFFICES ASSUME NEW h \in Seq(Shorts), Len(h) = 6 PROVE Tail(h) \in Seq(Shorts)
        BY DEF Newest
      <4>1. h # <<>>
        OBVIOUS
      <4> QED BY <4>1
    <3> QED BY <1>1, <2>2, <3>1, <3>2, <3>3
  <2>3. CASE try' \notin Tunes
    BY <1>1, <2>1, <2>3
  <2> QED BY <2>2, <2>3
<1>4. LockTypeOK'
  <2>1. /\ strategy' \in {"normal", "points", "online"} /\ coarse' \in Tunes
        /\ unmonitored' \in BOOLEAN /\ misread' \in BOOLEAN /\ step' \in Int
        /\ tested' \subseteq Tunes /\ points' \in Seq(Points) /\ index' \in Nat
        /\ best' \in Measures \cup {NoMeasure} /\ high' \in Int /\ measured' \subseteq Measures
        /\ origin' \in Shorts
    BY <1>1 DEF LockTypeOK
  <2>2. pc' \in PCs
    BY <1>1 DEF PCs
  <2>3. try' \in Int
    BY <1>1 DEF LockTypeOK
  <2>4. retries' \in 0..Retries
    <3>1. retries \in 0..Retries
      BY DEF LockTypeOK
    <3> QED BY <1>1, <3>1, LockAssumption
  <2> QED BY <1>3, <2>1, <2>2, <2>3, <2>4, Zenon DEF LockTypeOK
<1> QED BY <1>1, <1>2, <1>4, BetweenPhases DEF Phases

(* Whatever ends adjustPLL, the monitors are resumed. *)
LEMMA AdjustEnds ==
  ASSUME LockInv, NEW corr \in -1..1, AdjustDone(corr)
  PROVE  LockInv'
<1>1. /\ Return
      /\ UNCHANGED <<strategy, coarse, tune, step, tested, points, index,
                     best, high, measured, origin, try, retries, history, misread>>
  BY DEF AdjustDone, search, maximize, adjust
<1>2. pc' \in PCs /\ unmonitored' \in BOOLEAN
  BY <1>1 DEF Return, PCs
<1>3. LockTypeOK'
  <2>1. /\ strategy' \in {"normal", "points", "online"} /\ coarse' \in Tunes /\ tune' \in Shorts
        /\ misread' \in BOOLEAN /\ step' \in Int
        /\ tested' \subseteq Tunes /\ points' \in Seq(Points) /\ index' \in Nat
        /\ best' \in Measures \cup {NoMeasure} /\ high' \in Int /\ measured' \subseteq Measures
        /\ origin' \in Shorts /\ try' \in Int /\ retries' \in 0..Retries /\ history' \in Seq(Shorts)
    BY <1>1 DEF LockInv, LockTypeOK
  <2> QED BY <1>2, <2>1, Zenon DEF LockTypeOK
<1> QED BY <1>1, <1>3, Returned DEF LockInv, Phases

(* A step of somebody else changes nothing. *)
LEMMA LockStutters ==
  ASSUME LockInv, UNCHANGED lockVars
  PROVE  LockInv'
<1>1. UNCHANGED <<pc, strategy, coarse, tune, unmonitored, step, tested, points, index,
                  best, high, measured, origin, try, retries, history, misread>>
  BY DEF lockVars, search, maximize, adjust
<1>2. LockTypeOK'
  BY <1>1 DEF LockInv, LockTypeOK
<1>3. PausesFit' /\ RowIsTested'
  BY <1>1 DEF LockInv, PausesFit, MonitorsResumed, First, RowIsTested, PointTune
<1>4. RowInOrder'
  BY <1>1 DEF LockInv, RowInOrder, First, Last, PointTune
<1>5. WindowToAndFro'
  BY <1>1 DEF LockInv, WindowToAndFro, Covered, Place
<1>6. SpanIsHalved'
  BY <1>1 DEF LockInv, SpanIsHalved, Near, Guess, Clip
<1> QED BY <1>2, <1>3, <1>4, <1>5, <1>6 DEF LockInv

(* Every step of lockPLL keeps the invariant. *)
LEMMA LockStep ==
  ASSUME LockInv, [LockNext]_lockVars
  PROVE  LockInv'
<1>1. CASE Host
  BY <1>1, BeginsNormal, BeginsOnline, BeginsPoints DEF Host
<1>2. CASE Search
  BY <1>2, Tests, PointsOn, FitEnds, OffsetsFirst, MeasuresLowerEnd, Halves, Maximizes,
     OffsetsSecond, AdjustBegins, AdjustEnds, Adjusts DEF Search
<1> QED BY <1>1, <1>2, LockStutters DEF LockNext

(* The invariant holds throughout, for every range, window, row, span and   *)
(* set of offsets and powers.                                               *)
THEOREM LockInductive == LockSpec => []LockInv
<1>1. LockInv /\ [LockNext]_lockVars => LockInv'
  BY LockStep
<1> QED BY <1>1, LockInitHolds, PTL DEF LockSpec

(* Every variable of the search keeps its type: what is sent is an unsigned *)
(* short, and adjustPLL never has more retries than it began with.          *)
THEOREM LockTyped == LockSpec => []LockTypeOK
<1>1. LockInv => LockTypeOK
  BY DEF LockInv
<1> QED BY <1>1, LockInductive, PTL

(* lockPLL leaves the monitors running, except where the first and the last *)
(* point of a row have one tuning; and then a tuning was misread or the row *)
(* is cut off at an end of the range.                                       *)
THEOREM MonitorsComeBack == LockSpec => []MonitorsResumed
<1>1. LockInv => MonitorsResumed
  BY DEF LockInv, PausesFit
<1> QED BY <1>1, LockInductive, PTL

(* maximizeIFTP leaves the YTO at the best tuning that it measured, and     *)
(* measured within a span of the guess, for every span and every sequence   *)
(* of powers.                                                               *)
THEOREM TunedToTheBest == LockSpec => []BestIsTuned
<1>1. ASSUME LockInv PROVE BestIsTuned
  <2> SUFFICES ASSUME pc = "second"
               PROVE  /\ [tune |-> tune, power |-> best.power] \in measured
                      /\ \A m \in measured :
                            /\ m.power <= best.power
                            /\ ~misread /\ coarse - step \in Tunes =>
                                  m.tune \in Tunes /\ Abs(m.tune - (coarse - step)) <= Span
    BY DEF BestIsTuned
  <2>1. /\ best \in measured /\ measured \subseteq Measures /\ tune = best.tune
        /\ \A m \in measured : m.power <= best.power
        /\ ~misread /\ Guess \in Tunes => \A m \in measured : Near(m.tune)
    BY <1>1 DEF LockInv, SpanIsHalved, LockTypeOK
  <2>2. best = [tune |-> tune, power |-> best.power]
    BY <2>1 DEF Measures
  <2> QED BY <2>1, <2>2 DEF Near, Guess
<1>2. LockInv => BestIsTuned
  BY <1>1
<1> QED BY <1>2, LockInductive, PTL

(* The search that gives up has left its window on both sides. *)
LEMMA GivesUp ==
  ASSUME LockInv, [LockNext]_lockVars, pc = "test", pc' = "idle"
  PROVE  Window \subseteq tested'
<1>1. Test(FALSE)
  <2>1. LockNext
    BY DEF lockVars
  <2>2. Search
    BY <2>1 DEF LockNext, Host, BeginNormal, BeginOnline, BeginPoints, Begin
  <2>3. PICK locked \in BOOLEAN : Test(locked)
    BY <2>2 DEF Search, Point, Fit, FirstOffset, LowerEnd, Halve, Maximized, SecondOffset,
                BeginAdjust, AdjustDone, Adjust
  <2>4. ~locked
    BY <2>3 DEF Test
  <2> QED BY <2>3, <2>4
<1>2. tested' = tested \cup {tune} /\ NextStep > WindowSteps
  BY <1>1 DEF Test
<1>3. PICK j \in Nat \ {0} : \/ step = j * StepSize /\ Covered(1 - j, j - 1)
                             \/ step = -(j * StepSize) /\ Covered(1 - j, j)
  BY DEF LockInv, WindowToAndFro
<1>4. j * StepSize \in Nat \ {0} /\ Steps \in Nat
  BY StepsFit
<1>5. Covered(1 - j, j) /\ j >= Steps
  <2>1. CASE step = j * StepSize
    <3>1. NextStep = -(j * StepSize)
      BY <1>4, <2>1 DEF NextStep
    <3> QED BY <1>2, <1>4, <3>1, StepsFit
  <2>2. CASE step = -(j * StepSize) /\ Covered(1 - j, j)
    <3>1. NextStep = StepSize + j * StepSize
      BY <1>4, <2>2, StepsFit DEF NextStep
    <3>2. (j + 1) * StepSize = StepSize + j * StepSize
      BY StepsFit
    <3>3. ~(j + 1 <= Steps)
      BY <1>2, <3>1, <3>2, StepsFit
    <3> QED BY <1>4, <2>2, <3>3
  <2> QED BY <1>3, <2>1, <2>2
<1>6. ASSUME NEW k \in 1 - Steps..Steps, Place(k) \in Tunes PROVE Place(k) \in tested'
  <2>1. k \in 1 - j..j /\ -Steps <= k /\ k <= Steps
    BY <1>4, <1>5
  <2> QED BY <1>2, <1>5, <1>6, <2>1 DEF Covered
<1> QED BY <1>6 DEF Window, Steps, Place

(* The row has been tested to its end when its points are fitted. *)
LEMMA RowGivesUp ==
  ASSUME LockInv, pc = "fit"
  PROVE  {PointTune(i) : i \in 0..NumPoints - 1} \subseteq tested
  BY DEF LockInv, RowIsTested

(* A search of LOCK_Normal that gives up has tested its window, and one     *)
(* through a row all its points.                                            *)
THEOREM WindowSearched == LockSpec => WindowIsSearched
<1>1. ASSUME LockInv, [LockNext]_lockVars
      PROVE  [/\ pc = "test" /\ pc' = "idle" => Window \subseteq tested'
              /\ pc = "fit" /\ pc' = "idle" =>
                    {PointTune(i) : i \in 0..NumPoints - 1} \subseteq tested]_lockVars
  BY <1>1, GivesUp, RowGivesUp
<1> QED BY <1>1, LockInductive, PTL DEF LockSpec, WindowIsSearched
=============================================================================
