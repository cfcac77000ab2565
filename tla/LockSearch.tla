----------------------------- MODULE LockSearch -----------------------------
(* lockPLL by the three strategies that CartAssembly chooses from: the      *)
(* search of a window (LOCK_Normal), the fit through a row of points        *)
(* (ICT_19283_LOCK_CV_Points) and the maximization of the IF power          *)
(* (LOCK_ONLINE_2021JUL_B), with WCAImpl::adjustPLL in which each of them   *)
(* may end.  What the hardware answers is open: whether it is locked, the   *)
(* sign of the correction voltage, the power; a tuning that cannot be read  *)
(* is 0.  The monitors are paused, so the search has the hardware for       *)
(* itself.  No caller passes allowEdfaAdjust, so no strategy touches the    *)
(* EDFA.  A tuning is sent as an unsigned short.                            *)
EXTENDS Integers, Sequences, FiniteSets

CONSTANTS MaxTune,          \* 4095
          WindowSteps,      \* windowSteps of LOCK_Normal
          StepSize,         \* stepSize of LOCK_Normal
          MaxDist, Retries, \* of adjustPLL
          NumPoints, Interval,  \* of ICT_19283_LOCK_CV_Points
          Offsets,          \* bound: offsets by the FLOOG in counts
          Span,             \* yigSpan of LOCK_ONLINE_2021JUL_B
          Powers            \* bound: readings of the IF power

\* How many values an unsigned short has.
Word == 65536

ASSUME LockAssumption ==
  /\ MaxTune \in Nat /\ MaxTune < Word /\ WindowSteps \in Nat /\ StepSize \in Nat \ {0}
  /\ MaxDist \in Nat /\ Retries \in Nat \ {0}
  /\ NumPoints \in Nat \ {0} /\ Interval \in Nat \ {0}
  /\ Offsets \subseteq Nat /\ Span \in Nat /\ Powers \subseteq Nat

VARIABLES
  pc, strategy,     \* lockingStrategy_mp
  coarse,           \* getCoarseYIG(): where the lock should be
  tune,             \* the last coarse tuning sent to the YTO
  unmonitored,      \* the cartridge is not monitored
  step,             \* step of LOCK_Normal
  tested,           \* tunings at which the lock was tested in this search
  points,           \* pllVList
  index,            \* the point that comes next, or what is left of coarseSpan
  best, high,       \* optimalCoarse with its power, highCoarse
  measured,         \* tunings with their powers in this maximization
  origin, try, retries, history,    \* of adjustPLL
  misread           \* a tuning could not be read in this call

search   == <<step, tested, points, index>>
maximize == <<best, high, measured>>
adjust   == <<origin, try, retries, history>>
lockVars == <<pc, strategy, coarse, tune, unmonitored, search, maximize, adjust, misread>>

Tunes  == 0..MaxTune
Shorts == 0..Word - 1
Sent(val) == val % Word
Clip(val) == IF val < 0 THEN 0 ELSE IF val > MaxTune THEN MaxTune ELSE val
Abs(val) == IF val < 0 THEN -val ELSE val

PCs == {"idle", "test", "point", "fit", "offset", "span", "maximize", "second",
        "beginAdjust", "adjust"}

Points    == [tune : Tunes, corr : -1..1]
Measures  == [tune : Shorts, power : Powers]
NoMeasure == [tune |-> 0, power |-> 0]

LockTypeOK ==
  /\ pc \in PCs /\ strategy \in {"normal", "points", "online"}
  /\ coarse \in Tunes /\ tune \in Shorts
  /\ unmonitored \in BOOLEAN /\ misread \in BOOLEAN
  /\ step \in Int /\ tested \subseteq Tunes
  /\ points \in Seq(Points) /\ index \in Nat
  /\ best \in Measures \cup {NoMeasure} /\ high \in Int
  /\ measured \subseteq Measures
  /\ origin \in Shorts /\ try \in Int /\ retries \in 0..Retries /\ history \in Seq(Shorts)

LockInit ==
  /\ pc = "idle" /\ strategy = "normal" /\ coarse = 0 /\ tune = 0
  /\ unmonitored = FALSE /\ misread = FALSE
  /\ step = 0 /\ tested = {} /\ points = <<>> /\ index = 0
  /\ best = NoMeasure /\ high = 0 /\ measured = {}
  /\ origin = 0 /\ try = 0 /\ retries = 0 /\ history = <<>>

\* What a reading of the tuning says.
Read(fails) == IF fails THEN 0 ELSE tune

\* The locals of a search and of maximizeIFTP, which are gone at its end.
ClearSearch(s) ==
  /\ step' = s /\ tested' = {} /\ points' = <<>> /\ index' = 0
  /\ best' = NoMeasure /\ high' = 0 /\ measured' = {}

\* pauseMonitor(true, true).
Begin(by, c) ==
  /\ pc = "idle" /\ strategy' = by /\ coarse' = c /\ unmonitored' = TRUE
  /\ ClearSearch(IF by = "normal" THEN StepSize ELSE 0)
  /\ origin' = 0 /\ try' = 0 /\ retries' = 0 /\ history' = <<>>
  /\ misread' = FALSE

\* pauseMonitor(false, false), and the return.
Return == pc' = "idle" /\ unmonitored' = FALSE

-----------------------------------------------------------------------------
(* LOCK_Normal.                                                             *)

BeginNormal(c) == Begin("normal", c) /\ tune' = c /\ pc' = "test"

InWindow(t) == t \in Tunes /\ Abs(t - coarse) <= WindowSteps

\* (mutant) The side below is left out.
NextStepUp == step + StepSize

\* The steps go to and fro around the first guess.
NextStep == IF step > 0 THEN -step ELSE StepSize - step

\* The lock is tested where the YTO is; without one the next tuning is set,
\* unless it is outside of the window, and tested if the steps are not over.
Test(locked) ==
  /\ pc = "test"
  /\ tested' = tested \cup {tune}
  /\ IF locked
     THEN pc' = "beginAdjust" /\ UNCHANGED <<tune, step, unmonitored>>
     ELSE /\ tune' = IF InWindow(coarse + step) THEN coarse + step ELSE tune
          /\ step' = NextStep
          /\ IF NextStep > WindowSteps THEN Return ELSE UNCHANGED <<pc, unmonitored>>
  /\ UNCHANGED <<strategy, coarse, points, index, maximize, adjust, misread>>

-----------------------------------------------------------------------------
(* ICT_19283_LOCK_CV_Points.                                                *)

\* With a lock at the start there is nothing to search.
BeginPoints(c, locked) ==
  /\ Begin("points", c) /\ UNCHANGED tune
  /\ pc' = IF locked THEN "beginAdjust" ELSE "point"

PointTune(i) == Clip(coarse + Interval * (i - NumPoints \div 2))

Point(locked, corr, fails) ==
  /\ pc = "point"
  /\ tune' = PointTune(index) /\ tested' = tested \cup {PointTune(index)}
  /\ points' = IF locked
               THEN Append(points, [tune |-> IF fails THEN 0 ELSE PointTune(index), corr |-> corr])
               ELSE points
  /\ misread' = (misread \/ fails)
  /\ index' = index + 1 /\ pc' = IF index' = NumPoints THEN "fit" ELSE "point"
  /\ UNCHANGED <<strategy, coarse, unmonitored, step, maximize, adjust>>

First == points[1]
Last  == points[Len(points)]

\* (int) (a / b) of two doubles.
Quotient(a, b) == IF (a < 0) = (b < 0) THEN Abs(a) \div Abs(b) ELSE -(Abs(a) \div Abs(b))

\* Where the line through two points is zero, if it falls, or their mean.
TuneZero ==
  LET rise == Last.corr - First.corr
      run  == Last.tune - First.tune
  IN IF rise * run < 0 THEN Quotient(First.tune * rise - First.corr * run, rise)
     ELSE (First.tune + Last.tune) \div 2

\* (mutant) One point is enough to leave it at that.
FitTwo ==
  /\ pc = "fit"
  /\ IF Len(points) >= 2 /\ First.tune # Last.tune
     THEN tune' = Sent(TuneZero) /\ Return
     ELSE pc' = "idle" /\ UNCHANGED <<tune, unmonitored>>
  /\ UNCHANGED <<strategy, coarse, search, maximize, adjust, misread>>

\* Two points at the same tuning end the call at once.
Fit ==
  /\ pc = "fit"
  /\ \/ points = <<>> /\ Return /\ UNCHANGED tune
     \/ Len(points) = 1 /\ tune' = First.tune /\ pc' = "beginAdjust" /\ UNCHANGED unmonitored
     \/ Len(points) > 1 /\ First.tune # Last.tune /\ tune' = Sent(TuneZero) /\ Return
     \/ Len(points) > 1 /\ First.tune = Last.tune /\ pc' = "idle" /\ UNCHANGED <<tune, unmonitored>>
  /\ UNCHANGED <<strategy, coarse, search, maximize, adjust, misread>>

-----------------------------------------------------------------------------
(* LOCK_ONLINE_2021JUL_B.                                                   *)

BeginOnline(c) == Begin("online", c) /\ tune' = c /\ pc' = "offset"

\* Away from the guess by the FLOOG, to one side ...
FirstOffset(offset, sbLock) ==
  /\ pc = "offset" /\ pc' = "span"
  /\ step' = offset * (IF sbLock = 1 THEN 1 ELSE -1) /\ tune' = Sent(coarse - step')
  /\ UNCHANGED <<strategy, coarse, unmonitored, tested, points, index, maximize, adjust, misread>>

\* maximizeIFTP measures first one span below.
LowerEnd(fails, power) ==
  LET low == IF Read(fails) < Span THEN 0 ELSE Read(fails) - Span
  IN /\ pc = "span" /\ pc' = "maximize"
     /\ tune' = low
     /\ best' = [tune |-> low, power |-> power] /\ measured' = {[tune |-> low, power |-> power]}
     /\ high' = Read(fails) + Span /\ index' = Span
     /\ misread' = (misread \/ fails)
     /\ UNCHANGED <<strategy, coarse, unmonitored, step, tested, points, adjust>>

\* (mutant) The next step starts from where it is, best or not.
HalveFromLast(power) ==
  LET h == Clip(high)
      sign == IF h > best.tune THEN 1 ELSE -1
  IN /\ pc = "maximize" /\ index > 0
     /\ tune' = h /\ measured' = measured \cup {[tune |-> h, power |-> power]}
     /\ best' = [tune |-> h, power |-> power]
     /\ high' = IF power > best.power THEN h - index * sign ELSE h + index * sign
     /\ index' = index \div 2
     /\ UNCHANGED <<pc, strategy, coarse, unmonitored, step, tested, points, adjust, misread>>

\* Back from a better tuning, on past a worse one, by half as much each time.
Halve(power) ==
  LET h == Clip(high)
      sign == IF h > best.tune THEN 1 ELSE -1
  IN /\ pc = "maximize" /\ index > 0
     /\ tune' = h /\ measured' = measured \cup {[tune |-> h, power |-> power]}
     /\ IF power > best.power
        THEN best' = [tune |-> h, power |-> power] /\ high' = h - index * sign
        ELSE high' = best.tune + index * sign /\ UNCHANGED best
     /\ index' = index \div 2
     /\ UNCHANGED <<pc, strategy, coarse, unmonitored, step, tested, points, adjust, misread>>

Maximized ==
  /\ pc = "maximize" /\ index = 0 /\ pc' = "second"
  /\ tune' = best.tune
  /\ UNCHANGED <<strategy, coarse, unmonitored, search, maximize, adjust, misread>>

\* ... and to the other side of the guess, whatever the maximization found.
SecondOffset ==
  /\ pc = "second" /\ pc' = "beginAdjust"
  /\ tune' = Sent(coarse + step)
  /\ UNCHANGED <<strategy, coarse, unmonitored, search, maximize, adjust, misread>>

-----------------------------------------------------------------------------
(* WCAImpl::adjustPLL(0.0), after which each strategy resumes the monitors. *)

\* What is read of the tuning is sent again; the search is over.
BeginAdjust(fails) ==
  /\ pc = "beginAdjust" /\ pc' = "adjust"
  /\ origin' = Read(fails) /\ try' = Read(fails) /\ tune' = Read(fails)
  /\ history' = <<Read(fails)>> /\ retries' = Retries
  /\ misread' = (misread \/ fails)
  /\ ClearSearch(0)
  /\ UNCHANGED <<strategy, coarse, unmonitored>>

Oscillates == Len(history) = 5 /\ history[1] = history[3] /\ history[3] = history[5]

Newest(h) == IF Len(h) = 6 THEN Tail(h) ELSE h

\* The correction voltage is zero, or nothing helps.
AdjustDone(corr) ==
  /\ pc = "adjust"
  /\ corr = 0 \/ Oscillates \/ retries <= 1 \/ Abs(try + corr - origin) > MaxDist
  /\ Return
  /\ UNCHANGED <<strategy, coarse, tune, search, maximize, adjust, misread>>

\* (mutant) A tuning outside of the range costs no retry.
AdjustFree(corr) ==
  /\ pc = "adjust" /\ corr # 0 /\ ~Oscillates /\ retries > 1
  /\ Abs(try + corr - origin) <= MaxDist
  /\ try' = try + corr
  /\ IF try' \in Tunes
     THEN tune' = try' /\ history' = Newest(Append(history, try')) /\ retries' = retries - 1
     ELSE UNCHANGED <<tune, history, retries>>
  /\ UNCHANGED <<pc, strategy, coarse, unmonitored, search, maximize, origin, misread>>

\* One count towards zero.
Adjust(corr) ==
  /\ pc = "adjust" /\ corr # 0 /\ ~Oscillates /\ retries > 1
  /\ Abs(try + corr - origin) <= MaxDist
  /\ try' = try + corr /\ retries' = retries - 1
  /\ IF try' \in Tunes
     THEN tune' = try' /\ history' = Newest(Append(history, try'))
     ELSE UNCHANGED <<tune, history>>
  /\ UNCHANGED <<pc, strategy, coarse, unmonitored, search, maximize, origin, misread>>

Host ==
  \E c \in Tunes :
     BeginNormal(c) \/ BeginOnline(c) \/ \E locked \in BOOLEAN : BeginPoints(c, locked)

Search ==
  \/ \E locked \in BOOLEAN : Test(locked)
  \/ \E locked, fails \in BOOLEAN, corr \in -1..1 : Point(locked, corr, fails)
  \/ Fit
  \/ \E offset \in Offsets, sbLock \in 0..1 : FirstOffset(offset, sbLock)
  \/ \E fails \in BOOLEAN, power \in Powers : LowerEnd(fails, power)
  \/ \E power \in Powers : Halve(power)
  \/ Maximized \/ SecondOffset
  \/ \E fails \in BOOLEAN : BeginAdjust(fails)
  \/ \E corr \in -1..1 : AdjustDone(corr) \/ Adjust(corr)

LockNext == Host \/ Search

LockSpec == LockInit /\ [][LockNext]_lockVars /\ WF_lockVars(Search)

-----------------------------------------------------------------------------
(* Properties.                                                              *)

Window ==
  LET steps == WindowSteps \div StepSize
  IN {coarse + k * StepSize : k \in 1 - steps..steps} \cap Tunes

\* A search that gives up has tested the lock at every tuning of its window -
\* but the lowest, which LOCK_Normal sets and does not test - and at every
\* point of its row.
WindowIsSearched ==
  [][/\ pc = "test" /\ pc' = "idle" => Window \subseteq tested'
     /\ pc = "fit" /\ pc' = "idle" => {PointTune(i) : i \in 0..NumPoints - 1} \subseteq tested]_lockVars

\* lockPLL leaves the monitors running, however it ends - except where the
\* first and the last of several points have one tuning, which takes a failed
\* reading or a row that runs into the end of the range.
MonitorsResumed ==
  pc = "idle" /\ unmonitored =>
     /\ strategy = "points" /\ Len(points) > 1
     /\ misread \/ First.tune \in {0, MaxTune}

\* What maximizeIFTP leaves the YTO at is the best of all that it measured,
\* and it measured within a span on either side of where it was - unless the
\* first offset left the range and was sent as another number.
BestIsTuned ==
  pc = "second" =>
     /\ [tune |-> tune, power |-> best.power] \in measured
     /\ \A m \in measured :
           /\ m.power <= best.power
           /\ ~misread /\ coarse - step \in Tunes =>
                 m.tune \in Tunes /\ Abs(m.tune - (coarse - step)) <= Span

\* Every call of lockPLL returns, whatever the hardware answers.
SearchEnds == pc # "idle" ~> pc = "idle"
=============================================================================
