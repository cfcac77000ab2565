---------------------------- MODULE MCMaximizer ----------------------------
(* The functions Maximizer is explored with when a meter delivers readings. *)
EXTENDS Maximizer

\* A peak inside the range with a step below the top on one side of it, and
\* a function that rises through the whole range.
MeterFunctions ==
    {[c \in Controls |-> IF c = 2 THEN 2 ELSE IF c = 3 THEN 1 ELSE 0],
     [c \in Controls |-> IF c < 2 THEN 0 ELSE IF c < ControlMax THEN 1 ELSE 2]}
=============================================================================
