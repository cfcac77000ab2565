----------------------------- MODULE MCSessions -----------------------------
(* Sessions with small numbers: which cartridges are fitted, how many       *)
(* clients each module has at once.                                         *)
EXTENDS Sessions

CartsFitted == [p \in 1..3 |-> IF p = 1 THEN {"WCA", "CCA"} ELSE IF p = 2 THEN {"CCA"} ELSE {}]

SessionBounds == [m \in Modules |-> IF m \in {"FE", "SigSrc"} THEN 2 ELSE 1]
=============================================================================
