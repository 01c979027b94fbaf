----------------------------- MODULE MCEarbuds -----------------------------
(* A coordinated set of two earbuds: each has one sink and one source ASE,  *)
(* and the first is the left one.                                           *)
EXTENDS LeplUnicast

CONSTANTS snk1, src1, snk2, src2

EarbudOwner ==
    [a \in {snk1, src1, snk2, src2} |-> IF a \in {snk1, src1} THEN 1 ELSE 2]
EarbudSnk == <<<<snk1>>, <<snk2>>>>
EarbudSrc == <<<<src1>>, <<src2>>>>
=============================================================================
