------------------------------ MODULE MCLinks ------------------------------
(* Two earbuds of one coordinated set, and a headset without CSIS.          *)
EXTENDS LeplLinks, TLC

CONSTANTS earL, earR, headset

MCSirk == [d \in Devices |-> IF d = headset THEN 0 ELSE 7]
MCTwoSets == [d \in Devices |-> IF d = earL THEN 7 ELSE 8]
Earbuds == Permutations({earL, earR})
=============================================================================
