----------------------------- MODULE MCSetSync -----------------------------
(* Two earbuds; volumes and gains at and near the ends of their ranges, and *)
(* change counters about to wrap.                                           *)
EXTENDS LeplSetSync

CONSTANTS earL, earR

MCGains == {-127, 0}
MCMinGain == -127
=============================================================================
