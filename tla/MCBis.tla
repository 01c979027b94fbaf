------------------------------- MODULE MCBis -------------------------------
(* One and two BISs, mono and stereo, encrypted and not, and a request      *)
(* without a broadcast id.                                                  *)
EXTENDS LeplBis

HostRequests ==
    {[id |-> TRUE, cnt |-> n, stereo |-> s, enc |-> c] :
        n \in Biss, s \in BOOLEAN, c \in BOOLEAN}
    \cup {[id |-> FALSE, cnt |-> 1, stereo |-> TRUE, enc |-> FALSE]}
=============================================================================
