----------------------------- MODULE MCHeadset -----------------------------
(* One headset that is in no coordinated set: two sink ASEs, one source.    *)
EXTENDS LeplUnicast

CONSTANTS snkL, snkR, mic

HeadsetOwner == [a \in {snkL, snkR, mic} |-> 1]
HeadsetSnk   == <<<<snkL, snkR>>, << >>>>
HeadsetSrc   == <<<<mic>>, << >>>>
=============================================================================
