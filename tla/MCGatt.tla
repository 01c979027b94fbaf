------------------------------- MODULE MCGatt -------------------------------
(* Two devices: the first has a microphone and fewer sink ASEs than the     *)
(* player has slots for, the second has more.                               *)
EXTENDS GattClient

Ch(t, n) == [type |-> t, cccd |-> n]

MCSlots == [v \in Services |->
    CASE v = "ASCS" -> <<"SNK", "SNK">>
      [] v = "MICS" -> <<"MUTE">>
      [] v \in Aics -> <<"INPUT">>
      [] OTHER      -> <<"ANY">>]

MCDb == [c \in 1..2 |-> [v \in Services |->
    CASE v = "ASCS" /\ c = 1  -> <<Ch("SNK", TRUE)>>
      [] v = "ASCS" /\ c = 2  -> <<Ch("SNK", FALSE), Ch("SNK", TRUE), Ch("SNK", TRUE)>>
      [] v = "MICS" /\ c = 1  -> <<Ch("MUTE", TRUE)>>
      [] v = "AICS1" /\ c = 1 -> <<Ch("INPUT", TRUE)>>
      [] OTHER                -> <<>>]]

MCNotify == [v \in Services |->
    CASE v = "ASCS" -> {"SNK"} [] v = "MICS" -> {"MUTE"}
      [] v \in Aics -> {"INPUT"} [] OTHER -> {}]
MCRead == MCNotify
=============================================================================
