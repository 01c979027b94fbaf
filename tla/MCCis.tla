------------------------------- MODULE MCCis -------------------------------
(* Two earbuds: both play, the first one has the microphone.                *)
EXTENDS LeplCis

MCAses == {<<1, "SNK">>, <<1, "SRC">>, <<2, "SNK">>}
MCUses == [MEDIA |-> {<<1, "SNK">>, <<2, "SNK">>}, MIC |-> {<<1, "SRC">>},
           CALL |-> MCAses, RING |-> MCAses]
=============================================================================
