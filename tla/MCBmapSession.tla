--------------------------- MODULE MCBmapSession ---------------------------
(* A headset with a battery (polled, drifts), an equalizer of two bands    *)
(* and voice prompts (silent, read-modify-write).                          *)
EXTENDS BmapSession

MCFieldOf == [c \in Cells |-> CASE c \in {"bass", "treble"} -> "eq"
                                [] c \in {"enabled", "language"} -> "prompts"
                                [] OTHER -> c]
MCPutOrder ==
    [f \in Fields |-> CASE f = "eq" -> <<{"bass"}, {"treble"}>>
                        [] f = "prompts" -> <<{"enabled", "language"}>>
                        [] f = "cnc" -> <<{"cnc"}>>
                        [] OTHER -> <<>>]
Battery == <<"battery">>
Cnc == <<"cnc">>
Sidetone == <<"sidetone">>
Unpolled == <<>>
AllThree == <<"battery", "eq", "prompts">>
=============================================================================
