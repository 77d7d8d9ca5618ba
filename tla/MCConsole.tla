----------------------------- MODULE MCConsole -----------------------------
(* Two cores on three rows of four columns, which their texts fill twice;  *)
(* a cursor register holds three bits, so that the cursor needs both.      *)
EXTENDS Console

CONSTANTS c1, c2

MCBootFormat == <<"%", "s", "\t", "%", "p", "%", "%", "%", "c", "\n">>
MCBootArgs == [c \in Cores |-> IF c = c1 THEN << <<"H", "z">>, 3, "k">> ELSE << <<>>, 300, "o">>]
MCFaultFormat == <<"e", "=", "%", "d", "%", "u", "\n">>
MCFaultArgs == [c \in Cores |-> IF c = c1 THEN <<2, 0>> ELSE <<-14, 255>>]
=============================================================================
