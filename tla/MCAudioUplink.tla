--------------------------- MODULE MCAudioUplink ---------------------------
(* Constants that have to be expressions.  Samples run from -4 to 3, the   *)
(* gate opens at a peak of 3 and closes below 2.                           *)
EXTENDS AudioUplink

Loudest == {<<0, 1>>, <<2, -1>>, <<1, -4>>}
=============================================================================
