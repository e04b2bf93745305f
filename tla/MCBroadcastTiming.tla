------------------------- MODULE MCBroadcastTiming -------------------------
(* A small instance of BroadcastTiming for TLC: periods far below, around  *)
(* and above the 20 seconds at which the max-age changes, and none.        *)
EXTENDS BroadcastTiming

SomePeriods == {0, 1, 3, 18, 19, 20, 21, 24}
=============================================================================
