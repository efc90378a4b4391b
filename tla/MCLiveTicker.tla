--------------------------- MODULE MCLiveTicker ---------------------------
(* LiveTicker for TLC: two requests, so that the endpoint can still serve  *)
(* a lost connection next to the new one.                                  *)
EXTENDS LiveTicker

CONSTANTS c1, c2

MCClients == {c1, c2}
=============================================================================
