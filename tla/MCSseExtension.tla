-------------------------- MODULE MCSseExtension --------------------------
(* SseExtension for TLC: two EventSources, so that a second stream can be   *)
(* seen, and two children.  The retry count has the cap of the code.        *)
EXTENDS SseExtension

CONSTANTS s1, s2, list, trigger

MCSources == {s1, s2}
MCChildren == {list, trigger}
=============================================================================
