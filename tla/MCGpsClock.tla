----------------------------- MODULE MCGpsClock -----------------------------
(* Small instances of GpsClock for TLC: a six-second week, so that the     *)
(* rollover and the half-week tie-break are reached within a few steps.    *)
EXTENDS GpsClock

MCWeekSecs == 6
MCSkew == -2 .. 2
MCMaxTime == 4 * 6
MCNoSkew == {0}
=============================================================================
