------------------------------- MODULE MCPps -------------------------------
(***************************************************************************)
(* The PPS correlator for TLC: a device that captures both edges, a pulse *)
(* of three seconds (six edges), so that an edge can be re-selected twice *)
(* between two polls and still have edges after it, and the outcomes of   *)
(* the PPSAPI calls a run allows.                                          *)
(***************************************************************************)
EXTENDS Pps

MCBothEdges == {"assert", "clear"}

MCAnyOutcome == BOOLEAN

MCSuccess == {TRUE}
=============================================================================
