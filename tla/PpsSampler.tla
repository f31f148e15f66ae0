----------------------------- MODULE PpsSampler -----------------------------
(***************************************************************************)
(* What the PPS correlator of the Javad driver promises, without the      *)
(* kernel's records or the copy of the previous fetch: edges of the pulse *)
(* happen (edge n at time n, odd n asserting, even n clearing), the edge  *)
(* to sample is re-selected at will, and a sample is the time of an edge  *)
(* that has happened, of the kind selected when it is taken, and later    *)
(* than the sample before it.                                              *)
(***************************************************************************)
EXTENDS Integers

CONSTANT MaxEdges

VARIABLES
  now,   \* edges of the pulse so far
  mode,  \* the edges selected for sampling
  ts     \* the time of the last sample (0: none yet)

svars == <<now, mode, ts>>

Edges == {"assert", "clear"}

Kind(n) == IF n % 2 = 1 THEN "assert" ELSE "clear"

Init ==
  /\ now = 0
  /\ mode \in SUBSET Edges
  /\ ts = 0

Tick ==
  /\ now < MaxEdges
  /\ now' = now + 1
  /\ UNCHANGED <<mode, ts>>

Select ==
  /\ mode' \in SUBSET Edges
  /\ UNCHANGED <<now, ts>>

Sample ==
  /\ \E t \in ts + 1 .. now : Kind(t) \in mode /\ ts' = t
  /\ UNCHANGED <<now, mode>>

Next == Tick \/ Select \/ Sample

Spec == Init /\ [][Next]_svars
=============================================================================
