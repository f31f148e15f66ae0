-------------------------------- MODULE Pps --------------------------------
(***************************************************************************)
(* The PPS correlator of the Javad driver (src/ntpd/refclock_javad.c):    *)
(* javad_ppsapi, which selects the capture edge, javad_pps, which fetches *)
(* the last edge from the kernel and emits it as a new sample when its    *)
(* sequence number and timestamp are new, and the part of javad_control   *)
(* that re-selects the edge from fudge flag 3.                            *)
(*                                                                         *)
(* The kernel's PPS source is the environment.  The receiver's pulse has  *)
(* a rising (assert) edge and a falling (clear) edge each second; edge n  *)
(* happens at time n, odd n asserting and even n clearing.  The kernel    *)
(* records an edge, bumping its sequence number and stamping it, only if  *)
(* the edge is in the capture mode last set with time_pps_setparams.      *)
(* Times stand for struct timespec values: edges are at least a pulse     *)
(* width apart, so distinct edges have distinct timestamps.               *)
(*                                                                         *)
(* The outcomes of time_pps_getcap, time_pps_setparams and time_pps_fetch *)
(* are chosen by \E from the sets of outcomes a run allows (TRUE: the     *)
(* call succeeded).  instance->hardpps is 0 from javad_start on and is    *)
(* never changed, so time_pps_kcbind is never reached.                    *)
(***************************************************************************)
EXTENDS Integers

CONSTANTS
  Caps,               \* the capture edges time_pps_getcap reports
  MaxEdges,           \* edges of the pulse, for model checking
  GetcapOutcomes,     \* outcomes time_pps_getcap may have
  SetparamsOutcomes,  \* outcomes time_pps_setparams may have
  FetchOutcomes       \* outcomes time_pps_fetch may have

Edges == {"assert", "clear"}

ASSUME CapsAssumption == Caps \subseteq Edges
ASSUME EdgesAssumption == MaxEdges \in Nat
ASSUME OutcomesAssumption ==
  /\ GetcapOutcomes \subseteq BOOLEAN /\ TRUE \in GetcapOutcomes
  /\ SetparamsOutcomes \subseteq BOOLEAN /\ TRUE \in SetparamsOutcomes
  /\ FetchOutcomes \subseteq BOOLEAN /\ TRUE \in FetchOutcomes

Times == 0 .. MaxEdges

(* A pps_info_t: per edge, the sequence number and timestamp of the last  *)
(* edge of that kind captured.                                             *)
Infos == [seq : [Edges -> Times], stamp : [Edges -> Times]]

NoInfo == [seq |-> [k \in Edges |-> 0], stamp |-> [k \in Edges |-> 0]]

(* The kind of edge n. *)
Kind(n) == IF n % 2 = 1 THEN "assert" ELSE "clear"

VARIABLES
  now,     \* edges of the pulse so far
  kmode,   \* the capture edges the kernel was last given
  kinfo,   \* the kernel's pps_info_t
  handle,  \* instance->pps_handle # 0
  assert,  \* instance->assert
  mode,    \* the capture bits of instance->pps_params.mode
  info,    \* instance->pps_info, the result of the last fetch
  ts,      \* instance->ts, the timestamp of the last sample
  result   \* what the last javad_pps returned: 0 for a new sample

vars == <<now, kmode, kinfo, handle, assert, mode, info, ts, result>>

(* The edge instance->assert names. *)
EdgeOf(a) == IF a THEN "assert" ELSE "clear"

(***************************************************************************)
(* javad_ppsapi for instance->assert = a: if time_pps_getcap fails        *)
(* nothing changes; otherwise the parameters are zeroed and the mode set  *)
(* to the edge selected, if the device can capture it; if it can, the     *)
(* mode is given to the kernel (with no PPS device, pps_handle 0, the     *)
(* kernel has nothing to change).  The result is not modelled: only       *)
(* javad_start reads it.                                                   *)
(***************************************************************************)
PpsApi(a, getcapOk, setparamsOk) ==
  IF ~getcapOk THEN UNCHANGED <<mode, kmode>>
  ELSE LET m == Caps \cap {EdgeOf(a)}
       IN  /\ mode' = m
           /\ IF m # {} /\ setparamsOk /\ handle THEN kmode' = m
                                                ELSE UNCHANGED kmode

(***************************************************************************)
(* The state javad_start leaves when it returns 1: the instance is        *)
(* zeroed, instance->assert is 1, and either time_pps_create failed       *)
(* (pps_handle 0) or javad_ppsapi succeeded for the assert edge.          *)
(***************************************************************************)
Init ==
  /\ now = 0
  /\ kinfo = NoInfo
  /\ info = NoInfo
  /\ ts = 0
  /\ result = 1
  /\ assert = TRUE
  /\ \/ /\ handle = FALSE
        /\ mode = {}
        /\ kmode = {}
     \/ /\ handle = TRUE
        /\ "assert" \in Caps
        /\ mode = {"assert"}
        /\ kmode = {"assert"}

(* An edge of the pulse; the kernel records it if it captures its kind. *)
Pulse ==
  /\ now < MaxEdges
  /\ now' = now + 1
  /\ IF Kind(now + 1) \in kmode
       THEN kinfo' = [kinfo EXCEPT !.seq[Kind(now + 1)] = @ + 1,
                                   !.stamp[Kind(now + 1)] = now + 1]
       ELSE UNCHANGED kinfo
  /\ UNCHANGED <<kmode, handle, assert, mode, info, ts, result>>

(***************************************************************************)
(* javad_control, with fudge flag 3 = f3: instance->assert is set from    *)
(* it and javad_ppsapi called, its result ignored.  (The mode switch on   *)
(* flag 2 is in Session.)                                                  *)
(***************************************************************************)
Control(f3, getcapOk, setparamsOk) ==
  /\ assert' = ~f3
  /\ PpsApi(~f3, getcapOk, setparamsOk)
  /\ UNCHANGED <<now, kinfo, handle, info, ts, result>>

(* The edge javad_pps looks at: assert if the mode has it, else clear if  *)
(* it has that, else none.                                                 *)
Selected == IF "assert" \in mode THEN {"assert"} ELSE mode \cap {"clear"}

(* The selected edge, if the kernel's record of it differs from the copy  *)
(* of the previous fetch in sequence number and from the last sample in   *)
(* timestamp.                                                              *)
NewEdge == {k \in Selected : /\ kinfo.seq[k] # info.seq[k]
                             /\ kinfo.stamp[k] # ts}

(***************************************************************************)
(* javad_pps, with time_pps_fetch succeeding or not.  It returns 1 at     *)
(* once with no PPS handle or a failed fetch; otherwise the fetch         *)
(* overwrites instance->pps_info, and a new edge becomes instance->ts and *)
(* the sample (0 is returned).                                             *)
(***************************************************************************)
PpsSkip(fetchOk) ==
  /\ ~handle \/ ~fetchOk
  /\ result' = 1
  /\ UNCHANGED <<info, ts>>

PpsNoEdge ==
  /\ handle
  /\ info' = kinfo
  /\ NewEdge = {}
  /\ result' = 1
  /\ UNCHANGED ts

(* Mutant: the clear branch reads the assert timestamp.                  *)
PpsSampleAssertStamp ==
  /\ handle
  /\ info' = kinfo
  /\ \E k \in NewEdge : ts' = kinfo.stamp["assert"]
  /\ result' = 0

PpsSample ==
  /\ handle
  /\ info' = kinfo
  /\ \E k \in NewEdge : ts' = kinfo.stamp[k]
  /\ result' = 0

Pps(fetchOk) ==
  /\ \/ PpsSkip(fetchOk)
     \/ fetchOk /\ (PpsNoEdge \/ PpsSample)
  /\ UNCHANGED <<now, kmode, kinfo, handle, assert, mode>>

Next ==
  \/ Pulse
  \/ \E f3 \in BOOLEAN, g \in GetcapOutcomes, s \in SetparamsOutcomes :
       Control(f3, g, s)
  \/ \E ok \in FetchOutcomes : Pps(ok)

(* No fairness: nothing in the driver calls javad_pps (the body of        *)
(* javad_poll is compiled out), so no poll is ever guaranteed to happen.  *)
Spec == Init /\ [][Next]_vars

-----------------------------------------------------------------------------
(* Type invariant. *)
TypeOK ==
  /\ now \in Times
  /\ kmode \in SUBSET Edges
  /\ kinfo \in Infos
  /\ handle \in BOOLEAN
  /\ assert \in BOOLEAN
  /\ mode \in SUBSET Edges
  /\ info \in Infos
  /\ ts \in Times
  /\ result \in {0, 1}

(* The abstract sampler, with the driver's selection and instance->ts.   *)
Sampler == INSTANCE PpsSampler WITH now <- now, mode <- mode, ts <- ts

(***************************************************************************)
(* javad_pps implements the abstract sampler PpsSampler: the driver's     *)
(* selection is the sampler's, every javad_control a re-selection, every  *)
(* javad_pps that sets instance->ts a sample of an edge that has happened, *)
(* of the kind selected and later than the last sample, and every other   *)
(* javad_pps a stutter.  This is about the sequence check, the timestamp  *)
(* branch taken for the mode, and the kernel stamping only captured edges.*)
(***************************************************************************)
SamplerSpec == Sampler!Spec

(* The time of the last edge of kind k so far (0: none). *)
LastEdge(k) ==
  IF \E n \in 1 .. now : Kind(n) = k
    THEN CHOOSE n \in 1 .. now : Kind(n) = k /\ \A j \in n + 1 .. now : Kind(j) # k
    ELSE 0

(***************************************************************************)
(* A sample javad_pps emits is the time of the latest edge of the kind it *)
(* selects, so that it can stand for the current second.                 *)
(***************************************************************************)
Fresh == [][ts' # ts => \A k \in Selected : ts' = LastEdge(k)]_vars

(***************************************************************************)
(* With a PPS device, the edge javad_pps reads is the one instance->assert*)
(* names, and it is the edge the kernel captures.                          *)
(***************************************************************************)
ModeAgrees == handle => mode = {EdgeOf(assert)} /\ kmode = mode
=============================================================================
