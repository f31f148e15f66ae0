------------------------------ MODULE PpsProofs ------------------------------
(***************************************************************************)
(* Proofs about the PPS correlator (Pps): its type invariant, and that    *)
(* javad_pps implements the abstract sampler PpsSampler, for every set of *)
(* capture edges, every number of edges and every outcome of the PPSAPI   *)
(* calls.                                                                  *)
(***************************************************************************)
EXTENDS Pps, TLAPS

(***************************************************************************)
(* The inductive invariant.  Besides the types, it says that the kernel   *)
(* never stamps an edge later than now, nor numbers more edges than have  *)
(* happened, that the last sample is not in the future, and the fact the  *)
(* sequence check rests on: an edge the kernel captured since the last    *)
(* fetch (its sequence number differs from the copy in instance->pps_info)*)
(* is later than the last sample.                                          *)
(***************************************************************************)
IInv ==
  /\ TypeOK
  /\ \A k \in Edges : kinfo.seq[k] <= now /\ kinfo.stamp[k] <= now
  /\ ts <= now
  /\ \A k \in Edges : kinfo.seq[k] # info.seq[k] => kinfo.stamp[k] > ts

(* The kernel's timestamp of an edge kind is an edge of that kind, or 0. *)
StampKinds ==
  \A k \in Edges : kinfo.stamp[k] # 0 => Kind(kinfo.stamp[k]) = k

(* Every edge has a kind. *)
LEMMA KindType == \A n \in Int : Kind(n) \in Edges
  BY DEF Kind, Edges

LEMMA IInvInit == Init => IInv
<1> SUFFICES ASSUME Init PROVE IInv
  OBVIOUS
<1>1. NoInfo \in Infos
  BY EdgesAssumption DEF NoInfo, Infos, Times
<1>2. mode \in SUBSET Edges /\ kmode \in SUBSET Edges
  BY DEF Init, Edges
<1>3. handle \in BOOLEAN /\ assert \in BOOLEAN
  BY Zenon DEF Init
<1>4. TypeOK
  BY <1>1, <1>2, <1>3, EdgesAssumption DEF Init, TypeOK, Times
<1>5. QED
  BY <1>4 DEF Init, IInv, NoInfo

LEMMA IInvStep == IInv /\ [Next]_vars => IInv'
<1> SUFFICES ASSUME IInv, [Next]_vars PROVE IInv'
  OBVIOUS
<1> USE EdgesAssumption
<1>1. CASE Pulse
  <2> DEFINE k == Kind(now + 1)
  <2>1. k \in Edges /\ now' = now + 1 /\ now' \in Times /\ now \in Nat
    BY <1>1, KindType DEF Pulse, IInv, TypeOK, Times
  <2>2. UNCHANGED <<kmode, handle, assert, mode, info, ts, result>>
    BY <1>1 DEF Pulse
  <2>6. handle' \in BOOLEAN /\ assert' \in BOOLEAN
    BY <2>2, Zenon DEF IInv, TypeOK
  <2> HIDE DEF k
  <2>3. CASE k \in kmode
    <3>1. kinfo' = [kinfo EXCEPT !.seq[k] = @ + 1, !.stamp[k] = now + 1]
      BY <1>1, <2>3 DEF Pulse, k
    <3>2. /\ kinfo'.seq = [kinfo.seq EXCEPT ![k] = kinfo.seq[k] + 1]
          /\ kinfo'.stamp = [kinfo.stamp EXCEPT ![k] = now + 1]
          /\ kinfo' = [seq |-> kinfo'.seq, stamp |-> kinfo'.stamp]
      BY <3>1 DEF IInv, TypeOK, Infos
    <3>3. \A j \in Edges : /\ kinfo'.seq[j] <= now' /\ kinfo'.stamp[j] <= now'
                           /\ kinfo'.seq[j] \in Times /\ kinfo'.stamp[j] \in Times
      BY <2>1, <3>2 DEF IInv, TypeOK, Infos, Times
    <3>4. kinfo' \in Infos
      BY <3>2, <3>3 DEF Infos, IInv, TypeOK
    <3>5. \A j \in Edges : kinfo'.seq[j] # info'.seq[j] => kinfo'.stamp[j] > ts'
      BY <2>1, <2>2, <3>2 DEF IInv, TypeOK, Infos, Times
    <3>6. QED
      BY <2>1, <2>2, <2>6, <3>3, <3>4, <3>5 DEF IInv, TypeOK, Times
  <2>4. CASE k \notin kmode
    <3>1. kinfo' = kinfo
      BY <1>1, <2>4 DEF Pulse, k
    <3>2. TypeOK'
      BY <2>1, <2>2, <2>6, <3>1 DEF IInv, TypeOK
    <3>3. \A j \in Edges : kinfo'.seq[j] <= now' /\ kinfo'.stamp[j] <= now'
      BY <2>1, <3>1 DEF IInv, TypeOK, Infos, Times
    <3>4. QED
      BY <2>1, <2>2, <3>1, <3>2, <3>3 DEF IInv, TypeOK, Times
  <2>5. QED
    BY <2>3, <2>4
<1>2. ASSUME NEW f3 \in BOOLEAN, NEW g \in GetcapOutcomes,
             NEW s \in SetparamsOutcomes, Control(f3, g, s)
      PROVE  IInv'
  <2>1. mode' \in SUBSET Edges /\ kmode' \in SUBSET Edges
    BY <1>2, OutcomesAssumption, CapsAssumption
    DEF Control, PpsApi, IInv, TypeOK
  <2>2. QED
    BY <1>2, <2>1 DEF Control, IInv, TypeOK
<1>3. ASSUME NEW ok \in FetchOutcomes, Pps(ok) PROVE IInv'
  <2>1. CASE PpsSkip(ok)
    BY <1>3, <2>1 DEF Pps, PpsSkip, IInv, TypeOK
  <2>2. CASE PpsNoEdge
    BY <1>3, <2>2 DEF Pps, PpsNoEdge, IInv, TypeOK
  <2>3. CASE PpsSample
    <3>1. PICK k \in NewEdge : ts' = kinfo.stamp[k]
      BY <2>3 DEF PpsSample
    <3>2. k \in Edges
      BY <3>1 DEF NewEdge, Selected, IInv, TypeOK
    <3>3. QED
      BY <1>3, <2>3, <3>1, <3>2 DEF Pps, PpsSample, IInv, TypeOK, Times, Infos
  <2>4. QED
    BY <1>3, <2>1, <2>2, <2>3 DEF Pps
<1>4. CASE UNCHANGED vars
  BY <1>4 DEF vars, IInv, TypeOK
<1>5. QED
  BY <1>1, <1>2, <1>3, <1>4 DEF Next

(* The type invariant holds in every state. *)
THEOREM PpsTypeCorrect == Spec => []TypeOK
<1>1. Spec => []IInv
  BY IInvInit, IInvStep, PTL DEF Spec
<1>2. QED
  BY <1>1, PTL DEF IInv

(* The stamps keep their kinds: only an edge of the pulse stamps, and it  *)
(* stamps the record of its own kind with its own time.                    *)
LEMMA StampKindsInit == Init => StampKinds
  BY DEF Init, StampKinds, NoInfo

LEMMA StampKindsStep == IInv /\ StampKinds /\ [Next]_vars => StampKinds'
<1> SUFFICES ASSUME IInv, StampKinds, [Next]_vars PROVE StampKinds'
  OBVIOUS
<1>1. CASE Pulse
  <2> DEFINE k == Kind(now + 1)
  <2>1. k \in Edges
    BY KindType, EdgesAssumption DEF IInv, TypeOK, Times
  <2> HIDE DEF k
  <2>2. CASE k \in kmode
    <3>0. kinfo' = [kinfo EXCEPT !.seq[k] = @ + 1, !.stamp[k] = now + 1]
      BY <1>1, <2>2 DEF Pulse, k
    <3>1. kinfo'.stamp = [kinfo.stamp EXCEPT ![k] = now + 1]
      BY <3>0 DEF IInv, TypeOK, Infos
    <3>2. Kind(now + 1) = k
      BY DEF k
    <3>3. QED
      BY <2>1, <3>1, <3>2 DEF StampKinds, IInv, TypeOK, Infos
  <2>3. CASE k \notin kmode
    BY <1>1, <2>3 DEF Pulse, k, StampKinds
  <2>4. QED
    BY <2>2, <2>3
<1>2. CASE \E f3 \in BOOLEAN, g \in GetcapOutcomes, s \in SetparamsOutcomes :
             Control(f3, g, s)
  BY <1>2 DEF Control, StampKinds
<1>3. CASE \E ok \in FetchOutcomes : Pps(ok)
  BY <1>3 DEF Pps, StampKinds
<1>4. CASE UNCHANGED vars
  BY <1>4 DEF vars, StampKinds
<1>5. QED
  BY <1>1, <1>2, <1>3, <1>4 DEF Next

(* A javad_pps that sets instance->ts is a step of the sampler: the       *)
(* sample is an edge that has happened, of the selected kind and later   *)
(* than the last sample.                                                   *)
LEMMA SampleRefines ==
  IInv /\ StampKinds /\ PpsSample /\ UNCHANGED <<now, mode>> => Sampler!Sample
<1> SUFFICES ASSUME IInv, StampKinds, PpsSample, UNCHANGED <<now, mode>>
             PROVE  Sampler!Sample
  OBVIOUS
<1>1. PICK k \in NewEdge : ts' = kinfo.stamp[k]
  BY DEF PpsSample
<1>2. k \in Edges /\ k \in mode /\ kinfo.seq[k] # info.seq[k]
  BY <1>1 DEF NewEdge, Selected, IInv, TypeOK
<1>3. kinfo.stamp[k] \in ts + 1 .. now
  BY <1>2 DEF IInv, TypeOK, Infos, Times
<1>4. kinfo.stamp[k] # 0
  BY <1>3 DEF IInv, TypeOK, Times
<1>5. Sampler!Kind(kinfo.stamp[k]) \in mode
  BY <1>2, <1>4 DEF StampKinds, Kind, Sampler!Kind
<1>6. \E t \in ts + 1 .. now : Sampler!Kind(t) \in mode /\ ts' = t
  BY <1>1, <1>3, <1>5
<1>7. QED
  BY <1>6 DEF Sampler!Sample

(* Every step of the correlator is a step of the sampler or a stutter.    *)
LEMMA SamplerStep ==
  IInv /\ StampKinds /\ [Next]_vars /\ IInv' => [Sampler!Next]_Sampler!svars
<1> SUFFICES ASSUME IInv, StampKinds, [Next]_vars, IInv'
             PROVE  [Sampler!Next]_Sampler!svars
  OBVIOUS
<1>1. CASE Pulse
  BY <1>1 DEF Pulse, Sampler!Next, Sampler!Tick
<1>2. CASE \E f3 \in BOOLEAN, g \in GetcapOutcomes, s \in SetparamsOutcomes :
             Control(f3, g, s)
  <2>1. mode' \in SUBSET Sampler!Edges
    BY DEF IInv, TypeOK, Edges, Sampler!Edges
  <2>2. QED
    BY <1>2, <2>1 DEF Control, Sampler!Next, Sampler!Select
<1>3. ASSUME NEW ok \in FetchOutcomes, Pps(ok)
      PROVE  [Sampler!Next]_Sampler!svars
  <2>1. CASE PpsSample
    BY <1>3, <2>1, SampleRefines DEF Pps, Sampler!Next
  <2>2. CASE ~PpsSample
    BY <1>3, <2>2 DEF Pps, PpsSkip, PpsNoEdge, Sampler!svars
  <2>3. QED
    BY <2>1, <2>2
<1>4. CASE UNCHANGED vars
  BY <1>4 DEF vars, Sampler!svars
<1>5. QED
  BY <1>1, <1>2, <1>3, <1>4 DEF Next

(***************************************************************************)
(* javad_pps implements the abstract sampler for every set of capture     *)
(* edges, number of edges and outcome of the PPSAPI calls: every sample   *)
(* it sets in instance->ts is the time of an edge that has happened, of   *)
(* the kind then selected, and later than the sample before.               *)
(***************************************************************************)
THEOREM PpsRefinement == Spec => SamplerSpec
<1>1. Init => Sampler!Init
  BY DEF Init, Sampler!Init, Edges, Sampler!Edges
<1>2. Spec => [](IInv /\ StampKinds)
  BY IInvInit, IInvStep, StampKindsInit, StampKindsStep, PTL DEF Spec
<1>3. QED
  BY <1>1, <1>2, SamplerStep, PTL DEF Spec, SamplerSpec, Sampler!Spec

=============================================================================
