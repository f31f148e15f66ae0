-------------------------- MODULE LineReceiverProofs --------------------------
(***************************************************************************)
(* Proofs about the line receiver (LineReceiver), for every CAP, chunk    *)
(* length and memcpy direction: that javad_receive keeps ssize within     *)
(* CAP + 1 and writes only the bytes ibuf and the two past it can hold    *)
(* (LineTypeCorrect); and that, on chunks without NUL and with a memcpy   *)
(* that copies forward, it implements the line buffer of LineBuffer       *)
(* (LineRefinement).                                                       *)
(***************************************************************************)
EXTENDS LineReceiver, WellFoundedInduction, TLAPS

(* A non-empty set of naturals has a least element. *)
LEMMA NatMin ==
  ASSUME NEW T \in SUBSET Nat, T # {}
  PROVE  \E x \in T : \A y \in T : x <= y
<1>1. PICK x \in T : \A y \in T : ~(<<y, x>> \in OpToRel(<, Nat))
  BY NatLessThanWellFounded, WFMin
<1>2. \A y \in T : ~(y < x)
  BY <1>1 DEF OpToRel
<1>3. QED
  BY <1>2

(***************************************************************************)
(* strlcpy(dst, c, n + 1) copies a well-defined number of bytes: at most  *)
(* n, none of them NUL, and it stops at n or at a NUL.                     *)
(***************************************************************************)
LEMMA CopiedSpec ==
  ASSUME NEW c, NEW n \in Nat
  PROVE  /\ Copied(c, n) \in 0 .. n
         /\ \A i \in 1 .. Copied(c, n) : c[i] # NUL
         /\ Copied(c, n) = n \/ c[Copied(c, n) + 1] = NUL
<1> DEFINE T == {k \in 0 .. n : k = n \/ c[k + 1] = NUL}
<1>1. T \in SUBSET Nat /\ T # {}
  OBVIOUS
<1>2. PICK x \in T : \A y \in T : x <= y
  BY <1>1, NatMin
<1>3. \A i \in 1 .. x : c[i] # NUL
  <2> SUFFICES ASSUME NEW i \in 1 .. x, c[i] = NUL PROVE FALSE
    OBVIOUS
  <2>1. i - 1 \in T
    BY <1>2
  <2>2. QED
    BY <1>2, <2>1
<1>4. \E k \in 0 .. n : /\ \A i \in 1 .. k : c[i] # NUL
                        /\ k = n \/ c[k + 1] = NUL
  BY <1>2, <1>3
<1>5. QED
  BY <1>4 DEF Copied

(* Without a NUL in the chunk, strlcpy copies all n bytes. *)
LEMMA CopiedAll ==
  ASSUME NEW c, NEW n \in Nat, \A i \in 1 .. n : c[i] # NUL
  PROVE  Copied(c, n) = n
BY CopiedSpec

(* A set of line ends has a first one. *)
LEMMA FirstLineSpec ==
  ASSUME NEW buf, NEW size \in Nat, LineEnds(buf, size) # {}
  PROVE  LET e == CHOOSE i \in LineEnds(buf, size) :
                    \A j \in LineEnds(buf, size) : i <= j
         IN  /\ e \in LineEnds(buf, size)
             /\ \A j \in LineEnds(buf, size) : e <= j
<1>1. LineEnds(buf, size) \in SUBSET Nat
  BY DEF LineEnds
<1>2. \E x \in LineEnds(buf, size) : \A y \in LineEnds(buf, size) : x <= y
  BY <1>1, NatMin
<1>3. QED
  BY <1>2

-----------------------------------------------------------------------------
(* The clamp leaves room for the chunk and stays within CAP + 1 bytes. *)
LEMMA ClampBound ==
  ASSUME NEW n \in Nat, ssize \in 0 .. CAP + 1
  PROVE  /\ Clamp(n) \in 0 .. n
         /\ ssize + Clamp(n) \in 0 .. CAP + 1
BY CapAssumption DEF Clamp

(***************************************************************************)
(* The facts about one call of javad_receive with chunk c that every case *)
(* uses: the chunk is a sequence, and the buffer after strlcpy has the    *)
(* type of ibuf and holds Appended(c) <= CAP + 1 bytes.                   *)
(***************************************************************************)
LEMMA AppendType ==
  ASSUME TypeOK, NEW c \in Chunks
  PROVE  /\ c \in Seq(ChunkBytes)
         /\ AppendChunk(c) \in [Mem -> Bytes]
         /\ Appended(c) \in 0 .. CAP + 1
<1>1. c \in Seq(ChunkBytes) /\ Len(c) \in Nat
  BY ChunkAssumption DEF Chunks
<1>2. /\ Clamp(Len(c)) \in 0 .. Len(c)
      /\ ssize + Clamp(Len(c)) \in 0 .. CAP + 1
  BY <1>1, ClampBound DEF TypeOK
<1> DEFINE n == Clamp(Len(c))
           k == Copied(c, n)
<1>3. k \in 0 .. n
  BY <1>2, CopiedSpec
<1>4. \A i \in Mem : i \in ssize .. ssize + k - 1 => c[i - ssize + 1] \in Bytes
  BY <1>1, <1>2, <1>3 DEF Bytes, TypeOK
<1>5. AppendChunk(c) \in [Mem -> Bytes]
  BY <1>4 DEF AppendChunk, Strlcpy, TypeOK, Bytes
<1>6. QED
  BY <1>1, <1>2, <1>5 DEF Appended

LEMMA TypeInit == Init => TypeOK
BY CapAssumption, ChunkAssumption DEF Init, TypeOK, Bytes, Mem, Chunks

LEMMA TypeStep == TypeOK /\ [Next]_vars => TypeOK'
<1> SUFFICES ASSUME TypeOK, [Next]_vars PROVE TypeOK'
  OBVIOUS
<1>1. ASSUME NEW c \in Chunks, Receive(c) PROVE TypeOK'
  <2>1. /\ c \in Seq(ChunkBytes)
        /\ AppendChunk(c) \in [Mem -> Bytes]
        /\ Appended(c) \in 0 .. CAP + 1
    BY AppendType
  <2>2. chunk' \in Chunks
    BY <1>1 DEF Receive
  <2>3. CASE ReceivePartial(c)
    BY <2>1, <2>2, <2>3 DEF ReceivePartial, TypeOK
  <2> DEFINE buf == AppendChunk(c)
             size == Appended(c)
             e == FirstLine(c)
  <2>4. ASSUME LineEnds(buf, size) # {}
        PROVE  /\ e \in 2 .. size
               /\ [i \in 1 .. e |-> buf[i - 1]] \in Seq(Bytes)
    <3>1. e \in LineEnds(buf, size)
      BY <2>1, <2>4, FirstLineSpec DEF FirstLine
    <3>2. e \in 2 .. size
      BY <3>1 DEF LineEnds
    <3>3. \A i \in 1 .. e : buf[i - 1] \in Bytes
      BY <2>1, <3>2, CapAssumption DEF Mem, buf, size
    <3>4. QED
      BY <3>2, <3>3
  <2>5. CASE ReceiveLine(c)
    <3>1. ibuf' \in [Mem -> Bytes]
      BY <2>1, <2>5 DEF ReceiveLine, Bytes
    <3>2. QED
      BY <2>2, <2>4, <2>5, <3>1, CapAssumption DEF ReceiveLine, TypeOK
  <2>6. CASE ReceiveShift(c)
    <3>1. PICK how \in MemcpyOutcomes : ibuf' = Shift(how, buf, e, size)
      BY <2>6 DEF ReceiveShift
    <3>2. Shift(how, buf, e, size) \in [Mem -> Bytes]
      BY <2>1 DEF Shift, Read, Bytes, buf
    <3>3. LineEnds(buf, size) # {} /\ size > e
      BY <2>6 DEF ReceiveShift, buf, size, e
    <3>4. /\ e \in 2 .. size
          /\ [i \in 1 .. e |-> buf[i - 1]] \in Seq(Bytes)
      BY <3>3, <2>4
    <3>5. ssize' = size - e /\ emitted' = [i \in 1 .. e |-> buf[i - 1]]
      BY <2>6 DEF ReceiveShift, buf, size, e
    <3>6. ssize' \in 0 .. CAP + 1
      BY <2>1, <3>4, <3>5, CapAssumption DEF size
    <3>7. emitted' \in Seq(Bytes)
      BY <3>4, <3>5
    <3>8. QED
      BY <2>2, <3>1, <3>2, <3>6, <3>7 DEF TypeOK
  <2>7. QED
    BY <1>1, <2>3, <2>5, <2>6 DEF Receive
<1>2. CASE Reset
  BY <1>2, CapAssumption DEF Reset, TypeOK
<1>3. CASE UNCHANGED vars
  BY <1>3 DEF vars, TypeOK
<1>4. QED
  BY <1>1, <1>2, <1>3 DEF Next

(***************************************************************************)
(* javad_receive keeps the type of its state: in particular ssize never   *)
(* exceeds CAP + 1, and every byte it writes, through strlcpy, the NUL    *)
(* after a printed line or the memcpy in either direction, lands in ibuf  *)
(* or in the two bytes past it that the clamp lets it reach.              *)
(***************************************************************************)
THEOREM LineTypeCorrect == Spec => []TypeOK
BY TypeInit, TypeStep, PTL DEF Spec

-----------------------------------------------------------------------------
(***************************************************************************)
(* The refinement of LineBuffer.  Held is the abstract pending sequence;  *)
(* the lemmas below relate one call of javad_receive on chunk c to one    *)
(* LBReceive(c), on chunks without NUL (strlcpy copies them whole).       *)
(***************************************************************************)

(* The bytes of s after its first e. *)
LEMMA SubSeqSuffix ==
  ASSUME NEW S, NEW s \in Seq(S), NEW e \in Nat, e <= Len(s)
  PROVE  SubSeq(s, e + 1, Len(s)) = [i \in 1 .. Len(s) - e |-> s[e + i]]
OBVIOUS

(* Held is a sequence of ssize bytes. *)
LEMMA HeldType ==
  ASSUME TypeOK
  PROVE  Held \in Seq(Bytes) /\ Len(Held) = ssize
BY CapAssumption DEF TypeOK, Held, Mem

(* The abstract buffer accepts exactly the bytes the clamp lets in. *)
LEMMA AcceptedClamp ==
  ASSUME TypeOK, NEW c \in Chunks
  PROVE  LB!Accepted(c) = SubSeq(c, 1, Clamp(Len(c)))
<1>1. Len(Held) = ssize
  BY HeldType
<1>2. (CAP + 1) - Len(Held) = CAP - (ssize - 1)
  BY <1>1, CapAssumption DEF TypeOK
<1>3. Len(c) \in Nat
  BY AppendType
<1>4. (IF Len(c) <= (CAP + 1) - Len(Held) THEN Len(c) ELSE (CAP + 1) - Len(Held))
        = Clamp(Len(c))
  BY <1>1, <1>2, <1>3, CapAssumption DEF Clamp, TypeOK
<1>5. LB!Accepted(c) =
        SubSeq(c, 1, IF Len(c) <= (CAP + 1) - Len(Held)
                       THEN Len(c) ELSE (CAP + 1) - Len(Held))
  BY DEF LB!Accepted
<1>6. QED
  BY <1>4, <1>5

(***************************************************************************)
(* With no NUL in the chunk, the bytes held after strlcpy, as the scan    *)
(* reads them, are the bytes held before followed by the accepted part of *)
(* the chunk.                                                              *)
(***************************************************************************)
LEMMA AppendHeld ==
  ASSUME TypeOK, NEW c \in Chunks, NUL \notin ChunkBytes
  PROVE  Held \o LB!Accepted(c) =
           [i \in 1 .. Appended(c) |-> AppendChunk(c)[i - 1]]
<1> DEFINE n == Clamp(Len(c))
<1>0. c \in Seq(ChunkBytes)
  BY AppendType
<1>1. /\ c \in Seq(ChunkBytes)
      /\ n \in 0 .. Len(c)
      /\ ssize + n \in 0 .. CAP + 1
  BY <1>0, ClampBound DEF TypeOK, n
<1>2. Copied(c, n) = n
  BY <1>1, CopiedAll
<1>3. \A i \in Mem : AppendChunk(c)[i] =
         IF i \in ssize .. ssize + n - 1 THEN c[i - ssize + 1]
         ELSE IF i = ssize + n THEN NUL ELSE ibuf[i]
  BY <1>2 DEF AppendChunk, Strlcpy
<1>4. Held \o LB!Accepted(c) =
        [i \in 1 .. ssize + n |-> IF i <= ssize THEN ibuf[i - 1]
                                 ELSE c[i - ssize]]
  <2>1. LB!Accepted(c) = SubSeq(c, 1, n)
    BY AcceptedClamp
  <2>2. Held \in Seq(Bytes) /\ Len(Held) = ssize
    BY HeldType
  <2>3. QED
    BY <1>1, <2>1, <2>2 DEF Held, TypeOK
<1>5. QED
  BY <1>1, <1>3, <1>4, CapAssumption DEF Appended, Mem, TypeOK

(* The abstract line ends of the accumulated bytes are the ends the scan  *)
(* of javad_receive finds.                                                 *)
LEMMA LineEndsHeld ==
  ASSUME TypeOK, NEW c \in Chunks, NUL \notin ChunkBytes
  PROVE  LB!LineEnds(Held \o LB!Accepted(c)) =
           LineEnds(AppendChunk(c), Appended(c))
<1> DEFINE acc == Held \o LB!Accepted(c)
           buf == AppendChunk(c)
           size == Appended(c)
<1>1. size \in Nat
  BY AppendType
<1>2. acc = [i \in 1 .. size |-> buf[i - 1]]
  BY AppendHeld, Zenon DEF acc, buf, size
<1>5. Len(acc) = size /\ \A i \in 1 .. size : acc[i] = buf[i - 1]
  BY <1>1, <1>2
<1>3. \A i \in 2 .. size : (acc[i - 1] = CR /\ acc[i] = LF) <=>
                            (buf[i - 2] = CR /\ buf[i - 1] = LF)
  <2> SUFFICES ASSUME NEW i \in 2 .. size
               PROVE  (acc[i - 1] = CR /\ acc[i] = LF) <=>
                      (buf[i - 2] = CR /\ buf[i - 1] = LF)
    OBVIOUS
  <2>1. i - 1 \in 1 .. size /\ i \in 1 .. size /\ i - 1 - 1 = i - 2
    BY <1>1
  <2>2. acc[i - 1] = buf[i - 2] /\ acc[i] = buf[i - 1]
    BY <2>1, <1>5
  <2>3. QED
    BY <2>2
<1>4. QED
  BY <1>5, <1>3 DEF LB!LineEnds, LineEnds

(***************************************************************************)
(* One call of javad_receive, on a chunk without NUL and with a memcpy    *)
(* that copies forward, is one LBReceive of the same chunk.               *)
(***************************************************************************)
LEMMA RefineReceive ==
  ASSUME TypeOK, NEW c \in Chunks, Receive(c),
         NUL \notin ChunkBytes, MemcpyOutcomes = {"forward"}
  PROVE  LB!LBReceive(c)
<1> DEFINE acc == Held \o LB!Accepted(c)
           buf == AppendChunk(c)
           size == Appended(c)
<1>1. acc = [i \in 1 .. size |-> buf[i - 1]]
  BY AppendHeld DEF acc, buf, size
<1>2. LB!LineEnds(acc) = LineEnds(buf, size)
  BY LineEndsHeld DEF acc, buf, size
<1>3. size \in 0 .. CAP + 1
  BY AppendType DEF size
<1>4. chunk' = c
  BY DEF Receive
<1>5. acc \in Seq(Bytes)
  BY <1>1, <1>3, AppendType, CapAssumption DEF buf, Mem
<1>6. CASE ReceivePartial(c)
  <2>1. Held' = acc
    BY <1>1, <1>6 DEF ReceivePartial, Held, buf, size
  <2>2. LB!LineEnds(acc) = {}
    BY <1>2, <1>6 DEF ReceivePartial, buf, size
  <2>3. emitted' = <<>>
    BY <1>6 DEF ReceivePartial
  <2>4. QED
    BY <1>4, <2>1, <2>2, <2>3 DEF LB!LBReceive, acc
<1>7. CASE ReceiveLine(c) \/ ReceiveShift(c)
  <2> DEFINE e == FirstLine(c)
  <2>1. LineEnds(buf, size) # {}
    BY <1>7 DEF ReceiveLine, ReceiveShift, buf, size
  <2>2. LB!LineEnds(acc) # {}
    BY <1>2, <2>1
  <2>3. (CHOOSE i \in LB!LineEnds(acc) : \A j \in LB!LineEnds(acc) : i <= j)
          = e
    BY <1>2 DEF FirstLine, buf, size, e
  <2>4. e \in 2 .. size
    <3>1. e \in LineEnds(buf, size)
      BY <1>3, <2>1, FirstLineSpec DEF FirstLine, buf, size, e
    <3>2. QED
      BY <3>1 DEF LineEnds
  <2>5. Len(acc) = size /\ \A i \in 1 .. size : acc[i] = buf[i - 1]
    BY <1>1, <1>3
  <2>6. emitted' = SubSeq(acc, 1, e)
    <3>1. emitted' = [i \in 1 .. e |-> buf[i - 1]]
      BY <1>7 DEF ReceiveLine, ReceiveShift, buf, e
    <3>2. QED
      BY <2>4, <2>5, <3>1
  <2>7. Held' = SubSeq(acc, e + 1, Len(acc))
    <3>1. CASE ReceiveLine(c)
      <4>1. ssize' = 0 /\ size = e
        BY <3>1 DEF ReceiveLine, size, e
      <4>2. Held' = <<>>
        BY <4>1 DEF Held
      <4>3. SubSeq(acc, e + 1, Len(acc)) = <<>>
        BY <1>3, <2>4, <2>5, <4>1
      <4>4. QED
        BY <4>2, <4>3
    <3>2. CASE ReceiveShift(c)
      <4>1. /\ ssize' = size - e
            /\ ibuf' = Shift("forward", buf, e, size)
        BY <1>7, <3>2 DEF ReceiveShift, buf, size, e
      <4>2. \A i \in 1 .. size - e : ibuf'[i - 1] = buf[e + i - 1]
        BY <1>3, <2>4, <4>1, CapAssumption DEF Shift, Read, Mem
      <4>3. Held' = [i \in 1 .. size - e |-> buf[e + i - 1]]
        BY <4>1, <4>2 DEF Held
      <4>4. e \in Nat /\ e <= Len(acc)
        BY <1>3, <2>4, <2>5, CapAssumption
      <4>5. SubSeq(acc, e + 1, Len(acc)) = [i \in 1 .. Len(acc) - e |-> acc[e + i]]
        BY <1>5, <4>4, SubSeqSuffix
      <4>6. SubSeq(acc, e + 1, Len(acc)) = [i \in 1 .. size - e |-> acc[e + i]]
        BY <2>5, <4>5
      <4>7. \A i \in 1 .. size - e : acc[e + i] = buf[e + i - 1]
        <5> SUFFICES ASSUME NEW j \in 1 .. size - e
                     PROVE  acc[e + j] = buf[e + j - 1]
          OBVIOUS
        <5>1. e + j \in 1 .. size
          BY <1>3, <2>4, CapAssumption
        <5>2. e \in Nat /\ j \in Nat /\ size \in Nat
          BY <1>3, <2>4, CapAssumption
        <5>3. QED
          BY <1>1, <5>1, <5>2
      <4>8. QED
        BY <4>3, <4>6, <4>7
    <3>3. QED
      BY <1>7, <3>1, <3>2
  <2>8. QED
    BY <1>4, <2>2, <2>3, <2>6, <2>7 DEF LB!LBReceive, acc
<1>8. QED
  BY <1>6, <1>7 DEF Receive

(* Every step of javad_receive or javad_config is a step of the line     *)
(* buffer or leaves it as it is.                                          *)
LEMMA RefineStep ==
  ASSUME NUL \notin ChunkBytes, MemcpyOutcomes = {"forward"}
  PROVE  TypeOK /\ [Next]_vars => [LB!LBNext]_LB!lbvars
<1> SUFFICES ASSUME TypeOK, [Next]_vars PROVE [LB!LBNext]_LB!lbvars
  OBVIOUS
<1>1. ASSUME NEW c \in Chunks, Receive(c) PROVE LB!LBNext
  BY <1>1, RefineReceive DEF LB!LBNext, LB!Chunks, Chunks
<1>2. CASE Reset
  <2>1. Held' = <<>>
    BY <1>2 DEF Reset, Held
  <2>2. QED
    BY <1>2, <2>1 DEF Reset, LB!LBNext, LB!LBReset
<1>3. CASE UNCHANGED vars
  BY <1>3 DEF vars, LB!lbvars, Held
<1>4. QED
  BY <1>1, <1>2, <1>3 DEF Next

(***************************************************************************)
(* The line receiver implements the line buffer of LineBuffer with room   *)
(* for sizeof(ibuf) + 1 bytes, for every CAP and chunk length, provided   *)
(* the chunks carry no NUL byte (strlcpy stops at one) and the            *)
(* overlapping memcpy of line 589 copies forward.  The runs of            *)
(* MCLineReceiverNul and MCLineReceiverBackward show the refinement fails *)
(* without either hypothesis.                                             *)
(***************************************************************************)
THEOREM LineRefinement ==
  ASSUME NUL \notin ChunkBytes, MemcpyOutcomes = {"forward"}
  PROVE  Spec => LineSpec
<1>1. Init => LB!LBInit
  BY DEF Init, LB!LBInit, Held
<1>2. TypeOK /\ [Next]_vars => [LB!LBNext]_LB!lbvars
  BY RefineStep
<1>3. QED
  BY <1>1, <1>2, LineTypeCorrect, PTL DEF Spec, LineSpec, LB!LBSpec
=============================================================================
