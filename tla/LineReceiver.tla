---------------------------- MODULE LineReceiver ----------------------------
(***************************************************************************)
(* javad_receive of the Javad driver (src/ntpd/refclock_javad.c): the     *)
(* byte chunks read from the serial line are appended to the input        *)
(* buffer ibuf of struct instance with strlcpy, the buffer is scanned for *)
(* CR LF, and a complete line is printed and removed, the rest shifted to *)
(* the front with memcpy.  javad_config resets ssize.                     *)
(*                                                                         *)
(* ibuf is the byte array of CAP (sizeof(instance->ibuf)) bytes, indexed  *)
(* from 0, followed by the two bytes the code can write past its end:     *)
(* the clamp of lines 543-544 lets strlcpy write up to ibuf[CAP + 1].     *)
(* What those writes do to the fields that follow ibuf in the struct is   *)
(* not modelled; memory read past them holds OutsideByte.  The printing   *)
(* of the line is modelled by emitted, the line printed by the last call. *)
(***************************************************************************)
EXTENDS Integers, Sequences

CONSTANTS
  ChunkBytes,      \* the bytes a chunk read from the line may carry
  CR, LF, NUL,     \* '\r', '\n', '\0'
  OutsideByte,     \* the byte memory past ibuf[CAP + 1] is read as
  CAP,             \* sizeof(instance->ibuf), 512 in the code
  MaxChunk,        \* longest chunk (rbufp->recv_length), for model checking
  MemcpyOutcomes   \* directions the overlapping memcpy may copy in

ASSUME CapAssumption == CAP \in Nat /\ CAP >= 2
ASSUME ChunkAssumption == MaxChunk \in Nat
ASSUME MemcpyAssumption ==
  MemcpyOutcomes \subseteq {"forward", "backward"} /\ MemcpyOutcomes # {}

Bytes == ChunkBytes \cup {CR, LF, NUL, OutsideByte}

(* The indices of ibuf the code can reach, the two past its end included. *)
Mem == 0 .. CAP + 1

VARIABLES
  ibuf,     \* instance->ibuf, with the two bytes past it
  ssize,    \* instance->ssize
  emitted,  \* the line javad_receive printed last (<<>>: none)
  chunk     \* the bytes of rbufp->recv_buffer it was called with last

vars == <<ibuf, ssize, emitted, chunk>>

Chunks == UNION {[1 .. n -> ChunkBytes] : n \in 0 .. MaxChunk}

(* emalloc_zero in javad_start: the instance is zeroed. *)
Init ==
  /\ ibuf = [i \in Mem |-> NUL]
  /\ ssize = 0
  /\ emitted = <<>>
  /\ chunk = <<>>

(* javad_config: ssize is reset; the bytes of ibuf are left as they are. *)
Reset ==
  /\ ssize' = 0
  /\ UNCHANGED <<ibuf, emitted, chunk>>

(* Mutant: the clamp lets one more byte in. *)
ClampOffByOne(n) ==
  IF n > CAP - (ssize - 1) + 1 THEN CAP - (ssize - 1) + 1 ELSE n

(* "This shouldn't happen": the chunk length is clamped to the room the  *)
(* code computes, sizeof(ibuf) - (ssize - 1).                            *)
Clamp(n) ==
  IF n > CAP - (ssize - 1) THEN CAP - (ssize - 1) ELSE n

(* How many bytes strlcpy(dst, c, n + 1) copies: up to n, stopping at a   *)
(* NUL of c.                                                              *)
Copied(c, n) ==
  CHOOSE k \in 0 .. n : /\ \A i \in 1 .. k : c[i] # NUL
                        /\ k = n \/ c[k + 1] = NUL

(* ibuf after strlcpy(ibuf + at, c, n + 1): the copied bytes and a NUL. *)
Strlcpy(at, c, n) ==
  LET k == Copied(c, n)
  IN  [i \in Mem |-> IF i \in at .. at + k - 1 THEN c[i - at + 1]
                     ELSE IF i = at + k THEN NUL
                     ELSE ibuf[i]]

(* The scan of lines 551-558 over the first size bytes of buf: the        *)
(* lengths of the prefixes ending in CR LF (eol - ibuf).                  *)
LineEnds(buf, size) ==
  {i \in 2 .. size : buf[i - 2] = CR /\ buf[i - 1] = LF}

(* The byte at index i of the memory starting at ibuf. *)
Read(buf, i) == IF i \in Mem THEN buf[i] ELSE OutsideByte

(* Mutant: the leftovers are copied from one byte too early. *)
ShiftFromLf(how, buf, len, size) ==
  [j \in Mem |-> IF j <= size THEN Read(buf, len - 1 + j) ELSE buf[j]]

(* memcpy(ibuf, ibuf + len, size + 1), len > 0.  The regions overlap, so  *)
(* the result depends on the order the bytes are copied in: copied        *)
(* forward every byte is read before it is overwritten.  Copied backward, *)
(* byte j is read from j + len, which holds what was copied there from    *)
(* j + 2 len if that is at most size, and so on: byte j ends up with the  *)
(* original byte len + t, t the last of j, j + len, j + 2 len, ... that   *)
(* is at most size.                                                        *)
Shift(how, buf, len, size) ==
  LET from(j) == IF how = "forward" THEN len + j
                 ELSE len + j + ((size - j) \div len) * len
  IN  [j \in Mem |-> IF j <= size THEN Read(buf, from(j)) ELSE buf[j]]

(***************************************************************************)
(* javad_receive, with rbufp->recv_buffer holding the chunk c.  The       *)
(* three actions are its three outcomes: no complete line, a line that is *)
(* all the buffer holds, and a line followed by leftovers.  (The abort of *)
(* line 595 cannot happen: the scan only finds lines within ssize.)       *)
(***************************************************************************)
AppendChunk(c) == Strlcpy(ssize, c, Clamp(Len(c)))

Appended(c) == ssize + Clamp(Len(c))

FirstLine(c) ==
  CHOOSE i \in LineEnds(AppendChunk(c), Appended(c)) :
    \A j \in LineEnds(AppendChunk(c), Appended(c)) : i <= j

ReceivePartial(c) ==
  /\ LineEnds(AppendChunk(c), Appended(c)) = {}
  /\ ibuf' = AppendChunk(c)
  /\ ssize' = Appended(c)
  /\ emitted' = <<>>

ReceiveLine(c) ==
  /\ LineEnds(AppendChunk(c), Appended(c)) # {}
  /\ Appended(c) = FirstLine(c)
  /\ emitted' = [i \in 1 .. FirstLine(c) |-> AppendChunk(c)[i - 1]]
  /\ ibuf' = [AppendChunk(c) EXCEPT ![0] = NUL]
  /\ ssize' = 0

ReceiveShift(c) ==
  /\ LineEnds(AppendChunk(c), Appended(c)) # {}
  /\ Appended(c) > FirstLine(c)
  /\ emitted' = [i \in 1 .. FirstLine(c) |-> AppendChunk(c)[i - 1]]
  /\ \E how \in MemcpyOutcomes :
       ibuf' = Shift(how, AppendChunk(c), FirstLine(c), Appended(c))
  /\ ssize' = Appended(c) - FirstLine(c)

Receive(c) ==
  /\ chunk' = c
  /\ ReceivePartial(c) \/ ReceiveLine(c) \/ ReceiveShift(c)

Next == (\E c \in Chunks : Receive(c)) \/ Reset

Spec == Init /\ [][Next]_vars

-----------------------------------------------------------------------------
(* Type invariant. *)
TypeOK ==
  /\ ibuf \in [Mem -> Bytes]
  /\ ssize \in 0 .. CAP + 1
  /\ emitted \in Seq(Bytes)
  /\ chunk \in Chunks

(* The bytes the buffer holds, as the code counts them. *)
Held == [i \in 1 .. ssize |-> ibuf[i - 1]]

(***************************************************************************)
(* javad_receive implements the line buffer of LineBuffer with room for   *)
(* CAP + 1 bytes: the bytes it holds are those it accepted of the chunks  *)
(* read, in order, less the lines printed, and each line it prints is the *)
(* first CR LF terminated line of them.  This is about the clamp, the     *)
(* strlcpy count added to ssize, the scan and the memcpy shift together.  *)
(***************************************************************************)
LB == INSTANCE LineBuffer WITH pending <- Held, Room <- CAP + 1

LineSpec == LB!LBSpec

(***************************************************************************)
(* The bytes held and the NUL strlcpy writes after them stay inside ibuf  *)
(* (the clamp of lines 543-544 is meant to ensure it).                     *)
(***************************************************************************)
BufferBounds == ssize + 1 <= CAP

(***************************************************************************)
(* After a chunk is read the buffer holds no complete line: every line    *)
(* the chunks carry is printed as soon as its CR LF is read.              *)
(***************************************************************************)
NoLineLeft == LineEnds(ibuf, ssize) = {}

=============================================================================
