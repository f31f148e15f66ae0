---------------------------- MODULE FrameScanner ----------------------------
(***************************************************************************)
(* javad_recv of the Javad driver (src/ntpd/refclock_javad.c, under       *)
(* #ifdef notdef): the framing of the receiver's binary messages in the   *)
(* input buffer.  It returns the size of the complete, checksum-valid     *)
(* message at the front of the buffer, or 0; on the way it re-aligns the  *)
(* buffer on the sync word, moving the bytes from it on to the front with *)
(* memcpy, and empties the buffer on a bad checksum.                       *)
(*                                                                         *)
(* The code reads the buffer as instance->sbuf, a field struct instance   *)
(* does not have (it has ibuf and its size ssize); sbuf is the sequence   *)
(* of the buffered bytes, Len(sbuf) being ssize.  JAVAD_SYNC and struct   *)
(* jheader are defined nowhere in the repository: the sync word is the    *)
(* constant Sync, and the header is the six words of the spec (sync, id,  *)
(* len, sequence, flags, header checksum), 12 bytes.  The host is         *)
(* little-endian on the wire: a word is its low byte, then its high byte; *)
(* getshort gives that value on either host, and the raw u_short read on *)
(* a big-endian host has the bytes the other way round.                   *)
(*                                                                         *)
(* The receiver's output is the environment: a stream of pieces, each a   *)
(* valid message or not, delivered in chunks.  As the spec requires of    *)
(* the caller, a message javad_recv reports is then removed from the      *)
(* front of the buffer (there is no such caller in the code).             *)
(***************************************************************************)
EXTENDS Integers, Sequences, SequencesExt

CONSTANTS
  Sync,            \* JAVAD_SYNC
  Streams,         \* the streams of pieces the receiver may send
  MaxChunk,        \* longest chunk read from the line
  MemcpyOutcomes,  \* directions the overlapping memcpy may copy in
  BigEndian        \* whether the host is big-endian (WORDS_BIGENDIAN)

ASSUME ScannerAssumption ==
  /\ Sync \in 0 .. 65535
  /\ MaxChunk \in Nat \ {0}
  /\ MemcpyOutcomes \subseteq {"forward", "backward"} /\ MemcpyOutcomes # {}
  /\ BigEndian \in BOOLEAN

(* cc, the size of the header: six words. *)
HeaderBytes == 12

(* javad_cksum. *)
CK == INSTANCE Checksum WITH Words <- 0 .. 65535, MaxWords <- 0, ws <- <<>>
JavadCksum(ws) == CK!JavadCksum(ws)

SyncLo == Sync % 256
SyncHi == Sync \div 256

(* The i-th u_short of the bytes b, counted from 0. *)
Word(b, i) == b[2 * i + 1] + 256 * b[2 * i + 2]

(* The i-th u_short of b as the host reads it, without getshort. *)
RawWord(b, i) ==
  IF BigEndian THEN 256 * b[2 * i + 1] + b[2 * i + 2] ELSE Word(b, i)

(* The n words of b from the i-th on. *)
WordsAt(b, i, n) == [j \in 1 .. n |-> Word(b, i + j - 1)]

(* The bytes of a stream and the valid messages in it. *)
StreamBytes(s) == FlattenSeq([i \in 1 .. Len(s) |-> s[i].bytes])
Messages(s) ==
  LET valid == SelectSeq(s, LAMBDA p : p.frame)
  IN  [i \in 1 .. Len(valid) |-> valid[i].bytes]

VARIABLES
  wire,    \* the bytes the receiver has yet to send
  sbuf,    \* the buffered bytes (instance->sbuf, ssize of them)
  result,  \* what the last javad_recv returned
  out,     \* the messages taken from the buffer
  sent     \* the valid messages of the stream (history)

vars == <<wire, sbuf, result, out, sent>>

Init ==
  \E s \in Streams :
    /\ wire = StreamBytes(s)
    /\ sent = Messages(s)
    /\ sbuf = <<>>
    /\ result = 0
    /\ out = <<>>

(* A chunk of the receiver's bytes is appended to the buffer. *)
Arrive ==
  \E k \in 1 .. MaxChunk :
    /\ k <= Len(wire)
    /\ sbuf' = sbuf \o SubSeq(wire, 1, k)
    /\ wire' = SubSeq(wire, k + 1, Len(wire))
    /\ UNCHANGED <<result, out, sent>>

(***************************************************************************)
(* The sync search of lines 940-960: the number of bytes skipped.  A byte *)
(* that is not the low sync byte is skipped alone; a low sync byte not    *)
(* followed by the high one is skipped together with that byte.  The      *)
(* search stops with fewer than two bytes left.                            *)
(***************************************************************************)
SyncSkip(b) ==
  LET skip[i \in 0 .. Len(b)] ==
        IF Len(b) - i < 2 THEN i
        ELSE IF b[i + 1] # SyncLo THEN skip[i + 1]
        ELSE IF b[i + 2] = SyncHi THEN i
        ELSE skip[i + 2]
  IN  skip[0]

(***************************************************************************)
(* The bytes left by memcpy(sp, bp, n), bp = sp + d, n = Len(b) - d.  The *)
(* regions overlap when d < n: copied forward every byte is read before  *)
(* it is overwritten; copied backward, a byte read from an index already *)
(* written is read as written.                                             *)
(***************************************************************************)
Shuffle(how, b, d) ==
  LET n == Len(b) - d
      bwd[j \in 0 .. n - 1] ==
        IF d + j <= n - 1 THEN bwd[d + j] ELSE b[d + j + 1]
  IN  IF how = "forward" THEN SubSeq(b, d + 1, Len(b))
                         ELSE [j \in 1 .. n |-> bwd[j - 1]]

(* Mutant: the payload checksum is not compared. *)
CheckedNoPayloadCksum(b) ==
  LET len == Word(b, 2)
      n == (len + 1) * 2
  IN  IF JavadCksum(WordsAt(b, 0, 5)) # Word(b, 5)
        THEN [buf |-> <<>>, res |-> 0]
      ELSE IF len = 0 THEN [buf |-> b, res |-> HeaderBytes]
      ELSE IF Len(b) < HeaderBytes + n THEN [buf |-> b, res |-> 0]
      ELSE [buf |-> b, res |-> HeaderBytes + n]

(***************************************************************************)
(* Lines 973-1000, for a buffer b that starts with the sync word and      *)
(* holds a header: the header checksum, then, for a payload of len > 0    *)
(* words, its presence and its checksum (the word after it).  A bad       *)
(* checksum empties the buffer.                                            *)
(***************************************************************************)
Checked(b) ==
  LET len == Word(b, 2)
      n == (len + 1) * 2
  IN  IF JavadCksum(WordsAt(b, 0, 5)) # Word(b, 5)
        THEN [buf |-> <<>>, res |-> 0]
      ELSE IF len = 0 THEN [buf |-> b, res |-> HeaderBytes]
      ELSE IF Len(b) < HeaderBytes + n THEN [buf |-> b, res |-> 0]
      ELSE IF JavadCksum(WordsAt(b, 6, len)) # Word(b, 6 + len)
        THEN [buf |-> <<>>, res |-> 0]
      ELSE [buf |-> b, res |-> HeaderBytes + n]

(***************************************************************************)
(* javad_recv, called when no message is pending (a call with fewer than  *)
(* a header's bytes buffered returns 0 and changes nothing).  With the    *)
(* sync word at the front the buffer is checked; otherwise it is          *)
(* re-aligned first, and checked only if a whole header is left whose     *)
(* first word, read raw (line 969 has no getshort), is the sync word.     *)
(***************************************************************************)
RecvSynced ==
  /\ result = 0
  /\ Len(sbuf) >= HeaderBytes
  /\ Word(sbuf, 0) = Sync
  /\ sbuf' = Checked(sbuf).buf
  /\ result' = Checked(sbuf).res
  /\ UNCHANGED <<wire, out, sent>>

(* Mutant: a raw sync mismatch after the shuffle empties the buffer. *)
RecvResyncFlush ==
  /\ result = 0
  /\ Len(sbuf) >= HeaderBytes
  /\ Word(sbuf, 0) # Sync
  /\ \E how \in MemcpyOutcomes :
       LET b == Shuffle(how, sbuf, SyncSkip(sbuf))
       IN  IF Len(b) < HeaderBytes THEN sbuf' = b /\ result' = 0
           ELSE IF RawWord(b, 0) # Sync THEN sbuf' = <<>> /\ result' = 0
           ELSE sbuf' = Checked(b).buf /\ result' = Checked(b).res
  /\ UNCHANGED <<wire, out, sent>>

RecvResync ==
  /\ result = 0
  /\ Len(sbuf) >= HeaderBytes
  /\ Word(sbuf, 0) # Sync
  /\ \E how \in MemcpyOutcomes :
       LET b == Shuffle(how, sbuf, SyncSkip(sbuf))
       IN  IF Len(b) < HeaderBytes \/ RawWord(b, 0) # Sync
             THEN sbuf' = b /\ result' = 0
             ELSE sbuf' = Checked(b).buf /\ result' = Checked(b).res
  /\ UNCHANGED <<wire, out, sent>>

(* The caller takes the message javad_recv reported off the buffer. *)
Consume ==
  /\ result > 0
  /\ out' = Append(out, SubSeq(sbuf, 1, result))
  /\ sbuf' = SubSeq(sbuf, result + 1, Len(sbuf))
  /\ result' = 0
  /\ UNCHANGED <<wire, sent>>

Next == Arrive \/ RecvSynced \/ RecvResync \/ Consume

FrameSpec == Init /\ [][Next]_vars

-----------------------------------------------------------------------------
(***************************************************************************)
(* Every message javad_recv hands out is one the receiver sent intact, in *)
(* the order sent and none twice, whatever the stream interleaves         *)
(* (garbage, corrupted messages, stray sync bytes), however it is         *)
(* chunked, and whichever way the overlapping memcpy copies.              *)
(***************************************************************************)
AcceptsOnlySent ==
  \E f \in [1 .. Len(out) -> 1 .. Len(sent)] :
    /\ \A i \in 1 .. Len(out) : out[i] = sent[f[i]]
    /\ \A i \in 1 .. Len(out) - 1 : f[i] < f[i + 1]

(***************************************************************************)
(* Once the stream is read and the buffer holds less than a header, every *)
(* valid message has been handed out: garbage between messages is         *)
(* skipped byte by byte until the sync word (spec section 4.2).           *)
(***************************************************************************)
FramesDelivered ==
  (wire = <<>> /\ result = 0 /\ Len(sbuf) < HeaderBytes) => out = sent
=============================================================================
