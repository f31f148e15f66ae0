----------------------------- MODULE LineBuffer -----------------------------
(***************************************************************************)
(* What the line receiver of the Javad driver promises: a buffer of at    *)
(* most Room bytes that accumulates the bytes of the receiver's chunks,   *)
(* dropping the part of a chunk that does not fit, and hands out (here:   *)
(* prints) the first line ending in CR LF, at most one per chunk.         *)
(*                                                                         *)
(* pending is the sequence of bytes accepted and not yet handed out;      *)
(* emitted is the line handed out by the last chunk (<<>>: none), and    *)
(* chunk is that chunk.                                                    *)
(***************************************************************************)
EXTENDS Integers, Sequences

CONSTANTS
  ChunkBytes,  \* the bytes a chunk may carry
  CR, LF,      \* the line terminator
  Room,        \* how many bytes the buffer keeps
  MaxChunk     \* longest chunk, for model checking

VARIABLES pending, emitted, chunk

lbvars == <<pending, emitted, chunk>>

Chunks == UNION {[1 .. n -> ChunkBytes] : n \in 0 .. MaxChunk}

(* The lengths of the prefixes of s that end in CR LF. *)
LineEnds(s) == {i \in 2 .. Len(s) : s[i - 1] = CR /\ s[i] = LF}

(* The part of chunk c the buffer accepts. *)
Accepted(c) ==
  SubSeq(c, 1, IF Len(c) <= Room - Len(pending) THEN Len(c)
                                                ELSE Room - Len(pending))

LBInit ==
  /\ pending = <<>>
  /\ emitted = <<>>
  /\ chunk = <<>>

(* A chunk is appended; the first complete line, if any, is handed out. *)
LBReceive(c) ==
  LET acc == pending \o Accepted(c)
  IN  /\ chunk' = c
      /\ IF LineEnds(acc) = {}
           THEN /\ pending' = acc
                /\ emitted' = <<>>
           ELSE LET e == CHOOSE i \in LineEnds(acc) :
                           \A j \in LineEnds(acc) : i <= j
                IN  /\ emitted' = SubSeq(acc, 1, e)
                    /\ pending' = SubSeq(acc, e + 1, Len(acc))

(* The buffer is emptied when the receiver is reconfigured. *)
LBReset ==
  /\ pending' = <<>>
  /\ UNCHANGED <<emitted, chunk>>

LBNext == (\E c \in Chunks : LBReceive(c)) \/ LBReset

LBSpec == LBInit /\ [][LBNext]_lbvars
=============================================================================
