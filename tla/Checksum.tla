------------------------------ MODULE Checksum ------------------------------
(***************************************************************************)
(* javad_cksum of the Javad driver (src/ntpd/refclock_javad.c): the       *)
(* checksum of a binary message, over its 16-bit words.                    *)
(*                                                                         *)
(* The words are given as the u_short values getshort makes of them on a  *)
(* little-endian host, where getshort is the identity.  The loop adds     *)
(* them into a u_short, so the sum wraps at 2^16 after every word; then   *)
(* ~sum + 1 is computed in int, sum being promoted, and converted back to *)
(* u_short by the return.                                                  *)
(*                                                                         *)
(* The small state machine at the end enumerates the word sequences of a  *)
(* bounded length, for checking the loop against the definition of the   *)
(* spec.                                                                   *)
(***************************************************************************)
EXTENDS Integers, Sequences, SequencesExt

CONSTANTS
  Words,     \* u_short values the words are taken from
  MaxWords   \* longest sequence of words checked

ASSUME WordsAssumption == Words \subseteq 0 .. 65535 /\ MaxWords \in Nat

UShort == 65536

(* ~x for an int x, in two's complement. *)
BitNot(x) == -x - 1

(* Mutant: ~sum is returned without the + 1. *)
JavadCksumNoIncrement(ws) ==
  LET sum[i \in 0 .. Len(ws)] ==
        IF i = 0 THEN 0 ELSE (sum[i - 1] + ws[i]) % UShort
  IN  BitNot(sum[Len(ws)]) % UShort

(* javad_cksum(sp, Len(ws)), sp pointing at the words ws. *)
JavadCksum(ws) ==
  LET sum[i \in 0 .. Len(ws)] ==
        IF i = 0 THEN 0 ELSE (sum[i - 1] + ws[i]) % UShort
  IN  (BitNot(sum[Len(ws)]) + 1) % UShort

(* The checksum the spec defines: the two's-complement negation of the    *)
(* sum of the words modulo 2^16.                                           *)
CksumSpec(ws) ==
  (UShort - (FoldSeq(LAMBDA w, s : w + s, 0, ws) % UShort)) % UShort

VARIABLE ws

Init == ws = <<>>

Next == Len(ws) < MaxWords /\ \E w \in Words : ws' = Append(ws, w)

Spec == Init /\ [][Next]_ws

-----------------------------------------------------------------------------
(***************************************************************************)
(* javad_cksum computes the checksum the spec defines, for every word     *)
(* sequence: the u_short wrap of the running sum, the int promotion of    *)
(* ~sum and the conversion of the result back to u_short together give   *)
(* the negated sum modulo 2^16, including a sum of 0.                     *)
(***************************************************************************)
CksumMatchesSpec == JavadCksum(ws) = CksumSpec(ws)
=============================================================================
