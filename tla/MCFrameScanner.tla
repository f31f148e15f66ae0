-------------------------- MODULE MCFrameScanner --------------------------
(***************************************************************************)
(* FrameScanner on short streams: messages with no payload and with one   *)
(* payload word, a message with a bad header checksum, one with a bad     *)
(* payload checksum, garbage bytes, and a stray low sync byte.  The sync  *)
(* word is 0x81FF (low byte 0xFF, high byte 0x81).                         *)
(***************************************************************************)
EXTENDS FrameScanner

MCSync == 33279

(* The little-endian bytes of words. *)
Bytes(ws) == FlattenSeq([i \in 1 .. Len(ws) |-> <<ws[i] % 256, ws[i] \div 256>>])

Header(id, len) ==
  LET h == <<MCSync, id, len, 0, 0>> IN Append(h, JavadCksum(h))

(* A message laid out as javad_recv reads it: len payload words, then     *)
(* their checksum.                                                         *)
CodeMessage(id, pl) ==
  Bytes(Header(id, Len(pl)) \o (IF pl = <<>> THEN <<>> ELSE Append(pl, JavadCksum(pl))))

(* A message laid out as spec section 6 describes it: payload_length + 1  *)
(* payload words, then their checksum.                                     *)
SpecMessage(id, pl) ==
  Bytes(Header(id, Len(pl) - 1) \o Append(pl, JavadCksum(pl)))

Valid(bs) == [bytes |-> bs, frame |-> TRUE]
Junk(bs) == [bytes |-> bs, frame |-> FALSE]

BadHeader == Junk(Bytes(<<MCSync, 2, 0, 0, 0, 7>>))
BadPayload ==
  Junk(Bytes(Header(3, 1) \o <<5, 9>>))

MCStreams ==
  { << Junk(<<7>>), Valid(CodeMessage(1, <<>>)), Junk(<<7, 7>>),
       Valid(CodeMessage(4, <<5>>)) >>,
    << BadHeader, Valid(CodeMessage(1, <<>>)) >>,
    << BadPayload, Valid(CodeMessage(4, <<5>>)) >>,
    << Junk(<<255>>), Valid(CodeMessage(1, <<>>)) >> }

(* Garbage with no sync word, then a message: for the sync search. *)
MCStrayLow == { << Junk(<<255>>), Valid(CodeMessage(1, <<>>)) >> }
MCGarbage == { << Junk(<<7>>), Valid(CodeMessage(1, <<>>)) >> }
(* Garbage before messages with and without payload, for the host order. *)
MCResync == { << Junk(<<7>>), Valid(CodeMessage(1, <<>>)), Junk(<<7, 7, 7>>),
                 Valid(CodeMessage(4, <<5>>)) >> }
(* One message laid out per the spec. *)
MCSpecLayout == { << Valid(SpecMessage(4, <<5, 6>>)) >> }

MCForward == {"forward"}
MCBackward == {"backward"}
MCEither == {"forward", "backward"}
=============================================================================
