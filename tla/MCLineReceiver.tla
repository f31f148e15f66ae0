--------------------------- MODULE MCLineReceiver ---------------------------
(* LineReceiver on a buffer of 4 bytes and chunks of up to 3 bytes. *)
EXTENDS LineReceiver

CONSTANTS A, X   \* a printable byte; the byte read past the buffer

MCChunkBytes == {CR, LF, A}
MCChunkBytesNul == {CR, LF, A, NUL}
MCForward == {"forward"}
MCBackward == {"backward"}
=============================================================================
