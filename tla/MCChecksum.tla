----------------------------- MODULE MCChecksum -----------------------------
(***************************************************************************)
(* javad_cksum for TLC: words at the edges of the u_short range and in    *)
(* its middle, in sequences of up to four words, so that the running sum  *)
(* wraps once and more than once, and sums of 0 modulo 2^16 occur.        *)
(***************************************************************************)
EXTENDS Checksum

MCWords == {0, 1, 2, 32767, 32768, 65534, 65535}
=============================================================================
