------------------------------ MODULE MCSession ------------------------------
(* Session with the write outcomes each run allows. *)
EXTENDS Session

MCAllWrites == {"ok", "short", "error"}
MCShortWrites == {"ok", "short"}
MCFailedWrites == {"ok", "error"}
=============================================================================
