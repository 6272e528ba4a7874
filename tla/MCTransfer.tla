----------------------------- MODULE MCTransfer -----------------------------
(* Transfer for TLC. *)
EXTENDS Transfer

\* 0x31, 0xFF, 0, 0x80
MCData == <<{0, 4, 5}, 0 .. 7, {}, {7}>>
=============================================================================
