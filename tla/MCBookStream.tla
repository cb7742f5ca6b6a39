----------------------------- MODULE MCBookStream -----------------------------
(* Small instances of BookStream for TLC. *)
EXTENDS BookStream, TLC

CONSTANTS yes
=============================================================================
