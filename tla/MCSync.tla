------------------------------- MODULE MCSync -------------------------------
(* Two paths, a text and a binary file. *)
EXTENDS Sync
CONSTANTS p, q
=============================================================================
