---------------------------- MODULE MCResidency ----------------------------
(* A small process: a few sockets on one document. *)
EXTENDS Residency

CONSTANTS t1, t2, t3, q1, q2, q3, x1, x2, x3
=============================================================================
