---------------------------- MODULE MCAssistant ----------------------------
(* The limits of the task list for TLC. *)
EXTENDS Assistant

\* Room for one record, so that a second task evicts the first; or for two, of
\* which reconcile shows the newer one again.
MCLimits == {[full |-> 1, unfinished |-> 1, window |-> 1],
             [full |-> 2, unfinished |-> 2, window |-> 1]}
=============================================================================
