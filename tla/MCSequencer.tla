---------------------------- MODULE MCSequencer ----------------------------
(* Small instances of the document log for TLC: the servers, browsers and  *)
(* commands the configurations choose from.                                *)
EXTENDS Sequencer, TLC

CONSTANTS c1, c2, r1, s1, s2

\* A bound: every browser makes one edit, or one makes two and no other is there.
FewEdits ==
    \A c \in Clients : <<c, 2>> \in doc[c] =>
        \A d \in Clients \ {c} : doc[d] = {} /\ ~Connected(d)

\* Nothing tells one browser from another.
Browsers == Permutations(Clients)
=============================================================================
