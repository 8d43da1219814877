--------------------------- MODULE VersionVectors ---------------------------
(***************************************************************************)
(* The coverage arithmetic the document log is built on.                   *)
(*                                                                         *)
(* A change is a pair <<peer, counter>>: the counter-th operation of one   *)
(* CRDT peer.  A Loro version vector gives each peer a counter; it is      *)
(* represented here by the set of changes it covers, so the merge of two   *)
(* vectors is their union and "a covers b" is set inclusion.  An update    *)
(* batch is the set of changes whose bytes it carries.                     *)
(***************************************************************************)
EXTENDS Integers

CONSTANTS
    Peers,      \* everything that authors changes: browsers and commands
    MaxOps      \* bound: how many changes one peer may author

ASSUME MaxOpsAssumption == MaxOps \in Nat \ {0}

Ops == Peers \X (1..MaxOps)

\* `partial_end_vv` of a batch: its last counter per peer, hence that change
\* and every earlier one of the same peer, carried by the batch or not.
End(batch) == {op \in Ops : \E last \in batch : last[1] = op[1] /\ op[2] <= last[2]}

\* `partial_start_vv`: what must already be held for the batch to apply.
Start(batch) == End(batch) \ batch

\* sequencer::covers, in the direction the gap check and the join use it.
Covers(vector, other) == other \subseteq vector

\* `oplog_vv()` of a document that imported these changes: a change whose
\* predecessor is missing stays pending and is not counted.
Visible(changes) == {op \in changes : \A n \in 1..op[2] : <<op[1], n>> \in changes}

=============================================================================
