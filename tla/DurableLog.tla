----------------------------- MODULE DurableLog -----------------------------
(***************************************************************************)
(* What the document log promises its editors, with no server, no row, no  *)
(* buffer and no failure in sight: changes are submitted, become durable   *)
(* and are announced as saved; nothing durable is ever lost and nothing is *)
(* announced before it is durable.                                         *)
(***************************************************************************)
CONSTANT Changes

VARIABLES
    submitted,  \* every change an editor or a command has authored
    durable,    \* the changes whose bytes storage holds
    announced   \* the changes some editor has been told are saved

vars == <<submitted, durable, announced>>

Init ==
    /\ submitted = {}
    /\ durable = {}
    /\ announced = {}

\* One atomic event may author changes, store changes and report changes
\* (a semantic command does all three); each set only grows, and the three
\* stay nested.
Step ==
    /\ submitted' \in SUBSET Changes
    /\ submitted \subseteq submitted'
    /\ durable' \in SUBSET submitted'
    /\ durable \subseteq durable'
    /\ announced' \in SUBSET durable'
    /\ announced \subseteq announced'

Spec == Init /\ [][Step]_vars

=============================================================================
