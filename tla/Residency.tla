----------------------------- MODULE Residency -----------------------------
(***************************************************************************)
(* How one process finds the sequencer of one document: the Registry's     *)
(* resident map and admission slots, the Rooms map above it, and the       *)
(* sweeper that drops what is fenced or idle.                              *)
(*                                                                         *)
(* A task is a socket (or an HTTP request): it asks Rooms::get, which asks *)
(* Registry::get, holds the room while it is served, and leaves.  Each     *)
(* step below ends where the code awaits a lock or the database.           *)
(* References are counted as Arc does: a sequencer is held by the resident *)
(* map, by a filled slot, by a room and by a task that is opening one.     *)
(***************************************************************************)
EXTENDS Integers, FiniteSets

CONSTANTS
    Tasks,
    Sequencers, Slots,  \* identities, reused once nothing refers to them
    MaxFailures,        \* bound: failed admissions
    None

ASSUME ResidencyAssumption ==
    /\ MaxFailures \in Nat
    /\ None \notin Sequencers \cup Slots \cup Tasks

VARIABLES
    resident,   \* Registry.resident: the document's sequencer, or None
    admitting,  \* Registry.admitting: the document's slot, or None
    filled,     \* what each slot's mutex guards
    owner,      \* who holds each slot's mutex
    open,       \* Rooms.open: the log of the document's room, or None
    fenced,     \* the sequencers marked fenced
    dropped,    \* history: the sequencers retire_fenced has removed
    pc, slot, got,  \* per task
    sweep,      \* where the sweeper is, and what its scan found
    failures

vars == <<resident, admitting, filled, owner, open, fenced, dropped,
          pc, slot, got, sweep, failures>>
registry == <<resident, admitting, filled, owner>>
rest == <<fenced, dropped, failures>>

Steps == {"idle", "resident", "slot", "lock", "current", "recheck", "admit",
          "insert", "fill", "release", "room", "in"}

TypeOK ==
    /\ resident \in Sequencers \cup {None}
    /\ admitting \in Slots \cup {None}
    /\ filled \in [Slots -> Sequencers \cup {None}]
    /\ owner \in [Slots -> Tasks \cup {None}]
    /\ open \in Sequencers \cup {None}
    /\ fenced \subseteq Sequencers /\ dropped \subseteq Sequencers
    /\ pc \in [Tasks -> Steps]
    /\ slot \in [Tasks -> Slots \cup {None}]
    /\ got \in [Tasks -> Sequencers \cup {None}]
    /\ sweep \in [at : {"rest", "fenced", "remove", "idle", "retire", "rooms"}, found : BOOLEAN]
    /\ failures \in 0..MaxFailures
    /\ \A x \in Slots : owner[x] # None => slot[owner[x]] = x

-----------------------------------------------------------------------------
(* Reference counts *)

SlotAlive(x) == admitting = x \/ \E t \in Tasks : slot[t] = x

\* A room is closed only once no task is in it, so a task in a room is in the
\* open one.
InRoom == {t \in Tasks : pc[t] = "in"}

\* Whether anything but the resident map holds the sequencer.
HeldElsewhere(q) ==
    \/ \E t \in Tasks : got[t] = q
    \/ \E x \in Slots : SlotAlive(x) /\ filled[x] = q
    \/ open = q

Alive(q) == resident = q \/ HeldElsewhere(q)

\* A task in a room whose sequencer is live is one of its subscribers.
Subscribed(q) == open = q /\ InRoom # {} /\ q \notin fenced

\* The identity a new slot or a new sequencer gets.  An allocation never waits:
\* the pools are bounds, and large enough in the runs that one is always free.
SlotFree == \E x \in Slots : ~SlotAlive(x)
SequencerFree == \E q \in Sequencers : ~Alive(q)
FreshSlot == CHOOSE x \in Slots : ~SlotAlive(x)
FreshSequencer == CHOOSE q \in Sequencers : ~Alive(q)

-----------------------------------------------------------------------------
Init ==
    /\ resident = None /\ admitting = None
    /\ filled = [x \in Slots |-> None] /\ owner = [x \in Slots |-> None]
    /\ open = None
    /\ fenced = {} /\ dropped = {}
    /\ pc = [t \in Tasks |-> "idle"]
    /\ slot = [t \in Tasks |-> None]
    /\ got = [t \in Tasks |-> None]
    /\ sweep = [at |-> "rest", found |-> FALSE]
    /\ failures = 0

Goto(t, step) == pc' = [pc EXCEPT ![t] = step]

(* Rooms::get, first half: the open room, whatever state its sequencer is in. *)
Ask(t) ==
    /\ pc[t] = "idle"
    /\ Goto(t, IF open # None THEN "in" ELSE "resident")
    /\ UNCHANGED <<registry, open, rest, slot, got, sweep>>

(* Registry::get *)

FindResident(t) ==
    /\ pc[t] = "resident"
    /\ IF resident # None
       THEN got' = [got EXCEPT ![t] = resident] /\ Goto(t, "room")
       ELSE UNCHANGED got /\ Goto(t, "slot")
    /\ UNCHANGED <<registry, open, rest, slot, sweep>>

\* The mapped slot, or a new empty one.
TakeSlot(t) ==
    /\ pc[t] = "slot"
    /\ IF admitting # None
       THEN slot' = [slot EXCEPT ![t] = admitting] /\ UNCHANGED <<admitting, filled>>
       ELSE LET x == FreshSlot IN
              /\ SlotFree
              /\ admitting' = x
              /\ filled' = [filled EXCEPT ![x] = None]
              /\ slot' = [slot EXCEPT ![t] = x]
    /\ Goto(t, "lock")
    /\ UNCHANGED <<resident, owner, open, rest, got, sweep>>

Unlock(t) ==
    /\ owner' = [owner EXCEPT ![slot[t]] = None]
    /\ slot' = [slot EXCEPT ![t] = None]

\* The slot's mutex: a filled slot answers at once.
LockSlot(t) ==
    /\ pc[t] = "lock"
    /\ owner[slot[t]] = None
    /\ IF filled[slot[t]] # None
       THEN /\ got' = [got EXCEPT ![t] = filled[slot[t]]]
            /\ slot' = [slot EXCEPT ![t] = None]
            /\ Goto(t, "room")
            /\ UNCHANGED owner
       ELSE /\ owner' = [owner EXCEPT ![slot[t]] = t]
            /\ Goto(t, "current")
            /\ UNCHANGED <<got, slot>>
    /\ UNCHANGED <<resident, admitting, filled, open, rest, sweep>>

\* Faulty: a caller that queued on a removed slot admits through it anyway.
FaultyCheckCurrent(t) ==
    /\ pc[t] = "current"
    /\ Goto(t, "recheck")
    /\ UNCHANGED <<registry, open, rest, slot, got, sweep>>

\* A slot that is no longer mapped is abandoned and the search starts over.
CheckCurrent(t) ==
    /\ pc[t] = "current"
    /\ IF admitting = slot[t]
       THEN Goto(t, "recheck") /\ UNCHANGED <<owner, slot>>
       ELSE Goto(t, "resident") /\ Unlock(t)
    /\ UNCHANGED <<resident, admitting, filled, open, rest, got, sweep>>

\* Somebody finished meanwhile: the slot is filled and returned from, and is
\* not released.
Recheck(t) ==
    /\ pc[t] = "recheck"
    /\ IF resident # None
       THEN /\ filled' = [filled EXCEPT ![slot[t]] = resident]
            /\ got' = [got EXCEPT ![t] = resident]
            /\ Unlock(t)
            /\ Goto(t, "room")
       ELSE /\ Goto(t, "admit")
            /\ UNCHANGED <<filled, owner, slot, got>>
    /\ UNCHANGED <<resident, admitting, open, rest, sweep>>

\* release_slot: only while the map still holds this slot.
Release(t) == admitting' = IF admitting = slot[t] THEN None ELSE admitting

\* Faulty: the error is returned with the slot's mutex still taken.
FaultyAdmitFails(t) ==
    /\ pc[t] = "admit"
    /\ failures < MaxFailures
    /\ failures' = failures + 1
    /\ slot' = [slot EXCEPT ![t] = None]
    /\ Goto(t, "idle")
    /\ UNCHANGED <<registry, open, fenced, dropped, got, sweep>>

\* Sequencer::admit fails: the slot is released and the error returned.
AdmitFails(t) ==
    /\ pc[t] = "admit"
    /\ failures < MaxFailures
    /\ failures' = failures + 1
    /\ Release(t) /\ Unlock(t)
    /\ Goto(t, "idle")
    /\ UNCHANGED <<resident, filled, open, fenced, dropped, got, sweep>>

\* Sequencer::admit succeeds.
Admit(t) ==
    /\ pc[t] = "admit"
    /\ SequencerFree
    /\ LET q == FreshSequencer IN
         /\ got' = [got EXCEPT ![t] = q]
         /\ fenced' = fenced \ {q} /\ dropped' = dropped \ {q}
    /\ Goto(t, "insert")
    /\ UNCHANGED <<registry, open, failures, slot, sweep>>

InsertResident(t) ==
    /\ pc[t] = "insert"
    /\ resident' = got[t]
    /\ Goto(t, "fill")
    /\ UNCHANGED <<admitting, filled, owner, open, rest, slot, got, sweep>>

FillSlot(t) ==
    /\ pc[t] = "fill"
    /\ filled' = [filled EXCEPT ![slot[t]] = got[t]]
    /\ Goto(t, "release")
    /\ UNCHANGED <<resident, admitting, owner, open, rest, slot, got, sweep>>

ReleaseSlot(t) ==
    /\ pc[t] = "release"
    /\ Release(t) /\ Unlock(t)
    /\ Goto(t, "room")
    /\ UNCHANGED <<resident, filled, open, rest, got, sweep>>

(* Rooms::get, second half: the first room to be inserted is the one used. *)
OpenRoom(t) ==
    /\ pc[t] = "room"
    /\ open' = IF open # None THEN open ELSE got[t]
    /\ got' = [got EXCEPT ![t] = None]
    /\ Goto(t, "in")
    /\ UNCHANGED <<registry, rest, slot, sweep>>

\* The socket ends: the user leaves, or a fenced sequencer refused or closed it.
Leave(t) ==
    /\ pc[t] = "in"
    /\ Goto(t, "idle")
    /\ UNCHANGED <<registry, open, rest, slot, got, sweep>>

\* An outcome the sequencer cannot reconcile fences it.
Fence(q) ==
    /\ Subscribed(q)
    /\ fenced' = fenced \cup {q}
    /\ UNCHANGED <<registry, open, dropped, failures, pc, slot, got, sweep>>

-----------------------------------------------------------------------------
(* The sweeper: once a second, and only while something is resident *)

Sweeper(from, to) == sweep.at = from /\ sweep' = [sweep EXCEPT !.at = to]

SweepStart ==
    /\ resident # None
    /\ Sweeper("rest", "fenced")
    /\ UNCHANGED <<registry, open, rest, pc, slot, got>>

\* retire_fenced: the scan, and the removal by document id.
SweepFenced ==
    /\ sweep.at = "fenced"
    /\ sweep' = [at |-> "remove", found |-> resident \in fenced]
    /\ UNCHANGED <<registry, open, rest, pc, slot, got>>

SweepRemove ==
    /\ Sweeper("remove", "idle")
    /\ IF sweep.found
       THEN /\ resident' = None
            /\ dropped' = dropped \cup ({resident} \ {None})
       ELSE UNCHANGED <<resident, dropped>>
    /\ UNCHANGED <<admitting, filled, owner, open, fenced, failures, pc, slot, got>>

\* retire_idle: the scan, and the removal if nothing else holds it by then.
SweepIdle ==
    /\ sweep.at = "idle"
    /\ sweep' = [at |-> "retire", found |-> resident # None /\ ~Subscribed(resident)]
    /\ UNCHANGED <<registry, open, rest, pc, slot, got>>

\* Faulty: no second look at the reference count.
FaultySweepRetire ==
    /\ Sweeper("retire", "rooms")
    /\ resident' = IF sweep.found THEN None ELSE resident
    /\ UNCHANGED <<admitting, filled, owner, open, rest, pc, slot, got>>

SweepRetire ==
    /\ Sweeper("retire", "rooms")
    /\ resident' = IF sweep.found /\ ~HeldElsewhere(resident) THEN None ELSE resident
    /\ UNCHANGED <<admitting, filled, owner, open, rest, pc, slot, got>>

\* open.retain: a room nobody else holds is closed.
SweepRooms ==
    /\ Sweeper("rooms", "rest")
    /\ open' = IF InRoom # {} THEN open ELSE None
    /\ UNCHANGED <<registry, rest, pc, slot, got>>

-----------------------------------------------------------------------------
Get(t) ==
    \/ FindResident(t) \/ TakeSlot(t) \/ LockSlot(t) \/ CheckCurrent(t) \/ Recheck(t)
    \/ AdmitFails(t) \/ Admit(t) \/ InsertResident(t) \/ FillSlot(t) \/ ReleaseSlot(t)
    \/ OpenRoom(t)

Sweep ==
    \/ SweepStart \/ SweepFenced \/ SweepRemove \/ SweepIdle \/ SweepRetire \/ SweepRooms

Next ==
    \/ \E t \in Tasks : Ask(t) \/ Get(t) \/ Leave(t)
    \/ \E q \in Sequencers : Fence(q)
    \/ Sweep

\* The runtime polls every ready task, the sweeper's timer ticks, and a socket
\* on a fenced sequencer is closed.  A slot's mutex is fair (tokio queues its
\* waiters), hence strong fairness for taking it.
Fairness ==
    /\ \A t \in Tasks :
        /\ WF_vars(Get(t)) /\ SF_vars(LockSlot(t))
        /\ WF_vars(Leave(t) /\ open \in fenced)
    /\ WF_vars(Sweep)

Spec == Init /\ [][Next]_vars /\ Fairness

-----------------------------------------------------------------------------
\* At most one sequencer of the document that is not fenced is held by anybody
\* at a time: two would buffer and write the same log independently.  It rests
\* on the slot serialising admissions and on retire_idle's reference count.
OneSequencer == Cardinality({q \in Sequencers : Alive(q) /\ q \notin fenced}) <= 1

\* A caller of Registry::get always gets an answer, however many admissions
\* fail and however many slots are replaced while it waits.
GetReturns == \A t \in Tasks : pc[t] = "resident" ~> pc[t] \in {"in", "idle"}

\* "A slot is removed from `admitting` when its admission finishes" and, once
\* retire_fenced has dropped a sequencer, "the next `get` for this document
\* does not return the same stale instance": no slot that callers can still
\* find, and that no caller is working through, holds a dropped sequencer.
ReadmitsAfterFence ==
    admitting # None /\ (\A t \in Tasks : slot[t] # admitting) =>
        filled[admitting] \notin dropped

\* "A client that reconnects ... reaches a sequencer that is not fenced": one
\* that is let in again and again is let in to a live sequencer again and
\* again.  The code does not keep this: retire_fenced empties the registry, a
\* socket still in the room saves the room from the sweep, and with nothing
\* resident there is no further sweep (Rooms::get, the sweeper in serve.rs).
ReconnectReaches ==
    \A t \in Tasks : ([]<>(pc[t] = "in")) => []<>(pc[t] = "in" /\ open \notin fenced)

=============================================================================
