-------------------------- MODULE ResidencyProofs --------------------------
(***************************************************************************)
(* Proofs about the registry: for any number of callers, slots and         *)
(* sequencers, however many admissions fail and whenever the sweeper runs, *)
(* a document never has two sequencers that are not fenced.                *)
(***************************************************************************)
EXTENDS Residency, FiniteSetTheorems, TLAPS

-----------------------------------------------------------------------------
(* The inductive invariant *)

\* The steps at which a caller holds its slot's mutex, and those at which it
\* has also found that slot in the map.
Holding == {"current", "recheck", "admit", "insert", "fill", "release"}
Admitting == Holding \ {"current"}

\* A caller at one of those steps is the owner of its slot, and nobody else is.
Locked ==
    /\ \A t \in Tasks : pc[t] \in Holding => slot[t] \in Slots /\ owner[slot[t]] = t
    /\ \A x \in Slots : owner[x] # None => pc[owner[x]] \in Holding
    /\ \A t \in Tasks : pc[t] = "lock" => slot[t] \in Slots

\* The slot an admission works through stays mapped until it is released.
Mapped == \A t \in Tasks : pc[t] \in Admitting => admitting = slot[t]

\* Nothing is resident while an admission is under way.
Vacant == \A t \in Tasks : pc[t] \in {"admit", "insert"} => resident = None

\* A caller has a sequencer in hand exactly between finding one and its room.
InHand == \A t \in Tasks : got[t] # None <=> pc[t] \in {"insert", "fill", "release", "room"}

\* What retire_fenced's scan found is still what its removal removes.
ScanHolds == sweep.at = "remove" /\ sweep.found => resident \in fenced

\* A sequencer that is not fenced is the resident one, or the one a caller has
\* just admitted and is about to make resident.
Known ==
    \A q \in Sequencers :
        Alive(q) /\ q \notin fenced =>
            \/ resident = q
            \/ \E t \in Tasks : pc[t] = "insert" /\ got[t] = q

IInv == TypeOK /\ Locked /\ Mapped /\ Vacant /\ InHand /\ ScanHolds /\ Known

-----------------------------------------------------------------------------
(* Lemmas *)

\* The slot's mutex and the map let one admission through at a time.
LEMMA OneAdmission ==
    ASSUME IInv, NEW t \in Tasks, NEW u \in Tasks,
           pc[t] \in Admitting, pc[u] \in Admitting
    PROVE  t = u
  BY DEF IInv, Locked, Mapped, Admitting

\* A new slot is one nobody refers to.
LEMMA FreshSlotDead ==
    ASSUME SlotFree
    PROVE  FreshSlot \in Slots /\ ~SlotAlive(FreshSlot)
  BY DEF SlotFree, FreshSlot

\* A new sequencer is one nobody refers to.
LEMMA FreshSequencerDead ==
    ASSUME SequencerFree
    PROVE  FreshSequencer \in Sequencers /\ ~Alive(FreshSequencer)
  BY DEF SequencerFree, FreshSequencer

-----------------------------------------------------------------------------
(* Every operation keeps the invariant *)

\* Finding a room or a resident, and leaving, copy references and no more.
LEMMA FindKeeps ==
    ASSUME IInv, NEW t \in Tasks, Ask(t) \/ FindResident(t) \/ OpenRoom(t) \/ Leave(t)
    PROVE  IInv'
  <1>. USE ResidencyAssumption DEF Ask, FindResident, OpenRoom, Leave, Goto, registry, rest
  <1>1. TypeOK'
    BY DEF IInv, TypeOK, Steps, Locked, InHand, Holding
  <1>2. Locked'
    BY DEF IInv, TypeOK, Locked, Holding
  <1>3. Mapped'
    BY DEF IInv, TypeOK, Locked, Mapped, Admitting, Holding
  <1>4. Vacant'
    BY DEF IInv, TypeOK, Vacant, Mapped, Admitting, Holding
  <1>5. InHand'
    BY DEF IInv, TypeOK, InHand, Locked, Holding
  <1>6. ScanHolds'
    BY DEF IInv, TypeOK, ScanHolds, Alive, Vacant
  <1>7. Known'
    BY DEF IInv, TypeOK, Known, Alive, HeldElsewhere, SlotAlive, Locked, Holding
  <1>. QED
    BY <1>1, <1>2, <1>3, <1>4, <1>5, <1>6, <1>7 DEF IInv

\* A new slot starts empty, and is not one an admission works through.
LEMMA TakeSlotKeeps ==
    ASSUME IInv, NEW t \in Tasks, TakeSlot(t)
    PROVE  IInv'
  <1>. USE ResidencyAssumption DEF TakeSlot, Goto, registry, rest
  <1>0. admitting = None => FreshSlot \in Slots /\ ~SlotAlive(FreshSlot)
    BY FreshSlotDead
  <1>1. TypeOK'
    BY <1>0 DEF IInv, TypeOK, Steps, Locked, Holding
  <1>2. Locked'
    BY <1>0 DEF IInv, TypeOK, Locked, Holding
  <1>3. Mapped'
    BY <1>0 DEF IInv, TypeOK, Locked, Mapped, Admitting, Holding
  <1>4. Vacant'
    BY DEF IInv, TypeOK, Vacant, Mapped, Admitting, Holding
  <1>5. InHand'
    BY DEF IInv, TypeOK, InHand, Locked, Holding
  <1>6. ScanHolds'
    BY DEF IInv, TypeOK, ScanHolds, Alive, Vacant
  <1>7. Known'
    BY <1>0 DEF IInv, TypeOK, Known, Alive, HeldElsewhere, SlotAlive, Locked, Holding
  <1>. QED
    BY <1>1, <1>2, <1>3, <1>4, <1>5, <1>6, <1>7 DEF IInv

\* The mutex is taken only when nobody has it, and given up on an unmapped slot.
LEMMA LockKeeps ==
    ASSUME IInv, NEW t \in Tasks, LockSlot(t) \/ CheckCurrent(t)
    PROVE  IInv'
  <1>. USE ResidencyAssumption DEF LockSlot, CheckCurrent, Unlock, Goto, registry, rest
  <1>1. TypeOK'
    BY DEF IInv, TypeOK, Steps, Locked, InHand, Holding
  <1>2. Locked'
    BY DEF IInv, TypeOK, Locked, Holding
  <1>3. Mapped'
    BY DEF IInv, TypeOK, Locked, Mapped, Admitting, Holding
  <1>4. Vacant'
    BY DEF IInv, TypeOK, Vacant, Mapped, Admitting, Holding
  <1>5. InHand'
    BY DEF IInv, TypeOK, InHand, Locked, Holding
  <1>6. ScanHolds'
    BY DEF IInv, TypeOK, ScanHolds, Alive, Vacant
  <1>7. Known'
    BY DEF IInv, TypeOK, Known, Alive, HeldElsewhere, SlotAlive, Locked, Holding
  <1>. QED
    BY <1>1, <1>2, <1>3, <1>4, <1>5, <1>6, <1>7 DEF IInv

\* The re-check goes on to admit only when nothing is resident.
LEMMA RecheckKeeps ==
    ASSUME IInv, NEW t \in Tasks, Recheck(t)
    PROVE  IInv'
  <1>. USE ResidencyAssumption DEF Recheck, Unlock, Goto, registry, rest
  <1>1. TypeOK'
    BY DEF IInv, TypeOK, Steps, Locked, InHand, Holding
  <1>2. Locked'
    BY DEF IInv, TypeOK, Locked, Holding
  <1>3. Mapped'
    BY DEF IInv, TypeOK, Locked, Mapped, Admitting, Holding
  <1>4. Vacant'
    BY DEF IInv, TypeOK, Vacant, Mapped, Admitting, Holding
  <1>5. InHand'
    BY DEF IInv, TypeOK, InHand, Locked, Holding
  <1>6. ScanHolds'
    BY DEF IInv, TypeOK, ScanHolds, Alive, Vacant
  <1>7. Known'
    BY DEF IInv, TypeOK, Known, Alive, HeldElsewhere, SlotAlive, Locked, Holding
  <1>. QED
    BY <1>1, <1>2, <1>3, <1>4, <1>5, <1>6, <1>7 DEF IInv

\* Filling and releasing the slot ends the only admission there is.
LEMMA ReleaseKeeps ==
    ASSUME IInv, NEW t \in Tasks, AdmitFails(t) \/ FillSlot(t) \/ ReleaseSlot(t)
    PROVE  IInv'
  <1>. USE ResidencyAssumption DEF AdmitFails, FillSlot, ReleaseSlot, Unlock, Release, Goto, registry, rest
  <1>1. TypeOK'
    BY DEF IInv, TypeOK, Steps, Locked, InHand, Holding
  <1>2. Locked'
    BY DEF IInv, TypeOK, Locked, Holding
  <1>3. Mapped'
    BY DEF IInv, TypeOK, Locked, Mapped, Admitting, Holding
  <1>4. Vacant'
    BY DEF IInv, TypeOK, Vacant, Mapped, Admitting, Holding
  <1>5. InHand'
    BY DEF IInv, TypeOK, InHand, Locked, Holding
  <1>6. ScanHolds'
    BY DEF IInv, TypeOK, ScanHolds, Alive, Vacant
  <1>7. Known'
    BY DEF IInv, TypeOK, Known, Alive, HeldElsewhere, SlotAlive, Locked, Holding
  <1>. QED
    BY <1>1, <1>2, <1>3, <1>4, <1>5, <1>6, <1>7 DEF IInv

\* A sequencer is admitted only when every other one is fenced.
LEMMA AdmitKeeps ==
    ASSUME IInv, NEW t \in Tasks, Admit(t)
    PROVE  IInv'
  <1>. USE ResidencyAssumption DEF Admit, Goto, registry, rest
  <1>0. FreshSequencer \in Sequencers /\ ~Alive(FreshSequencer)
    BY FreshSequencerDead
  <1>1. TypeOK'
    BY <1>0 DEF IInv, TypeOK, Steps
  <1>2. Locked'
    BY DEF IInv, TypeOK, Locked, Holding
  <1>3. Mapped'
    BY DEF IInv, TypeOK, Locked, Mapped, Admitting, Holding
  <1>4. Vacant'
    BY DEF IInv, TypeOK, Vacant, Mapped, Admitting, Holding
  <1>5. InHand'
    BY <1>0 DEF IInv, TypeOK, InHand
  <1>6. ScanHolds'
    BY <1>0 DEF IInv, TypeOK, ScanHolds, Vacant
  <1>7. Known'
    <2>1. \A u \in Tasks : pc[u] # "insert"
      BY OneAdmission DEF Admitting, Holding
    <2>2. resident = None
      BY DEF IInv, Vacant
    <2>. QED
      BY <1>0, <2>1, <2>2 DEF IInv, TypeOK, Known, Alive, HeldElsewhere, SlotAlive
  <1>. QED
    BY <1>1, <1>2, <1>3, <1>4, <1>5, <1>6, <1>7 DEF IInv

\* The admitted sequencer becomes the resident one.
LEMMA InsertKeeps ==
    ASSUME IInv, NEW t \in Tasks, InsertResident(t)
    PROVE  IInv'
  <1>. USE ResidencyAssumption DEF InsertResident, Goto, registry, rest
  <1>0. \A u \in Tasks : pc[u] \in Admitting => u = t
    BY OneAdmission DEF Admitting, Holding
  <1>1. TypeOK'
    BY DEF IInv, TypeOK, Steps
  <1>2. Locked'
    BY DEF IInv, TypeOK, Locked, Holding
  <1>3. Mapped'
    BY DEF IInv, TypeOK, Locked, Mapped, Admitting, Holding
  <1>4. Vacant'
    BY <1>0 DEF IInv, TypeOK, Vacant, Admitting, Holding
  <1>5. InHand'
    BY DEF IInv, TypeOK, InHand, Locked, Holding
  <1>6. ScanHolds'
    BY DEF IInv, TypeOK, ScanHolds, Vacant
  <1>7. Known'
    BY <1>0 DEF IInv, TypeOK, Known, Vacant, Alive, HeldElsewhere, SlotAlive
  <1>. QED
    BY <1>1, <1>2, <1>3, <1>4, <1>5, <1>6, <1>7 DEF IInv

\* A fence can only take a sequencer out of those that count.
LEMMA FenceKeeps ==
    ASSUME IInv, NEW q \in Sequencers, Fence(q)
    PROVE  IInv'
  <1>. USE ResidencyAssumption DEF Fence, Goto, registry, rest
  <1>1. TypeOK'
    BY DEF IInv, TypeOK, Steps, Locked, InHand, Holding
  <1>2. Locked'
    BY DEF IInv, TypeOK, Locked, Holding
  <1>3. Mapped'
    BY DEF IInv, TypeOK, Locked, Mapped, Admitting, Holding
  <1>4. Vacant'
    BY DEF IInv, TypeOK, Vacant, Mapped, Admitting, Holding
  <1>5. InHand'
    BY DEF IInv, TypeOK, InHand, Locked, Holding
  <1>6. ScanHolds'
    BY DEF IInv, TypeOK, ScanHolds, Alive, Vacant
  <1>7. Known'
    BY DEF IInv, TypeOK, Known, Alive, HeldElsewhere, SlotAlive, Locked, Holding
  <1>. QED
    BY <1>1, <1>2, <1>3, <1>4, <1>5, <1>6, <1>7 DEF IInv

\* The sweeper removes the resident only if it is fenced or nobody holds it.
LEMMA SweepKeeps ==
    ASSUME IInv, Sweep
    PROVE  IInv'
  <1>. USE ResidencyAssumption DEF registry, rest
  <1>0. sweep' \in [at : {"rest", "fenced", "remove", "idle", "retire", "rooms"}, found : BOOLEAN]
    <2>1. CASE SweepFenced \/ SweepIdle
      <3>1. (resident \in fenced) \in BOOLEAN /\ (resident # None /\ ~Subscribed(resident)) \in BOOLEAN
        OBVIOUS
      <3>2. \E at \in {"remove", "retire"}, found \in BOOLEAN : sweep' = [at |-> at, found |-> found]
        BY <2>1, <3>1, Zenon DEF SweepFenced, SweepIdle
      <3>. QED
        BY <3>2
    <2>2. ASSUME NEW from, NEW to \in {"rest", "fenced", "remove", "idle", "retire", "rooms"}, Sweeper(from, to)
          PROVE  sweep' \in [at : {"rest", "fenced", "remove", "idle", "retire", "rooms"}, found : BOOLEAN]
      BY <2>2 DEF Sweeper, IInv, TypeOK
    <2>. QED
      BY <2>1, <2>2 DEF Sweep, SweepStart, SweepRemove, SweepRetire, SweepRooms
  <1>1. UNCHANGED <<admitting, filled, owner, fenced, failures, pc, slot, got>>
    BY DEF Sweep, SweepStart, SweepFenced, SweepRemove, SweepIdle, SweepRetire, SweepRooms
  <1>2. resident' \in {resident, None} /\ open' \in {open, None} /\ dropped' \subseteq Sequencers
    BY DEF Sweep, SweepStart, SweepFenced, SweepRemove, SweepIdle, SweepRetire, SweepRooms, IInv, TypeOK
  <1>3. TypeOK' /\ Locked' /\ Mapped' /\ Vacant' /\ InHand'
    BY <1>0, <1>1, <1>2 DEF IInv, TypeOK, Locked, Mapped, Vacant, InHand
  <1>4. ScanHolds'
    <2>1. CASE SweepFenced
      BY <2>1 DEF SweepFenced, ScanHolds
    <2>2. CASE ~SweepFenced
      <3>1. sweep'.at # "remove"
        BY <2>2 DEF Sweep, SweepStart, SweepRemove, SweepIdle, SweepRetire, SweepRooms, Sweeper, IInv, TypeOK
      <3>. QED
        BY <3>1 DEF ScanHolds
    <2>. QED
      BY <2>1, <2>2
  <1>5. ASSUME resident' # resident
        PROVE  resident \in fenced \/ ~HeldElsewhere(resident)
    BY <1>5 DEF Sweep, SweepStart, SweepFenced, SweepRemove, SweepIdle, SweepRetire, SweepRooms, Sweeper, IInv,
                ScanHolds
  <1>6. Known'
    BY <1>1, <1>2, <1>5 DEF IInv, TypeOK, Known, Alive, HeldElsewhere, SlotAlive
  <1>. QED
    BY <1>3, <1>4, <1>6 DEF IInv

-----------------------------------------------------------------------------
(* The theorems *)

\* The invariant holds initially.
LEMMA InitIInv == Init => IInv
  BY ResidencyAssumption DEF Init, IInv, TypeOK, Steps, Locked, Holding, Mapped, Admitting, Vacant, InHand,
     ScanHolds, Known, Alive, HeldElsewhere, SlotAlive

\* Every step keeps it.
LEMMA NextIInv == IInv /\ [Next]_vars => IInv'
  <1>. SUFFICES ASSUME IInv, [Next]_vars
                PROVE  IInv'
    OBVIOUS
  <1>1. ASSUME NEW t \in Tasks, Ask(t) \/ Get(t) \/ Leave(t)
        PROVE  IInv'
    BY <1>1, FindKeeps, TakeSlotKeeps, LockKeeps, RecheckKeeps, ReleaseKeeps, AdmitKeeps, InsertKeeps
       DEF Get
  <1>2. CASE UNCHANGED vars
    BY <1>2 DEF vars, IInv, TypeOK, Locked, Mapped, Vacant, InHand, ScanHolds, Known, Alive, HeldElsewhere,
                SlotAlive
  <1>. QED
    BY <1>1, <1>2, FenceKeeps, SweepKeeps DEF Next

\* The inductive invariant holds in every reachable state.
THEOREM Invariant == Spec => []IInv
  BY InitIInv, NextIInv, PTL DEF Spec

\* The maps, the slots and the callers' hands keep their types, and a taken
\* slot is always the slot of the caller that took it.
THEOREM TypeCorrect == Spec => []TypeOK
  <1>1. IInv => TypeOK
    BY DEF IInv
  <1>. QED
    BY <1>1, Invariant, PTL

\* In any state of the invariant at most one sequencer counts.
LEMMA IInvOneSequencer == IInv => OneSequencer
  <1>. SUFFICES ASSUME IInv
                PROVE  OneSequencer
    OBVIOUS
  <1>. DEFINE Writers == {q \in Sequencers : Alive(q) /\ q \notin fenced}
  <1>1. ASSUME NEW p \in Writers, NEW q \in Writers
        PROVE  p = q
    <2>1. \A t, u \in Tasks : pc[t] = "insert" /\ pc[u] = "insert" => t = u
      BY OneAdmission DEF Admitting, Holding
    <2>. QED
      BY <2>1, ResidencyAssumption DEF IInv, Known, Vacant
  <1>2. CASE Writers = {}
    BY <1>2, FS_EmptySet DEF OneSequencer
  <1>3. ASSUME NEW p \in Writers
        PROVE  OneSequencer
    <2>1. Writers = {p}
      BY <1>1
    <2>2. Cardinality(Writers) = 1
      BY <2>1, FS_Singleton
    <2>. QED
      BY <2>2 DEF OneSequencer
  <1>. QED
    BY <1>2, <1>3

\* Registry::get, the admission slots and the two retirements never leave two
\* sequencers of a document that both believe they may write its log.
THEOREM NeverTwoSequencers == Spec => []OneSequencer
  BY Invariant, IInvOneSequencer, PTL

=============================================================================
