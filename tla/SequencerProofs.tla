-------------------------- MODULE SequencerProofs --------------------------
(***************************************************************************)
(* Proofs about the document log, for any number of servers, browsers,     *)
(* commands, changes and faults, and whether or not a compaction may       *)
(* outlive its fenced sequencer.                                           *)
(***************************************************************************)
EXTENDS Sequencer, SequenceTheorems, TLAPS

-----------------------------------------------------------------------------
(* The inductive invariant *)

\* A vector that server s holds as the coverage of the log at sequence n: a
\* snapshot not yet activated, its log vector, a flush known to be written.
Held(s, n, v) ==
    \/ snap[s] # NoSnap /\ snap[s].through = n /\ snap[s].vec = v
    \/ status[s] # "absent" /\ next[s] - 1 = n /\ logVec[s] = v
    \/ flight[s].pc = "written" /\ flight[s].exp + 1 = n /\ flight[s].vec = v

\* The same of anybody, storage included.
IsPoint(n, v) ==
    \/ \E row \in rows : row.seq = n /\ row.vec = v
    \/ base.through = n /\ base.vec = v
    \/ \E s \in Servers : Held(s, n, v)

\* However stale its holder, such a vector is a cut of one history: ordered by
\* sequence, none ahead of storage, all of it stored.
Chain ==
    \A n, m \in Nat, v, w \in SUBSET Ops :
        IsPoint(n, v) /\ IsPoint(m, w) /\ n <= m => v \subseteq w
Behind == \A n \in Nat, v \in SUBSET Ops : IsPoint(n, v) => n <= sequence /\ v \subseteq Stored

\* The last row, or the base when there is none, carries the sequence.
Tip ==
    /\ rows = {} => base.through = sequence
    /\ rows # {} => \E row \in rows : row.seq = sequence

\* Bytes are covered by the vector written next to them.
Labelled ==
    /\ \A row \in rows : row.ops \subseteq row.vec
    /\ base.ops = base.vec

Resident(s) ==
    /\ status[s] = "absent" => buffer[s] = <<>>
    /\ status[s] # "absent" => next[s] >= 1
    /\ snap[s] # NoSnap => snap[s].ops = snap[s].vec
    /\ snap[s] # NoSnap /\ ~snap[s].old => status[s] # "absent"

InFlight(s) ==
    flight[s].pc # "idle" =>
        /\ status[s] = "live"
        /\ flight[s].exp = next[s] - 1
        /\ flight[s].take <= Len(buffer[s])
        /\ flight[s].ops = BatchesThrough(buffer[s], flight[s].take)
        /\ logVec[s] \subseteq flight[s].vec
        /\ flight[s].ops \subseteq flight[s].vec
        /\ flight[s].vec \subseteq headVec[s]
        /\ flight[s].vec \subseteq Stored \cup flight[s].ops

Headed(s) ==
    /\ logVec[s] \subseteq headVec[s]
    /\ \A i \in 1..Len(buffer[s]) : End(buffer[s][i]) \subseteq headVec[s]
    /\ headVec[s] \subseteq Stored \cup Buffered(s)

Local(s) == Resident(s) /\ InFlight(s) /\ Headed(s)

\* A join in progress is somebody's.
Joined == \A s \in Servers : joining[s].pc # "idle" => joining[s].client \in Clients

IInv ==
    /\ TypeOK
    /\ Chain /\ Behind /\ Tip /\ Labelled
    /\ \A s \in Servers : Local(s)
    /\ Joined
    /\ LogBacked
    /\ AnnouncedDurable

-----------------------------------------------------------------------------
(* What the derived quantities are *)

\* What is stored is a set of changes.
LEMMA StoredTyped ==
    ASSUME TypeOK
    PROVE  /\ Stored \in SUBSET Ops
           /\ \A set \in SUBSET rows : RowOps(set) \in SUBSET Ops
  BY DEF TypeOK, Stored, RowOps, Row, Base

\* The bytes and the coverage of a buffer's prefix are sets of changes.
LEMMA BatchesTyped ==
    ASSUME NEW b \in Seq(Batches), NEW n \in Nat, n <= Len(b)
    PROVE  BatchesThrough(b, n) \in SUBSET Ops /\ BatchEnds(b, n) \in SUBSET Ops
  <1>1. \A i \in 1..n : b[i] \in SUBSET Ops
    BY DEF Batches
  <1>. QED
    BY <1>1 DEF BatchesThrough, BatchEnds, End

\* So is everything a sequencer derives from its memory and from storage.
LEMMA SequencerTyped ==
    ASSUME TypeOK, NEW s \in Servers
    PROVE  /\ buffer[s] \in Seq(Batches) /\ Len(buffer[s]) \in Nat
           /\ Buffered(s) \in SUBSET Ops
           /\ VectorThrough(s) \in SUBSET Ops
           /\ Built(s) \in SUBSET Ops
           /\ Materialized(s) \in SUBSET Ops
           /\ JoinedOps(s) \in SUBSET Ops
  <1>1. buffer[s] \in Seq(Batches) /\ Len(buffer[s]) \in Nat
    BY DEF TypeOK
  <1>2. Buffered(s) \in SUBSET Ops /\ VectorThrough(s) \in SUBSET Ops
    <2>1. logVec[s] \in SUBSET Ops
      BY DEF TypeOK
    <2>. QED
      BY <1>1, <2>1, BatchesTyped DEF Buffered, VectorThrough
  <1>3. RowOps(rows) \in SUBSET Ops /\ base.ops \in SUBSET Ops
    BY StoredTyped DEF TypeOK, Base
  <1>4. Built(s) \in SUBSET Ops
    BY <1>2, <1>3 DEF Built
  <1>5. Materialized(s) \in SUBSET Ops
    BY <1>4 DEF Materialized, TypeOK, Cache
  <1>6. joining[s].ops \in SUBSET Ops
    BY DEF TypeOK, Joining
  <1>7. \A from : RowOps({row \in rows : row.seq >= from}) \in SUBSET Ops
    BY StoredTyped
  <1>8. JoinedOps(s) \in SUBSET Ops
    BY <1>3, <1>6, <1>7 DEF JoinedOps
  <1>. QED
    BY <1>1, <1>2, <1>4, <1>5, <1>8

\* log_head returns the coverage of the log at its sequence.
LEMMA LogVectorIsTip ==
    ASSUME TypeOK, Behind, Tip
    PROVE  LogVector \in SUBSET Ops /\ IsPoint(sequence, LogVector)
  <1>1. CASE rows = {}
    BY <1>1 DEF TypeOK, Tip, LogVector, IsPoint, Base
  <1>2. CASE rows # {}
    <2>1. \A row \in rows : row.seq \in Nat /\ row.vec \in SUBSET Ops
      BY DEF TypeOK, Row
    <2>2. \A row \in rows : IsPoint(row.seq, row.vec)
      BY DEF IsPoint
    <2>3. \A row \in rows : row.seq <= sequence
      BY <2>1, <2>2 DEF Behind
    <2>4. PICK last \in rows : last.seq = sequence
      BY <1>2 DEF Tip
    <2>5. \E row \in rows : IsLastRow(row)
      BY <2>3, <2>4 DEF IsLastRow
    <2> DEFINE chosen == CHOOSE row \in rows : IsLastRow(row)
    <2>6. chosen \in rows /\ IsLastRow(chosen)
      BY <2>5
    <2>7. chosen.seq = sequence
      BY <2>1, <2>3, <2>4, <2>6 DEF IsLastRow, TypeOK
    <2>8. LogVector = chosen.vec
      BY <1>2 DEF LogVector
    <2>. QED
      BY <2>1, <2>2, <2>6, <2>7, <2>8
  <1>. QED
    BY <1>1, <1>2

-----------------------------------------------------------------------------
(* Type correctness *)

\* The records that stand for nothing have their types.
LEMMA NullsTyped ==
    /\ NoBase \in Base /\ Cold \in Cache /\ NoFlight \in Flight /\ NoJoin \in Joining
    /\ NoSnap \in Snap
  BY DEF NoBase, Cold, NoFlight, NoJoin, NoSnap, Base, Cache, Flight, Joining, Snap

\* The initial state is well typed.
LEMMA TypeInit == Init => TypeOK
  <1>1. <<>> \in Seq(Batches)
    OBVIOUS
  <1>. QED
    BY <1>1, NullsTyped DEF Init, TypeOK

\* A flush that changes its program counter stays well typed.
LEMMA FlightMoves ==
    ASSUME TypeOK, NEW s \in Servers, NEW pc \in {"written", "failed"}
    PROVE  [flight EXCEPT ![s].pc = pc] \in [Servers -> Flight]
  <1>1. flight[s] \in Flight
    BY DEF TypeOK
  <1>2. [flight[s] EXCEPT !.pc = pc] \in Flight
    BY <1>1 DEF Flight
  <1>. QED
    BY <1>2 DEF TypeOK

\* What a command prepares is at most one new change of its own peer.
LEMMA PreparedTyped ==
    ASSUME NEW r \in Commands, NEW source \in Prepared(r)
    PROVE  source \in SUBSET Ops
  <1>1. \A m \in 1..MaxOps : <<r, m>> \in Ops
    BY DEF Ops, Commands
  <1>2. source = {} \/ \E m \in 1..MaxOps : source = {<<r, m>>}
    BY DEF Prepared
  <1>. QED
    BY <1>1, <1>2

\* A command keeps the types, whether or not its reply arrives.
LEMMA TypeCommand ==
    ASSUME TypeOK, NEW s \in Servers, NEW r \in Commands, NEW source \in Prepared(r),
           Command(s, r, source) \/ CommandLost(s, r, source)
    PROVE  TypeOK'
  <1>. USE DEF store, inner, tasks, world
  <1>1. source \in SUBSET Ops /\ End(source) \in SUBSET Ops
    <2>1. source \in SUBSET Ops
      BY PreparedTyped
    <2>. QED
      BY <2>1 DEF End
  <1>2. [seq |-> sequence + 1, ops |-> Buffered(s) \cup source,
         vec |-> VectorThrough(s) \cup End(source)] \in Row
    BY <1>1, SequencerTyped DEF TypeOK, Row
  <1>3. CommandCommit(s, r, source)
    BY DEF Command, CommandLost
  <1>4. sequence' \in Nat /\ rows' \in SUBSET Row /\ recorded' \in SUBSET Commands
    <2>1. recorded' \in SUBSET Commands
      BY <1>3 DEF CommandCommit, TypeOK
    <2>2. sequence' \in Nat
      BY <1>3 DEF CommandCommit, InsertRow, TypeOK
    <2>3. CASE buffer[s] = <<>> /\ source = {}
      BY <1>3, <2>1, <2>2, <2>3 DEF CommandCommit, TypeOK
    <2>4. CASE ~(buffer[s] = <<>> /\ source = {})
      BY <1>2, <1>3, <2>1, <2>2, <2>4 DEF CommandCommit, InsertRow, TypeOK
    <2>. QED
      BY <2>3, <2>4
  <1>5. \A any \in SUBSET Ops : [warm |-> TRUE, ops |-> any] \in Cache
    BY DEF Cache
  <1>6. Materialized(s) \in SUBSET Ops /\ Materialized(s) \cup source \in SUBSET Ops
    BY <1>1, SequencerTyped
  <1>7. cache' \in [Servers -> Cache]
    <2>1. CASE Command(s, r, source)
      BY <1>5, <1>6, <2>1 DEF Command, TypeOK
    <2>2. CASE CommandLost(s, r, source)
      BY <1>5, <1>6, <2>2 DEF CommandLost, TypeOK
    <2>. QED
      BY <2>1, <2>2
  <1>8. next' \in [Servers -> Nat] /\ buffer' \in [Servers -> Seq(Batches)]
    <2>1. <<>> \in Seq(Batches)
      OBVIOUS
    <2>2. CASE Command(s, r, source)
      <3>1. next' \in [Servers -> Nat]
        <4>1. next' = [next EXCEPT ![s] = IF sequence' = sequence THEN @ ELSE sequence' + 1]
          BY <2>2 DEF Command
        <4>2. sequence' + 1 \in Nat
          <5>1. \A n \in Nat : n + 1 \in Nat
            OBVIOUS
          <5>. QED
            BY <1>4, <5>1
        <4>3. next \in [Servers -> Nat]
          BY DEF TypeOK
        <4>. QED
          BY <4>1, <4>2, <4>3
      <3>2. buffer' \in [Servers -> Seq(Batches)]
        <4>1. buffer' = [buffer EXCEPT ![s] = <<>>]
          BY <2>2 DEF Command
        <4>. QED
          BY <2>1, <4>1 DEF TypeOK
      <3>. QED
        BY <3>1, <3>2
    <2>3. CASE CommandLost(s, r, source)
      BY <2>3 DEF CommandLost, TypeOK
    <2>. QED
      BY <2>2, <2>3
  <1>9. VectorThrough(s) \cup End(source) \in SUBSET Ops
    BY <1>1, SequencerTyped
  <1>10. logVec' \in [Servers -> SUBSET Ops]
    <2>1. logVec \in [Servers -> SUBSET Ops]
      BY DEF TypeOK
    <2>2. CASE Command(s, r, source)
      <3>1. logVec' = [logVec EXCEPT ![s] = VectorThrough(s) \cup End(source)]
        BY <2>2 DEF Command
      <3>. QED
        BY <1>9, <2>1, <3>1
    <2>3. CASE CommandLost(s, r, source)
      BY <2>1, <2>3 DEF CommandLost
    <2>. QED
      BY <2>2, <2>3
  <1>11. headVec' \in [Servers -> SUBSET Ops]
    <2>1. headVec[s] \cup End(source) \in SUBSET Ops
      BY <1>1 DEF TypeOK
    <2>2. CASE Command(s, r, source)
      BY <2>1, <2>2 DEF Command, TypeOK
    <2>3. CASE CommandLost(s, r, source)
      BY <2>3 DEF CommandLost, TypeOK
    <2>. QED
      BY <2>2, <2>3
  <1>12. doc' \in [Clients -> SUBSET Ops]
    <2>1. Relayed(s, NoOne, source) \in [Clients -> SUBSET Ops]
      BY <1>1 DEF Relayed, TypeOK
    <2>. QED
      BY <2>1 DEF Command, CommandLost, TypeOK
  <1>13. announced' \in SUBSET Ops
    <2>1. logVec'[s] \in SUBSET Ops
      BY <1>10
    <2>. QED
      BY <2>1 DEF Command, CommandLost, Told, TypeOK
  <1>14. faults' \in Nat
    BY DEF Command, CommandLost, Fault, TypeOK
  <1>. QED
    BY <1>3, <1>4, <1>7, <1>8, <1>10, <1>11, <1>12, <1>13, <1>14 DEF CommandCommit, TypeOK

\* Every step of a server keeps the types; an admission needs the tip of the
\* log, a flush a sequencer that is resident.
LEMMA TypeServer ==
    ASSUME TypeOK, Behind, Tip, Joined, NEW s \in Servers, Local(s), Server(s)
    PROVE  TypeOK'
  <1>. USE NullsTyped DEF store, inner, tasks, world
  <1>0. Resident(s) /\ InFlight(s)
    BY DEF Local
  <1>1. CASE Claim(s)
    BY <1>1 DEF Claim, TypeOK
  <1>2. CASE LoseLock(s)
    BY <1>2 DEF LoseLock, Fault, TypeOK
  <1>3. CASE Crash(s) \/ Stop(s)
    <2>1. faults' \in Nat /\ Exit(s)
      BY <1>3 DEF Crash, Stop, Fault, TypeOK
    <2>2. holder' \in Servers \cup {NoOne}
      BY <2>1 DEF Exit, TypeOK
    <2>. QED
      BY <2>1, <2>2 DEF Exit, Forget, TypeOK
  <1>4. CASE Admit(s)
    BY <1>4, LogVectorIsTip DEF Admit, TypeOK, Base
  <1>5. CASE RetireIdle(s)
    BY <1>5 DEF RetireIdle, Forget, TypeOK
  <1>6. CASE RetireFenced(s)
    <2>1. snap[s] \in Snap /\ [snap[s] EXCEPT !.old = TRUE] \in Snap
      BY DEF TypeOK, Snap
    <2>. QED
      BY <1>6, <2>1 DEF RetireFenced, Forget, TypeOK
  <1>7. CASE FlushBegin(s)
    <2> DEFINE f == [pc |-> "sent", take |-> Len(buffer[s]), exp |-> next[s] - 1,
                     vec |-> VectorThrough(s), ops |-> Buffered(s)]
    <2>1. next[s] - 1 \in Nat
      BY <1>0, <1>7 DEF FlushBegin, Resident, TypeOK
    <2>2. f \in Flight
      BY <2>1, SequencerTyped DEF Flight
    <2>. QED
      BY <1>7, <2>2 DEF FlushBegin, TypeOK
  <1>8. CASE FlushCommit(s)
    <2>1. [seq |-> sequence + 1, ops |-> flight[s].ops, vec |-> flight[s].vec] \in Row
      BY DEF TypeOK, Flight, Row
    <2>2. sequence' \in Nat /\ rows' \in SUBSET Row
      BY <1>8, <2>1 DEF FlushCommit, InsertRow, TypeOK
    <2>3. flight' \in [Servers -> Flight]
      BY <1>8, FlightMoves DEF FlushCommit
    <2>4. faults' \in Nat
      BY <1>8 DEF FlushCommit, Fault, TypeOK
    <2>. QED
      BY <1>8, <2>2, <2>3, <2>4 DEF FlushCommit, TypeOK
  <1>9. CASE FlushError(s) \/ ResolveWritten(s)
    <2>1. flight' \in [Servers -> Flight]
      BY <1>9, FlightMoves DEF FlushError, ResolveWritten
    <2>2. faults' \in Nat
      BY <1>9 DEF FlushError, ResolveWritten, Fault, TypeOK
    <2>. QED
      BY <1>9, <2>1, <2>2 DEF FlushError, ResolveWritten, TypeOK
  <1>10. CASE ResolveFenced(s) \/ ResolveRetry(s)
    <2>1. CASE ResolveFenced(s)
      BY <2>1 DEF ResolveFenced, Fence, TypeOK
    <2>2. CASE ResolveRetry(s)
      <3>1. faults' \in Nat
        BY <2>2 DEF ResolveRetry, Fault, TypeOK
      <3>. QED
        BY <2>2, <3>1 DEF ResolveRetry, TypeOK
    <2>. QED
      BY <1>10, <2>1, <2>2
  <1>11. CASE FlushRetire(s)
    <2>1. /\ flight[s].exp + 2 \in Nat /\ flight[s].vec \in SUBSET Ops
          /\ flight[s].take \in Nat
      BY DEF TypeOK, Flight
    <2>2. SubSeq(buffer[s], flight[s].take + 1, Len(buffer[s])) \in Seq(Batches)
      <3>1. flight[s].take <= Len(buffer[s])
        BY <1>0, <1>11 DEF FlushRetire, InFlight
      <3>. QED
        BY <2>1, <3>1, SequencerTyped, SubSeqProperties
    <2>. QED
      BY <1>11, <2>1, <2>2 DEF FlushRetire, Told, TypeOK
  <1>12. CASE \E r \in Commands : \E source \in Prepared(r) :
                Command(s, r, source) \/ CommandLost(s, r, source)
    BY <1>12, TypeCommand
  <1>13. CASE BuildCache(s) \/ EvictCache(s)
    <2>1. [warm |-> TRUE, ops |-> Built(s)] \in Cache
      BY SequencerTyped DEF Cache
    <2>2. CASE BuildCache(s)
      BY <2>1, <2>2 DEF BuildCache, TypeOK
    <2>3. CASE EvictCache(s)
      BY <2>3 DEF EvictCache, TypeOK
    <2>. QED
      BY <1>13, <2>2, <2>3
  <1>14. CASE JoinRegister(s)
    <2>1. \A b \in BOOLEAN : [joining[s] EXCEPT !.pc = "registered", !.ops = Buffered(s),
                              !.vec = headVec[s], !.base = b] \in Joining
      BY SequencerTyped DEF TypeOK, Joining
    <2>2. (~BaseCovered(s, joining[s].cv)) \in BOOLEAN
      OBVIOUS
    <2>3. joining[s].client \in Clients
      BY <1>14 DEF JoinRegister, Joined
    <2>. QED
      BY <1>14, <2>1, <2>2, <2>3 DEF JoinRegister, TypeOK
  <1>15. CASE JoinReply(s)
    BY <1>15, SequencerTyped DEF JoinReply, TypeOK
  <1>16. CASE Snapshot(s)
    <2>1. next[s] - 1 \in Nat
      BY <1>0, <1>16 DEF Snapshot, Resident, TypeOK
    <2>2. [warm |-> TRUE, ops |-> Materialized(s)] \in Cache
      BY SequencerTyped DEF Cache
    <2>3. \A mode \in Modes :
            [through |-> next[s] - 1, vec |-> logVec[s], ops |-> Visible(Materialized(s)),
             mode |-> mode, old |-> FALSE] \in Snap
      BY <2>1, SequencerTyped, SequencerAssumption DEF TypeOK, Snap, Visible
    <2>. QED
      BY <1>16, <2>2, <2>3 DEF Snapshot, TypeOK
  <1>17. CASE ActivateCommit(s) \/ ActivateLost(s) \/ ActivateNoop(s) \/ ActivateError(s)
    <2>1. /\ snap[s].vec \in SUBSET Ops /\ base.vec \in SUBSET Ops
          /\ [through |-> snap[s].through, ops |-> snap[s].ops, vec |-> snap[s].vec] \in Base
      BY DEF TypeOK, Snap, Base
    <2>2. base' \in Base
      BY <1>17, <2>1 DEF ActivateCommit, ActivateLost, ActivateNoop, ActivateError, ActivateBase,
                         TypeOK
    <2>3. rows' \in SUBSET Row
      BY <1>17 DEF ActivateCommit, ActivateLost, ActivateNoop, ActivateError, ActivateBase, TypeOK
    <2>4. hasBase' \in [Servers -> BOOLEAN]
      BY <1>17 DEF ActivateCommit, ActivateLost, ActivateNoop, ActivateError, NoteCompacted, TypeOK
    <2>5. baseVec' \in [Servers -> SUBSET Ops]
      BY <1>17, <2>1 DEF ActivateCommit, ActivateLost, ActivateNoop, ActivateError, NoteCompacted,
                         TypeOK
    <2>6. cache' \in [Servers -> Cache]
      <3>1. cache \in [Servers -> Cache] /\ Cold \in Cache
        BY DEF TypeOK
      <3>2. CASE ActivateCommit(s)
        BY <3>1, <3>2 DEF ActivateCommit, ResetAfterTrim
      <3>3. CASE ActivateLost(s) \/ ActivateNoop(s) \/ ActivateError(s)
        BY <3>1, <3>3 DEF ActivateLost, ActivateNoop, ActivateError
      <3>. QED
        BY <1>17, <3>2, <3>3
    <2>7. subs' \in [Servers -> SUBSET Clients]
      BY <1>17 DEF ActivateCommit, ActivateLost, ActivateNoop, ActivateError, ResetAfterTrim,
                   FenceGate, Fence, TypeOK
    <2>8. status' \in [Servers -> {"absent", "live", "fenced"}]
      BY <1>17 DEF ActivateCommit, ActivateLost, ActivateNoop, ActivateError, FenceGate, Fence,
                   TypeOK
    <2>9. faults' \in Nat
      BY <1>17 DEF ActivateCommit, ActivateLost, ActivateNoop, ActivateError, Fault, TypeOK
    <2>10. snap' \in [Servers -> Snap] /\ Activated(s)
      BY <1>17 DEF ActivateCommit, ActivateLost, ActivateNoop, ActivateError, Activated, TypeOK
    <2>11. UNCHANGED <<epoch, holder, sequence, recorded>>
      BY <1>17 DEF ActivateCommit, ActivateLost, ActivateNoop, ActivateError, ActivateBase
    <2>. QED
      BY <2>2, <2>3, <2>4, <2>5, <2>6, <2>7, <2>8, <2>9, <2>10, <2>11 DEF Activated, TypeOK
  <1>. QED
    BY <1>1, <1>2, <1>3, <1>4, <1>5, <1>6, <1>7, <1>8, <1>9, <1>10, <1>11, <1>12, <1>13,
       <1>14, <1>15, <1>16, <1>17 DEF Server

\* Every step of a browser keeps the types.
LEMMA TypeClient ==
    ASSUME TypeOK, NEW c \in Clients, Client(c)
    PROVE  TypeOK'
  <1>. USE NullsTyped DEF store, inner, tasks, world
  <1>1. c \in Peers
    BY SequencerAssumption
  <1>2. \A any \in SUBSET Ops : End(any) \in SUBSET Ops /\ Visible(any) \in SUBSET Ops
    BY DEF End, Visible
  <1>3. doc[c] \in SUBSET Ops /\ Own(c) \in SUBSET Ops
    BY DEF TypeOK, Own
  <1>4. CASE Edit(c)
    <2>1. PICK n \in NextOwn(c) : doc' = [doc EXCEPT ![c] = @ \cup {<<c, n>>}]
      BY <1>4 DEF Edit
    <2>2. <<c, n>> \in Ops
      BY <1>1 DEF NextOwn, Ops
    <2>3. doc' \in [Clients -> SUBSET Ops]
      BY <1>3, <2>1, <2>2 DEF TypeOK
    <2>. QED
      BY <1>4, <2>3 DEF Edit, TypeOK
  <1>5. CASE Disconnect(c)
    <2>1. doc' \in [Clients -> SUBSET Ops] /\ faults' \in Nat
      BY <1>3, <1>5 DEF Disconnect, Fault, TypeOK
    <2>2. subs' \in [Servers -> SUBSET Clients]
      BY <1>5 DEF Disconnect, TypeOK
    <2>3. joining' \in [Servers -> Joining]
      BY <1>5 DEF Disconnect, TypeOK
    <2>. QED
      BY <1>5, <2>1, <2>2, <2>3 DEF Disconnect, TypeOK
  <1>6. CASE \E s \in Servers : JoinRead(s, c)
    <2>1. PICK s \in Servers : JoinRead(s, c)
      BY <1>6
    <2>2. \A set \in SUBSET rows : RowSeqs(set) \in SUBSET Nat
      BY DEF TypeOK, Row, RowSeqs
    <2>3. \A set \in SUBSET Nat : LeastOrZero(set) \in Nat
      BY DEF LeastOrZero
    <2>4. LeastOrZero(RowSeqs(rows)) \in Nat
      BY <2>2, <2>3
    <2>5. LeastOrZero(RowSeqs(Uncovered(Visible(doc[c])))) \in Nat
      <3>1. Uncovered(Visible(doc[c])) \in SUBSET rows
        BY DEF Uncovered
      <3>. QED
        BY <2>2, <2>3, <3>1
    <2>6. \A first, uncovered \in Nat, cv \in SUBSET Ops :
            [NoJoin EXCEPT !.pc = "read", !.client = c, !.cv = cv, !.uncovered = uncovered,
                           !.first = first] \in Joining
      BY DEF NoJoin, Joining
    <2>7. joining' \in [Servers -> Joining]
      BY <1>2, <1>3, <2>1, <2>4, <2>5, <2>6 DEF JoinRead, TypeOK
    <2>. QED
      BY <2>1, <2>7 DEF JoinRead, TypeOK
  <1>7. CASE \E s \in Servers : Ingest(s, c) \/ IngestResend(s, c)
    <2>1. PICK s \in Servers : Ingest(s, c) \/ IngestResend(s, c)
      BY <1>7
    <2>2. \A batch \in Offers(s, c) \cup Resends(s, c) : batch \in SUBSET Ops
      BY <1>3 DEF Offers, Resends, TypeOK
    <2>3. PICK batch \in SUBSET Ops : Accept(s, c, batch)
      BY <2>1, <2>2 DEF Ingest, IngestResend
    <2>4. faults' \in Nat
      BY <2>1 DEF Ingest, IngestResend, Fault, TypeOK
    <2>5. headVec' \in [Servers -> SUBSET Ops]
      BY <1>2, <2>3 DEF Accept, TypeOK
    <2>6. buffer' \in [Servers -> Seq(Batches)]
      <3>1. Append(buffer[s], batch) \in Seq(Batches)
        BY <2>3, SequencerTyped DEF Batches
      <3>. QED
        BY <2>3, <3>1 DEF Accept, TypeOK
    <2>7. cache' \in [Servers -> Cache]
      <3>1. \A any \in SUBSET Ops : [cache[s] EXCEPT !.ops = any] \in Cache
        BY DEF TypeOK, Cache
      <3>2. cache[s].ops \in SUBSET Ops
        BY DEF TypeOK, Cache
      <3>3. (IF cache[s].warm THEN cache[s].ops \cup batch ELSE {}) \in SUBSET Ops
        BY <2>3, <3>2
      <3>. QED
        BY <2>3, <3>1, <3>3 DEF Accept, TypeOK
    <2>8. doc' \in [Clients -> SUBSET Ops]
      BY <2>3 DEF Accept, Relayed, TypeOK
    <2>. QED
      BY <2>3, <2>4, <2>5, <2>6, <2>7, <2>8 DEF Accept, TypeOK
  <1>. QED
    BY <1>4, <1>5, <1>6, <1>7 DEF Client

-----------------------------------------------------------------------------
(* What a step must show to preserve the invariant *)

\* Nothing the invariant says of server t changes.
Same(t) ==
    /\ status'[t] = status[t] /\ next'[t] = next[t]
    /\ logVec'[t] = logVec[t] /\ headVec'[t] = headVec[t] /\ buffer'[t] = buffer[t]
    /\ flight'[t] = flight[t] /\ snap'[t] = snap[t]

\* Server t is consistent afterwards and holds no new point but the one given.
Settled(t, seq, vec) ==
    /\ Local(t)'
    /\ \A n \in Nat, v \in SUBSET Ops :
         Held(t, n, v)' => IsPoint(n, v) \/ (n = seq /\ v = vec)

\* A server whose state a step leaves alone stays consistent, as long as no
\* stored bytes are lost.
LEMMA Frame ==
    ASSUME NEW t \in Servers, Local(t), Same(t), Stored \subseteq Stored', NEW seq, NEW vec
    PROVE  Settled(t, seq, vec)
  <1>1. Resident(t)'
    BY DEF Local, Resident, Same
  <1>2. InFlight(t)'
    BY DEF Local, InFlight, Same
  <1>3. Buffered(t)' = Buffered(t)
    BY DEF Buffered, Same
  <1>4. Headed(t)'
    BY <1>3 DEF Local, Headed, Same
  <1>5. \A n \in Nat, v \in SUBSET Ops : Held(t, n, v)' => IsPoint(n, v)
    BY DEF Held, IsPoint, Same
  <1>. QED
    BY <1>1, <1>2, <1>4, <1>5 DEF Settled, Local

\* A step that touches neither rows nor base and shows no server a new point.
LEMMA Quiet ==
    ASSUME IInv, TypeOK', Joined',
           UNCHANGED <<sequence, rows, base>>,
           \A t \in Servers : Settled(t, base.through, base.vec),
           announced' \subseteq Stored
    PROVE  IInv'
  <1>1. Stored' = Stored
    BY DEF Stored
  <1>2. \A n \in Nat, v \in SUBSET Ops : IsPoint(n, v)' => IsPoint(n, v)
    BY DEF IsPoint, Settled
  <1>3. Chain' /\ Behind'
    BY <1>1, <1>2 DEF IInv, Chain, Behind
  <1>4. Tip' /\ Labelled' /\ LogBacked'
    BY DEF IInv, Tip, Labelled, LogBacked
  <1>5. \A t \in Servers : Local(t)'
    BY DEF Settled
  <1>. QED
    BY <1>1, <1>3, <1>4, <1>5 DEF IInv, AnnouncedDurable

\* A row adds its bytes to what is stored, and nothing else.
LEMMA InsertedRow ==
    ASSUME NEW ops, NEW vec, InsertRow(ops, vec), base' = base
    PROVE  Stored' = Stored \cup ops
  <1> DEFINE new == [seq |-> sequence + 1, ops |-> ops, vec |-> vec]
  <1>1. rows' = rows \cup {new} /\ new.ops = ops
    BY DEF InsertRow
  <1>. HIDE DEF new
  <1>2. RowOps(rows') = RowOps(rows) \cup ops
    BY <1>1 DEF RowOps
  <1>. QED
    BY <1>2 DEF Stored

\* A step that writes one row, from a sequencer that is not behind: its log
\* vector is then the last point, and the new row's vector extends it.
LEMMA Writes ==
    ASSUME IInv, TypeOK', Joined', NEW s \in Servers,
           NEW ops \in SUBSET Ops, NEW vec \in SUBSET Ops,
           InsertRow(ops, vec), base' = base,
           status[s] = "live", next[s] - 1 = sequence, logVec[s] \subseteq vec,
           ops \subseteq vec, vec \subseteq Stored \cup ops,
           \A t \in Servers : Settled(t, sequence + 1, vec),
           announced' \subseteq Stored'
    PROVE  IInv'
  <1> DEFINE new == [seq |-> sequence + 1, ops |-> ops, vec |-> vec]
  <1>1. rows' = rows \cup {new} /\ sequence' = sequence + 1 /\ sequence \in Nat
    BY DEF InsertRow, IInv, TypeOK
  <1>. /\ new.seq = sequence + 1 /\ new.ops = ops /\ new.vec = vec
    OBVIOUS
  <1>. HIDE DEF new
  <1>2. Stored' = Stored \cup ops
    BY InsertedRow
  <1>3. \A n \in Nat, v \in SUBSET Ops :
          IsPoint(n, v)' => IsPoint(n, v) \/ (n = sequence + 1 /\ v = vec)
    <2>. SUFFICES ASSUME NEW n \in Nat, NEW v \in SUBSET Ops, IsPoint(n, v)'
                  PROVE  IsPoint(n, v) \/ (n = sequence + 1 /\ v = vec)
      OBVIOUS
    <2>1. CASE \E row \in rows' : row.seq = n /\ row.vec = v
      BY <1>1, <2>1 DEF IsPoint
    <2>2. CASE base'.through = n /\ base'.vec = v
      BY <2>2 DEF IsPoint
    <2>3. CASE \E t \in Servers : Held(t, n, v)'
      BY <2>3 DEF Settled
    <2>. QED
      BY <2>1, <2>2, <2>3 DEF IsPoint
  <1>4. \A n \in Nat, v \in SUBSET Ops : IsPoint(n, v) => n <= sequence /\ v \subseteq vec
    <2>1. IsPoint(sequence, logVec[s]) /\ logVec[s] \in SUBSET Ops
      BY DEF IsPoint, Held, IInv, TypeOK
    <2>. QED
      BY <1>1, <2>1 DEF IInv, Chain, Behind
  <1>5. Chain'
    <2>. SUFFICES ASSUME NEW n \in Nat, NEW m \in Nat, NEW v \in SUBSET Ops, NEW w \in SUBSET Ops,
                         IsPoint(n, v)', IsPoint(m, w)', n <= m
                  PROVE  v \subseteq w
      BY DEF Chain
    <2>1. CASE IsPoint(n, v) /\ IsPoint(m, w)
      BY <2>1 DEF IInv, Chain
    <2>2. CASE m = sequence + 1 /\ w = vec
      BY <1>3, <1>4, <2>2
    <2>3. CASE n = sequence + 1 /\ v = vec
      <3>1. ~IsPoint(m, w)
        BY <1>1, <1>4, <2>3
      <3>. QED
        BY <1>3, <2>2, <3>1
    <2>. QED
      BY <1>3, <2>1, <2>2, <2>3
  <1>6. Behind'
    <2>. SUFFICES ASSUME NEW n \in Nat, NEW v \in SUBSET Ops, IsPoint(n, v)'
                  PROVE  n <= sequence + 1 /\ v \subseteq Stored'
      BY <1>1 DEF Behind
    <2>1. CASE IsPoint(n, v)
      <3>1. n <= sequence /\ v \subseteq Stored
        BY <2>1 DEF IInv, Behind
      <3>. QED
        BY <1>1, <1>2, <3>1
    <2>2. CASE n = sequence + 1 /\ v = vec
      BY <1>1, <1>2, <2>2
    <2>. QED
      BY <1>3, <2>1, <2>2
  <1>7. Tip'
    BY <1>1 DEF Tip
  <1>8. Labelled'
    BY <1>1 DEF IInv, Labelled
  <1>9. LogBacked'
    <2>1. \A row \in rows : row.seq \in Nat /\ row.seq <= sequence
      <3>1. \A row \in rows : row.seq \in Nat /\ row.vec \in SUBSET Ops /\ IsPoint(row.seq, row.vec)
        BY DEF IInv, TypeOK, Row, IsPoint
      <3>. QED
        BY <1>4, <3>1
    <2>2. {lower \in rows' : lower.seq <= new.seq} = rows'
      <3>1. \A lower \in rows : lower.seq <= sequence + 1
        BY <1>1, <2>1
      <3>2. sequence + 1 <= sequence + 1
        BY <1>1
      <3>. QED
        BY <1>1, <3>1, <3>2
    <2>3. vec \subseteq base'.ops \cup RowOps(rows')
      BY <1>2 DEF Stored
    <2>4. \A row \in rows : {lower \in rows : lower.seq <= row.seq}
                              \subseteq {lower \in rows' : lower.seq <= row.seq}
      BY <1>1
    <2>5. \A row \in rows :
            row.vec \subseteq base'.ops \cup RowOps({lower \in rows' : lower.seq <= row.seq})
      BY <2>4 DEF IInv, LogBacked, RowOps
    <2>. QED
      BY <1>1, <2>2, <2>3, <2>5 DEF IInv, LogBacked
  <1>10. \A t \in Servers : Local(t)'
    BY DEF Settled
  <1>. QED
    BY <1>5, <1>6, <1>7, <1>8, <1>9, <1>10 DEF IInv, AnnouncedDurable

\* A base takes the place of rows and of an older base that it contains: the
\* snapshot is a point, so every row it deletes lies below it in the chain.
LEMMA BaseContainsDeleted ==
    ASSUME IInv, NEW s \in Servers, snap[s] # NoSnap, ActivateBase(s)
    PROVE  /\ snap[s].through \in Nat /\ snap[s].vec \in SUBSET Ops
           /\ IsPoint(snap[s].through, snap[s].vec)
           /\ snap[s].ops = snap[s].vec
           /\ base.through <= snap[s].through /\ base.ops \subseteq snap[s].vec
           /\ \A row \in rows : /\ row.seq \in Nat /\ row.seq <= sequence
                                /\ row.seq <= snap[s].through => row.ops \subseteq snap[s].vec
           /\ Stored \subseteq Stored'
  <1>1. /\ snap[s].through \in Nat /\ snap[s].vec \in SUBSET Ops
        /\ base.through \in Nat /\ base.vec \in SUBSET Ops
    BY DEF IInv, TypeOK, Snap, Base
  <1>2. \A row \in rows : row.seq \in Nat /\ row.vec \in SUBSET Ops
    BY DEF IInv, TypeOK, Row
  <1>3. IsPoint(snap[s].through, snap[s].vec)
    BY DEF IsPoint, Held
  <1>4. snap[s].ops = snap[s].vec
    BY DEF IInv, Local, Resident
  <1>5. base.through <= snap[s].through
    BY <1>1 DEF ActivateBase, Superseded
  <1>6. base.ops \subseteq snap[s].vec
    <2>1. IsPoint(base.through, base.vec)
      BY DEF IsPoint
    <2>. QED
      BY <1>1, <1>3, <1>5, <2>1 DEF IInv, Chain, Labelled
  <1>7. \A row \in rows : /\ row.seq \in Nat /\ row.seq <= sequence
                          /\ row.seq <= snap[s].through => row.ops \subseteq snap[s].vec
    <2>1. \A row \in rows : IsPoint(row.seq, row.vec)
      BY DEF IsPoint
    <2>. QED
      BY <1>1, <1>2, <1>3, <2>1 DEF IInv, Chain, Behind, Labelled
  <1>8. Stored \subseteq Stored'
    <2>1. base'.ops = snap[s].vec /\ rows' = {row \in rows : row.seq > snap[s].through}
      BY <1>4 DEF ActivateBase
    <2>2. \A row \in rows : row.ops \subseteq base'.ops \/ row \in rows'
      BY <1>1, <1>7, <2>1
    <2>. QED
      BY <1>6, <2>1, <2>2 DEF Stored, RowOps
  <1>. QED
    BY <1>1, <1>3, <1>4, <1>5, <1>6, <1>7, <1>8

\* A step that activates a base, and shows no server a new point.
LEMMA Activates ==
    ASSUME IInv, TypeOK', Joined', NEW s \in Servers, snap[s] # NoSnap, ActivateBase(s),
           \A t \in Servers : Settled(t, base.through, base.vec),
           announced' = announced
    PROVE  IInv'
  <1>1. /\ base'.through = snap[s].through /\ base'.vec = snap[s].vec /\ base'.ops = snap[s].vec
        /\ rows' = {row \in rows : row.seq > snap[s].through}
        /\ sequence' = sequence /\ sequence \in Nat /\ snap[s].through <= sequence
    BY BaseContainsDeleted DEF ActivateBase, MayWriteBase, IInv, TypeOK
  <1>2. Stored \subseteq Stored'
    BY BaseContainsDeleted
  <1>3. \A n \in Nat, v \in SUBSET Ops : IsPoint(n, v)' => IsPoint(n, v)
    <2>. SUFFICES ASSUME NEW n \in Nat, NEW v \in SUBSET Ops, IsPoint(n, v)'
                  PROVE  IsPoint(n, v)
      OBVIOUS
    <2>1. CASE \E row \in rows' : row.seq = n /\ row.vec = v
      BY <1>1, <2>1 DEF IsPoint
    <2>2. CASE base'.through = n /\ base'.vec = v
      BY <1>1, <2>2, BaseContainsDeleted
    <2>3. CASE \E t \in Servers : Held(t, n, v)'
      <3>1. IsPoint(base.through, base.vec)
        BY DEF IsPoint
      <3>. QED
        BY <2>3, <3>1 DEF Settled
    <2>. QED
      BY <2>1, <2>2, <2>3 DEF IsPoint
  <1>4. Chain'
    BY <1>3 DEF IInv, Chain
  <1>5. Behind'
    BY <1>1, <1>2, <1>3 DEF IInv, Behind
  <1>6. Tip'
    <2>1. base.through \in Nat /\ base.through <= snap[s].through /\ snap[s].through \in Nat
      BY BaseContainsDeleted DEF IInv, TypeOK, Base
    <2>2. CASE rows = {}
      BY <1>1, <2>1, <2>2 DEF IInv, Tip
    <2>3. CASE rows # {}
      <3>1. PICK last \in rows : last.seq = sequence
        BY <2>3 DEF IInv, Tip
      <3>2. CASE sequence > snap[s].through
        BY <1>1, <3>1, <3>2 DEF Tip
      <3>3. CASE ~(sequence > snap[s].through)
        <4>1. \A row \in rows : ~(row.seq > snap[s].through)
          BY <1>1, <2>1, <3>3, BaseContainsDeleted
        <4>. QED
          BY <1>1, <2>1, <3>3, <4>1 DEF Tip
      <3>. QED
        BY <3>2, <3>3
    <2>. QED
      BY <2>2, <2>3
  <1>7. Labelled'
    BY <1>1 DEF IInv, Labelled
  <1>8. LogBacked'
    <2>. SUFFICES ASSUME NEW row \in rows'
                  PROVE  row.vec \subseteq
                           base'.ops \cup RowOps({lower \in rows' : lower.seq <= row.seq})
      BY <1>1 DEF LogBacked
    <2>1. row \in rows
      BY <1>1
    <2>2. row.vec \subseteq base.ops \cup RowOps({lower \in rows : lower.seq <= row.seq})
      BY <2>1 DEF IInv, LogBacked
    <2>3. base.ops \subseteq base'.ops
      BY <1>1, BaseContainsDeleted
    <2>4. \A lower \in rows : lower.ops \subseteq base'.ops \/ lower \in rows'
      BY <1>1, BaseContainsDeleted
    <2>. QED
      BY <2>2, <2>3, <2>4 DEF RowOps
  <1>9. \A t \in Servers : Local(t)'
    BY DEF Settled
  <1>10. AnnouncedDurable'
    BY <1>2 DEF IInv, AnnouncedDurable
  <1>. QED
    BY <1>4, <1>5, <1>6, <1>7, <1>8, <1>9, <1>10 DEF IInv

-----------------------------------------------------------------------------
(* Buffers *)

\* partial_end_vv covers the changes the batch carries.
LEMMA BatchInEnd == \A batch \in SUBSET Ops : batch \subseteq End(batch)
  <1>. SUFFICES ASSUME NEW batch \in SUBSET Ops, NEW op \in batch
                PROVE  op \in End(batch)
    OBVIOUS
  <1>1. op \in Ops /\ op[2] \in 1..MaxOps
    BY DEF Ops
  <1>2. op[2] <= op[2]
    BY <1>1, MaxOpsAssumption
  <1>. QED
    BY <1>1, <1>2 DEF End

\* An empty buffer carries and covers nothing.
LEMMA EmptyBuffer == BatchesThrough(<<>>, Len(<<>>)) = {} /\ BatchEnds(<<>>, Len(<<>>)) = {}
  <1>1. 1..Len(<<>>) = {}
    OBVIOUS
  <1>. QED
    BY <1>1 DEF BatchesThrough, BatchEnds

\* A batch pushed behind a prefix leaves the prefix alone and adds its changes.
LEMMA PushedBuffer ==
    ASSUME NEW b \in Seq(Batches), NEW x \in Batches
    PROVE  /\ Append(b, x) \in Seq(Batches) /\ Len(Append(b, x)) = Len(b) + 1
           /\ \A n \in 0..Len(b) : BatchesThrough(Append(b, x), n) = BatchesThrough(b, n)
           /\ BatchesThrough(Append(b, x), Len(b) + 1) = BatchesThrough(b, Len(b)) \cup x
           /\ \A i \in 1..(Len(b) + 1) : Append(b, x)[i] \in {b[j] : j \in 1..Len(b)} \cup {x}
  <1> DEFINE a == Append(b, x)
  <1>1. a \in Seq(Batches) /\ Len(a) = Len(b) + 1 /\ Len(b) \in Nat
    OBVIOUS
  <1>2. (\A i \in 1..Len(b) : a[i] = b[i]) /\ a[Len(b) + 1] = x
    OBVIOUS
  <1>. HIDE DEF a
  <1>3. \A n \in 0..Len(b) : BatchesThrough(a, n) = BatchesThrough(b, n)
    <2>. SUFFICES ASSUME NEW n \in 0..Len(b)
                  PROVE  BatchesThrough(a, n) = BatchesThrough(b, n)
      OBVIOUS
    <2>1. \A i \in 1..n : a[i] = b[i]
      BY <1>1, <1>2
    <2>. QED
      BY <2>1 DEF BatchesThrough
  <1>4. 1..(Len(b) + 1) = 1..Len(b) \cup {Len(b) + 1}
    BY <1>1
  <1>5. BatchesThrough(a, Len(b) + 1) = BatchesThrough(b, Len(b)) \cup x
    BY <1>2, <1>4 DEF BatchesThrough
  <1>6. \A i \in 1..(Len(b) + 1) : a[i] \in {b[j] : j \in 1..Len(b)} \cup {x}
    BY <1>2, <1>4
  <1>. QED
    BY <1>1, <1>3, <1>5, <1>6 DEF a

\* Inner::retire of a prefix: what remains is of the buffer, and prefix and
\* remainder together carry everything the buffer did.
LEMMA RetiredBuffer ==
    ASSUME NEW b \in Seq(Batches), NEW n \in Nat, n <= Len(b)
    PROVE  LET r == SubSeq(b, n + 1, Len(b)) IN
           /\ Len(r) \in Nat
           /\ BatchesThrough(b, Len(b)) \subseteq BatchesThrough(b, n) \cup BatchesThrough(r, Len(r))
           /\ \A i \in 1..Len(r) : \E j \in 1..Len(b) : r[i] = b[j]
  <1> DEFINE r == SubSeq(b, n + 1, Len(b))
  <1>1. /\ r \in Seq(Batches) /\ Len(r) = Len(b) - n /\ Len(b) \in Nat
        /\ \A i \in 1..(Len(b) - n) : r[i] = b[n + i]
    <2>1. Len(b) \in Nat /\ \A i \in (n + 1)..Len(b) : b[i] \in Batches
      OBVIOUS
    <2>2. r \in Seq(Batches) /\ Len(r) = Len(b) - n
      BY <2>1, SubSeqProperties
    <2>3. \A i \in 1..(Len(b) - n) : r[i] = b[n + i]
      BY <2>1, SubSeqProperties
    <2>. QED
      BY <2>1, <2>2, <2>3
  <1>. HIDE DEF r
  <1>2. \A i \in 1..Len(r) : n + i \in 1..Len(b) /\ r[i] = b[n + i]
    BY <1>1
  <1>3. \A j \in 1..Len(b) : j \in 1..n \/ (j - n \in 1..Len(r) /\ r[j - n] = b[j])
    BY <1>1
  <1>4. BatchesThrough(b, Len(b)) \subseteq BatchesThrough(b, n) \cup BatchesThrough(r, Len(r))
    BY <1>3 DEF BatchesThrough
  <1>. QED
    BY <1>1, <1>2, <1>4 DEF r

-----------------------------------------------------------------------------
(* The actions, one group at a time *)

\* A join begun by a browser is finished for it or dropped.
LEMMA JoinedNext ==
    ASSUME TypeOK, Joined, Next
    PROVE  Joined'
  <1>. USE DEF store, inner, tasks, world
  <1>1. ASSUME NEW s \in Servers, Server(s)
        PROVE  Joined'
    <2>1. CASE JoinRegister(s)
      <3>1. joining' = [joining EXCEPT ![s] =
                          [@ EXCEPT !.pc = "registered", !.ops = Buffered(s), !.vec = headVec[s],
                                    !.base = ~BaseCovered(s, joining[s].cv)]]
        BY <2>1 DEF JoinRegister
      <3>2. joining[s].client \in Clients
        BY <2>1 DEF JoinRegister, Joined
      <3>3. joining[s] \in Joining /\ joining \in [Servers -> Joining]
        BY DEF TypeOK
      <3>4. joining'[s].client = joining[s].client
        BY <3>1, <3>3 DEF Joining
      <3>5. \A t \in Servers \ {s} : joining'[t] = joining[t]
        BY <3>1, <3>3
      <3>. QED
        BY <3>2, <3>4, <3>5 DEF Joined
    <2>2. CASE Crash(s) \/ Stop(s) \/ JoinReply(s)
      <3>1. joining' = [joining EXCEPT ![s] = NoJoin]
        BY <2>2 DEF Crash, Stop, Exit, JoinReply
      <3>. QED
        BY <3>1 DEF Joined, NoJoin, TypeOK
    <2>3. CASE \E r \in Commands : \E source \in Prepared(r) :
                 Command(s, r, source) \/ CommandLost(s, r, source)
      BY <2>3 DEF Command, CommandLost, CommandCommit, Joined
    <2>4. CASE UNCHANGED joining
      BY <2>4 DEF Joined
    <2>5. \/ JoinRegister(s) \/ Crash(s) \/ Stop(s) \/ JoinReply(s) \/ UNCHANGED joining
          \/ \E r \in Commands : \E source \in Prepared(r) :
                 Command(s, r, source) \/ CommandLost(s, r, source)
      BY <1>1 DEF Server, Claim, LoseLock, Admit, RetireIdle, RetireFenced, FlushBegin, FlushCommit,
                  FlushError, ResolveWritten, ResolveFenced, ResolveRetry, FlushRetire, BuildCache,
                  EvictCache, Snapshot, ActivateCommit, ActivateLost, ActivateNoop, ActivateError,
                  Activated
    <2>. QED
      BY <2>1, <2>2, <2>3, <2>4, <2>5
  <1>2. ASSUME NEW c \in Clients, Client(c)
        PROVE  Joined'
    <2>1. CASE Disconnect(c)
      BY <2>1 DEF Disconnect, Joined, NoJoin
    <2>2. CASE \E s \in Servers : JoinRead(s, c)
      <3>1. PICK s \in Servers : JoinRead(s, c)
        BY <2>2
      <3>2. joining'[s].client = c /\ \A t \in Servers \ {s} : joining'[t] = joining[t]
        BY <3>1 DEF JoinRead, NoJoin, TypeOK
      <3>. QED
        BY <3>2 DEF Joined
    <2>3. CASE UNCHANGED joining
      BY <2>3 DEF Joined
    <2>4. Disconnect(c) \/ (\E s \in Servers : JoinRead(s, c)) \/ UNCHANGED joining
      BY <1>2 DEF Client, Edit, Ingest, IngestResend, Accept
    <2>. QED
      BY <2>1, <2>2, <2>3, <2>4
  <1>. QED
    BY <1>1, <1>2 DEF Next

\* A sequencer that leaves memory holds no vector any more; its compaction may.
LEMMA Forgotten ==
    ASSUME TypeOK, NEW s \in Servers, Local(s), Forget(s), flight'[s].pc = "idle",
           \/ snap'[s] = NoSnap
           \/ snap'[s] = snap[s] /\ (snap[s] = NoSnap \/ snap[s].old)
           \/ snap[s] # NoSnap /\ snap'[s] = [snap[s] EXCEPT !.old = TRUE],
           NEW seq, NEW vec
    PROVE  Settled(s, seq, vec)
  <1>1. status'[s] = "absent" /\ buffer'[s] = <<>> /\ logVec'[s] = {} /\ headVec'[s] = {}
    BY DEF Forget, TypeOK
  <1>2. snap[s] \in Snap
    BY DEF TypeOK
  <1>3. snap'[s] # NoSnap => /\ snap[s] # NoSnap
                             /\ snap'[s].through = snap[s].through /\ snap'[s].old
                             /\ snap'[s].vec = snap[s].vec /\ snap'[s].ops = snap[s].ops
    BY <1>2 DEF Snap
  <1>4. Resident(s)'
    BY <1>1, <1>3 DEF Local, Resident
  <1>5. InFlight(s)'
    BY DEF InFlight
  <1>6. Headed(s)'
    BY <1>1 DEF Headed
  <1>7. \A n \in Nat, v \in SUBSET Ops : Held(s, n, v)' => IsPoint(n, v)
    BY <1>1, <1>3 DEF Held, IsPoint
  <1>. QED
    BY <1>4, <1>5, <1>6, <1>7 DEF Settled, Local

\* Claims, lost locks, crashes, shutdowns, admissions and retirements.
LEMMA OwnershipKeeps ==
    ASSUME IInv, TypeOK', Joined', NEW s \in Servers,
           \/ Claim(s) \/ LoseLock(s) \/ Crash(s) \/ Stop(s)
           \/ Admit(s) \/ RetireIdle(s) \/ RetireFenced(s)
    PROVE  IInv'
  <1>. USE DEF store, inner, tasks, world
  <1>1. TypeOK /\ (\A t \in Servers : Local(t)) /\ announced \subseteq Stored
    BY DEF IInv, AnnouncedDurable
  <1>2. UNCHANGED <<sequence, rows, base, announced>> /\ Stored' = Stored
    BY DEF Claim, LoseLock, Crash, Stop, Exit, Admit, RetireIdle, RetireFenced, Stored
  <1>3. \A t \in Servers : Same(t) => Settled(t, base.through, base.vec)
    BY <1>1, <1>2, Frame
  <1>4. CASE Claim(s) \/ LoseLock(s)
    <2>1. \A t \in Servers : Same(t)
      BY <1>4 DEF Claim, LoseLock, Same
    <2>. QED
      BY <1>1, <1>2, <1>3, <2>1, Quiet
  <1>5. CASE Crash(s) \/ Stop(s)
    <2>1. Exit(s) /\ Forget(s)
      BY <1>5 DEF Crash, Stop, Exit
    <2>2. \A t \in Servers \ {s} : Same(t)
      BY <1>1, <2>1 DEF Exit, Forget, Same, TypeOK
    <2>3. flight'[s].pc = "idle" /\ snap'[s] = NoSnap
      BY <1>1, <2>1 DEF Exit, NoFlight, TypeOK
    <2>4. Settled(s, base.through, base.vec)
      BY <1>1, <2>1, <2>3, Forgotten
    <2>. QED
      BY <1>1, <1>2, <1>3, <2>2, <2>4, Quiet
  <1>6. CASE RetireIdle(s) \/ RetireFenced(s)
    <2>1. Forget(s) /\ GateFree(s) /\ UNCHANGED flight
      BY <1>6 DEF RetireIdle, RetireFenced
    <2>2. \A t \in Servers \ {s} : Same(t)
      BY <1>1, <1>6, <2>1 DEF RetireIdle, RetireFenced, Forget, Same, TypeOK
    <2>3. \/ snap'[s] = NoSnap
          \/ snap'[s] = snap[s] /\ (snap[s] = NoSnap \/ snap[s].old)
          \/ snap[s] # NoSnap /\ snap'[s] = [snap[s] EXCEPT !.old = TRUE]
      BY <1>1, <1>6 DEF RetireIdle, RetireFenced, TypeOK
    <2>4. flight'[s].pc = "idle"
      BY <2>1 DEF GateFree
    <2>5. Settled(s, base.through, base.vec)
      BY <1>1, <2>1, <2>3, <2>4, Forgotten
    <2>. QED
      BY <1>1, <1>2, <1>3, <2>2, <2>5, Quiet
  <1>7. CASE Admit(s)
    <2>1. \A t \in Servers \ {s} : Same(t)
      BY <1>1, <1>7 DEF Admit, Same, TypeOK
    <2>2. LogVector \in SUBSET Ops /\ IsPoint(sequence, LogVector) /\ sequence \in Nat
      BY LogVectorIsTip DEF IInv, TypeOK
    <2>3. /\ status[s] = "absent" /\ status'[s] = "live" /\ next'[s] = sequence + 1
          /\ logVec'[s] = LogVector /\ headVec'[s] = LogVector /\ buffer'[s] = <<>>
          /\ flight'[s] = flight[s] /\ flight[s].pc = "idle" /\ snap'[s] = snap[s]
      <3>1. status[s] = "absent" => buffer[s] = <<>> /\ flight[s].pc = "idle"
        BY <1>1 DEF Local, Resident, InFlight
      <3>. QED
        BY <1>1, <1>7, <3>1 DEF Admit, TypeOK
    <2>4. LogVector \subseteq Stored'
      BY <1>2, <2>2 DEF IInv, Behind
    <2>5. Resident(s)'
      BY <1>1, <2>2, <2>3 DEF Local, Resident
    <2>6. InFlight(s)'
      BY <2>3 DEF InFlight
    <2>7. Headed(s)'
      BY <2>3, <2>4 DEF Headed
    <2>8. \A n \in Nat, v \in SUBSET Ops : Held(s, n, v)' => IsPoint(n, v)
      <3>1. sequence + 1 - 1 = sequence
        BY <2>2
      <3>. QED
        BY <2>2, <2>3, <3>1 DEF Held, IsPoint
    <2>9. Settled(s, base.through, base.vec)
      BY <2>5, <2>6, <2>7, <2>8 DEF Settled, Local
    <2>. QED
      BY <1>1, <1>2, <1>3, <2>1, <2>9, Quiet
  <1>. QED
    BY <1>4, <1>5, <1>6, <1>7

\* A flush begins, its transaction fails or is resolved.
LEMMA FlushKeeps ==
    ASSUME IInv, TypeOK', Joined', NEW s \in Servers,
           \/ FlushBegin(s) \/ FlushError(s)
           \/ ResolveWritten(s) \/ ResolveFenced(s) \/ ResolveRetry(s)
    PROVE  IInv'
  <1>. USE DEF store, inner, tasks, world
  <1>1. TypeOK /\ (\A t \in Servers : Local(t)) /\ announced \subseteq Stored
    BY DEF IInv, AnnouncedDurable
  <1>2. UNCHANGED <<sequence, rows, base, announced>> /\ Stored' = Stored
    BY DEF FlushBegin, FlushError, ResolveWritten, ResolveFenced, ResolveRetry, Stored
  <1>3. \A t \in Servers : Same(t) => Settled(t, base.through, base.vec)
    BY <1>1, <1>2, Frame
  <1>4. \A t \in Servers \ {s} : Same(t)
    BY <1>1 DEF FlushBegin, FlushError, ResolveWritten, ResolveFenced, ResolveRetry, Fence, Same,
                TypeOK
  <1>5. /\ next'[s] = next[s] /\ logVec'[s] = logVec[s] /\ headVec'[s] = headVec[s]
        /\ buffer'[s] = buffer[s] /\ snap'[s] = snap[s]
    BY DEF FlushBegin, FlushError, ResolveWritten, ResolveFenced, ResolveRetry
  <1>6. Buffered(s)' = Buffered(s) /\ Headed(s)'
    <2>1. Buffered(s)' = Buffered(s)
      BY <1>5 DEF Buffered
    <2>. QED
      BY <1>1, <1>2, <1>5, <2>1 DEF Local, Headed
  <1>7. status[s] # "absent" /\ status'[s] # "absent"
    BY <1>1 DEF FlushBegin, FlushError, ResolveWritten, ResolveFenced, ResolveRetry, Fence, TypeOK,
                Local, InFlight
  <1>8. Resident(s)'
    BY <1>1, <1>5, <1>7 DEF Local, Resident
  <1>9. SUFFICES /\ InFlight(s)'
                 /\ flight'[s].pc = "written" =>
                      /\ \E row \in rows : row.seq = flight[s].exp + 1 /\ row.vec = flight[s].vec
                      /\ flight'[s].exp = flight[s].exp /\ flight'[s].vec = flight[s].vec
    <2>1. \A n \in Nat, v \in SUBSET Ops : Held(s, n, v)' => IsPoint(n, v)
      BY <1>5, <1>7, <1>9 DEF Held, IsPoint
    <2>2. Settled(s, base.through, base.vec)
      BY <1>6, <1>8, <1>9, <2>1 DEF Settled, Local
    <2>. QED
      BY <1>1, <1>2, <1>3, <1>4, <2>2, Quiet
  <1>10. CASE FlushBegin(s)
    <2>1. flight'[s] = [pc |-> "sent", take |-> Len(buffer[s]), exp |-> next[s] - 1,
                        vec |-> VectorThrough(s), ops |-> Buffered(s)]
      BY <1>1, <1>10 DEF FlushBegin, TypeOK
    <2>2. /\ flight'[s].pc = "sent" /\ flight'[s].take = Len(buffer[s])
          /\ flight'[s].exp = next[s] - 1
          /\ flight'[s].vec = VectorThrough(s) /\ flight'[s].ops = Buffered(s)
      BY <2>1
    <2>3. status'[s] = "live"
      BY <1>10 DEF FlushBegin
    <2>4. Len(buffer[s]) <= Len(buffer[s])
      BY <1>1, SequencerTyped
    <2>5. logVec[s] \subseteq VectorThrough(s)
      BY DEF VectorThrough
    <2>6. Buffered(s) \subseteq VectorThrough(s)
      <3>1. \A i \in 1..Len(buffer[s]) : buffer[s][i] \in SUBSET Ops
        BY <1>1, SequencerTyped DEF Batches
      <3>2. \A i \in 1..Len(buffer[s]) : buffer[s][i] \subseteq End(buffer[s][i])
        BY <3>1, BatchInEnd
      <3>. QED
        BY <3>2 DEF Buffered, VectorThrough, BatchesThrough, BatchEnds
    <2>7. VectorThrough(s) \subseteq headVec[s] /\ headVec[s] \subseteq Stored \cup Buffered(s)
      BY <1>1 DEF Local, Headed, VectorThrough, BatchEnds
    <2>8. InFlight(s)'
      BY <1>2, <1>5, <2>2, <2>3, <2>4, <2>5, <2>6, <2>7 DEF InFlight, Buffered
    <2>. QED
      BY <2>2, <2>8
  <1>11. CASE FlushError(s) \/ ResolveWritten(s)
    <2>1. /\ flight[s].pc # "idle" /\ flight[s] \in Flight /\ status'[s] = status[s]
          /\ \E pc \in {"written", "failed"} : flight'[s] = [flight[s] EXCEPT !.pc = pc]
      BY <1>1, <1>11 DEF FlushError, ResolveWritten, TypeOK
    <2>2. /\ flight'[s].take = flight[s].take /\ flight'[s].exp = flight[s].exp
          /\ flight'[s].vec = flight[s].vec /\ flight'[s].ops = flight[s].ops
      BY <2>1 DEF Flight
    <2>3. InFlight(s)'
      BY <1>1, <1>2, <1>5, <2>1, <2>2 DEF Local, InFlight
    <2>4. CASE FlushError(s)
      <3>1. flight'[s].pc = "failed"
        BY <1>1, <2>4 DEF FlushError, TypeOK, Flight
      <3>. QED
        BY <2>3, <3>1
    <2>5. CASE ResolveWritten(s)
      BY <2>2, <2>3, <2>5 DEF ResolveWritten, RowWritten
    <2>. QED
      BY <1>11, <2>4, <2>5
  <1>12. CASE ResolveFenced(s) \/ ResolveRetry(s)
    <2>1. flight'[s].pc = "idle"
      BY <1>1, <1>12 DEF ResolveFenced, ResolveRetry, NoFlight, TypeOK
    <2>. QED
      BY <2>1 DEF InFlight
  <1>. QED
    BY <1>10, <1>11, <1>12

\* The flush's transaction commits, whether or not its reply arrives.
LEMMA FlushCommitKeeps ==
    ASSUME IInv, TypeOK', Joined', NEW s \in Servers, FlushCommit(s)
    PROVE  IInv'
  <1>. USE DEF store, inner, tasks, world
  <1>1. TypeOK /\ (\A t \in Servers : Local(t)) /\ announced \subseteq Stored
    BY DEF IInv, AnnouncedDurable
  <1>2. /\ flight[s] \in Flight /\ flight[s].pc = "sent" /\ InFlight(s)
        /\ flight[s].ops \in SUBSET Ops /\ flight[s].vec \in SUBSET Ops
    BY <1>1 DEF FlushCommit, TypeOK, Flight, Local
  <1>3. /\ InsertRow(flight[s].ops, flight[s].vec) /\ base' = base /\ announced' = announced
        /\ sequence = flight[s].exp
    BY DEF FlushCommit, CanWrite
  <1>4. Stored' = Stored \cup flight[s].ops
    BY <1>2, <1>3, InsertedRow
  <1>5. \A t \in Servers \ {s} : Same(t)
    BY <1>1 DEF FlushCommit, Same, TypeOK
  <1>6. /\ status'[s] = status[s] /\ next'[s] = next[s] /\ logVec'[s] = logVec[s]
        /\ headVec'[s] = headVec[s] /\ buffer'[s] = buffer[s] /\ snap'[s] = snap[s]
    BY DEF FlushCommit
  <1>7. /\ flight'[s].take = flight[s].take /\ flight'[s].exp = flight[s].exp
        /\ flight'[s].vec = flight[s].vec /\ flight'[s].ops = flight[s].ops
    <2>1. \E pc \in {"written", "failed"} : flight'[s] = [flight[s] EXCEPT !.pc = pc]
      BY <1>1 DEF FlushCommit, TypeOK
    <2>. QED
      BY <1>2, <2>1 DEF Flight
  <1>8. Resident(s)'
    BY <1>1, <1>6 DEF Local, Resident
  <1>9. InFlight(s)'
    BY <1>2, <1>4, <1>6, <1>7 DEF InFlight
  <1>10. Headed(s)'
    <2>1. Buffered(s)' = Buffered(s)
      BY <1>6 DEF Buffered
    <2>. QED
      BY <1>1, <1>4, <1>6, <2>1 DEF Local, Headed
  <1>11. \A n \in Nat, v \in SUBSET Ops :
           Held(s, n, v)' => IsPoint(n, v) \/ (n = sequence + 1 /\ v = flight[s].vec)
    BY <1>3, <1>6, <1>7 DEF Held, IsPoint
  <1>12. \A t \in Servers : Settled(t, sequence + 1, flight[s].vec)
    <2>1. Settled(s, sequence + 1, flight[s].vec)
      BY <1>8, <1>9, <1>10, <1>11 DEF Settled, Local
    <2>. QED
      BY <1>1, <1>4, <1>5, <2>1, Frame
  <1>13. /\ status[s] = "live" /\ next[s] - 1 = sequence /\ logVec[s] \subseteq flight[s].vec
         /\ flight[s].ops \subseteq flight[s].vec
         /\ flight[s].vec \subseteq Stored \cup flight[s].ops
    BY <1>2, <1>3 DEF InFlight
  <1>. QED
    BY <1>1, <1>2, <1>3, <1>4, <1>12, <1>13, Writes

\* The flushed prefix is retired and the browsers are told.
LEMMA FlushRetireKeeps ==
    ASSUME IInv, TypeOK', Joined', NEW s \in Servers, FlushRetire(s)
    PROVE  IInv'
  <1>. USE DEF store, inner, tasks, world
  <1>1. TypeOK /\ (\A t \in Servers : Local(t)) /\ announced \subseteq Stored
    BY DEF IInv, AnnouncedDurable
  <1>2. /\ flight[s].pc = "written" /\ InFlight(s) /\ flight[s].take \in Nat
        /\ flight[s].exp \in Nat /\ flight[s].vec \in SUBSET Ops
    BY <1>1 DEF FlushRetire, TypeOK, Flight, Local
  <1>3. UNCHANGED <<sequence, rows, base>> /\ Stored' = Stored
    BY DEF FlushRetire, Stored
  <1>4. \A t \in Servers \ {s} : Same(t)
    BY <1>1 DEF FlushRetire, Same, TypeOK
  <1>5. IsPoint(flight[s].exp + 1, flight[s].vec) /\ flight[s].vec \subseteq Stored
    <2>1. IsPoint(flight[s].exp + 1, flight[s].vec)
      BY <1>2 DEF IsPoint, Held
    <2>. QED
      BY <1>2, <2>1 DEF IInv, Behind
  <1>6. /\ status'[s] = "live" /\ next'[s] = flight[s].exp + 2 /\ logVec'[s] = flight[s].vec
        /\ headVec'[s] = headVec[s] /\ snap'[s] = snap[s] /\ flight'[s].pc = "idle"
        /\ buffer'[s] = SubSeq(buffer[s], flight[s].take + 1, Len(buffer[s]))
    BY <1>1, <1>2 DEF FlushRetire, InFlight, NoFlight, TypeOK
  <1>7. Resident(s)'
    BY <1>1, <1>2, <1>6 DEF Local, Resident
  <1>8. InFlight(s)'
    BY <1>6 DEF InFlight
  <1>9. Headed(s)'
    <2>1. /\ buffer[s] \in Seq(Batches) /\ flight[s].take <= Len(buffer[s])
          /\ BatchesThrough(buffer[s], flight[s].take) = flight[s].ops
          /\ flight[s].ops \subseteq flight[s].vec /\ flight[s].vec \subseteq headVec[s]
      BY <1>1, <1>2, SequencerTyped DEF InFlight
    <2>2. /\ Buffered(s) \subseteq flight[s].ops \cup Buffered(s)'
          /\ \A i \in 1..Len(buffer'[s]) : \E j \in 1..Len(buffer[s]) : buffer'[s][i] = buffer[s][j]
      <3> DEFINE r == SubSeq(buffer[s], flight[s].take + 1, Len(buffer[s]))
      <3>1. /\ BatchesThrough(buffer[s], Len(buffer[s]))
                 \subseteq flight[s].ops \cup BatchesThrough(r, Len(r))
            /\ \A i \in 1..Len(r) : \E j \in 1..Len(buffer[s]) : r[i] = buffer[s][j]
        BY <1>2, <2>1, RetiredBuffer
      <3>2. buffer'[s] = r
        BY <1>6
      <3>. HIDE DEF r
      <3>. QED
        BY <3>1, <3>2 DEF Buffered
    <2>3. /\ \A i \in 1..Len(buffer[s]) : End(buffer[s][i]) \subseteq headVec[s]
          /\ headVec[s] \subseteq Stored \cup Buffered(s)
      BY <1>1 DEF Local, Headed
    <2>4. \A i \in 1..Len(buffer'[s]) : End(buffer'[s][i]) \subseteq headVec'[s]
      BY <1>6, <2>2, <2>3
    <2>5. headVec'[s] \subseteq Stored' \cup Buffered(s)'
      BY <1>3, <1>5, <1>6, <2>1, <2>2, <2>3
    <2>. QED
      BY <1>6, <2>1, <2>4, <2>5 DEF Headed
  <1>10. \A n \in Nat, v \in SUBSET Ops : Held(s, n, v)' => IsPoint(n, v)
    <2>1. next'[s] - 1 = flight[s].exp + 1
      BY <1>2, <1>6
    <2>2. \A n \in Nat, v \in SUBSET Ops :
            Held(s, n, v)' => Held(s, n, v) \/ (n = flight[s].exp + 1 /\ v = flight[s].vec)
      BY <1>6, <2>1 DEF Held
    <2>. QED
      BY <1>5, <2>2 DEF IsPoint
  <1>11. Settled(s, base.through, base.vec)
    BY <1>7, <1>8, <1>9, <1>10 DEF Settled, Local
  <1>12. announced' \subseteq Stored
    BY <1>1, <1>5 DEF FlushRetire, Told
  <1>. QED
    BY <1>1, <1>3, <1>4, <1>11, <1>12, Frame, Quiet

\* A command commits: with a row when there is something to write, and with
\* only its record otherwise; with a reply, or with the reply lost.
LEMMA CommandKeeps ==
    ASSUME IInv, TypeOK', Joined', NEW s \in Servers, NEW r \in Commands,
           NEW source \in Prepared(r), Command(s, r, source) \/ CommandLost(s, r, source)
    PROVE  IInv'
  <1>. USE DEF store, inner, tasks, world
  <1> DEFINE ops == Buffered(s) \cup source
             vec == VectorThrough(s) \cup End(source)
  <1>1. TypeOK /\ (\A t \in Servers : Local(t)) /\ announced \subseteq Stored
    BY DEF IInv, AnnouncedDurable
  <1>2. CommandCommit(s, r, source) /\ status[s] = "live" /\ flight[s].pc = "idle" /\ base' = base
    BY DEF Command, CommandLost, CommandCommit, GateFree
  <1>3. source \in SUBSET Ops /\ End(source) \in SUBSET Ops /\ End(source) \subseteq Stored \cup source
    <2>1. source \in SUBSET Ops
      BY PreparedTyped
    <2>2. CASE source = {}
      BY <2>2 DEF End
    <2>3. CASE source # {}
      <3>1. PICK m \in 1..MaxOps : source = {<<r, m>>} /\ \A k \in 1..(m - 1) : <<r, k>> \in Stored
        BY <2>3 DEF Prepared
      <3>2. ASSUME NEW op \in End(source)
            PROVE  op \in Stored \cup source
        <4>1. op \in Peers \X (1..MaxOps) /\ op[1] = r /\ op[2] <= m
          BY <3>1, <3>2 DEF End, Ops
        <4>2. op = <<r, op[2]>> /\ op[2] \in 1..MaxOps
          BY <4>1
        <4>3. op[2] \in 1..(m - 1) \/ op[2] = m
          BY <4>1, <4>2, MaxOpsAssumption
        <4>. QED
          BY <3>1, <4>2, <4>3
      <3>. QED
        BY <2>1, <3>2 DEF End
    <2>. QED
      BY <2>1, <2>2, <2>3
  <1>4. ops \in SUBSET Ops /\ vec \in SUBSET Ops
    BY <1>1, <1>3, SequencerTyped
  <1>5. /\ logVec[s] \subseteq vec /\ ops \subseteq vec /\ vec \subseteq Stored \cup ops
        /\ vec \subseteq headVec[s] \cup End(source)
    <2>1. VectorThrough(s) \subseteq headVec[s] /\ headVec[s] \subseteq Stored \cup Buffered(s)
      BY <1>1 DEF Local, Headed, VectorThrough, BatchEnds
    <2>2. Buffered(s) \subseteq VectorThrough(s)
      <3>1. \A i \in 1..Len(buffer[s]) : buffer[s][i] \in SUBSET Ops
        BY <1>1, SequencerTyped DEF Batches
      <3>2. \A i \in 1..Len(buffer[s]) : buffer[s][i] \subseteq End(buffer[s][i])
        BY <3>1, BatchInEnd
      <3>. QED
        BY <3>2 DEF Buffered, VectorThrough, BatchesThrough, BatchEnds
    <2>3. source \subseteq End(source)
      BY <1>3, BatchInEnd
    <2>. QED
      BY <1>3, <2>1, <2>2, <2>3 DEF VectorThrough
  <1>6. \A t \in Servers \ {s} : Same(t)
    <2>1. CASE Command(s, r, source)
      BY <1>1, <2>1 DEF Command, CommandCommit, Same, TypeOK
    <2>2. CASE CommandLost(s, r, source)
      BY <2>2 DEF CommandLost, CommandCommit, Same
    <2>. QED
      BY <2>1, <2>2
  <1>7. CASE buffer[s] = <<>> /\ source = {}
    <2>1. UNCHANGED <<sequence, rows, base>> /\ Stored' = Stored /\ announced' = announced
      BY <1>2, <1>7 DEF CommandCommit, Command, CommandLost, Stored
    <2>2. vec = logVec[s] /\ End(source) = {}
      BY <1>7, EmptyBuffer DEF VectorThrough, End
    <2>3. Same(s)
      <3>1. CASE Command(s, r, source)
        <4>1. logVec'[s] = logVec[s] /\ headVec'[s] = headVec[s] /\ buffer'[s] = buffer[s]
          <5>1. logVec'[s] = vec
            BY <1>1, <3>1 DEF Command, TypeOK
          <5>2. headVec'[s] = headVec[s] \cup End(source)
            BY <1>1, <3>1 DEF Command, TypeOK
          <5>3. buffer'[s] = <<>>
            BY <1>1, <3>1 DEF Command, TypeOK
          <5>. QED
            BY <1>7, <2>2, <5>1, <5>2, <5>3
        <4>2. next'[s] = next[s]
          <5>1. next' = [next EXCEPT ![s] = IF sequence' = sequence THEN @ ELSE sequence' + 1]
            BY <3>1 DEF Command
          <5>2. next \in [Servers -> Nat]
            BY <1>1 DEF TypeOK
          <5>. QED
            BY <2>1, <5>1, <5>2
        <4>. QED
          BY <1>2, <4>1, <4>2 DEF Same, CommandCommit
      <3>2. CASE CommandLost(s, r, source)
        BY <3>2 DEF CommandLost, CommandCommit, Same
      <3>. QED
        BY <3>1, <3>2
    <2>. QED
      BY <1>1, <1>6, <2>1, <2>3, Frame, Quiet
  <1>8. CASE ~(buffer[s] = <<>> /\ source = {})
    <2>1. InsertRow(ops, vec) /\ sequence = next[s] - 1
      BY <1>2, <1>8 DEF CommandCommit, CanWrite
    <2>. HIDE DEF ops, vec
    <2>2. /\ Stored' = Stored \cup ops /\ sequence' = sequence + 1
          /\ sequence' # sequence /\ sequence \in Nat
      <3>1. Stored' = Stored \cup ops
        BY <1>2, <2>1, InsertedRow
      <3>2. sequence' = sequence + 1
        BY <2>1 DEF InsertRow
      <3>3. sequence \in Nat
        BY <1>1 DEF TypeOK
      <3>. QED
        BY <3>1, <3>2, <3>3
    <2>3. status'[s] = "live" /\ snap'[s] = snap[s] /\ flight'[s] = flight[s]
      BY <1>2 DEF CommandCommit
    <2>4. InFlight(s)'
      BY <1>2, <2>3 DEF InFlight
    <2>5. CASE CommandLost(s, r, source)
      <3>1. Same(s) /\ announced' = announced
        BY <2>5 DEF CommandLost, CommandCommit, Same
      <3>2. \A t \in Servers : Settled(t, sequence + 1, vec)
        BY <1>1, <1>6, <2>2, <3>1, Frame
      <3>. QED
        BY <1>1, <1>2, <1>4, <1>5, <2>1, <2>2, <3>1, <3>2, Writes
    <2>6. CASE Command(s, r, source)
      <3>1. /\ logVec'[s] = vec /\ headVec'[s] = headVec[s] \cup End(source)
            /\ buffer'[s] = <<>>
        BY <1>1, <2>6 DEF Command, TypeOK, vec
      <3>2. next'[s] = sequence + 2
        BY <1>1, <2>2, <2>6 DEF Command, TypeOK
      <3>3. Resident(s)'
        BY <1>1, <2>2, <2>3, <3>2 DEF Local, Resident
      <3>4. Headed(s)'
        <4>1. headVec[s] \subseteq Stored \cup Buffered(s) /\ Buffered(s) \subseteq ops
              /\ source \subseteq ops
          BY <1>1 DEF Local, Headed, ops
        <4>2. headVec'[s] \subseteq Stored'
          BY <1>3, <2>2, <3>1, <4>1
        <4>. QED
          BY <1>5, <3>1, <4>2 DEF Headed
      <3>5. \A n \in Nat, v \in SUBSET Ops :
              Held(s, n, v)' => IsPoint(n, v) \/ (n = sequence + 1 /\ v = vec)
        <4>1. next'[s] - 1 = sequence + 1
          BY <2>2, <3>2
        <4>. QED
          BY <1>2, <2>3, <3>1, <4>1 DEF Held, IsPoint
      <3>6. \A t \in Servers : Settled(t, sequence + 1, vec)
        <4>1. Settled(s, sequence + 1, vec)
          BY <2>4, <3>3, <3>4, <3>5 DEF Settled, Local
        <4>. QED
          BY <1>1, <1>6, <2>2, <4>1, Frame
      <3>7. announced' \subseteq Stored'
        BY <1>1, <1>5, <2>2, <2>6, <3>1 DEF Command, Told
      <3>. QED
        BY <1>1, <1>2, <1>4, <1>5, <2>1, <2>2, <3>6, <3>7, Writes
    <2>. QED
      BY <2>5, <2>6
  <1>. QED
    BY <1>7, <1>8

\* The cache, the joins and the snapshot a compaction takes.
LEMMA ReadsKeep ==
    ASSUME IInv, TypeOK', Joined', NEW s \in Servers,
           BuildCache(s) \/ EvictCache(s) \/ JoinRegister(s) \/ JoinReply(s) \/ Snapshot(s)
    PROVE  IInv'
  <1>. USE DEF store, inner, tasks, world
  <1>1. TypeOK /\ (\A t \in Servers : Local(t)) /\ announced \subseteq Stored
    BY DEF IInv, AnnouncedDurable
  <1>2. UNCHANGED <<sequence, rows, base>> /\ Stored' = Stored
    BY DEF BuildCache, EvictCache, JoinRegister, JoinReply, Snapshot, Stored
  <1>3. CASE BuildCache(s) \/ EvictCache(s) \/ JoinRegister(s) \/ JoinReply(s)
    <2>1. \A t \in Servers : Same(t)
      BY <1>3 DEF BuildCache, EvictCache, JoinRegister, JoinReply, Same
    <2>2. logVec[s] \subseteq Stored
      <3>1. CASE status[s] = "absent"
        <4>1. Buffered(s) = {}
          <5>1. buffer[s] = <<>>
            BY <1>1, <3>1 DEF Local, Resident
          <5>. QED
            BY <5>1, EmptyBuffer DEF Buffered
        <4>. QED
          BY <1>1, <4>1 DEF Local, Headed
      <3>2. CASE status[s] # "absent"
        <4>1. IsPoint(next[s] - 1, logVec[s])
          BY <3>2 DEF IsPoint, Held
        <4>2. next[s] - 1 \in Nat /\ logVec[s] \in SUBSET Ops
          <5>1. next[s] \in Nat /\ logVec[s] \in SUBSET Ops
            BY <1>1 DEF TypeOK
          <5>2. next[s] >= 1
            BY <1>1, <3>2 DEF Local, Resident
          <5>. QED
            BY <5>1, <5>2
        <4>. QED
          BY <4>1, <4>2 DEF IInv, Behind
      <3>. QED
        BY <3>1, <3>2
    <2>3. announced' \subseteq Stored
      BY <1>1, <1>3, <2>2 DEF BuildCache, EvictCache, JoinRegister, JoinReply
    <2>. QED
      BY <1>1, <1>2, <2>1, <2>3, Frame, Quiet
  <1>4. CASE Snapshot(s)
    <2>1. \A t \in Servers \ {s} : Same(t)
      BY <1>1, <1>4 DEF Snapshot, Same, TypeOK
    <2>2. /\ status[s] = "live" /\ status'[s] = status[s] /\ next'[s] = next[s]
          /\ logVec'[s] = logVec[s] /\ headVec'[s] = headVec[s] /\ buffer'[s] = buffer[s]
          /\ flight'[s] = flight[s] /\ announced' = announced
      BY <1>4 DEF Snapshot
    <2>3. snap'[s].through = next[s] - 1 /\ snap'[s].vec = logVec[s] /\ snap'[s].ops = logVec[s]
      <3>1. PICK mode \in Modes :
              snap' = [snap EXCEPT ![s] =
                        [through |-> next[s] - 1, vec |-> logVec[s],
                         ops |-> Visible(Materialized(s)), mode |-> mode, old |-> FALSE]]
        BY <1>4 DEF Snapshot
      <3>2. Visible(Materialized(s)) = logVec[s]
        BY <1>4 DEF Snapshot
      <3>. QED
        BY <1>1, <3>1, <3>2 DEF TypeOK
    <2>4. Resident(s)'
      BY <1>1, <2>2, <2>3 DEF Local, Resident
    <2>5. InFlight(s)'
      BY <1>1, <1>2, <2>2 DEF Local, InFlight
    <2>6. Headed(s)'
      <3>1. Buffered(s)' = Buffered(s)
        BY <2>2 DEF Buffered
      <3>. QED
        BY <1>1, <1>2, <2>2, <3>1 DEF Local, Headed
    <2>7. \A n \in Nat, v \in SUBSET Ops : Held(s, n, v)' => IsPoint(n, v)
      BY <2>2, <2>3 DEF Held, IsPoint
    <2>8. Settled(s, base.through, base.vec)
      BY <2>4, <2>5, <2>6, <2>7 DEF Settled, Local
    <2>. QED
      BY <1>1, <1>2, <2>1, <2>2, <2>8, Frame, Quiet
  <1>. QED
    BY <1>3, <1>4

\* A compaction ends: committed, its reply lost, superseded, or failed.
LEMMA CompactionKeeps ==
    ASSUME IInv, TypeOK', Joined', NEW s \in Servers,
           ActivateCommit(s) \/ ActivateLost(s) \/ ActivateNoop(s) \/ ActivateError(s)
    PROVE  IInv'
  <1>. USE DEF store
  <1>1. TypeOK /\ (\A t \in Servers : Local(t)) /\ announced \subseteq Stored
    BY DEF IInv, AnnouncedDurable
  <1>2. MayActivate(s) /\ Activated(s) /\ snap[s] # NoSnap /\ announced' = announced
    BY DEF ActivateCommit, ActivateLost, ActivateNoop, ActivateError, MayActivate, Activated
  <1>3. status' = status \/ (~snap[s].old /\ status' = [status EXCEPT ![s] = "fenced"])
    BY DEF ActivateCommit, ActivateLost, ActivateNoop, ActivateError, FenceGate, Fence
  <1>4. \A t \in Servers \ {s} : Same(t)
    BY <1>1, <1>2, <1>3 DEF Activated, Same, TypeOK
  <1>5. /\ next'[s] = next[s] /\ logVec'[s] = logVec[s] /\ headVec'[s] = headVec[s]
        /\ buffer'[s] = buffer[s] /\ flight'[s] = flight[s] /\ snap'[s] = NoSnap
    BY <1>1, <1>2 DEF Activated, TypeOK
  <1>6. SUFFICES /\ Stored \subseteq Stored'
                 /\ (\A t \in Servers : Settled(t, base.through, base.vec)) => IInv'
    <2>1. status'[s] = "absent" <=> status[s] = "absent"
      BY <1>1, <1>2, <1>3 DEF Local, Resident, TypeOK
    <2>2. flight[s].pc = "idle" \/ status'[s] = status[s]
      BY <1>2, <1>3 DEF MayActivate, GateFree
    <2>3. Resident(s)'
      BY <1>1, <1>5, <2>1 DEF Local, Resident
    <2>4. InFlight(s)'
      BY <1>1, <1>5, <1>6, <2>2 DEF Local, InFlight
    <2>5. Headed(s)'
      <3>1. Buffered(s)' = Buffered(s)
        BY <1>5 DEF Buffered
      <3>. QED
        BY <1>1, <1>5, <1>6, <3>1 DEF Local, Headed
    <2>6. \A n \in Nat, v \in SUBSET Ops : Held(s, n, v)' => IsPoint(n, v)
      BY <1>5, <2>1 DEF Held, IsPoint
    <2>7. Settled(s, base.through, base.vec)
      BY <2>3, <2>4, <2>5, <2>6 DEF Settled, Local
    <2>. QED
      BY <1>1, <1>4, <1>6, <2>7, Frame
  <1>7. CASE ActivateBase(s)
    BY <1>2, <1>7, BaseContainsDeleted, Activates
  <1>8. CASE ~ActivateBase(s)
    <2>1. UNCHANGED <<sequence, rows, base>>
      BY <1>8 DEF ActivateCommit, ActivateLost, ActivateNoop, ActivateError
    <2>2. Stored' = Stored
      BY <2>1 DEF Stored
    <2>. QED
      BY <1>1, <1>2, <2>1, <2>2, Quiet
  <1>. QED
    BY <1>7, <1>8

\* Browsers: edits, lost sockets, joins begun, batches accepted.
LEMMA ClientKeeps ==
    ASSUME IInv, TypeOK', Joined', NEW c \in Clients, Client(c)
    PROVE  IInv'
  <1>. USE DEF store, inner, tasks, world
  <1>1. TypeOK /\ (\A t \in Servers : Local(t)) /\ announced \subseteq Stored
    BY DEF IInv, AnnouncedDurable
  <1>2. UNCHANGED <<sequence, rows, base, announced>> /\ Stored' = Stored
    BY DEF Client, Edit, Disconnect, JoinRead, Ingest, IngestResend, Accept, Stored
  <1>3. CASE Edit(c) \/ Disconnect(c) \/ \E s \in Servers : JoinRead(s, c)
    <2>1. \A t \in Servers : Same(t)
      BY <1>3 DEF Edit, Disconnect, JoinRead, Same
    <2>. QED
      BY <1>1, <1>2, <2>1, Frame, Quiet
  <1>4. CASE \E s \in Servers : Ingest(s, c) \/ IngestResend(s, c)
    <2>1. PICK s \in Servers : Ingest(s, c) \/ IngestResend(s, c)
      BY <1>4
    <2>2. \A batch \in Offers(s, c) \cup Resends(s, c) : batch \in SUBSET Ops
      BY <1>1 DEF Offers, Resends, Own, TypeOK
    <2>3. PICK batch \in SUBSET Ops : Accept(s, c, batch)
      BY <2>1, <2>2 DEF Ingest, IngestResend
    <2>4. \A t \in Servers \ {s} : Same(t)
      BY <1>1, <2>3 DEF Accept, Same, TypeOK
    <2>5. /\ status[s] = "live" /\ status'[s] = status[s] /\ next'[s] = next[s]
          /\ logVec'[s] = logVec[s] /\ flight'[s] = flight[s] /\ snap'[s] = snap[s]
          /\ headVec'[s] = headVec[s] \cup End(batch) /\ End(batch) \ batch \subseteq headVec[s]
          /\ buffer'[s] = Append(buffer[s], batch)
      BY <1>1, <2>3 DEF Accept, NoGap, Covers, Start, TypeOK
    <2>6. /\ buffer[s] \in Seq(Batches) /\ Len(buffer[s]) \in Nat /\ batch \in Batches
          /\ flight[s].take \in Nat
      BY <1>1, <2>3, SequencerTyped DEF Batches, TypeOK, Flight
    <2>7. /\ Len(buffer'[s]) = Len(buffer[s]) + 1
          /\ \A n \in 0..Len(buffer[s]) :
               BatchesThrough(buffer'[s], n) = BatchesThrough(buffer[s], n)
          /\ Buffered(s)' = Buffered(s) \cup batch
          /\ \A i \in 1..Len(buffer'[s]) :
               buffer'[s][i] \in {buffer[s][j] : j \in 1..Len(buffer[s])} \cup {batch}
      BY <2>5, <2>6, PushedBuffer DEF Buffered
    <2>8. Resident(s)'
      BY <1>1, <2>5 DEF Local, Resident
    <2>9. InFlight(s)'
      <3>1. InFlight(s)
        BY <1>1 DEF Local
      <3>2. flight[s].take <= Len(buffer[s]) =>
              /\ flight[s].take <= Len(buffer'[s])
              /\ BatchesThrough(buffer'[s], flight[s].take)
                   = BatchesThrough(buffer[s], flight[s].take)
        BY <2>6, <2>7
      <3>. QED
        BY <1>2, <2>5, <3>1, <3>2 DEF InFlight
    <2>10. Headed(s)'
      <3>1. /\ logVec[s] \subseteq headVec[s]
            /\ \A i \in 1..Len(buffer[s]) : End(buffer[s][i]) \subseteq headVec[s]
            /\ headVec[s] \subseteq Stored \cup Buffered(s)
        BY <1>1 DEF Local, Headed
      <3>2. headVec'[s] \subseteq Stored' \cup Buffered(s)'
        BY <1>2, <2>5, <2>7, <3>1
      <3>3. \A i \in 1..Len(buffer'[s]) : End(buffer'[s][i]) \subseteq headVec'[s]
        BY <2>5, <2>7, <3>1
      <3>. QED
        BY <2>5, <3>1, <3>2, <3>3 DEF Headed
    <2>11. \A n \in Nat, v \in SUBSET Ops : Held(s, n, v)' => IsPoint(n, v)
      BY <2>5 DEF Held, IsPoint
    <2>12. Settled(s, base.through, base.vec)
      BY <2>8, <2>9, <2>10, <2>11 DEF Settled, Local
    <2>. QED
      BY <1>1, <1>2, <2>4, <2>12, Frame, Quiet
  <1>. QED
    BY <1>3, <1>4 DEF Client

-----------------------------------------------------------------------------
(* The theorems *)

\* At the start there is one point: nothing, at sequence zero.
LEMMA InitIInv == Init => IInv
  <1>. SUFFICES ASSUME Init
                PROVE  IInv
    OBVIOUS
  <1>1. TypeOK
    BY TypeInit
  <1>2. \A n \in Nat, v \in SUBSET Ops : IsPoint(n, v) => n = 0 /\ v = {}
    BY DEF Init, IsPoint, Held, NoBase, NoFlight
  <1>3. Chain
    BY <1>2 DEF Chain
  <1>4. Behind
    BY <1>2 DEF Behind, Init
  <1>5. Tip /\ Labelled /\ LogBacked /\ Joined /\ AnnouncedDurable
    BY DEF Init, Tip, Labelled, LogBacked, Joined, AnnouncedDurable, NoBase, NoJoin
  <1>6. \A s \in Servers : Local(s)
    BY DEF Init, Local, Resident, InFlight, Headed, NoFlight
  <1>. QED
    BY <1>1, <1>3, <1>4, <1>5, <1>6 DEF IInv

\* Every step keeps the invariant.
LEMMA NextIInv == IInv /\ [Next]_vars => IInv'
  <1>. SUFFICES ASSUME IInv, [Next]_vars
                PROVE  IInv'
    OBVIOUS
  <1>0. TypeOK /\ Behind /\ Tip /\ Joined /\ \A s \in Servers : Local(s)
    BY DEF IInv
  <1>1. ASSUME NEW s \in Servers, Server(s)
        PROVE  IInv'
    <2>1. TypeOK' /\ Joined'
      BY <1>0, <1>1, TypeServer, JoinedNext DEF Next
    <2>. QED
      BY <1>1, <2>1, OwnershipKeeps, FlushKeeps, FlushCommitKeeps, FlushRetireKeeps, CommandKeeps,
         ReadsKeep, CompactionKeeps DEF Server
  <1>2. ASSUME NEW c \in Clients, Client(c)
        PROVE  IInv'
    <2>1. TypeOK' /\ Joined'
      BY <1>0, <1>2, TypeClient, JoinedNext DEF Next
    <2>. QED
      BY <1>2, <2>1, ClientKeeps
  <1>3. CASE UNCHANGED vars
    <2>1. UNCHANGED <<sequence, rows, base, announced>> /\ Stored' = Stored
      BY <1>3 DEF vars, store, world, Stored
    <2>2. \A t \in Servers : Same(t)
      BY <1>3 DEF vars, inner, tasks, Same
    <2>3. TypeOK' /\ Joined'
      BY <1>0, <1>3 DEF vars, store, inner, tasks, world, TypeOK, Joined
    <2>. QED
      BY <1>0, <2>1, <2>2, <2>3, Frame, Quiet DEF IInv, AnnouncedDurable
  <1>. QED
    BY <1>1, <1>2, <1>3 DEF Next

\* The inductive invariant holds in every reachable state.
THEOREM Invariant == Spec => []IInv
  BY InitIInv, NextIInv, PTL DEF Spec

\* Every value the servers, PostgreSQL and the browsers hold keeps its type:
\* in particular no flush ever expects a sequence below zero.
THEOREM TypeCorrect == Spec => []TypeOK
  <1>1. IInv => TypeOK
    BY DEF IInv
  <1>. QED
    BY <1>1, Invariant, PTL

\* notify_durable and the join reply never name a change that storage lacks.
THEOREM SavedMeansStored == Spec => []AnnouncedDurable
  <1>1. IInv => AnnouncedDurable
    BY DEF IInv
  <1>. QED
    BY <1>1, Invariant, PTL

\* What log_head, log_coverage and the base claim is really stored.
THEOREM VectorsBacked == Spec => []LogBacked
  <1>1. IInv => LogBacked
    BY DEF IInv
  <1>. QED
    BY <1>1, Invariant, PTL

\* The head a writer hands out covers only what storage or its buffer holds.
THEOREM HeadsBacked == Spec => []HeadBacked
  <1>1. IInv => HeadBacked
    BY DEF IInv, Local, Headed, HeadBacked
  <1>. QED
    BY <1>1, Invariant, PTL

\* No step removes the last stored copy of a change.
LEMMA StepGrows == IInv /\ [Next]_vars => Stored \subseteq Stored'
  <1>. USE DEF store
  <1>. SUFFICES ASSUME IInv, [Next]_vars
                PROVE  Stored \subseteq Stored'
    OBVIOUS
  <1>1. CASE UNCHANGED <<rows, base>>
    BY <1>1 DEF Stored
  <1>2. ASSUME NEW ops, NEW vec, InsertRow(ops, vec), base' = base
        PROVE  Stored \subseteq Stored'
    BY <1>2, InsertedRow
  <1>3. ASSUME NEW s \in Servers, Server(s)
        PROVE  Stored \subseteq Stored'
    <2>1. CASE FlushCommit(s)
      BY <1>2, <2>1 DEF FlushCommit
    <2>2. CASE \E r \in Commands : \E source \in Prepared(r) :
                 Command(s, r, source) \/ CommandLost(s, r, source)
      BY <1>1, <1>2, <2>2 DEF Command, CommandLost, CommandCommit
    <2>3. CASE ActivateCommit(s) \/ ActivateLost(s)
      BY <2>3, BaseContainsDeleted DEF ActivateCommit, ActivateLost, MayActivate
    <2>4. \/ FlushCommit(s) \/ ActivateCommit(s) \/ ActivateLost(s) \/ UNCHANGED <<rows, base>>
          \/ \E r \in Commands : \E source \in Prepared(r) :
                 Command(s, r, source) \/ CommandLost(s, r, source)
      BY <1>3 DEF Server, Claim, LoseLock, Crash, Stop, Exit, Admit, RetireIdle, RetireFenced,
                  FlushBegin, FlushError, ResolveWritten, ResolveFenced, ResolveRetry, FlushRetire,
                  BuildCache, EvictCache, JoinRegister, JoinReply, Snapshot, ActivateNoop,
                  ActivateError
    <2>. QED
      BY <1>1, <2>1, <2>2, <2>3, <2>4
  <1>4. ASSUME NEW c \in Clients, Client(c)
        PROVE  Stored \subseteq Stored'
    BY <1>1, <1>4 DEF Client, Edit, Disconnect, JoinRead, Ingest, IngestResend, Accept
  <1>5. CASE UNCHANGED vars
    BY <1>1, <1>5 DEF vars
  <1>. QED
    BY <1>3, <1>4, <1>5 DEF Next

\* A committed change is never lost, whoever compacts and however late.
THEOREM NothingLost == Spec => DurableGrows
  BY Invariant, StepGrows, PTL DEF Spec, DurableGrows

=============================================================================
