----------------------------- MODULE Sequencer -----------------------------
(***************************************************************************)
(* One document's log, live: the per-document sequencer of every server    *)
(* process, the PostgreSQL rows and base it writes, and the browsers that  *)
(* edit through it.                                                        *)
(*                                                                         *)
(* A sequencer buffers the batches it accepts, relays them, and flushes    *)
(* the buffer as one row; a semantic command writes its own row; a         *)
(* compaction folds rows into a base; a join hands a browser the base, the *)
(* rows and the buffer it lacks.  Two locks order this: `transaction`,     *)
(* held by a flush, a command, a join or an activation for its whole       *)
(* duration, and `inner`, held only for the steps drawn here as atomic.    *)
(*                                                                         *)
(* Definitions named Faulty... are not part of the model: each is a way    *)
(* the definition after it could have been written wrong, and TLC shows    *)
(* that a property fails when it is used instead.                          *)
(***************************************************************************)
EXTENDS VersionVectors, Sequences, FiniteSets

CONSTANTS
    Servers,                  \* server processes
    Clients,                  \* browsers; every other peer is a command
    Modes,                    \* snapshot modes a compaction may use
    MaxFaults,                \* bound: failures, disconnections, resends
    CompactionOutlivesFence,  \* may a compaction finish for a retired sequencer
    NoOne

ASSUME SequencerAssumption ==
    /\ Clients \subseteq Peers
    /\ Modes \subseteq {"full", "shallow"}
    /\ MaxFaults \in Nat
    /\ CompactionOutlivesFence \in BOOLEAN
    /\ NoOne \notin Servers \cup Clients

VARIABLES
    \* PostgreSQL: deployment_writer, documents, document_updates,
    \* document_snapshots, operation_outcomes
    epoch, holder, sequence, rows, base, recorded,
    \* each server: its lease and the sequencer's Inner
    lease, status, next, logVec, headVec, buffer, cache, hasBase, baseVec, subs,
    \* each server: the flush, the join and the compaction in progress
    flight, joining, snap,
    \* the browsers' documents, what has been announced as saved, the budget
    doc, announced, faults

store == <<epoch, holder, sequence, rows, base, recorded>>
inner == <<status, next, logVec, headVec, buffer, cache, hasBase, baseVec, subs>>
tasks == <<flight, joining, snap>>
world == <<doc, announced, faults>>
vars  == <<store, lease, inner, tasks, world>>

Commands == Peers \ Clients

Batches == SUBSET Ops
Row  == [seq : Nat, ops : SUBSET Ops, vec : SUBSET Ops]
Base == [through : Nat, ops : SUBSET Ops, vec : SUBSET Ops]
Cache == [warm : BOOLEAN, ops : SUBSET Ops]
Flight == [pc : {"idle", "sent", "failed", "written"}, take : Nat, exp : Nat,
           vec : SUBSET Ops, ops : SUBSET Ops]
Joining == [pc : {"idle", "read", "registered"}, client : Clients \cup {NoOne},
            cv : SUBSET Ops, uncovered : Nat, first : Nat, ops : SUBSET Ops,
            vec : SUBSET Ops, base : BOOLEAN]
Snap == [through : Nat, vec : SUBSET Ops, ops : SUBSET Ops,
         mode : {"full", "shallow"}, old : BOOLEAN]

NoBase   == [through |-> 0, ops |-> {}, vec |-> {}]
Cold     == [warm |-> FALSE, ops |-> {}]
NoFlight == [pc |-> "idle", take |-> 0, exp |-> 0, vec |-> {}, ops |-> {}]
NoJoin   == [pc |-> "idle", client |-> NoOne, cv |-> {}, uncovered |-> 0,
             first |-> 0, ops |-> {}, vec |-> {}, base |-> FALSE]
NoSnap   == [through |-> 0, vec |-> {}, ops |-> {}, mode |-> "full", old |-> FALSE]

TypeOK ==
    /\ epoch \in Nat
    /\ holder \in Servers \cup {NoOne}
    /\ sequence \in Nat
    /\ rows \in SUBSET Row
    /\ base \in Base
    /\ recorded \in SUBSET Commands
    /\ lease \in [Servers -> Nat]
    /\ status \in [Servers -> {"absent", "live", "fenced"}]
    /\ next \in [Servers -> Nat]
    /\ logVec \in [Servers -> SUBSET Ops]
    /\ headVec \in [Servers -> SUBSET Ops]
    /\ buffer \in [Servers -> Seq(Batches)]
    /\ cache \in [Servers -> Cache]
    /\ hasBase \in [Servers -> BOOLEAN]
    /\ baseVec \in [Servers -> SUBSET Ops]
    /\ subs \in [Servers -> SUBSET Clients]
    /\ flight \in [Servers -> Flight]
    /\ joining \in [Servers -> Joining]
    /\ snap \in [Servers -> Snap]
    /\ doc \in [Clients -> SUBSET Ops]
    /\ announced \in SUBSET Ops
    /\ faults \in Nat

-----------------------------------------------------------------------------
(* What storage holds *)

RowOps(set) == UNION {row.ops : row \in set}
Stored == base.ops \cup RowOps(rows)

\* log_head: the last row's vector, or the base's when there is no row.
IsLastRow(row) == row \in rows /\ \A other \in rows : other.seq <= row.seq
LogVector ==
    IF rows = {} THEN base.vec ELSE (CHOOSE row \in rows : IsLastRow(row)).vec

\* check_fenced_flush and the UPDATE's own WHERE clause: the writer epoch is
\* this process's, and nobody else has written since.
CanWrite(s, expected) == lease[s] = epoch /\ sequence = expected

\* insert_log_row: one more row, one step of the sequence.
InsertRow(ops, vec) ==
    /\ sequence' = sequence + 1
    /\ rows' = rows \cup {[seq |-> sequence + 1, ops |-> ops, vec |-> vec]}

-----------------------------------------------------------------------------
(* What a sequencer derives from its buffer *)

BatchesThrough(batches, n) == UNION {batches[i] : i \in 1..n}
BatchEnds(batches, n) == UNION {End(batches[i]) : i \in 1..n}
Buffered(s) == BatchesThrough(buffer[s], Len(buffer[s]))

\* vector_through for the whole buffer, which is what every caller takes.
VectorThrough(s) == logVec[s] \cup BatchEnds(buffer[s], Len(buffer[s]))

\* build: the base if this sequencer knows of one, every row, the buffer.
Built(s) == (IF hasBase[s] THEN base.ops ELSE {}) \cup RowOps(rows) \cup Buffered(s)

\* The cache once something has materialized it.
Materialized(s) == IF cache[s].warm THEN cache[s].ops ELSE Built(s)

GateFree(s) == flight[s].pc = "idle" /\ joining[s].pc = "idle"

\* relay: to every subscriber but the sender.
Relayed(s, sender, ops) ==
    [c \in Clients |-> IF c \in subs[s] \ {sender} THEN doc[c] \cup ops ELSE doc[c]]

\* notify_durable: every subscriber is told the log vector.
Told(s, vector) == IF subs[s] = {} THEN announced ELSE announced \cup vector

Connected(c) ==
    \E s \in Servers : c \in subs[s] \/ (joining[s].pc # "idle" /\ joining[s].client = c)

Fault == faults < MaxFaults /\ faults' = faults + 1

-----------------------------------------------------------------------------
Init ==
    /\ epoch = 0 /\ holder = NoOne
    /\ sequence = 0 /\ rows = {} /\ base = NoBase /\ recorded = {}
    /\ lease = [s \in Servers |-> 0]
    /\ status = [s \in Servers |-> "absent"]
    /\ next = [s \in Servers |-> 0]
    /\ logVec = [s \in Servers |-> {}]
    /\ headVec = [s \in Servers |-> {}]
    /\ buffer = [s \in Servers |-> <<>>]
    /\ cache = [s \in Servers |-> Cold]
    /\ hasBase = [s \in Servers |-> FALSE]
    /\ baseVec = [s \in Servers |-> {}]
    /\ subs = [s \in Servers |-> {}]
    /\ flight = [s \in Servers |-> NoFlight]
    /\ joining = [s \in Servers |-> NoJoin]
    /\ snap = [s \in Servers |-> NoSnap]
    /\ doc = [c \in Clients |-> {}]
    /\ announced = {}
    /\ faults = 0

(* The memory of a sequencer that is no longer resident. *)
Forget(s) ==
    /\ status' = [status EXCEPT ![s] = "absent"]
    /\ next' = [next EXCEPT ![s] = 0]
    /\ logVec' = [logVec EXCEPT ![s] = {}]
    /\ headVec' = [headVec EXCEPT ![s] = {}]
    /\ buffer' = [buffer EXCEPT ![s] = <<>>]
    /\ cache' = [cache EXCEPT ![s] = Cold]
    /\ hasBase' = [hasBase EXCEPT ![s] = FALSE]
    /\ baseVec' = [baseVec EXCEPT ![s] = {}]
    /\ subs' = [subs EXCEPT ![s] = {}]

-----------------------------------------------------------------------------
(* Ownership: one writer per deployment *)

\* claim_writer, at startup: the advisory lock, then the next epoch.
Claim(s) ==
    /\ lease[s] = 0
    /\ holder = NoOne
    /\ holder' = s
    /\ epoch' = epoch + 1
    /\ lease' = [lease EXCEPT ![s] = epoch + 1]
    /\ UNCHANGED <<sequence, rows, base, recorded, inner, tasks, world>>

\* The session that holds the advisory lock drops while the process lives on.
LoseLock(s) ==
    /\ holder = s
    /\ Fault
    /\ holder' = NoOne
    /\ UNCHANGED <<epoch, sequence, rows, base, recorded, lease, inner, tasks, doc, announced>>

\* The process ends: sockets close, memory and unfinished tasks go with it.
Exit(s) ==
    /\ lease' = [lease EXCEPT ![s] = 0]
    /\ holder' = IF holder = s THEN NoOne ELSE holder
    /\ Forget(s)
    /\ flight' = [flight EXCEPT ![s] = NoFlight]
    /\ joining' = [joining EXCEPT ![s] = NoJoin]
    /\ snap' = [snap EXCEPT ![s] = NoSnap]
    /\ UNCHANGED <<epoch, sequence, rows, base, recorded, doc, announced>>

Crash(s) == lease[s] # 0 /\ Fault /\ Exit(s)

\* trip_writer_loss: a server that lost its lock notices and shuts down.
Stop(s) == lease[s] # 0 /\ holder # s /\ Exit(s) /\ UNCHANGED faults

\* Faulty: the sequence to write next is taken to be the one last written.
FaultyAdmit(s) ==
    /\ lease[s] # 0
    /\ status[s] = "absent"
    /\ status' = [status EXCEPT ![s] = "live"]
    /\ next' = [next EXCEPT ![s] = sequence]
    /\ logVec' = [logVec EXCEPT ![s] = LogVector]
    /\ headVec' = [headVec EXCEPT ![s] = LogVector]
    /\ hasBase' = [hasBase EXCEPT ![s] = base.through # 0]
    /\ baseVec' = [baseVec EXCEPT ![s] = base.vec]
    /\ UNCHANGED <<store, lease, buffer, cache, subs, tasks, world>>

\* Sequencer::admit: read the head and the base, start with nothing buffered.
Admit(s) ==
    /\ lease[s] # 0
    /\ status[s] = "absent"
    /\ status' = [status EXCEPT ![s] = "live"]
    /\ next' = [next EXCEPT ![s] = sequence + 1]
    /\ logVec' = [logVec EXCEPT ![s] = LogVector]
    /\ headVec' = [headVec EXCEPT ![s] = LogVector]
    /\ hasBase' = [hasBase EXCEPT ![s] = base.through # 0]
    /\ baseVec' = [baseVec EXCEPT ![s] = base.vec]
    /\ UNCHANGED <<store, lease, buffer, cache, subs, tasks, world>>

\* Registry::retire_idle: nobody subscribed, nothing buffered, and no other
\* task holding the sequencer (a flush, a join and a compaction each do).
RetireIdle(s) ==
    /\ status[s] = "live"
    /\ subs[s] = {} /\ buffer[s] = <<>>
    /\ GateFree(s) /\ (snap[s] = NoSnap \/ snap[s].old)
    /\ Forget(s)
    /\ UNCHANGED <<store, lease, tasks, world>>

\* Registry::retire_fenced, by document id, whoever still holds the sequencer;
\* and the room and slot over it are gone, so that the next browser to ask is
\* given another one.  Nothing makes sure of the second part (Residency), so no
\* fairness is assumed for this step.
RetireFenced(s) ==
    /\ status[s] = "fenced"
    /\ GateFree(s)
    /\ Forget(s)
    /\ snap' = [snap EXCEPT ![s] =
                  IF CompactionOutlivesFence /\ @ # NoSnap THEN [@ EXCEPT !.old = TRUE]
                  ELSE NoSnap]
    /\ UNCHANGED <<store, lease, flight, joining, world>>

\* Inner::fence: refuse everything from now on and close every socket.
Fence(s) ==
    /\ status' = [status EXCEPT ![s] = "fenced"]
    /\ subs' = [subs EXCEPT ![s] = {}]

-----------------------------------------------------------------------------
(* Browsers *)

NextOwn(c) == {n \in 1..MaxOps : <<c, n>> \notin doc[c] /\ \A m \in 1..(n - 1) : <<c, m>> \in doc[c]}

Own(c) == {op \in doc[c] : op[1] = c}

Edit(c) ==
    /\ \E n \in NextOwn(c) : doc' = [doc EXCEPT ![c] = @ \cup {<<c, n>>}]
    /\ UNCHANGED <<store, lease, inner, tasks, announced, faults>>

\* The socket goes: the user leaves, the network drops, or drop_slow closes a
\* subscriber that does not drain.  Frames still queued for it are lost, and a
\* reload may forget more; the browser keeps its own work.
Disconnect(c) ==
    /\ Connected(c)
    /\ Fault
    /\ subs' = [s \in Servers |-> subs[s] \ {c}]
    /\ joining' = [s \in Servers |->
                     IF joining[s].client = c THEN NoJoin ELSE joining[s]]
    /\ \E kept \in {doc[c], Own(c)} : doc' = [doc EXCEPT ![c] = kept]
    /\ UNCHANGED <<store, lease, status, next, logVec, headVec, buffer, cache,
                   hasBase, baseVec, flight, snap, announced>>

-----------------------------------------------------------------------------
(* Ingest *)

\* What a joined browser sends: everything the head lacks (catchUp), or one of
\* its own edits as it makes it.  A resend of accepted work costs a fault.
Offers(s, c) ==
    ({doc[c] \ headVec[s]} \cup {{op} : op \in Own(c) \ headVec[s]}) \ {{}}

Resends(s, c) == {{op} : op \in Own(c) \cap headVec[s]}

\* Faulty: the gap check switched off.
FaultyNoGap(s, batch) == TRUE

\* The gap check: a batch is placed only on what the head already covers.
NoGap(s, batch) == Covers(headVec[s], Start(batch))

\* A batch past every refusal: reserve_log_bytes is fenced, so only the
\* current writer gets here.
Accept(s, c, batch) ==
    /\ status[s] = "live"
    /\ c \in subs[s] /\ joining[s].client # c
    /\ NoGap(s, batch)
    /\ lease[s] = epoch
    /\ headVec' = [headVec EXCEPT ![s] = @ \cup End(batch)]
    /\ cache' = [cache EXCEPT ![s].ops = IF cache[s].warm THEN @ \cup batch ELSE {}]
    /\ doc' = Relayed(s, c, batch)
    /\ buffer' = [buffer EXCEPT ![s] = Append(@, batch)]
    /\ UNCHANGED <<store, lease, status, next, logVec, hasBase, baseVec, subs, tasks, announced>>

Ingest(s, c) == (\E batch \in Offers(s, c) : Accept(s, c, batch)) /\ UNCHANGED faults

\* Work the head already has, sent again under another number: it is placed once
\* more.  (Under its own number, while it is buffered, it is only acknowledged.)
IngestResend(s, c) == (\E batch \in Resends(s, c) : Accept(s, c, batch)) /\ Fault

-----------------------------------------------------------------------------
(* Flush *)

\* Under both locks: the whole buffer is encoded; then `inner` is released.
FlushBegin(s) ==
    /\ status[s] = "live"
    /\ GateFree(s)
    /\ buffer[s] # <<>>
    /\ flight' = [flight EXCEPT ![s] =
                    [pc |-> "sent", take |-> Len(buffer[s]), exp |-> next[s] - 1,
                     vec |-> VectorThrough(s), ops |-> Buffered(s)]]
    /\ UNCHANGED <<store, lease, inner, joining, snap, world>>

\* The transaction commits; its reply arrives, or is lost.
FlushCommit(s) ==
    /\ flight[s].pc = "sent"
    /\ CanWrite(s, flight[s].exp)
    /\ InsertRow(flight[s].ops, flight[s].vec)
    /\ \/ flight' = [flight EXCEPT ![s].pc = "written"] /\ UNCHANGED faults
       \/ flight' = [flight EXCEPT ![s].pc = "failed"] /\ Fault
    /\ UNCHANGED <<epoch, holder, base, recorded, lease, inner, joining, snap, doc, announced>>

\* Faulty: an error is taken for a lost reply to a commit.
FaultyFlushError(s) ==
    /\ flight[s].pc = "sent"
    /\ (~CanWrite(s, flight[s].exp) /\ UNCHANGED faults) \/ Fault
    /\ flight' = [flight EXCEPT ![s].pc = "written"]
    /\ UNCHANGED <<store, lease, inner, joining, snap, doc, announced>>

\* The transaction is refused, or fails before it commits.
FlushError(s) ==
    /\ flight[s].pc = "sent"
    /\ (~CanWrite(s, flight[s].exp) /\ UNCHANGED faults) \/ Fault
    /\ flight' = [flight EXCEPT ![s].pc = "failed"]
    /\ UNCHANGED <<store, lease, inner, joining, snap, doc, announced>>

\* Faulty: the sequence having advanced by one is taken as proof.
FaultyRowWritten(s) == \E row \in rows : row.seq = flight[s].exp + 1

\* resolve_ambiguous_flush: did the row land?  Only the row's own vector can
\* say; a sequence that moved without it means another writer.
RowWritten(s) == \E row \in rows : row.seq = flight[s].exp + 1 /\ row.vec = flight[s].vec
RowForeign(s) == \E row \in rows : row.seq = flight[s].exp + 1 /\ row.vec # flight[s].vec

ResolveWritten(s) ==
    /\ flight[s].pc = "failed"
    /\ sequence = flight[s].exp + 1
    /\ RowWritten(s)
    /\ flight' = [flight EXCEPT ![s].pc = "written"]
    /\ UNCHANGED <<store, lease, inner, joining, snap, world>>

ResolveFenced(s) ==
    /\ flight[s].pc = "failed"
    /\ \/ sequence \notin {flight[s].exp, flight[s].exp + 1}
       \/ sequence = flight[s].exp + 1 /\ RowForeign(s)
    /\ flight' = [flight EXCEPT ![s] = NoFlight]
    /\ Fence(s)
    /\ UNCHANGED <<store, lease, next, logVec, headVec, buffer, cache, hasBase, baseVec,
                   joining, snap, world>>

\* Faulty: what could not be written is given up.
FaultyResolveRetry(s) ==
    /\ flight[s].pc = "failed"
    /\ \/ sequence = flight[s].exp /\ UNCHANGED faults
       \/ sequence = flight[s].exp + 1 /\ ~RowWritten(s) /\ ~RowForeign(s) /\ UNCHANGED faults
       \/ Fault
    /\ flight' = [flight EXCEPT ![s] = NoFlight]
    /\ buffer' = [buffer EXCEPT ![s] = <<>>]
    /\ UNCHANGED <<store, lease, status, next, logVec, headVec, cache, hasBase, baseVec, subs,
                   joining, snap, doc, announced>>

\* Nothing was written, or nothing could be learnt: the buffer stays.
ResolveRetry(s) ==
    /\ flight[s].pc = "failed"
    /\ \/ sequence = flight[s].exp /\ UNCHANGED faults
       \/ sequence = flight[s].exp + 1 /\ ~RowWritten(s) /\ ~RowForeign(s) /\ UNCHANGED faults
       \/ Fault
    /\ flight' = [flight EXCEPT ![s] = NoFlight]
    /\ UNCHANGED <<store, lease, inner, joining, snap, doc, announced>>

\* Faulty: the whole buffer goes, with what arrived during the round trip.
FaultyFlushRetire(s) ==
    /\ flight[s].pc = "written"
    /\ next' = [next EXCEPT ![s] = flight[s].exp + 2]
    /\ logVec' = [logVec EXCEPT ![s] = flight[s].vec]
    /\ buffer' = [buffer EXCEPT ![s] = <<>>]
    /\ announced' = Told(s, flight[s].vec)
    /\ flight' = [flight EXCEPT ![s] = NoFlight]
    /\ UNCHANGED <<store, lease, status, headVec, cache, hasBase, baseVec, subs, joining, snap,
                   doc, faults>>

\* Inner::retire, acknowledge, notify_durable: only the flushed prefix goes.
FlushRetire(s) ==
    /\ flight[s].pc = "written"
    /\ next' = [next EXCEPT ![s] = flight[s].exp + 2]
    /\ logVec' = [logVec EXCEPT ![s] = flight[s].vec]
    /\ buffer' = [buffer EXCEPT ![s] = SubSeq(@, flight[s].take + 1, Len(@))]
    /\ announced' = Told(s, flight[s].vec)
    /\ flight' = [flight EXCEPT ![s] = NoFlight]
    /\ UNCHANGED <<store, lease, status, headVec, cache, hasBase, baseVec, subs, joining, snap,
                   doc, faults>>

-----------------------------------------------------------------------------
(* Semantic commands *)

\* The source a command prepares: nothing, or one new change of its own.
Prepared(r) ==
    {{}} \cup {{<<r, n>>} : n \in {m \in 1..MaxOps :
                  <<r, m>> \notin Stored /\ \A k \in 1..(m - 1) : <<r, k>> \in Stored}}

\* Faulty: the retry record is written but not consulted.
FaultyCommandCommit(s, r, source) ==
    /\ status[s] = "live"
    /\ GateFree(s)
    /\ lease[s] = epoch
    /\ recorded' = recorded \cup {r}
    /\ IF buffer[s] = <<>> /\ source = {}
       THEN UNCHANGED <<sequence, rows>>
       ELSE /\ CanWrite(s, next[s] - 1)
            /\ InsertRow(Buffered(s) \cup source, VectorThrough(s) \cup End(source))
    /\ UNCHANGED <<epoch, holder, base, lease, status, hasBase, baseVec, subs, tasks>>

\* command_reporting_replay up to its commit: the retry record is consulted
\* first, then one transaction writes the buffer and the source as one row
\* together with the record.  With neither, there is no row and no sequence
\* to agree on.
CommandCommit(s, r, source) ==
    /\ status[s] = "live"
    /\ GateFree(s)
    /\ r \notin recorded
    /\ lease[s] = epoch
    /\ recorded' = recorded \cup {r}
    /\ IF buffer[s] = <<>> /\ source = {}
       THEN UNCHANGED <<sequence, rows>>
       ELSE /\ CanWrite(s, next[s] - 1)
            /\ InsertRow(Buffered(s) \cup source, VectorThrough(s) \cup End(source))
    /\ UNCHANGED <<epoch, holder, base, lease, status, hasBase, baseVec, subs, tasks>>

\* The reply arrives: retire the buffer, install and relay the source.
Command(s, r, source) ==
    /\ CommandCommit(s, r, source)
    /\ next' = [next EXCEPT ![s] = IF sequence' = sequence THEN @ ELSE sequence' + 1]
    /\ logVec' = [logVec EXCEPT ![s] = VectorThrough(s) \cup End(source)]
    /\ headVec' = [headVec EXCEPT ![s] = @ \cup End(source)]
    /\ buffer' = [buffer EXCEPT ![s] = <<>>]
    /\ cache' = [cache EXCEPT ![s] = [warm |-> TRUE, ops |-> Materialized(s) \cup source]]
    /\ doc' = Relayed(s, NoOne, source)
    /\ announced' = IF sequence' = sequence THEN announced ELSE Told(s, logVec'[s])
    /\ UNCHANGED faults

\* The reply is lost: the row is in the log and this sequencer is a row behind.
CommandLost(s, r, source) ==
    /\ CommandCommit(s, r, source)
    /\ Fault
    /\ cache' = [cache EXCEPT ![s] = [warm |-> TRUE, ops |-> Materialized(s)]]
    /\ UNCHANGED <<next, logVec, headVec, buffer, doc, announced>>

-----------------------------------------------------------------------------
(* The decoded document *)

BuildCache(s) ==
    /\ status[s] = "live"
    /\ ~cache[s].warm
    /\ cache' = [cache EXCEPT ![s] = [warm |-> TRUE, ops |-> Built(s)]]
    /\ UNCHANGED <<store, lease, status, next, logVec, headVec, buffer, hasBase, baseVec, subs,
                   tasks, world>>

\* try_evict, drop_cache, or a reservation that could not grow.
EvictCache(s) ==
    /\ cache[s].warm
    /\ cache' = [cache EXCEPT ![s] = Cold]
    /\ UNCHANGED <<store, lease, status, next, logVec, headVec, buffer, hasBase, baseVec, subs,
                   tasks, world>>

-----------------------------------------------------------------------------
(* Join *)

RowSeqs(set) == {row.seq : row \in set}
IsLeast(n, set) == n \in set /\ \A m \in set : n <= m
LeastOrZero(set) ==
    IF \E n \in set : IsLeast(n, set) THEN CHOOSE n \in set : IsLeast(n, set) ELSE 0

\* The backward scan: rows stay uncovered until the first the client covers.
Uncovered(cv) ==
    {row \in rows : \A later \in rows : later.seq >= row.seq => ~Covers(cv, later.vec)}

\* Faulty: the join takes no gate, as an earlier version did not.
FaultyJoinRead(s, c) ==
    /\ status[s] = "live"
    /\ joining[s].pc = "idle"
    /\ ~Connected(c)
    /\ joining' = [joining EXCEPT ![s] =
                     [NoJoin EXCEPT !.pc = "read", !.client = c, !.cv = Visible(doc[c]),
                                    !.uncovered = LeastOrZero(RowSeqs(Uncovered(Visible(doc[c])))),
                                    !.first = LeastOrZero(RowSeqs(rows))]]
    /\ UNCHANGED <<store, lease, inner, flight, snap, world>>

\* The gate is taken and the stored coverage read.
JoinRead(s, c) ==
    /\ status[s] = "live"
    /\ GateFree(s)
    /\ ~Connected(c)
    /\ joining' = [joining EXCEPT ![s] =
                     [NoJoin EXCEPT !.pc = "read", !.client = c, !.cv = Visible(doc[c]),
                                    !.uncovered = LeastOrZero(RowSeqs(Uncovered(Visible(doc[c])))),
                                    !.first = LeastOrZero(RowSeqs(rows))]]
    /\ UNCHANGED <<store, lease, inner, flight, snap, world>>

BaseCovered(s, cv) == hasBase[s] => baseVec[s] # {} /\ Covers(cv, baseVec[s])

\* Under `inner`: the subscriber is registered in the same step as the head
\* and the buffer are copied.
JoinRegister(s) ==
    /\ joining[s].pc = "read"
    /\ status[s] = "live"
    /\ subs' = [subs EXCEPT ![s] = @ \cup {joining[s].client}]
    /\ joining' = [joining EXCEPT ![s] =
                     [@ EXCEPT !.pc = "registered", !.ops = Buffered(s), !.vec = headVec[s],
                               !.base = ~BaseCovered(s, joining[s].cv)]]
    /\ UNCHANGED <<store, lease, status, next, logVec, headVec, buffer, cache, hasBase, baseVec,
                   flight, snap, world>>

\* The rows and the base are read and everything is sent.
JoinedOps(s) ==
    LET join == joining[s]
        from == IF join.base THEN join.first ELSE join.uncovered
    IN  join.ops
        \cup (IF from = 0 THEN {} ELSE RowOps({row \in rows : row.seq >= from}))
        \cup (IF join.base THEN base.ops ELSE {})

JoinReply(s) ==
    /\ joining[s].pc = "registered"
    /\ doc' = [doc EXCEPT ![joining[s].client] = @ \cup JoinedOps(s)]
    /\ announced' = announced \cup logVec[s]
    /\ joining' = [joining EXCEPT ![s] = NoJoin]
    /\ UNCHANGED <<store, lease, inner, flight, snap, faults>>

-----------------------------------------------------------------------------
(* Compaction *)

\* snapshot_at_log_vector and prove_coverage: an empty buffer and a decoded
\* document exactly at the log vector.  The blob is then written, unlocked.
Snapshot(s) ==
    /\ status[s] = "live"
    /\ snap[s] = NoSnap
    /\ buffer[s] = <<>>
    /\ next[s] > 1
    /\ Visible(Materialized(s)) = logVec[s]
    /\ cache' = [cache EXCEPT ![s] = [warm |-> TRUE, ops |-> Materialized(s)]]
    /\ \E mode \in Modes :
         snap' = [snap EXCEPT ![s] =
                    [through |-> next[s] - 1, vec |-> logVec[s],
                     ops |-> Visible(Materialized(s)), mode |-> mode, old |-> FALSE]]
    /\ UNCHANGED <<store, lease, status, next, logVec, headVec, buffer, hasBase, baseVec, subs,
                   flight, joining, world>>

\* compaction_gate: both locks of the sequencer that took the snapshot, which
\* is no longer the resident one when the snapshot is old.
MayActivate(s) == snap[s] # NoSnap /\ (snap[s].old \/ GateFree(s))

\* activate_log_base does nothing for a base that is not newer.
Superseded(s) ==
    IF snap[s].mode = "shallow" THEN base.through > snap[s].through
    ELSE base.through >= snap[s].through

\* The fence, and a base that does not claim more than the log holds.
MayWriteBase(s) == lease[s] = epoch /\ snap[s].through <= sequence

\* Faulty: every row is deleted, those written since the snapshot included.
FaultyActivateBase(s) ==
    /\ MayWriteBase(s)
    /\ ~Superseded(s)
    /\ base' = [through |-> snap[s].through, ops |-> snap[s].ops, vec |-> snap[s].vec]
    /\ rows' = {}
    /\ UNCHANGED <<epoch, holder, sequence, recorded>>

\* The transaction: the new base, and the rows it covers deleted.
ActivateBase(s) ==
    /\ MayWriteBase(s)
    /\ ~Superseded(s)
    /\ base' = [through |-> snap[s].through, ops |-> snap[s].ops, vec |-> snap[s].vec]
    /\ rows' = {row \in rows : row.seq > snap[s].through}
    /\ UNCHANGED <<epoch, holder, sequence, recorded>>

\* Faulty: the catalogue moves and the sequencer's own copy does not.
FaultyNoteCompacted(s, vector) == UNCHANGED <<hasBase, baseVec>>

\* note_compacted, on the sequencer whose gate is held.
NoteCompacted(s, vector) ==
    IF snap[s].old THEN UNCHANGED <<hasBase, baseVec>>
    ELSE /\ hasBase' = [hasBase EXCEPT ![s] = TRUE]
         /\ baseVec' = [baseVec EXCEPT ![s] = vector]

\* reset_after_trim: everyone rejoins from the shallow base.
ResetAfterTrim(s) ==
    IF snap[s].mode = "shallow" /\ ~snap[s].old
    THEN /\ cache' = [cache EXCEPT ![s] = Cold]
         /\ subs' = [subs EXCEPT ![s] = {}]
    ELSE UNCHANGED <<cache, subs>>

FenceGate(s) == IF snap[s].old THEN UNCHANGED <<status, subs>> ELSE Fence(s)

Activated(s) ==
    /\ snap' = [snap EXCEPT ![s] = NoSnap]
    /\ UNCHANGED <<lease, next, logVec, headVec, buffer, flight, joining, doc, announced>>

ActivateCommit(s) ==
    /\ MayActivate(s)
    /\ ActivateBase(s)
    /\ NoteCompacted(s, snap[s].vec)
    /\ ResetAfterTrim(s)
    /\ Activated(s)
    /\ UNCHANGED <<status, faults>>

\* The commit's reply is lost: re-read the base, or fence when that fails too.
ActivateLost(s) ==
    /\ MayActivate(s)
    /\ ActivateBase(s)
    /\ Fault
    /\ \/ NoteCompacted(s, snap[s].vec) /\ UNCHANGED <<status, subs>>
       \/ FenceGate(s) /\ UNCHANGED <<hasBase, baseVec>>
    /\ Activated(s)
    /\ UNCHANGED cache

\* A newer base is there already: adopt it, or fence when it cannot be read.
ActivateNoop(s) ==
    /\ MayActivate(s)
    /\ MayWriteBase(s)
    /\ Superseded(s)
    /\ \/ NoteCompacted(s, base.vec) /\ UNCHANGED <<status, subs, faults>>
       \/ FenceGate(s) /\ UNCHANGED <<hasBase, baseVec>> /\ Fault
    /\ Activated(s)
    /\ UNCHANGED <<store, cache>>

\* The transaction is refused or fails; the re-read finds the base as it was,
\* finds it equal to this one, or fails.
ActivateError(s) ==
    /\ MayActivate(s)
    /\ \/ /\ \/ ~MayWriteBase(s) /\ UNCHANGED faults
             \/ Fault
          /\ IF base.through = snap[s].through /\ base.vec = snap[s].vec
             THEN NoteCompacted(s, base.vec)
             ELSE UNCHANGED <<hasBase, baseVec>>
          /\ UNCHANGED <<status, subs>>
       \/ Fault /\ FenceGate(s) /\ UNCHANGED <<hasBase, baseVec>>
    /\ Activated(s)
    /\ UNCHANGED <<store, cache>>

-----------------------------------------------------------------------------
Server(s) ==
    \/ Claim(s) \/ LoseLock(s) \/ Crash(s) \/ Stop(s)
    \/ Admit(s) \/ RetireIdle(s) \/ RetireFenced(s)
    \/ FlushBegin(s) \/ FlushCommit(s) \/ FlushError(s)
    \/ ResolveWritten(s) \/ ResolveFenced(s) \/ ResolveRetry(s) \/ FlushRetire(s)
    \/ \E r \in Commands : \E source \in Prepared(r) :
         Command(s, r, source) \/ CommandLost(s, r, source)
    \/ BuildCache(s) \/ EvictCache(s)
    \/ JoinRegister(s) \/ JoinReply(s)
    \/ Snapshot(s)
    \/ ActivateCommit(s) \/ ActivateLost(s) \/ ActivateNoop(s) \/ ActivateError(s)

Client(c) ==
    \/ Edit(c)
    \/ Disconnect(c)
    \/ \E s \in Servers : JoinRead(s, c) \/ Ingest(s, c) \/ IngestResend(s, c)

Next ==
    \/ \E s \in Servers : Server(s)
    \/ \E c \in Clients : Client(c)

Spec == Init /\ [][Next]_vars

\* What the deployment and the code keep doing.  A supervisor starts a server
\* when none holds the lock; a document is admitted on demand and flushed;
\* every call to PostgreSQL ends in a reply or an error; a browser reconnects
\* until it is in (the room it asked for is held while it joins, so retiring
\* cannot starve it: strong fairness) and sends what the head lacks.
Fairness ==
    /\ WF_vars(\E s \in Servers : Claim(s))
    /\ \A s \in Servers :
        /\ WF_vars(Stop(s)) /\ WF_vars(Admit(s))
        /\ WF_vars(FlushBegin(s)) /\ WF_vars(FlushCommit(s) \/ FlushError(s))
        /\ WF_vars(ResolveWritten(s) \/ ResolveFenced(s) \/ ResolveRetry(s))
        /\ WF_vars(FlushRetire(s)) /\ WF_vars(JoinRegister(s)) /\ WF_vars(JoinReply(s))
    /\ \A c \in Clients :
        /\ SF_vars(\E s \in Servers : JoinRead(s, c))
        /\ \A s \in Servers : WF_vars(Ingest(s, c))

FairSpec == Spec /\ Fairness

-----------------------------------------------------------------------------
(* Safety *)

\* No browser is told that a change is saved (doc-durable, or the durable
\* vector of a join reply) before its bytes are in a committed row or base.
\* Flush and command announce a vector computed before the commit, so a wrong
\* verdict on an ambiguous commit, or a vector ahead of the bytes, breaks it.
AnnouncedDurable == announced \subseteq Stored

\* Every stored vector is backed by stored bytes: what log_head, log_coverage
\* and the base's vector claim to the next admission or join is really there,
\* below that row.  A row written over a gap, or a base that deletes rows it
\* does not contain, breaks it.
LogBacked ==
    /\ \A row \in rows :
         row.vec \subseteq base.ops \cup RowOps({lower \in rows : lower.seq <= row.seq})
    /\ base.vec \subseteq base.ops

\* The head vector a live writer hands out with join replies and gap answers
\* claims only bytes it can still produce: from storage or from its buffer.
HeadBacked ==
    \A s \in Servers :
        status[s] = "live" /\ lease[s] = epoch => headVec[s] \subseteq Stored \cup Buffered(s)

\* A browser whose join has been answered holds everything the writer's head
\* covers: a batch is in the reply or in a relay, whatever flush, command,
\* compaction or other join ran meanwhile.
InSync ==
    \A s \in Servers : \A c \in subs[s] :
        joining[s].client # c /\ lease[s] = epoch => Covers(Visible(doc[c]), headVec[s])

\* A decoded document is never behind the head it is read as, whether it was
\* built cold from base, rows and buffer or kept warm import by import.
CacheAtHead ==
    \A s \in Servers :
        status[s] = "live" /\ lease[s] = epoch /\ cache[s].warm =>
            Covers(Visible(cache[s].ops), headVec[s])

\* A command takes effect at most once, however often it is retried and on
\* whichever server, a retry after a lost commit reply included.
AppliedOnce == \A r \in Commands : Cardinality({op \in Stored : op[1] = r}) <= 1

\* Bytes once committed are never lost: neither a compaction's delete nor a
\* stale writer removes the last copy of a change.
DurableGrows == [][Stored \subseteq Stored']_vars

\* The log implements its promise, every change being submitted when its
\* author makes it.
Submitted == (UNION {Own(c) : c \in Clients}) \cup {op \in Stored : op[1] \in Commands}

Promise == INSTANCE DurableLog WITH
    Changes <- Ops, submitted <- Submitted, durable <- Stored, announced <- announced

ImplementsDurableLog == Promise!Spec

-----------------------------------------------------------------------------
(* Liveness *)

\* Failures being finite, and no server offering a fenced sequencer for good,
\* every edit a browser makes is eventually stored and announced as saved,
\* through lost replies, crashes, fences and takeovers.  The code does not
\* guarantee the second condition: an open room or a slot may hand the fenced
\* sequencer out for ever, which Residency's runs show.
EditsSaved ==
    (\A s \in Servers : []<>(status[s] # "fenced")) =>
        \A c \in Clients : \A n \in 1..MaxOps : <<c, n>> \in doc[c] ~> <<c, n>> \in announced

=============================================================================
