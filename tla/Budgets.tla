------------------------------- MODULE Budgets -------------------------------
(***************************************************************************)
(* The two budgets over the byte pool.  "scratch" is log/pending.rs: what  *)
(* flushes reserve to write a row, mandatory drains waiting as long as it  *)
(* takes.  "memory" is log/budget.rs with its callers in                   *)
(* log/sequencer.rs and its evictor in log/mod.rs: decoded documents, the  *)
(* peak of a build, forks, and the eviction of other documents' caches,    *)
(* all under the documents' locks.  They are two pools; a behaviour is     *)
(* about one of them.                                                      *)
(***************************************************************************)
EXTENDS BytePool, TLC

CONSTANTS
    Docs, None,
    Logs,            \* what each document's log may weigh at first
    Drains,          \* Shutdown, Barrier and AuthorityRevoked flushes
    Flushes,         \* all others
    Rows,            \* what each of those reserves
    Readers,         \* the tasks that use decoded documents
    Expansion,       \* a decoded document, per byte of its log
    BuildExpansion,  \* the peak of a build, per byte of the log
    MaxBytes,        \* bound: the bytes of a document
    MaxRounds,       \* bound: how often each task asks for scratch
    MaxCalls         \* bound: how often each task uses a document

ASSUME BudgetsAssumption ==
    /\ {Drains, Flushes, Readers} \subseteq SUBSET Tasks
    \* validate_pending: the scratch pool holds the largest row.
    /\ Rows \in [Drains \cup Flushes -> 0..Limit]
    /\ {Expansion, BuildExpansion, MaxBytes} \subseteq Nat \ {0} /\ {MaxRounds, MaxCalls} \subseteq Nat
    /\ Logs \in [Docs -> SUBSET (1..MaxBytes)]
    /\ IsFiniteSet(Docs) /\ None \notin Tasks \cup Docs

VARIABLES
    budget,   \* which budget the pool is
    rounds,
    doc,      \* the document a reader works on
    op,       \* what it does there
    stage,    \* which reservation it is at
    lock,     \* the holder of each document's `inner`
    cache,    \* the bytes reserved for each decoded document, 0 when cold
    logged,   \* log_bytes: base and rows
    buffered, \* accepted and not yet flushed
    pass,     \* the documents an eviction pass has still to try
    freed     \* what it has counted

docVars == <<lock, cache, logged, buffered>>
callVars == <<rounds, doc, op, stage, pass, freed>>
vars == <<poolVars, budget, docVars, callVars>>

Ops == {"read", "fork", "command", "ingest", "join", "reset"}

-----------------------------------------------------------------------------
(* Estimates *)

\* The bytes of the reservations that the members of S hold, one by one.
Bytes(reserved, S) == UNION {{o} \X (1..reserved[o]) : o \in S}

Resident(d) == Expansion * (logged[d] + buffered[d])
Transient(d) == BuildExpansion * (logged[d] + buffered[d])
BaseTransient(d) == BuildExpansion * logged[d]

Init ==
    /\ PoolInit
    /\ rounds = [t \in Tasks |-> 0]
    /\ doc = [t \in Tasks |-> None] /\ op = [t \in Tasks |-> "none"]
    /\ stage = [t \in Tasks |-> "none"]
    /\ lock = [d \in Docs |-> None]
    /\ buffered = [d \in Docs |-> 0]
    /\ logged \in {f \in [Docs -> 1..MaxBytes] : \A d \in Docs : f[d] \in Logs[d]}
    /\ pass = [t \in Tasks |-> {}] /\ freed = [t \in Tasks |-> 0]
    /\ \/ /\ budget = "scratch"
          /\ cache = [d \in Docs |-> 0]
       \/ /\ budget = "memory"
          /\ \E warm \in SUBSET Docs :
                cache = [d \in Docs |-> IF d \in warm THEN Resident(d) ELSE 0]
    /\ used = Cardinality(Bytes(cache, Docs))
    /\ used <= Limit

-----------------------------------------------------------------------------
(* log/pending.rs *)

\* reserve_scratch and try_scratch, both of which try once first.
AskScratch(t) ==
    /\ budget = "scratch" /\ pc[t] = "idle" /\ rounds[t] < MaxRounds
    /\ rounds' = [rounds EXCEPT ![t] = @ + 1]
    /\ \/ t \in Flushes /\ TryTake(t, "try", Rows[t])
       \/ t \in Drains /\ TryTake(t, "probe", Rows[t])
    /\ UNCHANGED <<used, holds, seen, listening, woken, after, doc, op, stage, pass, freed>>

\* A drain whose first attempt missed waits; an ordinary flush is deferred.
ScratchMissed(t) ==
    /\ budget = "scratch" /\ pc[t] = "refused"
    /\ IF call[t] = "probe" THEN BeginTake(t) ELSE Goto(t, "idle") /\ UNCHANGED call
    /\ UNCHANGED <<used, want, holds, seen, listening, woken, after, callVars>>

\* The row is written or its attempt fails, and the reservation is dropped.
ScratchDone(t) ==
    /\ budget = "scratch" /\ pc[t] = "granted"
    /\ GiveBack(t, want[t], "idle")
    /\ UNCHANGED <<want, call, seen, listening, woken, callVars>>

Ask(t) == AskScratch(t) /\ UNCHANGED <<budget, docVars>>

-----------------------------------------------------------------------------
(* Budget::reserve *)

\* Too large is refused; otherwise try_reserve, which decides on evicting.
Reserve(t, s, n) ==
    /\ stage' = [stage EXCEPT ![t] = s]
    /\ IF n <= Limit THEN TryTake(t, "probe", n)
       ELSE /\ Goto(t, "refused")
            /\ want' = [want EXCEPT ![t] = n]
            /\ call' = [call EXCEPT ![t] = "take"]

\* The probe's own reservation is dropped before the bytes are asked for.
ProbeHit(t) ==
    /\ pc[t] = "granted" /\ call[t] = "probe"
    /\ GiveBack(t, want[t], "take")
    /\ UNCHANGED <<want, call, seen, listening, woken, docVars, callVars>>

ProbeDropped(t) ==
    /\ pc[t] = "take"
    /\ BeginTake(t)
    /\ UNCHANGED <<used, want, holds, seen, listening, woken, after, docVars, callVars>>

\* evict_caches lists the documents whose lock is free.
ProbeMissed(t) ==
    /\ pc[t] = "refused" /\ call[t] = "probe"
    /\ pass' = [pass EXCEPT ![t] = {d \in Docs : lock[d] = None}]
    /\ freed' = [freed EXCEPT ![t] = 0]
    /\ Goto(t, "evict")
    /\ UNCHANGED <<used, want, call, holds, seen, listening, woken, after, docVars, rounds, doc, op, stage>>

\* try_evict: skipped if its lock is busy by now or it is cold; what it
\* counts is the estimate of its log, what it frees is its reservation.
TryEvict(t, d) ==
    /\ pc[t] = "evict" /\ d \in pass[t] /\ freed[t] < want[t]
    /\ pass' = [pass EXCEPT ![t] = @ \ {d}]
    /\ IF lock[d] = None /\ cache[d] > 0
       THEN /\ freed' = [freed EXCEPT ![t] = @ + Expansion * logged[d]]
            /\ cache' = [cache EXCEPT ![d] = 0]
            /\ Subtract(t, cache[d], "evict")
       ELSE UNCHANGED <<freed, cache, used, pc, after>>
    /\ UNCHANGED <<want, call, holds, seen, listening, woken, lock, logged, buffered, rounds, doc, op, stage>>

EvictDone(t) ==
    /\ pc[t] = "evict" /\ (pass[t] = {} \/ freed[t] >= want[t])
    /\ pass' = [pass EXCEPT ![t] = {}] /\ freed' = [freed EXCEPT ![t] = 0]
    /\ BeginTake(t)
    /\ UNCHANGED <<used, want, holds, seen, listening, woken, after, docVars, rounds, doc, op, stage>>

ReserveStep(t) ==
    ProbeHit(t) \/ ProbeDropped(t) \/ ProbeMissed(t) \/ (\E d \in Docs : TryEvict(t, d)) \/ EvictDone(t)

Got(t, s) == pc[t] = "granted" /\ call[t] # "probe" /\ stage[t] = s
Busy(t, s) == pc[t] = "refused" /\ call[t] # "probe" /\ stage[t] = s

-----------------------------------------------------------------------------
(* The callers in log/sequencer.rs *)

\* A join reserves for the base it reads after its lock is released.
Begin(t, d, o) ==
    /\ pc[t] = "idle" /\ rounds[t] < MaxCalls
    /\ rounds' = [rounds EXCEPT ![t] = @ + 1]
    /\ doc' = [doc EXCEPT ![t] = d] /\ op' = [op EXCEPT ![t] = o]
    /\ IF o = "join" THEN Reserve(t, "join", BaseTransient(d))
       ELSE Goto(t, "lock") /\ UNCHANGED <<want, call, stage>>
    /\ UNCHANGED <<used, holds, seen, listening, woken, after, pass, freed, docVars>>

\* inner.lock().await, and build when there is no cache.
Lock(t) ==
    /\ pc[t] = "lock" /\ lock[doc[t]] = None
    /\ lock' = [lock EXCEPT ![doc[t]] = t]
    /\ IF op[t] \in {"read", "fork", "command"} /\ cache[doc[t]] = 0
       THEN Reserve(t, "resident", Resident(doc[t]))
       ELSE Goto(t, op[t]) /\ UNCHANGED <<want, call, stage>>
    /\ UNCHANGED <<used, holds, seen, listening, woken, after, cache, logged, buffered, rounds, doc, op, pass, freed>>

\* build holds the document's reservation and asks for the peak's.
BuildPeak(t) ==
    /\ Got(t, "resident")
    /\ Reserve(t, "transient", Transient(doc[t]))
    /\ UNCHANGED <<used, holds, seen, listening, woken, after, docVars, rounds, doc, op, pass, freed>>

\* The import is done: the entry keeps the document's reservation, the
\* peak's is dropped as build returns.
Built(t) ==
    /\ Got(t, "transient")
    /\ cache' = [cache EXCEPT ![doc[t]] = Resident(doc[t])]
    /\ Subtract(t, want[t], op[t])
    /\ holds' = [holds EXCEPT ![t] = 0]
    /\ UNCHANGED <<want, call, seen, listening, woken, lock, logged, buffered, callVars>>

\* A read of the base or the rows fails, or the import does: both are dropped.
BuildFails(t) ==
    /\ Got(t, "transient")
    /\ GiveBack(t, want[t], "undo")
    /\ UNCHANGED <<want, call, seen, listening, woken, docVars, callVars>>

\* Faulty: a build that is refused its peak forgets what it already holds.
FaultyUndo(t) ==
    /\ pc[t] = "undo" \/ Busy(t, "transient")
    /\ Goto(t, "return")
    /\ holds' = [holds EXCEPT ![t] = 0]
    /\ UNCHANGED <<used, after, want, call, seen, listening, woken, docVars, callVars>>

\* The document's own reservation is dropped as build returns its error.
Undo(t) ==
    /\ pc[t] = "undo" \/ Busy(t, "transient")
    /\ GiveBack(t, holds[t], "return")
    /\ UNCHANGED <<want, call, seen, listening, woken, docVars, callVars>>

\* with_head and the others that only read; a command that is refused or
\* prepares no source.
ReadHead(t) ==
    /\ pc[t] \in {"read", "command"}
    /\ Goto(t, "return")
    /\ UNCHANGED <<used, want, call, holds, seen, listening, woken, after, docVars, callVars>>

\* with_fork_at, still under the lock; Head::prepare, which cannot await.
Fork(t) ==
    /\ \/ pc[t] = "fork" /\ Reserve(t, "fork", Resident(doc[t]))
       \/ /\ pc[t] = "command"
          /\ stage' = [stage EXCEPT ![t] = "prepare"]
          /\ TryTake(t, "try", Resident(doc[t]))
    /\ UNCHANGED <<used, holds, seen, listening, woken, after, docVars, rounds, doc, op, pass, freed>>

\* The fork is discarded after use, whether or not the command's transaction
\* succeeded; a join has read the base.
Discard(t) ==
    /\ pc[t] = "discard" \/ \E s \in {"fork", "prepare", "join"} : Got(t, s)
    /\ GiveBack(t, want[t], "return")
    /\ UNCHANGED <<want, call, seen, listening, woken, docVars, callVars>>

\* SequencerError::Busy with nothing held.
AnswerBusy(t) ==
    /\ \E s \in {"resident", "fork", "prepare", "join"} : Busy(t, s)
    /\ Goto(t, "return")
    /\ UNCHANGED <<used, want, call, holds, seen, listening, woken, after, docVars, callVars>>

\* The command's row carries the buffer and its own batch, which is imported
\* into the entry; the lock is released before the prepared source drops.
Commit(t) ==
    /\ Got(t, "prepare")
    /\ logged[doc[t]] + buffered[doc[t]] < MaxBytes
    /\ logged' = [logged EXCEPT ![doc[t]] = @ + buffered[doc[t]] + 1]
    /\ buffered' = [buffered EXCEPT ![doc[t]] = 0]
    /\ lock' = [lock EXCEPT ![doc[t]] = None]
    /\ Goto(t, "discard")
    /\ UNCHANGED <<used, want, call, holds, seen, listening, woken, after, cache, callVars>>

\* ingest under the lock: a warm entry's reservation is to grow to the
\* estimate with the batch in it (try_grow_to).
Ingest(t) ==
    /\ pc[t] = "ingest"
    /\ logged[doc[t]] + buffered[doc[t]] < MaxBytes
    /\ LET wanted == Resident(doc[t]) + Expansion IN
       IF cache[doc[t]] # 0 /\ wanted > cache[doc[t]]
       THEN /\ TryTake(t, "try", wanted - cache[doc[t]])
            /\ stage' = [stage EXCEPT ![t] = "grow"]
            /\ UNCHANGED buffered
       ELSE /\ buffered' = [buffered EXCEPT ![doc[t]] = @ + 1]
            /\ Goto(t, "return")
            /\ UNCHANGED <<want, call, stage>>
    /\ UNCHANGED <<used, holds, seen, listening, woken, after, lock, cache, logged, rounds, doc, op, pass, freed>>

\* At the bound the batch is refused, as it is at the log's quota.
IngestFull(t) ==
    /\ pc[t] = "ingest"
    /\ logged[doc[t]] + buffered[doc[t]] >= MaxBytes
    /\ Goto(t, "return")
    /\ UNCHANGED <<used, want, call, holds, seen, listening, woken, after, docVars, callVars>>

\* The growth moves into the entry's reservation (growth.bytes = 0), or the
\* entry is dropped; the batch is buffered either way.
Grow(t) ==
    /\ \/ /\ Got(t, "grow")
          /\ cache' = [cache EXCEPT ![doc[t]] = @ + want[t]]
          /\ holds' = [holds EXCEPT ![t] = 0]
          /\ Goto(t, "return")
          /\ UNCHANGED <<used, after>>
       \/ /\ Busy(t, "grow")
          /\ cache' = [cache EXCEPT ![doc[t]] = 0]
          /\ Subtract(t, cache[doc[t]], "return")
          /\ UNCHANGED holds
    /\ buffered' = [buffered EXCEPT ![doc[t]] = @ + 1]
    /\ UNCHANGED <<want, call, seen, listening, woken, lock, logged, callVars>>

\* reset_after_trim drops the entry.
Reset(t) ==
    /\ pc[t] = "reset"
    /\ cache' = [cache EXCEPT ![doc[t]] = 0]
    /\ Subtract(t, cache[doc[t]], "return")
    /\ UNCHANGED <<want, call, holds, seen, listening, woken, lock, logged, buffered, callVars>>

\* The call returns, and its guard of the document's lock is dropped.
Return(t) ==
    /\ pc[t] = "return"
    /\ lock' = [d \in Docs |-> IF lock[d] = t THEN None ELSE lock[d]]
    /\ doc' = [doc EXCEPT ![t] = None] /\ op' = [op EXCEPT ![t] = "none"]
    /\ stage' = [stage EXCEPT ![t] = "none"]
    /\ want' = [want EXCEPT ![t] = 0] /\ call' = [call EXCEPT ![t] = "try"]
    /\ Goto(t, "idle")
    /\ UNCHANGED <<used, holds, seen, listening, woken, after, cache, logged, buffered, rounds, pass, freed>>

\* retire: a flushed row moves the buffer into the log.
Flushed(d) ==
    /\ budget = "memory" /\ lock[d] = None /\ buffered[d] > 0
    /\ logged' = [logged EXCEPT ![d] = @ + buffered[d]]
    /\ buffered' = [buffered EXCEPT ![d] = 0]
    /\ UNCHANGED <<poolVars, budget, lock, cache, callVars>>

Work(t) ==
    /\ budget = "memory" /\ t \in Readers
    /\ \/ ReserveStep(t)
       \/ BuildPeak(t) \/ Built(t) \/ BuildFails(t) \/ Undo(t)
       \/ ReadHead(t) \/ Fork(t) \/ Discard(t) \/ AnswerBusy(t) \/ Commit(t)
       \/ Ingest(t) \/ IngestFull(t) \/ Grow(t) \/ Reset(t) \/ Return(t)
    /\ UNCHANGED budget

Call(t) ==
    /\ budget = "memory" /\ t \in Readers
    /\ \E d \in Docs, o \in Ops : Begin(t, d, o)
    /\ UNCHANGED budget

Locked(t) == budget = "memory" /\ Lock(t) /\ UNCHANGED budget

-----------------------------------------------------------------------------
Pool(t) == PoolStep(t) /\ UNCHANGED <<budget, docVars, callVars>>

\* Faulty: a build is patient for its document only; for the peak it waits.
FaultyOutOfPatience(t) ==
    /\ budget = "memory" /\ stage[t] # "transient" /\ TimeOut(t)
    /\ UNCHANGED <<budget, docVars, callVars>>

\* RESERVE_PATIENCE: only the memory budget's takes have a deadline.
OutOfPatience(t) == budget = "memory" /\ TimeOut(t) /\ UNCHANGED <<budget, docVars, callVars>>

\* What a task does of itself, once it has called and has the lock it wants.
Progress(t) ==
    \/ Pool(t) \/ OutOfPatience(t) \/ Work(t)
    \/ (ScratchMissed(t) \/ ScratchDone(t)) /\ UNCHANGED <<budget, docVars>>

Next ==
    \/ \E t \in Tasks : Progress(t) \/ Ask(t) \/ Call(t) \/ Locked(t)
    \/ \E d \in Docs : Flushed(d)

\* Threads are scheduled, writes and imports end, deadlines pass, and the
\* mutex of a document is granted in the order it is asked for.
Spec ==
    /\ Init /\ [][Next]_vars
    /\ \A t \in Tasks : WF_vars(Progress(t))
    /\ \A t \in Readers : SF_vars(Locked(t))

-----------------------------------------------------------------------------
\* The counter is exactly what the live reservations hold, a task's own and
\* the decoded documents', and never exceeds the limit: whatever interleaving
\* of loads, swaps, releases, evictions, moves of a reservation into an entry
\* and growths, a build refused half way included.
Accounted ==
    /\ used = Cardinality(Bytes(holds, Tasks)) + Cardinality(Bytes(cache, Docs))
    /\ used <= Limit
    /\ \A t \in Tasks : pc[t] = "idle" => holds[t] = 0

\* A mandatory drain (Wait::Forever) that asked for no more than the pool is
\* eventually served, others asking finitely often.
EventuallyServed ==
    \A t \in Drains : budget = "scratch" /\ pc[t] = "enable" ~> pc[t] = "granted"

\* Whatever a reader holds while it waits (a document's lock, the reservation
\* of a half-built entry) and whomever it evicts for it, every operation on a
\* decoded document ends and releases the document's lock.
OperationsEnd ==
    \A t \in Readers : budget = "memory" /\ pc[t] # "idle" ~> pc[t] = "idle" /\ \A d \in Docs : lock[d] # t

=============================================================================
