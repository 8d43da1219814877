------------------------------- MODULE Worker -------------------------------
(***************************************************************************)
(* storage/worker.rs: the one background worker, the callers that ask it   *)
(* for work, and the catalogue rows that name the work.                    *)
(*                                                                         *)
(* The rows are the work list: a document in the trash, a purge that was   *)
(* claimed, an account being erased.  Everything else (the channel, the    *)
(* local queue, the deadlines, the rescan bit) is a bounded reminder of it *)
(* in the memory of a process that may crash.  Modelled here are document  *)
(* deletion, account erasure, the orphan sweep and the durable scan, for   *)
(* the documents of one account; an await is the end of an action.         *)
(***************************************************************************)
EXTENDS Deadlines, Sequences, SequencesExt

CONSTANTS
    MaxDoc,     \* documents 1..MaxDoc, in the order of their ids
    Queue,      \* QUEUE, the channel's capacity
    Page,       \* PAGE, of a scan and of an erasure
    Grace,      \* DELETION_GRACE, in units of BACKOFF
    MaxFaults,  \* bound: failed calls and crashes
    MaxRequests \* bound: requests of the callers

ASSUME WorkerAssumption ==
    /\ MaxDoc \in Nat /\ MaxFaults \in Nat /\ MaxRequests \in Nat
    /\ Queue \in Nat \ {0} /\ Page \in Nat \ {0} /\ Grace \in Nat \ {0}

Docs == 1..MaxDoc
Nil == 0

Delete(d) == [kind |-> "delete", id |-> d]
EraseAccount(after) == [kind |-> "erase", id |-> after]
Scan(after) == [kind |-> "scan", id |-> after]
SweepOrphans == [kind |-> "sweep", id |-> Nil]
NoTask == [kind |-> "none", id |-> Nil]

Tasks == {Delete(d) : d \in Docs} \cup {EraseAccount(d) : d \in Docs \cup {Nil}}
            \cup {Scan(d) : d \in Docs \cup {Nil}} \cup {SweepOrphans}

VARIABLES
    \* the catalogue and the object store
    status,     \* documents.status, "gone" once the row is deleted
    grace,      \* time left until deleted_at + DELETION_GRACE
    blobs,      \* the documents whose objects are still there
    account,    \* accounts.status
    \* the callers
    asks,       \* requests whose commit is done and whose ask is not
    late,       \* a caller has seen a full channel and not yet set the bit
    \* the worker's process
    chan, rescan, local, deadlines,
    sweepAfter, \* orphan_sweep_not_before, as time left
    startup,    \* the verification pass is still owed
    pc, task,
    quiet,      \* documents marked by another process that no pass has reached
    faults, requests

catalogue == <<status, grace, blobs, account>>
callers == <<asks, late, quiet>>
queues == <<chan, rescan, local, deadlines>>
vars == <<catalogue, callers, queues, sweepAfter, startup, pc, task, faults, requests>>

Statuses == {"active", "deleting", "purging", "gone"}
Steps == {"start", "head", "select", "task", "claim", "purge", "finish"}
Entry == [due : (-Ceiling - 1)..Max({Ceiling, Grace}), failures : 0..MaxFaults, armed : BOOLEAN]

TypeOK ==
    /\ status \in [Docs -> Statuses] /\ grace \in [Docs -> 0..Grace]
    /\ blobs \subseteq Docs /\ account \in {"active", "erasing", "erased"}
    /\ asks \subseteq Tasks /\ late \in BOOLEAN /\ quiet \subseteq Docs
    /\ chan \in Seq(Tasks) /\ Len(chan) <= Queue /\ rescan \in BOOLEAN
    /\ local \in Seq(Tasks)
    /\ DOMAIN deadlines.entries \subseteq Tasks
    /\ Cardinality(DOMAIN deadlines.entries) <= Capacity
    /\ \A t \in DOMAIN deadlines.entries : deadlines.entries[t] \in Entry
    /\ deadlines.refusal \in {Never} \cup 0..Max({Ceiling, Grace})
    /\ sweepAfter \in 0..Ceiling /\ startup \in BOOLEAN
    /\ pc \in Steps /\ task \in Tasks \cup {NoTask}
    /\ faults \in 0..MaxFaults /\ requests \in 0..MaxRequests

\* A process that has just started knows nothing.
FreshProcess ==
    /\ chan' = << >> /\ rescan' = FALSE /\ local' = << >> /\ deadlines' = NoDeadlines
    /\ sweepAfter' = 0 /\ startup' = TRUE /\ pc' = "start" /\ task' = NoTask
    /\ asks' = {} /\ late' = FALSE

\* What an earlier process may have left in the catalogue.
Backlog ==
    /\ status \in [Docs -> {"active", "deleting", "purging"}]
    /\ account = "active"
    /\ grace = [d \in Docs |-> IF status[d] = "deleting" THEN Grace ELSE 0]
    /\ blobs = Docs

Init ==
    /\ Backlog
    /\ asks = {} /\ late = FALSE /\ quiet = {}
    /\ chan = << >> /\ rescan = FALSE /\ local = << >> /\ deadlines = NoDeadlines
    /\ sweepAfter = 0 /\ startup = TRUE
    /\ pc = "start" /\ task = NoTask
    /\ faults = 0 /\ requests = 0

Fault == faults < MaxFaults /\ faults' = faults + 1
Request == requests < MaxRequests /\ requests' = requests + 1

-----------------------------------------------------------------------------
(* The callers.  A row is committed first and the worker asked afterwards. *)

Awaiting(d) == status[d] \in {"deleting", "purging"}

\* mark_document_deleting.  Bound: one unasked request per document.
MarkDeleting(d) ==
    /\ Request
    /\ status[d] = "active" /\ Delete(d) \notin asks
    /\ status' = [status EXCEPT ![d] = "deleting"]
    /\ grace' = [grace EXCEPT ![d] = Grace]
    /\ asks' = asks \cup {Delete(d)}
    /\ UNCHANGED <<blobs, account, late, quiet, queues, sweepAfter, startup, pc, task, faults>>

\* hasten_deletion, "delete forever".
Hasten(d) ==
    /\ Request
    /\ status[d] = "deleting" /\ Delete(d) \notin asks
    /\ grace' = [grace EXCEPT ![d] = 0]
    /\ asks' = asks \cup {Delete(d)}
    /\ quiet' = quiet \ {d}
    /\ UNCHANGED <<status, blobs, account, late, queues, sweepAfter, startup, pc, task, faults>>

\* restore_document: only the status decides.
Restore(d) ==
    /\ Request
    /\ status[d] = "deleting"
    /\ status' = [status EXCEPT ![d] = "active"]
    /\ grace' = [grace EXCEPT ![d] = 0]
    /\ quiet' = quiet \ {d}
    /\ UNCHANGED <<blobs, account, asks, late, queues, sweepAfter, startup, pc, task, faults>>

Marked ==
    /\ Request
    /\ account = "active" /\ account' = "erasing"
    /\ status' = [d \in Docs |-> IF status[d] = "active" THEN "deleting" ELSE status[d]]
    /\ grace' = [d \in Docs |-> IF status[d] = "active" THEN Grace ELSE grace[d]]

\* begin_account_erasure, and the ask that follows it.
BeginAccountErasure ==
    /\ Marked
    /\ asks' = asks \cup {EraseAccount(Nil)}
    /\ UNCHANGED <<blobs, late, quiet, queues, sweepAfter, startup, pc, task, faults>>

\* The operator's command runs in a process of its own, which has no worker.
OperatorErase ==
    /\ Marked
    /\ quiet' = quiet \cup {d \in Docs : status[d] = "active"}
    /\ UNCHANGED <<blobs, asks, late, queues, sweepAfter, startup, pc, task, faults>>

\* Handle::ask: try_send; a caller that finds the channel full sets the bit
\* in a step of its own.
Ask(t) ==
    /\ t \in asks /\ asks' = asks \ {t}
    /\ \/ Len(chan) < Queue /\ chan' = Append(chan, t) /\ UNCHANGED late
       \/ Len(chan) = Queue /\ late' = TRUE /\ UNCHANGED chan
    /\ UNCHANGED <<catalogue, quiet, rescan, local, deadlines, sweepAfter, startup, pc, task, faults, requests>>

SetRescan ==
    /\ late /\ late' = FALSE /\ rescan' = TRUE
    /\ UNCHANGED <<catalogue, asks, quiet, chan, local, deadlines, sweepAfter, startup, pc, task, faults, requests>>

Tick ==
    /\ pc # "head"
    /\ grace' = [d \in Docs |-> Max({grace[d] - 1, 0})]
    /\ deadlines' = Later(deadlines)
    /\ sweepAfter' = Max({sweepAfter - 1, 0})
    /\ UNCHANGED <<status, blobs, account, callers, chan, rescan, local, startup, pc, task, faults, requests>>

Crash ==
    /\ Fault /\ FreshProcess
    /\ UNCHANGED <<catalogue, quiet, requests>>

-----------------------------------------------------------------------------
(* The run loop. *)

\* The worker's own asks: what does not fit becomes the bit.  The worker is
\* the channel's only consumer, so nothing comes between the two.
Sent(c, ts) == SubSeq(c \o ts, 1, Min({Queue, Len(c) + Len(ts)}))
Overflows(c, ts) == Len(c) + Len(ts) > Queue

HasScan(l) == \E i \in DOMAIN l : l[i].kind = "scan"

\* enqueue_orphan_sweep
OrphanSweepQueued(l, D, after) ==
    IF Contains(l, SweepOrphans) \/ Waiting(D, SweepOrphans) THEN [local |-> l, deadlines |-> D]
    ELSE IF after > 0 THEN [local |-> l, deadlines |-> At(D, SweepOrphans, after)]
    ELSE [local |-> Append(l, SweepOrphans), deadlines |-> D]

\* enqueue_overflow_scan: the bit is kept until a fresh pass can start.
OverflowScan(l, D, bit, after) ==
    LET q == IF bit THEN OrphanSweepQueued(l, D, after) ELSE [local |-> l, deadlines |-> D]
    IN  [local |-> IF HasScan(q.local) \/ ~bit THEN q.local ELSE Append(q.local, Scan(Nil)),
         deadlines |-> q.deadlines, rescan |-> bit /\ HasScan(q.local)]

\* enqueue_due_rescan
DueRescan(l, D, bit, after) ==
    LET q == OrphanSweepQueued(l, D, after)
    IN  [local |-> IF HasScan(q.local) THEN q.local ELSE Append(q.local, Scan(Nil)),
         deadlines |-> q.deadlines, rescan |-> bit \/ HasScan(q.local)]

\* run, its first two lines.
Start ==
    /\ pc = "start" /\ pc' = "head"
    /\ chan' = Sent(chan, <<Scan(Nil), SweepOrphans>>)
    /\ rescan' = (rescan \/ Overflows(chan, <<Scan(Nil), SweepOrphans>>))
    /\ UNCHANGED <<catalogue, callers, local, deadlines, sweepAfter, startup, task, faults, requests>>

\* fire_due, then the next local task; with none, the worker waits.
LoopHead ==
    /\ pc = "head"
    /\ \E order \in SetToSeqs(DueTasks(deadlines) \ ToSet(local)) :
        LET l == local \o order
            f == IF RescanDue(deadlines)
                 THEN DueRescan(l, Fired(deadlines), rescan, sweepAfter)
                 ELSE [local |-> l, deadlines |-> Fired(deadlines), rescan |-> rescan]
        IN  /\ deadlines' = f.deadlines /\ rescan' = f.rescan
            /\ \/ f.local = << >> /\ local' = << >> /\ pc' = "select" /\ UNCHANGED task
               \/ /\ f.local # << >> /\ local' = Tail(f.local)
                  /\ task' = Head(f.local) /\ pc' = "task"
    /\ UNCHANGED <<catalogue, callers, chan, sweepAfter, startup, faults, requests>>

\* select!: a message and a deadline race.
Receive ==
    /\ pc = "select" /\ chan # << >>
    /\ task' = Head(chan) /\ chan' = Tail(chan) /\ pc' = "task"
    /\ UNCHANGED <<catalogue, callers, rescan, local, deadlines, sweepAfter, startup, faults, requests>>

Wake ==
    /\ pc = "select" /\ Ready(deadlines) /\ pc' = "head"
    /\ UNCHANGED <<catalogue, callers, queues, sweepAfter, startup, task, faults, requests>>

\* The end of an iteration, with the queues the task left behind.
Done(c, l, D, bit, after) ==
    LET q == OverflowScan(l, D, bit, after)
    IN  /\ local' = q.local /\ deadlines' = q.deadlines /\ rescan' = q.rescan
        /\ chan' = c /\ sweepAfter' = after
        /\ task' = NoTask /\ pc' = "head"

\* Worker::failed
Failing ==
    /\ Fault
    /\ LET D == Failed(deadlines, task)
       IN  Done(chan, local, D, rescan \/ task = SweepOrphans,
                IF task = SweepOrphans THEN Backoff(Failures(deadlines, task) + 1) ELSE sweepAfter)

-----------------------------------------------------------------------------
(* Scan: one keyset page of the durable state. *)

AwaitingAfter(after) == {d \in Docs : d > after /\ Awaiting(d)}

\* split_ids: the first Page of the rows in the order of their ids, and whether
\* a row lies past them.  There is exactly one such page.
Pages(S) ==
    {page \in BoundedSeq(S, Page) :
        /\ \A i, j \in DOMAIN page : i < j => page[i] < page[j]
        /\ \A d \in S \ ToSet(page) :
            Len(page) = Page /\ \A i \in DOMAIN page : page[i] < d}

HasMore(S, page) == ~ S \subseteq ToSet(page)

\* A task that is waiting out a deadline is dropped (run and process).
\* Only a deletion looks again: "delete forever" may have ended its grace.
Dropped ==
    /\ pc = "task" /\ Waiting(deadlines, task)
    /\ \/ /\ ~ /\ task.kind = "delete" /\ Failures(deadlines, task) = 0
               /\ \/ status[task.id] = "purging"
                  \/ status[task.id] = "deleting" /\ grace[task.id] = 0
          /\ Done(chan, local, deadlines, rescan, sweepAfter)
          /\ UNCHANGED faults
       \/ task.kind = "delete" /\ Failures(deadlines, task) = 0 /\ Failing
    /\ UNCHANGED <<catalogue, callers, startup, requests>>

\* scan: the work of one page.  The account has no second page.
ScanTasks(page, after) ==
    [i \in DOMAIN page |-> Delete(page[i])]
        \o (IF after = Nil /\ account = "erasing" THEN <<EraseAccount(Nil)>> ELSE << >>)

\* What run does with the page; the first pass to end owes one more.
RunScan ==
    /\ pc = "task" /\ task.kind = "scan" /\ ~Waiting(deadlines, task)
    /\ LET found == AwaitingAfter(task.id)
       IN  \E page \in Pages(found) :
            LET next == IF HasMore(found, page) THEN <<Scan(Last(page))>>
                        ELSE IF startup THEN <<Scan(Nil)>> ELSE << >>
            IN  /\ Done(chan, local \o ScanTasks(page, task.id) \o next,
                        Clear(deadlines, task), rescan, sweepAfter)
                /\ startup' = (startup /\ HasMore(found, page))
                /\ quiet' = quiet \ ToSet(page)
    /\ UNCHANGED <<catalogue, asks, late, faults, requests>>

ScanFails ==
    /\ pc = "task" /\ task.kind = "scan" /\ ~Waiting(deadlines, task)
    /\ Failing
    /\ UNCHANGED <<catalogue, callers, startup, requests>>

-----------------------------------------------------------------------------
(* SweepOrphans: the one task on a clock. *)

\* Faulty: the sweep does not owe a walk of durable state.
FaultySweepOwes == rescan

\* process sets the bit before it executes the sweep.
SweepOwes == TRUE

RunSweep ==
    /\ pc = "task" /\ task = SweepOrphans /\ ~Waiting(deadlines, task)
    /\ Done(chan, local, At(Clear(deadlines, task), task, Ceiling), SweepOwes, Ceiling)
    /\ UNCHANGED <<catalogue, callers, startup, faults, requests>>

SweepFails ==
    /\ pc = "task" /\ task = SweepOrphans /\ ~Waiting(deadlines, task)
    /\ Failing
    /\ UNCHANGED <<catalogue, callers, startup, requests>>

-----------------------------------------------------------------------------
(* Delete: read, claim, objects, row. *)

\* Executed when no deadline is in the way, or when the grace it waits for
\* was cut short.
MayDelete(d) ==
    /\ pc = "task" /\ task = Delete(d)
    /\ Waiting(deadlines, task) =>
        /\ Failures(deadlines, task) = 0
        /\ status[d] = "purging" \/ (status[d] = "deleting" /\ grace[d] = 0)

\* The document is read; inside its grace it is put off until the end of it.
ReadDocument(d) ==
    /\ MayDelete(d)
    /\ \/ /\ ~Awaiting(d)
          /\ Done(chan, local, Clear(deadlines, task), rescan, sweepAfter)
       \/ /\ status[d] = "deleting" /\ grace[d] > 0
          /\ Done(chan, local, Clear(At(deadlines, task, grace[d]), task), rescan, sweepAfter)
       \/ /\ \/ status[d] = "deleting" /\ grace[d] = 0 /\ pc' = "claim"
             \/ status[d] = "purging" /\ pc' = "purge"
          /\ UNCHANGED <<queues, sweepAfter, task>>
    /\ UNCHANGED <<catalogue, callers, startup, faults, requests>>

\* claim_document_purge in the catalogue.
Claimable(d) == status[d] = "deleting" /\ grace[d] = 0

\* Faulty: a lost race against restoration does not stop the purge.
FaultyClaimPurge(d) ==
    /\ pc = "claim" /\ task = Delete(d)
    /\ pc' = "purge"
    /\ status' = IF Claimable(d) THEN [status EXCEPT ![d] = "purging"] ELSE status
    /\ UNCHANGED <<queues, sweepAfter, task>>
    /\ UNCHANGED <<grace, blobs, account, callers, startup, faults, requests>>

\* The claim, which a restoration may have beaten.
ClaimPurge(d) ==
    /\ pc = "claim" /\ task = Delete(d)
    /\ \/ /\ Claimable(d) /\ status' = [status EXCEPT ![d] = "purging"] /\ pc' = "purge"
          /\ UNCHANGED <<queues, sweepAfter, task>>
       \/ /\ ~Claimable(d) /\ UNCHANGED status
          /\ Done(chan, local, Clear(deadlines, task), rescan, sweepAfter)
    /\ UNCHANGED <<grace, blobs, account, callers, startup, faults, requests>>

PurgeBlobs(d) ==
    /\ pc = "purge" /\ task = Delete(d)
    /\ blobs' = blobs \ {d} /\ pc' = "finish"
    /\ UNCHANGED <<status, grace, account, callers, queues, sweepAfter, startup, task, faults, requests>>

\* finish_document_deletion; the owner's erasure may have waited for this.
RowDeleted(d) ==
    status' = IF status[d] = "purging" THEN [status EXCEPT ![d] = "gone"] ELSE status

FinishDeletion(d) ==
    /\ pc = "finish" /\ task = Delete(d)
    /\ RowDeleted(d)
    /\ LET ask == <<EraseAccount(Nil)>>
       IN  Done(Sent(chan, ask), local, RemoveDeadline(deadlines, task),
                rescan \/ Overflows(chan, ask), sweepAfter)
    /\ UNCHANGED <<grace, blobs, account, callers, startup, faults, requests>>

\* A call of the deletion fails; its own effect may have happened or not.
DeleteFails(d) ==
    /\ \/ MayDelete(d) /\ UNCHANGED <<status, blobs>>
       \/ /\ pc = "claim" /\ task = Delete(d) /\ UNCHANGED blobs
          /\ \/ UNCHANGED status
             \/ Claimable(d) /\ status' = [status EXCEPT ![d] = "purging"]
       \/ /\ pc = "purge" /\ task = Delete(d) /\ UNCHANGED status
          /\ blobs' \in {blobs, blobs \ {d}}
       \/ /\ pc = "finish" /\ task = Delete(d) /\ UNCHANGED blobs
          /\ UNCHANGED status \/ RowDeleted(d)
    /\ Failing
    /\ UNCHANGED <<grace, account, callers, startup, requests>>

-----------------------------------------------------------------------------
(* EraseAccount *)

Remaining == {d \in Docs : status[d] # "gone"}

\* A page of the account's documents is woken; the account goes with none left.
RunErase ==
    /\ pc = "task" /\ task.kind = "erase" /\ ~Waiting(deadlines, task)
    /\ \E page \in IF account = "erasing" THEN Pages({d \in Remaining : d > task.id}) ELSE {<< >>} :
        LET wake == [i \in DOMAIN page |-> Delete(page[i])]
                        \o (IF Len(page) = Page THEN <<EraseAccount(Last(page))>> ELSE << >>)
        IN  /\ Done(Sent(chan, wake), local, Clear(deadlines, task),
                    rescan \/ Overflows(chan, wake), sweepAfter)
            /\ quiet' = quiet \ ToSet(page)
    /\ account' = IF account = "erasing" /\ task.id = Nil /\ Remaining = {}
                  THEN "erased" ELSE account
    /\ UNCHANGED <<status, grace, blobs, asks, late, startup, faults, requests>>

EraseFails ==
    /\ pc = "task" /\ task.kind = "erase" /\ ~Waiting(deadlines, task)
    /\ Failing
    /\ account' \in {account} \cup
        (IF account = "erasing" /\ task.id = Nil /\ Remaining = {} THEN {"erased"} ELSE {})
    /\ UNCHANGED <<status, grace, blobs, callers, startup, requests>>

-----------------------------------------------------------------------------
Deletion(d) ==
    \/ ReadDocument(d) \/ ClaimPurge(d) \/ PurgeBlobs(d) \/ FinishDeletion(d) \/ DeleteFails(d)

Work ==
    \/ Start \/ LoopHead \/ Receive \/ Wake
    \/ Dropped \/ RunScan \/ ScanFails \/ RunSweep \/ SweepFails
    \/ RunErase \/ EraseFails
    \/ \E d \in Docs : Deletion(d)

Requests ==
    \/ BeginAccountErasure \/ OperatorErase
    \/ \E d \in Docs : MarkDeleting(d) \/ Hasten(d) \/ Restore(d)

Callers == SetRescan \/ \E t \in asks : Ask(t)

Next ==
    \/ Work \/ Requests \/ Callers \/ Tick \/ Crash

CanWork == pc # "select" \/ chan # << >> \/ Ready(deadlines)

\* Time passes; the worker's task and its callers are scheduled.  The first
\* conjunct is WF_vars(Work) with the guard of Work written out.
Fairness ==
    /\ []<>~CanWork \/ []<><<Work>>_vars
    /\ SF_vars(Tick) /\ WF_vars(Callers)

Spec == Init /\ [][Next]_vars /\ Fairness

-----------------------------------------------------------------------------
(* Properties *)

Pending(t) == t \in asks \cup ToSet(chan) \cup ToSet(local) \cup {task} \cup Armed(deadlines)

\* A fresh pass is owed, or will be when a refused deadline comes.
PassOwed == rescan \/ late \/ deadlines.refusal # Never \/ pc = "start"

\* The orphan sweep, the worker's only clock, is never forgotten: it is
\* queued, running, armed, or will be rebuilt by a rescan that is owed,
\* whatever failed, overflowed or was refused on the way (process, failed,
\* enqueue_orphan_sweep).
SweepOwed == Pending(SweepOrphans) \/ PassOwed

\* A document this process was asked to delete always has a reminder that
\* names it or a pass that has yet to reach it, so its purge never waits for
\* the hourly walk alone (Deadlines::at, clear, refuse, the rescan bit).
Reminded ==
    \A d \in Docs \ quiet : Awaiting(d) =>
        \/ Pending(Delete(d)) \/ PassOwed
        \/ \E after \in 0..(d - 1) : Pending(Scan(after)) \/ Pending(EraseAccount(after))

\* Objects are deleted only after restoration is closed for good, so a
\* document that is active or can be restored still has them (delete,
\* claim_document_purge, restore_document), across crashes and races.
RestorableIsWhole == \A d \in Docs : status[d] \in {"active", "deleting"} => d \in blobs

\* Work the catalogue names.  An account whose document was taken back
\* after the erasure began has to wait for somebody to delete that document.
Outstanding ==
    \/ \E d \in Docs : Awaiting(d)
    \/ account = "erasing" /\ \A d \in Docs : status[d] # "active"

\* Once requests and failures end, every deletion and every erasure ends,
\* also when its wake-up was refused, overtaken or never sent, or a crash
\* cut it in two: the hourly sweep's walk of durable state finds it
\* (Worker::process, scan, pending_background_work).
BacklogDrains == []<>~Outstanding
=============================================================================
