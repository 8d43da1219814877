--------------------------- MODULE BudgetsProofs ---------------------------
(***************************************************************************)
(* Proofs about the byte pool and the two budgets over it, for any number  *)
(* of tasks and documents and any limit: the counter is exactly what is    *)
(* reserved, and no wake-up is missed.                                     *)
(***************************************************************************)
EXTENDS Budgets, FiniteSetTheorems, TLAPS

-----------------------------------------------------------------------------
(* The inductive invariant *)

\* Where a task asks the pool for bytes, or has just been answered.
Asking == {"enable", "load", "swap", "wait", "granted", "refused", "take", "evict"}

\* Where a reader works on a document under its lock.
UnderLock == {"read", "fork", "command", "ingest", "reset", "undo"}

PoolTyped ==
    /\ used \in Nat /\ used <= Limit
    /\ want \in [Tasks -> Nat] /\ holds \in [Tasks -> Nat] /\ seen \in [Tasks -> Nat]
    /\ call \in [Tasks -> {"try", "probe", "take"}]
    /\ listening \subseteq Tasks /\ woken \subseteq Tasks

StepsTyped ==
    /\ pc \in [Tasks -> Asking \cup UnderLock \cup {"idle", "lock", "notify", "discard", "return"}]
    /\ after \in [Tasks -> UnderLock \cup {"idle", "take", "evict", "return"}]
    /\ doc \in [Tasks -> Docs \cup {None}]
    /\ op \in [Tasks -> Ops \cup {"none"}]
    /\ stage \in [Tasks -> {"none", "resident", "transient", "fork", "prepare", "join", "grow"}]

DocsTyped ==
    /\ lock \in [Docs -> Tasks \cup {None}]
    /\ cache \in [Docs -> Nat] /\ logged \in [Docs -> Nat] /\ buffered \in [Docs -> Nat]

Typed == PoolTyped /\ StepsTyped /\ DocsTyped

\* Where a task is, the notification of a release being on its way there.
At(t) == IF pc[t] = "notify" THEN after[t] ELSE pc[t]

\* A task holds what it was just granted and, in the second half of a build,
\* the estimate of the document it builds.
Entry(t) ==
    IF At(t) \in Asking \cup {"undo"} /\ stage[t] = "transient" THEN Resident(doc[t]) ELSE 0
Grant(t) == IF At(t) \in {"granted", "discard"} THEN want[t] ELSE 0

\* It has the document's lock from taking it until it returns or commits.
Owning(t) ==
    \/ At(t) \in UnderLock
    \/ At(t) \in Asking /\ stage[t] \in {"resident", "transient", "fork", "prepare", "grow"}
Building(t) == At(t) \in Asking \cup {"undo"} /\ stage[t] \in {"resident", "transient"}

TaskInv(t) ==
    /\ holds[t] = Entry(t) + Grant(t)
    /\ budget = "scratch" => stage[t] = "none"
    /\ At(t) = "undo" => stage[t] = "transient"
    /\ At(t) = "lock" => doc[t] \in Docs /\ op[t] \in Ops \ {"join"}
    /\ Owning(t) => doc[t] \in Docs /\ lock[doc[t]] = t
    /\ Building(t) => cache[doc[t]] = 0 /\ op[t] \in {"read", "fork", "command"}
    /\ At(t) \in Asking /\ stage[t] = "resident" => want[t] = Resident(doc[t])

\* The counter against the bytes of the reservations.
Counted ==
    /\ IsFiniteSet(Bytes(holds, Tasks)) /\ IsFiniteSet(Bytes(cache, Docs))
    /\ used = Cardinality(Bytes(holds, Tasks)) + Cardinality(Bytes(cache, Docs))

\* A patient task is registered from before its check to the end of its wait;
\* what it saw is out of date only downwards, with a release about to notify.
Notifying == \E u \in Tasks : pc[u] = "notify"
Listens(t) ==
    pc[t] = "wait" \/ (pc[t] \in {"load", "swap"} /\ call[t] = "take") => t \in listening
Sensed(t) ==
    pc[t] = "swap" /\ call[t] = "take" /\ t \notin woken => seen[t] <= used \/ Notifying
WaitsRightly(t) ==
    pc[t] = "wait" /\ t \notin woken => used + want[t] > Limit \/ Notifying
WakeInv(t) == Listens(t) /\ Sensed(t) /\ WaitsRightly(t)

IInv ==
    /\ Typed
    /\ \A t \in Tasks : TaskInv(t) /\ WakeInv(t)
    /\ Counted


-----------------------------------------------------------------------------
(* Counting bytes *)

\* A reservation of n bytes is n bytes.
LEMMA OneReservation ==
    ASSUME NEW o, NEW n \in Nat
    PROVE  IsFiniteSet({o} \X (1..n)) /\ Cardinality({o} \X (1..n)) = n
  <1>1. IsFiniteSet({o}) /\ Cardinality({o}) = 1
    BY FS_Singleton
  <1>2. IsFiniteSet(1..n) /\ Cardinality(1..n) = n
    BY FS_Interval
  <1>3. IsFiniteSet({o} \X (1..n)) /\ Cardinality({o} \X (1..n)) = Cardinality({o}) * Cardinality(1..n)
    BY <1>1, <1>2, FS_Product
  <1>. QED
    BY <1>1, <1>2, <1>3

\* A change of one reservation changes the bytes by as much.
LEMMA BytesChange ==
    ASSUME NEW S, NEW f \in [S -> Nat], NEW g \in [S -> Nat], NEW o \in S,
           \A p \in S \ {o} : g[p] = f[p], IsFiniteSet(Bytes(f, S))
    PROVE  /\ IsFiniteSet(Bytes(g, S))
           /\ Cardinality(Bytes(f, S)) \in Nat
           /\ Cardinality(Bytes(g, S)) = Cardinality(Bytes(f, S)) - f[o] + g[o]
  <1>. DEFINE A == {o} \X (1..f[o])
              B == {o} \X (1..g[o])
              R == Bytes(f, S) \ A
  <1>1. Bytes(f, S) = R \cup A /\ Bytes(g, S) = R \cup B
    <2>1. A \subseteq Bytes(f, S)
      BY DEF Bytes
    <2>2. ASSUME NEW b
          PROVE  b \in Bytes(g, S) <=> b \in R \cup B
      <3>1. b \in Bytes(f, S) <=> \E p \in S : b \in {p} \X (1..f[p])
        BY DEF Bytes
      <3>2. b \in Bytes(g, S) <=> \E p \in S : b \in {p} \X (1..g[p])
        BY DEF Bytes
      <3>5. ASSUME b \in Bytes(g, S)
            PROVE  b \in R \cup B
        <4>1. PICK p \in S : b \in {p} \X (1..g[p])
          BY <3>2, <3>5
        <4>2. CASE p = o
          BY <4>1, <4>2
        <4>3. CASE p # o
          <5>1. b \in {p} \X (1..f[p])
            BY <4>1, <4>3
          <5>2. b \in Bytes(f, S) /\ b[1] = p
            BY <3>1, <5>1
          <5>. QED
            BY <4>3, <5>2
        <4>. QED
          BY <4>2, <4>3
      <3>6. ASSUME b \in R
            PROVE  b \in Bytes(g, S)
        <4>1. PICK p \in S : b \in {p} \X (1..f[p])
          BY <3>1, <3>6
        <4>2. p # o
          BY <3>6, <4>1
        <4>. QED
          BY <3>2, <4>1, <4>2
      <3>7. ASSUME b \in B
            PROVE  b \in Bytes(g, S)
        BY <3>2, <3>7
      <3>. QED
        BY <3>5, <3>6, <3>7
    <2>. QED
      BY <2>1, <2>2
  <1>2. IsFiniteSet(A) /\ Cardinality(A) = f[o] /\ IsFiniteSet(B) /\ Cardinality(B) = g[o]
    <2>1. f[o] \in Nat /\ g[o] \in Nat
      OBVIOUS
    <2>. QED
      BY <2>1, OneReservation
  <1>3. R \cap A = {} /\ R \cap B = {}
    <2>1. ASSUME NEW b \in B, b \in Bytes(f, S)
          PROVE  b \in A
      <3>1. PICK p \in S : b \in {p} \X (1..f[p])
        BY <2>1 DEF Bytes
      <3>2. p = o
        BY <2>1, <3>1
      <3>. QED
        BY <3>1, <3>2
    <2>. QED
      BY <2>1
  <1>4. IsFiniteSet(R) /\ Cardinality(R) \in Nat
    BY FS_Difference, FS_CardinalityType
  <1>5. f[o] \in Nat /\ g[o] \in Nat
    OBVIOUS
  <1>. HIDE DEF A, B, R
  <1>6. Cardinality(R \cap A) = 0 /\ Cardinality(R \cap B) = 0
    BY <1>3, FS_EmptySet
  <1>7. Cardinality(R \cup A) = Cardinality(R) + Cardinality(A) - Cardinality(R \cap A)
    BY <1>2, <1>4, FS_Union
  <1>8. /\ IsFiniteSet(R \cup B)
        /\ Cardinality(R \cup B) = Cardinality(R) + Cardinality(B) - Cardinality(R \cap B)
    BY <1>2, <1>4, FS_Union
  <1>9. /\ IsFiniteSet(Bytes(g, S))
        /\ Cardinality(Bytes(f, S)) = Cardinality(R) + f[o]
        /\ Cardinality(Bytes(g, S)) = Cardinality(R) + g[o]
    BY <1>1, <1>2, <1>4, <1>5, <1>6, <1>7, <1>8
  <1>. QED
    BY <1>4, <1>5, <1>9

-----------------------------------------------------------------------------
(* What a step of one task leaves to the others *)

Same(u) ==
    /\ pc'[u] = pc[u] /\ after'[u] = after[u] /\ want'[u] = want[u] /\ call'[u] = call[u]
    /\ holds'[u] = holds[u] /\ seen'[u] = seen[u]
    /\ doc'[u] = doc[u] /\ op'[u] = op[u] /\ stage'[u] = stage[u]

\* A document somebody else has locked: its entry can only be dropped, and its
\* size stays.
KeepsDoc(d) ==
    /\ lock'[d] = lock[d]
    /\ cache[d] = 0 => cache'[d] = 0
    /\ logged'[d] + buffered'[d] = logged[d] + buffered[d]

Others(t) ==
    /\ \A u \in Tasks \ {t} : Same(u)
    /\ \A d \in Docs : lock[d] \notin {None, t} => KeepsDoc(d)
    /\ budget' = budget

\* Nobody's registration or wake-up is taken away, and a release is notified.
Tells(t) ==
    /\ pc[t] # "notify"
    /\ listening \ {t} \subseteq listening' /\ woken \ {t} \subseteq woken'
    /\ used' >= used \/ pc'[t] = "notify"

\* The estimates are sizes.
LEMMA EstimatesTyped ==
    ASSUME DocsTyped, NEW d \in Docs
    PROVE  /\ Resident(d) \in Nat /\ Transient(d) \in Nat /\ BaseTransient(d) \in Nat
           /\ Expansion \in Nat
  <1>1. logged[d] + buffered[d] \in Nat /\ logged[d] \in Nat
    BY DEF DocsTyped
  <1>2. Expansion \in Nat /\ BuildExpansion \in Nat
    BY BudgetsAssumption
  <1>3. \A a, b \in Nat : a * b \in Nat
    OBVIOUS
  <1>. QED
    BY <1>1, <1>2, <1>3 DEF Resident, Transient, BaseTransient

\* A task that does not move keeps what it holds, its lock and its document.
LEMMA SameTask ==
    ASSUME NEW u \in Tasks, TaskInv(u), Same(u), StepsTyped, DocsTyped,
           Owning(u) => KeepsDoc(doc[u]), budget' = budget
    PROVE  TaskInv(u)'
  <1>1. At(u)' = At(u)
    BY DEF Same, At
  <1>2. Owning(u)' = Owning(u) /\ Building(u)' = Building(u)
    BY <1>1 DEF Same, Owning, Building
  <1>3. Building(u) => Owning(u)
    BY DEF Building, Owning, UnderLock
  <1>4. ASSUME Building(u)
        PROVE  Resident(doc[u])' = Resident(doc[u])
    BY <1>3, <1>4 DEF Resident, KeepsDoc, Same
  <1>5. holds'[u] = Entry(u)' + Grant(u)'
    <2>1. Grant(u)' = Grant(u)
      BY <1>1 DEF Same, Grant
    <2>2. Entry(u)' = Entry(u)
      BY <1>1, <1>4 DEF Same, Entry, Building
    <2>. QED
      BY <2>1, <2>2 DEF TaskInv, Same
  <1>6. Owning(u)' => doc'[u] \in Docs /\ lock'[doc'[u]] = u
    BY <1>2 DEF TaskInv, Same, KeepsDoc
  <1>7. Building(u)' => cache'[doc'[u]] = 0 /\ op'[u] \in {"read", "fork", "command"}
    BY <1>2, <1>3 DEF TaskInv, Same, KeepsDoc
  <1>8. At(u)' \in Asking /\ stage'[u] = "resident" => want'[u] = Resident(doc[u])'
    BY <1>1, <1>4 DEF TaskInv, Same, Building
  <1>. QED
    BY <1>1, <1>5, <1>6, <1>7, <1>8 DEF TaskInv, Same

\* A task that does not move still hears of every release.
LEMMA SameWake ==
    ASSUME NEW u \in Tasks, NEW t \in Tasks, u # t, WakeInv(u), Same(u), PoolTyped, PoolTyped',
           StepsTyped, Tells(t), \A v \in Tasks \ {t} : Same(v)
    PROVE  WakeInv(u)'
  <1>1. u \in listening => u \in listening'
    BY DEF Tells
  <1>2. u \in woken => u \in woken'
    BY DEF Tells
  <1>3. Notifying => Notifying'
    BY DEF Notifying, Tells, Same
  <1>4. used' >= used \/ Notifying'
    BY DEF Notifying, Tells
  <1>5. Listens(u)'
    BY <1>1 DEF WakeInv, Listens, Same
  <1>6. Sensed(u)'
    BY <1>2, <1>3, <1>4 DEF WakeInv, Sensed, Same, PoolTyped
  <1>7. WaitsRightly(u)'
    <2>1. want[u] \in Nat /\ used \in Nat /\ used' \in Nat /\ Limit \in Nat
      BY BytePoolAssumption DEF PoolTyped
    <2>. QED
      BY <1>2, <1>3, <1>4, <2>1 DEF WakeInv, WaitsRightly, Same
  <1>. QED
    BY <1>5, <1>6, <1>7 DEF WakeInv

\* So a step keeps the invariant if it does for the task that takes it.
LEMMA Assemble ==
    ASSUME IInv, NEW t \in Tasks, Typed', Counted', Others(t), TaskInv(t)', Tells(t), WakeInv(t)'
    PROVE  IInv'
  <1>1. ASSUME NEW u \in Tasks \ {t}
        PROVE  TaskInv(u)' /\ WakeInv(u)'
    <2>1. Same(u) /\ TaskInv(u) /\ WakeInv(u)
      BY DEF Others, IInv
    <2>2. Owning(u) => KeepsDoc(doc[u])
      BY <2>1, BudgetsAssumption DEF Others, TaskInv
    <2>. QED
      BY <2>1, <2>2, SameTask, SameWake DEF Others, IInv, Typed
  <1>. QED
    BY <1>1 DEF IInv

-----------------------------------------------------------------------------
(* The counter *)

\* A step that leaves the reservations alone.
LEMMA CountedSame ==
    ASSUME Counted, UNCHANGED <<used, holds, cache>>
    PROVE  Counted'
  BY DEF Counted, Bytes

\* A task's own reservation and the counter change alike.
LEMMA CountedTask ==
    ASSUME Counted, PoolTyped, NEW t \in Tasks,
           holds' \in [Tasks -> Nat], \A u \in Tasks \ {t} : holds'[u] = holds[u],
           cache' = cache, used' = used - holds[t] + holds'[t]
    PROVE  Counted' /\ used' \in Nat
  <1>1. holds \in [Tasks -> Nat] /\ holds[t] \in Nat /\ holds'[t] \in Nat
    BY DEF PoolTyped
  <1>2. /\ IsFiniteSet(Bytes(holds', Tasks)) /\ Cardinality(Bytes(holds, Tasks)) \in Nat
        /\ Cardinality(Bytes(holds', Tasks)) = Cardinality(Bytes(holds, Tasks)) - holds[t] + holds'[t]
    BY <1>1, BytesChange DEF Counted
  <1>3. Cardinality(Bytes(cache, Docs)) \in Nat /\ Bytes(cache', Docs) = Bytes(cache, Docs)
    BY FS_CardinalityType DEF Counted, Bytes
  <1>4. Cardinality(Bytes(holds', Tasks)) \in Nat
    BY <1>2, FS_CardinalityType
  <1>. QED
    BY <1>1, <1>2, <1>3, <1>4 DEF Counted

\* So do an entry's, and the two may change in one step.
LEMMA CountedBoth ==
    ASSUME Counted, PoolTyped, DocsTyped, NEW t \in Tasks, NEW d \in Docs,
           holds' \in [Tasks -> Nat], \A u \in Tasks \ {t} : holds'[u] = holds[u],
           cache' \in [Docs -> Nat], \A e \in Docs \ {d} : cache'[e] = cache[e],
           used' = used - holds[t] + holds'[t] - cache[d] + cache'[d]
    PROVE  Counted' /\ used' \in Nat
  <1>1. /\ holds \in [Tasks -> Nat] /\ holds[t] \in Nat /\ holds'[t] \in Nat
        /\ cache \in [Docs -> Nat] /\ cache[d] \in Nat /\ cache'[d] \in Nat
    BY DEF PoolTyped, DocsTyped
  <1>2. /\ IsFiniteSet(Bytes(holds', Tasks)) /\ Cardinality(Bytes(holds, Tasks)) \in Nat
        /\ Cardinality(Bytes(holds', Tasks)) = Cardinality(Bytes(holds, Tasks)) - holds[t] + holds'[t]
    BY <1>1, BytesChange DEF Counted
  <1>3. /\ IsFiniteSet(Bytes(cache', Docs)) /\ Cardinality(Bytes(cache, Docs)) \in Nat
        /\ Cardinality(Bytes(cache', Docs)) = Cardinality(Bytes(cache, Docs)) - cache[d] + cache'[d]
    BY <1>1, BytesChange DEF Counted
  <1>4. Cardinality(Bytes(holds', Tasks)) \in Nat /\ Cardinality(Bytes(cache', Docs)) \in Nat
    BY <1>2, <1>3, FS_CardinalityType
  <1>. QED
    BY <1>1, <1>2, <1>3, <1>4 DEF Counted

-----------------------------------------------------------------------------
(* Every operation keeps the invariant *)

\* Registering, loading, missing and being woken or timed out change no reservation.
LEMMA TakingKeeps ==
    ASSUME IInv, NEW t \in Tasks, Enable(t) \/ Load(t) \/ SwapFails(t) \/ NoRoom(t) \/ Woken(t) \/ TimeOut(t),
           UNCHANGED <<budget, docVars, callVars>>
    PROVE  IInv'
  <1>. USE BytePoolAssumption, BudgetsAssumption DEF Enable, Load, SwapFails, NoRoom, Woken, TimeOut, Fits, docVars, callVars, Goto, Forget
  <1>0. Typed /\ Counted /\ TaskInv(t) /\ WakeInv(t)
    BY DEF IInv
  <1>1. Counted'
    BY <1>0, CountedSame
  <1>2. Typed'
    <2>1. PoolTyped'
      BY <1>0 DEF Typed, PoolTyped
    <2>2. StepsTyped'
      BY <1>0 DEF Typed, StepsTyped, Asking, UnderLock, Ops
    <2>3. DocsTyped'
      BY <1>0 DEF Typed, DocsTyped
    <2>. QED
      BY <2>1, <2>2, <2>3 DEF Typed
  <1>3. Others(t) /\ Tells(t)
    BY <1>0 DEF Others, Tells, Same, KeepsDoc, Typed, PoolTyped, StepsTyped, DocsTyped
  <1>4. TaskInv(t)'
    BY <1>0 DEF TaskInv, Entry, Grant, Owning, Building, At, Resident, Asking, UnderLock, Typed, PoolTyped, StepsTyped, DocsTyped
  <1>5. WakeInv(t)'
    BY <1>0 DEF WakeInv, Listens, Sensed, WaitsRightly, Notifying, Typed, PoolTyped, StepsTyped
  <1>. QED
    BY <1>1, <1>2, <1>3, <1>4, <1>5, Assemble

\* A swap takes what it saw to be free: the counter has not moved since.
LEMMA SwapKeeps ==
    ASSUME IInv, NEW t \in Tasks, Swap(t), UNCHANGED <<budget, docVars, callVars>>
    PROVE  IInv'
  <1>. USE BytePoolAssumption, BudgetsAssumption DEF Swap, Fits, docVars, callVars, Goto, Forget
  <1>0. Typed /\ Counted /\ TaskInv(t) /\ WakeInv(t)
    BY DEF IInv
  <1>a. used' = used + want[t] /\ used' <= Limit
    <2>1. \A a \in Nat : a <= WordMax => a % (WordMax + 1) = a
      OBVIOUS
    <2>2. seen[t] + want[t] \in Nat /\ seen[t] + want[t] <= WordMax /\ used = seen[t]
      BY <1>0 DEF Typed, PoolTyped
    <2>3. (seen[t] + want[t]) % (WordMax + 1) = seen[t] + want[t]
      BY <2>1, <2>2
    <2>4. used' = seen[t] + want[t] /\ seen[t] + want[t] <= Limit
      BY <2>3
    <2>. QED
      BY <2>2, <2>4
  <1>b. want[t] \in Nat /\ holds[t] \in Nat /\ used \in Nat
    BY <1>0 DEF Typed, PoolTyped
  <1>c. Counted' /\ used' \in Nat
    <2>1. /\ holds' \in [Tasks -> Nat] /\ holds'[t] = holds[t] + want[t]
          /\ \A u \in Tasks \ {t} : holds'[u] = holds[u]
      BY <1>0, <1>b DEF Typed, PoolTyped
    <2>2. used' = used - holds[t] + holds'[t]
      BY <1>a, <1>b, <2>1
    <2>. QED
      BY <1>0, <2>1, <2>2, CountedTask DEF Typed
  <1>1. Counted'
    BY <1>c
  <1>2. Typed'
    BY <1>0, <1>a, <1>c DEF Typed, PoolTyped, StepsTyped, DocsTyped, Asking, UnderLock, Ops
  <1>3. Others(t) /\ Tells(t)
    BY <1>0, <1>a, <1>b DEF Others, Tells, Same, KeepsDoc, Typed, PoolTyped, StepsTyped, DocsTyped
  <1>4. TaskInv(t)'
    BY <1>0 DEF TaskInv, Entry, Grant, Owning, Building, At, Resident, Asking, UnderLock, Typed, PoolTyped, StepsTyped, DocsTyped
  <1>5. WakeInv(t)'
    BY <1>0 DEF WakeInv, Listens, Sensed, WaitsRightly, Notifying, Typed, PoolTyped, StepsTyped
  <1>. QED
    BY <1>1, <1>2, <1>3, <1>4, <1>5, Assemble

\* Everybody registered is told, so everybody who saw too much used is woken.
LEMMA NotifyKeeps ==
    ASSUME IInv, NEW t \in Tasks, NotifyWaiters(t), UNCHANGED <<budget, docVars, callVars>>
    PROVE  IInv'
  <1>. USE DEF NotifyWaiters, docVars, callVars, Goto
  <1>0. Typed /\ Counted /\ \A u \in Tasks : TaskInv(u) /\ WakeInv(u)
    BY DEF IInv
  <1>1. Counted'
    BY <1>0, CountedSame
  <1>2. Typed'
    BY <1>0 DEF Typed, PoolTyped, StepsTyped, DocsTyped, Asking, UnderLock
  <1>3. TaskInv(t)'
    BY <1>0 DEF TaskInv, Entry, Grant, Owning, Building, At, Resident, Asking, UnderLock, Typed, StepsTyped
  <1>4. ASSUME NEW u \in Tasks \ {t}
        PROVE  TaskInv(u)'
    <2>1. Same(u) /\ KeepsDoc(doc[u])
      BY <1>0 DEF Same, KeepsDoc, Typed, StepsTyped
    <2>. QED
      BY <1>0, <2>1, SameTask DEF Typed
  <1>5. ASSUME NEW u \in Tasks
        PROVE  WakeInv(u)'
    BY <1>0 DEF WakeInv, Listens, Sensed, WaitsRightly, Typed, StepsTyped, Asking, UnderLock
  <1>. QED
    BY <1>1, <1>2, <1>3, <1>4, <1>5 DEF IInv

\* A reservation that is dropped was held: the counter never goes below zero.
LEMMA ReleaseKeeps ==
    ASSUME IInv, NEW t \in Tasks, ScratchDone(t) \/ ProbeHit(t) \/ BuildFails(t) \/ Undo(t) \/ Discard(t),
           UNCHANGED <<budget, docVars>>
    PROVE  IInv'
  <1>. USE BytePoolAssumption, BudgetsAssumption DEF ScratchDone, ProbeHit, BuildFails, Undo, Discard, GiveBack, Subtract, Got, Busy, docVars, callVars, Goto
  <1>0. Typed /\ Counted /\ TaskInv(t) /\ WakeInv(t)
    BY DEF IInv
  <1>a. want[t] \in Nat /\ holds[t] \in Nat /\ used \in Nat
    BY <1>0 DEF Typed, PoolTyped
  <1>b. Entry(t) \in Nat
    BY <1>0, EstimatesTyped DEF Typed, TaskInv, Entry, Owning, UnderLock
  <1>c. pc[t] \in {"granted", "discard"} => want[t] <= holds[t]
    BY <1>0, <1>a, <1>b DEF TaskInv, Grant, At
  <1>d. PICK n \in {want[t], holds[t]} :
          /\ n <= holds[t]
          /\ used' = used - n /\ holds' = [holds EXCEPT ![t] = holds[t] - n]
    BY <1>a, <1>c
  <1>e. /\ holds' \in [Tasks -> Nat] /\ used' = used - holds[t] + holds'[t]
        /\ \A u \in Tasks \ {t} : holds'[u] = holds[u]
    BY <1>0, <1>a, <1>d DEF Typed, PoolTyped
  <1>f. Counted' /\ used' \in Nat /\ used' <= Limit
    BY <1>0, <1>a, <1>d, <1>e, CountedTask DEF Typed, PoolTyped
  <1>1. Counted'
    BY <1>f
  <1>2. Typed'
    <2>1. PoolTyped'
      BY <1>0, <1>e, <1>f DEF Typed, PoolTyped
    <2>2. StepsTyped'
      BY <1>0 DEF Typed, StepsTyped, Asking, UnderLock, Ops
    <2>3. DocsTyped'
      BY <1>0 DEF Typed, DocsTyped
    <2>. QED
      BY <2>1, <2>2, <2>3 DEF Typed
  <1>3. Others(t) /\ Tells(t)
    BY <1>0 DEF Others, Tells, Same, KeepsDoc, Typed, PoolTyped, StepsTyped
  <1>4. TaskInv(t)'
    <2>. USE DEF TaskInv, Entry, Grant, Owning, Building, At, Resident, Asking, UnderLock
    <2>1. CASE ScratchDone(t)
      BY <1>0, <1>a, <2>1 DEF Typed, PoolTyped, StepsTyped
    <2>2. CASE ProbeHit(t)
      BY <1>0, <1>a, <1>b, <2>2 DEF Typed, PoolTyped, StepsTyped
    <2>3. CASE BuildFails(t)
      BY <1>0, <1>a, <1>b, <2>3 DEF Typed, PoolTyped, StepsTyped
    <2>4. CASE Undo(t)
      <3>0. /\ pc' = [pc EXCEPT ![t] = "notify"] /\ after' = [after EXCEPT ![t] = "return"]
            /\ holds' = [holds EXCEPT ![t] = holds[t] - holds[t]]
            /\ UNCHANGED <<want, stage, doc, op, lock, cache>>
        BY <2>4
      <3>1. /\ pc'[t] = "notify" /\ after'[t] = "return" /\ holds'[t] = 0
            /\ UNCHANGED <<want, stage, doc, op, lock, cache>>
        BY ONLY <1>0, <1>a, <3>0, t \in Tasks DEF Typed, PoolTyped, StepsTyped
      <3>. QED
        BY <1>0, <3>1
    <2>5. CASE Discard(t)
      BY <1>0, <1>a, <1>b, <2>5 DEF Typed, PoolTyped, StepsTyped
    <2>. QED
      BY <2>1, <2>2, <2>3, <2>4, <2>5
  <1>5. WakeInv(t)'
    BY <1>0 DEF WakeInv, Listens, Sensed, WaitsRightly, Notifying, Typed, PoolTyped, StepsTyped
  <1>. QED
    BY <1>1, <1>2, <1>3, <1>4, <1>5, Assemble

\* Asking for scratch, and waiting or giving up when it is missed.
LEMMA ScratchKeeps ==
    ASSUME IInv, NEW t \in Tasks, (AskScratch(t) \/ ScratchMissed(t)) /\ UNCHANGED <<budget, docVars>>
    PROVE  IInv'
  <1>. USE BytePoolAssumption, BudgetsAssumption DEF AskScratch, ScratchMissed, TryTake, BeginTake, docVars, callVars, Goto
  <1>0. Typed /\ Counted /\ TaskInv(t) /\ WakeInv(t)
    BY DEF IInv
  <1>a. t \in Drains \cup Flushes => Rows[t] \in Nat
    OBVIOUS
  <1>1. Counted'
    BY <1>0, CountedSame
  <1>2. Typed'
    <2>1. PoolTyped'
      BY <1>0, <1>a DEF Typed, PoolTyped
    <2>2. StepsTyped'
      BY <1>0, <1>a DEF Typed, StepsTyped, Asking, UnderLock, Ops
    <2>3. DocsTyped'
      BY <1>0, <1>a DEF Typed, DocsTyped
    <2>. QED
      BY <2>1, <2>2, <2>3 DEF Typed
  <1>3. Others(t) /\ Tells(t)
    BY <1>0 DEF Others, Tells, Same, KeepsDoc, Typed, PoolTyped, StepsTyped, DocsTyped
  <1>4. TaskInv(t)'
    BY <1>0 DEF TaskInv, Entry, Grant, Owning, Building, At, Resident, Asking, UnderLock, Typed, PoolTyped, StepsTyped, DocsTyped
  <1>5. WakeInv(t)'
    BY <1>0 DEF WakeInv, Listens, Sensed, WaitsRightly, Notifying, Typed, PoolTyped, StepsTyped
  <1>. QED
    BY <1>1, <1>2, <1>3, <1>4, <1>5, Assemble

\* The steps between a probe and the patient take.
LEMMA ProbeKeeps ==
    ASSUME IInv, NEW t \in Tasks, ProbeDropped(t) \/ ProbeMissed(t) \/ EvictDone(t), UNCHANGED budget
    PROVE  IInv'
  <1>. USE BytePoolAssumption, BudgetsAssumption DEF ProbeDropped, ProbeMissed, EvictDone, BeginTake, docVars, callVars, Goto
  <1>0. Typed /\ Counted /\ TaskInv(t) /\ WakeInv(t)
    BY DEF IInv
  <1>1. Counted'
    BY <1>0, CountedSame
  <1>2. Typed'
    <2>1. PoolTyped'
      BY <1>0 DEF Typed, PoolTyped
    <2>2. StepsTyped'
      BY <1>0 DEF Typed, StepsTyped, Asking, UnderLock, Ops
    <2>3. DocsTyped'
      BY <1>0 DEF Typed, DocsTyped
    <2>. QED
      BY <2>1, <2>2, <2>3 DEF Typed
  <1>3. Others(t) /\ Tells(t)
    BY <1>0 DEF Others, Tells, Same, KeepsDoc, Typed, PoolTyped, StepsTyped, DocsTyped
  <1>4. TaskInv(t)'
    BY <1>0 DEF TaskInv, Entry, Grant, Owning, Building, At, Resident, Asking, UnderLock, Typed, PoolTyped, StepsTyped, DocsTyped
  <1>5. WakeInv(t)'
    BY <1>0 DEF WakeInv, Listens, Sensed, WaitsRightly, Notifying, Typed, PoolTyped, StepsTyped
  <1>. QED
    BY <1>1, <1>2, <1>3, <1>4, <1>5, Assemble

\* A call begins.
LEMMA BeginKeeps ==
    ASSUME IInv, NEW t \in Tasks, NEW d \in Docs, NEW o \in Ops, Begin(t, d, o), budget = "memory", UNCHANGED budget
    PROVE  IInv'
  <1>. USE BytePoolAssumption, BudgetsAssumption DEF Begin, Reserve, TryTake, docVars, callVars, Goto
  <1>0. Typed /\ Counted /\ TaskInv(t) /\ WakeInv(t)
    BY DEF IInv
  <1>a. BaseTransient(d) \in Nat
    BY <1>0, EstimatesTyped DEF Typed
  <1>1. Counted'
    BY <1>0, CountedSame
  <1>2. Typed'
    <2>1. PoolTyped'
      BY <1>0, <1>a DEF Typed, PoolTyped
    <2>2. StepsTyped'
      BY <1>0, <1>a DEF Typed, StepsTyped, Asking, UnderLock, Ops
    <2>3. DocsTyped'
      BY <1>0, <1>a DEF Typed, DocsTyped
    <2>. QED
      BY <2>1, <2>2, <2>3 DEF Typed
  <1>3. Others(t) /\ Tells(t)
    BY <1>0 DEF Others, Tells, Same, KeepsDoc, Typed, PoolTyped, StepsTyped, DocsTyped
  <1>4. TaskInv(t)'
    BY <1>0 DEF TaskInv, Entry, Grant, Owning, Building, At, Resident, Asking, UnderLock, Typed, PoolTyped, StepsTyped, DocsTyped
  <1>5. WakeInv(t)'
    BY <1>0 DEF WakeInv, Listens, Sensed, WaitsRightly, Notifying, Typed, PoolTyped, StepsTyped
  <1>. QED
    BY <1>1, <1>2, <1>3, <1>4, <1>5, Assemble

\* The lock is taken from nobody, and a cold document is to be built.
LEMMA LockKeeps ==
    ASSUME IInv, NEW t \in Tasks, Lock(t), budget = "memory", UNCHANGED budget
    PROVE  IInv'
  <1>. USE BytePoolAssumption, BudgetsAssumption DEF Lock, Reserve, TryTake, docVars, callVars, Goto
  <1>0. Typed /\ Counted /\ TaskInv(t) /\ WakeInv(t)
    BY DEF IInv
  <1>a. doc[t] \in Docs /\ op[t] \in Ops \ {"join"} /\ Resident(doc[t]) \in Nat
    BY <1>0, EstimatesTyped DEF Typed, TaskInv, At
  <1>1. Counted'
    BY <1>0, CountedSame
  <1>2. Typed'
    <2>1. PoolTyped'
      BY <1>0, <1>a DEF Typed, PoolTyped
    <2>2. StepsTyped'
      BY <1>0, <1>a DEF Typed, StepsTyped, Asking, UnderLock, Ops
    <2>3. DocsTyped'
      BY <1>0, <1>a DEF Typed, DocsTyped
    <2>. QED
      BY <2>1, <2>2, <2>3 DEF Typed
  <1>3. Others(t) /\ Tells(t)
    BY <1>0 DEF Others, Tells, Same, KeepsDoc, Typed, PoolTyped, StepsTyped, DocsTyped
  <1>4. TaskInv(t)'
    BY <1>0, <1>a DEF TaskInv, Entry, Grant, Owning, Building, At, Resident, Asking, UnderLock, Ops, Typed, PoolTyped, StepsTyped, DocsTyped
  <1>5. WakeInv(t)'
    BY <1>0, <1>a DEF WakeInv, Listens, Sensed, WaitsRightly, Ops, Typed, PoolTyped, StepsTyped
  <1>. QED
    BY <1>1, <1>2, <1>3, <1>4, <1>5, Assemble

\* The second reservation of a build is asked for with the first in hand.
LEMMA BuildPeakKeeps ==
    ASSUME IInv, NEW t \in Tasks, BuildPeak(t), budget = "memory", UNCHANGED budget
    PROVE  IInv'
  <1>. USE BytePoolAssumption, BudgetsAssumption DEF BuildPeak, Reserve, TryTake, Got, docVars, callVars, Goto
  <1>0. Typed /\ Counted /\ TaskInv(t) /\ WakeInv(t)
    BY DEF IInv
  <1>a. doc[t] \in Docs /\ lock[doc[t]] = t /\ Resident(doc[t]) \in Nat /\ Transient(doc[t]) \in Nat
    BY <1>0, EstimatesTyped DEF Typed, TaskInv, Owning, At, Asking, UnderLock
  <1>1. Counted'
    BY <1>0, CountedSame
  <1>2. Typed'
    <2>1. PoolTyped'
      BY <1>0, <1>a DEF Typed, PoolTyped
    <2>2. StepsTyped'
      BY <1>0, <1>a DEF Typed, StepsTyped, Asking, UnderLock, Ops
    <2>3. DocsTyped'
      BY <1>0, <1>a DEF Typed, DocsTyped
    <2>. QED
      BY <2>1, <2>2, <2>3 DEF Typed
  <1>3. Others(t) /\ Tells(t)
    BY <1>0 DEF Others, Tells, Same, KeepsDoc, Typed, PoolTyped, StepsTyped, DocsTyped
  <1>4. TaskInv(t)'
    BY <1>0, <1>a DEF TaskInv, Entry, Grant, Owning, Building, At, Resident, Asking, UnderLock, Typed, PoolTyped, StepsTyped, DocsTyped
  <1>5. WakeInv(t)'
    BY <1>0 DEF WakeInv, Listens, Sensed, WaitsRightly, Notifying, Typed, PoolTyped, StepsTyped
  <1>. QED
    BY <1>1, <1>2, <1>3, <1>4, <1>5, Assemble

\* A fork is asked for under the lock.
LEMMA ForkKeeps ==
    ASSUME IInv, NEW t \in Tasks, Fork(t), budget = "memory", UNCHANGED budget
    PROVE  IInv'
  <1>. USE BytePoolAssumption, BudgetsAssumption DEF Fork, Reserve, TryTake, docVars, callVars, Goto
  <1>0. Typed /\ Counted /\ TaskInv(t) /\ WakeInv(t)
    BY DEF IInv
  <1>a. doc[t] \in Docs /\ lock[doc[t]] = t /\ Resident(doc[t]) \in Nat /\ Transient(doc[t]) \in Nat
    BY <1>0, EstimatesTyped DEF Typed, TaskInv, Owning, At, Asking, UnderLock
  <1>1. Counted'
    BY <1>0, CountedSame
  <1>2. Typed'
    <2>1. PoolTyped'
      BY <1>0, <1>a DEF Typed, PoolTyped
    <2>2. StepsTyped'
      BY <1>0, <1>a DEF Typed, StepsTyped, Asking, UnderLock, Ops
    <2>3. DocsTyped'
      BY <1>0, <1>a DEF Typed, DocsTyped
    <2>. QED
      BY <2>1, <2>2, <2>3 DEF Typed
  <1>3. Others(t) /\ Tells(t)
    BY <1>0 DEF Others, Tells, Same, KeepsDoc, Typed, PoolTyped, StepsTyped, DocsTyped
  <1>4. TaskInv(t)'
    BY <1>0, <1>a DEF TaskInv, Entry, Grant, Owning, Building, At, Resident, Asking, UnderLock, Typed, PoolTyped, StepsTyped, DocsTyped
  <1>5. WakeInv(t)'
    BY <1>0 DEF WakeInv, Listens, Sensed, WaitsRightly, Notifying, Typed, PoolTyped, StepsTyped
  <1>. QED
    BY <1>1, <1>2, <1>3, <1>4, <1>5, Assemble

\* A call that is answered with nothing in hand.
LEMMA AnswerKeeps ==
    ASSUME IInv, NEW t \in Tasks, ReadHead(t) \/ AnswerBusy(t) \/ IngestFull(t), UNCHANGED budget
    PROVE  IInv'
  <1>. USE BytePoolAssumption, BudgetsAssumption DEF ReadHead, AnswerBusy, IngestFull, Busy, docVars, callVars, Goto
  <1>0. Typed /\ Counted /\ TaskInv(t) /\ WakeInv(t)
    BY DEF IInv
  <1>1. Counted'
    BY <1>0, CountedSame
  <1>2. Typed'
    <2>1. PoolTyped'
      BY <1>0 DEF Typed, PoolTyped
    <2>2. StepsTyped'
      BY <1>0 DEF Typed, StepsTyped, Asking, UnderLock, Ops
    <2>3. DocsTyped'
      BY <1>0 DEF Typed, DocsTyped
    <2>. QED
      BY <2>1, <2>2, <2>3 DEF Typed
  <1>3. Others(t) /\ Tells(t)
    BY <1>0 DEF Others, Tells, Same, KeepsDoc, Typed, PoolTyped, StepsTyped, DocsTyped
  <1>4. TaskInv(t)'
    BY <1>0 DEF TaskInv, Entry, Grant, Owning, Building, At, Resident, Asking, UnderLock, Typed, PoolTyped, StepsTyped, DocsTyped
  <1>5. WakeInv(t)'
    BY <1>0 DEF WakeInv, Listens, Sensed, WaitsRightly, Notifying, Typed, PoolTyped, StepsTyped
  <1>. QED
    BY <1>1, <1>2, <1>3, <1>4, <1>5, Assemble

\* A commit changes the size of its own document only, and lets go of it.
LEMMA CommitKeeps ==
    ASSUME IInv, NEW t \in Tasks, Commit(t), UNCHANGED budget
    PROVE  IInv'
  <1>. USE BytePoolAssumption, BudgetsAssumption DEF Commit, Got, docVars, callVars, Goto
  <1>0. Typed /\ Counted /\ TaskInv(t) /\ WakeInv(t)
    BY DEF IInv
  <1>a. doc[t] \in Docs /\ lock[doc[t]] = t /\ Resident(doc[t]) \in Nat /\ Transient(doc[t]) \in Nat
    BY <1>0, EstimatesTyped DEF Typed, TaskInv, Owning, At, Asking, UnderLock
  <1>1. Counted'
    BY <1>0, CountedSame
  <1>2. Typed'
    <2>1. PoolTyped'
      BY <1>0, <1>a DEF Typed, PoolTyped
    <2>2. StepsTyped'
      BY <1>0, <1>a DEF Typed, StepsTyped, Asking, UnderLock, Ops
    <2>3. DocsTyped'
      BY <1>0, <1>a DEF Typed, DocsTyped
    <2>. QED
      BY <2>1, <2>2, <2>3 DEF Typed
  <1>3. Others(t) /\ Tells(t)
    BY <1>0, <1>a DEF Others, Tells, Same, KeepsDoc, Typed, PoolTyped, StepsTyped, DocsTyped
  <1>4. TaskInv(t)'
    BY <1>0, <1>a DEF TaskInv, Entry, Grant, Owning, Building, At, Resident, Asking, UnderLock, Typed, PoolTyped, StepsTyped, DocsTyped
  <1>5. WakeInv(t)'
    BY <1>0 DEF WakeInv, Listens, Sensed, WaitsRightly, Notifying, Typed, PoolTyped, StepsTyped
  <1>. QED
    BY <1>1, <1>2, <1>3, <1>4, <1>5, Assemble

\* A batch changes the size of its own document only.
LEMMA IngestKeeps ==
    ASSUME IInv, NEW t \in Tasks, Ingest(t), budget = "memory", UNCHANGED budget
    PROVE  IInv'
  <1>. USE BytePoolAssumption, BudgetsAssumption DEF Ingest, TryTake, docVars, callVars, Goto
  <1>0. Typed /\ Counted /\ TaskInv(t) /\ WakeInv(t)
    BY DEF IInv
  <1>a. doc[t] \in Docs /\ lock[doc[t]] = t /\ Resident(doc[t]) \in Nat /\ Transient(doc[t]) \in Nat
    BY <1>0, EstimatesTyped DEF Typed, TaskInv, Owning, At, Asking, UnderLock
  <1>b. Resident(doc[t]) + Expansion > cache[doc[t]] => (Resident(doc[t]) + Expansion) - cache[doc[t]] \in Nat
    BY <1>0, <1>a, EstimatesTyped DEF Typed, DocsTyped
  <1>c. want' \in [Tasks -> Nat]
    <2>1. CASE cache[doc[t]] # 0 /\ Resident(doc[t]) + Expansion > cache[doc[t]]
      <3>1. want' = [want EXCEPT ![t] = (Resident(doc[t]) + Expansion) - cache[doc[t]]]
        BY <2>1
      <3>2. (Resident(doc[t]) + Expansion) - cache[doc[t]] \in Nat
        BY <1>b, <2>1
      <3>. QED
        BY <1>0, <3>1, <3>2 DEF Typed, PoolTyped
    <2>2. CASE ~(cache[doc[t]] # 0 /\ Resident(doc[t]) + Expansion > cache[doc[t]])
      BY <1>0, <2>2 DEF Typed, PoolTyped
    <2>. QED
      BY <2>1, <2>2
  <1>1. Counted'
    BY <1>0, CountedSame
  <1>2. Typed'
    <2>1. PoolTyped'
      BY <1>0, <1>a, <1>c DEF Typed, PoolTyped
    <2>2. StepsTyped'
      BY <1>0, <1>a, <1>c DEF Typed, StepsTyped, Asking, UnderLock, Ops
    <2>3. DocsTyped'
      BY <1>0, <1>a, <1>c DEF Typed, DocsTyped
    <2>. QED
      BY <2>1, <2>2, <2>3 DEF Typed
  <1>3. Others(t) /\ Tells(t)
    <2>1. Others(t)
      <3>1. \A u \in Tasks \ {t} : Same(u)
        BY <1>0 DEF Same, Typed, PoolTyped, StepsTyped
      <3>2. \A d \in Docs : lock[d] \notin {None, t} => KeepsDoc(d)
        BY <1>0, <1>a DEF KeepsDoc, Typed, DocsTyped
      <3>. QED
        BY <3>1, <3>2 DEF Others
    <2>2. Tells(t)
      BY <1>0, <1>a DEF Tells, Typed, PoolTyped, StepsTyped, DocsTyped
    <2>. QED
      BY <2>1, <2>2
  <1>4. TaskInv(t)'
    BY <1>0, <1>a DEF TaskInv, Entry, Grant, Owning, Building, At, Resident, Asking, UnderLock, Typed, PoolTyped, StepsTyped, DocsTyped
  <1>5. WakeInv(t)'
    BY <1>0 DEF WakeInv, Listens, Sensed, WaitsRightly, Notifying, Typed, PoolTyped, StepsTyped
  <1>. QED
    BY <1>1, <1>2, <1>3, <1>4, <1>5, Assemble

\* The guard that is dropped is the caller's own.
LEMMA ReturnKeeps ==
    ASSUME IInv, NEW t \in Tasks, Return(t), budget = "memory", UNCHANGED budget
    PROVE  IInv'
  <1>. USE BytePoolAssumption, BudgetsAssumption DEF Return, docVars, callVars, Goto
  <1>0. Typed /\ Counted /\ TaskInv(t) /\ WakeInv(t)
    BY DEF IInv
  <1>1. Counted'
    BY <1>0, CountedSame
  <1>2. Typed'
    <2>1. PoolTyped'
      BY <1>0 DEF Typed, PoolTyped
    <2>2. StepsTyped'
      BY <1>0 DEF Typed, StepsTyped, Asking, UnderLock, Ops
    <2>3. DocsTyped'
      BY <1>0 DEF Typed, DocsTyped
    <2>. QED
      BY <2>1, <2>2, <2>3 DEF Typed
  <1>3. Others(t) /\ Tells(t)
    BY <1>0 DEF Others, Tells, Same, KeepsDoc, Typed, PoolTyped, StepsTyped, DocsTyped
  <1>4. TaskInv(t)'
    BY <1>0 DEF TaskInv, Entry, Grant, Owning, Building, At, Resident, Asking, UnderLock, Typed, PoolTyped, StepsTyped, DocsTyped
  <1>5. WakeInv(t)'
    BY <1>0 DEF WakeInv, Listens, Sensed, WaitsRightly, Notifying, Typed, PoolTyped, StepsTyped
  <1>. QED
    BY <1>1, <1>2, <1>3, <1>4, <1>5, Assemble

\* The entry takes over exactly what the build reserved for it.
LEMMA BuiltKeeps ==
    ASSUME IInv, NEW t \in Tasks, Built(t), UNCHANGED budget
    PROVE  IInv'
  <1>. USE BytePoolAssumption, BudgetsAssumption DEF Built, Subtract, Got, docVars, callVars, Goto
  <1>0. Typed /\ Counted /\ TaskInv(t) /\ WakeInv(t)
    BY DEF IInv
  <1>a. doc[t] \in Docs /\ lock[doc[t]] = t /\ Resident(doc[t]) \in Nat /\ Transient(doc[t]) \in Nat
    BY <1>0, EstimatesTyped DEF Typed, TaskInv, Owning, At, Asking, UnderLock
  <1>b. /\ cache[doc[t]] = 0 /\ op[t] \in {"read", "fork", "command"}
        /\ holds[t] = Resident(doc[t]) + want[t] /\ want[t] \in Nat /\ used \in Nat
        /\ holds' \in [Tasks -> Nat] /\ holds'[t] = 0 /\ \A u \in Tasks \ {t} : holds'[u] = holds[u]
        /\ cache' \in [Docs -> Nat] /\ cache'[doc[t]] = Resident(doc[t])
        /\ \A e \in Docs \ {doc[t]} : cache'[e] = cache[e]
    BY <1>0, <1>a DEF TaskInv, Entry, Grant, Building, At, Asking, Typed, PoolTyped, DocsTyped
  <1>c. Counted' /\ used' \in Nat /\ used' <= Limit
    BY <1>0, <1>a, <1>b, CountedBoth, SMTT(20) DEF Typed, PoolTyped, DocsTyped
  <1>1. Counted'
    BY <1>c
  <1>2. Typed'
    <2>1. PoolTyped'
      BY <1>0, <1>a, <1>b, <1>c DEF Typed, PoolTyped
    <2>2. StepsTyped'
      BY <1>0, <1>a, <1>b, <1>c DEF Typed, StepsTyped, Asking, UnderLock, Ops
    <2>3. DocsTyped'
      BY <1>0, <1>a, <1>b, <1>c DEF Typed, DocsTyped
    <2>. QED
      BY <2>1, <2>2, <2>3 DEF Typed
  <1>3. Others(t) /\ Tells(t)
    BY <1>0, <1>a DEF Others, Tells, Same, KeepsDoc, Typed, PoolTyped, StepsTyped, DocsTyped
  <1>4. TaskInv(t)'
    BY <1>0, <1>a, <1>b DEF TaskInv, Entry, Grant, Owning, Building, At, Resident, Asking, UnderLock, Typed, PoolTyped, StepsTyped, DocsTyped
  <1>5. WakeInv(t)'
    BY <1>0 DEF WakeInv, Listens, Sensed, WaitsRightly, Notifying, Typed, PoolTyped, StepsTyped
  <1>. QED
    BY <1>1, <1>2, <1>3, <1>4, <1>5, Assemble

\* The growth moves into the entry, or the entry is dropped with all it had.
LEMMA GrowKeeps ==
    ASSUME IInv, NEW t \in Tasks, Grow(t), UNCHANGED budget
    PROVE  IInv'
  <1>. USE BytePoolAssumption, BudgetsAssumption DEF Grow, Subtract, Got, Busy, docVars, callVars, Goto
  <1>0. Typed /\ Counted /\ TaskInv(t) /\ WakeInv(t)
    BY DEF IInv
  <1>a. doc[t] \in Docs /\ lock[doc[t]] = t /\ Resident(doc[t]) \in Nat /\ Transient(doc[t]) \in Nat
    BY <1>0, EstimatesTyped DEF Typed, TaskInv, Owning, At, Asking, UnderLock
  <1>b. /\ want[t] \in Nat /\ used \in Nat /\ cache[doc[t]] \in Nat
        /\ holds' \in [Tasks -> Nat] /\ \A u \in Tasks \ {t} : holds'[u] = holds[u]
        /\ cache' \in [Docs -> Nat] /\ \A e \in Docs \ {doc[t]} : cache'[e] = cache[e]
        /\ used' = used - holds[t] + holds'[t] - cache[doc[t]] + cache'[doc[t]]
    <2>1. /\ want[t] \in Nat /\ used \in Nat /\ holds \in [Tasks -> Nat]
          /\ cache \in [Docs -> Nat] /\ cache[doc[t]] \in Nat
      BY <1>0, <1>a DEF Typed, PoolTyped, DocsTyped
    <2>2. CASE /\ Got(t, "grow") /\ UNCHANGED used
               /\ cache' = [cache EXCEPT ![doc[t]] = @ + want[t]]
               /\ holds' = [holds EXCEPT ![t] = 0]
      <3>1. holds[t] = want[t]
        BY <1>0, <2>1, <2>2 DEF TaskInv, Entry, Grant, At, Asking, Typed, StepsTyped
      <3>2. cache'[doc[t]] = cache[doc[t]] + want[t] /\ holds'[t] = 0
        BY <1>a, <2>1, <2>2
      <3>3. used' = used - holds[t] + holds'[t] - cache[doc[t]] + cache'[doc[t]]
        BY ONLY <2>1, <2>2, <3>1, <3>2
      <3>4. holds' \in [Tasks -> Nat] /\ \A u \in Tasks \ {t} : holds'[u] = holds[u]
        BY ONLY <2>1, <2>2
      <3>5. cache' \in [Docs -> Nat] /\ \A e \in Docs \ {doc[t]} : cache'[e] = cache[e]
        BY ONLY <1>a, <2>1, <2>2, <3>2
      <3>. QED
        BY <2>1, <3>3, <3>4, <3>5
    <2>3. CASE /\ UNCHANGED holds /\ used' = used - cache[doc[t]]
               /\ cache' = [cache EXCEPT ![doc[t]] = 0]
      <3>1. cache'[doc[t]] = 0 /\ holds[t] \in Nat
        BY <1>a, <2>1, <2>3
      <3>2. used' = used - holds[t] + holds'[t] - cache[doc[t]] + cache'[doc[t]]
        BY ONLY <2>1, <2>3, <3>1
      <3>3. holds' \in [Tasks -> Nat] /\ \A u \in Tasks \ {t} : holds'[u] = holds[u]
        BY ONLY <2>1, <2>3
      <3>4. cache' \in [Docs -> Nat] /\ \A e \in Docs \ {doc[t]} : cache'[e] = cache[e]
        BY ONLY <1>a, <2>1, <2>3
      <3>. QED
        BY <2>1, <3>2, <3>3, <3>4
    <2>. QED
      BY <2>2, <2>3
  <1>c. Counted' /\ used' \in Nat /\ used' <= Limit
    <2>1. Counted' /\ used' \in Nat
      BY <1>0, <1>a, <1>b, CountedBoth DEF Typed, PoolTyped, DocsTyped
    <2>2. used' <= used
      BY <1>b
    <2>. QED
      BY <1>0, <2>1, <2>2 DEF Typed, PoolTyped
  <1>1. Counted'
    BY <1>c
  <1>2. Typed'
    <2>1. PoolTyped'
      BY <1>0, <1>a, <1>b, <1>c DEF Typed, PoolTyped
    <2>2. StepsTyped'
      BY <1>0, <1>a, <1>b, <1>c DEF Typed, StepsTyped, Asking, UnderLock, Ops
    <2>3. DocsTyped'
      BY <1>0, <1>a, <1>b, <1>c DEF Typed, DocsTyped
    <2>. QED
      BY <2>1, <2>2, <2>3 DEF Typed
  <1>3. Others(t) /\ Tells(t)
    BY <1>0, <1>a, <1>b DEF Others, Tells, Same, KeepsDoc, Typed, PoolTyped, StepsTyped, DocsTyped
  <1>4. TaskInv(t)'
    <2>1. At(t)' = "return" /\ holds'[t] = 0
      <3>1. CASE Got(t, "grow")
        BY <1>0, <3>1 DEF At, Typed, PoolTyped, StepsTyped
      <3>2. CASE Busy(t, "grow")
        BY <1>0, <3>2 DEF TaskInv, Entry, Grant, At, Asking, Typed, PoolTyped, StepsTyped
      <3>. QED
        BY <3>1, <3>2
    <2>. QED
      BY <1>0, <2>1 DEF TaskInv, Entry, Grant, Owning, Building, Asking, UnderLock
  <1>5. WakeInv(t)'
    BY <1>0 DEF WakeInv, Listens, Sensed, WaitsRightly, Notifying, Typed, PoolTyped, StepsTyped
  <1>. QED
    BY <1>1, <1>2, <1>3, <1>4, <1>5, Assemble

\* A dropped entry gives back all it had.
LEMMA ResetKeeps ==
    ASSUME IInv, NEW t \in Tasks, Reset(t), UNCHANGED budget
    PROVE  IInv'
  <1>. USE BytePoolAssumption, BudgetsAssumption DEF Reset, Subtract, docVars, callVars, Goto
  <1>0. Typed /\ Counted /\ TaskInv(t) /\ WakeInv(t)
    BY DEF IInv
  <1>a. doc[t] \in Docs /\ lock[doc[t]] = t /\ Resident(doc[t]) \in Nat /\ Transient(doc[t]) \in Nat
    BY <1>0, EstimatesTyped DEF Typed, TaskInv, Owning, At, Asking, UnderLock
  <1>b. /\ used \in Nat /\ cache[doc[t]] \in Nat /\ holds[t] \in Nat
        /\ cache' \in [Docs -> Nat] /\ cache'[doc[t]] = 0 /\ \A e \in Docs \ {doc[t]} : cache'[e] = cache[e]
        /\ used' = used - holds[t] + holds[t] - cache[doc[t]] + cache'[doc[t]]
    BY <1>0, <1>a DEF Typed, PoolTyped, DocsTyped
  <1>c. Counted' /\ used' \in Nat /\ used' <= Limit
    BY <1>0, <1>a, <1>b, CountedBoth DEF Typed, PoolTyped, DocsTyped
  <1>1. Counted'
    BY <1>c
  <1>2. Typed'
    <2>1. PoolTyped'
      BY <1>0, <1>a, <1>b, <1>c DEF Typed, PoolTyped
    <2>2. StepsTyped'
      BY <1>0, <1>a, <1>b, <1>c DEF Typed, StepsTyped, Asking, UnderLock, Ops
    <2>3. DocsTyped'
      BY <1>0, <1>a, <1>b, <1>c DEF Typed, DocsTyped
    <2>. QED
      BY <2>1, <2>2, <2>3 DEF Typed
  <1>3. Others(t) /\ Tells(t)
    BY <1>0, <1>a, <1>b DEF Others, Tells, Same, KeepsDoc, Typed, PoolTyped, StepsTyped, DocsTyped
  <1>4. TaskInv(t)'
    BY <1>0, <1>a, <1>b DEF TaskInv, Entry, Grant, Owning, Building, At, Resident, Asking, UnderLock, Typed, PoolTyped, StepsTyped, DocsTyped
  <1>5. WakeInv(t)'
    BY <1>0 DEF WakeInv, Listens, Sensed, WaitsRightly, Notifying, Typed, PoolTyped, StepsTyped
  <1>. QED
    BY <1>1, <1>2, <1>3, <1>4, <1>5, Assemble

\* An eviction takes the entry of a document nobody has locked.
LEMMA TryEvictKeeps ==
    ASSUME IInv, NEW t \in Tasks, NEW d \in Docs, TryEvict(t, d), UNCHANGED budget
    PROVE  IInv'
  <1>. USE BytePoolAssumption, BudgetsAssumption DEF TryEvict, Subtract, docVars, callVars, Goto
  <1>0. Typed /\ Counted /\ TaskInv(t) /\ WakeInv(t)
    BY DEF IInv
  <1>b. /\ used \in Nat /\ cache[d] \in Nat /\ cache'[d] \in Nat /\ holds[t] \in Nat
        /\ cache' \in [Docs -> Nat] /\ \A e \in Docs \ {d} : cache'[e] = cache[e]
        /\ used' = used - holds[t] + holds[t] - cache[d] + cache'[d] /\ cache'[d] <= cache[d]
    BY <1>0 DEF Typed, PoolTyped, DocsTyped
  <1>c. Counted' /\ used' \in Nat /\ used' <= Limit
    BY <1>0, <1>b, CountedBoth DEF Typed, PoolTyped, DocsTyped
  <1>1. Counted'
    BY <1>c
  <1>2. Typed'
    <2>1. PoolTyped'
      BY <1>0, <1>b, <1>c DEF Typed, PoolTyped
    <2>2. StepsTyped'
      BY <1>0, <1>b, <1>c DEF Typed, StepsTyped, Asking, UnderLock, Ops
    <2>3. DocsTyped'
      BY <1>0, <1>b, <1>c DEF Typed, DocsTyped
    <2>. QED
      BY <2>1, <2>2, <2>3 DEF Typed
  <1>3. Others(t) /\ Tells(t)
    BY <1>0, <1>b DEF Others, Tells, Same, KeepsDoc, Typed, PoolTyped, StepsTyped, DocsTyped
  <1>4. TaskInv(t)'
    BY <1>0 DEF TaskInv, Entry, Grant, Owning, Building, At, Resident, Asking, UnderLock, Typed, PoolTyped, StepsTyped, DocsTyped
  <1>5. WakeInv(t)'
    BY <1>0 DEF WakeInv, Listens, Sensed, WaitsRightly, Notifying, Typed, PoolTyped, StepsTyped
  <1>. QED
    BY <1>1, <1>2, <1>3, <1>4, <1>5, Assemble

\* A flushed row moves bytes of a document without changing their sum.
LEMMA FlushedKeeps ==
    ASSUME IInv, NEW d \in Docs, Flushed(d)
    PROVE  IInv'
  <1>. USE DEF Flushed, poolVars, callVars
  <1>0. Typed /\ Counted /\ \A u \in Tasks : TaskInv(u) /\ WakeInv(u)
    BY DEF IInv
  <1>1. Counted' /\ Typed'
    BY <1>0, CountedSame DEF Typed, PoolTyped, StepsTyped, DocsTyped
  <1>2. ASSUME NEW u \in Tasks
        PROVE  TaskInv(u)' /\ WakeInv(u)'
    <2>1. Same(u)
      BY DEF Same
    <2>2. Owning(u) => KeepsDoc(doc[u])
      BY <1>0 DEF TaskInv, KeepsDoc, Typed, DocsTyped
    <2>3. TaskInv(u)'
      BY <1>0, <2>1, <2>2, SameTask DEF Typed
    <2>. QED
      BY <1>0, <2>3 DEF WakeInv, Listens, Sensed, WaitsRightly, Notifying
  <1>. QED
    BY <1>1, <1>2 DEF IInv

-----------------------------------------------------------------------------
(* The theorems *)

\* The invariant holds initially: the entries that are warm are counted.
LEMMA InitIInv == Init => IInv
  <1>. SUFFICES ASSUME Init
                PROVE  IInv
    OBVIOUS
  <1>. USE BytePoolAssumption, BudgetsAssumption DEF Init, PoolInit
  <1>1. DocsTyped /\ StepsTyped
    <2>1. lock \in [Docs -> Tasks \cup {None}] /\ logged \in [Docs -> Nat] /\ buffered \in [Docs -> Nat]
      OBVIOUS
    <2>2. \A d \in Docs : Expansion * (logged[d] + buffered[d]) \in Nat
      <3>1. \A a, b \in Nat : a * b \in Nat
        OBVIOUS
      <3>. QED
        BY <2>1, <3>1
    <2>3. cache \in [Docs -> Nat]
      BY <2>2 DEF Resident
    <2>. QED
      BY <2>1, <2>3 DEF DocsTyped, StepsTyped, Asking, UnderLock, Ops
  <1>2. IsFiniteSet(Bytes(holds, Tasks)) /\ Cardinality(Bytes(holds, Tasks)) = 0
    <2>1. Bytes(holds, Tasks) = {}
      BY DEF Bytes
    <2>. QED
      BY <2>1, FS_EmptySet
  <1>3. IsFiniteSet(Bytes(cache, Docs))
    <2>1. IsFiniteSet(Docs \X (1..(Expansion * MaxBytes)))
      <3>1. Expansion * MaxBytes \in Int
        OBVIOUS
      <3>2. IsFiniteSet(1..(Expansion * MaxBytes))
        BY <3>1, FS_Interval
      <3>. QED
        BY <3>2, FS_Product
    <2>2. \A d \in Docs : cache[d] <= Expansion * MaxBytes
      <3>1. \A a, b, c \in Nat : b <= c => a * b <= a * c
        OBVIOUS
      <3>2. \A d \in Docs : logged[d] + buffered[d] \in Nat /\ logged[d] + buffered[d] <= MaxBytes
        OBVIOUS
      <3>3. Expansion \in Nat /\ MaxBytes \in Nat
        OBVIOUS
      <3>4. \A d \in Docs : Resident(d) <= Expansion * MaxBytes
        BY <3>1, <3>2, <3>3 DEF Resident
      <3>5. 0 <= Expansion * MaxBytes
        BY <3>3
      <3>. QED
        BY <3>4, <3>5
    <2>3. Bytes(cache, Docs) \subseteq Docs \X (1..(Expansion * MaxBytes))
      <3>1. Expansion * MaxBytes \in Int
        OBVIOUS
      <3>2. ASSUME NEW d \in Docs, NEW i \in 1..cache[d]
            PROVE  i \in 1..(Expansion * MaxBytes)
        <4>1. cache[d] \in Nat /\ cache[d] <= Expansion * MaxBytes
          BY <1>1, <2>2 DEF DocsTyped
        <4>. QED
          BY <3>1, <4>1
      <3>3. \A d \in Docs : {d} \X (1..cache[d]) \subseteq Docs \X (1..(Expansion * MaxBytes))
        BY <3>2
      <3>. HIDE DEF Init, PoolInit
      <3>. QED
        BY <3>3 DEF Bytes
    <2>. QED
      BY <2>1, <2>3, FS_Subset
  <1>4. Cardinality(Bytes(cache, Docs)) \in Nat
    BY <1>3, FS_CardinalityType
  <1>5. Counted
    BY <1>2, <1>3, <1>4 DEF Counted
  <1>6. PoolTyped
    BY <1>4 DEF PoolTyped
  <1>7. \A t \in Tasks : TaskInv(t) /\ WakeInv(t)
    BY DEF TaskInv, Entry, Grant, Owning, Building, At, Asking, UnderLock, WakeInv, Listens, Sensed, WaitsRightly
  <1>. QED
    BY <1>1, <1>5, <1>6, <1>7 DEF IInv, Typed

\* Every step keeps it.
LEMMA NextIInv == IInv /\ [Next]_vars => IInv'
  <1>. SUFFICES ASSUME IInv, [Next]_vars
                PROVE  IInv'
    OBVIOUS
  <1>1. ASSUME NEW t \in Tasks, Pool(t) \/ OutOfPatience(t)
        PROVE  IInv'
    BY <1>1, TakingKeeps, SwapKeeps, NotifyKeeps DEF Pool, PoolStep, OutOfPatience
  <1>2. ASSUME NEW t \in Tasks, Work(t)
        PROVE  IInv'
    <2>1. CASE ReserveStep(t)
      BY <1>2, <2>1, ReleaseKeeps, ProbeKeeps, TryEvictKeeps DEF Work, ReserveStep, ProbeHit
    <2>2. CASE BuildFails(t) \/ Undo(t) \/ Discard(t)
      BY <1>2, <2>2, ReleaseKeeps DEF Work, BuildFails, Undo, Discard
    <2>3. CASE BuildPeak(t) \/ Built(t) \/ ReadHead(t) \/ Fork(t) \/ AnswerBusy(t) \/ Commit(t)
      BY <1>2, <2>3, BuildPeakKeeps, BuiltKeeps, AnswerKeeps, ForkKeeps, CommitKeeps DEF Work
    <2>4. CASE Ingest(t) \/ IngestFull(t) \/ Grow(t) \/ Reset(t) \/ Return(t)
      BY <1>2, <2>4, IngestKeeps, AnswerKeeps, GrowKeeps, ResetKeeps, ReturnKeeps DEF Work
    <2>. QED
      BY <1>2, <2>1, <2>2, <2>3, <2>4 DEF Work
  <1>3. ASSUME NEW t \in Tasks, (ScratchMissed(t) \/ ScratchDone(t)) /\ UNCHANGED <<budget, docVars>>
        PROVE  IInv'
    BY <1>3, ScratchKeeps, ReleaseKeeps
  <1>4. ASSUME NEW t \in Tasks, Ask(t) \/ Call(t) \/ Locked(t)
        PROVE  IInv'
    BY <1>4, ScratchKeeps, BeginKeeps, LockKeeps DEF Ask, Call, Locked
  <1>5. CASE UNCHANGED vars
    <2>1. UNCHANGED <<poolVars, docVars, callVars, budget>>
      BY <1>5 DEF vars
    <2>2. Typed' /\ Counted'
      BY <2>1, CountedSame DEF IInv, Typed, PoolTyped, StepsTyped, DocsTyped, poolVars, docVars, callVars
    <2>3. ASSUME NEW u \in Tasks
          PROVE  TaskInv(u)' /\ WakeInv(u)'
      BY <2>1 DEF IInv, TaskInv, Entry, Grant, Owning, Building, At, Resident, WakeInv, Listens, Sensed,
                  WaitsRightly, Notifying, poolVars, docVars, callVars
    <2>. QED
      BY <2>2, <2>3 DEF IInv
  <1>. QED
    BY <1>1, <1>2, <1>3, <1>4, <1>5, FlushedKeeps DEF Next, Progress

\* The inductive invariant holds in every reachable state.
THEOREM Invariant == Spec => []IInv
  BY InitIInv, NextIInv, PTL DEF Spec

\* `used` is what the live reservations hold, byte for byte, and stays within
\* the limit, whoever takes, releases, evicts, builds and grows concurrently.
THEOREM CounterExact == Spec => []Accounted
  <1>1. IInv => Accounted
    BY DEF IInv, Accounted, Counted, Typed, PoolTyped, TaskInv, Entry, Grant, At, Asking
  <1>. QED
    BY <1>1, Invariant, PTL

\* Registering before checking is enough: no release goes unnoticed by a task
\* that waits for room.
THEOREM WakeupsReach == Spec => []NoMissedWakeup
  <1>1. IInv => NoMissedWakeup
    BY DEF IInv, NoMissedWakeup, WakeInv, WaitsRightly, Notifying
  <1>. QED
    BY <1>1, Invariant, PTL

=============================================================================
