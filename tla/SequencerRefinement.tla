------------------------- MODULE SequencerRefinement -------------------------
(***************************************************************************)
(* The log implements DurableLog, a command takes effect at most once, and *)
(* a decoded document and a joined browser are never behind the head: for  *)
(* any number of servers, browsers, commands, changes and faults.          *)
(***************************************************************************)
EXTENDS SequencerProofs, FiniteSetTheorems, WellFoundedInduction

-----------------------------------------------------------------------------
(* What the refinement needs besides the invariant of SequencerProofs *)

\* Every change somebody carries: storage, a buffer, a join reply, a browser.
Carried ==
    Stored \cup (UNION {doc[c] : c \in Clients})
           \cup (UNION {Buffered(s) : s \in Servers}) \cup (UNION {joining[s].ops : s \in Servers})

\* All of it was made by the browser it names, or committed by the command.
Made == Carried \subseteq Submitted

\* A stored change of a command is its only one, and its outcome is recorded.
Once ==
    \A r \in Commands : \A p, q \in Stored :
        p[1] = r /\ q[1] = r => p = q /\ r \in recorded

RInv == IInv /\ Made /\ Once

-----------------------------------------------------------------------------
(* Lemmas *)

\* A change is of a browser or of a command.
LEMMA OpsPeers == \A op \in Ops : op[1] \in Clients \/ op[1] \in Commands
  BY SequencerAssumption DEF Ops, Commands

\* A stored change was in storage, in a buffer, or is the command's own.
LEMMA StoredStep ==
    ASSUME IInv, [Next]_vars
    PROVE  \/ /\ Stored' \subseteq Stored \cup UNION {Buffered(s) : s \in Servers}
              /\ recorded' = recorded
           \/ \E s \in Servers, r \in Commands : \E source \in Prepared(r) :
                /\ r \notin recorded /\ recorded' = recorded \cup {r}
                /\ Stored' \subseteq Stored \cup Buffered(s) \cup source
  <1>. USE DEF store
  <1>1. CASE UNCHANGED <<rows, base, recorded>>
    BY <1>1 DEF Stored
  <1>2. ASSUME NEW s \in Servers, Server(s), ~UNCHANGED <<rows, base, recorded>>
        PROVE  \/ /\ Stored' \subseteq Stored \cup UNION {Buffered(t) : t \in Servers}
                  /\ recorded' = recorded
               \/ \E t \in Servers, r \in Commands : \E source \in Prepared(r) :
                    /\ r \notin recorded /\ recorded' = recorded \cup {r}
                    /\ Stored' \subseteq Stored \cup Buffered(t) \cup source
    <2>1. CASE FlushCommit(s)
      <3>1. Stored' = Stored \cup flight[s].ops /\ recorded' = recorded
        BY <2>1, InsertedRow DEF FlushCommit
      <3>2. flight[s].ops = BatchesThrough(buffer[s], flight[s].take) /\ flight[s].take <= Len(buffer[s])
        BY <2>1 DEF FlushCommit, IInv, Local, InFlight
      <3>3. flight[s].take \in Nat /\ Len(buffer[s]) \in Nat
        BY SequencerTyped DEF IInv, TypeOK, Flight
      <3>4. flight[s].ops \subseteq Buffered(s)
        BY <3>2, <3>3 DEF BatchesThrough, Buffered
      <3>. QED
        BY <3>1, <3>4
    <2>2. ASSUME NEW r \in Commands, NEW source \in Prepared(r), CommandCommit(s, r, source)
          PROVE  /\ r \notin recorded /\ recorded' = recorded \cup {r}
                 /\ Stored' \subseteq Stored \cup Buffered(s) \cup source
      <3>1. CASE UNCHANGED rows
        BY <2>2, <3>1 DEF CommandCommit, Stored
      <3>2. CASE InsertRow(Buffered(s) \cup source, VectorThrough(s) \cup End(source))
        BY <2>2, <3>2, InsertedRow DEF CommandCommit
      <3>. QED
        BY <2>2, <3>1, <3>2 DEF CommandCommit
    <2>3. CASE ActivateCommit(s) \/ ActivateLost(s)
      <3>1. ActivateBase(s) /\ snap[s] # NoSnap /\ recorded' = recorded
        BY <2>3 DEF ActivateCommit, ActivateLost, MayActivate, ActivateBase
      <3>2. snap[s].ops \subseteq Stored
        BY <3>1, BaseContainsDeleted DEF IInv, Behind
      <3>. QED
        BY <3>1, <3>2 DEF ActivateBase, Stored, RowOps
    <2>4. \/ FlushCommit(s) \/ ActivateCommit(s) \/ ActivateLost(s)
          \/ \E r \in Commands : \E source \in Prepared(r) : CommandCommit(s, r, source)
      BY <1>2 DEF Server, Claim, LoseLock, Crash, Stop, Exit, Admit, RetireIdle, RetireFenced,
                  FlushBegin, FlushError, ResolveWritten, ResolveFenced, ResolveRetry, FlushRetire,
                  BuildCache, EvictCache, JoinRegister, JoinReply, Snapshot, ActivateNoop,
                  ActivateError, Command, CommandLost
    <2>. QED
      BY <2>1, <2>2, <2>3, <2>4
  <1>3. ASSUME NEW c \in Clients, Client(c)
        PROVE  UNCHANGED <<rows, base, recorded>>
    BY <1>3 DEF Client, Edit, Disconnect, JoinRead, Ingest, IngestResend, Accept
  <1>4. CASE UNCHANGED vars
    BY <1>1, <1>4 DEF vars
  <1>. QED
    BY <1>1, <1>2, <1>3, <1>4 DEF Next

\* A batch a browser sends is of what it holds.
LEMMA OffersHeld ==
    ASSUME TypeOK, NEW s \in Servers, NEW c \in Clients,
           NEW batch \in Offers(s, c) \cup Resends(s, c)
    PROVE  batch \subseteq doc[c] /\ batch \in SUBSET Ops
  BY DEF Offers, Resends, Own, TypeOK

\* The change a command prepares is its own, and is stored when it commits.
LEMMA SourceStored ==
    ASSUME NEW s \in Servers, NEW r \in Commands, NEW source \in Prepared(r),
           CommandCommit(s, r, source)
    PROVE  \A op \in source : op[1] = r /\ op \in Stored'
  <1>1. \A op \in source : op[1] = r
    <2>1. source = {} \/ \E n \in 1..MaxOps : source = {<<r, n>>}
      BY DEF Prepared
    <2>. QED
      BY <2>1
  <1>2. CASE source = {}
    BY <1>2
  <1>3. CASE source # {}
    <2>1. InsertRow(Buffered(s) \cup source, VectorThrough(s) \cup End(source)) /\ base' = base
      BY <1>3 DEF CommandCommit
    <2>. QED
      BY <1>1, <2>1, InsertedRow
  <1>. QED
    BY <1>2, <1>3

\* No browser loses a change of its own.
LEMMA OwnGrows ==
    ASSUME IInv, [Next]_vars
    PROVE  \A c \in Clients : Own(c) \subseteq Own(c)'
  <1>. USE DEF store, inner, tasks, world
  <1>0. doc \in [Clients -> SUBSET Ops]
    BY DEF IInv, TypeOK
  <1>1. CASE \A c \in Clients : doc[c] \subseteq doc'[c]
    BY <1>1 DEF Own
  <1>2. ASSUME NEW s \in Servers, NEW sender, NEW ops, doc' = Relayed(s, sender, ops)
        PROVE  \A c \in Clients : doc[c] \subseteq doc'[c]
    BY <1>0, <1>2 DEF Relayed
  <1>3. ASSUME NEW s \in Servers, Server(s)
        PROVE  \A c \in Clients : doc[c] \subseteq doc'[c]
    <2>1. CASE \E r \in Commands : \E source \in Prepared(r) :
                 Command(s, r, source) \/ CommandLost(s, r, source)
      BY <1>2, <2>1 DEF Command, CommandLost
    <2>2. CASE JoinReply(s)
      BY <1>0, <2>2 DEF JoinReply
    <2>3. CASE UNCHANGED doc
      BY <2>3
    <2>. QED
      BY <1>3, <2>1, <2>2, <2>3 DEF Server, Claim, LoseLock, Crash, Stop, Exit, Admit, RetireIdle,
         RetireFenced, FlushBegin, FlushCommit, FlushError, ResolveWritten, ResolveFenced,
         ResolveRetry, FlushRetire, BuildCache, EvictCache, JoinRegister, Snapshot,
         ActivateCommit, ActivateLost, ActivateNoop, ActivateError, Activated
  <1>4. ASSUME NEW d \in Clients, Client(d)
        PROVE  \A c \in Clients : Own(c) \subseteq Own(c)'
    <2>1. CASE Disconnect(d)
      <3>1. PICK kept \in {doc[d], Own(d)} : doc' = [doc EXCEPT ![d] = kept]
        BY <2>1 DEF Disconnect
      <3>. QED
        BY <1>0, <3>1 DEF Own
    <2>2. CASE Edit(d)
      <3>1. PICK n \in NextOwn(d) : doc' = [doc EXCEPT ![d] = @ \cup {<<d, n>>}]
        BY <2>2 DEF Edit
      <3>. QED
        BY <1>0, <1>1, <3>1
    <2>3. CASE \E s \in Servers : JoinRead(s, d)
      BY <1>1, <2>3 DEF JoinRead
    <2>4. CASE \E s \in Servers : Ingest(s, d) \/ IngestResend(s, d)
      BY <1>1, <1>2, <2>4 DEF Ingest, IngestResend, Accept
    <2>. QED
      BY <1>4, <2>1, <2>2, <2>3, <2>4 DEF Client
  <1>5. CASE UNCHANGED vars
    BY <1>1, <1>5 DEF vars
  <1>. QED
    BY <1>1, <1>3, <1>4, <1>5 DEF Next

\* What may be carried after a step: what was, what its author has just made.
Known == Carried \cup (UNION {Own(c)' : c \in Clients}) \cup {op \in Stored' : op[1] \in Commands}

\* Each of them is known.
LEMMA KnownParts ==
    /\ Carried \subseteq Known /\ Stored \subseteq Known
    /\ \A c \in Clients : doc[c] \subseteq Known
    /\ \A s \in Servers : Buffered(s) \subseteq Known /\ joining[s].ops \subseteq Known
    /\ \A c \in Clients : Own(c)' \subseteq Known
    /\ \A op \in Stored' : op[1] \in Commands => op \in Known
  <1>1. Carried \subseteq Known
    BY DEF Known
  <1>2. Stored \subseteq Carried /\ \A c \in Clients : doc[c] \subseteq Carried
    BY DEF Carried
  <1>3. \A s \in Servers : Buffered(s) \subseteq UNION {Buffered(t) : t \in Servers}
    OBVIOUS
  <1>4. \A s \in Servers : joining[s].ops \subseteq UNION {joining[t].ops : t \in Servers}
    OBVIOUS
  <1>5. \A s \in Servers : Buffered(s) \subseteq Carried /\ joining[s].ops \subseteq Carried
    <2> DEFINE A == UNION {doc[c] : c \in Clients}
               B == UNION {Buffered(t) : t \in Servers}
               J == UNION {joining[t].ops : t \in Servers}
    <2>1. Carried = Stored \cup A \cup B \cup J
      BY DEF Carried
    <2>2. \A s \in Servers : Buffered(s) \subseteq B /\ joining[s].ops \subseteq J
      BY <1>3, <1>4
    <2>. HIDE DEF A, B, J
    <2>. QED
      BY <2>1, <2>2
  <1>6. \A c \in Clients : Own(c)' \subseteq Known
    BY DEF Known
  <1>7. \A op \in Stored' : op[1] \in Commands => op \in Known
    BY Zenon DEF Known
  <1>. QED
    BY <1>1, <1>2, <1>5, <1>6, <1>7

\* Relays, join replies and edits show a browser only known changes.
LEMMA DocStep ==
    ASSUME IInv, [Next]_vars
    PROVE  \A c \in Clients : doc'[c] \subseteq Known
  <1>. USE DEF store, inner, tasks, world
  <1>0. doc \in [Clients -> SUBSET Ops] /\ TypeOK
    BY DEF IInv, TypeOK
  <1>1. \A c \in Clients : doc[c] \subseteq Known
    BY KnownParts
  <1>2. ASSUME NEW s \in Servers, NEW sender, NEW ops \in SUBSET Known, doc' = Relayed(s, sender, ops)
        PROVE  \A c \in Clients : doc'[c] \subseteq Known
    BY <1>0, <1>1, <1>2 DEF Relayed
  <1>3. ASSUME NEW s \in Servers, Server(s)
        PROVE  \A c \in Clients : doc'[c] \subseteq Known
    <2>1. ASSUME NEW r \in Commands, NEW source \in Prepared(r), Command(s, r, source)
          PROVE  \A c \in Clients : doc'[c] \subseteq Known
      <3>1. source \subseteq Known
        BY <2>1, SourceStored, KnownParts DEF Command
      <3>. QED
        BY <1>2, <2>1, <3>1 DEF Command
    <2>2. CASE JoinReply(s)
      <3>2. \A from : RowOps({row \in rows : row.seq >= from}) \subseteq RowOps(rows)
        BY DEF RowOps
      <3>3. JoinedOps(s) \subseteq joining[s].ops \cup Stored
        BY <3>2 DEF JoinedOps, Stored
      <3>4. JoinedOps(s) \subseteq Known
        BY <3>3, KnownParts
      <3>. QED
        BY <1>0, <1>1, <2>2, <3>4 DEF JoinReply
    <2>3. CASE UNCHANGED doc
      BY <1>1, <2>3
    <2>. QED
      BY <1>3, <2>1, <2>2, <2>3 DEF Server, Claim, LoseLock, Crash, Stop, Exit, Admit, RetireIdle,
         RetireFenced, FlushBegin, FlushCommit, FlushError, ResolveWritten, ResolveFenced,
         ResolveRetry, FlushRetire, CommandLost, BuildCache, EvictCache, JoinRegister, Snapshot,
         ActivateCommit, ActivateLost, ActivateNoop, ActivateError, Activated
  <1>4. ASSUME NEW d \in Clients, Client(d)
        PROVE  \A c \in Clients : doc'[c] \subseteq Known
    <2>1. CASE Disconnect(d)
      <3>1. PICK kept \in {doc[d], Own(d)} : doc' = [doc EXCEPT ![d] = kept]
        BY <2>1 DEF Disconnect
      <3>2. kept \subseteq doc[d]
        BY <3>1 DEF Own
      <3>. QED
        BY <1>0, <1>1, <3>1, <3>2
    <2>2. CASE Edit(d)
      <3>1. PICK n \in NextOwn(d) : doc' = [doc EXCEPT ![d] = @ \cup {<<d, n>>}]
        BY <2>2 DEF Edit
      <3>2. <<d, n>> \in Own(d)'
        BY <1>0, <3>1 DEF Own
      <3>3. <<d, n>> \in Known
        BY <3>2, KnownParts
      <3>. QED
        BY <1>0, <1>1, <3>1, <3>3
    <2>3. CASE \E s \in Servers : JoinRead(s, d)
      BY <1>1, <2>3 DEF JoinRead
    <2>4. CASE \E s \in Servers : Ingest(s, d) \/ IngestResend(s, d)
      <3>0. PICK s \in Servers : Ingest(s, d) \/ IngestResend(s, d)
        BY <2>4
      <3>1. PICK batch \in Offers(s, d) \cup Resends(s, d) : Accept(s, d, batch)
        BY <3>0 DEF Ingest, IngestResend
      <3>2. batch \subseteq Known
        BY <1>0, <1>1, OffersHeld
      <3>. QED
        BY <1>2, <3>1, <3>2 DEF Accept
    <2>. QED
      BY <1>4, <2>1, <2>2, <2>3, <2>4 DEF Client
  <1>5. CASE UNCHANGED vars
    BY <1>1, <1>5 DEF vars
  <1>. QED
    BY <1>3, <1>4, <1>5 DEF Next

\* A buffer holds only what a browser sent.
LEMMA BufferStep ==
    ASSUME IInv, [Next]_vars
    PROVE  \A s \in Servers : Buffered(s)' \subseteq Known
  <1>. USE DEF store, inner, tasks, world
  <1>0. buffer \in [Servers -> Seq(Batches)] /\ TypeOK
    BY DEF IInv, TypeOK
  <1>1. \A s \in Servers : Buffered(s) \subseteq Known
    BY KnownParts
  <1>2. ASSUME UNCHANGED buffer
        PROVE  \A s \in Servers : Buffered(s)' \subseteq Known
    BY <1>1, <1>2 DEF Buffered
  <1>3. ASSUME NEW s \in Servers, buffer' = [buffer EXCEPT ![s] = <<>>]
        PROVE  \A t \in Servers : Buffered(t)' \subseteq Known
    <2>1. Buffered(s)' = {} /\ \A t \in Servers \ {s} : Buffered(t)' = Buffered(t)
      BY <1>0, <1>3, EmptyBuffer DEF Buffered
    <2>. QED
      BY <1>1, <2>1
  <1>4. ASSUME NEW s \in Servers, Server(s)
        PROVE  \A t \in Servers : Buffered(t)' \subseteq Known
    <2>1. CASE FlushRetire(s)
      <3> DEFINE b == buffer[s]
                 r == SubSeq(b, flight[s].take + 1, Len(b))
      <3>1. flight[s].take \in Nat /\ flight[s].take <= Len(b) /\ b \in Seq(Batches)
        BY <1>0, <2>1 DEF FlushRetire, IInv, Local, InFlight, TypeOK, Flight
      <3>2. buffer'[s] = r /\ \A t \in Servers \ {s} : buffer'[t] = buffer[t]
        BY <1>0, <2>1 DEF FlushRetire
      <3>3. \A i \in 1..Len(r) : \E j \in 1..Len(b) : r[i] = b[j]
        BY <3>1, RetiredBuffer
      <3>4. BatchesThrough(r, Len(r)) \subseteq BatchesThrough(b, Len(b))
        <4>. HIDE DEF r, b
        <4>. QED
          BY <3>3 DEF BatchesThrough
      <3>5. Buffered(s)' \subseteq Buffered(s) /\ \A t \in Servers \ {s} : Buffered(t)' = Buffered(t)
        BY <3>2, <3>4 DEF Buffered
      <3>. QED
        BY <1>1, <3>5
    <2>2. CASE buffer' = [buffer EXCEPT ![s] = <<>>]
      BY <1>3, <2>2
    <2>3. CASE UNCHANGED buffer
      BY <1>2, <2>3
    <2>. QED
      BY <1>4, <2>1, <2>2, <2>3 DEF Server, Claim, LoseLock, Crash, Stop, Exit, Forget, Admit,
         RetireIdle, RetireFenced, FlushBegin, FlushCommit, FlushError, ResolveWritten,
         ResolveFenced, ResolveRetry, Command, CommandLost, BuildCache, EvictCache, JoinRegister,
         JoinReply, Snapshot, ActivateCommit, ActivateLost, ActivateNoop, ActivateError, Activated
  <1>5. ASSUME NEW d \in Clients, Client(d)
        PROVE  \A t \in Servers : Buffered(t)' \subseteq Known
    <2>1. CASE \E s \in Servers : Ingest(s, d) \/ IngestResend(s, d)
      <3>0. PICK s \in Servers : Ingest(s, d) \/ IngestResend(s, d)
        BY <2>1
      <3>1. PICK batch \in Offers(s, d) \cup Resends(s, d) : Accept(s, d, batch)
        BY <3>0 DEF Ingest, IngestResend
      <3>2. batch \subseteq doc[d] /\ batch \in Batches
        BY <1>0, OffersHeld DEF Batches
      <3>3. buffer'[s] = Append(buffer[s], batch) /\ \A t \in Servers \ {s} : buffer'[t] = buffer[t]
        BY <1>0, <3>1 DEF Accept
      <3>4. Buffered(s)' = Buffered(s) \cup batch /\ \A t \in Servers \ {s} : Buffered(t)' = Buffered(t)
        BY <1>0, <3>2, <3>3, PushedBuffer DEF Buffered
      <3>5. batch \subseteq Known
        BY <3>2, KnownParts
      <3>. QED
        BY <1>1, <3>4, <3>5
    <2>2. CASE UNCHANGED buffer
      BY <1>2, <2>2
    <2>. QED
      BY <1>5, <2>1, <2>2 DEF Client, Edit, Disconnect, JoinRead
  <1>6. CASE UNCHANGED vars
    BY <1>2, <1>6 DEF vars
  <1>. QED
    BY <1>4, <1>5, <1>6 DEF Next

\* A join copies the buffer, or nothing yet.
LEMMA JoinStep ==
    ASSUME IInv, [Next]_vars
    PROVE  \A s \in Servers : joining'[s].ops \subseteq Known
  <1>. USE DEF store, inner, tasks, world
  <1>0. joining \in [Servers -> Joining] /\ TypeOK
    BY DEF IInv, TypeOK
  <1>1. \A s \in Servers : joining[s].ops \subseteq Known /\ Buffered(s) \subseteq Known
    BY KnownParts
  <1>2. ASSUME NEW s \in Servers, \A t \in Servers \ {s} : joining'[t] = joining[t],
               joining'[s].ops = {} \/ joining'[s].ops = Buffered(s)
        PROVE  \A t \in Servers : joining'[t].ops \subseteq Known
    BY <1>1, <1>2
  <1>3. ASSUME NEW s \in Servers, Server(s)
        PROVE  \A t \in Servers : joining'[t].ops \subseteq Known
    <2>1. CASE JoinRegister(s)
      <3>1. joining' = [joining EXCEPT ![s] =
                          [@ EXCEPT !.pc = "registered", !.ops = Buffered(s), !.vec = headVec[s],
                                    !.base = ~BaseCovered(s, joining[s].cv)]]
        BY <2>1 DEF JoinRegister
      <3>2. joining'[s].ops = Buffered(s) /\ \A t \in Servers \ {s} : joining'[t] = joining[t]
        BY <1>0, <3>1 DEF Joining
      <3>. QED
        BY <1>2, <3>2
    <2>2. CASE joining' = [joining EXCEPT ![s] = NoJoin]
      <3>1. joining'[s].ops = {} /\ \A t \in Servers \ {s} : joining'[t] = joining[t]
        BY <1>0, <2>2 DEF NoJoin
      <3>. QED
        BY <1>2, <3>1
    <2>3. CASE UNCHANGED joining
      BY <1>1, <2>3
    <2>. QED
      BY <1>3, <2>1, <2>2, <2>3 DEF Server, Claim, LoseLock, Crash, Stop, Exit, Admit, RetireIdle,
         RetireFenced, FlushBegin, FlushCommit, FlushError, ResolveWritten, ResolveFenced,
         ResolveRetry, FlushRetire, Command, CommandLost, CommandCommit, BuildCache, EvictCache,
         JoinReply, Snapshot, ActivateCommit, ActivateLost, ActivateNoop, ActivateError, Activated
  <1>4. ASSUME NEW d \in Clients, Client(d)
        PROVE  \A t \in Servers : joining'[t].ops \subseteq Known
    <2>1. CASE Disconnect(d)
      <3>1. \A t \in Servers : joining'[t].ops = {} \/ joining'[t] = joining[t]
        BY <2>1 DEF Disconnect, NoJoin
      <3>. QED
        BY <1>1, <3>1
    <2>2. CASE \E s \in Servers : JoinRead(s, d)
      <3>1. PICK s \in Servers : JoinRead(s, d)
        BY <2>2
      <3>2. joining'[s].ops = {} /\ \A t \in Servers \ {s} : joining'[t] = joining[t]
        BY <1>0, <3>1 DEF JoinRead, NoJoin
      <3>. QED
        BY <1>2, <3>2
    <2>3. CASE UNCHANGED joining
      BY <1>1, <2>3
    <2>. QED
      BY <1>4, <2>1, <2>2, <2>3 DEF Client, Edit, Ingest, IngestResend, Accept
  <1>5. CASE UNCHANGED vars
    BY <1>1, <1>5 DEF vars
  <1>. QED
    BY <1>3, <1>4, <1>5 DEF Next

-----------------------------------------------------------------------------
(* The invariant *)

\* Nothing is carried that nobody made, and every change stays submitted.
LEMMA NextMade ==
    ASSUME IInv, Made, [Next]_vars
    PROVE  Made' /\ Submitted \subseteq Submitted'
  <1>1. Stored \subseteq Stored' /\ \A c \in Clients : Own(c) \subseteq Own(c)'
    BY StepGrows, OwnGrows
  <1>2. Submitted \subseteq Submitted'
    BY <1>1 DEF Submitted
  <1>3. \A op \in Stored' : op[1] \in Commands => op \in Submitted'
    BY Zenon DEF Submitted
  <1>4. Known \subseteq Submitted'
    <2>1. Carried \subseteq Submitted'
      BY <1>2 DEF Made
    <2>2. UNION {Own(c)' : c \in Clients} \subseteq Submitted'
      BY DEF Submitted
    <2>. QED
      BY <1>3, <2>1, <2>2, Zenon DEF Known
  <1>5. UNION {doc'[c] : c \in Clients} \subseteq Known
    BY DocStep
  <1>6. UNION {Buffered(s)' : s \in Servers} \subseteq Known
    BY BufferStep
  <1>7. UNION {joining'[s].ops : s \in Servers} \subseteq Known
    BY JoinStep
  <1>8. Stored' \subseteq Submitted'
    <2>1. Stored \cup UNION {Buffered(s) : s \in Servers} \subseteq Known
      BY KnownParts
    <2>2. CASE Stored' \subseteq Stored \cup UNION {Buffered(s) : s \in Servers}
      BY <1>4, <2>1, <2>2
    <2>3. ASSUME NEW s \in Servers, NEW r \in Commands, NEW source \in Prepared(r),
                 Stored' \subseteq Stored \cup Buffered(s) \cup source
          PROVE  Stored' \subseteq Submitted'
      <3>1. \A op \in source : op[1] = r
        <4>1. source = {} \/ \E n \in 1..MaxOps : source = {<<r, n>>}
          BY DEF Prepared
        <4>. QED
          BY <4>1
      <3>2. \A op \in Stored' : op \in Known \/ op[1] \in Commands
        BY <2>3, <3>1, KnownParts
      <3>. QED
        BY <1>3, <1>4, <3>2
    <2>. QED
      BY <2>2, <2>3, StoredStep
  <1>9. Carried' = Stored' \cup (UNION {doc'[c] : c \in Clients})
           \cup (UNION {Buffered(s)' : s \in Servers}) \cup (UNION {joining'[s].ops : s \in Servers})
    BY DEF Carried
  <1>10. Made'
    <2> DEFINE A == UNION {doc'[c] : c \in Clients}
               B == UNION {Buffered(t)' : t \in Servers}
               J == UNION {joining'[t].ops : t \in Servers}
    <2>1. Carried' = Stored' \cup A \cup B \cup J /\ A \subseteq Known /\ B \subseteq Known /\ J \subseteq Known
      BY <1>5, <1>6, <1>7, <1>9
    <2>. HIDE DEF A, B, J
    <2>. QED
      BY <1>4, <1>8, <2>1 DEF Made
  <1>. QED
    BY <1>2, <1>10

\* A carried change of a command is a stored one.
LEMMA CommandsStored ==
    ASSUME Made
    PROVE  \A op \in Carried : op[1] \in Commands => op \in Stored
  <1>1. \A op \in Submitted : op[1] \in Clients \/ op \in Stored
    BY DEF Submitted, Own
  <1>. QED
    BY <1>1 DEF Made, Commands

\* A command commits once: its first commit finds none of its changes stored.
LEMMA NextOnce ==
    ASSUME IInv, Made, Once, [Next]_vars
    PROVE  Once'
  <1>. SUFFICES ASSUME NEW r \in Commands, NEW p \in Stored', NEW q \in Stored',
                       p[1] = r, q[1] = r
                PROVE  p = q /\ r \in recorded'
    BY DEF Once
  <1>1. \A s \in Servers : Buffered(s) \subseteq Carried
    BY DEF Carried
  <1>2. \A s \in Servers : \A op \in Buffered(s) : op[1] = r => op \in Stored
    BY <1>1, CommandsStored
  <1>3. CASE /\ Stored' \subseteq Stored \cup UNION {Buffered(s) : s \in Servers}
             /\ recorded' = recorded
    BY <1>2, <1>3 DEF Once
  <1>4. ASSUME NEW s \in Servers, NEW d \in Commands, NEW source \in Prepared(d),
               d \notin recorded, recorded' = recorded \cup {d},
               Stored' \subseteq Stored \cup Buffered(s) \cup source
        PROVE  p = q /\ r \in recorded'
    <2>1. source = {} \/ \E n \in 1..MaxOps : source = {<<d, n>>}
      BY DEF Prepared
    <2>2. \A op \in source : op[1] = d
      BY <2>1
    <2>3. (p \in Stored \/ p \in source) /\ (q \in Stored \/ q \in source)
      BY <1>2, <1>4
    <2>4. CASE r = d
      <3>1. p \in source /\ q \in source
        BY <1>4, <2>3, <2>4 DEF Once
      <3>. QED
        BY <1>4, <2>1, <2>4, <3>1
    <2>5. CASE r # d
      BY <1>4, <2>2, <2>3, <2>5 DEF Once
    <2>. QED
      BY <2>4, <2>5
  <1>. QED
    BY <1>3, <1>4, StoredStep

\* Nothing announced is taken back.
LEMMA AnnouncedGrows ==
    ASSUME [Next]_vars
    PROVE  announced \subseteq announced'
  <1>. USE DEF store, inner, tasks, world
  <1>1. ASSUME NEW s \in Servers, Server(s)
        PROVE  announced \subseteq announced'
    BY <1>1 DEF Server, Claim, LoseLock, Crash, Stop, Exit, Admit, RetireIdle,
         RetireFenced, FlushBegin, FlushCommit, FlushError, ResolveWritten, ResolveFenced,
         ResolveRetry, FlushRetire, Command, CommandLost, BuildCache, EvictCache, JoinRegister,
         JoinReply, Snapshot, ActivateCommit, ActivateLost, ActivateNoop, ActivateError, Activated,
         Told
  <1>2. ASSUME NEW c \in Clients, Client(c)
        PROVE  announced \subseteq announced'
    BY <1>2 DEF Client, Edit, Disconnect, JoinRead, Ingest, IngestResend, Accept
  <1>3. CASE UNCHANGED vars
    BY <1>3 DEF vars
  <1>. QED
    BY <1>1, <1>2, <1>3 DEF Next

\* At the start nobody carries anything.
LEMMA InitRInv == Init => RInv
  <1>. SUFFICES ASSUME Init
                PROVE  RInv
    OBVIOUS
  <1>1. Stored = {}
    BY DEF Init, Stored, RowOps, NoBase
  <1>2. \A s \in Servers : Buffered(s) = {} /\ joining[s].ops = {}
    BY EmptyBuffer DEF Init, Buffered, NoJoin
  <1>3. Carried = {}
    BY <1>1, <1>2 DEF Carried, Init
  <1>. QED
    BY <1>1, <1>3, InitIInv DEF RInv, Made, Once

\* The strengthened invariant is inductive.
LEMMA NextRInv == RInv /\ [Next]_vars => RInv'
  BY NextIInv, NextMade, NextOnce DEF RInv

\* Every reachable state satisfies it.
THEOREM Provenance == Spec => []RInv
  BY InitRInv, NextRInv, PTL DEF Spec

-----------------------------------------------------------------------------
(* The theorems *)

\* A retried command never commits a second change, on whichever server.
THEOREM CommandsOnce == Spec => []AppliedOnce
  <1>1. RInv => AppliedOnce
    <2>. SUFFICES ASSUME RInv, NEW r \in Commands
                  PROVE  Cardinality({op \in Stored : op[1] = r}) <= 1
      BY DEF AppliedOnce
    <2> DEFINE mine == {op \in Stored : op[1] = r}
    <2>1. \A p, q \in mine : p = q
      BY DEF RInv, Once
    <2>. HIDE DEF mine
    <2>2. ASSUME NEW p \in mine
          PROVE  mine = {p}
      BY <2>1
    <2>3. Cardinality(mine) = 0 \/ Cardinality(mine) = 1
      BY <2>2, FS_EmptySet, FS_Singleton
    <2>. QED
      BY <2>3 DEF mine
  <1>. QED
    BY <1>1, Provenance, PTL

\* The promise's initial state: nothing submitted, durable or announced.
LEMMA PromiseInit == Init => Promise!Init
  <1>. SUFFICES ASSUME Init
                PROVE  Promise!Init
    OBVIOUS
  <1>1. Stored = {}
    BY DEF Init, Stored, RowOps, NoBase
  <1>2. Submitted = {}
    BY <1>1 DEF Init, Submitted, Own
  <1>. QED
    BY <1>1, <1>2 DEF Init, Promise!Init

\* Every step of the servers and the browsers is a step of the promise.
LEMMA PromiseStep == RInv /\ RInv' /\ [Next]_vars => [Promise!Step]_(Promise!vars)
  <1>. SUFFICES ASSUME RInv, RInv', [Next]_vars
                PROVE  Promise!Step
    OBVIOUS
  <1>1. Submitted \subseteq Submitted' /\ Stored \subseteq Stored' /\ announced \subseteq announced'
    BY NextMade, StepGrows, AnnouncedGrows DEF RInv
  <1>2. announced' \subseteq Stored'
    BY DEF RInv, IInv, AnnouncedDurable
  <1>3. Stored' \subseteq Submitted'
    BY DEF RInv, Made, Carried
  <1>4. Submitted' \subseteq Ops
    <2>1. Stored' \in SUBSET Ops
      BY DEF RInv, IInv, TypeOK, Stored, RowOps, Row, Base
    <2>2. doc' \in [Clients -> SUBSET Ops]
      BY DEF RInv, IInv, TypeOK
    <2>. QED
      BY <2>1, <2>2 DEF Submitted, Own
  <1>. QED
    BY <1>1, <1>2, <1>3, <1>4 DEF Promise!Step

\* What the servers, PostgreSQL and the browsers do together implements the
\* promise: changes are made, stored and announced in that order and never
\* taken back.
THEOREM KeepsPromise == Spec => ImplementsDurableLog
  BY Provenance, PromiseInit, PromiseStep, PTL DEF Spec, ImplementsDurableLog, Promise!Spec

-----------------------------------------------------------------------------
(* A decoded document and a joined browser are never behind the head,     *)
(* provided that no compaction outlives the sequencer it was taken from:   *)
(* the inductive invariant                                                 *)

\* A version vector: with a change, every earlier one of the same peer.
Closed(v) == \A op \in v : \A n \in 1..op[2] : <<op[1], n>> \in v

\* The server that storage lets write, its sequencer serving.
Writer(s) == lease[s] = epoch /\ status[s] = "live"

\* An epoch is one process's, and only a process with one has a sequencer.
Leased ==
    /\ \A s \in Servers : lease[s] <= epoch /\ (status[s] # "absent" => lease[s] # 0)
    /\ \A s, t \in Servers : lease[s] = lease[t] /\ lease[s] # 0 => s = t

\* What storage labels its bytes with are version vectors.
StoredCuts ==
    /\ \A row \in rows : Closed(row.vec) /\ row.seq # 0
    /\ Closed(base.vec) /\ (base.through = 0 => base.ops = {})

\* Subscribers and joins are of a live sequencer; a join and a flush exclude
\* each other; the compaction is of the sequencer that is resident.
Present(s) ==
    /\ subs[s] # {} => status[s] = "live"
    /\ status[s] = "absent" => cache[s] = Cold
    /\ joining[s].pc = "idle" => joining[s] = NoJoin
    /\ joining[s].pc # "idle" => flight[s].pc = "idle" /\ status[s] = "live"
    /\ joining[s].pc = "registered" => joining[s].client \in subs[s]
    /\ ~snap[s].old /\ (snap[s] # NoSnap => snap[s].through # 0)

\* So are the vectors in memory.
Cuts(s) == Closed(logVec[s]) /\ Closed(headVec[s]) /\ Closed(flight[s].vec) /\ Closed(snap[s].vec)

\* The writer's copy of the base's vector is the base's.
Knows(s) == Writer(s) => (base.ops # {} => hasBase[s]) /\ baseVec[s] = base.vec

Warm(s) == Writer(s) /\ cache[s].warm => headVec[s] \subseteq cache[s].ops

Synced(s) ==
    \A c \in subs[s] : joining[s].client # c /\ lease[s] = epoch => headVec[s] \subseteq doc[c]

\* What a join has read covers storage from where the reply will start, and
\* what it copied or was relayed since covers the buffer.
Joins(s) ==
    joining[s].pc # "idle" /\ lease[s] = epoch =>
        /\ joining[s].cv \subseteq doc[joining[s].client]
        /\ \A row \in rows :
             /\ joining[s].first # 0 /\ joining[s].first <= row.seq
             /\ \/ row.ops \subseteq joining[s].cv
                \/ joining[s].uncovered # 0 /\ joining[s].uncovered <= row.seq
        /\ joining[s].pc = "registered" =>
             /\ Buffered(s) \subseteq joining[s].ops \cup doc[joining[s].client]
             /\ joining[s].base = FALSE => base.ops \subseteq joining[s].cv

Shares(s) == Present(s) /\ Cuts(s) /\ Knows(s) /\ Warm(s) /\ Synced(s) /\ Joins(s)

SInv == RInv /\ Leased /\ StoredCuts /\ \A s \in Servers : Shares(s)

-----------------------------------------------------------------------------
(* Version vectors *)

\* The end vector of a batch is one.
LEMMA EndClosed == \A batch \in SUBSET Ops : Closed(End(batch)) /\ End(batch) \in SUBSET Ops
  <1>. SUFFICES ASSUME NEW batch \in SUBSET Ops, NEW op \in End(batch), NEW n \in 1..op[2]
                PROVE  <<op[1], n>> \in End(batch)
    BY DEF Closed, End
  <1>1. op \in Ops /\ op[1] \in Peers /\ op[2] \in 1..MaxOps /\ n \in 1..MaxOps /\ n <= op[2]
    BY MaxOpsAssumption DEF End, Ops
  <1>2. PICK last \in batch : last[1] = op[1] /\ op[2] <= last[2]
    BY DEF End
  <1>3. last[2] \in 1..MaxOps
    BY DEF Ops
  <1>4. n <= last[2]
    BY <1>1, <1>2, <1>3, MaxOpsAssumption
  <1>5. <<op[1], n>> \in Ops
    BY <1>1 DEF Ops
  <1>. QED
    BY <1>2, <1>4, <1>5 DEF End

\* Merging two vectors gives one.
LEMMA ClosedUnion ==
    ASSUME NEW v, NEW w, Closed(v), Closed(w)
    PROVE  Closed(v \cup w)
  BY DEF Closed

\* A vector whose changes a document holds is visible in it.
LEMMA ClosedVisible ==
    ASSUME NEW v, Closed(v), NEW changes, v \subseteq changes
    PROVE  v \subseteq Visible(changes)
  BY DEF Closed, Visible

\* What the whole buffer reaches is a vector.
LEMMA ThroughClosed ==
    ASSUME TypeOK, NEW s \in Servers, Closed(logVec[s])
    PROVE  Closed(VectorThrough(s))
  <1>1. \A i \in 1..Len(buffer[s]) : buffer[s][i] \in SUBSET Ops
    BY SequencerTyped DEF Batches
  <1>2. Closed(BatchEnds(buffer[s], Len(buffer[s])))
    <2>1. \A i \in 1..Len(buffer[s]) : Closed(End(buffer[s][i]))
      BY <1>1, EndClosed
    <2>. QED
      BY <2>1 DEF Closed, BatchEnds
  <1>. QED
    BY <1>2, ClosedUnion DEF VectorThrough

\* log_head's vector is a stored one.
LEMMA LogVectorClosed ==
    ASSUME TypeOK, Behind, Tip, StoredCuts
    PROVE  Closed(LogVector)
  <1>1. CASE rows = {}
    BY <1>1 DEF LogVector, StoredCuts
  <1>2. CASE rows # {}
    <2>1. \A row \in rows : row.seq \in Nat /\ row.vec \in SUBSET Ops
      BY DEF TypeOK, Row
    <2>2. \A row \in rows : row.seq <= sequence
      BY <2>1 DEF Behind, IsPoint
    <2>3. PICK last \in rows : last.seq = sequence
      BY <1>2 DEF Tip
    <2>4. IsLastRow(last)
      BY <2>2, <2>3 DEF IsLastRow
    <2>5. (CHOOSE row \in rows : IsLastRow(row)) \in rows
      BY <2>4
    <2>. QED
      BY <1>2, <2>5 DEF LogVector, StoredCuts
  <1>. QED
    BY <1>1, <1>2

\* A command that has not run has nothing stored, so what it prepares is its
\* first change and covers nothing else.
LEMMA SourceEnd ==
    ASSUME RInv, NEW r \in Commands, r \notin recorded, NEW source \in Prepared(r)
    PROVE  End(source) = source
  <1>1. \A n \in 1..MaxOps : <<r, n>> \notin Stored
    BY DEF RInv, Once
  <1>2. source = {} \/ \E n \in 1..MaxOps : /\ source = {<<r, n>>}
                                            /\ \A k \in 1..(n - 1) : <<r, k>> \in Stored
    BY DEF Prepared
  <1>3. source = {} \/ source = {<<r, 1>>}
    <2>. SUFFICES ASSUME NEW n \in 1..MaxOps, source = {<<r, n>>},
                         \A k \in 1..(n - 1) : <<r, k>> \in Stored
                  PROVE  n = 1
      BY <1>2
    <2>1. CASE n > 1
      <3>1. 1 \in 1..(n - 1) /\ 1 \in 1..MaxOps
        BY <2>1, MaxOpsAssumption
      <3>. QED
        BY <1>1, <3>1
    <2>. QED
      BY <2>1
  <1>4. CASE source = {}
    BY <1>4 DEF End
  <1>5. CASE source = {<<r, 1>>}
    <2>1. \A op \in Ops : op[2] \in Nat /\ op[2] >= 1 /\ op = <<op[1], op[2]>>
      BY MaxOpsAssumption DEF Ops
    <2>2. <<r, 1>> \in Ops
      BY MaxOpsAssumption DEF Ops, Commands
    <2>3. \A op \in End(source) : op = <<r, 1>>
      BY <1>5, <2>1 DEF End
    <2>4. <<r, 1>> \in End(source)
      BY <1>5, <2>2 DEF End
    <2>. QED
      BY <1>5, <2>3, <2>4
  <1>. QED
    BY <1>3, <1>4, <1>5

-----------------------------------------------------------------------------
(* Documents *)

\* build reaches the head: base, rows and buffer hold all the head claims.
LEMMA BuiltAtHead ==
    ASSUME SInv, NEW s \in Servers, Writer(s)
    PROVE  headVec[s] \subseteq Built(s) /\ headVec[s] \subseteq Materialized(s)
  <1>1. headVec[s] \subseteq Stored \cup Buffered(s)
    BY DEF SInv, RInv, IInv, Local, Headed
  <1>2. base.ops # {} => hasBase[s]
    BY DEF SInv, Shares, Knows
  <1>3. Stored \cup Buffered(s) \subseteq Built(s)
    BY <1>2 DEF Stored, Built
  <1>4. cache[s].warm => headVec[s] \subseteq cache[s].ops
    BY DEF SInv, Shares, Warm
  <1>. QED
    BY <1>1, <1>3, <1>4 DEF Materialized

\* A non-empty set of sequence numbers has a least one, which a scan finds.
LEMMA LeastFound ==
    ASSUME NEW S \in SUBSET Nat, NEW n \in S
    PROVE  LeastOrZero(S) \in S /\ LeastOrZero(S) <= n
  <1>1. PICK R : R = OpToRel(<, Nat)
    OBVIOUS
  <1>2. IsWellFoundedOn(R, Nat)
    BY <1>1, NatLessThanWellFounded
  <1>3. \A x, y \in Nat : y < x => <<y, x>> \in R
    BY <1>1 DEF OpToRel
  <1>4. PICK x \in S : \A y \in S : ~ (<<y, x>> \in R)
    BY <1>2, WFMin
  <1>5. \A y \in S : x <= y
    <2>1. \A y \in S : ~ (y < x)
      BY <1>3, <1>4
    <2>. QED
      BY <2>1
  <1>6. IsLeast(x, S)
    BY <1>5 DEF IsLeast
  <1>7. IsLeast(LeastOrZero(S), S)
    BY <1>6 DEF LeastOrZero
  <1>. QED
    BY <1>7 DEF IsLeast

\* The stored coverage a join reads: below the row it will start from, the
\* browser's vector covers every row.
LEMMA CoverageRead ==
    ASSUME SInv, NEW cv
    PROVE  \A row \in rows :
             LET first == LeastOrZero(RowSeqs(rows))
                 uncovered == LeastOrZero(RowSeqs(Uncovered(cv)))
             IN  /\ first # 0 /\ first <= row.seq
                 /\ row.ops \subseteq cv \/ (uncovered # 0 /\ uncovered <= row.seq)
  <1>. SUFFICES ASSUME NEW row \in rows
                PROVE  /\ LeastOrZero(RowSeqs(rows)) # 0 /\ LeastOrZero(RowSeqs(rows)) <= row.seq
                       /\ \/ row.ops \subseteq cv
                          \/ /\ LeastOrZero(RowSeqs(Uncovered(cv))) # 0
                             /\ LeastOrZero(RowSeqs(Uncovered(cv))) <= row.seq
    OBVIOUS
  <1>1. \A r \in rows : r.seq \in Nat /\ r.seq # 0 /\ r.vec \in SUBSET Ops
    BY DEF SInv, RInv, IInv, TypeOK, Row, StoredCuts
  <1>2. ASSUME NEW S \in SUBSET rows, row \in S
        PROVE  LeastOrZero(RowSeqs(S)) # 0 /\ LeastOrZero(RowSeqs(S)) <= row.seq
    <2>1. RowSeqs(S) \in SUBSET Nat /\ row.seq \in RowSeqs(S) /\ \A n \in RowSeqs(S) : n # 0
      BY <1>1, <1>2 DEF RowSeqs
    <2>. QED
      BY <2>1, LeastFound
  <1>3. CASE row \in Uncovered(cv)
    <2>1. Uncovered(cv) \in SUBSET rows
      BY DEF Uncovered
    <2>. QED
      BY <1>2, <1>3, <2>1
  <1>4. CASE row \notin Uncovered(cv)
    <2>1. PICK later \in rows : later.seq >= row.seq /\ later.vec \subseteq cv
      BY <1>4 DEF Uncovered, Covers
    <2>2. IsPoint(row.seq, row.vec) /\ IsPoint(later.seq, later.vec)
      BY DEF IsPoint
    <2>3. row.vec \subseteq later.vec
      BY <1>1, <2>1, <2>2 DEF SInv, RInv, IInv, Chain
    <2>4. row.ops \subseteq row.vec
      BY DEF SInv, RInv, IInv, Labelled
    <2>. QED
      BY <1>2, <2>1, <2>3, <2>4
  <1>. QED
    BY <1>3, <1>4

\* The reply gives the browser all that the head covers.
LEMMA ReplyAtHead ==
    ASSUME SInv, NEW s \in Servers, joining[s].pc = "registered", lease[s] = epoch
    PROVE  headVec[s] \subseteq doc[joining[s].client] \cup JoinedOps(s)
  <1> DEFINE all == doc[joining[s].client] \cup JoinedOps(s)
  <1>1. headVec[s] \subseteq Stored \cup Buffered(s)
    BY DEF SInv, RInv, IInv, Local, Headed
  <1>2. /\ joining[s].cv \subseteq doc[joining[s].client]
        /\ \A row \in rows :
             /\ joining[s].first # 0 /\ joining[s].first <= row.seq
             /\ \/ row.ops \subseteq joining[s].cv
                \/ joining[s].uncovered # 0 /\ joining[s].uncovered <= row.seq
        /\ Buffered(s) \subseteq joining[s].ops \cup doc[joining[s].client]
        /\ joining[s].base = FALSE => base.ops \subseteq joining[s].cv
    BY DEF SInv, Shares, Joins
  <1>3. joining[s].base \in BOOLEAN /\ joining[s].first \in Nat /\ joining[s].uncovered \in Nat
    BY DEF SInv, RInv, IInv, TypeOK, Joining
  <1>4. \A row \in rows : row.seq \in Nat
    BY DEF SInv, RInv, IInv, TypeOK, Row
  <1>5. Buffered(s) \subseteq all
    BY <1>2 DEF JoinedOps
  <1>6. base.ops \subseteq all
    BY <1>2, <1>3 DEF JoinedOps
  <1>7. ASSUME NEW row \in rows
        PROVE  row.ops \subseteq all
    <2>1. CASE joining[s].base = TRUE
      <3>1. joining[s].first # 0 /\ row.seq >= joining[s].first
        BY <1>2, <1>3, <1>4
      <3>2. row.ops \subseteq RowOps({r \in rows : r.seq >= joining[s].first})
        BY <3>1 DEF RowOps
      <3>. QED
        BY <2>1, <3>1, <3>2 DEF JoinedOps
    <2>2. CASE joining[s].base = FALSE /\ joining[s].uncovered # 0 /\ joining[s].uncovered <= row.seq
      <3>1. row.seq >= joining[s].uncovered
        BY <1>3, <1>4, <2>2
      <3>2. row.ops \subseteq RowOps({r \in rows : r.seq >= joining[s].uncovered})
        BY <3>1 DEF RowOps
      <3>. QED
        BY <2>2, <3>1, <3>2 DEF JoinedOps
    <2>. QED
      BY <1>2, <1>3, <2>1, <2>2
  <1>. QED
    BY <1>1, <1>5, <1>6, <1>7 DEF Stored, RowOps

-----------------------------------------------------------------------------
(* What a step leaves alone *)

\* The rest of server t's memory.
Alike(t) ==
    /\ lease'[t] = lease[t] /\ cache'[t] = cache[t] /\ hasBase'[t] = hasBase[t]
    /\ baseVec'[t] = baseVec[t] /\ subs'[t] = subs[t] /\ joining'[t] = joining[t]

\* A server whose memory a step leaves alone keeps sharing, when documents
\* grow and storage changes, if at all, under somebody else's epoch.
LEMMA SharesFrame ==
    ASSUME SInv, NEW t \in Servers, Same(t), Alike(t),
           \A c \in Clients : doc[c] \subseteq doc'[c],
           lease[t] = epoch' /\ status[t] # "absent" => lease[t] = epoch /\ rows' = rows /\ base' = base
    PROVE  Shares(t)'
  <1>1. Shares(t) /\ subs[t] \subseteq Clients /\ (joining[t].pc # "idle" => joining[t].client \in Clients)
    BY DEF SInv, RInv, IInv, Joined, TypeOK
  <1>2. Buffered(t)' = Buffered(t)
    BY DEF Same, Buffered
  <1>3. Present(t)' /\ Cuts(t)'
    BY <1>1 DEF Shares, Present, Cuts, Same, Alike
  <1>4. Knows(t)' /\ Warm(t)'
    BY <1>1 DEF Shares, Knows, Warm, Writer, Same, Alike
  <1>5. Synced(t)'
    <2>1. \A c \in subs[t] : doc[c] \subseteq doc'[c]
      BY <1>1
    <2>. QED
      BY <1>1, <2>1 DEF Shares, Synced, Present, Same, Alike
  <1>6. Joins(t)'
    <2>1. joining[t].pc # "idle" => doc[joining[t].client] \subseteq doc'[joining[t].client]
      BY <1>1
    <2>. QED
      BY <1>1, <1>2, <2>1 DEF Shares, Joins, Present, Same, Alike
  <1>. QED
    BY <1>3, <1>4, <1>5, <1>6 DEF Shares

\* A step of server s that leaves storage alone, or writes it as the writer,
\* is nothing to the other servers.
LEMMA OthersShare ==
    ASSUME SInv, NEW s \in Servers, epoch' = epoch,
           \A t \in Servers \ {s} : Same(t) /\ Alike(t),
           \A c \in Clients : doc[c] \subseteq doc'[c],
           \/ rows' = rows /\ base' = base
           \/ lease[s] = epoch /\ status[s] # "absent"
    PROVE  \A t \in Servers \ {s} : Shares(t)'
  <1>. SUFFICES ASSUME NEW t \in Servers \ {s}
                PROVE  Shares(t)'
    OBVIOUS
  <1>1. lease[s] = epoch /\ status[s] # "absent" => lease[t] # epoch
    BY DEF SInv, Leased
  <1>. QED
    BY <1>1, SharesFrame

\* Nobody's lease moves and nobody without one gets a sequencer.
LEMMA LeasedKeeps ==
    ASSUME SInv, epoch' = epoch, lease' = lease,
           \A t \in Servers : status'[t] # "absent" => lease[t] # 0
    PROVE  Leased'
  BY DEF SInv, Leased

\* What remains to show of a step of server s.
LEMMA Shared ==
    ASSUME SInv, RInv', Leased', StoredCuts', NEW s \in Servers, Shares(s)',
           \A t \in Servers \ {s} : Shares(t)'
    PROVE  SInv'
  BY DEF SInv

-----------------------------------------------------------------------------
(* The actions, one group at a time *)

\* A sequencer that left memory.
LEMMA ForgottenShares ==
    ASSUME SInv, NEW s \in Servers, Forget(s), joining'[s] = NoJoin,
           Closed(flight'[s].vec), snap'[s] = NoSnap
    PROVE  Shares(s)'
  <1>1. /\ status'[s] = "absent" /\ logVec'[s] = {} /\ headVec'[s] = {} /\ subs'[s] = {}
        /\ cache'[s] = Cold
    BY DEF Forget, SInv, RInv, IInv, TypeOK
  <1>2. Present(s)'
    BY <1>1 DEF Present, NoJoin, NoSnap
  <1>3. Cuts(s)'
    BY <1>1 DEF Cuts, NoSnap, Closed
  <1>4. Knows(s)' /\ Warm(s)'
    BY <1>1 DEF Knows, Warm, Writer
  <1>5. Synced(s)' /\ Joins(s)'
    BY <1>1 DEF Synced, Joins, NoJoin
  <1>. QED
    BY <1>2, <1>3, <1>4, <1>5 DEF Shares

\* Claims, lost locks, crashes, shutdowns, admissions and retirements.
LEMMA OwnershipShares ==
    ASSUME SInv, RInv', ~CompactionOutlivesFence, NEW s \in Servers,
           \/ Claim(s) \/ LoseLock(s) \/ Crash(s) \/ Stop(s)
           \/ Admit(s) \/ RetireIdle(s) \/ RetireFenced(s)
    PROVE  SInv'
  <1>. USE DEF store, inner, tasks, world
  <1>1. TypeOK /\ Leased /\ StoredCuts /\ Shares(s)
    BY DEF SInv, RInv, IInv
  <1>2. UNCHANGED <<rows, base, doc>>
    BY DEF Claim, LoseLock, Crash, Stop, Exit, Admit, RetireIdle, RetireFenced
  <1>3. StoredCuts' /\ \A c \in Clients : doc[c] \subseteq doc'[c]
    BY <1>1, <1>2 DEF StoredCuts
  <1>4. CASE Claim(s)
    <2>1. lease[s] = 0 /\ epoch' = epoch + 1 /\ lease' = [lease EXCEPT ![s] = epoch + 1]
          /\ UNCHANGED <<inner, tasks>>
      BY <1>4 DEF Claim
    <2>2. epoch \in Nat /\ lease \in [Servers -> Nat] /\ \A t \in Servers : lease[t] <= epoch
      BY <1>1 DEF TypeOK, Leased
    <2>3. lease'[s] = epoch + 1 /\ \A t \in Servers \ {s} : lease'[t] = lease[t] /\ lease[t] # epoch + 1
      BY <2>1, <2>2
    <2>4. Leased'
      BY <1>1, <2>1, <2>2, <2>3 DEF Leased
    <2>5. \A t \in Servers \ {s} : Shares(t)'
      <3>1. \A t \in Servers \ {s} : Same(t) /\ Alike(t)
        BY <2>1, <2>3 DEF Same, Alike
      <3>. QED
        BY <1>3, <2>1, <2>3, <3>1, SharesFrame
    <2>6. status[s] = "absent"
      BY <1>1, <2>1 DEF Leased
    <2>7. subs[s] = {} /\ joining[s].pc = "idle"
      BY <1>1, <2>6 DEF Shares, Present
    <2>8. Shares(s)'
      BY <1>1, <2>1, <2>6, <2>7 DEF Shares, Present, Cuts, Knows, Warm, Writer, Synced, Joins
    <2>. QED
      BY <1>3, <2>4, <2>5, <2>8, Shared
  <1>5. CASE LoseLock(s)
    <2>1. UNCHANGED <<epoch, lease, inner, tasks>>
      BY <1>5 DEF LoseLock
    <2>2. \A t \in Servers : Same(t) /\ Alike(t)
      BY <2>1 DEF Same, Alike
    <2>3. Leased'
      BY <1>1, <2>1 DEF Leased
    <2>4. \A t \in Servers : Shares(t)'
      BY <1>2, <1>3, <2>1, <2>2, SharesFrame
    <2>. QED
      BY <1>3, <2>3, <2>4 DEF SInv
  <1>6. CASE Crash(s) \/ Stop(s)
    <2>1. Exit(s) /\ Forget(s)
      BY <1>6 DEF Crash, Stop, Exit
    <2>2. /\ epoch' = epoch /\ lease'[s] = 0 /\ status'[s] = "absent"
          /\ joining'[s] = NoJoin /\ flight'[s] = NoFlight /\ snap'[s] = NoSnap
          /\ \A t \in Servers \ {s} : Same(t) /\ Alike(t)
      BY <1>1, <2>1 DEF Exit, Forget, Same, Alike, TypeOK
    <2>3. Leased'
      <3>1. epoch \in Nat /\ \A t \in Servers \ {s} : lease'[t] = lease[t] /\ status'[t] = status[t]
        BY <1>1, <2>2 DEF TypeOK, Same, Alike
      <3>2. \A t \in Servers : lease'[t] <= epoch /\ (status'[t] # "absent" => lease'[t] # 0)
        BY <1>1, <2>2, <3>1 DEF Leased
      <3>3. \A t, u \in Servers : lease'[t] = lease'[u] /\ lease'[t] # 0 => t = u
        BY <1>1, <2>2, <3>1 DEF Leased
      <3>. QED
        BY <2>2, <3>2, <3>3 DEF Leased
    <2>4. Closed(flight'[s].vec)
      BY <2>2 DEF NoFlight, Closed
    <2>5. Shares(s)'
      BY <2>1, <2>2, <2>4, ForgottenShares
    <2>6. \A t \in Servers \ {s} : Shares(t)'
      BY <1>2, <1>3, <2>2, OthersShare
    <2>. QED
      BY <1>3, <2>3, <2>5, <2>6, Shared
  <1>7. CASE RetireIdle(s) \/ RetireFenced(s)
    <2>1. Forget(s) /\ GateFree(s) /\ UNCHANGED <<epoch, lease, flight, joining>>
      BY <1>7 DEF RetireIdle, RetireFenced
    <2>2. \A t \in Servers \ {s} : Same(t) /\ Alike(t)
      BY <1>1, <1>7, <2>1 DEF RetireIdle, RetireFenced, Forget, Same, Alike, TypeOK
    <2>3. snap'[s] = NoSnap
      BY <1>1, <1>7 DEF RetireIdle, RetireFenced, Shares, Present, TypeOK
    <2>4. joining'[s] = NoJoin
      BY <1>1, <2>1 DEF GateFree, Shares, Present
    <2>5. Closed(flight'[s].vec)
      BY <1>1, <2>1 DEF Shares, Cuts
    <2>6. Shares(s)'
      BY <2>1, <2>3, <2>4, <2>5, ForgottenShares
    <2>7. \A t \in Servers \ {s} : Shares(t)'
      BY <1>2, <1>3, <2>1, <2>2, OthersShare
    <2>8. \A t \in Servers : status'[t] # "absent" => lease[t] # 0
      BY <1>1, <2>1, <2>2 DEF Forget, Leased, Same, TypeOK
    <2>9. Leased'
      BY <2>1, <2>8, LeasedKeeps
    <2>. QED
      BY <1>3, <2>6, <2>7, <2>9, Shared
  <1>8. CASE Admit(s)
    <2>1. /\ status[s] = "absent" /\ lease[s] # 0 /\ status'[s] = "live"
          /\ logVec'[s] = LogVector /\ headVec'[s] = LogVector
          /\ hasBase'[s] = (base.through # 0) /\ baseVec'[s] = base.vec
          /\ UNCHANGED <<epoch, lease, buffer, cache, subs, flight, joining, snap>>
          /\ \A t \in Servers \ {s} : Same(t) /\ Alike(t)
      BY <1>1, <1>8 DEF Admit, Same, Alike, TypeOK
    <2>2. Closed(LogVector)
      BY <1>1, LogVectorClosed DEF SInv, RInv, IInv
    <2>3. subs[s] = {} /\ joining[s].pc = "idle"
      BY <1>1, <2>1 DEF Shares, Present
    <2>4. ~cache[s].warm
      BY <1>1, <2>1 DEF Shares, Present, Cold
    <2>5. Shares(s)'
      <3>1. Present(s)' /\ Cuts(s)'
        BY <1>1, <2>1, <2>2, <2>3 DEF Shares, Present, Cuts
      <3>2. Knows(s)'
        BY <1>1, <1>2, <2>1 DEF Knows, StoredCuts
      <3>3. Warm(s)'
        BY <2>1, <2>4 DEF Warm
      <3>4. Synced(s)' /\ Joins(s)'
        BY <2>1, <2>3 DEF Synced, Joins
      <3>. QED
        BY <3>1, <3>2, <3>3, <3>4 DEF Shares
    <2>6. \A t \in Servers \ {s} : Shares(t)'
      BY <1>2, <1>3, <2>1, OthersShare
    <2>7. \A t \in Servers : status'[t] # "absent" => lease[t] # 0
      BY <1>1, <2>1 DEF Leased, Same
    <2>8. Leased'
      BY <2>1, <2>7, LeasedKeeps
    <2>. QED
      BY <1>3, <2>5, <2>6, <2>8, Shared
  <1>. QED
    BY <1>4, <1>5, <1>6, <1>7, <1>8

\* A flush leaves the head, the documents and the base alone, and runs with no
\* join in progress.
LEMMA FlushShares ==
    ASSUME SInv, RInv', NEW s \in Servers,
           \/ FlushBegin(s) \/ FlushCommit(s) \/ FlushError(s) \/ ResolveWritten(s)
           \/ ResolveFenced(s) \/ ResolveRetry(s) \/ FlushRetire(s)
    PROVE  SInv'
  <1>. USE DEF store, inner, tasks, world
  <1>1. TypeOK /\ Leased /\ StoredCuts /\ Shares(s) /\ Local(s)
    BY DEF SInv, RInv, IInv
  <1>2. UNCHANGED <<epoch, base, lease, headVec, cache, hasBase, baseVec, joining, snap, doc>>
    BY DEF FlushBegin, FlushCommit, FlushError, ResolveWritten, ResolveFenced, ResolveRetry,
           FlushRetire, Fence
  <1>3. status[s] = "live" /\ joining[s].pc = "idle"
    <2>1. CASE FlushBegin(s)
      BY <2>1 DEF FlushBegin, GateFree
    <2>2. CASE ~FlushBegin(s)
      <3>1. flight[s].pc # "idle"
        BY <2>2 DEF FlushCommit, FlushError, ResolveWritten, ResolveFenced, ResolveRetry, FlushRetire
      <3>. QED
        BY <1>1, <3>1 DEF Shares, Present, Local, InFlight, TypeOK, Joining
    <2>. QED
      BY <2>1, <2>2
  <1>4. \/ status'[s] = status[s] /\ subs'[s] = subs[s]
        \/ status'[s] = "fenced" /\ subs'[s] = {}
    BY <1>1 DEF FlushBegin, FlushCommit, FlushError, ResolveWritten, ResolveFenced, ResolveRetry,
                FlushRetire, Fence, TypeOK
  <1>5. \A t \in Servers \ {s} : Same(t) /\ Alike(t)
    <2>1. \A t \in Servers \ {s} : flight'[t] = flight[t]
      BY <1>1 DEF FlushBegin, FlushCommit, FlushError, ResolveWritten, ResolveFenced, ResolveRetry,
                  FlushRetire, TypeOK
    <2>2. \A t \in Servers \ {s} : /\ status'[t] = status[t] /\ subs'[t] = subs[t]
                                   /\ next'[t] = next[t] /\ logVec'[t] = logVec[t]
                                   /\ buffer'[t] = buffer[t]
      BY <1>1 DEF FlushBegin, FlushCommit, FlushError, ResolveWritten, ResolveFenced, ResolveRetry,
                  FlushRetire, Fence, TypeOK
    <2>. QED
      BY <1>2, <2>1, <2>2 DEF Same, Alike
  <1>6. Closed(flight[s].vec) /\ Closed(logVec[s]) /\ Closed(VectorThrough(s)) /\ Closed({})
    BY <1>1, ThroughClosed DEF Shares, Cuts, Closed
  <1>7. Closed(flight'[s].vec)
    <2>1. CASE FlushBegin(s)
      BY <1>1, <1>6, <2>1 DEF FlushBegin, TypeOK
    <2>2. CASE FlushCommit(s) \/ FlushError(s) \/ ResolveWritten(s)
      <3>1. flight'[s].vec = flight[s].vec
        BY <1>1, <2>2 DEF FlushCommit, FlushError, ResolveWritten, TypeOK, Flight
      <3>. QED
        BY <1>6, <3>1
    <2>3. CASE ResolveFenced(s) \/ ResolveRetry(s) \/ FlushRetire(s)
      <3>1. flight'[s] = NoFlight
        BY <1>1, <2>3 DEF ResolveFenced, ResolveRetry, FlushRetire, TypeOK
      <3>. QED
        BY <1>6, <3>1 DEF NoFlight
    <2>. QED
      BY <2>1, <2>2, <2>3
  <1>8. Closed(logVec'[s])
    <2>1. logVec'[s] \in {logVec[s], flight[s].vec}
      BY <1>1 DEF FlushBegin, FlushCommit, FlushError, ResolveWritten, ResolveFenced, ResolveRetry,
                  FlushRetire, TypeOK
    <2>. QED
      BY <1>6, <2>1
  <1>9. /\ StoredCuts'
        /\ rows' = rows \/ (lease[s] = epoch /\ status[s] # "absent")
    <2>1. CASE FlushCommit(s)
      <3> DEFINE new == [seq |-> sequence + 1, ops |-> flight[s].ops, vec |-> flight[s].vec]
      <3>1. lease[s] = epoch /\ rows' = rows \cup {new} /\ sequence \in Nat
        BY <1>1, <2>1 DEF FlushCommit, CanWrite, InsertRow, TypeOK
      <3>2. Closed(new.vec) /\ new.seq # 0
        BY <1>6, <3>1
      <3>. HIDE DEF new
      <3>. QED
        BY <1>1, <1>2, <1>3, <3>1, <3>2 DEF StoredCuts
    <2>2. CASE ~FlushCommit(s)
      <3>1. rows' = rows
        BY <2>2 DEF FlushBegin, FlushError, ResolveWritten, ResolveFenced, ResolveRetry, FlushRetire
      <3>. QED
        BY <1>1, <1>2, <3>1 DEF StoredCuts
    <2>. QED
      BY <2>1, <2>2
  <1>10. Shares(s)'
    <2>1. Present(s)' /\ Cuts(s)'
      BY <1>1, <1>2, <1>3, <1>4, <1>7, <1>8 DEF Shares, Present, Cuts
    <2>2. Knows(s)' /\ Warm(s)'
      BY <1>1, <1>2, <1>3 DEF Shares, Knows, Warm, Writer
    <2>3. Synced(s)' /\ Joins(s)'
      BY <1>1, <1>2, <1>3, <1>4 DEF Shares, Synced, Joins
    <2>. QED
      BY <2>1, <2>2, <2>3 DEF Shares
  <1>11. Leased'
    <2>1. \A t \in Servers : status'[t] # "absent" => lease[t] # 0
      BY <1>1, <1>3, <1>5 DEF Leased, Same
    <2>. QED
      BY <1>2, <2>1, LeasedKeeps
  <1>12. \A t \in Servers \ {s} : Shares(t)'
    BY <1>2, <1>5, <1>9, OthersShare
  <1>. QED
    BY <1>9, <1>10, <1>11, <1>12, Shared

\* A command: its row goes to storage, its source to the head, to the decoded
\* document and to every subscriber; or the reply is lost and only storage moves.
LEMMA CommandShares ==
    ASSUME SInv, RInv', NEW s \in Servers, NEW r \in Commands, NEW source \in Prepared(r),
           Command(s, r, source) \/ CommandLost(s, r, source)
    PROVE  SInv'
  <1>. USE DEF store, inner, tasks, world
  <1>1. TypeOK /\ Leased /\ StoredCuts /\ Shares(s) /\ Local(s)
    BY DEF SInv, RInv, IInv
  <1>2. CommandCommit(s, r, source)
    BY DEF Command, CommandLost
  <1>3. /\ Writer(s) /\ status[s] # "absent" /\ joining[s].pc = "idle" /\ r \notin recorded
        /\ UNCHANGED <<epoch, base, lease, status, hasBase, baseVec, subs, tasks>>
    BY <1>2 DEF CommandCommit, GateFree, Writer
  <1>4. End(source) = source /\ source \in SUBSET Ops /\ Closed(End(source))
    BY <1>3, SourceEnd, PreparedTyped, EndClosed DEF SInv
  <1>5. \A c \in Clients : doc[c] \subseteq doc'[c]
    <2>1. doc' = Relayed(s, NoOne, source) \/ doc' = doc
      BY DEF Command, CommandLost
    <2>. QED
      BY <2>1 DEF Relayed
  <1>6. \A t \in Servers \ {s} : Same(t) /\ Alike(t)
    <2>1. \A t \in Servers \ {s} : cache'[t] = cache[t]
      BY <1>1 DEF Command, CommandLost, TypeOK
    <2>2. \A t \in Servers \ {s} : /\ next'[t] = next[t] /\ logVec'[t] = logVec[t]
                                   /\ headVec'[t] = headVec[t] /\ buffer'[t] = buffer[t]
      BY <1>1 DEF Command, CommandLost, TypeOK
    <2>. QED
      BY <1>3, <2>1, <2>2 DEF Same, Alike
  <1>7. StoredCuts'
    <2> DEFINE new == [seq |-> sequence + 1, ops |-> Buffered(s) \cup source,
                       vec |-> VectorThrough(s) \cup End(source)]
    <2>1. sequence \in Nat /\ (rows' = rows \/ rows' = rows \cup {new})
      BY <1>1, <1>2 DEF CommandCommit, InsertRow, TypeOK
    <2>2. Closed(new.vec) /\ new.seq # 0
      <3>1. Closed(VectorThrough(s))
        BY <1>1, ThroughClosed DEF Shares, Cuts
      <3>. QED
        BY <1>4, <2>1, <3>1, ClosedUnion
    <2>. HIDE DEF new
    <2>. QED
      BY <1>1, <1>3, <2>1, <2>2 DEF StoredCuts
  <1>8. headVec[s] \subseteq Materialized(s)
    BY <1>3, BuiltAtHead
  <1>9. Shares(s)'
    <2>1. CASE Command(s, r, source)
      <3>1. /\ headVec'[s] = headVec[s] \cup End(source)
            /\ logVec'[s] = VectorThrough(s) \cup End(source)
        BY <1>1, <2>1 DEF Command, TypeOK
      <3>2. cache'[s] = [warm |-> TRUE, ops |-> Materialized(s) \cup source]
        BY <1>1, <2>1 DEF Command, TypeOK
      <3>3. Present(s)'
        BY <1>1, <1>3 DEF Shares, Present
      <3>4. Cuts(s)'
        <4>1. Closed(VectorThrough(s)) /\ Closed(headVec[s])
          BY <1>1, ThroughClosed DEF Shares, Cuts
        <4>2. Closed(logVec'[s]) /\ Closed(headVec'[s])
          BY <1>4, <3>1, <4>1, ClosedUnion
        <4>. QED
          BY <1>1, <1>3, <4>2 DEF Shares, Cuts
      <3>5. Knows(s)'
        BY <1>1, <1>3 DEF Shares, Knows, Writer
      <3>6. Warm(s)'
        BY <1>4, <1>8, <3>1, <3>2 DEF Warm
      <3>7. Synced(s)'
        <4>. SUFFICES ASSUME NEW c \in subs[s]
                      PROVE  headVec'[s] \subseteq doc'[c]
          BY <1>3 DEF Synced
        <4>1. c \in Clients /\ c # NoOne
          BY <1>1, SequencerAssumption DEF TypeOK
        <4>2. headVec[s] \subseteq doc[c]
          <5>1. joining[s].client # c
            BY <1>1, <1>3, <4>1 DEF Shares, Present, NoJoin
          <5>. QED
            BY <1>1, <1>3, <5>1 DEF Shares, Synced, Writer
        <4>3. doc'[c] = doc[c] \cup source
          BY <2>1, <4>1 DEF Command, Relayed
        <4>. QED
          BY <1>4, <3>1, <4>2, <4>3
      <3>8. Joins(s)'
        BY <1>3 DEF Joins
      <3>. QED
        BY <3>3, <3>4, <3>5, <3>6, <3>7, <3>8 DEF Shares
    <2>2. CASE CommandLost(s, r, source)
      <3>1. UNCHANGED <<logVec, headVec, doc>>
        BY <2>2 DEF CommandLost
      <3>2. cache'[s] = [warm |-> TRUE, ops |-> Materialized(s)]
        BY <1>1, <2>2 DEF CommandLost, TypeOK
      <3>3. Present(s)' /\ Cuts(s)'
        BY <1>1, <1>3, <3>1 DEF Shares, Present, Cuts
      <3>4. Knows(s)'
        BY <1>1, <1>3 DEF Shares, Knows, Writer
      <3>5. Warm(s)'
        BY <1>8, <3>1, <3>2 DEF Warm
      <3>6. Synced(s)' /\ Joins(s)'
        BY <1>1, <1>3, <3>1 DEF Shares, Synced, Joins
      <3>. QED
        BY <3>3, <3>4, <3>5, <3>6 DEF Shares
    <2>. QED
      BY <2>1, <2>2
  <1>10. Leased'
    BY <1>1, <1>3 DEF Leased
  <1>11. \A t \in Servers \ {s} : Shares(t)'
    BY <1>3, <1>5, <1>6, OthersShare DEF Writer
  <1>. QED
    BY <1>7, <1>9, <1>10, <1>11, Shared

\* The decoded document is built at the head and may be dropped at any time.
LEMMA CacheShares ==
    ASSUME SInv, RInv', NEW s \in Servers, BuildCache(s) \/ EvictCache(s) \/ Snapshot(s)
    PROVE  SInv'
  <1>. USE DEF store, inner, tasks, world
  <1>1. TypeOK /\ Leased /\ StoredCuts /\ Shares(s) /\ Local(s)
    BY DEF SInv, RInv, IInv
  <1>2. UNCHANGED <<epoch, rows, base, lease, status, next, logVec, headVec, buffer, hasBase,
                    baseVec, subs, flight, joining, doc>>
    BY DEF BuildCache, EvictCache, Snapshot
  <1>3. \A t \in Servers \ {s} : cache'[t] = cache[t] /\ snap'[t] = snap[t]
    BY <1>1 DEF BuildCache, EvictCache, Snapshot, TypeOK
  <1>4. \/ cache'[s] = Cold
        \/ /\ status[s] = "live"
           /\ cache'[s] \in {[warm |-> TRUE, ops |-> Built(s)], [warm |-> TRUE, ops |-> Materialized(s)]}
    BY <1>1 DEF BuildCache, EvictCache, Snapshot, TypeOK
  <1>5. /\ Closed(snap'[s].vec) /\ ~snap'[s].old
        /\ snap'[s] # NoSnap => snap'[s].through # 0
    <2>1. CASE Snapshot(s)
      <3>1. PICK mode \in Modes :
              snap' = [snap EXCEPT ![s] =
                        [through |-> next[s] - 1, vec |-> logVec[s],
                         ops |-> Visible(Materialized(s)), mode |-> mode, old |-> FALSE]]
        BY <2>1 DEF Snapshot
      <3>2. snap'[s].through = next[s] - 1 /\ snap'[s].vec = logVec[s] /\ snap'[s].old = FALSE
        BY <1>1, <3>1 DEF TypeOK
      <3>3. next[s] > 1 /\ next[s] \in Nat
        BY <1>1, <2>1 DEF Snapshot, TypeOK
      <3>. QED
        BY <1>1, <3>2, <3>3 DEF Shares, Cuts
    <2>2. CASE BuildCache(s) \/ EvictCache(s)
      <3>1. snap' = snap
        BY <2>2 DEF BuildCache, EvictCache
      <3>. QED
        BY <1>1, <3>1 DEF Shares, Present, Cuts
    <2>. QED
      BY <2>1, <2>2
  <1>6. Shares(s)'
    <2>1. Present(s)' /\ Cuts(s)'
      BY <1>1, <1>2, <1>4, <1>5 DEF Shares, Present, Cuts
    <2>2. Knows(s)'
      BY <1>1, <1>2 DEF Shares, Knows, Writer
    <2>3. Warm(s)'
      <3>1. Writer(s) => headVec[s] \subseteq Built(s) /\ headVec[s] \subseteq Materialized(s)
        BY BuiltAtHead
      <3>. QED
        BY <1>2, <1>4, <3>1 DEF Warm, Writer, Cold
    <2>4. Synced(s)'
      BY <1>1, <1>2 DEF Shares, Synced
    <2>5. Joins(s)'
      <3>1. Buffered(s)' = Buffered(s)
        BY <1>2 DEF Buffered
      <3>. QED
        BY <1>1, <1>2, <3>1 DEF Shares, Joins
    <2>. QED
      BY <2>1, <2>2, <2>3, <2>4, <2>5 DEF Shares
  <1>7. Leased' /\ StoredCuts'
    BY <1>1, <1>2 DEF Leased, StoredCuts
  <1>8. \A t \in Servers \ {s} : Shares(t)'
    <2>1. \A t \in Servers \ {s} : Same(t) /\ Alike(t)
      BY <1>2, <1>3 DEF Same, Alike
    <2>. QED
      BY <1>2, <2>1, OthersShare
  <1>. QED
    BY <1>6, <1>7, <1>8, Shared

\* A join registers its browser and copies the buffer in one step; its reply
\* then brings the browser to the head.
LEMMA JoinShares ==
    ASSUME SInv, RInv', NEW s \in Servers, JoinRegister(s) \/ JoinReply(s)
    PROVE  SInv'
  <1>. USE DEF store, inner, tasks, world
  <1>1. TypeOK /\ Leased /\ StoredCuts /\ Shares(s) /\ Local(s)
    BY DEF SInv, RInv, IInv
  <1>2. UNCHANGED <<epoch, rows, base, lease, status, next, logVec, headVec, buffer, cache,
                    hasBase, baseVec, flight, snap>>
    BY DEF JoinRegister, JoinReply
  <1>3. \A t \in Servers \ {s} : subs'[t] = subs[t] /\ joining'[t] = joining[t]
    BY <1>1 DEF JoinRegister, JoinReply, TypeOK
  <1>4. \A c \in Clients : doc[c] \subseteq doc'[c]
    <2>1. doc' = doc \/ doc' = [doc EXCEPT ![joining[s].client] = @ \cup JoinedOps(s)]
      BY DEF JoinRegister, JoinReply
    <2>2. doc \in [Clients -> SUBSET Ops]
      BY <1>1 DEF TypeOK
    <2>. QED
      BY <2>1, <2>2
  <1>5. Buffered(s)' = Buffered(s)
    BY <1>2 DEF Buffered
  <1>6. joining[s].pc # "idle" /\ status[s] = "live" /\ joining[s].client \in Clients
    BY <1>1 DEF JoinRegister, JoinReply, Shares, Present, SInv, RInv, IInv, Joined
  <1>7. Cuts(s)' /\ Knows(s)' /\ Warm(s)'
    BY <1>1, <1>2 DEF Shares, Cuts, Knows, Warm, Writer
  <1>8. Present(s)' /\ Synced(s)' /\ Joins(s)'
    <2>1. CASE JoinRegister(s)
      <3>1. /\ subs'[s] = subs[s] \cup {joining[s].client} /\ doc' = doc
            /\ joining[s].pc = "read"
            /\ joining'[s] = [joining[s] EXCEPT !.pc = "registered", !.ops = Buffered(s),
                                !.vec = headVec[s], !.base = ~BaseCovered(s, joining[s].cv)]
        BY <1>1, <2>1 DEF JoinRegister, TypeOK
      <3>2. /\ joining'[s].pc = "registered" /\ joining'[s].ops = Buffered(s)
            /\ joining'[s].client = joining[s].client /\ joining'[s].cv = joining[s].cv
            /\ joining'[s].first = joining[s].first /\ joining'[s].uncovered = joining[s].uncovered
            /\ joining'[s].base = ~BaseCovered(s, joining[s].cv)
        BY <1>1, <3>1 DEF TypeOK, Joining
      <3>3. Present(s)'
        BY <1>1, <1>2, <1>6, <3>1, <3>2 DEF Shares, Present
      <3>4. Synced(s)'
        BY <1>1, <1>2, <3>1, <3>2 DEF Shares, Synced
      <3>5. Joins(s)'
        <4>1. lease[s] = epoch /\ BaseCovered(s, joining[s].cv) => base.ops \subseteq joining[s].cv
          <5>1. base.ops = base.vec
            BY DEF SInv, RInv, IInv, Labelled
          <5>2. lease[s] = epoch => (base.ops # {} => hasBase[s]) /\ baseVec[s] = base.vec
            BY <1>1, <1>6 DEF Shares, Knows, Writer
          <5>. QED
            BY <5>1, <5>2 DEF BaseCovered, Covers
        <4>2. lease[s] = epoch /\ joining'[s].base = FALSE => base.ops \subseteq joining[s].cv
          BY <3>2, <4>1
        <4>. QED
          BY <1>1, <1>2, <1>5, <3>1, <3>2, <4>2 DEF Shares, Joins
      <3>. QED
        BY <3>3, <3>4, <3>5
    <2>2. CASE JoinReply(s)
      <3>1. /\ joining[s].pc = "registered" /\ joining'[s] = NoJoin /\ subs'[s] = subs[s]
            /\ doc'[joining[s].client] = doc[joining[s].client] \cup JoinedOps(s)
        BY <1>1, <1>6, <2>2 DEF JoinReply, TypeOK
      <3>2. Present(s)'
        BY <1>1, <1>2, <3>1 DEF Shares, Present, NoJoin
      <3>3. Synced(s)'
        <4>. SUFFICES ASSUME NEW c \in subs[s], lease[s] = epoch
                      PROVE  headVec[s] \subseteq doc'[c]
          BY <1>2, <3>1 DEF Synced
        <4>1. CASE c = joining[s].client
          BY <3>1, <4>1, ReplyAtHead
        <4>2. CASE c # joining[s].client
          <5>1. headVec[s] \subseteq doc[c] /\ c \in Clients
            BY <1>1, <4>2 DEF Shares, Synced, TypeOK
          <5>. QED
            BY <1>4, <5>1
        <4>. QED
          BY <4>1, <4>2
      <3>4. Joins(s)'
        BY <3>1 DEF Joins, NoJoin
      <3>. QED
        BY <3>2, <3>3, <3>4
    <2>. QED
      BY <2>1, <2>2
  <1>9. Leased' /\ StoredCuts'
    BY <1>1, <1>2 DEF Leased, StoredCuts
  <1>10. \A t \in Servers \ {s} : Shares(t)'
    <2>1. \A t \in Servers \ {s} : Same(t) /\ Alike(t)
      BY <1>2, <1>3 DEF Same, Alike
    <2>. QED
      BY <1>2, <1>4, <2>1, OthersShare
  <1>11. Shares(s)'
    BY <1>7, <1>8 DEF Shares
  <1>. QED
    BY <1>9, <1>10, <1>11, Shared

\* A compaction ends with no join or flush in progress: the sequencer's copy of
\* the base's vector is the base's again, or the sequencer is fenced.
LEMMA CompactionShares ==
    ASSUME SInv, RInv', NEW s \in Servers,
           ActivateCommit(s) \/ ActivateLost(s) \/ ActivateNoop(s) \/ ActivateError(s)
    PROVE  SInv'
  <1>. USE DEF store
  <1>1. TypeOK /\ Leased /\ StoredCuts /\ Shares(s) /\ Local(s)
    BY DEF SInv, RInv, IInv
  <1>2. MayActivate(s) /\ Activated(s) /\ ~snap[s].old
    BY <1>1 DEF ActivateCommit, ActivateLost, ActivateNoop, ActivateError, Shares, Present
  <1>3. /\ snap[s] # NoSnap /\ status[s] # "absent" /\ joining[s].pc = "idle"
        /\ snap[s].through # 0 /\ Closed(snap[s].vec)
    BY <1>1, <1>2 DEF MayActivate, GateFree, Local, Resident, Shares, Present, Cuts
  <1>4. /\ UNCHANGED <<epoch, lease, next, logVec, headVec, buffer, flight, joining, doc>>
        /\ snap'[s] = NoSnap /\ \A t \in Servers \ {s} : snap'[t] = snap[t]
    BY <1>1, <1>2 DEF Activated, TypeOK, ActivateCommit, ActivateLost, ActivateNoop, ActivateError,
                      ActivateBase
  <1>5. ActivateBase(s) \/ UNCHANGED <<rows, base>>
    BY DEF ActivateCommit, ActivateLost, ActivateNoop, ActivateError
  <1>6. /\ status' = status \/ status' = [status EXCEPT ![s] = "fenced"]
        /\ subs' = subs \/ subs' = [subs EXCEPT ![s] = {}]
        /\ status' = status \/ subs' = [subs EXCEPT ![s] = {}]
    BY DEF ActivateCommit, ActivateLost, ActivateNoop, ActivateError, ResetAfterTrim, FenceGate, Fence
  <1>7. cache' = cache \/ cache' = [cache EXCEPT ![s] = Cold]
    BY DEF ActivateCommit, ActivateLost, ActivateNoop, ActivateError, ResetAfterTrim
  <1>8. /\ UNCHANGED <<hasBase, baseVec>>
           \/ \E v : hasBase' = [hasBase EXCEPT ![s] = TRUE] /\ baseVec' = [baseVec EXCEPT ![s] = v]
        /\ \/ status' = [status EXCEPT ![s] = "fenced"]
           \/ UNCHANGED <<hasBase, baseVec, base>>
           \/ /\ hasBase' = [hasBase EXCEPT ![s] = TRUE]
              /\ baseVec' = [baseVec EXCEPT ![s] = base'.vec]
    <2>1. CASE ActivateCommit(s)
      BY <1>2, <2>1 DEF ActivateCommit, ActivateBase, NoteCompacted
    <2>2. CASE ActivateLost(s)
      BY <1>2, <2>2 DEF ActivateLost, ActivateBase, NoteCompacted, FenceGate, Fence
    <2>3. CASE ActivateNoop(s)
      BY <1>2, <2>3 DEF ActivateNoop, NoteCompacted, FenceGate, Fence
    <2>4. CASE ActivateError(s)
      BY <1>2, <2>4 DEF ActivateError, NoteCompacted, FenceGate, Fence
    <2>. QED
      BY <2>1, <2>2, <2>3, <2>4
  <1>9. /\ StoredCuts'
        /\ (rows' = rows /\ base' = base) \/ (lease[s] = epoch /\ status[s] # "absent")
    <2>1. CASE ActivateBase(s)
      <3>1. base'.vec = snap[s].vec /\ base'.through = snap[s].through /\ rows' \subseteq rows
            /\ lease[s] = epoch
        BY <2>1 DEF ActivateBase, MayWriteBase
      <3>. QED
        BY <1>1, <1>3, <3>1 DEF StoredCuts
    <2>2. CASE UNCHANGED <<rows, base>>
      BY <1>1, <2>2 DEF StoredCuts
    <2>. QED
      BY <1>5, <2>1, <2>2
  <1>10. Shares(s)'
    <2>1. /\ status'[s] \in {status[s], "fenced"} /\ subs'[s] \subseteq subs[s]
          /\ status'[s] = status[s] \/ subs'[s] = {}
      BY <1>1, <1>6 DEF TypeOK
    <2>2. cache'[s] = cache[s] \/ cache'[s] = Cold
      BY <1>1, <1>7 DEF TypeOK
    <2>3. Present(s)'
      BY <1>1, <1>3, <1>4, <2>1 DEF Shares, Present, NoSnap
    <2>4. Cuts(s)'
      BY <1>1, <1>4 DEF Shares, Cuts, NoSnap, Closed
    <2>5. Knows(s)'
      <3>1. CASE status' = [status EXCEPT ![s] = "fenced"]
        BY <1>1, <3>1 DEF Knows, Writer, TypeOK
      <3>2. CASE hasBase' = [hasBase EXCEPT ![s] = TRUE] /\ baseVec' = [baseVec EXCEPT ![s] = base'.vec]
        BY <1>1, <3>2 DEF Knows, TypeOK
      <3>3. CASE UNCHANGED <<hasBase, baseVec, base>>
        BY <1>1, <1>4, <2>1, <3>3 DEF Shares, Knows, Writer
      <3>. QED
        BY <1>8, <3>1, <3>2, <3>3
    <2>6. Warm(s)'
      BY <1>1, <1>4, <2>1, <2>2 DEF Shares, Warm, Writer, Cold
    <2>7. Synced(s)' /\ Joins(s)'
      BY <1>1, <1>3, <1>4, <2>1 DEF Shares, Synced, Joins
    <2>. QED
      BY <2>3, <2>4, <2>5, <2>6, <2>7 DEF Shares
  <1>11. \A t \in Servers \ {s} : Same(t) /\ Alike(t)
    <2>1. \A t \in Servers \ {s} : /\ status'[t] = status[t] /\ subs'[t] = subs[t]
                                   /\ cache'[t] = cache[t]
      BY <1>1, <1>6, <1>7 DEF TypeOK
    <2>2. \A t \in Servers \ {s} : hasBase'[t] = hasBase[t] /\ baseVec'[t] = baseVec[t]
      BY <1>1, <1>8 DEF TypeOK
    <2>. QED
      BY <1>4, <2>1, <2>2 DEF Same, Alike
  <1>12. Leased'
    <2>1. \A t \in Servers : status'[t] # "absent" => lease[t] # 0
      BY <1>1, <1>3, <1>11 DEF Leased, Same
    <2>. QED
      BY <1>4, <2>1, LeasedKeeps
  <1>13. \A t \in Servers \ {s} : Shares(t)'
    BY <1>4, <1>9, <1>11, OthersShare
  <1>. QED
    BY <1>9, <1>10, <1>12, <1>13, Shared

\* An accepted batch reaches the head, the decoded document and every
\* subscriber but its sender, who has it.
LEMMA AcceptShares ==
    ASSUME SInv, RInv', NEW s \in Servers, NEW c \in Clients,
           NEW batch \in Offers(s, c) \cup Resends(s, c), Accept(s, c, batch)
    PROVE  SInv'
  <1>. USE DEF store, inner, tasks, world
  <1>1. TypeOK /\ Leased /\ StoredCuts /\ Shares(s)
    BY DEF SInv, RInv, IInv
  <1>2. batch \subseteq doc[c] /\ batch \in SUBSET Ops /\ Closed(End(batch))
    BY <1>1, OffersHeld, EndClosed
  <1>3. UNCHANGED <<epoch, rows, base, lease, status, next, logVec, hasBase, baseVec, subs, tasks>>
    BY DEF Accept
  <1>4. /\ status[s] = "live" /\ c \in subs[s] /\ joining[s].client # c
        /\ headVec'[s] = headVec[s] \cup End(batch) /\ End(batch) \ batch \subseteq headVec[s]
        /\ buffer'[s] = Append(buffer[s], batch)
        /\ \A t \in Servers \ {s} : headVec'[t] = headVec[t] /\ buffer'[t] = buffer[t]
    BY <1>1 DEF Accept, NoGap, Covers, Start, TypeOK
  <1>5. /\ cache'[s].warm = cache[s].warm
        /\ cache[s].warm => cache'[s].ops = cache[s].ops \cup batch
        /\ \A t \in Servers \ {s} : cache'[t] = cache[t]
    BY <1>1 DEF Accept, TypeOK, Cache
  <1>6. /\ \A d \in Clients : doc[d] \subseteq doc'[d]
        /\ \A d \in subs[s] : batch \subseteq doc'[d]
    <2>1. doc' = Relayed(s, c, batch) /\ subs[s] \subseteq Clients
      BY <1>1 DEF Accept, TypeOK
    <2>. QED
      BY <1>2, <2>1 DEF Relayed
  <1>7. Buffered(s)' = Buffered(s) \cup batch
    <2>1. buffer[s] \in Seq(Batches) /\ Len(buffer[s]) \in Nat /\ batch \in Batches
      BY <1>1, <1>2, SequencerTyped DEF Batches
    <2>. QED
      BY <1>4, <2>1, PushedBuffer DEF Buffered
  <1>8. Shares(s)'
    <2>1. Present(s)'
      BY <1>1, <1>3, <1>4 DEF Shares, Present
    <2>2. Cuts(s)'
      BY <1>1, <1>2, <1>3, <1>4, ClosedUnion DEF Shares, Cuts
    <2>3. Knows(s)'
      BY <1>1, <1>3 DEF Shares, Knows, Writer
    <2>4. Warm(s)'
      BY <1>1, <1>3, <1>4, <1>5 DEF Shares, Warm, Writer
    <2>5. Synced(s)'
      <3>1. \A d \in subs[s] : d \in Clients
        BY <1>1 DEF TypeOK
      <3>. QED
        BY <1>1, <1>3, <1>4, <1>6, <3>1 DEF Shares, Synced
    <2>6. Joins(s)'
      <3>1. joining[s].pc # "idle" => joining[s].client \in Clients
        BY DEF SInv, RInv, IInv, Joined
      <3>2. joining[s].pc = "registered" => joining[s].client \in subs[s]
        BY <1>1 DEF Shares, Present
      <3>. QED
        BY <1>1, <1>3, <1>6, <1>7, <3>1, <3>2 DEF Shares, Joins
    <2>. QED
      BY <2>1, <2>2, <2>3, <2>4, <2>5, <2>6 DEF Shares
  <1>9. Leased' /\ StoredCuts'
    BY <1>1, <1>3 DEF Leased, StoredCuts
  <1>10. \A t \in Servers \ {s} : Shares(t)'
    <2>1. \A t \in Servers \ {s} : Same(t) /\ Alike(t)
      BY <1>3, <1>4, <1>5 DEF Same, Alike
    <2>. QED
      BY <1>3, <1>6, <2>1, OthersShare
  <1>. QED
    BY <1>8, <1>9, <1>10, Shared

\* Browsers: edits, lost sockets, joins begun, batches accepted.
LEMMA ClientShares ==
    ASSUME SInv, RInv', NEW c \in Clients, Client(c)
    PROVE  SInv'
  <1>. USE DEF store, inner, tasks, world
  <1>1. TypeOK /\ Leased /\ StoredCuts /\ \A t \in Servers : Shares(t)
    BY DEF SInv, RInv, IInv
  <1>2. CASE Edit(c)
    <2>1. UNCHANGED <<store, lease, inner, tasks>>
      BY <1>2 DEF Edit
    <2>2. \A d \in Clients : doc[d] \subseteq doc'[d]
      BY <1>1, <1>2 DEF Edit, TypeOK
    <2>3. \A t \in Servers : Same(t) /\ Alike(t)
      BY <2>1 DEF Same, Alike
    <2>4. \A t \in Servers : Shares(t)'
      BY <2>1, <2>2, <2>3, SharesFrame
    <2>5. Leased' /\ StoredCuts'
      BY <1>1, <2>1 DEF Leased, StoredCuts
    <2>. QED
      BY <2>4, <2>5 DEF SInv
  <1>3. CASE Disconnect(c)
    <2>1. UNCHANGED <<store, lease, status, next, logVec, headVec, buffer, cache, hasBase, baseVec,
                      flight, snap>>
      BY <1>3 DEF Disconnect
    <2>2. \A d \in Clients \ {c} : doc'[d] = doc[d]
      BY <1>1, <1>3 DEF Disconnect, TypeOK
    <2>3. ASSUME NEW t \in Servers
          PROVE  Shares(t)'
      <3>1. /\ subs'[t] = subs[t] \ {c} /\ subs[t] \subseteq Clients
            /\ joining'[t] = IF joining[t].client = c THEN NoJoin ELSE joining[t]
        BY <1>1, <1>3 DEF Disconnect, TypeOK
      <3>2. joining[t].pc # "idle" => joining[t].client \in Clients
        BY DEF SInv, RInv, IInv, Joined
      <3>3. Present(t)'
        <4>1. CASE joining[t].client = c
          <5>1. joining'[t].pc = "idle" /\ joining'[t] = NoJoin
            BY <3>1, <4>1 DEF NoJoin
          <5>. QED
            BY <1>1, <2>1, <3>1, <5>1 DEF Shares, Present
        <4>2. CASE joining[t].client # c
          BY <1>1, <2>1, <3>1, <4>2 DEF Shares, Present
        <4>. QED
          BY <4>1, <4>2
      <3>4. Cuts(t)' /\ Knows(t)' /\ Warm(t)'
        BY <1>1, <2>1 DEF Shares, Cuts, Knows, Warm, Writer
      <3>5. Synced(t)'
        BY <1>1, <2>1, <2>2, <3>1 DEF Shares, Synced
      <3>6. Joins(t)'
        <4>1. Buffered(t)' = Buffered(t)
          BY <2>1 DEF Buffered
        <4>. QED
          BY <1>1, <2>1, <2>2, <3>1, <3>2, <4>1 DEF Shares, Joins, NoJoin
      <3>. QED
        BY <3>3, <3>4, <3>5, <3>6 DEF Shares
    <2>4. Leased' /\ StoredCuts'
      BY <1>1, <2>1 DEF Leased, StoredCuts
    <2>. QED
      BY <2>3, <2>4 DEF SInv
  <1>4. ASSUME NEW s \in Servers, JoinRead(s, c)
        PROVE  SInv'
    <2>1. UNCHANGED <<store, lease, inner, flight, snap, doc>> /\ status[s] = "live"
          /\ GateFree(s) /\ c \notin subs[s]
      BY <1>4 DEF JoinRead, Connected
    <2>2. /\ \A t \in Servers \ {s} : joining'[t] = joining[t]
          /\ joining'[s].pc = "read" /\ joining'[s].client = c /\ joining'[s].cv = Visible(doc[c])
          /\ joining'[s].uncovered = LeastOrZero(RowSeqs(Uncovered(Visible(doc[c]))))
          /\ joining'[s].first = LeastOrZero(RowSeqs(rows))
      BY <1>1, <1>4 DEF JoinRead, TypeOK, NoJoin
    <2>3. joining[s] = NoJoin
      BY <1>1, <2>1 DEF GateFree, Shares, Present
    <2>4. Present(s)'
      BY <1>1, <2>1, <2>2 DEF Shares, Present, GateFree
    <2>5. Cuts(s)' /\ Knows(s)' /\ Warm(s)'
      BY <1>1, <2>1 DEF Shares, Cuts, Knows, Warm, Writer
    <2>6. Synced(s)'
      <3>1. \A d \in subs[s] : joining[s].client # d
        BY <1>1, <2>3, SequencerAssumption DEF TypeOK, NoJoin
      <3>. QED
        BY <1>1, <2>1, <3>1 DEF Shares, Synced
    <2>7. Joins(s)'
      <3>1. Visible(doc[c]) \subseteq doc[c]
        BY DEF Visible
      <3>. HIDE DEF Visible
      <3> DEFINE cv == Visible(doc[c])
      <3>2. \A row \in rows :
              /\ joining'[s].first # 0 /\ joining'[s].first <= row.seq
              /\ row.ops \subseteq cv \/ (joining'[s].uncovered # 0 /\ joining'[s].uncovered <= row.seq)
        BY <2>2, CoverageRead
      <3>. QED
        BY <2>1, <2>2, <3>1, <3>2 DEF Joins
    <2>8. \A t \in Servers \ {s} : Shares(t)'
      <3>1. \A t \in Servers \ {s} : Same(t) /\ Alike(t)
        BY <2>1, <2>2 DEF Same, Alike
      <3>. QED
        BY <2>1, <3>1, OthersShare
    <2>9. Leased' /\ StoredCuts'
      BY <1>1, <2>1 DEF Leased, StoredCuts
    <2>. QED
      BY <2>4, <2>5, <2>6, <2>7, <2>8, <2>9, Shared DEF Shares
  <1>5. ASSUME NEW s \in Servers, Ingest(s, c) \/ IngestResend(s, c)
        PROVE  SInv'
    <2>1. PICK batch \in Offers(s, c) \cup Resends(s, c) : Accept(s, c, batch)
      BY <1>5 DEF Ingest, IngestResend
    <2>. QED
      BY <2>1, AcceptShares
  <1>. QED
    BY <1>2, <1>3, <1>4, <1>5 DEF Client

-----------------------------------------------------------------------------
(* The theorems *)

\* At the start nothing is stored and nobody is connected.
LEMMA InitSInv == Init => SInv
  <1>. SUFFICES ASSUME Init
                PROVE  SInv
    OBVIOUS
  <1>1. Leased
    BY DEF Init, Leased
  <1>2. StoredCuts
    BY DEF Init, StoredCuts, NoBase, Closed
  <1>3. ASSUME NEW s \in Servers
        PROVE  Shares(s)
    <2>1. Present(s) /\ Cuts(s)
      BY DEF Init, Present, Cuts, NoJoin, NoFlight, NoSnap, Closed
    <2>2. Knows(s) /\ Warm(s) /\ Synced(s) /\ Joins(s)
      BY DEF Init, Knows, Warm, Writer, Synced, Joins, NoJoin
    <2>. QED
      BY <2>1, <2>2 DEF Shares
  <1>. QED
    BY <1>1, <1>2, <1>3, InitRInv DEF SInv

\* Every step keeps the invariant when no compaction outlives its sequencer.
LEMMA NextSInv ==
    ASSUME ~CompactionOutlivesFence
    PROVE  SInv /\ [Next]_vars => SInv'
  <1>. SUFFICES ASSUME SInv, [Next]_vars
                PROVE  SInv'
    OBVIOUS
  <1>1. RInv'
    BY NextRInv DEF SInv
  <1>2. CASE UNCHANGED vars
    <2>1. UNCHANGED <<store, lease, inner, tasks, world>>
      BY <1>2 DEF vars
    <2>2. \A t \in Servers : Same(t) /\ Alike(t)
      BY <2>1 DEF Same, Alike, inner, tasks
    <2>3. \A t \in Servers : Shares(t)'
      BY <2>1, <2>2, SharesFrame DEF store, world
    <2>4. Leased' /\ StoredCuts'
      BY <2>1 DEF SInv, Leased, StoredCuts, store, inner
    <2>. QED
      BY <1>1, <2>3, <2>4 DEF SInv
  <1>3. ASSUME NEW s \in Servers, Server(s)
        PROVE  SInv'
    BY <1>1, <1>3, OwnershipShares, FlushShares, CommandShares, CacheShares, JoinShares,
       CompactionShares DEF Server
  <1>4. ASSUME NEW c \in Clients, Client(c)
        PROVE  SInv'
    BY <1>1, <1>4, ClientShares
  <1>. QED
    BY <1>2, <1>3, <1>4 DEF Next

\* A browser whose join has been answered is never behind the writer's head, on
\* any number of servers and through every fault, provided the process-wide
\* compaction of a retired sequencer does not go on (run "outlives" shows what
\* happens when it does).
THEOREM BrowsersInSync ==
    ASSUME ~CompactionOutlivesFence
    PROVE  Spec => []InSync
  <1>1. SInv => InSync
    <2>. SUFFICES ASSUME SInv, NEW s \in Servers, NEW c \in subs[s],
                         joining[s].client # c, lease[s] = epoch
                  PROVE  Covers(Visible(doc[c]), headVec[s])
      BY DEF InSync
    <2>1. Closed(headVec[s]) /\ headVec[s] \subseteq doc[c]
      BY DEF SInv, Shares, Cuts, Synced
    <2>. QED
      BY <2>1, ClosedVisible DEF Covers
  <1>. QED
    BY <1>1, InitSInv, NextSInv, PTL DEF Spec

\* Nor is the document a live writer keeps decoded, under the same proviso.
THEOREM CachesAtHead ==
    ASSUME ~CompactionOutlivesFence
    PROVE  Spec => []CacheAtHead
  <1>1. SInv => CacheAtHead
    <2>. SUFFICES ASSUME SInv, NEW s \in Servers, status[s] = "live", lease[s] = epoch,
                         cache[s].warm
                  PROVE  Covers(Visible(cache[s].ops), headVec[s])
      BY DEF CacheAtHead
    <2>1. Closed(headVec[s]) /\ headVec[s] \subseteq cache[s].ops
      BY DEF SInv, Shares, Cuts, Warm, Writer
    <2>. QED
      BY <2>1, ClosedVisible DEF Covers
  <1>. QED
    BY <1>1, InitSInv, NextSInv, PTL DEF Spec

=============================================================================
