---------------------------- MODULE WorkerProofs ----------------------------
(***************************************************************************)
(* Proofs about the background worker and its schedule, for any number of  *)
(* documents, any channel, page, map and grace and any number of requests  *)
(* and failures: the worker's clock is never forgotten, a deletion it was  *)
(* asked for always has a reminder, and what can be restored is whole.     *)
(***************************************************************************)
EXTENDS Worker, FiniteSetTheorems, SequenceTheorems, TLAPS

-----------------------------------------------------------------------------
(* The inductive invariant *)

\* The furthest a deadline is put off.
Furthest == Max({Ceiling, Grace})

\* A streak is no longer than the failures there have been.
Entries(n) == [due : (-Ceiling - 1)..Furthest, failures : 0..n, armed : BOOLEAN]

Scheduled(D, n) ==
    /\ D = [entries |-> D.entries, refusal |-> D.refusal]
    /\ D.entries \in [DOMAIN D.entries -> Entries(n)]
    /\ DOMAIN D.entries \subseteq Tasks
    /\ IsFiniteSet(DOMAIN D.entries) /\ Cardinality(DOMAIN D.entries) <= Capacity
    /\ D.refusal \in {Never} \cup 0..Furthest

CatalogueTyped ==
    /\ status \in [Docs -> Statuses] /\ grace \in [Docs -> 0..Grace]
    /\ blobs \subseteq Docs /\ account \in {"active", "erasing", "erased"}

WorkerTyped ==
    /\ asks \subseteq Tasks /\ late \in BOOLEAN /\ quiet \subseteq Docs
    /\ chan \in Seq(Tasks) /\ Len(chan) <= Queue /\ rescan \in BOOLEAN
    /\ local \in Seq(Tasks)
    /\ sweepAfter \in 0..Ceiling /\ startup \in BOOLEAN
    /\ pc \in Steps /\ task \in Tasks \cup {NoTask}
    /\ faults \in 0..MaxFaults /\ requests \in 0..MaxRequests

\* What the worker has in hand, by where it is.
Phases ==
    /\ pc \in {"start", "head", "select"} => task = NoTask
    /\ pc = "task" => task \in Tasks
    /\ pc \in {"claim", "purge", "finish"} => \E d \in Docs : task = Delete(d)
    /\ pc \in {"purge", "finish"} => status[task.id] = "purging"

\* An erased account has no documents.
AllGone == account = "erased" => \A d \in Docs : status[d] = "gone"

\* Task t leads to document d: it names it or is a walk that has yet to reach
\* it.  An account's walk only runs while the account is being erased.
Reaches(acc, t, d) ==
    \/ t = Delete(d)
    \/ \E after \in 0..(d - 1) :
        t = Scan(after) \/ (acc = "erasing" /\ t = EraseAccount(after))

Reminders == asks \cup ToSet(chan) \cup ToSet(local) \cup Armed(deadlines)

\* Document d would be found if the task in hand were forgotten.
Remembered(d) == PassOwed \/ \E t \in Reminders : Reaches(account, t, d)

\* Reminded, with the walks of an account that is not being erased left out.
WorkReminded ==
    \A d \in Docs \ quiet :
        Awaiting(d) => Remembered(d) \/ Reaches(account, task, d)

\* A claim may lose against a restoration and a second deletion of the same
\* document; the task is then cleared, and the second deletion's own reminder
\* has to be there.
ClaimReminded ==
    \A d \in Docs \ quiet :
        pc = "claim" /\ task = Delete(d) /\ Awaiting(d) /\ ~Claimable(d) => Remembered(d)

WInv ==
    /\ CatalogueTyped /\ WorkerTyped /\ Scheduled(deadlines, faults)
    /\ Phases /\ AllGone /\ RestorableIsWhole
    /\ SweepOwed /\ WorkReminded /\ ClaimReminded

-----------------------------------------------------------------------------
(* Numbers, tasks and sequences *)

\* The earlier of two instants.
LEMMA MinOfTwo ==
    ASSUME NEW a \in Int, NEW b \in Int
    PROVE  Min({a, b}) = IF a <= b THEN a ELSE b
  <1> DEFINE m == IF a <= b THEN a ELSE b
             P(x) == x \in {a, b} /\ \A y \in {a, b} : x <= y
  <1>1. P(m)
    OBVIOUS
  <1>2. \A x \in {a, b} : P(x) => x = m
    OBVIOUS
  <1>. QED
    BY <1>1, <1>2 DEF Min

\* The later of two instants.
LEMMA MaxOfTwo ==
    ASSUME NEW a \in Int, NEW b \in Int
    PROVE  Max({a, b}) = IF a >= b THEN a ELSE b
  <1> DEFINE m == IF a >= b THEN a ELSE b
             P(x) == x \in {a, b} /\ \A y \in {a, b} : x >= y
  <1>1. P(m)
    OBVIOUS
  <1>2. \A x \in {a, b} : P(x) => x = m
    OBVIOUS
  <1>. QED
    BY <1>1, <1>2 DEF Max

\* What the assumptions say of the bounds.
LEMMA Bounds ==
    /\ Ceiling \in Nat \ {0} /\ Capacity \in Nat \ {0} /\ Grace \in Nat \ {0}
    /\ Queue \in Nat \ {0} /\ Page \in Nat \ {0}
    /\ MaxDoc \in Nat /\ MaxFaults \in Nat /\ MaxRequests \in Nat
    /\ Furthest \in Nat /\ Ceiling <= Furthest /\ Grace <= Furthest
  <1>1. Ceiling \in Int /\ Grace \in Int
    BY DeadlinesAssumption, WorkerAssumption
  <1>2. Furthest = IF Ceiling >= Grace THEN Ceiling ELSE Grace
    BY <1>1, MaxOfTwo DEF Furthest
  <1>. QED
    BY <1>2, DeadlinesAssumption, WorkerAssumption

\* Every task the worker makes is one.
LEMMA TasksMade ==
    /\ SweepOrphans \in Tasks
    /\ \A d \in Docs : Delete(d) \in Tasks
    /\ \A a \in Docs \cup {Nil} : EraseAccount(a) \in Tasks /\ Scan(a) \in Tasks
    /\ NoTask \notin Tasks
  BY DEF Tasks, SweepOrphans, Delete, EraseAccount, Scan, NoTask

\* Tasks of different kinds differ, and a task has the id it was made with.
LEMMA Kinds ==
    /\ \A d : Delete(d).kind = "delete" /\ Delete(d).id = d
    /\ \A d : Scan(d).kind = "scan" /\ Scan(d).id = d
    /\ \A d : EraseAccount(d).kind = "erase" /\ EraseAccount(d).id = d
    /\ SweepOrphans.kind = "sweep" /\ NoTask.kind = "none"
  BY DEF SweepOrphans, Delete, EraseAccount, Scan, NoTask

\* A task is known by its kind.
LEMMA TaskOf ==
    ASSUME NEW t \in Tasks
    PROVE  /\ t.kind = "delete" => t.id \in Docs /\ t = Delete(t.id)
           /\ t.kind = "scan" => t.id \in Docs \cup {Nil} /\ t = Scan(t.id)
           /\ t.kind = "erase" => t.id \in Docs \cup {Nil} /\ t = EraseAccount(t.id)
  BY DEF Tasks, SweepOrphans, Delete, EraseAccount, Scan

\* A walk from Nil, and the deletion itself, lead to the document.
LEMMA FromTheStart ==
    ASSUME NEW acc, NEW d \in Docs
    PROVE  /\ Reaches(acc, Scan(Nil), d) /\ Reaches(acc, Delete(d), d)
           /\ Reaches("erasing", EraseAccount(Nil), d)
  <1>1. Nil \in 0..(d - 1)
    BY Bounds DEF Nil, Docs
  <1>. QED
    BY <1>1 DEF Reaches

\* Appending one queue to another keeps the tasks of both.
LEMMA SetOfConcat ==
    ASSUME NEW S, NEW s \in Seq(S), NEW t \in Seq(S)
    PROVE  s \o t \in Seq(S) /\ ToSet(s \o t) = ToSet(s) \cup ToSet(t)
  <1>1. /\ s \o t \in Seq(S) /\ Len(s \o t) = Len(s) + Len(t)
        /\ \A i \in 1..(Len(s) + Len(t)) :
            (s \o t)[i] = IF i <= Len(s) THEN s[i] ELSE t[i - Len(s)]
    BY ConcatProperties
  <1>2. /\ DOMAIN s = 1..Len(s) /\ DOMAIN t = 1..Len(t)
        /\ DOMAIN (s \o t) = 1..(Len(s) + Len(t)) /\ Len(s) \in Nat /\ Len(t) \in Nat
    BY <1>1, LenProperties
  <1>3. ASSUME NEW e \in ToSet(s \o t)
        PROVE  e \in ToSet(s) \cup ToSet(t)
    <2>1. PICK i \in 1..(Len(s) + Len(t)) : e = (s \o t)[i]
      BY <1>2 DEF ToSet
    <2>2. CASE i <= Len(s)
      BY <1>1, <1>2, <2>1, <2>2 DEF ToSet
    <2>3. CASE i > Len(s)
      <3>1. i - Len(s) \in DOMAIN t /\ e = t[i - Len(s)]
        BY <1>1, <1>2, <2>1, <2>3
      <3>. QED
        BY <3>1 DEF ToSet
    <2>. QED
      BY <1>2, <2>2, <2>3
  <1>4. ASSUME NEW e \in ToSet(s)
        PROVE  e \in ToSet(s \o t)
    <2>1. PICK i \in DOMAIN s : e = s[i]
      BY DEF ToSet
    <2>2. i \in DOMAIN (s \o t) /\ (s \o t)[i] = e
      BY <1>1, <1>2, <2>1
    <2>. QED
      BY <2>2 DEF ToSet
  <1>5. ASSUME NEW e \in ToSet(t)
        PROVE  e \in ToSet(s \o t)
    <2>1. PICK i \in DOMAIN t : e = t[i]
      BY DEF ToSet
    <2>2. /\ i + Len(s) \in DOMAIN (s \o t) /\ (i + Len(s)) - Len(s) = i
          /\ ~ i + Len(s) <= Len(s)
      BY <1>2
    <2>3. (s \o t)[i + Len(s)] = e
      BY <1>1, <1>2, <2>1, <2>2
    <2>. QED
      BY <2>2, <2>3 DEF ToSet
  <1>. QED
    BY <1>1, <1>3, <1>4, <1>5

\* A queue of one task.
LEMMA SetOfOne ==
    ASSUME NEW S, NEW e \in S
    PROVE  <<e>> \in Seq(S) /\ ToSet(<<e>>) = {e} /\ Len(<<e>>) = 1
  <1>1. <<e>> \in Seq(S) /\ Len(<<e>>) = 1 /\ DOMAIN <<e>> = {1} /\ <<e>>[1] = e
    OBVIOUS
  <1>. QED
    BY <1>1 DEF ToSet

\* An empty queue.
LEMMA SetOfNone == \A S : << >> \in Seq(S) /\ ToSet(<< >>) = {} /\ Len(<< >>) = 0
  <1>1. Len(<< >>) = 0 /\ DOMAIN << >> = {}
    OBVIOUS
  <1>. QED
    BY <1>1, EmptySeq DEF ToSet

\* Queueing a task adds it and no other.
LEMMA SetOfAppend ==
    ASSUME NEW S, NEW s \in Seq(S), NEW e \in S
    PROVE  Append(s, e) \in Seq(S) /\ ToSet(Append(s, e)) = ToSet(s) \cup {e}
  <1>1. Append(s, e) = s \o <<e>>
    BY AppendIsConcat
  <1>2. <<e>> \in Seq(S) /\ ToSet(<<e>>) = {e}
    BY SetOfOne
  <1>3. s \o <<e>> \in Seq(S) /\ ToSet(s \o <<e>>) = ToSet(s) \cup ToSet(<<e>>)
    <2>1. \A q \in Seq(S) : s \o q \in Seq(S) /\ ToSet(s \o q) = ToSet(s) \cup ToSet(q)
      BY SetOfConcat
    <2>. QED
      BY <1>2, <2>1
  <1>. QED
    BY <1>1, <1>2, <1>3

\* Taking the first task leaves the others.
LEMMA SetOfTail ==
    ASSUME NEW S, NEW s \in Seq(S), s # << >>
    PROVE  /\ Head(s) \in S /\ Tail(s) \in Seq(S) /\ Len(Tail(s)) = Len(s) - 1
           /\ ToSet(s) \subseteq {Head(s)} \cup ToSet(Tail(s))
  <1>1. /\ Head(s) \in S /\ Tail(s) \in Seq(S) /\ Len(Tail(s)) = Len(s) - 1
        /\ \A i \in 1..Len(Tail(s)) : Tail(s)[i] = s[i + 1]
    BY HeadTailProperties
  <1>2. DOMAIN s = 1..Len(s) /\ DOMAIN Tail(s) = 1..Len(Tail(s)) /\ Len(s) \in Nat
    BY <1>1, LenProperties
  <1>3. Head(s) = s[1]
    OBVIOUS
  <1>4. ASSUME NEW e \in ToSet(s), e # Head(s)
        PROVE  e \in ToSet(Tail(s))
    <2>1. PICK i \in DOMAIN s : e = s[i]
      BY DEF ToSet
    <2>2. i # 1
      BY <1>3, <1>4, <2>1
    <2>3. i - 1 \in DOMAIN Tail(s) /\ Tail(s)[i - 1] = s[(i - 1) + 1] /\ (i - 1) + 1 = i
      BY <1>1, <1>2, <2>1, <2>2
    <2>. QED
      BY <2>1, <2>3 DEF ToSet
  <1>. QED
    BY <1>1, <1>4

-----------------------------------------------------------------------------
(* The schedule *)

\* An entry of the schedule from its parts.
LEMMA EntryMade ==
    ASSUME NEW n, NEW due \in (-Ceiling - 1)..Furthest, NEW failures \in 0..n,
           NEW armed \in BOOLEAN
    PROVE  LET e == [due |-> due, failures |-> failures, armed |-> armed]
           IN  e \in Entries(n) /\ e.due = due /\ e.failures = failures /\ e.armed = armed
  BY Zenon DEF Entries

\* The parts of an entry of the schedule.
LEMMA EntryParts ==
    ASSUME NEW n, NEW e \in Entries(n)
    PROVE  /\ e.due \in (-Ceiling - 1)..Furthest /\ e.failures \in 0..n /\ e.armed \in BOOLEAN
           /\ e = [due |-> e.due, failures |-> e.failures, armed |-> e.armed]
  BY DEF Entries

\* A bound on streaks may be raised.
LEMMA LongerStreak ==
    ASSUME NEW n \in Nat
    PROVE  Entries(n) \subseteq Entries(n + 1)
  <1>1. 0..n \subseteq 0..(n + 1)
    OBVIOUS
  <1>. QED
    BY <1>1 DEF Entries

\* After one more failure the schedule is still within its bounds.
LEMMA ScheduledLonger ==
    ASSUME NEW n \in Nat, NEW D, Scheduled(D, n)
    PROVE  Scheduled(D, n + 1)
  <1>1. Entries(n) \subseteq Entries(n + 1)
    BY LongerStreak
  <1>2. D.entries \in [DOMAIN D.entries -> Entries(n)]
    BY DEF Scheduled
  <1>3. D.entries \in [DOMAIN D.entries -> Entries(n + 1)]
    BY <1>1, <1>2
  <1>. QED
    BY <1>3 DEF Scheduled

\* Nothing armed and no refusal is forgotten.
Keeps(D, A) == Armed(D) \subseteq Armed(A) /\ (D.refusal # Never => A.refusal # Never)

\* Task t will be due, or was refused and the refusal is remembered.
Noted(A, t) == t \in Armed(A) \/ A.refusal # Never

\* RETRY.delay is at least the base and at most the ceiling.
LEMMA BackoffBound == ASSUME NEW f PROVE Backoff(f) \in 1..Ceiling
  BY Bounds DEF Backoff

\* Writing an entry for which there is room arms its task and disarms none.
LEMMA PutKeeps ==
    ASSUME NEW n \in Nat, NEW D, Scheduled(D, n), NEW t \in Tasks, NEW e \in Entries(n),
           e.armed, Known(D, t) \/ ~Full(D)
    PROVE  /\ Scheduled(Put(D, t, e), n) /\ Keeps(D, Put(D, t, e))
           /\ Noted(Put(D, t, e), t)
  <1> DEFINE A == Put(D, t, e)
             S == DOMAIN D.entries \cup {t}
             f == [x \in S |-> IF x = t THEN e ELSE D.entries[x]]
  <1>1. A = [entries |-> f, refusal |-> D.refusal]
    BY DEF Scheduled, Put
  <1>2. A.entries = f /\ A.refusal = D.refusal /\ DOMAIN A.entries = S
    BY <1>1
  <1>3. f \in [S -> Entries(n)] /\ S \subseteq Tasks
    BY DEF Scheduled
  <1>4. IsFiniteSet(S) /\ Cardinality(S) <= Capacity
    <2>1. /\ IsFiniteSet(S)
          /\ Cardinality(S) = IF t \in DOMAIN D.entries THEN Cardinality(DOMAIN D.entries)
                              ELSE Cardinality(DOMAIN D.entries) + 1
      BY FS_AddElement DEF Scheduled
    <2>2. Cardinality(DOMAIN D.entries) \in Nat /\ Cardinality(DOMAIN D.entries) <= Capacity
      BY FS_CardinalityType DEF Scheduled
    <2>3. t \in DOMAIN D.entries \/ Cardinality(DOMAIN D.entries) # Capacity
      BY DEF Known, Full
    <2>. QED
      BY <2>1, <2>2, <2>3, Bounds
  <1>5. A.refusal \in {Never} \cup 0..Furthest
    BY <1>2 DEF Scheduled
  <1>6. A = [entries |-> A.entries, refusal |-> A.refusal]
    BY <1>1, <1>2
  <1>7. A.entries \in [DOMAIN A.entries -> Entries(n)] /\ DOMAIN A.entries \subseteq Tasks
    BY <1>2, <1>3
  <1>8. IsFiniteSet(DOMAIN A.entries) /\ Cardinality(DOMAIN A.entries) <= Capacity
    BY <1>2, <1>4
  <1>9. t \in S /\ f[t] = e
    OBVIOUS
  <1>10. t \in Armed(A)
    BY <1>2, <1>9 DEF Armed
  <1>11. ASSUME NEW x \in Armed(D)
         PROVE  x \in Armed(A)
    <2>1. x \in DOMAIN D.entries /\ D.entries[x].armed /\ x \in S
      BY DEF Armed
    <2>2. CASE x # t
      <3>1. f[x] = D.entries[x]
        BY <2>1, <2>2
      <3>. QED
        BY <1>2, <2>1, <3>1 DEF Armed
    <2>. QED
      BY <1>10, <2>2
  <1>. HIDE DEF A, S, f
  <1>12. Scheduled(A, n)
    BY <1>5, <1>6, <1>7, <1>8 DEF Scheduled
  <1>13. Keeps(D, A) /\ Noted(A, t)
    BY <1>2, <1>10, <1>11 DEF Keeps, Noted
  <1>. QED
    BY <1>12, <1>13 DEF A

\* A refused deadline leaves the refusal time, and every armed task armed.
LEMMA RefuseKeeps ==
    ASSUME NEW n \in Nat, NEW D, Scheduled(D, n), NEW due \in 0..Furthest
    PROVE  /\ Scheduled(Refuse(D, due), n) /\ Keeps(D, Refuse(D, due))
           /\ Refuse(D, due).refusal # Never
  <1> DEFINE A == Refuse(D, due)
             r == Earlier(D.refusal, due)
  <1>1. A = [entries |-> D.entries, refusal |-> r]
    BY DEF Scheduled, Refuse
  <1>2. A.entries = D.entries /\ A.refusal = r
    BY <1>1
  <1>3. r \in 0..Furthest
    <2>1. D.refusal \in {Never} \cup 0..Furthest /\ due # Never
      BY DEF Scheduled, Never
    <2>2. CASE D.refusal = Never
      BY <2>2 DEF Earlier
    <2>3. CASE D.refusal # Never
      <3>1. r = Min({D.refusal, due})
        BY <2>1, <2>3 DEF Earlier
      <3>2. D.refusal \in Int /\ due \in Int /\ D.refusal \in 0..Furthest
        BY <2>1, <2>3, Bounds
      <3>3. r = IF D.refusal <= due THEN D.refusal ELSE due
        BY <3>1, <3>2, MinOfTwo
      <3>. QED
        BY <3>2, <3>3
    <2>. QED
      BY <2>2, <2>3
  <1>4. r # Never
    BY <1>3 DEF Never
  <1>5. Armed(A) = Armed(D)
    BY <1>2 DEF Armed
  <1>. HIDE DEF A, r
  <1>6. Scheduled(A, n)
    BY <1>1, <1>2, <1>3 DEF Scheduled
  <1>. QED
    BY <1>2, <1>4, <1>5, <1>6 DEF Keeps, A

\* A deadline that is asked for is armed, or its refusal is noted; no other
\* task loses its own.
LEMMA AdmitKeeps ==
    ASSUME NEW n \in Nat, NEW D, Scheduled(D, n), NEW t \in Tasks, NEW e \in Entries(n),
           e.armed, Known(D, t) \/ e.due >= 0
    PROVE  /\ Scheduled(Admit(D, t, e), n) /\ Keeps(D, Admit(D, t, e))
           /\ Noted(Admit(D, t, e), t)
  <1>1. CASE Known(D, t) \/ ~Full(D)
    <2>1. Admit(D, t, e) = Put(D, t, e)
      BY <1>1 DEF Admit
    <2>. QED
      BY <1>1, <2>1, PutKeeps
  <1>2. CASE ~(Known(D, t) \/ ~Full(D))
    <2>1. Admit(D, t, e) = Refuse(D, e.due)
      BY <1>2 DEF Admit
    <2>2. e.due \in 0..Furthest
      BY <1>2, EntryParts, Bounds
    <2>. QED
      BY <2>1, <2>2, RefuseKeeps DEF Noted
  <1>. QED
    BY <1>1, <1>2

\* A streak is no longer than the failures there have been.
LEMMA StreakBound ==
    ASSUME NEW n \in Nat, NEW D, Scheduled(D, n), NEW t
    PROVE  Failures(D, t) \in 0..n
  <1>1. CASE Known(D, t)
    BY <1>1, EntryParts DEF Failures, Known, Scheduled
  <1>2. CASE ~Known(D, t)
    BY <1>2 DEF Failures
  <1>. QED
    BY <1>1, <1>2

\* A failure arms the task again, or is refused and remembered as such.
LEMMA FailedKeeps ==
    ASSUME NEW n \in Nat, NEW D, Scheduled(D, n), NEW t \in Tasks
    PROVE  /\ Scheduled(Failed(D, t), n + 1) /\ Keeps(D, Failed(D, t))
           /\ Noted(Failed(D, t), t)
  <1> DEFINE k == Failures(D, t) + 1
             e == [due |-> Backoff(k), failures |-> k, armed |-> TRUE]
  <1>1. k \in 0..(n + 1)
    BY StreakBound
  <1>2. Backoff(k) \in (-Ceiling - 1)..Furthest /\ Backoff(k) >= 0
    <2>1. Backoff(k) \in 1..Ceiling
      BY BackoffBound
    <2>. QED
      BY <2>1, Bounds
  <1>3. e \in Entries(n + 1) /\ e.due = Backoff(k) /\ e.armed
    <2>1. TRUE \in BOOLEAN
      OBVIOUS
    <2>. HIDE DEF k
    <2>. QED
      BY <1>1, <1>2, <2>1, EntryMade
  <1>4. Scheduled(D, n + 1) /\ n + 1 \in Nat
    BY ScheduledLonger
  <1>5. Failed(D, t) = Admit(D, t, e)
    BY DEF Failed
  <1>. HIDE DEF e, k
  <1>. QED
    BY <1>2, <1>3, <1>4, <1>5, AdmitKeeps

\* Deadlines::at: the task is armed or its refusal noted, and no other task
\* loses its deadline.
LEMMA AtKeeps ==
    ASSUME NEW n \in Nat, NEW D, Scheduled(D, n), NEW t \in Tasks, NEW due \in 0..Furthest
    PROVE  /\ Scheduled(At(D, t, due), n) /\ Keeps(D, At(D, t, due)) /\ Noted(At(D, t, due), t)
  <1> DEFINE streak == Failures(D, t)
             armed == Known(D, t) /\ D.entries[t].armed
             when == IF armed THEN Min({D.entries[t].due, due}) ELSE due
             e == [due |-> when, failures |-> streak, armed |-> TRUE]
  <1>1. CASE armed /\ streak > 0
    <2>1. At(D, t, due) = D
      BY <1>1 DEF At
    <2>2. t \in Armed(D)
      BY <1>1 DEF Armed, Known
    <2>. QED
      BY <2>1, <2>2 DEF Keeps, Noted
  <1>2. CASE ~(armed /\ streak > 0)
    <2>1. At(D, t, due) = Admit(D, t, e)
      BY <1>2 DEF At
    <2>2. when \in (-Ceiling - 1)..Furthest /\ (armed \/ when >= 0)
      <3>1. CASE armed
        <4>1. D.entries[t] \in Entries(n)
          BY <3>1 DEF Known, Scheduled
        <4>2. D.entries[t].due \in (-Ceiling - 1)..Furthest
          BY <4>1, EntryParts
        <4>3. when = Min({D.entries[t].due, due})
          BY <3>1
        <4>4. Min({D.entries[t].due, due}) =
                IF D.entries[t].due <= due THEN D.entries[t].due ELSE due
          BY <4>2, MinOfTwo
        <4>. HIDE DEF when
        <4>. QED
          BY <3>1, <4>2, <4>3, <4>4, Bounds
      <3>2. CASE ~armed
        BY <3>2, Bounds
      <3>. QED
        BY <3>1, <3>2
    <2>3. streak \in 0..n /\ TRUE \in BOOLEAN
      BY StreakBound
    <2>4. armed => Known(D, t)
      OBVIOUS
    <2>. HIDE DEF armed, streak, when
    <2>5. e \in Entries(n) /\ e.due = when /\ e.armed
      BY <2>2, <2>3, EntryMade
    <2>. HIDE DEF e
    <2>. QED
      BY <2>1, <2>2, <2>4, <2>5, AdmitKeeps
  <1>. QED
    BY <1>1, <1>2

\* Deadlines::remove disarms one task.
LEMMA RemoveKeeps ==
    ASSUME NEW n \in Nat, NEW D, Scheduled(D, n), NEW t
    PROVE  /\ Scheduled(RemoveDeadline(D, t), n)
           /\ Armed(RemoveDeadline(D, t)) = Armed(D) \ {t}
           /\ RemoveDeadline(D, t).refusal = D.refusal
  <1> DEFINE A == RemoveDeadline(D, t)
             S == DOMAIN D.entries \ {t}
             f == [x \in S |-> D.entries[x]]
  <1>1. A = [entries |-> f, refusal |-> D.refusal]
    BY DEF Scheduled, RemoveDeadline, Restrict
  <1>2. A.entries = f /\ A.refusal = D.refusal /\ DOMAIN A.entries = S
    BY <1>1
  <1>3. f \in [S -> Entries(n)] /\ S \subseteq Tasks
    BY DEF Scheduled
  <1>4. IsFiniteSet(S) /\ Cardinality(S) <= Capacity
    <2>1. S \in SUBSET DOMAIN D.entries /\ IsFiniteSet(DOMAIN D.entries)
      BY DEF Scheduled
    <2>2. IsFiniteSet(S) /\ Cardinality(S) <= Cardinality(DOMAIN D.entries)
      BY <2>1, FS_Subset
    <2>3. /\ Cardinality(S) \in Nat /\ Cardinality(DOMAIN D.entries) \in Nat
          /\ Cardinality(DOMAIN D.entries) <= Capacity
      BY <2>1, <2>2, FS_CardinalityType DEF Scheduled
    <2>. QED
      BY <2>2, <2>3, Bounds
  <1>5. Armed(A) = Armed(D) \ {t}
    BY <1>2 DEF Armed
  <1>6. D.refusal \in {Never} \cup 0..Furthest
    BY DEF Scheduled
  <1>. HIDE DEF A, S, f
  <1>7. Scheduled(A, n)
    BY <1>1, <1>2, <1>3, <1>4, <1>6 DEF Scheduled
  <1>. QED
    BY <1>2, <1>5, <1>7 DEF A

\* Success forgets no deadline, the task's own included.
LEMMA ClearKeeps ==
    ASSUME NEW n \in Nat, NEW D, Scheduled(D, n), NEW t
    PROVE  /\ Scheduled(Clear(D, t), n)
           /\ Armed(Clear(D, t)) = Armed(D) /\ Clear(D, t).refusal = D.refusal
  <1>1. CASE ~(Known(D, t) /\ D.entries[t].armed)
    <2>1. Clear(D, t) = RemoveDeadline(D, t)
      BY <1>1 DEF Clear
    <2>2. t \notin Armed(D)
      BY <1>1 DEF Armed, Known
    <2>. QED
      BY <2>1, <2>2, RemoveKeeps
  <1>2. CASE Known(D, t) /\ D.entries[t].armed
    <2> DEFINE A == Clear(D, t)
               S == DOMAIN D.entries
               e == [due |-> D.entries[t].due, failures |-> 0, armed |-> D.entries[t].armed]
               f == [x \in S |-> IF x = t THEN e ELSE D.entries[x]]
    <2>1. D.entries[t] \in Entries(n) /\ t \in S
      BY <1>2 DEF Known, Scheduled
    <2>2. /\ D.entries[t].due \in (-Ceiling - 1)..Furthest
          /\ D.entries[t].armed \in BOOLEAN
          /\ D.entries[t] = [due |-> D.entries[t].due, failures |-> D.entries[t].failures,
                             armed |-> D.entries[t].armed]
      BY <2>1, EntryParts
    <2>3. 0 \in 0..n
      OBVIOUS
    <2>4. e \in Entries(n) /\ e.armed = D.entries[t].armed
      BY <2>2, <2>3, EntryMade
    <2>5. [D.entries[t] EXCEPT !.failures = 0] = e
      BY <2>2
    <2>6. D.entries \in [S -> Entries(n)] /\ D = [entries |-> D.entries, refusal |-> D.refusal]
      BY DEF Scheduled
    <2>7. A = [D EXCEPT !.entries = [D.entries EXCEPT ![t] = [D.entries[t] EXCEPT !.failures = 0]]]
      BY <1>2, <2>1, <2>6 DEF Clear
    <2>8. [D.entries EXCEPT ![t] = [D.entries[t] EXCEPT !.failures = 0]] = f
      BY <2>5, <2>6
    <2>. HIDE DEF A, e
    <2>9. A = [entries |-> f, refusal |-> D.refusal]
      BY <2>6, <2>7, <2>8
    <2>10. A.entries = f /\ A.refusal = D.refusal /\ DOMAIN A.entries = S
      BY <2>9
    <2>11. f \in [S -> Entries(n)]
      BY <2>4, <2>6
    <2>12. Armed(A) = Armed(D)
      BY <2>4, <2>10 DEF Armed
    <2>. HIDE DEF f, S
    <2>13. Scheduled(A, n)
      BY <2>9, <2>10, <2>11 DEF Scheduled, S
    <2>. QED
      BY <2>10, <2>12, <2>13 DEF A
  <1>. QED
    BY <1>1, <1>2

\* Time disarms nothing.
LEMMA LaterKeeps ==
    ASSUME NEW n \in Nat, NEW D, Scheduled(D, n)
    PROVE  Scheduled(Later(D), n) /\ Keeps(D, Later(D))
  <1> DEFINE A == Later(D)
             S == DOMAIN D.entries
             f == [t \in S |-> [D.entries[t] EXCEPT !.due = Max({@ - 1, -Ceiling - 1})]]
             r == IF D.refusal = Never THEN Never ELSE Max({D.refusal - 1, 0})
  <1>1. A = [entries |-> f, refusal |-> r]
    BY DEF Later
  <1>2. A.entries = f /\ A.refusal = r /\ DOMAIN A.entries = S
    BY <1>1
  <1>3. ASSUME NEW t \in S
        PROVE  f[t] \in Entries(n) /\ f[t].armed = D.entries[t].armed
    <2> DEFINE e == D.entries[t]
               when == Max({e.due - 1, -Ceiling - 1})
    <2>1. e \in Entries(n)
      BY DEF Scheduled
    <2>2. /\ e.due \in (-Ceiling - 1)..Furthest /\ e.failures \in 0..n /\ e.armed \in BOOLEAN
          /\ e = [due |-> e.due, failures |-> e.failures, armed |-> e.armed]
      BY <2>1, EntryParts
    <2>3. when = IF e.due - 1 >= -Ceiling - 1 THEN e.due - 1 ELSE -Ceiling - 1
      <3>1. e.due - 1 \in Int /\ -Ceiling - 1 \in Int
        BY <2>2, Bounds
      <3>. QED
        BY <3>1, MaxOfTwo
    <2>4. when \in (-Ceiling - 1)..Furthest
      BY <2>2, <2>3, Bounds
    <2>5. f[t] = [e EXCEPT !.due = when]
      OBVIOUS
    <2>. HIDE DEF when, e, f
    <2>6. f[t] = [due |-> when, failures |-> e.failures, armed |-> e.armed]
      BY <2>2, <2>5
    <2>7. f[t] \in Entries(n) /\ f[t].armed = e.armed
      BY <2>2, <2>4, <2>6, EntryMade
    <2>. QED
      BY <2>7 DEF e
  <1>4. r \in {Never} \cup 0..Furthest /\ (D.refusal # Never => r # Never)
    <2>1. D.refusal \in {Never} \cup 0..Furthest
      BY DEF Scheduled
    <2>2. CASE D.refusal # Never
      <3>1. D.refusal - 1 \in Int /\ D.refusal \in 0..Furthest
        BY <2>1, <2>2, Bounds
      <3>2. r = IF D.refusal - 1 >= 0 THEN D.refusal - 1 ELSE 0
        BY <2>2, <3>1, MaxOfTwo
      <3>. QED
        BY <3>1, <3>2, Bounds DEF Never
    <2>. QED
      BY <2>2
  <1>5. /\ S \subseteq Tasks /\ IsFiniteSet(S) /\ Cardinality(S) <= Capacity
    BY DEF Scheduled
  <1>6. f \in [S -> Entries(n)]
    BY <1>3
  <1>7. Armed(A) = Armed(D)
    BY <1>2, <1>3 DEF Armed
  <1>. HIDE DEF A, f, S, r
  <1>8. Scheduled(A, n)
    BY <1>1, <1>2, <1>4, <1>5, <1>6 DEF Scheduled
  <1>. QED
    BY <1>2, <1>4, <1>7, <1>8 DEF Keeps, A

\* What fires is no longer armed; everything else is.
LEMMA FiredKeeps ==
    ASSUME NEW n \in Nat, NEW D, Scheduled(D, n)
    PROVE  /\ Scheduled(Fired(D), n) /\ Armed(D) \subseteq Armed(Fired(D)) \cup DueTasks(D)
           /\ Fired(D).refusal # D.refusal => RescanDue(D)
  <1> DEFINE A == Fired(D)
             S == {t \in DOMAIN D.entries :
                        IF t \in DueTasks(D) THEN D.entries[t].failures > 0
                        ELSE D.entries[t].armed \/ D.entries[t].due >= -Ceiling}
             f == [t \in S |-> [D.entries[t] EXCEPT !.armed = @ /\ t \notin DueTasks(D)]]
             r == IF RescanDue(D) THEN Never ELSE D.refusal
  <1>1. A = [entries |-> f, refusal |-> r]
    BY DEF Fired
  <1>2. A.entries = f /\ A.refusal = r /\ DOMAIN A.entries = S
    BY <1>1
  <1>3. ASSUME NEW t \in S
        PROVE  /\ f[t] \in Entries(n)
               /\ D.entries[t].armed /\ t \notin DueTasks(D) => f[t].armed
    <2> DEFINE e == D.entries[t]
               b == e.armed /\ t \notin DueTasks(D)
    <2>1. e \in Entries(n)
      BY DEF Scheduled
    <2>2. /\ e.due \in (-Ceiling - 1)..Furthest /\ e.failures \in 0..n /\ e.armed \in BOOLEAN
          /\ e = [due |-> e.due, failures |-> e.failures, armed |-> e.armed]
      BY <2>1, EntryParts
    <2>3. b \in BOOLEAN
      OBVIOUS
    <2>4. f[t] = [e EXCEPT !.armed = b]
      OBVIOUS
    <2>5. [e EXCEPT !.armed = b] = [due |-> e.due, failures |-> e.failures, armed |-> b]
      <3>. HIDE DEF b, e
      <3>. QED
        BY <2>2
    <2>. HIDE DEF b, e, f
    <2>6. f[t] \in Entries(n) /\ f[t].armed = b
      BY <2>2, <2>3, <2>4, <2>5, EntryMade
    <2>. QED
      BY <2>6 DEF b, e
  <1>4. r \in {Never} \cup 0..Furthest
    BY DEF Scheduled
  <1>5. S \subseteq Tasks /\ IsFiniteSet(S) /\ Cardinality(S) <= Capacity
    <2>1. S \in SUBSET DOMAIN D.entries /\ IsFiniteSet(DOMAIN D.entries)
      BY DEF Scheduled
    <2>2. IsFiniteSet(S) /\ Cardinality(S) <= Cardinality(DOMAIN D.entries)
      BY <2>1, FS_Subset
    <2>3. /\ Cardinality(S) \in Nat /\ Cardinality(DOMAIN D.entries) \in Nat
          /\ Cardinality(DOMAIN D.entries) <= Capacity
      BY <2>1, <2>2, FS_CardinalityType DEF Scheduled
    <2>4. S \subseteq Tasks
      BY DEF Scheduled
    <2>. HIDE DEF S
    <2>. QED
      BY <2>2, <2>3, <2>4, Bounds
  <1>6. f \in [S -> Entries(n)]
    BY <1>3
  <1>7. ASSUME NEW t \in Armed(D), t \notin DueTasks(D)
        PROVE  t \in Armed(A)
    <2>1. t \in S /\ D.entries[t].armed
      BY <1>7 DEF Armed
    <2>2. f[t].armed
      BY <1>3, <1>7, <2>1
    <2>. QED
      BY <1>2, <2>1, <2>2 DEF Armed
  <1>8. r # D.refusal => RescanDue(D)
    OBVIOUS
  <1>. HIDE DEF A, f, S, r
  <1>9. Scheduled(A, n)
    BY <1>1, <1>2, <1>4, <1>5, <1>6 DEF Scheduled
  <1>. QED
    BY <1>2, <1>7, <1>8, <1>9 DEF A

-----------------------------------------------------------------------------
(* The local queue *)

\* enqueue_orphan_sweep: the sweep is queued or has its deadline.
LEMMA SweepQueued ==
    ASSUME NEW n \in Nat, NEW D, Scheduled(D, n), NEW l \in Seq(Tasks), NEW after \in 0..Ceiling
    PROVE  LET q == OrphanSweepQueued(l, D, after)
           IN  /\ q.local \in Seq(Tasks) /\ Scheduled(q.deadlines, n)
               /\ ToSet(l) \subseteq ToSet(q.local) /\ Keeps(D, q.deadlines)
               /\ SweepOrphans \in ToSet(q.local) \/ Noted(q.deadlines, SweepOrphans)
  <1> DEFINE q == OrphanSweepQueued(l, D, after)
  <1>1. CASE Contains(l, SweepOrphans) \/ Waiting(D, SweepOrphans)
    <2>1. q = [local |-> l, deadlines |-> D]
      BY <1>1 DEF OrphanSweepQueued
    <2>2. q.local = l /\ q.deadlines = D
      BY <2>1
    <2>3. Contains(l, SweepOrphans) => SweepOrphans \in ToSet(l)
      <3>1. DOMAIN l = 1..Len(l)
        BY LenProperties
      <3>. QED
        BY <3>1 DEF Contains, ToSet
    <2>4. Waiting(D, SweepOrphans) => SweepOrphans \in Armed(D)
      BY DEF Waiting, Armed, Known
    <2>5. SweepOrphans \in ToSet(l) \/ Noted(D, SweepOrphans)
      BY <1>1, <2>3, <2>4 DEF Noted
    <2>6. Keeps(D, D)
      BY DEF Keeps
    <2>. HIDE DEF q
    <2>. QED
      BY <2>2, <2>5, <2>6 DEF q
  <1>2. CASE ~(Contains(l, SweepOrphans) \/ Waiting(D, SweepOrphans)) /\ after > 0
    <2>1. q = [local |-> l, deadlines |-> At(D, SweepOrphans, after)]
      BY <1>2 DEF OrphanSweepQueued
    <2>2. q.local = l /\ q.deadlines = At(D, SweepOrphans, after)
      BY <2>1
    <2>3. SweepOrphans \in Tasks /\ after \in 0..Furthest
      BY TasksMade, Bounds
    <2>4. /\ Scheduled(q.deadlines, n) /\ Keeps(D, q.deadlines)
          /\ Noted(q.deadlines, SweepOrphans)
      BY <2>2, <2>3, AtKeeps
    <2>. HIDE DEF q
    <2>. QED
      BY <2>2, <2>4 DEF q
  <1>3. CASE ~(Contains(l, SweepOrphans) \/ Waiting(D, SweepOrphans)) /\ ~ after > 0
    <2>1. q = [local |-> Append(l, SweepOrphans), deadlines |-> D]
      BY <1>3 DEF OrphanSweepQueued
    <2>2. q.local = Append(l, SweepOrphans) /\ q.deadlines = D
      BY <2>1
    <2>3. /\ q.local \in Seq(Tasks) /\ ToSet(q.local) = ToSet(l) \cup {SweepOrphans}
      BY <2>2, SetOfAppend, TasksMade
    <2>4. Keeps(D, D)
      BY DEF Keeps
    <2>. HIDE DEF q
    <2>. QED
      BY <2>2, <2>3, <2>4 DEF q
  <1>. QED
    BY <1>1, <1>2, <1>3

\* A pass that has to start is queued, or the bit for it is still set; and the
\* sweep is queued, armed, or its refusal is remembered.
PassQueued(l, bit) == bit \/ Scan(Nil) \in ToSet(l)
SweepKept(l, D) == SweepOrphans \in ToSet(l) \/ Noted(D, SweepOrphans)

\* The scan that follows the sweep, in both callers.
LEMMA ScanQueued ==
    ASSUME NEW l \in Seq(Tasks)
    PROVE  LET m == IF HasScan(l) THEN l ELSE Append(l, Scan(Nil))
           IN  /\ m \in Seq(Tasks) /\ ToSet(l) \subseteq ToSet(m)
               /\ ~HasScan(l) => Scan(Nil) \in ToSet(m)
  <1>1. /\ Append(l, Scan(Nil)) \in Seq(Tasks)
        /\ ToSet(Append(l, Scan(Nil))) = ToSet(l) \cup {Scan(Nil)}
    BY SetOfAppend, TasksMade
  <1>. QED
    BY <1>1

\* enqueue_overflow_scan: a rescan bit becomes a scan and the sweep's clock.
LEMMA OverflowQueued ==
    ASSUME NEW n \in Nat, NEW D, Scheduled(D, n), NEW l \in Seq(Tasks), NEW after \in 0..Ceiling,
           NEW bit \in BOOLEAN
    PROVE  LET q == OverflowScan(l, D, bit, after)
           IN  /\ q.local \in Seq(Tasks) /\ Scheduled(q.deadlines, n) /\ q.rescan \in BOOLEAN
               /\ ToSet(l) \subseteq ToSet(q.local) /\ Keeps(D, q.deadlines)
               /\ bit => PassQueued(q.local, q.rescan) /\ SweepKept(q.local, q.deadlines)
  <1> DEFINE q == OverflowScan(l, D, bit, after)
             s == IF bit THEN OrphanSweepQueued(l, D, after) ELSE [local |-> l, deadlines |-> D]
             m == IF HasScan(s.local) THEN s.local ELSE Append(s.local, Scan(Nil))
             k == IF HasScan(s.local) \/ ~bit THEN s.local ELSE Append(s.local, Scan(Nil))
             b == bit /\ HasScan(s.local)
  <1>1. q = [local |-> k, deadlines |-> s.deadlines, rescan |-> b]
    BY DEF OverflowScan
  <1>2. q.local = k /\ q.deadlines = s.deadlines /\ q.rescan = b
    <2>. HIDE DEF q, k, s, b
    <2>. QED
      BY <1>1
  <1>3. CASE ~bit
    <2>1. s = [local |-> l, deadlines |-> D]
      BY <1>3
    <2>2. s.local = l /\ s.deadlines = D /\ Keeps(D, D)
      BY <2>1 DEF Keeps
    <2>. HIDE DEF s, q
    <2>3. q.local = l /\ q.deadlines = D /\ q.rescan = FALSE
      BY <1>2, <1>3, <2>2
    <2>. QED
      BY <1>3, <2>2, <2>3 DEF q
  <1>4. CASE bit
    <2>1. s = OrphanSweepQueued(l, D, after)
      BY <1>4
    <2>2. /\ s.local \in Seq(Tasks) /\ Scheduled(s.deadlines, n)
          /\ ToSet(l) \subseteq ToSet(s.local) /\ Keeps(D, s.deadlines)
          /\ SweepOrphans \in ToSet(s.local) \/ Noted(s.deadlines, SweepOrphans)
      BY <2>1, SweepQueued
    <2>. HIDE DEF s, q
    <2>3. /\ m \in Seq(Tasks) /\ ToSet(s.local) \subseteq ToSet(m)
          /\ ~HasScan(s.local) => Scan(Nil) \in ToSet(m)
      BY <2>2, ScanQueued
    <2>4. q.local = m /\ q.deadlines = s.deadlines
      BY <1>2, <1>4
    <2>5. q.rescan = HasScan(s.local) /\ HasScan(s.local) \in BOOLEAN
      BY <1>2, <1>4, Zenon DEF HasScan
    <2>. HIDE DEF m
    <2>6. PassQueued(q.local, q.rescan)
      BY <2>3, <2>4, <2>5 DEF PassQueued
    <2>7. SweepKept(q.local, q.deadlines)
      BY <2>2, <2>3, <2>4 DEF SweepKept
    <2>8. q.local \in Seq(Tasks) /\ ToSet(l) \subseteq ToSet(q.local) /\ q.rescan \in BOOLEAN
      BY <2>2, <2>3, <2>4, <2>5
    <2>. QED
      BY <2>2, <2>4, <2>6, <2>7, <2>8 DEF q
  <1>. QED
    BY <1>3, <1>4

\* enqueue_due_rescan: a due refusal becomes a scan and the sweep's clock.
LEMMA DueQueued ==
    ASSUME NEW n \in Nat, NEW D, Scheduled(D, n), NEW l \in Seq(Tasks), NEW after \in 0..Ceiling,
           NEW bit \in BOOLEAN
    PROVE  LET q == DueRescan(l, D, bit, after)
           IN  /\ q.local \in Seq(Tasks) /\ Scheduled(q.deadlines, n) /\ q.rescan \in BOOLEAN
               /\ ToSet(l) \subseteq ToSet(q.local) /\ Keeps(D, q.deadlines)
               /\ PassQueued(q.local, q.rescan) /\ SweepKept(q.local, q.deadlines)
               /\ bit => q.rescan
  <1> DEFINE q == DueRescan(l, D, bit, after)
             s == OrphanSweepQueued(l, D, after)
             m == IF HasScan(s.local) THEN s.local ELSE Append(s.local, Scan(Nil))
             b == bit \/ HasScan(s.local)
  <1>1. q = [local |-> m, deadlines |-> s.deadlines, rescan |-> b]
    BY DEF DueRescan
  <1>2. q.local = m /\ q.deadlines = s.deadlines /\ q.rescan = b
    <2>. HIDE DEF q, m, s, b
    <2>. QED
      BY <1>1
  <1>3. /\ s.local \in Seq(Tasks) /\ Scheduled(s.deadlines, n)
        /\ ToSet(l) \subseteq ToSet(s.local) /\ Keeps(D, s.deadlines)
        /\ SweepOrphans \in ToSet(s.local) \/ Noted(s.deadlines, SweepOrphans)
    BY SweepQueued
  <1>. HIDE DEF s, q
  <1>4. /\ m \in Seq(Tasks) /\ ToSet(s.local) \subseteq ToSet(m)
        /\ ~HasScan(s.local) => Scan(Nil) \in ToSet(m)
    BY <1>3, ScanQueued
  <1>. HIDE DEF m
  <1>5. q.rescan \in BOOLEAN /\ (HasScan(s.local) \/ bit => q.rescan)
    BY <1>2, Zenon DEF HasScan
  <1>6. PassQueued(q.local, q.rescan)
    BY <1>2, <1>4, <1>5 DEF PassQueued
  <1>7. SweepKept(q.local, q.deadlines)
    BY <1>2, <1>3, <1>4 DEF SweepKept
  <1>8. q.local \in Seq(Tasks) /\ ToSet(l) \subseteq ToSet(q.local) /\ Scheduled(q.deadlines, n) /\ Keeps(D, q.deadlines)
    BY <1>2, <1>3, <1>4
  <1>. QED
    BY <1>5, <1>6, <1>7, <1>8 DEF q

-----------------------------------------------------------------------------
(* The end of an iteration *)

\* The end of an iteration queues what a rescan bit stands for and drops nothing.
LEMMA DoneKeeps ==
    ASSUME NEW n \in Nat, NEW c, NEW l \in Seq(Tasks), NEW D, Scheduled(D, n),
           NEW bit \in BOOLEAN, NEW after \in 0..Ceiling, Done(c, l, D, bit, after)
    PROVE  /\ local' \in Seq(Tasks) /\ Scheduled(deadlines', n) /\ rescan' \in BOOLEAN
           /\ ToSet(l) \subseteq ToSet(local') /\ Keeps(D, deadlines')
           /\ bit => PassQueued(local', rescan') /\ SweepKept(local', deadlines')
           /\ chan' = c /\ sweepAfter' = after /\ task' = NoTask /\ pc' = "head"
  <1> DEFINE q == OverflowScan(l, D, bit, after)
  <1>1. /\ local' = q.local /\ deadlines' = q.deadlines /\ rescan' = q.rescan
        /\ chan' = c /\ sweepAfter' = after /\ task' = NoTask /\ pc' = "head"
    BY DEF Done
  <1>2. /\ q.local \in Seq(Tasks) /\ Scheduled(q.deadlines, n) /\ q.rescan \in BOOLEAN
        /\ ToSet(l) \subseteq ToSet(q.local) /\ Keeps(D, q.deadlines)
        /\ bit => PassQueued(q.local, q.rescan) /\ SweepKept(q.local, q.deadlines)
    BY OverflowQueued
  <1>. HIDE DEF q
  <1>. QED
    BY <1>1, <1>2

\* The queues a task leaves behind, the callers' included, still lead to
\* document d; and the sweep is in them.
Queues(c, l, D) == asks \cup ToSet(c) \cup ToSet(l) \cup Armed(D)
Ahead(c, l, D, bit, acc, d) ==
    \/ late \/ bit \/ D.refusal # Never
    \/ \E t \in Queues(c, l, D) : Reaches(acc, t, d)
SweepAhead(c, l, D, bit) ==
    \/ late \/ bit \/ D.refusal # Never
    \/ SweepOrphans \in Queues(c, l, D)

\* What the queues lead to is still led to after the end of the iteration.
LEMMA StaysAhead ==
    ASSUME NEW n \in Nat, NEW c, NEW l \in Seq(Tasks), NEW D, Scheduled(D, n),
           NEW bit \in BOOLEAN, NEW after \in 0..Ceiling, Done(c, l, D, bit, after),
           asks' = asks, late' = late
    PROVE  /\ \A d \in Docs : Ahead(c, l, D, bit, account', d) => Remembered(d)'
           /\ SweepAhead(c, l, D, bit) => SweepOwed'
  <1>1. /\ ToSet(l) \subseteq ToSet(local') /\ Keeps(D, deadlines') /\ chan' = c
        /\ bit => PassQueued(local', rescan') /\ SweepKept(local', deadlines')
    BY DoneKeeps
  <1>2. Queues(c, l, D) \subseteq Reminders'
    BY <1>1 DEF Queues, Reminders, Keeps
  <1>3. late \/ D.refusal # Never => PassOwed'
    BY <1>1 DEF PassOwed, Keeps
  <1>4. bit => PassOwed' \/ Scan(Nil) \in Reminders'
    BY <1>1 DEF PassOwed, PassQueued, Reminders
  <1>5. bit => PassOwed' \/ SweepOrphans \in Reminders'
    BY <1>1 DEF PassOwed, SweepKept, Noted, Reminders
  <1>6. ASSUME NEW d \in Docs, Ahead(c, l, D, bit, account', d)
        PROVE  Remembered(d)'
    <2>1. CASE late \/ D.refusal # Never
      BY <1>3, <2>1 DEF Remembered
    <2>2. CASE bit
      <3>1. Reaches(account', Scan(Nil), d)
        BY FromTheStart
      <3>. QED
        BY <1>4, <2>2, <3>1 DEF Remembered
    <2>3. CASE \E t \in Queues(c, l, D) : Reaches(account', t, d)
      BY <1>2, <2>3 DEF Remembered
    <2>. QED
      BY <1>6, <2>1, <2>2, <2>3 DEF Ahead
  <1>7. ASSUME SweepAhead(c, l, D, bit)
        PROVE  SweepOwed'
    <2>1. PassOwed' \/ SweepOrphans \in Reminders'
      BY <1>2, <1>3, <1>5, <1>7 DEF SweepAhead
    <2>2. SweepOrphans \in Reminders' => Pending(SweepOrphans)'
      BY DEF Reminders, Pending
    <2>. QED
      BY <2>1, <2>2 DEF SweepOwed
  <1>. QED
    BY <1>6, <1>7

\* A task ends: what is left to show of it.
LEMMA EndKeeps ==
    ASSUME WInv, CatalogueTyped', AllGone', RestorableIsWhole',
           NEW c \in Seq(Tasks), Len(c) <= Queue, NEW l \in Seq(Tasks),
           NEW D, Scheduled(D, faults'), NEW bit \in BOOLEAN, NEW after \in 0..Ceiling,
           Done(c, l, D, bit, after),
           asks' = asks, late' = late, requests' = requests,
           startup' \in BOOLEAN, quiet' \subseteq Docs, faults' \in 0..MaxFaults,
           SweepAhead(c, l, D, bit),
           \A d \in Docs \ quiet' : Awaiting(d)' => Ahead(c, l, D, bit, account', d)
    PROVE  WInv'
  <1>1. faults' \in Nat
    BY Bounds
  <1>2. /\ local' \in Seq(Tasks) /\ Scheduled(deadlines', faults') /\ rescan' \in BOOLEAN
        /\ chan' = c /\ sweepAfter' = after /\ task' = NoTask /\ pc' = "head"
    BY <1>1, DoneKeeps
  <1>3. WorkerTyped'
    BY <1>2 DEF WInv, WorkerTyped, Steps
  <1>4. Phases' /\ ClaimReminded'
    BY <1>2 DEF Phases, ClaimReminded
  <1>5. \A d \in Docs : Ahead(c, l, D, bit, account', d) => Remembered(d)'
    BY <1>1, StaysAhead
  <1>6. SweepOwed'
    BY <1>1, StaysAhead
  <1>7. WorkReminded'
    BY <1>5 DEF WorkReminded
  <1>. QED
    BY <1>2, <1>3, <1>4, <1>6, <1>7 DEF WInv

\* What a document's reminders lead to before the task ends is still ahead
\* when the queues lose nothing that leads to it.
LEMMA AheadOf ==
    ASSUME NEW d \in Docs, Remembered(d), pc # "start",
           NEW c, NEW l, NEW D, NEW bit,
           rescan => bit, deadlines.refusal # Never => D.refusal # Never,
           \A t \in ToSet(chan) \cup ToSet(local) \cup Armed(deadlines) :
                Reaches(account, t, d) => bit \/ t \in Queues(c, l, D),
           account = "erasing" => account' = "erasing"
    PROVE  Ahead(c, l, D, bit, account', d)
  <1>1. \A t : Reaches(account, t, d) => Reaches(account', t, d)
    BY DEF Reaches
  <1>2. CASE PassOwed
    BY <1>2 DEF PassOwed, Ahead
  <1>3. CASE \E t \in Reminders : Reaches(account, t, d)
    <2>1. PICK t \in Reminders : Reaches(account, t, d)
      BY <1>3
    <2>2. bit \/ t \in Queues(c, l, D)
      BY <2>1 DEF Reminders, Queues
    <2>. QED
      BY <1>1, <2>1, <2>2 DEF Ahead
  <1>. QED
    BY <1>2, <1>3 DEF Remembered

\* The sweep's clock survives a step that keeps what carried it.
LEMMA SweepAheadOf ==
    ASSUME SweepOwed, pc # "start", NEW c, NEW l, NEW D, NEW bit,
           rescan => bit, deadlines.refusal # Never => D.refusal # Never,
           SweepOrphans \in ToSet(chan) \cup ToSet(local) \cup Armed(deadlines) \cup {task}
                => bit \/ D.refusal # Never \/ SweepOrphans \in Queues(c, l, D)
    PROVE  SweepAhead(c, l, D, bit)
  BY DEF SweepOwed, PassOwed, Pending, SweepAhead, Queues

\* A task that ends and leaves every queue at least as it was.
LEMMA OrdinaryEnd ==
    ASSUME WInv, CatalogueTyped', AllGone', RestorableIsWhole', pc # "start",
           NEW c \in Seq(Tasks), Len(c) <= Queue, NEW l \in Seq(Tasks),
           NEW D, Scheduled(D, faults'), NEW bit \in BOOLEAN, NEW after \in 0..Ceiling,
           Done(c, l, D, bit, after),
           asks' = asks, late' = late, requests' = requests,
           startup' \in BOOLEAN, quiet' \subseteq Docs, faults' \in 0..MaxFaults,
           ToSet(chan) \subseteq ToSet(c), ToSet(local) \subseteq ToSet(l), Keeps(deadlines, D),
           rescan => bit,
           task = SweepOrphans => bit \/ Noted(D, task),
           account = "erasing" => account' = "erasing" \/ \A d \in Docs : ~Awaiting(d)',
           \A d \in Docs \ quiet' :
                Awaiting(d)' => Remembered(d) \/ Ahead(c, l, D, bit, account', d)
    PROVE  WInv'
  <1>1. deadlines.refusal # Never => D.refusal # Never
    BY DEF Keeps
  <1>2. \A t \in ToSet(chan) \cup ToSet(local) \cup Armed(deadlines) : t \in Queues(c, l, D)
    BY DEF Queues, Keeps
  <1>3. SweepAhead(c, l, D, bit)
    <2>1. SweepOwed
      BY DEF WInv
    <2>2. SweepOrphans \in ToSet(chan) \cup ToSet(local) \cup Armed(deadlines) \cup {task}
            => bit \/ D.refusal # Never \/ SweepOrphans \in Queues(c, l, D)
      BY <1>2 DEF Noted, Queues
    <2>. QED
      BY <1>1, <2>1, <2>2, SweepAheadOf
  <1>4. ASSUME NEW d \in Docs \ quiet', Awaiting(d)'
        PROVE  Ahead(c, l, D, bit, account', d)
    <2>1. CASE Remembered(d)
      BY <1>1, <1>2, <1>4, <2>1, AheadOf
    <2>. QED
      BY <1>4, <2>1
  <1>. QED
    BY <1>3, <1>4, EndKeeps

\* A task that fails is armed again.
LEMMA FailingEnds ==
    ASSUME WInv, Failing, pc # "start", task \in Tasks,
           CatalogueTyped', AllGone', RestorableIsWhole',
           asks' = asks, late' = late, requests' = requests,
           startup' = startup, quiet' = quiet,
           account = "erasing" => account' = "erasing" \/ \A d \in Docs : ~Awaiting(d)',
           \A d \in Docs : Awaiting(d)' => Awaiting(d)
    PROVE  WInv'
  <1> DEFINE D == Failed(deadlines, task)
             bit == rescan \/ task = SweepOrphans
             after == IF task = SweepOrphans THEN Backoff(Failures(deadlines, task) + 1)
                      ELSE sweepAfter
  <1>1. WorkerTyped /\ Scheduled(deadlines, faults) /\ WorkReminded
    BY DEF WInv
  <1>2. faults \in Nat /\ faults' = faults + 1 /\ faults' \in 0..MaxFaults
    BY <1>1, Bounds DEF Failing, Fault, WorkerTyped
  <1>3. Scheduled(D, faults + 1) /\ Keeps(deadlines, D) /\ Noted(D, task)
    BY <1>1, <1>2, FailedKeeps
  <1>4. bit \in BOOLEAN /\ (rescan => bit)
    BY <1>1 DEF WorkerTyped
  <1>5. after \in 0..Ceiling
    <2>1. Backoff(Failures(deadlines, task) + 1) \in 1..Ceiling
      BY BackoffBound
    <2>. QED
      BY <1>1, <2>1, Bounds DEF WorkerTyped
  <1>6. Done(chan, local, D, bit, after)
    BY DEF Failing
  <1>7. /\ chan \in Seq(Tasks) /\ Len(chan) <= Queue /\ local \in Seq(Tasks)
        /\ startup' \in BOOLEAN /\ quiet' \subseteq Docs
    BY <1>1 DEF WorkerTyped
  <1>. HIDE DEF D, bit, after
  <1>8. ASSUME NEW d \in Docs \ quiet', Awaiting(d)'
        PROVE  Remembered(d) \/ Ahead(chan, local, D, bit, account', d)
    <2>1. Remembered(d) \/ Reaches(account, task, d)
      BY <1>1, <1>8 DEF WorkReminded
    <2>2. ASSUME Reaches(account, task, d)
          PROVE  Ahead(chan, local, D, bit, account', d)
      <3>1. Reaches(account', task, d)
        BY <1>8, <2>2 DEF Reaches
      <3>2. D.refusal # Never \/ task \in Queues(chan, local, D)
        BY <1>3 DEF Noted, Queues
      <3>. QED
        BY <3>1, <3>2 DEF Ahead
    <2>. QED
      BY <2>1, <2>2
  <1>. QED
    BY <1>2, <1>3, <1>4, <1>5, <1>6, <1>7, <1>8, OrdinaryEnd

-----------------------------------------------------------------------------
(* The tasks of the worker *)

\* What the catalogue says is not touched.
LEMMA SameCatalogue ==
    ASSUME WInv, UNCHANGED catalogue
    PROVE  /\ CatalogueTyped' /\ AllGone' /\ RestorableIsWhole'
           /\ account' = account /\ \A d \in Docs : Awaiting(d)' <=> Awaiting(d)
  BY DEF WInv, catalogue, CatalogueTyped, AllGone, RestorableIsWhole, Awaiting

\* A scan or a sweep that fails is armed again or its refusal noted.
LEMMA FailsKeeps ==
    ASSUME WInv, ScanFails \/ SweepFails
    PROVE  WInv'
  <1>1. /\ Failing /\ pc = "task" /\ UNCHANGED catalogue
        /\ asks' = asks /\ late' = late /\ quiet' = quiet
        /\ startup' = startup /\ requests' = requests
    BY DEF ScanFails, SweepFails, callers
  <1>2. task \in Tasks
    BY <1>1 DEF WInv, Phases
  <1>3. /\ CatalogueTyped' /\ AllGone' /\ RestorableIsWhole'
        /\ account' = account /\ \A d \in Docs : Awaiting(d)' <=> Awaiting(d)
    BY <1>1, SameCatalogue
  <1>. QED
    BY <1>1, <1>2, <1>3, FailingEnds

\* A task taken up before its deadline is dropped: its armed entry stays, or
\* its failure is noted.
LEMMA DroppedKeeps ==
    ASSUME WInv, Dropped
    PROVE  WInv'
  <1>1. /\ pc = "task" /\ Waiting(deadlines, task) /\ UNCHANGED catalogue
        /\ asks' = asks /\ late' = late /\ quiet' = quiet
        /\ startup' = startup /\ requests' = requests
    BY DEF Dropped, callers
  <1>2. task \in Tasks /\ task \in Armed(deadlines)
    BY <1>1 DEF WInv, Phases, Waiting, Armed, Known
  <1>3. /\ CatalogueTyped' /\ AllGone' /\ RestorableIsWhole'
        /\ account' = account /\ \A d \in Docs : Awaiting(d)' <=> Awaiting(d)
    BY <1>1, SameCatalogue
  <1>4. CASE Failing
    BY <1>1, <1>2, <1>3, <1>4, FailingEnds
  <1>5. CASE Done(chan, local, deadlines, rescan, sweepAfter) /\ faults' = faults
    <2>1. /\ chan \in Seq(Tasks) /\ Len(chan) <= Queue /\ local \in Seq(Tasks)
          /\ rescan \in BOOLEAN /\ sweepAfter \in 0..Ceiling
          /\ startup' \in BOOLEAN /\ quiet' \subseteq Docs /\ faults' \in 0..MaxFaults
      BY <1>1, <1>5 DEF WInv, WorkerTyped
    <2>2. Scheduled(deadlines, faults') /\ Keeps(deadlines, deadlines)
      BY <1>5 DEF WInv, Keeps
    <2>3. ASSUME NEW d \in Docs \ quiet', Awaiting(d)'
          PROVE  Remembered(d)
      <3>1. Remembered(d) \/ Reaches(account, task, d)
        BY <1>1, <1>3, <2>3 DEF WInv, WorkReminded
      <3>. QED
        BY <1>2, <3>1 DEF Remembered, Reminders
    <2>4. Noted(deadlines, task)
      BY <1>2 DEF Noted
    <2>. QED
      BY <1>1, <1>3, <1>5, <2>1, <2>2, <2>3, <2>4, OrdinaryEnd
  <1>. QED
    BY <1>4, <1>5 DEF Dropped

\* A sweep that succeeds arms the next one.
LEMMA RunSweepKeeps ==
    ASSUME WInv, RunSweep
    PROVE  WInv'
  <1> DEFINE C == Clear(deadlines, task)
             D == At(C, task, Ceiling)
  <1>1. /\ pc = "task" /\ task = SweepOrphans /\ UNCHANGED catalogue
        /\ asks' = asks /\ late' = late /\ quiet' = quiet
        /\ startup' = startup /\ requests' = requests /\ faults' = faults
        /\ Done(chan, local, D, TRUE, Ceiling)
    BY DEF RunSweep, callers, SweepOwes
  <1>2. /\ CatalogueTyped' /\ AllGone' /\ RestorableIsWhole'
        /\ account' = account /\ \A d \in Docs : Awaiting(d)' <=> Awaiting(d)
    BY <1>1, SameCatalogue
  <1>3. /\ chan \in Seq(Tasks) /\ Len(chan) <= Queue /\ local \in Seq(Tasks)
        /\ TRUE \in BOOLEAN /\ Ceiling \in 0..Ceiling /\ Ceiling \in 0..Furthest
        /\ startup' \in BOOLEAN /\ quiet' \subseteq Docs /\ faults' \in 0..MaxFaults
        /\ faults \in Nat /\ task \in Tasks
    BY <1>1, Bounds, TasksMade DEF WInv, WorkerTyped
  <1>4. Scheduled(deadlines, faults)
    BY DEF WInv
  <1>5. Scheduled(C, faults) /\ Armed(C) = Armed(deadlines) /\ C.refusal = deadlines.refusal
    BY <1>3, <1>4, ClearKeeps
  <1>. HIDE DEF C
  <1>6. Scheduled(D, faults) /\ Keeps(C, D)
    BY <1>3, <1>5, AtKeeps
  <1>7. Scheduled(D, faults') /\ Keeps(deadlines, D)
    BY <1>1, <1>5, <1>6 DEF Keeps
  <1>. HIDE DEF D
  <1>8. \A d \in Docs : Ahead(chan, local, D, TRUE, account', d)
    BY DEF Ahead
  <1>. QED
    BY <1>1, <1>2, <1>3, <1>7, <1>8, OrdinaryEnd

\* A page has ids of documents, in order; what it leaves out lies behind it.
LEMMA PageParts ==
    ASSUME NEW S \in SUBSET Docs, NEW page \in Pages(S)
    PROVE  /\ page \in Seq(Docs) /\ Len(page) \in Nat /\ DOMAIN page = 1..Len(page)
           /\ Len(page) # 0 => Last(page) \in Docs
           /\ \A d \in S \ ToSet(page) : Len(page) = Page /\ Last(page) \in Docs /\ Last(page) < d
           /\ ToSet(page) \subseteq S
  <1>1. PICK m \in 0..Page : page \in [1..m -> S]
    BY DEF Pages, BoundedSeq, SeqOf
  <1>2. page \in Seq(S) /\ Len(page) = m /\ m \in Nat
    BY <1>1, Bounds
  <1>3. page \in Seq(Docs)
    BY <1>2, SeqMonotonic
  <1>4. Len(page) # 0 => Len(page) \in DOMAIN page
    BY <1>1, <1>2
  <1>5. \A i \in DOMAIN page : page[i] \in S
    BY <1>1
  <1>6. \A d \in S \ ToSet(page) : Len(page) = Page /\ \A i \in DOMAIN page : page[i] < d
    BY DEF Pages
  <1>7. Len(page) # 0 => Last(page) \in Docs
    BY <1>4, <1>5 DEF Last
  <1>8. ASSUME NEW d \in S \ ToSet(page)
        PROVE  Len(page) = Page /\ Last(page) \in Docs /\ Last(page) < d
    BY <1>4, <1>6, <1>7, Bounds DEF Last
  <1>9. ToSet(page) \subseteq S
    BY <1>5 DEF ToSet
  <1>. QED
    BY <1>1, <1>2, <1>3, <1>7, <1>8, <1>9

\* A page of ids becomes one deletion for each.
LEMMA DeletesMade ==
    ASSUME NEW page \in Seq(Docs)
    PROVE  LET ds == [i \in DOMAIN page |-> Delete(page[i])]
           IN  /\ ds \in Seq(Tasks) /\ Len(ds) = Len(page)
               /\ \A d \in ToSet(page) : Delete(d) \in ToSet(ds)
  <1> DEFINE ds == [i \in DOMAIN page |-> Delete(page[i])]
  <1>1. DOMAIN page = 1..Len(page) /\ Len(page) \in Nat
    BY LenProperties
  <1>2. \A i \in 1..Len(page) : Delete(page[i]) \in Tasks
    BY TasksMade, ElementOfSeq
  <1>3. ds \in [1..Len(page) -> Tasks]
    BY <1>1, <1>2
  <1>4. ds \in Seq(Tasks) /\ Len(ds) = Len(page)
    <2>. HIDE DEF ds
    <2>. QED
      BY <1>1, <1>3
  <1>5. ASSUME NEW d \in ToSet(page)
        PROVE  Delete(d) \in ToSet(ds)
    <2>1. PICK i \in DOMAIN page : page[i] = d
      BY DEF ToSet
    <2>2. i \in DOMAIN ds /\ ds[i] = Delete(d)
      BY <2>1
    <2>. QED
      BY <2>2 DEF ToSet
  <1>. QED
    BY <1>4, <1>5

\* A page of a scan queues its documents and goes on behind the last.
LEMMA RunScanKeeps ==
    ASSUME WInv, RunScan
    PROVE  WInv'
  <1> DEFINE found == AwaitingAfter(task.id)
             D == Clear(deadlines, task)
  <1>1. PICK page \in Pages(found) :
            /\ Done(chan, local \o ScanTasks(page, task.id) \o
                        (IF HasMore(found, page) THEN <<Scan(Last(page))>>
                         ELSE IF startup THEN <<Scan(Nil)>> ELSE << >>),
                    D, rescan, sweepAfter)
            /\ startup' = (startup /\ HasMore(found, page))
            /\ quiet' = quiet \ ToSet(page)
    BY DEF RunScan
  <1>2. /\ pc = "task" /\ task.kind = "scan" /\ UNCHANGED catalogue
        /\ asks' = asks /\ late' = late /\ requests' = requests /\ faults' = faults
    BY DEF RunScan
  <1> DEFINE ds == [i \in DOMAIN page |-> Delete(page[i])]
             own == IF task.id = Nil /\ account = "erasing" THEN <<EraseAccount(Nil)>> ELSE << >>
             next == IF HasMore(found, page) THEN <<Scan(Last(page))>>
                     ELSE IF startup THEN <<Scan(Nil)>> ELSE << >>
             jobs == ds \o own
             rest == local \o jobs
             l == rest \o next
  <1>3. /\ CatalogueTyped' /\ AllGone' /\ RestorableIsWhole'
        /\ account' = account /\ \A d \in Docs : Awaiting(d)' <=> Awaiting(d)
    BY <1>2, SameCatalogue
  <1>4. /\ chan \in Seq(Tasks) /\ Len(chan) <= Queue /\ local \in Seq(Tasks)
        /\ rescan \in BOOLEAN /\ sweepAfter \in 0..Ceiling
        /\ startup' \in BOOLEAN /\ quiet' \subseteq Docs /\ faults' \in 0..MaxFaults
        /\ faults \in Nat
    BY <1>1, <1>2, Bounds DEF WInv, WorkerTyped
  <1>5. task \in Tasks /\ task = Scan(task.id)
    BY <1>2, TaskOf DEF WInv, Phases
  <1>6. Scheduled(D, faults') /\ Keeps(deadlines, D)
    <2>1. Scheduled(deadlines, faults)
      BY DEF WInv
    <2>2. Scheduled(D, faults) /\ Armed(D) = Armed(deadlines) /\ D.refusal = deadlines.refusal
      BY <1>4, <2>1, ClearKeeps
    <2>. QED
      BY <1>2, <2>2 DEF Keeps
  <1>7. found \in SUBSET Docs
    BY DEF AwaitingAfter
  <1>8. /\ page \in Seq(Docs) /\ Len(page) \in Nat
        /\ \A d \in found \ ToSet(page) : Last(page) \in Docs /\ Last(page) < d
        /\ ToSet(page) \subseteq found
    BY <1>7, PageParts
  <1>9. Done(chan, l, D, rescan, sweepAfter)
    BY <1>1 DEF ScanTasks
  <1>10. ds \in Seq(Tasks) /\ \A d \in ToSet(page) : Delete(d) \in ToSet(ds)
    BY <1>8, DeletesMade
  <1>11. own \in Seq(Tasks)
    BY TasksMade, SetOfOne, SetOfNone
  <1>12. /\ next \in Seq(Tasks)
         /\ HasMore(found, page) => Scan(Last(page)) \in ToSet(next)
    <2>1. CASE HasMore(found, page)
      <3>1. Last(page) \in Docs
        BY <1>8, <2>1 DEF HasMore
      <3>2. Scan(Last(page)) \in Tasks
        BY <3>1, TasksMade
      <3>. QED
        BY <2>1, <3>2, SetOfOne
    <2>2. CASE ~HasMore(found, page)
      <3>1. <<Scan(Nil)>> \in Seq(Tasks) /\ << >> \in Seq(Tasks)
        BY TasksMade, SetOfOne, SetOfNone
      <3>. QED
        BY <2>2, <3>1
    <2>. QED
      BY <2>1, <2>2
  <1>. HIDE DEF ds, own, next, D, found
  <1>13. jobs \in Seq(Tasks) /\ ToSet(jobs) = ToSet(ds) \cup ToSet(own)
    BY <1>10, <1>11, SetOfConcat
  <1>. HIDE DEF jobs
  <1>14. rest \in Seq(Tasks) /\ ToSet(rest) = ToSet(local) \cup ToSet(jobs)
    BY <1>4, <1>13, SetOfConcat
  <1>. HIDE DEF rest
  <1>15. l \in Seq(Tasks) /\ ToSet(l) = ToSet(rest) \cup ToSet(next)
    BY <1>12, <1>14, SetOfConcat
  <1>16. /\ ToSet(local) \subseteq ToSet(l) /\ ToSet(next) \subseteq ToSet(l)
         /\ ToSet(ds) \subseteq ToSet(l)
    BY <1>13, <1>14, <1>15
  <1>. HIDE DEF l
  <1>17. ASSUME NEW d \in Docs \ quiet', Awaiting(d)'
         PROVE  Remembered(d) \/ Ahead(chan, l, D, rescan, account', d)
    <2>1. CASE d \in ToSet(page)
      <3>1. Delete(d) \in Queues(chan, l, D) /\ Reaches(account', Delete(d), d)
        BY <1>10, <1>16, <2>1, FromTheStart DEF Queues
      <3>. QED
        BY <3>1 DEF Ahead
    <2>2. CASE d \notin ToSet(page)
      <3>1. Remembered(d) \/ Reaches(account, task, d)
        BY <1>1, <1>3, <1>17, <2>2 DEF WInv, WorkReminded
      <3>2. ASSUME Reaches(account, task, d)
            PROVE  Ahead(chan, l, D, rescan, account', d)
        <4>1. PICK a \in 0..(d - 1) : task = Scan(a)
          BY <1>2, <3>2, Kinds DEF Reaches
        <4>2. task.id = a /\ a < d
          BY <4>1, Kinds DEF Docs
        <4>3. d \in found
          BY <1>3, <1>17, <4>2 DEF AwaitingAfter, found
        <4>4. Last(page) \in Docs /\ Last(page) < d /\ HasMore(found, page)
          BY <1>8, <2>2, <4>3 DEF HasMore
        <4>5. Last(page) \in 0..(d - 1)
          BY <4>4, Bounds DEF Docs
        <4>6. Reaches(account', Scan(Last(page)), d)
          BY <4>5 DEF Reaches
        <4>7. Scan(Last(page)) \in Queues(chan, l, D)
          BY <1>12, <1>16, <4>4 DEF Queues
        <4>. QED
          BY <4>6, <4>7 DEF Ahead
      <3>. QED
        BY <3>1, <3>2
    <2>. QED
      BY <2>1, <2>2
  <1>18. task # SweepOrphans
    BY <1>2, Kinds
  <1>. QED
    BY <1>2, <1>3, <1>4, <1>6, <1>9, <1>15, <1>16, <1>17, <1>18, OrdinaryEnd

\* The worker's own asks: what does not fit sets the bit.
LEMMA SentKeeps ==
    ASSUME NEW c \in Seq(Tasks), Len(c) <= Queue, NEW ts \in Seq(Tasks)
    PROVE  /\ Sent(c, ts) \in Seq(Tasks) /\ Len(Sent(c, ts)) <= Queue
           /\ ToSet(c) \subseteq ToSet(Sent(c, ts))
           /\ Overflows(c, ts) \/ ToSet(ts) \subseteq ToSet(Sent(c, ts))
           /\ Overflows(c, ts) \in BOOLEAN
  <1> DEFINE x == c \o ts
             k == Min({Queue, Len(c) + Len(ts)})
             s == Sent(c, ts)
  <1>1. /\ x \in Seq(Tasks) /\ Len(x) = Len(c) + Len(ts)
        /\ \A i \in 1..(Len(c) + Len(ts)) : x[i] = IF i <= Len(c) THEN c[i] ELSE ts[i - Len(c)]
    BY ConcatProperties
  <1>2. /\ DOMAIN x = 1..Len(x) /\ DOMAIN c = 1..Len(c) /\ Len(c) \in Nat /\ Len(ts) \in Nat
    BY <1>1, LenProperties
  <1>3. k = IF Queue <= Len(c) + Len(ts) THEN Queue ELSE Len(c) + Len(ts)
    <2>1. Queue \in Int /\ Len(c) + Len(ts) \in Int
      BY <1>2, Bounds
    <2>. QED
      BY <2>1, MinOfTwo
  <1>4. k \in Nat /\ k <= Queue /\ k <= Len(x) /\ Len(c) <= k
    BY <1>1, <1>2, <1>3, Bounds
  <1>5. s = SubSeq(x, 1, k)
    BY DEF Sent
  <1>. HIDE DEF x, k, s
  <1>6. \A i \in 1..k : x[i] \in Tasks
    BY <1>1, <1>2, <1>4, ElementOfSeq
  <1>7. /\ s \in Seq(Tasks) /\ Len(s) = (IF 1 <= k THEN k - 1 + 1 ELSE 0)
        /\ \A i \in 1..(k - 1 + 1) : s[i] = x[1 + i - 1]
    <2>1. 1 \in Int /\ k \in Int /\ \A i \in 1..k : x[i] \in Tasks
      BY <1>4, <1>6
    <2>2. /\ SubSeq(x, 1, k) \in Seq(Tasks)
          /\ Len(SubSeq(x, 1, k)) = (IF 1 <= k THEN k - 1 + 1 ELSE 0)
          /\ \A i \in 1..(k - 1 + 1) : SubSeq(x, 1, k)[i] = x[1 + i - 1]
      BY ONLY <2>1, SubSeqProperties
    <2>. QED
      BY <1>5, <2>2
  <1>8. Len(s) = k /\ \A i \in 1..k : s[i] = x[i]
    BY <1>4, <1>7
  <1>9. DOMAIN s = 1..k
    BY <1>7, <1>8, LenProperties
  <1>10. ASSUME NEW e \in ToSet(c)
         PROVE  e \in ToSet(s)
    <2>1. PICK i \in DOMAIN c : c[i] = e
      BY DEF ToSet
    <2>2. i \in 1..k /\ x[i] = c[i]
      BY <1>1, <1>2, <1>4, <2>1
    <2>. QED
      BY <1>8, <1>9, <2>1, <2>2 DEF ToSet
  <1>11. ASSUME ~Overflows(c, ts)
         PROVE  ToSet(ts) \subseteq ToSet(s)
    <2>1. k = Len(x)
      BY <1>1, <1>2, <1>3, <1>11, Bounds DEF Overflows
    <2>2. s = x
      BY <1>1, <1>5, <2>1, SubSeqFull
    <2>3. ToSet(x) = ToSet(c) \cup ToSet(ts)
      BY SetOfConcat DEF x
    <2>. QED
      BY <2>2, <2>3
  <1>12. Overflows(c, ts) \in BOOLEAN
    BY DEF Overflows
  <1>. QED
    BY <1>4, <1>7, <1>8, <1>10, <1>11, <1>12 DEF s

\* An account is erased only when no document is left to be found.
LEMMA ErasureEnds ==
    ASSUME WInv, UNCHANGED <<status, grace, blobs>>,
           account' = account \/ (account' = "erased" /\ Remaining = {})
    PROVE  /\ CatalogueTyped' /\ AllGone' /\ RestorableIsWhole'
           /\ account = "erasing" => account' = "erasing" \/ \A d \in Docs : ~Awaiting(d)'
           /\ \A d \in Docs : Awaiting(d)' <=> Awaiting(d)
           /\ \A d \in Docs : Awaiting(d) => d \in Remaining /\ account' = account
  <1>1. CatalogueTyped' /\ RestorableIsWhole'
    BY DEF WInv, CatalogueTyped, RestorableIsWhole
  <1>2. \A d \in Docs : Awaiting(d)' <=> Awaiting(d)
    BY DEF Awaiting
  <1>3. \A d \in Docs : Awaiting(d) => d \in Remaining /\ account' = account
    BY DEF Awaiting, Remaining
  <1>4. AllGone'
    BY DEF WInv, AllGone, Remaining
  <1>. QED
    BY <1>1, <1>2, <1>3, <1>4

\* An account's walk that fails is armed again or its refusal noted.
LEMMA EraseFailsKeeps ==
    ASSUME WInv, EraseFails
    PROVE  WInv'
  <1>1. /\ Failing /\ pc = "task" /\ UNCHANGED <<status, grace, blobs>>
        /\ asks' = asks /\ late' = late /\ quiet' = quiet
        /\ startup' = startup /\ requests' = requests
        /\ account' = account \/ (account' = "erased" /\ Remaining = {})
    BY DEF EraseFails, callers
  <1>2. task \in Tasks
    BY <1>1 DEF WInv, Phases
  <1>3. /\ CatalogueTyped' /\ AllGone' /\ RestorableIsWhole'
        /\ account = "erasing" => account' = "erasing" \/ \A d \in Docs : ~Awaiting(d)'
        /\ \A d \in Docs : Awaiting(d)' <=> Awaiting(d)
    BY <1>1, ErasureEnds
  <1>. QED
    BY <1>1, <1>2, <1>3, FailingEnds

\* A page of an account's walk queues its documents and goes on behind the last.
LEMMA RunEraseKeeps ==
    ASSUME WInv, RunErase
    PROVE  WInv'
  <1> DEFINE left == {d \in Remaining : d > task.id}
             D == Clear(deadlines, task)
  <1>1. PICK page \in IF account = "erasing" THEN Pages(left) ELSE {<< >>} :
            LET wake == [i \in DOMAIN page |-> Delete(page[i])]
                            \o (IF Len(page) = Page THEN <<EraseAccount(Last(page))>> ELSE << >>)
            IN  /\ Done(Sent(chan, wake), local, D, rescan \/ Overflows(chan, wake), sweepAfter)
                /\ quiet' = quiet \ ToSet(page)
    BY DEF RunErase
  <1>2. /\ pc = "task" /\ task.kind = "erase" /\ UNCHANGED <<status, grace, blobs>>
        /\ asks' = asks /\ late' = late /\ requests' = requests /\ faults' = faults
        /\ startup' = startup
        /\ account' = account \/ (account' = "erased" /\ Remaining = {})
    BY DEF RunErase
  <1> DEFINE ds == [i \in DOMAIN page |-> Delete(page[i])]
             more == IF Len(page) = Page THEN <<EraseAccount(Last(page))>> ELSE << >>
             wake == ds \o more
             c == Sent(chan, wake)
             bit == rescan \/ Overflows(chan, wake)
  <1>3. /\ CatalogueTyped' /\ AllGone' /\ RestorableIsWhole'
        /\ account = "erasing" => account' = "erasing" \/ \A d \in Docs : ~Awaiting(d)'
        /\ \A d \in Docs : Awaiting(d)' <=> Awaiting(d)
        /\ \A d \in Docs : Awaiting(d) => d \in Remaining /\ account' = account
    BY <1>2, ErasureEnds
  <1>4. /\ chan \in Seq(Tasks) /\ Len(chan) <= Queue /\ local \in Seq(Tasks)
        /\ rescan \in BOOLEAN /\ sweepAfter \in 0..Ceiling
        /\ startup' \in BOOLEAN /\ quiet' \subseteq Docs /\ faults' \in 0..MaxFaults
        /\ faults \in Nat
    BY <1>1, <1>2, Bounds DEF WInv, WorkerTyped
  <1>5. Scheduled(D, faults') /\ Keeps(deadlines, D)
    <2>1. Scheduled(deadlines, faults)
      BY DEF WInv
    <2>2. Scheduled(D, faults) /\ Armed(D) = Armed(deadlines) /\ D.refusal = deadlines.refusal
      BY <1>4, <2>1, ClearKeeps
    <2>. QED
      BY <1>2, <2>2 DEF Keeps
  <1>6. left \in SUBSET Docs
    BY DEF Remaining
  <1>. HIDE DEF left
  <1>7. /\ page \in Seq(Docs) /\ (Len(page) # 0 => Last(page) \in Docs)
        /\ account = "erasing" =>
            \A d \in left \ ToSet(page) : Len(page) = Page /\ Last(page) \in Docs /\ Last(page) < d
    <2>1. CASE account = "erasing"
      BY <1>1, <1>6, <2>1, PageParts
    <2>2. CASE account # "erasing"
      <3>1. page = << >>
        BY <1>1, <2>2
      <3>2. << >> \in Seq(Docs) /\ Len(<< >>) = 0
        BY SetOfNone
      <3>. QED
        BY <2>2, <3>1, <3>2
    <2>. QED
      BY <2>1, <2>2
  <1>8. ds \in Seq(Tasks) /\ \A d \in ToSet(page) : Delete(d) \in ToSet(ds)
    BY <1>7, DeletesMade
  <1>9. more \in Seq(Tasks) /\ (Len(page) = Page => EraseAccount(Last(page)) \in ToSet(more))
    <2>1. CASE Len(page) = Page
      <3>1. Last(page) \in Docs
        BY <1>7, <2>1, Bounds
      <3>2. EraseAccount(Last(page)) \in Tasks
        BY <3>1, TasksMade
      <3>. QED
        BY <2>1, <3>2, SetOfOne
    <2>2. CASE Len(page) # Page
      BY <2>2, SetOfNone
    <2>. QED
      BY <2>1, <2>2
  <1>10. Done(c, local, D, bit, sweepAfter) /\ quiet' = quiet \ ToSet(page)
    BY <1>1
  <1>. HIDE DEF ds, more, D
  <1>11. wake \in Seq(Tasks) /\ ToSet(wake) = ToSet(ds) \cup ToSet(more)
    BY <1>8, <1>9, SetOfConcat
  <1>. HIDE DEF wake
  <1>12. /\ c \in Seq(Tasks) /\ Len(c) <= Queue /\ ToSet(chan) \subseteq ToSet(c)
         /\ Overflows(chan, wake) \/ ToSet(wake) \subseteq ToSet(c)
         /\ Overflows(chan, wake) \in BOOLEAN
    BY <1>4, <1>11, SentKeeps
  <1>13. bit \in BOOLEAN /\ (rescan => bit) /\ (bit \/ ToSet(wake) \subseteq ToSet(c))
    BY <1>4, <1>12
  <1>. HIDE DEF c, bit
  <1>14. ASSUME NEW d \in Docs \ quiet', Awaiting(d)'
         PROVE  Remembered(d) \/ Ahead(c, local, D, bit, account', d)
    <2>1. CASE d \in ToSet(page)
      <3>1. bit \/ Delete(d) \in Queues(c, local, D)
        BY <1>8, <1>11, <1>13, <2>1 DEF Queues
      <3>2. Reaches(account', Delete(d), d)
        BY FromTheStart
      <3>. QED
        BY <3>1, <3>2 DEF Ahead
    <2>2. CASE d \notin ToSet(page)
      <3>1. Remembered(d) \/ Reaches(account, task, d)
        BY <1>3, <1>10, <1>14, <2>2 DEF WInv, WorkReminded
      <3>2. ASSUME Reaches(account, task, d)
            PROVE  Ahead(c, local, D, bit, account', d)
        <4>1. PICK a \in 0..(d - 1) : task = EraseAccount(a) /\ account = "erasing"
          BY <1>2, <3>2, Kinds DEF Reaches
        <4>2. task.id = a /\ a < d
          BY <4>1, Kinds DEF Docs
        <4>3. d \in left /\ account' = "erasing"
          BY <1>3, <1>14, <4>1, <4>2 DEF left
        <4>4. Last(page) \in Docs /\ Last(page) < d /\ Len(page) = Page
          BY <1>7, <2>2, <4>1, <4>3
        <4>5. Last(page) \in 0..(d - 1)
          BY <4>4, Bounds DEF Docs
        <4>6. Reaches(account', EraseAccount(Last(page)), d)
          BY <4>3, <4>5 DEF Reaches
        <4>7. bit \/ EraseAccount(Last(page)) \in Queues(c, local, D)
          BY <1>9, <1>11, <1>13, <4>4 DEF Queues
        <4>. QED
          BY <4>6, <4>7 DEF Ahead
      <3>. QED
        BY <3>1, <3>2
    <2>. QED
      BY <2>1, <2>2
  <1>15. task # SweepOrphans
    BY <1>2, Kinds
  <1>. QED
    BY <1>2, <1>3, <1>4, <1>5, <1>10, <1>12, <1>13, <1>14, <1>15, OrdinaryEnd

-----------------------------------------------------------------------------
(* The deletion of a document *)

\* A deletion leads to its own document only.
LEMMA DeleteReaches ==
    ASSUME NEW acc, NEW d \in Docs, NEW e \in Docs
    PROVE  Reaches(acc, Delete(d), e) <=> d = e
  BY Kinds DEF Reaches

\* A step in the middle of a task.
LEMMA StillKeeps ==
    ASSUME WInv, UNCHANGED <<callers, queues, sweepAfter, startup, task, faults, requests>>,
           pc # "start", pc' \in Steps, Phases',
           CatalogueTyped', AllGone', RestorableIsWhole', account' = account,
           \A d \in Docs : Awaiting(d)' => Awaiting(d),
           pc' = "claim" => \A d \in Docs : task = Delete(d) => Claimable(d)'
    PROVE  WInv'
  <1>1. /\ chan' = chan /\ rescan' = rescan /\ local' = local /\ deadlines' = deadlines
        /\ asks' = asks /\ late' = late /\ quiet' = quiet /\ sweepAfter' = sweepAfter
        /\ startup' = startup /\ task' = task /\ faults' = faults /\ requests' = requests
    BY DEF callers, queues
  <1>2. WorkerTyped' /\ Scheduled(deadlines', faults')
    BY <1>1 DEF WInv, WorkerTyped
  <1>3. SweepOwed'
    BY <1>1 DEF WInv, SweepOwed, PassOwed, Pending
  <1>4. \A d \in Docs : Remembered(d) => Remembered(d)'
    BY <1>1 DEF Remembered, PassOwed, Reminders
  <1>5. WorkReminded'
    BY <1>1, <1>4 DEF WInv, WorkReminded
  <1>6. ClaimReminded'
    BY <1>1 DEF ClaimReminded
  <1>. QED
    BY <1>2, <1>3, <1>5, <1>6 DEF WInv

\* A deletion reads its row: it goes on, waits for the grace, or has nothing to do.
LEMMA ReadDocumentKeeps ==
    ASSUME WInv, NEW d \in Docs, ReadDocument(d)
    PROVE  WInv'
  <1>1. /\ pc = "task" /\ task = Delete(d) /\ UNCHANGED catalogue
        /\ asks' = asks /\ late' = late /\ quiet' = quiet
        /\ startup' = startup /\ requests' = requests /\ faults' = faults
    BY DEF ReadDocument, MayDelete, callers
  <1>2. /\ CatalogueTyped' /\ AllGone' /\ RestorableIsWhole'
        /\ account' = account /\ \A e \in Docs : Awaiting(e)' <=> Awaiting(e)
    BY <1>1, SameCatalogue
  <1>3. /\ chan \in Seq(Tasks) /\ Len(chan) <= Queue /\ local \in Seq(Tasks)
        /\ rescan \in BOOLEAN /\ sweepAfter \in 0..Ceiling
        /\ startup' \in BOOLEAN /\ quiet' \subseteq Docs /\ faults' \in 0..MaxFaults
        /\ faults \in Nat /\ task \in Tasks /\ task # SweepOrphans
    BY <1>1, Bounds, TasksMade, Kinds DEF WInv, WorkerTyped
  <1>4. Scheduled(deadlines, faults) /\ WorkReminded
    BY DEF WInv
  <1>5. ASSUME NEW e \in Docs \ quiet', Awaiting(e)', e # d
        PROVE  Remembered(e)
    <2>1. Remembered(e) \/ Reaches(account, task, e)
      BY <1>1, <1>2, <1>4, <1>5 DEF WorkReminded
    <2>. QED
      BY <1>1, <1>5, <2>1, DeleteReaches
  <1>6. CASE ~Awaiting(d) /\ Done(chan, local, Clear(deadlines, task), rescan, sweepAfter)
    <2> DEFINE D == Clear(deadlines, task)
    <2>1. Scheduled(D, faults) /\ Armed(D) = Armed(deadlines) /\ D.refusal = deadlines.refusal
      BY <1>3, <1>4, ClearKeeps
    <2>. HIDE DEF D
    <2>2. Scheduled(D, faults') /\ Keeps(deadlines, D)
      BY <1>1, <2>1 DEF Keeps
    <2>3. \A e \in Docs \ quiet' : Awaiting(e)' => Remembered(e)
      BY <1>2, <1>5, <1>6
    <2>4. Done(chan, local, D, rescan, sweepAfter)
      BY <1>6 DEF D
    <2>. QED
      BY <1>1, <1>2, <1>3, <2>2, <2>3, <2>4, OrdinaryEnd
  <1>7. CASE /\ status[d] = "deleting" /\ grace[d] > 0
             /\ Done(chan, local, Clear(At(deadlines, task, grace[d]), task), rescan, sweepAfter)
    <2> DEFINE A == At(deadlines, task, grace[d])
               D == Clear(A, task)
    <2>1. grace[d] \in 0..Furthest
      <3>1. grace[d] \in 0..Grace
        BY DEF WInv, CatalogueTyped
      <3>. QED
        BY <3>1, Bounds
    <2>2. Scheduled(A, faults) /\ Keeps(deadlines, A) /\ Noted(A, task)
      BY <1>3, <1>4, <2>1, AtKeeps
    <2>. HIDE DEF A
    <2>3. Scheduled(D, faults) /\ Armed(D) = Armed(A) /\ D.refusal = A.refusal
      BY <1>3, <2>2, ClearKeeps
    <2>. HIDE DEF D
    <2>4. Scheduled(D, faults') /\ Keeps(deadlines, D) /\ Noted(D, task)
      BY <1>1, <2>2, <2>3 DEF Keeps, Noted
    <2>5. Done(chan, local, D, rescan, sweepAfter)
      BY <1>7 DEF D, A
    <2>6. Ahead(chan, local, D, rescan, account', d)
      <3>1. D.refusal # Never \/ task \in Queues(chan, local, D)
        BY <2>4 DEF Noted, Queues
      <3>2. Reaches(account', task, d)
        BY <1>1, DeleteReaches
      <3>. QED
        BY <3>1, <3>2 DEF Ahead
    <2>7. \A e \in Docs \ quiet' :
            Awaiting(e)' => Remembered(e) \/ Ahead(chan, local, D, rescan, account', e)
      BY <1>5, <2>6
    <2>. QED
      BY <1>1, <1>2, <1>3, <2>4, <2>5, <2>7, OrdinaryEnd
  <1>8. CASE /\ \/ status[d] = "deleting" /\ grace[d] = 0 /\ pc' = "claim"
                \/ status[d] = "purging" /\ pc' = "purge"
             /\ UNCHANGED <<queues, sweepAfter, task>>
    <2>1. UNCHANGED <<callers, queues, sweepAfter, startup, task, faults, requests>>
      BY <1>8 DEF ReadDocument
    <2>2. task.id = d /\ status' = status /\ grace' = grace /\ task' = task
      BY <1>1, <1>8, Kinds DEF catalogue
    <2>3. Phases'
      BY <1>1, <1>8, <2>2 DEF Phases
    <2>4. pc' = "claim" => \A e \in Docs : task = Delete(e) => Claimable(e)'
      BY <1>1, <1>8, <2>2, Kinds DEF Claimable
    <2>5. pc' \in Steps /\ pc # "start"
      BY <1>1, <1>8 DEF Steps
    <2>. QED
      BY <1>2, <2>1, <2>3, <2>4, <2>5, StillKeeps
  <1>. QED
    BY <1>6, <1>7, <1>8 DEF ReadDocument

\* A claim succeeds, or loses to what happened to the document meanwhile.
LEMMA ClaimPurgeKeeps ==
    ASSUME WInv, NEW d \in Docs, ClaimPurge(d)
    PROVE  WInv'
  <1>1. /\ pc = "claim" /\ task = Delete(d) /\ task.id = d
        /\ UNCHANGED <<grace, blobs, account, callers, startup, faults, requests>>
    BY Kinds DEF ClaimPurge
  <1>2. /\ asks' = asks /\ late' = late /\ quiet' = quiet
        /\ startup' = startup /\ requests' = requests /\ faults' = faults /\ account' = account
    BY <1>1 DEF callers
  <1>3. CASE /\ Claimable(d) /\ status' = [status EXCEPT ![d] = "purging"] /\ pc' = "purge"
             /\ UNCHANGED <<queues, sweepAfter, task>>
    <2>1. CatalogueTyped'
      BY <1>1, <1>3 DEF WInv, CatalogueTyped, Statuses
    <2>2. AllGone'
      BY <1>1, <1>3 DEF WInv, AllGone, Claimable, CatalogueTyped
    <2>3. RestorableIsWhole'
      BY <1>1, <1>3 DEF WInv, RestorableIsWhole, CatalogueTyped
    <2>4. \A e \in Docs : Awaiting(e)' => Awaiting(e)
      BY <1>3 DEF Awaiting, Claimable, WInv, CatalogueTyped
    <2>5. Phases' /\ pc' \in Steps /\ pc # "start"
      <3>1. status'[d] = "purging" /\ task' = task
        BY <1>3 DEF WInv, CatalogueTyped
      <3>. QED
        BY <1>1, <1>3, <3>1 DEF Phases, Steps
    <2>6. UNCHANGED <<callers, queues, sweepAfter, startup, task, faults, requests>>
      BY <1>1, <1>3
    <2>7. pc' # "claim"
      BY <1>3
    <2>. QED
      BY <1>2, <2>1, <2>2, <2>3, <2>4, <2>5, <2>6, <2>7, StillKeeps
  <1>4. CASE /\ ~Claimable(d) /\ UNCHANGED status
             /\ Done(chan, local, Clear(deadlines, task), rescan, sweepAfter)
    <2> DEFINE D == Clear(deadlines, task)
    <2>1. UNCHANGED catalogue
      BY <1>1, <1>4 DEF catalogue
    <2>2. /\ CatalogueTyped' /\ AllGone' /\ RestorableIsWhole'
          /\ \A e \in Docs : Awaiting(e)' <=> Awaiting(e)
      BY <2>1, SameCatalogue
    <2>3. /\ chan \in Seq(Tasks) /\ Len(chan) <= Queue /\ local \in Seq(Tasks)
          /\ rescan \in BOOLEAN /\ sweepAfter \in 0..Ceiling
          /\ startup' \in BOOLEAN /\ quiet' \subseteq Docs /\ faults' \in 0..MaxFaults
          /\ faults \in Nat /\ task \in Tasks /\ task # SweepOrphans
      BY <1>1, <1>2, Bounds, TasksMade, Kinds DEF WInv, WorkerTyped
    <2>4. Scheduled(deadlines, faults)
      BY DEF WInv
    <2>5. Scheduled(D, faults) /\ Armed(D) = Armed(deadlines) /\ D.refusal = deadlines.refusal
      BY <2>3, <2>4, ClearKeeps
    <2>. HIDE DEF D
    <2>6. Scheduled(D, faults') /\ Keeps(deadlines, D)
      BY <1>2, <2>5 DEF Keeps
    <2>7. ASSUME NEW e \in Docs \ quiet', Awaiting(e)'
          PROVE  Remembered(e)
      <3>1. Remembered(e) \/ Reaches(account, task, e)
        BY <1>2, <2>2, <2>7 DEF WInv, WorkReminded
      <3>2. CASE e = d
        BY <1>1, <1>2, <1>4, <2>2, <2>7, <3>2 DEF WInv, ClaimReminded
      <3>3. CASE e # d
        BY <1>1, <3>1, <3>3, DeleteReaches
      <3>. QED
        BY <3>2, <3>3
    <2>8. Done(chan, local, D, rescan, sweepAfter)
      BY <1>4 DEF D
    <2>. QED
      BY <1>1, <1>2, <2>2, <2>3, <2>6, <2>7, <2>8, OrdinaryEnd
  <1>. QED
    BY <1>3, <1>4 DEF ClaimPurge

\* Objects are removed only of a document that can no longer be restored.
LEMMA PurgeBlobsKeeps ==
    ASSUME WInv, NEW d \in Docs, PurgeBlobs(d)
    PROVE  WInv'
  <1>1. /\ pc = "purge" /\ task = Delete(d) /\ task.id = d
        /\ blobs' = blobs \ {d} /\ pc' = "finish"
        /\ status' = status /\ grace' = grace /\ account' = account /\ task' = task
        /\ UNCHANGED <<callers, queues, sweepAfter, startup, task, faults, requests>>
    BY Kinds DEF PurgeBlobs
  <1>2. status[d] = "purging"
    BY <1>1 DEF WInv, Phases
  <1>3. CatalogueTyped' /\ AllGone'
    BY <1>1 DEF WInv, CatalogueTyped, AllGone
  <1>4. RestorableIsWhole'
    BY <1>1, <1>2 DEF WInv, RestorableIsWhole
  <1>5. Phases' /\ pc' \in Steps /\ pc # "start" /\ pc' # "claim"
    BY <1>1, <1>2 DEF Phases, Steps
  <1>6. \A e \in Docs : Awaiting(e)' => Awaiting(e)
    BY <1>1 DEF Awaiting
  <1>. QED
    BY <1>1, <1>3, <1>4, <1>5, <1>6, StillKeeps

\* The last of a deletion, done or not when a call of it fails.
LEMMA RowGone ==
    ASSUME WInv, NEW d \in Docs, status[d] = "purging", UNCHANGED <<grace, blobs, account>>,
           RowDeleted(d)
    PROVE  /\ CatalogueTyped' /\ AllGone' /\ RestorableIsWhole'
           /\ ~Awaiting(d)' /\ \A e \in Docs : Awaiting(e)' => Awaiting(e)
  <1>1. status' = [status EXCEPT ![d] = "gone"] /\ status \in [Docs -> Statuses]
    BY DEF RowDeleted, WInv, CatalogueTyped
  <1>2. status'[d] = "gone" /\ \A e \in Docs \ {d} : status'[e] = status[e]
    BY <1>1
  <1>3. CatalogueTyped'
    BY <1>1 DEF WInv, CatalogueTyped, Statuses
  <1>4. AllGone'
    BY <1>2 DEF WInv, AllGone
  <1>5. RestorableIsWhole'
    BY <1>2 DEF WInv, RestorableIsWhole
  <1>. QED
    BY <1>2, <1>3, <1>4, <1>5 DEF Awaiting

\* The row of a purged document goes, and its owner's erasure is asked for.
LEMMA FinishDeletionKeeps ==
    ASSUME WInv, NEW d \in Docs, FinishDeletion(d)
    PROVE  WInv'
  <1> DEFINE ask == <<EraseAccount(Nil)>>
             c == Sent(chan, ask)
             bit == rescan \/ Overflows(chan, ask)
             D == RemoveDeadline(deadlines, task)
  <1>1. /\ pc = "finish" /\ task = Delete(d) /\ task.id = d /\ RowDeleted(d)
        /\ Done(c, local, D, bit, sweepAfter)
        /\ UNCHANGED <<grace, blobs, account>>
        /\ asks' = asks /\ late' = late /\ quiet' = quiet
        /\ startup' = startup /\ requests' = requests /\ faults' = faults
    BY Kinds DEF FinishDeletion, callers
  <1>2. status[d] = "purging"
    BY <1>1 DEF WInv, Phases
  <1>3. /\ CatalogueTyped' /\ AllGone' /\ RestorableIsWhole'
        /\ ~Awaiting(d)' /\ \A e \in Docs : Awaiting(e)' => Awaiting(e)
    BY <1>1, <1>2, RowGone
  <1>4. /\ chan \in Seq(Tasks) /\ Len(chan) <= Queue /\ local \in Seq(Tasks)
        /\ rescan \in BOOLEAN /\ sweepAfter \in 0..Ceiling
        /\ startup' \in BOOLEAN /\ quiet' \subseteq Docs /\ faults' \in 0..MaxFaults
        /\ faults \in Nat
    BY <1>1, Bounds DEF WInv, WorkerTyped
  <1>5. ask \in Seq(Tasks)
    BY TasksMade, SetOfOne
  <1>. HIDE DEF ask
  <1>6. /\ c \in Seq(Tasks) /\ Len(c) <= Queue /\ ToSet(chan) \subseteq ToSet(c)
        /\ Overflows(chan, ask) \in BOOLEAN
    BY <1>4, <1>5, SentKeeps
  <1>7. bit \in BOOLEAN /\ (rescan => bit)
    BY <1>4, <1>6
  <1>8. /\ Scheduled(D, faults') /\ Armed(D) = Armed(deadlines) \ {Delete(d)}
        /\ D.refusal = deadlines.refusal
    <2>1. Scheduled(deadlines, faults)
      BY DEF WInv
    <2>. QED
      BY <1>1, <1>4, <2>1, RemoveKeeps
  <1>. HIDE DEF c, bit, D
  <1>9. \A t \in ToSet(chan) \cup ToSet(local) \cup Armed(deadlines) :
            t # Delete(d) => t \in Queues(c, local, D)
    BY <1>6, <1>8 DEF Queues
  <1>10. SweepAhead(c, local, D, bit)
    <2>1. SweepOwed /\ SweepOrphans # Delete(d)
      BY Kinds DEF WInv
    <2>2. SweepOrphans \in ToSet(chan) \cup ToSet(local) \cup Armed(deadlines) \cup {task}
            => bit \/ D.refusal # Never \/ SweepOrphans \in Queues(c, local, D)
      BY <1>1, <1>9, <2>1
    <2>. QED
      BY <1>1, <1>7, <1>8, <2>1, <2>2, SweepAheadOf
  <1>11. ASSUME NEW e \in Docs \ quiet', Awaiting(e)'
         PROVE  Ahead(c, local, D, bit, account', e)
    <2>1. e # d /\ Awaiting(e) /\ e \notin quiet
      BY <1>1, <1>3, <1>11
    <2>2. Remembered(e)
      <3>1. Remembered(e) \/ Reaches(account, task, e)
        BY <2>1 DEF WInv, WorkReminded
      <3>. QED
        BY <1>1, <2>1, <3>1, DeleteReaches
    <2>3. \A t \in ToSet(chan) \cup ToSet(local) \cup Armed(deadlines) :
            Reaches(account, t, e) => bit \/ t \in Queues(c, local, D)
      <3>1. ~Reaches(account, Delete(d), e)
        BY <2>1, DeleteReaches
      <3>. QED
        BY <1>9, <3>1
    <2>. QED
      BY <1>1, <1>7, <1>8, <2>2, <2>3, AheadOf
  <1>. QED
    BY <1>1, <1>3, <1>4, <1>6, <1>7, <1>8, <1>10, <1>11, EndKeeps

\* A deletion that fails at any call is armed again or its refusal noted.
LEMMA DeleteFailsKeeps ==
    ASSUME WInv, NEW d \in Docs, DeleteFails(d)
    PROVE  WInv'
  <1>1. /\ Failing /\ task = Delete(d) /\ task.id = d /\ task \in Tasks /\ pc # "start"
        /\ UNCHANGED <<grace, account>>
        /\ asks' = asks /\ late' = late /\ quiet' = quiet
        /\ startup' = startup /\ requests' = requests
    BY Kinds, TasksMade DEF DeleteFails, MayDelete, callers
  <1>2. status \in [Docs -> Statuses] /\ CatalogueTyped /\ AllGone /\ RestorableIsWhole
    BY DEF WInv, CatalogueTyped
  <1>3. /\ CatalogueTyped' /\ AllGone' /\ RestorableIsWhole'
        /\ \A e \in Docs : Awaiting(e)' => Awaiting(e)
    <2>1. CASE UNCHANGED <<status, blobs>>
      <3>1. UNCHANGED catalogue
        BY <1>1, <2>1 DEF catalogue
      <3>. QED
        BY <3>1, SameCatalogue
    <2>2. CASE Claimable(d) /\ status' = [status EXCEPT ![d] = "purging"] /\ UNCHANGED blobs
      <3>1. CatalogueTyped'
        BY <1>1, <1>2, <2>2 DEF CatalogueTyped, Statuses
      <3>2. AllGone'
        BY <1>1, <1>2, <2>2 DEF AllGone, Claimable
      <3>3. RestorableIsWhole'
        BY <1>2, <2>2 DEF RestorableIsWhole
      <3>. QED
        BY <1>2, <2>2, <3>1, <3>2, <3>3 DEF Awaiting, Claimable
    <2>3. CASE pc = "purge" /\ UNCHANGED status /\ blobs' \in {blobs, blobs \ {d}}
      <3>1. status[d] = "purging"
        BY <1>1, <2>3 DEF WInv, Phases
      <3>2. CatalogueTyped' /\ AllGone'
        BY <1>1, <1>2, <2>3 DEF CatalogueTyped, AllGone
      <3>3. RestorableIsWhole'
        BY <1>2, <2>3, <3>1 DEF RestorableIsWhole
      <3>. QED
        BY <2>3, <3>2, <3>3 DEF Awaiting
    <2>4. CASE pc = "finish" /\ UNCHANGED blobs /\ RowDeleted(d)
      <3>1. status[d] = "purging"
        BY <1>1, <2>4 DEF WInv, Phases
      <3>. QED
        BY <1>1, <2>4, <3>1, RowGone
    <2>. QED
      BY <2>1, <2>2, <2>3, <2>4 DEF DeleteFails
  <1>. QED
    BY <1>1, <1>3, FailingEnds

\* Every step of a deletion keeps the invariant.
LEMMA DeletionKeeps ==
    ASSUME WInv, NEW d \in Docs, Deletion(d)
    PROVE  WInv'
  BY ReadDocumentKeeps, ClaimPurgeKeeps, PurgeBlobsKeeps, FinishDeletionKeeps, DeleteFailsKeeps
     DEF Deletion

-----------------------------------------------------------------------------
(* Taking the next task *)

\* Due tasks are queued in some order, all of them.
LEMMA OrderMade ==
    ASSUME NEW S \in SUBSET Tasks, IsFiniteSet(S), NEW order \in SetToSeqs(S)
    PROVE  order \in Seq(Tasks) /\ S \subseteq ToSet(order)
  <1> DEFINE N == 1..Cardinality(S)
  <1>1. Cardinality(S) \in Nat /\ IsFiniteSet(N) /\ Cardinality(N) = Cardinality(S)
    <2>1. Cardinality(S) \in Nat
      BY FS_CardinalityType
    <2>. QED
      BY <2>1, FS_Interval
  <1>2. order \in [N -> S] /\ \A i, j \in N : i # j => order[i] # order[j]
    BY DEF SetToSeqs
  <1>3. order \in Injection(N, S)
    BY <1>2 DEF Injection, IsInjective
  <1>4. order \in Surjection(N, S)
    BY <1>1, <1>3, FS_Injection
  <1>5. order \in Seq(Tasks)
    BY <1>1, <1>2
  <1>6. \A t \in S : \E i \in DOMAIN order : order[i] = t
    BY <1>2, <1>4 DEF Surjection
  <1>7. S \subseteq ToSet(order)
    BY <1>6 DEF ToSet
  <1>. QED
    BY <1>5, <1>7

\* The worker moves work along without forgetting any of it.
LEMMA MovedOn ==
    ASSUME WInv, account' = account, quiet' = quiet,
           \A d \in Docs : Awaiting(d)' <=> Awaiting(d),
           task = NoTask \/ task' = task,
           Reminders \subseteq Reminders' \cup {task'},
           PassOwed => PassOwed' \/ Scan(Nil) \in Reminders' \cup {task'},
           PassOwed => PassOwed' \/ SweepOrphans \in Reminders' \cup {task'}
    PROVE  SweepOwed' /\ WorkReminded'
  <1>1. \A t : Pending(t) <=> t \in Reminders \cup {task}
    BY DEF Pending, Reminders
  <1>2. \A t : Pending(t)' <=> t \in Reminders' \cup {task'}
    BY DEF Pending, Reminders
  <1>3. SweepOrphans # NoTask /\ \A d \in Docs : ~Reaches(account, NoTask, d)
    BY Kinds DEF Reaches
  <1>4. SweepOwed'
    <2>1. CASE PassOwed
      BY <1>2, <2>1 DEF SweepOwed
    <2>2. CASE SweepOrphans \in Reminders \cup {task}
      BY <1>2, <1>3, <2>2 DEF SweepOwed
    <2>. QED
      BY <1>1, <2>1, <2>2 DEF WInv, SweepOwed
  <1>5. ASSUME NEW d \in Docs \ quiet', Awaiting(d)'
        PROVE  Remembered(d)' \/ Reaches(account', task', d)
    <2>1. Remembered(d) \/ Reaches(account, task, d)
      BY <1>5 DEF WInv, WorkReminded
    <2>2. CASE PassOwed
      <3>1. Reaches(account', Scan(Nil), d)
        BY FromTheStart
      <3>. QED
        BY <2>2, <3>1 DEF Remembered
    <2>3. CASE \E t \in Reminders : Reaches(account, t, d)
      BY <2>3 DEF Remembered
    <2>4. CASE Reaches(account, task, d)
      BY <1>3, <2>4
    <2>. QED
      BY <2>1, <2>2, <2>3, <2>4 DEF Remembered
  <1>. QED
    BY <1>4, <1>5 DEF WorkReminded

\* The worker's first asks put a scan and the sweep on their way.
LEMMA StartKeeps ==
    ASSUME WInv, Start
    PROVE  WInv'
  <1> DEFINE ts == <<Scan(Nil), SweepOrphans>>
             c == Sent(chan, ts)
  <1>1. /\ pc = "start" /\ pc' = "head" /\ chan' = c
        /\ rescan' = (rescan \/ Overflows(chan, ts)) /\ UNCHANGED catalogue
        /\ asks' = asks /\ late' = late /\ quiet' = quiet
        /\ local' = local /\ deadlines' = deadlines /\ sweepAfter' = sweepAfter
        /\ startup' = startup /\ task' = task /\ faults' = faults /\ requests' = requests
    BY DEF Start, callers
  <1>2. /\ CatalogueTyped' /\ AllGone' /\ RestorableIsWhole'
        /\ account' = account /\ \A d \in Docs : Awaiting(d)' <=> Awaiting(d)
    BY <1>1, SameCatalogue
  <1>3. /\ ts \in Seq(Tasks) /\ Scan(Nil) \in ToSet(ts) /\ SweepOrphans \in ToSet(ts)
    <2>1. /\ ts \in Seq(Tasks) /\ DOMAIN ts = 1..2 /\ ts[1] = Scan(Nil) /\ ts[2] = SweepOrphans
      BY TasksMade
    <2>2. 1 \in 1..2 /\ 2 \in 1..2
      OBVIOUS
    <2>. HIDE DEF ts
    <2>. QED
      BY <2>1, <2>2 DEF ToSet
  <1>4. chan \in Seq(Tasks) /\ Len(chan) <= Queue /\ rescan \in BOOLEAN
    BY DEF WInv, WorkerTyped
  <1>. HIDE DEF ts
  <1>5. /\ c \in Seq(Tasks) /\ Len(c) <= Queue /\ ToSet(chan) \subseteq ToSet(c)
        /\ Overflows(chan, ts) \/ ToSet(ts) \subseteq ToSet(c)
        /\ Overflows(chan, ts) \in BOOLEAN
    BY <1>3, <1>4, SentKeeps
  <1>. HIDE DEF c
  <1>6. WorkerTyped'
    BY <1>1, <1>4, <1>5 DEF WInv, WorkerTyped, Steps
  <1>7. Phases' /\ ClaimReminded'
    BY <1>1 DEF WInv, Phases, ClaimReminded
  <1>8. PassOwed' \/ (Scan(Nil) \in Reminders' /\ SweepOrphans \in Reminders')
    BY <1>1, <1>3, <1>5 DEF PassOwed, Reminders
  <1>9. Reminders \subseteq Reminders'
    BY <1>1, <1>5 DEF Reminders
  <1>10. SweepOwed' /\ WorkReminded'
    BY <1>1, <1>2, <1>8, <1>9, MovedOn
  <1>11. Scheduled(deadlines', faults')
    BY <1>1 DEF WInv
  <1>. QED
    BY <1>2, <1>6, <1>7, <1>10, <1>11 DEF WInv

\* The head of the loop takes a local task, or queues those that are due.
LEMMA LoopHeadKeeps ==
    ASSUME WInv, LoopHead
    PROVE  WInv'
  <1> DEFINE S == DueTasks(deadlines) \ ToSet(local)
             F == Fired(deadlines)
  <1>1. PICK order \in SetToSeqs(S) :
            LET l == local \o order
                f == IF RescanDue(deadlines) THEN DueRescan(l, F, rescan, sweepAfter)
                     ELSE [local |-> l, deadlines |-> F, rescan |-> rescan]
            IN  /\ deadlines' = f.deadlines /\ rescan' = f.rescan
                /\ \/ f.local = << >> /\ local' = << >> /\ pc' = "select" /\ task' = task
                   \/ /\ f.local # << >> /\ local' = Tail(f.local)
                      /\ task' = Head(f.local) /\ pc' = "task"
    BY DEF LoopHead
  <1>2. /\ pc = "head" /\ UNCHANGED catalogue /\ chan' = chan
        /\ asks' = asks /\ late' = late /\ quiet' = quiet /\ sweepAfter' = sweepAfter
        /\ startup' = startup /\ faults' = faults /\ requests' = requests
    BY DEF LoopHead, callers
  <1> DEFINE l == local \o order
             f == IF RescanDue(deadlines) THEN DueRescan(l, F, rescan, sweepAfter)
                  ELSE [local |-> l, deadlines |-> F, rescan |-> rescan]
  <1>3. /\ deadlines' = f.deadlines /\ rescan' = f.rescan
        /\ \/ f.local = << >> /\ local' = << >> /\ pc' = "select" /\ task' = task
           \/ /\ f.local # << >> /\ local' = Tail(f.local)
              /\ task' = Head(f.local) /\ pc' = "task"
    BY <1>1
  <1>4. /\ CatalogueTyped' /\ AllGone' /\ RestorableIsWhole'
        /\ account' = account /\ \A d \in Docs : Awaiting(d)' <=> Awaiting(d)
    BY <1>2, SameCatalogue
  <1>5. /\ local \in Seq(Tasks) /\ rescan \in BOOLEAN /\ sweepAfter \in 0..Ceiling
        /\ faults \in Nat /\ Scheduled(deadlines, faults) /\ task = NoTask
    BY <1>2, Bounds DEF WInv, WorkerTyped, Phases
  <1>6. /\ Scheduled(F, faults) /\ Armed(deadlines) \subseteq Armed(F) \cup DueTasks(deadlines)
        /\ F.refusal # deadlines.refusal => RescanDue(deadlines)
    BY <1>5, FiredKeeps
  <1>7. order \in Seq(Tasks) /\ S \subseteq ToSet(order)
    <2>1. S \in SUBSET DOMAIN deadlines.entries
      BY DEF DueTasks, Armed
    <2>2. S \in SUBSET Tasks /\ IsFiniteSet(S)
      BY <1>5, <2>1, FS_Subset DEF Scheduled
    <2>. QED
      BY <2>2, OrderMade
  <1>8. l \in Seq(Tasks) /\ ToSet(l) = ToSet(local) \cup ToSet(order)
    BY <1>5, <1>7, SetOfConcat
  <1>. HIDE DEF F, l
  <1>9. /\ f.local \in Seq(Tasks) /\ Scheduled(f.deadlines, faults) /\ f.rescan \in BOOLEAN
        /\ ToSet(l) \subseteq ToSet(f.local) /\ Keeps(F, f.deadlines) /\ (rescan => f.rescan)
        /\ RescanDue(deadlines) => PassQueued(f.local, f.rescan) /\ SweepKept(f.local, f.deadlines)
    <2>1. CASE RescanDue(deadlines)
      <3>1. f = DueRescan(l, F, rescan, sweepAfter)
        BY <2>1
      <3>. HIDE DEF f
      <3>. QED
        BY <1>5, <1>6, <1>8, <3>1, DueQueued
    <2>2. CASE ~RescanDue(deadlines)
      <3>1. f = [local |-> l, deadlines |-> F, rescan |-> rescan]
        BY <2>2
      <3>. HIDE DEF f
      <3>2. f.local = l /\ f.deadlines = F /\ f.rescan = rescan
        BY <3>1
      <3>. QED
        BY <1>5, <1>6, <1>8, <2>2, <3>2 DEF Keeps
    <2>. QED
      BY <2>1, <2>2
  <1>. HIDE DEF f
  <1>10. /\ local' \in Seq(Tasks) /\ ToSet(f.local) \subseteq ToSet(local') \cup {task'}
         /\ task' \in Tasks \cup {NoTask} /\ pc' \in {"select", "task"}
         /\ (pc' = "select" => task' = NoTask) /\ (pc' = "task" => task' \in Tasks)
    <2>1. CASE f.local = << >> /\ local' = << >> /\ pc' = "select" /\ task' = task
      BY <1>5, <2>1, SetOfNone
    <2>2. CASE f.local # << >> /\ local' = Tail(f.local) /\ task' = Head(f.local) /\ pc' = "task"
      BY <1>9, <2>2, SetOfTail
    <2>. QED
      BY <1>3, <2>1, <2>2
  <1>11. WorkerTyped'
    BY <1>2, <1>3, <1>9, <1>10 DEF WInv, WorkerTyped, Steps
  <1>12. Phases' /\ ClaimReminded'
    BY <1>10 DEF Phases, ClaimReminded
  <1>13. Reminders \subseteq Reminders' \cup {task'}
    <2>1. Armed(deadlines) \subseteq Armed(F) \cup ToSet(local) \cup ToSet(order)
      BY <1>6, <1>7
    <2>2. Armed(F) \subseteq Armed(deadlines')
      BY <1>3, <1>9 DEF Keeps
    <2>3. ToSet(local) \cup ToSet(order) \subseteq ToSet(local') \cup {task'}
      BY <1>8, <1>9, <1>10
    <2>. QED
      BY <1>2, <2>1, <2>2, <2>3 DEF Reminders
  <1>14. PassOwed => PassOwed' \/ RescanDue(deadlines)
    <2>1. late => late'
      BY <1>2
    <2>2. rescan => rescan'
      BY <1>3, <1>9
    <2>3. deadlines.refusal # Never => deadlines'.refusal # Never \/ RescanDue(deadlines)
      BY <1>3, <1>6, <1>9 DEF Keeps
    <2>. QED
      BY <1>2, <2>1, <2>2, <2>3 DEF PassOwed
  <1>15. RescanDue(deadlines) =>
            /\ PassOwed' \/ Scan(Nil) \in Reminders' \cup {task'}
            /\ PassOwed' \/ SweepOrphans \in Reminders' \cup {task'}
    <2>1. PassQueued(f.local, f.rescan) => rescan' \/ Scan(Nil) \in ToSet(local') \cup {task'}
      BY <1>3, <1>10 DEF PassQueued
    <2>2. SweepKept(f.local, f.deadlines) =>
            \/ SweepOrphans \in ToSet(local') \cup {task'} \cup Armed(deadlines')
            \/ deadlines'.refusal # Never
      BY <1>3, <1>10 DEF SweepKept, Noted
    <2>. QED
      BY <1>9, <2>1, <2>2 DEF PassOwed, Reminders
  <1>16. SweepOwed' /\ WorkReminded'
    BY <1>2, <1>4, <1>5, <1>13, <1>14, <1>15, MovedOn
  <1>17. Scheduled(deadlines', faults')
    BY <1>2, <1>3, <1>9
  <1>. QED
    BY <1>4, <1>11, <1>12, <1>16, <1>17 DEF WInv

\* A message from the channel becomes the task in hand.
LEMMA ReceiveKeeps ==
    ASSUME WInv, Receive
    PROVE  WInv'
  <1>1. /\ pc = "select" /\ chan # << >> /\ task' = Head(chan) /\ chan' = Tail(chan)
        /\ pc' = "task" /\ UNCHANGED catalogue
        /\ asks' = asks /\ late' = late /\ quiet' = quiet /\ sweepAfter' = sweepAfter
        /\ rescan' = rescan /\ local' = local /\ deadlines' = deadlines
        /\ startup' = startup /\ faults' = faults /\ requests' = requests
    BY DEF Receive, callers
  <1>2. /\ CatalogueTyped' /\ AllGone' /\ RestorableIsWhole'
        /\ account' = account /\ \A d \in Docs : Awaiting(d)' <=> Awaiting(d)
    BY <1>1, SameCatalogue
  <1>3. chan \in Seq(Tasks) /\ Len(chan) <= Queue /\ Len(chan) \in Nat /\ task = NoTask
    BY <1>1, LenProperties DEF WInv, WorkerTyped, Phases
  <1>4. /\ task' \in Tasks /\ chan' \in Seq(Tasks) /\ Len(chan') <= Queue
        /\ ToSet(chan) \subseteq ToSet(chan') \cup {task'}
    <2>1. /\ Head(chan) \in Tasks /\ Tail(chan) \in Seq(Tasks) /\ Len(Tail(chan)) = Len(chan) - 1
          /\ ToSet(chan) \subseteq {Head(chan)} \cup ToSet(Tail(chan))
      BY <1>1, <1>3, SetOfTail
    <2>. QED
      BY <1>1, <1>3, <2>1, Bounds
  <1>5. WorkerTyped'
    BY <1>1, <1>4 DEF WInv, WorkerTyped, Steps
  <1>6. Phases' /\ ClaimReminded'
    BY <1>1, <1>4 DEF Phases, ClaimReminded
  <1>7. Reminders \subseteq Reminders' \cup {task'}
    BY <1>1, <1>4 DEF Reminders
  <1>8. PassOwed => PassOwed'
    BY <1>1 DEF PassOwed
  <1>9. SweepOwed' /\ WorkReminded'
    BY <1>1, <1>2, <1>3, <1>7, <1>8, MovedOn
  <1>10. Scheduled(deadlines', faults')
    BY <1>1 DEF WInv
  <1>. QED
    BY <1>2, <1>5, <1>6, <1>9, <1>10 DEF WInv

\* Waking for a deadline loses nothing.
LEMMA WakeKeeps ==
    ASSUME WInv, Wake
    PROVE  WInv'
  <1>1. /\ pc = "select" /\ pc' = "head" /\ UNCHANGED catalogue
        /\ UNCHANGED <<callers, queues, sweepAfter, startup, task, faults, requests>>
    BY DEF Wake
  <1>2. /\ CatalogueTyped' /\ AllGone' /\ RestorableIsWhole'
        /\ account' = account /\ \A d \in Docs : Awaiting(d)' <=> Awaiting(d)
    BY <1>1, SameCatalogue
  <1>3. Phases'
    BY <1>1 DEF WInv, Phases
  <1>4. pc' \in Steps /\ pc # "start" /\ pc' # "claim"
    BY <1>1 DEF Steps
  <1>. QED
    BY <1>1, <1>2, <1>3, <1>4, StillKeeps

\* Every step of the loop keeps the invariant.
LEMMA WorkKeeps ==
    ASSUME WInv, Work
    PROVE  WInv'
  BY StartKeeps, LoopHeadKeeps, ReceiveKeeps, WakeKeeps, DroppedKeeps, RunScanKeeps,
     FailsKeeps, RunSweepKeeps, RunEraseKeeps, EraseFailsKeeps, DeletionKeeps DEF Work

-----------------------------------------------------------------------------
(* The callers, the clock and the end of a process *)

\* A step beside the worker: each document that is to be deleted afterwards
\* was so before, with a reminder that is still there, or has a new one.
LEMMA AsideKeeps ==
    ASSUME WInv, CatalogueTyped', WorkerTyped', Scheduled(deadlines', faults'),
           Phases', AllGone', RestorableIsWhole',
           pc' = pc, task' = task, account = "erasing" => account' = "erasing",
           PassOwed => PassOwed', PassOwed' \/ Reminders \subseteq Reminders',
           \A d \in Docs \ quiet' : Awaiting(d)' =>
                \/ d \notin quiet /\ Awaiting(d) /\ (Claimable(d) => Claimable(d)')
                \/ \E t \in asks' : Reaches(account', t, d)
    PROVE  WInv'
  <1>1. \A t, d : Reaches(account, t, d) => Reaches(account', t, d)
    BY DEF Reaches
  <1>2. \A d \in Docs : Remembered(d) => Remembered(d)'
    BY <1>1 DEF Remembered
  <1>3. \A d \in Docs : (\E t \in asks' : Reaches(account', t, d)) => Remembered(d)'
    BY DEF Remembered, Reminders
  <1>4. SweepOwed'
    <2>1. \A t : Pending(t) <=> t \in Reminders \cup {task}
      BY DEF Pending, Reminders
    <2>2. \A t : Pending(t)' <=> t \in Reminders' \cup {task'}
      BY DEF Pending, Reminders
    <2>3. SweepOwed
      BY DEF WInv
    <2>. QED
      BY <2>1, <2>2, <2>3 DEF SweepOwed
  <1>5. WorkReminded'
    <2>1. ASSUME NEW d \in Docs \ quiet', Awaiting(d)'
          PROVE  Remembered(d)' \/ Reaches(account', task', d)
      <3>1. CASE d \notin quiet /\ Awaiting(d)
        <4>1. Remembered(d) \/ Reaches(account, task, d)
          BY <3>1 DEF WInv, WorkReminded
        <4>. QED
          BY <1>1, <1>2, <4>1
      <3>. QED
        BY <1>3, <2>1, <3>1
    <2>. QED
      BY <2>1 DEF WorkReminded
  <1>6. ClaimReminded'
    <2>1. ASSUME NEW d \in Docs \ quiet',
                 pc' = "claim", task' = Delete(d), Awaiting(d)', ~Claimable(d)'
          PROVE  Remembered(d)'
      <3>1. CASE d \notin quiet /\ Awaiting(d) /\ ~Claimable(d)
        <4>1. Remembered(d)
          BY <2>1, <3>1 DEF WInv, ClaimReminded
        <4>. QED
          BY <1>2, <4>1
      <3>. QED
        BY <1>3, <2>1, <3>1
    <2>. QED
      BY <2>1 DEF ClaimReminded
  <1>. QED
    BY <1>4, <1>5, <1>6 DEF WInv

\* A request: the worker's own state is not touched.
LEMMA RequestKeeps ==
    ASSUME WInv, CatalogueTyped', Phases', AllGone', RestorableIsWhole', Request,
           UNCHANGED <<blobs, late, queues, sweepAfter, startup, pc, task, faults>>,
           asks \subseteq asks', asks' \subseteq Tasks, quiet' \subseteq Docs,
           account = "erasing" => account' = "erasing",
           \A d \in Docs \ quiet' : Awaiting(d)' =>
                \/ d \notin quiet /\ Awaiting(d) /\ (Claimable(d) => Claimable(d)')
                \/ \E t \in asks' : Reaches(account', t, d)
    PROVE  WInv'
  <1>1. requests' \in 0..MaxRequests
    BY Bounds DEF Request, WInv, WorkerTyped
  <1>2. /\ chan' = chan /\ rescan' = rescan /\ local' = local /\ deadlines' = deadlines
        /\ late' = late /\ sweepAfter' = sweepAfter
        /\ startup' = startup /\ pc' = pc /\ task' = task /\ faults' = faults
    BY DEF queues
  <1>3. WorkerTyped' /\ Scheduled(deadlines', faults')
    BY <1>1, <1>2 DEF WInv, WorkerTyped
  <1>4. (PassOwed => PassOwed') /\ Reminders \subseteq Reminders'
    BY <1>2 DEF PassOwed, Reminders
  <1>. QED
    BY <1>2, <1>3, <1>4, AsideKeeps

\* Where the worker is does not concern a document that is not being purged.
LEMMA PhasesKept ==
    ASSUME WInv, pc' = pc, task' = task,
           \A d \in Docs : status[d] = "purging" => status'[d] = "purging"
    PROVE  Phases'
  <1>1. pc \in {"purge", "finish"} => task.id \in Docs
    BY Kinds DEF WInv, Phases
  <1>. QED
    BY <1>1 DEF WInv, Phases

\* Moving a document to the trash leaves its caller with the ask to make.
LEMMA MarkDeletingKeeps ==
    ASSUME WInv, NEW d \in Docs, MarkDeleting(d)
    PROVE  WInv'
  <1>1. /\ Request /\ status[d] = "active" /\ status' = [status EXCEPT ![d] = "deleting"]
        /\ grace' = [grace EXCEPT ![d] = Grace] /\ asks' = asks \cup {Delete(d)}
        /\ UNCHANGED <<blobs, late, queues, sweepAfter, startup, pc, task, faults>>
        /\ account' = account /\ quiet' = quiet /\ pc' = pc /\ task' = task /\ blobs' = blobs
    BY DEF MarkDeleting
  <1>2. /\ CatalogueTyped /\ AllGone /\ RestorableIsWhole /\ asks \subseteq Tasks /\ quiet \subseteq Docs
    BY DEF WInv, WorkerTyped
  <1>3. CatalogueTyped'
    BY <1>1, <1>2, Bounds DEF CatalogueTyped, Statuses
  <1>4. AllGone' /\ RestorableIsWhole'
    BY <1>1, <1>2 DEF AllGone, RestorableIsWhole, CatalogueTyped
  <1>5. Phases'
    <2>1. \A e \in Docs : status[e] = "purging" => status'[e] = "purging"
      BY <1>1, <1>2 DEF CatalogueTyped
    <2>. QED
      BY <1>1, <2>1, PhasesKept
  <1>6. asks' \subseteq Tasks
    BY <1>1, <1>2, TasksMade
  <1>7. Delete(d) \in asks' /\ Reaches(account', Delete(d), d)
    BY <1>1, FromTheStart
  <1>8. ASSUME NEW e \in Docs \ quiet', Awaiting(e)', e # d
        PROVE  e \notin quiet /\ Awaiting(e) /\ (Claimable(e) => Claimable(e)')
    <2>1. status'[e] = status[e] /\ grace'[e] = grace[e]
      BY <1>1, <1>2, <1>8 DEF CatalogueTyped
    <2>. QED
      BY <1>1, <1>8, <2>1 DEF Awaiting, Claimable
  <1>. QED
    BY <1>1, <1>2, <1>3, <1>4, <1>5, <1>6, <1>7, <1>8, RequestKeeps

\* Emptying the trash leaves its caller with the ask to make.
LEMMA HastenKeeps ==
    ASSUME WInv, NEW d \in Docs, Hasten(d)
    PROVE  WInv'
  <1>1. /\ Request /\ status' = status
        /\ grace' = [grace EXCEPT ![d] = 0] /\ asks' = asks \cup {Delete(d)}
        /\ UNCHANGED <<blobs, late, queues, sweepAfter, startup, pc, task, faults>>
        /\ account' = account /\ quiet' = quiet \ {d} /\ pc' = pc /\ task' = task /\ blobs' = blobs
    BY DEF Hasten
  <1>2. /\ CatalogueTyped /\ AllGone /\ RestorableIsWhole /\ asks \subseteq Tasks /\ quiet \subseteq Docs
    BY DEF WInv, WorkerTyped
  <1>3. CatalogueTyped' /\ AllGone' /\ RestorableIsWhole'
    BY <1>1, <1>2, Bounds DEF CatalogueTyped, AllGone, RestorableIsWhole
  <1>4. Phases'
    BY <1>1, PhasesKept
  <1>5. asks' \subseteq Tasks
    BY <1>1, <1>2, TasksMade
  <1>6. Delete(d) \in asks' /\ Reaches(account', Delete(d), d)
    BY <1>1, FromTheStart
  <1>7. ASSUME NEW e \in Docs \ quiet', Awaiting(e)', e # d
        PROVE  e \notin quiet /\ Awaiting(e) /\ (Claimable(e) => Claimable(e)')
    <2>1. status'[e] = status[e] /\ grace'[e] = grace[e]
      BY <1>1, <1>2, <1>7 DEF CatalogueTyped
    <2>. QED
      BY <1>1, <1>7, <2>1 DEF Awaiting, Claimable
  <1>. QED
    BY <1>1, <1>2, <1>3, <1>4, <1>5, <1>6, <1>7, RequestKeeps

\* A document that is restored is whole.
LEMMA RestoreKeeps ==
    ASSUME WInv, NEW d \in Docs, Restore(d)
    PROVE  WInv'
  <1>1. /\ Request /\ status[d] = "deleting" /\ status' = [status EXCEPT ![d] = "active"]
        /\ grace' = [grace EXCEPT ![d] = 0] /\ asks' = asks
        /\ UNCHANGED <<blobs, late, queues, sweepAfter, startup, pc, task, faults>>
        /\ account' = account /\ quiet' = quiet \ {d} /\ pc' = pc /\ task' = task /\ blobs' = blobs
    BY DEF Restore
  <1>2. /\ CatalogueTyped /\ AllGone /\ RestorableIsWhole /\ asks \subseteq Tasks /\ quiet \subseteq Docs
    BY DEF WInv, WorkerTyped
  <1>3. CatalogueTyped'
    BY <1>1, <1>2, Bounds DEF CatalogueTyped, Statuses
  <1>4. AllGone' /\ RestorableIsWhole'
    BY <1>1, <1>2 DEF AllGone, RestorableIsWhole, CatalogueTyped
  <1>5. Phases'
    <2>1. \A e \in Docs : status[e] = "purging" => status'[e] = "purging"
      BY <1>1, <1>2 DEF CatalogueTyped
    <2>. QED
      BY <1>1, <2>1, PhasesKept
  <1>6. ~Awaiting(d)'
    BY <1>1, <1>2 DEF Awaiting, CatalogueTyped
  <1>7. ASSUME NEW e \in Docs \ quiet', Awaiting(e)'
        PROVE  e \notin quiet /\ Awaiting(e) /\ (Claimable(e) => Claimable(e)')
    <2>1. e # d
      BY <1>6, <1>7
    <2>2. status'[e] = status[e] /\ grace'[e] = grace[e]
      BY <1>1, <1>2, <2>1 DEF CatalogueTyped
    <2>. QED
      BY <1>1, <1>7, <2>1, <2>2 DEF Awaiting, Claimable
  <1>. QED
    BY <1>1, <1>2, <1>3, <1>4, <1>5, <1>7, RequestKeeps

\* Beginning an erasure moves live documents to the trash and touches no other.
LEMMA MarkedParts ==
    ASSUME WInv, Marked, blobs' = blobs
    PROVE  /\ CatalogueTyped' /\ AllGone' /\ RestorableIsWhole'
           /\ \A d \in Docs : status[d] = "purging" => status'[d] = "purging"
           /\ \A d \in Docs : status[d] # "active" =>
                status'[d] = status[d] /\ grace'[d] = grace[d]
           /\ account' = "erasing" /\ account = "active"
  <1>1. /\ account = "active" /\ account' = "erasing"
        /\ status' = [d \in Docs |-> IF status[d] = "active" THEN "deleting" ELSE status[d]]
        /\ grace' = [d \in Docs |-> IF status[d] = "active" THEN Grace ELSE grace[d]]
    BY DEF Marked
  <1>2. CatalogueTyped /\ RestorableIsWhole
    BY DEF WInv
  <1>3. CatalogueTyped'
    <2>1. status' \in [Docs -> Statuses]
      BY <1>1, <1>2 DEF CatalogueTyped, Statuses
    <2>2. grace' \in [Docs -> 0..Grace]
      BY <1>1, <1>2, Bounds DEF CatalogueTyped
    <2>. QED
      BY <1>1, <1>2, <2>1, <2>2 DEF CatalogueTyped
  <1>4. \A d \in Docs : status'[d] = IF status[d] = "active" THEN "deleting" ELSE status[d]
    BY <1>1
  <1>5. \A d \in Docs : grace'[d] = IF status[d] = "active" THEN Grace ELSE grace[d]
    BY <1>1
  <1>6. AllGone'
    BY <1>1 DEF AllGone
  <1>7. RestorableIsWhole'
    BY <1>2, <1>4 DEF RestorableIsWhole
  <1>. QED
    BY <1>1, <1>3, <1>4, <1>5, <1>6, <1>7

\* An erasure that begins leaves its caller with the ask to make.
LEMMA BeginAccountErasureKeeps ==
    ASSUME WInv, BeginAccountErasure
    PROVE  WInv'
  <1>1. /\ Marked /\ Request /\ asks' = asks \cup {EraseAccount(Nil)}
        /\ UNCHANGED <<blobs, late, queues, sweepAfter, startup, pc, task, faults>>
        /\ quiet' = quiet /\ pc' = pc /\ task' = task /\ blobs' = blobs
    BY DEF BeginAccountErasure, Marked
  <1>2. asks \subseteq Tasks /\ quiet \subseteq Docs
    BY DEF WInv, WorkerTyped
  <1>3. /\ CatalogueTyped' /\ AllGone' /\ RestorableIsWhole'
        /\ \A d \in Docs : status[d] = "purging" => status'[d] = "purging"
        /\ account' = "erasing"
    BY <1>1, MarkedParts
  <1>4. Phases'
    BY <1>1, <1>3, PhasesKept
  <1>5. asks' \subseteq Tasks
    BY <1>1, <1>2, TasksMade
  <1>6. EraseAccount(Nil) \in asks' /\ \A d \in Docs : Reaches(account', EraseAccount(Nil), d)
    BY <1>1, <1>3, FromTheStart
  <1>. QED
    BY <1>1, <1>2, <1>3, <1>4, <1>5, <1>6, RequestKeeps

\* An erasure by another process asks nothing here, and is counted as quiet.
LEMMA OperatorEraseKeeps ==
    ASSUME WInv, OperatorErase
    PROVE  WInv'
  <1>1. /\ Marked /\ Request /\ asks' = asks
        /\ UNCHANGED <<blobs, late, queues, sweepAfter, startup, pc, task, faults>>
        /\ quiet' = quiet \cup {d \in Docs : status[d] = "active"}
        /\ pc' = pc /\ task' = task /\ blobs' = blobs
    BY DEF OperatorErase, Marked
  <1>2. asks \subseteq Tasks /\ quiet \subseteq Docs
    BY DEF WInv, WorkerTyped
  <1>3. /\ CatalogueTyped' /\ AllGone' /\ RestorableIsWhole'
        /\ \A d \in Docs : status[d] = "purging" => status'[d] = "purging"
        /\ \A d \in Docs : status[d] # "active" =>
                status'[d] = status[d] /\ grace'[d] = grace[d]
        /\ account' = "erasing"
    BY <1>1, MarkedParts
  <1>4. Phases'
    BY <1>1, <1>3, PhasesKept
  <1>5. quiet' \subseteq Docs
    BY <1>1, <1>2
  <1>6. ASSUME NEW d \in Docs \ quiet', Awaiting(d)'
        PROVE  d \notin quiet /\ Awaiting(d) /\ (Claimable(d) => Claimable(d)')
    <2>1. status[d] # "active" /\ d \notin quiet
      BY <1>1, <1>6
    <2>2. status'[d] = status[d] /\ grace'[d] = grace[d]
      BY <1>3, <2>1
    <2>. QED
      BY <1>6, <2>1, <2>2 DEF Awaiting, Claimable
  <1>. QED
    BY <1>1, <1>2, <1>3, <1>4, <1>5, <1>6, RequestKeeps

\* Every request keeps the invariant.
LEMMA RequestsKeep ==
    ASSUME WInv, Requests
    PROVE  WInv'
  BY MarkDeletingKeeps, HastenKeeps, RestoreKeeps, BeginAccountErasureKeeps, OperatorEraseKeeps
     DEF Requests

\* A caller asks, and remembers that the channel was full.
LEMMA AskKeeps ==
    ASSUME WInv, NEW t \in asks, Ask(t)
    PROVE  WInv'
  <1>1. /\ asks' = asks \ {t} /\ UNCHANGED catalogue
        /\ \/ Len(chan) < Queue /\ chan' = Append(chan, t) /\ late' = late
           \/ late' = TRUE /\ chan' = chan
        /\ quiet' = quiet /\ rescan' = rescan /\ local' = local /\ deadlines' = deadlines
        /\ sweepAfter' = sweepAfter /\ startup' = startup /\ pc' = pc /\ task' = task
        /\ faults' = faults /\ requests' = requests /\ status' = status /\ grace' = grace
    BY DEF Ask, catalogue
  <1>2. /\ CatalogueTyped' /\ AllGone' /\ RestorableIsWhole'
        /\ account' = account /\ \A d \in Docs : Awaiting(d)' <=> Awaiting(d)
    BY <1>1, SameCatalogue
  <1>3. asks \subseteq Tasks /\ chan \in Seq(Tasks) /\ Len(chan) <= Queue /\ Len(chan) \in Nat
    BY LenProperties DEF WInv, WorkerTyped
  <1>4. /\ chan' \in Seq(Tasks) /\ Len(chan') <= Queue
        /\ late' \/ (ToSet(chan) \cup {t} \subseteq ToSet(chan') /\ late' = late)
    <2>1. CASE Len(chan) < Queue /\ chan' = Append(chan, t) /\ late' = late
      <3>1. t \in Tasks
        BY <1>3
      <3>2. /\ Append(chan, t) \in Seq(Tasks) /\ ToSet(Append(chan, t)) = ToSet(chan) \cup {t}
        BY <1>3, <3>1, SetOfAppend
      <3>3. Len(Append(chan, t)) = Len(chan) + 1
        BY <1>3, <3>1, AppendProperties
      <3>. QED
        BY <1>3, <2>1, <3>2, <3>3, Bounds
    <2>2. CASE late' = TRUE /\ chan' = chan
      BY <1>3, <2>2
    <2>. QED
      BY <1>1, <2>1, <2>2
  <1>5. WorkerTyped'
    <2>1. asks' \subseteq Tasks
      BY <1>1, <1>3
    <2>2. late' \in BOOLEAN
      BY <1>1 DEF WInv, WorkerTyped
    <2>. QED
      BY <1>1, <1>4, <2>1, <2>2 DEF WInv, WorkerTyped
  <1>6. Scheduled(deadlines', faults')
    BY <1>1 DEF WInv
  <1>7. Phases'
    BY <1>1, PhasesKept
  <1>8. PassOwed => PassOwed'
    BY <1>1, <1>4 DEF PassOwed
  <1>9. PassOwed' \/ Reminders \subseteq Reminders'
    BY <1>1, <1>4 DEF PassOwed, Reminders
  <1>10. \A d \in Docs : Claimable(d) => Claimable(d)'
    BY <1>1 DEF Claimable
  <1>. QED
    BY <1>1, <1>2, <1>5, <1>6, <1>7, <1>8, <1>9, <1>10, AsideKeeps

\* A caller whose reminder was refused sets the rescan bit.
LEMMA SetRescanKeeps ==
    ASSUME WInv, SetRescan
    PROVE  WInv'
  <1>1. /\ asks' = asks /\ UNCHANGED catalogue /\ late' = FALSE /\ rescan' = TRUE /\ chan' = chan
        /\ quiet' = quiet /\ local' = local /\ deadlines' = deadlines
        /\ sweepAfter' = sweepAfter /\ startup' = startup /\ pc' = pc /\ task' = task
        /\ faults' = faults /\ requests' = requests /\ status' = status /\ grace' = grace
    BY DEF SetRescan, catalogue
  <1>2. /\ CatalogueTyped' /\ AllGone' /\ RestorableIsWhole'
        /\ account' = account /\ \A d \in Docs : Awaiting(d)' <=> Awaiting(d)
    BY <1>1, SameCatalogue
  <1>3. WorkerTyped' /\ Scheduled(deadlines', faults')
    BY <1>1 DEF WInv, WorkerTyped
  <1>4. Phases'
    BY <1>1, PhasesKept
  <1>5. PassOwed'
    BY <1>1 DEF PassOwed
  <1>6. \A d \in Docs : Claimable(d) => Claimable(d)'
    BY <1>1 DEF Claimable
  <1>. QED
    BY <1>1, <1>2, <1>3, <1>4, <1>5, <1>6, AsideKeeps

\* Counting down stops at zero.
LEMMA OneLess ==
    ASSUME NEW n \in Nat, NEW k \in 0..n
    PROVE  Max({k - 1, 0}) \in 0..n /\ (k = 0 => Max({k - 1, 0}) = 0)
  <1>1. k - 1 \in Int
    OBVIOUS
  <1>2. Max({k - 1, 0}) = IF k - 1 >= 0 THEN k - 1 ELSE 0
    BY <1>1, MaxOfTwo
  <1>. QED
    BY <1>2

\* Time only brings deadlines closer.
LEMMA TickKeeps ==
    ASSUME WInv, Tick
    PROVE  WInv'
  <1>1. /\ grace' = [d \in Docs |-> Max({grace[d] - 1, 0})]
        /\ deadlines' = Later(deadlines) /\ sweepAfter' = Max({sweepAfter - 1, 0})
        /\ status' = status /\ blobs' = blobs /\ account' = account
        /\ asks' = asks /\ late' = late /\ quiet' = quiet
        /\ chan' = chan /\ rescan' = rescan /\ local' = local
        /\ startup' = startup /\ pc' = pc /\ task' = task
        /\ faults' = faults /\ requests' = requests
    BY DEF Tick, callers
  <1>2. /\ CatalogueTyped /\ WorkerTyped /\ Scheduled(deadlines, faults)
        /\ AllGone /\ RestorableIsWhole /\ faults \in Nat
    BY Bounds DEF WInv, WorkerTyped
  <1>3. \A d \in Docs : grace'[d] \in 0..Grace /\ (grace[d] = 0 => grace'[d] = 0)
    <2>1. \A d \in Docs : grace[d] \in 0..Grace
      BY <1>2 DEF CatalogueTyped
    <2>. QED
      BY <1>1, <2>1, OneLess, Bounds
  <1>4. CatalogueTyped'
    <2>1. grace' \in [Docs -> 0..Grace]
      BY <1>1, <1>3
    <2>. QED
      BY <1>1, <1>2, <2>1 DEF CatalogueTyped
  <1>5. AllGone' /\ RestorableIsWhole'
    BY <1>1, <1>2 DEF AllGone, RestorableIsWhole
  <1>6. WorkerTyped'
    <2>1. sweepAfter' \in 0..Ceiling
      <3>1. sweepAfter \in 0..Ceiling /\ Ceiling \in Nat
        BY <1>2, Bounds DEF WorkerTyped
      <3>. QED
        BY <1>1, <3>1, OneLess
    <2>. QED
      BY <1>1, <1>2, <2>1 DEF WorkerTyped
  <1>7. Scheduled(deadlines', faults') /\ Keeps(deadlines, deadlines')
    BY <1>1, <1>2, LaterKeeps
  <1>8. Phases'
    BY <1>1, PhasesKept
  <1>9. (PassOwed => PassOwed') /\ Reminders \subseteq Reminders'
    BY <1>1, <1>7 DEF PassOwed, Reminders, Keeps
  <1>10. \A d \in Docs : (Awaiting(d)' => Awaiting(d)) /\ (Claimable(d) => Claimable(d)')
    BY <1>1, <1>3 DEF Awaiting, Claimable
  <1>. QED
    BY <1>1, <1>4, <1>5, <1>6, <1>7, <1>8, <1>9, <1>10, AsideKeeps

\* An empty schedule is within its bounds.
LEMMA NothingScheduled ==
    ASSUME NEW n \in Nat
    PROVE  Scheduled(NoDeadlines, n)
  <1> DEFINE D == NoDeadlines
  <1>1. D = [entries |-> << >>, refusal |-> Never]
    BY DEF NoDeadlines
  <1>2. D.entries = << >> /\ D.refusal = Never
    BY <1>1
  <1>3. DOMAIN << >> = {}
    OBVIOUS
  <1>4. << >> \in [{} -> Entries(n)]
    OBVIOUS
  <1>5. IsFiniteSet({}) /\ Cardinality({}) = 0
    BY FS_EmptySet
  <1>. HIDE DEF D
  <1>. QED
    BY <1>1, <1>2, <1>3, <1>4, <1>5, Bounds DEF Scheduled, D

\* A new process has its two asks before it, whatever rows it finds.
LEMMA FreshKeeps ==
    ASSUME CatalogueTyped', AllGone', RestorableIsWhole', FreshProcess,
           quiet' \subseteq Docs, faults' \in 0..MaxFaults, requests' \in 0..MaxRequests
    PROVE  WInv'
  <1>1. /\ chan' = << >> /\ rescan' = FALSE /\ local' = << >> /\ deadlines' = NoDeadlines
        /\ sweepAfter' = 0 /\ startup' = TRUE /\ pc' = "start" /\ task' = NoTask
        /\ asks' = {} /\ late' = FALSE
    BY DEF FreshProcess
  <1>2. << >> \in Seq(Tasks) /\ Len(<< >>) = 0
    BY SetOfNone
  <1>3. WorkerTyped'
    <2>1. asks' \subseteq Tasks /\ late' \in BOOLEAN /\ rescan' \in BOOLEAN /\ startup' \in BOOLEAN
      BY <1>1
    <2>2. chan' \in Seq(Tasks) /\ Len(chan') <= Queue /\ local' \in Seq(Tasks)
      BY <1>1, <1>2, Bounds
    <2>3. sweepAfter' \in 0..Ceiling
      BY <1>1, Bounds
    <2>4. pc' \in Steps /\ task' \in Tasks \cup {NoTask}
      BY <1>1 DEF Steps
    <2>. QED
      BY <2>1, <2>2, <2>3, <2>4 DEF WorkerTyped
  <1>4. Scheduled(deadlines', faults')
    BY <1>1, Bounds, NothingScheduled
  <1>5. Phases' /\ ClaimReminded'
    BY <1>1 DEF Phases, ClaimReminded
  <1>6. PassOwed'
    BY <1>1 DEF PassOwed
  <1>7. SweepOwed' /\ WorkReminded'
    BY <1>6 DEF SweepOwed, WorkReminded, Remembered
  <1>. QED
    BY <1>3, <1>4, <1>5, <1>7 DEF WInv

\* A crash loses the queues and the schedule, and the new process scans.
LEMMA CrashKeeps ==
    ASSUME WInv, Crash
    PROVE  WInv'
  <1>1. /\ Fault /\ FreshProcess /\ UNCHANGED catalogue /\ quiet' = quiet /\ requests' = requests
    BY DEF Crash
  <1>2. CatalogueTyped' /\ AllGone' /\ RestorableIsWhole'
    BY <1>1, SameCatalogue
  <1>3. quiet' \subseteq Docs /\ faults' \in 0..MaxFaults /\ requests' \in 0..MaxRequests
    BY <1>1, Bounds DEF Fault, WInv, WorkerTyped
  <1>. QED
    BY <1>1, <1>2, <1>3, FreshKeeps

-----------------------------------------------------------------------------
(* The theorems *)

\* The invariant holds when the first process starts.
LEMMA InitWInv == Init => WInv
  <1> SUFFICES ASSUME Init
               PROVE  WInv
    OBVIOUS
  <1>1. /\ Backlog /\ asks = {} /\ late = FALSE /\ quiet = {}
        /\ chan = << >> /\ rescan = FALSE /\ local = << >> /\ deadlines = NoDeadlines
        /\ sweepAfter = 0 /\ startup = TRUE /\ pc = "start" /\ task = NoTask
        /\ faults = 0 /\ requests = 0
    BY DEF Init
  <1>2. CatalogueTyped
    <2>1. /\ status \in [Docs -> {"active", "deleting", "purging"}] /\ account = "active"
          /\ grace = [d \in Docs |-> IF status[d] = "deleting" THEN Grace ELSE 0] /\ blobs = Docs
      BY <1>1 DEF Backlog
    <2>2. grace \in [Docs -> 0..Grace]
      BY <2>1, Bounds
    <2>3. status \in [Docs -> Statuses]
      BY <2>1 DEF Statuses
    <2>. QED
      BY <2>1, <2>2, <2>3 DEF CatalogueTyped
  <1>3. AllGone /\ RestorableIsWhole
    BY <1>1 DEF Backlog, AllGone, RestorableIsWhole
  <1>4. << >> \in Seq(Tasks) /\ Len(<< >>) = 0
    BY SetOfNone
  <1>5. WorkerTyped
    <2>1. /\ asks \subseteq Tasks /\ quiet \subseteq Docs
          /\ late \in BOOLEAN /\ rescan \in BOOLEAN /\ startup \in BOOLEAN
      BY <1>1
    <2>2. chan \in Seq(Tasks) /\ Len(chan) <= Queue /\ local \in Seq(Tasks)
      BY <1>1, <1>4, Bounds
    <2>3. sweepAfter \in 0..Ceiling /\ faults \in 0..MaxFaults /\ requests \in 0..MaxRequests
      BY <1>1, Bounds
    <2>4. pc \in Steps /\ task \in Tasks \cup {NoTask}
      BY <1>1 DEF Steps
    <2>. QED
      BY <2>1, <2>2, <2>3, <2>4 DEF WorkerTyped
  <1>6. Scheduled(deadlines, faults)
    BY <1>1, NothingScheduled
  <1>7. Phases /\ ClaimReminded
    BY <1>1 DEF Phases, ClaimReminded
  <1>8. PassOwed
    BY <1>1 DEF PassOwed
  <1>9. SweepOwed /\ WorkReminded
    BY <1>8 DEF SweepOwed, WorkReminded, Remembered
  <1>. QED
    BY <1>2, <1>3, <1>5, <1>6, <1>7, <1>9 DEF WInv

\* A stutter keeps the invariant.
LEMMA UnchangedKeeps ==
    ASSUME WInv, UNCHANGED vars
    PROVE  WInv'
  <1>1. /\ UNCHANGED catalogue /\ pc' = pc /\ task' = task
        /\ asks' = asks /\ late' = late /\ quiet' = quiet
        /\ chan' = chan /\ rescan' = rescan /\ local' = local /\ deadlines' = deadlines
        /\ sweepAfter' = sweepAfter /\ startup' = startup
        /\ faults' = faults /\ requests' = requests /\ status' = status /\ grace' = grace
    BY DEF vars, catalogue, callers, queues
  <1>2. /\ CatalogueTyped' /\ AllGone' /\ RestorableIsWhole'
        /\ account' = account /\ \A d \in Docs : Awaiting(d)' <=> Awaiting(d)
    BY <1>1, SameCatalogue
  <1>3. WorkerTyped' /\ Scheduled(deadlines', faults')
    BY <1>1 DEF WInv, WorkerTyped
  <1>4. Phases'
    BY <1>1, PhasesKept
  <1>5. (PassOwed => PassOwed') /\ Reminders \subseteq Reminders'
    BY <1>1 DEF PassOwed, Reminders
  <1>6. \A d \in Docs : Claimable(d) => Claimable(d)'
    BY <1>1 DEF Claimable
  <1>. QED
    BY <1>1, <1>2, <1>3, <1>4, <1>5, <1>6, AsideKeeps

\* Every step keeps the invariant.
LEMMA NextKeeps ==
    ASSUME WInv, [Next]_vars
    PROVE  WInv'
  <1>1. CASE Work
    BY <1>1, WorkKeeps
  <1>2. CASE Requests
    BY <1>2, RequestsKeep
  <1>3. CASE Callers
    BY <1>3, SetRescanKeeps, AskKeeps DEF Callers
  <1>4. CASE Tick
    BY <1>4, TickKeeps
  <1>5. CASE Crash
    BY <1>5, CrashKeeps
  <1>6. CASE UNCHANGED vars
    BY <1>6, UnchangedKeeps
  <1>. QED
    BY <1>1, <1>2, <1>3, <1>4, <1>5, <1>6 DEF Next

\* The inductive invariant: what the queues lead to, where the worker is in
\* its task, and what the catalogue says, together.
THEOREM Invariant == Spec => []WInv
  <1>1. WInv /\ [Next]_vars => WInv'
    BY NextKeeps
  <1>. QED
    BY <1>1, InitWInv, PTL DEF Spec

\* Every variable keeps its type; above all the deadline map stays within its
\* capacity and the channel within the queue's.
THEOREM TypeCorrect == Spec => []TypeOK
  <1>1. WInv => TypeOK
    <2> SUFFICES ASSUME WInv
                 PROVE  TypeOK
      OBVIOUS
    <2>1. CatalogueTyped /\ WorkerTyped /\ Scheduled(deadlines, faults)
      BY DEF WInv
    <2>2. 0..faults \subseteq 0..MaxFaults
      BY <2>1, Bounds DEF WorkerTyped
    <2>3. Entries(faults) \subseteq Entry
      BY <2>2 DEF Entries, Entry, Furthest
    <2>4. \A t \in DOMAIN deadlines.entries : deadlines.entries[t] \in Entry
      BY <2>1, <2>3 DEF Scheduled
    <2>5. deadlines.refusal \in {Never} \cup 0..Max({Ceiling, Grace})
      BY <2>1 DEF Scheduled, Furthest
    <2>. QED
      BY <2>1, <2>4, <2>5 DEF TypeOK, CatalogueTyped, WorkerTyped, Scheduled
  <1>. QED
    BY <1>1, Invariant, PTL

\* The orphan sweep, the worker's only clock, is never forgotten, whatever
\* failed, overflowed or was refused on the way.
THEOREM ClockKept == Spec => []SweepOwed
  <1>1. WInv => SweepOwed
    BY DEF WInv
  <1>. QED
    BY <1>1, Invariant, PTL

\* A document the process was asked to delete has a reminder that names it or
\* a pass that has yet to reach it, also when a claim was lost to a
\* restoration and a second deletion.
THEOREM DeletionsReminded == Spec => []Reminded
  <1>1. WInv => Reminded
    <2> SUFFICES ASSUME WInv, NEW d \in Docs \ quiet, Awaiting(d)
                 PROVE  \/ Pending(Delete(d)) \/ PassOwed
                        \/ \E after \in 0..(d - 1) :
                            Pending(Scan(after)) \/ Pending(EraseAccount(after))
      BY DEF Reminded
    <2>1. Remembered(d) \/ Reaches(account, task, d)
      BY DEF WInv, WorkReminded
    <2>2. \A t : Pending(t) <=> t \in Reminders \cup {task}
      BY DEF Pending, Reminders
    <2>3. PassOwed \/ \E t : Pending(t) /\ Reaches(account, t, d)
      BY <2>1, <2>2 DEF Remembered
    <2>. QED
      BY <2>3 DEF Reaches
  <1>. QED
    BY <1>1, Invariant, PTL

\* What is active or can be restored still has its objects, across crashes,
\* lost replies and races between a purge and a restoration.
THEOREM RestorableWhole == Spec => []RestorableIsWhole
  <1>1. WInv => RestorableIsWhole
    BY DEF WInv
  <1>. QED
    BY <1>1, Invariant, PTL

=============================================================================
