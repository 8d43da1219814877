-------------------------- MODULE AssistantProofs --------------------------
(***************************************************************************)
(* Proofs about the assistant, for any number of tasks, events, pending    *)
(* requests and records kept.                                              *)
(***************************************************************************)
EXTENDS Assistant, SequenceTheorems, FiniteSetTheorems, TLAPS

-----------------------------------------------------------------------------
(* The types in full *)

Picture == [seq : Nat, status : Status, input : 0..MaxEvents]
ActiveTask == [id : Tasks \cup {NoTask}, asked : Seq(Request), cancelling : BOOLEAN, timed : BOOLEAN]
InboxEvent == [kind : {"presence"}, browser : BOOLEAN] \cup [kind : {"offline", "fatal"}]
            \cup [kind : {"message", "cancel"}, task : Tasks]
            \cup [kind : {"input"}, task : Tasks, request : Nat, allow : BOOLEAN]

ListLimit == [full : Nat \ {0}, unfinished : Nat, window : Nat]

Typed ==
    /\ limit \in ListLimit
    /\ rec \in [Tasks -> Record] /\ order \in Seq(Tasks)
    /\ disk \in [rec : [Tasks -> Record], order : Seq(Tasks)]
    /\ up \in BOOLEAN /\ connected \in BOOLEAN /\ stopping \in BOOLEAN
    /\ user \in BOOLEAN /\ agent \in BOOLEAN /\ broken \in BOOLEAN
    /\ step \in {"loop", "prompt"} /\ active \in ActiveTask
    /\ ended \in Nat /\ turns \in Nat /\ turn \in Tasks \cup {NoTask}
    /\ stops \in Seq(Terminal) /\ asks \in SUBSET Request
    /\ requests \in SUBSET Tasks /\ events \in 0..MaxEvents
    /\ view \in [Tasks -> Picture]
    /\ delivery \in [Tasks -> {"none", "sent", "uncertain"}]
    /\ ahead \in SUBSET Tasks
    /\ inbox \in Seq(InboxEvent)
    /\ prompted \in [Tasks -> Nat]

-----------------------------------------------------------------------------
(* Records *)

\* A record with another status, number or place is one.
LEMMA RecordParts ==
    ASSUME NEW c \in Record
    PROVE  /\ c.held \in {"no", "full", "evicted"} /\ c.status \in Status /\ c.seq \in Nat
           /\ c.results \in BOOLEAN
  BY DEF Record

\* A record with another status.
LEMMA WithStatus ==
    ASSUME NEW c \in Record, NEW st \in Status
    PROVE  /\ [c EXCEPT !.status = st] \in Record
           /\ [c EXCEPT !.status = st].held = c.held
           /\ [c EXCEPT !.status = st].status = st
           /\ [c EXCEPT !.status = st].seq = c.seq
           /\ [c EXCEPT !.status = st].results = c.results
  BY DEF Record

\* A record with the next number, and its end noted or not.
LEMMA WithNumber ==
    ASSUME NEW c \in Record, NEW b \in BOOLEAN
    PROVE  /\ [c EXCEPT !.seq = @ + 1] \in Record
           /\ [c EXCEPT !.seq = @ + 1].held = c.held
           /\ [c EXCEPT !.seq = @ + 1].status = c.status
           /\ [c EXCEPT !.seq = @ + 1].seq = c.seq + 1
           /\ [c EXCEPT !.seq = @ + 1].results = c.results
           /\ [c EXCEPT !.seq = @ + 1, !.results = b] \in Record
           /\ [c EXCEPT !.seq = @ + 1, !.results = b].held = c.held
           /\ [c EXCEPT !.seq = @ + 1, !.results = b].status = c.status
           /\ [c EXCEPT !.seq = @ + 1, !.results = b].seq = c.seq + 1
           /\ [c EXCEPT !.seq = @ + 1, !.results = b].results = b
  <1>. /\ c.seq + 1 \in Nat
       /\ c = [held |-> c.held, status |-> c.status, seq |-> c.seq, results |-> c.results]
    BY DEF Record
  <1>. QED
    BY DEF Record

\* A record that has left the list.
LEMMA WithHeld ==
    ASSUME NEW c \in Record
    PROVE  /\ [c EXCEPT !.held = "evicted"] \in Record
           /\ [c EXCEPT !.held = "evicted"].held = "evicted"
           /\ [c EXCEPT !.held = "evicted"].status = c.status
           /\ [c EXCEPT !.held = "evicted"].seq = c.seq
           /\ [c EXCEPT !.held = "evicted"].results = c.results
  BY DEF Record

\* The records that stand for nothing.
LEMMA NullsTyped ==
    /\ NoRecord \in Record /\ [NoRecord EXCEPT !.held = "full"] \in Record
    /\ Idle \in ActiveTask /\ Unseen \in Picture /\ Refusal \in Picture
  <1>1. <<>> \in Seq(Request)
    OBVIOUS
  <1>2. "queued" \in Status /\ "failed" \in Status /\ 0 \in 0..MaxEvents
    BY AssistantAssumption DEF Status, Terminal
  <1>. QED
    BY <1>1, <1>2 DEF NoRecord, Record, Idle, ActiveTask, Unseen, Refusal, Picture

\* Task::finish changes the status of one task that has not ended.
LEMMA Finished ==
    ASSUME NEW r \in [Tasks -> Record], NEW t \in Tasks, NEW st \in Status
    PROVE  /\ Finish(r, t, st) \in [Tasks -> Record]
           /\ \A u \in Tasks \ {t} : Finish(r, t, st)[u] = r[u]
           /\ r[t].held # "full" \/ r[t].status \in Terminal => Finish(r, t, st) = r
           /\ ~(r[t].held # "full" \/ r[t].status \in Terminal) => Finish(r, t, st)[t].status = st
           /\ Finish(r, t, st)[t].held = r[t].held /\ Finish(r, t, st)[t].seq = r[t].seq
           /\ Finish(r, t, st)[t].results = r[t].results
  <1> DEFINE c == [r[t] EXCEPT !.status = st]
  <1>1. c \in Record /\ c.status = st /\ c.held = r[t].held /\ c.seq = r[t].seq /\ c.results = r[t].results
    BY WithStatus
  <1>2. CASE r[t].held # "full" \/ r[t].status \in Terminal
    BY <1>2 DEF Finish
  <1>3. CASE ~(r[t].held # "full" \/ r[t].status \in Terminal)
    <2>1. Finish(r, t, st) = [r EXCEPT ![t] = c]
      BY <1>3 DEF Finish
    <2>. QED
      BY <1>1, <1>3, <2>1
  <1>. QED
    BY <1>2, <1>3

\* Task::require_input and Task::resume change the status of one task.
LEMMA Asked ==
    ASSUME NEW r \in [Tasks -> Record], NEW t \in Tasks, NEW q,
           q = RequireInput(r, t) \/ q = Resume(r, t)
    PROVE  /\ q \in [Tasks -> Record]
           /\ \A u \in Tasks \ {t} : q[u] = r[u]
           /\ q[t].held = r[t].held /\ q[t].seq = r[t].seq /\ q[t].results = r[t].results
           /\ r[t].status \in Terminal => q[t].status = r[t].status
           /\ r[t].status # "queued" => q[t].status # "queued"
           /\ r[t].status \notin Terminal => q[t].status \notin Terminal
  <1> DEFINE w(st) == [r[t] EXCEPT !.status = st]
  <1>1. \A st \in {"needs_input", "working"} :
          /\ w(st) \in Record /\ w(st).status = st /\ w(st).held = r[t].held
          /\ w(st).seq = r[t].seq /\ w(st).results = r[t].results
    BY WithStatus DEF Status
  <1>2. \/ q = r
        \/ q = [r EXCEPT ![t] = w("needs_input")] /\ r[t].status \notin Terminal
        \/ q = [r EXCEPT ![t] = w("working")] /\ r[t].status \notin Terminal
    BY DEF RequireInput, Resume, Terminal
  <1>. HIDE DEF w
  <1>. QED
    BY <1>1, <1>2 DEF Terminal

\* persist_report: the numbers go up by one.
LEMMA NumbersMade ==
    ASSUME NEW r \in [Tasks -> Record], NEW ts \in SUBSET Tasks
    PROVE  /\ Numbers(r, ts) \in [Tasks -> Record]
           /\ \A t \in Tasks :
                /\ Numbers(r, ts)[t].held = r[t].held /\ Numbers(r, ts)[t].status = r[t].status
                /\ t \notin ts => Numbers(r, ts)[t] = r[t]
                /\ t \in ts => Numbers(r, ts)[t].seq = r[t].seq + 1
                /\ t \in ts /\ r[t].status \notin Terminal /\ r[t].results = FALSE =>
                      Numbers(r, ts)[t].results = FALSE
  <1> DEFINE b(t) == r[t].results \/ r[t].status \in Terminal
             new(t) == [r[t] EXCEPT !.seq = @ + 1, !.results = b(t)]
  <1>1. \A t \in Tasks : Numbered(r, t)[t] = new(t)
    BY DEF Numbered
  <1>2. \A t \in Tasks : /\ new(t) \in Record /\ new(t).held = r[t].held
                         /\ new(t).status = r[t].status /\ new(t).seq = r[t].seq + 1
                         /\ new(t).results = b(t)
    <2>. TAKE t \in Tasks
    <2>1. r[t] \in Record /\ b(t) \in BOOLEAN
      OBVIOUS
    <2>2. r[t].seq + 1 \in Nat
      BY <2>1, RecordParts
    <2>3. ASSUME NEW e \in BOOLEAN
          PROVE  LET n == [r[t] EXCEPT !.seq = @ + 1, !.results = e]
                 IN  /\ n \in Record /\ n.held = r[t].held /\ n.status = r[t].status
                     /\ n.seq = r[t].seq + 1 /\ n.results = e
      BY <2>1, <2>2 DEF Record
    <2>. HIDE DEF b
    <2>. QED
      BY <2>1, <2>3
  <1>3. \A t \in Tasks : r[t].status \notin Terminal /\ r[t].results = FALSE => b(t) = FALSE
    BY Zenon
  <1>. HIDE DEF new, b
  <1>. QED
    BY <1>1, <1>2, <1>3 DEF Numbers

\* State::load: an unfinished record is interrupted under a new number, an
\* interruption not noted yet is noted under a new number, and the rest stays.
LEMMA RecoveredRecords ==
    ASSUME NEW s \in [rec : [Tasks -> Record], order : Seq(Tasks)]
    PROVE  /\ Recovered(s) \in [rec : [Tasks -> Record], order : Seq(Tasks)]
           /\ Recovered(s).order = s.order
           /\ \A t \in Tasks :
                /\ Recovered(s).rec[t].held = s.rec[t].held
                /\ Recovered(s).rec[t].seq >= s.rec[t].seq
                /\ s.rec[t].held # "full" => Recovered(s).rec[t] = s.rec[t]
                /\ s.rec[t].status \in Terminal => Recovered(s).rec[t].status = s.rec[t].status
                /\ s.rec[t].held = "full" /\ s.rec[t].status \notin Terminal =>
                      /\ Recovered(s).rec[t].status = "interrupted"
                      /\ Recovered(s).rec[t].seq > s.rec[t].seq
                /\ s.rec[t].held = "full" /\ s.rec[t].status = "interrupted" /\ s.rec[t].results = FALSE =>
                      Recovered(s).rec[t].seq > s.rec[t].seq
  <1> DEFINE Retire(c) == IF c.held = "full" /\ c.status \notin Terminal
                          THEN [c EXCEPT !.status = "interrupted", !.seq = @ + 1] ELSE c
             Note(c) == IF c.held = "full" /\ c.status = "interrupted" /\ ~c.results
                        THEN [c EXCEPT !.results = TRUE, !.seq = @ + 1] ELSE c
             new == [t \in Tasks |-> Note(Retire(s.rec[t]))]
  <1>1. Recovered(s) = [s EXCEPT !.rec = new]
    BY DEF Recovered
  <1>2. ASSUME NEW c \in Record
        PROVE  /\ Retire(c) \in Record /\ Retire(c).held = c.held /\ Retire(c).seq >= c.seq
               /\ c.held # "full" \/ c.status \in Terminal => Retire(c) = c
               /\ c.held = "full" /\ c.status \notin Terminal =>
                    Retire(c).status = "interrupted" /\ Retire(c).seq = c.seq + 1
    <2>1. c.seq \in Nat /\ c.seq + 1 \in Nat /\ "interrupted" \in Status
      BY DEF Record, Status, Terminal
    <2>2. LET n == [c EXCEPT !.status = "interrupted", !.seq = @ + 1]
          IN  n \in Record /\ n.held = c.held /\ n.seq = c.seq + 1 /\ n.status = "interrupted"
      BY <2>1 DEF Record
    <2>. QED
      BY <2>1, <2>2
  <1>3. ASSUME NEW c \in Record
        PROVE  /\ Note(c) \in Record /\ Note(c).held = c.held /\ Note(c).seq >= c.seq
               /\ Note(c).status = c.status /\ (c.held # "full" => Note(c) = c)
               /\ c.held = "full" /\ c.status = "interrupted" /\ c.results = FALSE =>
                    Note(c).seq = c.seq + 1
    <2>1. c.seq \in Nat /\ c.seq + 1 \in Nat
      BY DEF Record
    <2>2. CASE c.held = "full" /\ c.status = "interrupted" /\ ~c.results
      <3>1. LET n == [c EXCEPT !.results = TRUE, !.seq = @ + 1]
            IN  /\ n \in Record /\ n.held = c.held /\ n.seq = c.seq + 1
                /\ n.status = c.status
        BY <2>1 DEF Record
      <3>. QED
        BY <2>1, <2>2, <3>1
    <2>3. CASE ~(c.held = "full" /\ c.status = "interrupted" /\ ~c.results)
      <3>1. Note(c) = c
        BY <2>3
      <3>2. ~(c.held = "full" /\ c.status = "interrupted" /\ c.results = FALSE)
        BY <2>3, Zenon
      <3>. QED
        BY <2>1, <3>1, <3>2
    <2>. QED
      BY <2>2, <2>3
  <1>4. \A t \in Tasks : s.rec[t] \in Record /\ s.rec[t].seq \in Nat
    BY DEF Record
  <1>. HIDE DEF Retire, Note
  <1>5. \A t \in Tasks : Retire(s.rec[t]) \in Record /\ Retire(s.rec[t]).seq \in Nat
    BY <1>2, <1>4, RecordParts
  <1>6. new \in [Tasks -> Record] /\ \A t \in Tasks : new[t] = Note(Retire(s.rec[t])) /\ new[t].seq \in Nat
    BY <1>3, <1>5, RecordParts
  <1>. HIDE DEF new
  <1>7. /\ Recovered(s) \in [rec : [Tasks -> Record], order : Seq(Tasks)]
        /\ Recovered(s).order = s.order /\ Recovered(s).rec = new
    BY <1>1, <1>6
  <1>. SUFFICES ASSUME NEW t \in Tasks
                PROVE  /\ new[t].held = s.rec[t].held /\ new[t].seq >= s.rec[t].seq
                       /\ s.rec[t].held # "full" => new[t] = s.rec[t]
                       /\ s.rec[t].status \in Terminal => new[t].status = s.rec[t].status
                       /\ s.rec[t].held = "full" /\ s.rec[t].status \notin Terminal =>
                             new[t].status = "interrupted" /\ new[t].seq > s.rec[t].seq
                       /\ s.rec[t].held = "full" /\ s.rec[t].status = "interrupted" /\ s.rec[t].results = FALSE =>
                             new[t].seq > s.rec[t].seq
    BY <1>7
  <1> DEFINE c == s.rec[t]
             d == Retire(c)
  <1>8. c \in Record /\ c.seq \in Nat /\ d \in Record /\ d.seq \in Nat /\ new[t] = Note(d) /\ new[t].seq \in Nat
    BY <1>4, <1>5, <1>6
  <1>9. /\ d.held = c.held /\ d.seq >= c.seq /\ (c.held # "full" \/ c.status \in Terminal => d = c)
        /\ c.held = "full" /\ c.status \notin Terminal => d.status = "interrupted" /\ d.seq = c.seq + 1
    BY <1>2, <1>8
  <1>10. /\ Note(d).held = d.held /\ Note(d).seq >= d.seq
         /\ Note(d).status = d.status /\ (d.held # "full" => Note(d) = d)
         /\ d.held = "full" /\ d.status = "interrupted" /\ d.results = FALSE => Note(d).seq = d.seq + 1
    BY <1>3, <1>8
  <1>. HIDE DEF d, c
  <1>11. /\ new[t].held = c.held /\ new[t].seq >= c.seq
         /\ c.held # "full" => new[t] = c
         /\ c.status \in Terminal => new[t].status = c.status
         /\ c.held = "full" /\ c.status \notin Terminal => new[t].status = "interrupted" /\ new[t].seq > c.seq
         /\ c.held = "full" /\ c.status = "interrupted" /\ c.results = FALSE => new[t].seq > c.seq
    BY <1>8, <1>9, <1>10 DEF Terminal
  <1>. QED
    BY <1>11 DEF c

-----------------------------------------------------------------------------
(* The inductive invariant *)

\* what the runner emits reaches the browser
Live == user /\ agent /\ ~broken

\* a dispatch was saved and the browser has not been told
InDoubt(t) == ~up \/ (step = "prompt" /\ active.id = t)

\* One task, in the runner's memory, on disk and in the browser.
TaskInv(t) ==
    /\ rec[t].held = "no" => rec[t].status = "queued" /\ rec[t].seq = 0
    /\ rec[t].held = "evicted" => rec[t].status \in Terminal
    /\ disk.rec[t].held = rec[t].held /\ disk.rec[t].status = rec[t].status
    /\ disk.rec[t].seq <= rec[t].seq
    /\ rec[t].status \notin Terminal => rec[t].results = FALSE /\ disk.rec[t].results = FALSE
    /\ rec[t].held # "no" => disk.rec[t].seq # 0
    /\ rec[t].status = "queued" => prompted[t] = 0
    /\ prompted[t] <= 1
    /\ view[t].seq # 0 /\ view[t].status \in Terminal => rec[t].status = view[t].status
    /\ t \notin ahead =>
        /\ view[t].seq <= disk.rec[t].seq
        /\ view[t].seq # 0 /\ view[t].seq = disk.rec[t].seq =>
            view[t].status = rec[t].status \/ (InDoubt(t) /\ rec[t].status = "working")

\* The list names the full records, each once, and is the one on disk.
Listed ==
    /\ \A i, j \in DOMAIN order : order[i] = order[j] => i = j
    /\ \A i \in DOMAIN order : rec[order[i]].held = "full"
    /\ \A t \in Tasks : rec[t].held = "full" => \E i \in DOMAIN order : order[i] = t
    /\ Len(order) <= limit.full /\ disk.order = order

\* The task the agent works on.
Working ==
    /\ active.id = NoTask => active = Idle
    /\ ~up => ~connected
    /\ active # Idle => up /\ rec[active.id].held # "no" /\ rec[active.id].status # "queued"
    /\ step = "prompt" => /\ active # Idle /\ rec[active.id].held = "full"
                          /\ rec[active.id].status = "working" /\ prompted[active.id] = 0
    /\ active.cancelling => active.timed \/ stopping
    /\ \A i \in DOMAIN active.asked : active.asked[i].task = active.id
    /\ Len(active.asked) <= MaxPendingInput

\* Turns, and the permission requests made in them.
Turns ==
    /\ turns = ended + Len(stops)
    /\ active = Idle \/ step = "prompt" => turn = NoTask /\ stops = <<>>
    /\ ~(active = Idle \/ step = "prompt") =>
          (turn = active.id /\ stops = <<>>) \/ (turn = NoTask /\ Len(stops) = 1)
    /\ \A q \in asks : /\ q.turn <= ended /\ (q.turn = ended => q.task = active.id)
                       /\ active = Idle \/ step = "prompt" => q.turn < ended
    /\ GrantsInTurn

\* Submissions, between the browser and the runner.
Coming(t) == \E i \in DOMAIN inbox : inbox[i].kind = "message" /\ inbox[i].task = t
Relayed ==
    /\ ~(user /\ agent) => requests = {} /\ \A t \in Tasks : delivery[t] # "sent"
    /\ \A t \in requests : broken \/ Coming(t) \/ (delivery[t] = "none" /\ view[t] # Unseen)
    /\ \A t \in Tasks : delivery[t] = "sent" => broken \/ Coming(t)

\* What a connected browser shows, unless it is about to be told: the tasks
\* reconcile shows again.  A new task may push one out of them; none comes back.
Current(t) == t \in Replayed /\ rec[t].held = "full" /\ t \notin ahead =>
                view[t].status = rec[t].status \/ (step = "prompt" /\ active.id = t)
Greeting == \E i \in DOMAIN inbox : inbox[i].kind = "presence" /\ inbox[i].browser = TRUE
Told == Live /\ up /\ connected /\ ~stopping => Greeting \/ \A t \in Tasks : Current(t)

AInv ==
    /\ Typed /\ (\A t \in Tasks : TaskInv(t)) /\ Listed
    /\ Working /\ Turns /\ Relayed /\ Told

-----------------------------------------------------------------------------
(* What a step may do to one task *)

Shows(t) ==
    \/ view'[t] = view[t] /\ rec'[t].seq <= view[t].seq
    \/ view'[t].seq = rec'[t].seq /\ view'[t].status = rec'[t].status

Common(t) ==
    /\ disk'.rec[t].held = rec'[t].held /\ disk'.rec[t].status = rec'[t].status
    /\ disk'.rec[t].seq <= rec'[t].seq
    /\ rec'[t].status \notin Terminal => rec'[t].results = FALSE /\ disk'.rec[t].results = FALSE
    /\ t \in ahead => t \in ahead'
    /\ \/ prompted'[t] = prompted[t]
       \/ prompted[t] = 0 /\ prompted'[t] = 1 /\ rec'[t].status # "queued"

\* at most its number is saved, or its record leaves the list
Stays(t) ==
    /\ view'[t] = view[t] /\ rec'[t].status = rec[t].status
    /\ \/ rec'[t].held = rec[t].held
       \/ rec[t].held = "full" /\ rec[t].status \in Terminal /\ rec'[t].held = "evicted"
    /\ rec'[t].held = "no" => rec'[t].seq = 0
    /\ disk.rec[t].seq <= disk'.rec[t].seq
    /\ InDoubt(t) => InDoubt(t)'

\* the list is loaded after a stop
Recovers(t) ==
    /\ view'[t] = view[t] /\ rec'[t].held = rec[t].held
    /\ rec'[t].held = "no" => rec'[t].seq = 0
    /\ disk.rec[t].seq <= disk'.rec[t].seq
    /\ rec[t].held = "full" /\ rec[t].status \notin Terminal =>
          rec'[t].status \in Terminal /\ disk.rec[t].seq < disk'.rec[t].seq
    /\ ~(rec[t].held = "full" /\ rec[t].status \notin Terminal) => rec'[t].status = rec[t].status

\* it gets a number, is saved and shown
Reports(t) ==
    /\ rec[t].seq < rec'[t].seq /\ disk'.rec[t].seq = rec'[t].seq
    /\ rec'[t].held # "no"
    /\ \/ rec'[t].held = rec[t].held
       \/ rec[t].held = "no" /\ rec'[t].held = "full" /\ rec'[t].status = "queued"
    /\ rec[t].status \in Terminal => rec'[t].status = rec[t].status
    /\ rec[t].status # "queued" => rec'[t].status # "queued"
    /\ Live => Shows(t)
    /\ ~Live => view'[t] = view[t]

\* it is shown again
Resends(t) ==
    /\ rec'[t] = rec[t] /\ disk.rec[t].seq <= disk'.rec[t].seq /\ rec[t].held # "no"
    /\ Shows(t)
    /\ disk'.rec[t].seq < rec[t].seq => t \in ahead'
    /\ InDoubt(t) => InDoubt(t)'

\* there is no room for it
Refuses(t) ==
    /\ rec'[t] = rec[t] /\ disk'.rec[t] = disk.rec[t] /\ rec[t].held = "no"
    /\ view'[t] = Refusal

\* its dispatch is saved
Starts(t) ==
    /\ view'[t] = view[t] /\ rec'[t].held = rec[t].held /\ rec[t].held # "no"
    /\ rec[t].status = "queued" /\ rec'[t].status = "working"
    /\ disk.rec[t].seq <= disk'.rec[t].seq
    /\ InDoubt(t)'

Runs(t) == Common(t) /\ (Stays(t) \/ Reports(t) \/ Resends(t) \/ Refuses(t) \/ Starts(t))
Loads(t) == Common(t) /\ Recovers(t)
Move(t) == Runs(t) \/ Loads(t)

\* The parts of the invariant about one task survive whatever a step may do to it.
LEMMA TaskKept ==
    ASSUME NEW t \in Tasks, Typed, Typed', TaskInv(t), Move(t)
    PROVE  TaskInv(t)'
  <1>1. /\ rec[t] \in Record /\ rec'[t] \in Record /\ disk.rec[t] \in Record /\ disk'.rec[t] \in Record
        /\ view[t] \in Picture /\ view'[t] \in Picture /\ prompted[t] \in Nat
    BY DEF Typed
  <1>2. /\ rec[t].seq \in Nat /\ rec'[t].seq \in Nat /\ disk.rec[t].seq \in Nat /\ disk'.rec[t].seq \in Nat
        /\ view[t].seq \in Nat /\ view'[t].seq \in Nat
        /\ rec[t].held \in {"no", "full", "evicted"} /\ rec'[t].held \in {"no", "full", "evicted"}
        /\ rec[t].status \in Status /\ rec'[t].status \in Status
    BY <1>1, RecordParts DEF Picture
  <1>3. CASE Stays(t)
    BY <1>1, <1>2, <1>3 DEF TaskInv, Move, Runs, Loads, Common, Stays
  <1>4. CASE Recovers(t)
    BY <1>1, <1>2, <1>4 DEF TaskInv, Move, Runs, Loads, Common, Recovers, Terminal
  <1>5. CASE Reports(t)
    BY <1>1, <1>2, <1>5 DEF TaskInv, Move, Runs, Loads, Common, Reports, Shows, Terminal
  <1>6. CASE Resends(t)
    BY <1>1, <1>2, <1>6 DEF TaskInv, Move, Runs, Loads, Common, Resends, Shows
  <1>7. CASE Refuses(t)
    BY <1>1, <1>2, <1>7 DEF TaskInv, Move, Runs, Loads, Common, Refuses, Refusal
  <1>8. CASE Starts(t)
    BY <1>1, <1>2, <1>8 DEF TaskInv, Move, Runs, Loads, Common, Starts, Terminal
  <1>. QED
    BY <1>3, <1>4, <1>5, <1>6, <1>7, <1>8 DEF Move, Runs, Loads

\* No step changes an outcome the browser shows.
LEMMA OutcomeKept ==
    ASSUME NEW t \in Tasks, Typed, TaskInv(t), Move(t), view[t].seq # 0, view[t].status \in Terminal
    PROVE  view'[t].status = view[t].status
  <1>1. rec[t].status = view[t].status /\ rec[t].held # "no" /\ rec[t].status # "queued"
    BY DEF TaskInv, Terminal
  <1>. QED
    BY <1>1 DEF Move, Runs, Loads, Stays, Recovers, Reports, Resends, Shows, Refuses, Starts, Terminal

\* While the browser is there, no step leaves it behind.
LEMMA CurrentKept ==
    ASSUME NEW t \in Tasks, Typed, Typed', TaskInv(t), Runs(t), Live, Current(t), up, up',
           step = "prompt" /\ active.id = t => Reports(t) \/ (step' = "prompt" /\ active'.id = t),
           t \in Replayed' => t \in Replayed \/ Reports(t)
    PROVE  Current(t)'
  <1>1. /\ rec[t] \in Record /\ rec'[t] \in Record /\ disk.rec[t] \in Record /\ disk'.rec[t] \in Record
        /\ view[t] \in Picture /\ view'[t] \in Picture
    BY DEF Typed
  <1>2. /\ rec[t].seq \in Nat /\ rec'[t].seq \in Nat /\ disk.rec[t].seq \in Nat /\ disk'.rec[t].seq \in Nat
        /\ view[t].seq \in Nat /\ view'[t].seq \in Nat
    BY <1>1, RecordParts DEF Picture
  <1>3. CASE Reports(t)
    BY <1>1, <1>2, <1>3 DEF TaskInv, Runs, Common, Reports, Shows, Terminal, Current
  <1>. SUFFICES ASSUME ~Reports(t) PROVE Current(t)'
    BY <1>3
  <1>4. CASE Stays(t)
    BY <1>1, <1>2, <1>4 DEF TaskInv, Runs, Common, Stays, Current
  <1>6. CASE Resends(t)
    BY <1>1, <1>2, <1>6 DEF TaskInv, Runs, Common, Resends, Shows, Current, InDoubt
  <1>7. CASE Refuses(t)
    BY <1>1, <1>2, <1>7 DEF TaskInv, Runs, Common, Refuses, Refusal, Current
  <1>8. CASE Starts(t)
    BY <1>1, <1>2, <1>8 DEF TaskInv, Runs, Common, Starts, Terminal, Current, InDoubt
  <1>. QED
    BY <1>4, <1>6, <1>7, <1>8 DEF Runs

-----------------------------------------------------------------------------
(* Frames, reports and ends *)

\* Emit: while a browser is there the frames are shown, unless they are older.
Emitted(fs, ts, saved) ==
    /\ view' \in [Tasks -> Picture] /\ delivery' \in [Tasks -> {"none", "sent", "uncertain"}]
    /\ ahead' \in SUBSET Tasks
    /\ ~Live => view' = view /\ delivery' = delivery /\ ahead' = ahead
    /\ \A t \in Tasks :
         /\ t \in ahead => t \in ahead'
         /\ t \notin ts => view'[t] = view[t] /\ delivery'[t] = delivery[t]
         /\ Live /\ t \in ts =>
              /\ delivery'[t] = "none" /\ (fs[t].seq > saved[t].seq => t \in ahead')
              /\ (view'[t] = view[t] /\ fs[t].seq # 0 /\ fs[t].seq <= view[t].seq) \/ view'[t] = fs[t]

\* What Emit does.
LEMMA EmitMade ==
    ASSUME Typed, NEW ts \in SUBSET Tasks, NEW fs \in [ts -> Picture],
           NEW saved \in [Tasks -> Record], Emit(fs, saved)
    PROVE  Emitted(fs, ts, saved)
  <1>1. CASE ~Live
    BY <1>1 DEF Emit, Live, screen, Typed, Emitted
  <1>2. CASE Live
    <2>1. /\ view' = [t \in Tasks |-> IF t \in ts THEN Shown(view[t], fs[t]) ELSE view[t]]
          /\ delivery' = [t \in Tasks |-> IF t \in ts THEN "none" ELSE delivery[t]]
          /\ ahead' = ahead \cup {t \in ts : fs[t].seq > saved[t].seq}
      BY <1>2 DEF Emit, Live
    <2>2. \A t \in ts : \/ Shown(view[t], fs[t]) = view[t] /\ fs[t].seq # 0 /\ fs[t].seq <= view[t].seq
                        \/ Shown(view[t], fs[t]) = fs[t]
      BY DEF Shown
    <2>3. view \in [Tasks -> Picture] /\ ahead \in SUBSET Tasks
          /\ delivery \in [Tasks -> {"none", "sent", "uncertain"}]
      BY DEF Typed
    <2>4. \A t \in ts : Shown(view[t], fs[t]) \in Picture
      BY <2>2, <2>3
    <2>. QED
      BY <1>2, <2>1, <2>2, <2>3, <2>4 DEF Emitted
  <1>. QED
    BY <1>1, <1>2

\* Task::frame shows a record's number and status.
LEMMA FramesMade ==
    ASSUME NEW r \in [Tasks -> Record], NEW a \in ActiveTask, NEW ts \in SUBSET Tasks
    PROVE  /\ Frames(r, a, ts) \in [ts -> Picture]
           /\ \A t \in ts : Frames(r, a, ts)[t].seq = r[t].seq /\ Frames(r, a, ts)[t].status = r[t].status
  <1>1. ASSUME NEW t \in ts
        PROVE  Frame(r, a, t) \in Picture /\ Frame(r, a, t).seq = r[t].seq /\ Frame(r, a, t).status = r[t].status
    <2> DEFINE i == IF r[t].status = "needs_input" /\ a.id = t /\ a.asked # <<>> THEN Head(a.asked).id ELSE 0
    <2>1. r[t].seq \in Nat /\ r[t].status \in Status
      BY RecordParts
    <2>2. i \in 0..MaxEvents
      <3>1. a.asked \in Seq(Request)
        BY DEF ActiveTask
      <3>2. a.asked # <<>> => Head(a.asked) \in Request
        BY <3>1, HeadTailProperties
      <3>. QED
        BY <3>2, AssistantAssumption DEF Request
    <2>3. Frame(r, a, t) = [seq |-> r[t].seq, status |-> r[t].status, input |-> i]
      BY DEF Frame
    <2>. HIDE DEF i
    <2>. QED
      BY <2>1, <2>2, <2>3 DEF Picture
  <1>. QED
    BY <1>1 DEF Frames

\* report_task: numbers, the save and the frames.
Reported(r, o, ts) ==
    /\ rec' \in [Tasks -> Record] /\ order' = o
    /\ disk' \in [rec : [Tasks -> Record], order : Seq(Tasks)]
    /\ disk'.rec = rec' /\ disk'.order = o
    /\ view' \in [Tasks -> Picture] /\ delivery' \in [Tasks -> {"none", "sent", "uncertain"}]
    /\ ahead' \in SUBSET Tasks
    /\ ~Live => view' = view /\ delivery' = delivery
    /\ \A t \in Tasks :
         /\ rec'[t].held = r[t].held /\ rec'[t].status = r[t].status
         /\ t \in ahead => t \in ahead'
         /\ t \notin ts => rec'[t] = r[t] /\ view'[t] = view[t] /\ delivery'[t] = delivery[t]
         /\ t \in ts => /\ rec'[t].seq = r[t].seq + 1
                        /\ Live => Shows(t) /\ delivery'[t] = "none" /\ view'[t] # Unseen
         /\ r[t].status \notin Terminal /\ r[t].results = FALSE => rec'[t].results = FALSE

\* What report_task does.
LEMMA ReportMade ==
    ASSUME Typed, NEW r \in [Tasks -> Record], NEW o \in Seq(Tasks), NEW a \in ActiveTask,
           NEW ts \in SUBSET Tasks, Report(r, o, a, ts)
    PROVE  Reported(r, o, ts)
  <1> DEFINE n == Numbers(r, ts)
             fs == Frames(n, a, ts)
  <1>1. /\ rec' = n /\ order' = o /\ disk' = [rec |-> n, order |-> o] /\ Emit(fs, n)
    BY DEF Report
  <1>2. /\ n \in [Tasks -> Record]
        /\ \A t \in Tasks :
             /\ n[t].held = r[t].held /\ n[t].status = r[t].status
             /\ t \notin ts => n[t] = r[t]
             /\ t \in ts => n[t].seq = r[t].seq + 1
             /\ t \in ts /\ r[t].status \notin Terminal /\ r[t].results = FALSE => n[t].results = FALSE
    BY NumbersMade
  <1>. HIDE DEF n
  <1>3. /\ fs \in [ts -> Picture]
        /\ \A t \in ts : fs[t].seq = n[t].seq /\ fs[t].status = n[t].status
    BY <1>2, FramesMade
  <1>. HIDE DEF fs
  <1>4. Emitted(fs, ts, n)
    BY <1>1, <1>2, <1>3, EmitMade
  <1>5. /\ rec' \in [Tasks -> Record] /\ order' = o
        /\ disk' \in [rec : [Tasks -> Record], order : Seq(Tasks)]
        /\ disk'.rec = rec' /\ disk'.order = o
    BY <1>1, <1>2
  <1>6. ASSUME NEW t \in ts, Live
        PROVE  Shows(t) /\ view'[t] # Unseen
    <2>1. t \in Tasks /\ r[t].seq \in Nat /\ view[t] \in Picture
      BY RecordParts DEF Typed
    <2>2. fs[t].seq = rec'[t].seq /\ fs[t].status = rec'[t].status /\ fs[t].seq = r[t].seq + 1
      BY <1>1, <1>2, <1>3, <2>1
    <2>3. (view'[t] = view[t] /\ fs[t].seq # 0 /\ fs[t].seq <= view[t].seq) \/ view'[t] = fs[t]
      BY <1>4, <1>6, <2>1 DEF Emitted
    <2>. QED
      BY <2>1, <2>2, <2>3 DEF Shows, Unseen, Picture
  <1>. QED
    BY <1>1, <1>2, <1>4, <1>5, <1>6 DEF Emitted, Reported

\* what the runner makes of the records before it reports some of them
Edited(r, ts) ==
    \A t \in Tasks :
        /\ r[t].seq = rec[t].seq
        /\ t \notin ts => /\ r[t].status = rec[t].status /\ r[t].results = rec[t].results
                          /\ \/ r[t].held = rec[t].held
                             \/ /\ rec[t].held = "full" /\ rec[t].status \in Terminal
                                /\ r[t].held = "evicted"
        /\ t \in ts => /\ r[t].held # "no"
                       /\ \/ r[t].held = rec[t].held
                          \/ rec[t].held = "no" /\ r[t].held = "full" /\ r[t].status = "queued"
                       /\ rec[t].status \in Terminal => r[t].status = rec[t].status
                       /\ rec[t].status # "queued" => r[t].status # "queued"
                       /\ r[t].status \notin Terminal => r[t].results = FALSE

\* A prompt is counted only for a task that was never prompted.
Prompts(t) == \/ prompted'[t] = prompted[t]
              \/ prompted[t] = 0 /\ prompted'[t] = 1 /\ rec'[t].status # "queued"

\* persist_report and its frames move each task in one of the ways above.
LEMMA ReportMoves ==
    ASSUME Typed, \A t \in Tasks : TaskInv(t),
           NEW r \in [Tasks -> Record], NEW o \in Seq(Tasks), NEW a \in ActiveTask,
           NEW ts \in SUBSET Tasks, Report(r, o, a, ts), Edited(r, ts),
           \A t \in Tasks : Prompts(t) /\ (t \notin ts /\ InDoubt(t) => InDoubt(t)')
    PROVE  \A t \in Tasks : Runs(t) /\ (t \in ts => Reports(t))
  <1>. TAKE t \in Tasks
  <1>0. Reported(r, o, ts)
    BY ReportMade
  <1>1. /\ disk'.rec = rec'
        /\ ~Live => view' = view
        /\ rec'[t].held = r[t].held /\ rec'[t].status = r[t].status
        /\ t \in ahead => t \in ahead'
        /\ t \notin ts => rec'[t] = r[t] /\ view'[t] = view[t]
        /\ t \in ts => rec'[t].seq = r[t].seq + 1 /\ (Live => Shows(t))
        /\ r[t].status \notin Terminal /\ r[t].results = FALSE => rec'[t].results = FALSE
        /\ rec' \in [Tasks -> Record]
    BY <1>0 DEF Reported
  <1>2. rec[t].seq \in Nat /\ rec'[t].seq \in Nat /\ disk.rec[t].seq \in Nat
    BY <1>1, RecordParts DEF Typed
  <1>3. TaskInv(t)
    OBVIOUS
  <1>4. Common(t)
    BY <1>1, <1>2, <1>3 DEF Common, Edited, TaskInv, Prompts
  <1>5. CASE t \in ts
    BY <1>1, <1>2, <1>3, <1>4, <1>5 DEF Runs, Reports, Edited
  <1>6. CASE t \notin ts
    <2>1. Stays(t)
      BY <1>1, <1>2, <1>3, <1>6 DEF Stays, Edited, TaskInv
    <2>. QED
      BY <1>4, <1>6, <2>1 DEF Runs
  <1>. QED
    BY <1>5, <1>6

-----------------------------------------------------------------------------
(* The invariant, part by part *)

\* If every task moves in one of those ways, its invariant is kept.
LEMMA TasksKept ==
    ASSUME Typed, Typed', \A t \in Tasks : TaskInv(t), \A t \in Tasks : Move(t)
    PROVE  \A t \in Tasks : TaskInv(t)'
  <1>. TAKE t \in Tasks
  <1>1. TaskInv(t) /\ Move(t)
    OBVIOUS
  <1>. QED
    BY <1>1, TaskKept

\* The list is as it was.
LEMMA ListedKept ==
    ASSUME Listed, order' = order, disk'.order = order, limit' = limit, Typed,
           \A t \in Tasks : rec'[t].held = "full" <=> rec[t].held = "full"
    PROVE  Listed'
  <1>1. \A i \in DOMAIN order : order[i] \in Tasks
    BY DEF Typed
  <1>. QED
    BY <1>1 DEF Listed

\* the browser has heard of the task
Heard(t) == delivery'[t] = "none" /\ view'[t] # Unseen

\* Submissions, when the relay's own state does not change.
LEMMA RelayedKept ==
    ASSUME Typed, Relayed, user' = user, agent' = agent, requests' = requests, broken' = broken,
           \A t \in Tasks : (delivery'[t] = delivery[t] /\ view'[t] = view[t]) \/ Heard(t),
           \A t \in Tasks : Coming(t) => Coming(t)' \/ ~Live \/ Heard(t)
    PROVE  Relayed'
  <1>1. requests \in SUBSET Tasks
    BY DEF Typed
  <1>2. \A t \in requests' : broken' \/ Coming(t)' \/ (delivery'[t] = "none" /\ view'[t] # Unseen)
    BY <1>1 DEF Relayed, Live, Heard
  <1>3. \A t \in Tasks : delivery'[t] = "sent" => broken' \/ Coming(t)'
    BY <1>1 DEF Relayed, Live, Heard
  <1>4. ~(user' /\ agent') => requests' = {} /\ \A t \in Tasks : delivery'[t] # "sent"
    BY DEF Relayed, Heard
  <1>. QED
    BY <1>2, <1>3, <1>4 DEF Relayed

\* The browser stays current.
LEMMA ToldKept ==
    ASSUME Typed, Typed', Told, \A t \in Tasks : TaskInv(t), \A t \in Tasks : Runs(t),
           Live' => Live, up' => up, connected' => connected, stopping => stopping',
           Greeting => Greeting',
           \A t \in Tasks : step = "prompt" /\ active.id = t =>
                                Reports(t) \/ (step' = "prompt" /\ active'.id = t),
           (order' = order /\ limit' = limit) \/ (\A t \in Replayed' : t \in Replayed \/ Reports(t))
    PROVE  Told'
  <1>. SUFFICES ASSUME Live', up', connected', ~stopping', ~Greeting', NEW t \in Tasks
                PROVE  Current(t)'
    BY DEF Told
  <1>1. Live /\ up /\ Current(t) /\ TaskInv(t) /\ Runs(t)
    BY DEF Told
  <1>2. order' = order /\ limit' = limit => Replayed' = Replayed
    BY DEF Replayed
  <1>3. t \in Replayed' => t \in Replayed \/ Reports(t)
    BY <1>2
  <1>. QED
    BY <1>1, <1>3, CurrentKept

\* One event leaves the inbox.
LEMMA Received ==
    ASSUME Typed, inbox # <<>>, inbox' = Tail(inbox)
    PROVE  /\ inbox' \in Seq(InboxEvent) /\ Head(inbox) \in InboxEvent
           /\ \A t \in Tasks : Coming(t) => Coming(t)' \/ (Head(inbox).kind = "message" /\ Head(inbox).task = t)
           /\ Greeting => Greeting' \/ (Head(inbox).kind = "presence" /\ Head(inbox).browser = TRUE)
  <1>1. inbox \in Seq(InboxEvent)
    BY DEF Typed
  <1>2. /\ Tail(inbox) \in Seq(InboxEvent) /\ Head(inbox) \in InboxEvent
        /\ Len(Tail(inbox)) = Len(inbox) - 1 /\ Len(inbox) \in Nat /\ Head(inbox) = inbox[1]
        /\ DOMAIN inbox = 1..Len(inbox) /\ DOMAIN Tail(inbox) = 1..(Len(inbox) - 1)
        /\ \A i \in 1..(Len(inbox) - 1) : Tail(inbox)[i] = inbox[i + 1]
    BY <1>1
  <1>3. \A i \in DOMAIN inbox : i = 1 \/ (i - 1 \in DOMAIN Tail(inbox) /\ Tail(inbox)[i - 1] = inbox[i])
    BY <1>2
  <1>4. \A t \in Tasks : Coming(t) => Coming(t)' \/ (Head(inbox).kind = "message" /\ Head(inbox).task = t)
    BY <1>2, <1>3 DEF Coming
  <1>5. Greeting => Greeting' \/ (Head(inbox).kind = "presence" /\ Head(inbox).browser = TRUE)
    BY <1>2, <1>3 DEF Greeting
  <1>. QED
    BY <1>2, <1>4, <1>5

\* What an event is about.
LEMMA EventParts ==
    ASSUME NEW e \in InboxEvent
    PROVE  /\ e.kind \in {"message", "cancel", "input"} => e.task \in Tasks
           /\ e.kind = "presence" => e.browser \in BOOLEAN
           /\ e.kind = "input" => e.request \in Nat /\ e.allow \in BOOLEAN
  BY DEF InboxEvent

\* A report keeps everything but the parts about the agent.
LEMMA ReportStep ==
    ASSUME AInv, Typed', NEW r \in [Tasks -> Record], NEW o \in Seq(Tasks), NEW a \in ActiveTask,
           NEW ts \in SUBSET Tasks, Report(r, o, a, ts), Edited(r, ts),
           \A t \in Tasks : Prompts(t) /\ (t \notin ts /\ InDoubt(t) => InDoubt(t)'),
           user' = user, agent' = agent, requests' = requests, broken' = broken,
           up' => up, connected' => connected, stopping => stopping',
           \A t \in Tasks : Coming(t) => Coming(t)' \/ t \in ts, Greeting => Greeting',
           step = "prompt" => active.id \in ts \/ (step' = step /\ active' = active),
           limit' = limit, o = order \/ \A t \in Replayed' : t \in Replayed \/ t \in ts
    PROVE  /\ \A t \in Tasks : Move(t) /\ TaskInv(t)'
           /\ Relayed' /\ Told'
           /\ o = order /\ (\A t \in Tasks : r[t].held = rec[t].held) => Listed'
  <1>1. Typed /\ (\A t \in Tasks : TaskInv(t)) /\ Relayed /\ Told /\ Listed
    BY DEF AInv
  <1>2. Reported(r, o, ts)
    BY <1>1, ReportMade
  <1>3. \A t \in Tasks : Runs(t) /\ (t \in ts => Reports(t))
    BY <1>1, ReportMoves
  <1>4. \A t \in Tasks : Move(t)
    BY <1>3 DEF Move
  <1>5. \A t \in Tasks : TaskInv(t)'
    BY <1>1, <1>4, TasksKept
  <1>6. Relayed'
    <2>1. \A t \in Tasks : (delivery'[t] = delivery[t] /\ view'[t] = view[t]) \/ Heard(t)
      BY <1>2 DEF Reported, Heard
    <2>2. \A t \in Tasks : Coming(t) => Coming(t)' \/ ~Live \/ Heard(t)
      BY <1>2 DEF Reported, Heard
    <2>. QED
      BY <1>1, <2>1, <2>2, RelayedKept
  <1>7. Told'
    <2>1. \A t \in Tasks : step = "prompt" /\ active.id = t =>
                                Reports(t) \/ (step' = "prompt" /\ active'.id = t)
      BY <1>3
    <2>2. Live' => Live
      BY DEF Live
    <2>3. \A t \in Tasks : Runs(t)
      BY <1>3
    <2>4. order' = order \/ \A t \in Replayed' : t \in Replayed \/ Reports(t)
      BY <1>2, <1>3 DEF Reported
    <2>. QED
      BY <1>1, <2>1, <2>2, <2>3, <2>4, ToldKept
  <1>8. o = order /\ (\A t \in Tasks : r[t].held = rec[t].held) => Listed'
    BY <1>1, <1>2, ListedKept DEF Reported
  <1>. QED
    BY <1>4, <1>5, <1>6, <1>7, <1>8

\* A step that leaves the records and the browser alone.
LEMMA StillMoves ==
    ASSUME Typed, \A t \in Tasks : TaskInv(t), rec' = rec, disk' = disk, view' = view, ahead' = ahead,
           prompted' = prompted, \A t \in Tasks : InDoubt(t) => InDoubt(t)'
    PROVE  \A t \in Tasks : Runs(t)
  <1>. TAKE t \in Tasks
  <1>1. TaskInv(t) /\ rec[t].seq \in Nat /\ disk.rec[t].seq \in Nat
    BY RecordParts DEF Typed
  <1>. QED
    BY <1>1 DEF Runs, Common, Stays, TaskInv

\* what the runner leaves behind it on disk before the list is loaded
Closed(s) ==
    \A t \in Tasks :
        /\ s.rec[t].held = rec[t].held /\ s.rec[t].seq >= disk.rec[t].seq
        /\ rec[t].held = "no" => /\ s.rec[t].seq = 0 /\ s.rec[t].results = FALSE
                                 /\ s.rec[t].status = rec[t].status
        /\ rec[t].status \in Terminal => s.rec[t].status = rec[t].status
        /\ rec[t].status \notin Terminal =>
              \/ s.rec[t].status \notin Terminal
              \/ s.rec[t].seq > disk.rec[t].seq
              \/ s.rec[t].status = "interrupted" /\ s.rec[t].results = FALSE

\* Loading the saved list moves each task in one of those ways.
LEMMA LoadMoves ==
    ASSUME Typed, \A t \in Tasks : TaskInv(t),
           NEW s \in [rec : [Tasks -> Record], order : Seq(Tasks)], Closed(s),
           disk' = Recovered(s), rec' = Recovered(s).rec, view' = view, ahead' = ahead, prompted' = prompted
    PROVE  \A t \in Tasks : Move(t) /\ rec'[t].held = rec[t].held
  <1>. TAKE t \in Tasks
  <1> DEFINE c == s.rec[t]
             d == Recovered(s).rec[t]
  <1>1. /\ d.held = c.held /\ d.seq >= c.seq /\ (c.held # "full" => d = c)
        /\ c.status \in Terminal => d.status = c.status
        /\ c.held = "full" /\ c.status \notin Terminal => d.status = "interrupted" /\ d.seq > c.seq
        /\ c.held = "full" /\ c.status = "interrupted" /\ c.results = FALSE => d.seq > c.seq
        /\ Recovered(s).rec \in [Tasks -> Record]
    BY RecoveredRecords
  <1>2. TaskInv(t) /\ rec[t].seq \in Nat /\ disk.rec[t].seq \in Nat /\ c.seq \in Nat /\ d.seq \in Nat
        /\ rec[t].held \in {"no", "full", "evicted"}
    BY <1>1, RecordParts DEF Typed
  <1>3. rec'[t] = d /\ disk'.rec[t] = d
    OBVIOUS
  <1>4. /\ c.held = rec[t].held /\ c.seq >= disk.rec[t].seq
        /\ rec[t].held = "no" => c.seq = 0 /\ c.results = FALSE /\ c.status = rec[t].status
        /\ rec[t].status \in Terminal => c.status = rec[t].status
        /\ rec[t].status \notin Terminal => \/ c.status \notin Terminal
                                            \/ c.seq > disk.rec[t].seq
                                            \/ c.status = "interrupted" /\ c.results = FALSE
    BY DEF Closed
  <1>. HIDE DEF c, d
  <1>5. d.status \notin Terminal => d = c /\ rec[t].held = "no"
    BY <1>1, <1>2, <1>4 DEF TaskInv, Terminal
  <1>6. Common(t)
    BY <1>2, <1>3, <1>4, <1>5 DEF Common
  <1>7. Recovers(t)
    BY <1>1, <1>2, <1>3, <1>4 DEF Recovers, TaskInv, Terminal
  <1>. QED
    BY <1>1, <1>3, <1>4, <1>6, <1>7 DEF Move, Loads

\* The process ends.
LEMMA CloseStep ==
    ASSUME AInv, Typed', Gone, Left, view' = view, ahead' = ahead, prompted' = prompted, grants' = grants,
           limit' = limit, order' = order, disk'.order = order,
           \A t \in Tasks : Move(t) /\ rec'[t].held = rec[t].held
    PROVE  AInv'
  <1>1. Typed /\ (\A t \in Tasks : TaskInv(t)) /\ Listed /\ Turns /\ Relayed
    BY DEF AInv
  <1>2. \A t \in Tasks : TaskInv(t)'
    BY <1>1, TasksKept
  <1>3. Listed'
    BY <1>1, ListedKept
  <1>4. Working'
    <2>1. active' = Idle /\ step' = "loop" /\ ~connected'
      BY DEF Gone
    <2>2. Idle.id = NoTask /\ Idle.asked = <<>> /\ Idle.cancelling = FALSE /\ MaxPendingInput \in Nat
      BY AssistantAssumption DEF Idle
    <2>. QED
      BY <2>1, <2>2 DEF Working
  <1>5. Turns'
    BY <1>1 DEF Turns, Gone, GrantsInTurn
  <1>6. Relayed'
    <2>1. \A t \in Tasks : delivery'[t] # "sent"
      <3>. TAKE t \in Tasks
      <3>1. CASE user /\ agent
        BY <3>1 DEF Left, Unsure
      <3>2. CASE ~(user /\ agent)
        BY <1>1, <3>2 DEF Left, Relayed
      <3>. QED
        BY <3>1, <3>2
    <2>2. requests' = {}
      BY <1>1 DEF Gone, Relayed
    <2>. QED
      BY <2>1, <2>2 DEF Relayed
  <1>7. Told'
    BY DEF Told, Gone
  <1>. QED
    BY <1>2, <1>3, <1>4, <1>5, <1>6, <1>7 DEF AInv

\* What is left when the process ends is typed.
LEMMA GoneTyped ==
    ASSUME Typed, Gone
    PROVE  /\ up' \in BOOLEAN /\ connected' \in BOOLEAN /\ stopping' \in BOOLEAN
           /\ user' \in BOOLEAN /\ agent' \in BOOLEAN /\ broken' \in BOOLEAN
           /\ step' \in {"loop", "prompt"} /\ active' \in ActiveTask
           /\ ended' \in Nat /\ turns' \in Nat /\ turn' \in Tasks \cup {NoTask}
           /\ stops' \in Seq(Terminal) /\ asks' \in SUBSET Request
           /\ requests' \in SUBSET Tasks /\ inbox' \in Seq(InboxEvent)
  <1>1. /\ up' \in BOOLEAN /\ connected' \in BOOLEAN /\ stopping' \in BOOLEAN
        /\ user' \in BOOLEAN /\ agent' \in BOOLEAN /\ broken' \in BOOLEAN
    BY DEF Gone, Typed
  <1>2. stops' \in Seq(Terminal) /\ inbox' \in Seq(InboxEvent)
    BY DEF Gone
  <1>3. step' \in {"loop", "prompt"} /\ active' \in ActiveTask
    BY NullsTyped DEF Gone
  <1>4. requests' \in SUBSET Tasks
    BY DEF Gone, Typed
  <1>. QED
    BY <1>1, <1>2, <1>3, <1>4 DEF Gone

\* run: the list is saved and loaded, and everything else is gone.
LEMMA EndedKeeps ==
    ASSUME AInv, NEW s \in [rec : [Tasks -> Record], order : Seq(Tasks)], s.order = order, Closed(s),
           Ended(s), limit' = limit, events' \in 0..MaxEvents
    PROVE  AInv' /\ \A t \in Tasks : Move(t)
  <1>1. Typed /\ \A t \in Tasks : TaskInv(t)
    BY DEF AInv
  <1>2. /\ disk' = Recovered(s) /\ rec' = Recovered(s).rec /\ order' = Recovered(s).order
        /\ Gone /\ Left /\ view' = view /\ ahead' = ahead /\ prompted' = prompted /\ grants' = grants
    BY DEF Ended
  <1>3. /\ Recovered(s) \in [rec : [Tasks -> Record], order : Seq(Tasks)] /\ Recovered(s).order = order
    BY RecoveredRecords
  <1>4. delivery' \in [Tasks -> {"none", "sent", "uncertain"}]
    BY <1>1, <1>2 DEF Left, Unsure, Typed
  <1>5. Typed'
    <2>1. /\ limit' \in ListLimit /\ view' \in [Tasks -> Picture] /\ ahead' \in SUBSET Tasks
          /\ prompted' \in [Tasks -> Nat]
      BY <1>1, <1>2 DEF Typed
    <2>2. /\ rec' \in [Tasks -> Record] /\ order' \in Seq(Tasks)
          /\ disk' \in [rec : [Tasks -> Record], order : Seq(Tasks)]
      BY <1>2, <1>3
    <2>. QED
      BY <1>1, <1>2, <1>4, <2>1, <2>2, GoneTyped DEF Typed
  <1>6. \A t \in Tasks : Move(t) /\ rec'[t].held = rec[t].held
    BY <1>1, <1>2, LoadMoves
  <1>. QED
    BY <1>2, <1>3, <1>5, <1>6, CloseStep

-----------------------------------------------------------------------------
(* Ends and starts of the process *)

\* The list as it is on disk.
LEMMA ClosedDisk ==
    ASSUME AInv
    PROVE  Closed(disk) /\ disk \in [rec : [Tasks -> Record], order : Seq(Tasks)] /\ disk.order = order
  <1>1. Typed /\ (\A t \in Tasks : TaskInv(t)) /\ disk.order = order
    BY DEF AInv, Listed
  <1>2. \A t \in Tasks : rec[t].seq \in Nat /\ disk.rec[t].seq \in Nat
    BY <1>1, RecordParts DEF Typed
  <1>3. ASSUME NEW t \in Tasks
        PROVE  /\ disk.rec[t].held = rec[t].held /\ disk.rec[t].status = rec[t].status
               /\ rec[t].held = "no" => disk.rec[t].seq = 0 /\ disk.rec[t].results = FALSE
    <2>1. TaskInv(t)
      BY <1>1
    <2>. QED
      BY <1>2, <2>1 DEF TaskInv, Terminal
  <1>4. \A t \in Tasks : disk.rec[t].seq >= disk.rec[t].seq
    BY <1>2
  <1>5. Closed(disk)
    BY <1>3, <1>4, Zenon DEF Closed
  <1>. QED
    BY <1>1, <1>5 DEF Typed

\* The list with the active task finished under a new number.
LEMMA ClosedFinish ==
    ASSUME AInv, active # Idle, NEW st \in Terminal
    PROVE  LET s == [rec |-> Numbers(Finish(rec, active.id, st), {active.id}), order |-> order]
           IN  Closed(s) /\ s \in [rec : [Tasks -> Record], order : Seq(Tasks)] /\ s.order = order
  <1> DEFINE x == active.id
             f == Finish(rec, x, st)
             n == Numbers(f, {x})
  <1>1. Typed /\ (\A t \in Tasks : TaskInv(t)) /\ x \in Tasks /\ rec[x].held # "no" /\ st \in Status
        /\ rec \in [Tasks -> Record]
    BY DEF AInv, Working, Typed, ActiveTask, Status
  <1>. HIDE DEF x
  <1>2. /\ f \in [Tasks -> Record] /\ \A u \in Tasks \ {x} : f[u] = rec[u]
        /\ f[x].held = rec[x].held /\ f[x].seq = rec[x].seq
        /\ rec[x].status \in Terminal => f[x].status = rec[x].status
    BY <1>1, Finished
  <1>. HIDE DEF f
  <1>3. /\ n \in [Tasks -> Record]
        /\ \A t \in Tasks : /\ n[t].held = f[t].held /\ n[t].status = f[t].status
                            /\ t \notin {x} => n[t] = f[t]
                            /\ t \in {x} => n[t].seq = f[t].seq + 1
    <2>1. {x} \in SUBSET Tasks
      BY <1>1
    <2>. QED
      BY <1>2, <2>1, NumbersMade
  <1>. HIDE DEF n
  <1>4. \A t \in Tasks : rec[t].seq \in Nat /\ disk.rec[t].seq \in Nat /\ n[t].seq \in Nat
    BY <1>1, <1>3, RecordParts DEF Typed
  <1> DEFINE s == [rec |-> n, order |-> order]
  <1>5. ASSUME NEW t \in Tasks
        PROVE  /\ n[t].held = rec[t].held /\ n[t].seq >= disk.rec[t].seq
               /\ rec[t].held = "no" => n[t].seq = 0 /\ n[t].results = FALSE /\ n[t].status = rec[t].status
               /\ rec[t].status \in Terminal => n[t].status = rec[t].status
               /\ rec[t].status \notin Terminal => n[t].status \notin Terminal \/ n[t].seq > disk.rec[t].seq
    <2>1. TaskInv(t)
      BY <1>1
    <2>2. CASE t = x
      BY <1>1, <1>2, <1>3, <1>4, <2>1, <2>2 DEF TaskInv
    <2>3. CASE t # x
      <3>1. n[t] = rec[t]
        BY <1>2, <1>3, <2>3
      <3>. QED
        BY <1>4, <2>1, <3>1 DEF TaskInv, Terminal
    <2>. QED
      BY <2>2, <2>3
  <1>6. s \in [rec : [Tasks -> Record], order : Seq(Tasks)] /\ s.order = order /\ s.rec = n
    BY <1>1, <1>3 DEF Typed
  <1>. HIDE DEF s
  <1>7. Closed(s)
    BY <1>5, <1>6 DEF Closed
  <1>. QED
    BY <1>6, <1>7 DEF s, n, f, x

\* The list with every unfinished task interrupted, not numbered yet.
LEMMA ClosedFatal ==
    ASSUME AInv
    PROVE  LET s == [rec |-> [t \in Tasks |-> Finish(rec, t, "interrupted")[t]], order |-> order]
           IN  Closed(s) /\ s \in [rec : [Tasks -> Record], order : Seq(Tasks)] /\ s.order = order
  <1> DEFINE f(t) == Finish(rec, t, "interrupted")[t]
             n == [t \in Tasks |-> f(t)]
             s == [rec |-> n, order |-> order]
  <1>1. Typed /\ \A t \in Tasks : TaskInv(t)
    BY DEF AInv
  <1>2. \A t \in Tasks :
          /\ f(t) \in Record /\ f(t).held = rec[t].held /\ f(t).seq = rec[t].seq /\ f(t).results = rec[t].results
          /\ rec[t].held # "full" \/ rec[t].status \in Terminal => f(t) = rec[t]
          /\ ~(rec[t].held # "full" \/ rec[t].status \in Terminal) => f(t).status = "interrupted"
    <2>. TAKE t \in Tasks
    <2>1. rec \in [Tasks -> Record] /\ "interrupted" \in Status
      BY <1>1 DEF Typed, Status, Terminal
    <2>. QED
      BY <2>1, Finished
  <1>. HIDE DEF f
  <1>3. n \in [Tasks -> Record] /\ \A t \in Tasks : n[t] = f(t)
    BY <1>2
  <1>. HIDE DEF n
  <1>4. s \in [rec : [Tasks -> Record], order : Seq(Tasks)] /\ s.order = order /\ s.rec = n
    BY <1>1, <1>3 DEF Typed
  <1>. HIDE DEF s
  <1>5. ASSUME NEW t \in Tasks
        PROVE  /\ n[t].held = rec[t].held /\ n[t].seq >= disk.rec[t].seq
               /\ rec[t].held = "no" => n[t].seq = 0 /\ n[t].results = FALSE /\ n[t].status = rec[t].status
               /\ rec[t].status \in Terminal => n[t].status = rec[t].status
               /\ rec[t].status \notin Terminal => n[t].status \notin Terminal
                                                  \/ (n[t].status = "interrupted" /\ n[t].results = FALSE)
    <2>1. TaskInv(t) /\ rec[t].seq \in Nat /\ disk.rec[t].seq \in Nat
      BY <1>1, RecordParts DEF Typed
    <2>. QED
      BY <1>2, <1>3, <2>1 DEF TaskInv, Terminal
  <1>6. Closed(s)
    BY <1>4, <1>5 DEF Closed
  <1>. QED
    BY <1>4, <1>6 DEF s, n, f

\* Events are counted up to their bound.
LEMMA EventTyped ==
    ASSUME Typed, Event
    PROVE  events' \in 0..MaxEvents /\ events' \in 1..MaxEvents
  BY AssistantAssumption DEF Typed, Event

\* The loop ends with an error: what is on disk is recovered.
LEMMA AbortKeeps ==
    ASSUME AInv, Abort, limit' = limit
    PROVE  AInv' /\ \A t \in Tasks : Move(t)
  <1>1. Typed
    BY DEF AInv
  <1>. QED
    BY <1>1, ClosedDisk, EventTyped, EndedKeeps DEF Abort

\* The agent process exits: its task fails and the list is recovered.
LEMMA AgentExitedKeeps ==
    ASSUME AInv, AgentExited, limit' = limit
    PROVE  AInv' /\ \A t \in Tasks : Move(t)
  <1>1. Typed /\ Event /\ "failed" \in Terminal
    BY DEF AInv, AgentExited, Terminal
  <1>2. CASE active = Idle
    BY <1>1, <1>2, ClosedDisk, EventTyped, EndedKeeps DEF AgentExited
  <1>3. CASE active # Idle
    BY <1>1, <1>3, ClosedFinish, EventTyped, EndedKeeps DEF AgentExited
  <1>. QED
    BY <1>2, <1>3

\* A stopping runner interrupts its active task and ends.
LEMMA StopExitKeeps ==
    ASSUME AInv, StopExit, limit' = limit
    PROVE  AInv' /\ \A t \in Tasks : Move(t)
  <1>1. Typed /\ events' \in 0..MaxEvents /\ "interrupted" \in Terminal
    BY DEF AInv, StopExit, Terminal, Typed
  <1>2. CASE active = Idle
    BY <1>1, <1>2, ClosedDisk, EndedKeeps DEF StopExit
  <1>3. CASE active # Idle
    BY <1>1, <1>3, ClosedFinish, EndedKeeps DEF StopExit
  <1>. QED
    BY <1>2, <1>3

\* The relay refuses the runner: every task that has not ended is interrupted.
LEMMA FatalKeeps ==
    ASSUME AInv, Fatal, limit' = limit
    PROVE  AInv' /\ \A t \in Tasks : Move(t)
  <1>1. Typed /\ events' \in 0..MaxEvents
    BY DEF AInv, Fatal, Typed
  <1>. QED
    BY <1>1, ClosedFatal, EndedKeeps DEF Fatal

\* A crash leaves what is on disk.
LEMMA CrashKeeps ==
    ASSUME AInv, Crash, limit' = limit
    PROVE  AInv' /\ \A t \in Tasks : Move(t)
  <1>1. Typed /\ (\A t \in Tasks : TaskInv(t)) /\ disk.order = order
    BY DEF AInv, Listed
  <1>2. /\ Event /\ Gone /\ Left /\ rec' = disk.rec /\ order' = disk.order /\ disk' = disk
        /\ view' = view /\ ahead' = ahead /\ prompted' = prompted /\ grants' = grants
    BY DEF Crash
  <1>3. delivery' \in [Tasks -> {"none", "sent", "uncertain"}]
    BY <1>1, <1>2 DEF Left, Unsure, Typed
  <1>4. Typed'
    <2>1. /\ limit' \in ListLimit /\ view' \in [Tasks -> Picture] /\ ahead' \in SUBSET Tasks
          /\ prompted' \in [Tasks -> Nat]
      BY <1>1, <1>2 DEF Typed
    <2>2. /\ rec' \in [Tasks -> Record] /\ order' \in Seq(Tasks)
          /\ disk' \in [rec : [Tasks -> Record], order : Seq(Tasks)]
      BY <1>1, <1>2 DEF Typed
    <2>. QED
      BY <1>1, <1>2, <1>3, <2>1, <2>2, GoneTyped, EventTyped DEF Typed
  <1>5. ASSUME NEW t \in Tasks PROVE Move(t) /\ rec'[t].held = rec[t].held
    <2>1. TaskInv(t) /\ rec[t].seq \in Nat /\ disk.rec[t].seq \in Nat /\ InDoubt(t)'
      BY <1>1, <1>2, RecordParts DEF Typed, Gone, InDoubt
    <2>. QED
      BY <1>2, <2>1 DEF Move, Runs, Common, Stays, TaskInv
  <1>. QED
    BY <1>1, <1>2, <1>4, <1>5, CloseStep

\* A runner starts from the list on disk.
LEMMA StartKeeps ==
    ASSUME AInv, Start, limit' = limit
    PROVE  AInv' /\ \A t \in Tasks : Move(t)
  <1>1. /\ Typed /\ (\A t \in Tasks : TaskInv(t)) /\ Listed /\ Working /\ Turns /\ Relayed
    BY DEF AInv
  <1>2. /\ ~up /\ up' = TRUE /\ step' = step /\ active' = active /\ connected' = connected
        /\ stopping' = stopping /\ ended' = ended /\ turn' = turn /\ turns' = turns /\ stops' = stops
        /\ asks' = asks /\ user' = user /\ agent' = agent /\ requests' = requests /\ broken' = broken
        /\ inbox' = inbox /\ events' = events /\ view' = view /\ delivery' = delivery /\ ahead' = ahead
        /\ prompted' = prompted /\ grants' = grants
        /\ disk' = Recovered(disk) /\ rec' = Recovered(disk).rec /\ order' = Recovered(disk).order
    BY DEF Start, acp, relay, screen
  <1>3. Recovered(disk) \in [rec : [Tasks -> Record], order : Seq(Tasks)] /\ Recovered(disk).order = order
    BY RecoveredRecords, ClosedDisk
  <1>4. Typed'
    BY <1>1, <1>2, <1>3 DEF Typed
  <1>5. \A t \in Tasks : Move(t) /\ rec'[t].held = rec[t].held
    BY <1>1, <1>2, LoadMoves, ClosedDisk
  <1>6. \A t \in Tasks : TaskInv(t)'
    BY <1>1, <1>4, <1>5, TasksKept
  <1>7. Listed'
    BY <1>1, <1>2, <1>3, <1>5, ListedKept
  <1>8. active = Idle /\ ~connected
    BY <1>1, <1>2 DEF Working
  <1>9. Working' /\ Turns'
    BY <1>1, <1>2, <1>8 DEF Working, Turns, GrantsInTurn
  <1>10. Relayed'
    BY <1>1, <1>2 DEF Relayed, Coming
  <1>11. Told'
    BY <1>2, <1>8 DEF Told
  <1>. QED
    BY <1>4, <1>5, <1>6, <1>7, <1>9, <1>10, <1>11 DEF AInv

-----------------------------------------------------------------------------
(* The loop: dispatch *)

\* Reports of records as they are, finished, or waiting for the user.
LEMMA EditedNone ==
    ASSUME AInv, NEW ts \in SUBSET Tasks, \A t \in ts : rec[t].held # "no"
    PROVE  Edited(rec, ts) /\ rec \in [Tasks -> Record]
  <1>1. (\A t \in Tasks : TaskInv(t)) /\ rec \in [Tasks -> Record]
    BY DEF AInv, Typed
  <1>2. \A t \in Tasks : rec[t].status \notin Terminal => rec[t].results = FALSE
    BY <1>1 DEF TaskInv
  <1>. QED
    BY <1>1, <1>2 DEF Edited

\* Ending a task is an edit of one task that is in the list.
LEMMA EditedFinish ==
    ASSUME AInv, NEW x \in Tasks, rec[x].held # "no", NEW st \in Terminal
    PROVE  /\ Edited(Finish(rec, x, st), {x}) /\ Finish(rec, x, st) \in [Tasks -> Record]
           /\ \A t \in Tasks : Finish(rec, x, st)[t].held = rec[t].held
           /\ \A t \in Tasks : rec[t].status # "queued" => Finish(rec, x, st)[t].status # "queued"
  <1> DEFINE f == Finish(rec, x, st)
  <1>1. (\A t \in Tasks : TaskInv(t)) /\ rec \in [Tasks -> Record] /\ st \in Status /\ st # "queued"
    BY DEF AInv, Typed, Status, Terminal
  <1>2. /\ f \in [Tasks -> Record]
        /\ \A u \in Tasks \ {x} : f[u] = rec[u]
        /\ rec[x].held # "full" \/ rec[x].status \in Terminal => f = rec
        /\ ~(rec[x].held # "full" \/ rec[x].status \in Terminal) => f[x].status = st
        /\ f[x].held = rec[x].held /\ f[x].seq = rec[x].seq
    BY <1>1, Finished
  <1>. HIDE DEF f
  <1>3. TaskInv(x) /\ rec[x].held \in {"no", "full", "evicted"}
    BY <1>1, RecordParts
  <1>4. f[x].status \in Terminal /\ (rec[x].status \in Terminal => f[x].status = rec[x].status)
    BY <1>2, <1>3 DEF TaskInv
  <1>5. Edited(f, {x})
    BY <1>2, <1>3, <1>4 DEF Edited, Terminal
  <1>6. \A t \in Tasks : f[t].held = rec[t].held /\ (rec[t].status # "queued" => f[t].status # "queued")
    BY <1>2, <1>4 DEF Terminal
  <1>. QED
    BY <1>2, <1>5, <1>6 DEF f

\* Asking for input, and resuming, are edits of one task that has started.
LEMMA EditedAsked ==
    ASSUME AInv, NEW x \in Tasks, rec[x].held # "no", rec[x].status # "queued", NEW q,
           q = RequireInput(rec, x) \/ q = Resume(rec, x)
    PROVE  /\ Edited(q, {x}) /\ q \in [Tasks -> Record]
           /\ \A t \in Tasks : q[t].held = rec[t].held
           /\ \A t \in Tasks : rec[t].status # "queued" => q[t].status # "queued"
  <1>1. (\A t \in Tasks : TaskInv(t)) /\ rec \in [Tasks -> Record]
    BY DEF AInv, Typed
  <1>2. /\ q \in [Tasks -> Record]
        /\ \A u \in Tasks \ {x} : q[u] = rec[u]
        /\ q[x].held = rec[x].held /\ q[x].seq = rec[x].seq /\ q[x].results = rec[x].results
        /\ rec[x].status \in Terminal => q[x].status = rec[x].status
        /\ rec[x].status # "queued" => q[x].status # "queued"
        /\ rec[x].status \notin Terminal => q[x].status \notin Terminal
    BY <1>1, Asked
  <1>3. q[x].status \notin Terminal => q[x].results = FALSE
    <2>1. TaskInv(x)
      BY <1>1
    <2>. QED
      BY <1>2, <2>1 DEF TaskInv
  <1>4. Edited(q, {x})
    BY <1>2, <1>3 DEF Edited
  <1>. QED
    BY <1>2, <1>4

\* The oldest queued task has a full record.
LEMMA QueuedTask ==
    ASSUME AInv, NEW i \in DOMAIN order, FirstQueued(i)
    PROVE  /\ order[i] \in Tasks /\ rec[order[i]].held = "full" /\ rec[order[i]].status = "queued"
           /\ TaskInv(order[i])
  BY DEF AInv, Typed, Listed, FirstQueued

\* In the loop, no dispatch is in doubt.
LEMMA LoopSettled ==
    ASSUME Loop
    PROVE  step = "loop" /\ up /\ \A t \in Tasks : ~InDoubt(t)
  BY DEF Loop, InDoubt

\* A report from the loop keeps everything but the parts about the agent.
LEMMA LoopReport ==
    ASSUME AInv, Loop, NEW r \in [Tasks -> Record], NEW a \in ActiveTask, NEW ts \in SUBSET Tasks,
           Report(r, order, a, ts), Edited(r, ts), \A t \in Tasks : r[t].held = rec[t].held,
           limit' = limit, up' = up, step' = step, connected' = connected,
           user' = user, agent' = agent, requests' = requests, broken' = broken, prompted' = prompted,
           stopping => stopping', stopping' \in BOOLEAN, active' \in ActiveTask,
           ended' \in Nat, turns' \in Nat, turn' \in Tasks \cup {NoTask},
           stops' \in Seq(Terminal), asks' \in SUBSET Request, events' \in 0..MaxEvents,
           inbox' \in Seq(InboxEvent),
           \A t \in Tasks : Coming(t) => Coming(t)' \/ t \in ts, Greeting => Greeting'
    PROVE  /\ Typed' /\ (\A t \in Tasks : Move(t) /\ TaskInv(t)') /\ Relayed' /\ Told' /\ Listed'
           /\ \A t \in Tasks : rec'[t].held = r[t].held /\ rec'[t].status = r[t].status
  <1>1. Typed /\ order \in Seq(Tasks)
    BY DEF AInv, Typed
  <1>2. Reported(r, order, ts)
    BY <1>1, ReportMade
  <1>3. Typed'
    BY <1>1, <1>2 DEF Typed, Reported
  <1>4. \A t \in Tasks : Prompts(t) /\ (t \notin ts /\ InDoubt(t) => InDoubt(t)')
    BY LoopSettled DEF Prompts
  <1>5. step # "prompt"
    BY LoopSettled
  <1>6. (\A t \in Tasks : Move(t) /\ TaskInv(t)') /\ Relayed' /\ Told' /\ Listed'
    BY <1>1, <1>3, <1>4, <1>5, ReportStep
  <1>7. \A t \in Tasks : rec'[t].held = r[t].held /\ rec'[t].status = r[t].status
    BY <1>2 DEF Reported
  <1>. QED
    BY <1>3, <1>6, <1>7

\* A task whose context cannot be prepared fails without a prompt.
LEMMA DispatchFailsKeeps ==
    ASSUME AInv, DispatchFails, limit' = limit
    PROVE  AInv' /\ \A t \in Tasks : Move(t)
  <1>1. /\ Typed /\ Working /\ Turns
    BY DEF AInv
  <1>2. /\ up' = up /\ step' = step /\ active' = active /\ connected' = connected
        /\ stopping' = stopping /\ ended' = ended /\ turn' = turn /\ turns' = turns /\ stops' = stops
        /\ asks' = asks /\ user' = user /\ agent' = agent /\ requests' = requests /\ broken' = broken
        /\ inbox' = inbox /\ events' = events /\ prompted' = prompted /\ grants' = grants
    BY DEF DispatchFails, acp, relay
  <1>3. PICK i \in DOMAIN order : /\ FirstQueued(i)
                                  /\ Report(Finish(rec, order[i], "failed"), order, active, {order[i]})
    BY DEF DispatchFails
  <1> DEFINE x == order[i]
             r == Finish(rec, x, "failed")
             ts == {x}
  <1>4. x \in Tasks /\ rec[x].held = "full" /\ ts \in SUBSET Tasks /\ "failed" \in Terminal
    BY <1>3, QueuedTask DEF Terminal
  <1>5. active = Idle /\ Loop /\ step = "loop"
    BY DEF DispatchFails, DispatchReady, Loop
  <1>6. /\ Edited(r, ts) /\ r \in [Tasks -> Record] /\ Report(r, order, active, ts)
        /\ \A t \in Tasks : r[t].held = rec[t].held
    BY <1>3, <1>4, EditedFinish
  <1>. HIDE DEF r, ts
  <1>7. (\A t \in Tasks : Coming(t) => Coming(t)') /\ (Greeting => Greeting')
    BY <1>2 DEF Coming, Greeting
  <1>t. /\ stopping' \in BOOLEAN /\ active' \in ActiveTask /\ ended' \in Nat /\ turns' \in Nat
        /\ turn' \in Tasks \cup {NoTask} /\ stops' \in Seq(Terminal) /\ asks' \in SUBSET Request
        /\ events' \in 0..MaxEvents /\ inbox' \in Seq(InboxEvent)
    BY <1>1, <1>2 DEF Typed
  <1>8. Typed' /\ (\A t \in Tasks : Move(t) /\ TaskInv(t)') /\ Relayed' /\ Told' /\ Listed'
    <2>1. active \in ActiveTask
      BY <1>2, <1>t
    <2>. QED
      BY <1>2, <1>4, <1>5, <1>6, <1>7, <1>t, <2>1, LoopReport
  <1>9. Working' /\ Turns'
    BY <1>1, <1>2, <1>5 DEF Working, Turns, GrantsInTurn
  <1>. QED
    BY <1>8, <1>9 DEF AInv

\* The parts of the active task.
LEMMA ActiveParts ==
    ASSUME NEW a \in ActiveTask
    PROVE  /\ a.id \in Tasks \cup {NoTask} /\ a.asked \in Seq(Request)
           /\ a.cancelling \in BOOLEAN /\ a.timed \in BOOLEAN
  BY DEF ActiveTask

\* The task under way is a task.
LEMMA ActiveTaskId ==
    ASSUME AInv, active # Idle
    PROVE  /\ active.id \in Tasks /\ {active.id} \in SUBSET Tasks /\ active.id # NoTask
           /\ rec[active.id].held # "no" /\ rec[active.id].status # "queued"
  BY AssistantAssumption DEF AInv, Typed, ActiveTask, Working

\* Nothing is under way between two tasks.
LEMMA IdleWorking ==
    ASSUME active' = Idle, step' = "loop", connected' = connected, up' = up, Working
    PROVE  Working'
  <1>1. Idle.id = NoTask /\ Idle.asked = <<>> /\ Idle.cancelling = FALSE /\ MaxPendingInput \in Nat
    BY AssistantAssumption DEF Idle
  <1>. QED
    BY <1>1 DEF Working

\* A dispatch is saved before its prompt.
LEMMA DispatchSaveKeeps ==
    ASSUME AInv, DispatchSave, limit' = limit
    PROVE  AInv' /\ \A t \in Tasks : Move(t)
  <1>1. /\ Typed /\ (\A t \in Tasks : TaskInv(t)) /\ Listed /\ Working /\ Turns /\ Relayed /\ Told
    BY DEF AInv
  <1>2. /\ up' = up /\ connected' = connected /\ order' = order /\ step' = "prompt"
        /\ stopping' = stopping /\ ended' = ended /\ turn' = turn /\ turns' = turns /\ stops' = stops
        /\ asks' = asks /\ user' = user /\ agent' = agent /\ requests' = requests /\ broken' = broken
        /\ inbox' = inbox /\ events' = events /\ view' = view /\ delivery' = delivery /\ ahead' = ahead
        /\ prompted' = prompted /\ grants' = grants
    BY DEF DispatchSave, acp, relay, screen
  <1>3. PICK i \in DOMAIN order :
            /\ FirstQueued(i)
            /\ rec' = [rec EXCEPT ![order[i]].status = "working"]
            /\ disk' = [rec |-> rec', order |-> order]
            /\ active' = [Idle EXCEPT !.id = order[i]]
    BY DEF DispatchSave
  <1> DEFINE x == order[i]
             c == [rec[x] EXCEPT !.status = "working"]
  <1>4. /\ x \in Tasks /\ rec[x].held = "full" /\ rec[x].status = "queued" /\ TaskInv(x)
        /\ rec \in [Tasks -> Record] /\ "working" \in Status
    BY <1>1, <1>3, QueuedTask DEF Typed, Status
  <1>5. active = Idle /\ Loop /\ step = "loop" /\ up
    BY DEF DispatchSave, DispatchReady, Loop
  <1>6. /\ c \in Record /\ c.held = "full" /\ c.status = "working" /\ c.seq = rec[x].seq
        /\ c.results = rec[x].results
    BY <1>4, WithStatus
  <1>7. rec' = [rec EXCEPT ![x] = c]
    BY <1>3
  <1>. HIDE DEF c, x
  <1>8. /\ rec' \in [Tasks -> Record] /\ rec'[x] = c /\ \A t \in Tasks \ {x} : rec'[t] = rec[t]
        /\ disk' \in [rec : [Tasks -> Record], order : Seq(Tasks)] /\ disk'.rec = rec' /\ disk'.order = order
    <2>1. rec' \in [Tasks -> Record] /\ rec'[x] = c /\ \A t \in Tasks \ {x} : rec'[t] = rec[t]
      BY <1>4, <1>6, <1>7
    <2>2. disk' = [rec |-> rec', order |-> order] /\ order \in Seq(Tasks)
      BY <1>1, <1>3 DEF Typed
    <2>. QED
      BY <2>1, <2>2
  <1>9. active' \in ActiveTask /\ active'.id = x /\ active'.asked = <<>> /\ active'.cancelling = FALSE
    BY <1>3, <1>4, NullsTyped DEF ActiveTask, Idle, x
  <1>10. Typed'
    BY <1>1, <1>2, <1>8, <1>9 DEF Typed
  <1>11. ASSUME NEW t \in Tasks PROVE Runs(t)
    <2>1. TaskInv(t) /\ rec[t].seq \in Nat /\ disk.rec[t].seq \in Nat /\ ~InDoubt(t)
      BY <1>1, <1>5, RecordParts, LoopSettled DEF Typed
    <2>2. CASE t = x
      <3>1. InDoubt(t)'
        BY <1>2, <1>9, <2>2 DEF InDoubt
      <3>2. rec[t].results = FALSE
        BY <1>4, <2>1, <2>2 DEF TaskInv, Terminal
      <3>. QED
        BY <1>2, <1>4, <1>6, <1>8, <2>1, <2>2, <3>1, <3>2 DEF Runs, Common, Starts, TaskInv
    <2>3. CASE t # x
      <3>1. rec'[t] = rec[t] /\ disk'.rec[t] = rec[t]
        BY <1>8, <2>3
      <3>. QED
        BY <1>2, <2>1, <3>1 DEF Runs, Common, Stays, TaskInv
    <2>. QED
      BY <2>2, <2>3
  <1>12. \A t \in Tasks : Move(t)
    BY <1>11 DEF Move
  <1>13. \A t \in Tasks : TaskInv(t)'
    BY <1>1, <1>10, <1>12, TasksKept
  <1>14. Listed'
    BY <1>1, <1>2, <1>4, <1>6, <1>8, ListedKept
  <1>15. Working'
    <2>1. active' # Idle /\ active'.id # NoTask
      BY <1>4, <1>9, AssistantAssumption DEF Idle
    <2>2. prompted[x] = 0
      BY <1>4 DEF TaskInv
    <2>3. MaxPendingInput \in Nat
      BY AssistantAssumption
    <2>. QED
      BY <1>1, <1>2, <1>4, <1>5, <1>6, <1>8, <1>9, <2>1, <2>2, <2>3 DEF Working
  <1>16. Turns'
    <2>1. \A q \in asks : q.turn \in Nat
      BY <1>1 DEF Typed, Request
    <2>. QED
      BY <1>1, <1>2, <1>5, <2>1 DEF Turns, GrantsInTurn, Typed
  <1>17. Relayed'
    BY <1>1, <1>2 DEF Relayed, Coming
  <1>18. Told'
    <2>1. (Live' => Live) /\ (Greeting => Greeting')
      BY <1>2 DEF Live, Greeting
    <2>. QED
      BY <1>1, <1>2, <1>5, <1>10, <1>11, <2>1, ToldKept
  <1>. QED
    BY <1>10, <1>12, <1>13, <1>14, <1>15, <1>16, <1>17, <1>18 DEF AInv

\* The prompt of a saved dispatch is its task's first.
LEMMA DispatchKeeps ==
    ASSUME AInv, Dispatch, limit' = limit
    PROVE  AInv' /\ \A t \in Tasks : Move(t)
  <1>1. /\ Typed /\ (\A t \in Tasks : TaskInv(t)) /\ Working /\ Turns
    BY DEF AInv
  <1>2. /\ up' = up /\ step = "prompt" /\ step' = "loop" /\ active' = active /\ connected' = connected
        /\ stopping' = stopping /\ ended' = ended /\ turn' = active.id /\ turns' = turns /\ stops' = stops
        /\ asks' = asks /\ user' = user /\ agent' = agent /\ requests' = requests /\ broken' = broken
        /\ inbox' = inbox /\ events' = events /\ grants' = grants /\ up
        /\ prompted' = [prompted EXCEPT ![active.id] = @ + 1]
        /\ Report(rec, order, active, {active.id})
    BY DEF Dispatch, relay
  <1> DEFINE x == active.id
             ts == {x}
  <1>3. active # Idle /\ rec[x].status = "working" /\ prompted[x] = 0
    BY <1>1, <1>2 DEF Working
  <1>4. /\ x \in Tasks /\ rec[x].held # "no" /\ ts \in SUBSET Tasks /\ active \in ActiveTask
        /\ order \in Seq(Tasks)
    BY <1>1, <1>3, ActiveTaskId DEF Typed
  <1>5. Edited(rec, ts) /\ rec \in [Tasks -> Record]
    BY <1>4, EditedNone
  <1>. HIDE DEF ts, x
  <1>6. Reported(rec, order, ts)
    BY <1>1, <1>2, <1>4, <1>5, ReportMade DEF ts, x
  <1>7. prompted' \in [Tasks -> Nat] /\ prompted'[x] = 1 /\ \A t \in Tasks \ {x} : prompted'[t] = prompted[t]
    BY <1>1, <1>2, <1>3, <1>4 DEF Typed, x
  <1>8. Typed'
    BY <1>1, <1>2, <1>4, <1>6, <1>7 DEF Typed, Reported, x
  <1>9. rec'[x].status = "working" /\ rec'[x].held # "no"
    BY <1>3, <1>4, <1>6 DEF Reported
  <1>10. \A t \in Tasks : Prompts(t) /\ (t \notin ts /\ InDoubt(t) => InDoubt(t)')
    BY <1>2, <1>3, <1>7, <1>9 DEF Prompts, InDoubt, ts, x
  <1>11. (\A t \in Tasks : Coming(t) => Coming(t)') /\ (Greeting => Greeting') /\ active.id \in ts
    BY <1>2 DEF Coming, Greeting, ts, x
  <1>12. (\A t \in Tasks : Move(t) /\ TaskInv(t)') /\ Relayed' /\ Told' /\ Listed'
    BY <1>2, <1>4, <1>5, <1>8, <1>10, <1>11, ReportStep DEF ts, x
  <1>13. Working'
    BY <1>1, <1>2, <1>9 DEF Working, x
  <1>14. Turns'
    <2>1. \A q \in asks : q.turn \in Nat
      BY <1>1 DEF Typed, Request
    <2>2. /\ stops = <<>> /\ turns = ended + Len(stops) /\ GrantsInTurn /\ ended \in Nat
          /\ \A q \in asks : q.turn < ended
      BY <1>1, <1>2 DEF Turns, Typed
    <2>3. \A q \in asks : q.turn <= ended /\ q.turn # ended
      BY <2>1, <2>2
    <2>. QED
      BY <1>2, <1>3, <2>2, <2>3 DEF Turns, GrantsInTurn
  <1>. QED
    BY <1>8, <1>12, <1>13, <1>14 DEF AInv

\* A prompt that the agent refuses fails its task.
LEMMA DispatchRefusedKeeps ==
    ASSUME AInv, DispatchRefused, limit' = limit
    PROVE  AInv' /\ \A t \in Tasks : Move(t)
  <1>1. /\ Typed /\ (\A t \in Tasks : TaskInv(t)) /\ Working /\ Turns
    BY DEF AInv
  <1>2. /\ up' = up /\ step = "prompt" /\ step' = "loop" /\ active' = Idle /\ connected' = connected
        /\ stopping' = stopping /\ ended' = ended /\ turn' = turn /\ turns' = turns /\ stops' = stops
        /\ asks' = asks /\ user' = user /\ agent' = agent /\ requests' = requests /\ broken' = broken
        /\ inbox' = inbox /\ events' = events /\ grants' = grants /\ up /\ prompted' = prompted
        /\ Report(Finish(rec, active.id, "failed"), order, Idle, {active.id})
    BY DEF DispatchRefused, acp, relay
  <1> DEFINE x == active.id
             ts == {x}
             r == Finish(rec, x, "failed")
  <1>3. active # Idle
    BY <1>1, <1>2 DEF Working
  <1>4. /\ x \in Tasks /\ rec[x].held # "no" /\ ts \in SUBSET Tasks /\ Idle \in ActiveTask
        /\ order \in Seq(Tasks) /\ "failed" \in Terminal
    BY <1>1, <1>3, ActiveTaskId, NullsTyped DEF Typed, Terminal
  <1>5. /\ Edited(r, ts) /\ r \in [Tasks -> Record] /\ Report(r, order, Idle, ts)
        /\ \A t \in Tasks : r[t].held = rec[t].held
    BY <1>2, <1>4, EditedFinish
  <1>. HIDE DEF ts, x, r
  <1>6. Reported(r, order, ts)
    BY <1>1, <1>4, <1>5, ReportMade
  <1>8. Typed'
    BY <1>1, <1>2, <1>4, <1>6 DEF Typed, Reported
  <1>10. \A t \in Tasks : Prompts(t) /\ (t \notin ts /\ InDoubt(t) => InDoubt(t)')
    BY <1>2 DEF Prompts, InDoubt, ts, x
  <1>11. (\A t \in Tasks : Coming(t) => Coming(t)') /\ (Greeting => Greeting') /\ active.id \in ts
    BY <1>2 DEF Coming, Greeting, ts, x
  <1>12. (\A t \in Tasks : Move(t) /\ TaskInv(t)') /\ Relayed' /\ Told' /\ Listed'
    BY <1>2, <1>4, <1>5, <1>8, <1>10, <1>11, ReportStep
  <1>13. Working'
    BY <1>1, <1>2, IdleWorking
  <1>14. Turns'
    <2>1. \A q \in asks : q.turn \in Nat
      BY <1>1 DEF Typed, Request
    <2>. QED
      BY <1>1, <1>2, <2>1 DEF Turns, GrantsInTurn, Typed
  <1>. QED
    BY <1>8, <1>12, <1>13, <1>14 DEF AInv

-----------------------------------------------------------------------------
(* The loop: timers and stops *)

\* The records and the browser's map stay as they are.
LEMMA StillKeeps ==
    ASSUME AInv, Typed', rec' = rec, disk' = disk, order' = order, view' = view, ahead' = ahead,
           prompted' = prompted, limit' = limit, \A t \in Tasks : InDoubt(t) => InDoubt(t)'
    PROVE  (\A t \in Tasks : Runs(t) /\ Move(t) /\ TaskInv(t)') /\ Listed'
  <1>1. Typed /\ (\A t \in Tasks : TaskInv(t)) /\ Listed /\ disk.order = order
    BY DEF AInv, Listed
  <1>2. \A t \in Tasks : Runs(t)
    BY <1>1, StillMoves
  <1>3. \A t \in Tasks : Move(t)
    BY <1>2 DEF Move
  <1>4. \A t \in Tasks : TaskInv(t)'
    BY <1>1, <1>3, TasksKept
  <1>5. Listed'
    BY <1>1, ListedKept
  <1>. QED
    BY <1>2, <1>3, <1>4, <1>5

\* ... and so does the relay.
LEMMA QuietKeeps ==
    ASSUME AInv, Typed', rec' = rec, disk' = disk, order' = order, view' = view, ahead' = ahead,
           delivery' = delivery, prompted' = prompted, limit' = limit, up' = up, step' = step,
           step = "prompt" => active'.id = active.id,
           user' = user, agent' = agent, requests' = requests, broken' = broken,
           connected' => connected, stopping => stopping',
           \A t \in Tasks : Coming(t) => Coming(t)', Greeting => Greeting'
    PROVE  (\A t \in Tasks : Move(t) /\ TaskInv(t)') /\ Listed' /\ Relayed' /\ Told'
  <1>1. Typed /\ (\A t \in Tasks : TaskInv(t)) /\ Relayed /\ Told
    BY DEF AInv
  <1>2. \A t \in Tasks : InDoubt(t) => InDoubt(t)'
    BY DEF InDoubt
  <1>3. (\A t \in Tasks : Runs(t) /\ Move(t) /\ TaskInv(t)') /\ Listed'
    BY <1>2, StillKeeps
  <1>4. Relayed'
    BY <1>1, RelayedKept
  <1>5. Live' => Live
    BY DEF Live
  <1>6. Told'
    BY <1>1, <1>3, <1>5, ToldKept
  <1>. QED
    BY <1>3, <1>4, <1>6

\* Part of an answer takes a number that is not saved.
LEMMA AnswerFlushKeeps ==
    ASSUME AInv, AnswerFlush, limit' = limit
    PROVE  AInv' /\ \A t \in Tasks : Move(t)
  <1>1. /\ Typed /\ (\A t \in Tasks : TaskInv(t)) /\ Listed /\ Working /\ Turns /\ Relayed /\ Told
    BY DEF AInv
  <1>2. /\ up' = up /\ connected' = connected /\ order' = order /\ step' = step /\ active' = active
        /\ stopping' = stopping /\ ended' = ended /\ turn' = turn /\ turns' = turns /\ stops' = stops
        /\ asks' = asks /\ user' = user /\ agent' = agent /\ requests' = requests /\ broken' = broken
        /\ inbox' = inbox /\ view' = view /\ delivery' = delivery /\ ahead' = ahead
        /\ prompted' = prompted /\ grants' = grants /\ disk' = disk
        /\ rec' = [rec EXCEPT ![active.id].seq = @ + 1] /\ Event /\ Loop /\ active # Idle
    BY DEF AnswerFlush, acp, relay, screen
  <1> DEFINE x == active.id
             c == [rec[x] EXCEPT !.seq = @ + 1]
  <1>3. x \in Tasks /\ rec[x].held # "no" /\ rec[x].status # "queued" /\ rec \in [Tasks -> Record]
    BY <1>1, <1>2, ActiveTaskId DEF Typed
  <1>4. /\ c \in Record /\ c.held = rec[x].held /\ c.status = rec[x].status /\ c.seq = rec[x].seq + 1
        /\ c.results = rec[x].results
    <2>1. rec[x] \in Record /\ rec[x].seq + 1 \in Nat
      BY <1>3, RecordParts
    <2>. QED
      BY <2>1 DEF Record
  <1>5. rec' = [rec EXCEPT ![x] = c]
    BY <1>2
  <1>. HIDE DEF c, x
  <1>6. rec' \in [Tasks -> Record] /\ rec'[x] = c /\ \A t \in Tasks \ {x} : rec'[t] = rec[t]
    BY <1>3, <1>4, <1>5
  <1>7. Typed'
    BY <1>1, <1>2, <1>6, EventTyped DEF Typed
  <1>8. ASSUME NEW t \in Tasks PROVE Runs(t) /\ rec'[t].held = rec[t].held
    <2>1. TaskInv(t) /\ rec[t].seq \in Nat /\ disk.rec[t].seq \in Nat /\ ~InDoubt(t)
      BY <1>1, <1>2, RecordParts, LoopSettled DEF Typed
    <2>2. CASE t = x
      <3>1. rec[t].status \notin Terminal => c.results = FALSE
        BY <1>4, <2>1, <2>2 DEF TaskInv
      <3>. QED
        BY <1>2, <1>3, <1>4, <1>6, <2>1, <2>2, <3>1 DEF Runs, Common, Stays, TaskInv
    <2>3. CASE t # x
      <3>1. rec'[t] = rec[t] /\ disk'.rec[t] = disk.rec[t]
        BY <1>2, <1>6, <2>3
      <3>a. view'[t] = view[t] /\ disk.rec[t].seq <= disk'.rec[t].seq
        BY <1>2, <2>1, <3>1
      <3>b. rec'[t].status = rec[t].status /\ rec'[t].held = rec[t].held /\ (rec'[t].held = "no" => rec'[t].seq = 0)
        BY <2>1, <3>1 DEF TaskInv
      <3>2. Stays(t)
        BY <2>1, <3>a, <3>b DEF Stays
      <3>3. Common(t)
        BY <1>2, <2>1, <3>1 DEF Common, TaskInv
      <3>. QED
        BY <3>1, <3>2, <3>3 DEF Runs
    <2>. QED
      BY <2>2, <2>3
  <1>9. \A t \in Tasks : Move(t)
    BY <1>8 DEF Move
  <1>10. \A t \in Tasks : TaskInv(t)'
    BY <1>1, <1>7, <1>9, TasksKept
  <1>11. Listed'
    <2>1. disk'.order = order
      BY <1>1, <1>2 DEF Listed
    <2>. QED
      BY <1>1, <1>2, <1>8, <2>1, ListedKept
  <1>12. Working'
    <2>1. rec'[x].held = rec[x].held /\ rec'[x].status = rec[x].status
      BY <1>4, <1>6
    <2>. QED
      BY <1>1, <1>2, <2>1 DEF Working, x
  <1>13. Turns'
    BY <1>1, <1>2 DEF Turns, GrantsInTurn
  <1>14. Relayed'
    BY <1>1, <1>2 DEF Relayed, Coming
  <1>15. Told'
    <2>1. (Live' => Live) /\ (Greeting => Greeting') /\ step # "prompt"
      BY <1>2, LoopSettled DEF Live, Greeting
    <2>. QED
      BY <1>1, <1>2, <1>7, <1>8, <2>1, ToldKept
  <1>. QED
    BY <1>7, <1>9, <1>10, <1>11, <1>12, <1>13, <1>14, <1>15 DEF AInv

\* A report of activity changes no status.
LEMMA ActivityKeeps ==
    ASSUME AInv, Activity, limit' = limit
    PROVE  AInv' /\ \A t \in Tasks : Move(t)
  <1>1. /\ Typed /\ Working /\ Turns
    BY DEF AInv
  <1>2. /\ up' = up /\ step' = step /\ active' = active /\ connected' = connected
        /\ stopping' = stopping /\ ended' = ended /\ turn' = turn /\ turns' = turns /\ stops' = stops
        /\ asks' = asks /\ user' = user /\ agent' = agent /\ requests' = requests /\ broken' = broken
        /\ inbox' = inbox /\ prompted' = prompted /\ grants' = grants
        /\ Loop /\ Event /\ active # Idle /\ Report(rec, order, active, {active.id})
    BY DEF Activity, acp, relay
  <1> DEFINE x == active.id
             ts == {x}
  <1>3. x \in Tasks /\ rec[x].held # "no" /\ ts \in SUBSET Tasks
    BY <1>2, ActiveTaskId
  <1>4. Edited(rec, ts) /\ rec \in [Tasks -> Record] /\ Report(rec, order, active, ts)
    BY <1>2, <1>3, EditedNone
  <1>. HIDE DEF ts, x
  <1>5. (\A t \in Tasks : Coming(t) => Coming(t)') /\ (Greeting => Greeting')
    BY <1>2 DEF Coming, Greeting
  <1>6. events' \in 0..MaxEvents /\ active \in ActiveTask
    BY <1>1, <1>2, EventTyped DEF Typed
  <1>7. /\ Typed' /\ (\A t \in Tasks : Move(t) /\ TaskInv(t)') /\ Relayed' /\ Told' /\ Listed'
        /\ \A t \in Tasks : rec'[t].held = rec[t].held /\ rec'[t].status = rec[t].status
    BY <1>1, <1>2, <1>3, <1>4, <1>5, <1>6, LoopReport DEF Typed
  <1>8. Working'
    BY <1>1, <1>2, <1>3, <1>7, LoopSettled DEF Working, x
  <1>9. Turns'
    BY <1>1, <1>2 DEF Turns, GrantsInTurn
  <1>. QED
    BY <1>7, <1>8, <1>9 DEF AInv

\* Ctrl-C cancels the active task under a deadline, and stops the runner.
LEMMA InterruptKeeps ==
    ASSUME AInv, Interrupt, limit' = limit
    PROVE  AInv' /\ \A t \in Tasks : Move(t)
  <1>1. /\ Typed /\ Working /\ Turns
    BY DEF AInv
  <1>2. /\ up' = up /\ step' = step /\ connected' = connected /\ ended' = ended /\ turn' = turn
        /\ turns' = turns /\ stops' = stops /\ stopping' = TRUE
        /\ asks' = asks /\ user' = user /\ agent' = agent /\ requests' = requests /\ broken' = broken
        /\ inbox' = inbox /\ view' = view /\ delivery' = delivery /\ ahead' = ahead
        /\ prompted' = prompted /\ grants' = grants /\ disk' = disk /\ rec' = rec /\ order' = order
        /\ active' = IF active = Idle \/ active.cancelling THEN active
                     ELSE [active EXCEPT !.cancelling = TRUE, !.timed = TRUE]
        /\ Loop /\ Event
    BY DEF Interrupt, acp, relay, screen
  <1>3. /\ active' \in ActiveTask /\ active'.id = active.id /\ active'.asked = active.asked
        /\ active' = Idle <=> active = Idle
    <2>1. active \in ActiveTask /\ (active.id = NoTask => active = Idle) /\ Idle.id = NoTask
      BY <1>1 DEF Typed, Working, Idle
    <2>2. LET b == [active EXCEPT !.cancelling = TRUE, !.timed = TRUE]
          IN  b \in ActiveTask /\ b.id = active.id /\ b.asked = active.asked
      BY <2>1 DEF ActiveTask
    <2>. QED
      BY <1>2, <2>1, <2>2
  <1>4. Typed'
    BY <1>1, <1>2, <1>3, EventTyped DEF Typed
  <1>5. (\A t \in Tasks : Coming(t) => Coming(t)') /\ (Greeting => Greeting')
    BY <1>2 DEF Coming, Greeting
  <1>6. (\A t \in Tasks : Move(t) /\ TaskInv(t)') /\ Listed' /\ Relayed' /\ Told'
    BY <1>2, <1>3, <1>4, <1>5, QuietKeeps
  <1>7. Working' /\ Turns'
    BY <1>1, <1>2, <1>3 DEF Working, Turns, GrantsInTurn
  <1>. QED
    BY <1>4, <1>6, <1>7 DEF AInv

\* A task or a request that takes too long is cancelled; a first cancellation
\* gets a deadline.
LEMMA TimeOutKeeps ==
    ASSUME AInv, TimeOut, limit' = limit
    PROVE  AInv' /\ \A t \in Tasks : Move(t)
  <1>1. /\ Typed /\ (\A t \in Tasks : TaskInv(t)) /\ Listed /\ Working /\ Turns /\ Relayed /\ Told
    BY DEF AInv
  <1>2. /\ up' = up /\ step' = step /\ connected' = connected /\ ended' = ended /\ turn' = turn
        /\ turns' = turns /\ stops' = stops /\ stopping' = stopping /\ events' = events
        /\ asks' = asks /\ user' = user /\ agent' = agent /\ requests' = requests /\ broken' = broken
        /\ inbox' = inbox /\ view' = view /\ delivery' = delivery /\ ahead' = ahead
        /\ prompted' = prompted /\ grants' = grants /\ rec' = rec /\ order' = order
        /\ disk' = [rec |-> rec, order |-> order] /\ Loop /\ active # Idle
        /\ active' = [active EXCEPT !.asked = <<>>, !.cancelling = TRUE, !.timed = @ \/ ~active.cancelling]
    BY DEF TimeOut, acp, relay, screen
  <1>3. /\ active' \in ActiveTask /\ active'.id = active.id /\ active'.asked = <<>>
        /\ active'.timed = (active.timed \/ ~active.cancelling)
    <2>1. active \in ActiveTask
      BY <1>1 DEF Typed
    <2>2. (active.timed \/ ~active.cancelling) \in BOOLEAN /\ <<>> \in Seq(Request)
      OBVIOUS
    <2>3. ASSUME NEW e \in BOOLEAN
          PROVE  LET b == [active EXCEPT !.asked = <<>>, !.cancelling = TRUE, !.timed = e]
                 IN  b \in ActiveTask /\ b.id = active.id /\ b.asked = <<>> /\ b.timed = e
      BY <2>1, <2>2 DEF ActiveTask
    <2> DEFINE e == active.timed \/ ~active.cancelling
    <2>4. active' = [active EXCEPT !.asked = <<>>, !.cancelling = TRUE, !.timed = e] /\ e \in BOOLEAN
      BY <1>2, <2>2
    <2>. HIDE DEF e
    <2>5. active' \in ActiveTask /\ active'.id = active.id /\ active'.asked = <<>> /\ active'.timed = e
      BY <2>3, <2>4
    <2>. QED
      BY <2>5 DEF e
  <1>4. Typed'
    BY <1>1, <1>2, <1>3 DEF Typed
  <1>5. ASSUME NEW t \in Tasks PROVE Runs(t)
    <2>1. TaskInv(t) /\ rec[t].seq \in Nat /\ disk.rec[t].seq \in Nat /\ ~InDoubt(t) /\ disk'.rec = rec
      BY <1>1, <1>2, RecordParts, LoopSettled DEF Typed
    <2>. QED
      BY <1>2, <2>1 DEF Runs, Common, Stays, TaskInv
  <1>6. \A t \in Tasks : Move(t)
    BY <1>5 DEF Move
  <1>7. \A t \in Tasks : TaskInv(t)'
    BY <1>1, <1>4, <1>6, TasksKept
  <1>8. Listed'
    BY <1>1, <1>2, ListedKept
  <1>9. Working'
    <2>1. active.timed \in BOOLEAN /\ active.cancelling \in BOOLEAN /\ MaxPendingInput \in Nat
      BY <1>1, ActiveParts, AssistantAssumption DEF Typed
    <2>2. active'.timed \/ stopping
      BY <1>1, <1>3, <2>1, Zenon DEF Working
    <2>3. active'.id # NoTask /\ step' = "loop"
      BY <1>2, <1>3, ActiveTaskId, LoopSettled
    <2>. QED
      BY <1>1, <1>2, <1>3, <2>1, <2>2, <2>3, LoopSettled DEF Working
  <1>10. Turns'
    <2>1. active' # Idle
      BY <1>2, <1>3, ActiveTaskId DEF Idle
    <2>. QED
      BY <1>1, <1>2, <1>3, <2>1 DEF Turns, GrantsInTurn
  <1>11. Relayed'
    BY <1>1, <1>2 DEF Relayed, Coming
  <1>12. Told'
    <2>1. (Live' => Live) /\ (Greeting => Greeting') /\ step # "prompt"
      BY <1>2, LoopSettled DEF Live, Greeting
    <2>. QED
      BY <1>1, <1>2, <1>4, <1>5, <2>1, ToldKept
  <1>. QED
    BY <1>4, <1>6, <1>7, <1>8, <1>9, <1>10, <1>11, <1>12 DEF AInv

\* A task is shown again as it is.
LEMMA ResentMoves ==
    ASSUME Typed, NEW t \in Tasks, TaskInv(t), NEW ts \in SUBSET Tasks, t \in ts, Live,
           NEW fs \in [ts -> Picture], NEW saved \in [Tasks -> Record], Emitted(fs, ts, saved),
           fs[t].seq = rec[t].seq, fs[t].status = rec[t].status,
           rec'[t] = rec[t], disk'.rec[t] = saved[t], saved[t] = disk.rec[t] \/ saved[t] = rec[t],
           rec[t].held # "no", ~InDoubt(t), prompted'[t] = prompted[t]
    PROVE  Runs(t) /\ Resends(t) /\ Heard(t)
  <1>1. /\ rec[t].seq \in Nat /\ disk.rec[t].seq \in Nat /\ rec[t].seq # 0 /\ view[t].seq \in Nat
        /\ disk.rec[t].seq <= rec[t].seq
    BY RecordParts DEF Typed, TaskInv, Picture
  <1>2. /\ t \in ahead => t \in ahead'
        /\ delivery'[t] = "none" /\ (fs[t].seq > saved[t].seq => t \in ahead')
        /\ (view'[t] = view[t] /\ fs[t].seq # 0 /\ fs[t].seq <= view[t].seq) \/ view'[t] = fs[t]
    BY DEF Emitted
  <1>3. Shows(t) /\ view'[t] # Unseen
    BY <1>1, <1>2 DEF Shows, Unseen
  <1>4. disk.rec[t].seq <= saved[t].seq /\ saved[t].seq <= rec[t].seq
    BY <1>1
  <1>5. Resends(t)
    BY <1>1, <1>2, <1>3, <1>4 DEF Resends
  <1>6. /\ disk'.rec[t].held = rec[t].held /\ disk'.rec[t].status = rec[t].status
        /\ rec[t].status \notin Terminal => rec[t].results = FALSE /\ disk'.rec[t].results = FALSE
    BY DEF TaskInv
  <1>7. Common(t)
    BY <1>2, <1>4, <1>6 DEF Common
  <1>. QED
    BY <1>2, <1>3, <1>5, <1>7 DEF Runs, Heard

\* A task shown again is shown as it is recorded.
LEMMA ResentCurrent ==
    ASSUME Typed, Typed', NEW t \in Tasks, TaskInv(t), Resends(t), Common(t), ~InDoubt(t)
    PROVE  Current(t)'
  <1>1. /\ rec[t].seq \in Nat /\ disk.rec[t].seq \in Nat /\ view[t].seq \in Nat /\ disk'.rec[t].seq \in Nat
    BY RecordParts DEF Typed, Picture
  <1>2. disk'.rec[t].seq = rec[t].seq \/ t \in ahead'
    BY <1>1 DEF Resends, Common
  <1>3. CASE view'[t] = view[t] /\ rec'[t].seq <= view[t].seq /\ t \notin ahead'
    <2>1. view[t].seq <= disk.rec[t].seq /\ disk.rec[t].seq <= rec[t].seq /\ rec'[t] = rec[t] /\ disk.rec[t].seq # 0
      BY <1>3 DEF TaskInv, Common, Resends
    <2>2. view[t].seq = disk.rec[t].seq /\ view[t].seq # 0
      BY <1>1, <1>3, <2>1
    <2>3. view[t].status = rec[t].status
      BY <1>3, <2>2 DEF TaskInv, Common
    <2>. QED
      BY <1>3, <2>1, <2>3 DEF Current
  <1>4. CASE view'[t].status = rec'[t].status
    BY <1>4 DEF Current
  <1>5. CASE t \in ahead'
    BY <1>5 DEF Current
  <1>. QED
    BY <1>3, <1>4, <1>5 DEF Resends, Shows

\* A cancellation whose deadline passes interrupts the task, and the agent
\* starts over.
LEMMA CancelDeadlineKeeps ==
    ASSUME AInv, CancelDeadline, limit' = limit
    PROVE  AInv' /\ \A t \in Tasks : Move(t)
  <1>1. /\ Typed /\ (\A t \in Tasks : TaskInv(t)) /\ Listed /\ Working /\ Turns /\ Relayed /\ Told
    BY DEF AInv
  <1>2. /\ Loop /\ active.timed /\ turn' = NoTask /\ turns' = 0 /\ stops' = <<>> /\ asks' = {} /\ ended' = 0
    BY DEF CancelDeadline
  <1>3. active # Idle /\ "interrupted" \in Terminal
    BY <1>2 DEF Idle, Terminal
  <1> DEFINE x == active.id
             f == Finish(rec, x, "interrupted")
             n == Numbers(f, {x})
             ts == {x} \cup (IF connected THEN Replayed ELSE {})
             fs == Frames(n, Idle, ts)
  <1>4. CASE stopping
    <2>1. Ended([rec |-> n, order |-> order]) /\ events' \in 0..MaxEvents
      BY <1>1, <1>4 DEF CancelDeadline, Typed
    <2>. QED
      BY <1>3, <2>1, ClosedFinish, EndedKeeps
  <1>5. CASE ~stopping
    <2>1. /\ rec' = n /\ disk' = [rec |-> n, order |-> order] /\ Emit(fs, n) /\ active' = Idle
          /\ order' = order /\ up' = up /\ step' = step /\ connected' = connected /\ stopping' = stopping
          /\ user' = user /\ agent' = agent /\ requests' = requests /\ broken' = broken /\ inbox' = inbox
          /\ events' = events /\ prompted' = prompted /\ grants' = grants
      BY <1>5 DEF CancelDeadline, relay
    <2>2. /\ x \in Tasks /\ rec[x].held # "no" /\ {x} \in SUBSET Tasks /\ rec \in [Tasks -> Record]
          /\ order \in Seq(Tasks) /\ Idle \in ActiveTask
      BY <1>1, <1>3, ActiveTaskId, NullsTyped DEF Typed
    <2>3. ts \in SUBSET Tasks /\ x \in ts /\ \A t \in ts : t # x => rec[t].held # "no"
      <3>1. Replayed \in SUBSET Tasks /\ \A t \in Replayed : rec[t].held = "full"
        BY <1>1, <2>2 DEF Replayed, Listed
      <3>. QED
        BY <2>2, <3>1
    <2>4. /\ f \in [Tasks -> Record] /\ \A t \in Tasks \ {x} : f[t] = rec[t]
          /\ Edited(f, {x}) /\ \A t \in Tasks : f[t].held = rec[t].held
      <3>. HIDE DEF x
      <3>1. Edited(f, {x}) /\ \A t \in Tasks : f[t].held = rec[t].held
        BY <1>3, <2>2, EditedFinish
      <3>2. f \in [Tasks -> Record] /\ \A t \in Tasks \ {x} : f[t] = rec[t]
        BY <1>3, <2>2, Finished DEF Status
      <3>. QED
        BY <3>1, <3>2
    <2>. HIDE DEF f
    <2>5. /\ n \in [Tasks -> Record]
          /\ \A t \in Tasks : /\ n[t].held = f[t].held /\ n[t].status = f[t].status
                              /\ t \notin {x} => n[t] = f[t]
                              /\ t \in {x} => n[t].seq = f[t].seq + 1
                              /\ t \in {x} /\ f[t].status \notin Terminal /\ f[t].results = FALSE =>
                                   n[t].results = FALSE
      BY <2>2, <2>4, NumbersMade
    <2>. HIDE DEF n, ts, x
    <2>6. fs \in [ts -> Picture] /\ \A t \in ts : fs[t].seq = n[t].seq /\ fs[t].status = n[t].status
      BY <2>2, <2>3, <2>5, FramesMade
    <2>. HIDE DEF fs
    <2>7. Emitted(fs, ts, n)
      BY <1>1, <2>1, <2>3, <2>5, <2>6, EmitMade
    <2>8. disk' \in [rec : [Tasks -> Record], order : Seq(Tasks)] /\ disk'.rec = n /\ disk'.order = order
      BY <2>1, <2>2, <2>5
    <2>9. Typed'
      <3>1. asks' \in SUBSET Request /\ stops' \in Seq(Terminal) /\ turn' \in Tasks \cup {NoTask}
        BY <1>2
      <3>. QED
        BY <1>1, <1>2, <2>1, <2>2, <2>5, <2>7, <2>8, <3>1 DEF Typed, Emitted
    <2>10. ASSUME NEW t \in Tasks
           PROVE  /\ Runs(t) /\ rec'[t].held = rec[t].held
                  /\ (delivery'[t] = delivery[t] /\ view'[t] = view[t]) \/ Heard(t)
      <3>1. TaskInv(t) /\ rec[t].seq \in Nat /\ disk.rec[t].seq \in Nat /\ ~InDoubt(t) /\ prompted'[t] = prompted[t]
        BY <1>1, <1>2, <2>1, RecordParts, LoopSettled DEF Typed
      <3>2. CASE t = x
        <4>1. /\ f[t].held = rec[t].held /\ f[t].held # "no" /\ f[t].seq = rec[t].seq
              /\ rec[t].status \in Terminal => f[t].status = rec[t].status
              /\ rec[t].status # "queued" => f[t].status # "queued"
              /\ f[t].status \notin Terminal => f[t].results = FALSE
          BY <2>4, <3>2 DEF Edited
        <4>2. /\ n[t].held = f[t].held /\ n[t].status = f[t].status /\ n[t].seq = f[t].seq + 1
              /\ n[t].status \notin Terminal => n[t].results = FALSE
          BY <2>5, <3>2, <4>1
        <4>3. /\ t \in ahead => t \in ahead'
              /\ ~Live => view' = view /\ delivery' = delivery
              /\ Live => /\ delivery'[t] = "none"
                         /\ (view'[t] = view[t] /\ fs[t].seq # 0 /\ fs[t].seq <= view[t].seq) \/ view'[t] = fs[t]
          BY <2>3, <2>7, <3>2 DEF Emitted
        <4>4. fs[t].seq = n[t].seq /\ fs[t].status = n[t].status /\ n[t].seq \in Nat \ {0}
          BY <2>3, <2>6, <3>1, <3>2, <4>1, <4>2
        <4>5. Live => Shows(t) /\ Heard(t)
          <5>1. view[t].seq \in Nat /\ rec'[t] = n[t]
            BY <1>1, <2>1 DEF Typed, Picture
          <5>. QED
            BY <4>3, <4>4, <5>1 DEF Shows, Heard, Unseen
        <4>6. Common(t)
          BY <2>1, <2>8, <3>1, <4>1, <4>2, <4>3 DEF Common
        <4>7. Reports(t)
          BY <2>1, <2>8, <3>1, <4>1, <4>2, <4>3, <4>5 DEF Reports
        <4>. QED
          BY <2>1, <4>1, <4>2, <4>3, <4>5, <4>6, <4>7 DEF Runs
      <3>3. CASE t # x
        <4>1. n[t] = rec[t] /\ rec'[t] = rec[t] /\ disk'.rec[t] = n[t]
          BY <2>1, <2>4, <2>5, <2>8, <3>3
        <4>2. CASE t \in ts /\ Live
          <5>1. fs[t].seq = rec[t].seq /\ fs[t].status = rec[t].status /\ rec[t].held # "no"
            BY <2>3, <2>6, <3>3, <4>1, <4>2
          <5>2. /\ Typed /\ TaskInv(t) /\ ts \in SUBSET Tasks /\ t \in ts /\ Live
                /\ fs \in [ts -> Picture] /\ n \in [Tasks -> Record] /\ Emitted(fs, ts, n)
                /\ rec'[t] = rec[t] /\ disk'.rec[t] = n[t] /\ (n[t] = disk.rec[t] \/ n[t] = rec[t])
                /\ ~InDoubt(t) /\ prompted'[t] = prompted[t]
            BY <1>1, <2>3, <2>5, <2>6, <2>7, <3>1, <4>1, <4>2
          <5>3. Runs(t) /\ Resends(t) /\ Heard(t)
            BY <5>1, <5>2, ResentMoves
          <5>. QED
            BY <4>1, <5>3
        <4>3. CASE ~(t \in ts /\ Live)
          <5>1. view'[t] = view[t] /\ delivery'[t] = delivery[t] /\ (t \in ahead => t \in ahead')
            BY <2>7, <4>3 DEF Emitted
          <5>2. disk'.rec[t] = rec[t] /\ disk.rec[t].seq <= disk'.rec[t].seq
            BY <3>1, <4>1 DEF TaskInv
          <5>3. Stays(t)
            BY <3>1, <4>1, <5>1, <5>2 DEF Stays, TaskInv
          <5>4. Common(t)
            BY <3>1, <4>1, <5>1, <5>2 DEF Common, TaskInv
          <5>. QED
            BY <4>1, <5>1, <5>3, <5>4 DEF Runs
        <4>. QED
          BY <4>2, <4>3
      <3>. QED
        BY <3>2, <3>3
    <2>11. \A t \in Tasks : Move(t)
      BY <2>10 DEF Move
    <2>12. \A t \in Tasks : TaskInv(t)'
      BY <1>1, <2>9, <2>11, TasksKept
    <2>13. Listed'
      BY <1>1, <2>1, <2>8, <2>10, ListedKept
    <2>14. Working'
      BY <1>1, <1>2, <2>1, IdleWorking, LoopSettled
    <2>15. Turns'
      BY <1>1, <1>2, <2>1 DEF Turns, GrantsInTurn
    <2>16. Relayed'
      <3>1. \A t \in Tasks : Coming(t) => Coming(t)'
        BY <2>1 DEF Coming
      <3>. QED
        BY <1>1, <2>1, <2>10, <3>1, RelayedKept
    <2>17. Told'
      <3>1. (Live' => Live) /\ (Greeting => Greeting') /\ step # "prompt"
        BY <1>2, <2>1, LoopSettled DEF Live, Greeting
      <3>. QED
        BY <1>1, <2>1, <2>9, <2>10, <3>1, ToldKept
    <2>. QED
      BY <2>9, <2>11, <2>12, <2>13, <2>14, <2>15, <2>16, <2>17 DEF AInv
  <1>. QED
    BY <1>4, <1>5

\* A request to stop cancels what is queued and interrupts what is active.
LEMMA StopRequestedKeeps ==
    ASSUME AInv, StopRequested, limit' = limit
    PROVE  AInv' /\ \A t \in Tasks : Move(t)
  <1>1. /\ Typed /\ (\A t \in Tasks : TaskInv(t)) /\ Listed /\ Working /\ Turns
    BY DEF AInv
  <1> DEFINE q(t) == Finish(rec, t, "cancelled")[t]
             s(t) == Finish(rec, t, "interrupted")[t]
             r == [t \in Tasks |-> IF Unfinished(t) /\ rec[t].status = "queued" THEN q(t)
                                   ELSE IF t = active.id THEN s(t) ELSE rec[t]]
             ts == {t \in Range(order) : rec[t].status \notin Terminal}
  <1>2. /\ up' = up /\ step' = step /\ connected' = connected /\ ended' = ended /\ turn' = turn
        /\ turns' = turns /\ stops' = stops /\ stopping' = TRUE
        /\ asks' = asks /\ user' = user /\ agent' = agent /\ requests' = requests /\ broken' = broken
        /\ inbox' = inbox /\ prompted' = prompted /\ grants' = grants
        /\ active' = (IF active = Idle THEN active ELSE [active EXCEPT !.cancelling = TRUE])
        /\ Loop /\ Event /\ Report(r, order, active, ts)
    BY DEF StopRequested, acp, relay
  <1>3. rec \in [Tasks -> Record] /\ order \in Seq(Tasks) /\ "cancelled" \in Terminal /\ "interrupted" \in Terminal
        /\ Terminal \subseteq Status /\ "queued" \notin Terminal
    BY <1>1 DEF Typed, Terminal, Status
  <1>4. ts \in SUBSET Tasks /\ \A t \in Tasks : t \in ts <=> rec[t].held = "full" /\ rec[t].status \notin Terminal
    BY <1>1, <1>3 DEF Range, Listed
  <1>5. ASSUME NEW t \in Tasks, NEW e \in {q(t), s(t)}
        PROVE  /\ e \in Record /\ e.held = rec[t].held /\ e.seq = rec[t].seq /\ e.results = rec[t].results
               /\ t \notin ts => e = rec[t]
               /\ t \in ts => e.status \in Terminal
    <2>1. PICK st \in Terminal : e = Finish(rec, t, st)[t]
      BY <1>3, <1>5
    <2>2. st \in Status
      BY <1>3
    <2>. HIDE DEF ts
    <2>. QED
      BY <1>3, <1>4, <2>1, <2>2, Finished
  <1>. HIDE DEF q, s, ts
  <1>6. r \in [Tasks -> Record] /\ \A t \in Tasks : r[t] \in {q(t), s(t), rec[t]}
    BY <1>3, <1>5
  <1>. HIDE DEF r
  <1>7. /\ Edited(r, ts) /\ \A t \in Tasks : r[t].held = rec[t].held
        /\ \A t \in Tasks : rec[t].status # "queued" => r[t].status # "queued"
    <2>1. ASSUME NEW t \in Tasks
          PROVE  /\ r[t].held = rec[t].held /\ r[t].seq = rec[t].seq
                 /\ t \notin ts => r[t] = rec[t]
                 /\ t \in ts => r[t] = rec[t] \/ r[t].status \in Terminal
      <3>1. CASE r[t] \in {q(t), s(t)}
        BY <1>5, <3>1
      <3>2. CASE r[t] = rec[t]
        BY <3>2
      <3>. QED
        BY <1>6, <3>1, <3>2
    <2>2. \A t \in Tasks : rec[t].status \notin Terminal => rec[t].results = FALSE
      BY <1>1 DEF TaskInv
    <2>3. ASSUME NEW t \in Tasks
          PROVE  /\ t \notin ts => r[t].status = rec[t].status /\ r[t].results = rec[t].results
                 /\ t \in ts => /\ r[t].held # "no"
                                /\ rec[t].status \in Terminal => r[t].status = rec[t].status
                                /\ rec[t].status # "queued" => r[t].status # "queued"
                                /\ r[t].status \notin Terminal => r[t].results = FALSE
      <3>1. CASE t \notin ts
        BY <2>1, <3>1
      <3>2. CASE t \in ts
        <4>1. r[t].held # "no" /\ rec[t].status \notin Terminal
          BY <1>4, <2>1, <3>2
        <4>2. r[t] = rec[t] \/ r[t].status \in Terminal
          BY <2>1, <3>2
        <4>. QED
          BY <1>3, <2>2, <3>2, <4>1, <4>2
      <3>. QED
        BY <3>1, <3>2
    <2>4. Edited(r, ts)
      BY <2>1, <2>3, Zenon DEF Edited
    <2>. QED
      BY <2>1, <2>3, <2>4
  <1>8. /\ active' \in ActiveTask /\ active'.id = active.id /\ active'.asked = active.asked
        /\ active' = Idle <=> active = Idle
    <2>1. active \in ActiveTask /\ (active.id = NoTask => active = Idle) /\ Idle.id = NoTask
      BY <1>1 DEF Typed, Working, Idle
    <2>2. LET b == [active EXCEPT !.cancelling = TRUE]
          IN  b \in ActiveTask /\ b.id = active.id /\ b.asked = active.asked
      BY <2>1 DEF ActiveTask
    <2>. QED
      BY <1>2, <2>1, <2>2
  <1>9. (\A t \in Tasks : Coming(t) => Coming(t)') /\ (Greeting => Greeting')
    BY <1>2 DEF Coming, Greeting
  <1>10. events' \in 0..MaxEvents /\ active \in ActiveTask
    BY <1>1, <1>2, EventTyped DEF Typed
  <1>11. /\ Typed' /\ (\A t \in Tasks : Move(t) /\ TaskInv(t)') /\ Relayed' /\ Told' /\ Listed'
         /\ \A t \in Tasks : rec'[t].held = r[t].held /\ rec'[t].status = r[t].status
    BY <1>1, <1>2, <1>4, <1>6, <1>7, <1>8, <1>9, <1>10, LoopReport DEF Typed
  <1>12. Working'
    <2>1. active # Idle => /\ rec'[active.id].held # "no" /\ rec'[active.id].status # "queued"
      BY <1>7, <1>11, ActiveTaskId
    <2>. QED
      BY <1>1, <1>2, <1>8, <2>1, LoopSettled DEF Working
  <1>13. Turns'
    BY <1>1, <1>2, <1>8 DEF Turns, GrantsInTurn
  <1>. QED
    BY <1>11, <1>12, <1>13 DEF AInv

\* The turn whose end is next was the one of the task under way.
LEMMA TurnOver ==
    ASSUME AInv, Loop, stops # <<>>
    PROVE  /\ active # Idle /\ turn = NoTask /\ Tail(stops) = <<>> /\ Head(stops) \in Terminal
           /\ turns = ended + 1 /\ \A q \in asks : q.turn < ended + 1 /\ q.turn \in Nat
  <1>1. Typed /\ Turns /\ step = "loop"
    BY LoopSettled DEF AInv
  <1>2. stops \in Seq(Terminal) /\ ended \in Nat /\ \A q \in asks : q.turn \in Nat
    BY <1>1 DEF Typed, Request
  <1>3. active # Idle /\ turn = NoTask /\ Len(stops) = 1
    BY <1>1 DEF Turns
  <1>4. Tail(stops) = <<>> /\ Head(stops) \in Terminal
    <2>1. Tail(stops) \in Seq(Terminal) /\ Len(Tail(stops)) = 0 /\ Head(stops) \in Terminal
      BY <1>2, <1>3, HeadTailProperties
    <2>. QED
      BY <2>1, EmptySeq
  <1>5. turns = ended + 1 /\ \A q \in asks : q.turn < ended + 1
    BY <1>1, <1>2, <1>3 DEF Turns
  <1>. QED
    BY <1>2, <1>3, <1>4, <1>5

\* The end of a turn ends its task and no other.
LEMMA TurnEndedKeeps ==
    ASSUME AInv, TurnEnded, limit' = limit
    PROVE  AInv' /\ \A t \in Tasks : Move(t)
  <1>1. /\ Typed /\ Working /\ Turns
    BY DEF AInv
  <1>2. Loop /\ stops # <<>> /\ stops' = Tail(stops) /\ ended' = ended + 1
    BY DEF TurnEnded
  <1>3. /\ active # Idle /\ turn = NoTask /\ Tail(stops) = <<>> /\ Head(stops) \in Terminal
        /\ turns = ended + 1 /\ \A q \in asks : q.turn < ended + 1 /\ q.turn \in Nat
    BY <1>2, TurnOver
  <1>4. /\ up' = up /\ step' = step /\ active' = Idle /\ connected' = connected
        /\ stopping' = stopping /\ turn' = turn /\ turns' = turns
        /\ asks' = asks /\ user' = user /\ agent' = agent /\ requests' = requests /\ broken' = broken
        /\ inbox' = inbox /\ events' = events /\ prompted' = prompted /\ grants' = grants
        /\ Report(Finish(rec, active.id, Head(stops)), order, Idle, {active.id})
    BY <1>3 DEF TurnEnded, relay
  <1> DEFINE x == active.id
             ts == {x}
             r == Finish(rec, x, Head(stops))
  <1>5. x \in Tasks /\ rec[x].held # "no" /\ ts \in SUBSET Tasks /\ Idle \in ActiveTask
    BY <1>3, ActiveTaskId, NullsTyped
  <1>6. /\ Edited(r, ts) /\ r \in [Tasks -> Record] /\ Report(r, order, Idle, ts)
        /\ \A t \in Tasks : r[t].held = rec[t].held
    BY <1>3, <1>4, <1>5, EditedFinish
  <1>. HIDE DEF r, ts, x
  <1>7. (\A t \in Tasks : Coming(t) => Coming(t)') /\ (Greeting => Greeting')
    BY <1>4 DEF Coming, Greeting
  <1>8. ended' \in Nat /\ stops' \in Seq(Terminal)
    BY <1>1, <1>2, <1>3 DEF Typed
  <1>9. Typed' /\ (\A t \in Tasks : Move(t) /\ TaskInv(t)') /\ Relayed' /\ Told' /\ Listed'
    <2>1. /\ stopping' \in BOOLEAN /\ active' \in ActiveTask /\ ended' \in Nat /\ turns' \in Nat
          /\ turn' \in Tasks \cup {NoTask} /\ stops' \in Seq(Terminal) /\ asks' \in SUBSET Request
          /\ events' \in 0..MaxEvents /\ inbox' \in Seq(InboxEvent)
      BY <1>1, <1>4, <1>5, <1>8 DEF Typed
    <2>. QED
      BY <1>2, <1>4, <1>5, <1>6, <1>7, <2>1, LoopReport
  <1>10. Working'
    BY <1>1, <1>2, <1>4, IdleWorking, LoopSettled
  <1>11. Turns'
    <2>1. ended \in Nat /\ GrantsInTurn
      BY <1>1 DEF Typed, Turns
    <2>2. stops' = <<>> /\ turns' = ended' + Len(stops')
      <3>1. stops' = <<>> /\ turns' = ended' + 0
        BY <1>2, <1>3, <1>4, <2>1
      <3>2. Len(<<>>) = 0
        OBVIOUS
      <3>. QED
        BY <3>1, <3>2
    <2>3. \A q \in asks' : q.turn < ended' /\ q.turn <= ended' /\ q.turn # ended'
      BY <1>2, <1>3, <1>4, <2>1
    <2>. QED
      BY <1>3, <1>4, <2>1, <2>2, <2>3 DEF Turns, GrantsInTurn
  <1>. QED
    BY <1>9, <1>10, <1>11 DEF AInv

\* A completed turn with work left goes on in a new turn of the same task.
LEMMA NextSegmentKeeps ==
    ASSUME AInv, NextSegment, limit' = limit
    PROVE  AInv' /\ \A t \in Tasks : Move(t)
  <1>1. /\ Typed /\ Working /\ Turns
    BY DEF AInv
  <1>2. /\ Loop /\ stops # <<>> /\ stops' = Tail(stops) /\ ended' = ended + 1 /\ Event
        /\ up' = up /\ step' = step /\ connected' = connected
        /\ stopping' = stopping /\ turn' = active.id /\ turns' = turns
        /\ active' = [active EXCEPT !.asked = <<>>]
        /\ asks' = asks /\ user' = user /\ agent' = agent /\ requests' = requests /\ broken' = broken
        /\ inbox' = inbox /\ view' = view /\ delivery' = delivery /\ ahead' = ahead
        /\ prompted' = prompted /\ grants' = grants /\ disk' = disk /\ rec' = rec /\ order' = order
    BY DEF NextSegment, relay, screen
  <1>3. /\ active # Idle /\ turn = NoTask /\ Tail(stops) = <<>> /\ Head(stops) \in Terminal
        /\ turns = ended + 1 /\ \A q \in asks : q.turn < ended + 1 /\ q.turn \in Nat
    BY <1>2, TurnOver
  <1>4. /\ active' \in ActiveTask /\ active'.id = active.id /\ active'.asked = <<>>
        /\ active'.cancelling = active.cancelling /\ active'.timed = active.timed
    <2>1. active \in ActiveTask /\ <<>> \in Seq(Request)
      BY <1>1 DEF Typed
    <2>. QED
      BY <1>2, <2>1 DEF ActiveTask
  <1>5. active.id \in Tasks /\ active.id # NoTask
    BY <1>3, ActiveTaskId
  <1>6. Typed'
    <2>1. ended' \in Nat /\ stops' \in Seq(Terminal)
      BY <1>1, <1>2, <1>3 DEF Typed
    <2>. QED
      BY <1>1, <1>2, <1>4, <1>5, <2>1, EventTyped DEF Typed
  <1>7. (\A t \in Tasks : Coming(t) => Coming(t)') /\ (Greeting => Greeting')
    BY <1>2 DEF Coming, Greeting
  <1>8. (\A t \in Tasks : Move(t) /\ TaskInv(t)') /\ Listed' /\ Relayed' /\ Told'
    BY <1>2, <1>4, <1>6, <1>7, QuietKeeps
  <1>9. Working'
    <2>1. MaxPendingInput \in Nat
      BY AssistantAssumption
    <2>. QED
      BY <1>1, <1>2, <1>3, <1>4, <1>5, <2>1, LoopSettled DEF Working
  <1>10. Turns'
    <2>1. ended \in Nat /\ GrantsInTurn /\ active' # Idle
      BY <1>1, <1>4, <1>5 DEF Typed, Turns, Idle
    <2>2. stops' = <<>> /\ turns' = ended' + Len(stops') /\ step' # "prompt"
      <3>1. stops' = <<>> /\ turns' = ended' + 0 /\ step' # "prompt"
        BY <1>2, <1>3, <2>1, LoopSettled
      <3>2. Len(<<>>) = 0
        OBVIOUS
      <3>. QED
        BY <3>1, <3>2
    <2>3. \A q \in asks' : q.turn <= ended' /\ q.turn # ended'
      BY <1>2, <1>3, <2>1
    <2>. QED
      BY <1>2, <1>4, <2>1, <2>2, <2>3 DEF Turns, GrantsInTurn
  <1>. QED
    BY <1>6, <1>8, <1>9, <1>10 DEF AInv

-----------------------------------------------------------------------------
(* The loop: events from the transport *)

\* RemoveAt closes the gap.
LEMMA RemoveAtMade ==
    ASSUME NEW S, NEW s \in Seq(S), NEW i \in DOMAIN s
    PROVE  /\ RemoveAt(s, i) \in Seq(S) /\ Len(RemoveAt(s, i)) = Len(s) - 1
           /\ \A j \in 1..(Len(s) - 1) : RemoveAt(s, i)[j] = IF j < i THEN s[j] ELSE s[j + 1]
  <1> DEFINE p == SubSeq(s, 1, i - 1)
             q == SubSeq(s, i + 1, Len(s))
  <1>1. i \in 1..Len(s) /\ Len(s) \in Nat
    OBVIOUS
  <1>2. /\ p \in Seq(S) /\ Len(p) = i - 1 /\ \A j \in 1..(i - 1) : p[j] = s[j]
    BY <1>1
  <1>3. /\ q \in Seq(S) /\ Len(q) = Len(s) - i /\ \A j \in 1..(Len(s) - i) : q[j] = s[i + j]
    BY <1>1
  <1>4. RemoveAt(s, i) = p \o q
    BY DEF RemoveAt
  <1>. HIDE DEF p, q
  <1>5. /\ p \o q \in Seq(S) /\ Len(p \o q) = Len(p) + Len(q)
        /\ \A j \in 1..(Len(p) + Len(q)) : (p \o q)[j] = IF j <= Len(p) THEN p[j] ELSE q[j - Len(p)]
    BY <1>2, <1>3, ConcatProperties
  <1>6. ASSUME NEW j \in 1..(Len(s) - 1)
        PROVE  (p \o q)[j] = IF j < i THEN s[j] ELSE s[j + 1]
    <2>0. /\ j \in Int /\ i \in Int /\ 1 <= j /\ j <= Len(s) - 1 /\ 1 <= i /\ i <= Len(s)
          /\ Len(p) = i - 1 /\ j \in 1..(Len(p) + Len(q))
      <3>1. (i - 1) + (Len(s) - i) = Len(s) - 1
        BY <1>1
      <3>. QED
        BY <1>1, <1>2, <1>3, <3>1
    <2>1. (p \o q)[j] = IF j <= Len(p) THEN p[j] ELSE q[j - Len(p)]
      BY <1>5, <2>0
    <2>2. CASE j < i
      BY <1>2, <2>0, <2>1, <2>2
    <2>3. CASE ~(j < i)
      <3>1. (p \o q)[j] = q[j - (i - 1)] /\ j - (i - 1) \in 1..(Len(s) - i)
        BY <1>1, <2>0, <2>1, <2>3
      <3>2. i + (j - (i - 1)) = j + 1
        BY <2>0
      <3>3. q[j - (i - 1)] = s[i + (j - (i - 1))]
        BY <1>3, <3>1
      <3>. QED
        BY <2>3, <3>1, <3>2, <3>3
    <2>. QED
      BY <2>2, <2>3
  <1>. QED
    <2>1. (i - 1) + (Len(s) - i) = Len(s) - 1
      BY <1>1
    <2>2. p \o q \in Seq(S) /\ Len(p \o q) = Len(s) - 1
      BY <1>2, <1>3, <1>5, <2>1
    <2>. QED
      BY <1>4, <1>6, <2>2

\* Retained tasks are shown again.
LEMMA EmitAgain ==
    ASSUME AInv, NEW ts \in SUBSET Tasks, \A t \in ts : rec[t].held # "no", Loop,
           Emit(Frames(rec, active, ts), disk.rec), rec' = rec, disk' = disk, prompted' = prompted
    PROVE  /\ view' \in [Tasks -> Picture] /\ delivery' \in [Tasks -> {"none", "sent", "uncertain"}]
           /\ ahead' \in SUBSET Tasks
           /\ \A t \in Tasks : Runs(t) /\ Move(t)
           /\ \A t \in ts : Live => Resends(t) /\ Heard(t)
           /\ \A t \in Tasks : (delivery'[t] = delivery[t] /\ view'[t] = view[t]) \/ Heard(t)
  <1> DEFINE fs == Frames(rec, active, ts)
  <1>1. /\ Typed /\ (\A t \in Tasks : TaskInv(t)) /\ rec \in [Tasks -> Record] /\ disk.rec \in [Tasks -> Record]
        /\ active \in ActiveTask
    BY DEF AInv, Typed
  <1>2. fs \in [ts -> Picture] /\ \A t \in ts : fs[t].seq = rec[t].seq /\ fs[t].status = rec[t].status
    BY <1>1, FramesMade
  <1>. HIDE DEF fs
  <1>3. Emit(fs, disk.rec)
    BY DEF fs
  <1>4. Emitted(fs, ts, disk.rec)
    BY <1>1, <1>2, <1>3, EmitMade
  <1>5. ASSUME NEW t \in ts, Live
        PROVE  Runs(t) /\ Resends(t) /\ Heard(t)
    <2>1. t \in Tasks /\ TaskInv(t) /\ ~InDoubt(t) /\ rec[t].held # "no"
      BY <1>1, LoopSettled
    <2>2. /\ fs[t].seq = rec[t].seq /\ fs[t].status = rec[t].status /\ rec'[t] = rec[t]
          /\ disk'.rec[t] = disk.rec[t] /\ prompted'[t] = prompted[t]
      BY <1>2
    <2>. QED
      BY <1>1, <1>2, <1>4, <1>5, <2>1, <2>2, ResentMoves
  <1>6. ASSUME NEW t \in Tasks, ~(t \in ts /\ Live)
        PROVE  Runs(t) /\ delivery'[t] = delivery[t] /\ view'[t] = view[t]
    <2>1. TaskInv(t) /\ ~InDoubt(t) /\ rec[t].seq \in Nat /\ disk.rec[t].seq \in Nat
      BY <1>1, LoopSettled, RecordParts
    <2>2. view'[t] = view[t] /\ delivery'[t] = delivery[t] /\ (t \in ahead => t \in ahead')
      BY <1>4, <1>6 DEF Emitted
    <2>. QED
      BY <2>1, <2>2 DEF Runs, Common, Stays, TaskInv
  <1>7. \A t \in Tasks : Runs(t) /\ ((delivery'[t] = delivery[t] /\ view'[t] = view[t]) \/ Heard(t))
    BY <1>5, <1>6
  <1>8. \A t \in Tasks : Move(t)
    BY <1>7 DEF Move
  <1>9. \A t \in ts : Live => Resends(t) /\ Heard(t)
    BY <1>5
  <1>. QED
    BY <1>4, <1>7, <1>8, <1>9 DEF Emitted

\* A browser that appears is told of every record.
LEMMA PresenceKeeps ==
    ASSUME AInv, Presence, limit' = limit
    PROVE  AInv' /\ \A t \in Tasks : Move(t)
  <1>1. /\ Typed /\ (\A t \in Tasks : TaskInv(t)) /\ Listed /\ Working /\ Turns /\ Relayed /\ Told
    BY DEF AInv
  <1>2. /\ Loop /\ inbox # <<>> /\ Head(inbox).kind = "presence" /\ inbox' = Tail(inbox)
        /\ connected' = Head(inbox).browser
        /\ up' = up /\ order' = order /\ step' = step /\ active' = active /\ rec' = rec /\ disk' = disk
        /\ stopping' = stopping /\ ended' = ended /\ turn' = turn /\ turns' = turns /\ stops' = stops
        /\ asks' = asks /\ user' = user /\ agent' = agent /\ requests' = requests /\ broken' = broken
        /\ events' = events /\ prompted' = prompted /\ grants' = grants
    BY DEF Presence, Receive, acp, relay
  <1>3. /\ inbox' \in Seq(InboxEvent) /\ Head(inbox).browser \in BOOLEAN
        /\ \A t \in Tasks : Coming(t) => Coming(t)'
        /\ Greeting => Greeting' \/ Head(inbox).browser = TRUE
    BY <1>1, <1>2, Received, EventParts
  <1>4. \A t \in Tasks : ~InDoubt(t)
    BY <1>2, LoopSettled
  <1> DEFINE ts == Replayed
  <1>5. ts \in SUBSET Tasks /\ (\A t \in ts : rec[t].held # "no") /\ Replayed' = ts
    BY <1>1, <1>2 DEF Typed, Replayed, Listed
  <1>. HIDE DEF ts
  <1>6. Working' /\ Turns'
    BY <1>1, <1>2, LoopSettled DEF Working, Turns, GrantsInTurn
  <1>7. CASE Head(inbox).browser /\ ~stopping
    <2>1. Emit(Frames(rec, active, ts), disk.rec)
      BY <1>7 DEF Presence, Reconcile, ts
    <2>2. /\ view' \in [Tasks -> Picture] /\ delivery' \in [Tasks -> {"none", "sent", "uncertain"}]
          /\ ahead' \in SUBSET Tasks
          /\ \A t \in Tasks : Runs(t) /\ Move(t)
          /\ \A t \in ts : Live => Resends(t) /\ Heard(t)
          /\ \A t \in Tasks : (delivery'[t] = delivery[t] /\ view'[t] = view[t]) \/ Heard(t)
      BY <1>2, <1>5, <2>1, EmitAgain
    <2>3. Typed'
      BY <1>1, <1>2, <1>3, <2>2 DEF Typed
    <2>4. \A t \in Tasks : TaskInv(t)'
      BY <1>1, <2>2, <2>3, TasksKept
    <2>5. Listed'
      <3>1. disk'.order = order
        BY <1>1, <1>2 DEF Listed
      <3>. QED
        BY <1>1, <1>2, <3>1, ListedKept
    <2>6. Relayed'
      BY <1>1, <1>2, <1>3, <2>2, RelayedKept
    <2>7. Told'
      <3>. SUFFICES ASSUME Live', NEW t \in Tasks PROVE Current(t)'
        BY DEF Told
      <3>1. Live
        BY <1>2 DEF Live
      <3>2. CASE t \in ts
        <4>1. Resends(t) /\ Common(t) /\ TaskInv(t) /\ ~InDoubt(t)
          BY <1>1, <1>4, <2>2, <3>1, <3>2 DEF Runs
        <4>. QED
          BY <1>1, <2>3, <4>1, ResentCurrent
      <3>3. CASE t \notin ts
        BY <1>2, <1>5, <3>3 DEF Current
      <3>. QED
        BY <3>2, <3>3
    <2>. QED
      BY <1>6, <2>2, <2>3, <2>4, <2>5, <2>6, <2>7 DEF AInv
  <1>8. CASE ~(Head(inbox).browser /\ ~stopping)
    <2>1. view' = view /\ delivery' = delivery /\ ahead' = ahead
      BY <1>8 DEF Presence, screen
    <2>2. Typed'
      BY <1>1, <1>2, <1>3, <2>1 DEF Typed
    <2>3. (\A t \in Tasks : Runs(t) /\ Move(t) /\ TaskInv(t)') /\ Listed'
      BY <1>2, <1>4, <2>1, <2>2, StillKeeps
    <2>4. Relayed'
      BY <1>1, <1>2, <1>3, <2>1, RelayedKept
    <2>5. Told'
      BY <1>2, <1>3, <1>8 DEF Told
    <2>. QED
      BY <1>6, <2>2, <2>3, <2>4, <2>5 DEF AInv
  <1>. QED
    BY <1>7, <1>8

\* A runner that is offline takes no browser for connected.
LEMMA OfflineKeeps ==
    ASSUME AInv, Offline, limit' = limit
    PROVE  AInv' /\ \A t \in Tasks : Move(t)
  <1>1. /\ Typed /\ Working /\ Turns /\ Relayed
    BY DEF AInv
  <1>2. /\ Loop /\ inbox # <<>> /\ Head(inbox).kind = "offline" /\ inbox' = Tail(inbox)
        /\ connected' = FALSE
        /\ up' = up /\ order' = order /\ step' = step /\ active' = active /\ rec' = rec /\ disk' = disk
        /\ stopping' = stopping /\ ended' = ended /\ turn' = turn /\ turns' = turns /\ stops' = stops
        /\ asks' = asks /\ user' = user /\ agent' = agent /\ requests' = requests /\ broken' = broken
        /\ events' = events /\ prompted' = prompted /\ grants' = grants
        /\ view' = view /\ delivery' = delivery /\ ahead' = ahead
    BY DEF Offline, Receive, acp, relay, screen
  <1>3. /\ inbox' \in Seq(InboxEvent) /\ \A t \in Tasks : Coming(t) => Coming(t)'
    BY <1>1, <1>2, Received
  <1>4. Typed'
    BY <1>1, <1>2, <1>3 DEF Typed
  <1>5. (\A t \in Tasks : Runs(t) /\ Move(t) /\ TaskInv(t)') /\ Listed'
    BY <1>2, <1>4, LoopSettled, StillKeeps
  <1>6. Relayed'
    BY <1>1, <1>2, <1>3, RelayedKept
  <1>7. Working' /\ Turns' /\ Told'
    BY <1>1, <1>2 DEF Working, Turns, GrantsInTurn, Told
  <1>. QED
    BY <1>4, <1>5, <1>6, <1>7 DEF AInv

\* What a message leaves alone.
LEMMA MessageParts ==
    ASSUME AInv, Message, limit' = limit
    PROVE  /\ Loop /\ inbox # <<>> /\ Head(inbox).kind = "message" /\ inbox' = Tail(inbox)
           /\ up' = up /\ step' = step /\ active' = active /\ connected' = connected
           /\ stopping' = stopping /\ ended' = ended /\ turn' = turn /\ turns' = turns /\ stops' = stops
           /\ asks' = asks /\ user' = user /\ agent' = agent /\ requests' = requests /\ broken' = broken
           /\ events' = events /\ prompted' = prompted /\ grants' = grants
           /\ inbox' \in Seq(InboxEvent) /\ Head(inbox).task \in Tasks
           /\ \A t \in Tasks : Coming(t) => Coming(t)' \/ t = Head(inbox).task
           /\ Greeting => Greeting'
           /\ Turns'
  <1>1. Typed /\ Turns
    BY DEF AInv
  <1>2. /\ Loop /\ inbox # <<>> /\ Head(inbox).kind = "message" /\ inbox' = Tail(inbox)
        /\ up' = up /\ step' = step /\ active' = active /\ connected' = connected
        /\ stopping' = stopping /\ ended' = ended /\ turn' = turn /\ turns' = turns /\ stops' = stops
        /\ asks' = asks /\ user' = user /\ agent' = agent /\ requests' = requests /\ broken' = broken
        /\ events' = events /\ prompted' = prompted /\ grants' = grants
    BY DEF Message, Receive, acp, relay
  <1>3. /\ inbox' \in Seq(InboxEvent) /\ Head(inbox).task \in Tasks
        /\ \A t \in Tasks : Coming(t) => Coming(t)' \/ t = Head(inbox).task
        /\ Greeting => Greeting'
    BY <1>1, <1>2, Received, EventParts
  <1>4. Turns'
    BY <1>1, <1>2 DEF Turns, GrantsInTurn
  <1>. QED
    BY <1>2, <1>3, <1>4

\* A task already known is shown again.
LEMMA MessageAgain ==
    ASSUME AInv, Message, limit' = limit, NEW x \in Tasks, x = Head(inbox).task,
           rec[x].held # "no", Emit(Frames(rec, active, {x}), disk.rec),
           rec' = rec, order' = order, disk' = disk
    PROVE  AInv' /\ \A t \in Tasks : Move(t)
  <1>1. /\ Typed /\ (\A t \in Tasks : TaskInv(t)) /\ Listed /\ Working /\ Relayed /\ Told
    BY DEF AInv
  <1>2. /\ Loop
        /\ up' = up /\ step' = step /\ active' = active /\ connected' = connected
        /\ stopping' = stopping /\ ended' = ended /\ turn' = turn /\ turns' = turns /\ stops' = stops
        /\ asks' = asks /\ user' = user /\ agent' = agent /\ requests' = requests /\ broken' = broken
        /\ events' = events /\ prompted' = prompted /\ grants' = grants
        /\ inbox' \in Seq(InboxEvent)
        /\ \A t \in Tasks : Coming(t) => Coming(t)' \/ t = x
        /\ Greeting => Greeting'
        /\ Turns'
    BY MessageParts
  <1> DEFINE ts == {x}
  <1>3. /\ view' \in [Tasks -> Picture] /\ delivery' \in [Tasks -> {"none", "sent", "uncertain"}]
        /\ ahead' \in SUBSET Tasks
        /\ \A t \in Tasks : Runs(t) /\ Move(t)
        /\ \A t \in ts : Live => Resends(t) /\ Heard(t)
        /\ \A t \in Tasks : (delivery'[t] = delivery[t] /\ view'[t] = view[t]) \/ Heard(t)
    <2>1. ts \in SUBSET Tasks /\ \A t \in ts : rec[t].held # "no"
      OBVIOUS
    <2>. QED
      BY <1>2, <2>1, EmitAgain
  <1>4. Typed'
    BY <1>1, <1>2, <1>3 DEF Typed
  <1>5. \A t \in Tasks : TaskInv(t)'
    BY <1>1, <1>3, <1>4, TasksKept
  <1>6. Listed'
    <2>1. disk'.order = order
      BY <1>1 DEF Listed
    <2>. QED
      BY <1>1, <2>1, ListedKept
  <1>7. Relayed'
    <2>1. \A t \in Tasks : Coming(t) => Coming(t)' \/ ~Live \/ Heard(t)
      BY <1>2, <1>3
    <2>. QED
      BY <1>1, <1>2, <1>3, <2>1, RelayedKept
  <1>8. Told'
    <2>1. (Live' => Live) /\ step # "prompt"
      BY <1>2, LoopSettled DEF Live
    <2>. QED
      BY <1>1, <1>2, <1>3, <1>4, <2>1, ToldKept
  <1>9. Working'
    BY <1>1, <1>2 DEF Working
  <1>. QED
    BY <1>2, <1>3, <1>4, <1>5, <1>6, <1>7, <1>8, <1>9 DEF AInv

\* A task there is no room for.
LEMMA MessageRefused ==
    ASSUME AInv, Message, limit' = limit, NEW x \in Tasks, x = Head(inbox).task,
           rec[x].held = "no", Emit([u \in {x} |-> Refusal], disk.rec),
           rec' = rec, order' = order, disk' = disk
    PROVE  AInv' /\ \A t \in Tasks : Move(t)
  <1>1. /\ Typed /\ (\A t \in Tasks : TaskInv(t)) /\ Listed /\ Working /\ Relayed /\ Told
    BY DEF AInv
  <1>2. /\ Loop
        /\ up' = up /\ step' = step /\ active' = active /\ connected' = connected
        /\ stopping' = stopping /\ ended' = ended /\ turn' = turn /\ turns' = turns /\ stops' = stops
        /\ asks' = asks /\ user' = user /\ agent' = agent /\ requests' = requests /\ broken' = broken
        /\ events' = events /\ prompted' = prompted /\ grants' = grants
        /\ inbox' \in Seq(InboxEvent)
        /\ \A t \in Tasks : Coming(t) => Coming(t)' \/ t = x
        /\ Greeting => Greeting'
        /\ Turns'
    BY MessageParts
  <1> DEFINE ts == {x}
             fs == [u \in ts |-> Refusal]
  <1>3. ts \in SUBSET Tasks /\ fs \in [ts -> Picture] /\ disk.rec \in [Tasks -> Record] /\ fs[x] = Refusal
    BY <1>1, NullsTyped DEF Typed
  <1>4. Emitted(fs, ts, disk.rec)
    BY <1>1, <1>3, EmitMade
  <1>. HIDE DEF fs
  <1>5. /\ view' \in [Tasks -> Picture] /\ delivery' \in [Tasks -> {"none", "sent", "uncertain"}]
        /\ ahead' \in SUBSET Tasks
    BY <1>4 DEF Emitted
  <1>6. Live => Heard(x) /\ view'[x] = Refusal
    BY <1>3, <1>4 DEF Emitted, Heard, Refusal, Unseen
  <1>7. ASSUME NEW t \in Tasks
        PROVE  /\ Runs(t) /\ Move(t)
               /\ (delivery'[t] = delivery[t] /\ view'[t] = view[t]) \/ Heard(t)
    <2>1. TaskInv(t) /\ ~InDoubt(t) /\ rec[t].seq \in Nat /\ disk.rec[t].seq \in Nat
      BY <1>1, <1>2, LoopSettled, RecordParts DEF Typed
    <2>2. t \in ahead => t \in ahead'
      BY <1>4 DEF Emitted
    <2>3. Common(t)
      BY <1>2, <2>1, <2>2 DEF Common, TaskInv
    <2>4. CASE t = x /\ Live
      BY <1>6, <2>3, <2>4 DEF Move, Runs, Refuses
    <2>5. CASE ~(t = x /\ Live)
      <3>1. view'[t] = view[t] /\ delivery'[t] = delivery[t]
        BY <1>4, <2>5 DEF Emitted
      <3>2. Stays(t)
        BY <2>1, <3>1 DEF Stays, TaskInv
      <3>. QED
        BY <2>3, <3>1, <3>2 DEF Move, Runs
    <2>. QED
      BY <2>4, <2>5
  <1>8. Typed'
    BY <1>1, <1>2, <1>5 DEF Typed
  <1>9. \A t \in Tasks : TaskInv(t)'
    BY <1>1, <1>7, <1>8, TasksKept
  <1>10. Listed'
    <2>1. disk'.order = order
      BY <1>1 DEF Listed
    <2>. QED
      BY <1>1, <2>1, ListedKept
  <1>11. Relayed'
    <2>1. \A t \in Tasks : Coming(t) => Coming(t)' \/ ~Live \/ Heard(t)
      BY <1>2, <1>6
    <2>. QED
      BY <1>1, <1>2, <1>7, <2>1, RelayedKept
  <1>12. Told'
    <2>1. (Live' => Live) /\ step # "prompt"
      BY <1>2, LoopSettled DEF Live
    <2>. QED
      BY <1>1, <1>2, <1>7, <1>8, <2>1, ToldKept
  <1>13. Working'
    BY <1>1, <1>2 DEF Working
  <1>. QED
    BY <1>2, <1>7, <1>8, <1>9, <1>10, <1>11, <1>12, <1>13 DEF AInv

\* what is left of the list when the record at i, if any, gives way
Kept(i) == IF i = 0 THEN order ELSE RemoveAt(order, i)

\* Each task left is left once, and only the one at i is missing.
LEMMA KeptMade ==
    ASSUME Typed, Listed, NEW i, (i = 0 /\ Len(order) < limit.full) \/ i \in DOMAIN order
    PROVE  /\ Kept(i) \in Seq(Tasks) /\ Len(Kept(i)) < limit.full
           /\ \A j, k \in DOMAIN Kept(i) : Kept(i)[j] = Kept(i)[k] => j = k
           /\ \A j \in DOMAIN Kept(i) : \E k \in DOMAIN order : k # i /\ k >= j /\ Kept(i)[j] = order[k]
           /\ Len(order) <= Len(Kept(i)) + 1
           /\ \A k \in DOMAIN order : k # i => \E j \in DOMAIN Kept(i) : Kept(i)[j] = order[k]
  <1>1. /\ order \in Seq(Tasks) /\ Len(order) \in Nat /\ DOMAIN order = 1..Len(order) /\ limit.full \in Nat
        /\ Len(order) <= limit.full /\ \A j, k \in DOMAIN order : order[j] = order[k] => j = k
    BY DEF Typed, ListLimit, Listed
  <1>2. CASE i = 0
    <2>1. Len(order) < limit.full
      BY <1>1, <1>2
    <2>. QED
      BY <1>1, <1>2, <2>1 DEF Kept
  <1>3. CASE i # 0
    <2> DEFINE b == RemoveAt(order, i)
               at(j) == IF j < i THEN j ELSE j + 1
    <2>1. i \in DOMAIN order /\ i \in Nat
      BY <1>1, <1>3
    <2>2. /\ b \in Seq(Tasks) /\ Len(b) = Len(order) - 1
          /\ \A j \in 1..(Len(order) - 1) : b[j] = IF j < i THEN order[j] ELSE order[j + 1]
      <3>1. order \in Seq(Tasks)
        BY <1>1
      <3>. QED
        BY <2>1, <3>1, RemoveAtMade, Zenon
    <2>. HIDE DEF b
    <2>3. DOMAIN b = 1..(Len(order) - 1)
      BY <2>2
    <2>4. \A j \in DOMAIN b : at(j) \in DOMAIN order /\ at(j) # i /\ at(j) >= j /\ b[j] = order[at(j)]
      BY <1>1, <2>1, <2>2, <2>3
    <2>5. \A j, k \in DOMAIN b : at(j) = at(k) => j = k
      BY <2>1, <2>3
    <2>6. ASSUME NEW k \in DOMAIN order, k # i
          PROVE  \E j \in DOMAIN b : at(j) = k
      <3> DEFINE j == IF k < i THEN k ELSE k - 1
      <3>1. j \in DOMAIN b /\ at(j) = k
        BY <1>1, <2>1, <2>3, <2>6
      <3>. QED
        BY <3>1
    <2>7. Kept(i) = b /\ Len(b) < limit.full /\ Len(order) <= Len(b) + 1
      BY <1>1, <1>3, <2>2 DEF Kept, b
    <2>. HIDE DEF at
    <2>8. \A j, k \in DOMAIN b : b[j] = b[k] => j = k
      BY <1>1, <2>4, <2>5
    <2>9. \A k \in DOMAIN order : k # i => \E j \in DOMAIN b : b[j] = order[k]
      BY <2>4, <2>6
    <2>10. \A j \in DOMAIN b : \E k \in DOMAIN order : k # i /\ k >= j /\ b[j] = order[k]
      BY <2>4
    <2>. QED
      BY <2>2, <2>7, <2>8, <2>9, <2>10
  <1>. QED
    BY <1>2, <1>3

\* A new task is admitted; without room, the oldest finished one gives way.
LEMMA MessageAdmitted ==
    ASSUME AInv, Message, limit' = limit, NEW x \in Tasks, x = Head(inbox).task, rec[x].held = "no",
           NEW i, Admit(x, i), (i = 0 /\ Len(order) < limit.full) \/ (i \in DOMAIN order /\ Oldest(i))
    PROVE  AInv' /\ \A t \in Tasks : Move(t)
  <1>1. /\ Typed /\ (\A t \in Tasks : TaskInv(t)) /\ Listed /\ Working /\ Relayed /\ Told
        /\ rec \in [Tasks -> Record] /\ active \in ActiveTask /\ order \in Seq(Tasks)
    BY DEF AInv, Typed
  <1>2. /\ Loop
        /\ up' = up /\ step' = step /\ active' = active /\ connected' = connected
        /\ stopping' = stopping /\ ended' = ended /\ turn' = turn /\ turns' = turns /\ stops' = stops
        /\ asks' = asks /\ user' = user /\ agent' = agent /\ requests' = requests /\ broken' = broken
        /\ events' = events /\ prompted' = prompted /\ grants' = grants
        /\ inbox' \in Seq(InboxEvent)
        /\ \A t \in Tasks : Coming(t) => Coming(t)' \/ t = x
        /\ Greeting => Greeting'
        /\ Turns'
    BY MessageParts
  <1> DEFINE r == Admitted(x, i)
             b == Kept(i)
             o == Append(b, x)
             ts == {x}
  <1>3. /\ b \in Seq(Tasks) /\ Len(b) < limit.full
        /\ \A j, k \in DOMAIN b : b[j] = b[k] => j = k
        /\ \A j \in DOMAIN b : \E k \in DOMAIN order : k # i /\ k >= j /\ b[j] = order[k]
        /\ Len(order) <= Len(b) + 1
        /\ \A k \in DOMAIN order : k # i => \E j \in DOMAIN b : b[j] = order[k]
    BY <1>1, KeptMade
  <1>4. i # 0 => /\ i \in DOMAIN order /\ order[i] \in Tasks /\ order[i] # x
                 /\ rec[order[i]].held = "full" /\ rec[order[i]].status \in Terminal
    BY <1>1 DEF Oldest, Listed
  <1>5. ASSUME NEW t \in Tasks
        PROVE  /\ r[t] \in Record
               /\ t = x => r[t].held = "full" /\ r[t].status = "queued" /\ r[t].seq = 0 /\ r[t].results = FALSE
               /\ t # x => r[t].seq = rec[t].seq /\ r[t].status = rec[t].status /\ r[t].results = rec[t].results
               /\ t # x /\ i # 0 /\ t = order[i] => r[t].held = "evicted"
               /\ t # x /\ ~(i # 0 /\ t = order[i]) => r[t].held = rec[t].held
    <2>0. r[t] = IF t = x THEN [NoRecord EXCEPT !.held = "full"]
                 ELSE IF i # 0 /\ t = order[i] THEN [rec[t] EXCEPT !.held = "evicted"] ELSE rec[t]
      BY DEF Admitted
    <2>. HIDE DEF r
    <2>1. CASE t = x
      <3>1. LET n == [NoRecord EXCEPT !.held = "full"]
            IN  n.held = "full" /\ n.status = "queued" /\ n.seq = 0 /\ n.results = FALSE
        BY DEF NoRecord
      <3>. QED
        BY <2>0, <2>1, <3>1, NullsTyped
    <2>2. CASE t # x /\ i # 0 /\ t = order[i]
      <3>1. r[t] = [rec[t] EXCEPT !.held = "evicted"] /\ rec[t] \in Record
        BY <1>1, <2>0, <2>2
      <3>. QED
        BY <2>2, <3>1, WithHeld
    <2>3. CASE t # x /\ ~(i # 0 /\ t = order[i])
      BY <1>1, <2>0, <2>3
    <2>. QED
      BY <2>1, <2>2, <2>3
  <1>6. /\ r \in [Tasks -> Record] /\ ts \in SUBSET Tasks
        /\ o \in Seq(Tasks) /\ Len(o) = Len(b) + 1 /\ o[Len(b) + 1] = x /\ \A j \in 1..Len(b) : o[j] = b[j]
        /\ Len(b) \in Nat /\ DOMAIN b = 1..Len(b) /\ DOMAIN o = 1..(Len(b) + 1)
    <2>1. r \in [Tasks -> Record]
      <3>1. r = [t \in Tasks |-> r[t]]
        BY DEF Admitted
      <3>. QED
        BY <1>5, <3>1
    <2>. HIDE DEF b, r
    <2>. QED
      BY <1>3, <2>1
  <1>7. Report(r, o, active, ts)
    BY DEF Admit, Kept
  <1>. HIDE DEF r, b, o
  <1>8. Edited(r, ts)
    <2>1. ASSUME NEW t \in Tasks
          PROVE  /\ r[t].seq = rec[t].seq
                 /\ t \notin ts => /\ r[t].status = rec[t].status /\ r[t].results = rec[t].results
                                   /\ \/ r[t].held = rec[t].held
                                      \/ /\ rec[t].held = "full" /\ rec[t].status \in Terminal
                                         /\ r[t].held = "evicted"
                 /\ t \in ts => /\ r[t].held # "no" /\ rec[t].held = "no" /\ r[t].held = "full"
                                /\ r[t].status = "queued" /\ rec[t].status = "queued" /\ r[t].results = FALSE
      <3>1. TaskInv(t)
        BY <1>1
      <3>. QED
        BY <1>4, <1>5, <3>1 DEF TaskInv
    <2>2. "queued" \notin Terminal
      BY DEF Terminal
    <2>. QED
      BY <2>1, <2>2, Zenon DEF Edited
  <1>9. Reported(r, o, ts)
    BY <1>1, <1>6, <1>7, ReportMade
  <1>10. Typed'
    BY <1>1, <1>2, <1>6, <1>9 DEF Typed, Reported
  <1>11. \A t \in Tasks : Prompts(t) /\ (t \notin ts /\ InDoubt(t) => InDoubt(t)')
    BY <1>2, LoopSettled DEF Prompts
  <1>12. (\A t \in Tasks : Move(t) /\ TaskInv(t)') /\ Relayed' /\ Told'
    <2>1. step # "prompt" /\ \A t \in Tasks : Coming(t) => Coming(t)' \/ t \in ts
      BY <1>2, LoopSettled
    <2>2. \A t \in Replayed' : t \in Replayed \/ t \in ts
      <3>1. order' = o /\ limit.window \in Nat /\ Len(order) \in Nat /\ DOMAIN order = 1..Len(order)
        BY <1>1, <1>9 DEF Reported, Typed, ListLimit
      <3>. SUFFICES ASSUME NEW j \in DOMAIN o, j + limit.window > Len(o), j # Len(b) + 1
                    PROVE  o[j] \in Replayed
        BY <1>6, <3>1 DEF Replayed
      <3>2. j \in DOMAIN b /\ j \in Nat /\ o[j] = b[j]
        BY <1>6
      <3>3. PICK k \in DOMAIN order : k >= j /\ b[j] = order[k]
        BY <1>3, <3>2
      <3>4. k \in Nat /\ k + limit.window > Len(order)
        BY <1>3, <1>6, <3>1, <3>2, <3>3
      <3>. QED
        BY <3>2, <3>3, <3>4 DEF Replayed
    <2>. QED
      BY <1>1, <1>2, <1>6, <1>7, <1>8, <1>10, <1>11, <2>1, <2>2, ReportStep
  <1>13. /\ order' = o /\ disk'.order = o
         /\ \A t \in Tasks : rec'[t].held = r[t].held /\ rec'[t].status = r[t].status
    BY <1>9 DEF Reported
  <1>14. Listed'
    <2>1. \A j \in DOMAIN b : b[j] # x /\ b[j] \in Tasks /\ r[b[j]].held = "full"
      <3>. TAKE j \in DOMAIN b
      <3>1. PICK k \in DOMAIN order : k # i /\ b[j] = order[k]
        BY <1>3
      <3>2. order[k] \in Tasks /\ rec[order[k]].held = "full" /\ order[k] # x
        BY <1>1, <3>1 DEF Listed
      <3>3. ~(i # 0 /\ order[k] = order[i])
        BY <1>1, <1>4, <3>1 DEF Listed
      <3>4. r[order[k]].held = "full"
        BY <1>5, <3>2, <3>3
      <3>. QED
        BY <3>1, <3>2, <3>4
    <2>2. \A j, k \in DOMAIN o : o[j] = o[k] => j = k
      BY <1>3, <1>6, <2>1
    <2>3. ASSUME NEW j \in DOMAIN o PROVE o[j] \in Tasks /\ r[o[j]].held = "full"
      <3>1. CASE j = Len(b) + 1
        <4>1. r[x].held = "full"
          BY <1>5
        <4>. QED
          BY <1>6, <3>1, <4>1
      <3>2. CASE j # Len(b) + 1
        <4>1. j \in DOMAIN b /\ o[j] = b[j]
          BY <1>6, <3>2
        <4>. QED
          BY <2>1, <4>1
      <3>. QED
        BY <3>1, <3>2
    <2>4. ASSUME NEW t \in Tasks, r[t].held = "full" PROVE \E j \in DOMAIN o : o[j] = t
      <3>1. CASE t = x
        BY <1>6, <3>1
      <3>2. CASE t # x
        <4>1. rec[t].held = "full" /\ ~(i # 0 /\ t = order[i])
          BY <1>5, <2>4, <3>2
        <4>2. PICK k \in DOMAIN order : order[k] = t
          BY <1>1, <4>1 DEF Listed
        <4>3. k # i
          <5>1. i = 0 => i \notin DOMAIN order
            BY <1>1
          <5>. QED
            BY <4>1, <4>2, <5>1
        <4>. QED
          BY <1>3, <1>6, <4>2, <4>3
      <3>. QED
        BY <3>1, <3>2
    <2>5. Len(o) <= limit.full
      BY <1>1, <1>3, <1>6 DEF Typed, ListLimit
    <2>. QED
      BY <1>13, <2>2, <2>3, <2>4, <2>5 DEF Listed
  <1>15. Working'
    <2>1. active # Idle => rec'[active.id].held # "no" /\ rec'[active.id].status # "queued"
      <3>. SUFFICES ASSUME active # Idle PROVE rec'[active.id].held # "no" /\ rec'[active.id].status # "queued"
        OBVIOUS
      <3>1. active.id \in Tasks /\ active.id # x /\ rec[active.id].held # "no" /\ rec[active.id].status # "queued"
        BY ActiveTaskId
      <3>2. r[active.id].held # "no" /\ r[active.id].status # "queued"
        BY <1>5, <3>1
      <3>. QED
        BY <1>13, <3>1, <3>2
    <2>2. step = "loop"
      BY <1>2, LoopSettled
    <2>. QED
      BY <1>1, <1>2, <2>1, <2>2 DEF Working
  <1>. QED
    BY <1>2, <1>10, <1>12, <1>14, <1>15 DEF AInv

\* A submission is admitted once; a repeated one is answered from the record.
LEMMA MessageKeeps ==
    ASSUME AInv, Message, limit' = limit
    PROVE  AInv' /\ \A t \in Tasks : Move(t)
  <1> DEFINE x == Head(inbox).task
  <1>1. x \in Tasks
    BY MessageParts
  <1>2. \/ /\ rec[x].held # "no" /\ Emit(Frames(rec, active, {x}), disk.rec)
           /\ rec' = rec /\ order' = order /\ disk' = disk
        \/ /\ rec[x].held = "no"
           /\ \E i : Admit(x, i) /\ ((i = 0 /\ Len(order) < limit.full) \/ (i \in DOMAIN order /\ Oldest(i)))
        \/ /\ rec[x].held = "no" /\ Emit([u \in {x} |-> Refusal], disk.rec)
           /\ rec' = rec /\ order' = order /\ disk' = disk
    BY DEF Message
  <1>. HIDE DEF x
  <1>. QED
    BY <1>1, <1>2, MessageAgain, MessageRefused, MessageAdmitted DEF x

\* A cancellation reaches the list or the active task.
LEMMA CancelKeeps ==
    ASSUME AInv, Cancel, limit' = limit
    PROVE  AInv' /\ \A t \in Tasks : Move(t)
  <1> DEFINE x == Head(inbox).task
             mine == active.id = x
             r == IF ~mine /\ rec[x].status = "queued" THEN Finish(rec, x, "cancelled") ELSE rec
             ts == {x}
  <1>1. /\ Typed /\ Working /\ Turns /\ order \in Seq(Tasks) /\ active \in ActiveTask
    BY DEF AInv, Typed
  <1>2. /\ Loop /\ inbox # <<>> /\ Head(inbox).kind = "cancel" /\ inbox' = Tail(inbox)
        /\ up' = up /\ step' = step /\ connected' = connected
        /\ stopping' = stopping /\ ended' = ended /\ turn' = turn /\ turns' = turns /\ stops' = stops
        /\ asks' = asks /\ user' = user /\ agent' = agent /\ requests' = requests /\ broken' = broken
        /\ events' = events /\ prompted' = prompted /\ grants' = grants
        /\ active' = (IF mine /\ ~active.cancelling
                      THEN [active EXCEPT !.cancelling = TRUE, !.timed = TRUE] ELSE active)
        /\ IF rec[x].held # "full"
           THEN rec' = rec /\ order' = order /\ disk' = disk /\ view' = view /\ delivery' = delivery /\ ahead' = ahead
           ELSE Report(r, order, active, ts)
    BY DEF Cancel, Receive, acp, relay, screen
  <1>3. /\ inbox' \in Seq(InboxEvent) /\ x \in Tasks
        /\ \A t \in Tasks : Coming(t) => Coming(t)'
        /\ Greeting => Greeting'
    BY <1>1, <1>2, Received, EventParts
  <1>4. /\ active' \in ActiveTask /\ active'.id = active.id /\ active'.asked = active.asked
        /\ (active = Idle => active' = Idle) /\ (active' = Idle => active = Idle)
        /\ active'.cancelling => active'.timed \/ active = active'
    <2>1. (active.id = NoTask => active = Idle) /\ Idle.id = NoTask /\ (mine => active # Idle)
      BY <1>1, <1>3, AssistantAssumption DEF Working, Idle
    <2>2. LET b == [active EXCEPT !.cancelling = TRUE, !.timed = TRUE]
          IN  b \in ActiveTask /\ b.id = active.id /\ b.asked = active.asked /\ b.timed = TRUE
      BY <1>1 DEF ActiveTask
    <2>. QED
      BY <1>1, <1>2, <2>1, <2>2
  <1>5. events' \in 0..MaxEvents
    BY <1>1, <1>2 DEF Typed
  <1>6. Turns'
    BY <1>1, <1>2, <1>4 DEF Turns, GrantsInTurn
  <1>. HIDE DEF r, ts, mine
  <1>7. ASSUME active # Idle => rec'[active.id].held # "no" /\ rec'[active.id].status # "queued"
        PROVE  Working'
    <2>1. step = "loop" /\ up
      BY <1>2, LoopSettled
    <2>2. active'.cancelling => active'.timed \/ stopping'
      BY <1>1, <1>2, <1>4 DEF Working
    <2>. QED
      BY <1>1, <1>2, <1>4, <1>7, <2>1, <2>2 DEF Working
  <1>8. CASE rec[x].held # "full"
    <2>1. rec' = rec /\ order' = order /\ disk' = disk /\ view' = view /\ delivery' = delivery /\ ahead' = ahead
      BY <1>2, <1>8
    <2>2. Typed'
      BY <1>1, <1>2, <1>3, <1>4, <2>1 DEF Typed
    <2>3. (\A t \in Tasks : Move(t) /\ TaskInv(t)') /\ Listed' /\ Relayed' /\ Told'
      BY <1>2, <1>3, <1>4, <2>1, <2>2, QuietKeeps
    <2>4. Working'
      BY <1>7, <2>1, ActiveTaskId
    <2>. QED
      BY <1>6, <2>2, <2>3, <2>4 DEF AInv
  <1>9. CASE rec[x].held = "full"
    <2>1. /\ Edited(r, ts) /\ r \in [Tasks -> Record] /\ \A t \in Tasks : r[t].held = rec[t].held
          /\ \A t \in Tasks : rec[t].status # "queued" => r[t].status # "queued"
      <3>0. rec[x].held # "no" /\ "cancelled" \in Terminal
        BY <1>9 DEF Terminal
      <3>1. CASE ~mine /\ rec[x].status = "queued"
        BY <1>3, <3>0, <3>1, EditedFinish DEF r, ts
      <3>2. CASE ~(~mine /\ rec[x].status = "queued")
        <4>1. r = rec /\ ts \in SUBSET Tasks /\ \A t \in ts : rec[t].held # "no"
          BY <1>3, <3>0, <3>2 DEF r, ts
        <4>. QED
          BY <4>1, EditedNone
      <3>. QED
        BY <3>1, <3>2
    <2>2. Report(r, order, active, ts) /\ ts \in SUBSET Tasks
      BY <1>2, <1>3, <1>9 DEF ts
    <2>3. /\ stopping' \in BOOLEAN /\ ended' \in Nat /\ turns' \in Nat /\ turn' \in Tasks \cup {NoTask}
          /\ stops' \in Seq(Terminal) /\ asks' \in SUBSET Request
      BY <1>1, <1>2 DEF Typed
    <2>4. /\ Typed' /\ (\A t \in Tasks : Move(t) /\ TaskInv(t)') /\ Relayed' /\ Told' /\ Listed'
          /\ \A t \in Tasks : rec'[t].held = r[t].held /\ rec'[t].status = r[t].status
      BY <1>1, <1>2, <1>3, <1>4, <1>5, <2>1, <2>2, <2>3, LoopReport
    <2>5. Working'
      BY <1>7, <2>1, <2>4, ActiveTaskId
    <2>. QED
      BY <1>6, <2>4, <2>5 DEF AInv
  <1>. QED
    BY <1>8, <1>9

\* A report about the task under way leaves it a task under way.
LEMMA LoopWorking ==
    ASSUME AInv, Loop, active # Idle, up' = up, step' = step, connected' = connected, stopping' = stopping,
           active' \in ActiveTask, active'.id = active.id, active'.cancelling = active.cancelling,
           active'.timed = active.timed, Len(active'.asked) <= MaxPendingInput,
           \A i \in DOMAIN active'.asked : active'.asked[i].task = active.id,
           rec'[active.id].held # "no", rec'[active.id].status # "queued"
    PROVE  Working' /\ active' # Idle
  <1>1. Working /\ active.id # NoTask /\ step = "loop" /\ up
    BY ActiveTaskId, LoopSettled DEF AInv
  <1>2. active' # Idle
    BY <1>1 DEF Idle
  <1>. QED
    BY <1>1, <1>2 DEF Working

\* An answer reaches the request it was given for, or none.
LEMMA InputKeeps ==
    ASSUME AInv, Input, limit' = limit
    PROVE  AInv' /\ \A t \in Tasks : Move(t)
  <1> DEFINE e == Head(inbox)
             mine == active.id = e.task /\ active.asked # <<>> /\ Head(active.asked).id = e.request
             a == [active EXCEPT !.asked = Tail(@)]
             r == IF a.asked = <<>> THEN Resume(rec, a.id) ELSE RequireInput(rec, a.id)
             x == active.id
             ts == {x}
  <1>1. /\ Typed /\ Working /\ Turns /\ order \in Seq(Tasks) /\ active \in ActiveTask
    BY DEF AInv, Typed
  <1>2. /\ Loop /\ inbox # <<>> /\ Head(inbox).kind = "input" /\ inbox' = Tail(inbox)
        /\ up' = up /\ step' = step /\ connected' = connected
        /\ stopping' = stopping /\ ended' = ended /\ turn' = turn /\ turns' = turns /\ stops' = stops
        /\ asks' = asks /\ user' = user /\ agent' = agent /\ requests' = requests /\ broken' = broken
        /\ events' = events /\ prompted' = prompted
        /\ IF ~mine
           THEN /\ rec' = rec /\ order' = order /\ disk' = disk /\ active' = active /\ grants' = grants
                /\ view' = view /\ delivery' = delivery /\ ahead' = ahead
           ELSE /\ active' = a
                /\ grants' = IF e.allow THEN grants \cup {Granted(Head(active.asked), FALSE)} ELSE grants
                /\ Report(r, order, a, {a.id})
    BY DEF Input, Receive, acp, relay, screen
  <1>3. /\ inbox' \in Seq(InboxEvent) /\ e.task \in Tasks
        /\ \A t \in Tasks : Coming(t) => Coming(t)'
        /\ Greeting => Greeting'
    BY <1>1, <1>2, Received, EventParts
  <1>4. CASE ~mine
    <2>1. /\ rec' = rec /\ order' = order /\ disk' = disk /\ active' = active /\ grants' = grants
          /\ view' = view /\ delivery' = delivery /\ ahead' = ahead
      BY <1>2, <1>4
    <2>. HIDE DEF mine, e
    <2>2. Typed'
      BY <1>1, <1>2, <1>3, <2>1 DEF Typed
    <2>3. (\A t \in Tasks : Move(t) /\ TaskInv(t)') /\ Listed' /\ Relayed' /\ Told'
      BY <1>2, <1>3, <2>1, <2>2, QuietKeeps
    <2>4. Working' /\ Turns'
      BY <1>1, <1>2, <2>1 DEF Working, Turns, GrantsInTurn
    <2>. QED
      BY <2>2, <2>3, <2>4 DEF AInv
  <1>5. CASE mine
    <2>1. active # Idle /\ active.asked # <<>> /\ active.asked \in Seq(Request)
      BY <1>1, <1>3, <1>5, AssistantAssumption DEF Idle, ActiveTask
    <2>2. /\ a \in ActiveTask /\ a.id = x /\ a.asked = Tail(active.asked)
          /\ a.cancelling = active.cancelling /\ a.timed = active.timed
      <3>1. Tail(active.asked) \in Seq(Request)
        BY <2>1
      <3>. QED
        BY <1>1, <3>1 DEF ActiveTask
    <2>3. /\ Len(a.asked) <= MaxPendingInput /\ (\A i \in DOMAIN a.asked : a.asked[i].task = x)
          /\ Head(active.asked).task = x
      <3>1. /\ Len(a.asked) = Len(active.asked) - 1 /\ Len(active.asked) \in Nat
            /\ Head(active.asked) = active.asked[1] /\ 1 \in DOMAIN active.asked
            /\ \A i \in DOMAIN a.asked : i + 1 \in DOMAIN active.asked /\ a.asked[i] = active.asked[i + 1]
        BY <2>1, <2>2
      <3>2. /\ \A i \in DOMAIN active.asked : active.asked[i].task = x
            /\ Len(active.asked) <= MaxPendingInput /\ MaxPendingInput \in Nat
        BY <1>1, AssistantAssumption DEF Working
      <3>3. \A i \in DOMAIN a.asked : a.asked[i].task = x
        BY <3>1, <3>2
      <3>. QED
        BY <3>1, <3>2, <3>3
    <2>4. x \in Tasks /\ ts \in SUBSET Tasks /\ rec[x].held # "no" /\ rec[x].status # "queued"
      BY <2>1, ActiveTaskId
    <2>5. r = Resume(rec, x) \/ r = RequireInput(rec, x)
      BY <2>2
    <2>6. /\ active' = a /\ Report(r, order, a, ts)
          /\ grants' = IF e.allow THEN grants \cup {Granted(Head(active.asked), FALSE)} ELSE grants
      BY <1>2, <1>5, <2>2
    <2>. HIDE DEF a, r, x, ts, mine
    <2>7. /\ Edited(r, ts) /\ r \in [Tasks -> Record] /\ \A t \in Tasks : r[t].held = rec[t].held
          /\ \A t \in Tasks : rec[t].status # "queued" => r[t].status # "queued"
      BY <2>4, <2>5, EditedAsked DEF ts
    <2>8. /\ stopping' \in BOOLEAN /\ ended' \in Nat /\ turns' \in Nat /\ turn' \in Tasks \cup {NoTask}
          /\ stops' \in Seq(Terminal) /\ asks' \in SUBSET Request /\ events' \in 0..MaxEvents
      BY <1>1, <1>2 DEF Typed
    <2>9. /\ Typed' /\ (\A t \in Tasks : Move(t) /\ TaskInv(t)') /\ Relayed' /\ Told' /\ Listed'
          /\ \A t \in Tasks : rec'[t].held = r[t].held /\ rec'[t].status = r[t].status
      BY <1>1, <1>2, <1>3, <2>2, <2>4, <2>6, <2>7, <2>8, LoopReport
    <2>10. rec'[x].held # "no" /\ rec'[x].status # "queued"
      BY <2>4, <2>7, <2>9
    <2>11. Working' /\ active' # Idle
      BY <1>2, <2>1, <2>2, <2>3, <2>6, <2>10, LoopWorking DEF x
    <2>12. GrantsInTurn'
      <3>1. Granted(Head(active.asked), FALSE).task = x /\ Granted(Head(active.asked), FALSE).active = x
            /\ Granted(Head(active.asked), FALSE).auto = FALSE
        BY <2>3 DEF Granted, x
      <3>. QED
        BY <1>1, <2>6, <3>1 DEF Turns, GrantsInTurn
    <2>13. Turns'
      BY <1>1, <1>2, <2>1, <2>2, <2>6, <2>11, <2>12, LoopSettled DEF Turns, x
    <2>. QED
      BY <2>9, <2>11, <2>13 DEF AInv
  <1>. QED
    BY <1>4, <1>5

-----------------------------------------------------------------------------
(* The loop: events from the agent *)

\* A request of an earlier turn, or of a task being cancelled, is not granted.
LEMMA PermissionKeeps ==
    ASSUME AInv, Permission, limit' = limit
    PROVE  AInv' /\ \A t \in Tasks : Move(t)
  <1>1. /\ Typed /\ Working /\ Turns /\ order \in Seq(Tasks) /\ active \in ActiveTask
    BY DEF AInv, Typed
  <1>2. PICK q \in asks :
        /\ Loop /\ asks' = asks \ {q}
        /\ grants' = (IF Decision(q) = "allow" THEN grants \cup {Granted(q, TRUE)} ELSE grants)
        /\ IF Decision(q) = "ask" /\ Len(active.asked) < MaxPendingInput
           THEN LET a == [active EXCEPT !.asked = Append(@, q)]
                IN  /\ active' = a
                    /\ IF Len(a.asked) = 1
                       THEN Report(RequireInput(rec, a.id), order, a, {a.id})
                       ELSE UNCHANGED <<rec, order, disk, screen>>
           ELSE UNCHANGED <<active, rec, order, disk, screen>>
    BY DEF Permission
  <1>3. /\ up' = up /\ step' = step /\ connected' = connected /\ inbox' = inbox
        /\ stopping' = stopping /\ ended' = ended /\ turn' = turn /\ turns' = turns /\ stops' = stops
        /\ user' = user /\ agent' = agent /\ requests' = requests /\ broken' = broken
        /\ events' = events /\ prompted' = prompted
    BY DEF Permission, relay
  <1> DEFINE a == [active EXCEPT !.asked = Append(@, q)]
             x == active.id
             ts == {x}
             r == RequireInput(rec, x)
             new == Decision(q) = "ask" /\ Len(active.asked) < MaxPendingInput
  <1>4. (\A t \in Tasks : Coming(t) => Coming(t)') /\ (Greeting => Greeting')
    BY <1>3 DEF Coming, Greeting
  <1>5. /\ q \in Request /\ asks' \in SUBSET Request /\ \A p \in asks' : p \in asks
    BY <1>1, <1>2 DEF Typed
  <1>6. Decision(q) # "refuse" => /\ active # Idle /\ q.task = x /\ ~active.cancelling
    BY <1>1, <1>2, <1>5 DEF Decision, Turns
  <1>7. GrantsInTurn'
    <2>1. Decision(q) = "allow" => /\ Granted(q, TRUE).task = Granted(q, TRUE).active
                                   /\ ~Granted(q, TRUE).cancelling
      BY <1>6 DEF Granted
    <2>. QED
      BY <1>1, <1>2, <2>1 DEF Turns, GrantsInTurn
  <1>8. CASE ~new
    <2>1. /\ rec' = rec /\ order' = order /\ disk' = disk /\ active' = active
          /\ view' = view /\ delivery' = delivery /\ ahead' = ahead
      BY <1>2, <1>8 DEF screen
    <2>. HIDE DEF new
    <2>2. Typed'
      BY <1>1, <1>3, <1>5, <2>1 DEF Typed
    <2>3. (\A t \in Tasks : Move(t) /\ TaskInv(t)') /\ Listed' /\ Relayed' /\ Told'
      BY <1>3, <1>4, <2>1, <2>2, QuietKeeps
    <2>4. Working' /\ Turns'
      BY <1>1, <1>3, <1>5, <1>7, <2>1 DEF Working, Turns
    <2>. QED
      BY <2>2, <2>3, <2>4 DEF AInv
  <1>9. CASE new
    <2>1. active # Idle /\ q.task = x /\ active.asked \in Seq(Request)
      BY <1>1, <1>6, <1>9 DEF ActiveTask
    <2>2. /\ a \in ActiveTask /\ a.id = x /\ a.asked = Append(active.asked, q)
          /\ a.cancelling = active.cancelling /\ a.timed = active.timed
      <3>1. Append(active.asked, q) \in Seq(Request)
        BY <1>5, <2>1
      <3>. QED
        BY <1>1, <3>1 DEF ActiveTask
    <2>3. Len(a.asked) <= MaxPendingInput /\ \A i \in DOMAIN a.asked : a.asked[i].task = x
      <3>1. /\ Len(a.asked) = Len(active.asked) + 1 /\ Len(active.asked) \in Nat
            /\ a.asked[Len(active.asked) + 1] = q /\ DOMAIN a.asked = 1..(Len(active.asked) + 1)
            /\ DOMAIN active.asked = 1..Len(active.asked)
            /\ \A i \in 1..Len(active.asked) : a.asked[i] = active.asked[i]
        BY <1>5, <2>1, <2>2, AppendProperties
      <3>2. /\ \A i \in DOMAIN active.asked : active.asked[i].task = x
            /\ Len(active.asked) < MaxPendingInput /\ MaxPendingInput \in Nat
        BY <1>1, <1>9, AssistantAssumption DEF Working
      <3>3. Len(a.asked) <= MaxPendingInput
        BY <3>1, <3>2
      <3>4. ASSUME NEW i \in DOMAIN a.asked PROVE a.asked[i].task = x
        <4>1. CASE i = Len(active.asked) + 1
          BY <2>1, <3>1, <4>1
        <4>2. CASE i # Len(active.asked) + 1
          <5>1. i \in 1..Len(active.asked)
            BY <3>1, <4>2
          <5>. QED
            BY <3>1, <3>2, <5>1
        <4>. QED
          BY <4>1, <4>2
      <3>. QED
        BY <3>3, <3>4
    <2>4. x \in Tasks /\ ts \in SUBSET Tasks /\ rec[x].held # "no" /\ rec[x].status # "queued"
      BY <2>1, ActiveTaskId
    <2>5. /\ active' = a
          /\ \/ Report(r, order, a, ts)
             \/ /\ rec' = rec /\ order' = order /\ disk' = disk
                /\ view' = view /\ delivery' = delivery /\ ahead' = ahead
      BY <1>2, <1>9, <2>2 DEF screen
    <2>. HIDE DEF a, r, x, ts, new
    <2>6. /\ Typed' /\ (\A t \in Tasks : Move(t) /\ TaskInv(t)') /\ Relayed' /\ Told' /\ Listed'
          /\ rec'[x].held # "no" /\ rec'[x].status # "queued"
      <3>1. CASE Report(r, order, a, ts)
        <4>1. /\ Edited(r, ts) /\ r \in [Tasks -> Record] /\ \A t \in Tasks : r[t].held = rec[t].held
              /\ \A t \in Tasks : rec[t].status # "queued" => r[t].status # "queued"
          BY <2>4, EditedAsked DEF ts, r
        <4>2. /\ stopping' \in BOOLEAN /\ ended' \in Nat /\ turns' \in Nat /\ turn' \in Tasks \cup {NoTask}
              /\ stops' \in Seq(Terminal) /\ events' \in 0..MaxEvents /\ inbox' \in Seq(InboxEvent)
          BY <1>1, <1>3 DEF Typed
        <4>3. /\ Typed' /\ (\A t \in Tasks : Move(t) /\ TaskInv(t)') /\ Relayed' /\ Told' /\ Listed'
              /\ \A t \in Tasks : rec'[t].held = r[t].held /\ rec'[t].status = r[t].status
          BY <1>1, <1>2, <1>3, <1>4, <1>5, <2>2, <2>4, <2>5, <3>1, <4>1, <4>2, LoopReport
        <4>. QED
          BY <2>4, <4>1, <4>3
      <3>2. CASE /\ rec' = rec /\ order' = order /\ disk' = disk
                 /\ view' = view /\ delivery' = delivery /\ ahead' = ahead
        <4>1. Typed'
          BY <1>1, <1>3, <1>5, <2>2, <2>5, <3>2 DEF Typed
        <4>2. active'.id = active.id
          BY <2>2, <2>5 DEF x
        <4>3. (\A t \in Tasks : Move(t) /\ TaskInv(t)') /\ Listed' /\ Relayed' /\ Told'
          BY <1>3, <1>4, <3>2, <4>1, <4>2, QuietKeeps
        <4>. QED
          BY <2>4, <3>2, <4>1, <4>3
      <3>. QED
        BY <2>5, <3>1, <3>2
    <2>7. Working' /\ active' # Idle
      BY <1>2, <1>3, <2>1, <2>2, <2>3, <2>5, <2>6, LoopWorking DEF x
    <2>8. Turns'
      BY <1>1, <1>2, <1>3, <1>5, <1>7, <2>1, <2>2, <2>5, <2>7, LoopSettled DEF Turns, x
    <2>. QED
      BY <2>6, <2>7, <2>8 DEF AInv
  <1>. QED
    BY <1>8, <1>9

-----------------------------------------------------------------------------
(* The agent *)

\* While the agent is in a turn, it is the turn of the task under way, and the
\* loop has seen every turn before it end.
LEMMA InTurn ==
    ASSUME AInv, turn # NoTask
    PROVE  /\ active # Idle /\ step = "loop" /\ turn = active.id /\ turn \in Tasks /\ stops = <<>>
           /\ turns = ended /\ ended \in Nat
  <1>1. Typed /\ Turns
    BY DEF AInv
  <1>2. /\ active # Idle /\ step # "prompt" /\ turn = active.id /\ stops = <<>> /\ turns = ended + Len(stops)
    BY <1>1 DEF Turns
  <1>3. Len(<<>>) = 0
    OBVIOUS
  <1>. QED
    BY <1>1, <1>2, <1>3 DEF Typed

\* A request is marked with the turn it is made in.
LEMMA AgentAsksKeeps ==
    ASSUME AInv, AgentAsks, limit' = limit
    PROVE  AInv' /\ \A t \in Tasks : Move(t)
  <1>1. /\ Typed /\ Working /\ Turns
    BY DEF AInv
  <1>2. PICK auto \in BOOLEAN :
            asks' = asks \cup {[id |-> events', turn |-> turns, task |-> turn, auto |-> auto]}
    BY DEF AgentAsks
  <1>3. /\ turn # NoTask /\ Event
        /\ rec' = rec /\ order' = order /\ disk' = disk /\ up' = up /\ step' = step /\ active' = active
        /\ connected' = connected /\ inbox' = inbox
        /\ stopping' = stopping /\ ended' = ended /\ turn' = turn /\ turns' = turns /\ stops' = stops
        /\ user' = user /\ agent' = agent /\ requests' = requests /\ broken' = broken
        /\ prompted' = prompted /\ grants' = grants
        /\ view' = view /\ delivery' = delivery /\ ahead' = ahead
    BY DEF AgentAsks, runner, relay, screen
  <1>4. /\ active # Idle /\ step = "loop" /\ turn = active.id /\ turn \in Tasks /\ stops = <<>>
        /\ turns = ended /\ ended \in Nat
    BY <1>3, InTurn
  <1> DEFINE q == [id |-> events', turn |-> turns, task |-> turn, auto |-> auto]
  <1>5. q \in Request /\ q.turn = ended /\ q.task = active.id
    BY <1>1, <1>3, <1>4, EventTyped DEF Request
  <1>. HIDE DEF q
  <1>6. Typed'
    <2>1. asks' \in SUBSET Request
      BY <1>1, <1>2, <1>5 DEF Typed, q
    <2>. QED
      BY <1>1, <1>3, <2>1, EventTyped DEF Typed
  <1>7. (\A t \in Tasks : Coming(t) => Coming(t)') /\ (Greeting => Greeting')
    BY <1>3 DEF Coming, Greeting
  <1>8. (\A t \in Tasks : Move(t) /\ TaskInv(t)') /\ Listed' /\ Relayed' /\ Told'
    BY <1>3, <1>6, <1>7, QuietKeeps
  <1>9. Working'
    BY <1>1, <1>3 DEF Working
  <1>10. Turns'
    <2>1. \A p \in asks' : p \in asks \/ p = q
      BY <1>2 DEF q
    <2>. QED
      BY <1>1, <1>3, <1>4, <1>5, <2>1 DEF Turns, GrantsInTurn
  <1>. QED
    BY <1>6, <1>8, <1>9, <1>10 DEF AInv

\* A turn stops once.
LEMMA AgentStopsKeeps ==
    ASSUME AInv, AgentStops, limit' = limit
    PROVE  AInv' /\ \A t \in Tasks : Move(t)
  <1>1. /\ Typed /\ Working /\ Turns
    BY DEF AInv
  <1>2. PICK outcome \in {"completed", "failed", "cancelled"} : stops' = Append(stops, outcome)
    BY DEF AgentStops
  <1>3. /\ turn # NoTask /\ turn' = NoTask /\ turns' = turns + 1
        /\ rec' = rec /\ order' = order /\ disk' = disk /\ up' = up /\ step' = step /\ active' = active
        /\ connected' = connected /\ inbox' = inbox /\ events' = events
        /\ stopping' = stopping /\ ended' = ended /\ asks' = asks
        /\ user' = user /\ agent' = agent /\ requests' = requests /\ broken' = broken
        /\ prompted' = prompted /\ grants' = grants
        /\ view' = view /\ delivery' = delivery /\ ahead' = ahead
    BY DEF AgentStops, runner, relay, screen
  <1>4. /\ active # Idle /\ step = "loop" /\ turn = active.id /\ turn \in Tasks /\ stops = <<>>
        /\ turns = ended /\ ended \in Nat
    BY <1>3, InTurn
  <1>5. stops' \in Seq(Terminal) /\ Len(stops') = 1
    <2>1. stops \in Seq(Terminal) /\ outcome \in Terminal /\ Len(stops) = 0
      <3>1. Len(<<>>) = 0
        OBVIOUS
      <3>. QED
        BY <1>1, <1>4, <3>1 DEF Typed, Terminal
    <2>. QED
      BY <1>2, <2>1, AppendProperties
  <1>6. Typed'
    BY <1>1, <1>3, <1>4, <1>5 DEF Typed
  <1>7. (\A t \in Tasks : Coming(t) => Coming(t)') /\ (Greeting => Greeting')
    BY <1>3 DEF Coming, Greeting
  <1>8. (\A t \in Tasks : Move(t) /\ TaskInv(t)') /\ Listed' /\ Relayed' /\ Told'
    BY <1>3, <1>6, <1>7, QuietKeeps
  <1>9. Working'
    BY <1>1, <1>3 DEF Working
  <1>10. Turns'
    BY <1>1, <1>3, <1>4, <1>5 DEF Turns, GrantsInTurn
  <1>. QED
    BY <1>6, <1>8, <1>9, <1>10 DEF AInv

-----------------------------------------------------------------------------
(* The relay and the browser *)

\* What one more event on its way leaves.
LEMMA Sent ==
    ASSUME Typed, NEW e \in InboxEvent, inbox' = Append(inbox, e)
    PROVE  /\ inbox' \in Seq(InboxEvent)
           /\ \A t \in Tasks : Coming(t) \/ (e.kind = "message" /\ e.task = t) => Coming(t)'
           /\ Greeting \/ (e.kind = "presence" /\ e.browser = TRUE) => Greeting'
  <1>1. inbox \in Seq(InboxEvent)
    BY DEF Typed
  <1>2. /\ inbox' \in Seq(InboxEvent) /\ Len(inbox) \in Nat /\ Len(inbox') = Len(inbox) + 1
        /\ inbox'[Len(inbox) + 1] = e /\ \A i \in 1..Len(inbox) : inbox'[i] = inbox[i]
    BY <1>1, AppendProperties
  <1>3. /\ \A i \in DOMAIN inbox : i \in DOMAIN inbox' /\ inbox'[i] = inbox[i]
        /\ Len(inbox) + 1 \in DOMAIN inbox'
    BY <1>1, <1>2
  <1>4. \A t \in Tasks : Coming(t) \/ (e.kind = "message" /\ e.task = t) => Coming(t)'
    BY <1>2, <1>3 DEF Coming
  <1>5. Greeting \/ (e.kind = "presence" /\ e.browser = TRUE) => Greeting'
    BY <1>2, <1>3 DEF Greeting
  <1>. QED
    BY <1>2, <1>4, <1>5

\* An event is sent and nothing else changes but the count of events.
LEMMA SendKeeps ==
    ASSUME AInv, NEW e \in InboxEvent, Send(e), events' \in 0..MaxEvents,
           UNCHANGED <<runner, acp, relay, screen, prompted, grants>>
    PROVE  AInv' /\ \A t \in Tasks : Move(t)
  <1>1. /\ Typed /\ Working /\ Turns
    BY DEF AInv
  <1>2. /\ rec' = rec /\ order' = order /\ disk' = disk /\ up' = up /\ step' = step /\ active' = active
        /\ connected' = connected /\ limit' = limit
        /\ stopping' = stopping /\ ended' = ended /\ asks' = asks
        /\ turn' = turn /\ turns' = turns /\ stops' = stops
        /\ user' = user /\ agent' = agent /\ requests' = requests /\ broken' = broken
        /\ prompted' = prompted /\ grants' = grants
        /\ view' = view /\ delivery' = delivery /\ ahead' = ahead
    BY DEF runner, acp, relay, screen
  <1>3. /\ inbox' \in Seq(InboxEvent) /\ (\A t \in Tasks : Coming(t) => Coming(t)')
        /\ (Greeting => Greeting')
    BY <1>1, Sent DEF Send
  <1>4. Typed'
    BY <1>1, <1>2, <1>3 DEF Typed
  <1>5. (\A t \in Tasks : Move(t) /\ TaskInv(t)') /\ Listed' /\ Relayed' /\ Told'
    BY <1>2, <1>3, <1>4, QuietKeeps
  <1>6. Working' /\ Turns'
    BY <1>1, <1>2 DEF Working, Turns, GrantsInTurn
  <1>. QED
    BY <1>4, <1>5, <1>6 DEF AInv

\* The events the relay sends.
LEMMA EventsMade ==
    /\ [kind |-> "fatal"] \in InboxEvent /\ [kind |-> "offline"] \in InboxEvent
    /\ \A u \in BOOLEAN : Announce(u) \in InboxEvent /\ Announce(u).kind = "presence" /\ Announce(u).browser = u
    /\ \A t \in Tasks, k \in {"message", "cancel"} : [kind |-> k, task |-> t] \in InboxEvent
    /\ \A t \in Tasks, n \in Nat, b \in BOOLEAN :
           [kind |-> "input", task |-> t, request |-> n, allow |-> b] \in InboxEvent
  BY DEF InboxEvent, Announce

\* A runner that may not attach is told so.
LEMMA AgentRefusedKeeps ==
    ASSUME AInv, AgentRefused, limit' = limit
    PROVE  AInv' /\ \A t \in Tasks : Move(t)
  <1>1. Typed /\ Event /\ Send([kind |-> "fatal"]) /\ UNCHANGED <<runner, acp, relay, screen, prompted, grants>>
    BY DEF AInv, AgentRefused
  <1>. QED
    BY <1>1, EventTyped, EventsMade, SendKeeps

\* A browser's cancellation is sent to the runner.
LEMMA UserCancelsKeeps ==
    ASSUME AInv, NEW t \in Tasks, UserCancels(t), limit' = limit
    PROVE  AInv' /\ \A u \in Tasks : Move(u)
  <1>1. /\ Typed /\ Event /\ Send([kind |-> "cancel", task |-> t])
        /\ UNCHANGED <<runner, acp, relay, screen, prompted, grants>>
    BY DEF AInv, UserCancels
  <1>2. [kind |-> "cancel", task |-> t] \in InboxEvent
    BY EventsMade
  <1>. QED
    BY <1>1, <1>2, EventTyped, SendKeeps

\* A browser's answer is sent to the runner.
LEMMA RespondKeeps ==
    ASSUME AInv, NEW t \in Tasks, Respond(t), limit' = limit
    PROVE  AInv' /\ \A u \in Tasks : Move(u)
  <1>1. /\ Typed /\ UNCHANGED <<runner, acp, relay, screen, prompted, grants>> /\ events' \in 0..MaxEvents
    BY DEF AInv, Respond, Typed
  <1>2. PICK allow \in BOOLEAN :
            Send([kind |-> "input", task |-> t, request |-> view[t].input, allow |-> allow])
    BY DEF Respond
  <1>3. view[t].input \in Nat
    BY <1>1, AssistantAssumption DEF Typed, Picture
  <1>4. [kind |-> "input", task |-> t, request |-> view[t].input, allow |-> allow] \in InboxEvent
    BY <1>3, EventsMade
  <1>. QED
    BY <1>1, <1>2, <1>4, SendKeeps

\* The records stay; what the relay and the browser's deliveries become is typed.
LEMMA ScreenKeeps ==
    ASSUME AInv, limit' = limit, UNCHANGED <<runner, acp, view, ahead, prompted, grants>>,
           user' \in BOOLEAN, agent' \in BOOLEAN, broken' \in BOOLEAN, requests' \in SUBSET Tasks,
           delivery' \in [Tasks -> {"none", "sent", "uncertain"}], inbox' \in Seq(InboxEvent),
           events' \in 0..MaxEvents, Relayed', Live' => Greeting' \/ (Live /\ (Greeting => Greeting'))
    PROVE  AInv' /\ \A t \in Tasks : Move(t)
  <1>1. /\ Typed /\ (\A t \in Tasks : TaskInv(t)) /\ Working /\ Turns /\ Told
    BY DEF AInv
  <1>2. /\ rec' = rec /\ order' = order /\ disk' = disk /\ up' = up /\ step' = step /\ active' = active
        /\ connected' = connected /\ stopping' = stopping /\ ended' = ended /\ asks' = asks
        /\ turn' = turn /\ turns' = turns /\ stops' = stops
        /\ prompted' = prompted /\ grants' = grants /\ view' = view /\ ahead' = ahead
    BY DEF runner, acp
  <1>3. Typed'
    BY <1>1, <1>2 DEF Typed
  <1>4. \A t \in Tasks : InDoubt(t) => InDoubt(t)'
    BY <1>2 DEF InDoubt
  <1>5. (\A t \in Tasks : Runs(t) /\ Move(t) /\ TaskInv(t)') /\ Listed'
    BY <1>2, <1>3, <1>4, StillKeeps
  <1>6. Working' /\ Turns'
    BY <1>1, <1>2 DEF Working, Turns, GrantsInTurn
  <1>7. Told'
    <2>1. CASE Greeting' \/ ~Live'
      BY <2>1 DEF Told
    <2>2. CASE ~Greeting' /\ Live'
      BY <1>1, <1>2, <2>2 DEF Told, Current, Replayed
    <2>. QED
      BY <2>1, <2>2
  <1>. QED
    BY <1>3, <1>5, <1>6, <1>7 DEF AInv

\* A socket dies unnoticed.
LEMMA BreaksKeeps ==
    ASSUME AInv, Breaks, limit' = limit
    PROVE  AInv' /\ \A t \in Tasks : Move(t)
  <1>1. /\ Typed /\ Relayed /\ Event /\ broken' = TRUE
        /\ UNCHANGED <<runner, acp, view, ahead, prompted, grants>>
        /\ user' = user /\ agent' = agent /\ requests' = requests /\ inbox' = inbox /\ delivery' = delivery
    BY DEF AInv, Breaks, screen
  <1>2. Relayed'
    BY <1>1 DEF Relayed
  <1>3. ~Live'
    BY <1>1 DEF Live
  <1>4. /\ user' \in BOOLEAN /\ agent' \in BOOLEAN /\ broken' \in BOOLEAN /\ requests' \in SUBSET Tasks
        /\ delivery' \in [Tasks -> {"none", "sent", "uncertain"}] /\ inbox' \in Seq(InboxEvent)
        /\ events' \in 0..MaxEvents
    BY <1>1, EventTyped DEF Typed
  <1>. QED
    BY <1>1, <1>2, <1>3, <1>4, ScreenKeeps

\* A submission that is not acknowledged in time is in doubt.
LEMMA AckLateKeeps ==
    ASSUME AInv, NEW t \in Tasks, AckLate(t), limit' = limit
    PROVE  AInv' /\ \A u \in Tasks : Move(u)
  <1>1. /\ Typed /\ Relayed /\ Event /\ delivery[t] = "sent" /\ delivery' = [delivery EXCEPT ![t] = "uncertain"]
        /\ UNCHANGED <<runner, acp, view, ahead, prompted, grants>> /\ view' = view
        /\ user' = user /\ agent' = agent /\ requests' = requests /\ inbox' = inbox /\ broken' = broken
    BY DEF AInv, AckLate, relay
  <1>2. /\ user' \in BOOLEAN /\ agent' \in BOOLEAN /\ broken' \in BOOLEAN /\ requests' \in SUBSET Tasks
        /\ delivery' \in [Tasks -> {"none", "sent", "uncertain"}] /\ inbox' \in Seq(InboxEvent)
        /\ events' \in 0..MaxEvents
    BY <1>1, EventTyped DEF Typed
  <1>3. \A u \in Tasks : delivery'[u] = IF u = t THEN "uncertain" ELSE delivery[u]
    BY <1>1 DEF Typed
  <1>4. \A u \in Tasks : Coming(u) => Coming(u)'
    BY <1>1 DEF Coming
  <1>5. Relayed'
    <2>1. \A u \in requests' : u \in Tasks
      BY <1>2
    <2>. QED
      BY <1>1, <1>3, <1>4, <2>1 DEF Relayed
  <1>6. Live' => Live /\ (Greeting => Greeting')
    BY <1>1 DEF Live, Greeting
  <1>. QED
    BY <1>1, <1>2, <1>5, <1>6, ScreenKeeps

\* A submission is sent to the runner or is in doubt.
LEMMA SubmitKeeps ==
    ASSUME AInv, NEW t \in Tasks, Submit(t), limit' = limit
    PROVE  AInv' /\ \A u \in Tasks : Move(u)
  <1>1. /\ Typed /\ Relayed /\ user /\ agent
        /\ (delivery[t] = "none" /\ view[t] = Unseen) \/ delivery[t] = "uncertain"
        /\ delivery' = [delivery EXCEPT ![t] = "sent"] /\ requests' = requests \cup {t}
        /\ inbox' = IF t \in requests THEN inbox ELSE Append(inbox, [kind |-> "message", task |-> t])
        /\ UNCHANGED <<runner, acp, view, ahead, prompted, grants>> /\ view' = view
        /\ user' = user /\ agent' = agent /\ broken' = broken /\ events' = events
    BY DEF AInv, Submit, Deliver
  <1>2. /\ user' \in BOOLEAN /\ agent' \in BOOLEAN /\ broken' \in BOOLEAN /\ requests' \in SUBSET Tasks
        /\ delivery' \in [Tasks -> {"none", "sent", "uncertain"}] /\ events' \in 0..MaxEvents
    BY <1>1 DEF Typed
  <1>3. /\ inbox' \in Seq(InboxEvent) /\ (\A u \in Tasks : Coming(u) => Coming(u)')
        /\ (Greeting => Greeting') /\ (t \notin requests => Coming(t)')
    <2>1. CASE t \in requests
      BY <1>1, <2>1 DEF Typed, Coming, Greeting
    <2>2. CASE t \notin requests
      <3> DEFINE e == [kind |-> "message", task |-> t]
      <3>1. e \in InboxEvent /\ e.kind = "message" /\ e.task = t
        BY EventsMade
      <3>2. inbox' = Append(inbox, e)
        BY <1>1, <2>2
      <3>. HIDE DEF e
      <3>. QED
        BY <1>1, <3>1, <3>2, Sent
    <2>. QED
      BY <2>1, <2>2
  <1>4. \A u \in Tasks : delivery'[u] = IF u = t THEN "sent" ELSE delivery[u]
    BY <1>1 DEF Typed
  <1>5. broken \/ Coming(t)'
    BY <1>1, <1>3 DEF Relayed
  <1>6. Relayed'
    <2>1. \A u \in requests' : u \in Tasks /\ (u \in requests \/ u = t)
      BY <1>1, <1>2
    <2>2. \A u \in requests' : broken' \/ Coming(u)' \/ (delivery'[u] = "none" /\ view'[u] # Unseen)
      <3>. TAKE u \in requests'
      <3>1. CASE u = t
        BY <1>1, <1>5, <3>1
      <3>2. CASE u # t
        BY <1>1, <1>3, <1>4, <2>1, <3>2 DEF Relayed
      <3>. QED
        BY <3>1, <3>2
    <2>3. \A u \in Tasks : delivery'[u] = "sent" => broken' \/ Coming(u)'
      BY <1>1, <1>3, <1>4, <1>5 DEF Relayed
    <2>. QED
      BY <1>1, <2>2, <2>3 DEF Relayed
  <1>7. Live' => Live /\ (Greeting => Greeting')
    BY <1>1, <1>3 DEF Live
  <1>. QED
    BY <1>1, <1>2, <1>3, <1>6, <1>7, ScreenKeeps

\* Every message sent again is on its way, in some order.
LEMMA Forwarded ==
    ASSUME Typed, NEW ts \in SUBSET Tasks, NEW again \in Forward(ts)
    PROVE  /\ again \in Seq(InboxEvent)
           /\ \A t \in ts \ requests :
                \E i \in DOMAIN again : again[i].kind = "message" /\ again[i].task = t
  <1> DEFINE D == ts \ requests
             S == {[kind |-> "message", task |-> t] : t \in D}
             f == [t \in D |-> [kind |-> "message", task |-> t]]
             N == 1..Cardinality(S)
  <1>1. IsFiniteSet(D)
    <2>1. IsFiniteSet(Tasks) /\ D \in SUBSET Tasks
      BY AssistantAssumption
    <2>. QED
      BY <2>1, FS_Subset
  <1>2. IsFiniteSet(S)
    <2>1. f \in Surjection(D, S)
      BY DEF Surjection
    <2>. QED
      BY <1>1, <2>1, FS_Surjection
  <1>3. Cardinality(S) \in Nat /\ IsFiniteSet(N) /\ Cardinality(N) = Cardinality(S)
    <2>1. Cardinality(S) \in Nat
      BY <1>2, FS_CardinalityType
    <2>. QED
      BY <2>1, FS_Interval
  <1>4. again \in [N -> S] /\ \A i, j \in N : i # j => again[i] # again[j]
    BY DEF Forward, SetToSeqs
  <1>5. again \in Injection(N, S)
    BY <1>4 DEF Injection, IsInjective
  <1>6. again \in Surjection(N, S)
    BY <1>2, <1>3, <1>5, FS_Injection
  <1>7. S \in SUBSET InboxEvent
    BY EventsMade
  <1>8. again \in Seq(InboxEvent)
    BY <1>3, <1>4, <1>7
  <1>9. \A s \in S : \E i \in DOMAIN again : again[i] = s
    BY <1>4, <1>6 DEF Surjection
  <1>10. \A t \in D : \E i \in DOMAIN again : again[i].kind = "message" /\ again[i].task = t
    <2>. TAKE t \in D
    <2>1. [kind |-> "message", task |-> t] \in S
      OBVIOUS
    <2>2. PICK i \in DOMAIN again : again[i] = [kind |-> "message", task |-> t]
      BY <1>9, <2>1
    <2>. QED
      BY <2>2
  <1>. QED
    BY <1>8, <1>10

\* An attachment: the runner is told, and what was in doubt follows.
LEMMA Greeted ==
    ASSUME Typed, NEW u \in BOOLEAN, NEW ts \in SUBSET Tasks, NEW again \in Forward(ts),
           inbox' = Append(inbox, Announce(u)) \o again
    PROVE  /\ inbox' \in Seq(InboxEvent)
           /\ \A t \in Tasks : Coming(t) \/ t \in ts \ requests => Coming(t)'
           /\ u => Greeting'
  <1> DEFINE b == Append(inbox, Announce(u))
  <1>1. inbox \in Seq(InboxEvent) /\ Announce(u) \in InboxEvent
    BY EventsMade DEF Typed
  <1>2. /\ b \in Seq(InboxEvent) /\ Len(inbox) \in Nat /\ Len(b) = Len(inbox) + 1
        /\ b[Len(inbox) + 1] = Announce(u) /\ \A i \in 1..Len(inbox) : b[i] = inbox[i]
    BY <1>1, AppendProperties
  <1>3. /\ again \in Seq(InboxEvent)
        /\ \A t \in ts \ requests :
              \E i \in DOMAIN again : again[i].kind = "message" /\ again[i].task = t
    BY Forwarded
  <1>. HIDE DEF b
  <1>4. /\ b \o again \in Seq(InboxEvent) /\ Len(b \o again) = Len(b) + Len(again)
        /\ \A i \in 1..Len(b) + Len(again) :
             (b \o again)[i] = IF i <= Len(b) THEN b[i] ELSE again[i - Len(b)]
    BY <1>2, <1>3, ConcatProperties
  <1>5. inbox' = b \o again
    BY DEF b
  <1>6. DOMAIN inbox' = 1..(Len(b) + Len(again)) /\ Len(again) \in Nat /\ Len(b) \in Nat
    BY <1>2, <1>3, <1>4, <1>5
  <1>7. \A i \in 1..Len(b) : i \in DOMAIN inbox' /\ inbox'[i] = b[i]
    BY <1>4, <1>5, <1>6
  <1>8. \A i \in DOMAIN again : i + Len(b) \in DOMAIN inbox' /\ inbox'[i + Len(b)] = again[i]
    <2>. TAKE i \in DOMAIN again
    <2>1. /\ i \in 1..Len(again) /\ i + Len(b) \in 1..(Len(b) + Len(again)) /\ ~(i + Len(b) <= Len(b))
          /\ (i + Len(b)) - Len(b) = i
      BY <1>3, <1>6
    <2>. QED
      BY <1>4, <1>5, <1>6, <2>1
  <1>9. /\ \A i \in DOMAIN inbox : i \in DOMAIN inbox' /\ inbox'[i] = inbox[i]
        /\ Len(inbox) + 1 \in DOMAIN inbox' /\ inbox'[Len(inbox) + 1] = Announce(u)
    BY <1>1, <1>2, <1>7
  <1>10. \A t \in Tasks : Coming(t) => Coming(t)'
    BY <1>9 DEF Coming
  <1>11. \A t \in ts \ requests : Coming(t)'
    <2>. TAKE t \in ts \ requests
    <2>1. PICK i \in DOMAIN again : again[i].kind = "message" /\ again[i].task = t
      BY <1>3
    <2>2. i + Len(b) \in DOMAIN inbox' /\ inbox'[i + Len(b)] = again[i]
      BY <1>8
    <2>. QED
      BY <2>1, <2>2 DEF Coming
  <1>12. u => Greeting'
    BY <1>9, EventsMade DEF Greeting
  <1>. QED
    BY <1>4, <1>5, <1>10, <1>11, <1>12

\* What was in doubt is taken as sent again when it follows an attachment.
LEMMA Resubmitted ==
    ASSUME Typed, NEW doubt \in SUBSET Tasks, requests' = doubt,
           delivery' = [t \in Tasks |-> IF t \in doubt THEN "sent" ELSE delivery[t]],
           \A t \in doubt : Coming(t)', \A t \in Tasks : delivery[t] # "sent",
           ~(user' /\ agent') => doubt = {}
    PROVE  /\ Relayed' /\ requests' \in SUBSET Tasks
           /\ delivery' \in [Tasks -> {"none", "sent", "uncertain"}]
  <1>1. delivery \in [Tasks -> {"none", "sent", "uncertain"}]
    BY DEF Typed
  <1>2. \A t \in Tasks : delivery'[t] = IF t \in doubt THEN "sent" ELSE delivery[t]
    OBVIOUS
  <1>3. delivery' \in [Tasks -> {"none", "sent", "uncertain"}]
    BY <1>1
  <1>4. Relayed'
    BY <1>2 DEF Relayed
  <1>. QED
    BY <1>3, <1>4

\* A runner that attaches is sent every submission in doubt.
LEMMA AgentAttachesKeeps ==
    ASSUME AInv, AgentAttaches, limit' = limit
    PROVE  AInv' /\ \A t \in Tasks : Move(t)
  <1> DEFINE doubt == IF user THEN {t \in Tasks : delivery[t] = "uncertain"} ELSE {}
  <1>1. /\ Typed /\ Relayed /\ ~agent /\ agent' = TRUE
        /\ requests' = requests \cup doubt
        /\ delivery' = [t \in Tasks |-> IF t \in doubt THEN "sent" ELSE delivery[t]]
        /\ UNCHANGED <<runner, acp, view, ahead, prompted, grants>>
        /\ user' = user /\ broken' = broken /\ events' = events
    BY DEF AInv, AgentAttaches
  <1>2. PICK again \in Forward(doubt) : inbox' = Append(inbox, Announce(user)) \o again
    BY DEF AgentAttaches
  <1>3. /\ doubt \in SUBSET Tasks /\ user \in BOOLEAN /\ requests = {} /\ requests' = doubt
        /\ (\A t \in Tasks : delivery[t] # "sent") /\ (~(user' /\ agent') => doubt = {})
    BY <1>1 DEF Typed, Relayed
  <1>. HIDE DEF doubt
  <1>4. /\ inbox' \in Seq(InboxEvent)
        /\ \A t \in Tasks : Coming(t) \/ t \in doubt \ requests => Coming(t)'
        /\ user => Greeting'
    BY <1>1, <1>2, <1>3, Greeted
  <1>5. \A t \in doubt : Coming(t)'
    BY <1>3, <1>4
  <1>6. /\ Relayed' /\ requests' \in SUBSET Tasks
        /\ delivery' \in [Tasks -> {"none", "sent", "uncertain"}]
    BY <1>1, <1>3, <1>5, Resubmitted
  <1>7. /\ user' \in BOOLEAN /\ agent' \in BOOLEAN /\ broken' \in BOOLEAN /\ events' \in 0..MaxEvents
        /\ (Live' => Greeting')
    BY <1>1, <1>4 DEF Typed, Live
  <1>. QED
    BY <1>1, <1>4, <1>6, <1>7, ScreenKeeps

\* A browser that attaches sends every submission it has again.
LEMMA UserAttachesKeeps ==
    ASSUME AInv, UserAttaches, limit' = limit
    PROVE  AInv' /\ \A t \in Tasks : Move(t)
  <1> DEFINE doubt == IF agent THEN {t \in Tasks : delivery[t] # "none"} ELSE {}
  <1>1. /\ Typed /\ Relayed /\ ~user /\ user' = TRUE
        /\ requests' = requests \cup doubt
        /\ delivery' = [t \in Tasks |-> IF t \in doubt THEN "sent" ELSE delivery[t]]
        /\ UNCHANGED <<runner, acp, view, ahead, prompted, grants>>
        /\ agent' = agent /\ broken' = broken /\ events' = events
    BY DEF AInv, UserAttaches
  <1>2. IF agent THEN \E again \in Forward(doubt) : inbox' = Append(inbox, Announce(TRUE)) \o again
        ELSE inbox' = inbox
    BY DEF UserAttaches
  <1>3. /\ doubt \in SUBSET Tasks /\ requests = {} /\ requests' = doubt
        /\ (\A t \in Tasks : delivery[t] # "sent") /\ (~(user' /\ agent') => doubt = {})
        /\ (~agent => doubt = {})
    BY <1>1 DEF Typed, Relayed
  <1>. HIDE DEF doubt
  <1>4. /\ inbox' \in Seq(InboxEvent) /\ (\A t \in doubt : Coming(t)') /\ (agent => Greeting')
    <2>1. CASE agent
      <3>1. PICK again \in Forward(doubt) : inbox' = Append(inbox, Announce(TRUE)) \o again
        BY <1>2, <2>1
      <3>2. /\ inbox' \in Seq(InboxEvent)
            /\ \A t \in Tasks : Coming(t) \/ t \in doubt \ requests => Coming(t)'
            /\ TRUE => Greeting'
        BY <1>1, <1>3, <3>1, Greeted
      <3>. QED
        BY <1>3, <3>2
    <2>2. CASE ~agent
      BY <1>1, <1>2, <1>3, <2>2 DEF Typed
    <2>. QED
      BY <2>1, <2>2
  <1>5. /\ Relayed' /\ requests' \in SUBSET Tasks
        /\ delivery' \in [Tasks -> {"none", "sent", "uncertain"}]
    BY <1>1, <1>3, <1>4, Resubmitted
  <1>6. /\ user' \in BOOLEAN /\ agent' \in BOOLEAN /\ broken' \in BOOLEAN /\ events' \in 0..MaxEvents
        /\ (Live' => Greeting')
    BY <1>1, <1>4 DEF Typed, Live
  <1>. QED
    BY <1>1, <1>4, <1>5, <1>6, ScreenKeeps

\* After a detachment nothing is taken as sent.
LEMMA Unsent ==
    ASSUME Typed, Relayed, requests' = {}, ~(user' /\ agent'),
           delivery' = Unsure(delivery) \/ (~(user /\ agent) /\ delivery' = delivery)
    PROVE  /\ Relayed' /\ requests' \in SUBSET Tasks
           /\ delivery' \in [Tasks -> {"none", "sent", "uncertain"}]
  <1>1. \A t \in Tasks : delivery'[t] # "sent"
    BY DEF Unsure, Relayed
  <1>2. delivery' \in [Tasks -> {"none", "sent", "uncertain"}]
    BY DEF Unsure, Typed
  <1>. QED
    BY <1>1, <1>2 DEF Relayed

\* A runner that detaches leaves every open submission in doubt.
LEMMA AgentDetachesKeeps ==
    ASSUME AInv, AgentDetaches, limit' = limit
    PROVE  AInv' /\ \A t \in Tasks : Move(t)
  <1>1. /\ Typed /\ Relayed /\ agent' = FALSE /\ requests' = {} /\ broken' = FALSE
        /\ Left /\ UNCHANGED <<runner, acp, view, ahead, prompted, grants>>
        /\ user' = user /\ events' = events
    BY DEF AInv, AgentDetaches
  <1>2. PICK n \in 0..Len(inbox) : inbox' = Append(SubSeq(inbox, 1, n), [kind |-> "offline"])
    BY DEF AgentDetaches
  <1>3. inbox' \in Seq(InboxEvent)
    <2>1. inbox \in Seq(InboxEvent) /\ Len(inbox) \in Nat
      BY <1>1 DEF Typed
    <2>2. SubSeq(inbox, 1, n) \in Seq(InboxEvent)
      BY <2>1
    <2>. QED
      BY <1>2, <2>2, EventsMade
  <1>4. /\ Relayed' /\ requests' \in SUBSET Tasks
        /\ delivery' \in [Tasks -> {"none", "sent", "uncertain"}]
    BY <1>1, Unsent DEF Left
  <1>5. /\ user' \in BOOLEAN /\ agent' \in BOOLEAN /\ broken' \in BOOLEAN /\ events' \in 0..MaxEvents /\ ~Live'
    BY <1>1 DEF Typed, Live
  <1>. QED
    BY <1>1, <1>3, <1>4, <1>5, ScreenKeeps

\* A browser that detaches leaves its open submissions in doubt.
LEMMA UserDetachesKeeps ==
    ASSUME AInv, UserDetaches, limit' = limit
    PROVE  AInv' /\ \A t \in Tasks : Move(t)
  <1>1. /\ Typed /\ Relayed /\ user' = FALSE /\ requests' = {} /\ broken' = FALSE
        /\ delivery' = Unsure(delivery) /\ UNCHANGED <<runner, acp, view, ahead, prompted, grants>>
        /\ agent' = agent /\ events' = events
        /\ inbox' = IF agent THEN Append(inbox, Announce(FALSE)) ELSE inbox
    BY DEF AInv, UserDetaches
  <1>2. inbox' \in Seq(InboxEvent)
    <2>1. inbox \in Seq(InboxEvent) /\ Announce(FALSE) \in InboxEvent
      BY <1>1, EventsMade DEF Typed
    <2>2. Append(inbox, Announce(FALSE)) \in Seq(InboxEvent)
      BY <2>1, AppendProperties
    <2>. QED
      BY <1>1, <2>1, <2>2
  <1>3. /\ Relayed' /\ requests' \in SUBSET Tasks
        /\ delivery' \in [Tasks -> {"none", "sent", "uncertain"}]
    BY <1>1, Unsent
  <1>4. /\ user' \in BOOLEAN /\ agent' \in BOOLEAN /\ broken' \in BOOLEAN /\ events' \in 0..MaxEvents /\ ~Live'
    BY <1>1 DEF Typed, Live
  <1>. QED
    BY <1>1, <1>2, <1>3, <1>4, ScreenKeeps

-----------------------------------------------------------------------------
(* Every step, and the theorems *)

\* The invariant holds before any task.
LEMMA InitHolds ==
    ASSUME Init
    PROVE  AInv
  <1>1. /\ limit \in ListLimit /\ limit.full \in Nat /\ 0 \in 0..MaxEvents /\ MaxPendingInput \in Nat
    BY AssistantAssumption DEF Init, ListLimit
  <1>2. /\ rec = [t \in Tasks |-> NoRecord] /\ order = <<>> /\ disk = [rec |-> rec, order |-> order]
        /\ up = TRUE /\ step = "loop" /\ active = Idle /\ connected = FALSE /\ stopping = FALSE /\ ended = 0
        /\ turn = NoTask /\ turns = 0 /\ stops = <<>> /\ asks = {}
        /\ user = TRUE /\ agent = FALSE /\ requests = {} /\ broken = FALSE /\ inbox = <<>>
        /\ view = [t \in Tasks |-> Unseen] /\ delivery = [t \in Tasks |-> "none"]
        /\ events = 0 /\ prompted = [t \in Tasks |-> 0] /\ grants = {} /\ ahead = {}
    BY DEF Init
  <1>3. Len(<<>>) = 0 /\ DOMAIN <<>> = {}
    OBVIOUS
  <1>4. Typed
    <2>1. /\ rec \in [Tasks -> Record] /\ active \in ActiveTask /\ view \in [Tasks -> Picture]
      BY <1>2, NullsTyped
    <2>2. order \in Seq(Tasks) /\ stops \in Seq(Terminal) /\ inbox \in Seq(InboxEvent)
      BY <1>2
    <2>3. disk \in [rec : [Tasks -> Record], order : Seq(Tasks)]
      BY <1>2, <2>1, <2>2
    <2>. QED
      BY <1>1, <1>2, <2>1, <2>2, <2>3 DEF Typed
  <1>5. ASSUME NEW t \in Tasks PROVE TaskInv(t)
    <2>1. rec[t] = NoRecord /\ disk.rec[t] = NoRecord /\ view[t] = Unseen /\ prompted[t] = 0
      BY <1>2
    <2>2. /\ NoRecord.held = "no" /\ NoRecord.status = "queued" /\ NoRecord.seq = 0 /\ NoRecord.results = FALSE
          /\ Unseen.seq = 0 /\ Unseen.status = "queued"
      BY DEF NoRecord, Unseen
    <2>. QED
      BY <2>1, <2>2 DEF TaskInv
  <1>6. Listed
    <2>1. \A t \in Tasks : rec[t].held # "full"
      BY <1>2 DEF NoRecord
    <2>2. disk.order = order /\ Len(order) <= limit.full
      BY <1>1, <1>2, <1>3
    <2>. QED
      BY <1>2, <1>3, <2>1, <2>2 DEF Listed
  <1>7. Working
    <2>1. Idle.id = NoTask /\ Idle.asked = <<>> /\ Idle.cancelling = FALSE
      BY DEF Idle
    <2>. QED
      BY <1>1, <1>2, <1>3, <2>1 DEF Working
  <1>8. Turns
    BY <1>2, <1>3 DEF Turns, GrantsInTurn
  <1>9. Relayed /\ Told
    BY <1>2 DEF Relayed, Told
  <1>. QED
    BY <1>4, <1>5, <1>6, <1>7, <1>8, <1>9 DEF AInv

\* Every step keeps the invariant, and does to a task what a step may do to it.
LEMMA StepKeeps ==
    ASSUME AInv, Next
    PROVE  AInv' /\ \A t \in Tasks : Move(t)
  <1>1. limit' = limit
    BY DEF Next
  <1>2. CASE RunnerStep
    BY <1>1, <1>2, DispatchFailsKeeps, DispatchSaveKeeps, DispatchKeeps, DispatchRefusedKeeps,
       PresenceKeeps, OfflineKeeps, FatalKeeps, MessageKeeps, CancelKeeps, InputKeeps,
       PermissionKeeps, TurnEndedKeeps, NextSegmentKeeps, CancelDeadlineKeeps, TimeOutKeeps,
       StopExitKeeps DEF RunnerStep
  <1>3. CASE Environment
    <2>1. CASE \/ Start \/ Crash \/ Abort \/ AnswerFlush \/ Activity \/ StopRequested \/ Interrupt
               \/ AgentExited \/ AgentAsks \/ AgentStops
      BY <1>1, <2>1, StartKeeps, CrashKeeps, AbortKeeps, AnswerFlushKeeps, ActivityKeeps,
         StopRequestedKeeps, InterruptKeeps, AgentExitedKeeps, AgentAsksKeeps, AgentStopsKeeps
    <2>2. CASE \/ AgentAttaches \/ AgentDetaches \/ AgentRefused \/ UserAttaches \/ UserDetaches
               \/ Breaks
      BY <1>1, <2>2, AgentAttachesKeeps, AgentDetachesKeeps, AgentRefusedKeeps, UserAttachesKeeps,
         UserDetachesKeeps, BreaksKeeps
    <2>3. CASE \E t \in Tasks : Submit(t) \/ AckLate(t) \/ UserCancels(t) \/ Respond(t)
      BY <1>1, <2>3, SubmitKeeps, AckLateKeeps, UserCancelsKeeps, RespondKeeps
    <2>. QED
      BY <1>3, <2>1, <2>2, <2>3 DEF Environment
  <1>. QED
    BY <1>2, <1>3 DEF Next

\* A step that changes nothing.
LEMMA StutterKeeps ==
    ASSUME AInv, UNCHANGED vars
    PROVE  AInv'
  BY DEF AInv, vars, runner, acp, relay, screen, Typed, TaskInv, Listed, Working, Turns, Relayed, Told,
         GrantsInTurn, Coming, Greeting, Current, Replayed, Live, InDoubt

\* The strengthened invariant: what memory, disk, the browser's map, the relay
\* and the inbox agree on after every step of the runner, its agent, the relay
\* and the browser, whatever crashes or is lost in between.
THEOREM Invariant == Spec => []AInv
  <1>1. Init => AInv
    BY InitHolds
  <1>2. AInv /\ [Next]_vars => AInv'
    BY StepKeeps, StutterKeeps
  <1>. QED
    BY <1>1, <1>2, PTL DEF Spec

\* Every variable of the runner, the relay and the browser keeps its type, and
\* the task list names exactly its full records, in memory and on disk
\* (task.rs: State::admit, State::save).
THEOREM TypeCorrect == Spec => []TypeOK
  <1>1. AInv => TypeOK
    <2>. SUFFICES ASSUME AInv PROVE TypeOK
      OBVIOUS
    <2>1. Typed /\ Listed /\ Working /\ \A t \in Tasks : TaskInv(t)
      BY DEF AInv
    <2>2. Range(order) = {t \in Tasks : rec[t].held = "full"}
      BY <2>1 DEF Typed, Listed, Range
    <2>3. disk.order = order /\ \A t \in Tasks : disk.rec[t].held = rec[t].held
      BY <2>1 DEF Listed, TaskInv
    <2>4. Range(disk.order) = {t \in Tasks : disk.rec[t].held = "full"}
      BY <2>2, <2>3
    <2>5. rec \in [Tasks -> Record] /\ disk.rec \in [Tasks -> Record]
      BY <2>1 DEF Typed
    <2>6. /\ active.id \in Tasks \cup {NoTask} /\ active.asked \in Seq(Request)
          /\ {active.cancelling, active.timed} \subseteq BOOLEAN
          /\ Len(active.asked) <= MaxPendingInput /\ Len(order) <= limit.full
      BY <2>1, ActiveParts DEF Typed, Working, Listed
    <2>. QED
      BY <2>1, <2>2, <2>4, <2>5, <2>6 DEF TypeOK, Typed, Picture
  <1>. QED
    BY <1>1, Invariant, PTL

\* A task is handed to the agent at most once, whatever is sent again, evicted
\* from the list, interrupted by a crash or recovered by a restart (task.rs:
\* State::admit, State::load).
THEOREM PromptedOnce == Spec => []DispatchedOnce
  <1>1. AInv => DispatchedOnce
    BY DEF AInv, TaskInv, DispatchedOnce
  <1>. QED
    BY <1>1, Invariant, PTL

\* A permission is given only inside the task whose turn asked for it, and
\* never without the user once the task is being cancelled (runtime.rs:
\* permission_decision, the "input" frame and TurnEnded).
THEOREM GrantsAreInTurn == Spec => []GrantsInTurn
  <1>1. AInv => GrantsInTurn
    BY DEF AInv, Turns
  <1>. QED
    BY <1>1, Invariant, PTL

\* When nothing is under way between a runner and a browser that both know of
\* each other, the browser shows each task that reconcile shows again as the
\* runner has it, save those it was shown under a number the saved list did not
\* have, however many records are kept and shown again (runtime.rs: reconcile
\* and report_task; agent-client: frameReceived).
THEOREM BrowserCatchesUp == Spec => []ShownAsRecorded
  <1>1. AInv => ShownAsRecorded
    <2>. SUFFICES ASSUME AInv, Loop, user, agent, connected, ~stopping, ~broken, inbox = <<>>,
                         NEW t \in Replayed \ ahead
                  PROVE  view[t].status = rec[t].status
      BY DEF ShownAsRecorded
    <2>1. Typed /\ Listed /\ Told
      BY DEF AInv
    <2>2. Live /\ up /\ step # "prompt"
      BY LoopSettled DEF Live
    <2>3. ~Greeting
      <3>1. DOMAIN inbox = {}
        OBVIOUS
      <3>. QED
        BY <3>1 DEF Greeting
    <2>4. t \in Tasks /\ t \notin ahead /\ rec[t].held = "full"
      BY <2>1 DEF Typed, Listed, Replayed
    <2>5. Current(t)
      BY <2>1, <2>2, <2>3, <2>4 DEF Told
    <2>. QED
      BY <2>2, <2>4, <2>5 DEF Current
  <1>. QED
    BY <1>1, Invariant, PTL

\* A submission the browser takes as sent is on its way to the runner, unless a
\* socket has died and nobody has noticed (hub.rs: deliver and detach;
\* agent-client: retryDeliveries).
THEOREM NobodyWaitsInVain == Spec => []NotStranded
  <1>1. AInv => NotStranded
    BY DEF AInv, Relayed, Coming, NotStranded
  <1>. QED
    BY <1>1, Invariant, PTL

\* A cancellation has a deadline of its own or a stop behind it, so that its end
\* does not hang on an answer of the agent (runtime.rs: the tick branch and the
\* stops).
THEOREM CancellationsEnd == Spec => []CancelEnds
  <1>1. AInv => CancelEnds
    BY DEF AInv, Working, CancelEnds
  <1>. QED
    BY <1>1, Invariant, PTL

\* An outcome once shown never changes: no late, repeated or replayed frame
\* takes a finished task back (agent-client: frameReceived; task.rs: Task::finish).
THEOREM OutcomesStay == Spec => OutcomeStays
  <1> DEFINE A == \A t \in Tasks : view[t].seq # 0 /\ view[t].status \in Terminal =>
                      view'[t].status = view[t].status
  <1>1. AInv /\ [Next]_vars => [A]_vars
    <2>. SUFFICES ASSUME AInv, Next PROVE A
      OBVIOUS
    <2>1. Typed /\ (\A t \in Tasks : TaskInv(t)) /\ \A t \in Tasks : Move(t)
      BY StepKeeps DEF AInv
    <2>. QED
      BY <2>1, OutcomeKept
  <1>. QED
    BY <1>1, Invariant, PTL DEF Spec, OutcomeStays

=============================================================================
