----------------------------- MODULE Assistant -----------------------------
(***************************************************************************)
(* The local assistant: a browser submits tasks over the server's chat     *)
(* relay to a runner in the companion, which keeps them in a durable task  *)
(* list, hands one at a time to an agent process, asks the browser for     *)
(* permissions and reports every transition under a sequence number the    *)
(* browser orders frames by.                                               *)
(*                                                                         *)
(* inbox is what the relay and the runner's transport hold for the loop.   *)
(* A frame the runner emits is shown at once, or lost: because no browser  *)
(* is there, or because a socket is already dead and the relay does not    *)
(* know yet.                                                               *)
(* A task is its id; its text, answer and results are left out, except     *)
(* that streaming the answer consumes sequence numbers.                    *)
(***************************************************************************)
EXTENDS Naturals, Sequences, FiniteSets, SequencesExt

CONSTANTS Tasks,          \* ids of the tasks the browser may submit
          NoTask,         \* no task
          Limits,         \* what the limits on the task list may be: full records
                          \* kept (MAX_FULL_TASKS), unfinished ones (MAX_UNFINISHED),
                          \* and the window of them that reconcile shows again
          MaxPendingInput,\* MAX_PENDING_INPUT: permission requests queued
          MaxEvents       \* bound on faults, cancellations, requests, stops, flushes

ASSUME AssistantAssumption ==
    /\ IsFiniteSet(Tasks) /\ NoTask \notin Tasks
    /\ Limits \subseteq [full : Nat \ {0}, unfinished : Nat, window : Nat]
    /\ MaxPendingInput \in Nat /\ MaxEvents \in Nat

VARIABLES
    limit,     \* the limits of this task list, which never change
    rec,       \* the runner's State: a record per task
    order,     \* its full records, oldest first
    disk,      \* the saved State, [rec, order]
    up,        \* the runner's process runs
    step,      \* "loop", or "prompt" between the save of a dispatch and its prompt
    active,    \* the task the agent works on
    connected, \* the loop believes a browser is present
    stopping,  \* a stop was asked for
    ended,     \* turns whose end the loop has seen
    turn,      \* the task whose turn the agent is in
    turns,     \* turns whose end the agent connection has read
    stops,     \* TurnEnded events on their way to the loop
    asks,      \* permission requests on their way to the loop
    user,      \* the browser is attached to the relay
    agent,     \* the runner is attached to the relay
    requests,  \* message ids the relay has forwarded since the last detach
    broken,    \* a socket is dead and the relay has not noticed
    inbox,     \* events on their way to the runner
    view,      \* the browser's task map
    delivery,  \* the browser's deliveries: what it knows of each submission
    events,    \* faults and other bounded events so far
    prompted,  \* how often each task was handed to the agent      (history)
    grants,    \* permissions given, and what was active then      (history)
    ahead      \* tasks shown under a number not yet on disk       (history)

runner == <<limit, rec, order, disk, up, step, active, connected, stopping, ended>>
acp == <<turn, turns, stops, asks>>
relay == <<user, agent, requests, broken>>
screen == <<view, delivery, ahead>>
vars == <<runner, acp, relay, inbox, screen, events, prompted, grants>>

Terminal == {"completed", "failed", "cancelled", "interrupted"}
Status == {"queued", "working", "needs_input"} \cup Terminal

NoRecord == [held |-> "no", status |-> "queued", seq |-> 0, results |-> FALSE]
Idle == [id |-> NoTask, asked |-> <<>>, cancelling |-> FALSE,
         timed |-> FALSE]
Unseen == [seq |-> 0, status |-> "queued", input |-> 0]
Refusal == [seq |-> 0, status |-> "failed", input |-> 0]

Init ==
    /\ limit \in Limits
    /\ rec = [t \in Tasks |-> NoRecord] /\ order = <<>>
    /\ disk = [rec |-> rec, order |-> order]
    /\ up = TRUE /\ step = "loop" /\ active = Idle
    /\ connected = FALSE /\ stopping = FALSE /\ ended = 0
    /\ turn = NoTask /\ turns = 0 /\ stops = <<>> /\ asks = {}
    /\ user = TRUE /\ agent = FALSE /\ requests = {}
    /\ broken = FALSE /\ inbox = <<>>
    /\ view = [t \in Tasks |-> Unseen]
    /\ delivery = [t \in Tasks |-> "none"]
    /\ events = 0 /\ prompted = [t \in Tasks |-> 0] /\ grants = {} /\ ahead = {}

Event == events < MaxEvents /\ events' = events + 1

(***************************************************************************)
(* What the browser shows.  A frame no newer than the one shown settles    *)
(* the delivery of its task and is otherwise ignored (frameReceived); the  *)
(* transport drops frames while no browser is there.                       *)
(***************************************************************************)
Shown(v, f) == IF f.seq # 0 /\ f.seq <= v.seq THEN v ELSE f

\* a frame for each of some tasks, the list on disk then having the records saved
Emit(fs, saved) ==
    IF ~(user /\ agent) \/ broken THEN UNCHANGED screen
    ELSE /\ view' = [t \in Tasks |-> IF t \in DOMAIN fs THEN Shown(view[t], fs[t]) ELSE view[t]]
         /\ delivery' = [t \in Tasks |-> IF t \in DOMAIN fs THEN "none" ELSE delivery[t]]
         /\ ahead' = ahead \cup {t \in DOMAIN fs : fs[t].seq > saved[t].seq}

(***************************************************************************)
(* The task list.                                                          *)
(***************************************************************************)
Unfinished(t) == rec[t].held = "full" /\ rec[t].status \notin Terminal

FaultyFinish(r, t, status) ==  \* a terminal task is finished again
    IF r[t].held # "full" THEN r ELSE [r EXCEPT ![t].status = status]

\* Task::finish, which leaves a terminal task alone
Finish(r, t, status) ==
    IF r[t].held # "full" \/ r[t].status \in Terminal THEN r
    ELSE [r EXCEPT ![t].status = status]

\* Task::require_input, Task::resume
RequireInput(r, t) ==
    IF r[t].status \in Terminal THEN r ELSE [r EXCEPT ![t].status = "needs_input"]
Resume(r, t) ==
    IF r[t].status = "needs_input" THEN [r EXCEPT ![t].status = "working"] ELSE r

\* Task::frame: the request shown is the front one of the active task
Frame(r, a, t) ==
    [seq |-> r[t].seq, status |-> r[t].status,
     input |-> IF r[t].status = "needs_input" /\ a.id = t /\ a.asked # <<>>
               THEN Head(a.asked).id ELSE 0]

\* report_task: a sequence number, the save, then the frame
Numbered(r, t) ==
    [r EXCEPT ![t].seq = @ + 1, ![t].results = @ \/ r[t].status \in Terminal]
Numbers(r, ts) == [t \in Tasks |-> IF t \in ts THEN Numbered(r, t)[t] ELSE r[t]]
Frames(r, a, ts) == [t \in ts |-> Frame(r, a, t)]
Report(r, o, a, ts) ==
    LET n == Numbers(r, ts)
    IN  /\ rec' = n /\ order' = o
        /\ disk' = [rec |-> n, order |-> o]
        /\ Emit(Frames(n, a, ts), n)

RepeatingRecovered(s) ==  \* what was under way is queued again
    [s EXCEPT !.rec = [t \in Tasks |->
        IF s.rec[t].held = "full" /\ s.rec[t].status \notin Terminal
        THEN [s.rec[t] EXCEPT !.status = "queued", !.seq = @ + 1] ELSE s.rec[t]]]

\* State::load with recover_state: what was not confirmed is interrupted
Recovered(s) ==
    LET Retire(c) == IF c.held = "full" /\ c.status \notin Terminal
                     THEN [c EXCEPT !.status = "interrupted", !.seq = @ + 1] ELSE c
        Note(c) == IF c.held = "full" /\ c.status = "interrupted" /\ ~c.results
                   THEN [c EXCEPT !.results = TRUE, !.seq = @ + 1] ELSE c
    IN  [s EXCEPT !.rec = [t \in Tasks |-> Note(Retire(s.rec[t]))]]


\* State::admit: without room, the oldest terminal record gives way
Oldest(i) ==
    /\ i \in DOMAIN order /\ rec[order[i]].status \in Terminal
    /\ \A j \in 1..(i - 1) : rec[order[j]].status \notin Terminal
AdmitNew ==
    /\ Cardinality({u \in Tasks : Unfinished(u)}) < limit.unfinished
    /\ Len(order) < limit.full \/ \E i \in DOMAIN order : Oldest(i)
UnmarkedAdmitted(t, i) ==   \* an evicted task is still taken for a full record
    [rec EXCEPT ![t] = [NoRecord EXCEPT !.held = "full"]]
Admitted(t, i) ==
    [u \in Tasks |-> IF u = t THEN [NoRecord EXCEPT !.held = "full"]
                     ELSE IF i # 0 /\ u = order[i] THEN [rec[u] EXCEPT !.held = "evicted"]
                     ELSE rec[u]]
Admit(t, i) ==
    Report(Admitted(t, i), Append(IF i = 0 THEN order ELSE RemoveAt(order, i), t), active, {t})

(***************************************************************************)
(* The process: start, end, crash.                                         *)
(***************************************************************************)
Loop == up /\ step = "loop"

Gone ==  \* the process, its agent and its socket are gone
    /\ up' = FALSE /\ step' = "loop" /\ active' = Idle
    /\ connected' = FALSE /\ stopping' = FALSE /\ ended' = 0
    /\ turn' = NoTask /\ turns' = 0 /\ stops' = <<>> /\ asks' = {}
    /\ agent' = FALSE /\ requests' = IF agent THEN {} ELSE requests
    /\ inbox' = <<>> /\ broken' = FALSE
    /\ UNCHANGED user

\* the relay tells the browser that the runner left
Unsure(d) == [t \in Tasks |-> IF d[t] = "none" THEN "none" ELSE "uncertain"]
Left == delivery' = IF user /\ agent THEN Unsure(delivery) ELSE delivery

Start ==
    /\ ~up
    /\ LET s == Recovered(disk) IN rec' = s.rec /\ order' = s.order /\ disk' = s
    /\ up' = TRUE
    /\ UNCHANGED <<step, active, connected, stopping, ended, acp, relay, inbox, events,
                   screen, prompted, grants>>

\* run: the loop returned, and loading the list retires what it left
Ended(s) ==
    /\ LET d == Recovered(s) IN disk' = d /\ rec' = d.rec /\ order' = d.order
    /\ Gone /\ Left
    /\ UNCHANGED <<view, ahead, prompted, grants>>

Crash ==
    /\ up /\ Event
    /\ Gone /\ Left
    /\ rec' = disk.rec /\ order' = disk.order
    /\ UNCHANGED <<disk, view, ahead, prompted, grants>>

\* the registry aborts a runner and recovers its list
Abort == up /\ Event /\ Ended(disk)

(***************************************************************************)
(* The loop: dispatch.                                                     *)
(***************************************************************************)
\* the oldest queued task
FirstQueued(i) ==
    /\ i \in DOMAIN order /\ rec[order[i]].status = "queued"
    /\ \A j \in 1..(i - 1) : rec[order[j]].status # "queued"

DispatchReady == Loop /\ active = Idle /\ ~stopping /\ connected

DispatchFails ==  \* prepare_task_context refuses
    /\ DispatchReady
    /\ \E i \in DOMAIN order :
        /\ FirstQueued(i)
        /\ Report(Finish(rec, order[i], "failed"), order, active, {order[i]})
    /\ UNCHANGED <<up, step, active, connected, stopping, ended, acp, relay, inbox,
                   events, prompted, grants>>

DispatchSave ==
    /\ DispatchReady
    /\ \E i \in DOMAIN order :
        /\ FirstQueued(i)
        /\ rec' = [rec EXCEPT ![order[i]].status = "working"]
        /\ disk' = [rec |-> rec', order |-> order]
        /\ active' = [Idle EXCEPT !.id = order[i]]
    /\ step' = "prompt"
    /\ UNCHANGED <<order, up, connected, stopping, ended, acp, relay, inbox, events,
                   screen, prompted, grants>>

Dispatch ==
    /\ up /\ step = "prompt"
    /\ step' = "loop"
    /\ turn' = active.id
    /\ prompted' = [prompted EXCEPT ![active.id] = @ + 1]
    /\ Report(rec, order, active, {active.id})
    /\ UNCHANGED <<up, active, connected, stopping, ended, turns, stops, asks, relay,
                   inbox, events, grants>>

DispatchRefused ==  \* the agent's connection has stopped
    /\ up /\ step = "prompt"
    /\ step' = "loop" /\ active' = Idle
    /\ Report(Finish(rec, active.id, "failed"), order, Idle, {active.id})
    /\ UNCHANGED <<up, connected, stopping, ended, acp, relay, inbox, events, prompted,
                   grants>>

(***************************************************************************)
(* The loop: timers and stops.                                             *)
(***************************************************************************)
\* publish_answer: a number in memory only
AnswerFlush ==
    /\ Loop /\ active # Idle /\ Event
    /\ rec' = [rec EXCEPT ![active.id].seq = @ + 1]
    /\ UNCHANGED <<order, disk, up, step, active, connected, stopping, ended, acp,
                   relay, inbox, screen, prompted, grants>>

\* Activity: the task's wording changes and is reported
Activity ==
    /\ Loop /\ turn = active.id /\ active # Idle /\ rec[active.id].status = "working"
    /\ Event
    /\ Report(rec, order, active, {active.id})
    /\ UNCHANGED <<up, step, active, connected, stopping, ended, acp, relay, inbox,
                   prompted, grants>>

\* reconcile: the newest tasks again, under the numbers they have; what is
\* behind them in the list is not shown again
Replayed == {order[i] : i \in {j \in DOMAIN order : j + limit.window > Len(order)}}
FaultyReconcile(r, a) ==  \* the oldest tasks are shown again instead
    Frames(r, a, {order[i] : i \in {j \in DOMAIN order : j <= limit.window}})
Reconcile(r, a) == Frames(r, a, Replayed)

\* the agent did not stop in time: a new agent, the task interrupted
CancelDeadline ==
    /\ Loop /\ active.timed
    /\ turn' = NoTask /\ turns' = 0 /\ stops' = <<>> /\ asks' = {} /\ ended' = 0
    /\ LET r == Numbers(Finish(rec, active.id, "interrupted"), {active.id})
       IN  IF stopping
           THEN /\ Ended([rec |-> r, order |-> order])
                /\ UNCHANGED events
           ELSE /\ rec' = r /\ disk' = [rec |-> r, order |-> order]
                /\ Emit(Frames(r, Idle, {active.id} \cup (IF connected THEN Replayed ELSE {})), r)
                /\ active' = Idle
                /\ UNCHANGED <<order, up, step, connected, stopping, relay, inbox,
                               events, prompted, grants>>

FaultyTimeOut ==  \* the cancellation gets no deadline
    /\ Loop /\ active # Idle
    /\ active.asked = <<>> => ~active.cancelling
    /\ active' = [active EXCEPT !.asked = <<>>, !.cancelling = TRUE]
    /\ disk' = [rec |-> rec, order |-> order]
    /\ UNCHANGED <<rec, order, up, step, connected, stopping, ended, acp, relay, inbox,
                   events, screen, prompted, grants>>

\* the front request or the turn itself ran out of time: the agent is told
\* to cancel, and the requests are refused
TimeOut ==
    /\ Loop /\ active # Idle
    /\ active.asked = <<>> => ~active.cancelling
    /\ active' = [active EXCEPT !.asked = <<>>, !.cancelling = TRUE,
                                !.timed = @ \/ ~active.cancelling]
    /\ disk' = [rec |-> rec, order |-> order]
    /\ UNCHANGED <<rec, order, up, step, connected, stopping, ended, acp, relay, inbox,
                   events, screen, prompted, grants>>

StopRequested ==
    /\ Loop /\ ~stopping /\ Event
    /\ stopping' = TRUE
    /\ active' = IF active = Idle THEN active ELSE [active EXCEPT !.cancelling = TRUE]
    /\ LET r == [t \in Tasks |->
                    IF Unfinished(t) /\ rec[t].status = "queued"
                    THEN Finish(rec, t, "cancelled")[t]
                    ELSE IF t = active.id THEN Finish(rec, t, "interrupted")[t]
                    ELSE rec[t]]
       IN  Report(r, order, active, {t \in Range(order) : rec[t].status \notin Terminal})
    /\ UNCHANGED <<up, step, connected, ended, acp, relay, inbox, prompted, grants>>

Interrupt ==  \* Ctrl-C
    /\ Loop /\ ~stopping /\ Event
    /\ stopping' = TRUE
    /\ active' = IF active = Idle \/ active.cancelling THEN active
                 ELSE [active EXCEPT !.cancelling = TRUE, !.timed = TRUE]
    /\ UNCHANGED <<rec, order, disk, up, step, connected, ended, acp, relay, inbox,
                   screen, prompted, grants>>

\* nothing is active, or three seconds have passed
StopExit ==
    /\ Loop /\ stopping
    /\ LET r == IF active = Idle THEN rec
                ELSE Numbers(Finish(rec, active.id, "interrupted"), {active.id})
       IN  Ended(IF active = Idle THEN disk ELSE [rec |-> r, order |-> order])
    /\ UNCHANGED events

(***************************************************************************)
(* The loop: events from the transport.                                    *)
(***************************************************************************)
Receive(kind) == Loop /\ inbox # <<>> /\ Head(inbox).kind = kind /\ inbox' = Tail(inbox)

Presence ==
    /\ Receive("presence")
    /\ connected' = Head(inbox).browser
    /\ IF Head(inbox).browser /\ ~stopping
       THEN Emit(Reconcile(rec, active), disk.rec) ELSE UNCHANGED screen
    /\ UNCHANGED <<rec, order, disk, up, step, active, stopping, ended, acp, relay,
                   events, prompted, grants>>

Offline ==
    /\ Receive("offline")
    /\ connected' = FALSE
    /\ UNCHANGED <<rec, order, disk, up, step, active, stopping, ended, acp, relay,
                   events, screen, prompted, grants>>

\* the relay refuses this conversation for good
Fatal ==
    /\ Receive("fatal")
    /\ Ended([rec |-> [t \in Tasks |-> Finish(rec, t, "interrupted")[t]],
              order |-> order])
    /\ UNCHANGED events

Message ==
    /\ Receive("message")
    /\ LET t == Head(inbox).task IN
       \/ /\ rec[t].held # "no"     \* ExistingFull, ExistingEvicted
          /\ Emit(Frames(rec, active, {t}), disk.rec)
          /\ UNCHANGED <<rec, order, disk>>
       \/ /\ rec[t].held = "no" /\ AdmitNew
          /\ \/ Len(order) < limit.full /\ Admit(t, 0)
             \/ Len(order) >= limit.full /\ \E i \in DOMAIN order : Oldest(i) /\ Admit(t, i)
       \/ /\ rec[t].held = "no" /\ ~AdmitNew
          /\ Emit([u \in {t} |-> Refusal], disk.rec)
          /\ UNCHANGED <<rec, order, disk>>
    /\ UNCHANGED <<up, step, active, connected, stopping, ended, acp, relay, events,
                   prompted, grants>>

Cancel ==
    /\ Receive("cancel")
    /\ LET t == Head(inbox).task
           mine == active.id = t
       IN  /\ active' = IF mine /\ ~active.cancelling
                        THEN [active EXCEPT !.cancelling = TRUE, !.timed = TRUE]
                        ELSE active
           /\ IF rec[t].held # "full" THEN UNCHANGED <<rec, order, disk, screen>>
              ELSE Report(IF ~mine /\ rec[t].status = "queued"
                          THEN Finish(rec, t, "cancelled") ELSE rec,
                          order, active, {t})
    /\ UNCHANGED <<up, step, connected, stopping, ended, acp, relay, events, prompted,
                   grants>>

\* what was active when a permission was given
Granted(q, auto) == [task |-> q.task, active |-> active.id, auto |-> auto,
                     cancelling |-> active.cancelling]

Input ==
    /\ Receive("input")
    /\ LET e == Head(inbox)
           mine == /\ active.id = e.task /\ active.asked # <<>>
                   /\ Head(active.asked).id = e.request
           a == [active EXCEPT !.asked = Tail(@)]
       IN  IF ~mine THEN UNCHANGED <<rec, order, disk, screen, active, grants>>
           ELSE /\ active' = a
                /\ grants' = IF e.allow THEN grants \cup
                                {Granted(Head(active.asked), FALSE)} ELSE grants
                /\ Report(IF a.asked = <<>> THEN Resume(rec, a.id)
                          ELSE RequireInput(rec, a.id), order, a, {a.id})
    /\ UNCHANGED <<up, step, connected, stopping, ended, acp, relay, events, prompted>>

(***************************************************************************)
(* The loop: events from the agent.                                        *)
(***************************************************************************)
FaultyDecision(q) ==  \* the turn a request belongs to is not looked at
    IF active = Idle \/ active.cancelling THEN "refuse"
    ELSE IF q.auto THEN "allow" ELSE "ask"

\* permission_decision
Decision(q) ==
    IF q.turn # ended \/ active = Idle \/ active.cancelling THEN "refuse"
    ELSE IF q.auto THEN "allow" ELSE "ask"

Permission ==
    /\ Loop
    /\ \E q \in asks :
        /\ asks' = asks \ {q}
        /\ grants' = IF Decision(q) = "allow"
                     THEN grants \cup {Granted(q, TRUE)} ELSE grants
        /\ IF Decision(q) = "ask" /\ Len(active.asked) < MaxPendingInput
           THEN LET a == [active EXCEPT !.asked = Append(@, q)]
                IN  /\ active' = a
                    /\ IF Len(a.asked) = 1
                       THEN Report(RequireInput(rec, a.id), order, a, {a.id})
                       ELSE UNCHANGED <<rec, order, disk, screen>>
           ELSE UNCHANGED <<active, rec, order, disk, screen>>
    /\ UNCHANGED <<up, step, connected, stopping, ended, turn, turns, stops, relay,
                   inbox, events, prompted>>

TurnEnded ==
    /\ Loop /\ stops # <<>>
    /\ stops' = Tail(stops) /\ ended' = ended + 1
    /\ IF active = Idle
       THEN UNCHANGED <<active, turn, rec, order, disk, screen>>
       ELSE /\ active' = Idle
            /\ Report(Finish(rec, active.id, Head(stops)), order, Idle, {active.id})
            /\ UNCHANGED turn
    /\ UNCHANGED <<up, step, connected, stopping, turns, asks, relay, inbox, events,
                   prompted, grants>>

\* the request has a further piece, prompted in a turn of its own
NextSegment ==
    /\ Loop /\ stops # <<>> /\ Head(stops) = "completed"
    /\ active # Idle /\ ~active.cancelling /\ Event
    /\ stops' = Tail(stops) /\ ended' = ended + 1
    /\ active' = [active EXCEPT !.asked = <<>>]
    /\ turn' = active.id
    /\ UNCHANGED <<rec, order, disk, up, step, connected, stopping, turns, asks, relay,
                   inbox, screen, prompted, grants>>

AgentExited ==
    /\ Loop /\ Event
    /\ Ended(IF active = Idle THEN disk
             ELSE [rec |-> Numbers(Finish(rec, active.id, "failed"), {active.id}),
                   order |-> order])

(***************************************************************************)
(* The agent and its connection (an ACP agent, outside the repository).    *)
(***************************************************************************)
AgentAsks ==
    /\ turn # NoTask /\ Event
    /\ \E auto \in BOOLEAN :
        asks' = asks \cup {[id |-> events', turn |-> turns, task |-> turn, auto |-> auto]}
    /\ UNCHANGED <<runner, turn, turns, stops, relay, inbox, screen, prompted, grants>>

AgentStops ==
    /\ turn # NoTask
    /\ turn' = NoTask /\ turns' = turns + 1
    /\ \E outcome \in {"completed", "failed"} \cup
                       IF active.cancelling THEN {"cancelled"} ELSE {} :
        stops' = Append(stops, outcome)
    /\ UNCHANGED <<runner, asks, relay, inbox, events, screen, prompted, grants>>

(***************************************************************************)
(* The relay and the browser.                                              *)
(***************************************************************************)
\* Chat::announce to the runner
Announce(u) == [kind |-> "presence", browser |-> u]
Send(e) == inbox' = Append(inbox, e)

\* retryDeliveries: every submission in doubt is sent again
Forward(ts) == SetToSeqs({[kind |-> "message", task |-> t] : t \in ts \ requests})

AgentAttaches ==
    /\ up /\ ~agent
    /\ agent' = TRUE
    /\ LET doubt == IF user THEN {t \in Tasks : delivery[t] = "uncertain"} ELSE {}
       IN  /\ \E again \in Forward(doubt) : inbox' = Append(inbox, Announce(user)) \o again
           /\ requests' = requests \cup doubt
           /\ delivery' = [t \in Tasks |-> IF t \in doubt THEN "sent" ELSE delivery[t]]
    /\ UNCHANGED <<runner, acp, user, broken, view, ahead, events, prompted, grants>>

\* a socket dies: what is emitted from now on is lost
Breaks ==
    /\ user \/ agent
    /\ ~broken /\ Event
    /\ broken' = TRUE
    /\ UNCHANGED <<runner, acp, user, agent, requests, inbox, screen, prompted, grants>>

FaultyAgentDetaches ==  \* the relay still knows what it forwarded before
    /\ agent /\ broken
    /\ agent' = FALSE /\ broken' = FALSE
    /\ \E n \in 0..Len(inbox) :
        inbox' = Append(SubSeq(inbox, 1, n), [kind |-> "offline"])
    /\ Left
    /\ UNCHANGED <<runner, acp, user, requests, view, ahead, events, prompted, grants>>

\* the runner's socket closes: part of what the relay sent it is lost too
AgentDetaches ==
    /\ agent /\ broken
    /\ agent' = FALSE /\ requests' = {} /\ broken' = FALSE
    /\ \E n \in 0..Len(inbox) :
        inbox' = Append(SubSeq(inbox, 1, n), [kind |-> "offline"])
    /\ Left
    /\ UNCHANGED <<runner, acp, user, view, ahead, events, prompted, grants>>

\* the document is gone or the conversation belongs to another runner
AgentRefused ==
    /\ up /\ ~agent /\ Event
    /\ Send([kind |-> "fatal"])
    /\ UNCHANGED <<runner, acp, relay, screen, prompted, grants>>

UserAttaches ==
    /\ ~user
    /\ user' = TRUE
    /\ LET doubt == IF agent THEN {t \in Tasks : delivery[t] # "none"} ELSE {}
       IN  /\ IF agent THEN \E again \in Forward(doubt) :
                                  inbox' = Append(inbox, Announce(TRUE)) \o again
              ELSE UNCHANGED inbox
           /\ requests' = requests \cup doubt
           /\ delivery' = [t \in Tasks |-> IF t \in doubt THEN "sent" ELSE delivery[t]]
    /\ UNCHANGED <<runner, acp, agent, broken, view, ahead, events, prompted, grants>>

UserDetaches ==
    /\ user /\ broken
    /\ user' = FALSE /\ requests' = {} /\ broken' = FALSE
    /\ inbox' = IF agent THEN Append(inbox, Announce(FALSE)) ELSE inbox
    /\ delivery' = Unsure(delivery)
    /\ UNCHANGED <<runner, acp, agent, view, ahead, events, prompted, grants>>

\* The browser sends a task, or the user sends one again.  A message the
\* relay has forwarded on this connection is acknowledged and goes no
\* further; without an answer in time the browser is in doubt.
Deliver(t) ==
    /\ requests' = requests \cup {t}
    /\ inbox' = IF t \in requests THEN inbox
                ELSE Append(inbox, [kind |-> "message", task |-> t])
Submit(t) ==
    /\ user /\ agent
    /\ \/ delivery[t] = "none" /\ view[t] = Unseen
       \/ delivery[t] = "uncertain"
    /\ Deliver(t)
    /\ delivery' = [delivery EXCEPT ![t] = "sent"]
    /\ UNCHANGED <<runner, acp, user, agent, broken, view, ahead, events, prompted,
                   grants>>

AckLate(t) ==
    /\ user /\ delivery[t] = "sent" /\ Event
    /\ delivery' = [delivery EXCEPT ![t] = "uncertain"]
    /\ UNCHANGED <<runner, acp, relay, inbox, view, ahead, prompted, grants>>

UserCancels(t) ==
    /\ user /\ agent /\ Event
    /\ view[t] # Unseen /\ view[t].status \notin Terminal
    /\ Send([kind |-> "cancel", task |-> t])
    /\ UNCHANGED <<runner, acp, relay, screen, prompted, grants>>

Respond(t) ==
    /\ user /\ agent /\ view[t].input # 0
    /\ \A i \in DOMAIN inbox : inbox[i].kind # "input"    \* bound: one at a time
    /\ \E allow \in BOOLEAN :
        Send([kind |-> "input", task |-> t, request |-> view[t].input, allow |-> allow])
    /\ UNCHANGED <<runner, acp, relay, events, screen, prompted, grants>>

-----------------------------------------------------------------------------
RunnerStep ==
    \/ DispatchFails \/ DispatchSave \/ Dispatch \/ DispatchRefused
    \/ Presence \/ Offline \/ Fatal \/ Message \/ Cancel \/ Input
    \/ Permission \/ TurnEnded \/ NextSegment
    \/ CancelDeadline \/ TimeOut \/ StopExit
Environment ==
    \/ Start \/ Crash \/ Abort \/ AnswerFlush \/ Activity \/ StopRequested \/ Interrupt
    \/ AgentExited \/ AgentAsks \/ AgentStops
    \/ AgentAttaches \/ AgentDetaches \/ AgentRefused \/ UserAttaches \/ UserDetaches
    \/ Breaks
    \/ \E t \in Tasks : Submit(t) \/ AckLate(t) \/ UserCancels(t) \/ Respond(t)

Next == (RunnerStep \/ Environment) /\ UNCHANGED limit

Spec == Init /\ [][Next]_vars

-----------------------------------------------------------------------------
Record == [held : {"no", "full", "evicted"}, status : Status, seq : Nat,
           results : BOOLEAN]
Request == [id : 1..MaxEvents, turn : Nat, task : Tasks, auto : BOOLEAN]

\* Every variable has its type; the task list names exactly its full records.
TypeOK ==
    /\ rec \in [Tasks -> Record] /\ disk.rec \in [Tasks -> Record]
    /\ Range(order) = {t \in Tasks : rec[t].held = "full"}
    /\ Range(disk.order) = {t \in Tasks : disk.rec[t].held = "full"}
    /\ Len(order) <= limit.full
    /\ {up, connected, stopping, user, agent} \subseteq BOOLEAN
    /\ step \in {"loop", "prompt"}
    /\ active.id \in Tasks \cup {NoTask} /\ active.asked \in Seq(Request)
    /\ Len(active.asked) <= MaxPendingInput
    /\ {active.cancelling, active.timed} \subseteq BOOLEAN
    /\ ended \in Nat /\ turns \in Nat /\ turn \in Tasks \cup {NoTask}
    /\ stops \in Seq(Terminal) /\ asks \subseteq Request
    /\ requests \subseteq Tasks /\ events \in 0..MaxEvents
    /\ view \in [Tasks -> [seq : Nat, status : Status, input : 0..MaxEvents]]
    /\ delivery \in [Tasks -> {"none", "sent", "uncertain"}]
    /\ ahead \subseteq Tasks

\* A task is handed to the agent at most once, whatever is sent again, evicted
\* from the list, interrupted by a crash or recovered by a restart: the same
\* request never edits the document twice (task.rs: State::admit, State::load).
DispatchedOnce == \A t \in Tasks : prompted[t] <= 1

\* A permission is given only inside the task whose turn asked for it, and
\* never without the user once the task is being cancelled: a request that
\* reaches the loop after its turn ended authorises nothing in the next task
\* (runtime.rs: permission_decision, the "input" frame and TurnEnded).
GrantsInTurn ==
    \A g \in grants : g.task = g.active /\ (g.auto => ~g.cancelling)

\* When nothing is under way between a runner and a browser that both know of
\* each other, the browser shows each of the newest tasks, the ones reconcile
\* shows again, as the runner has it, the ones a crash interrupted included.
\* A task that 32 newer ones have pushed out of that window is not covered: what
\* the browser misses of it is not told again.  Left out too are the tasks the
\* browser was shown under a number the saved list did not have: publish_answer
\* takes numbers without saving them and reconcile shows them, so after a crash
\* the recovered record may be older than what the browser shows.
ShownAsRecorded ==
    Loop /\ user /\ agent /\ connected /\ ~stopping /\ ~broken /\ inbox = <<>> =>
        \A t \in Replayed \ ahead : view[t].status = rec[t].status

\* A submission the browser takes as sent is on its way to the runner, unless
\* a socket has died and nobody has noticed: no duplicate the relay swallows, and no
\* reconnection, leaves the browser waiting for a task nobody has
\* (hub.rs: deliver and detach; agent-client: retryDeliveries).
NotStranded ==
    \A t \in Tasks : delivery[t] = "sent" =>
        \/ \E i \in DOMAIN inbox : inbox[i].kind = "message" /\ inbox[i].task = t
        \/ broken

\* An outcome once shown never changes: no late, repeated or replayed frame
\* takes a finished task back (frameReceived orders frames by their number).
OutcomeStays ==
    [][\A t \in Tasks : view[t].seq # 0 /\ view[t].status \in Terminal =>
            view'[t].status = view[t].status]_vars

\* A task being cancelled, whoever asked for it first, has a deadline of its
\* own or a stop behind it.  This is about one state, not about progress: it is
\* what the timer needs to end the task although the agent never answers, and
\* without it the task would hold the queue (runtime.rs: the tick branch and the
\* stops).
CancelEnds == active.cancelling => active.timed \/ stopping
=============================================================================
