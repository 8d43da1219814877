--------------------------- MODULE EditorSession ---------------------------
(***************************************************************************)
(* One browser's editing session over its socket: what it sends, what the  *)
(* server answers to each update, and when the browser shows its work as   *)
(* saved.  project-session.js on one side, the doc-open and doc-update     *)
(* arms of socket.rs with Sequencer::ingest on the other.                  *)
(*                                                                         *)
(* A vector is here the number of this browser's edits it covers.  The     *)
(* sequencer behind the socket is reduced to a head, a buffer and a log;   *)
(* module Sequencer has its inside.  An edit adds some units of text, and  *)
(* a batch is as large as the units it carries.                            *)
(***************************************************************************)
EXTENDS Integers, Sequences

CONSTANTS
    MaxEdits,     \* bound: units of text the user types
    MaxFaults,    \* bound: dropped sockets, server losses, refusals
    MaxRefusals,  \* MAX_CONSECUTIVE_REFUSALS
    MaxUpdate,    \* max_update_bytes, in units
    ChunkSize     \* UPDATE_CHUNK_BYTES: a larger update is sent in parts

ASSUME EditorSessionAssumption ==
    /\ MaxEdits \in Nat /\ MaxFaults \in Nat
    /\ MaxRefusals \in Nat \ {0} /\ MaxUpdate \in Nat \ {0} /\ ChunkSize \in Nat \ {0}

VARIABLES
    \* the browser
    edits,      \* the document, and saveTarget: this browser's own edits
    durable,    \* durableCoverage
    seq, unacknowledged, joined,
    timer,      \* pressureTimer is armed
    pressure,   \* pressureVector
    \* the socket
    up, outbox, inbox,
    late,       \* updates of a dropped socket the server has yet to read
    \* the server
    head, buffer, log, refusals,
    fenced,     \* the room the socket reaches has a sequencer that was fenced
    barred,     \* the last edit of a batch refused for good on this socket
    faults

browser == <<edits, durable, seq, unacknowledged, joined, timer, pressure>>
server  == <<head, buffer, log, fenced>>
vars    == <<browser, up, outbox, inbox, late, server, refusals, barred, faults>>

Larger(a, b) == IF a > b THEN a ELSE b
Newest(numbers) == CHOOSE n \in numbers : \A m \in numbers : m <= n

Fault == faults < MaxFaults /\ faults' = faults + 1

FrameOf(type, n) == [type |-> type, n |-> n, saved |-> 0]
Open == [type |-> "open", seq |-> 0, from |-> 0, to |-> 0]
UpdateOf(number, from, to) == [type |-> "update", seq |-> number, from |-> from, to |-> to]

Init ==
    /\ edits = 0 /\ durable = 0
    /\ seq = 0 /\ unacknowledged = {}
    /\ joined = FALSE /\ timer = FALSE /\ pressure = 0
    /\ up = FALSE /\ outbox = <<>> /\ inbox = <<>> /\ late = <<>>
    /\ head = 0 /\ buffer = <<>> /\ log = 0 /\ refusals = 0
    /\ fenced = FALSE /\ barred = 0 /\ faults = 0

-----------------------------------------------------------------------------
(* The browser *)

\* coveredByDurable: what the toolbar shows as saved.
CoveredByDurable == durable >= edits

\* send, of the reader's collaboration and of the room: an update leaves only
\* when the session is joined, and over a socket that is up.
Send(message, member) == outbox' = IF up /\ member THEN Append(outbox, message) ELSE outbox

\* subscribeLocalUpdates: one batch per edit, joined or not.
Edit ==
    \E n \in 1..(MaxEdits - edits) :
        /\ edits' = edits + n
        /\ seq' = seq + 1
        /\ unacknowledged' = unacknowledged \cup {seq + 1}
        /\ Send(UpdateOf(seq + 1, edits, edits + n), joined)
        /\ UNCHANGED <<durable, joined, timer, pressure, up, inbox, late, server, refusals, barred, faults>>

\* catchUp: everything beyond a vector as one batch, an empty one included.
CatchUp(vector, member) ==
    /\ seq' = seq + 1
    /\ unacknowledged' = {seq + 1}
    /\ Send(UpdateOf(seq + 1, vector, edits), member)

\* disconnected: the session waits for the next join; its edits stay with it.
Disconnected ==
    /\ joined' = FALSE /\ timer' = FALSE
    /\ UNCHANGED <<edits, durable, seq, unacknowledged, pressure>>

\* A new socket is open: reconnect starts the session afresh and, the document
\* being the same one, sends doc-open, the first thing on it.
Connect ==
    /\ ~up
    /\ Disconnected
    /\ up' = TRUE
    /\ outbox' = <<Open>> /\ inbox' = <<>> /\ refusals' = 0 /\ barred' = 0
    /\ UNCHANGED <<late, server, faults>>

\* Two seconds without a socket, and the session is told.
Noticed ==
    /\ ~up /\ (joined \/ timer)
    /\ Disconnected
    /\ UNCHANGED <<up, outbox, inbox, late, server, refusals, barred, faults>>

Receive(type) ==
    /\ inbox # <<>> /\ Head(inbox).type = type
    /\ inbox' = Tail(inbox)
    /\ UNCHANGED <<edits, up, late, server, refusals, barred, faults>>

\* Faulty: the catch-up of a join is sent before the session counts as joined.
FaultyReceiveState ==
    /\ Receive("state")
    /\ joined' = TRUE
    /\ durable' = Larger(durable, Head(inbox).saved)
    /\ CatchUp(Head(inbox).n, joined)
    /\ UNCHANGED <<timer, pressure>>

\* start and finishJoin.
ReceiveState ==
    /\ Receive("state")
    /\ joined' = TRUE
    /\ durable' = Larger(durable, Head(inbox).saved)
    /\ CatchUp(Head(inbox).n, TRUE)
    /\ UNCHANGED <<timer, pressure>>

\* Faulty: an acknowledgement of everything sent is read as everything saved.
FaultyAcknowledge ==
    /\ Receive("ack")
    /\ unacknowledged' = {n \in unacknowledged : n > Head(inbox).n}
    /\ durable' = IF unacknowledged' = {} THEN edits ELSE durable
    /\ UNCHANGED <<seq, joined, timer, pressure, outbox>>

\* Faulty: an acknowledgement cancels the armed retry.
FaultyPressureEased ==
    /\ Receive("ack")
    /\ unacknowledged' = {n \in unacknowledged : n > Head(inbox).n}
    /\ timer' = FALSE
    /\ UNCHANGED <<durable, seq, joined, pressure, outbox>>

\* acknowledge: transmission bookkeeping, and nothing about saving.
Acknowledge ==
    /\ Receive("ack")
    /\ unacknowledged' = {n \in unacknowledged : n > Head(inbox).n}
    /\ UNCHANGED <<durable, seq, joined, timer, pressure, outbox>>

\* doc-durable: coverage never moves back; full coverage ends a retry.
Durable ==
    /\ Receive("durable")
    /\ durable' = Larger(durable, Head(inbox).n)
    /\ IF durable' >= edits THEN timer' = FALSE /\ pressure' = 0
       ELSE UNCHANGED <<timer, pressure>>
    /\ UNCHANGED <<seq, unacknowledged, joined, outbox>>

Gap ==
    /\ Receive("gap")
    /\ CatchUp(Head(inbox).n, joined)
    /\ UNCHANGED <<durable, joined, timer, pressure>>

\* retryAfterPressure: one retry outstanding, from the newest head named.
Pressure ==
    /\ Receive("error")
    /\ pressure' = Head(inbox).n
    /\ timer' = TRUE
    /\ UNCHANGED <<durable, seq, unacknowledged, joined, outbox>>

\* An error without a vector: the user is shown it, and nothing is sent again.
Refusal ==
    /\ Receive("refused")
    /\ UNCHANGED <<durable, seq, unacknowledged, joined, timer, pressure, outbox>>

\* The edits that are due go out with the retry, unless the session is not
\* joined; over a socket that has gone they go nowhere.
TimerFires ==
    /\ timer
    /\ timer' = FALSE
    /\ IF joined /\ ~CoveredByDurable THEN CatchUp(Larger(pressure, durable), joined)
       ELSE UNCHANGED <<seq, unacknowledged, outbox>>
    /\ UNCHANGED <<edits, durable, joined, pressure, up, inbox, late, server, refusals, barred, faults>>

\* The socket goes.  The session is not told yet: Noticed and Connect do that.
SocketGone ==
    /\ up' = FALSE /\ outbox' = <<>> /\ inbox' = <<>>
    /\ UNCHANGED browser

\* The doc-open is yet to be read; it is the first message of its socket.
Opening == outbox # <<>> /\ Head(outbox).type = "open"

\* What a gone socket has buffered is acknowledged to nobody.
Disown == buffer' = [i \in DOMAIN buffer |-> [buffer[i] EXCEPT !.current = FALSE]]

\* The server may still read some of what was sent.
Drop ==
    /\ up /\ Fault
    /\ SocketGone /\ Disown
    /\ \E n \in 0..Len(outbox) :
         late' = SubSeq(outbox, IF Opening THEN 2 ELSE 1, n)
    /\ UNCHANGED <<head, log, fenced, refusals, barred>>

-----------------------------------------------------------------------------
(* The server *)

\* The sequencer goes (crash, fence, takeover): what was buffered is lost, and
\* the next one starts from the log.  After a fence the process may still hold
\* the fenced one, and refuses what comes through the socket it closes.
Lose ==
    /\ Fault
    /\ SocketGone
    /\ late' = <<>> /\ buffer' = <<>> /\ head' = log
    /\ fenced' \in BOOLEAN
    /\ UNCHANGED <<log, refusals, barred>>

\* retire_fenced and the sweep of the rooms, or the end of the process.
LetGo ==
    /\ fenced
    /\ fenced' = FALSE
    /\ UNCHANGED <<browser, up, outbox, inbox, late, head, buffer, log, refusals, barred, faults>>

Reads(type) ==
    /\ outbox # <<>> /\ Head(outbox).type = type
    /\ outbox' = Tail(outbox)
    /\ UNCHANGED <<browser, up, late>>

Answer(frame) == inbox' = Append(inbox, frame)

\* The server closes the socket and reads no more of it.
Close == SocketGone /\ Disown /\ late' = <<>>

\* join: the head to catch up from and the vector already durable.
DocOpen ==
    /\ Reads("open") /\ ~fenced
    /\ Answer([type |-> "state", n |-> head, saved |-> log])
    /\ UNCHANGED <<server, refusals, barred, faults>>

\* join on a fenced sequencer: not writable, and the socket is closed.
DocOpenFenced ==
    /\ Opening /\ fenced
    /\ Close
    /\ UNCHANGED <<head, log, fenced, refusals, barred, faults>>

Size(update) == update.to - update.from
Empty(update) == update.from >= update.to
TooLarge(update) == Size(update) > MaxUpdate

\* The next message is an update that is not too large and carries changes.
Carries == outbox # <<>> /\ Head(outbox).type = "update" /\ ~Empty(Head(outbox)) /\ ~TooLarge(Head(outbox))

\* UpdateAssembly: an update in parts over the ceiling closes the socket.
IngestTooLong ==
    /\ outbox # <<>> /\ Head(outbox).type = "update"
    /\ TooLarge(Head(outbox)) /\ Size(Head(outbox)) > ChunkSize
    /\ Fault
    /\ Close
    /\ UNCHANGED <<head, log, fenced, refusals, barred>>

\* A refusal that counts, answered; the socket is closed at the limit.
Refuse(frame) ==
    /\ refusals' = refusals + 1
    /\ IF refusals + 1 < MaxRefusals
       THEN Reads("update") /\ Answer(frame) /\ UNCHANGED buffer
       ELSE Close
    /\ UNCHANGED <<head, log, fenced>>

\* Ingested::Refused: over the limit in one frame.  No vector to retry from.
IngestRefused ==
    /\ outbox # <<>> /\ Head(outbox).type = "update"
    /\ TooLarge(Head(outbox)) /\ Size(Head(outbox)) <= ChunkSize
    /\ Refuse(FrameOf("refused", Head(outbox).seq))
    /\ barred' = Larger(barred, Head(outbox).to)
    /\ UNCHANGED faults

\* A batch with no changes is acknowledged at once, whatever is buffered.
IngestEmpty ==
    /\ Reads("update") /\ Empty(Head(outbox))
    /\ Answer(FrameOf("ack", Head(outbox).seq))
    /\ refusals' = 0
    /\ UNCHANGED <<server, barred, faults>>

\* document_buffer, pending_budget: back pressure, not counted.
IngestPressure ==
    /\ Carries /\ Reads("update")
    /\ Fault
    /\ Answer(FrameOf("error", head))
    /\ UNCHANGED <<server, refusals, barred>>

\* rate, log_quota, storage_quota: to be retried, and counted.
IngestLimited ==
    /\ Carries
    /\ Fault
    /\ Refuse(FrameOf("error", head))
    /\ UNCHANGED barred

IngestGap ==
    /\ Carries /\ Reads("update") /\ Head(outbox).from > head
    /\ Answer(FrameOf("gap", head))
    /\ UNCHANGED <<server, refusals, barred, faults>>

Append1(update, current) ==
    /\ head' = Larger(head, update.to)
    /\ buffer' = Append(buffer, [seq |-> update.seq, to |-> update.to, current |-> current])

IngestAccept ==
    /\ Carries /\ Reads("update") /\ Head(outbox).from <= head
    /\ Append1(Head(outbox), TRUE)
    /\ refusals' = 0
    /\ UNCHANGED <<inbox, log, fenced, barred, faults>>

\* An update read from a socket its browser has already left: placed or
\* dropped, and nobody is answered.
IngestLate ==
    /\ late # <<>>
    /\ late' = Tail(late)
    /\ IF ~Empty(Head(late)) /\ ~TooLarge(Head(late)) /\ Head(late).from <= head
       THEN Append1(Head(late), FALSE)
       ELSE UNCHANGED <<head, buffer>>
    /\ UNCHANGED <<browser, up, outbox, inbox, log, fenced, refusals, barred, faults>>

\* ack_targets: the highest number among this socket's batches of the row.
AckTargets ==
    LET numbers == {buffer[i].seq : i \in {j \in DOMAIN buffer : buffer[j].current}}
    IN  IF numbers = {} THEN <<>>
        ELSE <<FrameOf("ack", Newest(numbers))>>

\* The socket hears of it only once its doc-open has been answered.
Subscribed == up /\ ~Opening

\* flush: one row of the whole buffer, then acknowledge and notify_durable.
Flush ==
    /\ buffer # <<>>
    /\ log' = Newest({log} \cup {buffer[i].to : i \in DOMAIN buffer})
    /\ buffer' = <<>>
    /\ inbox' = IF Subscribed THEN inbox \o AckTargets \o <<FrameOf("durable", log')>> ELSE inbox
    /\ UNCHANGED <<browser, up, outbox, late, head, fenced, refusals, barred, faults>>

-----------------------------------------------------------------------------
Browser ==
    \/ ReceiveState \/ Acknowledge \/ Durable \/ Gap \/ Pressure \/ Refusal

Join == DocOpen \/ DocOpenFenced

Ingest ==
    \/ IngestTooLong \/ IngestRefused
    \/ IngestEmpty \/ IngestPressure \/ IngestLimited \/ IngestGap \/ IngestAccept

Next ==
    \/ Edit \/ Connect \/ Noticed \/ Browser \/ TimerFires \/ Drop
    \/ Lose \/ LetGo \/ Join \/ Ingest \/ IngestLate \/ Flush

\* The event loops on both sides keep running, the flush timer ticks, the retry
\* timer fires, and room.js reconnects with backoff.  Nothing makes a process
\* let go of a fenced sequencer: module Residency shows that it need not.
Fairness ==
    /\ WF_vars(Connect) /\ WF_vars(Browser) /\ WF_vars(TimerFires)
    /\ WF_vars(Join) /\ WF_vars(Ingest) /\ WF_vars(Flush)

Spec == Init /\ [][Next]_vars /\ Fairness

-----------------------------------------------------------------------------
\* The toolbar says saved only when every edit is in a committed row, across
\* acknowledgements of empty batches, lost buffers, late updates and rejoins.
SavedIsStored == CoveredByDurable => log >= edits

\* Nothing the user typed is forgotten in silence: while the session is joined
\* over a live socket and quiet (no frame under way, no retry armed, nothing
\* buffered) all of it is stored, unless the server has told this socket that
\* a batch up to the last edit is refused for good.  It is what makes discarding
\* back-pressured and gapped batches safe.
QuietIsSaved ==
    joined /\ up /\ outbox = <<>> /\ inbox = <<>> /\ ~timer /\ buffer = <<>>
        => log >= edits \/ barred >= edits

\* No batch under way is larger than the server accepts.
Fits == \A i \in DOMAIN outbox : ~TooLarge(outbox[i])

\* Every edit is eventually shown as saved, though the user types nothing more:
\* a discarded batch is resent by the retry or by the next join alone.  Two
\* things are asked of the rest of the system: the process keeps letting go of
\* a sequencer it has fenced, and no batch is over the size limit.
EditsEventuallySaved ==
    []<>~fenced /\ []Fits => \A n \in 1..MaxEdits : edits >= n ~> durable >= n

=============================================================================
