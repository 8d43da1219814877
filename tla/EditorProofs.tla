---------------------------- MODULE EditorProofs ----------------------------
(***************************************************************************)
(* Proofs about the editing session, for any number of edits, faults and   *)
(* refusals, and for any size limits: saved means stored, and a quiet       *)
(* session has saved everything that was not refused for good.             *)
(***************************************************************************)
EXTENDS EditorSession, SequenceTheorems, WellFoundedInduction, TLAPS

-----------------------------------------------------------------------------
(* The inductive invariant *)

Message == [type : {"open", "update"}, seq : Nat, from : Nat, to : Nat]
Frame   == [type : {"state", "ack", "durable", "gap", "error", "refused"}, n : Nat, saved : Nat]
Batch   == [seq : Nat, to : Nat, current : BOOLEAN]

TypeOK ==
    /\ edits \in Nat /\ durable \in Nat /\ seq \in Nat /\ pressure \in Nat
    /\ joined \in BOOLEAN /\ timer \in BOOLEAN /\ up \in BOOLEAN
    /\ outbox \in Seq(Message) /\ inbox \in Seq(Frame) /\ late \in Seq(Message)
    /\ head \in Nat /\ log \in Nat /\ buffer \in Seq(Batch)
    /\ barred \in Nat

\* No number is used before the browser has counted that far.
Numbered ==
    /\ \A m \in Range(outbox) \cup Range(late) : m.seq <= seq
    /\ \A b \in Range(buffer) : b.seq <= seq

\* The head is what the log and the buffer reach together.
HeadReached ==
    /\ log <= head
    /\ \A b \in Range(buffer) : b.to <= head
    /\ head = log \/ \E b \in Range(buffer) : b.to = head

\* Every frame under way names a head or a log that was there, and both still
\* reach as far: the head falls only when the socket goes with it.
Frames ==
    \A f \in Range(inbox) :
        /\ f.type \in {"state", "gap", "error"} => f.n <= head
        /\ f.type = "durable" => f.n <= log
        /\ f.saved <= log

\* An update that carries nothing starts from a head that was named.
Updates == \A m \in Range(outbox) : m.type = "update" => m.from <= head \/ m.from < m.to

\* The browser: what it knows to be durable is; a retry of this socket starts
\* from a head that was named; and before the join nothing is said but the
\* doc-open and its answer.
Browsed ==
    /\ durable <= log
    /\ up /\ timer => pressure <= head
    /\ ~up => outbox = <<>> /\ inbox = <<>>
    /\ up /\ ~joined =>
         /\ \A m \in Range(outbox) : m.type # "update"
         /\ \A f \in Range(inbox) : f.type \notin {"gap", "error"}

\* The last edit is at the head, or is still on its way to it, or the browser
\* is about to learn that it has to send it again, or has been refused it.
Pursued ==
    joined /\ up =>
        \/ timer
        \/ barred >= edits
        \/ \E f \in Range(inbox) : f.type \in {"gap", "error"}
        \/ head >= edits
        \/ \E m \in Range(outbox) : m.type = "update" /\ m.to = edits

IInv ==
    /\ TypeOK /\ Numbered /\ HeadReached /\ Frames /\ Updates /\ Browsed /\ Pursued

-----------------------------------------------------------------------------
(* Queues *)

\* Taking the first message leaves the others.
LEMMA Popped ==
    ASSUME NEW S, NEW q \in Seq(S), q # <<>>
    PROVE  /\ Head(q) \in S /\ Tail(q) \in Seq(S)
           /\ Range(q) = {Head(q)} \cup Range(Tail(q))
  <1>1. /\ Head(q) \in S /\ Tail(q) \in Seq(S) /\ Len(Tail(q)) = Len(q) - 1 /\ Len(q) \in Nat \ {0}
        /\ Head(q) = q[1] /\ \A i \in 1..Len(Tail(q)) : Tail(q)[i] = q[i + 1]
    OBVIOUS
  <1>2. Range(q) = {q[i] : i \in 1..Len(q)} /\ Range(Tail(q)) = {Tail(q)[i] : i \in 1..Len(Tail(q))}
    <2>1. Range(q) = {q[i] : i \in 1..Len(q)}
      BY RangeEquality
    <2>2. Tail(q) \in Seq(S)
      BY <1>1
    <2>3. Range(Tail(q)) = {Tail(q)[i] : i \in 1..Len(Tail(q))}
      BY <2>2, RangeEquality
    <2>. QED
      BY <2>1, <2>3
  <1>3. \A i \in 1..Len(q) : q[i] = Head(q) \/ (i - 1 \in 1..Len(Tail(q)) /\ q[i] = Tail(q)[i - 1])
    BY <1>1
  <1>4. Range(q) \subseteq {Head(q)} \cup Range(Tail(q))
    BY <1>2, <1>3
  <1>5. \A i \in 1..Len(Tail(q)) : i + 1 \in 1..Len(q) /\ Tail(q)[i] = q[i + 1]
    BY <1>1
  <1>6. {Head(q)} \cup Range(Tail(q)) \subseteq Range(q)
    BY <1>1, <1>2, <1>5
  <1>. QED
    BY <1>1, <1>4, <1>6

\* Sending adds one message.
LEMMA Pushed ==
    ASSUME NEW S, NEW q \in Seq(S), NEW x \in S
    PROVE  Append(q, x) \in Seq(S) /\ Range(Append(q, x)) = Range(q) \cup {x}
  <1>1. /\ Append(q, x) \in Seq(S) /\ Len(Append(q, x)) = Len(q) + 1 /\ Len(q) \in Nat
        /\ \A i \in 1..Len(q) : Append(q, x)[i] = q[i]
        /\ Append(q, x)[Len(q) + 1] = x
    OBVIOUS
  <1>2. /\ Range(q) = {q[i] : i \in 1..Len(q)}
        /\ Range(Append(q, x)) = {Append(q, x)[i] : i \in 1..(Len(q) + 1)}
    BY <1>1, RangeEquality
  <1>3. 1..(Len(q) + 1) = 1..Len(q) \cup {Len(q) + 1}
    BY <1>1
  <1>. QED
    BY <1>1, <1>2, <1>3

\* A queue without messages.
LEMMA NothingQueued ==
    ASSUME NEW S
    PROVE  <<>> \in Seq(S) /\ Range(<<>>) = {}
  <1>1. <<>> \in Seq(S) /\ Len(<<>>) = 0
    OBVIOUS
  <1>2. Range(<<>>) = {<<>>[i] : i \in 1..0}
    BY <1>1, RangeEquality
  <1>. QED
    BY <1>1, <1>2

\* A queue of one.
LEMMA OneQueued ==
    ASSUME NEW S, NEW x \in S
    PROVE  <<x>> \in Seq(S) /\ Range(<<x>>) = {x}
  <1>1. <<x>> \in Seq(S) /\ Len(<<x>>) = 1 /\ <<x>>[1] = x
    OBVIOUS
  <1>2. Range(<<x>>) = {<<x>>[i] : i \in 1..Len(<<x>>)}
    BY <1>1, RangeEquality
  <1>3. 1..Len(<<x>>) = {1}
    BY <1>1
  <1>. QED
    BY <1>1, <1>2, <1>3

\* A part of a queue.
LEMMA Clipped ==
    ASSUME NEW S, NEW q \in Seq(S), NEW m \in {1, 2}, NEW n \in 0..Len(q)
    PROVE  SubSeq(q, m, n) \in Seq(S) /\ Range(SubSeq(q, m, n)) \subseteq Range(q)
  <1> DEFINE c == SubSeq(q, m, n)
  <1>1. Len(q) \in Nat /\ m \in Int /\ n \in Int /\ \A i \in m..n : q[i] \in S
    OBVIOUS
  <1>2. /\ c \in Seq(S) /\ Len(c) = (IF m <= n THEN n - m + 1 ELSE 0)
        /\ \A i \in 1..(n - m + 1) : c[i] = q[m + i - 1]
    BY <1>1, SubSeqProperties
  <1>. HIDE DEF c
  <1>3. \A i \in 1..Len(c) : m + i - 1 \in 1..Len(q) /\ c[i] = q[m + i - 1]
    BY <1>1, <1>2
  <1>4. Range(c) = {c[i] : i \in 1..Len(c)} /\ Range(q) = {q[i] : i \in 1..Len(q)}
    BY <1>2, RangeEquality
  <1>. QED
    BY <1>2, <1>3, <1>4 DEF c

\* A non-empty set of naturals has a least element,
LEMMA LeastNatural ==
    ASSUME NEW T \in SUBSET Nat, T # {}
    PROVE  \E x \in T : \A y \in T : x <= y
  <1>1. PICK R : R = OpToRel(<, Nat)
    OBVIOUS
  <1>2. IsWellFoundedOn(R, Nat)
    BY <1>1, NatLessThanWellFounded
  <1>3. \A x, y \in Nat : y < x => <<y, x>> \in R
    BY <1>1 DEF OpToRel
  <1>4. PICK x \in T : \A y \in T : ~ (<<y, x>> \in R)
    BY <1>2, WFMin
  <1>5. \A y \in T : ~ (y < x)
    BY <1>3, <1>4
  <1>. QED
    BY <1>5

\* and a greatest one when it is bounded: Newest is what its name says.
LEMMA NewestIs ==
    ASSUME NEW S \in SUBSET Nat, S # {}, NEW b \in Nat, \A n \in S : n <= b
    PROVE  Newest(S) \in S /\ \A n \in S : n <= Newest(S)
  <1> DEFINE T == {b - n : n \in S}
  <1>1. \A n \in S : n \in Nat /\ b - n \in Nat /\ b - n \in T
    OBVIOUS
  <1>2. T \in SUBSET Nat /\ T # {}
    BY <1>1
  <1>3. PICK x \in T : \A y \in T : x <= y
    BY <1>2, LeastNatural
  <1>4. PICK m \in S : x = b - m
    BY <1>3
  <1>5. \A n \in S : b - m <= b - n
    BY <1>1, <1>3, <1>4
  <1>6. \A n \in S : n <= m
    BY <1>1, <1>5
  <1>. QED
    BY <1>6 DEF Newest

-----------------------------------------------------------------------------
(* The actions *)

\* What travels and what is buffered, message by message.
LEMMA Travelling ==
    ASSUME TypeOK
    PROVE  /\ \A m \in Range(outbox) \cup Range(late) : m \in Message /\ m.seq \in Nat /\ m.from \in Nat /\ m.to \in Nat
           /\ \A f \in Range(inbox) : f \in Frame /\ f.n \in Nat /\ f.saved \in Nat
           /\ \A b \in Range(buffer) : b \in Batch /\ b.seq \in Nat /\ b.to \in Nat
  <1>1. Range(outbox) \in SUBSET Message
    BY RangeOfSeq DEF TypeOK
  <1>2. Range(late) \in SUBSET Message
    BY RangeOfSeq DEF TypeOK
  <1>3. Range(inbox) \in SUBSET Frame
    BY RangeOfSeq DEF TypeOK
  <1>4. Range(buffer) \in SUBSET Batch
    BY RangeOfSeq DEF TypeOK
  <1>. QED
    BY <1>1, <1>2, <1>3, <1>4 DEF Message, Frame, Batch

\* A message put on the outbox of a joined session with its socket up is there.
LEMMA Sent ==
    ASSUME outbox \in Seq(Message), NEW m \in Message, NEW member, Send(m, member)
    PROVE  /\ outbox' \in Seq(Message)
           /\ Range(outbox') \subseteq Range(outbox) \cup {m}
           /\ Range(outbox) \subseteq Range(outbox')
           /\ up /\ member => m \in Range(outbox')
           /\ ~(up /\ member) => outbox' = outbox
  <1>1. CASE up /\ member
    <2>1. outbox' = Append(outbox, m)
      BY <1>1 DEF Send
    <2>2. outbox' \in Seq(Message) /\ Range(outbox') = Range(outbox) \cup {m}
      BY <2>1, Pushed
    <2>. QED
      BY <1>1, <2>2
  <1>2. CASE ~(up /\ member)
    BY <1>2 DEF Send
  <1>. QED
    BY <1>1, <1>2

\* What catching up from a named vector puts on the outbox.
LEMMA CaughtUp ==
    ASSUME IInv, NEW vector \in Nat, NEW member, CatchUp(vector, member), up => vector <= head
    PROVE  /\ outbox' \in Seq(Message)
           /\ \A m \in Range(outbox') : m.seq <= seq'
           /\ \A m \in Range(outbox') : m.type = "update" => m.from <= head \/ m.from < m.to
           /\ up /\ member => \E m \in Range(outbox') : m.type = "update" /\ m.to = edits
           /\ ~(up /\ member) => outbox' = outbox
           /\ seq' \in Nat /\ seq <= seq'
  <1> DEFINE m == UpdateOf(seq + 1, vector, edits)
  <1>1. seq \in Nat /\ edits \in Nat /\ head \in Nat /\ outbox \in Seq(Message)
    BY DEF IInv, TypeOK
  <1>2. m \in Message /\ m.seq = seq + 1 /\ m.from = vector /\ m.to = edits /\ m.type = "update"
    BY <1>1 DEF UpdateOf, Message
  <1>3. Send(m, member) /\ seq' = seq + 1
    BY DEF CatchUp
  <1>. HIDE DEF m
  <1>4. /\ outbox' \in Seq(Message) /\ Range(outbox') \subseteq Range(outbox) \cup {m}
        /\ up /\ member => m \in Range(outbox')
        /\ ~(up /\ member) => outbox' = outbox
    BY <1>1, <1>2, <1>3, Sent
  <1>5. \A x \in Range(outbox) : x.seq \in Nat /\ x.seq <= seq
    BY Travelling DEF IInv, Numbered
  <1>6. \A x \in Range(outbox') : x.seq <= seq'
    BY <1>1, <1>2, <1>3, <1>4, <1>5
  <1>7. \A x \in Range(outbox') : x.type = "update" => x.from <= head \/ x.from < x.to
    BY <1>2, <1>4 DEF IInv, Updates
  <1>. QED
    BY <1>1, <1>2, <1>3, <1>4, <1>6, <1>7

\* A frame the browser takes off its inbox.
LEMMA Received ==
    ASSUME IInv, NEW type, Receive(type)
    PROVE  /\ inbox' \in Seq(Frame) /\ Range(inbox') \subseteq Range(inbox)
           /\ Range(inbox) \subseteq Range(inbox') \cup {Head(inbox)}
           /\ Head(inbox) \in Range(inbox) /\ Head(inbox) \in Frame /\ Head(inbox).type = type
           /\ up
           /\ UNCHANGED <<edits, up, late, head, buffer, log, barred>>
  <1>1. inbox # <<>> /\ inbox \in Seq(Frame) /\ inbox' = Tail(inbox) /\ Head(inbox).type = type
    BY DEF Receive, IInv, TypeOK
  <1>2. up
    BY <1>1 DEF IInv, Browsed
  <1>3. Head(inbox) \in Frame /\ Tail(inbox) \in Seq(Frame)
        /\ Range(inbox) = {Head(inbox)} \cup Range(Tail(inbox))
    BY <1>1, Popped
  <1>. QED
    BY <1>1, <1>2, <1>3 DEF Receive, server

\* A message the server takes off the socket.
LEMMA WasRead ==
    ASSUME IInv, NEW type, Reads(type)
    PROVE  /\ outbox' \in Seq(Message) /\ Range(outbox') \subseteq Range(outbox)
           /\ Range(outbox) \subseteq Range(outbox') \cup {Head(outbox)}
           /\ Head(outbox) \in Range(outbox) /\ Head(outbox) \in Message /\ Head(outbox).type = type
           /\ up
           /\ UNCHANGED <<edits, durable, seq, joined, timer, pressure, up, late>>
           /\ type = "update" => joined
  <1>1. outbox # <<>> /\ outbox \in Seq(Message) /\ outbox' = Tail(outbox) /\ Head(outbox).type = type
    BY DEF Reads, IInv, TypeOK
  <1>2. up
    BY <1>1 DEF IInv, Browsed
  <1>3. Head(outbox) \in Message /\ Tail(outbox) \in Seq(Message)
        /\ Range(outbox) = {Head(outbox)} \cup Range(Tail(outbox))
    BY <1>1, Popped
  <1>4. type = "update" => joined
    BY <1>1, <1>2, <1>3 DEF IInv, Browsed
  <1>. QED
    BY <1>1, <1>2, <1>3, <1>4 DEF Reads, browser

\* The browser's side of the invariant, for a step that leaves the server alone.
LEMMA BrowserSteps ==
    ASSUME IInv, ReceiveState \/ Acknowledge \/ Durable \/ Gap \/ Pressure \/ Refusal
    PROVE  IInv'
  <1> DEFINE f == Head(inbox)
  <1>1. PICK type \in {"state", "ack", "durable", "gap", "error", "refused"} : Receive(type)
    BY DEF ReceiveState, Acknowledge, Durable, Gap, Pressure, Refusal
  <1>2. /\ inbox' \in Seq(Frame) /\ Range(inbox') \subseteq Range(inbox)
        /\ Range(inbox) \subseteq Range(inbox') \cup {f}
        /\ f \in Range(inbox) /\ f \in Frame
        /\ up
        /\ UNCHANGED <<edits, up, late, head, buffer, log, barred>>
    BY <1>1, Received
  <1>3. /\ f.n \in Nat /\ f.saved \in Nat
        /\ f.type \in {"state", "gap", "error"} => f.n <= head
        /\ f.type = "durable" => f.n <= log
        /\ f.saved <= log
        /\ f.type \in {"gap", "error"} => joined
    BY <1>2 DEF IInv, Frames, Frame, Browsed
  <1>. HIDE DEF f
  <1>4. HeadReached'
    BY <1>2 DEF IInv, HeadReached
  <1>5. Frames'
    BY <1>2 DEF IInv, Frames
  <1>6. /\ edits \in Nat /\ durable \in Nat /\ seq \in Nat /\ pressure \in Nat /\ head \in Nat
        /\ log \in Nat /\ joined \in BOOLEAN /\ timer \in BOOLEAN /\ outbox \in Seq(Message)
        /\ durable <= log /\ log <= head
    BY DEF IInv, TypeOK, Browsed, HeadReached
  <1>7. ASSUME outbox' = outbox, seq' = seq, durable' \in Nat, pressure' \in Nat, timer' \in BOOLEAN,
               joined' = joined, durable' <= log, timer' => pressure' <= head, Pursued'
        PROVE  IInv'
    <2>1. TypeOK'
      BY <1>2, <1>7 DEF IInv, TypeOK
    <2>2. Numbered' /\ Updates'
      BY <1>2, <1>7 DEF IInv, Numbered, Updates
    <2>3. Browsed'
      BY <1>2, <1>7 DEF IInv, Browsed
    <2>. QED
      BY <1>4, <1>5, <1>7, <2>1, <2>2, <2>3 DEF IInv
  <1>8. ASSUME NEW vector \in Nat, vector <= head, CatchUp(vector, TRUE), durable' \in Nat, durable' <= log,
               joined' = TRUE, UNCHANGED <<timer, pressure>>
        PROVE  IInv'
    <2>1. /\ outbox' \in Seq(Message)
          /\ \A m \in Range(outbox') : m.seq <= seq'
          /\ \A m \in Range(outbox') : m.type = "update" => m.from <= head \/ m.from < m.to
          /\ \E m \in Range(outbox') : m.type = "update" /\ m.to = edits
          /\ seq' \in Nat /\ seq <= seq'
      BY <1>2, <1>8, CaughtUp
    <2>2. TypeOK'
      BY <1>2, <1>8, <2>1 DEF IInv, TypeOK
    <2>3. Numbered'
      <3>1. \A m \in Range(late) : m.seq \in Nat /\ m.seq <= seq
        BY Travelling DEF IInv, Numbered
      <3>2. \A b \in Range(buffer) : b.seq \in Nat /\ b.seq <= seq
        BY Travelling DEF IInv, Numbered
      <3>3. \A m \in Range(late) : m.seq <= seq'
        BY <1>6, <2>1, <3>1
      <3>4. \A b \in Range(buffer) : b.seq <= seq'
        BY <1>6, <2>1, <3>2
      <3>. QED
        BY <1>2, <2>1, <3>3, <3>4 DEF Numbered
    <2>4. Updates'
      BY <1>2, <2>1 DEF Updates
    <2>5. Browsed'
      BY <1>2, <1>8 DEF IInv, Browsed
    <2>6. Pursued'
      BY <1>2, <2>1 DEF Pursued
    <2>. QED
      BY <1>4, <1>5, <2>2, <2>3, <2>4, <2>5, <2>6 DEF IInv
  <1>9. CASE ReceiveState
    BY <1>3, <1>6, <1>8, <1>9 DEF ReceiveState, Receive, Larger, f
  <1>10. CASE Gap
    <2>1. f.type = "gap" /\ CatchUp(f.n, joined) /\ UNCHANGED <<durable, joined, timer, pressure>>
      BY <1>10 DEF Gap, Receive, f
    <2>2. joined = TRUE
      BY <1>3, <1>6, <2>1
    <2>. QED
      BY <1>3, <1>6, <1>8, <2>1, <2>2
  <1>11. CASE Acknowledge \/ Refusal
    <2>1. f.type \in {"ack", "refused"} /\ UNCHANGED <<outbox, seq, durable, pressure, timer, joined>>
      BY <1>11 DEF Acknowledge, Refusal, Receive, f
    <2>2. Pursued'
      BY <1>2, <2>1 DEF IInv, Pursued
    <2>. QED
      BY <1>2, <1>6, <1>7, <2>1, <2>2 DEF IInv, Browsed
  <1>12. CASE Pressure
    <2>1. f.type = "error" /\ timer' = TRUE /\ pressure' = f.n /\ UNCHANGED <<outbox, seq, durable, joined>>
      BY <1>12 DEF Pressure, Receive, f
    <2>2. Pursued'
      BY <2>1 DEF Pursued
    <2>. QED
      BY <1>3, <1>6, <1>7, <2>1, <2>2
  <1>13. CASE Durable
    <2>1. /\ f.type = "durable" /\ durable' = Larger(durable, f.n)
          /\ UNCHANGED <<outbox, seq, joined>>
          /\ \/ durable' >= edits /\ timer' = FALSE /\ pressure' = 0
             \/ UNCHANGED <<timer, pressure>>
      BY <1>13 DEF Durable, Receive, f
    <2>2. durable' \in Nat /\ durable' <= log
      BY <1>3, <1>6, <2>1 DEF Larger
    <2>3. CASE durable' >= edits /\ timer' = FALSE /\ pressure' = 0
      <3>1. head >= edits
        BY <1>6, <2>2, <2>3
      <3>2. Pursued'
        BY <1>2, <3>1 DEF Pursued
      <3>. QED
        BY <1>6, <1>7, <2>1, <2>2, <2>3, <3>2
    <2>4. CASE UNCHANGED <<timer, pressure>>
      <3>1. Pursued'
        BY <1>2, <2>1, <2>4 DEF IInv, Pursued
      <3>. QED
        BY <1>2, <1>6, <1>7, <2>1, <2>2, <2>4, <3>1 DEF IInv, Browsed
    <2>. QED
      BY <2>1, <2>3, <2>4
  <1>. QED
    BY <1>9, <1>10, <1>11, <1>12, <1>13

\* The user types.
LEMMA EditSteps ==
    ASSUME IInv, Edit
    PROVE  IInv'
  <1>0. PICK n \in 1..(MaxEdits - edits) :
          /\ edits' = edits + n /\ seq' = seq + 1
          /\ Send(UpdateOf(seq + 1, edits, edits + n), joined)
          /\ UNCHANGED <<durable, joined, timer, pressure, up, inbox, late, head, buffer, log, barred>>
    BY DEF Edit, server
  <1> DEFINE m == UpdateOf(seq + 1, edits, edits + n)
  <1>1. /\ edits' = edits + n /\ seq' = seq + 1 /\ Send(m, joined)
        /\ UNCHANGED <<durable, joined, timer, pressure, up, inbox, late, head, buffer, log, barred>>
    BY <1>0
  <1>2. seq \in Nat /\ edits \in Nat /\ outbox \in Seq(Message) /\ n \in Nat /\ n > 0
    BY EditorSessionAssumption DEF IInv, TypeOK
  <1>3. /\ m \in Message /\ m.seq = seq + 1 /\ m.from = edits /\ m.to = edits + n
        /\ m.type = "update"
    BY <1>2 DEF UpdateOf, Message
  <1>. HIDE DEF m
  <1>4. /\ outbox' \in Seq(Message)
        /\ Range(outbox') \subseteq Range(outbox) \cup {m}
        /\ up /\ joined => m \in Range(outbox')
        /\ ~(up /\ joined) => outbox' = outbox
    BY <1>1, <1>2, <1>3, Sent
  <1>5. TypeOK'
    BY <1>1, <1>2, <1>4 DEF IInv, TypeOK
  <1>6. Numbered'
    <2>1. \A x \in Range(outbox) \cup Range(late) \cup Range(buffer) : x.seq \in Nat /\ x.seq <= seq
      BY Travelling DEF IInv, Numbered
    <2>2. \A x \in Range(outbox) \cup Range(late) \cup Range(buffer) : x.seq <= seq + 1
      BY <1>2, <2>1
    <2>3. m.seq <= seq + 1
      BY <1>2, <1>3
    <2>. QED
      BY <1>1, <1>4, <2>2, <2>3 DEF Numbered
  <1>7. Updates'
    <2>1. m.from < m.to
      BY <1>2, <1>3
    <2>. QED
      BY <1>1, <1>4, <2>1 DEF IInv, Updates
  <1>8. HeadReached' /\ Frames' /\ Browsed'
    BY <1>1, <1>4 DEF IInv, HeadReached, Frames, Browsed
  <1>9. Pursued'
    BY <1>1, <1>3, <1>4 DEF IInv, Browsed, Pursued
  <1>. QED
    BY <1>5, <1>6, <1>7, <1>8, <1>9 DEF IInv

\* A new socket, with its doc-open.
LEMMA ConnectSteps ==
    ASSUME IInv, Connect
    PROVE  IInv'
  <1>1. /\ ~up /\ up' = TRUE /\ outbox' = <<Open>> /\ inbox' = <<>> /\ barred' = 0
        /\ joined' = FALSE /\ timer' = FALSE
        /\ UNCHANGED <<edits, durable, seq, pressure, late, head, buffer, log>>
    BY DEF Connect, Disconnected, server
  <1>2. Open \in Message /\ Open.seq = 0 /\ Open.type = "open"
    BY DEF Open, Message
  <1>3. outbox' \in Seq(Message) /\ Range(outbox') = {Open}
    BY <1>1, <1>2, OneQueued
  <1>4. inbox' \in Seq(Frame) /\ Range(inbox') = {}
    BY <1>1, NothingQueued
  <1>6. TypeOK'
    BY <1>1, <1>3, <1>4 DEF IInv, TypeOK
  <1>7. Numbered'
    <2>1. seq \in Nat /\ 0 <= seq
      BY DEF IInv, TypeOK
    <2>. QED
      BY <1>1, <1>2, <1>3, <2>1 DEF IInv, Numbered
  <1>8. HeadReached' /\ Frames' /\ Browsed' /\ Updates' /\ Pursued'
    BY <1>1, <1>2, <1>3, <1>4 DEF IInv, HeadReached, Frames, Browsed, Updates, Pursued
  <1>. QED
    BY <1>6, <1>7, <1>8 DEF IInv

\* The browser learns that its socket is gone.
LEMMA NoticedSteps ==
    ASSUME IInv, Noticed
    PROVE  IInv'
  <1>1. /\ ~up /\ joined' = FALSE /\ timer' = FALSE
        /\ UNCHANGED <<edits, durable, seq, pressure, up, outbox, inbox, late, head, buffer, log, barred>>
    BY DEF Noticed, Disconnected, server
  <1>. QED
    BY <1>1 DEF IInv, TypeOK, Numbered, HeadReached, Frames, Updates, Browsed, Pursued

\* The process lets go of a fenced sequencer.
LEMMA LetGoSteps ==
    ASSUME IInv, LetGo
    PROVE  IInv'
  <1>1. UNCHANGED <<edits, durable, seq, joined, timer, pressure, up, outbox, inbox, late, head, buffer, log, barred>>
    BY DEF LetGo, browser
  <1>. QED
    BY <1>1 DEF IInv, TypeOK, Numbered, HeadReached, Frames, Updates, Browsed, Pursued

\* The retry timer.
LEMMA TimerSteps ==
    ASSUME IInv, TimerFires
    PROVE  IInv'
  <1>1. /\ timer /\ timer' = FALSE
        /\ UNCHANGED <<edits, durable, joined, pressure, up, inbox, late, head, buffer, log, barred>>
    BY DEF TimerFires, server
  <1>2. /\ edits \in Nat /\ durable \in Nat /\ pressure \in Nat /\ head \in Nat /\ log \in Nat
        /\ seq \in Nat /\ durable <= log /\ log <= head /\ (up => pressure <= head)
    BY <1>1 DEF IInv, TypeOK, Browsed, HeadReached
  <1>3. HeadReached' /\ Frames'
    BY <1>1 DEF IInv, HeadReached, Frames
  <1>4. CASE joined /\ ~CoveredByDurable
    <2> DEFINE vector == Larger(pressure, durable)
    <2>0. CatchUp(vector, joined)
      BY <1>4 DEF TimerFires
    <2>1. vector \in Nat /\ (up => vector <= head)
      BY <1>2 DEF Larger
    <2>. HIDE DEF vector
    <2>3. /\ outbox' \in Seq(Message)
          /\ \A m \in Range(outbox') : m.seq <= seq'
          /\ \A m \in Range(outbox') : m.type = "update" => m.from <= head \/ m.from < m.to
          /\ up => \E m \in Range(outbox') : m.type = "update" /\ m.to = edits
          /\ ~up => outbox' = outbox
          /\ seq' \in Nat /\ seq <= seq'
      BY <1>4, <2>0, <2>1, CaughtUp
    <2>4. TypeOK'
      BY <1>1, <2>3 DEF IInv, TypeOK
    <2>5. Numbered'
      <3>1. \A x \in Range(late) \cup Range(buffer) : x.seq \in Nat /\ x.seq <= seq
        BY Travelling DEF IInv, Numbered
      <3>2. \A x \in Range(late) \cup Range(buffer) : x.seq <= seq'
        BY <1>2, <2>3, <3>1
      <3>. QED
        BY <1>1, <2>3, <3>2 DEF Numbered
    <2>6. Updates' /\ Browsed' /\ Pursued'
      BY <1>1, <1>4, <2>3 DEF IInv, Updates, Browsed, Pursued
    <2>. QED
      BY <1>3, <2>4, <2>5, <2>6 DEF IInv
  <1>5. CASE ~(joined /\ ~CoveredByDurable)
    <2>1. UNCHANGED <<seq, outbox>>
      BY <1>5 DEF TimerFires
    <2>2. joined => head >= edits
      BY <1>2, <1>5 DEF CoveredByDurable
    <2>. QED
      BY <1>1, <1>3, <2>1, <2>2 DEF IInv, TypeOK, Numbered, Updates, Browsed, Pursued
  <1>. QED
    BY <1>4, <1>5

\* The buffer of a socket that is gone is the same buffer, owed to nobody.
LEMMA Disowned ==
    ASSUME TypeOK, Disown
    PROVE  /\ buffer' \in Seq(Batch)
           /\ \A b \in Range(buffer') : \E c \in Range(buffer) : b.seq = c.seq /\ b.to = c.to
           /\ \A c \in Range(buffer) : \E b \in Range(buffer') : b.to = c.to
  <1>. USE DEF Disown
  <1>1. buffer \in Seq(Batch) /\ Len(buffer) \in Nat /\ DOMAIN buffer = 1..Len(buffer)
    BY LenProperties DEF TypeOK
  <1>2. \A i \in 1..Len(buffer) : buffer[i] \in Batch
    BY <1>1
  <1>3. \A i \in 1..Len(buffer) : [buffer[i] EXCEPT !.current = FALSE] \in Batch
    BY <1>2 DEF Batch
  <1>4. buffer' \in [1..Len(buffer) -> Batch]
    BY <1>1, <1>3
  <1>5. buffer' \in Seq(Batch) /\ DOMAIN buffer' = 1..Len(buffer)
    BY <1>1, <1>4, SeqDef
  <1>6. \A i \in 1..Len(buffer) : buffer'[i].seq = buffer[i].seq /\ buffer'[i].to = buffer[i].to
    BY <1>1, <1>2 DEF Batch
  <1>7. Range(buffer) = {buffer[i] : i \in 1..Len(buffer)} /\ Range(buffer') = {buffer'[i] : i \in 1..Len(buffer)}
    BY <1>1, <1>5 DEF Range
  <1>8. \A b \in Range(buffer') : \E c \in Range(buffer) : b.seq = c.seq /\ b.to = c.to
    <2>. SUFFICES ASSUME NEW b \in Range(buffer')
                  PROVE  \E c \in Range(buffer) : b.seq = c.seq /\ b.to = c.to
      OBVIOUS
    <2>1. PICK i \in 1..Len(buffer) : b = buffer'[i]
      BY <1>7
    <2>2. buffer[i] \in Range(buffer) /\ b.seq = buffer[i].seq /\ b.to = buffer[i].to
      BY <1>6, <1>7, <2>1
    <2>. QED
      BY <2>2
  <1>9. \A c \in Range(buffer) : \E b \in Range(buffer') : b.to = c.to
    <2>. SUFFICES ASSUME NEW c \in Range(buffer)
                  PROVE  \E b \in Range(buffer') : b.to = c.to
      OBVIOUS
    <2>1. PICK i \in 1..Len(buffer) : c = buffer[i]
      BY <1>7
    <2>2. buffer'[i] \in Range(buffer') /\ buffer'[i].to = c.to
      BY <1>6, <1>7, <2>1
    <2>. QED
      BY <2>2
  <1>. QED
    BY <1>5, <1>8, <1>9

\* A socket that goes, by itself or at the limit of refusals.
LEMMA GoneSteps ==
    ASSUME IInv, SocketGone, late' \in Seq(Message), Range(late') \subseteq Range(outbox),
           UNCHANGED <<head, log>>, Disown, barred' \in Nat
    PROVE  IInv'
  <1>1. /\ up' = FALSE /\ outbox' = <<>> /\ inbox' = <<>>
        /\ UNCHANGED <<edits, durable, seq, pressure, joined, timer>>
    BY DEF SocketGone, browser
  <1>2. outbox' \in Seq(Message) /\ Range(outbox') = {}
    BY <1>1, NothingQueued
  <1>3. inbox' \in Seq(Frame) /\ Range(inbox') = {}
    BY <1>1, NothingQueued
  <1>4. /\ buffer' \in Seq(Batch)
        /\ \A b \in Range(buffer') : \E c \in Range(buffer) : b.seq = c.seq /\ b.to = c.to
        /\ \A c \in Range(buffer) : \E b \in Range(buffer') : b.to = c.to
    BY Disowned DEF IInv
  <1>5. TypeOK'
    BY <1>1, <1>2, <1>3, <1>4 DEF IInv, TypeOK
  <1>6. Numbered'
    BY <1>1, <1>2, <1>4 DEF IInv, Numbered
  <1>7. HeadReached'
    <2>1. HeadReached /\ head' = head /\ log' = log
      BY DEF IInv
    <2>2. \A b \in Range(buffer') : b.to <= head'
      BY <1>4, <2>1 DEF HeadReached
    <2>3. head' = log' \/ \E b \in Range(buffer') : b.to = head'
      BY <1>4, <2>1 DEF HeadReached
    <2>. QED
      BY <2>1, <2>2, <2>3 DEF HeadReached
  <1>8. Frames' /\ Updates' /\ Browsed' /\ Pursued'
    BY <1>1, <1>2, <1>3 DEF IInv, Frames, Updates, Browsed, Pursued
  <1>. QED
    BY <1>5, <1>6, <1>7, <1>8 DEF IInv

\* A dropped socket and a lost sequencer.
LEMMA LossSteps ==
    ASSUME IInv, Drop \/ Lose
    PROVE  IInv'
  <1>1. CASE Drop
    <2>1. PICK n \in 0..Len(outbox) : late' = SubSeq(outbox, IF Opening THEN 2 ELSE 1, n)
      BY <1>1 DEF Drop
    <2>2. PICK m \in {1, 2} : late' = SubSeq(outbox, m, n)
      BY <2>1
    <2>3. late' \in Seq(Message) /\ Range(late') \subseteq Range(outbox)
      BY <2>2, Clipped DEF IInv, TypeOK
    <2>. QED
      BY <1>1, <2>3, GoneSteps DEF Drop, IInv, TypeOK
  <1>2. CASE Lose
    <2>1. /\ up' = FALSE /\ outbox' = <<>> /\ inbox' = <<>>
          /\ late' = <<>> /\ buffer' = <<>> /\ head' = log
          /\ UNCHANGED <<edits, durable, seq, pressure, joined, timer, log, barred>>
      BY <1>2 DEF Lose, SocketGone, browser
    <2>2. outbox' \in Seq(Message) /\ late' \in Seq(Message) /\ Range(outbox') = {} /\ Range(late') = {}
      BY <2>1, NothingQueued
    <2>3. inbox' \in Seq(Frame) /\ Range(inbox') = {}
      BY <2>1, NothingQueued
    <2>4. buffer' \in Seq(Batch) /\ Range(buffer') = {}
      BY <2>1, NothingQueued
    <2>5. TypeOK'
      BY <2>1, <2>2, <2>3, <2>4 DEF IInv, TypeOK
    <2>6. HeadReached'
      BY <2>1, <2>4 DEF IInv, TypeOK, HeadReached
    <2>. QED
      BY <2>1, <2>2, <2>3, <2>4, <2>5, <2>6 DEF IInv, Numbered, Frames, Updates, Browsed, Pursued
  <1>. QED
    BY <1>1, <1>2

\* An answer to a message, the sequencer unchanged: it is in the inbox, and an
\* update that carried the last edit is at the head or has been refused.
LEMMA AnswerSteps ==
    ASSUME IInv, NEW type, Reads(type), NEW f \in Frame, inbox' = Append(inbox, f),
           UNCHANGED <<head, buffer, log>>, barred' \in Nat, barred <= barred',
           f.type \in {"state", "gap", "error"} => f.n <= head,
           f.type # "durable", f.saved <= log,
           \/ type = "update" /\ f.type \in {"gap", "error"}
           \/ type # "update" /\ f.type \notin {"gap", "error"}
           \/ f.type \notin {"gap", "error"} /\ Head(outbox).from >= Head(outbox).to
           \/ f.type \notin {"gap", "error"} /\ barred' >= Head(outbox).to
    PROVE  IInv'
  <1> DEFINE m == Head(outbox)
  <1>1. /\ outbox' \in Seq(Message) /\ Range(outbox') \subseteq Range(outbox)
        /\ Range(outbox) \subseteq Range(outbox') \cup {m}
        /\ m \in Range(outbox) /\ m \in Message /\ m.type = type
        /\ up
        /\ UNCHANGED <<edits, durable, seq, joined, timer, pressure, up, late>>
        /\ type = "update" => joined
    BY WasRead
  <1>2. inbox' \in Seq(Frame) /\ Range(inbox') = Range(inbox) \cup {f}
    BY Pushed DEF IInv, TypeOK
  <1>3. type = "update" /\ ~(f.type \in {"gap", "error"}) /\ m.to = edits => head >= edits \/ barred' >= edits
    <2>1. m.from \in Nat /\ m.to \in Nat /\ head \in Nat
      BY <1>1, Travelling DEF IInv, TypeOK
    <2>2. type = "update" => m.from <= head \/ m.from < m.to
      BY <1>1 DEF IInv, Updates
    <2>. QED
      BY <2>1, <2>2
  <1>. HIDE DEF m
  <1>4. TypeOK'
    BY <1>1, <1>2 DEF IInv, TypeOK
  <1>5. Numbered' /\ HeadReached' /\ Updates'
    BY <1>1, <1>2 DEF IInv, Numbered, HeadReached, Updates
  <1>8. Browsed'
    BY <1>1, <1>2 DEF IInv, Browsed
  <1>6. Frames'
    BY <1>2 DEF IInv, Frames
  <1>9. barred >= edits => barred' >= edits
    BY <1>1 DEF IInv, TypeOK
  <1>7. Pursued'
    BY <1>1, <1>2, <1>3, <1>9 DEF IInv, Pursued
  <1>. QED
    BY <1>4, <1>5, <1>6, <1>7, <1>8 DEF IInv

\* A batch placed on the head.
LEMMA Placed ==
    ASSUME IInv, NEW update \in Message, NEW current \in BOOLEAN, update.seq <= seq,
           Append1(update, current)
    PROVE  /\ head' \in Nat /\ buffer' \in Seq(Batch)
           /\ head <= head' /\ update.to <= head'
           /\ \A b \in Range(buffer') : b.seq <= seq
           /\ log <= head' /\ \A b \in Range(buffer') : b.to <= head'
           /\ head' = log \/ \E b \in Range(buffer') : b.to = head'
  <1> DEFINE b == [seq |-> update.seq, to |-> update.to, current |-> current]
  <1>1. update.seq \in Nat /\ update.to \in Nat /\ head \in Nat /\ log \in Nat /\ log <= head
    BY DEF IInv, TypeOK, HeadReached, Message
  <1>2. b \in Batch /\ b.seq = update.seq /\ b.to = update.to /\ buffer' = Append(buffer, b)
    BY <1>1 DEF Batch, Append1
  <1>. HIDE DEF b
  <1>3. buffer' \in Seq(Batch) /\ Range(buffer') = Range(buffer) \cup {b}
    BY <1>2, Pushed DEF IInv, TypeOK
  <1>4. /\ head' \in Nat /\ head <= head' /\ update.to <= head' /\ log <= head'
        /\ head' = head \/ head' = update.to
    BY <1>1 DEF Append1, Larger
  <1>5. \A x \in Range(buffer) : x.to \in Nat /\ x.to <= head /\ x.seq <= seq
    BY Travelling DEF IInv, HeadReached, Numbered
  <1>6. \A x \in Range(buffer') : x.to <= head' /\ x.seq <= seq
    BY <1>1, <1>2, <1>3, <1>4, <1>5
  <1>7. head' = log \/ \E x \in Range(buffer') : x.to = head'
    BY <1>2, <1>3, <1>4 DEF IInv, HeadReached
  <1>. QED
    BY <1>3, <1>4, <1>6, <1>7

\* A head that moves on leaves what was said of the old one true.
LEMMA HeadMoves ==
    ASSUME IInv, head' \in Nat, head <= head', buffer' \in Seq(Batch),
           \A b \in Range(buffer') : b.seq <= seq,
           log <= head', \A b \in Range(buffer') : b.to <= head',
           head' = log \/ \E b \in Range(buffer') : b.to = head',
           outbox' \in Seq(Message), Range(outbox') \subseteq Range(outbox),
           late' \in Seq(Message), Range(late') \subseteq Range(late),
           ~up => outbox' = <<>>,
           UNCHANGED <<browser, up, inbox, log, barred>>, Pursued'
    PROVE  IInv'
  <1>. USE DEF browser
  <1>1. TypeOK'
    BY DEF IInv, TypeOK
  <1>2. Numbered' /\ HeadReached'
    BY DEF IInv, Numbered, HeadReached
  <1>3. head \in Nat /\ pressure \in Nat
    BY DEF IInv, TypeOK
  <1>4. Frames'
    <2>1. \A f \in Range(inbox) : f.n \in Nat /\ (f.n <= head => f.n <= head')
      BY <1>3, Travelling DEF IInv
    <2>. QED
      BY <2>1 DEF IInv, Frames
  <1>5. Updates'
    <2>1. \A m \in Range(outbox) : m.from \in Nat /\ (m.from <= head => m.from <= head')
      BY <1>3, Travelling DEF IInv
    <2>. QED
      BY <2>1 DEF IInv, Updates
  <1>6. Browsed'
    BY <1>3 DEF IInv, Browsed
  <1>. QED
    BY <1>1, <1>2, <1>4, <1>5, <1>6 DEF IInv

\* What the server makes of a message.
LEMMA IngestSteps ==
    ASSUME IInv, Join \/ Ingest
    PROVE  IInv'
  <1>. USE DEF server
  <1>1. /\ head \in Nat /\ log \in Nat /\ 0 <= log /\ seq \in Nat /\ barred \in Nat
    BY DEF IInv, TypeOK
  <1>2. ASSUME NEW name \in {"ack", "gap", "error", "refused"}, NEW n \in Nat
        PROVE  /\ FrameOf(name, n) \in Frame /\ FrameOf(name, n).type = name
               /\ FrameOf(name, n).n = n /\ FrameOf(name, n).saved = 0
    BY DEF FrameOf, Frame
  <1>3. CASE DocOpen
    <2> DEFINE f == [type |-> "state", n |-> head, saved |-> log]
    <2>1. f \in Frame /\ f.type = "state" /\ f.n = head /\ f.saved = log
      BY <1>1 DEF Frame
    <2>2. Reads("open") /\ inbox' = Append(inbox, f) /\ UNCHANGED <<head, buffer, log, barred>>
      BY <1>3 DEF DocOpen, Answer
    <2>. HIDE DEF f
    <2>3. head <= head /\ log <= log /\ barred' \in Nat /\ barred <= barred'
      BY <1>1, <2>2
    <2>. QED
      BY <2>1, <2>2, <2>3, AnswerSteps
  <1>4. ASSUME Reads("update")
        PROVE  Head(outbox).seq \in Nat
    BY <1>4, WasRead DEF Message
  <1>5. ASSUME Reads("update"), NEW f \in Frame, inbox' = Append(inbox, f),
               UNCHANGED <<head, buffer, log, barred>>, f.saved = 0, f.n = head,
               f.type \in {"gap", "error"}
        PROVE  IInv'
    <2>1. f.n <= head /\ f.saved <= log /\ f.type # "durable" /\ barred' \in Nat /\ barred <= barred'
      BY <1>1, <1>5
    <2>. QED
      BY <1>5, <2>1, AnswerSteps
  <1>6. CASE IngestEmpty
    <2> DEFINE f == FrameOf("ack", Head(outbox).seq)
    <2>1. /\ Reads("update") /\ inbox' = Append(inbox, f) /\ UNCHANGED <<head, buffer, log, barred>>
          /\ Head(outbox).from >= Head(outbox).to
      BY <1>6 DEF IngestEmpty, Answer, Empty
    <2>2. f \in Frame /\ f.type = "ack" /\ f.saved = 0
      BY <1>2, <1>4, <2>1
    <2>. HIDE DEF f
    <2>3. f.saved <= log /\ barred' \in Nat /\ barred <= barred'
      BY <1>1, <2>1, <2>2
    <2>. QED
      BY <2>1, <2>2, <2>3, AnswerSteps
  <1>7. CASE IngestPressure
    BY <1>1, <1>2, <1>5, <1>7 DEF IngestPressure, Answer
  <1>8. CASE IngestGap
    BY <1>1, <1>2, <1>5, <1>8 DEF IngestGap, Answer
  <1>9. ASSUME Close, UNCHANGED <<head, log>>, barred' \in Nat
        PROVE  IInv'
    <2>1. late' \in Seq(Message) /\ Range(late') \subseteq Range(outbox)
      BY <1>9, NothingQueued DEF Close
    <2>. QED
      BY <1>9, <2>1, GoneSteps DEF Close
  <1>11. CASE DocOpenFenced \/ IngestTooLong
    BY <1>1, <1>9, <1>11 DEF DocOpenFenced, IngestTooLong
  <1>12. CASE IngestLimited
    <2>1. CASE refusals + 1 < MaxRefusals
      BY <1>1, <1>2, <1>5, <1>12, <2>1 DEF IngestLimited, Refuse, Answer
    <2>2. CASE ~(refusals + 1 < MaxRefusals)
      BY <1>1, <1>9, <1>12, <2>2 DEF IngestLimited, Refuse
    <2>. QED
      BY <2>1, <2>2
  <1>13. CASE IngestRefused
    <2> DEFINE m == Head(outbox)
               f == FrameOf("refused", m.seq)
    <2>1. /\ outbox # <<>> /\ Refuse(f) /\ barred' = Larger(barred, m.to)
      BY <1>13 DEF IngestRefused
    <2>2. m \in Message /\ m.seq \in Nat /\ m.to \in Nat
      <3>1. outbox \in Seq(Message) /\ outbox # <<>>
        BY <2>1 DEF IInv, TypeOK
      <3>2. Head(outbox) \in Message
        BY <3>1, Popped
      <3>. QED
        BY <3>2 DEF Message
    <2>3. f \in Frame /\ f.type = "refused" /\ f.saved = 0
      BY <1>2, <2>2
    <2>4. barred' \in Nat /\ barred <= barred' /\ barred' >= m.to
      BY <1>1, <2>1, <2>2 DEF Larger
    <2>. HIDE DEF m, f
    <2>5. CASE refusals + 1 < MaxRefusals
      <3>1. /\ Reads("update") /\ inbox' = Append(inbox, f) /\ UNCHANGED <<head, buffer, log>>
        BY <2>1, <2>5 DEF Refuse, Answer
      <3>2. f.saved <= log
        BY <1>1, <2>3
      <3>. QED
        BY <2>3, <2>4, <3>1, <3>2, AnswerSteps DEF m
    <2>6. CASE ~(refusals + 1 < MaxRefusals)
      BY <1>9, <2>1, <2>4, <2>6 DEF Refuse
    <2>. QED
      BY <2>5, <2>6
  <1>10. CASE IngestAccept
    <2> DEFINE m == Head(outbox)
    <2>1. Reads("update") /\ Append1(m, TRUE) /\ UNCHANGED <<inbox, log, barred>>
      BY <1>10 DEF IngestAccept
    <2>2. /\ outbox' \in Seq(Message) /\ Range(outbox') \subseteq Range(outbox)
          /\ Range(outbox) \subseteq Range(outbox') \cup {m}
          /\ m \in Range(outbox) /\ m \in Message
          /\ up /\ UNCHANGED <<browser, up, late>>
      BY <2>1, WasRead DEF Reads
    <2>3. m.seq <= seq
      BY <2>2 DEF IInv, Numbered
    <2>4. /\ head' \in Nat /\ buffer' \in Seq(Batch)
          /\ head <= head' /\ m.to <= head'
          /\ \A b \in Range(buffer') : b.seq <= seq
          /\ log <= head' /\ \A b \in Range(buffer') : b.to <= head'
          /\ head' = log \/ \E b \in Range(buffer') : b.to = head'
      <3>. HIDE DEF m
      <3>. QED
        BY <2>1, <2>2, <2>3, Placed
    <2>. HIDE DEF m
    <2>5. late' \in Seq(Message) /\ Range(late') \subseteq Range(late)
      BY <2>2 DEF IInv, TypeOK
    <2>6. head >= edits => head' >= edits
      BY <1>1, <2>4 DEF IInv, TypeOK
    <2>7. m.to = edits => head' >= edits
      BY <2>2, <2>4 DEF IInv, TypeOK, Message
    <2>8. Pursued'
      BY <2>1, <2>2, <2>6, <2>7 DEF IInv, Pursued, browser
    <2>. QED
      BY <2>1, <2>2, <2>4, <2>5, <2>8, HeadMoves
  <1>. QED
    BY <1>3, <1>6, <1>7, <1>8, <1>10, <1>11, <1>12, <1>13 DEF Join, Ingest

\* An update read after its socket went.
LEMMA LateSteps ==
    ASSUME IInv, IngestLate
    PROVE  IInv'
  <1> DEFINE m == Head(late)
  <1>1. late # <<>> /\ late' = Tail(late) /\ UNCHANGED <<browser, up, outbox, inbox, log, barred>>
    BY DEF IngestLate
  <1>2. /\ m \in Message /\ late' \in Seq(Message) /\ Range(late) = {m} \cup Range(late')
    BY <1>1, Popped DEF IInv, TypeOK
  <1>3. m.seq <= seq
    BY <1>2 DEF IInv, Numbered
  <1>4. Append1(m, FALSE) \/ UNCHANGED <<head, buffer>>
    BY DEF IngestLate
  <1>. HIDE DEF m
  <1>5. /\ head' \in Nat /\ buffer' \in Seq(Batch) /\ head <= head'
        /\ \A b \in Range(buffer') : b.seq <= seq
        /\ log <= head' /\ \A b \in Range(buffer') : b.to <= head'
        /\ head' = log \/ \E b \in Range(buffer') : b.to = head'
    <2>1. CASE Append1(m, FALSE)
      BY <1>2, <1>3, <2>1, Placed
    <2>2. CASE UNCHANGED <<head, buffer>>
      BY <2>2 DEF IInv, TypeOK, HeadReached, Numbered
    <2>. QED
      BY <1>4, <2>1, <2>2
  <1>6. head >= edits => head' >= edits
    BY <1>5 DEF IInv, TypeOK
  <1>7. Pursued'
    BY <1>1, <1>6 DEF IInv, Pursued, browser
  <1>8. outbox' \in Seq(Message) /\ (~up => outbox' = <<>>)
    BY <1>1 DEF IInv, TypeOK, Browsed
  <1>. QED
    BY <1>1, <1>2, <1>5, <1>7, <1>8, HeadMoves

\* The row of a flush reaches the head.
LEMMA FlushSteps ==
    ASSUME IInv, Flush
    PROVE  IInv'
  <1>1. /\ buffer # <<>> /\ buffer' = <<>>
        /\ UNCHANGED <<edits, durable, seq, joined, timer, pressure, up, outbox, late, head, barred>>
    BY DEF Flush, browser
  <1>2. buffer \in Seq(Batch) /\ head \in Nat /\ log \in Nat /\ seq \in Nat /\ log <= head
    BY DEF IInv, TypeOK, HeadReached
  <1>3. DOMAIN buffer = 1..Len(buffer)
    BY <1>2, LenProperties
  <1>4. log' = head
    <2> DEFINE S == {log} \cup {buffer[i].to : i \in DOMAIN buffer}
    <2>1. S = {log} \cup {b.to : b \in Range(buffer)}
      BY DEF Range
    <2>2. \A n \in S : n \in Nat /\ n <= head
      BY <1>2, <2>1, Travelling DEF IInv, HeadReached
    <2>3. head \in S
      BY <2>1 DEF IInv, HeadReached
    <2>4. log' = Newest(S)
      BY DEF Flush
    <2>. HIDE DEF S
    <2>5. Newest(S) \in S /\ \A n \in S : n <= Newest(S)
      BY <2>2, <2>3 DEF Newest
    <2>6. log' \in Nat /\ log' <= head /\ head <= log'
      BY <2>2, <2>3, <2>4, <2>5
    <2>. QED
      BY <1>2, <2>6
  <1>5. /\ inbox' \in Seq(Frame)
        /\ Range(inbox) \subseteq Range(inbox')
        /\ \A f \in Range(inbox') :
             f \in Range(inbox) \/ (f.type = "ack" /\ f.saved = 0)
                                \/ (f.type = "durable" /\ f.n = head /\ f.saved = 0)
    <2>1. CASE ~Subscribed
      BY <2>1 DEF Flush, IInv, TypeOK
    <2>2. CASE Subscribed
      <3> DEFINE d == FrameOf("durable", log')
      <3>1. inbox' = inbox \o AckTargets \o <<d>>
        BY <2>2 DEF Flush
      <3>2. d \in Frame /\ d.type = "durable" /\ d.n = head /\ d.saved = 0
        BY <1>2, <1>4 DEF FrameOf, Frame
      <3>. HIDE DEF d
      <3>3. AckTargets \in Seq(Frame) /\ \A f \in Range(AckTargets) : f.type = "ack" /\ f.saved = 0
        <4> DEFINE numbers == {buffer[i].seq : i \in {j \in DOMAIN buffer : buffer[j].current}}
        <4>1. AckTargets = IF numbers = {} THEN <<>> ELSE <<FrameOf("ack", Newest(numbers))>>
          BY DEF AckTargets
        <4>2. numbers \subseteq {b.seq : b \in Range(buffer)}
          BY DEF Range
        <4>3. numbers \in SUBSET Nat /\ \A n \in numbers : n <= seq
          BY <4>2, Travelling DEF IInv, Numbered
        <4>. HIDE DEF numbers
        <4>4. CASE numbers = {}
          BY <4>1, <4>4, NothingQueued
        <4>5. CASE numbers # {}
          <5>1. Newest(numbers) \in Nat
            BY <1>2, <4>3, <4>5, NewestIs
          <5> DEFINE a == FrameOf("ack", Newest(numbers))
          <5>2. a \in Frame /\ a.type = "ack" /\ a.saved = 0
            BY <5>1 DEF FrameOf, Frame
          <5>3. AckTargets = <<a>>
            BY <4>1, <4>5
          <5>. HIDE DEF a
          <5>4. <<a>> \in Seq(Frame) /\ Range(<<a>>) = {a}
            BY <5>2, OneQueued
          <5>. QED
            BY <5>2, <5>3, <5>4
        <4>. QED
          BY <4>4, <4>5
      <3>4. <<d>> \in Seq(Frame) /\ Range(<<d>>) = {d}
        BY <3>2, OneQueued
      <3>5. inbox \in Seq(Frame)
        BY DEF IInv, TypeOK
      <3>6. /\ inbox \o AckTargets \in Seq(Frame)
            /\ Range(inbox \o AckTargets) = Range(inbox) \cup Range(AckTargets)
        BY <3>3, <3>5, ConcatProperties, RangeConcatenation
      <3>7. /\ inbox' \in Seq(Frame)
            /\ Range(inbox') = Range(inbox) \cup Range(AckTargets) \cup {d}
        <4> DEFINE q == inbox \o AckTargets
                   one == <<d>>
        <4>1. /\ inbox' = q \o one
              /\ q \in Seq(Frame) /\ Range(q) = Range(inbox) \cup Range(AckTargets)
              /\ one \in Seq(Frame) /\ Range(one) = {d}
          BY <3>1, <3>4, <3>6
        <4>. HIDE DEF q, one
        <4>2. q \o one \in Seq(Frame) /\ Range(q \o one) = Range(q) \cup Range(one)
          BY <4>1, ConcatProperties, RangeConcatenation
        <4>. QED
          BY <4>1, <4>2
      <3>. QED
        BY <3>2, <3>3, <3>7
    <2>. QED
      BY <2>1, <2>2
  <1>6. buffer' \in Seq(Batch) /\ Range(buffer') = {}
    BY <1>1, NothingQueued
  <1>7. TypeOK'
    BY <1>1, <1>2, <1>4, <1>5, <1>6 DEF IInv, TypeOK
  <1>8. Numbered' /\ HeadReached' /\ Updates' /\ Pursued'
    BY <1>1, <1>2, <1>4, <1>5, <1>6 DEF IInv, Numbered, HeadReached, Updates, Pursued
  <1>9. Frames'
    <2>1. \A f \in Range(inbox) : f.n \in Nat /\ f.saved \in Nat
      BY Travelling DEF IInv
    <2>2. \A f \in Range(inbox) : /\ f.type \in {"state", "gap", "error"} => f.n <= head
                                  /\ f.type = "durable" => f.n <= head
                                  /\ f.saved <= head
      BY <1>2, <2>1 DEF IInv, Frames
    <2>3. 0 <= head /\ head <= head
      BY <1>2
    <2>. QED
      BY <1>1, <1>4, <1>5, <2>2, <2>3 DEF Frames
  <1>10. Browsed'
    <2>1. durable <= head
      BY <1>2 DEF IInv, TypeOK, Browsed
    <2>2. ~up => inbox' = inbox
      BY DEF Flush, Subscribed
    <2>. QED
      BY <1>1, <1>4, <1>5, <2>1, <2>2 DEF IInv, Browsed
  <1>. QED
    BY <1>7, <1>8, <1>9, <1>10 DEF IInv

-----------------------------------------------------------------------------
(* The theorems *)

\* A session that has not begun.
LEMMA InitIInv == Init => IInv
  <1>. SUFFICES ASSUME Init
                PROVE  IInv
    OBVIOUS
  <1>1. outbox \in Seq(Message) /\ late \in Seq(Message) /\ Range(outbox) = {} /\ Range(late) = {}
    BY NothingQueued DEF Init
  <1>2. inbox \in Seq(Frame) /\ Range(inbox) = {}
    BY NothingQueued DEF Init
  <1>3. buffer \in Seq(Batch) /\ Range(buffer) = {}
    BY NothingQueued DEF Init
  <1>4. TypeOK
    BY <1>1, <1>2, <1>3 DEF Init, TypeOK
  <1>5. Numbered /\ HeadReached /\ Frames /\ Updates
    BY <1>1, <1>2, <1>3 DEF Init, Numbered, HeadReached, Frames, Updates
  <1>6. Browsed /\ Pursued
    BY <1>1, <1>2, <1>3 DEF Init, Browsed, Pursued
  <1>. QED
    BY <1>4, <1>5, <1>6 DEF IInv

\* Every step of the browser, the socket and the server keeps the invariant.
LEMMA NextIInv == IInv /\ [Next]_vars => IInv'
  <1>. SUFFICES ASSUME IInv, [Next]_vars
                PROVE  IInv'
    OBVIOUS
  <1>1. CASE UNCHANGED vars
    BY <1>1 DEF vars, browser, server, IInv, TypeOK, Numbered, HeadReached, Frames, Updates, Browsed,
                Pursued
  <1>. QED
    BY <1>1, EditSteps, ConnectSteps, NoticedSteps, BrowserSteps, TimerSteps, LossSteps, LetGoSteps,
       IngestSteps, LateSteps, FlushSteps DEF Next, Browser

\* The inductive invariant holds in every reachable state.
THEOREM Invariant == Spec => []IInv
  BY InitIInv, NextIInv, PTL DEF Spec

\* The toolbar never calls an edit saved that no committed row holds.
THEOREM SavedTruly == Spec => []SavedIsStored
  <1>1. IInv => SavedIsStored
    BY DEF IInv, TypeOK, Browsed, SavedIsStored, CoveredByDurable
  <1>. QED
    BY <1>1, Invariant, PTL

\* A joined session with nothing under way, buffered or armed has every edit
\* stored, though back-pressured and gapped batches were thrown away, or has
\* been told on this socket that a batch up to the last edit is refused.
THEOREM NothingForgotten == Spec => []QuietIsSaved
  <1>1. IInv => QuietIsSaved
    <2>. SUFFICES ASSUME IInv, joined, up, outbox = <<>>, inbox = <<>>, ~timer, buffer = <<>>
                  PROVE  log >= edits \/ barred >= edits
      BY DEF QuietIsSaved
    <2>1. Range(outbox) = {} /\ Range(inbox) = {} /\ Range(buffer) = {}
      BY NothingQueued
    <2>2. head = log
      BY <2>1 DEF IInv, HeadReached
    <2>. QED
      BY <2>1, <2>2 DEF IInv, Pursued
  <1>. QED
    BY <1>1, Invariant, PTL

=============================================================================
