----------------------------- MODULE Deadlines -----------------------------
(***************************************************************************)
(* storage/schedule.rs: the bounded map of future work the worker owes     *)
(* itself, as operators on a record [entries, refusal].                    *)
(*                                                                         *)
(* An Instant is written as the time left until it: `due <= 0` is          *)
(* `entry.due <= now`, and Later moves every instant closer.  Instants are *)
(* only ever compared with now and with each other, so a time that is past *)
(* needs no more than its age up to the ceiling, where pruning looks.      *)
(***************************************************************************)
EXTENDS Integers, FiniteSetsExt, Functions

CONSTANTS
    Capacity,   \* DEADLINES
    Ceiling     \* BACKOFF_CEILING, in units of BACKOFF

ASSUME DeadlinesAssumption == Capacity \in Nat \ {0} /\ Ceiling \in Nat \ {0}

\* refusal: None
Never == -1

NoDeadlines == [entries |-> << >>, refusal |-> Never]

\* The earlier of two instants, one of which may be absent.
Earlier(a, b) == IF a = Never THEN b ELSE IF b = Never THEN a ELSE Min({a, b})

\* RETRY.delay: doubling from BACKOFF, up to the ceiling.
Doubled(failures) == 2 ^ (failures - 1)
Backoff(failures) == IF Doubled(failures) \in 1..Ceiling THEN Doubled(failures) ELSE Ceiling

Known(D, task) == task \in DOMAIN D.entries

Full(D) == Cardinality(DOMAIN D.entries) = Capacity

\* HashMap::insert, which overwrites.
Put(D, task, entry) ==
    [D EXCEPT !.entries =
        [t \in DOMAIN D.entries \cup {task} |-> IF t = task THEN entry ELSE D.entries[t]]]

RemoveDeadline(D, task) == [D EXCEPT !.entries = Restrict(@, DOMAIN @ \ {task})]

\* Faulty: a deadline that does not fit is dropped.
FaultyRefuse(D, due) == D

Refuse(D, due) == [D EXCEPT !.refusal = Earlier(@, due)]

\* Faulty: the bound is not looked at.
FaultyAdmit(D, task, entry) == Put(D, task, entry)

\* Overwriting an entry is never refused; a new one is, when the map is full.
Admit(D, task, entry) ==
    IF Known(D, task) \/ ~Full(D) THEN Put(D, task, entry) ELSE Refuse(D, entry.due)

Failures(D, task) == IF Known(D, task) THEN D.entries[task].failures ELSE 0

Failed(D, task) ==
    LET failures == Failures(D, task) + 1
    IN  Admit(D, task, [due |-> Backoff(failures), failures |-> failures, armed |-> TRUE])

\* A backoff that is still running is not shortened; a plain deadline is
\* pulled earlier; a spent entry is armed again with its streak.
At(D, task, due) ==
    LET streak == Failures(D, task)
        armed  == Known(D, task) /\ D.entries[task].armed
    IN  IF armed /\ streak > 0 THEN D
        ELSE Admit(D, task,
                   [due |-> IF armed THEN Min({D.entries[task].due, due}) ELSE due,
                    failures |-> streak, armed |-> TRUE])

\* Faulty: success forgets the task, and the deadline it armed with it.
FaultyClear(D, task) == RemoveDeadline(D, task)

\* Success ends the streak; a deadline armed meanwhile survives.
Clear(D, task) ==
    IF Known(D, task) /\ D.entries[task].armed
    THEN [D EXCEPT !.entries[task].failures = 0]
    ELSE RemoveDeadline(D, task)

Waiting(D, task) == Known(D, task) /\ D.entries[task].armed /\ D.entries[task].due > 0

Armed(D) == {t \in DOMAIN D.entries : D.entries[t].armed}

\* due: what fires now, and what is left of the map afterwards: spent plain
\* deadlines go, failing ones stay disarmed until they are stale.
DueTasks(D) == {t \in Armed(D) : D.entries[t].due <= 0}

RescanDue(D) == D.refusal = 0

Fired(D) ==
    LET fires   == DueTasks(D)
        keeps   == {t \in DOMAIN D.entries :
                        IF t \in fires THEN D.entries[t].failures > 0
                        ELSE D.entries[t].armed \/ D.entries[t].due >= -Ceiling}
    IN  [entries |-> [t \in keeps |-> [D.entries[t] EXCEPT !.armed = @ /\ t \notin fires]],
         refusal |-> IF RescanDue(D) THEN Never ELSE D.refusal]

\* next: the earliest armed deadline or refusal has come.
Ready(D) == DueTasks(D) # {} \/ RescanDue(D)

\* One unit of time passes.
Later(D) ==
    [entries |-> [t \in DOMAIN D.entries |->
                    [D.entries[t] EXCEPT !.due = Max({@ - 1, -Ceiling - 1})]],
     refusal |-> IF D.refusal = Never THEN Never ELSE Max({D.refusal - 1, 0})]
=============================================================================
