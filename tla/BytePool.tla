------------------------------ MODULE BytePool ------------------------------
(***************************************************************************)
(* log/pool.rs: the byte pool behind the memory budget and the pending     *)
(* budget.  Tasks take bytes with a compare-and-swap loop, wait for a      *)
(* release when there is no room, and give bytes back in a reservation's   *)
(* Drop.  Each atomic access to `used` and each use of the Notify is a     *)
(* step of its own, so takes, releases and wake-ups interleave as they do  *)
(* on several threads.  Who asks, and what for, is in Budgets.             *)
(***************************************************************************)
EXTENDS Integers, FiniteSets

CONSTANTS
    Tasks,
    Limit,      \* the pool's size
    WordMax     \* the largest value of the counter's integer type

ASSUME BytePoolAssumption == WordMax \in Nat /\ Limit \in 0..WordMax

VARIABLES
    used,       \* the AtomicU64
    pc,         \* where each task is, in the pool or in its own code
    want,       \* what each task asks for
    call,       \* whether it asked by try_take or by take
    holds,      \* the bytes of the reservations each task holds
    seen,       \* each task's last load of `used`
    listening,  \* the tasks whose Notified is enabled
    woken,      \* the tasks notify_waiters has reached
    after       \* where each task goes once it has notified

poolVars == <<used, pc, want, call, holds, seen, listening, woken, after>>

PoolSteps == {"enable", "load", "swap", "wait", "granted", "refused", "notify"}

PoolInit ==
    /\ pc = [t \in Tasks |-> "idle"]
    /\ want = [t \in Tasks |-> 0]
    /\ call = [t \in Tasks |-> "try"]
    /\ holds = [t \in Tasks |-> 0]
    /\ seen = [t \in Tasks |-> 0]
    /\ listening = {} /\ woken = {}
    /\ after = [t \in Tasks |-> "idle"]

Goto(t, step) == pc' = [pc EXCEPT ![t] = step]

Forget(t) ==
    /\ listening' = listening \ {t}
    /\ woken' = woken \ {t}

-----------------------------------------------------------------------------
(* try_take and take *)

\* try_take(n): begins with the load; "probe" is try_take by a caller that
\* goes on to `take` the same bytes.
TryTake(t, how, n) ==
    /\ want' = [want EXCEPT ![t] = n]
    /\ call' = [call EXCEPT ![t] = how]
    /\ Goto(t, "load")

\* take(want): a caller that asked for more than the pool never gets here.
BeginTake(t) ==
    /\ call' = [call EXCEPT ![t] = "take"]
    /\ Goto(t, "enable")

\* Faulty: the wait is registered only once the attempt has failed.
FaultyEnable(t) ==
    /\ pc[t] = "enable"
    /\ Goto(t, "load")
    /\ UNCHANGED <<used, want, call, holds, seen, listening, woken, after>>

\* Register for the wake-up before checking.
Enable(t) ==
    /\ pc[t] = "enable"
    /\ listening' = listening \cup {t}
    /\ woken' = woken \ {t}
    /\ Goto(t, "load")
    /\ UNCHANGED <<used, want, call, holds, seen, after>>

Load(t) ==
    /\ pc[t] = "load"
    /\ seen' = [seen EXCEPT ![t] = used]
    /\ Goto(t, "swap")
    /\ UNCHANGED <<used, want, call, holds, listening, woken, after>>

\* checked_add: a sum past the width of the counter does not fit.
Fits(t) == seen[t] + want[t] <= WordMax /\ seen[t] + want[t] <= Limit

\* compare_exchange succeeds: the bytes are taken and the wait dropped.
Swap(t) ==
    /\ pc[t] = "swap" /\ Fits(t) /\ used = seen[t]
    /\ used' = (seen[t] + want[t]) % (WordMax + 1)
    /\ holds' = [holds EXCEPT ![t] = @ + want[t]]
    /\ seen' = [seen EXCEPT ![t] = 0]
    /\ Goto(t, "granted")
    /\ Forget(t)
    /\ UNCHANGED <<want, call, after>>

\* compare_exchange_weak fails, spuriously or not: try with what it saw.
SwapFails(t) ==
    /\ pc[t] = "swap" /\ Fits(t) /\ used # seen[t]
    /\ seen' = [seen EXCEPT ![t] = used]
    /\ UNCHANGED <<used, pc, want, call, holds, listening, woken, after>>

\* No room: try_take is refused, take awaits the release.
NoRoom(t) ==
    /\ pc[t] = "swap" /\ ~Fits(t)
    /\ IF call[t] = "take"
       THEN Goto(t, "wait") /\ listening' = listening \cup {t}
       ELSE Goto(t, "refused") /\ UNCHANGED listening
    /\ seen' = [seen EXCEPT ![t] = 0]
    /\ UNCHANGED <<used, want, call, holds, woken, after>>

Woken(t) ==
    /\ pc[t] = "wait" /\ t \in woken
    /\ Goto(t, "enable")
    /\ Forget(t)
    /\ UNCHANGED <<used, want, call, holds, seen, after>>

\* Wait::Until: the deadline passes, or the caller's future is dropped.
TimeOut(t) ==
    /\ pc[t] = "wait"
    /\ Goto(t, "refused")
    /\ Forget(t)
    /\ UNCHANGED <<used, want, call, holds, seen, after>>

-----------------------------------------------------------------------------
(* give_back *)

\* The fetch_sub; the caller says whose bytes they were.
Subtract(t, n, next) ==
    /\ used' = used - n
    /\ Goto(t, "notify")
    /\ after' = [after EXCEPT ![t] = next]

\* Drop of a reservation of n bytes that the task holds itself.
GiveBack(t, n, next) ==
    /\ Subtract(t, n, next)
    /\ holds' = [holds EXCEPT ![t] = @ - n]

\* Faulty: only one waiter is told.
FaultyNotifyWaiters(t) ==
    /\ pc[t] = "notify"
    /\ IF listening = {} THEN UNCHANGED woken
       ELSE \E u \in listening : woken' = woken \cup {u}
    /\ Goto(t, after[t]) /\ after' = [after EXCEPT ![t] = "idle"]
    /\ UNCHANGED <<used, want, call, holds, seen, listening>>

NotifyWaiters(t) ==
    /\ pc[t] = "notify"
    /\ woken' = listening
    /\ Goto(t, after[t]) /\ after' = [after EXCEPT ![t] = "idle"]
    /\ UNCHANGED <<used, want, call, holds, seen, listening>>

-----------------------------------------------------------------------------
PoolStep(t) ==
    Enable(t) \/ Load(t) \/ Swap(t) \/ SwapFails(t) \/ NoRoom(t) \/ Woken(t) \/ NotifyWaiters(t)

\* No wake-up is missed: a task that waits unwoken either would still not fit
\* or has a release about to notify it.
NoMissedWakeup ==
    \A t \in Tasks :
        pc[t] = "wait" /\ t \notin woken =>
            used + want[t] > Limit \/ \E u \in Tasks : pc[u] = "notify"

=============================================================================
