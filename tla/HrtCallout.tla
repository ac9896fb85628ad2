---------------------------- MODULE HrtCallout ----------------------------
(***************************************************************************)
(* The high resolution timer every PX4 module of Core 0 is scheduled with: *)
(* drv_hrt.cpp (the callout queue, its lock, the simulated timer interrupt *)
(* hrt_tim_isr) on top of fc_sched/fc_hrt_esp_timer.c (one one-shot        *)
(* esp_timer, whose task runs hrt_tim_isr).                                *)
(*                                                                         *)
(* A section under _hrt_lock is one action.  Outside the lock anything can *)
(* happen: between the computation of a deadline and the insertion of the  *)
(* entry, and during a callout, which is invoked with the lock released.   *)
(***************************************************************************)
EXTENDS Integers, Sequences, FiniteSets

CONSTANTS
  Tasks,        \* the tasks that call hrt_call_* and hrt_cancel
  Entries,      \* the hrt_call structures
  Periodic,     \* those used with hrt_call_every; the others are one-shot
  Delays,       \* the delays asked for
  Intervals,    \* the intervals of hrt_call_every
  IntervalMin,  \* HRT_INTERVAL_MIN (50 us)
  IntervalMax,  \* HRT_INTERVAL_MAX (50 s)
  Slack,        \* latency of the esp_timer task
  Busy,         \* duration of one run of hrt_tim_isr, callouts included
  Horizon       \* bound on time, for TLC

ASSUME HrtCalloutAssumption ==
  /\ Periodic \subseteq Entries
  /\ Delays \subseteq Nat
  /\ Intervals \subseteq Nat \ {0}
  /\ IntervalMin \in Nat \ {0} /\ IntervalMax \in Nat /\ IntervalMin <= IntervalMax
  /\ "none" \notin Entries
  /\ IsFiniteSet(Tasks)
  /\ Slack \in Nat /\ Busy \in Nat /\ Horizon \in Nat

VARIABLES
  now,       \* hrt_absolute_time()
  queue,     \* callout_queue, head first
  deadline,  \* .deadline of each entry, 0 when it is not waiting
  period,    \* .period of each entry
  expiry,    \* when the esp_timer fires, 0 when it is not armed
  isr,       \* hrt_tim_isr: "idle", "enter", "loop" (holds the lock),
             \* "callout" (lock released), "resched"
  began,     \* when it was dispatched
  call,      \* hrt_call_invoke's locals: the entry, its saved deadline and
             \* the time sampled before the callout
  request,   \* per task: the arguments of a hrt_call_internal that has not
             \* taken the lock yet
  cancelled, \* history: the entries cancelled and not scheduled since
  owed,      \* history: per waiting entry, its deadline, or its insertion
             \* if it was overdue by then; 0 when it is not waiting
  first,     \* history: per periodic entry, its first deadline
  calls      \* history: and its callouts since

isrVars == <<isr, began, call>>
history == <<owed, first, calls>>
vars == <<now, queue, deadline, period, expiry, isr, began, call,
          request, cancelled, owed, first, calls>>

NoRequest == [entry |-> "none", deadline |-> 0, interval |-> 0]
NoCall == [entry |-> "none", deadline |-> 0, now |-> 0]

Init ==
  /\ now = 1
  /\ queue = <<>>
  /\ deadline = [e \in Entries |-> 0]
  /\ period = [e \in Entries |-> 0]
  /\ expiry = 0
  /\ isr = "idle"
  /\ began = 0
  /\ call = NoCall
  /\ request = [t \in Tasks |-> NoRequest]
  /\ cancelled = {}
  /\ owed = [e \in Entries |-> 0]
  /\ first = [e \in Entries |-> 0]
  /\ calls = [e \in Entries |-> 0]

-----------------------------------------------------------------------------
(* The queue and the timer.                                                *)

Latest(a, b) == IF a > b THEN a ELSE b

Queued == {queue[i] : i \in 1..Len(queue)}

\* hrt_absolute_time() of hrt_call_reschedule plus the delay it computes.
Reschedule(q, due) ==
  now + ( IF q = <<>> THEN IntervalMax
          ELSE LET next == due[Head(q)]
               IN  IF next <= now + IntervalMin THEN IntervalMin
                   ELSE IF next < now + IntervalMax THEN next - now
                   ELSE IntervalMax )

\* sq_rem: the queue without its i-th node.
RemoveAt(q, i) == SubSeq(q, 1, i - 1) \o SubSeq(q, i + 1, Len(q))

Without(q, e) ==
  IF \E i \in 1..Len(q) : q[i] = e
    THEN RemoveAt(q, CHOOSE i \in 1..Len(q) : q[i] = e)
    ELSE q

InsertAt(q, i, e) == SubSeq(q, 1, i - 1) \o <<e>> \o SubSeq(q, i, Len(q))

\* Where the walk of hrt_call_enter ends: behind every node that is due no
\* later.
Behind(q, i, e, due) ==
  /\ \A j \in 1..(i - 1) : due[q[j]] <= due[e]
  /\ i <= Len(q) => due[e] < due[q[i]]

\* Mutant: a new head does not move the timer.
EnterQuiet(q, e, due) ==
  \E i \in 1..(Len(q) + 1) :
    /\ Behind(q, i, e, due)
    /\ queue' = InsertAt(q, i, e)
    /\ expiry' = IF q = <<>> THEN Reschedule(queue', due) ELSE expiry
    /\ owed' = [owed EXCEPT ![e] = Latest(due[e], now)]

\* hrt_call_enter: an entry that becomes the head moves the timer.
Enter(q, e, due) ==
  \E i \in 1..(Len(q) + 1) :
    /\ Behind(q, i, e, due)
    /\ queue' = InsertAt(q, i, e)
    /\ expiry' = IF i = 1 THEN Reschedule(queue', due) ELSE expiry
    /\ owed' = [owed EXCEPT ![e] = Latest(due[e], now)]

-----------------------------------------------------------------------------
(* The callers.                                                            *)

LockFree == isr # "loop"

Started(e, due) ==
  /\ first' = IF e \in Periodic THEN [first EXCEPT ![e] = due] ELSE first
  /\ calls' = [calls EXCEPT ![e] = 0]

(* hrt_call_after, hrt_call_every and hrt_call_at, up to the lock.  The    *)
(* callers start a periodic entry once, or again after its cancellation,   *)
(* and never from within its own callout.                                  *)
Ask(t, e, delay, interval) ==
  /\ request[t] = NoRequest
  /\ e \in Periodic =>
       /\ deadline[e] = 0 /\ period[e] = 0 /\ call.entry # e
       /\ \A u \in Tasks : request[u].entry # e
  /\ request' = [request EXCEPT ![t] =
                   [entry |-> e, deadline |-> now + delay, interval |-> interval]]
  /\ UNCHANGED <<now, queue, deadline, period, expiry, isrVars, cancelled, history>>

\* Mutant: a queued entry is not removed first.
CallInternalTwice(t) ==
  /\ LockFree /\ request[t] # NoRequest
  /\ LET e == request[t].entry
     IN  /\ deadline' = [deadline EXCEPT ![e] = request[t].deadline]
         /\ period' = [period EXCEPT ![e] = request[t].interval]
         /\ Enter(queue, e, deadline')
         /\ cancelled' = cancelled \ {e}
         /\ Started(e, request[t].deadline)
  /\ request' = [request EXCEPT ![t] = NoRequest]
  /\ UNCHANGED <<now, isrVars>>

\* hrt_call_internal, under the lock.
CallInternal(t) ==
  /\ LockFree /\ request[t] # NoRequest
  /\ LET e == request[t].entry
         q == IF deadline[e] # 0 THEN Without(queue, e) ELSE queue
     IN  /\ deadline' = [deadline EXCEPT ![e] = request[t].deadline]
         /\ period' = [period EXCEPT ![e] = request[t].interval]
         /\ Enter(q, e, deadline')
         /\ cancelled' = cancelled \ {e}
         /\ Started(e, request[t].deadline)
  /\ request' = [request EXCEPT ![t] = NoRequest]
  /\ UNCHANGED <<now, isrVars>>

\* Mutant: the period survives the cancellation.
CancelKeepsPeriod(t, e) ==
  /\ LockFree /\ request[t] = NoRequest
  /\ queue' = Without(queue, e)
  /\ deadline' = [deadline EXCEPT ![e] = 0]
  /\ owed' = [owed EXCEPT ![e] = 0]
  /\ Started(e, 0)
  /\ cancelled' = cancelled \cup {e}
  /\ UNCHANGED <<now, period, expiry, isrVars, request>>

\* hrt_cancel: the timer keeps its expiry.
Cancel(t, e) ==
  /\ LockFree /\ request[t] = NoRequest
  /\ queue' = Without(queue, e)
  /\ deadline' = [deadline EXCEPT ![e] = 0]
  /\ period' = [period EXCEPT ![e] = 0]
  /\ owed' = [owed EXCEPT ![e] = 0]
  /\ Started(e, 0)
  /\ cancelled' = cancelled \cup {e}
  /\ UNCHANGED <<now, expiry, isrVars, request>>

-----------------------------------------------------------------------------
(* hrt_tim_isr, in the esp_timer task.                                     *)

Dispatch ==
  /\ isr = "idle" /\ expiry # 0 /\ now >= expiry
  /\ isr' = "enter"
  /\ began' = now
  /\ expiry' = 0
  /\ UNCHANGED <<now, queue, deadline, period, call, request, cancelled, history>>

Lock ==
  /\ isr = "enter"
  /\ isr' = "loop"
  /\ UNCHANGED <<now, queue, deadline, period, expiry, began, call,
                 request, cancelled, history>>

Due == queue # <<>> /\ deadline[Head(queue)] <= now

\* The head is due: it leaves the queue and the lock is released for it.
Invoke ==
  /\ isr = "loop" /\ Due
  /\ LET e == Head(queue)
     IN  /\ call' = [entry |-> e, deadline |-> deadline[e], now |-> now]
         /\ deadline' = [deadline EXCEPT ![e] = 0]
         /\ owed' = [owed EXCEPT ![e] = 0]
         /\ calls' = IF e \in Periodic THEN [calls EXCEPT ![e] = @ + 1] ELSE calls
  /\ queue' = Tail(queue)
  /\ isr' = "callout"
  /\ UNCHANGED <<now, period, expiry, began, request, cancelled, first>>

\* Mutant: the next period starts when the callout ran.
NextDeadlineDrifts(e) == call.now + period[e]

\* Mutant: the period is subtracted.
NextDeadlineBack(e) ==
  IF deadline[e] <= call.now THEN call.deadline - period[e] ELSE deadline[e]

\* deadline = saved deadline + period, unless the callout delayed itself.
NextDeadline(e) ==
  IF deadline[e] <= call.now THEN call.deadline + period[e] ELSE deadline[e]

\* The callout returns: a periodic entry is put back.
Return ==
  /\ isr = "callout"
  /\ LET e == call.entry
     IN  IF period[e] # 0
           THEN /\ deadline' = [deadline EXCEPT ![e] = NextDeadline(e)]
                /\ Enter(queue, e, deadline')
           ELSE UNCHANGED <<queue, deadline, expiry, owed>>
  /\ call' = NoCall
  /\ isr' = "loop"
  /\ UNCHANGED <<now, period, began, request, cancelled, first, calls>>

Unlock ==
  /\ isr = "loop" /\ ~Due
  /\ isr' = "resched"
  /\ UNCHANGED <<now, queue, deadline, period, expiry, began, call,
                 request, cancelled, history>>

\* The last reschedule, after the lock was free for a moment.
Rearm ==
  /\ isr = "resched"
  /\ expiry' = Reschedule(queue, deadline)
  /\ isr' = "idle"
  /\ began' = 0
  /\ UNCHANGED <<now, queue, deadline, period, call, request, cancelled, history>>

-----------------------------------------------------------------------------
(* The esp_timer task has the highest priority of Core 0's tasks: it runs  *)
(* within Slack of the expiry, and the callouts only queue work items.     *)
Tick ==
  /\ now < Horizon
  /\ isr = "idle" /\ expiry # 0 => now < expiry + Slack
  /\ isr # "idle" => now < began + Busy
  /\ now' = now + 1
  /\ UNCHANGED <<queue, deadline, period, expiry, isrVars, request, cancelled, history>>

IntervalsOf(e) == IF e \in Periodic THEN Intervals ELSE {0}

Caller(t) ==
  \/ \E e \in Entries, delay \in Delays : \E interval \in IntervalsOf(e) :
       Ask(t, e, delay, interval)
  \/ CallInternal(t)
  \/ \E e \in Entries : Cancel(t, e)

Isr == Dispatch \/ Lock \/ Invoke \/ Return \/ Unlock \/ Rearm

Next == (\E t \in Tasks : Caller(t)) \/ Isr \/ Tick

Spec == Init /\ [][Next]_vars

-----------------------------------------------------------------------------
(* Properties.                                                             *)

Names == Entries \cup {"none"}

TypeOK ==
  /\ now \in Nat \ {0}
  /\ queue \in Seq(Entries)
  /\ deadline \in [Entries -> Nat]
  /\ period \in [Entries -> Nat]
  /\ expiry \in Nat
  /\ isr \in {"idle", "enter", "loop", "callout", "resched"}
  /\ began \in Nat
  /\ call \in [entry : Names, deadline : Nat, now : Nat]
  /\ request \in [Tasks -> [entry : Names, deadline : Nat, interval : Nat]]
  /\ cancelled \in SUBSET Entries
  /\ owed \in [Entries -> Nat]
  /\ first \in [Entries -> Nat]
  /\ calls \in [Entries -> Nat]

(* Whatever tasks schedule and cancel while callouts run unlocked, the     *)
(* queue holds every waiting entry once, and in the order of deadlines:    *)
(* hrt_call_invoke looks at the head only, and a node linked twice makes   *)
(* the list circular.  An entry waits exactly while its deadline is set,   *)
(* which is what hrt_called() tells its callers.                           *)
QueueSound ==
  /\ \A i, j \in 1..Len(queue) : i < j =>
       queue[i] # queue[j] /\ deadline[queue[i]] <= deadline[queue[j]]
  /\ \A e \in Entries : e \in Queued <=> deadline[e] # 0

(* No deadline is lost, although insertions, cancellations, callouts and   *)
(* IntervalMax all move the timer.  It may be postponed, though: a task    *)
(* preempted between computing a deadline and taking the lock inserts an   *)
(* overdue entry at the head, and hrt_call_reschedule gives an expiry that *)
(* was already due another IntervalMin.  Each task can do that once before *)
(* a given entry, so an entry waits past its deadline (or its insertion)   *)
(* at most one timer run for each task and one for itself.                 *)
Lateness == (Cardinality(Tasks) + 1) * (IntervalMin + Slack) + Busy
NeverLate ==
  isr = "idle" =>
    \A e \in Queued : now <= owed[e] + Lateness

(* "prevent it from being re-entered when the callout returns": a          *)
(* cancelled entry stays out of the queue until it is scheduled again,     *)
(* also when it is cancelled while its own callout runs.                   *)
CancelSticks == cancelled \cap Queued = {}

(* "the call rate may jitter but should not drift": every callout of a     *)
(* periodic entry moves its deadline by exactly one period, however late   *)
(* it ran, however many periods it overran and whatever was cancelled or   *)
(* inserted meanwhile; none is skipped and none is served twice.           *)
NoDrift ==
  \A e \in Periodic \cap Queued : deadline[e] = first[e] + calls[e] * period[e]
=============================================================================
