---------------------------- MODULE WorkQueue -----------------------------
(***************************************************************************)
(* One PX4 work queue: WorkQueue.cpp with its worker thread, the items     *)
(* attached to it (WorkItem.cpp, ScheduledWorkItem.cpp), the intrusive     *)
(* list they are queued in (IntrusiveQueue.hpp), the esp_timer task that   *)
(* schedules timed items, and the threads that publish topics or start     *)
(* modules.  It lives from its creation to its destruction, when the last  *)
(* item has left.                                                          *)
(*                                                                         *)
(* A section under _qlock is one action of the thread that holds the lock; *)
(* taking the lock is another.  px4_sem is the sem_t of ESP-IDF (sem.h), a *)
(* FreeRTOS semaphore: its value is never negative, and giving it wakes    *)
(* the waiting thread of highest priority.                                 *)
(***************************************************************************)
EXTENDS Integers, Sequences, FiniteSets

CONSTANTS
  Items,    \* the WorkItem objects
  Timed,    \* those that are scheduled by the high-resolution timer too
  Callers,  \* threads that start modules and publish topics
  Worker,   \* the thread of WorkQueue::Run
  Timer,    \* the esp_timer task
  Nil       \* nullptr

Threads == Callers \cup {Worker, Timer}

ASSUME WorkQueueAssumption ==
  /\ IsFiniteSet(Items)
  /\ Timed \subseteq Items
  /\ Worker # Timer /\ Worker \notin Callers /\ Timer \notin Callers
  /\ Nil \notin Items \cup Threads

VARIABLES
  head, tail, next,  \* the intrusive queue _q
  attached,   \* _work_items
  wq,         \* the items whose _wq is not nullptr
  life,       \* per item: "none", "fresh" (constructed), "live" (its callback
              \* is registered), "closing", "dead"
  armed,      \* per item, its hrt_call: "off", "once" or "every"
  lock,       \* the holder of _qlock, or Nil
  sem,        \* _process_lock
  exitLock,   \* _exit_lock
  stop,       \* _should_exit
  listed,     \* in _wq_manager_wqs_list
  gone,       \* the WorkQueue, a local of the worker, is destroyed
  pc, arg,    \* per thread: where it is, the item its operation is about
  running,    \* the item the worker runs
  idle        \* history: the items nobody has scheduled since ScheduleClear

fifo == <<head, tail, next>>
items == <<attached, wq, life>>
queue == <<sem, exitLock, stop, listed, gone>>
vars == <<head, tail, next, attached, wq, life, armed, lock, sem, exitLock,
          stop, listed, gone, pc, arg, running, idle>>

Init ==
  /\ head = Nil /\ tail = Nil
  /\ next = [x \in Items |-> Nil]
  /\ attached = {} /\ wq = {}
  /\ life = [x \in Items |-> "none"]
  /\ armed = [x \in Items |-> "off"]
  /\ lock = Nil
  /\ sem = 0 /\ exitLock = 1
  /\ stop = FALSE /\ listed = TRUE /\ gone = FALSE
  /\ pc = [t \in Threads |-> IF t = Worker THEN "check" ELSE "idle"]
  /\ arg = [t \in Threads |-> Nil]
  /\ running = Nil
  /\ idle = {}

-----------------------------------------------------------------------------
(* The intrusive queue.                                                    *)

\* Mutant: the tail is not recognised as queued.
PushTail(x) ==
  IF next[x] # Nil
    THEN UNCHANGED fifo
    ELSE /\ head' = IF head = Nil THEN x ELSE head
         /\ next' = IF tail # Nil THEN [next EXCEPT ![tail] = x] ELSE next
         /\ tail' = x

\* push: a node that has a successor or is the tail is already queued.
Push(x) ==
  IF next[x] # Nil \/ x = tail
    THEN UNCHANGED fifo
    ELSE /\ head' = IF head = Nil THEN x ELSE head
         /\ next' = IF tail # Nil THEN [next EXCEPT ![tail] = x] ELSE next
         /\ tail' = x

Pop ==
  /\ head' = IF head # tail THEN next[head] ELSE Nil
  /\ tail' = IF head # tail THEN tail ELSE Nil
  /\ next' = [next EXCEPT ![head] = Nil]

\* Mutant: the tail stays on the removed node.
UnlinkTail(x) ==
  IF x = head
    THEN /\ head' = next[x]
         /\ tail' = IF next[x] = Nil THEN Nil ELSE tail
         /\ next' = [next EXCEPT ![x] = Nil]
    ELSE IF \E y \in Items : next[y] = x
      THEN LET y == CHOOSE y \in Items : next[y] = x
           IN  /\ next' = [next EXCEPT ![y] = next[x], ![x] = Nil]
               /\ UNCHANGED <<head, tail>>
      ELSE UNCHANGED fifo

\* remove: the head, or the successor of some node on the way from it.
Unlink(x) ==
  IF x = head
    THEN /\ head' = next[x]
         /\ tail' = IF next[x] = Nil THEN Nil ELSE tail
         /\ next' = [next EXCEPT ![x] = Nil]
    ELSE IF \E y \in Items : next[y] = x
      THEN LET y == CHOOSE y \in Items : next[y] = x
           IN  /\ tail' = IF x = tail THEN y ELSE tail
               /\ next' = [next EXCEPT ![y] = next[x], ![x] = Nil]
               /\ UNCHANGED head
      ELSE UNCHANGED fifo

-----------------------------------------------------------------------------
(* The lock and the threads.                                               *)

Holds(t) == lock = t

\* A thread between two operations: the worker is inside Run() of an item.
Home(t) == IF t = Worker THEN "run" ELSE "idle"

Goto(t, label) == pc' = [pc EXCEPT ![t] = label]

\* Begins an operation on x.
Begin(t, x, label) ==
  /\ Goto(t, label)
  /\ arg' = [arg EXCEPT ![t] = x]

\* work_lock(), the first step of every section.
Sections == {"add", "remove", "attach", "detach", "loop", "destroy"}
Lock(t) ==
  /\ pc[t] \in Sections /\ lock = Nil /\ ~gone
  /\ lock' = t
  /\ UNCHANGED <<fifo, items, armed, queue, pc, arg, running, idle>>

Release == lock' = Nil

Free(t) == t # Timer /\ pc[t] = Home(t)

-----------------------------------------------------------------------------
(* Scheduling.                                                             *)

(* WorkItem::ScheduleNow, by a publisher whose topic x subscribes to with a *)
(* callback, or by the Run() of an item of this queue.                     *)
ScheduleNow(t, x) ==
  /\ Free(t) /\ life[x] = "live" /\ x \in wq
  /\ Begin(t, x, "add")
  /\ idle' = idle \ {x}
  /\ UNCHANGED <<fifo, items, armed, lock, queue, running>>

\* WorkQueue::Add under the lock.
Add(t) ==
  /\ Holds(t) /\ pc[t] = "add"
  /\ Push(arg[t])
  /\ Release
  /\ Goto(t, "signal")
  /\ UNCHANGED <<items, armed, queue, arg, running, idle>>

\* Where SignalWorkerThread returns to: Detach (still locked) or Add.
Signalled(t) == IF Holds(t) THEN "unlock" ELSE Home(t)

\* Mutant: the test that is right for a semaphore whose value counts waiters.
SignalLate(t) ==
  /\ pc[t] = "signal"
  /\ Goto(t, IF sem < 0 THEN "post" ELSE Signalled(t))
  /\ UNCHANGED <<fifo, items, armed, lock, queue, arg, running, idle>>

\* SignalWorkerThread: px4_sem_getvalue ...
Signal(t) ==
  /\ pc[t] = "signal"
  /\ Goto(t, IF sem <= 0 THEN "post" ELSE Signalled(t))
  /\ UNCHANGED <<fifo, items, armed, lock, queue, arg, running, idle>>

\* ... and px4_sem_post.
Post(t) ==
  /\ pc[t] = "post"
  /\ sem' = sem + 1
  /\ Goto(t, Signalled(t))
  /\ UNCHANGED <<fifo, items, armed, lock, exitLock, stop, listed, gone,
                 arg, running, idle>>

(* ScheduleDelayed, ScheduleAt and ScheduleOnInterval, from the item's own  *)
(* Run().                                                                   *)
ScheduleTimer(x) ==
  /\ pc[Worker] = "run" /\ running = x /\ x \in Timed /\ life[x] = "live"
  /\ \E kind \in {"once", "every"} : armed' = [armed EXCEPT ![x] = kind]
  /\ idle' = idle \ {x}
  /\ UNCHANGED <<fifo, items, lock, queue, pc, arg, running>>

(* schedule_trampoline in hrt_call_invoke, which calls ScheduleNow.  A      *)
(* periodic entry is put back unless it is cancelled meanwhile, that is,   *)
(* it stays armed.                                                         *)
Fire(x) ==
  /\ pc[Timer] = "idle" /\ armed[x] # "off"
  /\ armed' = IF armed[x] = "once" THEN [armed EXCEPT ![x] = "off"] ELSE armed
  /\ IF x \in wq THEN Begin(Timer, x, "add") ELSE UNCHANGED <<pc, arg>>
  /\ UNCHANGED <<fifo, items, lock, queue, running, idle>>

-----------------------------------------------------------------------------
(* ScheduleClear.                                                          *)

\* No publisher is calling the callback of x.
Unscheduled(x) ==
  \A t \in Callers : ~(pc[t] \in {"add", "signal", "post"} /\ arg[t] = x)

Cancelled(x) == armed' = [armed EXCEPT ![x] = "off"]

(* ScheduledWorkItem::ScheduleClear, by the item's own Run() (every caller  *)
(* of the firmware, apart from the destructor): hrt_cancel ...             *)
ScheduleClear(x) ==
  /\ pc[Worker] = "run" /\ running = x /\ x \in Timed /\ life[x] = "live"
  /\ Cancelled(x)
  /\ Goto(Worker, "clear")
  /\ arg' = [arg EXCEPT ![Worker] = x]
  /\ idle' = IF Unscheduled(x) THEN idle \cup {x} ELSE idle
  /\ UNCHANGED <<fifo, items, lock, queue, running>>

\* Mutant: a timed item is cancelled but stays in the queue.
ClearTimerOnly(t) ==
  /\ pc[t] = "clear"
  /\ IF life[arg[t]] = "closing"
       THEN Goto(t, "remove")
       ELSE Goto(t, Home(t))
  /\ UNCHANGED <<fifo, items, armed, lock, queue, arg, running, idle>>

\* ... then WorkItem::ScheduleClear: Remove, if there is a queue.
ClearQueued(t) ==
  /\ pc[t] = "clear"
  /\ IF arg[t] \in wq
       THEN Goto(t, "remove")
       ELSE Goto(t, Home(t))
  /\ UNCHANGED <<fifo, items, armed, lock, queue, arg, running, idle>>

(* WorkQueue::Remove under the lock: the end of ScheduleClear, unless it   *)
(* is part of a destructor, which goes on.                                 *)
Remove(t) ==
  /\ Holds(t) /\ pc[t] = "remove"
  /\ Unlink(arg[t])
  /\ Release
  /\ Goto(t, IF life[arg[t]] # "closing" THEN Home(t)
             ELSE IF arg[t] \in wq THEN "deinit" ELSE "detach")
  /\ UNCHANGED <<items, armed, queue, arg, running, idle>>

-----------------------------------------------------------------------------
(* The life of an item.                                                    *)

\* WorkQueueFindOrCreate: the list is searched under a lock of its own, and
\* the pointer found is used when that lock is released.
Find(t, x) ==
  /\ t \in Callers /\ Free(t) /\ life[x] = "none" /\ listed
  /\ life' = [life EXCEPT ![x] = "fresh"]
  /\ Begin(t, x, "attach")
  /\ UNCHANGED <<fifo, attached, wq, armed, lock, queue, running, idle>>

\* If the queue is destroyed by then, so is _qlock.
Lost(t) ==
  /\ pc[t] = "attach" /\ gone
  /\ Goto(t, "lost")
  /\ UNCHANGED <<fifo, items, armed, lock, queue, arg, running, idle>>

\* WorkQueue::Attach under the lock, and WorkItem::Init.
Attach(t) ==
  /\ Holds(t) /\ pc[t] = "attach"
  /\ IF ~stop
       THEN attached' = attached \cup {arg[t]} /\ wq' = wq \cup {arg[t]}
       ELSE UNCHANGED <<attached, wq>>
  /\ Release
  /\ Goto(t, "init")
  /\ UNCHANGED <<fifo, life, armed, queue, arg, running, idle>>

\* task_spawn: init() registers the callback or starts the timer ...
Start(t) ==
  /\ pc[t] = "init"
  /\ life' = [life EXCEPT ![arg[t]] = "live"]
  /\ \E kind \in IF arg[t] \in Timed THEN {"off", "once", "every"} ELSE {"off"} :
       armed' = [armed EXCEPT ![arg[t]] = kind]
  /\ Goto(t, "idle")
  /\ UNCHANGED <<fifo, attached, wq, lock, queue, arg, running, idle>>

\* ... or fails, and the object is deleted at once.
StartFails(t) ==
  /\ pc[t] = "init"
  /\ life' = [life EXCEPT ![arg[t]] = "closing"]
  /\ Goto(t, "deinit")
  /\ UNCHANGED <<fifo, attached, wq, armed, lock, queue, arg, running, idle>>

\* Mutant: the destructor does not cancel the timer.
ExitArmed(x) ==
  /\ pc[Worker] = "run" /\ running = x /\ life[x] = "live" /\ Unscheduled(x)
  /\ life' = [life EXCEPT ![x] = "closing"]
  /\ arg' = [arg EXCEPT ![Worker] = x]
  /\ Goto(Worker, "deinit")
  /\ UNCHANGED <<fifo, attached, wq, armed, lock, queue, running, idle>>

(* Run() finds should_exit: it unregisters the callback, which waits for   *)
(* the publishers that are just calling it (uORB::DeviceNode::write calls  *)
(* it with the topic locked), and deletes the item; the destructor of a    *)
(* timed item begins with ScheduleClear.                                   *)
Exit(x) ==
  /\ pc[Worker] = "run" /\ running = x /\ life[x] = "live" /\ Unscheduled(x)
  /\ life' = [life EXCEPT ![x] = "closing"]
  /\ arg' = [arg EXCEPT ![Worker] = x]
  /\ IF x \in Timed
       THEN Cancelled(x) /\ Goto(Worker, "clear")
       ELSE Goto(Worker, "deinit") /\ UNCHANGED armed
  /\ UNCHANGED <<fifo, attached, wq, lock, queue, running, idle>>

\* WorkItem::Deinit: _wq is cleared first, to prevent additional insertions.
Deinit(t) ==
  /\ pc[t] = "deinit"
  /\ wq' = wq \ {arg[t]}
  /\ IF arg[t] \in wq
       THEN Goto(t, "remove") /\ UNCHANGED life
       ELSE Goto(t, Home(t)) /\ life' = [life EXCEPT ![arg[t]] = "dead"]
  /\ UNCHANGED <<fifo, attached, armed, lock, queue, arg, running, idle>>

\* Mutant: Detach without the exit lock.
DetachUnguarded(t) ==
  /\ Holds(t) /\ pc[t] = "detach"
  /\ attached' = attached \ {arg[t]}
  /\ IF attached' = {}
       THEN /\ stop' = TRUE /\ Goto(t, "signal") /\ UNCHANGED lock
            /\ UNCHANGED <<sem, exitLock, listed, gone>>
       ELSE /\ Goto(t, Home(t)) /\ Release
            /\ UNCHANGED queue
  /\ life' = IF attached' = {} THEN life ELSE [life EXCEPT ![arg[t]] = "dead"]
  /\ UNCHANGED <<fifo, wq, armed, arg, running, idle>>

\* WorkQueue::Detach: the last item stops the queue ...
Detach(t) ==
  /\ Holds(t) /\ pc[t] = "detach"
  /\ attached' = attached \ {arg[t]}
  /\ IF attached' = {}
       THEN /\ exitLock > 0 /\ exitLock' = exitLock - 1
            /\ stop' = TRUE
            /\ Goto(t, "signal")
            /\ UNCHANGED <<sem, listed, gone, lock>>
       ELSE /\ Goto(t, Home(t)) /\ Release
            /\ UNCHANGED queue
  /\ life' = IF attached' = {} THEN life ELSE [life EXCEPT ![arg[t]] = "dead"]
  /\ UNCHANGED <<fifo, wq, armed, arg, running, idle>>

Unlock(t) ==
  /\ pc[t] = "unlock"
  /\ Release
  /\ Goto(t, "exitpost")
  /\ UNCHANGED <<fifo, items, armed, queue, arg, running, idle>>

\* ... and posts the exit lock once it does not use the queue any more.
ExitPost(t) ==
  /\ pc[t] = "exitpost"
  /\ exitLock' = exitLock + 1
  /\ life' = [life EXCEPT ![arg[t]] = "dead"]
  /\ Goto(t, Home(t))
  /\ UNCHANGED <<fifo, attached, wq, armed, lock, sem, stop, listed, gone, arg,
                 running, idle>>

-----------------------------------------------------------------------------
(* The worker: WorkQueue::Run and the end of WorkQueueRunner.              *)

Check ==
  /\ pc[Worker] = "check"
  /\ Goto(Worker, IF stop THEN "unlist" ELSE "wait")
  /\ UNCHANGED <<fifo, items, armed, lock, queue, arg, running, idle>>

\* px4_sem_wait
Wait ==
  /\ pc[Worker] = "wait" /\ sem > 0
  /\ sem' = sem - 1
  /\ Goto(Worker, "loop")
  /\ UNCHANGED <<fifo, items, armed, lock, exitLock, stop, listed, gone, arg,
                 running, idle>>

\* Run() returns, and the worker locks the queue again.
Return ==
  /\ pc[Worker] = "run"
  /\ running' = Nil
  /\ Begin(Worker, Nil, "loop")
  /\ UNCHANGED <<fifo, items, armed, lock, queue, idle>>

\* The head of the queue is popped and run, with the lock released.
Take ==
  /\ Holds(Worker) /\ pc[Worker] = "loop" /\ head # Nil
  /\ Pop
  /\ Release
  /\ running' = head
  /\ Goto(Worker, "run")
  /\ UNCHANGED <<items, armed, queue, arg, idle>>

Drained ==
  /\ Holds(Worker) /\ pc[Worker] = "loop" /\ head = Nil
  /\ Release
  /\ Goto(Worker, "check")
  /\ UNCHANGED <<fifo, items, armed, queue, arg, running, idle>>

Unlist ==
  /\ pc[Worker] = "unlist"
  /\ listed' = FALSE
  /\ Goto(Worker, "destroy")
  /\ UNCHANGED <<fifo, items, armed, lock, sem, exitLock, stop, gone, arg, running, idle>>

\* Mutant: it takes the exit lock without waiting for it.
DestroyEarly ==
  /\ Holds(Worker) /\ pc[Worker] = "destroy"
  /\ exitLock' = exitLock - 1
  /\ gone' = TRUE
  /\ Release
  /\ Goto(Worker, "ended")
  /\ UNCHANGED <<fifo, items, armed, sem, stop, listed, arg, running, idle>>

\* ~WorkQueue, under the lock: the exit lock makes it wait for Detach.
Destroy ==
  /\ Holds(Worker) /\ pc[Worker] = "destroy" /\ exitLock > 0
  /\ exitLock' = exitLock - 1
  /\ gone' = TRUE
  /\ Release
  /\ Goto(Worker, "ended")
  /\ UNCHANGED <<fifo, items, armed, sem, stop, listed, arg, running, idle>>

-----------------------------------------------------------------------------
Operation(t) ==
  \/ Lock(t)
  \/ Add(t) \/ Signal(t) \/ Post(t)
  \/ ClearQueued(t) \/ Remove(t)
  \/ Lost(t) \/ Attach(t) \/ Start(t) \/ StartFails(t)
  \/ Deinit(t) \/ Detach(t) \/ Unlock(t) \/ ExitPost(t)

\* The timer task only adds items.
TimerOperation == Lock(Timer) \/ Add(Timer) \/ Signal(Timer) \/ Post(Timer)

WorkerLoop == Check \/ Wait \/ Take \/ Drained \/ Unlist \/ Destroy

(* The timer task has a higher priority than every thread that uses the    *)
(* queue: while it can run, none of them does, and a lock they release     *)
(* while it waits is its own.                                              *)
TimerRuns ==
  pc[Timer] \in {"signal", "post"} \/ (pc[Timer] = "add" /\ lock \in {Nil, Timer})

Next ==
  \/ TimerOperation
  \/ /\ ~TimerRuns
     /\ \/ \E t \in Callers \cup {Worker} : Operation(t)
        \/ \E t \in Callers \cup {Worker}, x \in Items : ScheduleNow(t, x) \/ Find(t, x)
        \/ \E x \in Items : ScheduleTimer(x) \/ ScheduleClear(x) \/ Fire(x) \/ Exit(x)
        \/ WorkerLoop \/ Return

Safety == Init /\ [][Next]_vars

(* FreeRTOS runs a thread that is ready again and again, and the queue is  *)
(* not locked for ever by others: an operation that was begun goes on (SF, *)
(* the lock is free again and again).  Return ends a Run(): every Run()    *)
(* returns, however many items it schedules before.  Nothing makes a       *)
(* publisher publish, a timer fire or a module exit.                       *)
Spec ==
  /\ Safety
  /\ SF_vars(TimerOperation)
  /\ \A t \in Callers \cup {Worker} : SF_vars(Operation(t))
  /\ WF_vars(WorkerLoop)
  /\ SF_vars(Return)

-----------------------------------------------------------------------------
(* Properties.                                                             *)

Labels ==
  {"idle", "add", "signal", "post", "clear", "remove", "attach", "lost",
   "init", "deinit", "detach", "unlock", "exitpost", "check", "wait", "loop",
   "run", "unlist", "destroy", "ended"}

TypeOK ==
  /\ head \in Items \cup {Nil} /\ tail \in Items \cup {Nil}
  /\ next \in [Items -> Items \cup {Nil}]
  /\ attached \in SUBSET Items /\ wq \in SUBSET Items
  /\ life \in [Items -> {"none", "fresh", "live", "closing", "dead"}]
  /\ armed \in [Items -> {"off", "once", "every"}]
  /\ lock \in Threads \cup {Nil}
  /\ sem \in Nat /\ exitLock \in Nat
  /\ stop \in BOOLEAN /\ listed \in BOOLEAN /\ gone \in BOOLEAN
  /\ pc \in [Threads -> Labels]
  /\ arg \in [Threads -> Items \cup {Nil}]
  /\ running \in Items \cup {Nil}
  /\ idle \in SUBSET Items

\* The nodes on the way from the head, at most as many as there are items.
Node[i \in Nat] ==
  IF i = 0 THEN head ELSE IF Node[i - 1] = Nil THEN Nil ELSE next[Node[i - 1]]

Queued ==
  LET onTheWay == {i \in 1..Cardinality(Items) : Node[i - 1] # Nil}
  IN  [i \in 1..Cardinality(onTheWay) |-> Node[i - 1]]

InQueue(x) == \E i \in 1..Len(Queued) : Queued[i] = x

(* push() takes a node for queued when it has a successor or is the tail,  *)
(* and appends behind the tail without looking at the list.  Both are      *)
(* right only if, after any pushes, pops and removals, the way from the    *)
(* head ends at the tail and nodes outside the queue have no successor;    *)
(* otherwise an item is dropped for ever or the list becomes circular.     *)
QueueSound ==
  /\ (head = Nil) = (tail = Nil)
  /\ Queued # <<>> => Queued[Len(Queued)] = tail /\ next[tail] = Nil
  /\ \A x \in Items : ~InQueue(x) => next[x] = Nil

(* The queue is a list of pending items in the order of their scheduling,  *)
(* each at most once.                                                      *)
List == INSTANCE WorkList WITH pending <- Queued
ImplementsWorkList == List!Spec

(* SignalWorkerThread posts only if it reads a value of zero, and the       *)
(* worker tests the queue and waits in separate steps.  The worker never   *)
(* waits, and is never about to, with an item in the queue, unless a post  *)
(* is left for it or some thread is just about to post.                    *)
NoLostWakeup ==
  head # Nil /\ pc[Worker] \in {"check", "wait"} =>
    \/ sem > 0
    \/ \E t \in Threads : pc[t] \in {"signal", "post"}

(* "Clear any scheduled work": when ScheduleClear has returned and nobody  *)
(* has scheduled the item since, it is neither armed nor queued, and the   *)
(* timer task is not about to queue it.  hrt_cancel does not wait for a    *)
(* callout in flight; that callout, in the task of highest priority, gets  *)
(* _qlock before the Remove that follows.                                  *)
Clearing(x) == \E t \in Threads : pc[t] \in {"clear", "remove"} /\ arg[t] = x
ClearSticks ==
  \A x \in idle : ~Clearing(x) =>
    /\ armed[x] = "off" /\ ~InQueue(x)
    /\ ~(pc[Timer] = "add" /\ arg[Timer] = x)

(* A deleted item has no queue and is in none: it is neither attached nor  *)
(* in the list of work, its timer is off, and the timer task is not about  *)
(* to add it.  Its deletion races with publishers and the timer task.      *)
DeadIsUnreachable ==
  \A x \in Items : life[x] = "dead" =>
    /\ x \notin wq /\ x \notin attached /\ armed[x] = "off" /\ ~InQueue(x)
    /\ ~(pc[Timer] = "add" /\ arg[Timer] = x)

(* "Use a separate lock to prevent premature deletion": when the queue is  *)
(* destroyed no item is left in it, and no thread that came by an item is  *)
(* still inside one of its operations.  (Threads that only found it in the *)
(* list are not protected: they may be lost.)                              *)
Using == {"add", "signal", "post", "remove", "detach", "unlock", "exitpost"}
ExitSafe ==
  gone => attached = {} /\ head = Nil /\ \A t \in Threads : pc[t] \notin Using

(* An item that is scheduled runs, or somebody clears or deletes it.       *)
Served ==
  \A x \in Items :
    (\E t \in Threads : pc[t] = "add" /\ arg[t] = x) ~> (running = x \/ Clearing(x))
=============================================================================
