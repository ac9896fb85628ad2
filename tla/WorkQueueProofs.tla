-------------------------- MODULE WorkQueueProofs --------------------------
(***************************************************************************)
(* Proofs about WorkQueue, for every set of items and of threads: its type *)
(* invariant, that no wake-up is lost, that a queue is not destroyed under *)
(* its users, that the intrusive list implements the list of pending items *)
(* and that an item cleared or deleted stays out of it.                    *)
(*                                                                         *)
(* What the destructor relies on is spread over the threads: which of them *)
(* holds the lock, whose operation ends the life of an item, and that an   *)
(* item somebody schedules is still attached.  The timer task is the hard  *)
(* case: it may be about to add an item whose destructor has begun, and    *)
(* only its priority gets it the lock before the destructor's Remove.      *)
(***************************************************************************)
EXTENDS WorkQueue, FiniteSetTheorems, WellFoundedInduction, TLAPS

-----------------------------------------------------------------------------
(* The inductive invariant.                                                *)

TimerLabels == {"idle", "add", "signal", "post"}
CallerLabels ==
  TimerLabels \cup {"attach", "lost", "init", "deinit", "remove", "detach",
                 "unlock", "exitpost"}
WorkerLabels == Labels \ {"idle", "attach", "lost", "init"}

\* The labels of operations on an item.
ItemLabels ==
  Labels \ {"idle", "check", "wait", "loop", "run", "unlist", "destroy", "ended"}

\* Where the threads can be.
WhereInv ==
  /\ pc[Timer] \in TimerLabels
  /\ \A t \in Callers : pc[t] \in CallerLabels
  /\ pc[Worker] \in WorkerLabels
  /\ \A t \in Threads : pc[t] \in ItemLabels => arg[t] \in Items
  /\ pc[Worker] \in {"unlist", "destroy", "ended"} => stop
  /\ gone => pc[Worker] = "ended" /\ lock = Nil

\* The holder of the lock is in a section, or in Detach.
LockInv ==
  \A t \in Threads :
    /\ Holds(t) => pc[t] \in Sections \cup {"signal", "post", "unlock"}
    /\ pc[t] = "unlock" => Holds(t)
    /\ t = Timer /\ Holds(t) => pc[t] = "add"

\* The end of Detach of the last item.
Ending(t) ==
  \/ pc[t] \in {"unlock", "exitpost"}
  \/ Holds(t) /\ pc[t] \in {"signal", "post"}

ExitInv ==
  /\ exitLock <= 1
  /\ \A t \in Threads : Ending(t) => exitLock = 0
  /\ \A t, u \in Threads : Ending(t) /\ Ending(u) => t = u
  /\ gone => \A t \in Threads : pc[t] # "exitpost"

\* The operations that begin or end the life of an item, and ScheduleClear.
Owns(t) ==
  \/ pc[t] \in {"attach", "lost", "init", "clear", "remove", "deinit", "detach"}
  \/ Ending(t)

LifeInv ==
  \A t \in Threads :
    /\ pc[t] \in {"attach", "lost", "init"} => life[arg[t]] = "fresh"
    /\ pc[t] \in {"deinit", "detach"} \/ Ending(t) => life[arg[t]] = "closing"
    /\ pc[t] \in {"clear", "remove"} =>
         life[arg[t]] = "closing" \/ (life[arg[t]] = "live" /\ t = Worker)

OwnerInv ==
  \A t, u \in Threads : Owns(t) /\ Owns(u) /\ arg[t] = arg[u] => t = u

\* Threads that add an item.
Adds(t) == pc[t] = "add" \/ (pc[t] \in {"signal", "post"} /\ ~Holds(t))

UseInv ==
  /\ wq \subseteq attached
  /\ stop => attached = {}
  /\ \A t \in Threads :
       /\ Adds(t) => arg[t] \in wq
       /\ Adds(t) /\ t # Timer => life[arg[t]] = "live"
       /\ pc[t] \in {"remove", "detach"} => arg[t] \in attached
       /\ pc[t] = "detach" => arg[t] \notin wq

\* The timer task may be about to add an item that is being deleted, but the
\* destructor has not yet got the lock.
TimerInv ==
  /\ \A x \in Items : armed[x] # "off" => x \in Timed /\ life[x] = "live"
  /\ pc[Timer] # "idle" =>
       /\ arg[Timer] \in Timed
       /\ \/ life[arg[Timer]] = "live"
          \/ /\ life[arg[Timer]] = "closing"
             /\ pc[Worker] \in {"clear", "remove"} /\ ~Holds(Worker)
             /\ arg[Worker] = arg[Timer]

\* The intrusive list, as far as two neighbours can tell.
ListInv ==
  /\ (head = Nil) = (tail = Nil)
  /\ tail # Nil => next[tail] = Nil
  /\ \A y \in Items : next[y] = head => head = Nil
  /\ \A y, z \in Items : next[y] = next[z] => y = z \/ next[y] = Nil
  /\ \A x \in Items : x = head \/ (\E y \in Items : next[y] = x) =>
       x = tail \/ next[x] # Nil

Linked(x) == x = head \/ \E y \in Items : next[y] = x

LinkInv ==
  /\ \A x \in Items : Linked(x) => x \in attached
  /\ \A t \in Threads : pc[t] = "detach" => ~Linked(arg[t])

IInv ==
  /\ TypeOK
  /\ WhereInv /\ LockInv /\ ExitInv
  /\ LifeInv /\ OwnerInv /\ UseInv /\ TimerInv
  /\ ListInv /\ LinkInv
  /\ NoLostWakeup

-----------------------------------------------------------------------------
(* What push, pop and remove do to the list.                               *)

\* push() of an item that is queued already, or is not.
LEMMA PushFacts ==
  ASSUME TypeOK, ListInv, NEW x \in Items, Push(x)
  PROVE  /\ head' \in Items \cup {Nil} /\ tail' \in Items \cup {Nil}
         /\ next' \in [Items -> Items \cup {Nil}]
         /\ ListInv'
         /\ \A z \in Items : Linked(z)' => Linked(z) \/ z = x
<1> USE WorkQueueAssumption DEF TypeOK, ListInv, Linked, fifo
<1>1. CASE next[x] # Nil \/ x = tail
  BY <1>1 DEF Push
<1>2. CASE ~(next[x] # Nil \/ x = tail)
  <2>1. CASE tail = Nil
    BY <1>2, <2>1 DEF Push
  <2>2. CASE tail # Nil
    BY <1>2, <2>2 DEF Push
  <2> QED
    BY <2>1, <2>2
<1> QED
  BY <1>1, <1>2

\* pop() of a list that is not empty.
LEMMA PopFacts ==
  ASSUME TypeOK, ListInv, head # Nil, Pop
  PROVE  /\ head' \in Items \cup {Nil} /\ tail' \in Items \cup {Nil}
         /\ next' \in [Items -> Items \cup {Nil}]
         /\ ListInv'
         /\ \A z \in Items : Linked(z)' => Linked(z)
BY WorkQueueAssumption DEF Pop, TypeOK, ListInv, Linked

\* remove() of the head, of a later node, of a node that is not queued.
LEMMA UnlinkFacts ==
  ASSUME TypeOK, ListInv, NEW x \in Items, Unlink(x)
  PROVE  /\ head' \in Items \cup {Nil} /\ tail' \in Items \cup {Nil}
         /\ next' \in [Items -> Items \cup {Nil}]
         /\ ListInv'
         /\ \A z \in Items : Linked(z)' => Linked(z) /\ z # x
         /\ head = Nil => head' = Nil
<1> USE WorkQueueAssumption DEF TypeOK, ListInv, Linked, fifo
<1>1. CASE x = head
  BY <1>1 DEF Unlink
<1>2. CASE x # head /\ \E y \in Items : next[y] = x
  <2>1. PICK y \in Items :
          /\ next[y] = x
          /\ tail' = IF x = tail THEN y ELSE tail
          /\ next' = [next EXCEPT ![y] = next[x], ![x] = Nil]
          /\ head' = head
    BY <1>2 DEF Unlink
  <2>2. \A z \in Items : next[z] = x => z = y
    BY <2>1
  <2> QED
    BY <1>2, <2>1, <2>2
<1>3. CASE x # head /\ ~\E y \in Items : next[y] = x
  BY <1>3 DEF Unlink
<1> QED
  BY <1>1, <1>2, <1>3

-----------------------------------------------------------------------------
(* The parts of the invariant, one by one: for each, a step per action.    *)

\* The type invariant is kept.
LEMMA TypeStep ==
  ASSUME TypeOK, WhereInv, ListInv, Next
  PROVE  TypeOK'
<1> USE WorkQueueAssumption
    DEF Threads, fifo, items, queue, Goto, Home, Holds, Release,
        TypeOK, WhereInv, Labels, ItemLabels, Sections
<1>1. ASSUME NEW t \in Threads, Lock(t) PROVE TypeOK'
  BY <1>1 DEF Lock
<1>2. ASSUME NEW t \in Threads, Add(t) PROVE TypeOK'
  BY <1>2 DEF Add, Push
<1>3. ASSUME NEW t \in Threads, Signal(t) PROVE TypeOK'
  BY <1>3 DEF Signal, Signalled
<1>4. ASSUME NEW t \in Threads, Post(t) PROVE TypeOK'
  BY <1>4 DEF Post, Signalled
<1>5. ASSUME NEW t \in Callers \cup {Worker}, ClearQueued(t) PROVE TypeOK'
  BY <1>5 DEF ClearQueued
<1>6. ASSUME NEW t \in Callers \cup {Worker}, Remove(t) PROVE TypeOK'
  <2>1. arg[t] \in Items
    BY <1>6 DEF Remove
  <2>2. /\ head' \in Items \cup {Nil} /\ tail' \in Items \cup {Nil}
        /\ next' \in [Items -> Items \cup {Nil}]
    BY <1>6, <2>1, UnlinkFacts DEF Remove
  <2> QED
    BY <1>6, <2>2 DEF Remove
<1>7. ASSUME NEW t \in Callers \cup {Worker}, Lost(t) PROVE TypeOK'
  BY <1>7 DEF Lost
<1>8. ASSUME NEW t \in Callers \cup {Worker}, Attach(t) PROVE TypeOK'
  BY <1>8 DEF Attach
<1>9. ASSUME NEW t \in Callers \cup {Worker}, Start(t) PROVE TypeOK'
  BY <1>9 DEF Start
<1>10. ASSUME NEW t \in Callers \cup {Worker}, StartFails(t) PROVE TypeOK'
  BY <1>10 DEF StartFails
<1>11. ASSUME NEW t \in Callers \cup {Worker}, Deinit(t) PROVE TypeOK'
  BY <1>11 DEF Deinit
<1>12. ASSUME NEW t \in Callers \cup {Worker}, Detach(t) PROVE TypeOK'
  <2>1. CASE attached' = {}
    <3>1. /\ attached' = attached \ {arg[t]} /\ life' = life
          /\ exitLock > 0 /\ exitLock' = exitLock - 1
          /\ stop' = TRUE
          /\ pc' = [pc EXCEPT ![t] = "signal"]
          /\ UNCHANGED <<sem, listed, gone, lock>>
          /\ UNCHANGED <<head, tail, next, wq, armed, arg, running, idle>>
      BY <1>12, <2>1 DEF Detach
    <3>2. exitLock \in Nat
      OBVIOUS
    <3>3. exitLock' \in Nat
      BY <3>1, <3>2
    <3>4. pc' \in [Threads -> Labels]
      BY <3>1
    <3> QED
      BY <3>1, <3>3, <3>4
  <2>2. CASE attached' # {}
    BY <1>12, <2>2 DEF Detach
  <2> QED
    BY <2>1, <2>2
<1>13. ASSUME NEW t \in Callers \cup {Worker}, Unlock(t) PROVE TypeOK'
  BY <1>13 DEF Unlock
<1>14. ASSUME NEW t \in Callers \cup {Worker}, ExitPost(t) PROVE TypeOK'
  BY <1>14 DEF ExitPost
<1>15. ASSUME NEW t \in Callers \cup {Worker}, NEW x \in Items, ScheduleNow(t, x) PROVE TypeOK'
  BY <1>15 DEF ScheduleNow, Begin, Free
<1>16. ASSUME NEW t \in Callers \cup {Worker}, NEW x \in Items, Find(t, x) PROVE TypeOK'
  BY <1>16 DEF Find, Begin, Free
<1>17. ASSUME NEW x \in Items, ScheduleTimer(x) PROVE TypeOK'
  BY <1>17 DEF ScheduleTimer
<1>18. ASSUME NEW x \in Items, ScheduleClear(x) PROVE TypeOK'
  BY <1>18 DEF ScheduleClear, Cancelled, Unscheduled
<1>19. ASSUME NEW x \in Items, Fire(x) PROVE TypeOK'
  BY <1>19 DEF Fire, Begin
<1>20. ASSUME NEW x \in Items, Exit(x) PROVE TypeOK'
  BY <1>20 DEF Exit, Cancelled, Unscheduled
<1>21. CASE Check
  BY <1>21 DEF Check
<1>22. CASE Wait
  BY <1>22 DEF Wait
<1>23. CASE Take
  BY <1>23 DEF Take, Pop
<1>24. CASE Drained
  BY <1>24 DEF Drained
<1>25. CASE Unlist
  BY <1>25 DEF Unlist
<1>26. CASE Destroy
  BY <1>26 DEF Destroy
<1>27. CASE Return
  BY <1>27 DEF Return, Begin
<1> QED
  BY <1>1, <1>2, <1>3, <1>4, <1>5, <1>6, <1>7, <1>8, <1>9, <1>10, <1>11, <1>12, <1>13, <1>14,
     <1>15, <1>16, <1>17, <1>18, <1>19, <1>20, <1>21, <1>22, <1>23, <1>24, <1>25, <1>26, <1>27
  DEF Next, Operation, TimerOperation, WorkerLoop

\* Every thread stays within its operations.
LEMMA WhereStep ==
  ASSUME TypeOK, WhereInv, LockInv, LifeInv, Next
  PROVE  WhereInv'
<1> USE WorkQueueAssumption
    DEF Threads, fifo, items, queue, Goto, Home, Holds, Release,
        TypeOK, WhereInv, LockInv, Labels, ItemLabels, Sections, TimerLabels,
        CallerLabels, WorkerLabels
<1>1. ASSUME NEW t \in Threads, Lock(t) PROVE WhereInv'
  BY <1>1 DEF Lock
<1>2. ASSUME NEW t \in Threads, Add(t) PROVE WhereInv'
  BY <1>2 DEF Add, Push
<1>3. ASSUME NEW t \in Threads, Signal(t) PROVE WhereInv'
  BY <1>3 DEF Signal, Signalled
<1>4. ASSUME NEW t \in Threads, Post(t) PROVE WhereInv'
  BY <1>4 DEF Post, Signalled
<1>5. ASSUME NEW t \in Callers \cup {Worker}, ClearQueued(t) PROVE WhereInv'
  BY <1>5 DEF ClearQueued
<1>6. ASSUME NEW t \in Callers \cup {Worker}, Remove(t) PROVE WhereInv'
  BY <1>6 DEF Remove, Unlink
<1>7. ASSUME NEW t \in Callers \cup {Worker}, Lost(t) PROVE WhereInv'
  BY <1>7 DEF Lost
<1>8. ASSUME NEW t \in Callers \cup {Worker}, Attach(t) PROVE WhereInv'
  BY <1>8 DEF Attach
<1>9. ASSUME NEW t \in Callers \cup {Worker}, Start(t) PROVE WhereInv'
  BY <1>9 DEF Start
<1>10. ASSUME NEW t \in Callers \cup {Worker}, StartFails(t) PROVE WhereInv'
  BY <1>10 DEF StartFails
<1>11. ASSUME NEW t \in Callers \cup {Worker}, Deinit(t) PROVE WhereInv'
  BY <1>11 DEF Deinit
<1>12. ASSUME NEW t \in Callers \cup {Worker}, Detach(t) PROVE WhereInv'
  BY <1>12 DEF Detach
<1>13. ASSUME NEW t \in Callers \cup {Worker}, Unlock(t) PROVE WhereInv'
  BY <1>13 DEF Unlock
<1>14. ASSUME NEW t \in Callers \cup {Worker}, ExitPost(t) PROVE WhereInv'
  BY <1>14 DEF ExitPost
<1>15. ASSUME NEW t \in Callers \cup {Worker}, NEW x \in Items, ScheduleNow(t, x) PROVE WhereInv'
  BY <1>15 DEF ScheduleNow, Begin, Free
<1>16. ASSUME NEW t \in Callers \cup {Worker}, NEW x \in Items, Find(t, x) PROVE WhereInv'
  BY <1>16 DEF Find, Begin, Free
<1>17. ASSUME NEW x \in Items, ScheduleTimer(x) PROVE WhereInv'
  BY <1>17 DEF ScheduleTimer
<1>18. ASSUME NEW x \in Items, ScheduleClear(x) PROVE WhereInv'
  BY <1>18 DEF ScheduleClear, Cancelled, Unscheduled
<1>19. ASSUME NEW x \in Items, Fire(x) PROVE WhereInv'
  BY <1>19 DEF Fire, Begin
<1>20. ASSUME NEW x \in Items, Exit(x) PROVE WhereInv'
  BY <1>20 DEF Exit, Cancelled, Unscheduled
<1>21. CASE Check
  BY <1>21 DEF Check
<1>22. CASE Wait
  BY <1>22 DEF Wait
<1>23. CASE Take
  BY <1>23 DEF Take, Pop
<1>24. CASE Drained
  BY <1>24 DEF Drained
<1>25. CASE Unlist
  BY <1>25 DEF Unlist
<1>26. CASE Destroy
  BY <1>26 DEF Destroy
<1>27. CASE Return
  BY <1>27 DEF Return, Begin
<1> QED
  BY <1>1, <1>2, <1>3, <1>4, <1>5, <1>6, <1>7, <1>8, <1>9, <1>10, <1>11, <1>12, <1>13, <1>14,
     <1>15, <1>16, <1>17, <1>18, <1>19, <1>20, <1>21, <1>22, <1>23, <1>24, <1>25, <1>26, <1>27
  DEF Next, Operation, TimerOperation, WorkerLoop

\* The lock is held by a thread in a section.
LEMMA LockStep ==
  ASSUME TypeOK, WhereInv, LockInv, Next
  PROVE  LockInv'
<1> USE WorkQueueAssumption
    DEF Threads, fifo, items, queue, Goto, Home, Holds, Release,
        TypeOK, WhereInv, LockInv, Sections, TimerLabels
<1>1. ASSUME NEW t \in Threads, Lock(t) PROVE LockInv'
  BY <1>1 DEF Lock
<1>2. ASSUME NEW t \in Threads, Add(t) PROVE LockInv'
  BY <1>2 DEF Add, Push
<1>3. ASSUME NEW t \in Threads, Signal(t) PROVE LockInv'
  BY <1>3 DEF Signal, Signalled
<1>4. ASSUME NEW t \in Threads, Post(t) PROVE LockInv'
  BY <1>4 DEF Post, Signalled
<1>5. ASSUME NEW t \in Callers \cup {Worker}, ClearQueued(t) PROVE LockInv'
  BY <1>5 DEF ClearQueued
<1>6. ASSUME NEW t \in Callers \cup {Worker}, Remove(t) PROVE LockInv'
  BY <1>6 DEF Remove, Unlink
<1>7. ASSUME NEW t \in Callers \cup {Worker}, Lost(t) PROVE LockInv'
  BY <1>7 DEF Lost
<1>8. ASSUME NEW t \in Callers \cup {Worker}, Attach(t) PROVE LockInv'
  BY <1>8 DEF Attach
<1>9. ASSUME NEW t \in Callers \cup {Worker}, Start(t) PROVE LockInv'
  BY <1>9 DEF Start
<1>10. ASSUME NEW t \in Callers \cup {Worker}, StartFails(t) PROVE LockInv'
  BY <1>10 DEF StartFails
<1>11. ASSUME NEW t \in Callers \cup {Worker}, Deinit(t) PROVE LockInv'
  BY <1>11 DEF Deinit
<1>12. ASSUME NEW t \in Callers \cup {Worker}, Detach(t) PROVE LockInv'
  BY <1>12 DEF Detach
<1>13. ASSUME NEW t \in Callers \cup {Worker}, Unlock(t) PROVE LockInv'
  BY <1>13 DEF Unlock
<1>14. ASSUME NEW t \in Callers \cup {Worker}, ExitPost(t) PROVE LockInv'
  BY <1>14 DEF ExitPost
<1>15. ASSUME NEW t \in Callers \cup {Worker}, NEW x \in Items, ScheduleNow(t, x) PROVE LockInv'
  BY <1>15 DEF ScheduleNow, Begin, Free
<1>16. ASSUME NEW t \in Callers \cup {Worker}, NEW x \in Items, Find(t, x) PROVE LockInv'
  BY <1>16 DEF Find, Begin, Free
<1>17. ASSUME NEW x \in Items, ScheduleTimer(x) PROVE LockInv'
  BY <1>17 DEF ScheduleTimer
<1>18. ASSUME NEW x \in Items, ScheduleClear(x) PROVE LockInv'
  BY <1>18 DEF ScheduleClear, Cancelled, Unscheduled
<1>19. ASSUME NEW x \in Items, Fire(x) PROVE LockInv'
  BY <1>19 DEF Fire, Begin
<1>20. ASSUME NEW x \in Items, Exit(x) PROVE LockInv'
  BY <1>20 DEF Exit, Cancelled, Unscheduled
<1>21. CASE Check
  BY <1>21 DEF Check
<1>22. CASE Wait
  BY <1>22 DEF Wait
<1>23. CASE Take
  BY <1>23 DEF Take, Pop
<1>24. CASE Drained
  BY <1>24 DEF Drained
<1>25. CASE Unlist
  BY <1>25 DEF Unlist
<1>26. CASE Destroy
  BY <1>26 DEF Destroy
<1>27. CASE Return
  BY <1>27 DEF Return, Begin
<1> QED
  BY <1>1, <1>2, <1>3, <1>4, <1>5, <1>6, <1>7, <1>8, <1>9, <1>10, <1>11, <1>12, <1>13, <1>14,
     <1>15, <1>16, <1>17, <1>18, <1>19, <1>20, <1>21, <1>22, <1>23, <1>24, <1>25, <1>26, <1>27
  DEF Next, Operation, TimerOperation, WorkerLoop

\* One thread at most is at the end of Detach, and it has the exit lock.
LEMMA ExitStep ==
  ASSUME TypeOK, WhereInv, LockInv, ExitInv, Next
  PROVE  ExitInv'
<1> USE WorkQueueAssumption
    DEF Threads, fifo, items, queue, Goto, Home, Holds, Release,
        TypeOK, WhereInv, LockInv, ExitInv, Ending, Sections
<1>1. ASSUME NEW t \in Threads, Lock(t) PROVE ExitInv'
  BY <1>1 DEF Lock
<1>2. ASSUME NEW t \in Threads, Add(t) PROVE ExitInv'
  BY <1>2 DEF Add, Push
<1>3. ASSUME NEW t \in Threads, Signal(t) PROVE ExitInv'
  BY <1>3 DEF Signal, Signalled
<1>4. ASSUME NEW t \in Threads, Post(t) PROVE ExitInv'
  BY <1>4 DEF Post, Signalled
<1>5. ASSUME NEW t \in Callers \cup {Worker}, ClearQueued(t) PROVE ExitInv'
  BY <1>5 DEF ClearQueued
<1>6. ASSUME NEW t \in Callers \cup {Worker}, Remove(t) PROVE ExitInv'
  BY <1>6 DEF Remove, Unlink
<1>7. ASSUME NEW t \in Callers \cup {Worker}, Lost(t) PROVE ExitInv'
  BY <1>7 DEF Lost
<1>8. ASSUME NEW t \in Callers \cup {Worker}, Attach(t) PROVE ExitInv'
  BY <1>8 DEF Attach
<1>9. ASSUME NEW t \in Callers \cup {Worker}, Start(t) PROVE ExitInv'
  BY <1>9 DEF Start
<1>10. ASSUME NEW t \in Callers \cup {Worker}, StartFails(t) PROVE ExitInv'
  BY <1>10 DEF StartFails
<1>11. ASSUME NEW t \in Callers \cup {Worker}, Deinit(t) PROVE ExitInv'
  BY <1>11 DEF Deinit
<1>12. ASSUME NEW t \in Callers \cup {Worker}, Detach(t) PROVE ExitInv'
  BY <1>12 DEF Detach
<1>13. ASSUME NEW t \in Callers \cup {Worker}, Unlock(t) PROVE ExitInv'
  BY <1>13 DEF Unlock
<1>14. ASSUME NEW t \in Callers \cup {Worker}, ExitPost(t) PROVE ExitInv'
  BY <1>14 DEF ExitPost
<1>15. ASSUME NEW t \in Callers \cup {Worker}, NEW x \in Items, ScheduleNow(t, x) PROVE ExitInv'
  BY <1>15 DEF ScheduleNow, Begin, Free
<1>16. ASSUME NEW t \in Callers \cup {Worker}, NEW x \in Items, Find(t, x) PROVE ExitInv'
  BY <1>16 DEF Find, Begin, Free
<1>17. ASSUME NEW x \in Items, ScheduleTimer(x) PROVE ExitInv'
  BY <1>17 DEF ScheduleTimer
<1>18. ASSUME NEW x \in Items, ScheduleClear(x) PROVE ExitInv'
  BY <1>18 DEF ScheduleClear, Cancelled, Unscheduled
<1>19. ASSUME NEW x \in Items, Fire(x) PROVE ExitInv'
  BY <1>19 DEF Fire, Begin
<1>20. ASSUME NEW x \in Items, Exit(x) PROVE ExitInv'
  BY <1>20 DEF Exit, Cancelled, Unscheduled
<1>21. CASE Check
  BY <1>21 DEF Check
<1>22. CASE Wait
  BY <1>22 DEF Wait
<1>23. CASE Take
  BY <1>23 DEF Take, Pop
<1>24. CASE Drained
  BY <1>24 DEF Drained
<1>25. CASE Unlist
  BY <1>25 DEF Unlist
<1>26. CASE Destroy
  BY <1>26 DEF Destroy
<1>27. CASE Return
  BY <1>27 DEF Return, Begin
<1> QED
  BY <1>1, <1>2, <1>3, <1>4, <1>5, <1>6, <1>7, <1>8, <1>9, <1>10, <1>11, <1>12, <1>13, <1>14,
     <1>15, <1>16, <1>17, <1>18, <1>19, <1>20, <1>21, <1>22, <1>23, <1>24, <1>25, <1>26, <1>27
  DEF Next, Operation, TimerOperation, WorkerLoop

\* An item lives as the operations on it say.
LEMMA LifeStep ==
  ASSUME TypeOK, WhereInv, LockInv, ExitInv, LifeInv, OwnerInv, UseInv, TimerInv, Next
  PROVE  LifeInv'
<1> USE WorkQueueAssumption
    DEF Threads, fifo, items, queue, Goto, Home, Holds, Release,
        TypeOK, WhereInv, LockInv, LifeInv, OwnerInv, Owns, Ending, Adds,
        UseInv, TimerInv
<1>1. ASSUME NEW t \in Threads, Lock(t) PROVE LifeInv'
  BY <1>1 DEF Lock, Sections
<1>2. ASSUME NEW t \in Threads, Add(t) PROVE LifeInv'
  BY <1>2 DEF Add, Push
<1>3. ASSUME NEW t \in Threads, Signal(t) PROVE LifeInv'
  BY <1>3 DEF Signal, Signalled
<1>4. ASSUME NEW t \in Threads, Post(t) PROVE LifeInv'
  BY <1>4 DEF Post, Signalled
<1>5. ASSUME NEW t \in Callers \cup {Worker}, ClearQueued(t) PROVE LifeInv'
  BY <1>5 DEF ClearQueued
<1>6. ASSUME NEW t \in Callers \cup {Worker}, Remove(t) PROVE LifeInv'
  BY <1>6 DEF Remove, Unlink
<1>7. ASSUME NEW t \in Callers \cup {Worker}, Lost(t) PROVE LifeInv'
  BY <1>7 DEF Lost
<1>8. ASSUME NEW t \in Callers \cup {Worker}, Attach(t) PROVE LifeInv'
  BY <1>8 DEF Attach
<1>9. ASSUME NEW t \in Callers \cup {Worker}, Start(t) PROVE LifeInv'
  BY <1>9 DEF Start
<1>10. ASSUME NEW t \in Callers \cup {Worker}, StartFails(t) PROVE LifeInv'
  <2>1. arg[t] \in Items /\ lock # t
    BY <1>10 DEF StartFails, ItemLabels, Labels, Sections
  <2>2. \A u \in Threads : Owns(u) => arg[u] \in Items
    BY DEF ItemLabels, Labels
  <2>3. \A u \in Threads : Owns(u) /\ u # t => arg[u] # arg[t]
    BY <1>10 DEF StartFails
  <2>4. \A u \in Threads :
          u # t => /\ pc'[u] = pc[u]
                   /\ Owns(u) => life'[arg[u]] = life[arg[u]]
    BY <1>10, <2>2, <2>3 DEF StartFails
  <2> QED
    BY <1>10, <2>1, <2>4 DEF StartFails
<1>11. ASSUME NEW t \in Callers \cup {Worker}, Deinit(t) PROVE LifeInv'
  <2>1. arg[t] \in Items
    BY <1>11 DEF Deinit, ItemLabels, Labels
  <2>2. CASE arg[t] \in wq
    BY <1>11, <2>1, <2>2 DEF Deinit
  <2>3. CASE arg[t] \notin wq
    <3>1. \A u \in Threads : Owns(u) => arg[u] \in Items
      BY DEF ItemLabels, Labels
    <3>2. \A u \in Threads : Owns(u) /\ u # t => arg[u] # arg[t]
      BY <1>11 DEF Deinit
    <3>3. \A u \in Threads :
            u # t => /\ pc'[u] = pc[u]
                     /\ Owns(u) => life'[arg[u]] = life[arg[u]]
      BY <1>11, <2>3, <3>1, <3>2 DEF Deinit
    <3> QED
      BY <1>11, <2>1, <2>3, <3>3 DEF Deinit
  <2> QED
    BY <2>2, <2>3
<1>12. ASSUME NEW t \in Callers \cup {Worker}, Detach(t) PROVE LifeInv'
  BY <1>12 DEF Detach
<1>13. ASSUME NEW t \in Callers \cup {Worker}, Unlock(t) PROVE LifeInv'
  BY <1>13 DEF Unlock
<1>14. ASSUME NEW t \in Callers \cup {Worker}, ExitPost(t) PROVE LifeInv'
  BY <1>14 DEF ExitPost
<1>15. ASSUME NEW t \in Callers \cup {Worker}, NEW x \in Items, ScheduleNow(t, x) PROVE LifeInv'
  BY <1>15 DEF ScheduleNow, Begin, Free
<1>16. ASSUME NEW t \in Callers \cup {Worker}, NEW x \in Items, Find(t, x) PROVE LifeInv'
  BY <1>16 DEF Find, Begin, Free
<1>17. ASSUME NEW x \in Items, ScheduleTimer(x) PROVE LifeInv'
  BY <1>17 DEF ScheduleTimer
<1>18. ASSUME NEW x \in Items, ScheduleClear(x) PROVE LifeInv'
  BY <1>18 DEF ScheduleClear, Cancelled, Unscheduled
<1>19. ASSUME NEW x \in Items, Fire(x) PROVE LifeInv'
  BY <1>19 DEF Fire, Begin
<1>20. ASSUME NEW x \in Items, Exit(x) PROVE LifeInv'
  BY <1>20 DEF Exit, Cancelled, Unscheduled
<1>21. CASE Check
  BY <1>21 DEF Check
<1>22. CASE Wait
  BY <1>22 DEF Wait
<1>23. CASE Take
  BY <1>23 DEF Take, Pop
<1>24. CASE Drained
  BY <1>24 DEF Drained
<1>25. CASE Unlist
  BY <1>25 DEF Unlist
<1>26. CASE Destroy
  BY <1>26 DEF Destroy
<1>27. CASE Return
  BY <1>27 DEF Return, Begin
<1> QED
  BY <1>1, <1>2, <1>3, <1>4, <1>5, <1>6, <1>7, <1>8, <1>9, <1>10, <1>11, <1>12, <1>13, <1>14,
     <1>15, <1>16, <1>17, <1>18, <1>19, <1>20, <1>21, <1>22, <1>23, <1>24, <1>25, <1>26, <1>27
  DEF Next, Operation, TimerOperation, WorkerLoop

\* One thread begins or ends the life of an item.
LEMMA OwnerStep ==
  ASSUME TypeOK, WhereInv, LockInv, ExitInv, LifeInv, OwnerInv, UseInv, Next
  PROVE  OwnerInv'
<1> USE WorkQueueAssumption
    DEF Threads, fifo, items, queue, Goto, Home, Holds, Release,
        TypeOK, WhereInv, LockInv, LifeInv, OwnerInv, Owns, Ending
<1>1. ASSUME NEW t \in Threads, Lock(t) PROVE OwnerInv'
  BY <1>1 DEF Lock, Sections
<1>2. ASSUME NEW t \in Threads, Add(t) PROVE OwnerInv'
  BY <1>2 DEF Add, Push
<1>3. ASSUME NEW t \in Threads, Signal(t) PROVE OwnerInv'
  BY <1>3 DEF Signal, Signalled
<1>4. ASSUME NEW t \in Threads, Post(t) PROVE OwnerInv'
  BY <1>4 DEF Post, Signalled
<1>5. ASSUME NEW t \in Callers \cup {Worker}, ClearQueued(t) PROVE OwnerInv'
  BY <1>5 DEF ClearQueued
<1>6. ASSUME NEW t \in Callers \cup {Worker}, Remove(t) PROVE OwnerInv'
  BY <1>6 DEF Remove, Unlink
<1>7. ASSUME NEW t \in Callers \cup {Worker}, Lost(t) PROVE OwnerInv'
  BY <1>7 DEF Lost
<1>8. ASSUME NEW t \in Callers \cup {Worker}, Attach(t) PROVE OwnerInv'
  BY <1>8 DEF Attach
<1>9. ASSUME NEW t \in Callers \cup {Worker}, Start(t) PROVE OwnerInv'
  BY <1>9 DEF Start
<1>10. ASSUME NEW t \in Callers \cup {Worker}, StartFails(t) PROVE OwnerInv'
  BY <1>10 DEF StartFails
<1>11. ASSUME NEW t \in Callers \cup {Worker}, Deinit(t) PROVE OwnerInv'
  BY <1>11 DEF Deinit
<1>12. ASSUME NEW t \in Callers \cup {Worker}, Detach(t) PROVE OwnerInv'
  BY <1>12 DEF Detach
<1>13. ASSUME NEW t \in Callers \cup {Worker}, Unlock(t) PROVE OwnerInv'
  BY <1>13 DEF Unlock
<1>14. ASSUME NEW t \in Callers \cup {Worker}, ExitPost(t) PROVE OwnerInv'
  BY <1>14 DEF ExitPost
<1>15. ASSUME NEW t \in Callers \cup {Worker}, NEW x \in Items, ScheduleNow(t, x) PROVE OwnerInv'
  BY <1>15 DEF ScheduleNow, Begin, Free
<1>16. ASSUME NEW t \in Callers \cup {Worker}, NEW x \in Items, Find(t, x) PROVE OwnerInv'
  BY <1>16 DEF Find, Begin, Free
<1>17. ASSUME NEW x \in Items, ScheduleTimer(x) PROVE OwnerInv'
  BY <1>17 DEF ScheduleTimer
<1>18. ASSUME NEW x \in Items, ScheduleClear(x) PROVE OwnerInv'
  BY <1>18 DEF ScheduleClear, Cancelled, Unscheduled
<1>19. ASSUME NEW x \in Items, Fire(x) PROVE OwnerInv'
  BY <1>19 DEF Fire, Begin
<1>20. ASSUME NEW x \in Items, Exit(x) PROVE OwnerInv'
  BY <1>20 DEF Exit, Cancelled, Unscheduled
<1>21. CASE Check
  BY <1>21 DEF Check
<1>22. CASE Wait
  BY <1>22 DEF Wait
<1>23. CASE Take
  BY <1>23 DEF Take, Pop
<1>24. CASE Drained
  BY <1>24 DEF Drained
<1>25. CASE Unlist
  BY <1>25 DEF Unlist
<1>26. CASE Destroy
  BY <1>26 DEF Destroy
<1>27. CASE Return
  BY <1>27 DEF Return, Begin
<1> QED
  BY <1>1, <1>2, <1>3, <1>4, <1>5, <1>6, <1>7, <1>8, <1>9, <1>10, <1>11, <1>12, <1>13, <1>14,
     <1>15, <1>16, <1>17, <1>18, <1>19, <1>20, <1>21, <1>22, <1>23, <1>24, <1>25, <1>26, <1>27
  DEF Next, Operation, TimerOperation, WorkerLoop

\* Whoever adds an item finds it attached.
LEMMA UseStep ==
  ASSUME TypeOK, WhereInv, LockInv, ExitInv, LifeInv, OwnerInv, UseInv, TimerInv, Next
  PROVE  UseInv'
<1> USE WorkQueueAssumption
    DEF Threads, fifo, items, queue, Goto, Home, Holds, Release,
        TypeOK, WhereInv, LockInv, LifeInv, OwnerInv, Owns, Ending, Adds,
        UseInv, TimerInv
<1>1. ASSUME NEW t \in Threads, Lock(t) PROVE UseInv'
  BY <1>1 DEF Lock
<1>2. ASSUME NEW t \in Threads, Add(t) PROVE UseInv'
  BY <1>2 DEF Add, Push
<1>3. ASSUME NEW t \in Threads, Signal(t) PROVE UseInv'
  BY <1>3 DEF Signal, Signalled
<1>4. ASSUME NEW t \in Threads, Post(t) PROVE UseInv'
  BY <1>4 DEF Post, Signalled
<1>5. ASSUME NEW t \in Callers \cup {Worker}, ClearQueued(t) PROVE UseInv'
  BY <1>5 DEF ClearQueued
<1>6. ASSUME NEW t \in Callers \cup {Worker}, Remove(t) PROVE UseInv'
  BY <1>6 DEF Remove, Unlink
<1>7. ASSUME NEW t \in Callers \cup {Worker}, Lost(t) PROVE UseInv'
  BY <1>7 DEF Lost
<1>8. ASSUME NEW t \in Callers \cup {Worker}, Attach(t) PROVE UseInv'
  BY <1>8 DEF Attach
<1>9. ASSUME NEW t \in Callers \cup {Worker}, Start(t) PROVE UseInv'
  BY <1>9 DEF Start
<1>10. ASSUME NEW t \in Callers \cup {Worker}, StartFails(t) PROVE UseInv'
  BY <1>10 DEF StartFails
<1>11. ASSUME NEW t \in Callers \cup {Worker}, Deinit(t) PROVE UseInv'
  BY <1>11 DEF Deinit
<1>12. ASSUME NEW t \in Callers \cup {Worker}, Detach(t) PROVE UseInv'
  BY <1>12 DEF Detach
<1>13. ASSUME NEW t \in Callers \cup {Worker}, Unlock(t) PROVE UseInv'
  BY <1>13 DEF Unlock
<1>14. ASSUME NEW t \in Callers \cup {Worker}, ExitPost(t) PROVE UseInv'
  BY <1>14 DEF ExitPost
<1>15. ASSUME NEW t \in Callers \cup {Worker}, NEW x \in Items, ScheduleNow(t, x) PROVE UseInv'
  BY <1>15 DEF ScheduleNow, Begin, Free
<1>16. ASSUME NEW t \in Callers \cup {Worker}, NEW x \in Items, Find(t, x) PROVE UseInv'
  BY <1>16 DEF Find, Begin, Free
<1>17. ASSUME NEW x \in Items, ScheduleTimer(x) PROVE UseInv'
  BY <1>17 DEF ScheduleTimer
<1>18. ASSUME NEW x \in Items, ScheduleClear(x) PROVE UseInv'
  BY <1>18 DEF ScheduleClear, Cancelled, Unscheduled
<1>19. ASSUME NEW x \in Items, Fire(x) PROVE UseInv'
  BY <1>19 DEF Fire, Begin
<1>20. ASSUME NEW x \in Items, Exit(x) PROVE UseInv'
  BY <1>20 DEF Exit, Cancelled, Unscheduled
<1>21. CASE Check
  BY <1>21 DEF Check
<1>22. CASE Wait
  BY <1>22 DEF Wait
<1>23. CASE Take
  BY <1>23 DEF Take, Pop
<1>24. CASE Drained
  BY <1>24 DEF Drained
<1>25. CASE Unlist
  BY <1>25 DEF Unlist
<1>26. CASE Destroy
  BY <1>26 DEF Destroy
<1>27. CASE Return
  BY <1>27 DEF Return, Begin
<1> QED
  BY <1>1, <1>2, <1>3, <1>4, <1>5, <1>6, <1>7, <1>8, <1>9, <1>10, <1>11, <1>12, <1>13, <1>14,
     <1>15, <1>16, <1>17, <1>18, <1>19, <1>20, <1>21, <1>22, <1>23, <1>24, <1>25, <1>26, <1>27
  DEF Next, Operation, TimerOperation, WorkerLoop

\* The timer task is never about to add an item that has left.
LEMMA TimerStep ==
  ASSUME TypeOK, WhereInv, LockInv, ExitInv, LifeInv, OwnerInv, UseInv, TimerInv, Next
  PROVE  TimerInv'
<1> USE WorkQueueAssumption
    DEF Threads, fifo, items, queue, Goto, Home, Holds, Release,
        TypeOK, WhereInv, LockInv, LifeInv, OwnerInv, Owns, Ending, Adds,
        UseInv, TimerInv, TimerLabels
<1>1. ASSUME NEW t \in Threads, Lock(t), t # Timer => ~TimerRuns PROVE TimerInv'
  BY <1>1 DEF Lock, TimerRuns, Sections
<1>2. ASSUME NEW t \in Threads, Add(t) PROVE TimerInv'
  BY <1>2 DEF Add, Push
<1>3. ASSUME NEW t \in Threads, Signal(t) PROVE TimerInv'
  BY <1>3 DEF Signal, Signalled
<1>4. ASSUME NEW t \in Threads, Post(t) PROVE TimerInv'
  BY <1>4 DEF Post, Signalled
<1>5. ASSUME NEW t \in Callers \cup {Worker}, ClearQueued(t) PROVE TimerInv'
  BY <1>5 DEF ClearQueued
<1>6. ASSUME NEW t \in Callers \cup {Worker}, Remove(t) PROVE TimerInv'
  BY <1>6 DEF Remove, Unlink
<1>7. ASSUME NEW t \in Callers \cup {Worker}, Lost(t) PROVE TimerInv'
  BY <1>7 DEF Lost
<1>8. ASSUME NEW t \in Callers \cup {Worker}, Attach(t) PROVE TimerInv'
  BY <1>8 DEF Attach
<1>9. ASSUME NEW t \in Callers \cup {Worker}, Start(t) PROVE TimerInv'
  BY <1>9 DEF Start
<1>10. ASSUME NEW t \in Callers \cup {Worker}, StartFails(t) PROVE TimerInv'
  BY <1>10 DEF StartFails
<1>11. ASSUME NEW t \in Callers \cup {Worker}, Deinit(t) PROVE TimerInv'
  BY <1>11 DEF Deinit
<1>12. ASSUME NEW t \in Callers \cup {Worker}, Detach(t) PROVE TimerInv'
  BY <1>12 DEF Detach
<1>13. ASSUME NEW t \in Callers \cup {Worker}, Unlock(t) PROVE TimerInv'
  BY <1>13 DEF Unlock
<1>14. ASSUME NEW t \in Callers \cup {Worker}, ExitPost(t) PROVE TimerInv'
  BY <1>14 DEF ExitPost
<1>15. ASSUME NEW t \in Callers \cup {Worker}, NEW x \in Items, ScheduleNow(t, x) PROVE TimerInv'
  BY <1>15 DEF ScheduleNow, Begin, Free
<1>16. ASSUME NEW t \in Callers \cup {Worker}, NEW x \in Items, Find(t, x) PROVE TimerInv'
  BY <1>16 DEF Find, Begin, Free
<1>17. ASSUME NEW x \in Items, ScheduleTimer(x) PROVE TimerInv'
  BY <1>17 DEF ScheduleTimer
<1>18. ASSUME NEW x \in Items, ScheduleClear(x) PROVE TimerInv'
  BY <1>18 DEF ScheduleClear, Cancelled, Unscheduled
<1>19. ASSUME NEW x \in Items, Fire(x) PROVE TimerInv'
  BY <1>19 DEF Fire, Begin
<1>20. ASSUME NEW x \in Items, Exit(x) PROVE TimerInv'
  <2>1. CASE x \in Timed
    BY <1>20, <2>1 DEF Exit, Cancelled, Sections
  <2>2. CASE x \notin Timed
    BY <1>20, <2>2 DEF Exit
  <2> QED
    BY <2>1, <2>2
<1>21. CASE Check
  BY <1>21 DEF Check
<1>22. CASE Wait
  BY <1>22 DEF Wait
<1>23. CASE Take
  BY <1>23 DEF Take, Pop
<1>24. CASE Drained
  BY <1>24 DEF Drained
<1>25. CASE Unlist
  BY <1>25 DEF Unlist
<1>26. CASE Destroy
  BY <1>26 DEF Destroy
<1>27. CASE Return
  BY <1>27 DEF Return, Begin
<1> QED
  BY <1>1, <1>2, <1>3, <1>4, <1>5, <1>6, <1>7, <1>8, <1>9, <1>10, <1>11, <1>12, <1>13, <1>14,
     <1>15, <1>16, <1>17, <1>18, <1>19, <1>20, <1>21, <1>22, <1>23, <1>24, <1>25, <1>26, <1>27
  DEF Next, Operation, TimerOperation, WorkerLoop

\* Who changes the list.
LEMMA FifoMoves ==
  ASSUME Next
  PROVE  \/ \E t \in Threads : Add(t)
         \/ \E t \in Callers \cup {Worker} : Remove(t)
         \/ Take
         \/ UNCHANGED fifo
BY DEF Next, Operation, TimerOperation, WorkerLoop, Threads, fifo, Lock, Signal, Post, ClearQueued,
   Lost, Attach, Start, StartFails, Deinit, Detach, Unlock, ExitPost, ScheduleNow, Find,
   ScheduleTimer, ScheduleClear, Fire, Exit, Check, Wait, Drained, Unlist, Destroy, Return

\* The list stays a list.
LEMMA ListStep ==
  ASSUME TypeOK, WhereInv, ListInv, Next
  PROVE  ListInv'
<1>1. ASSUME NEW t \in Threads, Add(t) PROVE ListInv'
  BY <1>1, PushFacts DEF Add, WhereInv, ItemLabels, Labels
<1>2. ASSUME NEW t \in Callers \cup {Worker}, Remove(t) PROVE ListInv'
  BY <1>2, UnlinkFacts DEF Remove, WhereInv, ItemLabels, Labels, Threads
<1>3. CASE Take
  BY <1>3, PopFacts DEF Take
<1>4. CASE UNCHANGED fifo
  BY <1>4 DEF fifo, ListInv
<1> QED
  BY <1>1, <1>2, <1>3, <1>4, FifoMoves

\* Who changes the list or the attached items.
LEMMA LinkMoves ==
  ASSUME TypeOK, Next
  PROVE  \/ \E t \in Threads : Add(t)
         \/ \E t \in Callers \cup {Worker} : Remove(t) \/ Attach(t) \/ Detach(t)
         \/ Take
         \/ /\ UNCHANGED <<fifo, attached>>
            /\ \A t \in Threads : pc'[t] = "detach" => pc[t] = "detach" /\ arg'[t] = arg[t]
BY WorkQueueAssumption
DEF TypeOK, Next, Operation, TimerOperation, WorkerLoop, Threads, fifo, items,
   Goto, Home, Begin, Free, Signalled, Lock, Signal, Post, ClearQueued,
   Lost, Start, StartFails, Deinit, Unlock, ExitPost, ScheduleNow, Find,
   ScheduleTimer, ScheduleClear, Fire, Exit, Check, Wait, Drained, Unlist, Destroy, Return

\* Only attached items are in the list.
LEMMA LinkStep ==
  ASSUME TypeOK, WhereInv, LockInv, ExitInv, LifeInv, OwnerInv, UseInv, ListInv, LinkInv, Next
  PROVE  LinkInv'
<1> USE WorkQueueAssumption DEF Threads
<1>1. ASSUME NEW t \in Threads, Add(t) PROVE LinkInv'
  <2>1. arg[t] \in Items /\ arg[t] \in attached
    BY <1>1 DEF Add, WhereInv, ItemLabels, Labels, UseInv, Adds
  <2>2. \A z \in Items : Linked(z)' => Linked(z) \/ z = arg[t]
    BY <1>1, <2>1, PushFacts DEF Add
  <2>3. \A u \in Threads : pc'[u] = "detach" => pc[u] = "detach" /\ arg[u] # arg[t]
    BY <1>1 DEF Add, Goto, TypeOK, UseInv, Adds
  <2> QED
    BY <1>1, <2>1, <2>2, <2>3 DEF Add, items, LinkInv, WhereInv, ItemLabels, Labels
<1>2. ASSUME NEW t \in Callers \cup {Worker}, Remove(t) PROVE LinkInv'
  <2>1. arg[t] \in Items
    BY <1>2 DEF Remove, WhereInv, ItemLabels, Labels
  <2>2. \A z \in Items : Linked(z)' => Linked(z) /\ z # arg[t]
    BY <1>2, <2>1, UnlinkFacts DEF Remove
  <2>3. \A u \in Threads : pc'[u] = "detach" => u = t \/ pc[u] = "detach"
    BY <1>2 DEF Remove, Goto, TypeOK
  <2> QED
    BY <1>2, <2>1, <2>2, <2>3 DEF Remove, items, LinkInv, WhereInv, ItemLabels, Labels
<1>3. ASSUME NEW t \in Callers \cup {Worker}, Attach(t) PROVE LinkInv'
  BY <1>3 DEF Attach, Goto, fifo, TypeOK, LinkInv, Linked
<1>4. ASSUME NEW t \in Callers \cup {Worker}, Detach(t) PROVE LinkInv'
  <2>1. UNCHANGED <<fifo, arg>> /\ attached' = attached \ {arg[t]} /\ pc[t] = "detach"
    BY <1>4 DEF Detach
  <2>2. \A u \in Threads : pc'[u] = "detach" => pc[u] = "detach"
    BY <1>4 DEF Detach, Goto, Home, TypeOK
  <2> QED
    BY <2>1, <2>2 DEF fifo, LinkInv, Linked
<1>5. CASE Take
  <2>1. \A z \in Items : Linked(z)' => Linked(z)
    BY <1>5, PopFacts DEF Take
  <2>2. \A u \in Threads : pc'[u] = "detach" => pc[u] = "detach"
    BY <1>5 DEF Take, Goto, TypeOK
  <2> QED
    BY <1>5, <2>1, <2>2 DEF Take, items, LinkInv, WhereInv, ItemLabels, Labels
<1>6. CASE /\ UNCHANGED <<fifo, attached>>
           /\ \A t \in Threads : pc'[t] = "detach" => pc[t] = "detach" /\ arg'[t] = arg[t]
  BY <1>6 DEF fifo, LinkInv, Linked
<1> QED
  BY <1>1, <1>2, <1>3, <1>4, <1>5, <1>6, LinkMoves

\* A wake-up is not lost.
LEMMA WakeStep ==
  ASSUME TypeOK, WhereInv, LockInv, ListInv, NoLostWakeup, Next
  PROVE  NoLostWakeup'
<1> USE WorkQueueAssumption
    DEF Threads, fifo, items, queue, Goto, Home, Holds, Release,
        TypeOK, WhereInv, NoLostWakeup
<1>1. ASSUME NEW t \in Threads, Lock(t) PROVE NoLostWakeup'
  BY <1>1 DEF Lock
<1>2. ASSUME NEW t \in Threads, Add(t) PROVE NoLostWakeup'
  BY <1>2 DEF Add, Push
<1>3. ASSUME NEW t \in Threads, Signal(t) PROVE NoLostWakeup'
  BY <1>3 DEF Signal, Signalled
<1>4. ASSUME NEW t \in Threads, Post(t) PROVE NoLostWakeup'
  BY <1>4 DEF Post, Signalled
<1>5. ASSUME NEW t \in Callers \cup {Worker}, ClearQueued(t) PROVE NoLostWakeup'
  BY <1>5 DEF ClearQueued
<1>6. ASSUME NEW t \in Callers \cup {Worker}, Remove(t) PROVE NoLostWakeup'
  <2>1. arg[t] \in Items
    BY <1>6 DEF Remove, ItemLabels, Labels
  <2>2. head = Nil => head' = Nil
    BY <1>6, <2>1, UnlinkFacts DEF Remove
  <2> QED
    BY <1>6, <2>2 DEF Remove
<1>7. ASSUME NEW t \in Callers \cup {Worker}, Lost(t) PROVE NoLostWakeup'
  BY <1>7 DEF Lost
<1>8. ASSUME NEW t \in Callers \cup {Worker}, Attach(t) PROVE NoLostWakeup'
  BY <1>8 DEF Attach
<1>9. ASSUME NEW t \in Callers \cup {Worker}, Start(t) PROVE NoLostWakeup'
  BY <1>9 DEF Start
<1>10. ASSUME NEW t \in Callers \cup {Worker}, StartFails(t) PROVE NoLostWakeup'
  BY <1>10 DEF StartFails
<1>11. ASSUME NEW t \in Callers \cup {Worker}, Deinit(t) PROVE NoLostWakeup'
  BY <1>11 DEF Deinit
<1>12. ASSUME NEW t \in Callers \cup {Worker}, Detach(t) PROVE NoLostWakeup'
  BY <1>12 DEF Detach
<1>13. ASSUME NEW t \in Callers \cup {Worker}, Unlock(t) PROVE NoLostWakeup'
  BY <1>13 DEF Unlock
<1>14. ASSUME NEW t \in Callers \cup {Worker}, ExitPost(t) PROVE NoLostWakeup'
  BY <1>14 DEF ExitPost
<1>15. ASSUME NEW t \in Callers \cup {Worker}, NEW x \in Items, ScheduleNow(t, x) PROVE NoLostWakeup'
  BY <1>15 DEF ScheduleNow, Begin, Free
<1>16. ASSUME NEW t \in Callers \cup {Worker}, NEW x \in Items, Find(t, x) PROVE NoLostWakeup'
  BY <1>16 DEF Find, Begin, Free
<1>17. ASSUME NEW x \in Items, ScheduleTimer(x) PROVE NoLostWakeup'
  BY <1>17 DEF ScheduleTimer
<1>18. ASSUME NEW x \in Items, ScheduleClear(x) PROVE NoLostWakeup'
  BY <1>18 DEF ScheduleClear, Cancelled, Unscheduled
<1>19. ASSUME NEW x \in Items, Fire(x) PROVE NoLostWakeup'
  BY <1>19 DEF Fire, Begin
<1>20. ASSUME NEW x \in Items, Exit(x) PROVE NoLostWakeup'
  BY <1>20 DEF Exit, Cancelled, Unscheduled
<1>21. CASE Check
  BY <1>21 DEF Check
<1>22. CASE Wait
  BY <1>22 DEF Wait
<1>23. CASE Take
  BY <1>23 DEF Take, Pop
<1>24. CASE Drained
  BY <1>24 DEF Drained
<1>25. CASE Unlist
  BY <1>25 DEF Unlist
<1>26. CASE Destroy
  BY <1>26 DEF Destroy
<1>27. CASE Return
  BY <1>27 DEF Return, Begin
<1> QED
  BY <1>1, <1>2, <1>3, <1>4, <1>5, <1>6, <1>7, <1>8, <1>9, <1>10, <1>11, <1>12, <1>13, <1>14,
     <1>15, <1>16, <1>17, <1>18, <1>19, <1>20, <1>21, <1>22, <1>23, <1>24, <1>25, <1>26, <1>27
  DEF Next, Operation, TimerOperation, WorkerLoop

-----------------------------------------------------------------------------
(* The theorems.                                                           *)

\* The first states.
LEMMA InitInv == Init => IInv
<1> USE WorkQueueAssumption DEF Init, Threads
<1> SUFFICES ASSUME Init PROVE IInv
  OBVIOUS
<1>1. TypeOK
  BY DEF TypeOK, Labels
<1>2. WhereInv
  BY DEF WhereInv, TimerLabels, CallerLabels, WorkerLabels, ItemLabels, Labels
<1>3. LockInv
  BY DEF LockInv, Holds
<1>4. ExitInv
  BY DEF ExitInv, Ending, Holds
<1>5. LifeInv
  BY DEF LifeInv, Ending, Holds
<1>6. OwnerInv
  BY DEF OwnerInv, Owns, Ending, Holds
<1>7. UseInv
  BY DEF UseInv, Adds, Holds
<1>8. TimerInv
  BY DEF TimerInv
<1>9. ListInv /\ LinkInv /\ NoLostWakeup
  BY DEF ListInv, LinkInv, Linked, NoLostWakeup
<1> QED
  BY <1>1, <1>2, <1>3, <1>4, <1>5, <1>6, <1>7, <1>8, <1>9 DEF IInv

\* A stuttering step.
LEMMA StutterInv == IInv /\ UNCHANGED vars => IInv'
<1> SUFFICES ASSUME IInv, UNCHANGED vars PROVE IInv'
  OBVIOUS
<1>1. TypeOK' /\ WhereInv' /\ LockInv' /\ ExitInv'
  BY DEF IInv, vars, TypeOK, WhereInv, LockInv, Holds, ExitInv, Ending
<1>2. LifeInv' /\ OwnerInv'
  BY DEF IInv, vars, LifeInv, OwnerInv, Owns, Ending, Holds
<1>3. UseInv' /\ TimerInv'
  BY DEF IInv, vars, UseInv, Adds, TimerInv, Holds
<1>4. ListInv' /\ LinkInv' /\ NoLostWakeup'
  BY DEF IInv, vars, ListInv, LinkInv, Linked, NoLostWakeup
<1> QED
  BY <1>1, <1>2, <1>3, <1>4 DEF IInv

(* The invariant is inductive: any thread may be between any two sections  *)
(* of WorkQueue.cpp.                                                       *)
THEOREM Invariant == Spec => []IInv
<1>1. IInv /\ Next => IInv'
  BY TypeStep, WhereStep, LockStep, ExitStep, LifeStep, OwnerStep, UseStep,
     TimerStep, ListStep, LinkStep, WakeStep DEF IInv
<1>2. IInv /\ [Next]_vars => IInv'
  BY <1>1, StutterInv
<1> QED
  BY InitInv, <1>2, PTL DEF Spec, Safety

\* The state of the work queue keeps its type; the exit lock and the process
\* lock never fall below zero.
THEOREM Typing == Spec => []TypeOK
<1>1. IInv => TypeOK
  BY DEF IInv
<1> QED
  BY <1>1, Invariant, PTL

\* SignalWorkerThread and WorkQueue::Run: the worker never waits with an item
\* in the queue and no post on its way.
THEOREM WakeUp == Spec => []NoLostWakeup
<1>1. IInv => NoLostWakeup
  BY DEF IInv
<1> QED
  BY <1>1, Invariant, PTL

\* _exit_lock of ~WorkQueue and Detach: when a queue is destroyed it is
\* empty, and no thread is inside an operation of an item that was attached.
THEOREM SafeExit == Spec => []ExitSafe
<1>1. IInv => ExitSafe
  <2> SUFFICES ASSUME IInv, gone
                 PROVE  /\ attached = {} /\ head = Nil
                        /\ \A t \in Threads : pc[t] \notin Using
    BY DEF ExitSafe
  <2> USE WorkQueueAssumption DEF IInv, Threads
  <2>1. stop /\ lock = Nil /\ attached = {} /\ wq = {}
    BY DEF WhereInv, UseInv
  <2>2. head = Nil
    BY <2>1 DEF LinkInv, Linked, TypeOK
  <2>3. ASSUME NEW t \in Threads PROVE pc[t] \notin Using
    <3>1. ~Holds(t) /\ pc[t] # "unlock"
      BY <2>1 DEF Holds, LockInv
    <3>2. pc[t] \notin {"add", "signal", "post"}
      BY <2>1, <3>1 DEF UseInv, Adds
    <3>3. pc[t] \notin {"remove", "detach", "exitpost"}
      BY <2>1 DEF UseInv, ExitInv
    <3> QED
      BY <3>1, <3>2, <3>3 DEF Using
  <2> QED
    BY <2>1, <2>2, <2>3
<1> QED
  BY <1>1, Invariant, PTL

-----------------------------------------------------------------------------
(* The list as a whole.  The walk from the head is a recursive function,   *)
(* and what it finds is shown by the smallest index where it would not.    *)

LEMMA LeastNumber ==
  ASSUME NEW T \in SUBSET Nat, T # {}
  PROVE  \E n \in T : \A m \in T : n <= m
<1>1. PICK n \in T : \A m \in T : ~(<<m, n>> \in OpToRel(<, Nat))
  BY NatLessThanWellFounded, WFMin
<1>2. \A m \in T : m < n => <<m, n>> \in OpToRel(<, Nat)
  BY DEF OpToRel
<1>3. \A m \in T : ~(m < n)
  BY <1>1, <1>2
<1> QED
  BY <1>3

(* The queue spells q: the way from the head to the tail.                  *)
Spells(q) ==
  /\ \A i, j \in 1..Len(q) : q[i] = q[j] => i = j
  /\ head = IF q = <<>> THEN Nil ELSE q[1]
  /\ tail = IF q = <<>> THEN Nil ELSE q[Len(q)]
  /\ \A i \in 1..(Len(q) - 1) : next[q[i]] = q[i + 1]
  /\ \A x \in Items : (\A i \in 1..(Len(q) - 1) : q[i] # x) => next[x] = Nil

\* A recursive function is what its equation says if any function is.
LEMMA NodeEquation ==
  ASSUME NEW g,
         g = [i \in Nat |-> IF i = 0 THEN head
                            ELSE IF g[i - 1] = Nil THEN Nil ELSE next[g[i - 1]]]
  PROVE  Node = [i \in Nat |-> IF i = 0 THEN head
                   ELSE IF Node[i - 1] = Nil THEN Nil ELSE next[Node[i - 1]]]
BY DEF Node

LEMMA NodeOfChain ==
  ASSUME TypeOK, NEW q \in Seq(Items), Spells(q)
  PROVE  \A i \in Nat : Node[i] = IF i < Len(q) THEN q[i + 1] ELSE Nil
<1> DEFINE g == [i \in Nat |-> IF i < Len(q) THEN q[i + 1] ELSE Nil]
<1> USE WorkQueueAssumption
<1>1. \A i \in Nat : g[i] = IF i = 0 THEN head
                            ELSE IF g[i - 1] = Nil THEN Nil ELSE next[g[i - 1]]
  <2> SUFFICES ASSUME NEW i \in Nat
               PROVE  g[i] = IF i = 0 THEN head
                            ELSE IF g[i - 1] = Nil THEN Nil ELSE next[g[i - 1]]
    OBVIOUS
  <2>1. CASE i = 0
    BY <2>1 DEF Spells
  <2>2. CASE i # 0 /\ i < Len(q)
    <3>1. i - 1 \in Nat /\ g[i - 1] = q[i] /\ q[i] # Nil /\ i \in 1..(Len(q) - 1)
      BY <2>2
    <3>2. next[q[i]] = q[i + 1]
      BY <3>1 DEF Spells
    <3> QED
      BY <2>2, <3>1, <3>2
  <2>3. CASE i # 0 /\ i = Len(q)
    <3>1. i - 1 \in Nat /\ g[i - 1] = q[i] /\ q[i] \in Items /\ q[i] # Nil
      BY <2>3
    <3>2. \A j \in 1..(Len(q) - 1) : q[j] # q[i]
      BY <2>3 DEF Spells
    <3>3. next[q[i]] = Nil
      BY <3>1, <3>2 DEF Spells
    <3> QED
      BY <2>3, <3>1, <3>3
  <2>4. CASE i > Len(q)
    <3>1. i - 1 \in Nat /\ g[i - 1] = Nil /\ g[i] = Nil
      BY <2>4
    <3> QED
      BY <2>4, <3>1
  <2> QED
    BY <2>1, <2>2, <2>3, <2>4
<1>2. g = [i \in Nat |-> IF i = 0 THEN head
                         ELSE IF g[i - 1] = Nil THEN Nil ELSE next[g[i - 1]]]
  BY <1>1
<1> HIDE DEF g
<1>3. \A i \in Nat : Node[i] = IF i = 0 THEN head
                   ELSE IF Node[i - 1] = Nil THEN Nil ELSE next[Node[i - 1]]
  <2>1. Node = [i \in Nat |-> IF i = 0 THEN head
                   ELSE IF Node[i - 1] = Nil THEN Nil ELSE next[Node[i - 1]]]
    BY <1>2, NodeEquation
  <2> HIDE DEF Node
  <2> QED
    BY <2>1
<1>4. \A i \in Nat : Node[i] = g[i]
  <2> DEFINE T == {i \in Nat : Node[i] # g[i]}
  <2> SUFFICES ASSUME T # {} PROVE FALSE
    OBVIOUS
  <2>1. PICK n \in T : \A m \in T : n <= m
    BY LeastNumber
  <2>2. n # 0
    BY <1>1, <1>3
  <2>3. n - 1 \in Nat /\ n - 1 \notin T
    BY <2>1, <2>2
  <2>4. Node[n - 1] = g[n - 1]
    BY <2>3
  <2> QED
    BY <1>1, <1>3, <2>2, <2>4
<1> QED
  BY <1>4 DEF g

\* Distinct items are not more than there are.
LEMMA ChainLength ==
  ASSUME NEW q \in Seq(Items), Spells(q)
  PROVE  /\ Len(q) \in Nat /\ Len(q) <= Cardinality(Items)
         /\ Cardinality(Items) \in Nat
         /\ \A n \in Nat : Cardinality(1..n) = n
<1>1. Cardinality(Items) \in Nat
  BY FS_CardinalityType, WorkQueueAssumption
<1>2. \A n \in Nat : IsFiniteSet(1..n) /\ Cardinality(1..n) = n
  BY FS_Interval
<1>3. q \in [1..Len(q) -> Items] /\ Len(q) \in Nat
  OBVIOUS
<1>4. ~(Cardinality(Items) < Cardinality(1..Len(q)))
  <2> SUFFICES ASSUME Cardinality(Items) < Cardinality(1..Len(q)) PROVE FALSE
    OBVIOUS
  <2>1. \E i, j \in 1..Len(q) : i # j /\ q[i] = q[j]
    BY <1>2, <1>3, FS_PigeonHole, WorkQueueAssumption
  <2> QED
    BY <2>1 DEF Spells
<1> QED
  BY <1>1, <1>2, <1>3, <1>4

\* The walk from the head finds the items of q, in their order.
LEMMA QueuedIsChain ==
  ASSUME TypeOK, NEW q \in Seq(Items), Spells(q)
  PROVE  Queued = q
<1> DEFINE onTheWay == {i \in 1..Cardinality(Items) : Node[i - 1] # Nil}
<1> USE WorkQueueAssumption
<1>1. \A i \in Nat : Node[i] = IF i < Len(q) THEN q[i + 1] ELSE Nil
  BY NodeOfChain
<1>2. Len(q) \in Nat /\ Len(q) <= Cardinality(Items) /\ Cardinality(Items) \in Nat
  BY ChainLength
<1> HIDE DEF Node
<1>3. onTheWay = 1..Len(q)
  <2>1. \A i \in 1..Cardinality(Items) :
          i - 1 \in Nat /\ (i - 1 < Len(q)) = (i <= Len(q)) /\ (i - 1) + 1 = i
    BY <1>2
  <2>2. \A i \in 1..Len(q) : q[i] # Nil
    OBVIOUS
  <2>3. \A i \in 1..Cardinality(Items) : (Node[i - 1] # Nil) = (i <= Len(q))
    BY <1>1, <1>2, <2>1, <2>2
  <2> QED
    BY <1>2, <2>3
<1>4. Cardinality(onTheWay) = Len(q)
  BY <1>2, <1>3, ChainLength
<1>5. Queued = [i \in 1..Len(q) |-> Node[i - 1]]
  BY <1>4 DEF Queued
<1>6. \A i \in 1..Len(q) : Node[i - 1] = q[i]
  BY <1>1, <1>2
<1>7. q = [i \in 1..Len(q) |-> q[i]]
  OBVIOUS
<1> QED
  BY <1>5, <1>6, <1>7


\* An item is in the list if it is the head or some item's successor.
LEMMA LinkedInChain ==
  ASSUME TypeOK, NEW q \in Seq(Items), Spells(q), NEW x \in Items
  PROVE  /\ Linked(x) => \E i \in 1..Len(q) : q[i] = x
         /\ (\E i \in 1..Len(q) : q[i] = x) => Linked(x)
<1> USE WorkQueueAssumption DEF TypeOK
<1>1. ASSUME x = head PROVE \E i \in 1..Len(q) : q[i] = x
  <2>1. q # <<>> /\ q[1] = x
    BY <1>1 DEF Spells
  <2>2. 1 \in 1..Len(q)
    BY <2>1
  <2> QED
    BY <2>1, <2>2
<1>2. ASSUME NEW y \in Items, next[y] = x PROVE \E i \in 1..Len(q) : q[i] = x
  <2>1. PICK i \in 1..(Len(q) - 1) : q[i] = y
    BY <1>2 DEF Spells
  <2>2. i + 1 \in 1..Len(q) /\ q[i + 1] = x
    BY <1>2, <2>1 DEF Spells
  <2> QED
    BY <2>2
<1>3. ASSUME NEW i \in 1..Len(q), q[i] = x PROVE Linked(x)
  <2>1. CASE i = 1
    <3>1. q # <<>>
      OBVIOUS
    <3> QED
      BY <1>3, <2>1, <3>1 DEF Spells, Linked
  <2>2. CASE i # 1
    <3>1. i - 1 \in 1..(Len(q) - 1) /\ q[i - 1] \in Items /\ (i - 1) + 1 = i
      BY <2>2
    <3>2. next[q[i - 1]] = x
      BY <1>3, <3>1 DEF Spells
    <3> QED
      BY <3>1, <3>2 DEF Linked
  <2> QED
    BY <2>1, <2>2
<1> QED
  BY <1>1, <1>2, <1>3 DEF Linked

\* The two tests of push() tell whether the item is in the list.
LEMMA PushChain ==
  ASSUME TypeOK, NEW q \in Seq(Items), Spells(q), NEW x \in Items, Push(x)
  PROVE  \E p \in Seq(Items) :
           /\ Spells(p)'
           /\ p = q \/ ((\A i \in 1..Len(q) : q[i] # x) /\ p = Append(q, x))
<1> USE WorkQueueAssumption DEF TypeOK
<1>1. CASE next[x] # Nil \/ x = tail
  <2>1. head' = head /\ tail' = tail /\ next' = next
    BY <1>1 DEF Push, fifo
  <2>2. Spells(q)'
    BY <2>1 DEF Spells
  <2> QED
    BY <2>2
<1>2. CASE ~(next[x] # Nil \/ x = tail)
  <2> DEFINE n == Len(q)
             p == Append(q, x)
  <2>1. \A i \in 1..n : q[i] # x
    <3> SUFFICES ASSUME NEW i \in 1..n, q[i] = x PROVE FALSE
      OBVIOUS
    <3>1. CASE i = n
      BY <1>2, <3>1 DEF Spells
    <3>2. CASE i # n
      <4>1. i \in 1..(n - 1) /\ q[i + 1] \in Items
        BY <3>2
      <4> QED
        BY <1>2, <4>1 DEF Spells
    <3> QED
      BY <3>1, <3>2
  <2>2. /\ p \in Seq(Items) /\ Len(p) = n + 1 /\ p # <<>> /\ n \in Nat
        /\ \A i \in 1..n : p[i] = q[i]
        /\ p[n + 1] = x
    OBVIOUS
  <2> HIDE DEF p
  <2>3. \A i, j \in 1..Len(p) : p[i] = p[j] => i = j
    <3>1. \A i, j \in 1..n : q[i] = q[j] => i = j
      BY DEF Spells
    <3>2. \A i \in 1..Len(p) : i \in 1..n \/ i = n + 1
      BY <2>2
    <3>3. \A i \in 1..n : p[i] # x
      BY <2>1, <2>2
    <3>4. \A i, j \in 1..n : p[i] = p[j] => i = j
      BY <2>2, <3>1
    <3> QED
      BY <2>2, <3>2, <3>3, <3>4
  <2>4. CASE n = 0
    <3>1. q = <<>> /\ head = Nil /\ tail = Nil
      BY <2>4 DEF Spells
    <3>2. head' = x /\ tail' = x /\ next' = next
      BY <1>2, <3>1 DEF Push
    <3>3. \A y \in Items : next[y] = Nil
      BY <2>4 DEF Spells
    <3>4. Spells(p)'
      BY <2>2, <2>3, <2>4, <3>2, <3>3 DEF Spells
    <3> QED
      BY <2>1, <2>2, <3>4 DEF p
  <2>5. CASE n # 0
    <3>1. n \in 1..n /\ q # <<>> /\ tail = q[n] /\ head = q[1] /\ tail \in Items
      BY <2>2, <2>5 DEF Spells
    <3>2. head' = head /\ tail' = x /\ next' = [next EXCEPT ![tail] = x]
      BY <1>2, <3>1 DEF Push
    <3>3. \A i \in 1..(n - 1) : q[i] # tail
      BY <3>1 DEF Spells
    <3>4. ASSUME NEW i \in 1..(Len(p) - 1) PROVE next'[p[i]] = p[i + 1]
      <4>1. CASE i = n
        BY <2>2, <3>1, <3>2, <4>1
      <4>2. CASE i # n
        <5>1. i \in 1..(n - 1) /\ i + 1 \in 1..n
          BY <2>2, <4>2
        <5>2. p[i] = q[i] /\ p[i + 1] = q[i + 1] /\ q[i] # tail /\ q[i] \in Items
          BY <2>2, <3>3, <5>1
        <5>3. next[q[i]] = q[i + 1]
          BY <5>1 DEF Spells
        <5> QED
          BY <3>2, <5>2, <5>3
      <4> QED
        BY <4>1, <4>2
    <3>5. ASSUME NEW y \in Items, \A i \in 1..(Len(p) - 1) : p[i] # y
          PROVE  next'[y] = Nil
      <4>1. \A i \in 1..n : q[i] # y
        BY <2>2, <3>5
      <4>2. y # tail
        BY <3>1, <4>1
      <4>3. next[y] = Nil
        BY <4>1 DEF Spells
      <4> QED
        BY <3>2, <4>2, <4>3
    <3>6. head' = p[1] /\ tail' = p[Len(p)]
      BY <2>2, <3>1, <3>2
    <3>7. Spells(p)'
      BY <2>2, <2>3, <3>4, <3>5, <3>6 DEF Spells
    <3> QED
      BY <2>1, <2>2, <3>7 DEF p
  <2> QED
    BY <2>4, <2>5
<1> QED
  BY <1>1, <1>2

\* pop() takes the first.
LEMMA PopChain ==
  ASSUME TypeOK, NEW q \in Seq(Items), Spells(q), head # Nil, Pop
  PROVE  q # <<>> /\ Tail(q) \in Seq(Items) /\ Spells(Tail(q))'
<1> USE WorkQueueAssumption DEF TypeOK
<1> DEFINE n == Len(q)
           p == Tail(q)
<1>1. q # <<>> /\ n \in Nat \ {0} /\ head = q[1] /\ tail = q[n] /\ head \in Items
  BY DEF Spells
<1>2. /\ p \in Seq(Items) /\ Len(p) = n - 1
      /\ \A i \in 1..(n - 1) : p[i] = q[i + 1]
  BY <1>1
<1> HIDE DEF p
<1>3. \A i, j \in 1..n : q[i] = q[j] => i = j
  BY DEF Spells
<1>4. \A i, j \in 1..Len(p) : p[i] = p[j] => i = j
  <2> SUFFICES ASSUME NEW i \in 1..Len(p), NEW j \in 1..Len(p), p[i] = p[j]
               PROVE  i = j
    OBVIOUS
  <2>1. i + 1 \in 1..n /\ j + 1 \in 1..n /\ q[i + 1] = q[j + 1]
    BY <1>1, <1>2
  <2> QED
    BY <1>3, <2>1
<1>5. next' = [next EXCEPT ![head] = Nil]
  BY DEF Pop
<1>6. ASSUME NEW i \in 1..(Len(p) - 1) PROVE next'[p[i]] = p[i + 1]
  <2>1. i + 1 \in 1..(n - 1) /\ i + 1 \in 1..n /\ 1 \in 1..n /\ i + 1 # 1
    BY <1>1, <1>2
  <2>2. p[i] = q[i + 1] /\ p[i + 1] = q[(i + 1) + 1] /\ q[i + 1] \in Items
    BY <1>1, <1>2, <2>1
  <2>3. q[i + 1] # head
    BY <1>1, <1>3, <2>1
  <2>4. next[q[i + 1]] = q[(i + 1) + 1]
    BY <2>1 DEF Spells
  <2> QED
    BY <1>5, <2>2, <2>3, <2>4
<1>7. ASSUME NEW y \in Items, \A i \in 1..(Len(p) - 1) : p[i] # y
      PROVE  next'[y] = Nil
  <2>1. CASE y = head
    BY <1>5, <2>1
  <2>2. CASE y # head
    <3>1. ASSUME NEW i \in 1..(n - 1) PROVE q[i] # y
      <4>1. CASE i = 1
        BY <1>1, <2>2, <4>1
      <4>2. CASE i # 1
        <5>1. i - 1 \in 1..(Len(p) - 1) /\ i - 1 \in 1..(n - 1) /\ (i - 1) + 1 = i
          BY <1>1, <1>2, <4>2
        <5>2. p[i - 1] = q[i]
          BY <1>2, <5>1
        <5> QED
          BY <1>7, <5>1, <5>2
      <4> QED
        BY <4>1, <4>2
    <3>2. next[y] = Nil
      BY <3>1 DEF Spells
    <3> QED
      BY <1>5, <2>2, <3>2
  <2> QED
    BY <2>1, <2>2
<1>8. CASE n = 1
  <2>1. p = <<>> /\ head = tail
    BY <1>1, <1>2, <1>8
  <2>2. head' = Nil /\ tail' = Nil
    BY <2>1 DEF Pop
  <2>3. Spells(p)'
    BY <1>4, <1>6, <1>7, <2>1, <2>2 DEF Spells
  <2> QED
    BY <1>1, <1>2, <2>3 DEF p
<1>9. CASE n # 1
  <2>0. n \in Nat /\ n # 0 /\ n # 1
    BY <1>1, <1>9
  <2> HIDE DEF n
  <2>a. n >= 2
    BY <2>0
  <2>1. n \in 1..n /\ 1 \in 1..n /\ 1 \in 1..(n - 1) /\ n - 1 \in 1..(n - 1) /\ (n - 1) + 1 = n
    BY <2>0, <2>a
  <2> USE DEF n
  <2>2. head # tail /\ p # <<>>
    BY <1>1, <1>2, <1>3, <1>9, <2>1
  <2>3. next[head] = q[1 + 1]
    BY <1>1, <2>1 DEF Spells
  <2>4. head' = next[head] /\ tail' = tail
    BY <2>2 DEF Pop
  <2>5. head' = p[1] /\ tail' = p[Len(p)]
    BY <1>1, <1>2, <2>1, <2>3, <2>4
  <2>6. Spells(p)'
    BY <1>4, <1>6, <1>7, <2>2, <2>5 DEF Spells
  <2> QED
    BY <1>1, <1>2, <2>6 DEF p
<1> QED
  BY <1>8, <1>9

\* A list without its i-th item.
Without(q, i) == SubSeq(q, 1, i - 1) \o SubSeq(q, i + 1, Len(q))

LEMMA ConcatFacts ==
  ASSUME NEW a \in Seq(Items), NEW b \in Seq(Items)
  PROVE  /\ a \o b \in Seq(Items) /\ Len(a \o b) = Len(a) + Len(b)
         /\ \A j \in 1..Len(a) : (a \o b)[j] = a[j]
         /\ \A j \in (Len(a) + 1)..(Len(a) + Len(b)) : (a \o b)[j] = b[j - Len(a)]
OBVIOUS

LEMMA WithoutFacts ==
  ASSUME NEW q \in Seq(Items), NEW i \in 1..Len(q)
  PROVE  /\ Without(q, i) \in Seq(Items)
         /\ Len(Without(q, i)) = Len(q) - 1
         /\ \A j \in 1..(i - 1) : Without(q, i)[j] = q[j]
         /\ \A j \in i..(Len(q) - 1) : Without(q, i)[j] = q[j + 1]
<1> DEFINE a == SubSeq(q, 1, i - 1)
           b == SubSeq(q, i + 1, Len(q))
           r == a \o b
<1>1. /\ a \in Seq(Items) /\ Len(a) = i - 1
      /\ \A j \in 1..(i - 1) : a[j] = q[j]
  OBVIOUS
<1>2. /\ b \in Seq(Items) /\ Len(b) = Len(q) - i
      /\ \A j \in 1..(Len(q) - i) : b[j] = q[i + j]
  OBVIOUS
<1> HIDE DEF a, b
<1>3. /\ r \in Seq(Items) /\ Len(r) = Len(a) + Len(b)
      /\ \A j \in 1..Len(a) : r[j] = a[j]
      /\ \A j \in (Len(a) + 1)..(Len(a) + Len(b)) : r[j] = b[j - Len(a)]
  BY <1>1, <1>2, ConcatFacts
<1> HIDE DEF r
<1>4. Len(a) + Len(b) = Len(q) - 1 /\ Len(a) + 1 = i
  BY <1>1, <1>2
<1>5. ASSUME NEW j \in i..(Len(q) - 1) PROVE r[j] = q[j + 1]
  <2>1. j - (i - 1) \in 1..(Len(q) - i) /\ i + (j - (i - 1)) = j + 1
    OBVIOUS
  <2>2. b[j - (i - 1)] = q[j + 1]
    BY <1>2, <2>1
  <2> QED
    BY <1>1, <1>3, <1>4, <2>2
<1>6. \A j \in 1..(i - 1) : r[j] = q[j]
  BY <1>1, <1>3
<1>7. Without(q, i) = r
  BY DEF Without, a, b, r
<1> QED
  BY <1>3, <1>4, <1>5, <1>6, <1>7

\* remove() takes the item out, wherever it is, if it is there at all.
LEMMA UnlinkChain ==
  ASSUME TypeOK, NEW q \in Seq(Items), Spells(q), NEW x \in Items, Unlink(x)
  PROVE  \E p \in Seq(Items) :
           /\ Spells(p)'
           /\ p = q \/ \E i \in 1..Len(q) : q[i] = x /\ p = Without(q, i)
<1> USE WorkQueueAssumption DEF TypeOK
<1>1. CASE ~Linked(x)
  <2>1. head' = head /\ tail' = tail /\ next' = next
    BY <1>1 DEF Unlink, Linked, fifo
  <2>2. Spells(q)'
    BY <2>1 DEF Spells
  <2> QED
    BY <2>2
<1>2. CASE Linked(x)
  <2>1. PICK k \in 1..Len(q) : q[k] = x
    BY <1>2, LinkedInChain
  <2> DEFINE n == Len(q)
             p == Without(q, k)
  <2>2. /\ p \in Seq(Items) /\ Len(p) = n - 1
        /\ \A j \in 1..(k - 1) : p[j] = q[j]
        /\ \A j \in k..(n - 1) : p[j] = q[j + 1]
    BY WithoutFacts
  <2> HIDE DEF p
  <2>3. n \in Nat \ {0} /\ q # <<>> /\ head = q[1] /\ tail = q[n] /\ head \in Items
    BY <2>1 DEF Spells
  <2>4. \A i, j \in 1..n : q[i] = q[j] => i = j
    BY DEF Spells
  <2>5. \A i, j \in 1..Len(p) : p[i] = p[j] => i = j
    <3> SUFFICES ASSUME NEW i \in 1..Len(p), NEW j \in 1..Len(p), p[i] = p[j]
                 PROVE  i = j
      OBVIOUS
    <3>1. /\ i \in 1..n /\ i + 1 \in 1..n /\ j \in 1..n /\ j + 1 \in 1..n
          /\ i \in 1..(k - 1) \/ i \in k..(n - 1)
          /\ j \in 1..(k - 1) \/ j \in k..(n - 1)
      BY <2>2
    <3>2. CASE i \in 1..(k - 1) /\ j \in 1..(k - 1)
      BY <2>2, <2>4, <3>1, <3>2
    <3>3. CASE i \in 1..(k - 1) /\ j \in k..(n - 1)
      <4>1. q[i] = q[j + 1] /\ i # j + 1
        BY <2>2, <3>1, <3>3
      <4> QED
        BY <2>4, <3>1, <4>1
    <3>4. CASE i \in k..(n - 1) /\ j \in 1..(k - 1)
      <4>1. q[i + 1] = q[j] /\ i + 1 # j
        BY <2>2, <3>1, <3>4
      <4> QED
        BY <2>4, <3>1, <4>1
    <3>5. CASE i \in k..(n - 1) /\ j \in k..(n - 1)
      <4>1. q[i + 1] = q[j + 1]
        BY <2>2, <3>1, <3>5
      <4>2. i + 1 = j + 1
        BY <2>4, <3>1, <4>1
      <4> QED
        BY <4>2
    <3> QED
      BY <3>1, <3>2, <3>3, <3>4, <3>5
  <2>6. CASE k = 1
    <3>1. x = head
      BY <2>1, <2>3, <2>6
    <3>2. /\ head' = next[x] /\ tail' = IF next[x] = Nil THEN Nil ELSE tail
          /\ next' = [next EXCEPT ![x] = Nil]
      BY <3>1 DEF Unlink
    <3>3. ASSUME NEW i \in 1..(Len(p) - 1) PROVE next'[p[i]] = p[i + 1]
      <4>1. i \in k..(n - 1) /\ i + 1 \in k..(n - 1) /\ i + 1 \in 1..n /\ 1 \in 1..n
        BY <2>2, <2>6
      <4>2. p[i] = q[i + 1] /\ p[i + 1] = q[(i + 1) + 1] /\ q[i + 1] \in Items
        BY <2>2, <4>1
      <4>3. i + 1 \in 1..(n - 1) /\ i + 1 # 1
        BY <2>2
      <4>4. q[i + 1] # x
        BY <2>1, <2>4, <2>6, <4>1, <4>3
      <4>5. next[q[i + 1]] = q[(i + 1) + 1]
        BY <4>3 DEF Spells
      <4> QED
        BY <3>2, <4>2, <4>4, <4>5
    <3>4. ASSUME NEW y \in Items, \A i \in 1..(Len(p) - 1) : p[i] # y
          PROVE  next'[y] = Nil
      <4>1. CASE y = x
        BY <3>2, <4>1
      <4>2. CASE y # x
        <5>1. ASSUME NEW i \in 1..(n - 1) PROVE q[i] # y
          <6>1. CASE i = 1
            BY <2>1, <2>6, <4>2, <6>1
          <6>2. CASE i # 1
            <7>1. i - 1 \in 1..(Len(p) - 1) /\ i - 1 \in k..(n - 1) /\ (i - 1) + 1 = i
              BY <2>2, <2>6, <6>2
            <7>2. p[i - 1] = q[i]
              BY <2>2, <7>1
            <7> QED
              BY <3>4, <7>1, <7>2
          <6> QED
            BY <6>1, <6>2
        <5>2. next[y] = Nil
          BY <5>1 DEF Spells
        <5> QED
          BY <3>2, <4>2, <5>2
      <4> QED
        BY <4>1, <4>2
    <3>5. CASE n = 1
      <4>1. p = <<>> /\ \A i \in 1..(n - 1) : q[i] # x
        BY <2>2, <3>5
      <4>2. next[x] = Nil
        BY <4>1 DEF Spells
      <4>3. Spells(p)'
        BY <2>5, <3>2, <3>3, <3>4, <4>1, <4>2 DEF Spells
      <4> QED
        BY <2>1, <2>2, <4>3 DEF p
    <3>6. CASE n # 1
      <4>0. n \in Nat /\ n # 0 /\ n # 1
        BY <2>3, <3>6
      <4> HIDE DEF n
      <4>1. n \in Nat /\ n >= 2
        BY <4>0
      <4> USE DEF n
      <4>2. /\ p # <<>> /\ 1 \in 1..(n - 1) /\ 1 \in k..(n - 1)
            /\ n - 1 \in k..(n - 1) /\ 2 \in 1..n
        BY <2>2, <2>6, <4>1
      <4>3. next[x] = q[1 + 1] /\ q[1 + 1] \in Items
        BY <2>1, <2>6, <4>2 DEF Spells
      <4>4. head' = p[1]
        BY <2>2, <3>2, <4>2, <4>3
      <4>5. tail' = p[Len(p)]
        <5>1. (n - 1) + 1 = n
          BY <4>1
        <5>2. p[n - 1] = q[n]
          BY <2>2, <4>2, <5>1
        <5> QED
          BY <2>2, <2>3, <3>2, <4>3, <5>2
      <4>6. Spells(p)'
        BY <2>5, <3>3, <3>4, <4>2, <4>4, <4>5 DEF Spells
      <4> QED
        BY <2>1, <2>2, <4>6 DEF p
    <3> QED
      BY <3>5, <3>6
  <2>7. CASE k # 1
    <3>1. /\ k - 1 \in 1..(n - 1) /\ k - 1 \in 1..n /\ (k - 1) + 1 = k
          /\ 1 \in 1..n /\ 1 \in 1..(k - 1)
      BY <2>7
    <3>2. x # head
      BY <2>1, <2>3, <2>4, <2>7, <3>1
    <3> DEFINE y == q[k - 1]
    <3>3. y \in Items /\ next[y] = x
      BY <2>1, <3>1 DEF Spells
    <3>4. \A z \in Items : next[z] = x => z = y
      <4> SUFFICES ASSUME NEW z \in Items, next[z] = x PROVE z = y
        OBVIOUS
      <4>1. PICK i \in 1..(n - 1) : q[i] = z
        BY DEF Spells
      <4>2. q[i + 1] = x /\ i + 1 \in 1..n
        BY <4>1 DEF Spells
      <4>3. i + 1 = k
        BY <2>1, <2>4, <4>2
      <4>4. i = k - 1
        BY <4>3
      <4> QED
        BY <4>1, <4>4
    <3> HIDE DEF y
    <3>5. /\ head' = head /\ tail' = IF x = tail THEN y ELSE tail
          /\ next' = [next EXCEPT ![y] = next[x], ![x] = Nil]
      <4>1. (CHOOSE z \in Items : next[z] = x) = y
        BY <3>3, <3>4
      <4> QED
        BY <3>2, <3>3, <4>1 DEF Unlink
    <3>6. y # x
      BY <2>1, <2>4, <2>7, <3>1 DEF y
    <3>7. next'[y] = next[x] /\ next'[x] = Nil
          /\ \A z \in Items : z # x /\ z # y => next'[z] = next[z]
      BY <3>3, <3>5, <3>6
    <3>8. p # <<>> /\ Len(p) \in 1..Len(p) /\ p[1] = q[1]
      BY <2>2, <3>1
    <3>9. head' = p[1]
      BY <2>3, <3>5, <3>8
    <3>10. tail' = p[Len(p)]
      <4>1. CASE k = n
        <5>1. x = tail
          BY <2>1, <2>3, <4>1
        <5>2. Len(p) = k - 1 /\ p[k - 1] = y
          BY <2>2, <3>1, <4>1 DEF y
        <5> QED
          BY <3>5, <5>1, <5>2
      <4>2. CASE k # n
        <5>1. n \in 1..n /\ n - 1 \in k..(n - 1) /\ (n - 1) + 1 = n
          BY <4>2
        <5>2. x # tail
          BY <2>1, <2>3, <2>4, <4>2, <5>1
        <5>3. p[n - 1] = q[n]
          BY <2>2, <5>1
        <5> QED
          BY <2>2, <2>3, <3>5, <5>2, <5>3
      <4> QED
        BY <4>1, <4>2
    <3>11. ASSUME NEW i \in 1..(Len(p) - 1) PROVE next'[p[i]] = p[i + 1]
      <4>1. CASE i = k - 1
        <5>1. k \in k..(n - 1) /\ k \in 1..(n - 1) /\ i \in 1..(k - 1) /\ i + 1 = k
          BY <2>2, <3>1, <4>1
        <5>2. p[i] = y /\ p[i + 1] = q[k + 1]
          BY <2>2, <4>1, <5>1 DEF y
        <5>3. next[x] = q[k + 1]
          BY <2>1, <5>1 DEF Spells
        <5> QED
          BY <3>7, <5>2, <5>3
      <4>2. CASE i # k - 1 /\ i \in 1..(k - 1)
        <5>1. i + 1 \in 1..(k - 1) /\ i \in 1..(n - 1) /\ i \in 1..n /\ i # k
          BY <2>2, <4>2
        <5>2. p[i] = q[i] /\ p[i + 1] = q[i + 1] /\ q[i] \in Items
          BY <2>2, <4>2, <5>1
        <5>3. q[i] # x /\ q[i] # y
          BY <2>1, <2>4, <3>1, <4>2, <5>1 DEF y
        <5>4. next[q[i]] = q[i + 1]
          BY <5>1 DEF Spells
        <5> QED
          BY <3>7, <5>2, <5>3, <5>4
      <4>3. CASE i \notin 1..(k - 1)
        <5>1. /\ i \in k..(n - 1) /\ i + 1 \in k..(n - 1)
              /\ i + 1 \in 1..n /\ i + 1 \in 1..(n - 1)
              /\ i + 1 # k /\ i + 1 # k - 1
          BY <2>2, <4>3
        <5>2. p[i] = q[i + 1] /\ p[i + 1] = q[(i + 1) + 1] /\ q[i + 1] \in Items
          BY <2>2, <5>1
        <5>3. q[i + 1] # x /\ q[i + 1] # y
          BY <2>1, <2>4, <3>1, <5>1 DEF y
        <5>4. next[q[i + 1]] = q[(i + 1) + 1]
          BY <5>1 DEF Spells
        <5> QED
          BY <3>7, <5>2, <5>3, <5>4
      <4> QED
        BY <4>1, <4>2, <4>3
    <3>12. ASSUME NEW z \in Items, \A i \in 1..(Len(p) - 1) : p[i] # z
           PROVE  next'[z] = Nil
      <4>1. CASE z = x
        BY <3>7, <4>1
      <4>2. CASE z = y
        <5>1. k = n
          <6> SUFFICES ASSUME k # n PROVE FALSE
            OBVIOUS
          <6>1. k - 1 \in 1..(Len(p) - 1) /\ k - 1 \in 1..(k - 1)
            BY <2>2, <3>1
          <6>2. p[k - 1] = y
            BY <2>2, <6>1 DEF y
          <6> QED
            BY <3>12, <4>2, <6>1, <6>2
        <5>2. \A i \in 1..(n - 1) : q[i] # x
          <6> SUFFICES ASSUME NEW i \in 1..(n - 1), q[i] = x PROVE FALSE
            OBVIOUS
          <6>1. i \in 1..n /\ i # k
            BY <5>1
          <6> QED
            BY <2>1, <2>4, <6>1
        <5>3. next[x] = Nil
          BY <5>2 DEF Spells
        <5> QED
          BY <3>7, <4>2, <5>3
      <4>3. CASE z # x /\ z # y
        <5>1. ASSUME NEW i \in 1..(n - 1) PROVE q[i] # z
          <6>1. CASE i < k - 1
            <7>1. i \in 1..(Len(p) - 1) /\ i \in 1..(k - 1)
              BY <2>2, <6>1
            <7>2. p[i] = q[i]
              BY <2>2, <7>1
            <7> QED
              BY <3>12, <7>1, <7>2
          <6>2. CASE i = k - 1
            BY <4>3, <6>2 DEF y
          <6>3. CASE i = k
            BY <2>1, <4>3, <6>3
          <6>4. CASE i > k
            <7>1. i - 1 \in 1..(Len(p) - 1) /\ i - 1 \in k..(n - 1) /\ (i - 1) + 1 = i
              BY <2>2, <6>4
            <7>2. p[i - 1] = q[i]
              BY <2>2, <7>1
            <7> QED
              BY <3>12, <7>1, <7>2
          <6> QED
            BY <6>1, <6>2, <6>3, <6>4
        <5>2. next[z] = Nil
          BY <5>1 DEF Spells
        <5> QED
          BY <3>7, <4>3, <5>2
      <4> QED
        BY <4>1, <4>2, <4>3
    <3>13. Spells(p)'
      BY <2>5, <3>8, <3>9, <3>10, <3>11, <3>12 DEF Spells
    <3> QED
      BY <2>1, <2>2, <3>13 DEF p
  <2> QED
    BY <2>6, <2>7
<1> QED
  BY <1>1, <1>2

-----------------------------------------------------------------------------
(* Leaving the queue, and being cleared.                                   *)

(* An item leaves in steps: from when its destructor has cleared _wq until *)
(* it is detached it belongs to the thread that deletes it.                *)
LeaveInv ==
  /\ \A x \in attached : life[x] \notin {"none", "dead"}
  /\ \A x \in attached \ wq :
       /\ life[x] = "closing"
       /\ \E t \in Threads : pc[t] \in {"remove", "detach"} /\ arg[t] = x
  /\ \A t \in Threads : Ending(t) => stop

(* A cleared item can be queued again only by a timer that fired before it *)
(* was cancelled, and then the clearing still waits for the lock.          *)
IdleInv ==
  \A x \in idle :
    /\ life[x] \in {"live", "closing", "dead"}
    /\ armed[x] = "off"
    /\ \A t \in Threads \ {Timer} : ~(pc[t] = "add" /\ arg[t] = x)
    /\ pc[Timer] = "add" /\ arg[Timer] = x =>
         pc[Worker] \in {"clear", "remove"} /\ arg[Worker] = x /\ ~Holds(Worker)
    /\ Linked(x) => Clearing(x)

LEMMA LeaveStep ==
  ASSUME TypeOK, WhereInv, LockInv, ExitInv, LifeInv, OwnerInv, UseInv, LeaveInv, Next
  PROVE  LeaveInv'
<1> USE WorkQueueAssumption
    DEF Threads, fifo, items, queue, Goto, Home, Holds, Release,
        TypeOK, WhereInv, LockInv, LifeInv, OwnerInv, Owns, Ending, UseInv, LeaveInv, ItemLabels, Labels
<1>1. ASSUME NEW t \in Threads, Lock(t) PROVE LeaveInv'
  BY <1>1 DEF Lock, Sections
<1>2. ASSUME NEW t \in Threads, Add(t) PROVE LeaveInv'
  BY <1>2 DEF Add, Push
<1>3. ASSUME NEW t \in Threads, Signal(t) PROVE LeaveInv'
  BY <1>3 DEF Signal, Signalled
<1>4. ASSUME NEW t \in Threads, Post(t) PROVE LeaveInv'
  BY <1>4 DEF Post, Signalled
<1>5. ASSUME NEW t \in Callers \cup {Worker}, ClearQueued(t) PROVE LeaveInv'
  BY <1>5 DEF ClearQueued
<1>6. ASSUME NEW t \in Callers \cup {Worker}, Remove(t) PROVE LeaveInv'
  BY <1>6 DEF Remove, Unlink
<1>7. ASSUME NEW t \in Callers \cup {Worker}, Lost(t) PROVE LeaveInv'
  BY <1>7 DEF Lost
<1>8. ASSUME NEW t \in Callers \cup {Worker}, Attach(t) PROVE LeaveInv'
  BY <1>8 DEF Attach
<1>9. ASSUME NEW t \in Callers \cup {Worker}, Start(t) PROVE LeaveInv'
  BY <1>9 DEF Start
<1>10. ASSUME NEW t \in Callers \cup {Worker}, StartFails(t) PROVE LeaveInv'
  BY <1>10 DEF StartFails
<1>11. ASSUME NEW t \in Callers \cup {Worker}, Deinit(t) PROVE LeaveInv'
  BY <1>11 DEF Deinit
<1>12. ASSUME NEW t \in Callers \cup {Worker}, Detach(t) PROVE LeaveInv'
  BY <1>12 DEF Detach
<1>13. ASSUME NEW t \in Callers \cup {Worker}, Unlock(t) PROVE LeaveInv'
  BY <1>13 DEF Unlock
<1>14. ASSUME NEW t \in Callers \cup {Worker}, ExitPost(t) PROVE LeaveInv'
  BY <1>14 DEF ExitPost
<1>15. ASSUME NEW t \in Callers \cup {Worker}, NEW x \in Items, ScheduleNow(t, x) PROVE LeaveInv'
  BY <1>15 DEF ScheduleNow, Begin, Free
<1>16. ASSUME NEW t \in Callers \cup {Worker}, NEW x \in Items, Find(t, x) PROVE LeaveInv'
  BY <1>16 DEF Find, Begin, Free
<1>17. ASSUME NEW x \in Items, ScheduleTimer(x) PROVE LeaveInv'
  BY <1>17 DEF ScheduleTimer
<1>18. ASSUME NEW x \in Items, ScheduleClear(x) PROVE LeaveInv'
  BY <1>18 DEF ScheduleClear, Cancelled, Unscheduled
<1>19. ASSUME NEW x \in Items, Fire(x) PROVE LeaveInv'
  BY <1>19 DEF Fire, Begin
<1>20. ASSUME NEW x \in Items, Exit(x) PROVE LeaveInv'
  BY <1>20 DEF Exit, Cancelled, Unscheduled
<1>21. CASE Check
  BY <1>21 DEF Check
<1>22. CASE Wait
  BY <1>22 DEF Wait
<1>23. CASE Take
  BY <1>23 DEF Take, Pop
<1>24. CASE Drained
  BY <1>24 DEF Drained
<1>25. CASE Unlist
  BY <1>25 DEF Unlist
<1>26. CASE Destroy
  BY <1>26 DEF Destroy
<1>27. CASE Return
  BY <1>27 DEF Return, Begin
<1> QED
  BY <1>1, <1>2, <1>3, <1>4, <1>5, <1>6, <1>7, <1>8, <1>9, <1>10, <1>11, <1>12, <1>13, <1>14,
     <1>15, <1>16, <1>17, <1>18, <1>19, <1>20, <1>21, <1>22, <1>23, <1>24, <1>25, <1>26, <1>27
  DEF Next, Operation, TimerOperation, WorkerLoop

LEMMA IdleStep ==
  ASSUME TypeOK, WhereInv, LockInv, LifeInv, OwnerInv, UseInv, TimerInv, ListInv,
         LinkInv, LeaveInv, IdleInv, Next
  PROVE  IdleInv'
<1> USE WorkQueueAssumption
    DEF Threads, fifo, items, queue, Goto, Home, Holds, Release,
        TypeOK, WhereInv, LockInv, IdleInv, Linked, Clearing, ItemLabels, Labels
<1>1. ASSUME NEW t \in Threads, Lock(t), t # Timer => ~TimerRuns PROVE IdleInv'
  BY <1>1 DEF Lock, TimerRuns, Sections

<1>2. ASSUME NEW t \in Threads, Add(t) PROVE IdleInv'
  <2>1. arg[t] \in Items /\ pc[t] = "add"
    BY <1>2 DEF Add
  <2>2. \A z \in Items : Linked(z)' => Linked(z) \/ z = arg[t]
    BY <1>2, <2>1, PushFacts DEF Add
  <2> QED
    BY <1>2, <2>1, <2>2 DEF Add
<1>3. ASSUME NEW t \in Threads, Signal(t) PROVE IdleInv'
  BY <1>3 DEF Signal, Signalled
<1>4. ASSUME NEW t \in Threads, Post(t) PROVE IdleInv'
  BY <1>4 DEF Post, Signalled
<1>5. ASSUME NEW t \in Callers \cup {Worker}, ClearQueued(t) PROVE IdleInv'
  <2>1. pc[t] = "clear" /\ ~Holds(t) /\ arg[t] \in Items /\ Owns(t)
    BY <1>5 DEF ClearQueued, Sections, Owns
  <2>2. CASE arg[t] \in wq
    BY <1>5, <2>1, <2>2 DEF ClearQueued
  <2>3. CASE arg[t] \notin wq
    <3>1. ~Linked(arg[t])
      <4> SUFFICES ASSUME Linked(arg[t]) PROVE FALSE
        OBVIOUS
      <4>1. PICK u \in Threads : pc[u] \in {"remove", "detach"} /\ arg[u] = arg[t]
        BY <2>1, <2>3 DEF LinkInv, LeaveInv
      <4> QED
        BY <2>1, <4>1 DEF OwnerInv, Owns
    <3>2. ~(pc[Timer] = "add" /\ arg[Timer] = arg[t])
      BY <2>3 DEF UseInv, Adds
    <3> QED
      BY <1>5, <2>1, <2>3, <3>1, <3>2 DEF ClearQueued
  <2> QED
    BY <2>2, <2>3
<1>6. ASSUME NEW t \in Callers \cup {Worker}, Remove(t) PROVE IdleInv'
  <2>1. arg[t] \in Items /\ pc[t] = "remove" /\ lock = t
    BY <1>6 DEF Remove
  <2>2. \A z \in Items : Linked(z)' => Linked(z) /\ z # arg[t]
    BY <1>6, <2>1, UnlinkFacts DEF Remove
  <2> QED
    BY <1>6, <2>1, <2>2 DEF Remove
<1>7. ASSUME NEW t \in Callers \cup {Worker}, Lost(t) PROVE IdleInv'
  BY <1>7 DEF Lost
<1>8. ASSUME NEW t \in Callers \cup {Worker}, Attach(t) PROVE IdleInv'
  BY <1>8 DEF Attach
<1>9. ASSUME NEW t \in Callers \cup {Worker}, Start(t) PROVE IdleInv'
  BY <1>9 DEF Start, LifeInv
<1>10. ASSUME NEW t \in Callers \cup {Worker}, StartFails(t) PROVE IdleInv'
  BY <1>10 DEF StartFails
<1>11. ASSUME NEW t \in Callers \cup {Worker}, Deinit(t) PROVE IdleInv'
  BY <1>11 DEF Deinit
<1>12. ASSUME NEW t \in Callers \cup {Worker}, Detach(t) PROVE IdleInv'
  BY <1>12 DEF Detach
<1>13. ASSUME NEW t \in Callers \cup {Worker}, Unlock(t) PROVE IdleInv'
  BY <1>13 DEF Unlock
<1>14. ASSUME NEW t \in Callers \cup {Worker}, ExitPost(t) PROVE IdleInv'
  BY <1>14 DEF ExitPost
<1>15. ASSUME NEW t \in Callers \cup {Worker}, NEW x \in Items, ScheduleNow(t, x) PROVE IdleInv'
  BY <1>15 DEF ScheduleNow, Begin, Free
<1>16. ASSUME NEW t \in Callers \cup {Worker}, NEW x \in Items, Find(t, x) PROVE IdleInv'
  BY <1>16 DEF Find, Begin, Free
<1>17. ASSUME NEW x \in Items, ScheduleTimer(x) PROVE IdleInv'
  BY <1>17 DEF ScheduleTimer
<1>18. ASSUME NEW x \in Items, ScheduleClear(x) PROVE IdleInv'
  <2>1. ~Holds(Worker)
    BY <1>18 DEF ScheduleClear, Sections
  <2>2. /\ armed' = [armed EXCEPT ![x] = "off"]
        /\ pc' = [pc EXCEPT ![Worker] = "clear"] /\ arg' = [arg EXCEPT ![Worker] = x]
        /\ \A y \in idle' : y \in idle \/ (y = x /\ Unscheduled(x))
        /\ UNCHANGED <<fifo, items, lock, queue, running>>
        /\ pc[Worker] = "run" /\ life[x] = "live"
    BY <1>18 DEF ScheduleClear, Cancelled
  <2>3. ASSUME NEW y \in idle, y # x
        PROVE  /\ life'[y] \in {"live", "closing", "dead"}
               /\ armed'[y] = "off"
               /\ \A t \in Threads \ {Timer} : ~(pc'[t] = "add" /\ arg'[t] = y)
               /\ ~(pc'[Timer] = "add" /\ arg'[Timer] = y)
               /\ Linked(y)' => Clearing(y)'
    BY <2>2, <2>3
  <2>4. ASSUME x \in idle'
        PROVE  /\ life'[x] \in {"live", "closing", "dead"}
               /\ armed'[x] = "off"
               /\ \A t \in Threads \ {Timer} : ~(pc'[t] = "add" /\ arg'[t] = x)
               /\ pc'[Worker] = "clear" /\ arg'[Worker] = x /\ ~Holds(Worker)'
               /\ Clearing(x)'
    BY <2>1, <2>2, <2>4 DEF Unscheduled
  <2> QED
    BY <2>2, <2>3, <2>4
<1>19. ASSUME NEW x \in Items, Fire(x) PROVE IdleInv'
  BY <1>19 DEF Fire, Begin
<1>20. ASSUME NEW x \in Items, Exit(x) PROVE IdleInv'
  BY <1>20 DEF Exit, Cancelled, Unscheduled
<1>21. CASE Check
  BY <1>21 DEF Check
<1>22. CASE Wait
  BY <1>22 DEF Wait
<1>23. CASE Take
  <2>1. \A z \in Items : Linked(z)' => Linked(z)
    BY <1>23, PopFacts DEF Take
  <2> QED
    BY <1>23, <2>1 DEF Take
<1>24. CASE Drained
  BY <1>24 DEF Drained
<1>25. CASE Unlist
  BY <1>25 DEF Unlist
<1>26. CASE Destroy
  BY <1>26 DEF Destroy
<1>27. CASE Return
  BY <1>27 DEF Return, Begin
<1> QED
  BY <1>1, <1>2, <1>3, <1>4, <1>5, <1>6, <1>7, <1>8, <1>9, <1>10, <1>11, <1>12, <1>13, <1>14,
     <1>15, <1>16, <1>17, <1>18, <1>19, <1>20, <1>21, <1>22, <1>23, <1>24, <1>25, <1>26, <1>27
  DEF Next, Operation, TimerOperation, WorkerLoop

-----------------------------------------------------------------------------
(* The queue is always a list.                                             *)
ChainInv == \E q \in Seq(Items) : Spells(q)

(* Every step does one thing to the list, if any.                          *)
LEMMA ChainMoves ==
  ASSUME TypeOK, WhereInv, NEW q \in Seq(Items), Spells(q), Next
  PROVE  \E p \in Seq(Items) :
           /\ Spells(p)'
           /\ \/ p = q
              \/ \E x \in Items : (\A i \in 1..Len(q) : q[i] # x) /\ p = Append(q, x)
              \/ q # <<>> /\ p = Tail(q)
              \/ \E i \in 1..Len(q) : p = Without(q, i)
<1>1. ASSUME NEW t \in Threads, Add(t)
      PROVE  \E p \in Seq(Items) :
               /\ Spells(p)'
               /\ \/ p = q
                  \/ \E x \in Items : (\A i \in 1..Len(q) : q[i] # x) /\ p = Append(q, x)
  <2>1. arg[t] \in Items /\ Push(arg[t])
    BY <1>1 DEF Add, WhereInv, ItemLabels, Labels
  <2> QED
    BY <2>1, PushChain
<1>2. ASSUME NEW t \in Callers \cup {Worker}, Remove(t)
      PROVE  \E p \in Seq(Items) :
               Spells(p)' /\ (p = q \/ \E i \in 1..Len(q) : p = Without(q, i))
  <2>1. arg[t] \in Items /\ Unlink(arg[t])
    BY <1>2 DEF Remove, WhereInv, ItemLabels, Labels, Threads
  <2> QED
    BY <2>1, UnlinkChain
<1>3. ASSUME Take
      PROVE  q # <<>> /\ Tail(q) \in Seq(Items) /\ Spells(Tail(q))'
  BY <1>3, PopChain DEF Take
<1>4. ASSUME UNCHANGED fifo PROVE Spells(q)'
  BY <1>4 DEF fifo, Spells
<1> QED
  BY <1>1, <1>2, <1>3, <1>4, FifoMoves

LEMMA ChainStep ==
  ASSUME IInv, ChainInv, [Next]_vars
  PROVE  ChainInv'
<1>1. PICK q \in Seq(Items) : Spells(q)
  BY DEF ChainInv
<1>2. CASE Next
  BY <1>1, <1>2, ChainMoves DEF IInv, ChainInv
<1>3. CASE UNCHANGED vars
  BY <1>1, <1>3 DEF vars, Spells, ChainInv
<1> QED
  BY <1>2, <1>3

\* The queue, its clearing and the leaving of items, together.
QInv == ChainInv /\ LeaveInv /\ IdleInv

LEMMA InitList == Init => QInv
<1> SUFFICES ASSUME Init PROVE QInv
  OBVIOUS
<1> USE WorkQueueAssumption DEF Init, Threads
<1>1. ChainInv
  <2>1. <<>> \in Seq(Items) /\ Len(<<>>) = 0
    OBVIOUS
  <2>2. Spells(<<>>)
    BY <2>1 DEF Spells
  <2> QED
    BY <2>1, <2>2 DEF ChainInv
<1>2. LeaveInv /\ IdleInv
  BY DEF LeaveInv, IdleInv, Ending, Holds
<1> QED
  BY <1>1, <1>2 DEF QInv

LEMMA StepList == IInv /\ QInv /\ [Next]_vars => QInv'
<1> SUFFICES ASSUME IInv, QInv, [Next]_vars PROVE QInv'
  OBVIOUS
<1>1. ChainInv'
  BY ChainStep DEF QInv
<1>2. CASE Next
  BY <1>1, <1>2, LeaveStep, IdleStep DEF QInv, IInv
<1>3. CASE UNCHANGED vars
  <2>1. LeaveInv'
    BY <1>3 DEF vars, QInv, LeaveInv, Ending, Holds
  <2>2. IdleInv'
    BY <1>3 DEF vars, QInv, IdleInv, Linked, Clearing, Holds
  <2> QED
    BY <1>1, <2>1, <2>2 DEF QInv
<1> QED
  BY <1>2, <1>3

LEMMA ListInvariant == Spec => [](IInv /\ QInv)
<1>1. Init => QInv
  BY InitList
<1>2. IInv /\ QInv /\ [Next]_vars => QInv'
  BY StepList
<1>3. Spec => []IInv
  BY Invariant
<1> QED
  BY <1>1, <1>2, <1>3, PTL DEF Spec, Safety

(* The walk finds the list in every state, the next one too.               *)
WalkFinds == \A q \in Seq(Items) : TypeOK /\ Spells(q) => Queued = q

LEMMA WalkNow == WalkFinds
BY QueuedIsChain DEF WalkFinds

LEMMA WalkNext == WalkFinds'
BY WalkNow, PTL

LEMMA QueuedItems ==
  ASSUME IInv, QInv, NEW x \in Items
  PROVE  InQueue(x) <=> Linked(x)
<1>1. PICK q \in Seq(Items) : Spells(q)
  BY DEF QInv, ChainInv
<1>2. Queued = q
  BY <1>1, QueuedIsChain DEF IInv
<1>3. InQueue(x) <=> \E i \in 1..Len(q) : q[i] = x
  BY <1>2 DEF InQueue
<1> QED
  BY <1>1, <1>3, LinkedInChain DEF IInv

(* IntrusiveQueue.hpp, push, pop and remove in any order: the way from the  *)
(* head ends at the tail, and nodes outside the queue have no successor.   *)
THEOREM SoundQueue == Spec => []QueueSound
<1>1. IInv /\ QInv => QueueSound
  <2> SUFFICES ASSUME IInv, QInv PROVE QueueSound
    OBVIOUS
  <2> USE WorkQueueAssumption
  <2>1. PICK q \in Seq(Items) : Spells(q)
    BY DEF QInv, ChainInv
  <2>2. Queued = q
    BY <2>1, QueuedIsChain DEF IInv
  <2>3. (head = Nil) = (tail = Nil)
    BY DEF IInv, ListInv
  <2>4. q # <<>> => q[Len(q)] = tail /\ tail # Nil
    BY <2>1, <2>3 DEF Spells
  <2>5. tail # Nil => next[tail] = Nil
    BY DEF IInv, ListInv
  <2>6. \A x \in Items : ~InQueue(x) => next[x] = Nil
    <3> SUFFICES ASSUME NEW x \in Items, ~InQueue(x) PROVE next[x] = Nil
      OBVIOUS
    <3>1. \A i \in 1..Len(q) : q[i] # x
      BY <2>2 DEF InQueue
    <3>2. \A i \in 1..(Len(q) - 1) : q[i] # x
      BY <3>1
    <3> QED
      BY <2>1, <3>2 DEF Spells
  <2> QED
    BY <2>2, <2>3, <2>4, <2>5, <2>6 DEF QueueSound
<1> QED
  BY <1>1, ListInvariant, PTL

(* Every step of the queue and its threads is an addition, a removal or a  *)
(* taking of the abstract list of pending items, or leaves it alone.       *)
THEOREM Refinement == Spec => ImplementsWorkList
<1>1. Init => List!Init
  <2> SUFFICES ASSUME Init PROVE Queued = <<>>
    BY DEF List!Init
  <2>1. <<>> \in Seq(Items) /\ Spells(<<>>) /\ TypeOK
    BY InitInv DEF IInv, Init, Spells
  <2> QED
    BY <2>1, QueuedIsChain
<1>2. IInv /\ IInv' /\ QInv /\ [Next]_vars => [List!Next]_Queued
  <2> SUFFICES ASSUME IInv, IInv', QInv, [Next]_vars PROVE [List!Next]_Queued
    OBVIOUS
  <2>1. PICK q \in Seq(Items) : Spells(q)
    BY DEF QInv, ChainInv
  <2>2. Queued = q
    BY <2>1, QueuedIsChain DEF IInv
  <2>3. ASSUME NEW p \in Seq(Items), Spells(p)' PROVE Queued' = p
    BY <2>3, WalkNext DEF WalkFinds, IInv
  <2>4. CASE Next
    <3>1. PICK p \in Seq(Items) :
            /\ Spells(p)'
            /\ \/ p = q
               \/ \E x \in Items : (\A i \in 1..Len(q) : q[i] # x) /\ p = Append(q, x)
               \/ q # <<>> /\ p = Tail(q)
               \/ \E i \in 1..Len(q) : p = Without(q, i)
      BY <2>1, <2>4, ChainMoves DEF IInv
    <3>2. Queued' = p
      BY <2>3, <3>1
    <3>3. CASE p = q
      BY <2>2, <3>2, <3>3
    <3>4. ASSUME NEW x \in Items, \A i \in 1..Len(q) : q[i] # x, p = Append(q, x)
          PROVE  List!Next
      BY <2>2, <3>2, <3>4 DEF List!Next, List!Add, List!Pending
    <3>5. ASSUME q # <<>>, p = Tail(q) PROVE List!Next
      BY <2>2, <3>2, <3>5 DEF List!Next, List!Take
    <3>6. ASSUME NEW i \in 1..Len(q), p = Without(q, i) PROVE List!Next
      <4>1. q[i] \in Items
        OBVIOUS
      <4>2. List!Remove(q[i])
        BY <2>2, <3>2, <3>6 DEF List!Remove, Without
      <4> QED
        BY <4>1, <4>2 DEF List!Next
    <3> QED
      BY <3>1, <3>3, <3>4, <3>5, <3>6
  <2>5. CASE UNCHANGED vars
    <3>1. Spells(q)'
      BY <2>1, <2>5 DEF vars, Spells
    <3> QED
      BY <2>2, <2>3, <3>1
  <2> QED
    BY <2>4, <2>5
<1> QED
  BY <1>1, <1>2, ListInvariant, PTL DEF Spec, Safety, ImplementsWorkList, List!Spec

(* ScheduleClear: a cleared item is neither armed nor queued until somebody *)
(* schedules it again, although hrt_cancel does not wait for a callout.    *)
THEOREM Clears == Spec => []ClearSticks
<1>1. IInv /\ QInv => ClearSticks
  <2> SUFFICES ASSUME IInv, QInv, NEW x \in idle, ~Clearing(x)
               PROVE  /\ armed[x] = "off" /\ ~InQueue(x)
                      /\ ~(pc[Timer] = "add" /\ arg[Timer] = x)
    BY DEF ClearSticks
  <2>1. x \in Items
    BY DEF IInv, TypeOK
  <2>2. InQueue(x) <=> Linked(x)
    BY <2>1, QueuedItems
  <2>3. armed[x] = "off" /\ ~Linked(x)
    BY DEF QInv, IdleInv
  <2>4. ~(pc[Timer] = "add" /\ arg[Timer] = x)
    BY DEF QInv, IdleInv, Clearing, Threads
  <2> QED
    BY <2>2, <2>3, <2>4
<1> QED
  BY <1>1, ListInvariant, PTL

(* ~WorkItem and ~ScheduledWorkItem: nothing reaches a deleted item.       *)
THEOREM DeadStaysAway == Spec => []DeadIsUnreachable
<1>1. IInv /\ QInv => DeadIsUnreachable
  <2> SUFFICES ASSUME IInv, QInv, NEW x \in Items, life[x] = "dead"
               PROVE  /\ x \notin wq /\ x \notin attached /\ armed[x] = "off" /\ ~InQueue(x)
                      /\ ~(pc[Timer] = "add" /\ arg[Timer] = x)
    BY DEF DeadIsUnreachable
  <2>1. x \notin attached /\ x \notin wq
    BY DEF QInv, LeaveInv, IInv, UseInv
  <2>2. armed[x] = "off"
    BY DEF IInv, TimerInv
  <2>3. ~InQueue(x)
    BY <2>1, QueuedItems DEF IInv, LinkInv
  <2>4. ~(pc[Timer] = "add" /\ arg[Timer] = x)
    BY DEF IInv, TimerInv
  <2> QED
    BY <2>1, <2>2, <2>3, <2>4
<1> QED
  BY <1>1, ListInvariant, PTL
=============================================================================
