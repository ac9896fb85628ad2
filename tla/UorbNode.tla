----------------------------- MODULE UorbNode -----------------------------
(***************************************************************************)
(* A uORB topic: uORB::DeviceNode with its ring of o_queue samples, its    *)
(* generation counter and its callbacks; publishers (DeviceNode::write);   *)
(* and subscribers that are work items scheduled by a                      *)
(* SubscriptionCallbackWorkItem, whose Run() reads the topic with          *)
(* Subscription::update and copy.                                          *)
(*                                                                         *)
(* Publishers and subscribers are threads of different priority.  The node *)
(* lock (ATOMIC_ENTER) is held by a publisher during its callbacks; a      *)
(* subscriber's section under the lock is one action.                      *)
(***************************************************************************)
EXTENDS Integers, FiniteSets

CONSTANTS
  Publishers,
  Subscribers,
  Requirements, \* the values of _required_updates
  Depths,       \* the values of o_queue
  GenMod,       \* the generation counter is an unsigned: 2^32
  MaxPublished, \* bound on the samples published
  None          \* the lock is free

(* The messages ask for queues of 1, 2, 4, ... 64 (ORB_QUEUE_LENGTH), which *)
(* divide the range of the counter.                                        *)
ASSUME UorbNodeAssumption ==
  /\ Requirements \subseteq Nat
  /\ Depths \subseteq Nat \ {0}
  /\ GenMod \in Nat \ {0}
  /\ \A q \in Depths : q < GenMod /\ GenMod % q = 0
  /\ None \notin Publishers

VARIABLES
  depth,       \* o_queue
  advertised,  \* _advertised
  allocated,   \* _data is not nullptr
  ring,        \* _data: the samples, by the number they were published with
  generation,  \* _generation
  valid,       \* _data_valid
  callbacks,   \* _callbacks
  owner,       \* the publisher that holds the lock
  todo,        \* the callbacks it still has to call
  ppc,         \* per publisher: "idle", "alloc", "write", "callbacks"
  subscribed,  \* the subscribers that have a node
  required,    \* _required_updates, set before the callback is registered
  last,        \* _last_generation
  spc,         \* per subscriber: "idle", "run", "update", "copy", "inc"
  scheduled,   \* the subscribers whose work item is queued
  count,       \* history: number of the last sample published
  got,         \* history: number of the last sample copied to a subscriber
  since        \* history: count when its callback was registered

node == <<depth, advertised, allocated, ring, generation, valid, callbacks>>
publisher == <<owner, todo, ppc>>
subscriber == <<subscribed, required, last, spc>>
vars == <<node, publisher, subscriber, scheduled, count, got, since>>

Init ==
  /\ depth \in Depths
  /\ advertised = FALSE /\ allocated = FALSE
  /\ ring = [i \in 0..(depth - 1) |-> 0]
  /\ generation = 0
  /\ valid = FALSE
  /\ callbacks = {}
  /\ owner = None /\ todo = {}
  /\ ppc = [p \in Publishers |-> "idle"]
  /\ subscribed = {}
  /\ required \in [Subscribers -> Requirements]
  /\ last = [s \in Subscribers |-> 0]
  /\ spc = [s \in Subscribers |-> "idle"]
  /\ scheduled = {}
  /\ count = 0
  /\ got = [s \in Subscribers |-> 0]
  /\ since = [s \in Subscribers |-> 0]

\* DeviceNode::updates_available: a difference of unsigned numbers.
Available(s) == (generation - last[s]) % GenMod

\* Manager::updates_available
Updates(s) == IF advertised THEN Available(s) ELSE 0

-----------------------------------------------------------------------------
(* Publishers.                                                             *)

Advertise ==
  /\ ~advertised
  /\ advertised' = TRUE
  /\ UNCHANGED <<depth, allocated, ring, generation, valid, callbacks,
                 publisher, subscriber, scheduled, count, got, since>>

\* Publish: without memory the publisher allocates it first.
Publish(p) ==
  /\ ppc[p] = "idle" /\ advertised /\ count < MaxPublished
  /\ ppc' = [ppc EXCEPT ![p] = IF allocated THEN "write" ELSE "alloc"]
  /\ UNCHANGED <<node, owner, todo, subscriber, scheduled, count, got, since>>

\* Under the lock, so it is tested again.
Allocate(p) ==
  /\ ppc[p] = "alloc" /\ owner = None
  /\ allocated' = TRUE
  /\ ring' = IF allocated THEN ring ELSE [i \in 0..(depth - 1) |-> 0]
  /\ ppc' = [ppc EXCEPT ![p] = "write"]
  /\ UNCHANGED <<depth, advertised, generation, valid, callbacks, owner, todo,
                 subscriber, scheduled, count, got, since>>

\* No subscriber falls behind by a whole turn of the counter, 2^32 samples.
NoLap == \A s \in subscribed : Available(s) < GenMod - 1

\* DeviceNode::write up to the callbacks.
Write(p) ==
  /\ ppc[p] = "write" /\ owner = None /\ NoLap /\ count < MaxPublished
  /\ owner' = p
  /\ generation' = (generation + 1) % GenMod
  /\ ring' = [ring EXCEPT ![generation % depth] = count + 1]
  /\ count' = count + 1
  /\ todo' = callbacks
  /\ ppc' = [ppc EXCEPT ![p] = "callbacks"]
  /\ UNCHANGED <<depth, advertised, allocated, valid, callbacks, subscriber,
                 scheduled, got, since>>

\* Mutant: more updates than required are waited for.
CallLate(p, s) ==
  /\ owner = p /\ s \in todo
  /\ todo' = todo \ {s}
  /\ scheduled' = IF (required[s] = 0 \/ Updates(s) > required[s]) /\ Updates(s) # 0
                    THEN scheduled \cup {s} ELSE scheduled
  /\ UNCHANGED <<node, owner, ppc, subscriber, count, got, since>>

\* SubscriptionCallbackWorkItem::call; its interval is 0.  Nothing but an
\* unlocked ++ can move last between its two tests, and that leaves an update.
Call(p, s) ==
  /\ owner = p /\ s \in todo
  /\ todo' = todo \ {s}
  /\ scheduled' = IF (required[s] = 0 \/ Updates(s) >= required[s]) /\ Updates(s) # 0
                    THEN scheduled \cup {s} ELSE scheduled
  /\ UNCHANGED <<node, owner, ppc, subscriber, count, got, since>>

Written(p) ==
  /\ owner = p /\ todo = {}
  /\ valid' = TRUE
  /\ owner' = None
  /\ ppc' = [ppc EXCEPT ![p] = "idle"]
  /\ UNCHANGED <<depth, advertised, allocated, ring, generation, callbacks, todo,
                 subscriber, scheduled, count, got, since>>

-----------------------------------------------------------------------------
(* Subscribers.                                                            *)

\* Subscription::subscribe, with get_initial_generation under the lock.
Subscribe(s) ==
  /\ s \notin subscribed /\ owner = None
  /\ subscribed' = subscribed \cup {s}
  /\ last' = [last EXCEPT ![s] = (generation - (IF valid THEN 1 ELSE 0)) % GenMod]
  /\ UNCHANGED <<node, publisher, required, spc, scheduled, count, got, since>>

Register(s) ==
  /\ s \in subscribed /\ s \notin callbacks /\ owner = None
  /\ callbacks' = callbacks \cup {s}
  /\ since' = [since EXCEPT ![s] = count]
  /\ UNCHANGED <<depth, advertised, allocated, ring, generation, valid,
                 publisher, subscriber, scheduled, count, got>>

\* Run() of a module that goes to its end: the callback is unregistered.
Unregister(s) ==
  /\ s \in callbacks /\ spc[s] = "run" /\ owner = None
  /\ callbacks' = callbacks \ {s}
  /\ UNCHANGED <<depth, advertised, allocated, ring, generation, valid,
                 publisher, subscriber, scheduled, count, got, since>>

Step(s, from, to) == spc[s] = from /\ spc' = [spc EXCEPT ![s] = to]

\* The work queue runs the item.
Run(s) ==
  /\ s \in scheduled /\ Step(s, "idle", "update")
  /\ scheduled' = scheduled \ {s}
  /\ UNCHANGED <<node, publisher, subscribed, required, last, count, got, since>>

(* Run() is "while (update(&sample))": it returns when there is no update. *)
Update(s) ==
  /\ Step(s, "update", IF Updates(s) # 0 THEN "copy" ELSE "run")
  /\ UNCHANGED <<node, publisher, subscribed, required, last, scheduled, count, got, since>>

\* The work item runs for another reason, a timer or another topic.
Poll(s) ==
  /\ s \in subscribed /\ Step(s, "idle", "update")
  /\ UNCHANGED <<node, publisher, subscribed, required, last, scheduled, count, got, since>>

\* Subscription::copy: the last sample, whether it is new or not.
CopyLast(s) ==
  /\ advertised /\ allocated /\ Step(s, "run", "copy")
  /\ UNCHANGED <<node, publisher, subscribed, required, last, scheduled, count, got, since>>

\* Mutant: the item leaves the work queue when its Run() returns.
ReturnDequeued(s) ==
  /\ Step(s, "run", "idle")
  /\ scheduled' = scheduled \ {s}
  /\ UNCHANGED <<node, publisher, subscribed, required, last, count, got, since>>

Return(s) ==
  /\ Step(s, "run", "idle")
  /\ UNCHANGED <<node, publisher, subscribed, required, last, scheduled, count, got, since>>

\* is_in_range, of unsigned numbers
InRange(left, value, right) ==
  IF right > left THEN left <= value /\ value <= right
                  ELSE left <= value \/ value <= right

\* Mutant: a reader that is too far behind goes on with the newest sample.
ReadableNewest(s) ==
  LET wanted == IF last[s] = generation THEN (last[s] - 1) % GenMod ELSE last[s]
      oldest == (generation - depth) % GenMod
      newest == (generation - 1) % GenMod
  IN  IF InRange(oldest, wanted, newest) THEN wanted ELSE newest

\* The generation DeviceNode::copy reads: the next one, the previous one if
\* there is no next, the oldest in the ring if the reader is too far behind.
Readable(s) ==
  LET wanted == IF last[s] = generation THEN (last[s] - 1) % GenMod ELSE last[s]
      oldest == (generation - depth) % GenMod
  IN  IF InRange(oldest, wanted, (generation - 1) % GenMod) THEN wanted ELSE oldest

\* DeviceNode::copy under the lock ...
Copy(s) ==
  /\ owner = None
  /\ IF depth = 1
       THEN /\ Step(s, "copy", "update")
            /\ last' = [last EXCEPT ![s] = generation]
            /\ got' = [got EXCEPT ![s] = ring[0]]
       ELSE /\ Step(s, "copy", "inc")
            /\ last' = [last EXCEPT ![s] = Readable(s)]
            /\ got' = [got EXCEPT ![s] = ring[Readable(s) % depth]]
  /\ UNCHANGED <<node, publisher, subscribed, required, scheduled, count, since>>

\* Mutant: the counter of a subscriber does not wrap.
IncrementWide(s) ==
  /\ Step(s, "inc", "update")
  /\ last' = [last EXCEPT ![s] = @ + 1]
  /\ UNCHANGED <<node, publisher, subscribed, required, scheduled, count, got, since>>

\* ... and after it: ++generation.
Increment(s) ==
  /\ Step(s, "inc", "update")
  /\ last' = [last EXCEPT ![s] = (@ + 1) % GenMod]
  /\ UNCHANGED <<node, publisher, subscribed, required, scheduled, count, got, since>>

-----------------------------------------------------------------------------
PublisherStep(p) ==
  Allocate(p) \/ Write(p) \/ (\E s \in Subscribers : Call(p, s)) \/ Written(p)

SubscriberStep(s) == Update(s) \/ Copy(s) \/ Increment(s)

Next ==
  \/ Advertise
  \/ \E p \in Publishers : Publish(p) \/ PublisherStep(p)
  \/ \E s \in Subscribers :
       \/ Subscribe(s) \/ Register(s) \/ Unregister(s)
       \/ Run(s) \/ Poll(s) \/ CopyLast(s) \/ Return(s)
       \/ SubscriberStep(s)

Safety == Init /\ [][Next]_vars

(* Threads that have begun to publish or to run go on; those that wait for *)
(* the lock, which is free again and again, get it (SF).  The work queue   *)
(* runs what is queued, and Run() returns.                                 *)
Spec ==
  /\ Safety
  /\ \A p \in Publishers : SF_vars(PublisherStep(p))
  /\ \A s \in Subscribers :
       WF_vars(Run(s)) /\ SF_vars(SubscriberStep(s)) /\ SF_vars(Return(s))

-----------------------------------------------------------------------------
(* Properties.                                                             *)

TypeOK ==
  /\ depth \in Depths
  /\ advertised \in BOOLEAN /\ allocated \in BOOLEAN /\ valid \in BOOLEAN
  /\ ring \in [0..(depth - 1) -> Nat]
  /\ generation \in 0..(GenMod - 1)
  /\ callbacks \in SUBSET subscribed /\ subscribed \in SUBSET Subscribers
  /\ owner \in Publishers \cup {None}
  /\ todo \in SUBSET Subscribers
  /\ ppc \in [Publishers -> {"idle", "alloc", "write", "callbacks"}]
  /\ required \in [Subscribers -> Requirements]
  /\ last \in [Subscribers -> 0..(GenMod - 1)]
  /\ spc \in [Subscribers -> {"idle", "run", "update", "copy", "inc"}]
  /\ scheduled \in SUBSET Subscribers
  /\ count \in Nat
  /\ got \in [Subscribers -> Nat] /\ since \in [Subscribers -> Nat]

\* How many samples a subscriber has still to get; a copy counts as soon as
\* it is made.
Unread(s) == Available(s) - (IF spc[s] = "inc" THEN 1 ELSE 0)

Position == [s \in Subscribers |-> IF s \in subscribed THEN count - Unread(s) ELSE 0]

(* The subscribers get the samples in order, none twice as an update, the  *)
(* oldest still kept after an overrun, and never a record nobody published *)
(* (but an empty one before the first), while the counter wraps, publishers *)
(* compete for the first allocation and overrun subscribers between the    *)
(* test for an update and the copy, or before the unlocked ++generation.   *)
Topic == INSTANCE UorbTopic WITH published <- count, pos <- Position
ImplementsTopic == Topic!Init /\ [][Topic!Next]_(Topic!vars)

(* "schedule immediately if updated": a work item that is not running has  *)
(* not missed as many samples, published since its callback is registered, *)
(* as it requires, unless it is queued or about to be.  A callback may     *)
(* count with the generation an unlocked ++ has not reached yet.           *)
NewSince(s) ==
  IF count - since[s] < Unread(s) THEN count - since[s] ELSE Unread(s)
NoMissedWakeup ==
  \A s \in callbacks :
    /\ spc[s] \in {"idle", "run"}
    /\ NewSince(s) >= 1 /\ NewSince(s) >= required[s]
    => s \in scheduled \/ s \in todo

(* A registered subscriber that needs one update gets all there are.       *)
Delivered ==
  \A s \in Subscribers :
    (s \in callbacks /\ required[s] <= 1 /\ NewSince(s) >= 1)
      ~> (Unread(s) = 0 \/ s \notin callbacks)
=============================================================================
