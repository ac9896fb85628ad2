----------------------------- MODULE TaskLayer -----------------------------
(***************************************************************************)
(* The life of PX4's modules: ModuleBase's "start" and "stop" commands,    *)
(* under px4_modules_mutex, above the table of tasks of fc_px4_tasks.cpp,  *)
(* which has no lock.                                                      *)
(*                                                                         *)
(* A module runs in a task of its own, which its start command may or may  *)
(* not wait for, or as an item of a work queue.  A "direct" one is not a   *)
(* ModuleBase: simulator_mavlink, like dataman, mavlink and the manager of *)
(* work queues, takes a slot of the same table without the mutex, and      *)
(* remembers its task_id in a variable of its own.  An instance is a       *)
(* thread of control; its object bears the same name.  A start that gives  *)
(* up, and a stop that does, leave an instance behind that nobody can      *)
(* cancel.                                                                 *)
(***************************************************************************)
EXTENDS Integers

CONSTANTS
  Modules,
  Kind,       \* of a module: "task", "waited", "queue" or "direct"
  Finite,     \* the modules whose run() may end unasked
  Callers,    \* threads that give commands
  Commands,   \* those that each of them gives: <<"start" or "stop", module>>
  Instances,  \* bound on the instances ever made, for TLC
  MaxTasks,   \* FC_PX4_MAX_TASKS, 16
  StartTries, \* of wait_until_running, 500
  StopTries,  \* of stop_command, 500
  Nil         \* no object, no thread, no module

ASSUME TaskLayerAssumption ==
  /\ Kind \in [Modules -> {"task", "waited", "queue", "direct"}]
  /\ Finite \subseteq Modules
  /\ Commands \in [Callers -> SUBSET ({"start", "stop"} \X Modules)]
  /\ MaxTasks \in Nat /\ StartTries \in Nat /\ StopTries \in Nat
  /\ Callers \cap Instances = {}
  /\ Nil \notin Modules \cup Callers \cup Instances

VARIABLES
  slots,    \* s_tasks
  desc,     \* the modules' descriptors; of a direct one, g_sim_task
  mutex,    \* px4_modules_mutex: its holder
  phase,    \* of an instance: "none", "created", "instantiate", "run",
            \* "cleanup", "return", "ended"
  place,    \* its slot, or -2 on a work queue
  module,   \* the module whose code it runs
  asked,    \* the objects whose _task_should_exit is set
  deleted,  \* history: the objects deleted
  left,     \* history: a start or a stop has left an instance behind
  raced,    \* history: two callers searched the table, one without the mutex
  command   \* of a caller: where it stands in start or stop

instances == <<phase, place, module>>
history == <<deleted, left, raced>>
vars == <<slots, desc, mutex, instances, asked, history, command>>

Slots == 0..(MaxTasks - 1)
NoTask == -1
WorkQueue == -2   \* task_id_is_work_queue

Idle == [pc |-> "idle", module |-> Nil, slot |-> NoTask, tries |-> 0]
Live == {"created", "instantiate", "run", "cleanup", "return"}
Managed == {m \in Modules : Kind[m] # "direct"}   \* those of ModuleBase

Init ==
  /\ slots = [s \in Slots |-> [used |-> FALSE, entry |-> Nil]]
  /\ desc = [m \in Modules |-> [task_id |-> NoTask, object |-> Nil]]
  /\ mutex = Nil
  /\ phase = [t \in Instances |-> "none"]
  /\ place = [t \in Instances |-> NoTask]
  /\ module = [t \in Instances |-> Nil]
  /\ asked = {} /\ deleted = {} /\ left = FALSE /\ raced = FALSE
  /\ command = [c \in Callers |-> Idle]

-----------------------------------------------------------------------------
(* ModuleBase::start_command.                                              *)

is_running(m) == desc[m].task_id # NoTask

At(c, pc) == command[c].pc = pc
Goto(c, pc) == command' = [command EXCEPT ![c].pc = pc]
Done(c) == command' = [command EXCEPT ![c] = Idle]

\* A new instance; which of the names it gets does not matter.
Fresh ==
  LET unused == {t \in Instances : phase[t] = "none"}
  IN IF unused = {} THEN {} ELSE {CHOOSE t \in unused : TRUE}

\* Bound: nothing is started any more once all the instances were made.
Call(c, pc, m) ==
  /\ At(c, "idle") /\ <<pc, m>> \in Commands[c]
  /\ pc = "start" => Fresh # {}
  /\ command' = [command EXCEPT ![c] = [Idle EXCEPT !.pc = pc, !.module = m]]
  /\ UNCHANGED <<slots, desc, mutex, instances, asked, history>>

\* It is running already; or nothing is there to be stopped, or no longer.
NothingToDo(c) ==
  LET m == command[c].module IN
  /\ m \in Managed => mutex = Nil
  /\ \/ At(c, "start") /\ is_running(m)
     \/ (At(c, "stop") \/ At(c, "sleep")) /\ ~is_running(m)
  /\ Done(c)
  /\ UNCHANGED <<slots, desc, mutex, instances, asked, history>>

\* Those who look for a free slot, or have found one and not yet marked it.
Searching ==
  {c \in Callers : (At(c, "spawn") \/ At(c, "claim")) /\ Kind[command[c].module] # "queue"}

\* The mutex does not keep c and another one who searches apart.
Races(c) ==
  /\ Kind[command[c].module] # "queue"
  /\ \E d \in Searching : "direct" \in {Kind[command[c].module], Kind[command[d].module]}

\* Mutant: the mutex is not taken.
StartUnlocked(c) ==
  /\ At(c, "start") /\ ~is_running(command[c].module)
  /\ raced' = (raced \/ Races(c))
  /\ Goto(c, "spawn")
  /\ UNCHANGED <<slots, desc, mutex, instances, asked, deleted, left>>

Start(c) ==
  /\ At(c, "start") /\ ~is_running(command[c].module)
  /\ IF command[c].module \in Managed
       THEN mutex = Nil /\ mutex' = c
       ELSE UNCHANGED mutex
  /\ raced' = (raced \/ Races(c))
  /\ Goto(c, "spawn")
  /\ UNCHANGED <<slots, desc, instances, asked, deleted, left>>

Unlock(c) == mutex' = IF mutex = c THEN Nil ELSE mutex

\* task_spawn fails: task_id = -1, and the mutex is released.
Fail(c) ==
  /\ desc' = [desc EXCEPT ![command[c].module].task_id = NoTask]
  /\ Unlock(c)
  /\ Done(c)

(* task_spawn of a module with a task, and px4_task_spawn_cmd, which looks *)
(* at one slot after the other: .slot is the last that it found in use.    *)

NextSlot(c) == command[c].slot + 1

Search(c) ==
  /\ At(c, "spawn") /\ Kind[command[c].module] # "queue"
  /\ NextSlot(c) \in Slots
  /\ command' = [command EXCEPT
       ![c].slot = NextSlot(c),
       ![c].pc = IF slots[NextSlot(c)].used THEN "spawn" ELSE "claim"]
  /\ UNCHANGED <<slots, desc, mutex, instances, asked, history>>

\* The slot found is filled in and marked, whoever has marked it meanwhile.
\* One step: only the thread that is created next reads what is filled in.
Claim(c) ==
  /\ At(c, "claim")
  /\ slots' = [slots EXCEPT ![command[c].slot] =
                 [used |-> TRUE, entry |-> command[c].module]]
  /\ Goto(c, "create")
  /\ UNCHANGED <<desc, mutex, instances, asked, history>>

\* Mutant: the search runs off the end of the table.
TableOverrun(c) ==
  /\ At(c, "spawn") /\ Kind[command[c].module] # "queue"
  /\ NextSlot(c) \notin Slots
  /\ command' = [command EXCEPT ![c].pc = "create", ![c].slot = MaxTasks]
  /\ UNCHANGED <<slots, desc, mutex, instances, asked, history>>

TableFull(c) ==
  /\ At(c, "spawn") /\ Kind[command[c].module] # "queue"
  /\ NextSlot(c) \notin Slots
  /\ Fail(c)
  /\ UNCHANGED <<slots, instances, asked, history>>

\* pthread_create
Create(c) ==
  /\ At(c, "create")
  /\ \E t \in Fresh :
       /\ phase' = [phase EXCEPT ![t] = "created"]
       /\ place' = [place EXCEPT ![t] = command[c].slot]
  /\ Goto(c, "assign")
  /\ UNCHANGED <<slots, desc, mutex, module, asked, history>>

CreateFails(c) ==
  /\ At(c, "create")
  /\ slots' = [slots EXCEPT ![command[c].slot].used = FALSE]
  /\ Fail(c)
  /\ UNCHANGED <<instances, asked, history>>

\* desc.task_id = px4_task_spawn_cmd(...): the new thread may be faster.
Assign(c) ==
  LET m == command[c].module IN
  /\ At(c, "assign")
  /\ desc' = [desc EXCEPT ![m].task_id = command[c].slot]
  /\ IF Kind[m] = "waited"
       THEN Goto(c, "wait") /\ UNCHANGED mutex
       ELSE Done(c) /\ Unlock(c)
  /\ UNCHANGED <<slots, instances, asked, history>>

(* wait_until_running, with the mutex held.                                *)

Object(c) == desc[command[c].module].object

Started(c) ==
  /\ At(c, "wait") /\ Object(c) # Nil
  /\ mutex' = Nil
  /\ Done(c)
  /\ UNCHANGED <<slots, desc, instances, asked, history>>

KeepWaiting(c) ==
  /\ At(c, "wait") /\ Object(c) = Nil /\ command[c].tries + 1 < StartTries
  /\ command' = [command EXCEPT ![c].tries = @ + 1]
  /\ UNCHANGED <<slots, desc, mutex, instances, asked, history>>

\* Who uses the slot s: threads that live, and callers about to make one.
InSlot(s) == {t \in Instances : phase[t] \in Live /\ place[t] = s}
Users(s) == InSlot(s) \cup {c \in Callers : At(c, "create") /\ command[c].slot = s}

\* The instances of a module that its task_id stands for.
Of(m) == {t \in InSlot(desc[m].task_id) : module[t] \in {m, Nil}}

\* task_id = -1, whatever becomes of the thread.
StartTimeout(c) ==
  /\ At(c, "wait") /\ Object(c) = Nil /\ command[c].tries + 1 >= StartTries
  /\ Fail(c)
  /\ left' = (left \/ Of(command[c].module) # {})
  /\ UNCHANGED <<slots, instances, asked, deleted, raced>>

(* task_spawn of a module on a work queue: the caller makes the object.    *)

SpawnItem(c) ==
  LET m == command[c].module IN
  /\ At(c, "spawn") /\ Kind[m] = "queue"
  /\ \E t \in Fresh :
       /\ phase' = [phase EXCEPT ![t] = "run"]
       /\ place' = [place EXCEPT ![t] = WorkQueue]
       /\ module' = [module EXCEPT ![t] = m]
       /\ desc' = [desc EXCEPT ![m] = [task_id |-> WorkQueue, object |-> t]]
  /\ mutex' = Nil
  /\ Done(c)
  /\ UNCHANGED <<slots, asked, history>>

\* Its init() fails, or there is no memory.
ItemFails(c) ==
  LET m == command[c].module IN
  /\ At(c, "spawn") /\ Kind[m] = "queue"
  /\ desc' = [desc EXCEPT ![m] = [task_id |-> NoTask, object |-> Nil]]
  /\ mutex' = Nil
  /\ Done(c)
  /\ UNCHANGED <<slots, instances, asked, history>>

-----------------------------------------------------------------------------
(* The instance: fc_px4_task_trampoline, run_trampoline_impl.              *)

\* It calls the entry that stands in its slot; that of a direct module
\* keeps its object to itself.
Begin(t) ==
  LET m == slots[place[t]].entry IN
  /\ phase[t] = "created"
  /\ phase' = [phase EXCEPT ![t] = IF m \in Managed THEN "instantiate" ELSE "run"]
  /\ module' = [module EXCEPT ![t] = m]
  /\ UNCHANGED <<slots, desc, mutex, place, asked, history, command>>

\* desc.object.store(instantiate(...)), without the mutex.
Instantiate(t) ==
  /\ phase[t] = "instantiate"
  /\ phase' = [phase EXCEPT ![t] = "run"]
  /\ desc' = [desc EXCEPT ![module[t]].object = t]
  /\ UNCHANGED <<slots, mutex, place, module, asked, history, command>>

InstantiateFails(t) ==
  /\ phase[t] = "instantiate"
  /\ phase' = [phase EXCEPT ![t] = "cleanup"]
  /\ desc' = [desc EXCEPT ![module[t]].object = Nil]
  /\ UNCHANGED <<slots, mutex, place, module, asked, history, command>>

\* run() returns, or Run() finds should_exit, or whatever memory that was
\* freed holds in its place.
Finish(t) ==
  /\ phase[t] = "run"
  /\ t \in asked \cup deleted \/ module[t] \in Finite
  /\ phase' = [phase EXCEPT ![t] = IF module[t] \in Managed THEN "cleanup" ELSE "return"]
  /\ UNCHANGED <<slots, desc, mutex, place, module, asked, history, command>>

Delete(m) ==
  /\ deleted' = deleted \cup ({desc[m].object} \ {Nil})
  /\ asked' = asked \ {desc[m].object}

\* An instance that has ended is nowhere.
End(T) ==
  /\ phase' = [t \in Instances |-> IF t \in T THEN "ended" ELSE phase[t]]
  /\ place' = [t \in Instances |-> IF t \in T THEN NoTask ELSE place[t]]
  /\ module' = [t \in Instances |-> IF t \in T THEN Nil ELSE module[t]]

\* The items that leave their queue when a module's object is deleted.
Dequeued(m) == {t \in Instances : /\ phase[t] = "run" /\ place[t] = WorkQueue
                                  /\ desc[m].object = t}

\* An item that was left behind deletes, and so dequeues, its successor.
Leave(t) ==
  IF place[t] = WorkQueue
    THEN End({t} \cup Dequeued(module[t]))
    ELSE phase' = [phase EXCEPT ![t] = "return"] /\ UNCHANGED <<place, module>>

\* Mutant: the module's mutex is not taken.
CleanUpUnlocked(t) ==
  LET m == module[t] IN
  /\ phase[t] = "cleanup"
  /\ Delete(m)
  /\ desc' = [desc EXCEPT ![m] = [task_id |-> NoTask, object |-> Nil]]
  /\ Leave(t)
  /\ UNCHANGED <<slots, mutex, left, raced, command>>

\* exit_and_cleanup
CleanUp(t) ==
  LET m == module[t] IN
  /\ phase[t] = "cleanup" /\ mutex = Nil
  /\ Delete(m)
  /\ desc' = [desc EXCEPT ![m] = [task_id |-> NoTask, object |-> Nil]]
  /\ Leave(t)
  /\ UNCHANGED <<slots, mutex, left, raced, command>>

\* The trampoline frees the slot.
Return(t) ==
  /\ phase[t] = "return"
  /\ slots' = [slots EXCEPT ![place[t]].used = FALSE]
  /\ End({t})
  /\ UNCHANGED <<desc, mutex, asked, history, command>>

-----------------------------------------------------------------------------
(* ModuleBase::stop_command.                                               *)

\* request_stop, and the first sleep without the mutex.
Stop(c) ==
  /\ At(c, "stop") /\ command[c].module \in Managed
  /\ mutex = Nil /\ is_running(command[c].module)
  /\ Object(c) # Nil
  /\ asked' = asked \cup {Object(c)}
  /\ Goto(c, "sleep")
  /\ UNCHANGED <<slots, desc, mutex, instances, history>>

\* A module that has no object yet only loses its task_id.
StopEarly(c) ==
  LET m == command[c].module IN
  /\ At(c, "stop") /\ m \in Managed
  /\ mutex = Nil /\ is_running(m) /\ Object(c) = Nil
  /\ desc' = [desc EXCEPT ![m].task_id = NoTask]
  /\ left' = (left \/ Of(m) # {})
  /\ Done(c)
  /\ UNCHANGED <<slots, mutex, instances, asked, deleted, raced>>

Patient(c) ==
  /\ At(c, "sleep") /\ mutex = Nil /\ is_running(command[c].module)
  /\ command[c].tries < StopTries
  /\ command' = [command EXCEPT ![c].tries = @ + 1]
  /\ UNCHANGED <<slots, desc, mutex, instances, asked, history>>

\* Mutant: the pointer to the object deleted is kept.
ForceDangling(c) ==
  LET m == command[c].module
      id == desc[m].task_id IN
  /\ At(c, "sleep") /\ mutex = Nil /\ is_running(m)
  /\ command[c].tries >= StopTries
  /\ slots' = [s \in Slots |-> IF s = id THEN [slots[s] EXCEPT !.used = FALSE]
                                        ELSE slots[s]]
  /\ \E gone \in SUBSET Dequeued(m) :
       End(gone) /\ left' = (left \/ Of(m) \ gone # {})
  /\ Delete(m)
  /\ desc' = [desc EXCEPT ![m].task_id = NoTask]
  /\ Done(c)
  /\ UNCHANGED <<mutex, raced>>

\* Mutant: a work-queue module is not forced, and waited for without end.
ForceTask(c) ==
  LET m == command[c].module
      id == desc[m].task_id IN
  /\ At(c, "sleep") /\ mutex = Nil /\ is_running(m)
  /\ command[c].tries >= StopTries /\ id \in Slots
  /\ slots' = [slots EXCEPT ![id].used = FALSE]
  /\ Delete(m)
  /\ desc' = [desc EXCEPT ![m] = [task_id |-> NoTask, object |-> Nil]]
  /\ left' = (left \/ Of(m) # {})
  /\ Done(c)
  /\ UNCHANGED <<mutex, instances, raced>>

\* After five seconds: px4_task_delete, which only frees the slot, and the
\* object is deleted although its thread still runs; an item leaves its
\* queue, unless its Run() is being executed.
ForceStop(c) ==
  LET m == command[c].module
      id == desc[m].task_id IN
  /\ At(c, "sleep") /\ mutex = Nil /\ is_running(m)
  /\ command[c].tries >= StopTries
  /\ slots' = [s \in Slots |-> IF s = id THEN [slots[s] EXCEPT !.used = FALSE]
                                        ELSE slots[s]]
  /\ \E gone \in SUBSET Dequeued(m) :
       End(gone) /\ left' = (left \/ Of(m) \ gone # {})
  /\ Delete(m)
  /\ desc' = [desc EXCEPT ![m] = [task_id |-> NoTask, object |-> Nil]]
  /\ Done(c)
  /\ UNCHANGED <<mutex, raced>>

(* simulator_mavlink_main's "stop": px4_task_delete(g_sim_task), which may *)
(* be the slot of another task since the simulator's returned.             *)

StopDirect(c) ==
  LET id == desc[command[c].module].task_id IN
  /\ At(c, "stop") /\ command[c].module \notin Managed
  /\ id # NoTask
  /\ slots' = [slots EXCEPT ![id].used = FALSE]
  /\ left' = (left \/ Users(id) # {})
  /\ Goto(c, "forget")
  /\ UNCHANGED <<desc, mutex, instances, asked, deleted, raced>>

\* g_sim_task = -1
Forget(c) ==
  /\ At(c, "forget")
  /\ desc' = [desc EXCEPT ![command[c].module].task_id = NoTask]
  /\ Done(c)
  /\ UNCHANGED <<slots, mutex, instances, asked, history>>

-----------------------------------------------------------------------------
Command(c) ==
  \/ NothingToDo(c) \/ Start(c) \/ Search(c) \/ Claim(c) \/ TableFull(c)
  \/ Create(c) \/ CreateFails(c) \/ Assign(c)
  \/ Started(c) \/ KeepWaiting(c) \/ StartTimeout(c)
  \/ SpawnItem(c) \/ ItemFails(c)
  \/ Stop(c) \/ StopEarly(c) \/ Patient(c) \/ ForceStop(c)
  \/ StopDirect(c) \/ Forget(c)

Instance(t) ==
  \/ Begin(t) \/ Instantiate(t) \/ InstantiateFails(t) \/ Finish(t)
  \/ CleanUp(t) \/ Return(t)

Next ==
  \/ \E c \in Callers : Command(c)
  \/ \E c \in Callers, pc \in {"start", "stop"}, m \in Modules : Call(c, pc, m)
  \/ \E t \in Instances : Instance(t)

(* A caller's steps are taken, and its turn for the mutex comes: a FreeRTOS *)
(* mutex goes to the waiter of the highest priority, and every holder      *)
(* releases it after at most a second.  Nothing is promised of the         *)
(* instances: run() may ignore the request.                                *)
Fairness == \A c \in Callers : SF_vars(Command(c))

Spec == Init /\ [][Next]_vars /\ Fairness

-----------------------------------------------------------------------------
(* Properties.                                                             *)

Task == [used : BOOLEAN, entry : Modules \cup {Nil}]
Descriptor == [task_id : Slots \cup {NoTask, WorkQueue}, object : Instances \cup {Nil}]
Commanding ==
  [pc : {"idle", "start", "spawn", "claim", "create", "assign", "wait",
         "stop", "sleep", "forget"},
   module : Modules \cup {Nil}, slot : Slots \cup {NoTask}, tries : Nat]

TypeOK ==
  /\ slots \in [Slots -> Task]
  /\ desc \in [Modules -> Descriptor]
  /\ mutex \in Callers \cup {Nil}
  /\ phase \in [Instances -> Live \cup {"none", "ended"}]
  /\ place \in [Instances -> Slots \cup {NoTask, WorkQueue}]
  /\ module \in [Instances -> Modules \cup {Nil}]
  /\ asked \subseteq Instances /\ deleted \subseteq Instances
  /\ left \in BOOLEAN /\ raced \in BOOLEAN
  /\ command \in [Callers -> Commanding]

(* As long as nobody gave up waiting or stopped a direct module, and no    *)
(* spawner without the mutex met another in its search: a slot of the      *)
(* table is marked as used exactly while one thread lives in it, or is     *)
(* about to be created, so that no two threads share a slot and none is    *)
(* lost.  Without ~raced this fails: two spawners find the same slot.      *)
OneThreadPerSlot ==
  \A s \in Slots :
    /\ slots[s].used <=> Users(s) # {}
    /\ \A x, y \in Users(s) : x = y
SlotSound == ~left /\ ~raced => OneThreadPerSlot

(* In the firmware one task, the boot task, gives every start command, in  *)
(* fc_px4_modules_start; then the searches never meet (OneStarterSlots).   *)
Starters == {c \in Callers : \E m \in Modules : <<"start", m>> \in Commands[c]}
OneStarter == \A c, d \in Starters : c = d

(* Under the same conditions: the object of a ModuleBase module that runs  *)
(* is the one its descriptor names, alive, so there is no second instance  *)
(* and no run() on a deleted object; and a module that is_running has an   *)
(* instance which will say so when it ends.                                *)
InstanceSound ==
  ~left /\ ~raced =>
    /\ \A t \in Instances :
         phase[t] = "run" /\ module[t] \in Managed =>
           t \notin deleted /\ desc[module[t]].object = t
    /\ \A m \in Managed :
         mutex = Nil /\ is_running(m) => \E t \in Of(m) : phase[t] # "return"

(* Whatever was left behind, the pointer to a module's object, which stop  *)
(* and exit_and_cleanup use and delete, never points to a deleted one.     *)
NoDangling == \A m \in Modules : desc[m].object \notin deleted

(* Every command returns: a module that never instantiates, never ends or  *)
(* ends and is started again while it is being stopped keeps nobody        *)
(* waiting for ever.                                                       *)
CommandsReturn == \A c \in Callers : ~At(c, "idle") ~> At(c, "idle")
=============================================================================
