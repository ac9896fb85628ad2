-------------------------- MODULE TaskLayerProofs --------------------------
(***************************************************************************)
(* Proofs about TaskLayer: the types; that the pointer to an object never  *)
(* dangles; that, as long as nobody gives up waiting and no two spawners   *)
(* meet without the mutex, a slot belongs to one thread and a module to    *)
(* one instance; and that spawners never meet if one caller gives all the  *)
(* start commands -- for any number of modules, callers, instances and     *)
(* slots, and any patience.                                                *)
(***************************************************************************)
EXTENDS TaskLayer, TLAPS

(* Where an instance stands in its life, and what it is then known by.     *)
ShapeInv ==
  \A t \in Instances :
    /\ phase[t] \in {"none", "ended"} => place[t] = NoTask /\ module[t] = Nil
    /\ phase[t] = "created" =>
         place[t] \in Slots /\ module[t] = Nil /\ slots[place[t]].entry \in Modules
    /\ phase[t] = "instantiate" => place[t] \in Slots /\ module[t] \in Managed
    /\ phase[t] = "run" =>
         /\ place[t] \in Slots \cup {WorkQueue} /\ module[t] \in Modules
         /\ module[t] \in Managed \/ place[t] \in Slots
    /\ phase[t] = "cleanup" =>
         place[t] \in Slots \cup {WorkQueue} /\ module[t] \in Managed
    /\ phase[t] = "return" => place[t] \in Slots /\ module[t] \in Modules

(* An object is made once, and named by one descriptor.                    *)
ObjectInv ==
  /\ \A t \in Instances : phase[t] \in {"none", "created", "instantiate"} =>
       t \notin deleted /\ \A m \in Modules : desc[m].object # t
  /\ \A m, n \in Modules : desc[m].object # Nil /\ desc[m].object = desc[n].object
                             => m = n
  /\ NoDangling

(* Who holds the mutex, and what is true of its module until it lets go.   *)
Starting == {"spawn", "claim", "create", "assign", "wait"}
Holding(d) == command[d].pc \in Starting /\ command[d].module \in Managed
Proper(c) ==
  /\ Holding(c) <=> mutex = c
  /\ ~At(c, "idle") => command[c].module \in Modules
  /\ command[c].pc \in {"wait", "sleep"} => command[c].module \in Managed
  /\ command[c].pc = "forget" => command[c].module \notin Managed
  /\ command[c].pc \in {"claim", "create", "assign", "wait"} => command[c].slot \in Slots
  /\ command[c].pc = "claim" => Kind[command[c].module] # "queue"
  /\ command[c].pc = "create" => slots[command[c].slot].entry \in Modules
  /\ Holding(c) => (is_running(command[c].module) <=> command[c].pc = "wait")
CallerInv == \A c \in Callers : Proper(c)

(* The table, until two spawners meet: there is one who searches, what it  *)
(* has found stays free, and what it wrote stays there.                    *)
SearchInv == \A c, d \in Searching : c = d
FoundInv == \A c \in Callers : At(c, "claim") => ~slots[command[c].slot].used
EntryInv ==
  \A c \in Callers : At(c, "create") => slots[command[c].slot].entry = command[c].module
SlotPart == OneThreadPerSlot /\ SearchInv /\ FoundInv /\ EntryInv

(* The instances of a module before their clean-up.                        *)
Mod(t) == IF phase[t] = "created" THEN slots[place[t]].entry ELSE module[t]
Alive(m) == {t \in Instances : /\ phase[t] \in Live \ {"return"}
                               /\ Mod(t) = m}

(* There is one at most; its descriptor or its starter knows its place; a  *)
(* descriptor that names a place, and a starter, have one there.           *)
Assigning(c) == At(c, "assign") /\ command[c].module \in Managed
OneInv == \A m \in Managed : \A t, u \in Alive(m) : t = u
LinkInv ==
  \A m \in Managed : \A t \in Alive(m) :
    \/ desc[m].task_id = place[t]
    \/ \E c \in Callers :
         Assigning(c) /\ command[c].module = m /\ command[c].slot = place[t]
OwnInv ==
  /\ \A m \in Managed : is_running(m) => \E t \in Alive(m) : place[t] = desc[m].task_id
  /\ \A c \in Callers : Assigning(c) =>
       \E t \in Alive(command[c].module) : place[t] = command[c].slot
RunInv ==
  \A t \in Instances : phase[t] = "run" /\ module[t] \in Managed =>
    t \notin deleted /\ desc[module[t]].object = t
InstPart == OneInv /\ LinkInv /\ OwnInv /\ RunInv

SoundInv == ~left /\ ~raced => SlotPart /\ InstPart

IInv == TypeOK /\ ShapeInv /\ ObjectInv /\ CallerInv /\ SoundInv

-----------------------------------------------------------------------------
(* Facts about numbers and names.                                          *)

LEMMA SlotFacts == NoTask \notin Slots /\ WorkQueue \notin Slots /\ NoTask # WorkQueue
BY TaskLayerAssumption DEF Slots, NoTask, WorkQueue

LEMMA NilFacts == Nil \notin Modules /\ Nil \notin Callers /\ Nil \notin Instances
BY TaskLayerAssumption

LEMMA FreshFacts ==
  ASSUME NEW t \in Fresh
  PROVE  t \in Instances /\ phase[t] = "none" /\ Fresh = {t}
<1> DEFINE unused == {u \in Instances : phase[u] = "none"}
<1>1. unused # {}
  BY DEF Fresh
<1>2. (CHOOSE u \in unused : TRUE) \in unused
  BY <1>1
<1> QED
  BY <1>1, <1>2 DEF Fresh

LEMMA IdleType == Idle \in Commanding
BY SlotFacts DEF Idle, Commanding

LEMMA ManagedFacts ==
  /\ Managed \subseteq Modules
  /\ \A m \in Modules : m \in Managed <=> Kind[m] # "direct"
BY DEF Managed

LEMMA InitInv == Init => IInv
<1> SUFFICES ASSUME Init PROVE IInv
  OBVIOUS
<1> USE SlotFacts, NilFacts, TaskLayerAssumption
<1>1. TypeOK
  BY IdleType DEF Init, TypeOK, Task, Descriptor, Live
<1>2. ShapeInv /\ ObjectInv
  BY DEF Init, ShapeInv, ObjectInv, NoDangling
<1>3. CallerInv
  BY DEF Init, CallerInv, Proper, Idle, At, Holding, Starting
<1>4. SlotPart
  BY DEF Init, SlotPart, OneThreadPerSlot, Users, InSlot, SearchInv, Searching, FoundInv,
         EntryInv, Live, Idle, At
<1>5. InstPart
  BY ManagedFacts DEF Init, InstPart, OneInv, LinkInv, OwnInv, RunInv, Assigning,
         Alive, Live, Mod, Idle, At, is_running
<1> QED
  BY <1>1, <1>2, <1>3, <1>4, <1>5 DEF IInv, SoundInv

-----------------------------------------------------------------------------
(* Types.                                                                  *)

LEMMA DoneType ==
  ASSUME TypeOK, NEW c \in Callers, Done(c)
  PROVE  command' \in [Callers -> Commanding] /\ \A p : At(c, p)' <=> p = "idle"
BY IdleType DEF TypeOK, Done, At, Idle

LEMMA GotoType ==
  ASSUME TypeOK, NEW c \in Callers,
         NEW pc \in {"spawn", "create", "assign", "wait", "sleep", "forget"}, Goto(c, pc)
  PROVE  command' \in [Callers -> Commanding]
<1>1. [command[c] EXCEPT !.pc = pc] \in Commanding
  BY DEF TypeOK, Commanding
<1> QED
  BY <1>1 DEF TypeOK, Goto

LEMMA TriesType ==
  ASSUME TypeOK, NEW c \in Callers,
         command' = [command EXCEPT ![c].tries = @ + 1]
  PROVE  command' \in [Callers -> Commanding]
<1>1. [command[c] EXCEPT !.tries = @ + 1] \in Commanding
  BY DEF TypeOK, Commanding
<1> QED
  BY <1>1 DEF TypeOK

LEMMA EndType ==
  ASSUME TypeOK, NEW T, End(T)
  PROVE  /\ phase' \in [Instances -> Live \cup {"none", "ended"}]
         /\ place' \in [Instances -> Slots \cup {NoTask, WorkQueue}]
         /\ module' \in [Instances -> Modules \cup {Nil}]
BY DEF TypeOK, End

LEMMA DeleteType ==
  ASSUME TypeOK, NEW m \in Modules, Delete(m)
  PROVE  asked' \subseteq Instances /\ deleted' \subseteq Instances
<1>1. desc[m].object \in Instances \cup {Nil}
  BY DEF TypeOK, Descriptor
<1> QED
  BY <1>1 DEF TypeOK, Delete

LEMMA DescType ==
  ASSUME TypeOK, NEW m \in Modules
  PROVE  /\ desc[m] \in Descriptor
         /\ \A id \in Slots \cup {NoTask, WorkQueue} :
              [desc EXCEPT ![m].task_id = id] \in [Modules -> Descriptor]
         /\ \A o \in Instances \cup {Nil} :
              [desc EXCEPT ![m].object = o] \in [Modules -> Descriptor]
         /\ \A id \in Slots \cup {NoTask, WorkQueue}, o \in Instances \cup {Nil} :
              [desc EXCEPT ![m] = [task_id |-> id, object |-> o]] \in [Modules -> Descriptor]
BY DEF TypeOK, Descriptor

LEMMA SlotType ==
  ASSUME TypeOK, NEW s
  PROVE  /\ [slots EXCEPT ![s].used = FALSE] \in [Slots -> Task]
         /\ \A m \in Modules :
              [slots EXCEPT ![s] = [used |-> TRUE, entry |-> m]] \in [Slots -> Task]
BY DEF TypeOK, Task

LEMMA FailType ==
  ASSUME TypeOK, NEW c \in Callers, command[c].module \in Modules, Fail(c)
  PROVE  /\ desc' \in [Modules -> Descriptor]
         /\ command' \in [Callers -> Commanding]
         /\ mutex' \in Callers \cup {Nil}
BY DescType, DoneType DEF Fail, Unlock, TypeOK

LEMMA CommandType ==
  ASSUME TypeOK, CallerInv, NEW c \in Callers, Command(c)
  PROVE  TypeOK'
<1> USE SlotFacts, NilFacts DEF instances, history
<1> DEFINE m == command[c].module
<1>0. ~At(c, "idle") => m \in Modules
  BY DEF CallerInv, Proper
<1>1. CASE NothingToDo(c)
  BY <1>1, DoneType DEF TypeOK, NothingToDo
<1>2. CASE Start(c)
  BY <1>2, GotoType DEF TypeOK, Start
<1>3. CASE Search(c)
  <2>1. [command[c] EXCEPT !.slot = NextSlot(c),
             !.pc = IF slots[NextSlot(c)].used THEN "spawn" ELSE "claim"] \in Commanding
    BY <1>3 DEF TypeOK, Commanding, Search
  <2>2. command' \in [Callers -> Commanding]
    BY <1>3, <2>1 DEF TypeOK, Search
  <2> QED
    BY <1>3, <2>2 DEF TypeOK, Search
<1>17. CASE Claim(c)
  <2>1. m \in Modules
    BY <1>0, <1>17 DEF Claim, At
  <2> QED
    BY <1>17, <2>1, SlotType, GotoType DEF TypeOK, Claim
<1>4. CASE TableFull(c)
  BY <1>0, <1>4, FailType DEF TypeOK, TableFull, At
<1>5. CASE Create(c)
  <2>1. command[c].slot \in Slots
    BY <1>5 DEF CallerInv, Proper, Create, At
  <2> QED
    BY <1>5, <2>1, FreshFacts, GotoType DEF TypeOK, Create, Live
<1>6. CASE CreateFails(c)
  <2>1. command[c].slot \in Slots
    BY <1>6 DEF CallerInv, Proper, CreateFails, At
  <2> QED
    BY <1>0, <1>6, <2>1, FailType, SlotType DEF TypeOK, CreateFails, At
<1>7. CASE Assign(c)
  <2>1. command[c].slot \in Slots /\ m \in Modules
    BY <1>7 DEF CallerInv, Proper, Assign, At
  <2>2. desc' \in [Modules -> Descriptor]
    BY <1>7, <2>1, DescType DEF Assign
  <2>3. CASE Kind[m] = "waited"
    BY <1>7, <2>2, <2>3, GotoType DEF TypeOK, Assign
  <2>4. CASE Kind[m] # "waited"
    BY <1>7, <2>2, <2>4, DoneType DEF TypeOK, Assign, Unlock
  <2> QED
    BY <2>3, <2>4
<1>8. CASE Started(c)
  BY <1>8, DoneType DEF TypeOK, Started
<1>9. CASE KeepWaiting(c)
  BY <1>9, TriesType DEF TypeOK, KeepWaiting
<1>10. CASE StartTimeout(c)
  BY <1>0, <1>10, FailType DEF TypeOK, StartTimeout, At
<1>11. CASE SpawnItem(c)
  <2>0. m \in Modules
    BY <1>0, <1>11 DEF SpawnItem, At
  <2>1. PICK t \in Fresh :
          /\ phase' = [phase EXCEPT ![t] = "run"]
          /\ place' = [place EXCEPT ![t] = WorkQueue]
          /\ module' = [module EXCEPT ![t] = m]
          /\ desc' = [desc EXCEPT ![m] = [task_id |-> WorkQueue, object |-> t]]
    BY <1>11 DEF SpawnItem
  <2> QED
    BY <1>11, <2>0, <2>1, FreshFacts, DescType, DoneType DEF TypeOK, SpawnItem, Live
<1>12. CASE ItemFails(c)
  BY <1>0, <1>12, DescType, DoneType DEF TypeOK, ItemFails, At
<1>13. CASE Stop(c)
  <2>1. Object(c) \in Instances
    BY <1>0, <1>13, DescType DEF Stop, Object, Descriptor, At
  <2> QED
    BY <1>13, <2>1, GotoType DEF TypeOK, Stop
<1>14. CASE StopEarly(c)
  BY <1>0, <1>14, DescType, DoneType DEF TypeOK, StopEarly, At
<1>15. CASE Patient(c)
  BY <1>15, TriesType DEF TypeOK, Patient
<1>16. CASE ForceStop(c)
  <2>0. m \in Modules
    BY <1>0, <1>16 DEF ForceStop, At
  <2>1. slots' \in [Slots -> Task]
    <3>1. slots' = [s \in Slots |-> IF s = desc[m].task_id
                      THEN [slots[s] EXCEPT !.used = FALSE] ELSE slots[s]]
      BY <1>16 DEF ForceStop
    <3> QED
      BY <3>1 DEF TypeOK, Task
  <2>2. desc' \in [Modules -> Descriptor]
    BY <1>16, <2>0, DescType DEF ForceStop
  <2>3. PICK gone : End(gone) /\ left' \in BOOLEAN
    BY <1>16 DEF ForceStop, TypeOK
  <2>4. Delete(m) /\ Done(c)
    BY <1>16 DEF ForceStop
  <2> QED
    BY <1>16, <2>0, <2>1, <2>2, <2>3, <2>4, EndType, DeleteType, DoneType
    DEF TypeOK, ForceStop
<1>18. CASE StopDirect(c)
  BY <1>18, SlotType, GotoType DEF TypeOK, StopDirect
<1>19. CASE Forget(c)
  BY <1>0, <1>19, DescType, DoneType DEF TypeOK, Forget, At
<1> QED
  BY <1>1, <1>2, <1>3, <1>4, <1>5, <1>6, <1>7, <1>8, <1>9, <1>10, <1>11, <1>12, <1>13,
     <1>14, <1>15, <1>16, <1>17, <1>18, <1>19 DEF Command

LEMMA InstanceType ==
  ASSUME TypeOK, ShapeInv, NEW t \in Instances, Instance(t)
  PROVE  TypeOK'
<1> USE SlotFacts, NilFacts DEF instances, history
<1>0. phase[t] \in {"instantiate", "run", "cleanup"} => module[t] \in Modules
  BY ManagedFacts DEF ShapeInv
<1>1. CASE Begin(t)
  BY <1>1 DEF TypeOK, Begin, ShapeInv, Live
<1>2. CASE Instantiate(t)
  BY <1>0, <1>2, DescType DEF TypeOK, Instantiate, Live
<1>3. CASE InstantiateFails(t)
  BY <1>0, <1>3, DescType DEF TypeOK, InstantiateFails, Live
<1>4. CASE Finish(t)
  BY <1>4 DEF TypeOK, Finish, Live
<1>5. CASE CleanUp(t)
  <2>0. module[t] \in Modules
    BY <1>0, <1>5 DEF CleanUp
  <2>1. /\ phase' \in [Instances -> Live \cup {"none", "ended"}]
        /\ place' \in [Instances -> Slots \cup {NoTask, WorkQueue}]
        /\ module' \in [Instances -> Modules \cup {Nil}]
    <3>1. CASE place[t] = WorkQueue
      BY <1>5, <3>1, EndType DEF CleanUp, Leave
    <3>2. CASE place[t] # WorkQueue
      BY <1>5, <3>2 DEF TypeOK, CleanUp, Leave, Live
    <3> QED
      BY <3>1, <3>2
  <2> QED
    BY <1>5, <2>0, <2>1, DescType, DeleteType DEF TypeOK, CleanUp
<1>6. CASE Return(t)
  <2>1. place[t] \in Slots
    BY <1>6 DEF ShapeInv, Return
  <2> QED
    BY <1>6, <2>1, SlotType, EndType DEF TypeOK, Return
<1> QED
  BY <1>1, <1>2, <1>3, <1>4, <1>5, <1>6 DEF Instance

LEMMA CallType ==
  ASSUME TypeOK, NEW c \in Callers, NEW m \in Modules, NEW pc \in {"start", "stop"},
         Call(c, pc, m)
  PROVE  TypeOK'
<1>1. [Idle EXCEPT !.pc = pc, !.module = m] \in Commanding
  BY SlotFacts DEF Idle, Commanding
<1> QED
  BY <1>1 DEF Call, TypeOK, instances, history

-----------------------------------------------------------------------------
(* The callers.                                                            *)

LEMMA DoneFacts ==
  ASSUME TypeOK, NEW c \in Callers, Done(c)
  PROVE  command'[c].pc = "idle" /\ \A d \in Callers \ {c} : command'[d] = command[d]
BY DEF TypeOK, Done, Idle

LEMMA GotoFacts ==
  ASSUME TypeOK, NEW c \in Callers, NEW pc, Goto(c, pc)
  PROVE  /\ command'[c].pc = pc /\ command'[c].module = command[c].module
         /\ command'[c].slot = command[c].slot
         /\ \A d \in Callers \ {c} : command'[d] = command[d]
BY DEF TypeOK, Commanding, Goto

LEMMA TriesFacts ==
  ASSUME TypeOK, NEW c \in Callers, command' = [command EXCEPT ![c].tries = @ + 1]
  PROVE  /\ command'[c].pc = command[c].pc /\ command'[c].module = command[c].module
         /\ command'[c].slot = command[c].slot
         /\ \A d \in Callers \ {c} : command'[d] = command[d]
BY DEF TypeOK, Commanding

LEMMA SearchFacts ==
  ASSUME TypeOK, NEW c \in Callers, Search(c)
  PROVE  /\ command'[c].pc \in {"spawn", "claim"} /\ command'[c].module = command[c].module
         /\ command'[c].pc = "claim" =>
              command'[c].slot \in Slots /\ ~slots[command'[c].slot].used
         /\ \A d \in Callers \ {c} : command'[d] = command[d]
<1>1. NextSlot(c) \in Slots
  BY DEF Search
<1>2. /\ command'[c].slot = NextSlot(c)
      /\ command'[c].pc = IF slots[NextSlot(c)].used THEN "spawn" ELSE "claim"
      /\ command'[c].module = command[c].module
      /\ \A d \in Callers \ {c} : command'[d] = command[d]
  BY DEF Search, TypeOK, Commanding
<1> QED
  BY <1>1, <1>2

LEMMA ClaimFacts ==
  ASSUME TypeOK, CallerInv, NEW c \in Callers, Claim(c)
  PROVE  LET s == command[c].slot IN
           /\ s \in Slots
           /\ slots'[s].used = TRUE /\ slots'[s].entry = command[c].module
           /\ \A r \in Slots \ {s} : slots'[r] = slots[r]
BY DEF Claim, CallerInv, Proper, At, TypeOK

(* What is written into a slot stays there until it is claimed again.      *)
LEMMA FreeingKeepsEntries ==
  ASSUME TypeOK, NEW s, slots' = [slots EXCEPT ![s].used = FALSE]
  PROVE  /\ s \in Slots => slots'[s].used = FALSE
         /\ \A r \in Slots : slots'[r].entry = slots[r].entry
         /\ \A r \in Slots \ {s} : slots'[r] = slots[r]
BY DEF TypeOK, Task

LEMMA DescFacts ==
  ASSUME TypeOK, NEW m \in Modules, NEW id, NEW o
  PROVE  /\ desc' = [desc EXCEPT ![m].task_id = id] =>
              /\ desc'[m].task_id = id /\ desc'[m].object = desc[m].object
              /\ \A n \in Modules \ {m} : desc'[n] = desc[n]
         /\ desc' = [desc EXCEPT ![m].object = o] =>
              /\ desc'[m].task_id = desc[m].task_id /\ desc'[m].object = o
              /\ \A n \in Modules \ {m} : desc'[n] = desc[n]
         /\ desc' = [desc EXCEPT ![m] = [task_id |-> id, object |-> o]] =>
              /\ desc'[m].task_id = id /\ desc'[m].object = o
              /\ \A n \in Modules \ {m} : desc'[n] = desc[n]
BY DEF TypeOK, Descriptor

(* Whoever holds the mutex is the only one, and nobody does if it is free. *)
LEMMA OneHolder ==
  ASSUME CallerInv
  PROVE  /\ \A c, d \in Callers : Holding(c) /\ Holding(d) => c = d
         /\ mutex = Nil => \A c \in Callers : ~Holding(c)
BY NilFacts DEF CallerInv, Proper

(* The others keep their part of the invariant if the mutex, the entries   *)
(* of their slots and the task_ids of their modules are kept.              *)
LEMMA OthersCaller ==
  ASSUME TypeOK, CallerInv, NEW c \in Callers,
         \A d \in Callers \ {c} : command'[d] = command[d],
         mutex' # mutex => {mutex, mutex'} \subseteq {c, Nil},
         \A d \in Callers \ {c} : At(d, "create") =>
           slots'[command[d].slot].entry \in Modules,
         \A m \in Managed : desc'[m].task_id = desc[m].task_id \/ command[c].module = m,
         \/ \A m \in Managed : desc'[m].task_id = desc[m].task_id
         \/ Holding(c) \/ mutex = Nil
  PROVE  \A d \in Callers \ {c} : Proper(d)'
<1> TAKE d \in Callers \ {c}
<1>1. command'[d] = command[d] /\ (Holding(d)' <=> Holding(d))
  BY DEF Holding
<1>2. Holding(d)' <=> mutex' = d
  BY <1>1, NilFacts DEF CallerInv, Proper
<1>3. At(d, "create") => slots'[command[d].slot].entry \in Modules
  OBVIOUS
<1>4. ASSUME Holding(d) PROVE is_running(command[d].module)' <=> command'[d].pc = "wait"
  <2>1. command[d].module \in Managed /\ ~Holding(c) /\ mutex # Nil
    BY <1>4, OneHolder DEF Holding
  <2>2. desc'[command[d].module].task_id = desc[command[d].module].task_id
    BY <2>1
  <2>3. is_running(command[d].module) <=> command[d].pc = "wait"
    BY <1>4 DEF CallerInv, Proper
  <2> QED
    BY <1>1, <2>2, <2>3 DEF is_running
<1> QED
  BY <1>1, <1>2, <1>3, <1>4 DEF CallerInv, Proper, At

LEMMA UnlockFacts ==
  ASSUME TypeOK, CallerInv, NEW c \in Callers, Unlock(c)
  PROVE  mutex' # c /\ (mutex' # mutex => mutex = c /\ mutex' = Nil)
BY NilFacts DEF Unlock

LEMMA OwnIdle ==
  ASSUME NEW c \in Callers, command'[c].pc = "idle", mutex' # c
  PROVE  Proper(c)'
BY DEF Proper, Holding, Starting, At

(* The steps that leave the slots and the descriptors as they are.         *)
LEMMA QuietCaller ==
  ASSUME TypeOK, CallerInv, NEW c \in Callers, UNCHANGED <<slots, desc>>,
         NothingToDo(c) \/ Start(c) \/ Search(c) \/ Create(c) \/ Started(c)
           \/ KeepWaiting(c) \/ Stop(c) \/ Patient(c)
  PROVE  CallerInv'
<1> USE SlotFacts, NilFacts, ManagedFacts
<1> DEFINE m == command[c].module
<1>0. Proper(c)
  BY DEF CallerInv
<1>1. \A d \in Callers \ {c} : At(d, "create") => slots'[command[d].slot].entry \in Modules
  BY DEF CallerInv, Proper, At
<1>2. ASSUME \A d \in Callers \ {c} : command'[d] = command[d],
             mutex' # mutex => {mutex, mutex'} \subseteq {c, Nil}, Proper(c)'
      PROVE  CallerInv'
  BY <1>1, <1>2, OthersCaller DEF CallerInv
<1>3. CASE NothingToDo(c)
  <2>1. mutex # c
    BY <1>0, <1>3 DEF NothingToDo, Proper, Holding, Starting, At
  <2> QED
    BY <1>2, <1>3, <2>1, DoneFacts, OwnIdle DEF NothingToDo
<1>4. CASE Start(c)
  <2>1. /\ command'[c].pc = "spawn" /\ command'[c].module = m /\ m \in Modules
        /\ ~is_running(m)' /\ mutex # c
    BY <1>0, <1>4, GotoFacts DEF Start, Proper, Holding, Starting, At, is_running
  <2>2. m \in Managed <=> mutex' = c
    BY <1>4, <2>1 DEF Start
  <2>3. Proper(c)'
    BY <2>1, <2>2 DEF Proper, Holding, Starting, At
  <2>4. mutex' # mutex => {mutex, mutex'} \subseteq {c, Nil}
    BY <1>4 DEF Start
  <2>5. \A d \in Callers \ {c} : command'[d] = command[d]
    BY <1>4, GotoFacts DEF Start
  <2> QED
    BY <1>2, <2>3, <2>4, <2>5
<1>5. CASE Search(c)
  <2>1. Proper(c)'
    BY <1>0, <1>5, SearchFacts DEF Search, Proper, Holding, Starting, At, is_running
  <2> QED
    BY <1>2, <1>5, <2>1, SearchFacts DEF Search
<1>6. CASE Create(c)
  <2>1. Proper(c)'
    BY <1>0, <1>6, GotoFacts DEF Create, Proper, Holding, Starting, At, is_running
  <2> QED
    BY <1>2, <1>6, <2>1, GotoFacts DEF Create
<1>7. CASE Started(c)
  <2>1. mutex = c /\ mutex' = Nil
    BY <1>0, <1>7 DEF Started, Proper, Holding, Starting, At
  <2> QED
    BY <1>2, <1>7, <2>1, DoneFacts, OwnIdle DEF Started
<1>8. CASE KeepWaiting(c)
  <2>1. Proper(c)'
    BY <1>0, <1>8, TriesFacts DEF KeepWaiting, Proper, Holding, Starting, At, is_running
  <2> QED
    BY <1>2, <1>8, <2>1, TriesFacts DEF KeepWaiting
<1>9. CASE Stop(c)
  <2>1. Proper(c)'
    BY <1>0, <1>9, GotoFacts DEF Stop, Proper, Holding, Starting, At
  <2> QED
    BY <1>2, <1>9, <2>1, GotoFacts DEF Stop
<1>10. CASE Patient(c)
  <2>1. Proper(c)'
    BY <1>0, <1>10, TriesFacts DEF Patient, Proper, Holding, Starting, At
  <2> QED
    BY <1>2, <1>10, <2>1, TriesFacts DEF Patient
<1> QED
  BY <1>3, <1>4, <1>5, <1>6, <1>7, <1>8, <1>9, <1>10

(* The steps that end a start, or a stop, and change the module's task_id. *)
LEMMA EndingCaller ==
  ASSUME TypeOK, CallerInv, NEW c \in Callers,
         TableFull(c) \/ CreateFails(c) \/ StartTimeout(c) \/ SpawnItem(c) \/ ItemFails(c)
           \/ StopEarly(c) \/ ForceStop(c) \/ Forget(c)
  PROVE  CallerInv'
<1> USE SlotFacts, NilFacts, ManagedFacts
<1> DEFINE m == command[c].module
<1>0. Proper(c) /\ m \in Modules
  BY DEF CallerInv, Proper, At, TableFull, CreateFails, StartTimeout, SpawnItem, ItemFails,
         StopEarly, ForceStop, Forget
<1>1. command'[c].pc = "idle" /\ \A d \in Callers \ {c} : command'[d] = command[d]
  BY DoneFacts DEF TableFull, CreateFails, StartTimeout, SpawnItem, ItemFails,
                   StopEarly, ForceStop, Forget, Fail
<1>2. \A n \in Modules \ {m} : desc'[n] = desc[n]
  <2>1. CASE SpawnItem(c)
    <3>1. PICK t \in Fresh : desc' = [desc EXCEPT ![m] = [task_id |-> WorkQueue, object |-> t]]
      BY <2>1 DEF SpawnItem
    <3> QED
      BY <1>0, <3>1 DEF TypeOK
  <2>2. CASE ItemFails(c) \/ ForceStop(c)
    <3>1. desc' = [desc EXCEPT ![m] = [task_id |-> NoTask, object |-> Nil]]
      BY <2>2 DEF ItemFails, ForceStop
    <3> QED
      BY <1>0, <3>1 DEF TypeOK
  <2>3. CASE ~SpawnItem(c) /\ ~ItemFails(c) /\ ~ForceStop(c)
    <3>1. desc' = [desc EXCEPT ![m].task_id = NoTask]
      BY <2>3 DEF TableFull, CreateFails, StartTimeout, StopEarly, Forget, Fail
    <3> QED
      BY <1>0, <3>1 DEF TypeOK
  <2> QED
    BY <2>1, <2>2, <2>3
<1>3. \A r \in Slots : slots'[r].entry = slots[r].entry
  <2>1. CASE CreateFails(c)
    BY <2>1, FreeingKeepsEntries DEF CreateFails
  <2>2. CASE ForceStop(c)
    <3>1. slots' = [s \in Slots |-> IF s = desc[m].task_id
                      THEN [slots[s] EXCEPT !.used = FALSE] ELSE slots[s]]
      BY <2>2 DEF ForceStop
    <3> QED
      BY <3>1 DEF TypeOK, Task
  <2>3. CASE ~CreateFails(c) /\ ~ForceStop(c)
    BY <2>3 DEF TableFull, StartTimeout, SpawnItem, ItemFails, StopEarly, Forget
  <2> QED
    BY <2>1, <2>2, <2>3
<1>4. \A d \in Callers \ {c} : At(d, "create") => slots'[command[d].slot].entry \in Modules
  BY <1>3 DEF CallerInv, Proper, At
<1>5. mutex' # c /\ (mutex' # mutex => {mutex, mutex'} \subseteq {c, Nil})
  <2>1. CASE TableFull(c) \/ CreateFails(c) \/ StartTimeout(c)
    BY <2>1, UnlockFacts DEF TableFull, CreateFails, StartTimeout, Fail
  <2>2. CASE SpawnItem(c) \/ ItemFails(c)
    <3>1. m \in Managed /\ mutex = c
      BY <1>0, <2>2 DEF SpawnItem, ItemFails, Proper, Holding, Starting, At
    <3> QED
      BY <2>2, <3>1 DEF SpawnItem, ItemFails
  <2>3. CASE StopEarly(c) \/ ForceStop(c) \/ Forget(c)
    BY <1>0, <2>3 DEF StopEarly, ForceStop, Forget, Proper, Holding, Starting, At
  <2> QED
    BY <2>1, <2>2, <2>3
<1>6. \/ \A n \in Managed : desc'[n].task_id = desc[n].task_id
      \/ Holding(c) \/ mutex = Nil
  <2>1. CASE m \in Managed
    BY <1>0, <2>1 DEF TableFull, CreateFails, StartTimeout, SpawnItem, ItemFails,
                      StopEarly, ForceStop, Forget, Proper, Holding, Starting, At
  <2>2. CASE m \notin Managed
    BY <1>2, <2>2
  <2> QED
    BY <2>1, <2>2
<1>7. \A n \in Managed : desc'[n].task_id = desc[n].task_id \/ m = n
  BY <1>2
<1> QED
  BY <1>1, <1>4, <1>5, <1>6, <1>7, OwnIdle, OthersCaller DEF CallerInv

LEMMA CommandCaller ==
  ASSUME TypeOK, CallerInv, NEW c \in Callers, Command(c)
  PROVE  CallerInv'
<1> USE SlotFacts, NilFacts, ManagedFacts
<1> DEFINE m == command[c].module
<1>0. Proper(c)
  BY DEF CallerInv
<1>1. CASE NothingToDo(c) \/ Start(c) \/ Search(c) \/ Create(c) \/ Started(c)
             \/ KeepWaiting(c) \/ Stop(c) \/ Patient(c)
  <2>1. UNCHANGED <<slots, desc>>
    BY <1>1 DEF NothingToDo, Start, Search, Create, Started, KeepWaiting, Stop, Patient
  <2> QED
    BY <1>1, <2>1, QuietCaller
<1>2. CASE Claim(c)
  <2>1. /\ command'[c].pc = "create" /\ command'[c].module = m
        /\ command'[c].slot = command[c].slot
        /\ \A d \in Callers \ {c} : command'[d] = command[d]
    BY <1>2, GotoFacts DEF Claim
  <2>2. m \in Modules /\ UNCHANGED <<desc, mutex>> /\ At(c, "claim")
    BY <1>0, <1>2 DEF Claim, Proper, At
  <2>3. Proper(c)'
    BY <1>0, <1>2, <2>1, <2>2, ClaimFacts DEF Proper, Holding, Starting, At, is_running
  <2>4. \A d \in Callers \ {c} : At(d, "create") => slots'[command[d].slot].entry \in Modules
    <3> TAKE d \in Callers \ {c}
    <3>1. At(d, "create") => /\ command[d].slot \in Slots
                             /\ slots[command[d].slot].entry \in Modules
      BY DEF CallerInv, Proper, At
    <3> QED
      BY <1>2, <2>2, <3>1, ClaimFacts
  <2> QED
    BY <2>1, <2>2, <2>3, <2>4, OthersCaller DEF CallerInv
<1>3. CASE Assign(c)
  <2>1. command[c].slot \in Slots /\ m \in Modules /\ At(c, "assign") /\ UNCHANGED slots
    BY <1>0, <1>3 DEF Assign, Proper, At
  <2>2. /\ desc'[m].task_id = command[c].slot
        /\ \A n \in Modules \ {m} : desc'[n] = desc[n]
    BY <1>3, <2>1, DescFacts DEF Assign
  <2>3. \A d \in Callers \ {c} : command'[d] = command[d]
    BY <1>3, DoneFacts, GotoFacts DEF Assign
  <2>4. Proper(c)' /\ (mutex' # mutex => {mutex, mutex'} \subseteq {c, Nil})
    <3>1. CASE Kind[m] = "waited"
      <4>1. /\ command'[c].pc = "wait" /\ command'[c].module = m
            /\ command'[c].slot = command[c].slot /\ mutex' = mutex
        BY <1>3, <3>1, GotoFacts DEF Assign
      <4> QED
        BY <1>0, <2>1, <2>2, <3>1, <4>1 DEF Proper, Holding, Starting, At, is_running
    <3>2. CASE Kind[m] # "waited"
      BY <1>3, <3>2, DoneFacts, UnlockFacts, OwnIdle DEF Assign
    <3> QED
      BY <3>1, <3>2
  <2>5. \A d \in Callers \ {c} : At(d, "create") => slots'[command[d].slot].entry \in Modules
    BY <2>1 DEF CallerInv, Proper, At
  <2>6. m \in Managed => Holding(c)
    BY <2>1 DEF Holding, Starting, At
  <2> QED
    BY <2>2, <2>3, <2>4, <2>5, <2>6, OthersCaller DEF CallerInv
<1>4. CASE StopDirect(c)
  <2>1. /\ command'[c].pc = "forget" /\ command'[c].module = m
        /\ \A d \in Callers \ {c} : command'[d] = command[d]
    BY <1>4, GotoFacts DEF StopDirect
  <2>2. UNCHANGED <<desc, mutex>> /\ mutex # c /\ m \in Modules \ Managed
    BY <1>0, <1>4 DEF StopDirect, Proper, Holding, Starting, At
  <2>3. \A r \in Slots : slots'[r].entry = slots[r].entry
    BY <1>4, FreeingKeepsEntries DEF StopDirect
  <2>4. \A d \in Callers \ {c} : At(d, "create") => slots'[command[d].slot].entry \in Modules
    BY <2>3 DEF CallerInv, Proper, At
  <2>5. Proper(c)'
    BY <2>1, <2>2 DEF Proper, Holding, Starting, At
  <2> QED
    BY <2>1, <2>2, <2>4, <2>5, OthersCaller DEF CallerInv
<1> QED
  BY <1>1, <1>2, <1>3, <1>4, EndingCaller DEF Command

LEMMA InstanceCaller ==
  ASSUME TypeOK, ShapeInv, CallerInv, NEW t \in Instances, Instance(t)
  PROVE  CallerInv'
<1> USE SlotFacts, NilFacts, ManagedFacts
<1>1. CASE Begin(t) \/ Finish(t)
  BY <1>1 DEF Begin, Finish, CallerInv, Proper, Holding, At, is_running
<1>2. CASE Instantiate(t) \/ InstantiateFails(t)
  <2>1. module[t] \in Modules
    BY <1>2 DEF ShapeInv, Instantiate, InstantiateFails
  <2>2. \A m \in Modules : desc'[m].task_id = desc[m].task_id
    BY <1>2, <2>1, DescFacts DEF Instantiate, InstantiateFails
  <2> QED
    BY <1>2, <2>2 DEF Instantiate, InstantiateFails, CallerInv, Proper, Holding, At, is_running
<1>3. CASE CleanUp(t)
  <2>1. mutex = Nil /\ UNCHANGED <<slots, mutex, command>>
    BY <1>3 DEF CleanUp
  <2>2. \A d \in Callers : ~Holding(d)
    BY <2>1, OneHolder
  <2> QED
    BY <2>1, <2>2 DEF CallerInv, Proper, Holding, At
<1>4. CASE Return(t)
  <2>1. \A r \in Slots : slots'[r].entry = slots[r].entry
    BY <1>4, FreeingKeepsEntries DEF Return
  <2> QED
    BY <1>4, <2>1 DEF Return, CallerInv, Proper, Holding, At, is_running
<1> QED
  BY <1>1, <1>2, <1>3, <1>4 DEF Instance

LEMMA CallCaller ==
  ASSUME TypeOK, CallerInv, NEW c \in Callers, NEW m \in Modules,
         NEW pc \in {"start", "stop"}, Call(c, pc, m)
  PROVE  CallerInv'
<1>1. /\ command'[c].pc = pc /\ command'[c].module = m
      /\ \A d \in Callers \ {c} : command'[d] = command[d]
  BY DEF TypeOK, Commanding, Call, Idle
<1>2. UNCHANGED <<slots, desc, mutex>> /\ mutex # c
  BY DEF Call, CallerInv, Proper, Holding, Starting, At
<1>3. Proper(c)'
  BY <1>1, <1>2, NilFacts DEF Proper, Holding, Starting, At
<1>4. \A d \in Callers \ {c} : At(d, "create") => slots'[command[d].slot].entry \in Modules
  BY <1>2 DEF CallerInv, Proper, At
<1> QED
  BY <1>1, <1>2, <1>3, <1>4, OthersCaller DEF CallerInv

-----------------------------------------------------------------------------
(* The shape of an instance.                                               *)

LEMMA EndFacts ==
  ASSUME NEW T, End(T), NEW t \in Instances
  PROVE  /\ t \in T => phase'[t] = "ended" /\ place'[t] = NoTask /\ module'[t] = Nil
         /\ t \notin T => /\ phase'[t] = phase[t] /\ place'[t] = place[t]
                         /\ module'[t] = module[t]
BY DEF End

LEMMA LeaveFacts ==
  ASSUME TypeOK, NEW t \in Instances, Leave(t)
  PROVE  /\ place[t] = WorkQueue => End({t} \cup Dequeued(module[t]))
         /\ place[t] # WorkQueue =>
              /\ phase'[t] = "return" /\ place'[t] = place[t] /\ module'[t] = module[t]
              /\ \A u \in Instances \ {t} :
                   phase'[u] = phase[u] /\ place'[u] = place[u] /\ module'[u] = module[u]
BY DEF TypeOK, Leave

LEMMA CommandShape ==
  ASSUME TypeOK, CallerInv, ShapeInv, NEW c \in Callers, Command(c)
  PROVE  ShapeInv'
<1> USE SlotFacts, NilFacts DEF instances
<1>1. CASE UNCHANGED <<slots, instances>>
  BY <1>1 DEF ShapeInv
<1>2. CASE Claim(c)
  <2>1. command[c].module \in Modules /\ UNCHANGED instances
    BY <1>2 DEF CallerInv, Proper, Claim, At
  <2>2. \A r \in Slots : slots[r].entry \in Modules => slots'[r].entry \in Modules
    BY <1>2, <2>1, ClaimFacts
  <2> QED
    BY <2>1, <2>2 DEF ShapeInv
<1>3. CASE Create(c)
  <2>1. PICK t \in Fresh :
          /\ phase' = [phase EXCEPT ![t] = "created"]
          /\ place' = [place EXCEPT ![t] = command[c].slot]
    BY <1>3 DEF Create
  <2>2. UNCHANGED <<slots, module>> /\ command[c].slot \in Slots
        /\ slots[command[c].slot].entry \in Modules
    BY <1>3 DEF CallerInv, Proper, Create, At
  <2>3. t \in Instances /\ phase[t] = "none"
    BY FreshFacts
  <2> QED
    BY <2>1, <2>2, <2>3 DEF ShapeInv, TypeOK
<1>4. CASE CreateFails(c)
  BY <1>4, FreeingKeepsEntries DEF CreateFails, ShapeInv
<1>5. CASE SpawnItem(c)
  <2>1. PICK t \in Fresh :
          /\ phase' = [phase EXCEPT ![t] = "run"]
          /\ place' = [place EXCEPT ![t] = WorkQueue]
          /\ module' = [module EXCEPT ![t] = command[c].module]
    BY <1>5 DEF SpawnItem
  <2>2. UNCHANGED slots /\ command[c].module \in Managed
    BY <1>5, ManagedFacts DEF CallerInv, Proper, SpawnItem, At
  <2>3. t \in Instances
    BY FreshFacts
  <2> QED
    BY <2>1, <2>2, <2>3, ManagedFacts DEF ShapeInv, TypeOK
<1>6. CASE ForceStop(c)
  <2>1. PICK gone : End(gone)
    BY <1>6 DEF ForceStop
  <2>2. slots' = [s \in Slots |-> IF s = desc[command[c].module].task_id
                    THEN [slots[s] EXCEPT !.used = FALSE] ELSE slots[s]]
    BY <1>6 DEF ForceStop
  <2>3. \A r \in Slots : slots'[r].entry = slots[r].entry
    BY <2>2 DEF TypeOK, Task
  <2> QED
    BY <2>1, <2>3, EndFacts DEF ShapeInv
<1>7. CASE StopDirect(c)
  BY <1>7, FreeingKeepsEntries DEF StopDirect, ShapeInv
<1> QED
  BY <1>1, <1>2, <1>3, <1>4, <1>5, <1>6, <1>7
  DEF Command, NothingToDo, Start, Search, TableFull, Assign, Forget, Started, KeepWaiting, StartTimeout,
      ItemFails, Stop, StopEarly, Patient

LEMMA InstanceShape ==
  ASSUME TypeOK, ShapeInv, NEW t \in Instances, Instance(t)
  PROVE  ShapeInv'
<1> USE SlotFacts, NilFacts, ManagedFacts
<1>1. CASE Begin(t)
  BY <1>1 DEF Begin, ShapeInv, TypeOK
<1>2. CASE Instantiate(t) \/ InstantiateFails(t) \/ Finish(t)
  BY <1>2 DEF Instantiate, InstantiateFails, Finish, ShapeInv, TypeOK
<1>3. CASE CleanUp(t)
  <2>1. Leave(t) /\ UNCHANGED slots /\ phase[t] = "cleanup"
    BY <1>3 DEF CleanUp
  <2>2. CASE place[t] = WorkQueue
    <3>1. PICK T : End(T)
      BY <2>1, <2>2, LeaveFacts
    <3> QED
      BY <2>1, <3>1, EndFacts DEF ShapeInv
  <2>3. CASE place[t] # WorkQueue
    <3>1. /\ phase'[t] = "return" /\ place'[t] = place[t] /\ module'[t] = module[t]
          /\ \A u \in Instances \ {t} :
               phase'[u] = phase[u] /\ place'[u] = place[u] /\ module'[u] = module[u]
      BY <2>1, <2>3, LeaveFacts
    <3> QED
      BY <2>1, <2>3, <3>1 DEF ShapeInv
  <2> QED
    BY <2>2, <2>3
<1>4. CASE Return(t)
  <2>1. \A r \in Slots : slots'[r].entry = slots[r].entry
    BY <1>4, FreeingKeepsEntries DEF ShapeInv, Return
  <2> QED
    BY <1>4, <2>1, EndFacts DEF Return, ShapeInv
<1> QED
  BY <1>1, <1>2, <1>3, <1>4 DEF Instance

-----------------------------------------------------------------------------
(* Objects.                                                                *)

LEMMA CommandObject ==
  ASSUME TypeOK, CallerInv, ObjectInv, NEW c \in Callers, Command(c)
  PROVE  ObjectInv'
<1> USE NilFacts DEF ObjectInv, NoDangling, instances, history
<1> DEFINE m == command[c].module
<1>0. ~At(c, "idle") => m \in Modules
  BY DEF CallerInv, Proper
<1>1. CASE UNCHANGED <<phase, desc, deleted>>
  BY <1>1
<1>2. CASE TableFull(c) \/ CreateFails(c) \/ Assign(c) \/ StartTimeout(c) \/ StopEarly(c)
             \/ Forget(c)
  <2>1. m \in Modules
    BY <1>0, <1>2 DEF TableFull, CreateFails, Assign, StartTimeout, StopEarly, Forget, At
  <2>2. UNCHANGED <<phase, deleted>>
    BY <1>2 DEF TableFull, CreateFails, Assign, StartTimeout, StopEarly, Forget
  <2>3. \A n \in Modules : desc'[n].object = desc[n].object
    <3>1. PICK id : desc' = [desc EXCEPT ![m].task_id = id]
      BY <1>2 DEF TableFull, CreateFails, Assign, StartTimeout, StopEarly, Forget, Fail
    <3> QED
      BY <2>1, <3>1, DescFacts
  <2> QED
    BY <2>2, <2>3
<1>3. CASE Create(c)
  <2>1. \A t \in Instances : phase'[t] \in {"none", "created", "instantiate"} =>
          phase[t] \in {"none", "created", "instantiate"}
    BY <1>3, FreshFacts DEF Create, TypeOK
  <2> QED
    BY <1>3, <2>1 DEF Create
<1>4. CASE SpawnItem(c)
  <2>1. PICK t \in Fresh :
          /\ phase' = [phase EXCEPT ![t] = "run"]
          /\ desc' = [desc EXCEPT ![m] = [task_id |-> WorkQueue, object |-> t]]
    BY <1>4 DEF SpawnItem
  <2>2. m \in Modules /\ UNCHANGED deleted
    BY <1>0, <1>4 DEF SpawnItem, At
  <2>3. t \in Instances /\ phase[t] = "none"
    BY FreshFacts
  <2>4. desc'[m].object = t /\ \A n \in Modules \ {m} : desc'[n] = desc[n]
    BY <2>1, <2>2 DEF TypeOK
  <2> QED
    BY <2>1, <2>2, <2>3, <2>4 DEF TypeOK
<1>5. CASE ItemFails(c)
  <2>1. m \in Modules /\ UNCHANGED <<phase, deleted>>
    BY <1>0, <1>5 DEF ItemFails, At
  <2>2. desc'[m].object = Nil /\ \A n \in Modules \ {m} : desc'[n] = desc[n]
    BY <1>5, <2>1 DEF ItemFails, TypeOK
  <2> QED
    BY <2>1, <2>2 DEF TypeOK
<1>6. CASE ForceStop(c)
  <2>1. m \in Modules /\ Delete(m) /\ \E gone : End(gone)
    BY <1>0, <1>6 DEF ForceStop, At
  <2>2. desc'[m].object = Nil /\ \A n \in Modules \ {m} : desc'[n] = desc[n]
    BY <1>6, <2>1 DEF ForceStop, TypeOK
  <2>3. deleted' = deleted \cup ({desc[m].object} \ {Nil})
    BY <2>1 DEF Delete
  <2>4. \A t \in Instances : phase'[t] \in {"none", "created", "instantiate"} =>
          phase[t] \in {"none", "created", "instantiate"}
    BY <2>1, EndFacts
  <2> QED
    BY <2>1, <2>2, <2>3, <2>4 DEF TypeOK
<1> QED
  BY <1>1, <1>2, <1>3, <1>4, <1>5, <1>6
  DEF Command, NothingToDo, Start, Search, Claim, Started, KeepWaiting, Stop, Patient, StopDirect

LEMMA InstanceObject ==
  ASSUME TypeOK, ShapeInv, ObjectInv, NEW t \in Instances, Instance(t)
  PROVE  ObjectInv'
<1> USE NilFacts DEF ObjectInv, NoDangling, history
<1> DEFINE m == module[t]
<1>0. phase[t] \in {"instantiate", "run", "cleanup"} => m \in Modules
  BY ManagedFacts DEF ShapeInv
<1>1. CASE Begin(t) \/ Finish(t)
  BY <1>1 DEF Begin, Finish, TypeOK
<1>2. CASE Instantiate(t)
  <2>1. desc'[m].object = t /\ \A n \in Modules \ {m} : desc'[n] = desc[n]
    BY <1>0, <1>2 DEF Instantiate, TypeOK, Descriptor
  <2> QED
    BY <1>0, <1>2, <2>1 DEF Instantiate, TypeOK
<1>3. CASE InstantiateFails(t)
  <2>1. desc'[m].object = Nil /\ \A n \in Modules \ {m} : desc'[n] = desc[n]
    BY <1>0, <1>3 DEF InstantiateFails, TypeOK, Descriptor
  <2> QED
    BY <1>0, <1>3, <2>1 DEF InstantiateFails, TypeOK
<1>4. CASE CleanUp(t)
  <2>1. m \in Modules /\ Leave(t) /\ phase[t] = "cleanup"
    BY <1>0, <1>4 DEF CleanUp
  <2>2. desc'[m].object = Nil /\ \A n \in Modules \ {m} : desc'[n] = desc[n]
    BY <1>4, <2>1 DEF CleanUp, TypeOK
  <2>3. deleted' = deleted \cup ({desc[m].object} \ {Nil})
    BY <1>4 DEF CleanUp, Delete
  <2>4. \A u \in Instances : phase'[u] \in {"none", "created", "instantiate"} =>
          phase[u] \in {"none", "created", "instantiate"}
    BY <2>1, LeaveFacts, EndFacts
  <2> QED
    BY <2>1, <2>2, <2>3, <2>4 DEF TypeOK
<1>5. CASE Return(t)
  BY <1>5, EndFacts DEF Return
<1> QED
  BY <1>1, <1>2, <1>3, <1>4, <1>5 DEF Instance

-----------------------------------------------------------------------------
(* One user of a slot, one instance of a module.                           *)

(* A module that is not running, while nobody has just made an instance of *)
(* it, has none.                                                           *)
LEMMA NoneAlive ==
  ASSUME ShapeInv, LinkInv, NEW m \in Managed, ~is_running(m),
         \A d \in Callers : Assigning(d) => command[d].module # m
  PROVE  Alive(m) = {}
<1> SUFFICES ASSUME NEW t \in Alive(m) PROVE FALSE
  OBVIOUS
<1>1. place[t] \in Slots \cup {WorkQueue}
  BY DEF Alive, Live, ShapeInv
<1>2. desc[m].task_id = place[t]
  BY DEF LinkInv
<1> QED
  BY <1>1, <1>2, SlotFacts DEF is_running

(* One that is has an instance for its task_id to stand for.               *)
LEMMA SomeOf ==
  ASSUME ShapeInv, OwnInv, NEW m \in Managed, is_running(m)
  PROVE  \E t \in Of(m) : phase[t] # "return" /\ t \in Alive(m)
<1>1. PICK t \in Alive(m) : place[t] = desc[m].task_id
  BY DEF OwnInv
<1>2. module[t] \in {m, Nil}
  BY DEF Alive, Mod, ShapeInv
<1> QED
  BY <1>1, <1>2 DEF Of, InSlot, Alive

(* One user of a slot.                                                     *)

Same(d) == /\ command'[d].pc = command[d].pc /\ command'[d].slot = command[d].slot
           /\ command'[d].module = command[d].module

Stays(t) == \A s \in Slots : phase'[t] \in Live /\ place'[t] = s
                               <=> phase[t] \in Live /\ place[t] = s

Aside(d) == \/ Same(d)
            \/ command'[d].pc \notin {"spawn", "claim", "create"} /\ ~At(d, "create")

(* A step that neither searches the table nor begins or ends to use it.    *)
LEMMA SlotsKept ==
  ASSUME SlotPart, UNCHANGED slots, \A t \in Instances : Stays(t), \A d \in Callers : Aside(d)
  PROVE  SlotPart'
<1>1. \A s \in Slots : Users(s)' = Users(s)
  BY DEF Users, InSlot, At, Aside, Same, Stays
<1>2. OneThreadPerSlot'
  BY <1>1 DEF SlotPart, OneThreadPerSlot
<1>3. SearchInv'
  BY DEF SlotPart, SearchInv, Searching, At, Aside, Same
<1>4. FoundInv' /\ EntryInv'
  BY DEF SlotPart, FoundInv, EntryInv, At, Aside, Same
<1> QED
  BY <1>2, <1>3, <1>4 DEF SlotPart

(* Who begins to search meets another one only if raced records it.        *)
LEMMA StartSlots ==
  ASSUME TypeOK, CallerInv, SlotPart, NEW c \in Callers, Start(c), ~raced'
  PROVE  SlotPart'
<1>1. UNCHANGED <<slots, instances>> /\ At(c, "start") /\ ~Races(c)
  BY DEF Start
<1>2. /\ command'[c].pc = "spawn" /\ command'[c].module = command[c].module
      /\ \A d \in Callers \ {c} : command'[d] = command[d]
  BY GotoFacts DEF Start
<1>3. OneThreadPerSlot'
  BY <1>1, <1>2 DEF SlotPart, OneThreadPerSlot, Users, InSlot, At, instances
<1>4. SearchInv'
  <2>1. CASE Kind[command[c].module] = "queue"
    BY <1>1, <1>2, <2>1 DEF SlotPart, SearchInv, Searching, At
  <2>2. CASE Kind[command[c].module] # "queue"
    <3>1. ASSUME NEW d \in Searching PROVE FALSE
      <4>1. command[c].module \in Modules /\ command[d].module \in Modules
        BY <1>1, <3>1 DEF CallerInv, Proper, At, Searching
      <4>2. command[c].module \in Managed /\ command[d].module \in Managed
        BY <1>1, <2>2, <3>1, <4>1 DEF Races, Managed
      <4>3. Holding(d) /\ mutex = Nil
        BY <3>1, <4>2 DEF Start, Searching, Holding, Starting, At
      <4> QED
        BY <3>1, <4>3, OneHolder DEF Searching
    <3> QED
      BY <1>2, <3>1 DEF SearchInv, Searching, At
  <2> QED
    BY <2>1, <2>2
<1>5. FoundInv' /\ EntryInv'
  BY <1>1, <1>2 DEF SlotPart, FoundInv, EntryInv, At
<1> QED
  BY <1>3, <1>4, <1>5 DEF SlotPart

LEMMA SearchSlots ==
  ASSUME TypeOK, SlotPart, NEW c \in Callers, Search(c)
  PROVE  SlotPart'
<1>1. UNCHANGED <<slots, instances>> /\ At(c, "spawn") /\ Kind[command[c].module] # "queue"
  BY DEF Search
<1>2. /\ command'[c].pc \in {"spawn", "claim"} /\ command'[c].module = command[c].module
      /\ command'[c].pc = "claim" => ~slots[command'[c].slot].used
      /\ \A d \in Callers \ {c} : command'[d] = command[d]
  BY SearchFacts
<1>3. OneThreadPerSlot'
  BY <1>1, <1>2 DEF SlotPart, OneThreadPerSlot, Users, InSlot, At, instances
<1>4. SearchInv' /\ FoundInv' /\ EntryInv'
  BY <1>1, <1>2 DEF SlotPart, SearchInv, Searching, FoundInv, EntryInv, At
<1> QED
  BY <1>3, <1>4 DEF SlotPart

(* What is claimed had no user, and nobody else had found it.              *)
LEMMA ClaimSlots ==
  ASSUME TypeOK, CallerInv, SlotPart, NEW c \in Callers, Claim(c)
  PROVE  SlotPart' /\ Users(command[c].slot) = {}
<1> DEFINE s == command[c].slot
<1>1. UNCHANGED <<instances>> /\ At(c, "claim") /\ Kind[command[c].module] # "queue"
  BY DEF Claim, CallerInv, Proper, At
<1>2. /\ s \in Slots /\ slots'[s].used = TRUE /\ slots'[s].entry = command[c].module
      /\ \A r \in Slots \ {s} : slots'[r] = slots[r]
  BY ClaimFacts
<1>3. /\ command'[c].pc = "create" /\ command'[c].module = command[c].module
      /\ command'[c].slot = s
      /\ \A d \in Callers \ {c} : command'[d] = command[d]
  BY GotoFacts DEF Claim
<1>4. Users(s) = {}
  BY <1>1, <1>2 DEF SlotPart, FoundInv, OneThreadPerSlot
<1>5. \A r \in Slots : Users(r)' = IF r = s THEN {c} ELSE Users(r)
  BY <1>1, <1>2, <1>3, <1>4 DEF Users, InSlot, At, instances
<1>6. OneThreadPerSlot'
  BY <1>2, <1>5 DEF SlotPart, OneThreadPerSlot
<1>7. \A d \in Callers \ {c} : ~At(d, "claim")
  BY <1>1 DEF SlotPart, SearchInv, Searching, CallerInv, Proper, At
<1>8. SearchInv' /\ FoundInv'
  BY <1>1, <1>3, <1>7 DEF SlotPart, SearchInv, Searching, FoundInv, At
<1>9. EntryInv'
  <2>1. ASSUME NEW d \in Callers \ {c}, At(d, "create") PROVE command[d].slot \in Slots \ {s}
    BY <1>4, <2>1 DEF CallerInv, Proper, At, Users
  <2> QED
    BY <1>2, <1>3, <2>1 DEF SlotPart, EntryInv, At
<1> QED
  BY <1>4, <1>6, <1>8, <1>9 DEF SlotPart

(* The thread takes the place of the caller that creates it.               *)
LEMMA CreateSlots ==
  ASSUME TypeOK, CallerInv, SlotPart, NEW c \in Callers, Create(c)
  PROVE  SlotPart'
<1> DEFINE s == command[c].slot
<1>1. s \in Slots /\ At(c, "create") /\ UNCHANGED slots
  BY DEF Create, CallerInv, Proper, At
<1>2. PICK t \in Fresh : phase' = [phase EXCEPT ![t] = "created"] /\ place' = [place EXCEPT ![t] = s]
  BY DEF Create
<1>3. /\ t \in Instances /\ phase[t] = "none" /\ phase'[t] = "created" /\ place'[t] = s
      /\ \A u \in Instances \ {t} : phase'[u] = phase[u] /\ place'[u] = place[u]
  BY <1>2, FreshFacts DEF TypeOK
<1>4. /\ command'[c].pc = "assign"
      /\ \A d \in Callers \ {c} : command'[d] = command[d]
  BY GotoFacts DEF Create
<1>5. c \in Users(s) /\ \A x \in Users(s) : x = c
  BY <1>1 DEF SlotPart, OneThreadPerSlot, Users
<1>6. c \notin Instances
  BY TaskLayerAssumption
<1>7. InSlot(s) = {} /\ \A d \in Callers \ {c} : ~(At(d, "create") /\ command[d].slot = s)
  BY <1>5, <1>6 DEF Users, InSlot
<1>8. \A r \in Slots : InSlot(r)' = IF r = s THEN {t} ELSE InSlot(r)
  BY <1>3, <1>7 DEF InSlot, Live
<1>9. \A r \in Slots : Users(r)' = IF r = s THEN {t} ELSE Users(r)
  BY <1>1, <1>4, <1>7, <1>8 DEF Users, At
<1>10. OneThreadPerSlot'
  BY <1>1, <1>5, <1>9 DEF SlotPart, OneThreadPerSlot
<1>11. SearchInv' /\ FoundInv' /\ EntryInv'
  BY <1>1, <1>4 DEF SlotPart, SearchInv, Searching, FoundInv, EntryInv, At
<1> QED
  BY <1>10, <1>11 DEF SlotPart

LEMMA CreateFailsSlots ==
  ASSUME TypeOK, CallerInv, SlotPart, NEW c \in Callers, CreateFails(c)
  PROVE  SlotPart'
<1> DEFINE s == command[c].slot
<1>1. s \in Slots /\ At(c, "create") /\ UNCHANGED instances
  BY DEF CreateFails, CallerInv, Proper, At
<1>2. /\ slots'[s].used = FALSE /\ \A r \in Slots \ {s} : slots'[r] = slots[r]
      /\ \A r \in Slots : slots'[r].entry = slots[r].entry
  BY <1>1, FreeingKeepsEntries DEF CreateFails
<1>3. command'[c].pc = "idle" /\ \A d \in Callers \ {c} : command'[d] = command[d]
  BY DoneFacts DEF CreateFails, Fail
<1>4. c \in Users(s) /\ \A x \in Users(s) : x = c
  BY <1>1 DEF SlotPart, OneThreadPerSlot, Users
<1>5. InSlot(s) = {}
  BY <1>4, TaskLayerAssumption DEF Users, InSlot
<1>6. \A d \in Callers \ {c} : ~(At(d, "create") /\ command[d].slot = s)
  BY <1>4 DEF Users
<1>7. \A r \in Slots : Users(r)' = IF r = s THEN {} ELSE Users(r)
  BY <1>1, <1>3, <1>5, <1>6 DEF Users, InSlot, At, instances
<1>8. OneThreadPerSlot'
  BY <1>2, <1>7 DEF SlotPart, OneThreadPerSlot
<1>9. SearchInv' /\ EntryInv'
  BY <1>2, <1>3 DEF SlotPart, SearchInv, Searching, EntryInv, CallerInv, Proper, At
<1>10. FoundInv'
  <2>1. \A d \in Callers : At(d, "claim") => command[d].slot \in Slots
    BY DEF CallerInv, Proper, At
  <2> QED
    BY <1>2, <1>3, <2>1 DEF SlotPart, FoundInv, At
<1> QED
  BY <1>8, <1>9, <1>10 DEF SlotPart

(* A direct module is stopped without harm if its slot has no user.        *)
LEMMA StopDirectSlots ==
  ASSUME TypeOK, SlotPart, NEW c \in Callers, StopDirect(c), ~left'
  PROVE  SlotPart' /\ UNCHANGED slots
<1> DEFINE id == desc[command[c].module].task_id
<1>1. Users(id) = {} /\ slots' = [slots EXCEPT ![id].used = FALSE] /\ UNCHANGED instances
  BY DEF StopDirect
<1>2. UNCHANGED slots
  <2>1. id \in Slots => slots[id].used = FALSE
    BY <1>1 DEF SlotPart, OneThreadPerSlot, TypeOK, Task
  <2> QED
    BY <1>1, <2>1 DEF TypeOK, Task
<1>3. /\ command'[c].pc = "forget" /\ ~At(c, "create")
      /\ \A d \in Callers \ {c} : command'[d] = command[d]
  BY GotoFacts DEF StopDirect, At
<1>4. (\A t \in Instances : Stays(t)) /\ \A d \in Callers : Aside(d)
  BY <1>1, <1>3 DEF Stays, instances, Aside, Same
<1> QED
  BY <1>2, <1>4, SlotsKept

(* A forced stop that leaves nobody behind is that of an item in its queue.*)
LEMMA ForceStopFacts ==
  ASSUME TypeOK, ShapeInv, CallerInv, InstPart, NEW c \in Callers, ForceStop(c), ~left'
  PROVE  \E t \in Instances :
           /\ End({t}) /\ Alive(command[c].module) = {t}
           /\ place[t] = WorkQueue /\ desc[command[c].module].object = t
           /\ phase[t] = "run" /\ UNCHANGED slots
<1> DEFINE m == command[c].module
<1>1. m \in Managed /\ is_running(m)
  BY DEF ForceStop, CallerInv, Proper, At
<1>2. PICK gone \in SUBSET Dequeued(m) : End(gone) /\ Of(m) \subseteq gone
  BY DEF ForceStop
<1>3. PICK t \in Of(m) : t \in Alive(m)
  BY <1>1, SomeOf DEF InstPart
<1>4. Alive(m) = {t}
  BY <1>1, <1>3 DEF InstPart, OneInv
<1>5. /\ t \in Instances /\ t \in gone /\ t \in Dequeued(m) /\ place[t] = WorkQueue
      /\ desc[m].object = t /\ desc[m].task_id = WorkQueue /\ phase[t] = "run"
  BY <1>2, <1>3 DEF Dequeued, Of, InSlot
<1>6. gone = {t}
  BY <1>2, <1>5 DEF Dequeued
<1>7. UNCHANGED slots
  <2>1. slots' = [s \in Slots |-> IF s = desc[m].task_id
                    THEN [slots[s] EXCEPT !.used = FALSE] ELSE slots[s]]
    BY DEF ForceStop
  <2> QED
    BY <1>5, <2>1, SlotFacts DEF TypeOK
<1> QED
  BY <1>2, <1>4, <1>5, <1>6, <1>7

LEMMA CommandSlots ==
  ASSUME TypeOK, ShapeInv, CallerInv, SlotPart, InstPart, NEW c \in Callers, Command(c),
         ~left', ~raced'
  PROVE  SlotPart'
<1>1. CASE NothingToDo(c) \/ TableFull(c) \/ Assign(c) \/ Started(c) \/ KeepWaiting(c)
             \/ ItemFails(c) \/ Stop(c) \/ Patient(c) \/ Forget(c) \/ StartTimeout(c)
             \/ StopEarly(c)
  <2>1. UNCHANGED <<slots, instances>>
    BY <1>1 DEF NothingToDo, TableFull, Assign, Started, KeepWaiting, ItemFails, Stop,
                Patient, Forget, StartTimeout, StopEarly
  <2>2. /\ command'[c].pc \notin {"spawn", "claim", "create"} /\ ~At(c, "create")
        /\ \A d \in Callers \ {c} : command'[d] = command[d]
    <3>1. CASE NothingToDo(c) \/ TableFull(c) \/ Started(c) \/ ItemFails(c) \/ Forget(c)
                 \/ StartTimeout(c) \/ StopEarly(c)
      BY <3>1, DoneFacts DEF NothingToDo, TableFull, Started, ItemFails, Forget,
                             StartTimeout, StopEarly, Fail, At
    <3>2. CASE KeepWaiting(c) \/ Patient(c)
      BY <3>2, TriesFacts DEF KeepWaiting, Patient, At
    <3>3. CASE Assign(c) \/ Stop(c)
      BY <3>3, DoneFacts, GotoFacts DEF Assign, Stop, At
    <3> QED
      BY <1>1, <3>1, <3>2, <3>3
  <2>3. \A d \in Callers : Aside(d)
    BY <2>2 DEF Aside, Same
  <2>4. UNCHANGED slots /\ \A u \in Instances : Stays(u)
    BY <2>1 DEF Stays, instances
  <2> QED
    BY <2>3, <2>4, SlotsKept
<1>2. CASE SpawnItem(c)
  <2>1. PICK t \in Fresh :
          /\ phase' = [phase EXCEPT ![t] = "run"]
          /\ place' = [place EXCEPT ![t] = WorkQueue]
    BY <1>2 DEF SpawnItem
  <2>2. \A u \in Instances : Stays(u)
    BY <2>1, FreshFacts, SlotFacts DEF Stays, Live, TypeOK
  <2>3. /\ command'[c].pc = "idle" /\ ~At(c, "create") /\ UNCHANGED slots
        /\ \A d \in Callers \ {c} : command'[d] = command[d]
    BY <1>2, DoneFacts DEF SpawnItem, At
  <2>4. \A d \in Callers : Aside(d)
    BY <2>3 DEF Aside, Same
  <2> QED
    BY <2>2, <2>3, <2>4, SlotsKept
<1>3. CASE ForceStop(c)
  <2>1. PICK t \in Instances : End({t}) /\ place[t] = WorkQueue /\ UNCHANGED slots
    BY <1>3, ForceStopFacts
  <2>2. \A u \in Instances : Stays(u)
    BY <2>1, EndFacts, SlotFacts DEF Stays, Live
  <2>3. /\ command'[c].pc = "idle" /\ ~At(c, "create")
        /\ \A d \in Callers \ {c} : command'[d] = command[d]
    BY <1>3, DoneFacts DEF ForceStop, At
  <2>4. \A d \in Callers : Aside(d)
    BY <2>3 DEF Aside, Same
  <2> QED
    BY <2>1, <2>2, <2>4, SlotsKept
<1> QED
  BY <1>1, <1>2, <1>3, StartSlots, SearchSlots, ClaimSlots, CreateSlots, CreateFailsSlots,
     StopDirectSlots DEF Command

LEMMA InstanceSlots ==
  ASSUME TypeOK, ShapeInv, CallerInv, SlotPart, NEW t \in Instances, Instance(t)
  PROVE  SlotPart'
<1>1. UNCHANGED command
  BY DEF Instance, Begin, Instantiate, InstantiateFails, Finish, CleanUp, Return
<1>5. \A d \in Callers : Aside(d)
  BY <1>1 DEF Aside, Same
<1>2. CASE Begin(t) \/ Instantiate(t) \/ InstantiateFails(t) \/ Finish(t)
  <2>1. UNCHANGED <<slots, place>> /\ phase[t] \in Live /\ phase'[t] \in Live
        /\ \A u \in Instances \ {t} : phase'[u] = phase[u]
    BY <1>2 DEF Begin, Instantiate, InstantiateFails, Finish, Live, TypeOK
  <2>2. \A u \in Instances : Stays(u)
    BY <2>1 DEF Stays
  <2> QED
    BY <1>5, <2>1, <2>2, SlotsKept
<1>3. CASE CleanUp(t)
  <2>1. UNCHANGED slots /\ phase[t] = "cleanup" /\ Leave(t)
    BY <1>3 DEF CleanUp
  <2>2. \A u \in Instances : Stays(u)
    <3>1. CASE place[t] = WorkQueue
      <4>1. End({t} \cup Dequeued(module[t]))
        BY <2>1, <3>1, LeaveFacts
      <4>2. \A u \in {t} \cup Dequeued(module[t]) : place[u] = WorkQueue
        BY <3>1 DEF Dequeued
      <4> QED
        BY <4>1, <4>2, EndFacts, SlotFacts DEF Stays, Live
    <3>2. CASE place[t] # WorkQueue
      <4>1. /\ phase'[t] = "return" /\ place'[t] = place[t]
            /\ \A u \in Instances \ {t} : phase'[u] = phase[u] /\ place'[u] = place[u]
        BY <2>1, <3>2, LeaveFacts
      <4> QED
        BY <2>1, <4>1 DEF Stays, Live
    <3> QED
      BY <3>1, <3>2
  <2> QED
    BY <1>5, <2>1, <2>2, SlotsKept
<1>4. CASE Return(t)
  <2> DEFINE s == place[t]
  <2>1. s \in Slots /\ phase[t] = "return" /\ End({t})
    BY <1>4 DEF Return, ShapeInv
  <2>2. /\ slots'[s].used = FALSE /\ \A r \in Slots \ {s} : slots'[r] = slots[r]
        /\ \A r \in Slots : slots'[r].entry = slots[r].entry
    BY <1>4, <2>1, FreeingKeepsEntries DEF Return
  <2>3. t \in InSlot(s) /\ Users(s) = {t}
    BY <2>1 DEF SlotPart, OneThreadPerSlot, Users, InSlot, Live
  <2>4. /\ phase'[t] = "ended"
        /\ \A u \in Instances \ {t} : phase'[u] = phase[u] /\ place'[u] = place[u]
    BY <2>1, EndFacts
  <2>5. InSlot(s) = {t}
    BY <2>3 DEF Users
  <2>6. \A r \in Slots : InSlot(r)' = IF r = s THEN {} ELSE InSlot(r)
    BY <2>4, <2>5 DEF InSlot, Live
  <2>7. \A d \in Callers : ~(At(d, "create") /\ command[d].slot = s)
    BY <2>1, <2>3, TaskLayerAssumption DEF Users
  <2>8. \A r \in Slots : Users(r)' = IF r = s THEN {} ELSE Users(r)
    BY <1>1, <2>6, <2>7 DEF Users, At
  <2>9. OneThreadPerSlot'
    BY <2>2, <2>8 DEF SlotPart, OneThreadPerSlot
  <2>10. SearchInv'
    BY <1>1 DEF SlotPart, SearchInv, Searching, At
  <2>11. FoundInv' /\ EntryInv'
    BY <1>1, <2>2 DEF SlotPart, FoundInv, EntryInv, At, CallerInv, Proper
  <2> QED
    BY <2>9, <2>10, <2>11 DEF SlotPart
<1> QED
  BY <1>2, <1>3, <1>4 DEF Instance

-----------------------------------------------------------------------------
(* One instance of a module.                                               *)

Kept(t) ==
  /\ \A n \in Managed : /\ (t \in Alive(n))' <=> t \in Alive(n)
                        /\ t \in Alive(n) => place'[t] = place[t]
  /\ phase'[t] = "run" /\ module'[t] \in Managed =>
       phase[t] = "run" /\ module'[t] = module[t]

Attends(d) == Same(d) \/ (~Assigning(d) /\ ~Assigning(d)')

(* A step that makes, ends or names no instance of a ModuleBase module.    *)
LEMMA InstKept ==
  ASSUME ShapeInv, InstPart, UNCHANGED deleted,
         \A n \in Managed : \/ desc'[n] = desc[n]
                            \/ desc'[n].task_id = desc[n].task_id /\ Alive(n) = {},
         \A t \in Instances : Kept(t), \A d \in Callers : Attends(d)
  PROVE  InstPart'
<1>1. \A n \in Managed : Alive(n)' = Alive(n)
  BY DEF Kept, Alive
<1>2. \A n \in Managed : \A t \in Alive(n) : place'[t] = place[t]
  BY DEF Kept, Alive
<1>3. \A n \in Managed : desc'[n].task_id = desc[n].task_id
  OBVIOUS
<1>4. \A d \in Callers : Assigning(d)' <=> Assigning(d)
  BY DEF Attends, Same, Assigning, At
<1>5. \A d \in Callers : Assigning(d) =>
        command'[d].module = command[d].module /\ command'[d].slot = command[d].slot
  BY DEF Attends, Same
<1>6. OneInv'
  BY <1>1 DEF InstPart, OneInv
<1>7. LinkInv'
  BY <1>1, <1>2, <1>3, <1>4, <1>5 DEF InstPart, LinkInv
<1>8. OwnInv'
  <2>1. \A n \in Managed : is_running(n)' => \E t \in Alive(n)' : place'[t] = desc'[n].task_id
    BY <1>1, <1>2, <1>3 DEF InstPart, OwnInv, is_running
  <2>2. ASSUME NEW d \in Callers, Assigning(d)'
        PROVE  (\E t \in Alive(command[d].module) : place[t] = command[d].slot)'
    <3>1. PICK n \in Managed : n = command[d].module /\ Assigning(d)
      BY <1>4, <2>2 DEF Assigning
    <3>2. PICK t \in Alive(n) : place[t] = command[d].slot
      BY <3>1 DEF InstPart, OwnInv
    <3>3. t \in Alive(n)' /\ place'[t] = place[t]
      BY <1>1, <1>2
    <3>4. command'[d].module = n /\ command'[d].slot = command[d].slot
      BY <1>5, <3>1
    <3> QED
      BY <3>2, <3>3, <3>4
  <2> QED
    BY <2>1, <2>2 DEF OwnInv
<1>9. RunInv'
  <2> SUFFICES ASSUME NEW t \in Instances, phase'[t] = "run", module'[t] \in Managed
               PROVE  t \notin deleted /\ desc'[module'[t]].object = t
    BY DEF RunInv
  <2>1. phase[t] = "run" /\ module'[t] = module[t]
    BY DEF Kept
  <2>2. t \in Alive(module[t])
    BY <2>1 DEF Alive, Mod, Live
  <2> QED
    BY <2>1, <2>2 DEF InstPart, RunInv
<1> QED
  BY <1>6, <1>7, <1>8, <1>9 DEF InstPart

(* In particular, one of a caller that leaves the instances as they are.   *)
LEMMA QuietInst ==
  ASSUME ShapeInv, InstPart, UNCHANGED <<phase, place, module, deleted>>,
         \A n \in Managed : \/ desc'[n] = desc[n]
                            \/ desc'[n].task_id = desc[n].task_id /\ Alive(n) = {},
         \A t \in Instances : phase[t] = "created" =>
           slots'[place[t]].entry = slots[place[t]].entry,
         \A d \in Callers : Attends(d)
  PROVE  InstPart'
<1>1. \A t \in Instances : Kept(t)
  BY DEF Kept, Alive, Mod
<1> QED
  BY <1>1, InstKept

(* A module that is being started has no instance yet.                     *)
LEMMA BirthFacts ==
  ASSUME TypeOK, ShapeInv, CallerInv, InstPart, NEW c \in Callers,
         command[c].pc \in {"spawn", "create"}, command[c].module \in Managed
  PROVE  /\ Alive(command[c].module) = {} /\ ~is_running(command[c].module)
         /\ mutex = c /\ \A d \in Callers : ~Assigning(d)
<1>1. Holding(c)
  BY DEF Holding, Starting
<1>2. ~is_running(command[c].module) /\ mutex = c
  BY <1>1 DEF CallerInv, Proper
<1>3. \A d \in Callers : Assigning(d) => Holding(d) /\ d # c
  BY DEF Assigning, Holding, Starting, At
<1>4. \A d \in Callers : ~Assigning(d)
  BY <1>1, <1>3, OneHolder
<1> QED
  BY <1>2, <1>4, NoneAlive DEF InstPart

LEMMA CreateInst ==
  ASSUME TypeOK, ShapeInv, CallerInv, SlotPart, InstPart, NEW c \in Callers, Create(c)
  PROVE  InstPart'
<1>a. PICK m \in Modules, s \in Slots :
        m = command[c].module /\ s = command[c].slot /\ slots[s].entry = m /\ At(c, "create")
  BY DEF Create, At, CallerInv, Proper, SlotPart, EntryInv
<1>1. PICK t \in Fresh :
        phase' = [phase EXCEPT ![t] = "created"] /\ place' = [place EXCEPT ![t] = s]
  BY <1>a DEF Create
<1>2. t \in Instances /\ phase[t] = "none"
  BY FreshFacts
<1>3. /\ phase'[t] = "created" /\ place'[t] = s
      /\ \A u \in Instances \ {t} : phase'[u] = phase[u] /\ place'[u] = place[u]
  BY <1>1, <1>2 DEF TypeOK
<1>4. UNCHANGED <<slots, desc, module, deleted>>
  BY DEF Create, history
<1>5. /\ command'[c].pc = "assign" /\ command'[c].module = m /\ command'[c].slot = s
      /\ \A d \in Callers \ {c} : command'[d] = command[d]
  BY <1>a, GotoFacts DEF Create
<1>6. Mod(t)' = m /\ \A u \in Instances \ {t} : Mod(u)' = Mod(u)
  BY <1>a, <1>3, <1>4 DEF Mod
<1>7. CASE m \notin Managed
  <2>1. \A u \in Instances : Kept(u)
    BY <1>2, <1>3, <1>4, <1>6, <1>7 DEF Kept, Alive, Live
  <2>2. \A d \in Callers : Attends(d)
    BY <1>a, <1>5, <1>7 DEF Attends, Same, Assigning, At
  <2> QED
    BY <1>4, <2>1, <2>2, InstKept
<1>8. CASE m \in Managed
  <2>0. Alive(m) = {} /\ ~is_running(m) /\ \A d \in Callers : ~Assigning(d)
    BY <1>a, <1>8, BirthFacts DEF At
  <2>1. Alive(m)' = {t} /\ \A n : n # m => Alive(n)' = Alive(n)
    BY <1>2, <1>3, <1>6, <2>0 DEF Alive, Live
  <2>2. \A d \in Callers : Assigning(d)' <=> d = c
    BY <1>5, <1>8, <2>0 DEF Assigning, At
  <2>3. \A n : \A u \in Alive(n) : u \in Instances \ {t}
    BY <1>2 DEF Alive, Live
  <2>4. OneInv'
    BY <2>1 DEF InstPart, OneInv
  <2>5. RunInv'
    BY <1>2, <1>3, <1>4 DEF InstPart, RunInv
  <2>6. LinkInv'
    <3>1. \A n \in Managed : \A u \in Alive(n) : desc[n].task_id = place[u]
      BY <2>0 DEF InstPart, LinkInv
    <3>2. \A n \in Managed : n # m => \A u \in Alive(n)' : desc'[n].task_id = place'[u]
      BY <1>3, <1>4, <2>1, <2>3, <3>1
    <3>3. \A u \in Alive(m)' : Assigning(c)' /\ command'[c].module = m
                                /\ command'[c].slot = place'[u]
      BY <1>3, <1>5, <2>1, <2>2
    <3> QED
      BY <3>2, <3>3 DEF LinkInv
  <2>7. OwnInv'
    <3>1. \A n \in Managed : is_running(n)' => is_running(n) /\ n # m
      BY <1>4, <2>0 DEF is_running
    <3>2. \A n \in Managed : is_running(n) /\ n # m =>
            \E u \in Alive(n)' : place'[u] = desc'[n].task_id
      BY <1>3, <1>4, <2>1, <2>3 DEF InstPart, OwnInv
    <3>3. (\E u \in Alive(command[c].module) : place[u] = command[c].slot)'
      BY <1>3, <1>5, <2>1
    <3> QED
      BY <2>2, <3>1, <3>2, <3>3 DEF OwnInv
  <2> QED
    BY <2>4, <2>5, <2>6, <2>7 DEF InstPart
<1> QED
  BY <1>7, <1>8

LEMMA SpawnItemInst ==
  ASSUME TypeOK, ShapeInv, ObjectInv, CallerInv, InstPart, NEW c \in Callers, SpawnItem(c)
  PROVE  InstPart'
<1>a. PICK m \in Managed : m = command[c].module /\ At(c, "spawn") /\ m \in Modules
  BY ManagedFacts DEF SpawnItem, At, CallerInv, Proper
<1>0. Alive(m) = {} /\ ~is_running(m) /\ \A d \in Callers : ~Assigning(d)
  BY <1>a, BirthFacts DEF At
<1>1. PICK t \in Fresh :
        /\ phase' = [phase EXCEPT ![t] = "run"]
        /\ place' = [place EXCEPT ![t] = WorkQueue]
        /\ module' = [module EXCEPT ![t] = m]
        /\ desc' = [desc EXCEPT ![m] = [task_id |-> WorkQueue, object |-> t]]
  BY <1>a DEF SpawnItem
<1>2. t \in Instances /\ phase[t] = "none" /\ t \notin deleted
  BY FreshFacts DEF ObjectInv
<1>3. /\ phase'[t] = "run" /\ place'[t] = WorkQueue /\ module'[t] = m
      /\ \A u \in Instances \ {t} :
           phase'[u] = phase[u] /\ place'[u] = place[u] /\ module'[u] = module[u]
  BY <1>1, <1>2 DEF TypeOK
<1>4. /\ desc'[m].task_id = WorkQueue /\ desc'[m].object = t
      /\ \A n \in Managed \ {m} : desc'[n] = desc[n]
  BY <1>a, <1>1, ManagedFacts DEF TypeOK
<1>5. UNCHANGED <<slots, deleted>>
  BY DEF SpawnItem, history
<1>6. command'[c].pc = "idle" /\ \A d \in Callers \ {c} : command'[d] = command[d]
  BY DoneFacts DEF SpawnItem
<1>7. Alive(m)' = {t} /\ \A n : n # m => Alive(n)' = Alive(n)
  <2>1. Mod(t)' = m /\ \A u \in Instances \ {t} : Mod(u)' = Mod(u)
    BY <1>3, <1>5 DEF Mod
  <2> QED
    BY <1>0, <1>2, <1>3, <2>1 DEF Alive, Live
<1>8. \A d \in Callers : ~Assigning(d)'
  BY <1>0, <1>6 DEF Assigning, At
<1>9. \A n : \A u \in Alive(n) : u \in Instances \ {t}
  BY <1>2 DEF Alive, Live
<1>10. OneInv'
  BY <1>7 DEF InstPart, OneInv
<1>11. RunInv'
  <2>1. ASSUME NEW u \in Instances \ {t}, phase[u] = "run" PROVE module[u] # m
    BY <1>0, <2>1 DEF Alive, Mod, Live
  <2> QED
    BY <1>2, <1>3, <1>4, <1>5, <2>1 DEF InstPart, RunInv
<1>12. LinkInv'
  BY <1>0, <1>3, <1>4, <1>7, <1>9 DEF InstPart, LinkInv
<1>13. OwnInv'
  BY <1>3, <1>4, <1>7, <1>8, <1>9 DEF InstPart, OwnInv, is_running
<1> QED
  BY <1>10, <1>11, <1>12, <1>13 DEF InstPart

(* A start that fails before it made an instance.                          *)
LEMMA FailInst ==
  ASSUME TypeOK, ShapeInv, CallerInv, InstPart, NEW c \in Callers,
         TableFull(c) \/ CreateFails(c) \/ ItemFails(c)
  PROVE  InstPart'
<1> DEFINE m == command[c].module
<1>1. /\ m \in Modules /\ command[c].pc \in {"spawn", "create"}
      /\ UNCHANGED <<phase, place, module, deleted>>
  BY DEF TableFull, CreateFails, ItemFails, instances, history, At, CallerInv, Proper
<1>2. /\ desc'[m].task_id = NoTask /\ \A n \in Modules \ {m} : desc'[n] = desc[n]
  <2>1. CASE TableFull(c) \/ CreateFails(c)
    BY <1>1, <2>1, DescFacts DEF TableFull, CreateFails, Fail
  <2>2. CASE ItemFails(c)
    BY <1>1, <2>2 DEF ItemFails, TypeOK
  <2> QED
    BY <2>1, <2>2
<1>3. command'[c].pc = "idle" /\ \A d \in Callers \ {c} : command'[d] = command[d]
  BY DoneFacts DEF TableFull, CreateFails, ItemFails, Fail
<1>4. \A r \in Slots : slots'[r].entry = slots[r].entry
  BY FreeingKeepsEntries DEF TableFull, CreateFails, ItemFails
<1>5. \A t \in Instances : phase[t] = "created" =>
        slots'[place[t]].entry = slots[place[t]].entry
  BY <1>4 DEF ShapeInv
<1>6. \A n \in Managed : \/ desc'[n] = desc[n]
                         \/ desc'[n].task_id = desc[n].task_id /\ Alive(n) = {}
  <2>1. m \in Managed => Alive(m) = {} /\ desc[m].task_id = NoTask
    BY <1>1, BirthFacts DEF is_running
  <2> QED
    BY <1>2, <2>1, ManagedFacts
<1>7. \A d \in Callers : Attends(d)
  BY <1>1, <1>3 DEF Attends, Same, Assigning, At
<1> QED
  BY <1>1, <1>5, <1>6, <1>7, QuietInst

LEMMA AssignInst ==
  ASSUME TypeOK, ShapeInv, CallerInv, InstPart, NEW c \in Callers, Assign(c)
  PROVE  InstPart'
<1>a. PICK m \in Modules, s \in Slots :
        m = command[c].module /\ s = command[c].slot /\ At(c, "assign")
  BY DEF Assign, At, CallerInv, Proper
<1>1. UNCHANGED <<slots, phase, place, module, deleted>>
  BY DEF Assign, instances, history
<1>2. /\ desc'[m].task_id = s /\ desc'[m].object = desc[m].object
      /\ \A n \in Modules \ {m} : desc'[n] = desc[n]
  <2>1. desc' = [desc EXCEPT ![m].task_id = s]
    BY <1>a DEF Assign
  <2> QED
    BY <2>1, DescFacts
<1>3. /\ command'[c].pc \in {"idle", "wait"}
      /\ \A d \in Callers \ {c} : command'[d] = command[d]
  BY DoneFacts, GotoFacts DEF Assign
<1>4. CASE m \notin Managed
  <2>1. \A d \in Callers : Attends(d)
    BY <1>a, <1>3, <1>4 DEF Attends, Same, Assigning, At
  <2>2. \A n \in Managed : desc'[n] = desc[n]
    BY <1>2, <1>4, ManagedFacts
  <2> QED
    BY <1>1, <2>1, <2>2, QuietInst
<1>5. CASE m \in Managed
  <2>1. \A n : Alive(n)' = Alive(n)
    BY <1>1 DEF Alive, Mod
  <2>2. \A d \in Callers \ {c} : ~Assigning(d)
    <3>1. Holding(c) /\ \A d \in Callers : Assigning(d) => Holding(d)
      BY <1>a, <1>5 DEF Assigning, Holding, Starting, At
    <3> QED
      BY <3>1, OneHolder
  <2>3. \A d \in Callers : ~Assigning(d)'
    BY <1>3, <2>2 DEF Assigning, At
  <2>4. PICK t \in Alive(m) : place[t] = s
    BY <1>a, <1>5 DEF InstPart, OwnInv, Assigning
  <2>5. Alive(m) = {t}
    BY <1>5, <2>4 DEF InstPart, OneInv
  <2>6. LinkInv'
    <3>1. \A n \in Managed : n # m => \A u \in Alive(n) : desc[n].task_id = place[u]
      BY <1>a, <2>2 DEF InstPart, LinkInv
    <3> QED
      BY <1>1, <1>2, <2>1, <2>4, <2>5, <3>1, ManagedFacts DEF LinkInv
  <2>7. OwnInv'
    BY <1>1, <1>2, <2>1, <2>3, <2>4, ManagedFacts DEF InstPart, OwnInv, is_running
  <2>8. RunInv'
    BY <1>1, <1>2, ManagedFacts DEF InstPart, RunInv
  <2>9. OneInv'
    BY <2>1 DEF InstPart, OneInv
  <2> QED
    BY <2>6, <2>7, <2>8, <2>9 DEF InstPart
<1> QED
  BY <1>4, <1>5

(* Whoever gives up on a module that has an instance leaves it behind.     *)
LEMMA GivingUp ==
  ASSUME TypeOK, ShapeInv, CallerInv, InstPart, NEW c \in Callers,
         StartTimeout(c) \/ StopEarly(c)
  PROVE  left'
<1>1. command[c].module \in Managed /\ is_running(command[c].module)
  BY DEF StartTimeout, StopEarly, CallerInv, Proper, Holding, Starting, At
<1> QED
  BY <1>1, SomeOf DEF InstPart, StartTimeout, StopEarly

(* An instance, the only one of m, ends; m is then not running.            *)
LEMMA DeathInst ==
  ASSUME TypeOK, ShapeInv, ObjectInv, InstPart, NEW m \in Managed, NEW t \in Instances,
         Alive(m) = {t}, UNCHANGED slots, Delete(m),
         desc' = [desc EXCEPT ![m] = [task_id |-> NoTask, object |-> Nil]],
         phase'[t] \in {"return", "ended"},
         \A u \in Instances \ {t} :
           phase'[u] = phase[u] /\ place'[u] = place[u] /\ module'[u] = module[u],
         \A d \in Callers : ~Assigning(d) /\ ~Assigning(d)'
  PROVE  InstPart'
<1>1. /\ desc'[m].task_id = NoTask /\ desc'[m].object = Nil
      /\ \A n \in Managed \ {m} : desc'[n] = desc[n]
      /\ deleted' = deleted \cup ({desc[m].object} \ {Nil})
  BY ManagedFacts DEF TypeOK, Delete
<1>2. Alive(m)' = {} /\ \A n : n # m => Alive(n)' = Alive(n)
  <2>1. \A u \in Instances \ {t} : Mod(u)' = Mod(u)
    BY DEF Mod
  <2>2. phase'[t] \notin Live \ {"return"} /\ Mod(t) = m
    BY DEF Live, Alive
  <2> QED
    BY <2>1, <2>2 DEF Alive
<1>3. \A n : n # m => \A u \in Alive(n) : u \in Instances \ {t}
  BY DEF Alive
<1>4. OneInv'
  BY <1>2 DEF InstPart, OneInv
<1>5. LinkInv'
  BY <1>1, <1>2, <1>3 DEF InstPart, LinkInv
<1>6. OwnInv'
  BY <1>1, <1>2, <1>3 DEF InstPart, OwnInv, is_running
<1>7. RunInv'
  <2>1. ASSUME NEW u \in Instances \ {t}, phase[u] = "run", module[u] \in Managed
        PROVE  module[u] # m /\ desc[m].object # u
    <3>1. u \in Alive(module[u])
      BY <2>1 DEF Alive, Mod, Live
    <3>2. module[u] # m
      BY <3>1
    <3>3. desc[module[u]].object = u
      BY <2>1 DEF InstPart, RunInv
    <3> QED
      BY <2>1, <3>2, <3>3, NilFacts, ManagedFacts DEF ObjectInv
  <2> QED
    BY <1>1, <2>1 DEF InstPart, RunInv
<1> QED
  BY <1>4, <1>5, <1>6, <1>7 DEF InstPart

LEMMA ForceStopInst ==
  ASSUME TypeOK, ShapeInv, ObjectInv, CallerInv, InstPart, NEW c \in Callers,
         ForceStop(c), ~left'
  PROVE  InstPart'
<1> DEFINE m == command[c].module
<1>1. m \in Managed /\ mutex = Nil
  BY DEF ForceStop, CallerInv, Proper, At
<1>2. PICK t \in Instances : End({t}) /\ Alive(m) = {t} /\ UNCHANGED slots
  BY ForceStopFacts
<1>3. phase'[t] = "ended"
      /\ \A u \in Instances \ {t} :
           phase'[u] = phase[u] /\ place'[u] = place[u] /\ module'[u] = module[u]
  BY <1>2, EndFacts
<1>4. /\ Delete(m) /\ desc' = [desc EXCEPT ![m] = [task_id |-> NoTask, object |-> Nil]]
      /\ command'[c].pc = "idle" /\ \A d \in Callers \ {c} : command'[d] = command[d]
  BY DoneFacts DEF ForceStop
<1>5. \A d \in Callers : ~Assigning(d)
  BY <1>1, OneHolder DEF Assigning, Holding, Starting, At
<1>6. \A d \in Callers : ~Assigning(d)'
  BY <1>4, <1>5 DEF Assigning, At
<1> QED
  BY <1>1, <1>2, <1>3, <1>4, <1>5, <1>6, DeathInst

LEMMA CommandInst ==
  ASSUME TypeOK, ShapeInv, ObjectInv, CallerInv, SlotPart, InstPart,
         NEW c \in Callers, Command(c), ~left'
  PROVE  InstPart'
<1> DEFINE m == command[c].module
<1>1. CASE NothingToDo(c) \/ Start(c) \/ Search(c) \/ Claim(c) \/ Started(c)
             \/ KeepWaiting(c) \/ Stop(c) \/ Patient(c) \/ StopDirect(c) \/ Forget(c)
  <2>1. UNCHANGED <<phase, place, module, deleted>>
    BY <1>1 DEF NothingToDo, Start, Search, Claim, Started, KeepWaiting, Stop, Patient,
                StopDirect, Forget, instances, history
  <2>2. \A n \in Managed : desc'[n] = desc[n]
    <3>1. CASE Forget(c)
      BY <3>1, DescFacts, ManagedFacts DEF Forget, CallerInv, Proper, At
    <3>2. CASE ~Forget(c)
      BY <1>1, <3>2 DEF NothingToDo, Start, Search, Claim, Started, KeepWaiting, Stop,
                        Patient, StopDirect
    <3> QED
      BY <3>1, <3>2
  <2>3. \A t \in Instances : phase[t] = "created" =>
          slots'[place[t]].entry = slots[place[t]].entry
    <3>1. CASE Claim(c)
      <4>1. Users(command[c].slot) = {}
        BY <3>1, ClaimSlots
      <4>2. \A t \in Instances : phase[t] = "created" =>
              place[t] \in Slots \ {command[c].slot}
        BY <4>1 DEF ShapeInv, Users, InSlot, Live
      <4> QED
        BY <3>1, <4>2, ClaimFacts
    <3>2. CASE StopDirect(c)
      BY <3>2, StopDirectSlots
    <3>3. CASE ~Claim(c) /\ ~StopDirect(c)
      BY <1>1, <3>3 DEF NothingToDo, Start, Search, Started, KeepWaiting, Stop, Patient,
                        Forget
    <3> QED
      BY <3>1, <3>2, <3>3
  <2>4. /\ command'[c].pc # "assign" /\ ~At(c, "assign")
        /\ \A d \in Callers \ {c} : command'[d] = command[d]
    <3>1. CASE NothingToDo(c) \/ Started(c) \/ Forget(c)
      BY <3>1, DoneFacts DEF NothingToDo, Started, Forget, At
    <3>2. CASE KeepWaiting(c) \/ Patient(c)
      BY <3>2, TriesFacts DEF KeepWaiting, Patient, At
    <3>3. CASE Search(c)
      BY <3>3, SearchFacts DEF Search, At
    <3>4. CASE Start(c) \/ Claim(c) \/ Stop(c) \/ StopDirect(c)
      BY <3>4, GotoFacts DEF Start, Claim, Stop, StopDirect, At
    <3> QED
      BY <1>1, <3>1, <3>2, <3>3, <3>4
  <2>5. \A d \in Callers : Attends(d)
    BY <2>4 DEF Attends, Same, Assigning, At
  <2> QED
    BY <2>1, <2>2, <2>3, <2>5, QuietInst
<1> QED
  BY <1>1, FailInst, CreateInst, AssignInst, SpawnItemInst, GivingUp, ForceStopInst
  DEF Command

(* The instance's own steps: its object is named while it runs.            *)
LEMMA ObjectInst ==
  ASSUME TypeOK, ShapeInv, ObjectInv, InstPart, NEW t \in Instances,
         Instantiate(t) \/ InstantiateFails(t)
  PROVE  InstPart'
<1>1. PICK m \in Managed : m = module[t] /\ phase[t] = "instantiate" /\ m \in Modules
  BY ManagedFacts DEF Instantiate, InstantiateFails, ShapeInv
<1>2. /\ phase'[t] \in {"run", "cleanup"} /\ (phase'[t] = "run" => Instantiate(t))
      /\ \A u \in Instances \ {t} : phase'[u] = phase[u]
      /\ UNCHANGED <<slots, place, module, deleted, command>>
  BY DEF Instantiate, InstantiateFails, TypeOK, history
<1>3. /\ desc'[m].task_id = desc[m].task_id
      /\ Instantiate(t) => desc'[m].object = t
      /\ \A n \in Modules \ {m} : desc'[n] = desc[n]
  BY <1>1, DescFacts DEF Instantiate, InstantiateFails
<1>4. t \in Alive(m) /\ \A n : Alive(n)' = Alive(n)
  BY <1>1, <1>2 DEF Alive, Mod, Live
<1>5. \A n \in Managed : desc'[n].task_id = desc[n].task_id
  BY <1>1, <1>3, ManagedFacts
<1>6. OneInv'
  BY <1>4 DEF InstPart, OneInv
<1>7. LinkInv'
  BY <1>2, <1>4, <1>5 DEF InstPart, LinkInv, Assigning, At
<1>8. OwnInv'
  BY <1>2, <1>4, <1>5 DEF InstPart, OwnInv, Assigning, At, is_running
<1>9. RunInv'
  <2>1. ASSUME NEW u \in Instances \ {t}, phase[u] = "run", module[u] \in Managed
        PROVE  module[u] # m
    <3>1. u \in Alive(module[u])
      BY <2>1 DEF Alive, Mod, Live
    <3> QED
      BY <1>4, <2>1, <3>1 DEF InstPart, OneInv
  <2>2. t \notin deleted
    BY <1>1 DEF ObjectInv
  <2> QED
    BY <1>1, <1>2, <1>3, <2>1, <2>2, ManagedFacts DEF InstPart, RunInv
<1> QED
  BY <1>6, <1>7, <1>8, <1>9 DEF InstPart

(* Its clean-up takes no successor with it.                                *)
LEMMA CleanUpInst ==
  ASSUME TypeOK, ShapeInv, ObjectInv, CallerInv, InstPart, NEW t \in Instances, CleanUp(t)
  PROVE  InstPart'
<1>1. PICK m \in Managed : m = module[t] /\ t \in Alive(m)
  BY DEF CleanUp, ShapeInv, Alive, Mod, Live
<1>2. Alive(m) = {t}
  BY <1>1 DEF InstPart, OneInv
<1>3. /\ UNCHANGED <<slots, command>> /\ phase[t] = "cleanup" /\ Leave(t) /\ mutex = Nil
      /\ Delete(m) /\ desc' = [desc EXCEPT ![m] = [task_id |-> NoTask, object |-> Nil]]
  BY <1>1 DEF CleanUp
<1>4. Dequeued(m) = {}
  <2> SUFFICES ASSUME NEW u \in Dequeued(m) PROVE FALSE
    OBVIOUS
  <2>1. u \in Instances /\ phase[u] = "run" /\ place[u] = WorkQueue /\ desc[m].object = u
    BY DEF Dequeued
  <2>2. module[u] \in Managed
    BY <2>1, SlotFacts DEF ShapeInv
  <2>3. desc[module[u]].object = u
    BY <2>1, <2>2 DEF InstPart, RunInv
  <2>4. module[u] = m
    BY <2>1, <2>2, <2>3, NilFacts, ManagedFacts DEF ObjectInv
  <2>5. u \in Alive(m)
    BY <2>1, <2>4 DEF Alive, Mod, Live
  <2> QED
    BY <1>2, <1>3, <2>1, <2>5
<1>5. /\ phase'[t] \in {"return", "ended"}
      /\ \A u \in Instances \ {t} :
           phase'[u] = phase[u] /\ place'[u] = place[u] /\ module'[u] = module[u]
  <2>1. CASE place[t] = WorkQueue
    <3>1. End({t})
      BY <1>1, <1>3, <1>4, <2>1, LeaveFacts
    <3> QED
      BY <3>1, EndFacts
  <2>2. CASE place[t] # WorkQueue
    BY <1>3, <2>2, LeaveFacts
  <2> QED
    BY <2>1, <2>2
<1>6. \A d \in Callers : ~Assigning(d)
  BY <1>3, OneHolder DEF Assigning, Holding, Starting, At
<1>7. \A d \in Callers : ~Assigning(d)'
  BY <1>3, <1>6 DEF Assigning, At
<1> QED
  BY <1>2, <1>3, <1>5, <1>6, <1>7, DeathInst

LEMMA InstanceInst ==
  ASSUME TypeOK, ShapeInv, ObjectInv, CallerInv, InstPart, NEW t \in Instances, Instance(t)
  PROVE  InstPart'
<1>1. CASE Begin(t) \/ Finish(t) \/ Return(t)
  <2>1. UNCHANGED <<desc, command, deleted>>
    BY <1>1 DEF Begin, Finish, Return, history
  <2>2. \A d \in Callers : Attends(d)
    BY <2>1 DEF Attends, Same
  <2>3. \A u \in Instances \ {t} :
          phase'[u] = phase[u] /\ place'[u] = place[u] /\ module'[u] = module[u]
    BY <1>1, EndFacts DEF Begin, Finish, Return, TypeOK
  <2>4. \A u \in Instances : phase[u] = "created" =>
          slots'[place[u]].entry = slots[place[u]].entry
    BY <1>1, FreeingKeepsEntries DEF Begin, Finish, Return, ShapeInv
  <2>5. \A u \in Instances \ {t} : Kept(u)
    BY <2>3, <2>4 DEF Kept, Alive, Mod
  <2>6. Kept(t)
    <3>1. CASE Begin(t)
      BY <3>1 DEF Begin, Kept, Alive, Mod, Live, TypeOK
    <3>2. CASE Finish(t)
      BY <3>2 DEF Finish, Kept, Alive, Mod, Live, TypeOK
    <3>3. CASE Return(t)
      BY <3>3, EndFacts DEF Return, Kept, Alive, Live
    <3> QED
      BY <1>1, <3>1, <3>2, <3>3
  <2> QED
    BY <2>1, <2>2, <2>5, <2>6, InstKept
<1> QED
  BY <1>1, ObjectInst, CleanUpInst DEF Instance

-----------------------------------------------------------------------------
(* What has happened is not forgotten.                                     *)
LEMMA SoundKept ==
  /\ \A c \in Callers : TypeOK /\ Command(c) /\ ~left' /\ ~raced' => ~left /\ ~raced
  /\ \A t \in Instances : Instance(t) => UNCHANGED <<left, raced>>
<1>1. ASSUME NEW c \in Callers, TypeOK, Command(c), ~left', ~raced'
      PROVE  ~left /\ ~raced
  <2>1. CASE Start(c)
    BY <1>1, <2>1 DEF Start
  <2>2. CASE StartTimeout(c) \/ StopEarly(c) \/ StopDirect(c)
    <3>1. UNCHANGED raced /\ \E p \in BOOLEAN : left' = (left \/ p)
      BY <2>2 DEF StartTimeout, StopEarly, StopDirect
    <3> QED
      BY <1>1, <3>1
  <2>3. CASE ForceStop(c)
    <3>1. UNCHANGED raced /\ \E gone : left' = (left \/ Of(command[c].module) \ gone # {})
      BY <2>3 DEF ForceStop
    <3> QED
      BY <1>1, <3>1
  <2>4. CASE ~Start(c) /\ ~StartTimeout(c) /\ ~StopEarly(c) /\ ~StopDirect(c) /\ ~ForceStop(c)
    <3>1. UNCHANGED <<left, raced>>
      BY <1>1, <2>4
      DEF Command, NothingToDo, Search, Claim, TableFull, Create, CreateFails, Assign,
          Started, KeepWaiting, SpawnItem, ItemFails, Stop, Patient, Forget, history
    <3> QED
      BY <1>1, <3>1
  <2> QED
    BY <2>1, <2>2, <2>3, <2>4
<1>2. ASSUME NEW t \in Instances, Instance(t) PROVE UNCHANGED <<left, raced>>
  BY <1>2 DEF Instance, Begin, Instantiate, InstantiateFails, Finish, CleanUp, Return, history
<1> QED
  BY <1>1, <1>2

LEMMA CallInv ==
  ASSUME IInv, NEW c \in Callers, NEW m \in Modules, NEW pc \in {"start", "stop"},
         Call(c, pc, m)
  PROVE  IInv'
<1>1. UNCHANGED <<slots, desc, phase, place, module, deleted, left, raced>>
  BY DEF Call, instances, history
<1>2. /\ command'[c].pc \in {"start", "stop"} /\ At(c, "idle")
      /\ \A d \in Callers \ {c} : command'[d] = command[d]
  BY DEF Call, IInv, TypeOK, Commanding, Idle
<1>3. \A d \in Callers : Aside(d) /\ Attends(d)
  BY <1>2 DEF Aside, Attends, Same, Assigning, At
<1>4. \A t \in Instances : Stays(t)
  BY <1>1 DEF Stays
<1>5. SlotPart => SlotPart'
  BY <1>1, <1>3, <1>4, SlotsKept
<1>6. InstPart => InstPart'
  BY <1>1, <1>3, QuietInst DEF IInv
<1>7. ShapeInv' /\ ObjectInv'
  BY <1>1 DEF IInv, ShapeInv, ObjectInv, NoDangling
<1> QED
  BY <1>1, <1>5, <1>6, <1>7, CallType, CallCaller DEF IInv, SoundInv

LEMMA StutterInv ==
  ASSUME IInv, UNCHANGED vars
  PROVE  IInv'
<1>1. TypeOK' /\ ShapeInv' /\ ObjectInv'
  BY DEF vars, instances, history, IInv, TypeOK, ShapeInv, ObjectInv, NoDangling
<1>2. CallerInv'
  BY DEF vars, IInv, CallerInv, Proper, Holding, At, is_running
<1>3. \A d \in Callers : Aside(d) /\ Attends(d)
  BY DEF vars, Aside, Attends, Same
<1>4. \A t \in Instances : Stays(t)
  BY DEF vars, instances, Stays
<1>5. SlotPart => SlotPart'
  BY <1>3, <1>4, SlotsKept DEF vars
<1>6. InstPart => InstPart'
  BY <1>3, QuietInst DEF vars, instances, history, IInv
<1> QED
  BY <1>1, <1>2, <1>5, <1>6 DEF vars, history, IInv, SoundInv

LEMMA StepInv == IInv /\ [Next]_vars => IInv'
<1> SUFFICES ASSUME IInv, [Next]_vars PROVE IInv'
  OBVIOUS
<1>1. ASSUME NEW c \in Callers, Command(c) PROVE IInv'
  <2>1. TypeOK' /\ ShapeInv' /\ ObjectInv' /\ CallerInv'
    BY <1>1, CommandType, CommandCaller, CommandShape, CommandObject DEF IInv
  <2>2. ASSUME ~left', ~raced' PROVE SlotPart' /\ InstPart'
    <3>1. SlotPart /\ InstPart
      BY <1>1, <2>2, SoundKept DEF IInv, SoundInv
    <3> QED
      BY <1>1, <2>2, <3>1, CommandSlots, CommandInst DEF IInv
  <2> QED
    BY <2>1, <2>2 DEF IInv, SoundInv
<1>2. ASSUME NEW c \in Callers, NEW pc \in {"start", "stop"}, NEW m \in Modules,
             Call(c, pc, m)
      PROVE IInv'
  BY <1>2, CallInv
<1>3. ASSUME NEW t \in Instances, Instance(t) PROVE IInv'
  <2>1. TypeOK' /\ ShapeInv' /\ ObjectInv' /\ CallerInv'
    BY <1>3, InstanceType, InstanceCaller, InstanceShape, InstanceObject DEF IInv
  <2>2. ASSUME ~left', ~raced' PROVE SlotPart' /\ InstPart'
    <3>1. SlotPart /\ InstPart
      BY <1>3, <2>2, SoundKept DEF IInv, SoundInv
    <3> QED
      BY <1>3, <3>1, InstanceSlots, InstanceInst DEF IInv
  <2> QED
    BY <2>1, <2>2 DEF IInv, SoundInv
<1> QED
  BY <1>1, <1>2, <1>3, StutterInv DEF Next

(* The inductive invariant of commands, instances and slots.               *)
THEOREM Invariant == Spec => []IInv
<1> QED
  BY InitInv, StepInv, PTL DEF Spec

(* Type correctness: every task_id, slot and object is one there is.       *)
THEOREM Typing == Spec => []TypeOK
<1>1. IInv => TypeOK
  BY DEF IInv
<1> QED
  BY <1>1, Invariant, PTL

(* As long as nobody gives up waiting, and no spawner without the mutex    *)
(* searches the table while another does, a used slot is one living        *)
(* thread's, however the searches, claims and returns interleave.          *)
THEOREM SlotOwnership == Spec => []SlotSound
<1>1. IInv => SlotSound
  BY DEF IInv, SoundInv, SlotPart, SlotSound
<1> QED
  BY <1>1, Invariant, PTL

(* Under the same conditions, what runs is the instance that the           *)
(* descriptor names, and a running module has one that will clean up.      *)
THEOREM InstanceOwnership == Spec => []InstanceSound
<1>1. IInv => InstanceSound
  BY SomeOf DEF IInv, SoundInv, InstPart, RunInv, InstanceSound
<1> QED
  BY <1>1, Invariant, PTL

(* The pointer in a descriptor never points to a deleted object.           *)
THEOREM NoDanglingPointer == Spec => []NoDangling
<1>1. IInv => NoDangling
  BY DEF IInv, ObjectInv
<1> QED
  BY <1>1, Invariant, PTL

-----------------------------------------------------------------------------
(* The firmware: one task gives all the start commands.                    *)

Spawning(c) == command[c].pc \in {"start"} \cup Starting
RaceInv ==
  /\ \A c \in Callers : Spawning(c) => c \in Starters
  /\ raced => \E c, d \in Starters : c # d

LEMMA InitRace == Init => RaceInv
BY DEF Init, RaceInv, Spawning, Starting, Idle

LEMMA StepRace == IInv /\ RaceInv /\ [Next]_vars => RaceInv'
<1> SUFFICES ASSUME IInv, RaceInv, [Next]_vars PROVE RaceInv'
  OBVIOUS
<1>0. TypeOK
  BY DEF IInv
<1>1. ASSUME NEW c \in Callers, Command(c) PROVE RaceInv'
  <2>1. \A d \in Callers : Spawning(d)' => Spawning(d)
    <3>1. \A d \in Callers \ {c} : command'[d] = command[d]
      BY <1>0, <1>1, DoneFacts, GotoFacts, TriesFacts, SearchFacts
      DEF Command, NothingToDo, Start, Claim, TableFull, Create, CreateFails, Assign,
          Started, KeepWaiting, StartTimeout, SpawnItem, ItemFails, Stop, StopEarly,
          Patient, ForceStop, StopDirect, Forget, Fail
    <3>2. CASE NothingToDo(c) \/ TableFull(c) \/ CreateFails(c) \/ Started(c)
                 \/ StartTimeout(c) \/ SpawnItem(c) \/ ItemFails(c) \/ StopEarly(c)
                 \/ ForceStop(c) \/ Forget(c)
      <4>1. command'[c].pc = "idle"
        BY <1>0, <3>2, DoneFacts
        DEF NothingToDo, TableFull, CreateFails, Started, StartTimeout, SpawnItem,
            ItemFails, StopEarly, ForceStop, Forget, Fail
      <4> QED
        BY <3>1, <4>1 DEF Spawning, Starting
    <3>3. CASE Start(c) \/ Claim(c) \/ Create(c) \/ Search(c) \/ Assign(c)
      <4>1. Spawning(c)
        BY <3>3 DEF Start, Claim, Create, Search, Assign, At, Spawning, Starting
      <4> QED
        BY <3>1, <4>1 DEF Spawning
    <3>4. CASE KeepWaiting(c) \/ Patient(c)
      BY <1>0, <3>1, <3>4, TriesFacts DEF KeepWaiting, Patient, Spawning
    <3>5. CASE Stop(c) \/ StopDirect(c)
      BY <1>0, <3>1, <3>5, GotoFacts DEF Stop, StopDirect, Spawning, Starting
    <3> QED
      BY <1>1, <3>2, <3>3, <3>4, <3>5 DEF Command
  <2>2. raced' => \E b, d \in Starters : b # d
    <3>1. CASE Start(c)
      <4>1. ASSUME Races(c) PROVE \E b, d \in Starters : b # d
        <5>1. PICK d \in Searching : TRUE
          BY <4>1 DEF Races
        <5>2. d \in Callers /\ Spawning(d) /\ Spawning(c) /\ d # c
          BY <3>1, <5>1 DEF Searching, Start, At, Spawning, Starting
        <5> QED
          BY <5>2 DEF RaceInv
      <4> QED
        BY <3>1, <4>1 DEF Start, RaceInv
    <3>2. CASE ~Start(c)
      BY <1>1, <3>2
      DEF Command, NothingToDo, Search, Claim, TableFull, Create, CreateFails, Assign,
          Started, KeepWaiting, StartTimeout, SpawnItem, ItemFails, Stop, StopEarly,
          Patient, ForceStop, StopDirect, Forget, history, RaceInv
    <3> QED
      BY <3>1, <3>2
  <2> QED
    BY <2>1, <2>2 DEF RaceInv
<1>2. ASSUME NEW c \in Callers, NEW pc \in {"start", "stop"}, NEW m \in Modules,
             Call(c, pc, m)
      PROVE RaceInv'
  <2>1. /\ command'[c].pc = pc /\ \A d \in Callers \ {c} : command'[d] = command[d]
        /\ UNCHANGED raced /\ <<pc, m>> \in Commands[c]
    BY <1>0, <1>2 DEF Call, TypeOK, Commanding, Idle, history
  <2>2. pc = "start" => c \in Starters
    BY <2>1 DEF Starters
  <2> QED
    BY <2>1, <2>2 DEF RaceInv, Spawning, Starting
<1>3. ASSUME NEW t \in Instances, Instance(t) PROVE RaceInv'
  <2>1. UNCHANGED <<command, raced>>
    BY <1>3 DEF Instance, Begin, Instantiate, InstantiateFails, Finish, CleanUp, Return,
                history
  <2> QED
    BY <2>1 DEF RaceInv, Spawning
<1>4. CASE UNCHANGED vars
  BY <1>4 DEF vars, history, RaceInv, Spawning
<1> QED
  BY <1>1, <1>2, <1>3, <1>4 DEF Next

(* With one caller to give the start commands, as the boot task does, no   *)
(* two spawners meet, whether their modules take the mutex or not: until a *)
(* stop or a start gives up, every used slot is that of one thread, and no *)
(* thread is lost.                                                         *)
THEOREM OneStarterSlots ==
  ASSUME OneStarter
  PROVE  Spec => [](~left => OneThreadPerSlot)
<1>1. RaceInv => ~raced
  BY DEF RaceInv, OneStarter
<1>2. IInv /\ ~raced => (~left => OneThreadPerSlot)
  BY DEF IInv, SoundInv, SlotPart
<1> QED
  BY <1>1, <1>2, Invariant, InitRace, StepRace, PTL DEF Spec
=============================================================================
