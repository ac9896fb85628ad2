# TLA+ verification of esp32p4-px4-hil

The firmware runs PX4 on one core of an ESP32-P4 and an 8 kHz motor loop on the
other. PX4's estimator and controllers are upstream code and floating point;
what this firmware adds is the *plumbing* they stand on: memory shared between
the cores without locks, a bridge that decides whether a motor may turn, the
timer every module is scheduled with, a clock that is set from outside, a table
of tasks; and what PX4 brings along to schedule its modules on it, the work
queues and the topics. That plumbing is what is modelled, model-checked with TLC
and proved with TLAPS here.

Paths are relative to `src/main/` unless they begin with `src/`. Of the files
named under `PX4/platforms/common` the build takes identical copies under
`PX4/src/lib` where there are any (`CMakeLists.txt:55-82`: uORB,
`module_base.cpp`).

## 1. Inventory

### How the parts interact

    Core 0 (FreeRTOS, PX4)                              Core 1
    --------------------------------------------        --------------------
    esp_timer task (22) -> hrt_tim_isr -> callouts
          |  queue work items
          v
    work queues -> PX4 modules <-> uORB topics
                                    |
             actuator_armed, actuator_motors,
             vehicle_attitude, vehicle_local_position
                                    v
    fc_ekf_task (21, every 4 ms)
      fc_px4_ekf2_to_seqlock      --- g_fc_ekf_output_seqlock --> fc_task_main
      fc_px4_actuator_to_seqlock  --- g_fc_motor_cmd_seqlock  --> (125 us loop)
                                                                   |  DShot/RMT
    fc_logger  <------------------ g_fc_seqlock ------------------ |  to the ESCs
         ^
         | MAVLink (UDP): sensors, SYSTEM_TIME, actuator controls
         v
    host: Gazebo and the bridges of src/hil/

### Components

| Component | Source | State it keeps | Operations | What is hard | What makes it correct |
|---|---|---|---|---|---|
| Seqlocks between the cores | `fc_core.h` | a counter and a record, three times | `fc_seqlock_write/read`, `fc_ekf_output_seqlock_*`, `fc_motor_cmd_seqlock_*` | two cores, plain word copies, a writer that dies inside its write, 32-bit wrap | a successful read is one complete write, not older than the call; a capped read returns |
| Motor-command bridge and Core 1 loop | `fc_px4_modules.cpp`, `fc_core.c` | last armed message, unread sample, the command, next cycle, channels | `fc_px4_actuator_to_seqlock`, `fc_task_main` | crash or starvation of Core 0 anywhere in a pass, stale stamps, the closing gate racing a pass | no thrust on an old command; a closed gate reaches the motors in bounded time |
| DShot output | `fc_core.c` | per channel: frame, RMT payload buffer | `fc_mixer_apply`, `fc_dshot_set_throttle`, `fc_dshot_encode_frame`, `fc_dshot_stop_all` | rounding and limits, 16-bit frame, a buffer shared with a peripheral | in range, ordered, accepted by an ESC |
| High-resolution timer | `PX4/platforms/posix/src/px4/common/drv_hrt.cpp`, `fc_sched/fc_hrt_esp_timer.c` | callout queue, lock, one one-shot timer | `hrt_call_after/every/at`, `hrt_cancel`, `hrt_tim_isr` | callouts run unlocked, callers preempted before the lock, overruns | sorted queue without duplicates, no lost deadline, cancellation sticks, no drift |
| EKF output bridge | `fc_px4_modules.cpp`, `fc_core.c` | last two topics, health flags, stamp | `fc_px4_ekf2_to_seqlock` | one topic moves, the other stands still | nothing in the firmware depends on it: the health flag is written and never read |
| Simulated time | `fc_px4_tasks.cpp`, `SimulatorMavlink.cpp` | base, real time of the base, active flag | `__wrap_clock_settime`, `__wrap_hrt_absolute_time`, `__wrap_sem_timedwait` | 64-bit values in two words, a setting and a reading that interrupt each other, late and overtaking messages | samples carry the simulator's time; a torn reading is wrong by a known amount |
| PX4 task layer | `fc_px4_tasks.cpp`, `PX4/src/lib/matrix/px4_platform_common/module_base.cpp`, `SimulatorMavlink.cpp` | 16 task slots, a descriptor per module, one mutex | `start_command`, `stop_command`, `simulator_mavlink_main`, `px4_task_spawn_cmd`, `px4_task_delete`, the trampolines | slots without a lock, spawners that do not take the mutex, threads faster than their creator, commands that give up | one thread per slot, one object per module, no dangling pointer, commands return |
| Work queues | `PX4/platforms/common/px4_work_queue/`, `IntrusiveQueue.hpp` | per queue: list, lock, two semaphores, attached items | `Add`, `Remove`, `Run`, `Attach`, `Detach`, `ScheduleNow/Delayed/OnInterval/Clear`, destructors | test and sleep of the worker, a timer callout in flight, deletion against publishers, the end of the queue | added work runs; cleared or deleted work does not; the queue outlives its users |
| uORB topics | `PX4/platforms/common/uORB/`, `SubscriptionCallback.hpp` | ring, generation, callbacks; per subscriber a generation | advertise, publish, `subscribe`, `update`, `copy`, callbacks | overrun between test and copy, unlocked `++`, wrap of the counter, first allocation | samples in order, the oldest kept after an overrun, no callback missed |
| Commander, control allocator, mixer | upstream PX4 | state machines | publish `actuator_armed`, `actuator_motors` | when they publish and when not | environment of the bridge |
| Estimator, flight controllers | upstream PX4 | filters | `Run` | numerics | not for a model checker |
| HIL host bridges | `src/hil/*.py` | last controls, heartbeat | receive, publish, watchdog threads | stale relay, timeout bounds | the simulation stops when the board dies |
| C6 Wi-Fi/BT controller | `c6_controller.c` | scan results, NVS | init, scan with time-out | late scan event | - |
| Boot, Ethernet, HTTP, LittleFS, logger | `main.c`, `eth.c`, `http_server.c`, `littlefs_fs.c`, `logger/` | handles | start-up, files | pure I/O; the HTTP server is never started | - |
| Build tools | `src/tools/` | - | parameter tables | - | - |

The complete list of hazards, each at its line and with the properties that
would catch it going wrong (or a note why none does yet), is in `PROJECT.json`.

## 2. The modules

| Module | Models |
|---|---|
| `SnapshotCell` | abstract: a cell published atomically, read by calls that return one version current between call and return, or give up |
| `SeqLock` | the seqlock protocol of `fc_core.h`, word by word; implements `SnapshotCell` |
| `MotorBridge` | topics, the pass of `fc_ekf_task`, the faults of Core 0, the loop of Core 1 |
| `DshotFrame` | a command's way into the sixteen bits of a DShot frame |
| `HrtCallout` | callout queue, lock, timer task and preempted callers |
| `WorkList` | abstract: items are pending in the order of their scheduling, each at most once |
| `WorkQueue` | one work queue with its worker, items, publishers and the timer task; implements `WorkList` |
| `UorbTopic` | abstract: numbered samples of which the last few are kept; each subscriber has a position |
| `UorbNode` | a topic with ring, generation counter and callbacks; implements `UorbTopic` |
| `SimClock` | the clock under simulated time, word by word, with late and lost messages |
| `TaskLayer` | start and stop of modules above the table of tasks |
| `SeqLockProofs`, `MotorBridgeProofs`, `DshotFrameProofs`, `HrtCalloutProofs`, `WorkQueueProofs`, `UorbNodeProofs`, `SimClockProofs`, `TaskLayerProofs` | the theorems about each of them |
| `MCSeqLock`, `MCMotorBridge`, `MCHrtCallout`, `MCWorkQueue`, `MCUorbNode`, `MCTaskLayer` | finite instances for TLC |

How they compose: `MotorBridge` uses the seqlock as the cell that `SeqLock` is
proved to implement, and a topic as its last sample with one unread flag, a
subscriber of `UorbNode` with a queue of one. `WorkQueue` contains the part of
`HrtCallout` that schedules items (`Fire` is a callout) and the publishers of
`UorbNode` (`ScheduleNow` is what `Call` does); `UorbNode` in turn reduces the
work queue to the set `scheduled`, which `NoLostWakeup` and `Served` justify.

Operators preceded by "Mutant:" are plausible wrong versions of the definition
next to them. No specification uses them: they exist so that each property can
be seen to fail when the code is changed that way (`PROJECT.json`, "mutants").
History variables are marked "history" where they are declared; no guard reads
them, with one exception, the timing assumption `NoFullTurn` below.

### SeqLock

One writer, any number of readers. `sequence` is the counter modulo `SeqMod`
(2^32 in the code), `data` the record; a word holds the number of the write
that stored it, so that a torn or old copy is visible as such. The writer's
increments and each word store are separate steps (`BeginWrite`, `StoreWord`,
`EndWrite`), in any order of the words, since a struct assignment promises
none. A reader attempts (`Attempt`: s1), copies (`LoadWord`), checks (`Check`:
s2 and the exit condition of the loop) and retries, with the cap of
`FC_SEQLOCK_MAX_TRIES` (`GiveUp`) or without (`fc_seqlock_read`). `Die` stops
the writer anywhere. `sequence` is not volatile and nothing separates the s2 of
one attempt from the s1 of the next, so `Sample` also allows the old value to
be kept. The barriers that stand in the code order counter and copy; the model
relies on them.

*Assumption `NoFullTurn`*: the counter never goes all the way round between two
samples of one reader. A full turn is 2^31 writes: 99 days at 250 Hz, for an
attempt that copies a few dozen bytes.

### MotorBridge

Time is discrete. `PublishArmed` and `PublishMotors` are what Commander and the
control allocator may do at any time; the allocator's publications are not tied
to arming (`ControlAllocator.cpp:709`). A pass of `fc_ekf_task` is a step for
each access to something shared: `ReadGate` (the safe gate), `Update` or
`NoUpdate`, `Stamp`, `BeginWrite`, `EndWrite`. Between any two of them the task
may die or stall (`Fail`, `Resume`). Core 1 reads (`ReadCmd`) and drives
(`Drive`), applying the staleness guard; channels whose initialisation failed
are not driven. The seqlock is used as the atomic cell it is proved to
implement; a read that overlaps a write fails, which is the worst the cap can
do. `Tick` lets time pass only while nobody misses its deadline: Core 1 runs
nothing but this loop, and the pass is late by at most `PassSlack` unless it is
stalled, which is a fault of its own.

Built with `FC_CORE1_MOTOR_OUT`, `FC_CORE1_MOTOR_SAFEGATE` and
`FC_CORE1_STALE_GUARD`, as the firmware is.

### DshotFrame

`fc_mixer_apply`, `fc_dshot_set_throttle` and `fc_dshot_encode_frame` as
functions, for every command in thousandths and both values of the telemetry
bit; the receiver's view (`ReceivedThrottle`, `XorChecksum`) follows the
description of the frame in PX4's own DShot driver, which is in the repository.
Each product of the scaling is at least 1/1000 away from an integer (except the
exact end points), so that the truncation of the float product is the integer
division. Bits are taken and flipped by arithmetic (`Bit`, `Flip`; `0x0D` flips
bits 0, 2 and 3), not with the module `Bitwise`, from which no theorem may be
reached.

### HrtCallout

Every section under `_hrt_lock` is one action. A caller computes its deadline
(`Ask`) and may be preempted before it takes the lock (`CallInternal`);
`Cancel` is `hrt_cancel`. `Dispatch`, `Lock`, `Invoke`, `Return`, `Unlock` and
`Rearm` are `hrt_tim_isr` with `hrt_call_invoke` inlined: the lock is released
between `Invoke` and `Return`, while the callout runs, and between `Unlock` and
`Rearm`. `Reschedule` is `hrt_call_reschedule` with both of its limits.

Two things about the code shape the model. `drv_hrt.cpp` calls its own
`hrt_absolute_time`, which the linker's `--wrap` does not redirect within a
translation unit: the queue lives on the real, monotonic clock even when PX4's
time is simulated. And a periodic entry is started once, or after its
cancellation, and not from its own callout; `Ask` states that discipline of the
callers. Without it the entry is linked twice (a listed hazard).

### WorkQueue

One queue from its creation to its destruction, with the list written as the
code has it (`Push`, `Pop`, `Unlink` on `head`, `tail`, `next`). A thread is a
label and the item of its operation; taking `_qlock` (`Lock`) is a step, and so
is each section under it. `SignalWorkerThread` is two steps, `Signal`
(`px4_sem_getvalue`) and `Post`, the worker's loop `Check`, `Wait`, `Take`,
`Drained`, and the end of the queue `Detach`, `Signal`, `Post`, `Unlock`,
`ExitPost` against `Unlist`, `Destroy`. The semaphore is the one of ESP-IDF
(`sem.h`, `__PX4_ESPIDF`): its value does not fall below zero.

An item comes into being by `Find`, `Attach` and `Start` (or `StartFails`) of a
thread that starts a module, and ends in its own `Run()`: `Exit`, then for a
timed item `ClearQueued` and `Remove`, then `Deinit`, `Remove`, `Detach`. A
thread that found a queue which is destroyed before it attaches is `lost`: the
pointer it holds is no longer valid (a listed hazard).

What the model takes from the firmware: the esp_timer task has priority 22, more
than every thread that uses the queue, and all of them are on Core 0
(`TimerRuns`); `ScheduleClear` is called from the item's own `Run()` or
destructor; `unregisterCallback` waits for the publishers inside the callback.

### UorbNode

Publishers and work-item subscribers of one topic. `Publish`, `Allocate` and
`Write` are `DeviceNode::write` with its unlocked test for memory; the lock is
held from `Write` through a `Call` for each callback to `Written`.
`Update`, `Copy` and `Increment` are a subscriber's `update()`: test, copy under
the lock, and the `++generation` after it. The counter is modulo `GenMod`
(2^32); a subscriber that does not read for a whole turn of it is excluded
(`NoLap`).

### SimClock

`Receive`, `StoreBase`, `SampleTimer`, `StoreRef`, `Activate`, `StampSample` are
`handle_message_hil_sensor` with `__wrap_clock_settime` inlined; each 64-bit
store is two words. A reader of higher priority sees the clock in the middle of
that (`Clock`, evaluated in every state); one of lower priority is interrupted
between its loads (`BeginRead`, `LoadRef`, `LoadBase`). Messages are late by up
to `MaxDelay`, overtake each other, or get lost; the simulator may `Die`.

### TaskLayer

Four kinds of modules: a task, a task that is waited for, an item of a work
queue, and a *direct* one. The first three are started and stopped by
`start_command` and `stop_command` under `px4_modules_mutex`; a direct one, of
which `simulator_mavlink` is the model, calls `px4_task_spawn_cmd` and
`px4_task_delete` without it and keeps its `task_id` in a variable of its own
(`StopDirect`, `Forget`). `dataman`, `mavlink` and the manager of work queues
spawn in the same way.

`px4_task_spawn_cmd` is taken apart as the code has it: `Search` looks at one
slot, without a lock; `Claim` fills in and marks the slot found, whoever has
marked it meanwhile; then come `Create` and `Assign`, which the new thread can
overtake. (The stores of `Claim` are one step: only the thread created next
reads what they fill in, and `Begin` reads `entry` when it runs.) `Begin` to
`Return` are the two trampolines. `StartTimeout`, `StopEarly`, `ForceStop` and
`StopDirect` are the ways of giving up; each may leave a thread behind that
nobody can cancel (`left`). Where `ForceStop` deletes a work item whose `Run()` is
being executed, the item leaves its queue or stays: both are possible.

*Nothing in the table keeps two spawners apart.* The mutex serialises ModuleBase
starts only. A direct spawner and any other can find the same slot free, both
mark it, and both threads then run the entry written last; in the model,
`raced` records that two searches overlapped of which one had no mutex, and TLC
finds two threads in one slot as soon as `~raced` is taken out of `SlotSound`.
What makes the firmware safe is that nobody searches at the same time: every
call of `px4_task_spawn_cmd` that is built comes from the one boot task, in
`fc_px4_modules_start`, one after the other (`fc_px4_modules.cpp:406`); the
threads of the work queues are made by `pthread_create`
(`WorkQueueManager.cpp:324`), and the MAVLink shell is a stub
(`fc_px4_mavlink_shell_stub.cpp`). `OneStarter` states that, and the theorem
`OneStarterSlots` proves that `raced` then stays false.

## 3. The runs

| Run | Asks | Bounds | Distinct states |
|---|---|---|---|
| `seqlock` | are reads untorn, fresh, terminating, and an atomic cell? | 1 capped reader (2 tries) and 1 uncapped, 2 words, `SeqMod` 4, 2 writes | 237 522 |
| `motor_bridge` | can a motor thrust on an old command or past a closed gate? | loop 1, pass 1 + slack 1, maximal age 3, time up to 7 | 3.9 million |
| `motor_rearm` | does `valid` mean a fresh sample? (violated) | same, three arming states | - |
| `motor_stop` | is a command of zeros the ESC's stop? (violated) | same | - |
| `dshot_frame` | is every frame in range and in order? | commands -40..1040 thousandths | 2 162 |
| `dshot_checksum` | does an ESC accept the checksum? (violated) | same | - |
| `hrt_callout` | does the queue survive its callers? | 2 tasks, a periodic and a one-shot entry, time up to 7 | 3.0 million |
| `work_queue` | does added work run, and cleared or deleted work not? does the queue outlive its users? | a timed and a plain item, 1 thread besides worker and timer | 57 314 |
| `uorb_node` | in order, the oldest after an overrun, no wake-up missed? | 2 publishers, 1 subscriber, queues of 1 and 2, counter modulo 4, 7 samples | 115 478 |
| `sim_clock` | what is a time stamp worth under simulated time? | words of 16, delays 1, gaps 2, time 12 to 18 | 374 802 |
| `sim_clock_order` | does the clock never go backwards? (violated) | same | - |
| `tasks` | are slots, objects and commands sound? | a module of each of the four kinds, 2 slots, 2 instances, 2 callers, 2 tries to start, 1 to stop | 169 939 |

Why the bounds are enough to see the interesting cases:

- *seqlock*: with `SeqMod` 4 the counter wraps to its initial value at the end
  of the second write; two words are the fewest that can be torn; one write to
  be overtaken and one to overtake give old, new and mixed copies; the cap of 2
  is reached both by a busy and by a dead writer.
- *motor_bridge*: the order loop < pass < maximal age of the code is kept, and
  seven units hold the longest chain of interest: a gate that opens, a pass, a
  closing behind its gate test, a crash, and the expiry of the last command
  (`KillLatency` is 5 with the bridge dead).
- *dshot_frame*: every value at the resolution chosen; both clamps are
  exceeded.
- *hrt_callout*: delays 0 and 6 with `IntervalMax` 5 cover entries that are
  overdue when inserted and deadlines beyond the timer's reach; a callout may
  take as long as an interval allows with `Busy` 1 and period 2; the two tasks
  are symmetric (no property distinguishes them). Clocks are bounded by
  `Horizon`, where the run ends: hence no deadlock check. The bound of
  `NeverLate` is tight: TLC finds a violation when it is shortened by two
  ticks.
- *work_queue*: two items are the fewest with a neighbour in the list; either
  can be the last to leave, and the queue ends within the run; one caller is
  enough to attach both, to publish during a deletion, and to be lost. A second
  caller brought no new label combinations that matter and takes the run beyond
  five minutes; the proofs cover any number.
- *uorb_node*: seven samples are one turn of the counter and most of a second;
  depth 2 with `GenMod` 4 is overrun, and lapped up to `NoLap`; requirements 0
  and 2 are both branches of the callback's test.
- *sim_clock*: time begins below a carry of the board's clock (16) and of the
  simulator's (14), so that both upper words change within the run.
- *tasks*: fewer slots than modules that want one, so that the table fills up;
  two instances are the fewest for a successor of one that was left behind, and
  for two threads in one slot. `boot` starts `navigator` and `simulator`, `shell`
  starts `commander` and `ekf2` and stops `navigator`, `ekf2` and `simulator`, so
  that either pair of spawners, with and without the mutex, overlaps. No start
  is given once all instances were made. States that differ only in the entry of
  a slot which no thread is about to call, or in which of the two histories
  `left` and `raced` is set, are one state (`View`): no action and no property
  tells them apart.

### What the properties say

- `NoTornRead`, `FreshRead`: a read that returns true holds one complete write,
  no older than the last one completed before the call.
- `DeadWriterRejected`: after the writer has died inside its write no read
  returns true, which is what makes Core 1 cut the motors.
- `CappedReadReturns`, `QuiescentReadReturns`: liveness of both readers, the
  second under the condition that the writer eventually stays outside.
- `ImplementsCell`: the protocol refines `SnapshotCell`.
- `AntiFlyaway`: a channel above idle obeys a command stamped less than
  `MaxAge` plus a loop ago, whatever happens to Core 0.
- `KillStops`: disarm, kill, lockdown or termination reaches the pins within
  two passes and a loop, or within `MaxAge` and a loop when the bridge dies.
- `ThrottleRange`, `Monotone`: an ESC never receives a special value, and more
  thrust asked is never less received.
- `QueueSound`, `NeverLate`, `CancelSticks`, `NoDrift`: the timer's queue holds
  each waiting entry once and in order; no deadline is lost; a cancelled entry
  stays out; a periodic one moves by exactly its period.
- `QueueSound` (work queue): from the head one comes to the tail, and what is
  outside the list has no successor. `NoLostWakeup`: the worker never sleeps, or
  is about to, over a queued item without a post on its way. `ClearSticks`:
  after `ScheduleClear` an item is neither armed nor queued, nor about to be by
  a callout that was in flight. `DeadIsUnreachable`: a deleted item is nowhere.
  `ExitSafe`: the queue is destroyed empty, with no thread inside an operation.
  `Served`: a scheduled item runs, or is cleared or deleted.
  `ImplementsWorkList`: the refinement.
- `NoMissedWakeup`: a registered callback whose subscriber is owed as many
  samples as it requires is queued or about to be. `Delivered`: it gets them.
  `ImplementsTopic`: order, overrun and the empty first record, as a refinement.
- `StampsFollowSimulator`: a sample's stamp is the simulator's time of its
  message, later at most by what the receiver was interrupted.
  `ReadBounded`: any reading, torn or not, is behind the simulator by at most
  the delay of a message and the receiver's slack, and ahead by at most the gap
  between messages, up to a multiple of a word, which the formula allows at any
  time.
- `SlotSound`, `InstanceSound`: while nobody has given up and no two spawners
  have raced, a slot is used by exactly one thread and a running object is the
  one its module names.
  `NoDangling`: no descriptor points to a deleted object, whatever was left
  behind. `CommandsReturn`: every start and stop ends.

### Fairness

- `SeqLock`: weak fairness of each reader's steps inside a call. `fc_task_main`
  owns Core 1 and never yields; the logger's task is preempted, not starved for
  ever. The writer gets none: it may die.
- `WorkQueue`: strong fairness of an operation that was begun (it needs the lock,
  which is free again and again), weak fairness of the worker's loop, strong
  fairness of `Return`: `Run()` returns, although it may schedule any number of
  items before. None of the publishers, the timer's firing or a module's exit.
- `UorbNode`: the same for a publication or a reading that was begun, and for
  the work queue that runs what is queued. Nobody has to publish.
- `TaskLayer`: strong fairness of each caller, which needs the mutex unless its
  module is a direct one. None of the instances: a `run()` may ignore the
  request to stop.
- `MotorBridge`, `HrtCallout` and `SimClock` have time instead; "eventually" is a
  bound there.

### Disagreements between the code and what it says of itself

1. `motor_rearm`: `fc_px4_actuator_to_seqlock` returns before
   `s_actuator_motors_sub.update()` while the gate is closed. A sample published
   meanwhile stays unread, and the first pass after arming stamps it with the
   present time and `valid = true`, however old it is; `fc_core.h:341` says that
   `valid` is false without fresh `actuator_motors`.
2. `motor_stop`: a command of zeros is "stop" for `fc_px4_modules.cpp:323`, but
   every layer of `fc_core.c` raises it to 48, the lowest throttle. The stop
   value 0 cannot be sent, not even by `fc_dshot_stop_all`.
3. `dshot_checksum`: the checksum is a shift register over polynomial 0x0D; the
   DShot driver of the repository describes, and sends, the XOR of the nibbles.
   Already the first frame differs.
4. `sim_clock_order`: a HIL_SENSOR message replaces the base of
   `hrt_absolute_time` without a comparison with the time already reached
   (`fc_px4_tasks.cpp:303-305`). A late one sets the clock back, and so does,
   by nearly a word, a reading between the stores of the base's two halves;
   `PX4/src/drivers/drv_hrt.h:60`: "It should never wrap or go backwards."

`KillStops` leaves a fifth observation to its comment, and says nothing of a run
in which the bridge ever stalled: a task stalled between its gate test and its
stamp vouches for a command from before the kill when it resumes. It is a listed
hazard that no property covers; no line of the repository promises otherwise.

## 4. The proofs

Every invariant and every safety action property of the passing runs, and all
three refinements, are theorems. They hold for every number of readers, words, writes, motors, samples, tasks and items
and for every period, jitter and age that the assumptions admit.

*Induction over data.* The library's induction theorems cannot be instantiated
here, but its theorem that `<` is well founded on the naturals can: a set of
naturals that is not empty has a least element (`LeastNumber`). An induction on
the length of a chain, the rounds of a loop or the bits of a word is then a
proof by the smallest counterexample. What a recursive function computes follows
in two steps: some function solves its equation, hence the one that is chosen
does; and whatever solves it agrees with the closed form up to the end.

**SeqLockProofs** (assuming `SeqLockAssumption`: at least one word, an even
modulus above 2). `NoTornRead` is not inductive: that the words agree when s1 =
s2 says nothing while the copy is under way. `IInv` adds

- `ParityInv`: the counter is odd exactly during a write;
- `DataInv`: the record is the last write, or a mixture of the last two whose
  composition `stored` tells;
- `SampleInv`: the counter is the reader's sample plus the increments since;
- `CopyInv`: while an even sample has not been overtaken, every word copied is
  the current version's;
- `FloorInv`: versions complete when the call began stay complete.

When the check passes, `SampleInv` and `NoFullTurn` turn "equal counters" into
"no increment", and `CopyInv` gives both properties. Theorems: `Invariant`,
`Typing`, `NoTear`, `Freshness`, `DeadWriter` (an action property, from
`ParityInv`), `Implementation` (`Spec => Cell!Spec`: an initial state maps to
one, and each step to a step of the cell or a stutter).

**MotorBridgeProofs** (assuming `MotorBridgeAssumption`: positive periods, and
a pass with its slack no longer than the maximal age). `IInv` adds

- `LoopInv`, `PassInv`: where the clock stands between the deadlines of the
  loop and of the pass;
- `AbsentInv`, `StampInv`: idle channels stay idle, stamps are not in the
  future;
- `ObeyInv`: what is on the pins was fresh when the last iteration was due;
- `LastPassInv`, `LastCommandInv`: after the gate closes, the pass that had
  already tested it is the last whose command throttles; its stamp is bounded
  by the closing plus the slack, and so are the command in the seqlock, the one
  Core 1 holds and the one it obeys, one hand-over later each.

Theorems: `Invariant`, `Typing`, `FlyawayBound` (`AntiFlyaway`), `KillBound`
(`KillStops`).

**DshotFrameProofs** (assuming nothing but `DshotFrameAssumption`). What the
receiver reads is compared with what was scaled. `CrcNibble`: the checksum is in
0..15 whatever the shift register does, so it disturbs no bit of the payload
(`FrameIs`). `NextTop` and `TopBits`: taking in bits from the most significant
one holds, after i of them, the word shifted right by 16 - i; hence `Received`:
the eleven bits are the throttle and the twelfth is the telemetry bit.
`CommandedIs` and `CommandedStep` are the arithmetic of the scaling. The
invariant `IInv` only says that the pulses are those of the last command, and
is a lemma (`Inductive`).
Theorems: `Range` (`ThrottleRange`), `Order` (`Monotone`).

**HrtCalloutProofs** (assuming `HrtCalloutAssumption`). What callers and callouts
do to the queue is stated on operators first: an entry inserted `Behind` its
predecessors, and one taken out, leave it sorted and without duplicates
(`InsertSound`, `WithoutSound`). `QueueSound` alone is not inductive: an entry
may enter the queue twice, by its caller and by the timer task that calls it.
`IInv` adds

- `CallInv`, `RequestInv`, `PeriodInv`: what a callout and a caller that has not
  got the lock yet carry with them; only periodic entries have a period;
- `AloneInv`: a periodic entry that is called, or that somebody is about to
  start, is in no queue, and nobody else starts it;
- `CancelInv`: an entry cancelled while it is called has lost its period, so
  that it is not put back;
- `DriftInv`: the deadline a called entry gets next is the one `NoDrift` wants.

`NeverLate` is about a chain of delays: each insertion of an overdue entry gives
an expiry that was already due another `IntervalMin`. `TInv` bounds the chain:

- `ArmedInv`: while `hrt_tim_isr` does not run, the timer is due no later than
  the deadline of any waiting entry, or than `IntervalMin` from now;
- `BudgetInv`: it is due no later than the entry was owed, plus `Busy`, plus
  `IntervalMin`, plus one timer run for each task *without* a request that could
  still go ahead of the entry (`Ahead`, `Spent`). A request that does go ahead
  pays for the run it costs; a new one that could go ahead is only made before
  the entry's deadline, when `ArmedInv` says that nothing is lost yet;
- `OwedInv`, `RunInv`, `FreshInv`: an entry that waits when `hrt_tim_isr` sets
  the timer for the last time was not due when it began.

That the number of tasks is finite (`HrtCalloutAssumption`) is what makes the
bound one. Theorems: `Invariant`, `Typing`, `SoundQueue` (`QueueSound`),
`Cancellation` (`CancelSticks`), `Punctuality` (`NoDrift`), `Timing` (`TInv`),
`Latency` (`NeverLate`).

**WorkQueueProofs** (assuming `WorkQueueAssumption`). That the queue outlives its
users, and that no wake-up is lost, depend on each other and on where every
thread is. `IInv` adds

- `WhereInv`, `LockInv`: which thread can be where, and that the holder of the
  lock is in a section or at the end of `Detach`;
- `ExitInv`: at most one thread ends the queue, and it has not yet posted the
  exit semaphore;
- `LifeInv`, `OwnerInv`: the operation that begins or ends the life of an item
  has it to itself;
- `UseInv`: an item that somebody schedules is attached, and once the queue has
  been told to stop none is;
- `TimerInv`: the hard case, a callout in flight to an item that is being
  deleted: the destructor has not got the lock, and will not before the timer;
- `ListInv`, `LinkInv`: the intrusive list as far as two neighbours can tell:
  `head` and `tail` are both empty or neither, no two items have the same
  successor, only the tail has none, and what is linked is attached.

The contents of the list come second. `ChainInv` says that some sequence of
distinct items is what the pointers spell (`Spells`); `PushChain`, `PopChain` and
`UnlinkChain` follow it through the three operations of `IntrusiveQueue.hpp`, and
`QueuedIsChain` shows that the walk along `next` from the head is that sequence.
It ends because the items are finitely many (`IsFiniteSet(Items)`, part of the
assumption) and none comes twice. `LeaveInv` (an item that has left the list of
work items but is still attached is in its destructor; nobody ends the queue
unless it was told to stop) and `IdleInv` (a cleared item can be added again only
by a callout that was in flight, and then the clearing still waits for the lock)
complete the invariant `QInv`.

Theorems: `Invariant`, `Typing`, `WakeUp` (`NoLostWakeup`), `SafeExit`
(`ExitSafe`), `SoundQueue` (`QueueSound`), `Clears` (`ClearSticks`),
`DeadStaysAway` (`DeadIsUnreachable`), `Refinement` (`Spec => ImplementsWorkList`: `Push` is the list's `Add`, `Pop` its `Take`,
`Unlink` its `Remove` or, of an item that is not queued, a stutter).

**UorbNodeProofs** (assuming `UorbNodeAssumption`: every depth divides the range
of the counter). The arithmetic comes first: `%` by the uniqueness of quotient
and remainder, the distance of two generations as the counter wraps
(`Distance`, `Ahead`, `Closer`, `Back`), what `is_in_range` decides (`Reads`),
and that a sample goes to a slot of its own (`SlotStep`). `IInv` adds

- `NodeInv`, `ValidInv`: memory and advertisement come before the first sample,
  validity with the end of the first write;
- `SubscribedInv`: who has no node neither runs nor is scheduled;
- `UnreadInv`: a subscriber is behind by no more than was published;
- `RingInv`: the k-th last sample is in the slot of the k-th last generation.

No relation between the generation and the number of samples is needed: the
proof uses distances only. Theorems: `Invariant`, `Typing`, `Wakeups`
(`NoMissedWakeup`), `Refinement` (`Spec => ImplementsTopic`: `Write` is the
topic's `Publish`; `Copy` its `Update`, `Repeat` or `Blank`; all others but
`Subscribe` are stutters, `Increment` among them).

**SimClockProofs** (assuming `SimClockAssumption`). A stamp is the simulator's
time only if nothing of the clock's three variables is old when it is taken.
`IInv` adds `Before` (the order of the times involved), `HandlingInv` (the
handling of a message is not interrupted for longer than `Slack`), `BaseInv` and
`RefInv` (the words already stored are those of the message's time and of a
time of the board's clock since the message came).

`ReadBounded` is about readings in any state. A wrong upper word is worth a
multiple of a word (`LowPart`, `JoinLow`), so `RInv` is about the lower ones only:
`GapInv` (the last message is no older than the largest gap), `SettledInv` (between
two settings the lower words are those of the last one), `SettingInv` (during one,
each is the old one's until it is stored), `ReaderInv` (what a reader that was
interrupted has loaded so far). Theorems: `Invariant`, `Typing`,
`Stamps` (`StampsFollowSimulator`), `Readings` (`ReadBounded`).

**TaskLayerProofs** (assuming `TaskLayerAssumption`). The pointers that stay
sound whatever was left behind are invariants of every state; the sole use of a
slot and of an object holds until somebody gives up or two spawners race
(`SoundInv` is `~left /\ ~raced => SlotPart /\ InstPart`). `IInv` adds

- `ShapeInv`, `ObjectInv`: what an instance in each phase has, and that an
  object is made once and named by one descriptor at most;
- `CallerInv`: who holds the mutex, and what is true of its module until it
  lets go;
- `SearchInv`, `FoundInv`, `EntryInv`: one caller searches at a time, so that the
  slot it found stays free until it marks it, and the entry it wrote stays until
  its thread exists;
- `OneInv`, `LinkInv`, `OwnInv`, `RunInv`: a module has at most one instance
  before its clean-up; its descriptor, or the caller that has not assigned it
  yet, knows its slot; and the other way round.

`RaceInv` is an invariant of its own: only a caller that gives start commands
searches, and two have raced only if there are two of them.

Theorems: `Invariant`, `Typing`, `SlotOwnership` (`SlotSound`),
`InstanceOwnership` (`InstanceSound`), `NoDanglingPointer` (`NoDangling`), and
`OneStarterSlots`: under `OneStarter`, `SlotSound` without the condition `~raced`.

**Only model-checked**: the liveness properties under fairness
(`CappedReadReturns`, `QuiescentReadReturns`, `Served`, `Delivered`,
`CommandsReturn`), for which the prover would need `ENABLED`. The four violated
properties are refuted by a counterexample of TLC each.

## 5. Not modelled, and why

- *Estimator, flight controllers, Commander, control allocator*: upstream PX4,
  numerics and large state machines. `MotorBridge` keeps what they publish as its
  environment, free to publish anything at any time.
- *EKF output bridge*: the stamp and the health flag it computes are written
  and never read.
- *HIL host bridges*: Python on the host; what would be checked is the
  simulation they drive. Their hazards are listed.
- *C6 controller, boot, Ethernet, LittleFS, HTTP, logger, build tools*:
  start-up sequences and I/O without concurrent state of their own.
- *DShot*: the payload buffer and the RMT peripheral, which are ESP-IDF's; the
  initialisation of channels is a constant of `MotorBridge`.
- *MotorBridge*: the statistics of the loop, and the catching-up of the cycle
  counter after an overrun of Core 1.
- *HrtCallout*: the latency histogram, `hrt_call_delay`, entries without a
  callout function, failure of `esp_timer_create`.
- *WorkQueue*: `Clear()` and `print_status`, which nothing calls here, lockstep,
  which is not built, the creation of queues by the manager's thread,
  `ChangeWorkQueue`, and the deletion of an item by another thread while it is
  inside `Run()`.
- *uORB*: unadvertise, subscription intervals other than 0, poll through file
  descriptors, the creation of nodes.
- *SimClock*: `__wrap_sem_timedwait`, which reads two clocks one after the other,
  and `CLOCK_REALTIME`.
- *TaskLayer*: the direct spawners other than `simulator_mavlink`; the map of
  priorities and stack sizes; `px4_task_exit` and
  `px4_task_kill`, which have no caller; `status` and the modules' own commands.
  The firmware itself only starts modules; `stop` is part of the code all the
  same. `StopEarly` is the branch whose comment
  (`module_base.cpp:145`) speaks of work queues only; a task
  whose start was not waited for can be stopped there, too.

## 6. The plan

Done, in this order: `SeqLock` and its refinement, `MotorBridge`, `DshotFrame`,
`HrtCallout`, `WorkQueue`, `UorbNode`, `SimClock`, `TaskLayer`, and the proofs of
each.

Left, in the order of what it would guard:

1. `UorbNode` with `unadvertise` and subscription intervals, where a work item
   is scheduled by time as well as by samples.
2. The whole of a scheduled item: `HrtCallout`, `WorkQueue` and `UorbNode` in
   one specification, with the interfaces now argued for (section 2) as
   refinements.
3. The DShot channel with the RMT's ownership of the payload buffer, once the
   driver's promises are pinned down.
