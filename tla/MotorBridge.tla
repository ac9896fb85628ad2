---------------------------- MODULE MotorBridge ----------------------------
(***************************************************************************)
(* The path of a motor command from PX4 to the ESC pins: uORB topics on    *)
(* Core 0, the bridge pass of fc_ekf_task (fc_px4_actuator_to_seqlock),    *)
(* the motor-command seqlock, and the 8 kHz loop of fc_task_main on Core 1 *)
(* that drives DShot.  Built with FC_CORE1_MOTOR_OUT,                      *)
(* FC_CORE1_MOTOR_SAFEGATE and FC_CORE1_STALE_GUARD.                       *)
(*                                                                         *)
(* Time is discrete.  The bridging task may die or be stalled between any  *)
(* two of its steps; Commander and the control allocator publish whenever  *)
(* they like.  The seqlock is the atomic cell module SeqLock is proved to  *)
(* implement, with a read that overlaps a write failing.                   *)
(***************************************************************************)
EXTENDS Integers

CONSTANTS
  Motors,       \* the FC_MAX_MOTORS channels
  Present,      \* those whose fc_dshot_init_channel succeeded
  NaN,          \* the actuator_motors value of a stopped motor
  Samples,      \* the actuator_motors.control vectors (percent, or NaN)
  ArmStates,    \* the actuator_armed messages, as the set of flags that are up
  LoopPeriod,   \* period of the Core 1 loop (125 us)
  LoopJitter,   \* how late within its slot an iteration may still drive
  PassPeriod,   \* vTaskDelay between two bridge passes (4 ms)
  PassSlack,    \* wake-up latency and duration of a pass that is not stalled
  MaxAge,       \* FC_MOTOR_CMD_MAX_AGE_US (100 ms)
  Horizon       \* bound on time, for TLC

DSHOT_THROTTLE_MIN == 48
DSHOT_THROTTLE_MAX == 2047
DSHOT_DISARM_VALUE == 0

ASSUME MotorBridgeAssumption ==
  /\ NaN \notin Int
  /\ Samples \subseteq [Motors -> Int \cup {NaN}]
  /\ ArmStates \subseteq SUBSET {"armed", "lockdown", "kill", "termination"}
  /\ {} \in ArmStates
  /\ LoopPeriod \in Nat \ {0} /\ LoopJitter \in Nat
  /\ PassPeriod \in Nat \ {0} /\ PassSlack \in Nat
  /\ MaxAge \in Nat /\ PassPeriod + PassSlack <= MaxAge
  /\ Present \subseteq Motors
  /\ Horizon \in Nat

VARIABLES
  now,          \* esp_timer_get_time()
  armed,        \* topic actuator_armed: the flags of the last message
  pending,      \* the actuator_motors sample s_actuator_motors_sub has not read;
                \* age (history): since it was published, MaxAge for more
  tpc,          \* fc_ekf_task: "sleep", "update", "stamp", "write", "commit"
  mode,         \* fc_ekf_task: "run", "stalled" (runs again later), "dead"
  wakeAt,       \* when its vTaskDelay ends
  mc,           \* its local fc_motor_cmd_t
  cmd,          \* the seqlock's data
  writing,      \* the seqlock's counter is odd
  cpc,          \* fc_task_main: "spin" or "drive"
  slot,         \* next_cycle: when the current iteration was, or will be, due
  rd,           \* its local mc; NoCommand if the read failed (mc_ok)
  out,          \* the throttle last sent on each channel
  driven,       \* history: the command it comes from; NoCommand if none
  closedAt,     \* history: when the gate closed, while it is closed
  late          \* history: fc_ekf_task has been stalled

taskVars == <<tpc, mode, wakeAt, mc, late>>
coreVars == <<cpc, slot, rd, out, driven>>
topicVars == <<armed, pending, closedAt>>
vars == <<now, armed, pending, tpc, mode, wakeAt, mc, cmd, writing,
          cpc, slot, rd, out, driven, closedAt, late>>

Zero == [m \in Motors |-> 0]

(* armed && !lockdown && !kill && !termination                             *)
MotorsAllowed(flags) == flags = {"armed"}

NoSample == [unread |-> FALSE, control |-> [m \in Motors |-> NaN], age |-> 0]

\* Mutant: the (v == v) test is missing.
CleanRaw(control) == control

\* NAN (stopped motor) -> 0
Clean(control) == [m \in Motors |-> IF control[m] = NaN THEN 0 ELSE control[m]]

(* fc_mixer_apply, fc_dshot_set_throttle: n clamped to [0,1], then scaled  *)
(* to 48..2047; values are percentages here.                               *)
Clamp(n) == IF n < 0 THEN 0 ELSE IF n > 100 THEN 100 ELSE n
Throttle(n) ==
  DSHOT_THROTTLE_MIN + (Clamp(n) * (DSHOT_THROTTLE_MAX - DSHOT_THROTTLE_MIN)) \div 100

(* fc_motor_cmd_t; old (history): its sample had reached MaxAge when read. *)
Cmd == [motor : [Motors -> Int], time_us : Nat, valid : BOOLEAN, old : BOOLEAN]

\* .bss
NoCommand == [motor |-> Zero, time_us |-> 0, valid |-> FALSE, old |-> FALSE]

Init ==
  /\ now = 0
  /\ armed = {}
  /\ pending = NoSample
  /\ tpc = "sleep"
  /\ mode = "run"
  /\ wakeAt = PassPeriod
  /\ mc = NoCommand
  /\ cmd = NoCommand
  /\ writing = FALSE
  /\ cpc = "spin"
  /\ slot = LoopPeriod
  /\ rd = NoCommand
  /\ out = [m \in Motors |-> IF m \in Present THEN DSHOT_THROTTLE_MIN ELSE DSHOT_DISARM_VALUE]
  /\ driven = NoCommand
  /\ closedAt = 0
  /\ late = FALSE

-----------------------------------------------------------------------------
(* PX4 on Core 0.                                                          *)

\* Commander publishes actuator_armed when it changed.
PublishArmed(flags) ==
  /\ flags # armed
  /\ armed' = flags
  /\ closedAt' = IF MotorsAllowed(flags) THEN 0
                 ELSE IF MotorsAllowed(armed) THEN now ELSE closedAt
  /\ UNCHANGED <<now, pending, taskVars, cmd, writing, coreVars>>

\* The control allocator publishes actuator_motors, armed or not.
PublishMotors(control) ==
  /\ pending' = [unread |-> TRUE, control |-> control, age |-> 0]
  /\ UNCHANGED <<now, armed, closedAt, taskVars, cmd, writing, coreVars>>

-----------------------------------------------------------------------------
(* One pass of fc_ekf_task, as far as the motor command is concerned.      *)

Running(from) == mode = "run" /\ tpc = from

\* The locals of the pass are gone; vTaskDelay.
EndPass ==
  /\ tpc' = "sleep"
  /\ wakeAt' = now + PassPeriod
  /\ mc' = NoCommand
  /\ UNCHANGED <<mode, late>>

\* Mutant: FC_CORE1_MOTOR_SAFEGATE off, "raw read".
ReadGateRaw ==
  /\ Running("sleep") /\ now >= wakeAt
  /\ tpc' = "update"
  /\ UNCHANGED <<now, topicVars, mode, wakeAt, mc, late, cmd, writing, coreVars>>

\* s_actuator_armed_sub.copy(), and the stop command if motors are not allowed.
ReadGate ==
  /\ Running("sleep") /\ now >= wakeAt
  /\ tpc' = IF MotorsAllowed(armed) THEN "update" ELSE "stamp"
  /\ UNCHANGED <<now, topicVars, mode, wakeAt, mc, late, cmd, writing, coreVars>>

\* s_actuator_motors_sub.update(): nothing is written without a new sample.
NoUpdate ==
  /\ Running("update") /\ ~pending.unread
  /\ EndPass
  /\ UNCHANGED <<now, topicVars, cmd, writing, coreVars>>

Update ==
  /\ Running("update") /\ pending.unread
  /\ mc' = [mc EXCEPT !.motor = Clean(pending.control), !.old = pending.age = MaxAge]
  /\ pending' = NoSample
  /\ tpc' = "stamp"
  /\ UNCHANGED <<now, armed, closedAt, mode, wakeAt, late, cmd, writing, coreVars>>

\* mc.time_us = esp_timer_get_time(); mc.valid = true
Stamp ==
  /\ Running("stamp")
  /\ mc' = [mc EXCEPT !.time_us = now, !.valid = TRUE]
  /\ tpc' = "write"
  /\ UNCHANGED <<now, topicVars, mode, wakeAt, late, cmd, writing, coreVars>>

BeginWrite ==
  /\ Running("write")
  /\ writing' = TRUE
  /\ tpc' = "commit"
  /\ UNCHANGED <<now, topicVars, mode, wakeAt, mc, late, cmd, coreVars>>

EndWrite ==
  /\ Running("commit")
  /\ cmd' = mc
  /\ writing' = FALSE
  /\ EndPass
  /\ UNCHANGED <<now, topicVars, coreVars>>

\* Core 0 dies, or the task is starved or blocked and resumes later.
Fail(how) ==
  /\ mode = "run" /\ how \in {"stalled", "dead"}
  /\ mode' = how
  /\ late' = (late \/ how = "stalled")
  /\ UNCHANGED <<now, topicVars, tpc, wakeAt, mc, cmd, writing, coreVars>>

Resume ==
  /\ mode = "stalled"
  /\ mode' = "run"
  /\ wakeAt' = now
  /\ UNCHANGED <<now, topicVars, tpc, mc, late, cmd, writing, coreVars>>

-----------------------------------------------------------------------------
(* One iteration of fc_task_main.                                          *)

\* fc_motor_cmd_seqlock_read; a failed read is mc_ok = false.
ReadCmd ==
  /\ cpc = "spin" /\ now >= slot
  /\ rd' = IF writing THEN NoCommand ELSE cmd
  /\ cpc' = "drive"
  /\ UNCHANGED <<now, topicVars, taskVars, cmd, writing, slot, out, driven>>

\* Mutant: FC_CORE1_STALE_GUARD off, "valid only".
FreshValid == rd.valid

\* mc_fresh
Fresh ==
  LET age == now - rd.time_us
  IN  rd.valid /\ age >= 0 /\ age < MaxAge

\* Channels that were not initialised are skipped.
Send(value) ==
  out' = [m \in Motors |-> IF m \in Present THEN Throttle(value[m]) ELSE out[m]]

Drive ==
  /\ cpc = "drive"
  /\ Send(IF Fresh THEN rd.motor ELSE Zero)
  /\ driven' = IF Fresh THEN rd ELSE NoCommand
  /\ cpc' = "spin"
  /\ slot' = slot + LoopPeriod
  /\ rd' = NoCommand
  /\ UNCHANGED <<now, topicVars, taskVars, cmd, writing>>

-----------------------------------------------------------------------------
(* Time passes unless an iteration or a pass would miss its deadline: Core *)
(* 1 runs nothing else, and fc_ekf_task has priority 21 on Core 0.         *)
Tick ==
  /\ now < Horizon
  /\ now < slot + LoopJitter
  /\ mode = "run" => now < wakeAt + PassSlack
  /\ now' = now + 1
  /\ pending' = [pending EXCEPT !.age = IF pending.unread /\ @ < MaxAge THEN @ + 1 ELSE @]
  /\ UNCHANGED <<armed, closedAt, taskVars, cmd, writing, coreVars>>

Px4 == (\E f \in ArmStates : PublishArmed(f)) \/ (\E c \in Samples : PublishMotors(c))
Pass == ReadGate \/ NoUpdate \/ Update \/ Stamp \/ BeginWrite \/ EndWrite
Fault == (\E how \in {"stalled", "dead"} : Fail(how)) \/ Resume
Loop == ReadCmd \/ Drive

Next == Px4 \/ Pass \/ Fault \/ Loop \/ Tick

Spec == Init /\ [][Next]_vars

-----------------------------------------------------------------------------
(* Properties.                                                             *)

TypeOK ==
  /\ now \in Nat
  /\ armed \in ArmStates
  /\ pending \in [unread : BOOLEAN, control : [Motors -> Int \cup {NaN}], age : 0..MaxAge]
  /\ tpc \in {"sleep", "update", "stamp", "write", "commit"}
  /\ mode \in {"run", "stalled", "dead"}
  /\ wakeAt \in Nat
  /\ mc \in Cmd /\ cmd \in Cmd /\ rd \in Cmd /\ driven \in Cmd
  /\ writing \in BOOLEAN
  /\ cpc \in {"spin", "drive"}
  /\ slot \in Nat
  /\ out \in [Motors -> Int]
  /\ closedAt \in Nat
  /\ late \in BOOLEAN

Thrusting == \E m \in Motors : out[m] > DSHOT_THROTTLE_MIN

(* Anti-flyaway (FC_CORE1_STALE_GUARD): whatever happens to Core 0, a      *)
(* channel above idle obeys a command stamped less than MaxAge before its  *)
(* loop iteration, that is less than MaxAge plus one loop ago.             *)
AntiFlyaway == Thrusting => now - driven.time_us < MaxAge + LoopPeriod + LoopJitter

(* FC_CORE1_MOTOR_SAFEGATE: a disarm, kill, lockdown or termination stops  *)
(* the motors within two bridge passes and a loop if the bridge runs, and  *)
(* within MaxAge and a loop if it dies, even in the middle of its pass or  *)
(* of its write.  (Nothing is said of a run in which the bridge ever       *)
(* stalled: a task that stalls between its gate test and its stamp vouches *)
(* for a command from before the kill when it resumes.)                    *)
KillLatency ==
  LoopPeriod + LoopJitter + PassSlack
    + (IF mode = "dead" THEN MaxAge ELSE PassPeriod + PassSlack)
KillStops ==
  ~late /\ ~MotorsAllowed(armed) /\ Thrusting => now - closedAt <= KillLatency

(* "false = no fresh actuator_motors -> idle" (fc_core.h:341): a command   *)
(* that Core 1 obeys, from a bridge that never stalled, rests on a sample  *)
(* that was less than MaxAge old when the bridge vouched for it.           *)
ValidMeansFresh == ~late /\ Thrusting => ~driven.old

(* "all 0 = MixingOutput disarmed_value(motor)=stop"                       *)
(* (fc_px4_modules.cpp:323): a command of zeros makes the ESC protocol's   *)
(* stop, and not its lowest throttle.                                      *)
ZeroMeansStop ==
  driven.valid /\ driven.motor = Zero =>
    \A m \in Present : out[m] = DSHOT_DISARM_VALUE

-----------------------------------------------------------------------------
(* The inductive invariant behind AntiFlyaway and KillStops.               *)

\* A command that is not the stop command.
Throttles(command) == command.motor # Zero

Closed == ~MotorsAllowed(armed)

LoopInv ==
  /\ now <= slot + LoopJitter
  /\ slot <= now + LoopPeriod
  /\ cpc = "drive" => slot <= now

AbsentInv == \A m \in Motors \ Present : out[m] = DSHOT_DISARM_VALUE

\* What is on the pins was fresh when the last iteration was due, or is idle.
ObeyInv ==
  Thrusting => Throttles(driven) /\ slot - LoopPeriod < driven.time_us + MaxAge

PassInv ==
  /\ mode = "run" => now <= wakeAt + PassSlack
  /\ wakeAt <= now + PassPeriod
  /\ tpc # "sleep" => wakeAt <= now
  /\ tpc \in {"sleep", "update"} => ~Throttles(mc)
  /\ mode = "stalled" => late

StampInv ==
  /\ closedAt <= now
  /\ cmd.time_us <= now /\ rd.time_us <= now /\ driven.time_us <= now
  /\ tpc \in {"write", "commit"} => mc.time_us <= now

(* After the gate has closed: the pass that had already tested it is the   *)
(* last whose command throttles, it was due before the closing, and every  *)
(* such command was stamped before the end of that pass.                   *)
LastPassInv ==
  ~late /\ Closed =>
    /\ tpc = "update" \/ Throttles(mc) => wakeAt <= closedAt
    /\ tpc \in {"write", "commit"} /\ Throttles(mc) => mc.time_us <= closedAt + PassSlack

\* The command in the seqlock, the one Core 1 holds, and the one it obeys.
LastCommandInv ==
  ~late /\ Closed =>
    /\ Throttles(cmd) =>
         /\ cmd.time_us <= closedAt + PassSlack
         /\ mode = "run" => wakeAt <= closedAt + PassPeriod + PassSlack
    /\ cpc = "drive" /\ Throttles(rd) =>
         /\ rd.time_us <= closedAt + PassSlack
         /\ mode = "run" => slot <= closedAt + PassPeriod + 2 * PassSlack
    /\ Thrusting =>
         /\ driven.time_us <= closedAt + PassSlack
         /\ mode = "run" => slot - LoopPeriod <= closedAt + PassPeriod + 2 * PassSlack

IInv ==
  /\ TypeOK
  /\ LoopInv
  /\ AbsentInv
  /\ ObeyInv
  /\ PassInv
  /\ StampInv
  /\ LastPassInv
  /\ LastCommandInv
=============================================================================
