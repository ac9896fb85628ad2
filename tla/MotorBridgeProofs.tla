------------------------- MODULE MotorBridgeProofs -------------------------
(***************************************************************************)
(* Proofs about MotorBridge: the types, and that IInv is inductive, which  *)
(* gives AntiFlyaway and KillStops for every period, latency, age bound,   *)
(* set of motors, and every behaviour of Core 0.                           *)
(***************************************************************************)
EXTENDS MotorBridge, TLAPS

LEMMA ThrottleType ==
  ASSUME NEW n \in Int
  PROVE  Throttle(n) \in Int
BY DEF Throttle, Clamp, DSHOT_THROTTLE_MIN, DSHOT_THROTTLE_MAX

LEMMA ThrottleZero == Throttle(0) = DSHOT_THROTTLE_MIN
BY DEF Throttle, Clamp, DSHOT_THROTTLE_MIN, DSHOT_THROTTLE_MAX

LEMMA CleanType ==
  ASSUME NEW c \in [Motors -> Int \cup {NaN}]
  PROVE  Clean(c) \in [Motors -> Int]
BY DEF Clean

LEMMA NoCommandType == NoCommand \in Cmd /\ ~Throttles(NoCommand)
BY DEF NoCommand, Cmd, Zero, Throttles

LEMMA NoSampleType ==
  NoSample \in [unread : BOOLEAN, control : [Motors -> Int \cup {NaN}], age : 0..MaxAge]
BY MotorBridgeAssumption DEF NoSample

LEMMA StampType ==
  ASSUME TypeOK
  PROVE  /\ mc.time_us \in Nat /\ cmd.time_us \in Nat
         /\ rd.time_us \in Nat /\ driven.time_us \in Nat
BY DEF TypeOK, Cmd

(* The initial state.                                                      *)
LEMMA InitInv == Init => IInv
<1> SUFFICES ASSUME Init PROVE IInv
  OBVIOUS
<1> USE MotorBridgeAssumption
<1>1. TypeOK
  <2>1. out \in [Motors -> Int]
    BY DEF Init, DSHOT_THROTTLE_MIN, DSHOT_DISARM_VALUE
  <2>2. now \in Nat /\ wakeAt \in Nat /\ slot \in Nat /\ closedAt \in Nat
    BY DEF Init
  <2> QED
    BY <2>1, <2>2, NoCommandType, NoSampleType DEF Init, TypeOK
<1>2. ~Thrusting
  BY DEF Init, Thrusting, DSHOT_THROTTLE_MIN, DSHOT_DISARM_VALUE
<1>3. LoopInv /\ AbsentInv /\ ObeyInv
  BY <1>2 DEF Init, LoopInv, AbsentInv, ObeyInv
<1>4. PassInv /\ StampInv
  BY NoCommandType DEF Init, PassInv, StampInv, NoCommand
<1>5. LastPassInv /\ LastCommandInv
  BY <1>2, NoCommandType DEF Init, LastPassInv, LastCommandInv
<1> QED
  BY <1>1, <1>3, <1>4, <1>5 DEF IInv

(* What the pins show is unchanged by every step but Drive.                *)
LEMMA SameOut ==
  ASSUME UNCHANGED out
  PROVE  Thrusting' = Thrusting
BY DEF Thrusting

LEMMA PublishArmedInv ==
  ASSUME IInv, NEW flags \in ArmStates, PublishArmed(flags)
  PROVE  IInv'
<1> USE MotorBridgeAssumption DEF PublishArmed, taskVars, coreVars
<1>0. Thrusting' = Thrusting
  BY SameOut
<1>1. TypeOK'
  BY DEF IInv, TypeOK
<1>2. LoopInv' /\ AbsentInv' /\ ObeyInv' /\ PassInv'
  BY <1>0 DEF IInv, LoopInv, AbsentInv, ObeyInv, PassInv
<1>3. StampInv'
  BY DEF IInv, TypeOK, StampInv
<1>4. LastPassInv'
  <2>1. CASE Closed
    BY <2>1 DEF IInv, LastPassInv, Closed
  <2>2. CASE ~Closed
    BY <2>2, StampType DEF IInv, TypeOK, LastPassInv, Closed, PassInv, StampInv
  <2> QED
    BY <2>1, <2>2
<1>5. LastCommandInv'
  <2>1. CASE Closed
    BY <2>1, <1>0 DEF IInv, LastCommandInv, Closed
  <2>2. CASE ~Closed
    BY <2>2, <1>0, StampType DEF IInv, TypeOK, LastCommandInv, Closed, PassInv, StampInv, LoopInv
  <2> QED
    BY <2>1, <2>2
<1> QED
  BY <1>1, <1>2, <1>3, <1>4, <1>5 DEF IInv

LEMMA PublishMotorsInv ==
  ASSUME IInv, NEW control \in Samples, PublishMotors(control)
  PROVE  IInv'
<1> USE MotorBridgeAssumption DEF PublishMotors, taskVars, coreVars
<1>1. TypeOK'
  BY DEF IInv, TypeOK
<1>2. Thrusting' = Thrusting
  BY SameOut
<1> QED
  BY <1>1, <1>2 DEF IInv, LoopInv, AbsentInv, ObeyInv, PassInv, StampInv, LastPassInv,
                    LastCommandInv, Closed

(* The steps of a pass.                                                    *)
LEMMA ReadGateInv ==
  ASSUME IInv, ReadGate
  PROVE  IInv'
<1> USE MotorBridgeAssumption DEF ReadGate, Running, topicVars, coreVars
<1>1. TypeOK'
  BY DEF IInv, TypeOK
<1>2. Thrusting' = Thrusting
  BY SameOut
<1>3. LoopInv' /\ AbsentInv' /\ ObeyInv'
  BY <1>2 DEF IInv, LoopInv, AbsentInv, ObeyInv
<1>4. PassInv' /\ StampInv'
  BY DEF IInv, PassInv, StampInv
<1>5. LastPassInv'
  BY DEF IInv, LastPassInv, PassInv, Closed
<1>6. LastCommandInv'
  BY <1>2 DEF IInv, LastCommandInv, Closed
<1> QED
  BY <1>1, <1>3, <1>4, <1>5, <1>6 DEF IInv

LEMMA NoUpdateInv ==
  ASSUME IInv, NoUpdate
  PROVE  IInv'
<1> USE MotorBridgeAssumption DEF NoUpdate, EndPass, Running, topicVars, coreVars
<1>1. TypeOK'
  BY NoCommandType DEF IInv, TypeOK
<1>2. Thrusting' = Thrusting
  BY SameOut
<1>3. LoopInv' /\ AbsentInv' /\ ObeyInv'
  BY <1>2 DEF IInv, LoopInv, AbsentInv, ObeyInv
<1>4. PassInv' /\ StampInv'
  BY NoCommandType DEF IInv, TypeOK, PassInv, StampInv
<1>5. LastPassInv'
  BY NoCommandType DEF IInv, LastPassInv
<1>6. LastCommandInv'
  BY <1>2 DEF IInv, TypeOK, LastCommandInv, LastPassInv, PassInv, Closed
<1> QED
  BY <1>1, <1>3, <1>4, <1>5, <1>6 DEF IInv

LEMMA UpdateInv ==
  ASSUME IInv, Update
  PROVE  IInv'
<1> USE MotorBridgeAssumption DEF Update, Running, coreVars
<1>1. TypeOK'
  <2>1. Clean(pending.control) \in [Motors -> Int]
    BY CleanType DEF IInv, TypeOK
  <2>2. mc' \in Cmd
    BY <2>1 DEF IInv, TypeOK, Cmd
  <2> QED
    BY <2>2, NoSampleType DEF IInv, TypeOK
<1>2. Thrusting' = Thrusting
  BY SameOut
<1>3. LoopInv' /\ AbsentInv' /\ ObeyInv'
  BY <1>2 DEF IInv, LoopInv, AbsentInv, ObeyInv
<1>4. PassInv' /\ StampInv'
  BY DEF IInv, PassInv, StampInv
<1>5. LastPassInv'
  BY DEF IInv, LastPassInv, Closed
<1>6. LastCommandInv'
  BY <1>2 DEF IInv, LastCommandInv, Closed
<1> QED
  BY <1>1, <1>3, <1>4, <1>5, <1>6 DEF IInv

LEMMA StampStepInv ==
  ASSUME IInv, Stamp
  PROVE  IInv'
<1> USE MotorBridgeAssumption DEF Stamp, Running, topicVars, coreVars
<1>1. TypeOK'
  BY DEF IInv, TypeOK, Cmd
<1>2. Thrusting' = Thrusting
  BY SameOut
<1>3. Throttles(mc') = Throttles(mc) /\ mc'.time_us = now
  BY DEF IInv, TypeOK, Cmd, Throttles
<1>4. LoopInv' /\ AbsentInv' /\ ObeyInv'
  BY <1>2 DEF IInv, LoopInv, AbsentInv, ObeyInv
<1>5. PassInv' /\ StampInv'
  BY <1>3 DEF IInv, TypeOK, PassInv, StampInv
<1>6. LastPassInv'
  BY <1>3 DEF IInv, TypeOK, LastPassInv, PassInv, Closed
<1>7. LastCommandInv'
  BY <1>2 DEF IInv, LastCommandInv, Closed
<1> QED
  BY <1>1, <1>4, <1>5, <1>6, <1>7 DEF IInv

LEMMA BeginWriteInv ==
  ASSUME IInv, BeginWrite
  PROVE  IInv'
<1> USE MotorBridgeAssumption DEF BeginWrite, Running, topicVars, coreVars
<1>1. TypeOK'
  BY DEF IInv, TypeOK
<1>2. Thrusting' = Thrusting
  BY SameOut
<1>3. LoopInv' /\ AbsentInv' /\ ObeyInv'
  BY <1>2 DEF IInv, LoopInv, AbsentInv, ObeyInv
<1>4. PassInv' /\ StampInv' /\ LastPassInv'
  BY DEF IInv, PassInv, StampInv, LastPassInv, Closed
<1>5. LastCommandInv'
  BY <1>2 DEF IInv, LastCommandInv, Closed
<1> QED
  BY <1>1, <1>3, <1>4, <1>5 DEF IInv

LEMMA EndWriteInv ==
  ASSUME IInv, EndWrite
  PROVE  IInv'
<1> USE MotorBridgeAssumption DEF EndWrite, EndPass, Running, topicVars, coreVars
<1>1. TypeOK'
  <2>1. mc' \in Cmd /\ cmd' \in Cmd /\ wakeAt' \in Nat
    BY NoCommandType DEF IInv, TypeOK
  <2> QED
    BY <2>1 DEF IInv, TypeOK
<1>2. Thrusting' = Thrusting
  BY SameOut
<1>3. LoopInv' /\ AbsentInv' /\ ObeyInv'
  BY <1>2 DEF IInv, LoopInv, AbsentInv, ObeyInv
<1>4. PassInv' /\ StampInv'
  BY NoCommandType DEF IInv, TypeOK, PassInv, StampInv
<1>5. LastPassInv'
  BY NoCommandType DEF IInv, LastPassInv
<1>6. LastCommandInv'
  BY <1>2 DEF IInv, TypeOK, LastCommandInv, LastPassInv, PassInv, Closed
<1> QED
  BY <1>1, <1>3, <1>4, <1>5, <1>6 DEF IInv

(* Faults.                                                                 *)
LEMMA FailInv ==
  ASSUME IInv, NEW how \in {"stalled", "dead"}, Fail(how)
  PROVE  IInv'
<1> USE MotorBridgeAssumption DEF Fail, topicVars, coreVars
<1>1. TypeOK'
  <2>1. mode' \in {"run", "stalled", "dead"} /\ late' \in BOOLEAN
    BY DEF IInv, TypeOK
  <2> QED
    BY <2>1 DEF IInv, TypeOK
<1>2. Thrusting' = Thrusting
  BY SameOut
<1>3. LoopInv' /\ AbsentInv' /\ ObeyInv'
  BY <1>2 DEF IInv, LoopInv, AbsentInv, ObeyInv
<1>4. PassInv' /\ StampInv'
  BY DEF IInv, PassInv, StampInv
<1>5. LastPassInv' /\ LastCommandInv'
  BY <1>2 DEF IInv, LastPassInv, LastCommandInv, Closed
<1> QED
  BY <1>1, <1>3, <1>4, <1>5 DEF IInv

LEMMA ResumeInv ==
  ASSUME IInv, Resume
  PROVE  IInv'
<1> USE MotorBridgeAssumption DEF Resume, topicVars, coreVars
<1>1. TypeOK'
  BY DEF IInv, TypeOK
<1>2. Thrusting' = Thrusting
  BY SameOut
<1>3. LoopInv' /\ AbsentInv' /\ ObeyInv'
  BY <1>2 DEF IInv, LoopInv, AbsentInv, ObeyInv
<1>4. PassInv' /\ StampInv'
  BY DEF IInv, TypeOK, PassInv, StampInv
<1>5. LastPassInv' /\ LastCommandInv'
  BY DEF IInv, PassInv, LastPassInv, LastCommandInv
<1> QED
  BY <1>1, <1>3, <1>4, <1>5 DEF IInv

LEMMA TickInv ==
  ASSUME IInv, Tick
  PROVE  IInv'
<1> USE MotorBridgeAssumption DEF Tick, taskVars, coreVars
<1>1. TypeOK'
  <2>1. pending' \in [unread : BOOLEAN, control : [Motors -> Int \cup {NaN}], age : 0..MaxAge]
    BY DEF IInv, TypeOK
  <2> QED
    BY <2>1 DEF IInv, TypeOK
<1>2. Thrusting' = Thrusting
  BY SameOut
<1>3. LoopInv' /\ AbsentInv' /\ ObeyInv'
  BY <1>2 DEF IInv, TypeOK, LoopInv, AbsentInv, ObeyInv
<1>4. PassInv' /\ StampInv'
  BY StampType DEF IInv, TypeOK, PassInv, StampInv
<1>5. LastPassInv' /\ LastCommandInv'
  BY <1>2 DEF IInv, LastPassInv, LastCommandInv, Closed
<1> QED
  BY <1>1, <1>3, <1>4, <1>5 DEF IInv

(* The Core 1 loop.                                                        *)
LEMMA ReadCmdInv ==
  ASSUME IInv, ReadCmd
  PROVE  IInv'
<1> USE MotorBridgeAssumption DEF ReadCmd, topicVars, taskVars
<1>1. TypeOK'
  BY NoCommandType DEF IInv, TypeOK
<1>2. Thrusting' = Thrusting
  BY SameOut
<1>3. LoopInv' /\ AbsentInv' /\ ObeyInv'
  BY <1>2 DEF IInv, LoopInv, AbsentInv, ObeyInv
<1>4. PassInv' /\ StampInv'
  BY DEF IInv, TypeOK, PassInv, StampInv, NoCommand
<1>5. LastPassInv'
  BY DEF IInv, LastPassInv, Closed
<1>6. LastCommandInv'
  <2>1. CASE writing
    BY <1>2, <2>1, NoCommandType DEF IInv, LastCommandInv, Closed
  <2>2. CASE ~writing
    BY <1>2, <2>2 DEF IInv, TypeOK, LastCommandInv, PassInv, Closed
  <2> QED
    BY <2>1, <2>2 DEF IInv, TypeOK
<1> QED
  BY <1>1, <1>3, <1>4, <1>5, <1>6 DEF IInv

(* A frame of zeros throttles nothing: initialised channels idle, the      *)
(* others never carried a frame.                                           *)
LEMMA ZeroIdles ==
  ASSUME TypeOK, AbsentInv, Send(Zero)
  PROVE  ~Thrusting'
<1> SUFFICES ASSUME NEW m \in Motors
             PROVE  ~(out'[m] > DSHOT_THROTTLE_MIN)
  BY DEF Thrusting
<1>1. CASE m \in Present
  BY <1>1, ThrottleZero DEF Send, Zero, DSHOT_THROTTLE_MIN
<1>2. CASE m \notin Present
  BY <1>2 DEF Send, AbsentInv, DSHOT_THROTTLE_MIN, DSHOT_DISARM_VALUE
<1> QED
  BY <1>1, <1>2

LEMMA DriveInv ==
  ASSUME IInv, Drive
  PROVE  IInv'
<1> USE MotorBridgeAssumption DEF Drive, topicVars, taskVars
<1>1. TypeOK'
  <2>1. out' \in [Motors -> Int]
    <3>1. ASSUME NEW value \in [Motors -> Int], Send(value)
          PROVE  out' \in [Motors -> Int]
      BY <3>1, ThrottleType DEF IInv, TypeOK, Send
    <3>2. rd.motor \in [Motors -> Int] /\ Zero \in [Motors -> Int]
      BY DEF IInv, TypeOK, Cmd, Zero
    <3> QED
      BY <3>1, <3>2
  <2>2. rd' \in Cmd /\ driven' \in Cmd /\ slot' \in Nat
    BY NoCommandType DEF IInv, TypeOK
  <2> QED
    BY <2>1, <2>2 DEF IInv, TypeOK
<1>2. Thrusting' => Fresh /\ Throttles(rd)
  BY ZeroIdles DEF IInv, Throttles
<1>3. Fresh => driven' = rd /\ now < rd.time_us + MaxAge
  BY StampType DEF IInv, TypeOK, Fresh
<1>4. LoopInv'
  BY DEF IInv, TypeOK, LoopInv
<1>5. AbsentInv'
  BY DEF IInv, AbsentInv, Send
<1>6. ObeyInv'
  BY <1>2, <1>3, StampType DEF IInv, TypeOK, ObeyInv, LoopInv
<1>7. PassInv' /\ StampInv'
  BY DEF IInv, TypeOK, PassInv, StampInv, NoCommand
<1>8. LastPassInv'
  BY DEF IInv, LastPassInv, Closed
<1>9. LastCommandInv'
  BY <1>2, <1>3 DEF IInv, TypeOK, LastCommandInv, Closed
<1> QED
  BY <1>1, <1>4, <1>5, <1>6, <1>7, <1>8, <1>9 DEF IInv

LEMMA NextInv ==
  ASSUME IInv, [Next]_vars
  PROVE  IInv'
<1>1. CASE Px4
  BY <1>1, PublishArmedInv, PublishMotorsInv DEF Px4
<1>2. CASE Pass
  BY <1>2, ReadGateInv, NoUpdateInv, UpdateInv, StampStepInv, BeginWriteInv, EndWriteInv
  DEF Pass
<1>3. CASE Fault
  BY <1>3, FailInv, ResumeInv DEF Fault
<1>4. CASE Loop
  BY <1>4, ReadCmdInv, DriveInv DEF Loop
<1>5. CASE Tick
  BY <1>5, TickInv
<1>6. CASE UNCHANGED vars
  <2>1. Thrusting' = Thrusting
    BY <1>6, SameOut DEF vars
  <2> QED
    BY <1>6, <2>1 DEF vars, IInv, TypeOK, LoopInv, AbsentInv, ObeyInv, PassInv, StampInv,
                      LastPassInv, LastCommandInv, Closed
<1> QED
  BY <1>1, <1>2, <1>3, <1>4, <1>5, <1>6 DEF Next

(* The invariant of the motor path.                                        *)
THEOREM Invariant == Spec => []IInv
<1> QED
  BY InitInv, NextInv, PTL DEF Spec

(* Every variable keeps its type; in particular no NaN reaches a throttle. *)
THEOREM Typing == Spec => []TypeOK
<1>1. IInv => TypeOK
  BY DEF IInv
<1> QED
  BY <1>1, Invariant, PTL

(* Whatever Core 0 does or ceases to do, a channel above idle obeys a      *)
(* command less than MaxAge, a loop and its jitter old.                    *)
THEOREM FlyawayBound == Spec => []AntiFlyaway
<1>1. IInv => AntiFlyaway
  BY MotorBridgeAssumption, StampType DEF IInv, TypeOK, AntiFlyaway, ObeyInv, LoopInv
<1> QED
  BY <1>1, Invariant, PTL

(* A gate that closes stops the motors within KillLatency, also if the     *)
(* bridging task dies at any point of its pass.                            *)
THEOREM KillBound == Spec => []KillStops
<1>1. IInv => KillStops
  <2> SUFFICES ASSUME IInv, ~late, Closed, Thrusting
               PROVE  now - closedAt <= KillLatency
    BY DEF KillStops, Closed
  <2> USE MotorBridgeAssumption
  <2>1. CASE mode = "run"
    BY <2>1 DEF IInv, TypeOK, LastCommandInv, LoopInv, KillLatency
  <2>2. CASE mode = "dead"
    BY <2>2, StampType DEF IInv, TypeOK, LastCommandInv, ObeyInv, LoopInv, KillLatency
  <2>3. CASE mode = "stalled"
    BY <2>3 DEF IInv, PassInv
  <2> QED
    BY <2>1, <2>2, <2>3 DEF IInv, TypeOK
<1> QED
  BY <1>1, Invariant, PTL
=============================================================================
