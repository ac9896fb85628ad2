----------------------------- MODULE SimClock -----------------------------
(***************************************************************************)
(* Simulated time (FC_HIL_SIMTIME): the receiver thread of                 *)
(* simulator_mavlink sets the clock to the time of every HIL_SENSOR        *)
(* message (__wrap_clock_settime), hrt_absolute_time continues it with the *)
(* board's esp_timer (__wrap_hrt_absolute_time), and the sensor samples of *)
(* the message are stamped with it.                                        *)
(*                                                                         *)
(* Everything runs on Core 0.  A thread of higher priority than the        *)
(* receiver reads the clock in the middle of the setting, but whole; the   *)
(* reading of a thread of lower priority is interrupted by whole settings. *)
(* A 64-bit variable is two words, stored and loaded one after the other.  *)
(* The simulator's time is the board's plus Lead; messages are late by up  *)
(* to MaxDelay, may overtake each other and get lost.                      *)
(***************************************************************************)
EXTENDS Integers

CONSTANTS
  Word,      \* range of a word: 2^32 microseconds, 71 minutes
  Lead,      \* the simulator was started so much earlier than the board
  MaxDelay,  \* of a HIL_SENSOR message on its way
  MaxGap,    \* between two of them, while the simulator runs
  Slack,     \* how long the receiver's handling of a message may take
  ReadSlack, \* how long a reading may be interrupted
  Start,     \* the first instant looked at
  Horizon    \* bound on time, for TLC

ASSUME SimClockAssumption ==
  /\ Word \in Nat \ {0}
  /\ MaxDelay \in Nat /\ MaxGap \in Nat /\ Slack \in Nat /\ ReadSlack \in Nat
  /\ Start \in Nat /\ Horizon \in Nat
  /\ Lead \in Nat
  /\ MaxDelay <= Start

VARIABLES
  now,       \* esp_timer_get_time()
  alive,     \* the simulator runs
  heard,     \* history: when its last message was received
  base,      \* s_simclk_base_us, in words
  ref,       \* s_simclk_real_us, in words
  active,    \* s_simclk_active
  spc,       \* the receiver: "idle", "base", "ref", "stamp"
  imu,       \* the time_usec of the message it handles
  value,     \* the number it is storing
  todo,      \* the words of it still to be stored
  sample,    \* history: time_usec and time stamp of the last sensor sample
  rpc,       \* a thread of lower priority: "idle", "ref", "base", "done"
  local,     \* its locals: the esp_timer value and the words loaded
  rtodo      \* the words it has still to load

setter == <<spc, imu, value, todo>>
reader == <<rpc, local, rtodo>>
vars == <<now, alive, heard, base, ref, active, spc, imu, value, todo, sample,
          rpc, local, rtodo>>

Halves == {"lo", "hi"}
Split(n) == [lo |-> n % Word, hi |-> n \div Word]
Join(w) == w.hi * Word + w.lo

NoLocal == [t |-> 0, ref |-> Split(0), base |-> Split(0)]

Init ==
  /\ now = Start
  /\ alive = TRUE
  /\ heard = Start
  /\ base = Split(0) /\ ref = Split(0)
  /\ active = FALSE
  /\ spc = "idle" /\ imu = 0 /\ value = 0 /\ todo = {}
  /\ sample = [imu |-> 0, stamp |-> 0]
  /\ rpc = "idle" /\ local = NoLocal /\ rtodo = {}

-----------------------------------------------------------------------------
(* __wrap_hrt_absolute_time: base + (esp_timer_get_time() - ref), or the    *)
(* real clock as long as no simulated time was set.                        *)

Elapsed(t, refWords, baseWords) == Join(baseWords) + (t - Join(refWords))

\* What a reading that is not interrupted returns.
Clock == IF active THEN Elapsed(now, ref, base) ELSE now

-----------------------------------------------------------------------------
(* The receiver thread: handle_message_hil_sensor.                         *)

\* Mutant: only the first message sets the clock.
ReceiveOnce(d) ==
  /\ spc = "idle" /\ alive
  /\ imu' = now - d + Lead
  /\ value' = now - d + Lead
  /\ todo' = IF active THEN {} ELSE Halves
  /\ spc' = IF active THEN "stamp" ELSE "base"
  /\ heard' = now
  /\ UNCHANGED <<now, alive, base, ref, active, sample, reader>>

\* A HIL_SENSOR message sent d ago arrives.  Only those of IMU 0 set the
\* clock: the simulator has no other.
Receive(d) ==
  /\ spc = "idle" /\ alive
  /\ imu' = now - d + Lead
  /\ value' = now - d + Lead
  /\ todo' = Halves
  /\ spc' = "base"
  /\ heard' = now
  /\ UNCHANGED <<now, alive, base, ref, active, sample, reader>>

\* s_simclk_base_us = tp
StoreBase(half) ==
  /\ spc = "base" /\ half \in todo
  /\ base' = [base EXCEPT ![half] = Split(value)[half]]
  /\ todo' = todo \ {half}
  /\ UNCHANGED <<now, alive, heard, ref, active, spc, imu, value, sample,
                 reader>>

\* Mutant: the reference is taken when the clock is set for the first time.
SampleTimerOnce ==
  /\ spc = "base" /\ todo = {}
  /\ value' = now
  /\ todo' = IF active THEN {} ELSE Halves
  /\ spc' = "ref"
  /\ UNCHANGED <<now, alive, heard, base, ref, active, imu, sample, reader>>

\* Mutant: the offset of the two clocks is stored in the unsigned variable.
SampleTimerOffset ==
  /\ spc = "base" /\ todo = {}
  /\ value' = now - value
  /\ todo' = Halves
  /\ spc' = "ref"
  /\ UNCHANGED <<now, alive, heard, base, ref, active, imu, sample, reader>>

\* s_simclk_real_us = esp_timer_get_time() ...
SampleTimer ==
  /\ spc = "base" /\ todo = {}
  /\ value' = now
  /\ todo' = Halves
  /\ spc' = "ref"
  /\ UNCHANGED <<now, alive, heard, base, ref, active, imu, sample, reader>>

StoreRef(half) ==
  /\ spc = "ref" /\ half \in todo
  /\ ref' = [ref EXCEPT ![half] = Split(value)[half]]
  /\ todo' = todo \ {half}
  /\ UNCHANGED <<now, alive, heard, base, active, spc, imu, value, sample,
                 reader>>

\* ... and s_simclk_active = true
Activate ==
  /\ spc = "ref" /\ todo = {}
  /\ active' = TRUE
  /\ spc' = "stamp"
  /\ UNCHANGED <<now, alive, heard, base, ref, imu, value, todo, sample,
                 reader>>

\* now_us = hrt_absolute_time(), the time stamp of the samples.
StampSample ==
  /\ spc = "stamp"
  /\ sample' = [imu |-> imu, stamp |-> Clock]
  /\ spc' = "idle"
  /\ imu' = 0 /\ value' = 0
  /\ UNCHANGED <<now, alive, heard, base, ref, active, todo, reader>>

\* The simulator ends.
Die ==
  /\ alive
  /\ alive' = FALSE
  /\ UNCHANGED <<now, heard, base, ref, active, setter, sample, reader>>

-----------------------------------------------------------------------------
(* A thread of lower priority reads the clock.                             *)

\* It tests s_simclk_active and reads esp_timer ...
BeginRead ==
  /\ spc = "idle" /\ rpc = "idle" /\ active
  /\ local' = [NoLocal EXCEPT !.t = now]
  /\ rtodo' = Halves
  /\ rpc' = "ref"
  /\ UNCHANGED <<now, alive, heard, base, ref, active, setter, sample>>

\* ... then loads s_simclk_real_us ...
LoadRef(half) ==
  /\ spc = "idle" /\ rpc = "ref" /\ half \in rtodo
  /\ local' = [local EXCEPT !.ref[half] = ref[half]]
  /\ rtodo' = IF rtodo = {half} THEN Halves ELSE rtodo \ {half}
  /\ rpc' = IF rtodo = {half} THEN "base" ELSE "ref"
  /\ UNCHANGED <<now, alive, heard, base, ref, active, setter, sample>>

\* ... and s_simclk_base_us.
LoadBase(half) ==
  /\ spc = "idle" /\ rpc = "base" /\ half \in rtodo
  /\ local' = [local EXCEPT !.base[half] = base[half]]
  /\ rtodo' = rtodo \ {half}
  /\ rpc' = IF rtodo = {half} THEN "done" ELSE "base"
  /\ UNCHANGED <<now, alive, heard, base, ref, active, setter, sample>>

EndRead ==
  /\ spc = "idle" /\ rpc = "done"
  /\ rpc' = "idle" /\ local' = NoLocal
  /\ UNCHANGED <<now, alive, heard, base, ref, active, setter, sample, rtodo>>

-----------------------------------------------------------------------------
(* While the simulator runs its messages keep coming, and are handled.     *)
Tick ==
  /\ now < Horizon
  /\ alive => now < heard + MaxGap
  /\ spc # "idle" => now < heard + Slack
  /\ rpc # "idle" => now < local.t + ReadSlack
  /\ now' = now + 1
  /\ UNCHANGED <<alive, heard, base, ref, active, setter, sample, reader>>

SetClock ==
  \/ SampleTimer \/ Activate \/ StampSample
  \/ \E half \in Halves : StoreBase(half) \/ StoreRef(half)

ReadClock ==
  BeginRead \/ EndRead \/ \E half \in Halves : LoadRef(half) \/ LoadBase(half)

Next == (\E d \in 0..MaxDelay : Receive(d)) \/ SetClock \/ ReadClock \/ Die \/ Tick

Spec == Init /\ [][Next]_vars

-----------------------------------------------------------------------------
(* Properties.                                                             *)

Words == [Halves -> Nat]

TypeOK ==
  /\ now \in Nat /\ heard \in Nat
  /\ alive \in BOOLEAN /\ active \in BOOLEAN
  /\ base \in Words /\ ref \in Words
  /\ spc \in {"idle", "base", "ref", "stamp"}
  /\ imu \in Nat /\ value \in Nat
  /\ todo \in SUBSET Halves /\ rtodo \in SUBSET Halves
  /\ sample \in [imu : Nat, stamp : Int]
  /\ rpc \in {"idle", "ref", "base", "done"}
  /\ local \in [t : Nat, ref : Words, base : Words]

(* "HIL IMU real-time stamped -> dt jitter -> EKF accel-bias" is what the   *)
(* clock is there to end: however late a HIL_SENSOR message is and whoever *)
(* reads the clock meanwhile, its samples carry the simulator's own time,  *)
(* later at most by the time the receiver was interrupted.                 *)
StampsFollowSimulator ==
  sample.imu <= sample.stamp /\ sample.stamp <= sample.imu + Slack

(* The three stores are not atomic, but a reading that mixes an old base   *)
(* with a new reference, or half of either, whether it interrupts the      *)
(* setting or is interrupted by it, is not behind the simulator by more    *)
(* than the delay of a message, nor ahead by more than the gap before it,  *)
(* but for a multiple of a word, 71 minutes: what a reading that mixes the *)
(* upper words is wrong by.  The formula allows such a multiple at any     *)
(* time, not only at the instant where an upper word changes.              *)
Near(v, from, to) ==
  \E t \in (from - MaxDelay - Slack)..(to + MaxGap) : (v - Lead - t) % Word = 0
ReadBounded ==
  /\ active => Near(Clock, now, now)
  /\ rpc = "done" => Near(Elapsed(local.t, local.ref, local.base), local.t, now)

(* "It should never wrap or go backwards." (drv_hrt.h:60): no step makes a *)
(* reading smaller than it would have been before.                         *)
NeverBackwards == [][Clock <= Clock']_vars
=============================================================================
