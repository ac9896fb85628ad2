---------------------------- MODULE DshotFrame ----------------------------
(***************************************************************************)
(* From a normalised motor command to the pulses of one DShot frame:       *)
(* fc_mixer_apply, fc_dshot_set_throttle and fc_dshot_encode_frame         *)
(* (main/fc_core.c), and the receiver an ESC implements.                   *)
(*                                                                         *)
(* Commands are in thousandths, where the float arithmetic truncates as    *)
(* the integer division does: no product is within 1/1000 of an integer    *)
(* except the two end points, which are exact.                             *)
(***************************************************************************)
EXTENDS Integers, Sequences

CONSTANTS
  Margin   \* how far outside [0,1], in thousandths, commands are tried

ASSUME DshotFrameAssumption == Margin \in Nat \ {0}

VARIABLES
  n,          \* output->motor[i]
  telemetry,  \* telemetry_request
  syms        \* dshot_syms: TRUE for the durations of a 1 (T1H, T1L)

vars == <<n, telemetry, syms>>

DSHOT_THROTTLE_MIN == 48
DSHOT_THROTTLE_MAX == 2047

U16(x) == x % 65536

Bit(x, k) == (x \div 2^k) % 2

\* x ^ (1 << k)
Flip(x, k) == IF Bit(x, k) = 1 THEN x - 2^k ELSE x + 2^k

-----------------------------------------------------------------------------
(* fc_mixer_apply                                                          *)

\* Mutant: no lower limit.
ClampHigh(x) == IF x > 1000 THEN 1000 ELSE x

Clamp(x) == IF x < 0 THEN 0 ELSE IF x > 1000 THEN 1000 ELSE x

Scale(x) == U16(DSHOT_THROTTLE_MIN + (x * (DSHOT_THROTTLE_MAX - DSHOT_THROTTLE_MIN)) \div 1000)

-----------------------------------------------------------------------------
(* fc_dshot_encode_frame                                                   *)

LimitThrottle(throttle) ==
  IF throttle > DSHOT_THROTTLE_MAX THEN DSHOT_THROTTLE_MAX
  ELSE IF throttle < DSHOT_THROTTLE_MIN THEN DSHOT_THROTTLE_MIN
  ELSE throttle

\* One round of the loop: crc <<= 1, the test of both top bits (0x10 and
\* 0x800), crc ^= 0x0D, data <<= 1.
CrcRound(r) ==
  LET crc == U16(2 * r.crc)
  IN  [crc |-> IF Bit(crc, 4) = 1 \/ Bit(r.data, 11) = 1
               THEN Flip(Flip(Flip(crc, 0), 2), 3)
               ELSE crc,
       data |-> U16(2 * r.data)]

Crc(data) ==
  LET round[i \in 0..12] ==
        IF i = 0 THEN [crc |-> 0, data |-> data] ELSE CrcRound(round[i - 1])
  IN  round[12].crc % 16

\* Mutant: the throttle is one bit too far to the left.
PayloadShifted(throttle, tele) == U16(throttle * 64) + tele * 16

\* (throttle << 5) | (telemetry << 4): no bit is in both.
Payload(throttle, tele) == U16(throttle * 32) + tele * 16

fc_dshot_encode_frame(throttle, tele) ==
  LET frame == Payload(LimitThrottle(throttle), tele)
  IN  frame + Crc(frame \div 16)     \* |= of a nibble the payload leaves 0

(* fc_dshot_set_throttle: limited here, and once more by the encoder; most *)
(* significant bit first.                                                  *)
fc_dshot_set_throttle(throttle, tele) ==
  LET frame == fc_dshot_encode_frame(LimitThrottle(throttle), tele)
  IN  [i \in 1..16 |-> Bit(frame, 16 - i) = 1]

-----------------------------------------------------------------------------
Apply(x, tele) ==
  /\ n' = x
  /\ telemetry' = tele
  /\ syms' = fc_dshot_set_throttle(Scale(Clamp(x)), tele)

\* fc_dshot_init_channel
Init ==
  /\ n = 0
  /\ telemetry = 0
  /\ syms = fc_dshot_set_throttle(DSHOT_THROTTLE_MIN, 0)

\* Any command reaches any other by steps of a thousandth.
Next ==
  \E x \in {n - 1, n, n + 1} \cap (-Margin..1000 + Margin), tele \in {0, 1} : Apply(x, tele)

Spec == Init /\ [][Next]_vars

-----------------------------------------------------------------------------
(* The receiver: DShot as PX4's own driver in this repository sends it     *)
(* ("bits 1-11 throttle value, bit 12 telemetry, bits 13-16 XOR checksum", *)
(* PX4/platforms/nuttx/src/px4/stm/stm32_common/dshot/dshot.c:911).        *)

Field(first, last) ==
  LET value[i \in (first - 1)..last] ==
        IF i < first THEN 0 ELSE 2 * value[i - 1] + (IF syms[i] THEN 1 ELSE 0)
  IN  value[last]

ReceivedThrottle == Field(1, 11)

\* Bit i of the three nibbles, XORed.
XorChecksum == [i \in 1..4 |-> (syms[i] # syms[4 + i]) # syms[8 + i]]

-----------------------------------------------------------------------------
(* Properties.                                                             *)

(* Whatever the command, the ESC never receives one of the special values  *)
(* 0..47 (beeps, direction, settings), both ends of the command range      *)
(* reach the ends of the throttle range, and the telemetry bit is its own. *)
ThrottleRange ==
  /\ ReceivedThrottle \in DSHOT_THROTTLE_MIN..DSHOT_THROTTLE_MAX
  /\ n <= 0 <=> ReceivedThrottle = DSHOT_THROTTLE_MIN
  /\ n >= 1000 <=> ReceivedThrottle = DSHOT_THROTTLE_MAX
  /\ Field(12, 12) = telemetry

(* The scaling, the two limits and the 16-bit frame together keep order:   *)
(* more thrust asked is never less throttle received, and a thousandth of  *)
(* the range is never more than two steps.                                 *)
Monotone ==
  [][ n' >= n => ReceivedThrottle' - ReceivedThrottle \in 0..2 ]_vars

(* An ESC accepts the frame: its last four bits are the XOR checksum.      *)
ChecksumAccepted == \A i \in 1..4 : syms[12 + i] = XorChecksum[i]
=============================================================================
