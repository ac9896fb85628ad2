------------------------- MODULE DshotFrameProofs -------------------------
(***************************************************************************)
(* What an ESC reads from the pulses is the throttle that was scaled, for  *)
(* every command and whatever the shift register leaves in the checksum.   *)
(* The runs of DshotFrame try commands up to Margin thousandths outside    *)
(* [0,1]; the theorems hold for every Margin.                              *)
(***************************************************************************)
EXTENDS DshotFrame, WellFoundedInduction, TLAPS

LEMMA LeastNumber ==
  ASSUME NEW T \in SUBSET Nat, T # {}
  PROVE  \E k \in T : \A m \in T : k <= m
<1>1. PICK k \in T : \A m \in T : ~(<<m, k>> \in OpToRel(<, Nat))
  BY NatLessThanWellFounded, WFMin
<1>2. \A m \in T : m < k => <<m, k>> \in OpToRel(<, Nat)
  BY DEF OpToRel
<1>3. \A m \in T : ~(m < k)
  BY <1>1, <1>2
<1> QED
  BY <1>3

-----------------------------------------------------------------------------
(* The checksum is a nibble: it disturbs no bit of the payload.            *)

Registers == [crc : Int, data : Int]

LEMMA FlipType ==
  ASSUME NEW x \in Int, NEW k \in {0, 2, 3}
  PROVE  Flip(x, k) \in Int
<1>1. 2^0 \in Int /\ 2^2 \in Int /\ 2^3 \in Int
  OBVIOUS
<1> QED
  BY <1>1 DEF Flip

LEMMA RoundType ==
  ASSUME NEW r \in Registers
  PROVE  CrcRound(r) \in Registers
<1> DEFINE crc == U16(2 * r.crc)
<1>1. crc \in Int /\ U16(2 * r.data) \in Int
  BY DEF U16, Registers
<1>2. Flip(crc, 0) \in Int
  BY <1>1, FlipType
<1>3. Flip(Flip(crc, 0), 2) \in Int
  BY <1>2, FlipType
<1>4. Flip(Flip(Flip(crc, 0), 2), 3) \in Int
  BY <1>3, FlipType
<1> HIDE DEF crc
<1>5. [crc |-> IF Bit(crc, 4) = 1 \/ Bit(r.data, 11) = 1
               THEN Flip(Flip(Flip(crc, 0), 2), 3)
               ELSE crc,
       data |-> U16(2 * r.data)] \in Registers
  BY <1>1, <1>4 DEF Registers
<1> QED
  BY <1>5 DEF CrcRound, crc

\* The registers after each of the first k rounds.
Run(d, k, f) ==
  /\ f \in [0..k -> Registers]
  /\ f = [i \in 0..k |-> IF i = 0 THEN [crc |-> 0, data |-> d] ELSE CrcRound(f[i - 1])]

\* A run can always be extended by a round.
LEMMA RunExists ==
  ASSUME NEW d \in Nat, NEW k \in Nat
  PROVE  \E f : Run(d, k, f)
<1> DEFINE T == {m \in Nat : ~ \E f : Run(d, m, f)}
<1> SUFFICES ASSUME T # {} PROVE FALSE
  OBVIOUS
<1>1. PICK m \in T : \A j \in T : m <= j
  BY LeastNumber
<1>2. m # 0
  <2> DEFINE f == [i \in 0..0 |-> [crc |-> 0, data |-> d]]
  <2>1. f \in [0..0 -> Registers]
    BY DEF Registers
  <2>2. f = [i \in 0..0 |-> IF i = 0 THEN [crc |-> 0, data |-> d] ELSE CrcRound(f[i - 1])]
    OBVIOUS
  <2>3. Run(d, 0, f)
    BY <2>1, <2>2 DEF Run
  <2> QED
    BY <2>3, <1>1
<1>3. m - 1 \in Nat /\ m \in Nat
  BY <1>2
<1>4. PICK f : Run(d, m - 1, f)
  BY <1>1, <1>3
<1> DEFINE g == [i \in 0..m |-> IF i = m THEN CrcRound(f[m - 1]) ELSE f[i]]
<1>5. f[m - 1] \in Registers /\ \A i \in 0..(m - 1) : f[i] \in Registers
  <2>1. f \in [0..(m - 1) -> Registers] /\ m - 1 \in 0..(m - 1)
    BY <1>3, <1>4 DEF Run
  <2> HIDE DEF T
  <2> QED
    BY <2>1
<1>6. CrcRound(f[m - 1]) \in Registers
  BY <1>5, RoundType
<1>7. g \in [0..m -> Registers]
  BY <1>3, <1>5, <1>6
<1>8. ASSUME NEW i \in 0..m
      PROVE  g[i] = IF i = 0 THEN [crc |-> 0, data |-> d] ELSE CrcRound(g[i - 1])
  <2>1. CASE i = m
    <3>1. g[i] = CrcRound(f[m - 1]) /\ m - 1 \in 0..m /\ m - 1 # m
      BY <2>1, <1>3
    <3>2. g[i - 1] = f[m - 1]
      BY <2>1, <3>1
    <3> QED
      BY <2>1, <3>1, <3>2, <1>2
  <2>2. CASE i # m
    <3>1. i \in 0..(m - 1) /\ g[i] = f[i]
      BY <2>2, <1>3
    <3>2. f[i] = IF i = 0 THEN [crc |-> 0, data |-> d] ELSE CrcRound(f[i - 1])
      BY <3>1, <1>4 DEF Run
    <3>3. i # 0 => i - 1 \in 0..m /\ i - 1 # m
      BY <3>1, <1>3
    <3>4. i # 0 => g[i - 1] = f[i - 1]
      BY <3>3
    <3> QED
      BY <3>1, <3>2, <3>4
  <2> QED
    BY <2>1, <2>2
<1>9. g = [i \in 0..m |-> IF i = 0 THEN [crc |-> 0, data |-> d] ELSE CrcRound(g[i - 1])]
  BY <1>8
<1>10. Run(d, m, g)
  BY <1>7, <1>9 DEF Run
<1> QED
  BY <1>1, <1>10

\* Whatever solves the loop's equation is typed, by its first wrong round.
LEMMA CrcRegisters ==
  ASSUME NEW d \in Nat, NEW round,
         round = [i \in 0..12 |-> IF i = 0 THEN [crc |-> 0, data |-> d]
                                  ELSE CrcRound(round[i - 1])]
  PROVE  \A i \in 0..12 : round[i] \in Registers
<1> DEFINE T == {i \in 0..12 : round[i] \notin Registers}
<1> SUFFICES ASSUME T # {} PROVE FALSE
  OBVIOUS
<1>1. PICK i \in T : \A j \in T : i <= j
  BY LeastNumber
<1>2. i # 0
  BY <1>1 DEF Registers
<1>3. i - 1 \in 0..12 /\ i - 1 \notin T
  BY <1>1, <1>2
<1>4. round[i] = CrcRound(round[i - 1])
  BY <1>1, <1>2
<1> QED
  BY <1>1, <1>3, <1>4, RoundType

LEMMA CrcNibble ==
  ASSUME NEW d \in Nat
  PROVE  Crc(d) \in 0..15
<1> DEFINE round == CHOOSE f : f = [i \in 0..12 |->
                      IF i = 0 THEN [crc |-> 0, data |-> d] ELSE CrcRound(f[i - 1])]
<1>1. PICK f : Run(d, 12, f)
  BY RunExists
<1>2. round = [i \in 0..12 |-> IF i = 0 THEN [crc |-> 0, data |-> d]
                               ELSE CrcRound(round[i - 1])]
  BY <1>1 DEF Run
<1>3. Crc(d) = round[12].crc % 16
  BY DEF Crc
<1> HIDE DEF round
<1>4. round[12] \in Registers
  BY <1>2, CrcRegisters
<1> QED
  BY <1>3, <1>4 DEF Registers

-----------------------------------------------------------------------------
(* The scaling and the limits.                                             *)

Throttles == DSHOT_THROTTLE_MIN..DSHOT_THROTTLE_MAX

Commanded(x) == Scale(Clamp(x))

LEMMA CommandedIs ==
  ASSUME NEW x \in Int
  PROVE  /\ Commanded(x) \in Throttles
         /\ Commanded(x) = 48 + (Clamp(x) * 1999) \div 1000
         /\ x <= 0 <=> Commanded(x) = DSHOT_THROTTLE_MIN
         /\ x >= 1000 <=> Commanded(x) = DSHOT_THROTTLE_MAX
<1>1. Clamp(x) \in 0..1000 /\ (x <= 0 <=> Clamp(x) = 0) /\ (x >= 1000 <=> Clamp(x) = 1000)
  BY DEF Clamp
<1> DEFINE c == Clamp(x)
           y == 48 + (c * 1999) \div 1000
<1> HIDE DEF c
<1>2. c \in 0..1000
  BY <1>1 DEF c
<1>3. y \in 48..2047 /\ (c = 0 <=> y = 48) /\ (c = 1000 <=> y = 2047)
  BY <1>2
<1>4. Scale(c) = y
  BY <1>2, <1>3 DEF Scale, U16, DSHOT_THROTTLE_MIN, DSHOT_THROTTLE_MAX
<1> QED
  BY <1>1, <1>3, <1>4 DEF Commanded, Throttles, c, DSHOT_THROTTLE_MIN, DSHOT_THROTTLE_MAX

\* A thousandth more thrust is none to two steps of the throttle more.
LEMMA CommandedStep ==
  ASSUME NEW x \in Int
  PROVE  Commanded(x + 1) - Commanded(x) \in 0..2
<1> DEFINE a == Clamp(x)
           b == Clamp(x + 1)
<1>1. a \in Int /\ b \in Int /\ b - a \in 0..1
  BY DEF Clamp
<1>2. Commanded(x) = 48 + (a * 1999) \div 1000
  BY CommandedIs
<1>3. Commanded(x + 1) = 48 + (b * 1999) \div 1000
  BY CommandedIs
<1> HIDE DEF a, b
<1>4. CASE b = a
  BY <1>1, <1>2, <1>3, <1>4
<1>5. CASE b = a + 1
  <2>1. b * 1999 = a * 1999 + 1999
    BY <1>1, <1>5
  <2> QED
    BY <1>1, <1>2, <1>3, <2>1
<1> QED
  BY <1>1, <1>4, <1>5

LEMMA LimitKeeps ==
  ASSUME NEW t \in Throttles
  PROVE  LimitThrottle(t) = t
BY DEF LimitThrottle, Throttles, DSHOT_THROTTLE_MIN, DSHOT_THROTTLE_MAX

-----------------------------------------------------------------------------
(* The frame on the wire.                                                  *)

LEMMA FrameIs ==
  ASSUME NEW t \in Throttles, NEW tele \in {0, 1}
  PROVE  \E c \in 0..15 : fc_dshot_encode_frame(t, tele) = 32 * t + 16 * tele + c
<1> DEFINE p == Payload(LimitThrottle(t), tele)
<1>1. t \in 48..2047
  BY DEF Throttles, DSHOT_THROTTLE_MIN, DSHOT_THROTTLE_MAX
<1>2. p = 32 * t + 16 * tele
  BY <1>1, LimitKeeps DEF Payload, U16
<1>3. p \div 16 \in Nat
  BY <1>1, <1>2
<1>4. Crc(p \div 16) \in 0..15
  BY <1>3, CrcNibble
<1>5. fc_dshot_encode_frame(t, tele) = p + Crc(p \div 16)
  BY DEF fc_dshot_encode_frame
<1> HIDE DEF p
<1> QED
  BY <1>2, <1>4, <1>5

LEMMA Divide ==
  ASSUME NEW d \in Nat \ {0}, NEW x \in Nat
  PROVE  \E q \in Nat, r \in 0..(d - 1) : x = d * q + r /\ x \div d = q
<1>1. x = d * (x \div d) + (x % d) /\ x \div d \in Nat /\ x % d \in 0..(d - 1)
  OBVIOUS
<1> QED
  BY <1>1

LEMMA Halve ==
  ASSUME NEW d \in Nat \ {0}, NEW x \in Nat
  PROVE  (x \div d) \div 2 = x \div (2 * d) /\ x \div d \in Nat
<1>1. PICK a \in Nat, r \in 0..(d - 1) : x = d * a + r /\ x \div d = a
  BY Divide
<1>2. PICK b \in Nat, s \in 0..1 : a = 2 * b + s /\ a \div 2 = b
  OBVIOUS
<1> DEFINE e == 2 * d
<1>3. e \in Nat \ {0}
  OBVIOUS
<1>4. PICK c \in Nat, u \in 0..(e - 1) : x = e * c + u /\ x \div e = c
  BY <1>3, Divide
<1>5. d * s \in 0..d
  <2>1. s = 0 \/ s = 1
    OBVIOUS
  <2> QED
    BY <2>1
<1>6. PICK k \in 0..d : k = d * s
  BY <1>5
<1>7. d * a = e * b + k
  BY <1>2, <1>6
<1>8. e * (b - c) = u - k - r
  BY <1>1, <1>4, <1>7
<1>9. u - k - r < e /\ -e < u - k - r
  OBVIOUS
<1>10. b = c
  <2>1. CASE b - c >= 1
    BY <1>3, <1>8, <1>9, <2>1
  <2>2. CASE b - c <= -1
    BY <1>3, <1>8, <1>9, <2>2
  <2> QED
    BY <2>1, <2>2
<1> QED
  BY <1>1, <1>2, <1>4, <1>10

LEMMA BitBack ==
  ASSUME NEW a \in Nat
  PROVE  2 * (a \div 2) + (a % 2) = a
OBVIOUS

\* The widths of a 16-bit word.
LEMMA Powers ==
  ASSUME NEW k \in 0..15
  PROVE  2^k \in Nat \ {0} /\ 2^(k + 1) = 2 * 2^k
<1>0. CASE k = 0
  BY <1>0, SMT
<1>1. CASE k = 1
  BY <1>1, SMT
<1>2. CASE k = 2
  BY <1>2, SMT
<1>3. CASE k = 3
  BY <1>3, SMT
<1>4. CASE k = 4
  BY <1>4, SMT
<1>5. CASE k = 5
  BY <1>5, SMT
<1>6. CASE k = 6
  BY <1>6, SMT
<1>7. CASE k = 7
  BY <1>7, SMT
<1>8. CASE k = 8
  BY <1>8, SMT
<1>9. CASE k = 9
  BY <1>9, SMT
<1>10. CASE k = 10
  BY <1>10, SMT
<1>11. CASE k = 11
  BY <1>11, SMT
<1>12. CASE k = 12
  BY <1>12, SMT
<1>13. CASE k = 13
  BY <1>13, SMT
<1>14. CASE k = 14
  BY <1>14, SMT
<1>15. CASE k = 15
  BY <1>15, SMT
<1> QED
  BY <1>0, <1>1, <1>2, <1>3, <1>4, <1>5, <1>6, <1>7, <1>8, <1>9, <1>10, <1>11, <1>12, <1>13, <1>14, <1>15

\* What the first i bits of a 16-bit word spell, most significant bit first.
Top(frame, i) == frame \div 2^(16 - i)

LEMMA NextTop ==
  ASSUME NEW frame \in Nat, NEW i \in 1..16
  PROVE  Top(frame, i) = 2 * Top(frame, i - 1) + Bit(frame, 16 - i)
<1> DEFINE k == 16 - i
<1>1. k \in 0..15 /\ 16 - (i - 1) = k + 1
  OBVIOUS
<1>2. Top(frame, i) = frame \div 2^k /\ Top(frame, i - 1) = frame \div 2^(k + 1)
  BY <1>1 DEF Top
<1> HIDE DEF k
<1>3. 2^k \in Nat \ {0} /\ 2^(k + 1) = 2 * 2^k
  BY <1>1, Powers
<1>4. PICK d \in Nat \ {0} : d = 2^k
  BY <1>3
<1>5. Top(frame, i - 1) = frame \div (2 * d) /\ Top(frame, i) = frame \div d
  BY <1>2, <1>3, <1>4
<1>6. Top(frame, i - 1) = (frame \div d) \div 2 /\ frame \div d \in Nat
  BY <1>5, Halve
<1>7. Bit(frame, k) = (frame \div d) % 2
  BY <1>4 DEF Bit
<1>8. 2 * Top(frame, i - 1) + Bit(frame, k) = Top(frame, i)
  BY <1>5, <1>6, <1>7, BitBack
<1> QED
  BY <1>8 DEF k

LEMMA TopEnds ==
  ASSUME NEW frame \in Nat, frame < 65536
  PROVE  Top(frame, 0) = 0 /\ Top(frame, 11) = frame \div 32
<1>1. 2^(16 - 0) = 65536 /\ 2^(16 - 11) = 32
  BY SMT
<1>2. frame \div 65536 = 0
  BY SMT
<1> QED
  BY <1>1, <1>2, SMT DEF Top

LEMMA BitType ==
  ASSUME NEW frame \in Nat, NEW k \in 0..15
  PROVE  Bit(frame, k) \in {0, 1}
<1>1. PICK d \in Nat \ {0} : d = 2^k
  BY Powers
<1>2. Bit(frame, k) = (frame \div d) % 2
  BY <1>1 DEF Bit
<1>3. frame \div d \in Nat
  OBVIOUS
<1> QED
  BY <1>2, <1>3

\* A value that takes in bits from the first on holds the top of the word.
LEMMA TopBits ==
  ASSUME NEW frame \in Nat, NEW value,
         value[0] = Top(frame, 0),
         \A i \in 1..11 : value[i] = 2 * value[i - 1] + Bit(frame, 16 - i)
  PROVE  value[11] = Top(frame, 11)
<1> DEFINE T == {i \in 0..11 : value[i] # Top(frame, i)}
<1> SUFFICES ASSUME T # {} PROVE FALSE
  OBVIOUS
<1>1. PICK i \in T : \A j \in T : i <= j
  <2> T \in SUBSET Nat
    OBVIOUS
  <2> HIDE DEF T
  <2> QED
    BY LeastNumber
<1>2. i \in 0..11 /\ i # 0
  OBVIOUS
<1>3. i \in 1..11 /\ i - 1 \in 0..11 /\ i - 1 \notin T
  BY <1>1, <1>2
<1>4. value[i - 1] = Top(frame, i - 1)
  BY <1>3
<1>5. value[i] = 2 * value[i - 1] + Bit(frame, 16 - i)
  BY <1>3
<1>6. Top(frame, i) = 2 * Top(frame, i - 1) + Bit(frame, 16 - i)
  BY <1>3, NextTop
<1> QED
  BY <1>1, <1>4, <1>5, <1>6

-----------------------------------------------------------------------------
(* What the receiver reads.                                                *)

\* The symbols of a throttle t with the telemetry bit tele.
Sends(t, tele) == syms = fc_dshot_set_throttle(t, tele)

LEMMA Received ==
  ASSUME NEW t \in Throttles, NEW tele \in {0, 1}, Sends(t, tele)
  PROVE  ReceivedThrottle = t /\ Field(12, 12) = tele
<1>1. PICK frame : frame = fc_dshot_encode_frame(t, tele)
  OBVIOUS
<1>2. PICK c \in 0..15 : frame = 32 * t + 16 * tele + c
  BY <1>1, FrameIs
<1>3. t \in Nat /\ t <= 2047
  BY DEF Throttles, DSHOT_THROTTLE_MIN, DSHOT_THROTTLE_MAX
<1>4. frame \in Nat /\ frame < 65536
  BY <1>2, <1>3, SMT
<1>5. Bit(frame, 4) = tele /\ frame \div 32 = t
  <2>1. frame \div 16 = 2 * t + tele /\ frame \div 32 = t
    BY <1>2, <1>3, SMT
  <2>2. 2^4 = 16
    BY SMT
  <2>3. Bit(frame, 4) = (2 * t + tele) % 2
    BY <2>1, <2>2, SMT DEF Bit
  <2> QED
    BY <1>3, <2>1, <2>3, SMT
<1>6. syms = [i \in 1..16 |-> Bit(frame, 16 - i) = 1]
  <2>1. LimitThrottle(t) = t
    BY LimitKeeps
  <2> QED
    BY <1>1, <2>1 DEF Sends, fc_dshot_set_throttle
<1>7. \A i \in 1..16 : (IF syms[i] THEN 1 ELSE 0) = Bit(frame, 16 - i)
  <2>1. ASSUME NEW i \in 1..16 PROVE (IF syms[i] THEN 1 ELSE 0) = Bit(frame, 16 - i)
    <3>1. 16 - i \in 0..15
      OBVIOUS
    <3>2. Bit(frame, 16 - i) \in {0, 1}
      BY <1>4, <3>1, BitType
    <3> QED
      BY <1>6, <3>2
  <2> QED
    BY <2>1
<1>8. ReceivedThrottle = t
  <2> DEFINE Fills(f) == f = [i \in (1 - 1)..11 |->
                           IF i < 1 THEN 0 ELSE 2 * f[i - 1] + (IF syms[i] THEN 1 ELSE 0)]
             value == CHOOSE f : Fills(f)
             g == [i \in (1 - 1)..11 |-> Top(frame, i)]
  <2>1. ReceivedThrottle = value[11]
    BY DEF ReceivedThrottle, Field
  <2>2. Top(frame, 0) = 0 /\ Top(frame, 11) = t
    BY <1>4, <1>5, TopEnds
  <2>3. Fills(g)
    <3>1. ASSUME NEW i \in 0..11
          PROVE  g[i] = IF i < 1 THEN 0 ELSE 2 * g[i - 1] + (IF syms[i] THEN 1 ELSE 0)
      <4>1. CASE i = 0
        BY <2>2, <4>1
      <4>2. CASE i # 0
        <5>1. i \in 1..16 /\ i - 1 \in 0..11
          BY <4>2
        <5>2. Top(frame, i) = 2 * Top(frame, i - 1) + Bit(frame, 16 - i)
          BY <1>4, <5>1, NextTop
        <5> QED
          BY <1>7, <5>1, <5>2
      <4> QED
        BY <4>1, <4>2
    <3> QED
      BY <3>1
  <2>4. Fills(value)
    BY <2>3
  <2> HIDE DEF value
  <2>5. value[0] = 0
    BY <2>4
  <2>6. ASSUME NEW i \in 1..11
        PROVE  value[i] = 2 * value[i - 1] + Bit(frame, 16 - i)
    <3>1. i \in 0..11 /\ i \in 1..16 /\ ~(i < 1)
      OBVIOUS
    <3>2. value[i] = 2 * value[i - 1] + (IF syms[i] THEN 1 ELSE 0)
      BY <2>4, <3>1
    <3> QED
      BY <1>7, <3>1, <3>2
  <2>7. value[11] = Top(frame, 11)
    BY <1>4, <2>2, <2>5, <2>6, TopBits
  <2> QED
    BY <2>1, <2>2, <2>7
<1>9. Field(12, 12) = tele
  <2> DEFINE Fills(f) == f = [i \in (12 - 1)..12 |->
                           IF i < 12 THEN 0 ELSE 2 * f[i - 1] + (IF syms[i] THEN 1 ELSE 0)]
             value == CHOOSE f : Fills(f)
             g == [i \in (12 - 1)..12 |-> IF i < 12 THEN 0 ELSE tele]
  <2>1. Field(12, 12) = value[12]
    BY DEF Field
  <2>2. (IF syms[12] THEN 1 ELSE 0) = tele
    BY <1>5, <1>7
  <2>3. Fills(g)
    BY <2>2
  <2>4. Fills(value)
    BY <2>3
  <2> HIDE DEF value
  <2>5. value[11] = 0
    BY <2>4
  <2>6. value[12] = 2 * value[11] + (IF syms[12] THEN 1 ELSE 0)
    BY <2>4
  <2> QED
    BY <2>1, <2>2, <2>5, <2>6
<1> QED
  BY <1>8, <1>9

-----------------------------------------------------------------------------
(* The state between two calls: the pulses are those of the last command.  *)

IInv ==
  /\ n \in Int
  /\ telemetry \in {0, 1}
  /\ Sends(Commanded(n), telemetry)

LEMMA InitInv ==
  ASSUME Init
  PROVE  IInv
<1>1. Commanded(0) = DSHOT_THROTTLE_MIN
  BY CommandedIs
<1> QED
  BY <1>1 DEF Init, IInv, Sends

LEMMA StepInv ==
  ASSUME IInv, [Next]_vars
  PROVE  IInv'
<1>1. CASE Next
  <2>1. PICK x \in {n - 1, n, n + 1} \cap (-Margin..1000 + Margin), tele \in {0, 1} :
               Apply(x, tele)
    BY <1>1 DEF Next
  <2>2. x \in Int
    BY DEF IInv
  <2> QED
    BY <2>1, <2>2 DEF Apply, IInv, Sends, Commanded
<1>2. CASE UNCHANGED vars
  BY <1>2 DEF vars, IInv, Sends
<1> QED
  BY <1>1, <1>2

LEMMA Inductive == Spec => []IInv
BY InitInv, StepInv, PTL DEF Spec

\* What the receiver reads in such a state.
LEMMA InvReceived ==
  ASSUME IInv
  PROVE  /\ ReceivedThrottle = Commanded(n)
         /\ Field(12, 12) = telemetry
<1>1. Commanded(n) \in Throttles
  BY CommandedIs DEF IInv
<1> QED
  BY <1>1, Received DEF IInv

(* Whatever the command, the ESC reads a throttle and never a special      *)
(* value, both ends reach the ends of the range, and the telemetry bit is  *)
(* its own.                                                                *)
THEOREM Range == Spec => []ThrottleRange
<1>1. ASSUME IInv PROVE ThrottleRange
  <2>1. n \in Int /\ ReceivedThrottle = Commanded(n) /\ Field(12, 12) = telemetry
    BY <1>1, InvReceived DEF IInv
  <2> QED
    BY <2>1, CommandedIs DEF ThrottleRange, Throttles
<1> QED
  BY <1>1, Inductive, PTL

\* The same reading after a step.
ReadNow == IInv => ReceivedThrottle = Commanded(n)

LEMMA ReadNext ==
  ReadNow'
<1>1. ReadNow
  BY InvReceived DEF ReadNow
<1> QED
  BY <1>1, PTL

(* More thrust asked is never less throttle received, and a thousandth of  *)
(* the range is never more than two steps.                                 *)
THEOREM Order == Spec => Monotone
<1> DEFINE A == n' >= n => ReceivedThrottle' - ReceivedThrottle \in 0..2
<1>1. ASSUME IInv, IInv', [Next]_vars PROVE [A]_vars
  <2>1. n \in Int /\ ReceivedThrottle = Commanded(n)
    BY <1>1, InvReceived DEF IInv
  <2>2. ReceivedThrottle' = Commanded(n')
    BY <1>1, ReadNext DEF ReadNow, Commanded, Scale, Clamp, U16,
                          DSHOT_THROTTLE_MIN, DSHOT_THROTTLE_MAX
  <2>3. CASE Next
    <3> SUFFICES ASSUME n' >= n PROVE ReceivedThrottle' - ReceivedThrottle \in 0..2
      BY DEF A
    <3>1. n' \in {n - 1, n, n + 1}
      BY <2>3 DEF Next, Apply
    <3>2. n' = n \/ n' = n + 1
      BY <2>1, <3>1
    <3>3. CASE n' = n + 1
      BY <2>1, <2>2, <3>3, CommandedStep
    <3>4. CASE n' = n
      <4>1. Commanded(n) \in Throttles
        BY <2>1, CommandedIs
      <4>2. Commanded(n) \in Int
        BY <4>1 DEF Throttles, DSHOT_THROTTLE_MIN, DSHOT_THROTTLE_MAX
      <4> QED
        BY <2>1, <2>2, <3>4, <4>2
    <3> QED
      BY <3>2, <3>3, <3>4
  <2>4. CASE UNCHANGED vars
    BY <2>4
  <2> QED
    BY <1>1, <2>3, <2>4
<1> QED
  BY <1>1, Inductive, PTL DEF Spec, Monotone
============================================================================
