-------------------------- MODULE SimClockProofs --------------------------
(***************************************************************************)
(* Proofs about SimClock: the types, and that every sample carries the     *)
(* simulator's time, for every width of a word, lead, delay and latency.   *)
(* What a setting in progress has stored so far is the invariant.          *)
(***************************************************************************)
EXTENDS SimClock, TLAPS

Before == now >= Start

(* The receiver is not interrupted for longer than Slack.                  *)
HandlingInv == spc # "idle" => heard <= now /\ now <= heard + Slack

(* The base: the words stored are those of the message's time.             *)
BaseInv ==
  /\ spc = "base" => /\ value = imu
                     /\ \A half \in Halves \ todo : base[half] = Split(imu)[half]
  /\ spc \in {"ref", "stamp"} => \A half \in Halves : base[half] = Split(imu)[half]

(* The reference: those of a time of esp_timer during the handling.        *)
RefInv ==
  /\ spc \in {"ref", "stamp"} =>
       /\ heard <= value /\ value <= now
       /\ \A half \in Halves \ todo : ref[half] = Split(value)[half]
  /\ spc = "stamp" => active /\ todo = {}

(* The simulator's messages come in time, and are handled one by one.      *)
GapInv ==
  /\ heard <= now
  /\ alive => now <= heard + MaxGap
  /\ spc # "idle" => heard - MaxDelay <= imu - Lead /\ imu - Lead <= heard

\* The lower words in memory are those of the message time b and of the
\* esp_timer value r.
Stored(b, r) == base.lo = b % Word /\ ref.lo = r % Word

(* Between two settings: both lower words are those of the last one.       *)
SettledInv ==
  active /\ spc = "idle" =>
    \E b, r \in Nat :
      /\ Stored(b, r)
      /\ heard - MaxDelay <= b - Lead /\ b - Lead <= heard
      /\ heard <= r /\ r <= heard + Slack /\ r <= now

(* During a setting: the reference is that of the setting before, at most  *)
(* a gap ago, until its lower word is stored, and so is the base.          *)
SettingInv ==
  /\ active /\ (spc = "base" \/ (spc = "ref" /\ "lo" \in todo)) =>
       \E r \in Nat : ref.lo = r % Word /\ heard - MaxGap <= r /\ r <= heard
  /\ active /\ spc = "base" /\ "lo" \in todo =>
       \E b, r \in Nat :
         Stored(b, r) /\ r - MaxDelay - Slack <= b - Lead /\ b - Lead <= r

(* A reader that was interrupted: the reference it has loaded is not later *)
(* than the last message; nor is it earlier than its value of esp_timer by *)
(* more than a gap, unless the simulator ended and no message follows.     *)
ReaderInv ==
  /\ rpc # "idle" => active /\ local.t <= now
  /\ (rpc = "ref" /\ "lo" \notin rtodo) \/ (rpc = "base" /\ "lo" \in rtodo) =>
       \E r \in Nat :
         /\ local.ref.lo = r % Word
         /\ r <= heard + Slack
         /\ local.t <= r + MaxGap \/ (~alive /\ heard <= r)
  /\ (rpc = "base" /\ "lo" \notin rtodo) \/ rpc = "done" =>
       \E b, r \in Nat :
         /\ local.ref.lo = r % Word /\ local.base.lo = b % Word
         /\ local.t - MaxDelay - Slack <= (b - Lead) + (local.t - r)
         /\ (b - Lead) + (local.t - r) <= now + MaxGap

RInv == GapInv /\ SettledInv /\ SettingInv /\ ReaderInv

IInv ==
  TypeOK /\ Before /\ HandlingInv /\ BaseInv /\ RefInv /\ StampsFollowSimulator

-----------------------------------------------------------------------------
(* Words: a number is split and joined without loss.                       *)

LEMMA SplitType ==
  ASSUME NEW n \in Nat
  PROVE  Split(n) \in Words
<1>1. n % Word \in Nat /\ n \div Word \in Nat
  BY SimClockAssumption, Z3
<1>2. Split(n) = [half \in Halves |-> IF half = "lo" THEN n % Word ELSE n \div Word]
  BY DEF Split, Halves
<1> QED
  BY <1>1, <1>2 DEF Words

LEMMA JoinSplit ==
  ASSUME NEW n \in Nat, NEW w \in Words,
         \A half \in Halves : w[half] = Split(n)[half]
  PROVE  Join(w) = n
<1>1. n % Word \in Int /\ n \div Word \in Int
  BY SimClockAssumption, Z3
<1>2. w.lo = n % Word /\ w.hi = n \div Word
  BY DEF Split, Halves
<1>3. (n \div Word) * Word + (n % Word) = n
  BY SimClockAssumption, <1>1, Z3
<1> QED
  BY <1>2, <1>3 DEF Join

LEMMA JoinType ==
  ASSUME NEW w \in Words
  PROVE  Join(w) \in Nat
<1>1. w.lo \in Nat /\ w.hi \in Nat
  BY DEF Words, Halves
<1> QED
  BY <1>1, SimClockAssumption, Z3 DEF Join

LEMMA ClockType ==
  ASSUME TypeOK
  PROVE  Clock \in Int
<1>1. Join(base) \in Nat /\ Join(ref) \in Nat
  BY JoinType DEF TypeOK
<1> QED
  BY <1>1 DEF TypeOK, Clock, Elapsed

LEMMA LocalType == NoLocal \in [t : Nat, ref : Words, base : Words]
BY SplitType DEF NoLocal

LEMMA InitInv == Init => IInv
<1> SUFFICES ASSUME Init PROVE IInv
  OBVIOUS
<1>1. TypeOK
  <2>1. base \in Words /\ ref \in Words
    BY SplitType DEF Init
  <2>2. sample \in [imu : Nat, stamp : Int]
    BY DEF Init
  <2>3. local \in [t : Nat, ref : Words, base : Words]
    BY LocalType DEF Init
  <2>4. now \in Nat /\ heard \in Nat
    BY SimClockAssumption DEF Init
  <2>5. alive \in BOOLEAN /\ active \in BOOLEAN
    BY DEF Init
  <2> QED
    BY <2>1, <2>2, <2>3, <2>4, <2>5 DEF Init, TypeOK
<1> QED
  BY <1>1, SimClockAssumption
  DEF Init, IInv, Before, HandlingInv, BaseInv, RefInv, StampsFollowSimulator

-----------------------------------------------------------------------------
(* Each step.                                                              *)

LEMMA ReceiveInv ==
  ASSUME IInv, NEW d \in 0..MaxDelay, Receive(d)
  PROVE  IInv'
<1> USE DEF Receive, reader
<1>1. now - d + Lead \in Nat
  BY SimClockAssumption DEF IInv, TypeOK, Before
<1>2. TypeOK'
  BY <1>1 DEF IInv, TypeOK
<1>3. HandlingInv' /\ Before'
  BY SimClockAssumption DEF IInv, TypeOK, HandlingInv, Before
<1>4. BaseInv' /\ RefInv' /\ StampsFollowSimulator'
  BY DEF IInv, BaseInv, RefInv, StampsFollowSimulator
<1> QED
  BY <1>2, <1>3, <1>4 DEF IInv

LEMMA StoreBaseInv ==
  ASSUME IInv, NEW half \in Halves, StoreBase(half)
  PROVE  IInv'
<1> USE DEF StoreBase, reader
<1>1. Split(value) \in Words
  BY SplitType DEF IInv, TypeOK
<1>2. TypeOK'
  BY <1>1 DEF IInv, TypeOK, Words
<1>3. BaseInv'
  BY DEF IInv, TypeOK, Words, BaseInv
<1> QED
  BY <1>2, <1>3 DEF IInv, Before, HandlingInv, RefInv, StampsFollowSimulator

LEMMA SampleTimerInv ==
  ASSUME IInv, SampleTimer
  PROVE  IInv'
BY DEF SampleTimer, reader, IInv, TypeOK, Before, HandlingInv, BaseInv, RefInv,
       StampsFollowSimulator

LEMMA StoreRefInv ==
  ASSUME IInv, NEW half \in Halves, StoreRef(half)
  PROVE  IInv'
<1> USE DEF StoreRef, reader
<1>1. Split(value) \in Words
  BY SplitType DEF IInv, TypeOK
<1>2. TypeOK'
  BY <1>1 DEF IInv, TypeOK, Words
<1>3. RefInv'
  BY DEF IInv, TypeOK, Words, RefInv
<1> QED
  BY <1>2, <1>3 DEF IInv, Before, HandlingInv, BaseInv, StampsFollowSimulator

LEMMA ActivateInv ==
  ASSUME IInv, Activate
  PROVE  IInv'
BY DEF Activate, reader, IInv, TypeOK, Before, HandlingInv, BaseInv, RefInv,
       StampsFollowSimulator

LEMMA StampSampleInv ==
  ASSUME IInv, StampSample
  PROVE  IInv'
<1> USE DEF StampSample, reader
<1>1. TypeOK'
  BY ClockType DEF IInv, TypeOK
<1>2. Join(base) = imu /\ Join(ref) = value
  BY JoinSplit DEF IInv, TypeOK, BaseInv, RefInv
<1>3. Clock = imu + (now - value)
  BY <1>2 DEF IInv, RefInv, Clock, Elapsed
<1>4. imu <= Clock /\ Clock <= imu + Slack
  BY <1>3, SimClockAssumption DEF IInv, TypeOK, RefInv, HandlingInv
<1>5. StampsFollowSimulator'
  BY <1>4 DEF StampsFollowSimulator
<1> QED
  BY <1>1, <1>5 DEF IInv, Before, HandlingInv, BaseInv, RefInv

LEMMA TickInv ==
  ASSUME IInv, Tick
  PROVE  IInv'
BY SimClockAssumption
DEF Tick, setter, reader, IInv, TypeOK, Before, HandlingInv, BaseInv, RefInv,
    StampsFollowSimulator

(* Reading and the end of the simulator leave the setting alone.           *)
LEMMA ReadClockInv ==
  ASSUME IInv, ReadClock
  PROVE  IInv'
<1> USE DEF setter
<1>1. UNCHANGED <<now, alive, heard, base, ref, active, setter, sample>>
  BY DEF ReadClock, BeginRead, EndRead, LoadRef, LoadBase
<1>2. local' \in [t : Nat, ref : Words, base : Words]
  <2>1. CASE BeginRead
    <3>1. local' = [t |-> now, ref |-> NoLocal.ref, base |-> NoLocal.base]
      BY <2>1 DEF BeginRead, NoLocal
    <3> QED
      BY <3>1, LocalType DEF IInv, TypeOK
  <2>2. CASE EndRead
    BY <2>2, LocalType DEF EndRead
  <2>3. ASSUME NEW half \in Halves, LoadRef(half)
        PROVE  local' \in [t : Nat, ref : Words, base : Words]
    BY <2>3 DEF LoadRef, IInv, TypeOK, Words
  <2>4. ASSUME NEW half \in Halves, LoadBase(half)
        PROVE  local' \in [t : Nat, ref : Words, base : Words]
    BY <2>4 DEF LoadBase, IInv, TypeOK, Words
  <2> QED
    BY <2>1, <2>2, <2>3, <2>4 DEF ReadClock
<1>3. rpc' \in {"idle", "ref", "base", "done"} /\ rtodo' \in SUBSET Halves
  BY DEF ReadClock, BeginRead, EndRead, LoadRef, LoadBase, IInv, TypeOK
<1>4. TypeOK'
  BY <1>1, <1>2, <1>3 DEF IInv, TypeOK
<1> QED
  BY <1>1, <1>4 DEF IInv, Before, HandlingInv, BaseInv, RefInv, StampsFollowSimulator

LEMMA StepInv == IInv /\ [Next]_vars => IInv'
<1> SUFFICES ASSUME IInv, [Next]_vars PROVE IInv'
  OBVIOUS
<1>1. ASSUME NEW d \in 0..MaxDelay, Receive(d) PROVE IInv'
  BY <1>1, ReceiveInv
<1>2. CASE SetClock
  BY <1>2, StoreBaseInv, SampleTimerInv, StoreRefInv, ActivateInv, StampSampleInv
  DEF SetClock
<1>3. CASE ReadClock
  BY <1>3, ReadClockInv
<1>4. CASE Die
  BY <1>4 DEF Die, setter, reader, IInv, TypeOK, Before, HandlingInv, BaseInv,
              RefInv, StampsFollowSimulator
<1>5. CASE Tick
  BY <1>5, TickInv
<1>6. CASE UNCHANGED vars
  BY <1>6 DEF vars, IInv, TypeOK, Before, HandlingInv, BaseInv, RefInv,
              StampsFollowSimulator
<1> QED
  BY <1>1, <1>2, <1>3, <1>4, <1>5, <1>6 DEF Next

-----------------------------------------------------------------------------
(* What the lower words tell of a reading, whatever the upper ones are.    *)

LEMMA InitReading == Init => RInv
BY SimClockAssumption
DEF Init, RInv, GapInv, SettledInv, SettingInv, ReaderInv

LEMMA ReceiveReading ==
  ASSUME IInv, RInv, NEW d \in 0..MaxDelay, Receive(d)
  PROVE  RInv'
<1> USE SimClockAssumption
    DEF Receive, reader, IInv, TypeOK, RInv, GapInv, Stored
<1>1. GapInv'
  OBVIOUS
<1>2. SettledInv'
  BY DEF SettledInv
<1>3. SettingInv'
  <2> SUFFICES ASSUME active PROVE SettingInv'
    BY DEF SettingInv
  <2>1. PICK b, r \in Nat :
          /\ Stored(b, r)
          /\ heard - MaxDelay <= b - Lead /\ b - Lead <= heard
          /\ heard <= r /\ r <= heard + Slack /\ r <= now
    BY DEF SettledInv
  <2>2. heard' - MaxGap <= r /\ r <= heard'
    BY <2>1
  <2>3. r - MaxDelay - Slack <= b - Lead /\ b - Lead <= r
    BY <2>1
  <2>4. Stored(b, r)'
    BY <2>1
  <2> QED
    BY <2>2, <2>3, <2>4 DEF SettingInv
<1>4. ReaderInv'
  <2>1. heard <= heard'
    OBVIOUS
  <2>2. \A r \in Nat : r <= heard + Slack => r <= heard' + Slack
    BY <2>1
  <2> QED
    BY <2>2 DEF ReaderInv
<1> QED
  BY <1>1, <1>2, <1>3, <1>4

LEMMA SplitLow ==
  ASSUME NEW n
  PROVE  Split(n)["lo"] = n % Word
BY DEF Split

LEMMA SetClockReading ==
  ASSUME IInv, RInv, SetClock
  PROVE  RInv'
<1> USE SimClockAssumption
    DEF reader, IInv, TypeOK, Words, Halves, RInv, GapInv, Stored
<1>1. ASSUME NEW half \in Halves, StoreBase(half) PROVE RInv'
  <2> USE <1>1 DEF StoreBase
  <2>1. SettledInv' /\ GapInv' /\ ReaderInv'
    BY DEF SettledInv, ReaderInv
  <2>2. SettingInv'
    <3>1. "lo" \in todo' => "lo" \in todo /\ base'.lo = base.lo
      OBVIOUS
    <3> QED
      BY <3>1 DEF SettingInv
  <2> QED
    BY <2>1, <2>2
<1>2. CASE SampleTimer
  BY <1>2 DEF SampleTimer, SettledInv, SettingInv, ReaderInv
<1>3. ASSUME NEW half \in Halves, StoreRef(half) PROVE RInv'
  <2> USE <1>3 DEF StoreRef
  <2>1. SettledInv' /\ GapInv' /\ ReaderInv'
    BY DEF SettledInv, ReaderInv
  <2>2. SettingInv'
    <3>1. "lo" \in todo' => "lo" \in todo /\ ref'.lo = ref.lo
      OBVIOUS
    <3> QED
      BY <3>1 DEF SettingInv
  <2> QED
    BY <2>1, <2>2
<1>4. CASE Activate
  BY <1>4 DEF Activate, SettledInv, SettingInv, ReaderInv
<1>5. CASE StampSample
  <2> USE <1>5 DEF StampSample
  <2>1. base.lo = imu % Word /\ ref.lo = value % Word
    BY SplitLow DEF BaseInv, RefInv
  <2>2. heard <= value /\ value <= heard + Slack /\ value <= now
    BY DEF RefInv, HandlingInv
  <2>3. SettledInv'
    <3>1. base'.lo = imu % Word /\ ref'.lo = value % Word
      BY <2>1
    <3>2. heard' - MaxDelay <= imu - Lead /\ imu - Lead <= heard'
      OBVIOUS
    <3>3. heard' <= value /\ value <= heard' + Slack /\ value <= now'
      BY <2>2
    <3>4. imu \in Nat /\ value \in Nat
      OBVIOUS
    <3> QED
      BY <3>1, <3>2, <3>3, <3>4 DEF SettledInv
  <2>4. GapInv' /\ SettingInv' /\ ReaderInv'
    BY DEF SettingInv, ReaderInv
  <2> QED
    BY <2>3, <2>4
<1> QED
  BY <1>1, <1>2, <1>3, <1>4, <1>5 DEF SetClock

LEMMA ReadClockReading ==
  ASSUME IInv, RInv, ReadClock
  PROVE  RInv'
<1> USE SimClockAssumption DEF setter, IInv, TypeOK, Words, Halves, RInv
<1>1. GapInv' /\ SettledInv' /\ SettingInv'
  <2>1. UNCHANGED <<now, alive, heard, base, ref, active, setter, sample>>
    BY DEF ReadClock, BeginRead, EndRead, LoadRef, LoadBase
  <2> QED
    BY <2>1 DEF GapInv, SettledInv, SettingInv, Stored
<1>2. ReaderInv'
  <2>1. CASE BeginRead
    BY <2>1 DEF BeginRead, ReaderInv, NoLocal
  <2>2. CASE EndRead
    BY <2>2 DEF EndRead, ReaderInv
  <2>3. ASSUME NEW half \in Halves, LoadRef(half) PROVE ReaderInv'
    <3> USE <2>3 DEF LoadRef
    <3>1. rpc = "ref" /\ active /\ local.t <= now /\ local'.t = local.t
      BY DEF ReaderInv
    <3>2. ~((rpc' = "base" /\ "lo" \notin rtodo') \/ rpc' = "done")
      BY <3>1
    <3>3. CASE half = "lo"
      <4>1. PICK b, r \in Nat :
              /\ Stored(b, r)
              /\ heard - MaxDelay <= b - Lead /\ b - Lead <= heard
              /\ heard <= r /\ r <= heard + Slack /\ r <= now
        BY <3>1 DEF SettledInv
      <4>2. local'.ref.lo = r % Word
        BY <3>3, <4>1 DEF Stored
      <4>3. local.t <= r + MaxGap \/ (~alive /\ heard <= r)
        BY <3>1, <4>1 DEF GapInv
      <4> QED
        BY <3>1, <3>2, <4>1, <4>2, <4>3 DEF ReaderInv
    <3>4. CASE half = "hi"
      <4>1. local'.ref.lo = local.ref.lo
        BY <3>4
      <4>2. (rpc' = "ref" /\ "lo" \notin rtodo') \/ (rpc' = "base" /\ "lo" \in rtodo') =>
              rpc = "ref" /\ "lo" \notin rtodo
        BY <3>1, <3>4
      <4> QED
        BY <3>1, <3>2, <4>1, <4>2 DEF ReaderInv
    <3> QED
      BY <3>3, <3>4
  <2>4. ASSUME NEW half \in Halves, LoadBase(half) PROVE ReaderInv'
    <3> USE <2>4 DEF LoadBase
    <3>1. /\ rpc = "base" /\ active /\ local.t <= now
          /\ local'.t = local.t /\ local'.ref = local.ref
      BY DEF ReaderInv
    <3>2. rpc' # "ref" /\ active' /\ local'.t <= now'
      BY <3>1
    <3>3. CASE half = "lo"
      <4>1. PICK b, r0 \in Nat :
              /\ Stored(b, r0)
              /\ heard - MaxDelay <= b - Lead /\ b - Lead <= heard
              /\ heard <= r0 /\ r0 <= heard + Slack /\ r0 <= now
        BY <3>1 DEF SettledInv
      <4>2. PICK r \in Nat :
              /\ local.ref.lo = r % Word
              /\ r <= heard + Slack
              /\ local.t <= r + MaxGap \/ (~alive /\ heard <= r)
        BY <3>1, <3>3 DEF ReaderInv
      <4>3. local'.base.lo = b % Word /\ local'.ref.lo = r % Word
        BY <3>1, <3>3, <4>1, <4>2 DEF Stored
      <4>4. local.t - MaxDelay - Slack <= (b - Lead) + (local.t - r)
        BY <4>1, <4>2
      <4>5. (b - Lead) + (local.t - r) <= now + MaxGap
        BY <3>1, <4>1, <4>2 DEF GapInv
      <4>6. "lo" \notin rtodo'
        BY <3>3
      <4> QED
        BY <3>1, <3>2, <4>3, <4>4, <4>5, <4>6 DEF ReaderInv
    <3>4. CASE half = "hi"
      <4>1. local'.base.lo = local.base.lo
        BY <3>4
      <4>2. (rpc' = "base" /\ "lo" \notin rtodo') \/ rpc' = "done" =>
              rpc = "base" /\ "lo" \notin rtodo
        BY <3>1, <3>4
      <4>3. rpc' = "base" /\ "lo" \in rtodo' => "lo" \in rtodo
        OBVIOUS
      <4> QED
        BY <3>1, <3>2, <4>1, <4>2, <4>3 DEF ReaderInv
    <3> QED
      BY <3>3, <3>4
  <2> QED
    BY <2>1, <2>2, <2>3, <2>4 DEF ReadClock
<1> QED
  BY <1>1, <1>2

LEMMA TickReading ==
  ASSUME IInv, RInv, Tick
  PROVE  RInv'
<1> USE SimClockAssumption DEF Tick, setter, reader, IInv, TypeOK, RInv
<1>1. now' = now + 1
  OBVIOUS
<1>2. GapInv'
  BY DEF GapInv
<1>3. SettledInv'
  <2>1. \A r \in Nat : r <= now => r <= now'
    BY <1>1
  <2> QED
    BY <2>1 DEF SettledInv, Stored
<1>4. SettingInv'
  BY DEF SettingInv, Stored
<1>5. ReaderInv'
  <2>1. local.t <= now => local.t <= now'
    BY <1>1
  <2>2. ASSUME NEW b \in Nat, NEW r \in Nat,
               (b - Lead) + (local.t - r) <= now + MaxGap
        PROVE  (b - Lead) + (local.t - r) <= now' + MaxGap
    BY <1>1, <2>2
  <2> QED
    BY <2>1, <2>2 DEF ReaderInv
<1> QED
  BY <1>2, <1>3, <1>4, <1>5

LEMMA DieReading ==
  ASSUME IInv, RInv, Die
  PROVE  RInv'
BY DEF Die, setter, reader, RInv, GapInv, SettledInv, SettingInv, ReaderInv, Stored

LEMMA StepReading == IInv /\ RInv /\ [Next]_vars => RInv'
<1> SUFFICES ASSUME IInv, RInv, [Next]_vars PROVE RInv'
  OBVIOUS
<1>1. CASE UNCHANGED vars
  BY <1>1 DEF vars, RInv, GapInv, SettledInv, SettingInv, ReaderInv, Stored
<1> QED
  BY <1>1, ReceiveReading, SetClockReading, ReadClockReading, TickReading, DieReading
  DEF Next

-----------------------------------------------------------------------------
(* From the lower words to the value read.                                 *)

LEMMA Multiple ==
  ASSUME NEW d \in Nat \ {0}, NEW m \in Int
  PROVE  (d * m) % d = 0
<1> DEFINE x == d * m
<1>1. x \in Int
  OBVIOUS
<1>2. PICK p \in Int : x = d * p + (x % d)
  <2>1. x = d * (x \div d) + (x % d) /\ x \div d \in Int
    BY <1>1
  <2> QED
    BY <2>1
<1>3. PICK r \in 0..(d - 1) : r = x % d
  BY <1>1
<1>4. d * (m - p) = r
  BY <1>2, <1>3
<1>5. CASE m - p >= 1
  BY <1>3, <1>4, <1>5
<1>6. CASE m - p <= -1
  BY <1>3, <1>4, <1>6
<1>7. CASE m = p
  BY <1>3, <1>4, <1>7
<1> QED
  BY <1>5, <1>6, <1>7

\* A number and what is left of it by a word differ by a multiple.
LEMMA LowPart ==
  ASSUME NEW d \in Nat \ {0}, NEW h \in Nat, NEW n \in Nat
  PROVE  \E m \in Int : h * d + (n % d) = n + d * m
<1>1. n = d * (n \div d) + (n % d) /\ n \div d \in Int /\ n % d \in Int
  OBVIOUS
<1>2. PICK q \in Int : n = d * q + (n % d)
  BY <1>1
<1>3. PICK r \in Int : r = n % d
  BY <1>1
<1>4. n = d * q + r
  BY <1>2, <1>3
<1>5. h * d + r = n + d * (h - q) /\ h - q \in Int
  BY <1>4
<1> QED
  BY <1>3, <1>5

\* Words whose lower halves are those of n join to n, but for multiples of Word.
LEMMA JoinLow ==
  ASSUME NEW w \in Words, NEW n \in Nat, w.lo = n % Word
  PROVE  \E m \in Int : Join(w) = n + Word * m
<1>1. w.hi \in Nat /\ Word \in Nat \ {0}
  BY SimClockAssumption DEF Words, Halves
<1>2. PICK h \in Nat : h = w.hi
  BY <1>1
<1>3. Join(w) = h * Word + (n % Word)
  BY <1>2 DEF Join
<1>4. PICK m \in Int : h * Word + (n % Word) = n + Word * m
  BY <1>1, LowPart
<1> QED
  BY <1>3, <1>4

LEMMA ElapsedNear ==
  ASSUME NEW t \in Nat, NEW refWords \in Words, NEW baseWords \in Words,
         NEW b \in Nat, NEW r \in Nat, NEW from \in Nat, NEW to \in Nat,
         baseWords.lo = b % Word, refWords.lo = r % Word,
         from - MaxDelay - Slack <= (b - Lead) + (t - r),
         (b - Lead) + (t - r) <= to + MaxGap
  PROVE  Near(Elapsed(t, refWords, baseWords), from, to)
<1> USE SimClockAssumption
<1>1. PICK m \in Int : Join(baseWords) = b + Word * m
  BY JoinLow
<1>2. PICK k \in Int : Join(refWords) = r + Word * k
  BY JoinLow
<1>3. PICK x \in Int : x = Word * m
  OBVIOUS
<1>4. PICK y \in Int : y = Word * k
  OBVIOUS
<1> DEFINE s == (b - Lead) + (t - r)
<1>5. Elapsed(t, refWords, baseWords) - Lead - s = x - y
  BY <1>1, <1>2, <1>3, <1>4 DEF Elapsed
<1>6. x - y = Word * (m - k)
  BY <1>3, <1>4
<1>7. (x - y) % Word = 0
  BY <1>6, Multiple
<1>8. s \in (from - MaxDelay - Slack)..(to + MaxGap)
  OBVIOUS
<1>9. (Elapsed(t, refWords, baseWords) - Lead - s) % Word = 0
  BY <1>5, <1>7
<1> QED
  BY <1>8, <1>9 DEF Near

LEMMA ReadingsNear == IInv /\ RInv => ReadBounded
<1> SUFFICES ASSUME IInv, RInv PROVE ReadBounded
  OBVIOUS
<1> USE SimClockAssumption DEF IInv, TypeOK, RInv
<1>1. ASSUME active PROVE Near(Clock, now, now)
  <2>1. ASSUME NEW b \in Nat, NEW r \in Nat,
               base.lo = b % Word, ref.lo = r % Word,
               r - MaxDelay - Slack <= b - Lead, b - Lead <= r + MaxGap
        PROVE  Near(Clock, now, now)
    <3>1. now - MaxDelay - Slack <= (b - Lead) + (now - r)
      BY <2>1
    <3>2. (b - Lead) + (now - r) <= now + MaxGap
      BY <2>1
    <3> QED
      BY <1>1, <2>1, <3>1, <3>2, ElapsedNear DEF Clock
  <2>2. CASE spc = "idle"
    <3>1. PICK b, r \in Nat :
            /\ Stored(b, r)
            /\ heard - MaxDelay <= b - Lead /\ b - Lead <= heard
            /\ heard <= r /\ r <= heard + Slack /\ r <= now
      BY <1>1, <2>2 DEF SettledInv
    <3>2. r - MaxDelay - Slack <= b - Lead /\ b - Lead <= r + MaxGap
      BY <3>1
    <3> QED
      BY <2>1, <3>1, <3>2 DEF Stored
  <2>3. CASE spc = "base" /\ "lo" \in todo
    <3>1. PICK b, r \in Nat :
            Stored(b, r) /\ r - MaxDelay - Slack <= b - Lead /\ b - Lead <= r
      BY <1>1, <2>3 DEF SettingInv
    <3>2. b - Lead <= r + MaxGap
      BY <3>1
    <3> QED
      BY <2>1, <3>1, <3>2 DEF Stored
  <2>4. CASE (spc = "base" /\ "lo" \notin todo) \/ (spc = "ref" /\ "lo" \in todo)
    <3>1. PICK r \in Nat : ref.lo = r % Word /\ heard - MaxGap <= r /\ r <= heard
      BY <1>1, <2>4 DEF SettingInv
    <3>2. base.lo = imu % Word
      BY <2>4, SplitLow DEF BaseInv, Halves
    <3>3. heard - MaxDelay <= imu - Lead /\ imu - Lead <= heard
      BY <2>4 DEF GapInv
    <3>4. r - MaxDelay - Slack <= imu - Lead /\ imu - Lead <= r + MaxGap
      BY <3>1, <3>3
    <3> QED
      BY <2>1, <3>1, <3>2, <3>4
  <2>5. CASE (spc = "ref" /\ "lo" \notin todo) \/ spc = "stamp"
    <3>1. base.lo = imu % Word /\ ref.lo = value % Word
      BY <2>5, SplitLow DEF BaseInv, RefInv, Halves
    <3>2. heard - MaxDelay <= imu - Lead /\ imu - Lead <= heard
      BY <2>5 DEF GapInv
    <3>3. heard <= value /\ value <= heard + Slack
      BY <2>5 DEF RefInv, HandlingInv
    <3>4. value - MaxDelay - Slack <= imu - Lead /\ imu - Lead <= value + MaxGap
      BY <3>2, <3>3
    <3> QED
      BY <2>1, <3>1, <3>4
  <2> QED
    BY <2>2, <2>3, <2>4, <2>5
<1>2. ASSUME rpc = "done"
      PROVE  Near(Elapsed(local.t, local.ref, local.base), local.t, now)
  <2>1. PICK b, r \in Nat :
          /\ local.ref.lo = r % Word /\ local.base.lo = b % Word
          /\ local.t - MaxDelay - Slack <= (b - Lead) + (local.t - r)
          /\ (b - Lead) + (local.t - r) <= now + MaxGap
    BY <1>2 DEF ReaderInv
  <2>2. local.t \in Nat /\ local.ref \in Words /\ local.base \in Words
    OBVIOUS
  <2> QED
    BY <2>1, <2>2, ElapsedNear
<1> QED
  BY <1>1, <1>2 DEF ReadBounded

-----------------------------------------------------------------------------
(* The invariant of the setting of the clock, word by word.                *)
THEOREM Invariant == Spec => []IInv
<1> QED
  BY InitInv, StepInv, PTL DEF Spec

(* Type correctness: time never gets below zero in an unsigned variable.   *)
THEOREM Typing == Spec => []TypeOK
<1>1. IInv => TypeOK
  BY DEF IInv
<1> QED
  BY <1>1, Invariant, PTL

(* A sample of a HIL_SENSOR message is stamped with the simulator's time,   *)
(* plus at most the interruption of the receiver, however late it is.      *)
THEOREM Stamps == Spec => []StampsFollowSimulator
<1>1. IInv => StampsFollowSimulator
  BY DEF IInv
<1> QED
  BY <1>1, Invariant, PTL

(* Every reading of the clock, in the middle of a setting or interrupted by *)
(* settings, is near the simulator's time modulo a word, although the      *)
(* words of base and reference it puts together may be of four messages.   *)
THEOREM Readings == Spec => []ReadBounded
<1>1. Init => IInv /\ RInv
  BY InitInv, InitReading
<1>2. IInv /\ RInv /\ [Next]_vars => IInv' /\ RInv'
  BY StepInv, StepReading
<1>3. IInv /\ RInv => ReadBounded
  BY ReadingsNear
<1> QED
  BY <1>1, <1>2, <1>3, PTL DEF Spec
=============================================================================
