--------------------------- MODULE SeqLockProofs ---------------------------
(***************************************************************************)
(* Proofs about SeqLock for every number of readers and words, every       *)
(* (even) width of the counter, every cap and every number of writes.      *)
(*                                                                         *)
(* The argument: while a reader's sample is live, the history counter      *)
(* since[r] stays below one full turn, so the counter equals the sample    *)
(* again only if nothing was incremented in between (ShiftBack); an even   *)
(* counter means that no write is in progress (ParityInv); hence an        *)
(* accepted copy was made entirely between two writes.                     *)
(***************************************************************************)
EXTENDS SeqLock, TLAPS

USE SeqLockAssumption

(* Fewer than SeqMod increments bring the counter back only if there were  *)
(* none.                                                                   *)
LEMMA ShiftBack ==
  ASSUME NEW s \in 0..(SeqMod - 1), NEW n \in 0..(SeqMod - 1), Shift(s, n) = s
  PROVE  n = 0
  BY DEF Shift

(* One increment keeps the counter in its width, flips its parity, and     *)
(* adds one to the distance from any earlier sample.                       *)
LEMMA ShiftOne ==
  ASSUME NEW s \in 0..(SeqMod - 1)
  PROVE  /\ Shift(s, 1) \in 0..(SeqMod - 1)
         /\ Odd(Shift(s, 1)) <=> ~Odd(s)
  BY DEF Shift, Odd

LEMMA ShiftNext ==
  ASSUME NEW s \in 0..(SeqMod - 1), NEW n \in 0..(SeqMod - 1), n + 1 < SeqMod
  PROVE  Shift(Shift(s, n), 1) = Shift(s, n + 1)
  BY DEF Shift

LEMMA ShiftZero ==
  ASSUME NEW s \in 0..(SeqMod - 1)
  PROVE  Shift(s, 0) = s
  BY DEF Shift

-----------------------------------------------------------------------------
LEMMA InitInv == Init => IInv
<1> SUFFICES ASSUME Init PROVE IInv
  OBVIOUS
<1> USE DEF Init, Junk
<1>1. TypeOK
  BY DEF TypeOK
<1>2. ParityInv /\ DataInv
  BY DEF ParityInv, DataInv, Odd
<1>3. SampleInv /\ CopyInv /\ FloorInv
  BY DEF SampleInv, CopyInv, FloorInv, InCall
<1>4. NoTornRead /\ FreshRead
  BY DEF NoTornRead, FreshRead
<1> QED
  BY <1>1, <1>2, <1>3, <1>4 DEF IInv

-----------------------------------------------------------------------------
(* The two increments.                                                     *)
LEMMA IncrementKeeps ==
  ASSUME IInv, Increment, UNCHANGED <<rpc, sample>>
  PROVE  /\ sequence' \in 0..(SeqMod - 1)
         /\ since' \in [Readers -> 0..(SeqMod - 1)]
         /\ Odd(sequence') <=> ~Odd(sequence)
         /\ SampleInv'
         /\ \A r \in Readers : rpc[r] \in {"copy", "retry"} => since'[r] > 0
<1> USE DEF IInv, TypeOK
<1>1. sequence' \in 0..(SeqMod - 1) /\ (Odd(sequence') <=> ~Odd(sequence))
  BY ShiftOne DEF Increment
<1>2. since' \in [Readers -> 0..(SeqMod - 1)]
  BY DEF Increment, NoFullTurn
<1>3. ASSUME NEW r \in Readers, rpc[r] \in {"copy", "retry"}
      PROVE  /\ sequence' = Shift(sample'[r], since'[r])
             /\ since'[r] > 0
  <2>1. since[r] + 1 < SeqMod /\ since'[r] = since[r] + 1
    BY <1>3 DEF Increment, NoFullTurn
  <2>2. sequence = Shift(sample[r], since[r])
    BY <1>3 DEF SampleInv
  <2>3. sequence' = Shift(sample[r], since[r] + 1)
    BY <2>1, <2>2, ShiftNext DEF Increment
  <2> QED
    BY <2>1, <2>3
<1> QED
  BY <1>1, <1>2, <1>3 DEF SampleInv

LEMMA BeginWriteInv == IInv /\ BeginWrite => IInv'
<1> SUFFICES ASSUME IInv, BeginWrite PROVE IInv'
  OBVIOUS
<1> USE DEF BeginWrite, readerVars
<1>0. /\ sequence' \in 0..(SeqMod - 1)
      /\ since' \in [Readers -> 0..(SeqMod - 1)]
      /\ Odd(sequence') <=> ~Odd(sequence)
      /\ SampleInv'
      /\ \A r \in Readers : rpc[r] \in {"copy", "retry"} => since'[r] > 0
  BY IncrementKeeps
<1>1. TypeOK'
  BY <1>0 DEF IInv, TypeOK
<1>2. ParityInv'
  BY <1>0 DEF IInv, ParityInv
<1>3. DataInv'
  BY DEF IInv, TypeOK, DataInv
<1>4. Committed' = Committed
  BY DEF IInv, TypeOK, Committed
<1>5. CopyInv'
  BY <1>0 DEF IInv, TypeOK, CopyInv
<1>6. FloorInv' /\ NoTornRead' /\ FreshRead'
  BY <1>4 DEF IInv, FloorInv, InCall, NoTornRead, FreshRead
<1> QED
  BY <1>0, <1>1, <1>2, <1>3, <1>5, <1>6 DEF IInv

LEMMA EndWriteInv == IInv /\ EndWrite => IInv'
<1> SUFFICES ASSUME IInv, EndWrite PROVE IInv'
  OBVIOUS
<1> USE DEF EndWrite, readerVars
<1>0. /\ sequence' \in 0..(SeqMod - 1)
      /\ since' \in [Readers -> 0..(SeqMod - 1)]
      /\ Odd(sequence') <=> ~Odd(sequence)
      /\ SampleInv'
      /\ \A r \in Readers : rpc[r] \in {"copy", "retry"} => since'[r] > 0
  BY IncrementKeeps
<1>1. TypeOK'
  BY <1>0 DEF IInv, TypeOK
<1>2. ParityInv'
  BY <1>0 DEF IInv, ParityInv
<1>3. DataInv'
  BY DEF IInv, TypeOK, DataInv
<1>4. Committed' = version /\ Committed <= version /\ Committed \in Int
  BY DEF IInv, TypeOK, Committed
<1>5. CopyInv'
  BY <1>0 DEF IInv, TypeOK, CopyInv
<1>6. FloorInv'
  BY <1>4 DEF IInv, TypeOK, FloorInv, InCall
<1>7. NoTornRead' /\ FreshRead'
  BY <1>4 DEF IInv, TypeOK, NoTornRead, FreshRead
<1> QED
  BY <1>0, <1>1, <1>2, <1>3, <1>5, <1>6, <1>7 DEF IInv

(* A word is stored only while the counter is odd: a copy that could still *)
(* be accepted cannot be in progress.                                      *)
LEMMA StoreWordInv ==
  ASSUME IInv, NEW w \in Words, StoreWord(w)
  PROVE  IInv'
<1> USE DEF StoreWord, readerVars
<1>1. TypeOK'
  BY DEF IInv, TypeOK
<1>2. ParityInv'
  BY DEF IInv, ParityInv
<1>3. DataInv'
  BY DEF IInv, TypeOK, DataInv
<1>4. Committed' = Committed
  BY DEF Committed
<1>5. SampleInv' /\ CopyInv'
  BY DEF IInv, SampleInv, CopyInv
<1>6. FloorInv' /\ NoTornRead' /\ FreshRead'
  BY <1>4 DEF IInv, FloorInv, InCall, NoTornRead, FreshRead
<1> QED
  BY <1>1, <1>2, <1>3, <1>5, <1>6 DEF IInv

-----------------------------------------------------------------------------
LEMMA CommittedRange ==
  ASSUME IInv
  PROVE  Committed \in Nat /\ Committed <= version
  BY DEF IInv, TypeOK, DataInv, Committed

LEMMA CallInv ==
  ASSUME IInv, NEW r \in Readers, Call(r)
  PROVE  IInv'
<1> USE DEF Call, writerVars
<1>1. TypeOK'
  BY CommittedRange DEF IInv, TypeOK, Junk
<1>2. ParityInv' /\ DataInv' /\ SampleInv' /\ CopyInv'
  BY DEF IInv, TypeOK, ParityInv, DataInv, SampleInv, CopyInv
<1>3. Committed' = Committed
  BY DEF Committed
<1>4. FloorInv'
  BY <1>3, CommittedRange DEF IInv, TypeOK, FloorInv, InCall
<1>5. NoTornRead' /\ FreshRead'
  BY <1>3 DEF IInv, TypeOK, NoTornRead, FreshRead
<1> QED
  BY <1>1, <1>2, <1>4, <1>5 DEF IInv

LEMMA GiveUpInv ==
  ASSUME IInv, NEW r \in Readers, GiveUp(r)
  PROVE  IInv'
<1> USE DEF GiveUp, Return, writerVars
<1>1. TypeOK'
  BY DEF IInv, TypeOK
<1>2. ParityInv' /\ DataInv' /\ SampleInv' /\ CopyInv'
  BY DEF IInv, TypeOK, ParityInv, DataInv, SampleInv, CopyInv
<1>3. FloorInv' /\ NoTornRead' /\ FreshRead'
  BY DEF IInv, TypeOK, FloorInv, InCall, NoTornRead, FreshRead, Committed
<1> QED
  BY <1>1, <1>2, <1>3 DEF IInv

LEMMA AttemptInv ==
  ASSUME IInv, NEW r \in Readers, Attempt(r)
  PROVE  IInv'
<1> USE DEF Attempt, Sample, writerVars
<1>1. TypeOK'
  <2>0. 0 \in 0..(SeqMod - 1)
    OBVIOUS
  <2>1. sample' \in [Readers -> 0..(SeqMod - 1)] /\ since' \in [Readers -> 0..(SeqMod - 1)]
    <3>1. CASE sample' = [sample EXCEPT ![r] = sequence] /\ since' = [since EXCEPT ![r] = 0]
      BY <2>0, <3>1 DEF IInv, TypeOK
    <3>2. CASE UNCHANGED <<sample, since>>
      BY <3>2 DEF IInv, TypeOK
    <3> QED
      BY <3>1, <3>2
  <2>2. tries' \in [Readers -> Nat]
    BY DEF IInv, TypeOK
  <2>3. loaded' \in [Readers -> SUBSET Words]
    BY DEF IInv, TypeOK
  <2>4. rpc' \in [Readers -> {"idle", "try", "copy", "retry", "ok", "fail"}]
    BY DEF IInv, TypeOK
  <2> QED
    BY <2>1, <2>2, <2>3, <2>4 DEF IInv, TypeOK
<1>2. ParityInv' /\ DataInv'
  BY DEF IInv, ParityInv, DataInv
<1>3. SampleInv'
  <2> SUFFICES ASSUME NEW q \in Readers, rpc'[q] \in {"copy", "retry"}
               PROVE  sequence' = Shift(sample'[q], since'[q])
    BY DEF SampleInv
  <2>1. CASE q # r
    BY <2>1 DEF IInv, TypeOK, SampleInv
  <2>2. CASE q = r /\ sample'[r] = sequence /\ since'[r] = 0
    BY <2>2, ShiftZero DEF IInv, TypeOK
  <2>3. CASE q = r /\ rpc[r] = "retry" /\ UNCHANGED <<sample, since>>
    BY <2>3 DEF IInv, SampleInv
  <2> QED
    BY <2>1, <2>2, <2>3 DEF IInv, TypeOK
<1>4. CopyInv'
  BY DEF IInv, TypeOK, CopyInv
<1>5. FloorInv' /\ NoTornRead' /\ FreshRead'
  BY DEF IInv, TypeOK, FloorInv, InCall, NoTornRead, FreshRead, Committed
<1> QED
  BY <1>1, <1>2, <1>3, <1>4, <1>5 DEF IInv

(* A word copied while the counter still equals an even sample comes from  *)
(* the last completed write.                                               *)
LEMMA LoadWordInv ==
  ASSUME IInv, NEW r \in Readers, NEW w \in Words, LoadWord(r, w)
  PROVE  IInv'
<1> USE DEF LoadWord, writerVars
<1>1. TypeOK'
  BY DEF IInv, TypeOK
<1>2. ParityInv' /\ DataInv' /\ SampleInv'
  BY DEF IInv, ParityInv, DataInv, SampleInv
<1>3. CopyInv'
  <2> SUFFICES ASSUME NEW q \in Readers, rpc'[q] = "copy", since'[q] = 0,
                      ~Odd(sample'[q]), NEW v \in loaded'[q]
               PROVE  dst'[q][v] = version'
    BY DEF CopyInv
  <2>1. CASE q # r \/ v # w
    BY <2>1 DEF IInv, TypeOK, CopyInv
  <2>2. CASE q = r /\ v = w
    <3>1. sequence = sample[r]
      BY <2>2, ShiftZero DEF IInv, TypeOK, SampleInv
    <3>2. wpc = "idle"
      BY <2>2, <3>1 DEF IInv, TypeOK, ParityInv
    <3>3. data[w] = version
      BY <3>2 DEF IInv, DataInv
    <3> QED
      BY <2>2, <3>3 DEF IInv, TypeOK
  <2> QED
    BY <2>1, <2>2
<1>4. FloorInv' /\ NoTornRead' /\ FreshRead'
  BY DEF IInv, TypeOK, FloorInv, InCall, NoTornRead, FreshRead, Committed
<1> QED
  BY <1>1, <1>2, <1>3, <1>4 DEF IInv

(* What an accepted attempt holds: the version that is current when it     *)
(* returns.                                                                *)
LEMMA AcceptedIsCurrent ==
  ASSUME IInv, NEW r \in Readers, Check(r), rpc'[r] = "ok"
  PROVE  /\ wpc = "idle"
         /\ Committed = version
         /\ \A w \in Words : dst[r][w] = version
<1> USE DEF IInv, TypeOK
<1>1. Accepts(sample[r], sequence)
  BY DEF Check
<1>2. ~Odd(sample[r]) /\ sample[r] = sequence
  BY <1>1 DEF Accepts
<1>3. rpc[r] = "copy" /\ loaded[r] = Words
  BY DEF Check
<1>4. Shift(sample[r], since[r]) = sample[r]
  BY <1>2, <1>3 DEF SampleInv
<1>5. since[r] = 0
  BY <1>4, ShiftBack
<1>6. wpc = "idle"
  BY <1>2 DEF ParityInv
<1> QED
  BY <1>2, <1>3, <1>5, <1>6 DEF CopyInv, Committed

LEMMA CheckInv ==
  ASSUME IInv, NEW r \in Readers, Check(r)
  PROVE  IInv'
<1>1. TypeOK'
  <2>0. 0 \in 0..(SeqMod - 1) /\ 0 \in Nat
    OBVIOUS
  <2>1. CASE Return(r, "ok")
    BY <2>0, <2>1 DEF IInv, TypeOK, Check, Return, writerVars
  <2>2. CASE /\ rpc' = [rpc EXCEPT ![r] = "retry"]
             /\ sample' = [sample EXCEPT ![r] = sequence]
             /\ since' = [since EXCEPT ![r] = 0]
             /\ UNCHANGED <<tries, loaded>>
    BY <2>0, <2>2 DEF IInv, TypeOK, Check, writerVars
  <2> QED
    BY <2>1, <2>2 DEF Check
<1>2. ParityInv' /\ DataInv'
  BY DEF IInv, ParityInv, DataInv, Check, writerVars
<1>3. SampleInv'
  <2> SUFFICES ASSUME NEW q \in Readers, rpc'[q] \in {"copy", "retry"}
               PROVE  sequence' = Shift(sample'[q], since'[q])
    BY DEF SampleInv
  <2>1. CASE q # r
    BY <2>1 DEF IInv, TypeOK, SampleInv, Check, Return, writerVars
  <2>2. CASE q = r
    <3>1. sample'[r] = sequence /\ since'[r] = 0 /\ sequence' = sequence
      BY <2>2 DEF IInv, TypeOK, Check, Return, writerVars
    <3> QED
      BY <2>2, <3>1, ShiftZero DEF IInv, TypeOK
  <2> QED
    BY <2>1, <2>2
<1>4. CopyInv'
  BY DEF IInv, TypeOK, CopyInv, Check, Return, writerVars
<1>5. Committed' = Committed /\ dst' = dst /\ floor' = floor
  BY DEF Check, Committed, writerVars
<1>6. \A q \in Readers \ {r} : rpc'[q] = rpc[q]
  BY DEF IInv, TypeOK, Check, Return
<1>7. rpc'[r] \in {"ok", "retry"} /\ rpc[r] = "copy"
  BY DEF IInv, TypeOK, Check, Return
<1>8. FloorInv'
  BY <1>5, <1>6, <1>7 DEF IInv, FloorInv, InCall
<1>9. ASSUME rpc'[r] = "ok"
      PROVE  \A w \in Words : /\ dst[r][w] = version
                              /\ floor[r] <= version
                              /\ Committed = version
  <2>1. Committed = version /\ \A w \in Words : dst[r][w] = version
    BY <1>9, AcceptedIsCurrent
  <2>2. floor[r] <= Committed
    BY <1>7 DEF IInv, FloorInv, InCall
  <2> QED
    BY <2>1, <2>2
<1>10. version \in Nat
  BY DEF IInv, TypeOK
<1>11. NoTornRead'
  BY <1>5, <1>6, <1>9 DEF IInv, NoTornRead
<1>12. FreshRead'
  BY <1>5, <1>6, <1>9, <1>10 DEF IInv, FreshRead
<1> QED
  BY <1>1, <1>2, <1>3, <1>4, <1>8, <1>11, <1>12 DEF IInv

LEMMA StepInv == IInv /\ [Next]_vars => IInv'
<1> SUFFICES ASSUME IInv, [Next]_vars PROVE IInv'
  OBVIOUS
<1>1. CASE BeginWrite
  BY <1>1, BeginWriteInv
<1>2. CASE EndWrite
  BY <1>2, EndWriteInv
<1>3. ASSUME NEW w \in Words, StoreWord(w) PROVE IInv'
  BY <1>3, StoreWordInv
<1>4. CASE Die
  BY <1>4 DEF Die, readerVars, IInv, TypeOK, ParityInv, DataInv, SampleInv, CopyInv,
              FloorInv, InCall, NoTornRead, FreshRead, Committed
<1>5. ASSUME NEW r \in Readers, Call(r) PROVE IInv'
  BY <1>5, CallInv
<1>6. ASSUME NEW r \in Readers, ReaderStep(r) PROVE IInv'
  BY <1>6, GiveUpInv, AttemptInv, LoadWordInv, CheckInv DEF ReaderStep
<1>7. CASE UNCHANGED vars
  BY <1>7 DEF vars, IInv, TypeOK, ParityInv, DataInv, SampleInv, CopyInv,
              FloorInv, InCall, NoTornRead, FreshRead, Committed
<1> QED
  BY <1>1, <1>2, <1>3, <1>4, <1>5, <1>6, <1>7 DEF Next, Writer

THEOREM Invariant == Spec => []IInv
  BY InitInv, StepInv, PTL DEF Spec

(* The model's state stays well-typed: in particular the counter keeps its *)
(* width across the wrap (main/fc_core.h, uint32_t sequence).              *)
THEOREM Typing == Spec => []TypeOK
  BY Invariant, PTL DEF IInv

(* No read that returns true is torn, for any record size, number of       *)
(* readers and cap (fc_ekf_output_seqlock_read, fc_motor_cmd_seqlock_read, *)
(* fc_seqlock_read).                                                       *)
THEOREM NoTear == Spec => []NoTornRead
  BY Invariant, PTL DEF IInv

(* A read that returns true holds a write completed no earlier than the    *)
(* last one completed before the call.                                     *)
THEOREM Freshness == Spec => []FreshRead
  BY Invariant, PTL DEF IInv

-----------------------------------------------------------------------------
(* Once the writer is dead between its increments, no read returns true:   *)
(* Core 1 falls back to its safe default (fc_core.c, mc_ok == false).      *)
THEOREM DeadWriter == Spec => DeadWriterRejected
<1>1. ASSUME IInv, [Next]_vars, NEW r \in Readers,
             ~alive, wpc = "copying", rpc[r] # "ok", rpc'[r] = "ok"
      PROVE  FALSE
  <2>1. CASE Check(r)
    BY <1>1, <2>1, AcceptedIsCurrent
  <2>2. ASSUME NEW q \in Readers, Check(q), q # r PROVE FALSE
    BY <1>1, <2>2 DEF IInv, TypeOK, Check, Return
  <2>3. ASSUME NEW q \in Readers, Call(q) \/ GiveUp(q) \/ Attempt(q) PROVE FALSE
    BY <1>1, <2>3 DEF IInv, TypeOK, Call, GiveUp, Return, Attempt, Sample
  <2>4. ASSUME NEW q \in Readers, NEW w \in Words, LoadWord(q, w) PROVE FALSE
    BY <1>1, <2>4 DEF LoadWord
  <2>5. CASE Writer \/ Die \/ UNCHANGED vars
    BY <1>1, <2>5 DEF Writer, BeginWrite, StoreWord, EndWrite, Die, readerVars, vars
  <2> QED
    BY <1>1, <2>1, <2>2, <2>3, <2>4, <2>5 DEF Next, ReaderStep
<1>2. IInv /\ [Next]_vars
        => [\A r \in Readers :
              ~alive /\ wpc = "copying" => ~(rpc[r] # "ok" /\ rpc'[r] = "ok")]_vars
  BY <1>1
<1> QED
  BY <1>2, Invariant, PTL DEF Spec, DeadWriterRejected

-----------------------------------------------------------------------------
(* The refinement.  Each action of the protocol maps to at most one action *)
(* of the cell: the second increment publishes, a call starts, an accepted *)
(* check finishes with the current version, the cap gives up.              *)

LEMMA InitRefines == Init => Cell!Init
  BY DEF Init, Cell!Init, Cell!Nothing, Committed, CallState, InCall, Junk

LEMMA WriterRefines ==
  ASSUME IInv, Writer \/ Die
  PROVE  Cell!Publish \/ UNCHANGED Cell!vars
<1>1. CASE BeginWrite
  <2>1. Committed' = Committed
    BY <1>1 DEF IInv, TypeOK, BeginWrite, Committed
  <2> QED
    BY <1>1, <2>1 DEF BeginWrite, readerVars, Cell!vars, CallState, InCall, Junk
<1>2. CASE EndWrite
  <2>1. Committed' = Committed + 1
    BY <1>2 DEF IInv, TypeOK, EndWrite, Committed
  <2> QED
    BY <1>2, <2>1 DEF EndWrite, readerVars, Cell!Publish, CallState, InCall, Junk
<1>3. ASSUME NEW w \in Words, StoreWord(w)
      PROVE  UNCHANGED Cell!vars
  BY <1>3 DEF StoreWord, readerVars, Cell!vars, Committed, CallState, InCall, Junk
<1>4. CASE Die
  BY <1>4 DEF Die, readerVars, Cell!vars, Committed, CallState, InCall, Junk
<1> QED
  BY <1>1, <1>2, <1>3, <1>4 DEF Writer

(* What the cell sees of the readers, for a step that changes reader r     *)
(* only.                                                                   *)
LEMMA StartRefines ==
  ASSUME IInv, NEW r \in Readers, Call(r)
  PROVE  Cell!Start(r)
<1> USE DEF Call, writerVars, IInv, TypeOK
<1>1. Committed' = Committed
  BY DEF Committed
<1>2. [q \in Readers |-> CallState(q)]'
        = [[q \in Readers |-> CallState(q)] EXCEPT ![r] = "reading"]
  BY DEF CallState, InCall
<1>3. [q \in Readers |-> IF rpc[q] = "ok" THEN dst[q] ELSE Junk]'
        = [[q \in Readers |-> IF rpc[q] = "ok" THEN dst[q] ELSE Junk]
             EXCEPT ![r] = Junk]
  BY DEF Junk
<1>4. CallState(r) # "reading"
  BY DEF CallState, InCall
<1> QED
  BY <1>1, <1>2, <1>3, <1>4 DEF Cell!Start, Cell!Nothing, Junk

LEMMA GiveUpRefines ==
  ASSUME IInv, NEW r \in Readers, GiveUp(r)
  PROVE  Cell!GiveUp(r)
<1> USE DEF GiveUp, Return, writerVars, IInv, TypeOK
<1>1. Committed' = Committed
  BY DEF Committed
<1>2. [q \in Readers |-> CallState(q)]'
        = [[q \in Readers |-> CallState(q)] EXCEPT ![r] = "fail"]
  BY DEF CallState, InCall
<1>3. [q \in Readers |-> IF rpc[q] = "ok" THEN dst[q] ELSE Junk]'
        = [q \in Readers |-> IF rpc[q] = "ok" THEN dst[q] ELSE Junk]
  BY DEF Junk
<1>4. CallState(r) = "reading"
  BY DEF CallState, InCall
<1> QED
  BY <1>1, <1>2, <1>3, <1>4 DEF Cell!GiveUp

(* Attempts and word copies are invisible.                                 *)
LEMMA ReadingStutters ==
  ASSUME IInv, NEW r \in Readers,
         \/ Attempt(r)
         \/ \E w \in Words : LoadWord(r, w)
         \/ Check(r) /\ rpc'[r] # "ok"
  PROVE  UNCHANGED Cell!vars
<1> USE DEF writerVars, IInv, TypeOK
<1>1. Committed' = Committed /\ floor' = floor
  BY DEF Committed, Attempt, Sample, LoadWord, Check
<1>2. /\ rpc[r] \in {"try", "copy", "retry"} /\ rpc'[r] \in {"try", "copy", "retry"}
      /\ \A q \in Readers \ {r} : rpc'[q] = rpc[q] /\ dst'[q] = dst[q]
  BY DEF Attempt, Sample, LoadWord, Check, Return
<1>3. \A q \in Readers : CallState(q)' = CallState(q)
  BY <1>2 DEF CallState, InCall
<1>4. \A q \in Readers : (IF rpc[q] = "ok" THEN dst[q] ELSE Junk)'
                          = IF rpc[q] = "ok" THEN dst[q] ELSE Junk
  BY <1>2 DEF Junk
<1> QED
  BY <1>1, <1>3, <1>4 DEF Cell!vars

LEMMA FinishRefines ==
  ASSUME IInv, NEW r \in Readers, Check(r), rpc'[r] = "ok"
  PROVE  Cell!Finish(r)
<1> USE DEF writerVars, IInv, TypeOK
<1>1. Committed = version /\ \A w \in Words : dst[r][w] = version
  BY AcceptedIsCurrent
<1>2. Committed' = Committed /\ floor' = floor /\ dst' = dst
  BY DEF Committed, Check
<1>3. rpc[r] = "copy" /\ rpc' = [rpc EXCEPT ![r] = "ok"]
  BY DEF Check, Return
<1>4. dst[r] = [w \in Words |-> version]
  BY <1>1
<1>5. version \in floor[r]..Committed
  BY <1>1, <1>3 DEF FloorInv, InCall
<1>6. [q \in Readers |-> CallState(q)]'
        = [[q \in Readers |-> CallState(q)] EXCEPT ![r] = "ok"]
  BY <1>3 DEF CallState, InCall
<1>7. [q \in Readers |-> IF rpc[q] = "ok" THEN dst[q] ELSE Junk]'
        = [[q \in Readers |-> IF rpc[q] = "ok" THEN dst[q] ELSE Junk]
             EXCEPT ![r] = [w \in Words |-> version]]
  BY <1>2, <1>3, <1>4 DEF Junk
<1>8. CallState(r) = "reading"
  BY <1>3 DEF CallState, InCall
<1> QED
  BY <1>2, <1>5, <1>6, <1>7, <1>8 DEF Cell!Finish

LEMMA StepRefines == IInv /\ [Next]_vars => [Cell!Next]_(Cell!vars)
<1> SUFFICES ASSUME IInv, [Next]_vars PROVE Cell!Next \/ UNCHANGED Cell!vars
  OBVIOUS
<1>1. CASE Writer \/ Die
  BY <1>1, WriterRefines DEF Cell!Next
<1>2. ASSUME NEW r \in Readers, Call(r) \/ ReaderStep(r)
      PROVE  Cell!Next \/ UNCHANGED Cell!vars
  <2>1. CASE Call(r)
    BY <1>2, <2>1, StartRefines DEF Cell!Next
  <2>2. CASE GiveUp(r)
    BY <1>2, <2>2, GiveUpRefines DEF Cell!Next
  <2>3. CASE Check(r) /\ rpc'[r] = "ok"
    BY <1>2, <2>3, FinishRefines DEF Cell!Next
  <2>4. CASE \/ Attempt(r)
             \/ \E w \in Words : LoadWord(r, w)
             \/ Check(r) /\ rpc'[r] # "ok"
    BY <2>4, ReadingStutters
  <2> QED
    BY <1>2, <2>1, <2>2, <2>3, <2>4 DEF ReaderStep
<1>3. CASE UNCHANGED vars
  BY <1>3 DEF vars, Cell!vars, Committed, CallState, InCall, Junk
<1> QED
  BY <1>1, <1>2, <1>3 DEF Next

(* The seqlock implements the snapshot cell: to its callers the word-by-   *)
(* word protocol is an atomic publication and a read that returns one      *)
(* version current during the call, or gives up.                           *)
THEOREM Implementation == Spec => ImplementsCell
  BY InitRefines, StepRefines, Invariant, PTL DEF Spec, ImplementsCell, Cell!Spec
=============================================================================
