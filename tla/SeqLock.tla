------------------------------ MODULE SeqLock ------------------------------
(***************************************************************************)
(* The three seqlocks of main/fc_core.h (g_fc_seqlock, Core 1 to Core 0;   *)
(* g_fc_ekf_output_seqlock and g_fc_motor_cmd_seqlock, Core 0 to Core 1):  *)
(* one writer, readers on the other core, a counter that is odd while a    *)
(* write is in progress, and a record copied word by word by a plain       *)
(* struct assignment while the other core runs.                            *)
(*                                                                         *)
(* A word of the record holds the number of the write that stored it, so a *)
(* copy is torn when its words disagree.  The writer may die at any point, *)
(* leaving the counter odd (the case the retry cap exists for).            *)
(***************************************************************************)
EXTENDS Integers

CONSTANTS
  Readers,    \* reading tasks
  Words,      \* the machine words of the record, copied in any order
  SeqMod,     \* 2^32 in the code: the counter is a uint32_t
  Cap,        \* Cap[r]: FC_SEQLOCK_MAX_TRIES, or NoCap (fc_seqlock_read)
  MaxWrites   \* bound on the number of writes, for TLC

NoCap == 0

ASSUME SeqLockAssumption ==
  /\ Words # {}
  /\ SeqMod \in Nat /\ SeqMod > 2 /\ SeqMod % 2 = 0
  /\ Cap \in [Readers -> Nat]
  /\ MaxWrites \in Nat

VARIABLES
  sequence,  \* .sequence
  data,      \* .data: the number of the write each word comes from (0: .bss)
  wpc,       \* the writer: "idle" or "copying" (between its two increments)
  stored,    \* the words the write in progress has already stored
  version,   \* the number of writes begun; the write in progress, if any
  alive,     \* FALSE once the writing task is dead
  rpc,       \* per reader: "idle", "try", "copy", "retry", "ok", "fail"
  sample,    \* per reader: its last sample of sequence (s1, then s2)
  tries,     \* per reader: attempts begun (capped readers only)
  dst,       \* per reader: *dst
  loaded,    \* per reader: the words this attempt has already copied
  since,     \* history: increments since the reader last sampled sequence
  floor      \* history: the last completed write when the call began

writerVars == <<sequence, data, wpc, stored, version, alive>>
readerVars == <<rpc, sample, tries, dst, loaded, floor>>
vars == <<sequence, data, wpc, stored, version, alive,
          rpc, sample, tries, dst, loaded, since, floor>>

\* Mutant: a counter that does not wrap.
ShiftWide(s, n) == s + n

\* The counter after n more increments, n < SeqMod.
Shift(s, n) == IF s + n < SeqMod THEN s + n ELSE s + n - SeqMod

Odd(s) == s % 2 = 1

\* The last write both of whose increments have happened.
Committed == IF wpc = "copying" THEN version - 1 ELSE version

Junk == [w \in Words |-> 0]

Init ==
  /\ sequence = 0
  /\ data = [w \in Words |-> 0]
  /\ wpc = "idle"
  /\ stored = {}
  /\ version = 0
  /\ alive = TRUE
  /\ rpc = [r \in Readers |-> "idle"]
  /\ sample = [r \in Readers |-> 0]
  /\ tries = [r \in Readers |-> 0]
  /\ dst = [r \in Readers |-> Junk]
  /\ loaded = [r \in Readers |-> {}]
  /\ since = [r \in Readers |-> 0]
  /\ floor = [r \in Readers |-> 0]

-----------------------------------------------------------------------------
(* The writer.                                                             *)

(* Timing assumption: the counter never goes all the way round between two *)
(* samples of one reader.  2^31 writes at 250 Hz are 99 days; an attempt   *)
(* copies a few dozen bytes.                                               *)
NoFullTurn == \A r \in Readers : rpc[r] \in {"copy", "retry"} => since[r] + 1 < SeqMod

Increment ==
  /\ NoFullTurn
  /\ sequence' = Shift(sequence, 1)
  /\ since' = [r \in Readers |->
                 IF rpc[r] \in {"copy", "retry"} THEN since[r] + 1 ELSE since[r]]

BeginWrite ==
  /\ alive /\ wpc = "idle"
  /\ version < MaxWrites
  /\ Increment
  /\ version' = version + 1
  /\ wpc' = "copying"
  /\ stored' = {}
  /\ UNCHANGED <<data, alive, readerVars>>

StoreWord(w) ==
  /\ alive /\ wpc = "copying" /\ w \notin stored
  /\ data' = [data EXCEPT ![w] = version]
  /\ stored' = stored \cup {w}
  /\ UNCHANGED <<sequence, wpc, version, alive, readerVars, since>>

\* Mutant: the second increment comes before the record is complete.
EndWriteEarly ==
  /\ alive /\ wpc = "copying" /\ stored # {}
  /\ Increment
  /\ wpc' = "idle"
  /\ UNCHANGED <<data, stored, version, alive, readerVars>>

\* Mutant: the second increment is missing.
EndWriteSilent ==
  /\ alive /\ wpc = "copying" /\ stored = Words
  /\ wpc' = "idle"
  /\ UNCHANGED <<sequence, since, data, stored, version, alive, readerVars>>

EndWrite ==
  /\ alive /\ wpc = "copying" /\ stored = Words
  /\ Increment
  /\ wpc' = "idle"
  /\ UNCHANGED <<data, stored, version, alive, readerVars>>

\* The writing task dies or never runs again, possibly between the increments.
Die ==
  /\ alive
  /\ alive' = FALSE
  /\ UNCHANGED <<sequence, data, wpc, stored, version, readerVars, since>>

-----------------------------------------------------------------------------
(* A reader.                                                               *)

Call(r) ==
  /\ rpc[r] \in {"idle", "ok", "fail"}
  /\ rpc' = [rpc EXCEPT ![r] = "try"]
  /\ dst' = [dst EXCEPT ![r] = Junk]
  /\ floor' = [floor EXCEPT ![r] = Committed]
  /\ UNCHANGED <<writerVars, sample, tries, loaded, since>>

\* The call returns: its locals are gone, *dst stays with the caller.
Return(r, result) ==
  /\ rpc' = [rpc EXCEPT ![r] = result]
  /\ sample' = [sample EXCEPT ![r] = 0]
  /\ tries' = [tries EXCEPT ![r] = 0]
  /\ loaded' = [loaded EXCEPT ![r] = {}]
  /\ since' = [since EXCEPT ![r] = 0]

\* if (++tries > FC_SEQLOCK_MAX_TRIES) return false
CapReached(r) == Cap[r] # NoCap /\ tries[r] + 1 > Cap[r]

GiveUp(r) ==
  /\ rpc[r] \in {"try", "retry"}
  /\ CapReached(r)
  /\ Return(r, "fail")
  /\ UNCHANGED <<writerVars, dst, floor>>

(* s1 is loaded, or, since sequence is not volatile and no barrier stands  *)
(* between the s2 of one attempt and the s1 of the next, the compiler may  *)
(* keep the value it has just loaded (sample is then still that s2).       *)
Sample(r) ==
  \/ /\ sample' = [sample EXCEPT ![r] = sequence]
     /\ since' = [since EXCEPT ![r] = 0]
  \/ /\ rpc[r] = "retry"
     /\ UNCHANGED <<sample, since>>

\* Mutant: attempts are not counted.
AttemptUncounted(r) ==
  /\ rpc[r] \in {"try", "retry"}
  /\ Sample(r)
  /\ loaded' = [loaded EXCEPT ![r] = {}]
  /\ rpc' = [rpc EXCEPT ![r] = "copy"]
  /\ UNCHANGED <<writerVars, tries, dst, floor>>

Attempt(r) ==
  /\ rpc[r] \in {"try", "retry"}
  /\ ~CapReached(r)
  /\ Sample(r)
  /\ tries' = IF Cap[r] = NoCap THEN tries ELSE [tries EXCEPT ![r] = @ + 1]
  /\ loaded' = [loaded EXCEPT ![r] = {}]
  /\ rpc' = [rpc EXCEPT ![r] = "copy"]
  /\ UNCHANGED <<writerVars, dst, floor>>

LoadWord(r, w) ==
  /\ rpc[r] = "copy" /\ w \notin loaded[r]
  /\ dst' = [dst EXCEPT ![r][w] = data[w]]
  /\ loaded' = [loaded EXCEPT ![r] = @ \cup {w}]
  /\ UNCHANGED <<writerVars, rpc, sample, tries, since, floor>>

\* Mutants: the odd test, or the comparison of the two samples, is missing.
AcceptsOdd(first, second) == first = second
AcceptsUnchecked(first, second) == ~Odd(first)

\* The exit condition of the loop: !((s1 & 1) || s1 != s2).
Accepts(first, second) == ~Odd(first) /\ first = second

Check(r) ==
  /\ rpc[r] = "copy" /\ loaded[r] = Words
  /\ IF Accepts(sample[r], sequence)
       THEN Return(r, "ok")
       ELSE /\ rpc' = [rpc EXCEPT ![r] = "retry"]
            /\ sample' = [sample EXCEPT ![r] = sequence]
            /\ since' = [since EXCEPT ![r] = 0]
            /\ UNCHANGED <<tries, loaded>>
  /\ UNCHANGED <<writerVars, dst, floor>>

-----------------------------------------------------------------------------
Writer == BeginWrite \/ (\E w \in Words : StoreWord(w)) \/ EndWrite

\* What a reader does inside a call.
ReaderStep(r) ==
  \/ GiveUp(r)
  \/ Attempt(r)
  \/ \E w \in Words : LoadWord(r, w)
  \/ Check(r)

Next == Writer \/ Die \/ (\E r \in Readers : Call(r) \/ ReaderStep(r))

(* A reader inside a call keeps running: fc_task_main never yields and     *)
(* owns Core 1, and the logger's task is preempted but not starved.        *)
Fairness == \A r \in Readers : WF_vars(ReaderStep(r))

Spec == Init /\ [][Next]_vars /\ Fairness

-----------------------------------------------------------------------------
(* Properties.                                                             *)

TypeOK ==
  /\ sequence \in 0..(SeqMod - 1)
  /\ data \in [Words -> Nat]
  /\ wpc \in {"idle", "copying"}
  /\ stored \in SUBSET Words
  /\ version \in Nat
  /\ alive \in BOOLEAN
  /\ rpc \in [Readers -> {"idle", "try", "copy", "retry", "ok", "fail"}]
  /\ sample \in [Readers -> 0..(SeqMod - 1)]
  /\ tries \in [Readers -> Nat]
  /\ dst \in [Readers -> [Words -> Nat]]
  /\ loaded \in [Readers -> SUBSET Words]
  /\ since \in [Readers -> 0..(SeqMod - 1)]
  /\ floor \in [Readers -> Nat]

(* A read that returns true (fc_motor_cmd_seqlock_read, "consistent read") *)
(* holds the words of a single write: motor 0 never comes from one command *)
(* and motor 3 from the next, and the stamp belongs to the throttles.      *)
NoTornRead ==
  \A r \in Readers : rpc[r] = "ok" =>
    \A v, w \in Words : dst[r][v] = dst[r][w]

(* That write was complete, and no older than the last one completed       *)
(* before the call: a read never resurrects a command that an earlier read *)
(* (of either core) has already seen replaced.                             *)
FreshRead ==
  \A r \in Readers : rpc[r] = "ok" =>
    \A w \in Words : floor[r] <= dst[r][w] /\ dst[r][w] <= Committed

(* "writer stuck (Core0 died mid-write) -> caller must cut motors": once   *)
(* the writer is dead between its increments no read returns true.         *)
DeadWriterRejected ==
  [][ \A r \in Readers :
        ~alive /\ wpc = "copying" => ~(rpc[r] # "ok" /\ rpc'[r] = "ok") ]_vars

(* The retry cap: a capped read returns whatever the writer does, dies     *)
(* mid-write or writes without end ("don't spin the 8kHz loop forever").   *)
InCall(r) == rpc[r] \in {"try", "copy", "retry"}
CappedReadReturns ==
  \A r \in {q \in Readers : Cap[q] # NoCap} : InCall(r) ~> ~InCall(r)

(* Without a cap (fc_seqlock_read) a read still returns once the writer    *)
(* stays outside its write: the counter is even there and stays equal.     *)
QuiescentReadReturns ==
  <>[](wpc = "idle") => \A r \in Readers : InCall(r) ~> ~InCall(r)

-----------------------------------------------------------------------------
(* The seqlock implements the snapshot cell.                               *)

CallState(r) == IF InCall(r) THEN "reading" ELSE rpc[r]

Cell == INSTANCE SnapshotCell WITH
  committed <- Committed,
  call <- [r \in Readers |-> CallState(r)],
  floor <- floor,
  got <- [r \in Readers |-> IF rpc[r] = "ok" THEN dst[r] ELSE Junk]

(* Every step of the word-by-word protocol is a step of the atomic cell or *)
(* changes nothing a caller can see.                                       *)
ImplementsCell == Cell!Spec

-----------------------------------------------------------------------------
(* The inductive invariant behind NoTornRead and FreshRead.                *)

\* The counter is odd exactly while a write is in progress.
ParityInv == Odd(sequence) <=> wpc = "copying"

\* What the record holds: the last write, or a mixture of the last two.
DataInv ==
  /\ wpc = "idle" => \A w \in Words : data[w] = version
  /\ wpc = "copying" =>
       /\ version > 0
       /\ \A w \in Words : data[w] = IF w \in stored THEN version ELSE version - 1

\* The history counter ties the present value of the counter to the samples.
SampleInv ==
  \A r \in Readers :
    rpc[r] \in {"copy", "retry"} => sequence = Shift(sample[r], since[r])

\* While the counter has not moved since an even s1, no write was begun and
\* every word copied so far is the current version's.
CopyInv ==
  \A r \in Readers :
    rpc[r] = "copy" /\ since[r] = 0 /\ ~Odd(sample[r]) =>
      \A w \in loaded[r] : dst[r][w] = version

FloorInv == \A r \in Readers : InCall(r) => floor[r] <= Committed

IInv ==
  /\ TypeOK
  /\ ParityInv
  /\ DataInv
  /\ SampleInv
  /\ CopyInv
  /\ FloorInv
  /\ NoTornRead
  /\ FreshRead
=============================================================================
