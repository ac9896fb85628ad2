------------------------- MODULE HrtCalloutProofs --------------------------
(***************************************************************************)
(* Proofs about HrtCallout, for every number of tasks and entries and all  *)
(* delays and intervals: its type invariant, that the callout queue stays  *)
(* sound, that a cancellation sticks, that periods do not drift and that   *)
(* no deadline is lost.                                                    *)
(*                                                                         *)
(* hrt_call_invoke works on an entry while the lock is free, and callers   *)
(* have computed a deadline before they take the lock.  The invariant says *)
(* what neither of them can find changed: a periodic entry that is called, *)
(* or that somebody is about to start, is not in the queue.                *)
(***************************************************************************)
EXTENDS HrtCallout, FiniteSetTheorems, TLAPS

-----------------------------------------------------------------------------
(* The inductive invariant.                                                *)

\* A queue in the order of deadlines, without duplicates.
Sorted(q, due) ==
  \A i, j \in 1..Len(q) : i < j => q[i] # q[j] /\ due[q[i]] <= due[q[j]]

\* An entry is being called exactly while the lock is free for it.
CallInv == IF isr = "callout" THEN call.entry \in Entries ELSE call = NoCall

\* A request has a deadline, and an interval only for a periodic entry.
RequestInv ==
  \A t \in Tasks :
    request[t] # NoRequest =>
      /\ request[t].entry \in Entries
      /\ request[t].deadline # 0
      /\ request[t].entry \notin Periodic => request[t].interval = 0

PeriodInv == \A e \in Entries \ Periodic : period[e] = 0

\* A periodic entry has one user at a time.
AloneInv ==
  \A e \in Periodic :
    /\ \A t \in Tasks : request[t].entry = e =>
         /\ deadline[e] = 0 /\ period[e] = 0 /\ call.entry # e
         /\ \A u \in Tasks : request[u].entry = e => u = t
    /\ call.entry = e => deadline[e] = 0

\* An entry cancelled while it is called is not put back.
CancelInv == \A e \in cancelled : period[e] = 0

\* The deadline a called entry gets next.
DriftInv ==
  \A e \in Periodic :
    call.entry = e /\ period[e] # 0 =>
      call.deadline + period[e] = first[e] + calls[e] * period[e]

IInv ==
  /\ TypeOK
  /\ CallInv /\ RequestInv /\ PeriodInv /\ AloneInv
  /\ QueueSound
  /\ CancelInv /\ CancelSticks
  /\ DriftInv /\ NoDrift

-----------------------------------------------------------------------------
(* Queues.                                                                 *)

\* What SMT knows of a concatenation, as a fact to cite.
LEMMA ConcatFacts ==
  ASSUME NEW a \in Seq(Entries), NEW b \in Seq(Entries)
  PROVE  /\ a \o b \in Seq(Entries) /\ Len(a \o b) = Len(a) + Len(b)
         /\ \A j \in 1..Len(a) : (a \o b)[j] = a[j]
         /\ \A j \in (Len(a) + 1)..(Len(a) + Len(b)) : (a \o b)[j] = b[j - Len(a)]
OBVIOUS

LEMMA InsertFacts ==
  ASSUME NEW q \in Seq(Entries), NEW e \in Entries, NEW i \in 1..(Len(q) + 1)
  PROVE  /\ InsertAt(q, i, e) \in Seq(Entries)
         /\ Len(InsertAt(q, i, e)) = Len(q) + 1
         /\ \A j \in 1..(Len(q) + 1) :
              InsertAt(q, i, e)[j] =
                IF j < i THEN q[j] ELSE IF j = i THEN e ELSE q[j - 1]
<1> DEFINE a == SubSeq(q, 1, i - 1)
           b == SubSeq(q, i, Len(q))
<1>1. /\ a \in Seq(Entries) /\ Len(a) = i - 1
      /\ \A j \in 1..(i - 1) : a[j] = q[j]
  OBVIOUS
<1>2. /\ b \in Seq(Entries) /\ Len(b) = Len(q) - i + 1
      /\ \A j \in 1..(Len(q) - i + 1) : b[j] = q[i + j - 1]
  OBVIOUS
<1>3. InsertAt(q, i, e) = a \o <<e>> \o b
  BY DEF InsertAt
<1> HIDE DEF a, b
<1>4. /\ a \o <<e>> \in Seq(Entries) /\ Len(a \o <<e>>) = i
      /\ \A j \in 1..i : (a \o <<e>>)[j] = IF j < i THEN q[j] ELSE e
  BY <1>1
<1> DEFINE c == a \o <<e>>
           r == c \o b
<1>5. /\ r \in Seq(Entries) /\ Len(r) = Len(q) + 1
      /\ \A j \in 1..i : r[j] = c[j]
      /\ \A j \in (i + 1)..(Len(q) + 1) : r[j] = b[j - i]
  <2> HIDE DEF c
  <2>1. c \in Seq(Entries) /\ Len(c) = i
    BY <1>4 DEF c
  <2> QED
    BY <1>2, <2>1
<1>6. \A j \in (i + 1)..(Len(q) + 1) : r[j] = q[j - 1]
  <2> SUFFICES ASSUME NEW j \in (i + 1)..(Len(q) + 1) PROVE r[j] = q[j - 1]
    OBVIOUS
  <2>1. j - i \in 1..(Len(q) - i + 1) /\ i + (j - i) - 1 = j - 1
    OBVIOUS
  <2>2. b[j - i] = q[j - 1]
    BY <1>2, <2>1
  <2> QED
    BY <1>5, <2>2
<1> QED
  <2> HIDE DEF r, c
  <2>1. \A j \in 1..i : r[j] = IF j < i THEN q[j] ELSE e
    BY <1>4, <1>5 DEF c
  <2> QED
    BY <1>3, <1>5, <1>6, <2>1 DEF r, c

LEMMA RemoveFacts ==
  ASSUME NEW q \in Seq(Entries), NEW i \in 1..Len(q)
  PROVE  /\ RemoveAt(q, i) \in Seq(Entries)
         /\ Len(RemoveAt(q, i)) = Len(q) - 1
         /\ \A j \in 1..(Len(q) - 1) :
              RemoveAt(q, i)[j] = IF j < i THEN q[j] ELSE q[j + 1]
<1> DEFINE a == SubSeq(q, 1, i - 1)
           b == SubSeq(q, i + 1, Len(q))
<1>1. /\ a \in Seq(Entries) /\ Len(a) = i - 1
      /\ \A j \in 1..(i - 1) : a[j] = q[j]
  OBVIOUS
<1>2. /\ b \in Seq(Entries) /\ Len(b) = Len(q) - i
      /\ \A j \in 1..(Len(q) - i) : b[j] = q[i + j]
  OBVIOUS
<1>3. RemoveAt(q, i) = a \o b
  BY DEF RemoveAt
<1> HIDE DEF a, b
<1> DEFINE r == a \o b
<1>4. /\ r \in Seq(Entries) /\ Len(r) = Len(q) - 1
      /\ \A j \in 1..(i - 1) : r[j] = a[j]
      /\ \A j \in i..(Len(q) - 1) : r[j] = b[j - (i - 1)]
  <2> HIDE DEF r
  <2>1. /\ r \in Seq(Entries) /\ Len(r) = Len(a) + Len(b)
        /\ \A j \in 1..Len(a) : r[j] = a[j]
        /\ \A j \in (Len(a) + 1)..(Len(a) + Len(b)) : r[j] = b[j - Len(a)]
    BY <1>1, <1>2, ConcatFacts DEF r
  <2>2. /\ Len(a) + Len(b) = Len(q) - 1
        /\ Len(a) + 1 = i
    BY <1>1, <1>2
  <2> QED
    BY <1>1, <2>1, <2>2
<1>5. \A j \in i..(Len(q) - 1) : r[j] = q[j + 1]
  <2> SUFFICES ASSUME NEW j \in i..(Len(q) - 1) PROVE r[j] = q[j + 1]
    OBVIOUS
  <2>1. j - (i - 1) \in 1..(Len(q) - i) /\ i + (j - (i - 1)) = j + 1
    OBVIOUS
  <2>2. b[j - (i - 1)] = q[j + 1]
    BY <1>2, <2>1
  <2> QED
    BY <1>4, <2>2
<1> QED
  <2> HIDE DEF r
  <2>1. \A j \in 1..(i - 1) : r[j] = q[j]
    BY <1>1, <1>4
  <2> QED
    BY <1>3, <1>4, <1>5, <2>1 DEF r

\* The entries of a queue.
Members(q) == {q[i] : i \in 1..Len(q)}

LEMMA InsertSound ==
  ASSUME NEW q \in Seq(Entries), NEW e \in Entries, NEW i \in 1..(Len(q) + 1),
         NEW due \in [Entries -> Nat],
         Sorted(q, due), e \notin Members(q), Behind(q, i, e, due)
  PROVE  /\ Sorted(InsertAt(q, i, e), due)
         /\ Members(InsertAt(q, i, e)) = Members(q) \cup {e}
<1> DEFINE r == InsertAt(q, i, e)
<1>1. /\ Len(r) = Len(q) + 1
      /\ \A j \in 1..(Len(q) + 1) :
           r[j] = IF j < i THEN q[j] ELSE IF j = i THEN e ELSE q[j - 1]
  BY InsertFacts
<1> HIDE DEF r
<1>2. /\ \A j \in 1..(i - 1) : r[j] = q[j]
      /\ \A j \in (i + 1)..(Len(q) + 1) : r[j] = q[j - 1]
  BY <1>1
<1>3. \A j \in 1..Len(q) : q[j] \in Entries /\ q[j] # e
  BY DEF Members
<1>4. \A j \in 1..Len(q) : IF j < i THEN due[q[j]] <= due[e] ELSE due[e] <= due[q[j]]
  <2> SUFFICES ASSUME NEW j \in 1..Len(q), i <= j PROVE due[e] <= due[q[j]]
    BY DEF Behind
  <2>1. due[e] < due[q[i]]
    BY DEF Behind
  <2>2. i = j \/ due[q[i]] <= due[q[j]]
    BY DEF Sorted
  <2> QED
    BY <1>3, <2>1, <2>2
<1>5. \A x \in 1..Len(q), y \in 1..Len(q) :
        x < y => q[x] # q[y] /\ due[q[x]] <= due[q[y]]
  BY DEF Sorted
<1>6. Sorted(r, due)
  <2> SUFFICES ASSUME NEW j \in 1..(Len(q) + 1), NEW k \in 1..(Len(q) + 1), j < k
               PROVE  r[j] # r[k] /\ due[r[j]] <= due[r[k]]
    BY <1>1 DEF Sorted
  <2>1. CASE k < i
    BY <1>1, <2>1 DEF Sorted
  <2>2. CASE k = i
    BY <1>1, <1>3, <1>4, <2>2
  <2>3. CASE j = i
    <3>1. r[j] = e /\ r[k] = q[k - 1] /\ k - 1 \in 1..Len(q) /\ ~(k - 1 < i)
      BY <1>1, <2>3
    <3> QED
      BY <1>3, <1>4, <3>1
  <2>4. CASE j < i /\ i < k
    <3>1. /\ j \in 1..Len(q) /\ k - 1 \in 1..Len(q) /\ j < k - 1
          /\ j \in 1..(i - 1) /\ k \in (i + 1)..(Len(q) + 1)
      BY <2>4
    <3>2. q[j] # q[k - 1] /\ due[q[j]] <= due[q[k - 1]]
      BY <1>5, <3>1
    <3>3. r[j] = q[j]
      BY <1>2, <3>1
    <3>4. r[k] = q[k - 1]
      BY <1>2, <3>1
    <3> QED
      BY <3>2, <3>3, <3>4
  <2>5. CASE i < j
    <3>1. /\ j - 1 \in 1..Len(q) /\ k - 1 \in 1..Len(q) /\ j - 1 < k - 1
          /\ j \in (i + 1)..(Len(q) + 1) /\ k \in (i + 1)..(Len(q) + 1)
      BY <2>5
    <3>2. q[j - 1] # q[k - 1] /\ due[q[j - 1]] <= due[q[k - 1]]
      BY <1>5, <3>1
    <3>3. r[j] = q[j - 1]
      BY <1>2, <3>1
    <3>4. r[k] = q[k - 1]
      BY <1>2, <3>1
    <3> QED
      BY <3>2, <3>3, <3>4
  <2> QED
    BY <2>1, <2>2, <2>3, <2>4, <2>5
<1>7. Members(r) = Members(q) \cup {e}
  <2>1. \A x \in Members(r) : x \in Members(q) \cup {e}
    <3> SUFFICES ASSUME NEW j \in 1..(Len(q) + 1)
                 PROVE  r[j] \in Members(q) \cup {e}
      BY <1>1 DEF Members
    <3>1. CASE j < i
      <4>1. j \in 1..(i - 1) /\ j \in 1..Len(q)
        BY <3>1
      <4> QED
        BY <1>2, <4>1 DEF Members
    <3>2. CASE j = i
      BY <1>1, <3>2
    <3>3. CASE i < j
      <4>1. j \in (i + 1)..(Len(q) + 1) /\ j - 1 \in 1..Len(q)
        BY <3>3
      <4> QED
        BY <1>2, <4>1 DEF Members
    <3> QED
      BY <3>1, <3>2, <3>3
  <2>2. \A x \in Members(q) : x \in Members(r)
    <3> SUFFICES ASSUME NEW j \in 1..Len(q) PROVE q[j] \in Members(r)
      BY DEF Members
    <3>1. CASE j < i
      <4>1. j \in 1..(i - 1) /\ j \in 1..(Len(q) + 1)
        BY <3>1
      <4> QED
        BY <1>1, <1>2, <4>1 DEF Members
    <3>2. CASE i <= j
      <4>0. /\ j + 1 \in (i + 1)..(Len(q) + 1) /\ (j + 1) - 1 = j
            /\ j + 1 \in 1..(Len(q) + 1)
        BY <3>2
      <4>1. j + 1 \in 1..Len(r) /\ r[j + 1] = q[j]
        BY <1>1, <1>2, <4>0
      <4> QED
        BY <4>1 DEF Members
    <3> QED
      BY <3>1, <3>2
  <2>3. e \in Members(r)
    BY <1>1 DEF Members
  <2> QED
    BY <2>1, <2>2, <2>3
<1> QED
  BY <1>6, <1>7 DEF r

LEMMA WithoutSound ==
  ASSUME NEW q \in Seq(Entries), NEW e \in Entries,
         NEW due \in [Entries -> Nat], Sorted(q, due)
  PROVE  /\ Without(q, e) \in Seq(Entries)
         /\ Sorted(Without(q, e), due)
         /\ Members(Without(q, e)) = Members(q) \ {e}
<1>1. CASE e \notin Members(q)
  <2>1. Without(q, e) = q
    BY <1>1 DEF Without, Members
  <2> QED
    BY <1>1, <2>1
<1>2. CASE e \in Members(q)
  <2>1. PICK i \in 1..Len(q) : q[i] = e /\ Without(q, e) = RemoveAt(q, i)
    BY <1>2 DEF Without, Members
  <2> DEFINE r == RemoveAt(q, i)
  <2>2. PICK n \in Nat : n = Len(q)
    OBVIOUS
  <2>3. /\ r \in Seq(Entries) /\ Len(r) = n - 1
        /\ \A j \in 1..(n - 1) : r[j] = IF j < i THEN q[j] ELSE q[j + 1]
        /\ i \in 1..n
    BY <2>2, RemoveFacts
  <2> HIDE DEF r
  <2>4. /\ \A j \in 1..(i - 1) : r[j] = q[j]
        /\ \A j \in i..(n - 1) : r[j] = q[j + 1]
    BY <2>3
  <2>5. \A j \in 1..n : j # i => q[j] # e
    BY <2>2, <2>1 DEF Sorted
  <2>6. \A x \in 1..n, y \in 1..n :
          x < y => q[x] # q[y] /\ due[q[x]] <= due[q[y]]
    BY <2>2 DEF Sorted
  <2>7. Sorted(r, due)
    <3> SUFFICES ASSUME NEW j \in 1..(n - 1), NEW k \in 1..(n - 1), j < k
                 PROVE  r[j] # r[k] /\ due[r[j]] <= due[r[k]]
      BY <2>3 DEF Sorted
    <3>1. CASE k < i
      <4>1. j \in 1..n /\ k \in 1..n /\ j \in 1..(i - 1) /\ k \in 1..(i - 1)
        BY <2>3, <3>1
      <4>2. r[j] = q[j]
        BY <2>4, <4>1
      <4>3. r[k] = q[k]
        BY <2>4, <4>1
      <4>4. q[j] # q[k] /\ due[q[j]] <= due[q[k]]
        BY <2>6, <4>1
      <4> QED
        BY <4>2, <4>3, <4>4
    <3>2. CASE j < i /\ i <= k
      <4>1. /\ j \in 1..n /\ k + 1 \in 1..n /\ j < k + 1
            /\ j \in 1..(i - 1) /\ k \in i..(n - 1)
        BY <2>3, <3>2
      <4>2. r[j] = q[j]
        BY <2>4, <4>1
      <4>3. r[k] = q[k + 1]
        BY <2>4, <4>1
      <4>4. q[j] # q[k + 1] /\ due[q[j]] <= due[q[k + 1]]
        BY <2>6, <4>1
      <4> QED
        BY <4>2, <4>3, <4>4
    <3>3. CASE i <= j
      <4>1. /\ j + 1 \in 1..n /\ k + 1 \in 1..n /\ j + 1 < k + 1
            /\ j \in i..(n - 1) /\ k \in i..(n - 1)
        BY <2>3, <3>3
      <4>2. r[j] = q[j + 1]
        BY <2>4, <4>1
      <4>3. r[k] = q[k + 1]
        BY <2>4, <4>1
      <4>4. q[j + 1] # q[k + 1] /\ due[q[j + 1]] <= due[q[k + 1]]
        BY <2>6, <4>1
      <4> QED
        BY <4>2, <4>3, <4>4
    <3> QED
      BY <3>1, <3>2, <3>3
  <2>8. \A x \in Members(r) : x \in Members(q) \ {e}
    <3> SUFFICES ASSUME NEW j \in 1..(n - 1) PROVE r[j] \in Members(q) \ {e}
      BY <2>3 DEF Members
    <3>1. PICK x \in 1..n : x # i /\ r[j] = q[x]
      <4>1. CASE j < i
        <5>1. j \in 1..(i - 1) /\ j \in 1..n /\ j # i
          BY <2>3, <4>1
        <5> QED
          BY <2>4, <5>1
      <4>2. CASE i <= j
        <5>1. j \in i..(n - 1) /\ j + 1 \in 1..n /\ j + 1 # i
          BY <2>3, <4>2
        <5> QED
          BY <2>4, <5>1
      <4> QED
        BY <2>3, <4>1, <4>2
    <3> QED
      BY <2>2, <3>1, <2>5 DEF Members
  <2>9. \A x \in Members(q) \ {e} : x \in Members(r)
    <3> SUFFICES ASSUME NEW j \in 1..n, j # i PROVE q[j] \in Members(r)
      BY <2>2, <2>1 DEF Members
    <3>1. CASE j < i
      <4>0. j \in 1..(i - 1) /\ j \in 1..(n - 1)
        BY <2>3, <3>1
      <4>1. j \in 1..(n - 1) /\ r[j] = q[j]
        BY <2>4, <4>0
      <4> QED
        BY <2>2, <2>3, <4>1 DEF Members
    <3>2. CASE i < j
      <4>0. j - 1 \in i..(n - 1) /\ j - 1 \in 1..(n - 1) /\ (j - 1) + 1 = j
        BY <2>3, <3>2
      <4>1. j - 1 \in 1..(n - 1) /\ r[j - 1] = q[j]
        BY <2>4, <4>0
      <4> QED
        BY <2>2, <2>3, <4>1 DEF Members
    <3> QED
      BY <3>1, <3>2
  <2> QED
    BY <2>1, <2>3, <2>7, <2>8, <2>9 DEF r
<1> QED
  BY <1>1, <1>2

\* A deadline changes that no entry of the queue has.
LEMMA SortedElsewhere ==
  ASSUME NEW q \in Seq(Entries), NEW due \in [Entries -> Nat],
         NEW new \in [Entries -> Nat], Sorted(q, due),
         \A x \in Members(q) : new[x] = due[x]
  PROVE  Sorted(q, new)
BY DEF Sorted, Members

\* The first entry leaves.
LEMMA TailSound ==
  ASSUME NEW q \in Seq(Entries), q # <<>>,
         NEW due \in [Entries -> Nat], Sorted(q, due)
  PROVE  /\ Head(q) \in Entries /\ Tail(q) \in Seq(Entries)
         /\ Sorted(Tail(q), due)
         /\ Members(Tail(q)) = Members(q) \ {Head(q)}
         /\ Head(q) \in Members(q)
<1>1. /\ Head(q) = q[1] /\ q[1] \in Entries /\ Len(q) >= 1
      /\ Tail(q) \in Seq(Entries) /\ Len(Tail(q)) = Len(q) - 1
      /\ \A j \in 1..(Len(q) - 1) : Tail(q)[j] = q[j + 1]
  OBVIOUS
<1>2. \A j \in 1..Len(q) : j # 1 => q[j] # q[1]
  BY <1>1 DEF Sorted
<1>3. Sorted(Tail(q), due)
  BY <1>1 DEF Sorted
<1>4. \A x \in Members(Tail(q)) : x \in Members(q) \ {q[1]}
  BY <1>1, <1>2 DEF Members
<1>5. \A x \in Members(q) \ {q[1]} : x \in Members(Tail(q))
  <2> SUFFICES ASSUME NEW j \in 1..Len(q), j # 1 PROVE q[j] \in Members(Tail(q))
    BY DEF Members
  <2>1. j - 1 \in 1..(Len(q) - 1) /\ Tail(q)[j - 1] = q[j]
    BY <1>1
  <2> QED
    BY <1>1, <2>1 DEF Members
<1>6. q[1] \in Members(q)
  BY <1>1 DEF Members
<1> QED
  BY <1>1, <1>3, <1>4, <1>5, <1>6

\* QueueSound in these words.
LEMMA SoundMeans ==
  QueueSound <=> /\ Sorted(queue, deadline)
                 /\ \A e \in Entries : e \in Members(queue) <=> deadline[e] # 0
BY DEF QueueSound, Sorted, Members, Queued

-----------------------------------------------------------------------------
(* The insertion of an entry that is not queued.                           *)

LEMMA RescheduleNat ==
  ASSUME NEW q \in Seq(Entries), NEW due \in [Entries -> Nat], now \in Nat
  PROVE  Reschedule(q, due) \in Nat
<1> USE HrtCalloutAssumption DEF Reschedule
<1>1. CASE q = <<>>
  BY <1>1
<1>2. CASE q # <<>>
  <2>1. due[Head(q)] \in Nat
    BY <1>2
  <2> QED
    BY <1>2, <2>1
<1> QED
  BY <1>1, <1>2

LEMMA EnterSound ==
  ASSUME NEW q \in Seq(Entries), NEW e \in Entries, TypeOK,
         NEW due \in [Entries -> Nat],
         Sorted(q, due), e \notin Members(q), Enter(q, e, due)
  PROVE  /\ queue' \in Seq(Entries)
         /\ Sorted(queue', due)
         /\ Members(queue') = Members(q) \cup {e}
         /\ expiry' \in Nat
         /\ owed' \in [Entries -> Nat]
<1>1. PICK i \in 1..(Len(q) + 1) :
        /\ Behind(q, i, e, due)
        /\ queue' = InsertAt(q, i, e)
        /\ expiry' = IF i = 1 THEN Reschedule(queue', due) ELSE expiry
        /\ owed' = [owed EXCEPT ![e] = Latest(due[e], now)]
  BY DEF Enter
<1>2. /\ queue' \in Seq(Entries)
      /\ Sorted(queue', due)
      /\ Members(queue') = Members(q) \cup {e}
  BY <1>1, InsertFacts, InsertSound
<1>3. expiry' \in Nat
  <2>1. now \in Nat /\ expiry \in Nat
    BY DEF TypeOK
  <2>2. Reschedule(queue', due) \in Nat
    BY <1>2, <2>1, RescheduleNat
  <2> QED
    BY <1>1, <2>1, <2>2
<1>4. owed' \in [Entries -> Nat]
  BY <1>1 DEF TypeOK, Latest
<1> QED
  BY <1>2, <1>3, <1>4

-----------------------------------------------------------------------------
(* The steps.                                                              *)

LEMMA InitInv == Init => IInv
<1> USE HrtCalloutAssumption DEF Init, NoCall, NoRequest
<1> SUFFICES ASSUME Init PROVE IInv
  OBVIOUS
<1>1. TypeOK
  BY DEF TypeOK, Names
<1>2. CallInv /\ RequestInv /\ PeriodInv /\ CancelInv
  BY DEF CallInv, RequestInv, PeriodInv, CancelInv
<1>3. AloneInv /\ DriftInv
  BY DEF AloneInv, DriftInv
<1>4. QueueSound /\ CancelSticks /\ NoDrift
  BY DEF QueueSound, CancelSticks, NoDrift, Queued
<1> QED
  BY <1>1, <1>2, <1>3, <1>4 DEF IInv

\* hrt_call_after, hrt_call_every and hrt_call_at compute a deadline.
LEMMA AskInv ==
  ASSUME IInv, NEW t \in Tasks, NEW e \in Entries, NEW delay \in Delays,
         NEW interval \in IntervalsOf(e), Ask(t, e, delay, interval)
  PROVE  IInv'
<1> USE HrtCalloutAssumption DEF IInv, Ask, history, isrVars
<1>1. delay \in Nat /\ interval \in Nat /\ (e \notin Periodic => interval = 0)
  BY DEF IntervalsOf
<1>2. TypeOK'
  <2>1. [entry |-> e, deadline |-> now + delay, interval |-> interval]
          \in [entry : Names, deadline : Nat, interval : Nat]
    BY <1>1 DEF TypeOK, Names
  <2>2. request' \in [Tasks -> [entry : Names, deadline : Nat, interval : Nat]]
    BY <2>1 DEF TypeOK
  <2> QED
    BY <2>2 DEF TypeOK
<1>3. RequestInv'
  BY <1>1 DEF TypeOK, RequestInv, NoRequest
<1>4. AloneInv'
  <2>1. \A u \in Tasks : u # t => request'[u] = request[u]
    BY DEF TypeOK
  <2>2. request'[t].entry = e
    BY DEF TypeOK
  <2> QED
    BY <2>1, <2>2 DEF AloneInv
<1>5. CallInv' /\ PeriodInv' /\ CancelInv' /\ DriftInv'
  BY DEF CallInv, PeriodInv, CancelInv, DriftInv
<1>6. QueueSound' /\ CancelSticks' /\ NoDrift'
  BY DEF QueueSound, CancelSticks, NoDrift, Queued
<1> QED
  BY <1>2, <1>3, <1>4, <1>5, <1>6

\* hrt_call_internal: a one-shot entry may be queued, or be the one that is
\* called; a periodic one is neither.
LEMMA CallInternalInv ==
  ASSUME IInv, NEW t \in Tasks, CallInternal(t)
  PROVE  IInv'
<1> USE HrtCalloutAssumption DEF IInv
<1> DEFINE e == request[t].entry
           d == request[t].deadline
           q == IF deadline[e] # 0 THEN Without(queue, e) ELSE queue
<1>1. /\ e \in Entries /\ d \in Nat \ {0}
      /\ e \notin Periodic => request[t].interval = 0
      /\ request[t].interval \in Nat
  BY DEF CallInternal, TypeOK, RequestInv
<1>2. /\ deadline' = [deadline EXCEPT ![e] = d]
      /\ period' = [period EXCEPT ![e] = request[t].interval]
      /\ Enter(q, e, deadline')
      /\ cancelled' = cancelled \ {e}
      /\ first' = IF e \in Periodic THEN [first EXCEPT ![e] = d] ELSE first
      /\ calls' = [calls EXCEPT ![e] = 0]
      /\ request' = [request EXCEPT ![t] = NoRequest]
      /\ UNCHANGED <<now, isr, began, call>>
  BY DEF CallInternal, Started, isrVars
<1>3. /\ q \in Seq(Entries) /\ Sorted(q, deadline)
      /\ Members(q) = Members(queue) \ {e}
  <2>1. queue \in Seq(Entries) /\ deadline \in [Entries -> Nat]
    BY DEF TypeOK
  <2>2. CASE deadline[e] # 0
    BY <1>1, <2>1, <2>2, SoundMeans, WithoutSound
  <2>3. CASE deadline[e] = 0
    BY <1>1, <2>1, <2>3, SoundMeans
  <2> QED
    BY <2>2, <2>3
<1> HIDE DEF e, d, q
<1>4. deadline' \in [Entries -> Nat]
  BY <1>1, <1>2 DEF TypeOK
<1>5. Sorted(q, deadline')
  <2>1. \A x \in Members(q) : deadline'[x] = deadline[x]
    BY <1>1, <1>2, <1>3 DEF TypeOK
  <2> QED
    BY <1>3, <1>4, <2>1, SortedElsewhere DEF TypeOK
<1>6. /\ queue' \in Seq(Entries)
      /\ Sorted(queue', deadline')
      /\ Members(queue') = Members(queue) \cup {e}
      /\ expiry' \in Nat
      /\ owed' \in [Entries -> Nat]
  <2>1. e \notin Members(q)
    BY <1>3
  <2> QED
    BY <1>1, <1>2, <1>3, <1>4, <1>5, <2>1, EnterSound
<1>7. TypeOK'
  BY <1>1, <1>2, <1>4, <1>6 DEF TypeOK, NoRequest, Names
<1>8. CallInv' /\ PeriodInv'
  BY <1>1, <1>2 DEF CallInv, PeriodInv, TypeOK
<1>9. RequestInv'
  BY <1>2 DEF RequestInv, TypeOK
<1>10. AloneInv'
  <2>1. \A u \in Tasks : request'[u] = IF u = t THEN NoRequest ELSE request[u]
    BY <1>2 DEF TypeOK
  <2>2. \A x \in Entries : x # e => deadline'[x] = deadline[x] /\ period'[x] = period[x]
    BY <1>2 DEF TypeOK
  <2>3. NoRequest.entry \notin Periodic
    BY DEF NoRequest
  <2>4. e \in Periodic => /\ call.entry # e
                          /\ \A u \in Tasks : u # t => request[u].entry # e
    BY DEF AloneInv, e
  <2> QED
    BY <1>2, <2>1, <2>2, <2>3, <2>4 DEF AloneInv
<1>11. QueueSound'
  <2>1. \A x \in Entries : x \in Members(queue') <=> deadline'[x] # 0
    BY <1>1, <1>2, <1>6, SoundMeans DEF TypeOK
  <2> QED
    BY <1>6, <2>1 DEF QueueSound, Sorted, Members, Queued
<1>12. CancelInv' /\ CancelSticks'
  BY <1>1, <1>2, <1>6 DEF CancelInv, CancelSticks, TypeOK, Members, Queued
<1>13. DriftInv'
  <2>1. e \in Periodic => call.entry # e
    BY DEF AloneInv, e
  <2> QED
    BY <1>1, <1>2, <2>1 DEF DriftInv, TypeOK
<1>14. NoDrift'
  <2> SUFFICES ASSUME NEW x \in Periodic, x \in Members(queue')
               PROVE  deadline'[x] = first'[x] + calls'[x] * period'[x]
    BY DEF NoDrift, Queued, Members
  <2>1. CASE x = e
    BY <1>1, <1>2, <2>1 DEF TypeOK
  <2>2. CASE x # e
    BY <1>1, <1>2, <1>6, <2>2 DEF TypeOK, NoDrift, Members, Queued
  <2> QED
    BY <2>1, <2>2
<1> QED
  BY <1>7, <1>8, <1>9, <1>10, <1>11, <1>12, <1>13, <1>14

\* hrt_cancel, of an entry that is queued, is being called, or is neither.
LEMMA CancelStep ==
  ASSUME IInv, NEW t \in Tasks, NEW e \in Entries, Cancel(t, e)
  PROVE  IInv'
<1> USE HrtCalloutAssumption DEF IInv
<1>1. /\ queue' = Without(queue, e)
      /\ deadline' = [deadline EXCEPT ![e] = 0]
      /\ period' = [period EXCEPT ![e] = 0]
      /\ owed' = [owed EXCEPT ![e] = 0]
      /\ first' = IF e \in Periodic THEN [first EXCEPT ![e] = 0] ELSE first
      /\ calls' = [calls EXCEPT ![e] = 0]
      /\ cancelled' = cancelled \cup {e}
      /\ UNCHANGED <<now, expiry, isr, began, call, request>>
  BY DEF Cancel, Started, isrVars
<1>2. /\ queue' \in Seq(Entries) /\ Sorted(queue', deadline)
      /\ Members(queue') = Members(queue) \ {e}
  BY <1>1, SoundMeans, WithoutSound DEF TypeOK
<1>3. TypeOK'
  BY <1>1, <1>2 DEF TypeOK
<1>4. Sorted(queue', deadline')
  <2>1. \A x \in Members(queue') : deadline'[x] = deadline[x]
    BY <1>1, <1>2 DEF TypeOK
  <2> QED
    BY <1>2, <1>3, <2>1, SortedElsewhere DEF TypeOK
<1>5. CallInv' /\ RequestInv' /\ PeriodInv'
  BY <1>1 DEF CallInv, RequestInv, PeriodInv, TypeOK
<1>6. AloneInv'
  BY <1>1 DEF AloneInv, TypeOK
<1>7. QueueSound'
  <2>1. \A x \in Entries : x \in Members(queue') <=> deadline'[x] # 0
    BY <1>1, <1>2, SoundMeans DEF TypeOK
  <2> QED
    BY <1>4, <2>1 DEF QueueSound, Sorted, Members, Queued
<1>8. CancelInv' /\ CancelSticks'
  <2>1. CancelInv'
    BY <1>1 DEF CancelInv, TypeOK
  <2>2. CancelSticks'
    BY <1>1, <1>2 DEF CancelSticks, Members, Queued
  <2> QED
    BY <2>1, <2>2
<1>9. DriftInv'
  BY <1>1 DEF DriftInv, TypeOK
<1>10. NoDrift'
  BY <1>1, <1>2 DEF NoDrift, TypeOK, Members, Queued
<1> QED
  BY <1>3, <1>5, <1>6, <1>7, <1>8, <1>9, <1>10

\* hrt_call_invoke takes the first entry, and releases the lock.
LEMMA InvokeInv ==
  ASSUME IInv, Invoke
  PROVE  IInv'
<1> USE HrtCalloutAssumption DEF IInv
<1> DEFINE e == Head(queue)
<1>1. /\ isr = "loop" /\ queue # <<>>
      /\ call' = [entry |-> e, deadline |-> deadline[e], now |-> now]
      /\ deadline' = [deadline EXCEPT ![e] = 0]
      /\ owed' = [owed EXCEPT ![e] = 0]
      /\ calls' = IF e \in Periodic THEN [calls EXCEPT ![e] = @ + 1] ELSE calls
      /\ queue' = Tail(queue)
      /\ isr' = "callout"
      /\ UNCHANGED <<now, period, expiry, began, request, cancelled, first>>
  BY DEF Invoke, Due
<1>2. /\ e \in Entries /\ queue' \in Seq(Entries)
      /\ Sorted(queue', deadline)
      /\ Members(queue') = Members(queue) \ {e}
      /\ e \in Members(queue)
  BY <1>1, SoundMeans, TailSound DEF TypeOK
<1> HIDE DEF e
<1>3. TypeOK'
  <2>1. deadline' \in [Entries -> Nat] /\ owed' \in [Entries -> Nat]
    BY <1>1 DEF TypeOK
  <2>4. queue' \in Seq(Entries)
    BY <1>2
  <2>2. calls' \in [Entries -> Nat]
    <3>1. calls \in [Entries -> Nat] /\ calls[e] + 1 \in Nat
      BY <1>2 DEF TypeOK
    <3>2. [calls EXCEPT ![e] = @ + 1] \in [Entries -> Nat]
      BY <3>1
    <3> QED
      BY <1>1, <3>1, <3>2
  <2>3. call' \in [entry : Names, deadline : Nat, now : Nat]
    <3>1. deadline[e] \in Nat /\ now \in Nat /\ e \in Names
      BY <1>2 DEF TypeOK, Names
    <3> QED
      BY <1>1, <3>1
  <2> QED
    BY <1>1, <2>1, <2>2, <2>3, <2>4 DEF TypeOK
<1>4. Sorted(queue', deadline')
  <2>1. \A x \in Members(queue') : deadline'[x] = deadline[x]
    BY <1>1, <1>2 DEF TypeOK
  <2> QED
    BY <1>2, <1>3, <2>1, SortedElsewhere DEF TypeOK
<1>5. CallInv' /\ RequestInv' /\ PeriodInv' /\ CancelInv'
  BY <1>1, <1>2 DEF CallInv, RequestInv, PeriodInv, CancelInv, TypeOK
<1>6. AloneInv'
  <2>1. deadline[e] # 0
    BY <1>2, SoundMeans
  <2>2. e \in Periodic => \A t \in Tasks : request[t].entry # e
    BY <2>1 DEF AloneInv
  <2>3. deadline'[e] = 0 /\ \A x \in Entries : x # e => deadline'[x] = deadline[x]
    BY <1>1, <1>2 DEF TypeOK
  <2> QED
    BY <1>1, <2>2, <2>3 DEF AloneInv
<1>7. QueueSound'
  <2>1. \A x \in Entries : x \in Members(queue') <=> deadline'[x] # 0
    BY <1>1, <1>2, SoundMeans DEF TypeOK
  <2> QED
    BY <1>4, <2>1 DEF QueueSound, Sorted, Members, Queued
<1>8. CancelSticks'
  BY <1>1, <1>2 DEF CancelSticks, Members, Queued
<1>9. DriftInv'
  <2> SUFFICES ASSUME e \in Periodic
               PROVE  deadline[e] + period[e] = first[e] + calls'[e] * period[e]
    BY <1>1 DEF DriftInv
  <2>1. deadline[e] = first[e] + calls[e] * period[e]
    BY <1>2 DEF NoDrift, Members, Queued
  <2>2. calls'[e] = calls[e] + 1
    BY <1>1, <1>2 DEF TypeOK
  <2>3. /\ deadline[e] \in Nat /\ period[e] \in Nat
        /\ first[e] \in Nat /\ calls[e] \in Nat
    BY <1>2 DEF TypeOK
  <2> QED
    BY <2>1, <2>2, <2>3
<1>10. NoDrift'
  BY <1>1, <1>2 DEF NoDrift, TypeOK, Members, Queued
<1> QED
  BY <1>3, <1>5, <1>6, <1>7, <1>8, <1>9, <1>10

\* The callout returns: a periodic entry is put back, unless it was cancelled.
LEMMA ReturnInv ==
  ASSUME IInv, Return
  PROVE  IInv'
<1> USE HrtCalloutAssumption DEF IInv
<1> DEFINE e == call.entry
<1>1. /\ isr = "callout" /\ e \in Entries
      /\ call' = NoCall /\ isr' = "loop"
      /\ UNCHANGED <<now, period, began, request, cancelled, first, calls>>
  BY DEF Return, CallInv
<1>2. CASE period[e] = 0
  <2>1. UNCHANGED <<queue, deadline, expiry, owed>>
    BY <1>2 DEF Return
  <2>2. TypeOK'
    BY <1>1, <2>1 DEF TypeOK, NoCall, Names
  <2>3. CallInv' /\ RequestInv' /\ PeriodInv' /\ CancelInv'
    BY <1>1, <2>1 DEF CallInv, RequestInv, PeriodInv, CancelInv
  <2>4. AloneInv' /\ DriftInv'
    BY <1>1, <2>1 DEF AloneInv, DriftInv, NoCall
  <2>5. QueueSound' /\ CancelSticks' /\ NoDrift'
    BY <1>1, <2>1 DEF QueueSound, CancelSticks, NoDrift, Queued
  <2> QED
    BY <2>2, <2>3, <2>4, <2>5
<1>3. CASE period[e] # 0
  <2>1. /\ deadline' = [deadline EXCEPT ![e] = NextDeadline(e)]
        /\ Enter(queue, e, deadline')
    BY <1>3 DEF Return
  <2>2. e \in Periodic /\ deadline[e] = 0 /\ e \notin cancelled /\ e \notin Members(queue)
    <3>1. e \in Periodic
      BY <1>1, <1>3 DEF PeriodInv
    <3>2. deadline[e] = 0
      BY <3>1 DEF AloneInv
    <3> QED
      BY <1>1, <1>3, <3>1, <3>2, SoundMeans DEF CancelInv
  <2>3. /\ call.deadline \in Nat /\ call.now \in Nat /\ period[e] \in Nat
    BY <1>1 DEF TypeOK
  <2>4. NextDeadline(e) = call.deadline + period[e] /\ NextDeadline(e) \in Nat \ {0}
    BY <1>3, <2>2, <2>3 DEF NextDeadline
  <2>5. deadline' \in [Entries -> Nat]
    BY <1>1, <2>1, <2>4 DEF TypeOK
  <2>6. Sorted(queue, deadline')
    <3>1. \A x \in Members(queue) : deadline'[x] = deadline[x]
      BY <1>1, <2>1, <2>2 DEF TypeOK
    <3> QED
      BY <2>5, <3>1, SoundMeans, SortedElsewhere DEF TypeOK
  <2> HIDE DEF e
  <2>7. /\ queue' \in Seq(Entries)
        /\ Sorted(queue', deadline')
        /\ Members(queue') = Members(queue) \cup {e}
        /\ expiry' \in Nat
        /\ owed' \in [Entries -> Nat]
    <3>1. queue \in Seq(Entries)
      BY DEF TypeOK
    <3> QED
      BY <1>1, <2>1, <2>2, <2>5, <2>6, <3>1, EnterSound
  <2>8. TypeOK'
    BY <1>1, <2>5, <2>7 DEF TypeOK, NoCall, Names
  <2>9. CallInv' /\ RequestInv' /\ PeriodInv' /\ CancelInv'
    BY <1>1 DEF CallInv, RequestInv, PeriodInv, CancelInv
  <2>10. AloneInv' /\ DriftInv'
    <3>1. call'.entry \notin Periodic
      BY <1>1 DEF NoCall
    <3>2. \A t \in Tasks : request[t].entry # e
      BY <2>2 DEF AloneInv, e
    <3>3. \A x \in Entries : x # e => deadline'[x] = deadline[x]
      BY <2>1 DEF TypeOK
    <3> QED
      BY <1>1, <3>1, <3>2, <3>3 DEF AloneInv, DriftInv
  <2>11. QueueSound'
    <3>1. \A x \in Entries : x \in Members(queue') <=> deadline'[x] # 0
      BY <1>1, <2>1, <2>4, <2>7, SoundMeans DEF TypeOK
    <3> QED
      BY <2>7, <3>1 DEF QueueSound, Sorted, Members, Queued
  <2>12. CancelSticks'
    BY <1>1, <2>2, <2>7 DEF CancelSticks, Members, Queued
  <2>13. NoDrift'
    <3> SUFFICES ASSUME NEW x \in Periodic, x \in Members(queue')
                 PROVE  deadline'[x] = first[x] + calls[x] * period[x]
      BY <1>1 DEF NoDrift, Queued, Members
    <3>1. CASE x = e
      <4>1. deadline'[e] = call.deadline + period[e]
        BY <1>1, <2>1, <2>4 DEF TypeOK
      <4>2. call.deadline + period[e] = first[e] + calls[e] * period[e]
        BY <1>3, <2>2 DEF DriftInv, e
      <4> QED
        BY <3>1, <4>1, <4>2
    <3>2. CASE x # e
      BY <2>1, <2>7, <3>2 DEF TypeOK, NoDrift, Members, Queued
    <3> QED
      BY <3>1, <3>2
  <2> QED
    BY <2>8, <2>9, <2>10, <2>11, <2>12, <2>13
<1> QED
  BY <1>2, <1>3

\* The steps that leave the queue and the entries alone.
LEMMA OtherInv ==
  ASSUME IInv, Dispatch \/ Lock \/ Unlock \/ Rearm \/ Tick \/ UNCHANGED vars
  PROVE  IInv'
<1> USE HrtCalloutAssumption DEF IInv
<1>1. UNCHANGED <<queue, deadline, period, call, request, cancelled, owed, first, calls>>
  BY DEF Dispatch, Lock, Unlock, Rearm, Tick, history, isrVars, vars
<1>2. now' \in Nat \ {0} /\ expiry' \in Nat /\ began' \in Nat
  <2>1. now \in Nat \ {0} /\ expiry \in Nat /\ began \in Nat
    BY DEF TypeOK
  <2>2. Reschedule(queue, deadline) \in Nat
    BY RescheduleNat DEF TypeOK
  <2> QED
    BY <2>1, <2>2 DEF Dispatch, Lock, Unlock, Rearm, Tick, isrVars, vars
<1>3. /\ isr' \in {"idle", "enter", "loop", "callout", "resched"}
      /\ isr' = "callout" <=> isr = "callout"
  BY DEF Dispatch, Lock, Unlock, Rearm, Tick, isrVars, vars, TypeOK
<1>4. TypeOK'
  BY <1>1, <1>2, <1>3 DEF TypeOK
<1>5. CallInv' /\ RequestInv' /\ PeriodInv' /\ CancelInv'
  BY <1>1, <1>3 DEF CallInv, RequestInv, PeriodInv, CancelInv
<1>6. AloneInv' /\ DriftInv'
  BY <1>1 DEF AloneInv, DriftInv
<1>7. QueueSound' /\ CancelSticks' /\ NoDrift'
  BY <1>1 DEF QueueSound, CancelSticks, NoDrift, Queued
<1> QED
  BY <1>4, <1>5, <1>6, <1>7

-----------------------------------------------------------------------------
(* The theorems.                                                           *)

\* Whatever tasks schedule and cancel between any two sections of
\* hrt_tim_isr, the invariant is kept.
THEOREM Invariant == Spec => []IInv
<1>1. IInv /\ [Next]_vars => IInv'
  <2> SUFFICES ASSUME IInv, [Next]_vars PROVE IInv'
    OBVIOUS
  <2>1. ASSUME NEW t \in Tasks, NEW e \in Entries, NEW delay \in Delays,
               NEW interval \in IntervalsOf(e), Ask(t, e, delay, interval)
        PROVE  IInv'
    BY <2>1, AskInv
  <2>2. ASSUME NEW t \in Tasks, CallInternal(t) PROVE IInv'
    BY <2>2, CallInternalInv
  <2>3. ASSUME NEW t \in Tasks, NEW e \in Entries, Cancel(t, e) PROVE IInv'
    BY <2>3, CancelStep
  <2>4. CASE Invoke
    BY <2>4, InvokeInv
  <2>5. CASE Return
    BY <2>5, ReturnInv
  <2>6. CASE Dispatch \/ Lock \/ Unlock \/ Rearm \/ Tick \/ UNCHANGED vars
    BY <2>6, OtherInv
  <2> QED
    BY <2>1, <2>2, <2>3, <2>4, <2>5, <2>6 DEF Next, Caller, Isr
<1> QED
  BY <1>1, InitInv, PTL DEF Spec

\* The timer's variables keep their types; no deadline is negative.
THEOREM Typing == Spec => []TypeOK
<1>1. IInv => TypeOK
  BY DEF IInv
<1> QED
  BY <1>1, Invariant, PTL

\* callout_queue is in the order of deadlines, holds each waiting entry once
\* and nothing else, although callouts run with the lock released.
THEOREM SoundQueue == Spec => []QueueSound
<1>1. IInv => QueueSound
  BY DEF IInv
<1> QED
  BY <1>1, Invariant, PTL

\* hrt_cancel: a cancelled entry is not queued again by hrt_call_invoke.
THEOREM Cancellation == Spec => []CancelSticks
<1>1. IInv => CancelSticks
  BY DEF IInv
<1> QED
  BY <1>1, Invariant, PTL

\* hrt_call_every: each callout moves the deadline by exactly one period.
THEOREM Punctuality == Spec => []NoDrift
<1>1. IInv => NoDrift
  BY DEF IInv
<1> QED
  BY <1>1, Invariant, PTL

-----------------------------------------------------------------------------
(* No deadline is lost.  The timer is due no later than the head of the    *)
(* queue, or IntervalMin from now.  What can postpone it for a waiting     *)
(* entry is a request made before the entry's deadline and inserted after  *)
(* it: as many times as there are such requests, and a new one is only     *)
(* made while there is nothing to make up for.                             *)

OwedInv == \A e \in Members(queue) : deadline[e] <= owed[e]

\* hrt_tim_isr is not held up.
RunInv == isr # "idle" => began <= now /\ now <= began + Busy

\* After the loop nothing waits that was due when hrt_tim_isr began.
FreshInv == isr = "resched" => \A e \in Members(queue) : began <= owed[e]

ArmedInv ==
  isr = "idle" =>
    /\ expiry # 0 => now <= expiry + Slack
    /\ \A e \in Members(queue) :
         expiry # 0 /\ expiry <= Latest(deadline[e], now + IntervalMin)

\* The requests that can still go ahead of a deadline.
Ahead(req, due) == {t \in Tasks : req[t] # NoRequest /\ req[t].deadline < due}

\* What the others have cost already.
Spent(req, due) ==
  (Cardinality(Tasks) - Cardinality(Ahead(req, due))) * (IntervalMin + Slack)

BudgetInv ==
  isr = "idle" =>
    \A e \in Members(queue) :
      expiry <= owed[e] + Busy + IntervalMin + Spent(request, deadline[e])

TInv == OwedInv /\ RunInv /\ FreshInv /\ ArmedInv /\ BudgetInv

LEMMA Product ==
  ASSUME NEW a \in Int, NEW k \in Nat
  PROVE  /\ a >= 0 => a * k \in Nat
         /\ (a + 1) * k = a * k + k
         /\ \A b \in Int : a <= b => a * k <= b * k
<1>1. (a + 1) * k = a * k + k
  OBVIOUS
<1>2. a >= 0 => a * k \in Nat
  OBVIOUS
<1>3. ASSUME NEW b \in Int, a <= b PROVE a * k <= b * k
  <2>1. PICK c \in Nat : b = a + c
    <3>1. b - a \in Nat /\ b = a + (b - a)
      BY <1>3
    <3> QED
      BY <3>1
  <2>2. b * k = a * k + c * k /\ c * k \in Nat
    BY <2>1
  <2>3. PICK m \in Nat : m = c * k
    BY <2>2
  <2>4. PICK n \in Int : n = a * k
    OBVIOUS
  <2>5. b * k = n + m
    BY <2>2, <2>3, <2>4
  <2> QED
    BY <2>4, <2>5
<1> QED
  BY <1>1, <1>2, <1>3

LEMMA SpentBounds ==
  ASSUME NEW req, NEW due
  PROVE  /\ Cardinality(Ahead(req, due)) \in 0..Cardinality(Tasks)
         /\ Cardinality(Tasks) \in Nat /\ IsFiniteSet(Ahead(req, due))
         /\ Spent(req, due) \in Nat
         /\ Spent(req, due) <= Cardinality(Tasks) * (IntervalMin + Slack)
<1> USE HrtCalloutAssumption
<1>1. IsFiniteSet(Tasks) /\ Ahead(req, due) \subseteq Tasks
  BY DEF Ahead
<1>2. /\ Cardinality(Tasks) \in Nat
      /\ IsFiniteSet(Ahead(req, due))
      /\ Cardinality(Ahead(req, due)) <= Cardinality(Tasks)
  BY <1>1, FS_CardinalityType, FS_Subset
<1>3. Cardinality(Ahead(req, due)) \in Nat
  BY <1>2, FS_CardinalityType
<1> DEFINE n == Cardinality(Tasks)
           a == n - Cardinality(Ahead(req, due))
           k == IntervalMin + Slack
<1>4. a \in Int /\ a >= 0 /\ a <= n /\ n \in Int
  BY <1>2, <1>3
<1>5. k \in Nat
  OBVIOUS
<1>6. Spent(req, due) = a * k
  BY DEF Spent
<1> HIDE DEF a, k, n
<1>7. a * k \in Nat /\ a * k <= n * k
  BY <1>4, <1>5, Product
<1> QED
  BY <1>2, <1>3, <1>6, <1>7 DEF n, k

\* Fewer requests that can go ahead, more spent.
LEMMA SpentMore ==
  ASSUME NEW r, NEW s, NEW due, Ahead(s, due) \subseteq Ahead(r, due)
  PROVE  Spent(r, due) <= Spent(s, due)
<1> USE HrtCalloutAssumption
<1>1. /\ IsFiniteSet(Ahead(r, due)) /\ Cardinality(Tasks) \in Nat
      /\ Cardinality(Ahead(r, due)) \in Nat /\ Cardinality(Ahead(s, due)) \in Nat
  BY SpentBounds
<1>2. Cardinality(Ahead(s, due)) <= Cardinality(Ahead(r, due))
  BY <1>1, FS_Subset
<1> DEFINE a == Cardinality(Tasks) - Cardinality(Ahead(r, due))
           b == Cardinality(Tasks) - Cardinality(Ahead(s, due))
           k == IntervalMin + Slack
<1>3. a \in Int /\ b \in Int /\ a <= b
  BY <1>1, <1>2
<1>4. k \in Nat
  OBVIOUS
<1>5. Spent(r, due) = a * k /\ Spent(s, due) = b * k
  BY DEF Spent
<1> HIDE DEF a, b, k
<1> QED
  BY <1>3, <1>4, <1>5, Product

\* A request that went ahead has cost one timer run.
LEMMA SpentOne ==
  ASSUME NEW r, NEW s, NEW due, NEW t \in Ahead(r, due),
         Ahead(s, due) = Ahead(r, due) \ {t}
  PROVE  Spent(s, due) = Spent(r, due) + IntervalMin + Slack
<1> USE HrtCalloutAssumption
<1>1. IsFiniteSet(Ahead(r, due)) /\ Cardinality(Ahead(r, due)) \in 0..Cardinality(Tasks)
      /\ Cardinality(Tasks) \in Nat
  BY SpentBounds
<1>2. Cardinality(Ahead(s, due)) = Cardinality(Ahead(r, due)) - 1
  <2>1. PICK set : set = Ahead(r, due)
    OBVIOUS
  <2>2. IsFiniteSet(set) /\ t \in set /\ Ahead(s, due) = set \ {t}
    BY <1>1, <2>1
  <2>3. Cardinality(set \ {t}) = Cardinality(set) - 1
    BY <2>2, FS_RemoveElement
  <2> QED
    BY <2>1, <2>2, <2>3
<1> DEFINE a == Cardinality(Tasks) - Cardinality(Ahead(r, due))
           b == Cardinality(Tasks) - Cardinality(Ahead(s, due))
           k == IntervalMin + Slack
<1>3. a \in Int /\ b = a + 1
  <2>1. PICK m \in Nat, n \in Nat : m = Cardinality(Ahead(r, due)) /\ n = Cardinality(Tasks)
    BY <1>1
  <2> QED
    BY <1>2, <2>1
<1>4. k \in Nat
  OBVIOUS
<1>5. Spent(r, due) = a * k /\ Spent(s, due) = b * k
  BY DEF Spent
<1> HIDE DEF a, b, k
<1>6. Spent(s, due) = a * k + k
  BY <1>3, <1>4, <1>5, Product
<1>7. a * k \in Int
  BY <1>3, <1>4
<1>8. Spent(s, due) = Spent(r, due) + k /\ Spent(r, due) \in Int
  BY <1>5, <1>6, <1>7
<1> QED
  BY <1>8 DEF k

LEMMA NotYet ==
  ASSUME NEW a \in Nat, NEW b \in Nat, a + IntervalMin <= b
  PROVE  b # 0 /\ a <= b + Slack
BY HrtCalloutAssumption

LEMMA LatestGrows ==
  ASSUME NEW x \in Nat, NEW a \in Nat, NEW b \in Nat, NEW c \in Nat,
         x <= Latest(a, c), a <= b
  PROVE  x <= Latest(b, c)
BY DEF Latest

\* The head is due first.
LEMMA HeadFirst ==
  ASSUME NEW q \in Seq(Entries), NEW due \in [Entries -> Nat], Sorted(q, due),
         NEW x \in Members(q)
  PROVE  q # <<>> /\ Head(q) \in Members(q) /\ due[Head(q)] <= due[x]
<1>1. PICK j \in 1..Len(q) : q[j] = x
  BY DEF Members
<1>2. q # <<>> /\ Head(q) = q[1] /\ 1 \in 1..Len(q) /\ Len(q) \in Nat /\ x \in Entries
  BY <1>1
<1>3. j = 1 \/ due[q[1]] <= due[x]
  BY <1>1, <1>2 DEF Sorted
<1> QED
  BY <1>1, <1>2, <1>3 DEF Members

\* hrt_call_reschedule: at least IntervalMin ahead, and not behind the head.
LEMMA RescheduleBound ==
  ASSUME NEW q \in Seq(Entries), NEW due \in [Entries -> Nat], now \in Nat
  PROVE  /\ now + IntervalMin <= Reschedule(q, due)
         /\ q # <<>> => Reschedule(q, due) <= Latest(due[Head(q)], now + IntervalMin)
<1> USE HrtCalloutAssumption
<1>1. CASE q = <<>>
  BY <1>1 DEF Reschedule
<1>2. CASE q # <<>>
  <2>1. PICK next \in Nat : next = due[Head(q)]
    BY <1>2
  <2>2. Reschedule(q, due) = now + ( IF next <= now + IntervalMin THEN IntervalMin
                   ELSE IF next < now + IntervalMax THEN next - now
                   ELSE IntervalMax )
    BY <1>2, <2>1 DEF Reschedule
  <2>3. Latest(due[Head(q)], now + IntervalMin) = Latest(next, now + IntervalMin)
    BY <2>1
  <2> QED
    BY <2>2, <2>3 DEF Latest
<1> QED
  BY <1>1, <1>2

\* An insertion moves the timer for the new head, or leaves it to the old one.
LEMMA EnterTimes ==
  ASSUME NEW q \in Seq(Entries), NEW e \in Entries, TypeOK,
         NEW due \in [Entries -> Nat],
         Sorted(q, due), e \notin Members(q), Enter(q, e, due)
  PROVE  /\ owed' = [owed EXCEPT ![e] = Latest(due[e], now)]
         /\ \/ /\ now + IntervalMin <= expiry'
               /\ \A x \in Members(queue') : expiry' <= Latest(due[x], now + IntervalMin)
               /\ \A x \in Members(q) : due[e] < due[x]
            \/ /\ expiry' = expiry
               /\ \E h \in Members(q) : due[h] <= due[e]
<1> USE HrtCalloutAssumption
<1>1. PICK i \in 1..(Len(q) + 1) :
        /\ Behind(q, i, e, due)
        /\ queue' = InsertAt(q, i, e)
        /\ expiry' = IF i = 1 THEN Reschedule(queue', due) ELSE expiry
        /\ owed' = [owed EXCEPT ![e] = Latest(due[e], now)]
  BY DEF Enter
<1>2. queue' \in Seq(Entries) /\ Sorted(queue', due)
  BY EnterSound
<1>3. now \in Nat
  BY DEF TypeOK
<1>4. CASE i = 1
  <2>1. expiry' = Reschedule(queue', due)
    BY <1>1, <1>4
  <2>2. now + IntervalMin <= expiry'
    BY <1>2, <1>3, <2>1, RescheduleBound
  <2>3. ASSUME NEW x \in Members(queue')
        PROVE  expiry' <= Latest(due[x], now + IntervalMin)
    <3>1. queue' # <<>> /\ Head(queue') \in Entries /\ due[Head(queue')] <= due[x]
      BY <1>2, <2>3, HeadFirst
    <3>2. Reschedule(queue', due) <= Latest(due[Head(queue')], now + IntervalMin)
      BY <1>2, <1>3, <3>1, RescheduleBound
    <3>3. x \in Entries
      BY <1>2 DEF Members
    <3>4. PICK a \in Nat, b \in Nat, n \in Nat :
            a = due[Head(queue')] /\ b = due[x] /\ n = now + IntervalMin
      BY <1>3, <3>1, <3>3
    <3>5. Reschedule(queue', due) \in Nat
      BY <1>2, <1>3, RescheduleNat
    <3>6. Reschedule(queue', due) <= Latest(a, n) /\ a <= b
      BY <3>1, <3>2, <3>4
    <3>7. Reschedule(queue', due) <= Latest(b, n)
      BY <3>4, <3>5, <3>6, LatestGrows
    <3> QED
      BY <2>1, <3>4, <3>7
  <2>4. ASSUME NEW x \in Members(q) PROVE due[e] < due[x]
    <3>1. q # <<>> /\ due[Head(q)] <= due[x] /\ Head(q) = q[1] /\ Head(q) \in Entries
      BY <2>4, HeadFirst
    <3>2. due[e] < due[q[1]]
      BY <1>1, <1>4, <3>1 DEF Behind
    <3>3. x \in Entries
      BY DEF Members
    <3> QED
      BY <3>1, <3>2, <3>3
  <2> QED
    BY <1>1, <2>2, <2>3, <2>4
<1>5. CASE i # 1
  <2>1. 1 \in 1..(i - 1) /\ 1 \in 1..Len(q)
    BY <1>5
  <2>2. due[q[1]] <= due[e] /\ q[1] \in Members(q)
    BY <1>1, <2>1 DEF Behind, Members
  <2> QED
    BY <1>1, <1>5, <2>2
<1> QED
  BY <1>4, <1>5

LEMMA InitTimes == Init => TInv
BY DEF Init, TInv, OwedInv, RunInv, FreshInv, ArmedInv, BudgetInv, Members

LEMMA Numbers ==
  ASSUME TypeOK, NEW x \in Members(queue)
  PROVE  /\ x \in Entries /\ deadline[x] \in Nat /\ owed[x] \in Nat
         /\ now \in Nat /\ expiry \in Nat /\ began \in Nat
BY DEF TypeOK, Members

\* A deadline asked for later than another one's goes behind it.
LEMMA AskTimes ==
  ASSUME IInv, TInv, NEW t \in Tasks, NEW e \in Entries, NEW delay \in Delays,
         NEW interval \in IntervalsOf(e), Ask(t, e, delay, interval)
  PROVE  TInv'
<1> USE HrtCalloutAssumption DEF IInv, TInv
<1>1. UNCHANGED <<now, queue, deadline, expiry, isr, began, owed>>
  BY DEF Ask, history, isrVars
<1>2. OwedInv' /\ RunInv' /\ FreshInv' /\ ArmedInv'
  BY <1>1 DEF OwedInv, RunInv, FreshInv, ArmedInv, Members
<1>3. BudgetInv'
  <2> SUFFICES ASSUME isr = "idle", NEW x \in Members(queue)
               PROVE  expiry <= owed[x] + Busy + IntervalMin + Spent(request', deadline[x])
    BY <1>1 DEF BudgetInv, Members
  <2>1. \A u \in Tasks : request'[u] =
          IF u = t THEN [entry |-> e, deadline |-> now + delay, interval |-> interval]
          ELSE request[u]
    BY DEF Ask, TypeOK
  <2>2. /\ x \in Entries /\ deadline[x] \in Nat /\ owed[x] \in Nat
        /\ now \in Nat /\ expiry \in Nat
    BY Numbers
  <2>3. Spent(request', deadline[x]) \in Nat /\ Spent(request, deadline[x]) \in Nat
    BY SpentBounds
  <2>4. CASE now + delay < deadline[x]
    <3>1. expiry <= Latest(deadline[x], now + IntervalMin) /\ deadline[x] <= owed[x]
      BY DEF ArmedInv, OwedInv
    <3>2. now <= deadline[x]
      BY <2>2, <2>4
    <3>3. expiry <= owed[x] + IntervalMin
      BY <2>2, <3>1, <3>2 DEF Latest
    <3> QED
      BY <2>2, <2>3, <3>3
  <2>5. CASE ~(now + delay < deadline[x])
    <3>1. Ahead(request', deadline[x]) \subseteq Ahead(request, deadline[x])
      BY <2>1, <2>5 DEF Ahead
    <3>2. Spent(request, deadline[x]) <= Spent(request', deadline[x])
      BY <3>1, SpentMore
    <3>3. expiry <= owed[x] + Busy + IntervalMin + Spent(request, deadline[x])
      BY DEF BudgetInv
    <3> QED
      BY <2>2, <2>3, <3>2, <3>3
  <2> QED
    BY <2>4, <2>5
<1> QED
  BY <1>2, <1>3

\* A request that goes ahead of a waiting entry is spent; one that goes
\* behind the head leaves the timer alone.
LEMMA CallInternalTimes ==
  ASSUME IInv, IInv', TInv, NEW t \in Tasks, CallInternal(t)
  PROVE  TInv'
<1> USE HrtCalloutAssumption DEF IInv, TInv
<1> DEFINE e == request[t].entry
           d == request[t].deadline
           q == IF deadline[e] # 0 THEN Without(queue, e) ELSE queue
<1>1. e \in Entries /\ d \in Nat /\ t \in Tasks /\ request[t] # NoRequest
  BY DEF CallInternal, TypeOK, RequestInv
<1>2. /\ deadline' = [deadline EXCEPT ![e] = d]
      /\ Enter(q, e, deadline')
      /\ request' = [request EXCEPT ![t] = NoRequest]
      /\ UNCHANGED <<now, isr, began>>
  BY DEF CallInternal, isrVars
<1>3. /\ q \in Seq(Entries) /\ Sorted(q, deadline)
      /\ Members(q) = Members(queue) \ {e}
  <2>1. queue \in Seq(Entries) /\ deadline \in [Entries -> Nat]
    BY DEF TypeOK
  <2>2. CASE deadline[e] # 0
    BY <1>1, <2>1, <2>2, SoundMeans, WithoutSound
  <2>3. CASE deadline[e] = 0
    BY <1>1, <2>1, <2>3, SoundMeans
  <2> QED
    BY <2>2, <2>3
<1>4. request[t].deadline = d
  OBVIOUS
<1> HIDE DEF e, d, q
<1>5. /\ deadline' \in [Entries -> Nat] /\ deadline'[e] = d
      /\ \A x \in Entries : x # e => deadline'[x] = deadline[x]
  BY <1>1, <1>2 DEF TypeOK
<1>6. Sorted(q, deadline')
  <2>1. \A x \in Members(q) : deadline'[x] = deadline[x]
    <3>1. \A x \in Members(q) : x \in Entries /\ x # e
      BY <1>3 DEF Members
    <3> QED
      BY <1>5, <3>1
  <2> QED
    BY <1>3, <1>5, <2>1, SortedElsewhere DEF TypeOK
<1>7. e \notin Members(q)
  BY <1>3
<1>8. Members(queue') = Members(queue) \cup {e}
  BY <1>1, <1>2, <1>3, <1>5, <1>6, <1>7, EnterSound
<1>9. /\ owed' = [owed EXCEPT ![e] = Latest(d, now)]
      /\ \/ /\ now + IntervalMin <= expiry'
            /\ \A x \in Members(queue') : expiry' <= Latest(deadline'[x], now + IntervalMin)
            /\ \A x \in Members(q) : d < deadline'[x]
         \/ /\ expiry' = expiry
            /\ \E h \in Members(q) : deadline'[h] <= d
  <2>1. TypeOK
    OBVIOUS
  <2>2. /\ owed' = [owed EXCEPT ![e] = Latest(deadline'[e], now)]
        /\ \/ /\ now + IntervalMin <= expiry'
              /\ \A x \in Members(queue') : expiry' <= Latest(deadline'[x], now + IntervalMin)
              /\ \A x \in Members(q) : deadline'[e] < deadline'[x]
           \/ /\ expiry' = expiry
              /\ \E h \in Members(q) : deadline'[h] <= deadline'[e]
    BY <1>1, <1>2, <1>3, <1>5, <1>6, <1>7, <2>1, EnterTimes, Zenon
  <2> QED
    BY <1>5, <2>2
<1>10. /\ owed'[e] = Latest(d, now)
       /\ \A x \in Entries : x # e => owed'[x] = owed[x]
  BY <1>1, <1>9 DEF TypeOK
<1>11. now \in Nat /\ expiry \in Nat /\ expiry' \in Nat /\ began \in Nat
  BY DEF TypeOK
<1>12. \A x \in Members(queue) :
         /\ x \in Entries /\ deadline[x] \in Nat /\ owed[x] \in Nat
         /\ deadline[x] <= owed[x]
  BY Numbers DEF OwedInv
<1>13. OwedInv'
  <2> SUFFICES ASSUME NEW x \in Members(queue') PROVE deadline'[x] <= owed'[x]
    BY DEF OwedInv
  <2>1. CASE x = e
    BY <1>1, <1>5, <1>10, <1>11, <2>1 DEF Latest
  <2>2. CASE x # e
    BY <1>5, <1>8, <1>10, <1>12, <2>2
  <2> QED
    BY <2>1, <2>2
<1>14. RunInv'
  BY <1>2 DEF RunInv
<1>15. FreshInv'
  <2> SUFFICES ASSUME isr = "resched", NEW x \in Members(queue') PROVE began <= owed'[x]
    BY <1>2 DEF FreshInv
  <2>1. CASE x = e
    <3>1. began <= now
      BY DEF RunInv
    <3> QED
      BY <1>1, <1>10, <1>11, <2>1, <3>1 DEF Latest
  <2>2. CASE x # e
    BY <1>8, <1>10, <1>12, <2>2 DEF FreshInv
  <2> QED
    BY <2>1, <2>2
<1>16. \A x \in Members(queue) : isr = "idle" =>
         /\ expiry # 0 /\ now <= expiry + Slack
         /\ expiry <= Latest(deadline[x], now + IntervalMin)
         /\ expiry <= owed[x] + Busy + IntervalMin + Spent(request, deadline[x])
  BY DEF ArmedInv, BudgetInv
<1>17. ArmedInv'
  <2> SUFFICES ASSUME isr = "idle"
               PROVE  /\ expiry' # 0 => now <= expiry' + Slack
                      /\ \A x \in Members(queue') :
                           expiry' # 0 /\ expiry' <= Latest(deadline'[x], now + IntervalMin)
    BY <1>2 DEF ArmedInv
  <2>1. CASE now + IntervalMin <= expiry'
             /\ \A x \in Members(queue') : expiry' <= Latest(deadline'[x], now + IntervalMin)
    <3>0. now + IntervalMin <= expiry'
      BY <2>1
    <3>1. expiry' # 0 /\ now <= expiry' + Slack
      BY <1>11, <3>0, NotYet
    <3>2. \A x \in Members(queue') : expiry' <= Latest(deadline'[x], now + IntervalMin)
      BY <2>1
    <3> QED
      BY <3>1, <3>2, Zenon
  <2>2. ASSUME expiry' = expiry, NEW h \in Members(q), deadline'[h] <= d
        PROVE  /\ expiry' # 0 => now <= expiry' + Slack
               /\ \A x \in Members(queue') :
                    expiry' # 0 /\ expiry' <= Latest(deadline'[x], now + IntervalMin)
    <3>1. h \in Members(queue) /\ h # e /\ deadline[h] <= d /\ deadline[h] \in Nat
      BY <1>3, <1>5, <1>12, <2>2
    <3>2. expiry' # 0 /\ now <= expiry' + Slack
      BY <1>16, <2>2, <3>1
    <3>3. ASSUME NEW x \in Members(queue')
          PROVE  expiry' <= Latest(deadline'[x], now + IntervalMin)
      <4>1. CASE x = e
        <5>1. expiry <= Latest(deadline[h], now + IntervalMin)
          BY <1>16, <3>1
        <5>2. expiry <= Latest(d, now + IntervalMin)
          BY <1>1, <1>11, <3>1, <5>1 DEF Latest
        <5> QED
          BY <1>5, <2>2, <4>1, <5>2
      <4>2. CASE x # e
        <5>1. x \in Members(queue) /\ deadline'[x] = deadline[x]
          BY <1>5, <1>8, <1>12, <4>2
        <5> QED
          BY <1>16, <2>2, <5>1
      <4> QED
        BY <4>1, <4>2
    <3> QED
      BY <3>2, <3>3
  <2> QED
    BY <1>9, <2>1, <2>2
<1>18. BudgetInv'
  <2> SUFFICES ASSUME isr = "idle", NEW x \in Members(queue')
               PROVE  expiry' <= owed'[x] + Busy + IntervalMin
                                 + Spent(request', deadline'[x])
    BY <1>2 DEF BudgetInv
  <2>1. Spent(request', deadline'[x]) \in Nat
    BY SpentBounds
  <2>2. expiry' <= Latest(deadline'[x], now + IntervalMin)
    BY <1>2, <1>17 DEF ArmedInv
  <2>3. CASE x = e
    <3>1. expiry' <= owed'[x] + IntervalMin
      BY <1>1, <1>5, <1>10, <1>11, <2>2, <2>3 DEF Latest
    <3>2. owed'[x] \in Nat
      BY <1>1, <1>10, <1>11, <2>3 DEF Latest
    <3> QED
      BY <1>11, <2>1, <3>1, <3>2
  <2>4. CASE x # e
    <3>1. /\ x \in Members(queue) /\ deadline'[x] = deadline[x] /\ owed'[x] = owed[x]
          /\ x \in Members(q) /\ deadline[x] \in Nat /\ owed[x] \in Nat
          /\ deadline[x] <= owed[x]
      BY <1>3, <1>5, <1>8, <1>10, <1>12, <2>4
    <3>2. /\ now <= expiry + Slack
          /\ expiry <= owed[x] + Busy + IntervalMin + Spent(request, deadline[x])
      BY <1>16, <3>1
    <3>3. Spent(request, deadline[x]) \in Nat
      BY SpentBounds
    <3>4. \A u \in Tasks : request'[u] = IF u = t THEN NoRequest ELSE request[u]
      BY <1>2 DEF TypeOK
    <3>5. Ahead(request', deadline[x]) = Ahead(request, deadline[x]) \ {t}
      BY <3>4 DEF Ahead
    <3>6. CASE d < deadline'[x]
      <4>1. t \in Ahead(request, deadline[x])
        BY <1>1, <1>4, <3>1, <3>6 DEF Ahead
      <4>2. Spent(request', deadline[x]) = Spent(request, deadline[x]) + IntervalMin + Slack
        BY <3>5, <4>1, SpentOne
      <4>3. expiry' <= Latest(deadline[x], now + IntervalMin)
        BY <2>2, <3>1
      <4>4. CASE deadline[x] > now + IntervalMin
        <5>1. expiry' <= owed[x]
          BY <1>11, <3>1, <4>3, <4>4 DEF Latest
        <5> QED
          BY <1>11, <2>1, <3>1, <5>1
      <4>5. CASE ~(deadline[x] > now + IntervalMin)
        <5>1. expiry' <= now + IntervalMin
          BY <1>11, <3>1, <4>3, <4>5 DEF Latest
        <5> QED
          BY <1>11, <3>1, <3>2, <3>3, <4>2, <5>1
      <4> QED
        BY <4>4, <4>5
    <3>7. CASE expiry' = expiry
      <4>1. Spent(request, deadline[x]) <= Spent(request', deadline[x])
        BY <3>5, SpentMore
      <4> QED
        BY <1>11, <2>1, <3>1, <3>2, <3>3, <3>7, <4>1
    <3> QED
      BY <1>9, <3>1, <3>6, <3>7
  <2> QED
    BY <2>3, <2>4
<1> QED
  BY <1>13, <1>14, <1>15, <1>17, <1>18

\* A cancellation leaves the timer alone.
LEMMA CancelTimes ==
  ASSUME IInv, TInv, NEW t \in Tasks, NEW e \in Entries, Cancel(t, e)
  PROVE  TInv'
<1> USE HrtCalloutAssumption DEF IInv, TInv
<1>1. /\ queue' = Without(queue, e)
      /\ deadline' = [deadline EXCEPT ![e] = 0]
      /\ owed' = [owed EXCEPT ![e] = 0]
      /\ UNCHANGED <<now, expiry, isr, began, request>>
  BY DEF Cancel, isrVars
<1>2. Members(queue') = Members(queue) \ {e}
  BY <1>1, SoundMeans, WithoutSound DEF TypeOK
<1>3. \A x \in Members(queue') :
        x \in Members(queue) /\ deadline'[x] = deadline[x] /\ owed'[x] = owed[x]
  <2>1. \A x \in Members(queue) : x \in Entries
    BY Numbers
  <2> QED
    BY <1>1, <1>2, <2>1 DEF TypeOK
<1>4. OwedInv' /\ RunInv' /\ FreshInv'
  BY <1>1, <1>3 DEF OwedInv, RunInv, FreshInv
<1>5. ArmedInv'
  BY <1>1, <1>3 DEF ArmedInv
<1>6. BudgetInv'
  BY <1>1, <1>3 DEF BudgetInv
<1> QED
  BY <1>4, <1>5, <1>6

\* The timer is moved in the callouts, too, but hrt_tim_isr moves it last.
LEMMA InvokeTimes ==
  ASSUME IInv, TInv, Invoke
  PROVE  TInv'
<1> USE HrtCalloutAssumption DEF IInv, TInv
<1> DEFINE e == Head(queue)
<1>1. /\ isr = "loop" /\ isr' = "callout" /\ queue # <<>>
      /\ queue' = Tail(queue)
      /\ deadline' = [deadline EXCEPT ![e] = 0]
      /\ owed' = [owed EXCEPT ![e] = 0]
      /\ UNCHANGED <<now, began>>
  BY DEF Invoke, Due
<1>2. Members(queue') = Members(queue) \ {e}
  BY <1>1, SoundMeans, TailSound DEF TypeOK
<1> HIDE DEF e
<1>3. \A x \in Members(queue') :
        x \in Members(queue) /\ deadline'[x] = deadline[x] /\ owed'[x] = owed[x]
  <2>1. \A x \in Members(queue) : x \in Entries
    BY Numbers
  <2> QED
    BY <1>1, <1>2, <2>1 DEF TypeOK
<1> QED
  BY <1>1, <1>3 DEF OwedInv, RunInv, FreshInv, ArmedInv, BudgetInv

LEMMA ReturnTimes ==
  ASSUME IInv, IInv', TInv, Return
  PROVE  TInv'
<1> USE HrtCalloutAssumption DEF IInv, TInv
<1> DEFINE e == call.entry
<1>1. /\ isr = "callout" /\ isr' = "loop" /\ e \in Entries
      /\ UNCHANGED <<now, began>>
  BY DEF Return, CallInv
<1>2. RunInv' /\ FreshInv' /\ ArmedInv' /\ BudgetInv'
  BY <1>1 DEF RunInv, FreshInv, ArmedInv, BudgetInv
<1>3. OwedInv'
  <2>1. CASE period[e] = 0
    BY <2>1 DEF Return, OwedInv, Members
  <2>2. CASE period[e] # 0
    <3>1. /\ deadline' = [deadline EXCEPT ![e] = NextDeadline(e)]
          /\ Enter(queue, e, deadline')
      BY <2>2 DEF Return
    <3>2. e \in Periodic /\ deadline[e] = 0
      BY <1>1, <2>2 DEF PeriodInv, AloneInv
    <3>3. e \notin Members(queue)
      BY <1>1, <3>2, SoundMeans
    <3>4. deadline' \in [Entries -> Nat] /\ queue \in Seq(Entries)
      BY DEF TypeOK
    <3>5. \A x \in Members(queue) : x \in Entries /\ x # e
      BY <3>3, Numbers
    <3>6. \A x \in Members(queue) : deadline'[x] = deadline[x]
      BY <3>1, <3>5 DEF TypeOK
    <3>7. Sorted(queue, deadline')
      BY <3>4, <3>6, SoundMeans, SortedElsewhere DEF TypeOK
    <3> HIDE DEF e
    <3>8. Members(queue') = Members(queue) \cup {e}
      BY <1>1, <3>1, <3>3, <3>4, <3>7, EnterSound
    <3>9. TypeOK
      OBVIOUS
    <3>10. owed' = [owed EXCEPT ![e] = Latest(deadline'[e], now)]
      BY <1>1, <3>1, <3>3, <3>4, <3>7, <3>9, EnterTimes
    <3>11. deadline'[e] <= owed'[e]
      BY <1>1, <3>4, <3>10 DEF TypeOK, Latest
    <3>12. \A x \in Members(queue) : deadline'[x] <= owed'[x]
      BY <3>5, <3>6, <3>10 DEF TypeOK, OwedInv
    <3> QED
      BY <3>8, <3>11, <3>12 DEF OwedInv
  <2> QED
    BY <2>1, <2>2
<1> QED
  BY <1>2, <1>3

\* Nothing that is left was due when the loop ended.
LEMMA UnlockTimes ==
  ASSUME IInv, TInv, Unlock
  PROVE  TInv'
<1> USE HrtCalloutAssumption DEF IInv, TInv
<1>1. /\ isr = "loop" /\ isr' = "resched" /\ ~Due
      /\ UNCHANGED <<now, queue, deadline, began, owed>>
  BY DEF Unlock, history
<1>2. FreshInv'
  <2> SUFFICES ASSUME NEW x \in Members(queue) PROVE began <= owed[x]
    BY <1>1 DEF FreshInv, Members
  <2>1. queue # <<>> /\ Head(queue) \in Members(queue)
        /\ deadline[Head(queue)] <= deadline[x]
    BY SoundMeans, HeadFirst DEF TypeOK
  <2>2. ~(deadline[Head(queue)] <= now)
    BY <1>1, <2>1 DEF Due
  <2>3. deadline[Head(queue)] \in Nat
    BY <2>1, Numbers
  <2>4. deadline[x] \in Nat /\ owed[x] \in Nat /\ now \in Nat /\ began \in Nat
    BY Numbers
  <2>5. began <= now /\ deadline[x] <= owed[x]
    BY <1>1 DEF RunInv, OwedInv
  <2> QED
    BY <2>1, <2>2, <2>3, <2>4, <2>5
<1>3. OwedInv' /\ RunInv'
  BY <1>1 DEF OwedInv, RunInv, Members
<1> QED
  BY <1>1, <1>2, <1>3 DEF ArmedInv, BudgetInv

\* The last reschedule, at most Busy after any entry that waits was due.
LEMMA RearmTimes ==
  ASSUME IInv, TInv, Rearm
  PROVE  TInv'
<1> USE HrtCalloutAssumption DEF IInv, TInv
<1>1. /\ isr = "resched" /\ isr' = "idle"
      /\ expiry' = Reschedule(queue, deadline)
      /\ UNCHANGED <<now, queue, deadline, request, owed>>
  BY DEF Rearm, history
<1>2. now \in Nat /\ began \in Nat /\ queue \in Seq(Entries) /\ deadline \in [Entries -> Nat]
  BY DEF TypeOK
<1>3. expiry' \in Nat /\ now + IntervalMin <= expiry'
  BY <1>1, <1>2, RescheduleNat, RescheduleBound
<1>4. ASSUME NEW x \in Members(queue)
      PROVE  expiry' <= Latest(deadline[x], now + IntervalMin)
  <2>1. queue # <<>> /\ Head(queue) \in Members(queue)
        /\ deadline[Head(queue)] <= deadline[x]
    BY SoundMeans, HeadFirst DEF TypeOK
  <2>2. expiry' <= Latest(deadline[Head(queue)], now + IntervalMin)
    BY <1>1, <1>2, <2>1, RescheduleBound
  <2>3. deadline[Head(queue)] \in Nat /\ deadline[x] \in Nat
    BY <2>1, Numbers
  <2> QED
    <3>1. now + IntervalMin \in Nat
      BY <1>2
    <3> QED
      BY <1>3, <2>1, <2>2, <2>3, <3>1, LatestGrows
<1>5. ArmedInv'
  <2>1. expiry' # 0 /\ now <= expiry' + Slack
    BY <1>2, <1>3, NotYet
  <2> QED
    BY <1>1, <1>4, <2>1 DEF ArmedInv, Members
<1>6. BudgetInv'
  <2> SUFFICES ASSUME NEW x \in Members(queue)
               PROVE  expiry' <= owed[x] + Busy + IntervalMin + Spent(request, deadline[x])
    BY <1>1 DEF BudgetInv, Members
  <2>1. deadline[x] \in Nat /\ owed[x] \in Nat
    BY Numbers
  <2>2. now <= began + Busy /\ began <= owed[x] /\ deadline[x] <= owed[x]
    BY <1>1 DEF RunInv, FreshInv, OwedInv
  <2>3. expiry' <= owed[x] + Busy + IntervalMin
    BY <1>2, <1>3, <1>4, <2>1, <2>2 DEF Latest
  <2>4. Spent(request, deadline[x]) \in Nat
    BY SpentBounds
  <2> QED
    BY <1>3, <2>1, <2>3, <2>4
<1>7. OwedInv' /\ RunInv' /\ FreshInv'
  BY <1>1 DEF OwedInv, RunInv, FreshInv, Members
<1> QED
  BY <1>5, <1>6, <1>7

LEMMA TickTimes ==
  ASSUME IInv, TInv, Tick
  PROVE  TInv'
<1> USE HrtCalloutAssumption DEF IInv, TInv
<1>1. /\ UNCHANGED <<queue, deadline, expiry, isr, began, request, owed>>
      /\ now' = now + 1
      /\ isr = "idle" /\ expiry # 0 => now < expiry + Slack
      /\ isr # "idle" => now < began + Busy
  BY DEF Tick, isrVars, history
<1>2. now \in Nat /\ expiry \in Nat /\ began \in Nat
  BY DEF TypeOK
<1>3. OwedInv' /\ FreshInv' /\ BudgetInv'
  BY <1>1 DEF OwedInv, FreshInv, BudgetInv, Members
<1>4. RunInv'
  BY <1>1, <1>2 DEF RunInv
<1>5. ArmedInv'
  <2> SUFFICES ASSUME isr = "idle"
               PROVE  /\ expiry # 0 => now' <= expiry + Slack
                      /\ \A x \in Members(queue) :
                           expiry # 0 /\ expiry <= Latest(deadline[x], now' + IntervalMin)
    BY <1>1 DEF ArmedInv, Members
  <2>1. expiry # 0 => now' <= expiry + Slack
    BY <1>1, <1>2
  <2>2. ASSUME NEW x \in Members(queue)
        PROVE  expiry # 0 /\ expiry <= Latest(deadline[x], now' + IntervalMin)
    <3>1. expiry # 0 /\ expiry <= Latest(deadline[x], now + IntervalMin)
      BY DEF ArmedInv
    <3>2. deadline[x] \in Nat
      BY Numbers
    <3> QED
      BY <1>1, <1>2, <3>1, <3>2 DEF Latest
  <2> QED
    BY <2>1, <2>2
<1> QED
  BY <1>3, <1>4, <1>5

LEMMA OtherTimes ==
  ASSUME IInv, TInv, Dispatch \/ Lock \/ UNCHANGED vars
  PROVE  TInv'
<1> USE HrtCalloutAssumption DEF IInv, TInv
<1>1. UNCHANGED <<now, queue, deadline, request, owed>>
  BY DEF Dispatch, Lock, history, vars
<1>2. OwedInv'
  BY <1>1 DEF OwedInv, Members
<1>3. CASE Dispatch
  <2>1. isr' = "enter" /\ began' = now /\ now \in Nat
    BY <1>3 DEF Dispatch, TypeOK
  <2> QED
    BY <1>1, <1>2, <2>1 DEF RunInv, FreshInv, ArmedInv, BudgetInv
<1>4. CASE Lock
  BY <1>1, <1>2, <1>4 DEF Lock, RunInv, FreshInv, ArmedInv, BudgetInv
<1>5. CASE UNCHANGED vars
  BY <1>5 DEF vars, OwedInv, RunInv, FreshInv, ArmedInv, BudgetInv, Members
<1> QED
  BY <1>3, <1>4, <1>5

\* Whoever schedules or cancels while hrt_tim_isr runs or is about to, and
\* however long a request was on its way.
THEOREM Timing == Spec => []TInv
<1>1. IInv /\ IInv' /\ TInv /\ [Next]_vars => TInv'
  <2> SUFFICES ASSUME IInv, IInv', TInv, [Next]_vars PROVE TInv'
    OBVIOUS
  <2>1. ASSUME NEW t \in Tasks, NEW e \in Entries, NEW delay \in Delays,
               NEW interval \in IntervalsOf(e), Ask(t, e, delay, interval)
        PROVE  TInv'
    BY <2>1, AskTimes
  <2>2. ASSUME NEW t \in Tasks, CallInternal(t) PROVE TInv'
    BY <2>2, CallInternalTimes
  <2>3. ASSUME NEW t \in Tasks, NEW e \in Entries, Cancel(t, e) PROVE TInv'
    BY <2>3, CancelTimes
  <2>4. CASE Invoke
    BY <2>4, InvokeTimes
  <2>5. CASE Return
    BY <2>5, ReturnTimes
  <2>6. CASE Unlock
    BY <2>6, UnlockTimes
  <2>7. CASE Rearm
    BY <2>7, RearmTimes
  <2>8. CASE Tick
    BY <2>8, TickTimes
  <2>9. CASE Dispatch \/ Lock \/ UNCHANGED vars
    BY <2>9, OtherTimes
  <2> QED
    BY <2>1, <2>2, <2>3, <2>4, <2>5, <2>6, <2>7, <2>8, <2>9 DEF Next, Caller, Isr
<1> QED
  BY <1>1, InitTimes, Invariant, PTL DEF Spec

(* An entry waits past its deadline, or its insertion, at most one timer   *)
(* run for each task and one for itself.                                   *)
THEOREM Latency == Spec => []NeverLate
<1>1. IInv /\ TInv => NeverLate
  <2> SUFFICES ASSUME IInv, TInv, isr = "idle", NEW e \in Members(queue)
               PROVE  now <= owed[e] + Lateness
    BY DEF NeverLate, Queued, Members
  <2> USE HrtCalloutAssumption
  <2>1. now \in Nat /\ expiry \in Nat /\ owed[e] \in Nat
    BY Numbers DEF IInv
  <2>2. expiry # 0 /\ now <= expiry + Slack
    BY DEF TInv, ArmedInv
  <2>3. expiry <= owed[e] + Busy + IntervalMin + Spent(request, deadline[e])
    BY DEF TInv, BudgetInv
  <2>4. /\ Cardinality(Tasks) \in Nat /\ Spent(request, deadline[e]) \in Nat
        /\ Spent(request, deadline[e]) <= Cardinality(Tasks) * (IntervalMin + Slack)
    BY SpentBounds
  <2> DEFINE n == Cardinality(Tasks)
             k == IntervalMin + Slack
  <2>5. n \in Nat /\ k \in Nat /\ k = IntervalMin + Slack
    BY <2>4
  <2>6. Lateness = (n + 1) * k + Busy
    BY DEF Lateness
  <2>7. Spent(request, deadline[e]) <= n * k
    BY <2>4
  <2> HIDE DEF n, k
  <2>8. (n + 1) * k = n * k + k /\ n * k \in Nat
    BY <2>5, Product
  <2>9. PICK m \in Nat : m = n * k
    BY <2>8
  <2>10. Lateness = m + k + Busy
    BY <2>6, <2>8, <2>9
  <2> QED
    BY <2>1, <2>2, <2>3, <2>4, <2>5, <2>7, <2>9, <2>10
<1> QED
  BY <1>1, Invariant, Timing, PTL
============================================================================
