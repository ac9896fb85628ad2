-------------------------- MODULE UorbNodeProofs ---------------------------
(***************************************************************************)
(* Proofs about UorbNode, for every number of publishers and subscribers,  *)
(* every depth of the queue and every range of the counter: the type       *)
(* invariant, that no wake-up is missed, and that the ring with its        *)
(* wrapping generations implements UorbTopic.                              *)
(*                                                                         *)
(* Nothing relates the generation to the number of samples published: the  *)
(* proof only uses distances between generations, which stay below the     *)
(* range of the counter.                                                   *)
(***************************************************************************)
EXTENDS UorbNode, TLAPS

-----------------------------------------------------------------------------
(* The inductive invariant.                                                *)

\* A sample has been published on an advertised topic with memory.
NodeInv ==
  /\ count >= 1 => advertised /\ allocated
  /\ \A p \in Publishers :
       /\ ppc[p] # "idle" => advertised
       /\ ppc[p] \in {"write", "callbacks"} => allocated

\* The data are valid once the first write is over.
ValidInv ==
  /\ owner # None => count >= 1
  /\ valid => count >= 1
  /\ owner = None /\ count >= 1 => valid

\* Only subscribers run, are scheduled or are called.
SubscribedInv ==
  \A s \in Subscribers \ subscribed :
    spc[s] = "idle" /\ s \notin scheduled /\ s \notin todo

\* A subscriber is behind by no more than has been published.
UnreadInv == \A s \in subscribed : 0 <= Unread(s) /\ Unread(s) <= count

\* Where the sample is that was published as the k-th last.
Slot(k) == ((generation - k) % GenMod) % depth

\* The ring keeps the last samples; it is empty before the first.
RingInv ==
  /\ count = 0 => \A i \in 0..(depth - 1) : ring[i] = 0
  /\ \A k \in 1..depth : k <= count => ring[Slot(k)] = count - k + 1

IInv ==
  /\ TypeOK
  /\ NodeInv /\ ValidInv /\ SubscribedInv
  /\ UnreadInv /\ RingInv
  /\ NoMissedWakeup

-----------------------------------------------------------------------------
(* Arithmetic of the counter.                                              *)

LEMMA ModWitness ==
  ASSUME NEW d \in Nat \ {0}, NEW x \in Int
  PROVE  /\ x % d \in 0..(d - 1)
         /\ \E q \in Int : x = d * q + (x % d)
<1>1. x % d \in 0..(d - 1)
  OBVIOUS
<1>2. x = d * (x \div d) + (x % d) /\ x \div d \in Int
  OBVIOUS
<1> QED
  BY <1>1, <1>2

LEMMA ModUnique ==
  ASSUME NEW d \in Nat \ {0}, NEW q \in Int, NEW r \in 0..(d - 1)
  PROVE  (d * q + r) % d = r
<1> DEFINE x == d * q + r
<1>1. x \in Int
  OBVIOUS
<1>2. PICK p \in Int : x = d * p + (x % d)
  BY <1>1, ModWitness
<1>3. x % d \in 0..(d - 1)
  BY <1>1, ModWitness
<1>4. PICK m \in 0..(d - 1) : m = x % d
  BY <1>3
<1>5. d * (q - p) = m - r
  BY <1>2, <1>4
<1>6. CASE q - p >= 1
  BY <1>5, <1>6
<1>7. CASE q - p <= -1
  BY <1>5, <1>7
<1>8. CASE q = p
  BY <1>5, <1>8, <1>4
<1> QED
  BY <1>6, <1>7, <1>8

\* A whole number of turns changes nothing.
LEMMA ModShift ==
  ASSUME NEW d \in Nat \ {0}, NEW x \in Int, NEW m \in Int
  PROVE  (x + d * m) % d = x % d
<1>1. PICK r \in 0..(d - 1) : r = x % d
  BY ModWitness
<1>2. PICK q \in Int : x = d * q + r
  BY <1>1, ModWitness
<1>3. q + m \in Int /\ x + d * m = d * (q + m) + r
  BY <1>2
<1>4. (d * (q + m) + r) % d = r
  BY <1>3, ModUnique
<1> QED
  BY <1>1, <1>3, <1>4

\* Numbers closer than d to each other differ.
LEMMA ModDiffer ==
  ASSUME NEW d \in Nat \ {0}, NEW x \in Int, NEW k \in 1..(d - 1)
  PROVE  (x - k) % d # x % d
<1> SUFFICES ASSUME (x - k) % d = x % d PROVE FALSE
  OBVIOUS
<1>1. PICK r \in 0..(d - 1) : r = x % d
  BY ModWitness
<1>2. PICK q \in Int : x = d * q + r
  BY <1>1, ModWitness
<1>3. x - k \in Int /\ (x - k) % d = r
  BY <1>1
<1>4. PICK p \in Int : x - k = d * p + r
  BY <1>3, ModWitness
<1>5. k = d * (q - p)
  BY <1>2, <1>4
<1>6. CASE q - p >= 1
  BY <1>5, <1>6
<1>7. CASE q - p <= 0
  BY <1>5, <1>7
<1> QED
  BY <1>6, <1>7

\* The counter one turn above and below its range.
LEMMA Wrap ==
  ASSUME NEW x \in Int, -GenMod <= x, x < GenMod + GenMod
  PROVE  x % GenMod = IF x < 0 THEN x + GenMod
                      ELSE IF x >= GenMod THEN x - GenMod ELSE x
<1>1. GenMod \in Nat \ {0}
  BY UorbNodeAssumption
<1>2. CASE x < 0
  <2>1. x + GenMod \in 0..(GenMod - 1) /\ x = GenMod * (-1) + (x + GenMod)
    BY <1>1, <1>2
  <2> QED
    BY <1>1, <1>2, <2>1, ModUnique
<1>3. CASE x >= GenMod
  <2>1. x - GenMod \in 0..(GenMod - 1) /\ x = GenMod * 1 + (x - GenMod)
    BY <1>1, <1>3
  <2> QED
    BY <1>1, <1>3, <2>1, ModUnique
<1>4. CASE 0 <= x /\ x < GenMod
  <2>1. x \in 0..(GenMod - 1) /\ x = GenMod * 0 + x
    BY <1>1, <1>4
  <2> QED
    BY <1>1, <1>4, <2>1, ModUnique
<1> QED
  BY <1>1, <1>2, <1>3, <1>4

LEMMA Depth ==
  ASSUME TypeOK
  PROVE  /\ depth \in Nat \ {0} /\ depth < GenMod
         /\ GenMod \in Nat \ {0}
         /\ GenMod % depth = 0
BY UorbNodeAssumption DEF TypeOK

\* The distance between two generations.
LEMMA Distance ==
  ASSUME NEW a \in 0..(GenMod - 1), NEW b \in 0..(GenMod - 1)
  PROVE  /\ (a - b) % GenMod = IF b <= a THEN a - b ELSE a - b + GenMod
         /\ (a - b) % GenMod \in 0..(GenMod - 1)
<1>1. GenMod \in Nat \ {0}
  BY UorbNodeAssumption
<1> DEFINE x == a - b
<1>2. /\ x \in Int /\ -GenMod <= x /\ x < GenMod /\ x < GenMod + GenMod
      /\ (x < 0) <=> ~(b <= a)
  BY <1>1
<1> HIDE DEF x
<1>3. x % GenMod = IF x < 0 THEN x + GenMod ELSE x
  BY <1>1, <1>2, Wrap
<1>4. (IF x < 0 THEN x + GenMod ELSE x) \in 0..(GenMod - 1)
  BY <1>1, <1>2
<1> QED
  BY <1>2, <1>3, <1>4 DEF x

\* The next generation.
LEMMA Successor ==
  ASSUME NEW a \in 0..(GenMod - 1)
  PROVE  /\ (a + 1) % GenMod = IF a + 1 < GenMod THEN a + 1 ELSE 0
         /\ (a + 1) % GenMod \in 0..(GenMod - 1)
<1>1. GenMod \in Nat \ {0}
  BY UorbNodeAssumption
<1> DEFINE x == a + 1
<1>2. /\ x \in Int /\ -GenMod <= x /\ x < GenMod + GenMod
      /\ ~(x < 0)
      /\ x < GenMod \/ x = GenMod
  BY <1>1
<1> HIDE DEF x
<1>3. x % GenMod = IF x < GenMod THEN x ELSE 0
  BY <1>1, <1>2, Wrap
<1>4. (IF x < GenMod THEN x ELSE 0) \in 0..(GenMod - 1)
  BY <1>1, <1>2
<1> QED
  BY <1>3, <1>4 DEF x

\* A published sample moves the generation away from a subscriber's ...
LEMMA Ahead ==
  ASSUME NEW a \in 0..(GenMod - 1), NEW b \in 0..(GenMod - 1),
         (a - b) % GenMod < GenMod - 1
  PROVE  (((a + 1) % GenMod) - b) % GenMod = ((a - b) % GenMod) + 1
<1> DEFINE c == (a + 1) % GenMod
<1>1. c \in 0..(GenMod - 1) /\ c = IF a + 1 < GenMod THEN a + 1 ELSE 0
  BY Successor
<1> HIDE DEF c
<1>2. PICK n \in 0..(GenMod - 1) : n = (c - b) % GenMod
                               /\ n = IF b <= c THEN c - b ELSE c - b + GenMod
  BY <1>1, Distance
<1>3. PICK m \in 0..(GenMod - 1) : m = (a - b) % GenMod /\ m = IF b <= a THEN a - b ELSE a - b + GenMod
  BY Distance
<1>4. GenMod \in Nat \ {0} /\ m < GenMod - 1
  BY <1>3, UorbNodeAssumption
<1>5. n = m + 1
  <2>1. (IF b <= c THEN c - b ELSE c - b + GenMod)
          = (IF b <= a THEN a - b ELSE a - b + GenMod) + 1
    BY <1>1, <1>3, <1>4
  <2> QED
    BY <1>2, <1>3, <2>1
<1> QED
  BY <1>2, <1>3, <1>5 DEF c

\* ... and a copied one the subscriber's towards it.
LEMMA Closer ==
  ASSUME NEW a \in 0..(GenMod - 1), NEW b \in 0..(GenMod - 1),
         (a - b) % GenMod >= 1
  PROVE  (a - ((b + 1) % GenMod)) % GenMod = ((a - b) % GenMod) - 1
<1> DEFINE c == (b + 1) % GenMod
<1>1. c \in 0..(GenMod - 1) /\ c = IF b + 1 < GenMod THEN b + 1 ELSE 0
  BY Successor
<1> HIDE DEF c
<1>2. PICK n \in 0..(GenMod - 1) : n = (a - c) % GenMod /\ n = IF c <= a THEN a - c ELSE a - c + GenMod
  BY <1>1, Distance
<1>3. PICK m \in 0..(GenMod - 1) : m = (a - b) % GenMod /\ m = IF b <= a THEN a - b ELSE a - b + GenMod
  BY Distance
<1>4. GenMod \in Nat \ {0} /\ m >= 1
  BY <1>3, UorbNodeAssumption
<1>5. n = m - 1
  <2>1. (IF c <= a THEN a - c ELSE a - c + GenMod)
          = (IF b <= a THEN a - b ELSE a - b + GenMod) - 1
    BY <1>1, <1>3, <1>4
  <2> QED
    BY <1>2, <1>3, <2>1
<1> QED
  BY <1>2, <1>3, <1>5 DEF c

\* The generation k samples back is k away.
LEMMA Back ==
  ASSUME NEW a \in 0..(GenMod - 1), NEW k \in 0..(GenMod - 1)
  PROVE  /\ (a - k) % GenMod \in 0..(GenMod - 1)
         /\ (a - ((a - k) % GenMod)) % GenMod = k
<1> DEFINE c == (a - k) % GenMod
<1>1. c \in 0..(GenMod - 1) /\ c = IF k <= a THEN a - k ELSE a - k + GenMod
  BY Distance
<1> HIDE DEF c
<1>2. (a - c) % GenMod = IF c <= a THEN a - c ELSE a - c + GenMod
  BY <1>1, Distance
<1>3. GenMod \in Nat \ {0}
  BY UorbNodeAssumption
<1>4. (a - c) % GenMod = k
  BY <1>1, <1>2, <1>3
<1> QED
  BY <1>1, <1>4 DEF c

\* How many samples back DeviceNode::copy reads for a subscriber that is a
\* samples behind.
Behindhand(a) == IF a = 0 THEN 1 ELSE IF a <= depth THEN a ELSE depth

LEMMA Reads ==
  ASSUME TypeOK, depth # 1, NEW s \in Subscribers
  PROVE  /\ Behindhand(Available(s)) \in 1..depth
         /\ Readable(s) = (generation - Behindhand(Available(s))) % GenMod
<1> DEFINE g == generation
           l == last[s]
           avail == (g - l) % GenMod
           wanted == IF l = g THEN (l - 1) % GenMod ELSE l
           oldest == (g - depth) % GenMod
           newest == (g - 1) % GenMod
<1>1. /\ depth \in Nat \ {0, 1} /\ depth < GenMod /\ GenMod \in Nat \ {0}
      /\ g \in 0..(GenMod - 1) /\ l \in 0..(GenMod - 1)
  BY Depth DEF TypeOK
<1>2. /\ avail = (IF l <= g THEN g - l ELSE g - l + GenMod)
      /\ avail \in 0..(GenMod - 1)
  BY <1>1, Distance
<1>3. oldest = IF depth <= g THEN g - depth ELSE g - depth + GenMod
  BY <1>1, Distance
<1>4. newest = IF 1 <= g THEN g - 1 ELSE g - 1 + GenMod
  BY <1>1, Distance
<1>5. wanted = IF l = g THEN newest ELSE l
  OBVIOUS
<1>6. Readable(s) = IF InRange(oldest, wanted, newest) THEN wanted ELSE oldest
  BY DEF Readable
<1>7. Available(s) = avail
  BY DEF Available
<1> HIDE DEF g, l, avail, wanted, oldest, newest
<1>8. Behindhand(avail) \in 1..depth
  BY <1>1, <1>2 DEF Behindhand
<1>9. PICK k \in 1..depth : k = Behindhand(avail)
  BY <1>8
<1>10. (g - k) % GenMod = IF k <= g THEN g - k ELSE g - k + GenMod
  BY <1>1, Distance
<1>11. Readable(s) = (g - k) % GenMod
  <2>1. CASE avail = 0
    <3>1. l = g /\ wanted = newest /\ k = 1
      BY <1>1, <1>2, <1>5, <1>9, <2>1 DEF Behindhand
    <3>2. InRange(oldest, newest, newest)
      BY <1>1, <1>3, <1>4 DEF InRange
    <3> QED
      BY <1>4, <1>6, <1>10, <3>1, <3>2
  <2>2. CASE avail # 0 /\ avail <= depth
    <3>1. l # g /\ wanted = l /\ k = avail
      BY <1>1, <1>2, <1>5, <1>9, <2>2 DEF Behindhand
    <3>2. InRange(oldest, l, newest)
      BY <1>1, <1>2, <1>3, <1>4, <2>2 DEF InRange
    <3>3. (g - k) % GenMod = l
      BY <1>1, <1>2, <1>10, <2>2, <3>1
    <3> QED
      BY <1>6, <3>1, <3>2, <3>3
  <2>3. CASE depth < avail
    <3>1. l # g /\ wanted = l /\ k = depth
      BY <1>1, <1>2, <1>5, <1>9, <2>3 DEF Behindhand
    <3>2. ~InRange(oldest, l, newest)
      BY <1>1, <1>2, <1>3, <1>4, <2>3 DEF InRange
    <3> QED
      BY <1>3, <1>6, <1>10, <3>1, <3>2
  <2> QED
    BY <1>1, <1>2, <2>1, <2>2, <2>3
<1> QED
  BY <1>7, <1>8, <1>9, <1>11 DEF g

\* A published sample goes to a slot of its own; the others keep theirs.
LEMMA SlotStep ==
  ASSUME TypeOK, NEW k \in 1..depth
  PROVE  /\ Slot(k) \in 0..(depth - 1)
         /\ generation % depth \in 0..(depth - 1)
         /\ k < depth => Slot(k) # generation % depth
<1>1. /\ depth \in Nat \ {0} /\ depth < GenMod /\ GenMod \in Nat \ {0}
      /\ generation \in 0..(GenMod - 1) /\ GenMod % depth = 0
  BY Depth DEF TypeOK
<1> DEFINE c == (generation - k) % GenMod
<1>2. /\ c \in 0..(GenMod - 1)
      /\ c = IF k <= generation THEN generation - k ELSE generation - k + GenMod
  BY <1>1, Distance
<1> HIDE DEF c
<1>3. c % depth = (generation - k) % depth
  <2>1. PICK m \in Int : GenMod = depth * m
    <3>0. GenMod \in Int
      BY <1>1
    <3>1. PICK m \in Int : GenMod = depth * m + (GenMod % depth)
      BY <1>1, <3>0, ModWitness
    <3> QED
      BY <1>1, <3>1
  <2>2. generation - k \in Int
    BY <1>1
  <2>3. (generation - k + depth * m) % depth = (generation - k) % depth
    BY <1>1, <2>2, ModShift
  <2> QED
    BY <1>2, <2>1, <2>3
<1>4. Slot(k) = c % depth
  BY DEF Slot, c
<1>5. c % depth \in 0..(depth - 1)
  BY <1>1, <1>2, ModWitness
<1>6. generation % depth \in 0..(depth - 1)
  BY <1>1, ModWitness
<1>7. ASSUME k < depth PROVE (generation - k) % depth # generation % depth
  <2>1. k \in 1..(depth - 1) /\ generation \in Int
    BY <1>1, <1>7
  <2> QED
    BY <1>1, <2>1, ModDiffer
<1> QED
  BY <1>3, <1>4, <1>5, <1>6, <1>7

-----------------------------------------------------------------------------
(* What a step does to a subscriber's position.                            *)

LEMMA AvailableType ==
  ASSUME TypeOK, NEW s \in Subscribers
  PROVE  Available(s) \in 0..(GenMod - 1) /\ Available(s) \in Nat
<1>1. Available(s) \in 0..(GenMod - 1)
  BY Distance DEF TypeOK, Available
<1>2. GenMod \in Nat
  BY UorbNodeAssumption
<1> QED
  BY <1>1, <1>2

LEMMA CopyFacts ==
  ASSUME TypeOK, NEW s \in Subscribers, Copy(s)
  PROVE  /\ Behindhand(Available(s)) \in 1..depth
         /\ spc[s] = "copy"
         /\ last' \in [Subscribers -> 0..(GenMod - 1)]
         /\ spc' \in [Subscribers -> {"idle", "run", "update", "copy", "inc"}]
         /\ spc'[s] \in {"update", "inc"}
         /\ \A t \in Subscribers \ {s} : last'[t] = last[t] /\ spc'[t] = spc[t]
         /\ Unread(s)' = Behindhand(Available(s)) - 1
         /\ got' = [got EXCEPT ![s] = ring[Slot(Behindhand(Available(s)))]]
<1> DEFINE k == Behindhand(Available(s))
<1>1. /\ depth \in Nat \ {0} /\ depth < GenMod /\ GenMod \in Nat \ {0}
      /\ generation \in 0..(GenMod - 1)
      /\ Available(s) \in 0..(GenMod - 1)
  BY Depth, AvailableType DEF TypeOK
<1>2. spc[s] = "copy" /\ generation' = generation
  BY DEF Copy, Step, node
<1>3. CASE depth = 1
  <2>1. k = 1 /\ k \in 1..depth
    BY <1>1, <1>3 DEF Behindhand
  <2> HIDE DEF k
  <2>2. Slot(1) = 0
    <3>1. Slot(1) \in 0..(depth - 1)
      BY <1>1, SlotStep
    <3> QED
      BY <1>3, <3>1
  <2>3. /\ spc' = [spc EXCEPT ![s] = "update"]
        /\ last' = [last EXCEPT ![s] = generation]
        /\ got' = [got EXCEPT ![s] = ring[0]]
    BY <1>3 DEF Copy, Step
  <2>4. last'[s] = generation /\ spc'[s] = "update"
    BY <2>3 DEF TypeOK
  <2>5. (generation - generation) % GenMod = 0
    BY <1>1, Distance
  <2>6. Unread(s)' = 0
    BY <1>2, <2>4, <2>5 DEF Unread, Available
  <2>7. Unread(s)' = k - 1 /\ ring[0] = ring[Slot(k)]
    BY <2>1, <2>2, <2>6
  <2>8. last' \in [Subscribers -> 0..(GenMod - 1)]
    BY <1>1, <2>3 DEF TypeOK
  <2> QED
    BY <1>2, <2>1, <2>3, <2>4, <2>7, <2>8 DEF TypeOK, k
<1>4. CASE depth # 1
  <2>1. k \in 1..depth /\ Readable(s) = (generation - k) % GenMod
    BY <1>4, Reads
  <2> HIDE DEF k
  <2>2. k \in 0..(GenMod - 1)
    BY <1>1, <2>1
  <2>3. /\ Readable(s) \in 0..(GenMod - 1)
        /\ (generation - Readable(s)) % GenMod = k
    BY <1>1, <2>1, <2>2, Back
  <2>4. /\ spc' = [spc EXCEPT ![s] = "inc"]
        /\ last' = [last EXCEPT ![s] = Readable(s)]
        /\ got' = [got EXCEPT ![s] = ring[Readable(s) % depth]]
    BY <1>4 DEF Copy, Step
  <2>5. last'[s] = Readable(s) /\ spc'[s] = "inc"
    BY <2>4 DEF TypeOK
  <2>6. Unread(s)' = k - 1
    BY <1>2, <2>3, <2>5 DEF Unread, Available
  <2>7. ring[Readable(s) % depth] = ring[Slot(k)]
    BY <2>1 DEF Slot
  <2> QED
    BY <1>2, <2>1, <2>3, <2>4, <2>5, <2>6, <2>7 DEF TypeOK, k
<1> QED
  BY <1>3, <1>4

LEMMA IncrementFacts ==
  ASSUME TypeOK, UnreadInv, NEW s \in subscribed, Increment(s)
  PROVE  /\ last' \in [Subscribers -> 0..(GenMod - 1)]
         /\ \A t \in Subscribers \ {s} : last'[t] = last[t] /\ spc'[t] = spc[t]
         /\ Unread(s)' = Unread(s)
<1>1. /\ spc[s] = "inc" /\ generation' = generation /\ s \in Subscribers
      /\ spc' = [spc EXCEPT ![s] = "update"]
      /\ last' = [last EXCEPT ![s] = (last[s] + 1) % GenMod]
  BY DEF Increment, Step, node, TypeOK
<1>2. last'[s] = (last[s] + 1) % GenMod /\ spc'[s] = "update"
  BY <1>1 DEF TypeOK
<1>3. generation \in 0..(GenMod - 1) /\ last[s] \in 0..(GenMod - 1)
  BY <1>1 DEF TypeOK
<1>4. (last[s] + 1) % GenMod \in 0..(GenMod - 1)
  BY <1>3, Successor
<1>5. Available(s) >= 1
  <2>1. Available(s) \in 0..(GenMod - 1)
    BY <1>1, AvailableType
  <2>2. Available(s) - 1 >= 0
    BY <1>1 DEF UnreadInv, Unread
  <2>3. GenMod \in Nat
    BY UorbNodeAssumption
  <2> QED
    BY <2>1, <2>2, <2>3
<1>6. (generation - ((last[s] + 1) % GenMod)) % GenMod = Available(s) - 1
  BY <1>3, <1>5, Closer DEF Available
<1>7. Unread(s)' = Available(s) - 1
  <2>1. Available(s)' = Available(s) - 1
    BY <1>1, <1>2, <1>6 DEF Available
  <2>2. Available(s) - 1 \in Int
    BY <1>5, <1>1, AvailableType
  <2> QED
    BY <1>2, <2>1, <2>2 DEF Unread
<1>8. Unread(s) = Available(s) - 1
  BY <1>1 DEF Unread
<1> QED
  BY <1>1, <1>4, <1>7, <1>8 DEF TypeOK

LEMMA WriteFacts ==
  ASSUME TypeOK, NEW p \in Publishers, Write(p)
  PROVE  /\ generation' \in 0..(GenMod - 1)
         /\ \A s \in subscribed : Unread(s)' = Unread(s) + 1
<1>1. generation \in 0..(GenMod - 1) /\ generation' = (generation + 1) % GenMod
  BY DEF Write, TypeOK
<1>2. generation' \in 0..(GenMod - 1)
  BY <1>1, Successor
<1>3. ASSUME NEW s \in subscribed PROVE Unread(s)' = Unread(s) + 1
  <2>1. s \in Subscribers /\ last[s] \in 0..(GenMod - 1) /\ last' = last /\ spc' = spc
    BY DEF TypeOK, Write, subscriber
  <2>2. (generation - last[s]) % GenMod < GenMod - 1
    BY DEF Write, NoLap, Available
  <2>3. Available(s)' = Available(s) + 1
    BY <1>1, <2>1, <2>2, Ahead DEF Available
  <2>4. Available(s) \in Int
    BY <2>1, AvailableType
  <2> QED
    BY <2>1, <2>3, <2>4 DEF Unread
<1> QED
  BY <1>2, <1>3

LEMMA SubscribeFacts ==
  ASSUME TypeOK, ValidInv, NEW s \in Subscribers, Subscribe(s), spc[s] = "idle"
  PROVE  /\ last' \in [Subscribers -> 0..(GenMod - 1)]
         /\ \A t \in Subscribers \ {s} : last'[t] = last[t]
         /\ Unread(s)' = IF count = 0 THEN 0 ELSE 1
<1> DEFINE k == IF valid THEN 1 ELSE 0
<1>1. /\ spc' = spc /\ generation' = generation
      /\ last' = [last EXCEPT ![s] = (generation - k) % GenMod]
      /\ owner = None
  BY DEF Subscribe, node
<1>2. k = IF count = 0 THEN 0 ELSE 1
  BY <1>1 DEF ValidInv, TypeOK
<1>3. k \in 0..(GenMod - 1)
  <2>1. depth \in Nat \ {0} /\ depth < GenMod /\ GenMod \in Nat
    BY Depth
  <2> QED
    BY <2>1
<1> HIDE DEF k
<1>4. /\ (generation - k) % GenMod \in 0..(GenMod - 1)
      /\ (generation - ((generation - k) % GenMod)) % GenMod = k
  BY <1>3, Back DEF TypeOK
<1>5. last'[s] = (generation - k) % GenMod
  BY <1>1 DEF TypeOK
<1>6. Unread(s)' = k
  BY <1>1, <1>3, <1>4, <1>5 DEF Unread, Available
<1> QED
  BY <1>1, <1>2, <1>4, <1>6 DEF TypeOK

-----------------------------------------------------------------------------
(* One lemma per conjunct of the invariant, one step per action.           *)

LEMMA InitIInv == Init => IInv
<1> SUFFICES ASSUME Init PROVE IInv
  OBVIOUS
<1>1. TypeOK
  <2>1. 0 \in 0..(GenMod - 1)
    BY UorbNodeAssumption
  <2>2. ring \in [0..(depth - 1) -> Nat]
    BY DEF Init
  <2>3. /\ last \in [Subscribers -> 0..(GenMod - 1)]
        /\ got \in [Subscribers -> Nat] /\ since \in [Subscribers -> Nat]
        /\ ppc \in [Publishers -> {"idle", "alloc", "write", "callbacks"}]
        /\ spc \in [Subscribers -> {"idle", "run", "update", "copy", "inc"}]
    BY <2>1 DEF Init
  <2> QED
    BY <2>1, <2>2, <2>3 DEF Init, TypeOK
<1>2. NodeInv /\ ValidInv /\ SubscribedInv /\ UnreadInv /\ NoMissedWakeup
  BY DEF Init, NodeInv, ValidInv, SubscribedInv, UnreadInv, NoMissedWakeup
<1>3. RingInv
  BY <1>1 DEF Init, RingInv, TypeOK
<1> QED
  BY <1>1, <1>2, <1>3 DEF IInv

LEMMA TypeStep == IInv /\ [Next]_vars => TypeOK'
<1> SUFFICES ASSUME IInv, [Next]_vars PROVE TypeOK'
  OBVIOUS
<1> USE DEF TypeOK, node, publisher, subscriber
<1>0. TypeOK /\ ValidInv /\ SubscribedInv /\ UnreadInv
  BY DEF IInv
<1>1. CASE Advertise
  BY <1>0, <1>1 DEF Advertise
<1>2. ASSUME NEW p \in Publishers, Publish(p) PROVE TypeOK'
  BY <1>0, <1>2 DEF Publish
<1>3. ASSUME NEW p \in Publishers, Allocate(p) PROVE TypeOK'
  BY <1>0, <1>3 DEF Allocate
<1>4. ASSUME NEW p \in Publishers, Write(p) PROVE TypeOK'
  <2>1. generation' \in 0..(GenMod - 1)
    BY <1>0, <1>4, WriteFacts
  <2>2. ring' \in [0..(depth' - 1) -> Nat]
    <3>1. /\ ring' = [ring EXCEPT ![generation % depth] = count + 1]
          /\ depth' = depth
      BY <1>4 DEF Write
    <3>2. count + 1 \in Nat /\ ring \in [0..(depth - 1) -> Nat]
      BY <1>0
    <3> HIDE DEF TypeOK
    <3> QED
      BY <3>1, <3>2
  <2>3. todo' \in SUBSET Subscribers /\ ppc' \in [Publishers -> {"idle", "alloc", "write", "callbacks"}]
    BY <1>0, <1>4 DEF Write
  <2> QED
    BY <1>0, <1>4, <2>1, <2>2, <2>3 DEF Write
<1>5. ASSUME NEW p \in Publishers, NEW s \in Subscribers, Call(p, s) PROVE TypeOK'
  BY <1>0, <1>5 DEF Call
<1>6. ASSUME NEW p \in Publishers, Written(p) PROVE TypeOK'
  BY <1>0, <1>6 DEF Written
<1>7. ASSUME NEW s \in Subscribers, Subscribe(s) PROVE TypeOK'
  <2>1. last' \in [Subscribers -> 0..(GenMod - 1)]
    BY <1>0, <1>7, SubscribeFacts DEF Subscribe, SubscribedInv
  <2> QED
    BY <1>0, <1>7, <2>1 DEF Subscribe
<1>8. ASSUME NEW s \in Subscribers, Register(s) PROVE TypeOK'
  BY <1>0, <1>8 DEF Register
<1>9. ASSUME NEW s \in Subscribers, Unregister(s) PROVE TypeOK'
  BY <1>0, <1>9 DEF Unregister
<1>10. ASSUME NEW s \in Subscribers, Run(s) \/ Poll(s) \/ CopyLast(s) \/ Return(s)
       PROVE  TypeOK'
  BY <1>0, <1>10 DEF Run, Poll, CopyLast, Return, Step
<1>11. ASSUME NEW s \in Subscribers, Update(s) PROVE TypeOK'
  BY <1>0, <1>11 DEF Update, Step
<1>12. ASSUME NEW s \in Subscribers, Copy(s) PROVE TypeOK'
  <2>1. /\ last' \in [Subscribers -> 0..(GenMod - 1)]
        /\ spc' \in [Subscribers -> {"idle", "run", "update", "copy", "inc"}]
        /\ Behindhand(Available(s)) \in 1..depth
        /\ got' = [got EXCEPT ![s] = ring[Slot(Behindhand(Available(s)))]]
    BY <1>0, <1>12, CopyFacts
  <2>2. Slot(Behindhand(Available(s))) \in 0..(depth - 1)
    BY <1>0, <2>1, SlotStep
  <2>3. got' \in [Subscribers -> Nat]
    BY <1>0, <2>1, <2>2
  <2> QED
    BY <1>0, <1>12, <2>1, <2>3 DEF Copy
<1>13. ASSUME NEW s \in Subscribers, Increment(s) PROVE TypeOK'
  <2>1. s \in subscribed
    BY <1>0, <1>13 DEF SubscribedInv, Increment, Step
  <2>2. last' \in [Subscribers -> 0..(GenMod - 1)]
    BY <1>0, <1>13, <2>1, IncrementFacts
  <2> QED
    BY <1>0, <1>13, <2>2 DEF Increment, Step
<1>14. CASE UNCHANGED vars
  BY <1>0, <1>14 DEF vars
<1> QED
  BY <1>1, <1>2, <1>3, <1>4, <1>5, <1>6, <1>7, <1>8, <1>9, <1>10, <1>11, <1>12,
     <1>13, <1>14 DEF Next, PublisherStep, SubscriberStep

LEMMA NodeStep == IInv /\ [Next]_vars => NodeInv'
<1> SUFFICES ASSUME IInv, [Next]_vars PROVE NodeInv'
  OBVIOUS
<1> USE DEF NodeInv, node, publisher, subscriber
<1>0. TypeOK /\ NodeInv
  BY DEF IInv
<1>1. CASE Advertise
  BY <1>0, <1>1 DEF Advertise, TypeOK
<1>2. ASSUME NEW p \in Publishers, Publish(p) PROVE NodeInv'
  BY <1>0, <1>2 DEF Publish, TypeOK
<1>3. ASSUME NEW p \in Publishers, Allocate(p) PROVE NodeInv'
  BY <1>0, <1>3 DEF Allocate, TypeOK
<1>4. ASSUME NEW p \in Publishers, Write(p) PROVE NodeInv'
  BY <1>0, <1>4 DEF Write, TypeOK
<1>5. ASSUME NEW p \in Publishers, NEW s \in Subscribers, Call(p, s) PROVE NodeInv'
  BY <1>0, <1>5 DEF Call
<1>6. ASSUME NEW p \in Publishers, Written(p) PROVE NodeInv'
  BY <1>0, <1>6 DEF Written, TypeOK
<1>7. ASSUME NEW s \in Subscribers, Subscribe(s) \/ Register(s) \/ Unregister(s)
      PROVE  NodeInv'
  BY <1>0, <1>7 DEF Subscribe, Register, Unregister
<1>8. ASSUME NEW s \in Subscribers, Run(s) \/ Poll(s) \/ CopyLast(s) \/ Return(s)
      PROVE  NodeInv'
  BY <1>0, <1>8 DEF Run, Poll, CopyLast, Return
<1>9. ASSUME NEW s \in Subscribers, SubscriberStep(s) PROVE NodeInv'
  BY <1>0, <1>9 DEF SubscriberStep, Update, Copy, Increment
<1>10. CASE UNCHANGED vars
  BY <1>0, <1>10 DEF vars
<1> QED
  BY <1>1, <1>2, <1>3, <1>4, <1>5, <1>6, <1>7, <1>8, <1>9, <1>10
  DEF Next, PublisherStep

LEMMA ValidStep == IInv /\ [Next]_vars => ValidInv'
<1> SUFFICES ASSUME IInv, [Next]_vars PROVE ValidInv'
  OBVIOUS
<1> USE DEF ValidInv, node, publisher, subscriber
<1>0. TypeOK /\ ValidInv
  BY DEF IInv
<1>1. CASE Advertise
  BY <1>0, <1>1 DEF Advertise
<1>2. ASSUME NEW p \in Publishers, Publish(p) PROVE ValidInv'
  BY <1>0, <1>2 DEF Publish
<1>3. ASSUME NEW p \in Publishers, Allocate(p) PROVE ValidInv'
  BY <1>0, <1>3 DEF Allocate
<1>4. ASSUME NEW p \in Publishers, Write(p) PROVE ValidInv'
  <2>1. owner' # None /\ count' >= 1
    BY <1>0, <1>4, UorbNodeAssumption DEF Write, TypeOK
  <2> QED
    BY <2>1
<1>5. ASSUME NEW p \in Publishers, NEW s \in Subscribers, Call(p, s) PROVE ValidInv'
  BY <1>0, <1>5 DEF Call
<1>6. ASSUME NEW p \in Publishers, Written(p) PROVE ValidInv'
  BY <1>0, <1>6, UorbNodeAssumption DEF Written
<1>7. ASSUME NEW s \in Subscribers, Subscribe(s) \/ Register(s) \/ Unregister(s)
      PROVE  ValidInv'
  BY <1>0, <1>7 DEF Subscribe, Register, Unregister
<1>8. ASSUME NEW s \in Subscribers, Run(s) \/ Poll(s) \/ CopyLast(s) \/ Return(s)
      PROVE  ValidInv'
  BY <1>0, <1>8 DEF Run, Poll, CopyLast, Return
<1>9. ASSUME NEW s \in Subscribers, SubscriberStep(s) PROVE ValidInv'
  BY <1>0, <1>9 DEF SubscriberStep, Update, Copy, Increment
<1>10. CASE UNCHANGED vars
  BY <1>0, <1>10 DEF vars
<1> QED
  BY <1>1, <1>2, <1>3, <1>4, <1>5, <1>6, <1>7, <1>8, <1>9, <1>10
  DEF Next, PublisherStep

LEMMA SubscribedStep == IInv /\ [Next]_vars => SubscribedInv'
<1> SUFFICES ASSUME IInv, [Next]_vars, NEW s \in Subscribers, s \notin subscribed'
             PROVE  spc'[s] = "idle" /\ s \notin scheduled' /\ s \notin todo'
  BY DEF SubscribedInv
<1> USE DEF SubscribedInv, node, publisher, subscriber
<1> DEFINE Goal == spc'[s] = "idle" /\ s \notin scheduled' /\ s \notin todo'
<1>0. TypeOK /\ SubscribedInv
  BY DEF IInv
<1>1. CASE Advertise
  BY <1>0, <1>1 DEF Advertise
<1>2. ASSUME NEW p \in Publishers, Publish(p) \/ Allocate(p) \/ Written(p) PROVE Goal
  BY <1>0, <1>2 DEF Publish, Allocate, Written
<1>3. ASSUME NEW p \in Publishers, Write(p) PROVE Goal
  BY <1>0, <1>3 DEF Write, TypeOK
<1>4. ASSUME NEW p \in Publishers, NEW t \in Subscribers, Call(p, t) PROVE Goal
  BY <1>0, <1>4 DEF Call
<1>5. ASSUME NEW t \in Subscribers, Subscribe(t) \/ Register(t) \/ Unregister(t)
      PROVE  Goal
  BY <1>0, <1>5 DEF Subscribe, Register, Unregister
<1>6. ASSUME NEW t \in Subscribers, Run(t) \/ Poll(t) \/ CopyLast(t) \/ Return(t)
      PROVE  Goal
  BY <1>0, <1>6 DEF Run, Poll, CopyLast, Return, Step, TypeOK
<1>7. ASSUME NEW t \in Subscribers, Update(t) \/ Increment(t) PROVE Goal
  BY <1>0, <1>7 DEF Update, Increment, Step, TypeOK
<1>8. ASSUME NEW t \in Subscribers, Copy(t) PROVE Goal
  <2>1. spc[t] = "copy" /\ \A u \in Subscribers \ {t} : spc'[u] = spc[u]
    BY <1>0, <1>8, CopyFacts
  <2> QED
    BY <1>0, <1>8, <2>1 DEF Copy
<1>9. CASE UNCHANGED vars
  BY <1>0, <1>9 DEF vars
<1> QED
  BY <1>1, <1>2, <1>3, <1>4, <1>5, <1>6, <1>7, <1>8, <1>9
  DEF Next, PublisherStep, SubscriberStep

\* A step that moves neither the node nor a subscriber's generation, nor a
\* subscriber into or out of "inc", keeps what is unread.
LEMMA UnreadSame ==
  ASSUME NEW s \in Subscribers, generation' = generation, last'[s] = last[s],
         (spc'[s] = "inc") <=> (spc[s] = "inc")
  PROVE  Unread(s)' = Unread(s)
BY DEF Unread, Available

LEMMA UnreadStep == IInv /\ [Next]_vars => UnreadInv'
<1> SUFFICES ASSUME IInv, [Next]_vars, NEW s \in subscribed'
             PROVE  0 <= Unread(s)' /\ Unread(s)' <= count'
  BY DEF UnreadInv
<1> DEFINE Goal == 0 <= Unread(s)' /\ Unread(s)' <= count'
<1>0. TypeOK /\ TypeOK' /\ ValidInv /\ SubscribedInv /\ UnreadInv
  BY TypeStep DEF IInv
<1>1. s \in Subscribers /\ count \in Nat
  BY <1>0 DEF TypeOK
<1>2. ASSUME s \in subscribed, Unread(s)' = Unread(s), count' = count PROVE Goal
  BY <1>0, <1>2 DEF UnreadInv
<1>3. CASE UNCHANGED <<generation, last, spc, subscribed, count>>
  BY <1>1, <1>2, <1>3, UnreadSame
<1>4. ASSUME NEW p \in Publishers, Write(p) PROVE Goal
  <2>1. s \in subscribed /\ count' = count + 1
    BY <1>4 DEF Write, subscriber
  <2>2. Unread(s)' = Unread(s) + 1
    BY <1>0, <1>4, <2>1, WriteFacts
  <2>3. Unread(s) \in Int
    BY <1>0, <1>1, AvailableType DEF Unread
  <2> QED
    BY <1>0, <1>1, <2>1, <2>2, <2>3 DEF UnreadInv
<1>5. ASSUME NEW t \in Subscribers, Subscribe(t) PROVE Goal
  <2>1. /\ subscribed' = subscribed \cup {t} /\ t \notin subscribed
        /\ generation' = generation /\ spc' = spc /\ count' = count
    BY <1>5 DEF Subscribe, node
  <2>2. spc[t] = "idle"
    BY <1>0, <2>1 DEF SubscribedInv
  <2>3. /\ \A u \in Subscribers \ {t} : last'[u] = last[u]
        /\ Unread(t)' = IF count = 0 THEN 0 ELSE 1
    BY <1>0, <1>5, <2>2, SubscribeFacts
  <2>4. CASE s = t
    BY <1>1, <2>1, <2>3, <2>4
  <2>5. CASE s # t
    <3>1. s \in subscribed /\ last'[s] = last[s]
      BY <1>1, <2>1, <2>3, <2>5
    <3>2. Unread(s)' = Unread(s)
      BY <1>1, <2>1, <3>1, UnreadSame
    <3> QED
      BY <1>2, <2>1, <3>1, <3>2
  <2> QED
    BY <2>4, <2>5
<1>6. ASSUME NEW t \in Subscribers,
             Run(t) \/ Poll(t) \/ CopyLast(t) \/ Return(t) \/ Update(t)
      PROVE  Goal
  <2>1. /\ generation' = generation /\ last' = last /\ count' = count
        /\ subscribed' = subscribed
    BY <1>6 DEF Run, Poll, CopyLast, Return, Update, node
  <2>2. (spc'[s] = "inc") <=> (spc[s] = "inc")
    BY <1>0, <1>1, <1>6 DEF Run, Poll, CopyLast, Return, Update, Step, TypeOK
  <2>3. Unread(s)' = Unread(s)
    BY <1>1, <2>1, <2>2, UnreadSame
  <2> QED
    BY <1>2, <2>1, <2>3
<1>7. ASSUME NEW t \in Subscribers, Copy(t) PROVE Goal
  <2>1. /\ generation' = generation /\ count' = count /\ subscribed' = subscribed
    BY <1>7 DEF Copy, node
  <2>2. /\ Behindhand(Available(t)) \in 1..depth
        /\ spc[t] = "copy"
        /\ \A u \in Subscribers \ {t} : last'[u] = last[u] /\ spc'[u] = spc[u]
        /\ Unread(t)' = Behindhand(Available(t)) - 1
    BY <1>0, <1>7, CopyFacts
  <2>3. CASE s = t
    <3>1. Unread(t) = Available(t) /\ Available(t) \in 0..(GenMod - 1)
      BY <1>0, <2>2, AvailableType DEF Unread
    <3>2. 0 <= Available(t) /\ Available(t) <= count
      BY <1>0, <2>1, <2>3, <3>1 DEF UnreadInv
    <3>3. PICK a \in Int : a = Available(t)
      BY <3>1, Depth, <1>0
    <3>4. Behindhand(a) \in 1..depth /\ Unread(t)' = Behindhand(a) - 1
      BY <2>2, <3>3
    <3>5. Behindhand(a) - 1 <= a
      BY <3>2, <3>3, <3>4, <1>0, Depth DEF Behindhand
    <3> QED
      BY <1>0, <1>1, <2>1, <2>3, <3>2, <3>3, <3>4, <3>5, Depth
  <2>4. CASE s # t
    <3>1. s \in subscribed /\ last'[s] = last[s] /\ spc'[s] = spc[s]
      BY <1>1, <2>1, <2>2, <2>4
    <3>2. Unread(s)' = Unread(s)
      BY <1>1, <2>1, <3>1, UnreadSame
    <3> QED
      BY <1>2, <2>1, <3>1, <3>2
  <2> QED
    BY <2>3, <2>4
<1>8. ASSUME NEW t \in Subscribers, Increment(t) PROVE Goal
  <2>1. generation' = generation /\ count' = count /\ subscribed' = subscribed
    BY <1>8 DEF Increment, node
  <2>2. t \in subscribed
    BY <1>0, <1>8 DEF SubscribedInv, Increment, Step
  <2>3. /\ \A u \in Subscribers \ {t} : last'[u] = last[u] /\ spc'[u] = spc[u]
        /\ Unread(t)' = Unread(t)
    BY <1>0, <1>8, <2>2, IncrementFacts
  <2>4. Unread(s)' = Unread(s)
    <3>1. CASE s = t
      BY <2>3, <3>1
    <3>2. CASE s # t
      BY <1>1, <2>1, <2>3, <3>2, UnreadSame
    <3> QED
      BY <3>1, <3>2
  <2> QED
    BY <1>2, <2>1, <2>4
<1>9. CASE UNCHANGED vars
  BY <1>3, <1>9 DEF vars, node, subscriber
<1>10. CASE Advertise
  BY <1>3, <1>10 DEF Advertise, subscriber
<1>11. ASSUME NEW p \in Publishers, Publish(p) \/ Allocate(p) \/ Written(p) PROVE Goal
  BY <1>3, <1>11 DEF Publish, Allocate, Written, node, subscriber
<1>12. ASSUME NEW p \in Publishers, NEW t \in Subscribers, Call(p, t) PROVE Goal
  BY <1>3, <1>12 DEF Call, node, subscriber
<1>13. ASSUME NEW t \in Subscribers, Register(t) \/ Unregister(t) PROVE Goal
  BY <1>3, <1>13 DEF Register, Unregister, subscriber
<1> QED
  BY <1>4, <1>5, <1>6, <1>7, <1>8, <1>9, <1>10, <1>11, <1>12, <1>13
  DEF Next, PublisherStep, SubscriberStep

LEMMA RingStep == IInv /\ [Next]_vars => RingInv'
<1> SUFFICES ASSUME IInv, [Next]_vars PROVE RingInv'
  OBVIOUS
<1>0. TypeOK /\ NodeInv /\ RingInv
  BY DEF IInv
<1>1. CASE UNCHANGED <<depth, ring, generation, count>>
  BY <1>0, <1>1 DEF RingInv, Slot
<1>2. ASSUME NEW p \in Publishers, Allocate(p) PROVE RingInv'
  <2>1. CASE allocated
    BY <1>1, <1>2, <2>1 DEF Allocate
  <2>2. CASE ~allocated
    <3>1. count' = 0
      BY <1>0, <1>2, <2>2 DEF NodeInv, Allocate, TypeOK
    <3>2. \A i \in 0..(depth' - 1) : ring'[i] = 0
      BY <1>2, <2>2 DEF Allocate
    <3>3. \A k \in 1..depth' : ~(k <= count')
      BY <3>1
    <3> QED
      BY <3>2, <3>3 DEF RingInv
  <2> QED
    BY <2>1, <2>2
<1>3. ASSUME NEW p \in Publishers, Write(p) PROVE RingInv'
  <2>1. /\ generation' = (generation + 1) % GenMod
        /\ ring' = [ring EXCEPT ![generation % depth] = count + 1]
        /\ count' = count + 1 /\ depth' = depth
    BY <1>3 DEF Write
  <2>2. /\ depth \in Nat \ {0} /\ depth < GenMod /\ GenMod \in Nat \ {0}
        /\ generation \in 0..(GenMod - 1) /\ count \in Nat
        /\ ring \in [0..(depth - 1) -> Nat]
    BY <1>0, Depth DEF TypeOK
  <2>3. ASSUME NEW k \in 1..depth, k <= count'
        PROVE  ring'[Slot(k)'] = count' - k + 1
    <3>1. CASE k = 1
      <4>1. (generation' - 1) % GenMod = generation
        <5>1. /\ generation' \in 0..(GenMod - 1)
              /\ generation' = IF generation + 1 < GenMod THEN generation + 1 ELSE 0
          BY <2>1, <2>2, Successor
        <5>2. 1 \in 0..(GenMod - 1)
          BY <2>2
        <5>3. (generation' - 1) % GenMod =
                IF 1 <= generation' THEN generation' - 1 ELSE generation' - 1 + GenMod
          BY <5>1, <5>2, Distance
        <5> QED
          BY <2>2, <5>1, <5>3
      <4>2. Slot(k)' = generation % depth
        BY <2>1, <3>1, <4>1 DEF Slot
      <4>3. generation % depth \in 0..(depth - 1)
        BY <1>0, SlotStep
      <4>4. ring'[generation % depth] = count + 1
        BY <2>1, <2>2, <4>3
      <4>5. count' - k + 1 = count + 1
        BY <2>1, <2>2, <3>1
      <4> QED
        BY <4>2, <4>4, <4>5
    <3>2. CASE k > 1
      <4>1. PICK j \in 1..depth : j = k - 1 /\ j < depth /\ j <= count
        BY <2>1, <2>2, <2>3, <3>2
      <4>2. (generation' - k) % GenMod = (generation - j) % GenMod
        <5>1. /\ generation' \in 0..(GenMod - 1)
              /\ generation' = IF generation + 1 < GenMod THEN generation + 1 ELSE 0
          BY <2>1, <2>2, Successor
        <5>2. k \in 0..(GenMod - 1) /\ j \in 0..(GenMod - 1)
          BY <2>2, <4>1
        <5>3. (generation' - k) % GenMod =
                IF k <= generation' THEN generation' - k ELSE generation' - k + GenMod
          BY <5>1, <5>2, Distance
        <5>4. (generation - j) % GenMod =
                IF j <= generation THEN generation - j ELSE generation - j + GenMod
          BY <2>2, <5>2, Distance
        <5> QED
          BY <2>2, <4>1, <5>1, <5>2, <5>3, <5>4
      <4>3. Slot(k)' = Slot(j)
        BY <2>1, <4>2 DEF Slot
      <4>4. Slot(j) \in 0..(depth - 1) /\ Slot(j) # generation % depth
        BY <1>0, <4>1, SlotStep
      <4>5. ring'[Slot(j)] = ring[Slot(j)]
        BY <2>1, <2>2, <4>4
      <4>6. ring[Slot(j)] = count - j + 1
        BY <1>0, <4>1 DEF RingInv
      <4>7. count - j + 1 = count' - k + 1
        BY <2>1, <2>2, <4>1
      <4> QED
        BY <4>3, <4>5, <4>6, <4>7
    <3> QED
      BY <3>1, <3>2, <2>2
  <2>4. count' # 0
    BY <2>1, <2>2
  <2> QED
    BY <2>1, <2>3, <2>4 DEF RingInv
<1>4. ASSUME NEW p \in Publishers, NEW s \in Subscribers, Call(p, s) PROVE RingInv'
  BY <1>1, <1>4 DEF Call, node
<1>5. ASSUME NEW p \in Publishers, Publish(p) \/ Written(p) PROVE RingInv'
  BY <1>1, <1>5 DEF Publish, Written, node
<1>6. ASSUME NEW s \in Subscribers, Subscribe(s) \/ Register(s) \/ Unregister(s)
      PROVE  RingInv'
  BY <1>1, <1>6 DEF Subscribe, Register, Unregister, node
<1>7. ASSUME NEW s \in Subscribers, Run(s) \/ Poll(s) \/ CopyLast(s) \/ Return(s)
      PROVE  RingInv'
  BY <1>1, <1>7 DEF Run, Poll, CopyLast, Return, node
<1>8. ASSUME NEW s \in Subscribers, SubscriberStep(s) PROVE RingInv'
  BY <1>1, <1>8 DEF SubscriberStep, Update, Copy, Increment, node
<1>9. CASE Advertise \/ UNCHANGED vars
  BY <1>1, <1>9 DEF Advertise, vars, node
<1> QED
  BY <1>2, <1>3, <1>4, <1>5, <1>6, <1>7, <1>8, <1>9 DEF Next, PublisherStep

\* A registered subscriber that the invariant is about.
Waiting(s) ==
  /\ spc[s] \in {"idle", "run"}
  /\ NewSince(s) >= 1 /\ NewSince(s) >= required[s]

LEMMA WakeupStep == IInv /\ [Next]_vars => NoMissedWakeup'
<1> SUFFICES ASSUME IInv, [Next]_vars, NEW s \in callbacks', Waiting(s)'
             PROVE  s \in scheduled' \/ s \in todo'
  BY DEF NoMissedWakeup, Waiting
<1> DEFINE Goal == s \in scheduled' \/ s \in todo'
<1>0. TypeOK /\ TypeOK' /\ NodeInv /\ SubscribedInv /\ NoMissedWakeup
  BY TypeStep DEF IInv
<1>1. s \in Subscribers /\ s \in subscribed'
  BY <1>0 DEF TypeOK
<1>2. ASSUME UNCHANGED <<generation, last, spc, count, since, required>>,
             s \in callbacks, scheduled \subseteq scheduled', todo \subseteq todo'
      PROVE  Goal
  <2>1. Waiting(s)
    BY <1>2 DEF Waiting, NewSince, Unread, Available
  <2> QED
    BY <1>0, <1>2, <2>1 DEF NoMissedWakeup, Waiting
<1>3. ASSUME NEW p \in Publishers, Write(p) PROVE Goal
  BY <1>3 DEF Write
<1>4. ASSUME NEW p \in Publishers, NEW t \in Subscribers, Call(p, t) PROVE Goal
  <2>1. /\ UNCHANGED <<generation, last, spc, count, since, required, callbacks>>
        /\ todo' = todo \ {t} /\ scheduled \subseteq scheduled'
        /\ advertised' = advertised
    BY <1>4 DEF Call, node, subscriber
  <2>2. Waiting(s)
    BY <2>1 DEF Waiting, NewSince, Unread, Available
  <2>3. s \in scheduled \/ s \in todo
    BY <1>0, <2>1, <2>2 DEF NoMissedWakeup, Waiting
  <2>4. CASE s # t
    BY <2>1, <2>3, <2>4
  <2>5. CASE s = t
    <3>1. Unread(s) = Available(s) /\ Available(s) \in Int
      BY <1>0, <1>1, <2>2, AvailableType DEF Unread, Waiting
    <3>2. /\ count \in Nat /\ since[s] \in Nat /\ required[s] \in Nat
      <4>1. required[s] \in Requirements
        BY <1>0, <1>1 DEF TypeOK
      <4>2. required[s] \in Nat
        BY <4>1, UorbNodeAssumption
      <4> QED
        BY <1>0, <1>1, <4>2 DEF TypeOK
    <3>3. Available(s) >= 1 /\ Available(s) >= required[s] /\ count >= 1
      BY <2>2, <3>1, <3>2 DEF Waiting, NewSince
    <3>4. Updates(s) = Available(s)
      BY <1>0, <3>3 DEF NodeInv, Updates
    <3> QED
      BY <1>4, <2>5, <3>1, <3>3, <3>4 DEF Call
  <2> QED
    BY <2>4, <2>5
<1>5. ASSUME NEW t \in Subscribers, Subscribe(t) PROVE Goal
  <2>1. /\ UNCHANGED <<generation, spc, count, since, required, callbacks, scheduled, todo>>
        /\ t \notin subscribed
    BY <1>5 DEF Subscribe, node, publisher
  <2>2. s # t
    BY <1>0, <2>1 DEF TypeOK
  <2>3. last'[s] = last[s]
    BY <1>0, <1>1, <1>5, <2>2 DEF Subscribe, TypeOK
  <2>4. Waiting(s)
    BY <2>1, <2>3 DEF Waiting, NewSince, Unread, Available
  <2> QED
    BY <1>0, <2>1, <2>4 DEF NoMissedWakeup, Waiting
<1>6. ASSUME NEW t \in Subscribers, Register(t) PROVE Goal
  <2>1. /\ UNCHANGED <<generation, last, spc, count, required, scheduled, todo>>
        /\ callbacks' = callbacks \cup {t}
        /\ since' = [since EXCEPT ![t] = count]
    BY <1>6 DEF Register, publisher, subscriber
  <2>2. CASE s = t
    <3>1. count' - since'[s] = 0
      BY <1>0, <1>1, <2>1, <2>2 DEF TypeOK
    <3>2. Unread(s)' \in Int
      BY <1>0, <1>1, AvailableType, UorbNodeAssumption, <2>1 DEF Unread, Available
    <3>3. ~(NewSince(s)' >= 1)
      BY <3>1, <3>2 DEF NewSince
    <3> QED
      BY <3>3 DEF Waiting
  <2>3. CASE s # t
    <3>1. s \in callbacks /\ since'[s] = since[s]
      BY <1>0, <1>1, <2>1, <2>3 DEF TypeOK
    <3>2. Waiting(s)
      BY <2>1, <3>1 DEF Waiting, NewSince, Unread, Available
    <3> QED
      BY <1>0, <2>1, <3>1, <3>2 DEF NoMissedWakeup, Waiting
  <2> QED
    BY <2>2, <2>3
<1>7. ASSUME NEW t \in Subscribers, Unregister(t) PROVE Goal
  BY <1>2, <1>7 DEF Unregister, publisher, subscriber
<1>8. ASSUME NEW t \in Subscribers,
             UNCHANGED <<generation, count, since, required, callbacks, todo>>,
             scheduled \ {t} \subseteq scheduled',
             \A u \in Subscribers \ {t} : last'[u] = last[u] /\ spc'[u] = spc[u],
             s # t
      PROVE  Goal
  <2>1. Waiting(s)
    BY <1>1, <1>8 DEF Waiting, NewSince, Unread, Available
  <2> QED
    BY <1>0, <1>8, <2>1 DEF NoMissedWakeup, Waiting
<1>9. ASSUME NEW t \in Subscribers, Run(t) \/ Poll(t) \/ CopyLast(t) PROVE Goal
  <2>1. /\ UNCHANGED <<generation, count, since, required, callbacks, todo>>
        /\ scheduled \ {t} \subseteq scheduled'
        /\ \A u \in Subscribers \ {t} : last'[u] = last[u] /\ spc'[u] = spc[u]
        /\ spc'[t] \in {"update", "copy"}
    BY <1>0, <1>9 DEF Run, Poll, CopyLast, Step, node, publisher, TypeOK
  <2>2. s # t
    BY <2>1 DEF Waiting
  <2> QED
    BY <1>8, <2>1, <2>2
<1>10. ASSUME NEW t \in Subscribers, Return(t) PROVE Goal
  <2>1. /\ UNCHANGED <<generation, last, count, since, required, callbacks, todo, scheduled>>
        /\ spc[t] = "run" /\ \A u \in Subscribers \ {t} : spc'[u] = spc[u]
    BY <1>0, <1>10 DEF Return, Step, node, publisher, TypeOK
  <2>2. spc'[t] = "idle"
    BY <1>0, <1>10 DEF Return, Step, TypeOK
  <2>3. Waiting(s)
    <3>1. CASE s = t
      BY <2>1, <2>2, <3>1 DEF Waiting, NewSince, Unread, Available
    <3>2. CASE s # t
      BY <1>1, <2>1, <3>2 DEF Waiting, NewSince, Unread, Available
    <3> QED
      BY <3>1, <3>2
  <2> QED
    BY <1>0, <2>1, <2>3 DEF NoMissedWakeup, Waiting
<1>11. ASSUME NEW t \in Subscribers, Update(t) PROVE Goal
  <2>1. /\ UNCHANGED <<generation, last, count, since, required, callbacks, todo, scheduled>>
        /\ \A u \in Subscribers \ {t} : spc'[u] = spc[u]
        /\ spc'[t] = IF Updates(t) # 0 THEN "copy" ELSE "run"
    BY <1>0, <1>11 DEF Update, Step, node, publisher, TypeOK
  <2>2. CASE s # t
    BY <1>8, <2>1, <2>2
  <2>3. CASE s = t
    <3>1. Updates(s) = 0 /\ spc'[s] = "run"
      BY <2>1, <2>3 DEF Waiting
    <3>2. count \in Nat /\ since[s] \in Nat /\ Available(s) \in Int
      <4>1. Available(s) \in Nat
        BY <1>0, <1>1, AvailableType
      <4> QED
        BY <1>0, <1>1, <4>1 DEF TypeOK
    <3>3. CASE advertised
      <4>1. Available(s) = 0
        BY <3>1, <3>3 DEF Updates
      <4>2. Unread(s)' = 0
        BY <2>1, <3>1, <4>1 DEF Unread, Available
      <4>3. ~(NewSince(s)' >= 1)
        BY <2>1, <3>2, <4>2 DEF NewSince
      <4> QED
        BY <4>3 DEF Waiting
    <3>4. CASE ~advertised
      <4>1. count = 0
        BY <1>0, <3>2, <3>4 DEF NodeInv
      <4>2. Unread(s)' = Available(s)
        BY <2>1, <3>1, <3>2 DEF Unread, Available
      <4>3. ~(NewSince(s)' >= 1)
        BY <2>1, <3>2, <4>1, <4>2 DEF NewSince
      <4> QED
        BY <4>3 DEF Waiting
    <3> QED
      BY <3>3, <3>4
  <2> QED
    BY <2>2, <2>3
<1>12. ASSUME NEW t \in Subscribers, Copy(t) PROVE Goal
  <2>1. /\ UNCHANGED <<generation, count, since, required, callbacks, todo, scheduled>>
    BY <1>12 DEF Copy, node, publisher
  <2>2. /\ \A u \in Subscribers \ {t} : last'[u] = last[u] /\ spc'[u] = spc[u]
        /\ spc'[t] \in {"update", "inc"}
    BY <1>0, <1>12, CopyFacts
  <2>3. s # t
    BY <2>2 DEF Waiting
  <2> QED
    BY <1>8, <2>1, <2>2, <2>3
<1>13. ASSUME NEW t \in Subscribers, Increment(t) PROVE Goal
  <2>1. /\ UNCHANGED <<generation, count, since, required, callbacks, todo, scheduled>>
        /\ spc'[t] = "update"
        /\ \A u \in Subscribers \ {t} : last'[u] = last[u] /\ spc'[u] = spc[u]
    BY <1>0, <1>13 DEF Increment, Step, node, publisher, TypeOK
  <2>2. s # t
    BY <2>1 DEF Waiting
  <2> QED
    BY <1>8, <2>1, <2>2
<1>14. CASE Advertise
  BY <1>2, <1>14 DEF Advertise, publisher, subscriber
<1>15. ASSUME NEW p \in Publishers, Publish(p) \/ Allocate(p) \/ Written(p) PROVE Goal
  BY <1>2, <1>15 DEF Publish, Allocate, Written, node, subscriber
<1>16. CASE UNCHANGED vars
  BY <1>2, <1>16 DEF vars, node, publisher, subscriber
<1> QED
  BY <1>3, <1>4, <1>5, <1>6, <1>7, <1>9, <1>10, <1>11, <1>12, <1>13, <1>14,
     <1>15, <1>16 DEF Next, PublisherStep, SubscriberStep

-----------------------------------------------------------------------------
(* The theorems.                                                           *)

(* The conjuncts hold together in every reachable state: what the ring     *)
(* holds, how far every subscriber is behind and who is about to be called.*)
THEOREM Invariant == Spec => []IInv
<1>1. IInv /\ [Next]_vars => IInv'
  <2> SUFFICES ASSUME IInv, [Next]_vars PROVE IInv'
    OBVIOUS
  <2> QED
    BY TypeStep, NodeStep, ValidStep, SubscribedStep, UnreadStep, RingStep,
       WakeupStep DEF IInv
<1> QED
  BY InitIInv, <1>1, PTL DEF Spec, Safety

(* Every variable keeps its type; the generations stay in the range of an  *)
(* unsigned.                                                               *)
THEOREM Typing == Spec => []TypeOK
<1>1. IInv => TypeOK
  BY DEF IInv
<1> QED
  BY Invariant, <1>1, PTL

(* A registered work item that is not running and has the updates it       *)
(* requires is queued or is about to be: DeviceNode::write calls every     *)
(* callback, and update() is false only when there is nothing to read.     *)
THEOREM Wakeups == Spec => []NoMissedWakeup
<1>1. IInv => NoMissedWakeup
  BY DEF IInv
<1> QED
  BY Invariant, <1>1, PTL

-----------------------------------------------------------------------------
(* The refinement.                                                         *)

\* Only a Subscribe or a Copy moves a position.
LEMMA Still ==
  ASSUME TypeOK, subscribed' = subscribed,
         \A s \in subscribed : count' - Unread(s)' = count - Unread(s)
  PROVE  Position' = Position
<1>1. \A s \in Subscribers :
        (IF s \in subscribed THEN count' - Unread(s)' ELSE 0)
          = (IF s \in subscribed THEN count - Unread(s) ELSE 0)
  OBVIOUS
<1> QED
  BY <1>1 DEF Position

LEMMA UnreadType ==
  ASSUME TypeOK, NEW s \in Subscribers
  PROVE  Unread(s) \in Int /\ count - Unread(s) \in Int
<1>1. Available(s) \in Nat
  BY AvailableType
<1>2. Unread(s) \in Int
  BY <1>1 DEF Unread
<1> QED
  BY <1>2 DEF TypeOK

\* One position changes.
LEMMA Moved ==
  ASSUME TypeOK, NEW t \in Subscribers, NEW i, count' = count,
         subscribed' = subscribed \cup {t}, count - Unread(t)' = i,
         \A s \in subscribed \ {t} : Unread(s)' = Unread(s)
  PROVE  Position' = [Position EXCEPT ![t] = i]
<1>1. ASSUME NEW s \in Subscribers
      PROVE  (IF s \in subscribed' THEN count' - Unread(s)' ELSE 0)
               = IF s = t THEN i ELSE IF s \in subscribed THEN count - Unread(s) ELSE 0
  OBVIOUS
<1>2. Position' = [s \in Subscribers |-> IF s \in subscribed' THEN count' - Unread(s)' ELSE 0]
  BY DEF Position
<1> QED
  BY <1>1, <1>2 DEF Position

LEMMA InitTopic == Init => Topic!Init
<1> SUFFICES ASSUME Init PROVE Topic!Init
  OBVIOUS
<1>1. depth \in Nat \ {0}
  BY UorbNodeAssumption DEF Init
<1>2. Position = [s \in Subscribers |-> 0]
  BY DEF Init, Position
<1> QED
  BY <1>1, <1>2 DEF Init, Topic!Init

\* What a copy is to the topic.
LEMMA CopyTopic ==
  ASSUME IInv, NEW t \in Subscribers, Copy(t)
  PROVE  Topic!Update(t) \/ Topic!Repeat(t) \/ Topic!Blank(t)
<1>0. TypeOK /\ SubscribedInv /\ UnreadInv /\ RingInv
  BY DEF IInv
<1> DEFINE k == Behindhand(Available(t))
           i == count - k + 1
<1>1. /\ k \in 1..depth
      /\ spc[t] = "copy"
      /\ \A u \in Subscribers \ {t} : last'[u] = last[u] /\ spc'[u] = spc[u]
      /\ Unread(t)' = k - 1
      /\ got' = [got EXCEPT ![t] = ring[Slot(k)]]
  BY <1>0, CopyFacts
<1>2. /\ generation' = generation /\ count' = count /\ depth' = depth
      /\ subscribed' = subscribed
  BY DEF Copy, node
<1>3. /\ t \in subscribed /\ depth \in Nat \ {0} /\ count \in Nat
      /\ Available(t) \in Nat
  <2>1. Available(t) \in Nat /\ depth \in Nat \ {0}
    BY <1>0, AvailableType, Depth
  <2>2. t \in subscribed
    BY <1>0, <1>1 DEF SubscribedInv
  <2> QED
    BY <1>0, <2>1, <2>2 DEF TypeOK
<1>4. PICK a \in Nat : a = Available(t)
  BY <1>3
<1>5. Unread(t) = a /\ a <= count /\ Position[t] = count - a
  <2>1. Unread(t) = a
    BY <1>1, <1>4 DEF Unread
  <2> QED
    BY <1>0, <1>3, <2>1 DEF UnreadInv, Position
<1>6. k = IF a = 0 THEN 1 ELSE IF a <= depth THEN a ELSE depth
  BY <1>4 DEF Behindhand
<1> HIDE DEF k
<1>7. Position' = [Position EXCEPT ![t] = i]
  <2>1. \A s \in subscribed \ {t} : Unread(s)' = Unread(s)
    <3> SUFFICES ASSUME NEW s \in subscribed \ {t} PROVE Unread(s)' = Unread(s)
      OBVIOUS
    <3>1. s \in Subscribers /\ last'[s] = last[s] /\ spc'[s] = spc[s]
      BY <1>0, <1>1 DEF TypeOK
    <3> QED
      BY <1>2, <3>1, UnreadSame
  <2>2. count - Unread(t)' = i
    BY <1>1, <1>3
  <2>3. subscribed' = subscribed \cup {t}
    BY <1>2, <1>3
  <2> QED
    BY <1>0, <1>2, <2>1, <2>2, <2>3, Moved
<1>8. CASE count = 0
  <2>1. a = 0 /\ k = 1 /\ i = 0
    BY <1>3, <1>5, <1>6, <1>8
  <2>2. Slot(k) \in 0..(depth - 1)
    BY <1>0, <1>1, SlotStep
  <2>3. ring[Slot(k)] = 0
    BY <1>0, <1>8, <2>2 DEF RingInv
  <2>4. Position[t] = 0
    BY <1>5, <1>8, <2>1
  <2> QED
    BY <1>1, <1>2, <1>3, <1>7, <1>8, <2>1, <2>3, <2>4 DEF Topic!Blank, Topic!Get
<1>9. CASE count # 0
  <2>1. k <= count
    BY <1>3, <1>5, <1>6, <1>9
  <2>2. ring[Slot(k)] = i
    BY <1>0, <1>1, <2>1 DEF RingInv
  <2>3. Topic!Get(t, i)
    BY <1>1, <1>2, <1>3, <1>7, <2>2 DEF Topic!Get
  <2>4. CASE a = 0
    <3>1. i = count /\ Position[t] = count /\ count > 0
      BY <1>3, <1>5, <1>6, <1>9, <2>4
    <3> QED
      BY <2>3, <3>1 DEF Topic!Repeat
  <2>5. CASE a # 0
    <3>1. Position[t] < count
      BY <1>3, <1>5, <2>5
    <3>2. i = IF Position[t] + 1 > count - depth THEN Position[t] + 1
              ELSE count - depth + 1
      BY <1>3, <1>5, <1>6, <2>5
    <3> QED
      BY <2>3, <3>1, <3>2 DEF Topic!Update
  <2> QED
    BY <2>4, <2>5
<1> QED
  BY <1>8, <1>9

\* Every step is one of the topic or leaves it alone.
LEMMA StepTopic == IInv /\ [Next]_vars => [Topic!Next]_(Topic!vars)
<1> SUFFICES ASSUME IInv, [Next]_vars PROVE [Topic!Next]_(Topic!vars)
  OBVIOUS
<1> DEFINE Goal == [Topic!Next]_(Topic!vars)
<1>0. TypeOK /\ ValidInv /\ SubscribedInv /\ UnreadInv
  BY DEF IInv
<1>1. \A s \in subscribed : s \in Subscribers
  BY <1>0 DEF TypeOK
<1>2. ASSUME Position' = Position, UNCHANGED <<depth, count, got, subscribed>> PROVE Goal
  BY <1>2 DEF Topic!vars
<1>3. CASE UNCHANGED <<depth, generation, last, spc, subscribed, count, got>>
  <2>1. \A s \in subscribed : Unread(s)' = Unread(s)
    BY <1>1, <1>3, UnreadSame
  <2>2. Position' = Position
    BY <1>0, <1>3, <2>1, Still
  <2> QED
    BY <1>2, <1>3, <2>2
<1>4. ASSUME NEW p \in Publishers, Write(p) PROVE Goal
  <2>1. /\ count' = count + 1 /\ depth' = depth /\ got' = got
        /\ subscribed' = subscribed
    BY <1>4 DEF Write, subscriber
  <2>2. ASSUME NEW s \in subscribed
        PROVE  count' - Unread(s)' = count - Unread(s)
    <3>1. Unread(s)' = Unread(s) + 1
      BY <1>0, <1>4, WriteFacts
    <3>2. Unread(s) \in Int /\ count \in Nat
      BY <1>0, <1>1, UnreadType DEF TypeOK
    <3> QED
      BY <2>1, <3>1, <3>2
  <2>3. Position' = Position
    BY <1>0, <2>1, <2>2, Still
  <2>4. Topic!Publish
    BY <2>1, <2>3 DEF Topic!Publish
  <2> QED
    BY <2>4 DEF Topic!Next
<1>5. ASSUME NEW t \in Subscribers, Subscribe(t) PROVE Goal
  <2>1. /\ subscribed' = subscribed \cup {t} /\ t \notin subscribed
        /\ generation' = generation /\ spc' = spc /\ count' = count
        /\ depth' = depth /\ got' = got
    BY <1>5 DEF Subscribe, node
  <2>2. spc[t] = "idle"
    BY <1>0, <2>1 DEF SubscribedInv
  <2>3. /\ \A u \in Subscribers \ {t} : last'[u] = last[u]
        /\ Unread(t)' = IF count = 0 THEN 0 ELSE 1
    BY <1>0, <1>5, <2>2, SubscribeFacts
  <2>4. \A s \in subscribed \ {t} : Unread(s)' = Unread(s)
    BY <1>1, <2>1, <2>3, UnreadSame
  <2>5. count - Unread(t)' = IF count = 0 THEN 0 ELSE count - 1
    BY <1>0, <2>3 DEF TypeOK
  <2>6. Position' = [Position EXCEPT ![t] = IF count = 0 THEN 0 ELSE count - 1]
    BY <1>0, <2>1, <2>4, <2>5, Moved
  <2>7. Topic!Subscribe(t)
    BY <2>1, <2>6 DEF Topic!Subscribe
  <2> QED
    BY <2>7 DEF Topic!Next
<1>6. ASSUME NEW t \in Subscribers,
             Run(t) \/ Poll(t) \/ CopyLast(t) \/ Return(t) \/ Update(t)
      PROVE  Goal
  <2>1. /\ generation' = generation /\ last' = last /\ count' = count
        /\ subscribed' = subscribed /\ depth' = depth /\ got' = got
    BY <1>6 DEF Run, Poll, CopyLast, Return, Update, node
  <2>2. \A s \in subscribed : (spc'[s] = "inc") <=> (spc[s] = "inc")
    BY <1>0, <1>1, <1>6 DEF Run, Poll, CopyLast, Return, Update, Step, TypeOK
  <2>3. \A s \in subscribed : Unread(s)' = Unread(s)
    BY <1>1, <2>1, <2>2, UnreadSame
  <2>4. Position' = Position
    BY <1>0, <2>1, <2>3, Still
  <2> QED
    BY <1>2, <2>1, <2>4
<1>7. ASSUME NEW t \in Subscribers, Copy(t) PROVE Goal
  <2>1. Topic!Update(t) \/ Topic!Repeat(t) \/ Topic!Blank(t)
    BY <1>7, CopyTopic
  <2> QED
    BY <2>1 DEF Topic!Next
<1>8. ASSUME NEW t \in Subscribers, Increment(t) PROVE Goal
  <2>1. /\ generation' = generation /\ count' = count /\ subscribed' = subscribed
        /\ depth' = depth /\ got' = got
    BY <1>8 DEF Increment, node
  <2>2. t \in subscribed
    BY <1>0, <1>8 DEF SubscribedInv, Increment, Step
  <2>3. /\ \A u \in Subscribers \ {t} : last'[u] = last[u] /\ spc'[u] = spc[u]
        /\ Unread(t)' = Unread(t)
    BY <1>0, <1>8, <2>2, IncrementFacts
  <2>4. ASSUME NEW s \in subscribed PROVE Unread(s)' = Unread(s)
    <3>1. CASE s = t
      BY <2>3, <3>1
    <3>2. CASE s # t
      BY <1>1, <2>1, <2>3, <3>2, UnreadSame
    <3> QED
      BY <3>1, <3>2
  <2>5. Position' = Position
    BY <1>0, <2>1, <2>4, Still
  <2> QED
    BY <1>2, <2>1, <2>5
<1>9. CASE UNCHANGED vars
  BY <1>3, <1>9 DEF vars, node, subscriber
<1>10. CASE Advertise
  BY <1>3, <1>10 DEF Advertise, subscriber
<1>11. ASSUME NEW p \in Publishers, Publish(p) \/ Allocate(p) \/ Written(p) PROVE Goal
  BY <1>3, <1>11 DEF Publish, Allocate, Written, node, subscriber
<1>12. ASSUME NEW p \in Publishers, NEW t \in Subscribers, Call(p, t) PROVE Goal
  BY <1>3, <1>12 DEF Call, node, subscriber
<1>13. ASSUME NEW t \in Subscribers, Register(t) \/ Unregister(t) PROVE Goal
  BY <1>3, <1>13 DEF Register, Unregister, subscriber
<1> QED
  BY <1>4, <1>5, <1>6, <1>7, <1>8, <1>9, <1>10, <1>11, <1>12, <1>13
  DEF Next, PublisherStep, SubscriberStep

(* The ring with its wrapping generations is a topic: samples are copied   *)
(* in order, none twice as an update, the oldest one kept after an overrun *)
(* and never what nobody published, for every depth and range of counters. *)
THEOREM Refinement == Spec => ImplementsTopic
<1>1. Init => Topic!Init
  BY InitTopic
<1>2. IInv /\ [Next]_vars => [Topic!Next]_(Topic!vars)
  BY StepTopic
<1> QED
  BY Invariant, <1>1, <1>2, PTL DEF Spec, Safety, ImplementsTopic
=============================================================================
