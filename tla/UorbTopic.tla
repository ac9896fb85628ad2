---------------------------- MODULE UorbTopic -----------------------------
(***************************************************************************)
(* What a uORB topic promises: the samples published so far, numbered from *)
(* 1, of which the last depth can still be read, and a position in them    *)
(* for every subscriber.  A subscriber gets the samples in order and each  *)
(* at most once as an update; one that has fallen behind goes on with the  *)
(* oldest sample still kept.                                               *)
(***************************************************************************)
EXTENDS Integers

CONSTANT Subscribers

VARIABLES
  depth,      \* how many samples are kept
  published,  \* the number of the last sample
  subscribed, \* the subscribers there are
  pos,        \* per subscriber: the last sample it got or can not get any more
  got         \* per subscriber: the last sample it got, 0 for none

vars == <<depth, published, subscribed, pos, got>>

Init ==
  /\ depth \in Nat \ {0}
  /\ published = 0
  /\ subscribed = {}
  /\ pos = [s \in Subscribers |-> 0]
  /\ got = [s \in Subscribers |-> 0]

Publish ==
  /\ published' = published + 1
  /\ UNCHANGED <<depth, subscribed, pos, got>>

\* A subscriber begins, once, with the last sample there is.
Subscribe(s) ==
  /\ s \notin subscribed
  /\ subscribed' = subscribed \cup {s}
  /\ pos' = [pos EXCEPT ![s] = IF published = 0 THEN 0 ELSE published - 1]
  /\ UNCHANGED <<depth, published, got>>

Get(s, i) ==
  /\ s \in subscribed
  /\ pos' = [pos EXCEPT ![s] = i]
  /\ got' = [got EXCEPT ![s] = i]
  /\ UNCHANGED <<depth, published, subscribed>>

\* The next sample, or the oldest one kept if that is later.
Update(s) ==
  /\ pos[s] < published
  /\ Get(s, IF pos[s] + 1 > published - depth THEN pos[s] + 1
            ELSE published - depth + 1)

\* A subscriber that has them all may read the last one again.
Repeat(s) ==
  /\ pos[s] = published /\ published > 0
  /\ Get(s, published)

\* Before the first sample it may read an empty record.
Blank(s) == published = 0 /\ pos[s] = 0 /\ Get(s, 0)

Next ==
  \/ Publish
  \/ \E s \in Subscribers : Subscribe(s) \/ Update(s) \/ Repeat(s) \/ Blank(s)

Spec == Init /\ [][Next]_vars
=============================================================================
