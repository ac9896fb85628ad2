---------------------------- MODULE SnapshotCell ----------------------------
(***************************************************************************)
(* What a seqlock of main/fc_core.h promises its callers, with the counter *)
(* and the word-by-word copies abstracted away: a cell whose writer        *)
(* publishes versions 1, 2, 3, ... in one step, and readers whose call     *)
(* returns, for every word of the record, ONE version that was current at  *)
(* some moment between the call and the return, or gives up.               *)
(***************************************************************************)
EXTENDS Integers

CONSTANTS
  Readers,  \* the tasks that read the cell
  Words     \* the machine words the record is copied in

VARIABLES
  committed,  \* the last version completely published
  call,       \* "idle", "reading", "ok" or "fail", per reader
  floor,      \* the version that was current when the reader's call began
  got         \* the words a successful call returned

vars == <<committed, call, floor, got>>

Nothing == [w \in Words |-> 0]

Init ==
  /\ committed = 0
  /\ call = [r \in Readers |-> "idle"]
  /\ floor = [r \in Readers |-> 0]
  /\ got = [r \in Readers |-> Nothing]

Publish ==
  /\ committed' = committed + 1
  /\ UNCHANGED <<call, floor, got>>

Start(r) ==
  /\ call[r] # "reading"
  /\ call' = [call EXCEPT ![r] = "reading"]
  /\ floor' = [floor EXCEPT ![r] = committed]
  /\ got' = [got EXCEPT ![r] = Nothing]
  /\ UNCHANGED committed

Finish(r) ==
  /\ call[r] = "reading"
  /\ call' = [call EXCEPT ![r] = "ok"]
  /\ \E v \in floor[r]..committed :
       got' = [got EXCEPT ![r] = [w \in Words |-> v]]
  /\ UNCHANGED <<committed, floor>>

GiveUp(r) ==
  /\ call[r] = "reading"
  /\ call' = [call EXCEPT ![r] = "fail"]
  /\ UNCHANGED <<committed, floor, got>>

Next ==
  \/ Publish
  \/ \E r \in Readers : Start(r) \/ Finish(r) \/ GiveUp(r)

Spec == Init /\ [][Next]_vars
=============================================================================
