---------------------------- MODULE MCTaskLayer ----------------------------
(* An instance of TaskLayer for TLC: one module of each kind.              *)
EXTENDS TaskLayer, TLC

CONSTANTS navigator, commander, ekf2, simulator, boot, shell

MCKind == navigator :> "task" @@ commander :> "waited" @@ ekf2 :> "queue" @@
          simulator :> "direct"
MCCommands ==
  boot :> {"start"} \X {navigator, simulator} @@
  shell :> ({"start"} \X {commander, ekf2}) \cup ({"stop"} \X {navigator, ekf2, simulator})
MCFinite == {navigator, simulator}

(* States that differ in what nobody reads are one: the entry of a slot    *)
(* that no thread is about to call, and which of the two histories makes   *)
(* SlotSound and InstanceSound promise no more.                            *)
Calls(s) == \/ \E t \in Instances : phase[t] = "created" /\ place[t] = s
            \/ \E c \in Callers : At(c, "create") /\ command[c].slot = s
View ==
  <<[s \in Slots |-> <<slots[s].used, IF Calls(s) THEN slots[s].entry ELSE Nil>>],
    desc, mutex, instances, asked, deleted, left \/ raced, command>>
=============================================================================
