----------------------------- MODULE WorkList -----------------------------
(***************************************************************************)
(* What a work queue promises to those who schedule items: a list of       *)
(* pending items in the order of their scheduling, where an item that is   *)
(* already pending is not added a second time.                             *)
(***************************************************************************)
EXTENDS Integers, Sequences

CONSTANT Items

VARIABLE pending

Pending == {pending[i] : i \in DOMAIN pending}

Init == pending = <<>>

Add(x) == x \notin Pending /\ pending' = Append(pending, x)

Take == pending # <<>> /\ pending' = Tail(pending)

Remove(x) ==
  \E i \in 1..Len(pending) :
    /\ pending[i] = x
    /\ pending' = SubSeq(pending, 1, i - 1) \o SubSeq(pending, i + 1, Len(pending))

Next == Take \/ \E x \in Items : Add(x) \/ Remove(x)

Spec == Init /\ [][Next]_pending
=============================================================================
