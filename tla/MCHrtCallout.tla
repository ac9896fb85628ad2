--------------------------- MODULE MCHrtCallout ---------------------------
(* A periodic and a one-shot entry, two tasks that schedule and cancel     *)
(* them.  Delays stretch from overdue at insertion to beyond IntervalMax.  *)
EXTENDS HrtCallout, TLC

CONSTANTS t1, t2, every, once

TaskSymmetry == Permutations({t1, t2})
=============================================================================
