---------------------------- MODULE MCUorbNode ----------------------------
(* Two publishers and a subscriber that falls behind and catches up while  *)
(* the counter wraps; a topic that keeps one sample, or two.               *)
EXTENDS UorbNode, TLC

CONSTANTS p1, p2, s1
=============================================================================
