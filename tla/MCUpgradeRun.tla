---------------------------- MODULE MCUpgradeRun ----------------------------
(* Two masters and two pools of one agent; three versions, of which the     *)
(* first is no longer offered and each offers the next.                     *)
EXTENDS UpgradeRun

CONSTANTS m1, m2, a1, a2, p1, p2

MCPoolOf == [a \in {a1, a2} |-> IF a = a1 THEN p1 ELSE p2]
MCTable  == [v \in {<<1, 0>>, <<2, 0>>, <<3, 0>>} |-> v # <<1, 0>>]
MCFirst  == <<1, 0>>
=============================================================================
