----------------------------- MODULE MCSchedule -----------------------------
(* Instance of Schedule: half-hour ticks would make the real numbers 2, 12 and *)
(* 2; a smaller default keeps every boundary apart.                            *)
EXTENDS Schedule

CONSTANT garbage

SomeSettings == {Unset, garbage, 1, 3, 5}
=============================================================================
