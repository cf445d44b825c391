------------------------------ MODULE MCRunner ------------------------------
(* Instance of Runner: a linear history c1, c2, c3 of the tracked branch. *)
EXTENDS RunnerInvariant

CONSTANTS c1, c2, c3

LinearAncestry ==
  {<<c1, c1>>, <<c2, c2>>, <<c3, c3>>, <<c1, c2>>, <<c1, c3>>, <<c2, c3>>}
    \intersect (Revs \X Revs)
=============================================================================
