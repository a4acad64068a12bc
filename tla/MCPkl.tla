-------------------------------- MODULE MCPkl --------------------------------
(***************************************************************************)
(* The command lines of the replays: everything from before the first      *)
(* frame; the bare replay with a stride; the plan only.                    *)
(***************************************************************************)
EXTENDS PklProps

MCPlans ==
  {[start |-> -1, end |-> 2, stride |-> 0, execute |-> TRUE, need |-> TRUE,
    teleop |-> TRUE, sync |-> TRUE, prep |-> TRUE, finish |-> TRUE],
   [NoPlan EXCEPT !.end = 2, !.stride = 2, !.execute = TRUE],
   [NoPlan EXCEPT !.start = 1, !.end = 2]}
=============================================================================
