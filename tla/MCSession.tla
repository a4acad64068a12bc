----------------------------- MODULE MCSession -----------------------------
(***************************************************************************)
(* The playbooks of the session run: two required steps, or an optional    *)
(* one.  Two threads serve start requests.                                 *)
(***************************************************************************)
EXTENDS SessionProps

ShortPlaybook ==
  [teleop_record |-> <<"driver", "marvin">>,
   dagger |-> <<"dummy_policy">>]
=============================================================================
