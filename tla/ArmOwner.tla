------------------------------ MODULE ArmOwner ------------------------------
(***************************************************************************)
(* What the driver promises the nodes that command an arm: at every moment *)
(* at most one command path owns it.  The absolute path takes an arm from  *)
(* the relative one at once; the relative path takes it from the absolute  *)
(* one only after the absolute stream fell silent.  While halted nobody    *)
(* owns an arm, until the halt is lifted.                                  *)
(***************************************************************************)
CONSTANT Arm

VARIABLES
  owner,   \* "none", or the path whose commands the arm follows
  quiet,   \* the absolute owner has been silent for longer than the timeout
  halted

ownerVars == <<owner, quiet, halted>>

Init ==
  /\ owner = [a \in Arm |-> "none"]
  /\ quiet = [a \in Arm |-> FALSE]
  /\ halted = FALSE

Own(a, p) ==
  /\ ~halted
  /\ owner' = [owner EXCEPT ![a] = p]
  /\ quiet' = [quiet EXCEPT ![a] = FALSE]
  /\ UNCHANGED halted

TakeAbsolute(a) == Own(a, "abs")

TakeRelative(a) == (owner[a] = "abs" => quiet[a]) /\ Own(a, "rel")

GoQuiet(S) ==
  /\ \A a \in S : owner[a] = "abs"
  /\ quiet' = [a \in Arm |-> a \in S \/ quiet[a]]
  /\ UNCHANGED <<owner, halted>>

Release(S) ==
  /\ owner' = [a \in Arm |-> IF a \in S THEN "none" ELSE owner[a]]
  /\ quiet' = [a \in Arm |-> a \notin S /\ quiet[a]]
  /\ UNCHANGED halted

\* Stopping releases every arm; so does lifting the halt.
Halt(h) ==
  /\ owner' = [a \in Arm |-> "none"]
  /\ quiet' = [a \in Arm |-> FALSE]
  /\ halted' = h

Next ==
  \/ \E a \in Arm : TakeAbsolute(a) \/ TakeRelative(a)
  \/ \E S \in SUBSET Arm : GoQuiet(S) \/ Release(S)
  \/ \E h \in BOOLEAN : Halt(h)

Spec == Init /\ [][Next]_ownerVars
=============================================================================
