----------------------------- MODULE PolicyChunk -----------------------------
(***************************************************************************)
(* What becomes of a policy's action chunk between its arrival at the      *)
(* arbiter and the pose the driver moves to, as operators: the chunk is    *)
(* moved onto the measured pose if it starts too far from it, played by    *)
(* the clock, turned into the leader's joints for the absolute path and    *)
(* turned back by the driver.  Angles and times are counted in units small *)
(* enough to be whole; signs are 1 or -1, as in every configuration.       *)
(***************************************************************************)
EXTENDS Integers

CONSTANTS
  Dof,      \* joints of an arm
  Steps,    \* DEFAULT_STEPS, the poses of a chunk
  MaxJump   \* chunk_start_max_jump_rad

Arm == {"left", "right"}
Joint == 0..Dof - 1
Step == 0..Steps - 1
Pose == [Joint -> Int]
Play == [t0 : Int, dt : Int, poses : [Arm -> [Step -> Pose]]]

Distance(a, b) == IF a < b THEN b - a ELSE a - b

--------------------------------------------------------------------------
(* chunk_continuity.py *)

\* max_step0_jump_rad is more than MaxJump.
Jumps(poses, measured) ==
  \E arm \in Arm, j \in Joint : Distance(poses[arm][0][j], measured[arm][j]) > MaxJump

\* rebase_arm_joints_to_pose
Rebase(steps, pose) ==
  [s \in Step |-> [j \in Joint |-> steps[s][j] + (pose[j] - steps[0][j])]]

\* _policy_callback: what is loaded, with or without a recent measured pose.
Loaded(chunk, recent, measured) ==
  IF recent /\ Jumps(chunk.poses, measured)
  THEN [chunk EXCEPT !.poses = [arm \in Arm |-> Rebase(chunk.poses[arm], measured[arm])]]
  ELSE chunk

--------------------------------------------------------------------------
(* chunk_player.py *)

\* load takes whole chunks that take time; their lengths are in the type.
Loads(chunk) == chunk \in Play /\ chunk.dt > 0

Begins(chunk, s) == chunk.t0 + s * chunk.dt
Ends(chunk) == chunk.t0 + Steps * chunk.dt

\* sample: the step a clock is in; before the chunk the first, after it the last.
\* The last is held.
Current(chunk, now) ==
  CASE now <= chunk.t0 -> 0
    [] now > chunk.t0 /\ now >= Ends(chunk) -> Steps - 1
    [] OTHER -> CHOOSE s \in Step : /\ Begins(chunk, s) <= now
                                    /\ \A t \in Step : t > s => now < Begins(chunk, t)

Sample(chunk, now) == [arm \in Arm |-> chunk.poses[arm][Current(chunk, now)]]

--------------------------------------------------------------------------
(* policy_abs.py and the driver's side of it *)

Signs == [Joint -> {-1, 1}]
Orders == [Joint -> Joint]

\* follower_pose_to_leader_abs: a leader joint that is the source of several
\* follower joints takes the last, one that is the source of none stays at zero.
LeaderAbs(follower, signs, order, offsets) ==
  [src \in Joint |->
     LET sources == {out \in Joint : order[out] = src}
         out == CHOOSE o \in sources : \A p \in sources : p <= o
     IN IF sources = {} THEN 0 ELSE (follower[out] - offsets[out]) * signs[out]]

\* DriverCore::apply_joint_mapping
FollowerAbs(leader, signs, order, offsets) ==
  [out \in Joint |-> leader[order[out]] * signs[out] + offsets[out]]
=============================================================================
