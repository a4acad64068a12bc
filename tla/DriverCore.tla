----------------------------- MODULE DriverCore -----------------------------
(***************************************************************************)
(* The motion half of skye_robot_driver's DriverCore: what the driver      *)
(* believes about the dual-arm controller (linked_, mode_, control_ready_, *)
(* config_) next to what the controller itself does (the mode, the speed   *)
(* ratio and the last accepted joint target of each arm).  Every public    *)
(* operation runs under runtime_mutex_, so each is one atomic operator;    *)
(* the handlers of DriverNode call them.                                   *)
(*                                                                         *)
(* The controller is the vendor SDK: any of its calls that MayFail names   *)
(* may be refused.  A joint vector is one integer, since the operations    *)
(* treat the seven joints alike and independently.                         *)
(***************************************************************************)
EXTENDS Integers

CONSTANTS
  ControlMode,  \* the control modes besides idle (position, imp_joint, ...)
  Idle,         \* the idle mode
  None,         \* the empty std::optional; the target of an idle arm
  Rate,         \* the vel/acc ratio pairs a request or the profile can name
  ReachLeft,    \* poses the left arm can be measured at
  ReachRight,   \* poses the right arm can be measured at
  MayFail       \* the kinds of SDK call that the controller may refuse

Arm  == {"left", "right"}
Mode == ControlMode \cup {Idle}
Pose == [left : ReachLeft, right : ReachRight]

SdkCall == {"idle", "switch", "speed", "command", "estop"}

ASSUME CoreAssumption ==
  /\ Idle \notin ControlMode
  /\ ReachLeft \subseteq Int /\ ReachRight \subseteq Int
  /\ None \notin Int
  /\ MayFail \subseteq SdkCall

VARIABLES
  linked,   \* linked_: the SDK connection is open (and the node is up)
  mode,     \* mode_
  ready,    \* control_ready_
  config,   \* config_: the speed ratio enter_mode applies to each arm
  arm,      \* controller: the mode each arm is in
  rate,     \* controller: the speed ratio of each arm
  target    \* controller: the joint position each arm holds or tracks

coreVars == <<linked, mode, ready, config, arm, rate, target>>

CoreInit ==
  /\ linked = FALSE /\ mode = Idle /\ ready = FALSE
  /\ config \in [Arm -> Rate]
  /\ arm = [a \in Arm |-> Idle]
  /\ rate = config
  /\ target = [a \in Arm |-> None]

----------------------------------------------------------------------------
\* After a change of modes an arm in a control mode holds the pose it is at.
Settle ==
  \E pose \in Pose :
    target' = [a \in Arm |-> IF arm'[a] = Idle THEN None ELSE pose[a]]

\* SwitchToIdle on both arms, its result ignored: an arm that refuses stays.
Parked ==
  {[a \in Arm |-> IF a \in refused THEN arm[a] ELSE Idle] :
     refused \in IF "idle" \in MayFail THEN SUBSET Arm ELSE {{}}}

\* enter_mode into a control mode, all SDK calls accepted.  An arm that is
\* switched gets its configured ratio with it.
EnterSucceeds(m) ==
  /\ arm' = [a \in Arm |-> m]
  /\ rate' = config
  /\ mode' = m
  /\ ready' = TRUE

\* Mutant of EnterFails: the caller forgets to clear control_ready_.
EnterFailsStaysReady(m) ==
  /\ "switch" \in MayFail
  /\ arm' \in Parked
  /\ UNCHANGED <<rate, mode, ready>>

\* enter_mode into a control mode, given up at the first refused call: the
\* left arm is switched before the right one, the speeds are set last.  mode_
\* keeps the old mode; every caller ends with control_ready_ false.
EnterFails(m) ==
  /\ \/ /\ "switch" \in MayFail
        /\ \E parked \in Parked :
             \/ arm' = parked /\ rate' = rate
             \/ /\ arm' = [parked EXCEPT !["left"] = m]
                /\ rate' = [rate EXCEPT !["left"] = config["left"]]
     \/ /\ "speed" \in MayFail
        /\ arm' = [a \in Arm |-> m]
        /\ rate' = config
  /\ mode' = mode
  /\ ready' = FALSE

EnterIdle ==
  /\ arm' \in Parked
  /\ mode' = Idle
  /\ ready' = FALSE
  /\ rate' = rate

\* switch_control_mode; ok is what it returns.
SwitchControlMode(m, ok) ==
  /\ \/ m = Idle /\ ok /\ EnterIdle
     \/ m # Idle /\ ok /\ EnterSucceeds(m)
     \/ m # Idle /\ ~ok /\ EnterFails(m)
  /\ Settle
  /\ UNCHANGED <<linked, config>>

\* hold_current, for one arm and for both; ok is what it returns.  The measured
\* pose is sent to each arm of A, and those in held accept it.  Without
\* control_ready_ mode_ is first entered again, with both arms.
HoldCurrent(A, ok) ==
  /\ \/ /\ mode = Idle /\ ~ok
        /\ UNCHANGED <<mode, ready, arm, rate, target>>
     \/ /\ mode # Idle /\ ready
        /\ \E held \in SUBSET A, pose \in Pose :
             /\ ok = (held = A)
             /\ ok \/ "command" \in MayFail
             /\ target' = [a \in Arm |-> IF a \in held THEN pose[a] ELSE target[a]]
        /\ UNCHANGED <<mode, ready, arm, rate>>
     \/ /\ mode # Idle /\ ~ready
        /\ ok \/ "command" \in MayFail
        /\ EnterSucceeds(mode)
        /\ Settle
     \/ /\ mode # Idle /\ ~ready /\ ~ok
        /\ EnterFails(mode)
        /\ Settle
  /\ UNCHANGED <<linked, config>>

\* send_position; ok is what it returns.
SendPosition(a, q, ok) ==
  /\ IF ok THEN ready /\ mode # Idle ELSE ~ready \/ "command" \in MayFail
  /\ target' = IF ok THEN [target EXCEPT ![a] = q] ELSE target
  /\ UNCHANGED <<linked, mode, ready, config, arm, rate>>

StopMotion ==
  /\ arm' \in Parked
  /\ mode' = Idle /\ ready' = FALSE
  /\ Settle
  /\ UNCHANGED <<linked, config, rate>>

\* Mutant of EmergencyStop: mode_ is forgotten, only control_ready_ cleared.
EmergencyStopKeepsMode(ok) ==
  /\ IF ok THEN arm' = [a \in Arm |-> Idle] /\ Settle
           ELSE "estop" \in MayFail /\ UNCHANGED <<arm, target>>
  /\ ready' = FALSE
  /\ UNCHANGED <<linked, mode, config, rate>>

\* emergency_stop: the driver goes idle even when the controller refuses.
EmergencyStop(ok) ==
  /\ IF ok THEN arm' = [a \in Arm |-> Idle] /\ Settle
           ELSE "estop" \in MayFail /\ UNCHANGED <<arm, target>>
  /\ mode' = Idle /\ ready' = FALSE
  /\ UNCHANGED <<linked, config, rate>>

\* Mutant of SetSpeedRates: the ratio of one arm is not recorded in config_.
SetSpeedRatesHalfRecorded(r) ==
  /\ \/ ~ready /\ UNCHANGED <<config, rate>>
     \/ ready /\ rate' = r /\ config' = [config EXCEPT !["left"] = r["left"]]
  /\ UNCHANGED <<linked, mode, ready, arm, target>>

\* set_speed_rates: config_ follows only when both arms took the new ratio.
SetSpeedRates(r) ==
  /\ \/ ~ready /\ UNCHANGED <<config, rate>>
     \/ ready /\ rate' = r /\ config' = r
     \/ /\ ready /\ "speed" \in MayFail
        /\ rate' \in {rate, [rate EXCEPT !["left"] = r["left"]]}
        /\ UNCHANGED config
  /\ UNCHANGED <<linked, mode, ready, arm, target>>

\* link_controller and configure_and_enable at start-up with the profile's
\* mode m and ratios r.  A failed enter_mode is tried once more; after a
\* second failure the arms are parked and the link is closed again.
ConnectAndEnable(m, r) ==
  /\ linked = FALSE
  /\ linked' = TRUE /\ config' = r
  /\ IF m = Idle THEN EnterIdle
     ELSE /\ arm' = [a \in Arm |-> m] /\ rate' = r
          /\ mode' = m /\ ready' = TRUE
  /\ Settle

ConnectFails(m, r) ==
  /\ linked = FALSE /\ m # Idle
  /\ MayFail \cap {"switch", "speed"} # {}
  /\ arm' \in {f \in [Arm -> Mode] : \A a \in Arm :
                 f[a] = Idle \/ ("idle" \in MayFail /\ f[a] \in {m, arm[a]})}
  /\ rate' \in {f \in [Arm -> Rate] : \A a \in Arm : f[a] \in {r[a], rate[a]}}
  /\ config' = r
  /\ Settle
  /\ UNCHANGED <<linked, mode, ready>>

\* shutdown, the last thing the node does.
Shutdown ==
  /\ arm' \in Parked
  /\ linked' = FALSE /\ mode' = Idle /\ ready' = FALSE
  /\ Settle
  /\ UNCHANGED <<config, rate>>
=============================================================================
