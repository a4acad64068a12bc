-------------------------------- MODULE MCUi --------------------------------
EXTENDS UiProps

MCOps == {"switch_sync", "leader_left_off",
          "recorder_start", "emergency_stop"}
\* The callbacks of align and hitl do the same, to fields that none of MCOps asks for.
MCPublished == [teleop |-> {"SYNCED"}, align |-> {}, hitl |-> {"AUTONOMOUS"}]
MCModes == {Teleop, Dagger}
=============================================================================
