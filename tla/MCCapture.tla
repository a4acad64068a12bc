----------------------------- MODULE MCCapture ------------------------------
EXTENDS CaptureProps

\* A wrist camera of arm A and a tactile sensor whose name has no field.
MCSide == [d \in Devices |-> IF d \in Realsense THEN "A" ELSE "unknown"]
MCUseArm == {"A"}
=============================================================================
