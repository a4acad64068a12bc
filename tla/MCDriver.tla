------------------------------ MODULE MCDriver ------------------------------
(***************************************************************************)
(* The fault assumptions of the driver's runs.                             *)
(***************************************************************************)
EXTENDS DriverProps

\* Any call to the controller may be refused.
AnyCall == SdkCall

\* Commands may be refused, as when the controller returns no feedback frame.
CommandsOnly == {"command"}

\* Everything but a command or a speed ratio may be refused.
SwitchesAndStops == SdkCall \ {"command", "speed"}
=============================================================================
