----------------------------- MODULE MCArbiter ------------------------------
(***************************************************************************)
(* The arbiter's constants that a configuration cannot write down.         *)
(***************************************************************************)
EXTENDS ArbiterProps

\* On switch_sync, a FACTR that is SYNCED aligns anew, or either aligns or does nothing.
Aligns == {TRUE}
Either == {TRUE, FALSE}
=============================================================================
