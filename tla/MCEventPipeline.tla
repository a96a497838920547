---------------------------- MODULE MCEventPipeline ----------------------------
(***************************************************************************)
(* EventPipeline for TLC: a well-formed event and a malformed one.         *)
(***************************************************************************)
EXTENDS EventPipeline

CONSTANTS good, bad

MCEvents == {good, bad}
MCKind == (good :> "valid") @@ (bad :> "malformed")
=============================================================================
