---------------------------- MODULE MCBuildScript ----------------------------
(***************************************************************************)
(* Small instances of BuildScript for TLC.                                 *)
(***************************************************************************)
EXTENDS BuildScript

SomeFeatures == {"fsgsbase", "instrument", "with_submodule"}
=============================================================================
