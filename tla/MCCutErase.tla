----------------------------- MODULE MCCutErase -----------------------------
(***************************************************************************)
(* Small instances of CutErase for TLC, with the items of MCStorage.       *)
(***************************************************************************)
EXTENDS CutErase, MCStorage
=============================================================================
