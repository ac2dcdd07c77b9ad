---------------------------- MODULE MCHookCalls ----------------------------
(***************************************************************************)
(* Calls of every transformation, one after the other, with hooks that     *)
(* read and throw.                                                         *)
(***************************************************************************)
EXTENDS HookCalls
=============================================================================
