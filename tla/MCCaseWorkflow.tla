---------------------------- MODULE MCCaseWorkflow ----------------------------
(***************************************************************************)
(* Instances of CaseWorkflow for TLC: handlers are interchangeable.        *)
(***************************************************************************)
EXTENDS CaseWorkflow, TLC

HandlerSymmetry == Permutations(Handler)
=============================================================================
