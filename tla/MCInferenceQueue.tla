--------------------------- MODULE MCInferenceQueue ---------------------------
(***************************************************************************)
(* Instances of InferenceQueue for TLC.  Jobs are interchangeable, and so  *)
(* are workers; the symmetry is used in safety runs only.                  *)
(***************************************************************************)
EXTENDS InferenceQueue, TLC

SeveralWorkers == Permutations(Job) \cup Permutations(Worker)
=============================================================================
