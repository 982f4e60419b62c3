----------------------------- MODULE MCWorkQueue -----------------------------
(***************************************************************************)
(* Small instances of WorkQueue.  Sessions, workers, tasks and files are   *)
(* interchangeable among themselves, which the safety runs use.            *)
(***************************************************************************)
EXTENDS WorkQueue, TLC

Interchangeable ==
  Permutations(Sessions) \cup Permutations(Workers) \cup Permutations(Tasks)
=============================================================================
