--------------------------- MODULE MCRunLifecycle ---------------------------
(* RunLifecycle on small instances: workers are interchangeable. *)
EXTENDS RunLifecycle, TLC

WorkerSymmetry == Permutations(Workers)
=============================================================================
