------------------------ MODULE MCClusterSupervisor ------------------------
(* Small instances of ClusterSupervisor for TLC. *)
EXTENDS ClusterSupervisor, TLC

\* Process ids are interchangeable: sound for the safety runs.
PidSymmetry == Permutations(Pid)
=============================================================================
