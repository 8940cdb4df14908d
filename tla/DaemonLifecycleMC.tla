-------------------------- MODULE DaemonLifecycleMC --------------------------
(* DaemonLifecycle for TLC: process ids are interchangeable. *)
EXTENDS DaemonLifecycle, TLC

Symmetry == Permutations(Pids)
=============================================================================
