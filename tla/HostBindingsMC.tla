---------------------------- MODULE HostBindingsMC ----------------------------
(* HostBindings for TLC: processes, keys and hosts are interchangeable. *)
EXTENDS HostBindings, TLC

Symmetry == Permutations(Procs) \cup Permutations(Keys) \cup Permutations(Hosts)
=============================================================================
