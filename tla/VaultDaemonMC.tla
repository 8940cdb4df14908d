---------------------------- MODULE VaultDaemonMC ----------------------------
(* VaultDaemon for TLC: the request slots are interchangeable, and a history *)
(* variable that no property of a run reads tells no states apart.           *)
EXTENDS VaultDaemon, TLC

Symmetry == Permutations(Requests)

\* The variables that model the daemon; no action's guard reads the others.
Daemon == <<vault_locked, is_running, secrets, memory, fingerprints, store, cloud,
            pending_sync, events, main, ui>>

\* LockForgetsApprovals reads `late`, and only while the vault is locked.  (TLC
\* stores `approved` with a state, so a view has to evaluate it: hence its type.)
ApprovedTyped == approved \in [Items \X Ops -> Versions]
LockView   == <<Daemon, ApprovedTyped, IF vault_locked THEN late ELSE {}>>
ForgetView == <<Daemon, ApprovedTyped, forgotten>>
=============================================================================
