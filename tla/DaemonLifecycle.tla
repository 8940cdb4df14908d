---------------------------- MODULE DaemonLifecycle ----------------------------
(***************************************************************************)
(* Starting and stopping the daemon: `sshwarden run` claims the PID file,  *)
(* binds the SSH endpoint and the control socket, serves, and gives them   *)
(* up again; `sshwarden stop` and `restart` talk to it over the control    *)
(* socket and watch the PID file.  A process is known by its PID.  Every   *)
(* file operation is an action of its own, because processes share the     *)
(* file system and nothing else.                                           *)
(***************************************************************************)
EXTENDS Naturals

CONSTANTS
    Pids,               \* process ids the system hands out
    NoPid,              \* no process
    Requested,          \* the commands a user gives: stop, restart
    Legacy,             \* a daemon of an older build may still be running
    Crashes,            \* a process may be killed at any point
    Interrupts,         \* a daemon may be ended by Ctrl-C or a fatal transport signal
    Faults,             \* file operations and the start of the server may fail
    Timeouts,           \* a daemon may take longer to answer or to exit than a client waits
    PidReuse            \* a new process may get the PID that a leftover file records

ASSUME LifecycleAssumption ==
    /\ NoPid \notin Pids
    /\ Requested \subseteq {"stop", "restart"}
    /\ {Legacy, Crashes, Interrupts, Faults, Timeouts, PidReuse} \subseteq BOOLEAN

VARIABLES
    proc,     \* what each `run` process is doing; "off" when the PID is free
    pidfile,  \* the machine-local PID file: who created it, whether the PID is written
    legacy,   \* the PID file of an older build in the shared data directory
    sock,     \* the process whose listener the SSH endpoint leads to
    ctl,      \* the process whose listener the control socket leads to
    ctask,    \* the control server task of each process
    inbox,    \* processes with a stop command queued
    cli,      \* the client: its step, its command, the serving daemon it has reached
    stolen    \* history: a claiming process removed the PID file of a live one as a leftover

files == <<pidfile, legacy>>
ends  == <<sock, ctl>>
vars  == <<proc, files, ends, ctask, inbox, cli, stolen>>

Procs == {"off", "claim", "created", "giveup", "write", "check", "remove",
          "tidy", "starting", "loading", "serving", "unpid", "exit"}

\* Past a successful claim, up to the removal of the PID file.
Owning == {"tidy", "starting", "loading", "serving", "unpid"}

\* The PID file was created and not yet written, or given up.
Holding == {"created", "giveup", "write"}

NoFile == [by |-> NoPid, text |-> FALSE]
Files  == {NoFile} \cup [by : Pids, text : BOOLEAN]
AnyPid == Pids \cup {NoPid}
CliSteps == {"idle", "contact", "await", "wait", "spawn", "none", "stopped", "started", "failed"}
Clients  == [pc : CliSteps, cmd : {"stop", "restart"}, target : AnyPid]

\* Every variable of the lifecycle stays in its type.
LifeTypeOK ==
    /\ proc \in [Pids -> Procs] /\ pidfile \in Files
    /\ legacy \in {"none", "stale", "live"}
    /\ sock \in AnyPid /\ ctl \in AnyPid
    /\ ctask \in [Pids -> {"none", "spawned", "up", "gone"}]
    /\ inbox \in SUBSET Pids /\ cli \in Clients
    /\ stolen \in BOOLEAN

Init ==
    /\ proc = [p \in Pids |-> "off"]
    /\ pidfile = NoFile
    /\ legacy \in IF Legacy THEN {"none", "stale", "live"} ELSE {"none"}
    /\ sock = NoPid /\ ctl = NoPid
    /\ ctask = [p \in Pids |-> "none"]
    /\ inbox = {}
    /\ cli = [pc |-> "idle", cmd |-> "stop", target |-> NoPid]
    /\ stolen = FALSE

-----------------------------------------------------------------------------
In(p, pc)   == proc[p] = pc
Goto(p, pc) == proc' = [proc EXCEPT ![p] = pc]
CliAt(pc)   == cli.pc = pc

\* A daemon that leaves its loop is no longer the one a client waits for.
Released(p) == IF cli.target = p THEN [cli EXCEPT !.target = NoPid] ELSE cli

\* pid_file_owner_alive: the file holds the PID of a live sshwarden process,
\* which the process asking may be itself.  An empty file has no live owner.
OwnerAlive == pidfile.text /\ proc[pidfile.by] # "off"

\* is_daemon_running; the mutant looks for an older build only.
IsDaemonRunningLegacy == legacy = "live"
IsDaemonRunning       == OwnerAlive \/ legacy = "live"

\* The system starts `sshwarden run` under a free PID.
CanStart(p) ==
    /\ In(p, "off")
    /\ PidReuse \/ pidfile.by # p

Run(p) ==
    /\ CanStart(p)
    /\ Goto(p, "claim")
    /\ UNCHANGED <<files, ends, ctask, inbox, cli, stolen>>

-----------------------------------------------------------------------------
(* claim_pid_file                                                          *)

\* create_new succeeds only when there is no file; the mutant opens any file.
MayCreateAny == TRUE
MayCreate    == pidfile = NoFile

ClaimCreate(p) ==
    /\ In(p, "claim")
    /\ IF MayCreate
       THEN pidfile' = [by |-> p, text |-> FALSE] /\ Goto(p, "created")
       ELSE Goto(p, "check") /\ UNCHANGED pidfile
    /\ UNCHANGED <<legacy, ends, ctask, inbox, cli, stolen>>

\* A daemon of an older layout has precedence.
ClaimLegacy(p) ==
    /\ In(p, "created")
    /\ Goto(p, IF legacy = "live" THEN "giveup" ELSE "write")
    /\ UNCHANGED <<files, ends, ctask, inbox, cli, stolen>>

ClaimGiveUp(p) ==
    /\ In(p, "giveup")
    /\ pidfile' = NoFile
    /\ Goto(p, "exit")
    /\ UNCHANGED <<legacy, ends, ctask, inbox, cli, stolen>>

\* The PID goes into the file that was opened, which need not be the one that
\* is there by now.
ClaimWrite(p) ==
    /\ In(p, "write")
    /\ pidfile' = IF pidfile.by = p THEN [pidfile EXCEPT !.text = TRUE] ELSE pidfile
    /\ Goto(p, "tidy")
    /\ UNCHANGED <<legacy, ends, ctask, inbox, cli, stolen>>

\* cleanup_legacy_runtime_files
ClaimTidy(p) ==
    /\ In(p, "tidy")
    /\ legacy' = IF legacy = "live" THEN legacy ELSE "none"
    /\ Goto(p, "starting")
    /\ UNCHANGED <<pidfile, ends, ctask, inbox, cli, stolen>>

\* A live owner means this process has nothing to do; a leftover is removed, by
\* name: by then the file may be another process's, created or even written.
ClaimCheck(p) ==
    /\ In(p, "check")
    /\ Goto(p, IF OwnerAlive THEN "exit" ELSE "remove")
    /\ UNCHANGED <<files, ends, ctask, inbox, cli, stolen>>

\* The process that created the file is still claiming it or owns it.
LiveClaim == \E q \in Pids : pidfile.by = q /\ proc[q] \in Holding \cup Owning

ClaimRemove(p) ==
    /\ In(p, "remove")
    /\ pidfile' = NoFile
    /\ Goto(p, "claim")
    /\ stolen' = (stolen \/ LiveClaim)
    /\ UNCHANGED <<legacy, ends, ctask, inbox, cli>>

\* Creating, writing or removing the file fails: the process ends with an error.
ClaimFails(p) ==
    /\ Faults
    /\ proc[p] \in {"claim", "write", "remove"}
    /\ Goto(p, "exit")
    /\ UNCHANGED <<files, ends, ctask, inbox, cli, stolen>>

-----------------------------------------------------------------------------
(* run_foreground, and the shutdown around it                              *)

\* start_server_with_endpoint: a socket in the way is removed.
BindEndpoint(p) ==
    /\ In(p, "starting")
    /\ sock' = p
    /\ Goto(p, "loading")
    /\ UNCHANGED <<files, ctl, ctask, inbox, cli, stolen>>

\* Keys, identities, the first PIN; then the control server and the loop.
Serve(p) ==
    /\ In(p, "loading")
    /\ Goto(p, "serving")
    /\ ctask' = [ctask EXCEPT ![p] = "spawned"]
    /\ UNCHANGED <<files, ends, inbox, cli, stolen>>

StartFails(p) ==
    /\ Faults
    /\ proc[p] \in {"starting", "loading"}
    /\ Goto(p, "unpid")
    /\ UNCHANGED <<files, ends, ctask, inbox, cli, stolen>>

\* start_control_server, a task of its own; a daemon whose control socket
\* cannot be bound goes on without one.
BindControl(p) ==
    /\ ctask[p] = "spawned"
    /\ \/ ctl' = p /\ ctask' = [ctask EXCEPT ![p] = "up"]
       \/ Faults /\ ctask' = [ctask EXCEPT ![p] = "gone"] /\ UNCHANGED ctl
    /\ UNCHANGED <<proc, files, sock, inbox, cli, stolen>>

\* The stop command, Ctrl-C, or the fatal signal ends the loop; the command is
\* acknowledged, the token cancelled and the agent stopped.
Leave(p) ==
    /\ In(p, "serving")
    /\ p \in inbox \/ Interrupts
    /\ Goto(p, "unpid")
    /\ inbox' = inbox \ {p}
    /\ cli' = Released(p)
    /\ UNCHANGED <<files, ends, ctask, stolen>>

\* The cancelled control server removes the socket file, whoever bound it.
UnbindControl(p) ==
    /\ ctask[p] = "up" /\ proc[p] \in {"unpid", "exit"}
    /\ ctl' = NoPid
    /\ ctask' = [ctask EXCEPT ![p] = "gone"]
    /\ UNCHANGED <<proc, files, sock, inbox, cli, stolen>>

RemovePidFile(p) ==
    /\ In(p, "unpid")
    /\ pidfile' = NoFile
    /\ Goto(p, "exit")
    /\ UNCHANGED <<legacy, ends, ctask, inbox, cli, stolen>>

\* The process is gone, with its tasks, its listeners and its queued commands.
Ends(p) ==
    /\ In(p, "exit") \/ (Crashes /\ ~In(p, "off"))
    /\ Goto(p, "off")
    /\ ctask' = [ctask EXCEPT ![p] = "none"]
    /\ inbox' = inbox \ {p}
    /\ cli' = Released(p)
    /\ UNCHANGED <<files, ends, stolen>>

LegacyExits ==
    /\ legacy = "live"
    /\ legacy' \in {"stale", "none"}
    /\ UNCHANGED <<proc, pidfile, ends, ctask, inbox, cli, stolen>>

-----------------------------------------------------------------------------
(* cmd_stop and cmd_restart                                                *)

CliStep(pc) == cli' = [cli EXCEPT !.pc = pc]

Request(c) ==
    /\ c \in Requested
    /\ cli.pc \in {"idle", "none", "stopped", "started", "failed"}
    /\ cli' = [pc |-> "contact", cmd |-> c, target |-> NoPid]
    /\ UNCHANGED <<proc, files, ends, ctask, inbox, stolen>>

\* contact_daemon: nobody listening is the only way to learn that no daemon
\* runs; the control socket and not the PID file decides.
Reachable(p) == ctl = p /\ ctask[p] = "up"

Contact ==
    /\ CliAt("contact")
    /\ IF \E p \in Pids : Reachable(p)
       THEN /\ inbox' = inbox \cup {ctl}
            /\ cli' = [cli EXCEPT !.pc = "await",
                                  !.target = IF In(ctl, "serving") THEN ctl ELSE NoPid]
       ELSE CliStep(IF cli.cmd = "stop" THEN "none" ELSE "spawn") /\ UNCHANGED inbox
    /\ UNCHANGED <<proc, files, ends, ctask, stolen>>

\* A reply, a closed channel or no reply in five seconds all lead to the wait;
\* an error reply of a daemon that is leaving fails `stop`.
Answered ==
    /\ CliAt("await")
    /\ \/ (Timeouts \/ cli.target = NoPid) /\ CliStep("wait")
       \/ cli.target = NoPid /\ cli.cmd = "stop" /\ CliStep("failed")
    /\ UNCHANGED <<proc, files, ends, ctask, inbox, stolen>>

\* The wait is over when no daemon is running.
WaitOver == ~IsDaemonRunning

\* Fifty looks at the PID file.
Wait ==
    /\ CliAt("wait")
    /\ \/ WaitOver /\ CliStep(IF cli.cmd = "stop" THEN "stopped" ELSE "spawn")
       \/ Timeouts /\ ~WaitOver /\ CliStep("failed")
    /\ UNCHANGED <<proc, files, ends, ctask, inbox, stolen>>

\* spawn_background_agent
SpawnAgent(p) ==
    /\ CliAt("spawn")
    /\ CanStart(p)
    /\ Goto(p, "claim")
    /\ CliStep("started")
    /\ UNCHANGED <<files, ends, ctask, inbox, stolen>>

-----------------------------------------------------------------------------
Claim(p)  == \/ ClaimCreate(p) \/ ClaimLegacy(p) \/ ClaimGiveUp(p) \/ ClaimWrite(p)
             \/ ClaimTidy(p) \/ ClaimCheck(p) \/ ClaimRemove(p) \/ ClaimFails(p)
Daemon(p) == \/ BindEndpoint(p) \/ Serve(p) \/ StartFails(p) \/ BindControl(p) \/ Leave(p)
             \/ UnbindControl(p) \/ RemovePidFile(p) \/ Ends(p)
Client    == Contact \/ Answered \/ Wait \/ \E p \in Pids : SpawnAgent(p)

Next == \/ \E p \in Pids : Run(p) \/ Claim(p) \/ Daemon(p)
        \/ Client \/ LegacyExits
        \/ \E c \in Requested : Request(c)

Spec == Init /\ [][Next]_vars

-----------------------------------------------------------------------------
(* Properties.                                                             *)

\* At most one process is past its claim: one agent, one control server, one
\* endpoint.  Only the removal of a live process's PID file as a leftover opens
\* the way for a second one; nothing else does, neither overlapping starts nor
\* crashes, failures, reused PIDs or leftovers.  None ever runs next to a daemon
\* of an older build (claim_pid_file, main).
OneDaemon ==
    /\ ~stolen => \A p, q \in Pids : proc[p] \in Owning /\ proc[q] \in Owning => p = q
    /\ legacy = "live" => \A p \in Pids : proc[p] \notin Owning

\* A serving daemon keeps the SSH endpoint: no later process, however it ends,
\* takes the socket away from it (start_server_with_endpoint, remove_path).
EndpointHeld == ~stolen => \A p \in Pids : proc[p] \in {"loading", "serving"} => sock = p

\* `stop` reports "Agent stopped." only when the daemon it reached has left its
\* loop or died, whatever became of the reply (cmd_stop).
StopTruthful == ~stolen /\ CliAt("stopped") => cli.target = NoPid
=============================================================================
