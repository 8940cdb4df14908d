------------------------ MODULE DaemonLifecycleProofs ------------------------
(***************************************************************************)
(* For every set of process ids, and with overlapping starts, crashes,     *)
(* failing file operations, reused PIDs, clients that give up and a daemon *)
(* of an older build: as long as no starting process removes the PID file  *)
(* of a live one as a leftover there is at most one daemon, it keeps its   *)
(* endpoint, and `stop` tells the truth.                                   *)
(***************************************************************************)
EXTENDS DaemonLifecycle, TLAPS

\* Until a live claim is removed, the PID file belongs to whoever is past the
\* claim, and is the empty file of whoever has just created it.  A daemon of an
\* older build was looked for before the PID was written, and never comes back.
ClaimInv ==
    /\ ~stolen => \A p \in Pids : proc[p] \in Owning => pidfile = [by |-> p, text |-> TRUE]
    /\ ~stolen => \A p \in Pids : proc[p] \in Holding => pidfile = [by |-> p, text |-> FALSE]
    /\ \A p \in Pids : proc[p] \in Owning \cup {"write"} => legacy # "live"

\* The client waits for a daemon only as long as that one serves.
TargetInv ==
    /\ cli.target # NoPid => In(cli.target, "serving")
    /\ StopTruthful

LifeInv == LifeTypeOK /\ ClaimInv /\ EndpointHeld /\ TargetInv

\* The fields of the PID file and of the client.
LEMMA FieldTypes ==
    ASSUME LifeTypeOK
    PROVE  /\ pidfile.by \in AnyPid /\ pidfile.text \in BOOLEAN
           /\ cli.pc \in CliSteps /\ cli.cmd \in {"stop", "restart"} /\ cli.target \in AnyPid
           /\ pidfile.text => pidfile.by \in Pids
<1>1. cli.pc \in CliSteps /\ cli.cmd \in {"stop", "restart"} /\ cli.target \in AnyPid
  BY DEF LifeTypeOK, Clients
<1>2. CASE pidfile = NoFile
  BY <1>1, <1>2 DEF NoFile, AnyPid
<1>3. CASE pidfile \in [by : Pids, text : BOOLEAN]
  BY <1>1, <1>3 DEF AnyPid
<1>. QED
  BY <1>2, <1>3 DEF LifeTypeOK, Files

\* A process changes its step and nothing else about the processes.
LEMMA GotoOne ==
    ASSUME LifeTypeOK, NEW p \in Pids, NEW pc \in Procs, Goto(p, pc)
    PROVE  /\ proc' \in [Pids -> Procs]
           /\ proc'[p] = pc
           /\ \A q \in Pids : q # p => proc'[q] = proc[q]
BY DEF LifeTypeOK, Goto

\* Nothing runs and there is no file: the invariant holds at the start.
LEMMA LifeInit == Init => LifeInv
<1>. SUFFICES ASSUME Init PROVE LifeInv
  OBVIOUS
<1>1. LifeTypeOK
  BY DEF Init, LifeTypeOK, Procs, Files, AnyPid, Clients, CliSteps
<1>. QED
  BY <1>1 DEF Init, LifeInv, ClaimInv, TargetInv, EndpointHeld, StopTruthful, Owning, Holding,
              CliAt

-----------------------------------------------------------------------------
(* Types.                                                                  *)

\* The client's step changes without its type.
LEMMA CliTypes ==
    ASSUME LifeTypeOK
    PROVE  /\ \A pc \in CliSteps : [cli EXCEPT !.pc = pc] \in Clients
           /\ \A t \in AnyPid : [cli EXCEPT !.pc = "await", !.target = t] \in Clients
           /\ \A p \in Pids : Released(p) \in Clients
BY DEF LifeTypeOK, Clients, CliSteps, Released, AnyPid

\* Every step of a process, of the client and of the older daemon keeps the types.
LEMMA LifeTypeNext == LifeTypeOK /\ [Next]_vars => LifeTypeOK'
<1>. SUFFICES ASSUME LifeTypeOK, [Next]_vars PROVE LifeTypeOK'
  OBVIOUS
<1>. USE DEF files, ends
<1>1. ASSUME NEW p \in Pids, Run(p) PROVE LifeTypeOK'
  <2>1. proc' \in [Pids -> Procs]
    BY <1>1, GotoOne DEF Run, Procs
  <2>. QED
    BY <1>1, <2>1 DEF Run, LifeTypeOK
<1>2. ASSUME NEW p \in Pids, Claim(p) PROVE LifeTypeOK'
  <2>1. proc' \in [Pids -> Procs]
    BY <1>2, GotoOne DEF Claim, ClaimCreate, ClaimLegacy, ClaimGiveUp, ClaimWrite, ClaimTidy,
                         ClaimCheck, ClaimRemove, ClaimFails, Procs
  <2>2. pidfile' \in Files
    <3>1. [by |-> p, text |-> FALSE] \in Files /\ NoFile \in Files
      BY DEF Files
    <3>2. pidfile.by = p => [pidfile EXCEPT !.text = TRUE] \in Files
      <4>1. CASE pidfile = NoFile
        BY <4>1, LifecycleAssumption DEF NoFile
      <4>2. CASE pidfile \in [by : Pids, text : BOOLEAN]
        BY <4>2 DEF Files
      <4>. QED
        BY <4>1, <4>2 DEF LifeTypeOK, Files
    <3>. QED
      BY <1>2, <3>1, <3>2 DEF Claim, ClaimCreate, ClaimLegacy, ClaimGiveUp, ClaimWrite,
                              ClaimTidy, ClaimCheck, ClaimRemove, ClaimFails, LifeTypeOK
  <2>3. legacy' \in {"none", "stale", "live"}
    BY <1>2 DEF Claim, ClaimCreate, ClaimLegacy, ClaimGiveUp, ClaimWrite, ClaimTidy,
                ClaimCheck, ClaimRemove, ClaimFails, LifeTypeOK
  <2>4. UNCHANGED <<sock, ctl, ctask, inbox, cli>>
    BY <1>2 DEF Claim, ClaimCreate, ClaimLegacy, ClaimGiveUp, ClaimWrite, ClaimTidy,
                ClaimCheck, ClaimRemove, ClaimFails
  <2>5. stolen' \in BOOLEAN
    BY <1>2, Zenon DEF Claim, ClaimCreate, ClaimLegacy, ClaimGiveUp, ClaimWrite, ClaimTidy,
                ClaimCheck, ClaimRemove, ClaimFails, LifeTypeOK
  <2>. QED
    BY <2>1, <2>2, <2>3, <2>4, <2>5 DEF LifeTypeOK
<1>3. ASSUME NEW p \in Pids, Daemon(p) PROVE LifeTypeOK'
  <2>1. proc' \in [Pids -> Procs]
    BY <1>3, GotoOne DEF Daemon, BindEndpoint, Serve, StartFails, BindControl, Leave,
                         UnbindControl, RemovePidFile, Ends, Procs, LifeTypeOK
  <2>2. pidfile' \in Files /\ legacy' \in {"none", "stale", "live"}
    BY <1>3 DEF Daemon, BindEndpoint, Serve, StartFails, BindControl, Leave,
                UnbindControl, RemovePidFile, Ends, LifeTypeOK, Files
  <2>3. sock' \in AnyPid /\ ctl' \in AnyPid
    BY <1>3 DEF Daemon, BindEndpoint, Serve, StartFails, BindControl, Leave,
                UnbindControl, RemovePidFile, Ends, LifeTypeOK, AnyPid
  <2>4. ctask' \in [Pids -> {"none", "spawned", "up", "gone"}]
    BY <1>3 DEF Daemon, BindEndpoint, Serve, StartFails, BindControl, Leave,
                UnbindControl, RemovePidFile, Ends, LifeTypeOK
  <2>5. inbox' \in SUBSET Pids
    BY <1>3 DEF Daemon, BindEndpoint, Serve, StartFails, BindControl, Leave,
                UnbindControl, RemovePidFile, Ends, LifeTypeOK
  <2>6. cli' \in Clients
    BY <1>3, CliTypes DEF Daemon, BindEndpoint, Serve, StartFails, BindControl, Leave,
                UnbindControl, RemovePidFile, Ends, LifeTypeOK
  <2>7. stolen' = stolen
    BY <1>3 DEF Daemon, BindEndpoint, Serve, StartFails, BindControl, Leave,
                UnbindControl, RemovePidFile, Ends
  <2>. QED
    BY <2>1, <2>2, <2>3, <2>4, <2>5, <2>6, <2>7 DEF LifeTypeOK
<1>4. ASSUME Contact PROVE LifeTypeOK'
  <2>1. CASE \E p \in Pids : Reachable(p)
    <3>1. ctl \in Pids
      BY <2>1 DEF Reachable
    <3>2. cli' \in Clients /\ inbox' \in SUBSET Pids
      BY <1>4, <2>1, <3>1, CliTypes DEF Contact, LifeTypeOK, AnyPid
    <3>. QED
      BY <1>4, <3>2 DEF Contact, LifeTypeOK
  <2>2. CASE ~ \E p \in Pids : Reachable(p)
    <3>1. cli' \in Clients /\ inbox' = inbox
      BY <1>4, <2>2, CliTypes DEF Contact, CliStep, CliSteps
    <3>. QED
      BY <1>4, <3>1 DEF Contact, LifeTypeOK
  <2>. QED
    BY <2>1, <2>2
<1>5. ASSUME Answered \/ Wait PROVE LifeTypeOK'
  <2>1. cli' \in Clients
    BY <1>5, CliTypes DEF Answered, Wait, CliStep, CliSteps
  <2>. QED
    BY <1>5, <2>1 DEF Answered, Wait, LifeTypeOK
<1>6. ASSUME NEW p \in Pids, SpawnAgent(p) PROVE LifeTypeOK'
  <2>1. proc' \in [Pids -> Procs]
    BY <1>6, GotoOne DEF SpawnAgent, Procs
  <2>2. cli' \in Clients
    BY <1>6, CliTypes DEF SpawnAgent, CliStep, CliSteps
  <2>. QED
    BY <1>6, <2>1, <2>2 DEF SpawnAgent, LifeTypeOK
<1>7. ASSUME LegacyExits PROVE LifeTypeOK'
  BY <1>7 DEF LegacyExits, LifeTypeOK
<1>8. ASSUME NEW c \in Requested, Request(c) PROVE LifeTypeOK'
  <2>1. cli' \in Clients
    BY <1>8, LifecycleAssumption DEF Request, Clients, CliSteps, AnyPid
  <2>. QED
    BY <1>8, <2>1 DEF Request, LifeTypeOK
<1>9. ASSUME UNCHANGED vars PROVE LifeTypeOK'
  BY <1>9 DEF vars, LifeTypeOK
<1>. QED
  BY <1>1, <1>2, <1>3, <1>4, <1>5, <1>6, <1>7, <1>8, <1>9 DEF Next, Client

-----------------------------------------------------------------------------
(* The claim and the endpoint.                                             *)

\* A process that starts holds nothing yet (Run, spawn_background_agent).
LEMMA StartKeepsClaim ==
    ASSUME LifeTypeOK, ClaimInv, EndpointHeld,
           NEW p \in Pids, CanStart(p), Goto(p, "claim"),
           UNCHANGED <<pidfile, legacy, sock, stolen>>
    PROVE  ClaimInv' /\ EndpointHeld'
<1>1. /\ proc'[p] = "claim" /\ \A q \in Pids : q # p => proc'[q] = proc[q]
  BY GotoOne DEF Procs
<1>. QED
  BY <1>1 DEF ClaimInv, EndpointHeld, Owning, Holding

\* Every step of claim_pid_file keeps the claim exclusive, or removes a live one.
LEMMA ClaimKeepsClaim ==
    ASSUME LifeTypeOK, ClaimInv, EndpointHeld, NEW p \in Pids, Claim(p)
    PROVE  ClaimInv' /\ EndpointHeld'
<1>. USE DEF files, ends
<1>0. /\ \A pc \in Procs : Goto(p, pc) =>
           proc'[p] = pc /\ \A q \in Pids : q # p => proc'[q] = proc[q]
      /\ sock' = sock
  BY GotoOne DEF Claim, ClaimCreate, ClaimLegacy, ClaimGiveUp, ClaimWrite, ClaimTidy,
                 ClaimCheck, ClaimRemove, ClaimFails
<1>n. ~stolen => \A q \in Pids : proc[q] \in Owning \cup Holding => pidfile.by = q
  BY DEF ClaimInv
<1>1. CASE ClaimCreate(p)
  <2>1. CASE pidfile = NoFile
    <3>1. /\ proc'[p] = "created" /\ pidfile' = [by |-> p, text |-> FALSE]
          /\ \A q \in Pids : q # p => proc'[q] = proc[q]
      BY <1>0, <1>1, <2>1 DEF ClaimCreate, MayCreate, Procs
    <3>2. ~stolen => \A q \in Pids : proc[q] \notin Owning \cup Holding
      BY <1>n, <2>1, LifecycleAssumption DEF NoFile
    <3>3. legacy' = legacy /\ stolen' = stolen
      BY <1>1 DEF ClaimCreate
    <3>. QED
      BY <1>0, <3>1, <3>2, <3>3 DEF ClaimInv, EndpointHeld, Owning, Holding
  <2>2. CASE pidfile # NoFile
    <3>1. /\ proc'[p] = "check" /\ pidfile' = pidfile
          /\ \A q \in Pids : q # p => proc'[q] = proc[q]
      BY <1>0, <1>1, <2>2 DEF ClaimCreate, MayCreate, Procs
    <3>2. legacy' = legacy /\ stolen' = stolen
      BY <1>1 DEF ClaimCreate
    <3>. QED
      BY <1>0, <3>1, <3>2 DEF ClaimInv, EndpointHeld, Owning, Holding
  <2>. QED
    BY <2>1, <2>2
<1>2. CASE ClaimLegacy(p)
  <2>1. /\ proc[p] = "created" /\ UNCHANGED <<pidfile, legacy, stolen>>
        /\ proc'[p] = IF legacy = "live" THEN "giveup" ELSE "write"
        /\ \A q \in Pids : q # p => proc'[q] = proc[q]
    BY <1>0, <1>2 DEF ClaimLegacy, Procs, In
  <2>. QED
    BY <1>0, <2>1 DEF ClaimInv, EndpointHeld, Owning, Holding
<1>3. CASE ClaimGiveUp(p)
  <2>1. /\ proc[p] = "giveup" /\ pidfile' = NoFile /\ UNCHANGED <<legacy, stolen>>
        /\ proc'[p] = "exit"
        /\ \A q \in Pids : q # p => proc'[q] = proc[q]
    BY <1>0, <1>3 DEF ClaimGiveUp, Procs, In
  <2>2. ~stolen => \A q \in Pids : q # p => proc[q] \notin Owning \cup Holding
    BY <1>n, <2>1 DEF Holding
  <2>. QED
    BY <1>0, <2>1, <2>2 DEF ClaimInv, EndpointHeld, Owning, Holding
<1>4. CASE ClaimWrite(p)
  <2>1. /\ proc[p] = "write" /\ UNCHANGED <<legacy, stolen>>
        /\ proc'[p] = "tidy"
        /\ \A q \in Pids : q # p => proc'[q] = proc[q]
    BY <1>0, <1>4 DEF ClaimWrite, Procs, In
  <2>2. ~stolen => pidfile' = [by |-> p, text |-> TRUE]
    <3>1. ~stolen => pidfile = [by |-> p, text |-> FALSE]
      BY <2>1 DEF ClaimInv, Holding
    <3>2. ASSUME pidfile = [by |-> p, text |-> FALSE]
          PROVE  pidfile' = [by |-> p, text |-> TRUE]
      <4>1. pidfile' = [pidfile EXCEPT !.text = TRUE]
        BY <1>4, <3>2 DEF ClaimWrite
      <4>. QED
        BY <3>2, <4>1
    <3>. QED
      BY <3>1, <3>2
  <2>3. ~stolen => \A q \in Pids : q # p => proc[q] \notin Owning \cup Holding
    BY <1>n, <2>1 DEF Holding
  <2>. QED
    BY <1>0, <2>1, <2>2, <2>3 DEF ClaimInv, EndpointHeld, Owning, Holding
<1>5. CASE ClaimTidy(p)
  <2>1. /\ proc[p] = "tidy" /\ UNCHANGED <<pidfile, stolen>>
        /\ legacy' # "live" \/ legacy' = legacy
        /\ proc'[p] = "starting"
        /\ \A q \in Pids : q # p => proc'[q] = proc[q]
    BY <1>0, <1>5 DEF ClaimTidy, Procs, In
  <2>. QED
    BY <1>0, <2>1 DEF ClaimInv, EndpointHeld, Owning, Holding
<1>6. CASE ClaimCheck(p)
  <2>1. /\ proc[p] = "check" /\ UNCHANGED <<pidfile, legacy, stolen>>
        /\ proc'[p] \in {"exit", "remove"}
        /\ \A q \in Pids : q # p => proc'[q] = proc[q]
    BY <1>0, <1>6 DEF ClaimCheck, Procs, In
  <2>. QED
    BY <1>0, <2>1 DEF ClaimInv, EndpointHeld, Owning, Holding
<1>7. CASE ClaimRemove(p)
  <2>1. /\ proc[p] = "remove" /\ pidfile' = NoFile /\ legacy' = legacy
        /\ proc'[p] = "claim"
        /\ \A q \in Pids : q # p => proc'[q] = proc[q]
    BY <1>0, <1>7 DEF ClaimRemove, Procs, In
  <2>2. ~stolen' => ~stolen /\ ~LiveClaim
    BY <1>7, Zenon DEF ClaimRemove
  <2>3. ~stolen' => \A q \in Pids : proc[q] \notin Owning \cup Holding
    BY <1>n, <2>2 DEF LiveClaim
  <2>. QED
    BY <1>0, <2>1, <2>2, <2>3 DEF ClaimInv, EndpointHeld, Owning, Holding
<1>8. CASE ClaimFails(p)
  <2>1. /\ UNCHANGED <<pidfile, legacy, stolen>>
        /\ proc'[p] = "exit"
        /\ \A q \in Pids : q # p => proc'[q] = proc[q]
    BY <1>0, <1>8 DEF ClaimFails, Procs
  <2>. QED
    BY <1>0, <2>1 DEF ClaimInv, EndpointHeld, Owning, Holding
<1>. QED
  BY <1>1, <1>2, <1>3, <1>4, <1>5, <1>6, <1>7, <1>8 DEF Claim

\* Serving, leaving and dying keep it too: an owner removes its own file only.
LEMMA DaemonKeepsClaim ==
    ASSUME LifeTypeOK, ClaimInv, EndpointHeld, NEW p \in Pids, Daemon(p)
    PROVE  ClaimInv' /\ EndpointHeld'
<1>. USE DEF files, ends
<1>0. \A pc \in Procs : Goto(p, pc) =>
           proc'[p] = pc /\ \A q \in Pids : q # p => proc'[q] = proc[q]
  BY GotoOne
<1>n. ~stolen => \A q \in Pids : proc[q] \in Owning \cup Holding => pidfile.by = q
  BY DEF ClaimInv
<1>1. CASE BindEndpoint(p)
  <2>1. /\ proc[p] = "starting" /\ proc'[p] = "loading" /\ sock' = p
        /\ UNCHANGED <<pidfile, legacy, stolen>>
        /\ \A q \in Pids : q # p => proc'[q] = proc[q]
    BY <1>0, <1>1 DEF BindEndpoint, Procs, In
  <2>2. ~stolen => \A q \in Pids : q # p => proc[q] \notin Owning
    BY <1>n, <2>1 DEF Owning
  <2>. QED
    BY <2>1, <2>2 DEF ClaimInv, EndpointHeld, Owning, Holding
<1>2. CASE Serve(p) \/ StartFails(p) \/ Leave(p)
  <2>1. /\ proc[p] \in {"starting", "loading", "serving"} /\ proc'[p] \in {"serving", "unpid"}
        /\ proc[p] # "loading" => proc'[p] = "unpid"
        /\ UNCHANGED <<pidfile, legacy, sock, stolen>>
        /\ \A q \in Pids : q # p => proc'[q] = proc[q]
    BY <1>0, <1>2 DEF Serve, StartFails, Leave, Procs, In
  <2>. QED
    BY <2>1 DEF ClaimInv, EndpointHeld, Owning, Holding
<1>3. CASE BindControl(p) \/ UnbindControl(p)
  BY <1>3 DEF BindControl, UnbindControl, ClaimInv, EndpointHeld
<1>4. CASE RemovePidFile(p)
  <2>1. /\ proc[p] = "unpid" /\ proc'[p] = "exit" /\ pidfile' = NoFile
        /\ UNCHANGED <<legacy, sock, stolen>>
        /\ \A q \in Pids : q # p => proc'[q] = proc[q]
    BY <1>0, <1>4 DEF RemovePidFile, Procs, In
  <2>2. ~stolen => \A q \in Pids : q # p => proc[q] \notin Owning \cup Holding
    BY <1>n, <2>1 DEF Owning
  <2>. QED
    BY <2>1, <2>2 DEF ClaimInv, EndpointHeld, Owning, Holding
<1>5. CASE Ends(p)
  <2>1. /\ proc'[p] = "off" /\ UNCHANGED <<pidfile, legacy, sock, stolen>>
        /\ \A q \in Pids : q # p => proc'[q] = proc[q]
    BY <1>0, <1>5 DEF Ends, Procs
  <2>. QED
    BY <2>1 DEF ClaimInv, EndpointHeld, Owning, Holding
<1>. QED
  BY <1>1, <1>2, <1>3, <1>4, <1>5 DEF Daemon

\* The client changes nothing of it, except that restart starts a process; the
\* older daemon can only go away.
LEMMA ClaimNext ==
    ASSUME LifeTypeOK, ClaimInv, EndpointHeld, [Next]_vars
    PROVE  ClaimInv' /\ EndpointHeld'
<1>. USE DEF files, ends
<1>1. ASSUME NEW p \in Pids, Run(p) PROVE ClaimInv' /\ EndpointHeld'
  BY <1>1, StartKeepsClaim DEF Run
<1>2. ASSUME NEW p \in Pids, SpawnAgent(p) PROVE ClaimInv' /\ EndpointHeld'
  BY <1>2, StartKeepsClaim DEF SpawnAgent
<1>3. ASSUME Contact \/ Answered \/ Wait \/ (\E c \in Requested : Request(c)) \/ UNCHANGED vars
      PROVE ClaimInv' /\ EndpointHeld'
  <2>1. UNCHANGED <<proc, pidfile, legacy, sock, stolen>>
    BY <1>3 DEF Contact, Answered, Wait, Request, vars
  <2>. QED
    BY <2>1 DEF ClaimInv, EndpointHeld
<1>4. ASSUME LegacyExits PROVE ClaimInv' /\ EndpointHeld'
  BY <1>4 DEF LegacyExits, ClaimInv, EndpointHeld
<1>. QED
  BY <1>1, <1>2, <1>3, <1>4, ClaimKeepsClaim, DaemonKeepsClaim DEF Next, Client

-----------------------------------------------------------------------------
(* The client.                                                             *)

\* The wait of `stop` ends only when the daemon it reached is no longer serving:
\* a serving daemon owns the PID file and is alive.
LEMMA TargetNext ==
    ASSUME LifeTypeOK, ClaimInv, TargetInv, [Next]_vars
    PROVE  TargetInv'
<1>. USE DEF files, ends
<1>. DEFINE Kept == cli.target # NoPid => proc'[cli.target] = "serving"
<1>0. cli.target # NoPid => cli.target \in Pids
  BY FieldTypes DEF AnyPid
<1>s. ~stolen' => ~stolen
  BY Zenon DEF Next, Client, Run, Claim, ClaimCreate, ClaimLegacy, ClaimGiveUp, ClaimWrite,
        ClaimTidy, ClaimCheck, ClaimRemove, ClaimFails, Daemon, BindEndpoint, Serve, StartFails,
        BindControl, Leave, UnbindControl, RemovePidFile, Ends, LegacyExits, Contact, Answered,
        Wait, SpawnAgent, Request, vars
<1>1. ASSUME cli' = cli, Kept PROVE TargetInv'
  BY <1>s, <1>1 DEF TargetInv, StopTruthful, CliAt, In
<1>2. ASSUME NEW p \in Pids, NEW pc \in Procs, Goto(p, pc), proc[p] # "serving" PROVE Kept
  BY <1>0, <1>2, GotoOne DEF TargetInv, In
<1>3. ASSUME NEW p \in Pids, Run(p) PROVE TargetInv'
  BY <1>1, <1>2, <1>3 DEF Run, CanStart, In, Procs
<1>4. ASSUME NEW p \in Pids, Claim(p) PROVE TargetInv'
  <2>1. proc[p] # "serving" /\ cli' = cli /\ \E pc \in Procs : Goto(p, pc)
    BY <1>4 DEF Claim, ClaimCreate, ClaimLegacy, ClaimGiveUp, ClaimWrite, ClaimTidy,
                ClaimCheck, ClaimRemove, ClaimFails, In, Procs
  <2>. QED
    BY <1>1, <1>2, <2>1
<1>5. ASSUME NEW p \in Pids, BindEndpoint(p) \/ Serve(p) \/ StartFails(p) \/ RemovePidFile(p)
      PROVE  TargetInv'
  <2>1. proc[p] # "serving" /\ cli' = cli /\ \E pc \in Procs : Goto(p, pc)
    BY <1>5 DEF BindEndpoint, Serve, StartFails, RemovePidFile, In, Procs
  <2>. QED
    BY <1>1, <1>2, <2>1
<1>6. ASSUME NEW p \in Pids, Leave(p) \/ Ends(p) PROVE TargetInv'
  <2>1. cli' = Released(p) /\ \A q \in Pids : q # p => proc'[q] = proc[q]
    BY <1>6, GotoOne DEF Leave, Ends, Procs
  <2>2. CASE cli.target = p
    <3>1. cli'.target = NoPid
      BY <2>1, <2>2 DEF Released, LifeTypeOK, Clients
    <3>. QED
      BY <3>1 DEF TargetInv, StopTruthful
  <2>3. CASE cli.target # p
    BY <1>0, <1>1, <2>1, <2>3 DEF Released, TargetInv, In
  <2>. QED
    BY <2>2, <2>3
<1>7. ASSUME NEW p \in Pids, BindControl(p) \/ UnbindControl(p) PROVE TargetInv'
  BY <1>1, <1>7 DEF BindControl, UnbindControl, TargetInv, In
<1>8. ASSUME Contact PROVE TargetInv'
  <2>1. proc' = proc
    BY <1>8 DEF Contact
  <2>2. CASE \E p \in Pids : Reachable(p)
    <3>1. cli'.pc = "await" /\ cli'.target = IF In(ctl, "serving") THEN ctl ELSE NoPid
      BY <1>8, <2>2 DEF Contact, LifeTypeOK, Clients
    <3>. QED
      BY <2>1, <3>1 DEF TargetInv, StopTruthful, CliAt, In
  <2>3. CASE ~ \E p \in Pids : Reachable(p)
    <3>1. cli'.pc \in {"none", "spawn"} /\ cli'.target = cli.target
      BY <1>8, <2>3 DEF Contact, CliStep, LifeTypeOK, Clients
    <3>. QED
      BY <2>1, <3>1 DEF TargetInv, StopTruthful, CliAt, In
  <2>. QED
    BY <2>2, <2>3
<1>9. ASSUME Answered PROVE TargetInv'
  <2>1. proc' = proc /\ cli'.target = cli.target /\ cli'.pc \in {"wait", "failed"}
    BY <1>9 DEF Answered, CliStep, LifeTypeOK, Clients
  <2>. QED
    BY <2>1 DEF TargetInv, StopTruthful, CliAt, In
<1>10. ASSUME Wait PROVE TargetInv'
  <2>1. /\ proc' = proc /\ cli'.target = cli.target
        /\ cli'.pc = "stopped" => ~IsDaemonRunning
    BY <1>10 DEF Wait, CliStep, LifeTypeOK, Clients, WaitOver
  <2>2. ~stolen /\ cli.target # NoPid => OwnerAlive
    <3>. SUFFICES ASSUME ~stolen, cli.target # NoPid PROVE OwnerAlive
      OBVIOUS
    <3>1. cli.target \in Pids /\ proc[cli.target] = "serving"
      BY <1>0, FieldTypes DEF TargetInv, In
    <3>2. pidfile = [by |-> cli.target, text |-> TRUE]
      BY <3>1 DEF ClaimInv, Owning
    <3>. QED
      BY <3>1, <3>2 DEF OwnerAlive
  <2>. QED
    BY <1>s, <2>1, <2>2 DEF TargetInv, StopTruthful, CliAt, In, IsDaemonRunning
<1>11. ASSUME NEW p \in Pids, SpawnAgent(p) PROVE TargetInv'
  <2>1. cli'.target = cli.target /\ cli'.pc = "started" /\ Kept
    BY <1>2, <1>11 DEF SpawnAgent, CliStep, CanStart, In, LifeTypeOK, Clients, Procs
  <2>. QED
    BY <2>1 DEF TargetInv, StopTruthful, CliAt, In
<1>12. ASSUME NEW c \in Requested, Request(c) PROVE TargetInv'
  BY <1>12 DEF Request, TargetInv, StopTruthful, CliAt
<1>13. ASSUME LegacyExits \/ UNCHANGED vars PROVE TargetInv'
  BY <1>1, <1>13 DEF LegacyExits, vars, TargetInv, In
<1>. QED
  BY <1>3, <1>4, <1>5, <1>6, <1>7, <1>8, <1>9, <1>10, <1>11, <1>12, <1>13
  DEF Next, Client, Daemon

\* The invariant of the lifecycle is inductive.
LEMMA LifeInductive == Spec => []LifeInv
<1>1. LifeInv /\ [Next]_vars => LifeInv'
  BY LifeTypeNext, ClaimNext, TargetNext DEF LifeInv
<1>. QED
  BY <1>1, LifeInit, PTL DEF Spec

-----------------------------------------------------------------------------
\* However starts overlap and whatever crashes, fails, is left behind or reuses a
\* PID, there is no second daemon before a live process's PID file is removed as
\* a leftover, and never one next to an older build (claim_pid_file).
THEOREM SingleDaemon == Spec => []OneDaemon
<1>1. LifeInv => OneDaemon
  <2>. SUFFICES ASSUME LifeInv PROVE OneDaemon
    OBVIOUS
  <2>1. ~stolen => \A p \in Pids : proc[p] \in Owning => pidfile.by = p
    BY DEF LifeInv, ClaimInv
  <2>. QED
    BY <2>1 DEF LifeInv, ClaimInv, OneDaemon
<1>. QED
  BY <1>1, LifeInductive, PTL

\* Until then the daemon keeps the SSH endpoint it bound (start_server_with_endpoint).
THEOREM EndpointKept == Spec => []EndpointHeld
<1>1. LifeInv => EndpointHeld
  BY DEF LifeInv
<1>. QED
  BY <1>1, LifeInductive, PTL

\* Until then `sshwarden stop` never reports a daemon stopped that still serves
\* (cmd_stop, is_daemon_running).
THEOREM StopIsTruthful == Spec => []StopTruthful
<1>1. LifeInv => StopTruthful
  BY DEF LifeInv, TargetInv
<1>. QED
  BY <1>1, LifeInductive, PTL
=============================================================================
