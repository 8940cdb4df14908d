-------------------------- MODULE HostBindingsProofs --------------------------
(***************************************************************************)
(* HostBindings for any number of keys, hosts and processes: its types, in *)
(* particular that no template placeholder and no invalid pattern reaches  *)
(* bindings.json; that updates under the file lock exclude each other; and *)
(* what bindings.json and the snippet have to do with each other, with     *)
(* every fault and overlap the configuration allows.                       *)
(***************************************************************************)
EXTENDS HostBindings, TLAPS

-----------------------------------------------------------------------------
(* The operators.                                                          *)

LEMMA NothingType == Nothing \in Bindings
BY DEF Nothing, Bindings

LEMMA IdleType == Idle \in Jobs
BY NothingType DEF Idle, Jobs, Steps, Ops, Locked

LEMMA JobFields ==
    ASSUME NEW j \in Jobs
    PROVE  /\ j.pc \in Steps /\ j.op \in Ops /\ j.keys \subseteq Keys /\ j.hosts \subseteq Hosts
           /\ j.key \in Keys \cup {NoKey} /\ j.file \in Bindings /\ j.clean \in BOOLEAN
BY DEF Jobs

LEMMA PcUpdate ==
    ASSUME NEW j \in Jobs, NEW pc \in Steps
    PROVE  [j EXCEPT !.pc = pc] \in Jobs /\ [j EXCEPT !.pc = pc].pc = pc
BY DEF Jobs

LEMMA JobUpdates ==
    ASSUME NEW j \in Jobs, NEW pc \in Steps, NEW file \in Bindings, NEW b \in BOOLEAN
    PROVE  /\ [j EXCEPT !.clean = b] \in Jobs /\ [j EXCEPT !.clean = b].pc = j.pc
           /\ [j EXCEPT !.pc = pc, !.file = file] \in Jobs
           /\ [j EXCEPT !.file = file, !.pc = pc] \in Jobs
           /\ [j EXCEPT !.pc = pc, !.clean = b] \in Jobs
           /\ [j EXCEPT !.pc = pc, !.file = file].pc = pc
           /\ [j EXCEPT !.file = file, !.pc = pc].pc = pc
           /\ [j EXCEPT !.pc = pc, !.clean = b].pc = pc
BY DEF Jobs

\* What is imported is a set of valid hosts, whatever the user wrote.
LEMMA HostLineType == ASSUME NEW line \in Lines PROVE HostLine(line) \subseteq Hosts
<1>1. CASE Invalid \in line
  BY <1>1 DEF HostLine
<1>2. CASE Invalid \notin line
  <2>1. line \in SUBSET (Hosts \cup {Placeholder}) \/ line = {Invalid}
    BY Zenon DEF Lines
  <2>2. line # {Invalid}
    BY <1>2
  <2>. QED
    BY <1>2, <2>1, <2>2 DEF HostLine
<1>. QED
  BY <1>1, <1>2

LEMMA ImportedType ==
    ASSUME managed \in [Keys -> Lines], NEW file \in Bindings, NEW keys
    PROVE  Imported(file, keys) \in Bindings
BY HostLineType DEF Imported, Bindings

LEMMA PrunedType ==
    ASSUME NEW file \in Bindings, NEW keys
    PROVE  Pruned(file, keys) \in Bindings
BY DEF Pruned, Bindings

LEMMA SnippetType ==
    ASSUME NEW file \in Bindings, NEW keys
    PROVE  Snippet(file, keys) \in [Keys -> Lines]
BY DEF Snippet, Bindings, Lines

LEMMA ChangedType ==
    ASSUME NEW j \in Jobs, NEW file \in Bindings
    PROVE  Changed(j, file) \in Bindings
<1>1. /\ j.hosts \subseteq Hosts /\ \A k \in Keys : file[k] \subseteq Hosts
  BY JobFields DEF Bindings
<1>2. CASE j.op = "bind"
  BY <1>1, <1>2 DEF Changed, Bindings
<1>3. CASE j.op = "unbind"
  BY <1>1, <1>3 DEF Changed, Bindings
<1>4. CASE j.op = "clear"
  BY <1>1, <1>4 DEF Changed, Bindings
<1>5. CASE j.op \notin {"bind", "unbind", "clear"}
  BY <1>1, <1>5 DEF Changed, Bindings
<1>. QED
  BY <1>2, <1>3, <1>4, <1>5

LEMMA AfterTypes ==
    ASSUME NEW op
    PROVE  AfterImport(op) \in Steps \ Locked /\ AfterWrite(op) \in Steps \ Locked
BY DEF AfterImport, AfterWrite, Steps, Locked

LEMMA AfterUpdateType ==
    ASSUME NEW j \in Jobs
    PROVE  AfterUpdate(j) \in Jobs /\ AfterUpdate(j).pc = "load"
<1>1. [j EXCEPT !.pc = "load", !.file = Nothing] \in Jobs
  BY JobUpdates, NothingType DEF Steps
<1>2. [Idle EXCEPT !.pc = "load", !.op = j.op, !.keys = j.keys, !.clean = j.clean] \in Jobs
  BY JobFields, NothingType DEF Jobs, Idle, Steps
<1>. QED
  BY <1>1, <1>2 DEF AfterUpdate, Jobs, Idle

-----------------------------------------------------------------------------
(* The inductive invariant: types and exclusion.                           *)

Inv == HostTypeOK /\ UpdatesExclusive

LEMMA InitInv == Init => Inv
<1>. SUFFICES ASSUME Init PROVE Inv
  OBVIOUS
<1>1. Nothing \in [Keys -> Lines]
  BY DEF Nothing, Lines
<1>2. HostTypeOK
  BY <1>1, NothingType, IdleType DEF Init, HostTypeOK
<1>3. UpdatesExclusive
  BY DEF Init, UpdatesExclusive, Idle, Locked
<1>. QED
  BY <1>2, <1>3 DEF Inv

\* Marking the others as disturbed changes neither types nor steps.
LEMMA DisturbedType ==
    ASSUME job \in [Procs -> Jobs]
    PROVE  /\ Disturbed \in [Procs -> Jobs]
           /\ \A q \in Procs : Disturbed[q].pc = job[q].pc
<1>1. ASSUME NEW q \in Procs
      PROVE  [job[q] EXCEPT !.clean = FALSE] \in Jobs
             /\ [job[q] EXCEPT !.clean = FALSE].pc = job[q].pc
  BY DEF Jobs
<1>. QED
  BY <1>1 DEF Disturbed

LEMMA StartInv ==
    ASSUME Inv, NEW p \in Procs, NEW j \in Jobs, j.pc \in {"lock", "load"},
           job[p].pc \notin Locked, Start(p, j)
    PROVE  Inv'
<1>. USE DEF Inv, HostTypeOK, history
<1>1. ASSUME NEW b \in BOOLEAN
      PROVE  [j EXCEPT !.clean = b] \in Jobs /\ [j EXCEPT !.clean = b].pc = j.pc
  BY DEF Jobs
<1>2. job' \in [Procs -> Jobs]
  BY <1>1, DisturbedType DEF Start
<1>3. UpdatesExclusive'
  BY <1>1, DisturbedType DEF Start, UpdatesExclusive, Locked
<1>. QED
  BY <1>2, <1>3, NothingType DEF Start

\* What a step that only moves a process on has to keep.
LEMMA MoveInv ==
    ASSUME Inv, NEW p \in Procs, NEW j \in Jobs, j.pc \notin Locked,
           job' = [job EXCEPT ![p] = j],
           lock' = IF lock = p THEN NoProc ELSE lock
    PROVE  job' \in [Procs -> Jobs] /\ lock' \in Procs \cup {NoProc} /\ UpdatesExclusive'
BY DEF Inv, HostTypeOK, UpdatesExclusive

\* Such a step keeps the lock when the process does not hold it.
LEMMA StayInv ==
    ASSUME Inv, NEW p \in Procs, NEW j \in Jobs,
           j.pc \in Locked => job[p].pc \in Locked,
           job' = [job EXCEPT ![p] = j], UNCHANGED lock
    PROVE  job' \in [Procs -> Jobs] /\ UpdatesExclusive'
BY DEF Inv, HostTypeOK, UpdatesExclusive

-----------------------------------------------------------------------------
(* One lemma per group of actions.                                         *)

LEMMA BeginInv == ASSUME Inv, NEW p \in Procs, Begin(p) PROVE Inv'
<1>. USE DEF At
<1>0. /\ job[p] \in Jobs /\ cached \subseteq Keys
      /\ "idle" \notin Locked /\ "dialog" \notin Locked
  BY DEF Inv, HostTypeOK, Locked
<1>1. ASSUME NEW op \in Ops, NEW ks \in SUBSET Keys, NEW k \in Keys, NEW hs \in SUBSET Hosts
      PROVE  /\ [Idle EXCEPT !.pc = "lock", !.op = op, !.keys = ks, !.key = k, !.hosts = hs]
                  \in Jobs
             /\ [Idle EXCEPT !.pc = "lock", !.op = op, !.keys = ks, !.key = k] \in Jobs
  BY NothingType DEF Jobs, Idle, Steps
<1>2. ASSUME NEW op \in Ops, NEW ks \in SUBSET Keys
      PROVE  [Idle EXCEPT !.pc = "load", !.op = op, !.keys = ks] \in Jobs
  BY NothingType DEF Jobs, Idle, Steps
<1>3. ASSUME NEW k \in Keys, NEW hs \in (SUBSET Hosts) \ {{}}, CmdBind(p, k, hs) PROVE Inv'
  <2>. DEFINE j == [Idle EXCEPT !.pc = "lock", !.op = "bind", !.keys = cached, !.key = k,
                                !.hosts = hs]
  <2>1. j \in Jobs /\ j.pc = "lock"
    BY <1>0, <1>1 DEF Ops, Idle
  <2>2. Start(p, j) /\ job[p].pc \notin Locked
    BY <1>0, <1>3 DEF CmdBind
  <2>. HIDE DEF j
  <2>. QED
    BY <2>1, <2>2, StartInv
<1>4. ASSUME NEW k \in Keys, NEW h \in Hosts, CmdUnbind(p, k, h) PROVE Inv'
  <2>. DEFINE j == [Idle EXCEPT !.pc = "lock", !.op = "unbind", !.keys = cached, !.key = k,
                                !.hosts = {h}]
  <2>1. j \in Jobs /\ j.pc = "lock"
    <3>1. {h} \in SUBSET Hosts /\ "unbind" \in Ops /\ cached \in SUBSET Keys
      BY <1>0 DEF Ops
    <3>. QED
      BY <3>1, <1>1 DEF Idle
  <2>2. Start(p, j) /\ job[p].pc \notin Locked
    BY <1>0, <1>4 DEF CmdUnbind
  <2>. HIDE DEF j
  <2>. QED
    BY <2>1, <2>2, StartInv
<1>5. ASSUME NEW k \in Keys, NEW h \in Hosts, SaveDialog(p, k, h) PROVE Inv'
  <2>1. PICK hs \in {job[p].file[k] \cup {h}, job[p].file[k] \ {h}} :
           Start(p, [Idle EXCEPT !.pc = "lock", !.op = "dialog", !.keys = cached, !.key = k,
                                 !.hosts = hs])
    BY <1>5 DEF SaveDialog
  <2>2. hs \subseteq Hosts
    BY <1>0, <2>1, JobFields DEF Bindings
  <2>. DEFINE j == [Idle EXCEPT !.pc = "lock", !.op = "dialog", !.keys = cached, !.key = k,
                                !.hosts = hs]
  <2>3. j \in Jobs /\ j.pc = "lock"
    BY <1>0, <1>1, <2>2 DEF Ops, Idle
  <2>4. Start(p, j) /\ job[p].pc \notin Locked
    BY <1>0, <1>5, <2>1 DEF SaveDialog
  <2>. HIDE DEF j
  <2>. QED
    BY <2>3, <2>4, StartInv
<1>6. ASSUME NEW k \in Keys, CmdClear(p, k) PROVE Inv'
  <2>. DEFINE j == [Idle EXCEPT !.pc = "lock", !.op = "clear", !.keys = cached, !.key = k]
  <2>1. j \in Jobs /\ j.pc = "lock"
    BY <1>0, <1>1 DEF Ops, Idle
  <2>2. Start(p, j) /\ job[p].pc \notin Locked
    BY <1>0, <1>6 DEF CmdClear
  <2>. HIDE DEF j
  <2>. QED
    BY <2>1, <2>2, StartInv
<1>7. ASSUME NEW op \in Ops, NEW ks \in SUBSET Keys, At(p, "idle"),
             Start(p, [Idle EXCEPT !.pc = "load", !.op = op, !.keys = ks])
      PROVE  Inv'
  <2>. DEFINE j == [Idle EXCEPT !.pc = "load", !.op = op, !.keys = ks]
  <2>1. j \in Jobs /\ j.pc = "load" /\ job[p].pc \notin Locked
    BY <1>0, <1>2, <1>7 DEF Idle
  <2>. HIDE DEF j
  <2>. QED
    BY <1>7, <2>1, StartInv DEF j
<1>8. OpenDialog(p) \/ CmdList(p) \/ CmdWrite(p) \/ (\E ks \in SUBSET Keys : VaultSynced(p, ks))
      => Inv'
  BY <1>0, <1>7 DEF OpenDialog, CmdList, CmdWrite, VaultSynced, Ops
<1>. QED
  BY <1>3, <1>4, <1>5, <1>6, <1>8 DEF Begin

LEMMA UpdateInv ==
    ASSUME Inv, NEW p \in Procs,
           AcquireLock(p) \/ LockTimeout(p) \/ LockedLoad(p) \/ LockedImport(p) \/ LockedSave(p)
    PROVE  Inv'
<1>. USE DEF history
<1>0. /\ job \in [Procs -> Jobs] /\ job[p] \in Jobs /\ job[p].file \in Bindings
      /\ bindings \in Bindings /\ managed \in [Keys -> Lines]
  BY JobFields DEF Inv, HostTypeOK
<1>1. CASE AcquireLock(p)
  <2>1. job' = [job EXCEPT ![p] = [job[p] EXCEPT !.pc = "l_load"]]
    BY <1>1 DEF AcquireLock, Goto
  <2>2. [job[p] EXCEPT !.pc = "l_load"] \in Jobs
    BY <1>0, PcUpdate DEF Steps, Locked
  <2>3. UpdatesExclusive'
    BY <1>0, <1>1, <2>1, HostAssumption DEF AcquireLock, Inv, UpdatesExclusive
  <2>. QED
    BY <1>0, <1>1, <2>1, <2>2, <2>3 DEF AcquireLock, Inv, HostTypeOK
<1>2. CASE LockTimeout(p)
  BY <1>0, <1>2, IdleType, StayInv DEF LockTimeout, Idle, Locked, Inv, HostTypeOK
<1>3. CASE LockedLoad(p)
  <2>. DEFINE j == [job[p] EXCEPT !.pc = "l_read", !.file = bindings]
  <2>1. j \in Jobs /\ job' = [job EXCEPT ![p] = j]
    BY <1>0, <1>3, JobUpdates DEF LockedLoad, Steps, Locked
  <2>2. job[p].pc \in Locked
    BY <1>3 DEF LockedLoad, At, Locked
  <2>. HIDE DEF j
  <2>. QED
    BY <1>3, <2>1, <2>2, StayInv DEF LockedLoad, Inv, HostTypeOK
<1>4. CASE LockedImport(p)
  <2>. DEFINE j == [job[p] EXCEPT !.pc = "l_save", !.file = Imported(job[p].file, job[p].keys)]
  <2>1. j \in Jobs /\ job' = [job EXCEPT ![p] = j]
    BY <1>0, <1>4, JobUpdates, ImportedType DEF LockedImport, Steps, Locked
  <2>2. job[p].pc \in Locked
    BY <1>4 DEF LockedImport, At, Locked
  <2>. HIDE DEF j
  <2>. QED
    BY <1>4, <2>1, <2>2, StayInv DEF LockedImport, Inv, HostTypeOK
<1>5. CASE LockedSave(p)
  <2>. DEFINE j == IF Effective(job[p]) THEN AfterUpdate(job[p]) ELSE Idle
  <2>1. j \in Jobs /\ j.pc \notin Locked /\ job' = [job EXCEPT ![p] = j]
    BY <1>0, <1>5, AfterUpdateType, IdleType DEF LockedSave, Idle, Locked
  <2>2. lock = p /\ lock' = NoProc
    BY <1>5 DEF LockedSave, At, Inv, UpdatesExclusive, Locked
  <2>. HIDE DEF j
  <2>3. job' \in [Procs -> Jobs] /\ UpdatesExclusive'
    BY <2>1, <2>2, MoveInv
  <2>4. bindings' \in Bindings
    BY <1>0, <1>5, ChangedType DEF LockedSave
  <2>5. owed' \in Bindings /\ edit' \in Bindings
    BY <1>5 DEF LockedSave, Inv, HostTypeOK, Bindings
  <2>. QED
    BY <1>5, <2>2, <2>3, <2>4, <2>5 DEF LockedSave, Inv, HostTypeOK
<1>. QED
  BY <1>1, <1>2, <1>3, <1>4, <1>5

LEMMA SnippetInv ==
    ASSUME Inv, NEW p \in Procs,
           LoadBindings(p) \/ ImportManaged(p) \/ SaveImported(p) \/ Prune(p) \/ WriteSnippet(p)
    PROVE  Inv'
<1>. USE DEF history
<1>0. /\ job \in [Procs -> Jobs] /\ job[p] \in Jobs /\ job[p].file \in Bindings
      /\ bindings \in Bindings /\ managed \in [Keys -> Lines]
  BY JobFields DEF Inv, HostTypeOK
<1>1. CASE LoadBindings(p)
  <2>. DEFINE j == [job[p] EXCEPT !.pc = "read", !.file = bindings]
  <2>0. "read" \in Steps \ Locked
    BY DEF Steps, Locked
  <2>1. j \in Jobs /\ j.pc \notin Locked /\ job' = [job EXCEPT ![p] = j]
    BY <1>0, <1>1, <2>0, JobUpdates DEF LoadBindings
  <2>. HIDE DEF j
  <2>. QED
    BY <1>1, <2>1, StayInv DEF LoadBindings, Inv, HostTypeOK
<1>2. CASE ImportManaged(p)
  <2>. DEFINE file == Imported(job[p].file, job[p].keys)
              pc   == IF file # job[p].file THEN "save" ELSE AfterImport(job[p].op)
              j    == [job[p] EXCEPT !.file = file, !.pc = pc]
  <2>1. file \in Bindings
    BY <1>0, ImportedType
  <2>2. pc \in Steps \ Locked
    BY AfterTypes DEF Steps, Locked
  <2>3. job' = [job EXCEPT ![p] = j]
    BY <1>0, <1>2 DEF ImportManaged
  <2>. HIDE DEF file, pc
  <2>4. j \in Jobs /\ j.pc \notin Locked
    BY <1>0, <2>1, <2>2, JobUpdates
  <2>. HIDE DEF j
  <2>. QED
    BY <1>2, <2>3, <2>4, StayInv DEF ImportManaged, Inv, HostTypeOK
<1>3. CASE SaveImported(p)
  <2>. DEFINE j == [job[p] EXCEPT !.pc = AfterImport(job[p].op)]
  <2>1. j \in Jobs /\ j.pc \notin Locked
    BY <1>0, AfterTypes, PcUpdate
  <2>2. job' = [job EXCEPT ![p] = j]
    BY <1>0, <1>3 DEF SaveImported, Goto
  <2>. HIDE DEF j
  <2>. QED
    BY <1>0, <1>3, <2>1, <2>2, StayInv DEF SaveImported, Inv, HostTypeOK
<1>4. CASE Prune(p)
  <2>. DEFINE file == Pruned(job[p].file, job[p].keys)
              j    == [job[p] EXCEPT !.file = file, !.pc = "write"]
  <2>1. file \in Bindings /\ bindings' \in Bindings
    BY <1>0, <1>4, PrunedType DEF Prune, PrunedFile
  <2>2. job' = [job EXCEPT ![p] = j]
    BY <1>0, <1>4 DEF Prune
  <2>3. owed' \in Bindings
    BY <1>4 DEF Prune, Inv, HostTypeOK, Bindings
  <2>. HIDE DEF file
  <2>0. "write" \in Steps \ Locked
    BY DEF Steps, Locked
  <2>4. j \in Jobs /\ j.pc \notin Locked
    BY <1>0, <2>0, <2>1, JobUpdates
  <2>. HIDE DEF j
  <2>. QED
    BY <1>4, <2>1, <2>2, <2>3, <2>4, StayInv DEF Prune, Inv, HostTypeOK
<1>5. CASE WriteSnippet(p)
  <2>. DEFINE j == [job[p] EXCEPT !.pc = AfterWrite(job[p].op), !.file = Nothing]
  <2>0. AfterWrite(job[p].op) \in Steps \ Locked
    BY AfterTypes
  <2>1. j \in Jobs /\ j.pc \notin Locked
    <3>. HIDE DEF j
    <3>1. j = [job[p] EXCEPT !.pc = AfterWrite(job[p].op), !.file = Nothing]
      BY DEF j
    <3>. QED
      BY <3>1, <1>0, <2>0, NothingType, JobUpdates
  <2>2. job' = [job EXCEPT ![p] = j]
    BY <1>0, <1>5 DEF WriteSnippet
  <2>3. managed' \in [Keys -> Lines] /\ present' \in BOOLEAN
    <3>1. Snippet(job[p].file, job[p].keys) \in [Keys -> Lines] /\ present \in BOOLEAN
      BY <1>0, SnippetType DEF Inv, HostTypeOK
    <3>. QED
      BY <3>1, <1>0, <1>5 DEF WriteSnippet
  <2>4. owed' \in Bindings /\ edit' \in Bindings
    <3>1. job[p].hosts \subseteq Hosts
      BY <1>0, JobFields
    <3>. QED
      BY <3>1, <1>5 DEF WriteSnippet, Inv, HostTypeOK, Bindings
  <2>. HIDE DEF j
  <2>. QED
    BY <1>5, <2>1, <2>2, <2>3, <2>4, StayInv DEF WriteSnippet, Inv, HostTypeOK
<1>. QED
  BY <1>1, <1>2, <1>3, <1>4, <1>5

LEMMA EndInv ==
    ASSUME Inv, NEW p \in Procs,
           WriteInclude(p) \/ CacheSynced(p) \/ Report(p) \/ CancelDialog(p) \/ Fail(p)
    PROVE  Inv'
<1>. USE DEF history
<1>0. /\ job \in [Procs -> Jobs] /\ job[p] \in Jobs /\ job[p].keys \subseteq Keys
      /\ Idle \in Jobs /\ Idle.pc \notin Locked
  BY JobFields, IdleType DEF Inv, HostTypeOK, Idle, Locked
<1>. DEFINE done == [job[p] EXCEPT !.pc = "done"]
<1>1. done \in Jobs /\ done.pc \notin Locked
  <2>1. "done" \in Steps \ Locked
    BY DEF Steps, Locked
  <2>. QED
    BY <1>0, <2>1, PcUpdate
<1>2. CASE WriteInclude(p)
  <2>1. job' = [job EXCEPT ![p] = done] /\ included' \in BOOLEAN
    BY <1>0, <1>2 DEF WriteInclude, Goto, Inv, HostTypeOK
  <2>. HIDE DEF done
  <2>. QED
    BY <1>1, <1>2, <2>1, StayInv DEF WriteInclude, Inv, HostTypeOK
<1>3. CASE CacheSynced(p)
  <2>1. job' = [job EXCEPT ![p] = done] /\ cached' \subseteq Keys
    BY <1>0, <1>3 DEF CacheSynced, Goto, Inv, HostTypeOK
  <2>. HIDE DEF done
  <2>. QED
    BY <1>1, <1>3, <2>1, StayInv DEF CacheSynced, Inv, HostTypeOK
<1>4. CASE Report(p)
  BY <1>0, <1>4, StayInv DEF Report, Inv, HostTypeOK
<1>5. CASE CancelDialog(p)
  BY <1>0, <1>5, StayInv DEF CancelDialog, Inv, HostTypeOK
<1>6. CASE Fail(p)
  <2>. DEFINE j == CASE job[p].op = "open" -> [job[p] EXCEPT !.pc = "dialog", !.file = Nothing]
                     [] job[p].op = "sync" /\ job[p].pc # "cache"
                          -> [job[p] EXCEPT !.pc = "cache", !.clean = FALSE]
                     [] OTHER -> Idle
  <2>1. /\ [job[p] EXCEPT !.pc = "dialog", !.file = Nothing] \in Jobs
        /\ [job[p] EXCEPT !.pc = "cache", !.clean = FALSE] \in Jobs
    BY <1>0, NothingType, JobUpdates DEF Steps
  <2>2. j \in Jobs /\ j.pc \notin Locked
    BY <1>0, <2>1 DEF Jobs, Locked
  <2>3. job' = [job EXCEPT ![p] = j]
    BY <1>0, <1>6 DEF Fail
  <2>. HIDE DEF j
  <2>. QED
    BY <1>6, <2>2, <2>3, MoveInv DEF Fail, Inv, HostTypeOK
<1>. QED
  BY <1>2, <1>3, <1>4, <1>5, <1>6

LEMMA OutsideInv == ASSUME Inv, Outside PROVE Inv'
<1>. USE DEF history
<1>0. Disturbed \in [Procs -> Jobs] /\ \A q \in Procs : Disturbed[q].pc = job[q].pc
  BY DisturbedType DEF Inv, HostTypeOK
<1>1. ASSUME NEW k \in Keys, NEW line \in Lines, UserEdits(k, line) PROVE Inv'
  <2>1. edit' \in Bindings /\ owed' \in Bindings
    BY <1>1, HostLineType DEF UserEdits, Inv, HostTypeOK, Bindings
  <2>2. UpdatesExclusive' /\ job' \in [Procs -> Jobs]
    BY <1>0, <1>1 DEF UserEdits, Inv, UpdatesExclusive
  <2>. QED
    BY <1>1, <2>1, <2>2 DEF UserEdits, Inv, HostTypeOK
<1>2. CASE UserDeletes
  <2>1. Nothing \in [Keys -> Lines]
    BY DEF Nothing, Lines
  <2>2. UpdatesExclusive' /\ job' \in [Procs -> Jobs]
    BY <1>0, <1>2 DEF UserDeletes, Inv, UpdatesExclusive
  <2>. QED
    BY <1>2, <2>1, <2>2, NothingType DEF UserDeletes, Inv, HostTypeOK
<1>3. CASE RemoveInclude
  BY <1>3 DEF RemoveInclude, Inv, HostTypeOK, UpdatesExclusive
<1>4. CASE ForgetCache
  BY <1>4 DEF ForgetCache, Inv, HostTypeOK, UpdatesExclusive
<1>5. CASE DoctorFix
  BY <1>5 DEF DoctorFix, Inv, HostTypeOK, UpdatesExclusive
<1>. QED
  BY <1>1, <1>2, <1>3, <1>4, <1>5 DEF Outside

LEMMA StutterInv == ASSUME Inv, UNCHANGED vars PROVE Inv'
BY DEF Inv, HostTypeOK, UpdatesExclusive, vars, history

LEMMA Invariance == Spec => []Inv
<1>1. Inv /\ [Next]_vars => Inv'
  <2>. SUFFICES ASSUME Inv, [Next]_vars PROVE Inv'
    OBVIOUS
  <2>1. ASSUME NEW p \in Procs, Step(p) PROVE Inv'
    BY <2>1, UpdateInv, SnippetInv, EndInv DEF Step
  <2>. QED
    BY <2>1, BeginInv, OutsideInv, StutterInv DEF Next
<1>. QED
  BY <1>1, InitInv, PTL DEF Spec

-----------------------------------------------------------------------------
(* The files.  What the snippet, the bindings and the copies that running   *)
(* operations have of them have to do with each other.                     *)

\* A missing snippet has no Host line.
PresentInv == ~present => managed = Nothing

\* A process that nobody disturbed is the only one at work.
Alone ==
    \A p, q \in Procs :
        job[p].pc # "idle" /\ job[p].clean /\ job[q].pc # "idle" => p = q

\* The edited line is in the snippet, and in the copy of an operation that has
\* imported it and is about to write the snippet again.
EditFits(p) ==
    job[p].pc \in {"save", "prune", "write"} =>
        \A k \in job[p].keys : edit[k] # {} => job[p].file[k] = edit[k]

EditInv ==
    /\ \A k \in Keys : edit[k] # {} => HostLine(managed[k]) = edit[k]
    /\ \A p \in Procs : EditFits(p)

\* Hosts that are owed are in bindings.json, in every copy of it, and not
\* contradicted by the snippet, which the next operation imports.
OwedFits(p) ==
    job[p].pc \in {"l_read", "l_save", "read", "save", "prune", "write"} =>
        \A k \in Keys : owed[k] \subseteq job[p].file[k]

OwedInv ==
    /\ \A k \in Keys : owed[k] \subseteq bindings[k]
    /\ \A k \in Keys : HostLine(managed[k]) = {} \/ owed[k] \subseteq HostLine(managed[k])
    /\ \A p \in Procs : OwedFits(p)

\* What an undisturbed operation knows of the files, step by step.
CleanFits(p) ==
    job[p].clean =>
        /\ job[p].pc \in {"read", "prune", "write"} => job[p].file = bindings
        /\ job[p].pc = "write" /\ job[p].keys # {} =>
              \A k \in Keys \ job[p].keys : job[p].file[k] = {}
        /\ /\ job[p].pc \in {"include", "cache", "done"}
           /\ job[p].op # "list" /\ job[p].keys # {}
           => managed = bindings

\* A bind is of a key that the operation knows, unless it knows none.
BindTarget(p) ==
    job[p].op = "bind" =>
        job[p].key \in Keys /\ (job[p].keys = {} \/ job[p].key \in job[p].keys)

\* The hosts of an undisturbed bind, as long as no Host line replaces them.
BindFits(p) ==
    job[p].op = "bind" /\ job[p].clean =>
        /\ job[p].pc = "load" => job[p].hosts \subseteq bindings[job[p].key]
        /\ job[p].pc = "read" => job[p].hosts \subseteq job[p].file[job[p].key]
        /\ /\ job[p].pc \in {"save", "prune", "write"}
           /\ job[p].keys = {} \/ managed[job[p].key] = {}
           => job[p].hosts \subseteq job[p].file[job[p].key]

OpFits(p) == CleanFits(p) /\ BindTarget(p) /\ BindFits(p)

FilesInv == PresentInv /\ Alone /\ EditInv /\ OwedInv /\ \A p \in Procs : OpFits(p)

LEMMA HostLineOfHosts == ASSUME NEW hs \in SUBSET Hosts PROVE HostLine(hs) = hs
BY HostAssumption DEF HostLine

LEMMA InitFiles == Init => FilesInv
<1>. SUFFICES ASSUME Init PROVE FilesInv
  OBVIOUS
<1>1. \A p \in Procs : job[p] = Idle
  BY DEF Init
<1>2. \A k \in Keys : owed[k] = {} /\ edit[k] = {}
  BY DEF Init, Nothing
<1>3. PresentInv /\ Alone
  BY <1>1 DEF Init, PresentInv, Alone, Idle
<1>4. EditInv /\ OwedInv
  BY <1>1, <1>2 DEF EditInv, EditFits, OwedInv, OwedFits, Idle
<1>5. \A p \in Procs : OpFits(p)
  BY <1>1 DEF OpFits, CleanFits, BindTarget, BindFits, Idle
<1>. QED
  BY <1>3, <1>4, <1>5 DEF FilesInv

\* The others of a step of p that takes nothing new on: they are idle or
\* disturbed, and what they know of edited and owed lines still holds.
LEMMA OthersFit ==
    ASSUME Inv, FilesInv, NEW p \in Procs, NEW j \in Jobs,
           job[p].pc # "idle", job' = [job EXCEPT ![p] = j],
           j.pc # "idle" /\ j.clean => job[p].clean,
           \A k \in Keys : edit'[k] \in {edit[k], {}},
           \A k \in Keys : owed'[k] \subseteq owed[k]
    PROVE  /\ Alone'
           /\ \A q \in Procs \ {p} : EditFits(q)' /\ OwedFits(q)' /\ OpFits(q)'
<1>0. job \in [Procs -> Jobs] /\ job'[p] = j /\ \A q \in Procs \ {p} : job'[q] = job[q]
  BY DEF Inv, HostTypeOK
<1>1. Alone'
  <2>. SUFFICES ASSUME NEW q \in Procs, NEW r \in Procs,
                       job'[q].pc # "idle", job'[q].clean, job'[r].pc # "idle"
                PROVE  q = r
    BY DEF Alone
  <2>1. job[q].pc # "idle" /\ job[q].clean /\ job[r].pc # "idle"
    BY <1>0
  <2>. QED
    BY <2>1 DEF FilesInv, Alone
<1>2. ASSUME NEW q \in Procs \ {p} PROVE EditFits(q)' /\ OwedFits(q)' /\ OpFits(q)'
  <2>0. job'[q] = job[q] /\ job[q].keys \subseteq Keys
    BY <1>0, JobFields
  <2>1. EditFits(q)'
    BY <2>0 DEF FilesInv, EditInv, EditFits
  <2>2. OwedFits(q)'
    BY <2>0 DEF FilesInv, OwedInv, OwedFits
  <2>3. job[q].pc = "idle" \/ ~job[q].clean
    BY DEF FilesInv, Alone
  <2>4. OpFits(q)'
    BY <2>0, <2>3 DEF FilesInv, OpFits, CleanFits, BindTarget, BindFits
  <2>. QED
    BY <2>1, <2>2, <2>4
<1>. QED
  BY <1>1, <1>2

\* A step of p that leaves the files alone has only its own copy to account for.
LEMMA QuietStep ==
    ASSUME Inv, FilesInv, NEW p \in Procs, NEW j \in Jobs,
           job[p].pc # "idle", job' = [job EXCEPT ![p] = j],
           j.pc # "idle" /\ j.clean => job[p].clean,
           UNCHANGED <<bindings, managed, present, owed, edit>>,
           EditFits(p)', OwedFits(p)', OpFits(p)'
    PROVE  FilesInv'
<1>1. /\ Alone'
      /\ \A q \in Procs \ {p} : EditFits(q)' /\ OwedFits(q)' /\ OpFits(q)'
  BY OthersFit
<1>2. \A q \in Procs : EditFits(q)' /\ OwedFits(q)' /\ OpFits(q)'
  BY <1>1
<1>3. EditInv' /\ OwedInv'
  BY <1>2 DEF FilesInv, EditInv, OwedInv, HostLine
<1>4. PresentInv'
  BY DEF FilesInv, PresentInv
<1>. QED
  BY <1>1, <1>2, <1>3, <1>4 DEF FilesInv

\* A process whose next step holds no copy of a file has nothing to account for.
LEMMA NoCopy ==
    ASSUME NEW p \in Procs,
           job'[p].pc \in {"idle", "lock", "l_load", "dialog"},
           job'[p].op = "bind" => BindTarget(p)'
    PROVE  EditFits(p)' /\ OwedFits(p)' /\ OpFits(p)'
BY DEF EditFits, OwedFits, OpFits, CleanFits, BindTarget, BindFits

-----------------------------------------------------------------------------
(* One lemma per group of actions for the files.                           *)

LEMMA StartFiles ==
    ASSUME Inv, FilesInv, NEW p \in Procs, NEW j \in Jobs, j.pc \in {"lock", "load"},
           j.op = "bind" => /\ j.pc = "lock" /\ j.key \in Keys
                            /\ j.keys = {} \/ j.key \in j.keys,
           Start(p, j)
    PROVE  FilesInv'
<1>. USE DEF history
<1>. DEFINE others == Busy \ {p}
            b      == (others = {})
            new    == [j EXCEPT !.clean = b]
<1>0. /\ new.pc = j.pc /\ new.op = j.op /\ new.key = j.key /\ new.keys = j.keys
      /\ new.clean = b
  BY DEF Jobs
<1>1. /\ job \in [Procs -> Jobs] /\ job' = [Disturbed EXCEPT ![p] = new]
      /\ UNCHANGED <<bindings, managed, present>>
      /\ IF others = {} THEN UNCHANGED <<owed, edit>> ELSE owed' = Nothing /\ edit' = Nothing
  BY DEF Start, Inv, HostTypeOK
<1>2. ASSUME NEW q \in Procs
      PROVE  /\ job'[q] = IF q = p THEN new
                          ELSE IF q \in Busy THEN [job[q] EXCEPT !.clean = FALSE] ELSE job[q]
             /\ q \in Busy <=> job[q].pc # "idle"
             /\ [job[q] EXCEPT !.clean = FALSE].clean = FALSE
             /\ [job[q] EXCEPT !.clean = FALSE].pc = job[q].pc
             /\ [job[q] EXCEPT !.clean = FALSE].op = job[q].op
             /\ [job[q] EXCEPT !.clean = FALSE].key = job[q].key
             /\ [job[q] EXCEPT !.clean = FALSE].keys = job[q].keys
             /\ [job[q] EXCEPT !.clean = FALSE].file = job[q].file
  BY <1>1 DEF Disturbed, Busy, Jobs
<1>. HIDE DEF new, b
<1>3. Alone'
  BY <1>0, <1>2, ZenonT(40) DEF Alone, b
<1>4. \A k \in Keys : edit'[k] \in {edit[k], {}} /\ owed'[k] \subseteq owed[k]
  BY <1>1 DEF Nothing
<1>5. \A q \in Procs : EditFits(q)' /\ OwedFits(q)'
  <2>. TAKE q \in Procs
  <2>1. CASE q = p
    BY <1>0, <1>2, <2>1 DEF EditFits, OwedFits
  <2>2. CASE q # p
    <3>1. /\ job'[q].pc = job[q].pc /\ job'[q].file = job[q].file
          /\ job'[q].keys = job[q].keys /\ job[q].keys \subseteq Keys
      BY <1>1, <1>2, <2>2, JobFields
    <3>. QED
      BY <1>4, <3>1 DEF FilesInv, EditInv, EditFits, OwedInv, OwedFits
  <2>. QED
    BY <2>1, <2>2
<1>6. \A q \in Procs : OpFits(q)'
  <2>. TAKE q \in Procs
  <2>1. CASE q = p
    BY <1>0, <1>2, <2>1 DEF OpFits, CleanFits, BindTarget, BindFits
  <2>2. CASE q # p
    <3>1. job'[q].pc = "idle" \/ ~job'[q].clean
      BY <1>2, <2>2
    <3>2. job'[q].op = job[q].op /\ job'[q].key = job[q].key /\ job'[q].keys = job[q].keys
      BY <1>2, <2>2
    <3>. QED
      BY <3>1, <3>2 DEF FilesInv, OpFits, CleanFits, BindTarget, BindFits
  <2>. QED
    BY <2>1, <2>2
<1>7. EditInv' /\ OwedInv'
  BY <1>1, <1>4, <1>5 DEF FilesInv, EditInv, OwedInv, HostLine
<1>8. PresentInv'
  BY <1>1 DEF FilesInv, PresentInv
<1>. QED
  BY <1>3, <1>6, <1>7, <1>8 DEF FilesInv

LEMMA BeginFiles == ASSUME Inv, FilesInv, NEW p \in Procs, Begin(p) PROVE FilesInv'
<1>0. job[p] \in Jobs /\ cached \subseteq Keys
  BY DEF Inv, HostTypeOK
<1>1. ASSUME NEW op \in Ops, NEW ks \in SUBSET Keys, NEW k \in Keys, NEW hs \in SUBSET Hosts,
             op = "bind" => ks = {} \/ k \in ks,
             Start(p, [Idle EXCEPT !.pc = "lock", !.op = op, !.keys = ks, !.key = k,
                                   !.hosts = hs])
      PROVE  FilesInv'
  <2>. DEFINE j == [Idle EXCEPT !.pc = "lock", !.op = op, !.keys = ks, !.key = k, !.hosts = hs]
  <2>1. j \in Jobs /\ j.pc = "lock" /\ j.op = op /\ j.key = k /\ j.keys = ks /\ Start(p, j)
    BY <1>1, NothingType DEF Jobs, Idle, Steps
  <2>. HIDE DEF j
  <2>. QED
    BY <1>1, <2>1, StartFiles
<1>2. ASSUME NEW k \in Keys, NEW hs \in (SUBSET Hosts) \ {{}}, CmdBind(p, k, hs) PROVE FilesInv'
  BY <1>0, <1>1, <1>2 DEF CmdBind, Resolves, Ops
<1>3. ASSUME NEW k \in Keys, NEW h \in Hosts, CmdUnbind(p, k, h) PROVE FilesInv'
  <2>1. {h} \in SUBSET Hosts /\ "unbind" \in Ops /\ cached \in SUBSET Keys
    BY <1>0 DEF Ops
  <2>. QED
    BY <1>1, <1>3, <2>1 DEF CmdUnbind
<1>4. ASSUME NEW k \in Keys, NEW h \in Hosts, SaveDialog(p, k, h) PROVE FilesInv'
  <2>1. PICK hs \in {job[p].file[k] \cup {h}, job[p].file[k] \ {h}} :
           Start(p, [Idle EXCEPT !.pc = "lock", !.op = "dialog", !.keys = cached, !.key = k,
                                 !.hosts = hs])
    BY <1>4 DEF SaveDialog
  <2>2. hs \in SUBSET Hosts /\ "dialog" \in Ops /\ cached \in SUBSET Keys
    BY <1>0, <2>1, JobFields DEF Bindings, Ops
  <2>. QED
    BY <1>1, <2>1, <2>2
<1>5. ASSUME NEW k \in Keys, CmdClear(p, k) PROVE FilesInv'
  <2>. DEFINE j == [Idle EXCEPT !.pc = "lock", !.op = "clear", !.keys = cached, !.key = k]
  <2>1. j \in Jobs /\ j.pc = "lock" /\ j.op = "clear" /\ Start(p, j)
    BY <1>0, <1>5, NothingType DEF Jobs, Idle, Steps, Ops, CmdClear
  <2>. HIDE DEF j
  <2>. QED
    BY <2>1, StartFiles
<1>6. ASSUME NEW op \in Ops \ {"bind"}, NEW ks \in SUBSET Keys,
             Start(p, [Idle EXCEPT !.pc = "load", !.op = op, !.keys = ks])
      PROVE  FilesInv'
  <2>. DEFINE j == [Idle EXCEPT !.pc = "load", !.op = op, !.keys = ks]
  <2>1. j \in Jobs /\ j.pc = "load" /\ j.op = op /\ Start(p, j)
    BY <1>6, NothingType DEF Jobs, Idle, Steps
  <2>. HIDE DEF j
  <2>. QED
    BY <2>1, StartFiles
<1>7. OpenDialog(p) \/ CmdList(p) \/ CmdWrite(p) \/ (\E ks \in SUBSET Keys : VaultSynced(p, ks))
      => FilesInv'
  BY <1>0, <1>6 DEF OpenDialog, CmdList, CmdWrite, VaultSynced, Ops
<1>. QED
  BY <1>2, <1>3, <1>4, <1>5, <1>7 DEF Begin

\* An import keeps the hosts that are owed and takes over the edited lines.
LEMMA ImportFits ==
    ASSUME Inv, FilesInv, NEW file \in Bindings, NEW keys \in SUBSET Keys
    PROVE  /\ (\A k \in Keys : owed[k] \subseteq file[k]) =>
                 \A k \in Keys : owed[k] \subseteq Imported(file, keys)[k]
           /\ \A k \in keys : edit[k] # {} => Imported(file, keys)[k] = edit[k]
           /\ \A k \in Keys : keys = {} \/ managed[k] = {} => Imported(file, keys)[k] = file[k]
<1>1. \A k \in Keys : /\ edit[k] # {} => HostLine(managed[k]) = edit[k]
                      /\ HostLine(managed[k]) = {} \/ owed[k] \subseteq HostLine(managed[k])
  BY DEF FilesInv, EditInv, OwedInv
<1>2. HostLine({}) = {}
  BY DEF HostLine
<1>3. \A k \in Keys : Imported(file, keys)[k]
                        = IF k \in keys /\ HostLine(managed[k]) # {}
                            THEN HostLine(managed[k]) ELSE file[k]
  BY DEF Imported
<1>. QED
  BY <1>1, <1>2, <1>3

LEMMA UpdateFiles ==
    ASSUME Inv, FilesInv, NEW p \in Procs,
           AcquireLock(p) \/ LockTimeout(p) \/ LockedLoad(p) \/ LockedImport(p) \/ LockedSave(p)
    PROVE  FilesInv'
<1>. USE DEF history
<1>0. /\ job \in [Procs -> Jobs] /\ job[p] \in Jobs /\ job[p].file \in Bindings
      /\ bindings \in Bindings /\ managed \in [Keys -> Lines] /\ job[p].keys \in SUBSET Keys
      /\ OpFits(p) /\ OwedFits(p) /\ OwedInv
  BY JobFields DEF Inv, HostTypeOK, FilesInv, OwedInv
<1>1. CASE AcquireLock(p)
  <2>. DEFINE j == [job[p] EXCEPT !.pc = "l_load"]
  <2>1. job' = [job EXCEPT ![p] = j] /\ job'[p] = j
    BY <1>0, <1>1 DEF AcquireLock, Goto
  <2>2. /\ j \in Jobs /\ j.pc = "l_load" /\ j.clean = job[p].clean /\ j.op = job[p].op
        /\ j.key = job[p].key /\ j.keys = job[p].keys
    BY <1>0 DEF Jobs, Steps, Locked
  <2>3. job[p].pc # "idle" /\ UNCHANGED <<bindings, managed, present, owed, edit>>
    BY <1>1 DEF AcquireLock, At
  <2>. HIDE DEF j
  <2>4. BindTarget(p)'
    BY <1>0, <2>1, <2>2 DEF OpFits, BindTarget
  <2>5. EditFits(p)' /\ OwedFits(p)' /\ OpFits(p)'
    BY <2>1, <2>2, <2>4, NoCopy
  <2>. QED
    BY <2>1, <2>2, <2>3, <2>5, QuietStep
<1>2. CASE LockTimeout(p)
  <2>1. job' = [job EXCEPT ![p] = Idle] /\ job'[p] = Idle
    BY <1>0, <1>2 DEF LockTimeout
  <2>2. Idle \in Jobs /\ Idle.pc = "idle" /\ Idle.op = "none"
    BY IdleType DEF Idle
  <2>3. job[p].pc # "idle" /\ UNCHANGED <<bindings, managed, present, owed, edit>>
    BY <1>2 DEF LockTimeout, At
  <2>5. EditFits(p)' /\ OwedFits(p)' /\ OpFits(p)'
    BY <2>1, <2>2, NoCopy
  <2>. QED
    BY <2>1, <2>2, <2>3, <2>5, QuietStep
<1>3. CASE LockedLoad(p)
  <2>. DEFINE j == [job[p] EXCEPT !.pc = "l_read", !.file = bindings]
  <2>1. job' = [job EXCEPT ![p] = j] /\ job'[p] = j
    BY <1>0, <1>3 DEF LockedLoad
  <2>2. /\ j \in Jobs /\ j.pc = "l_read" /\ j.clean = job[p].clean /\ j.op = job[p].op
        /\ j.key = job[p].key /\ j.keys = job[p].keys /\ j.file = bindings
    BY <1>0 DEF Jobs, Steps, Locked
  <2>3. job[p].pc # "idle" /\ UNCHANGED <<bindings, managed, present, owed, edit>>
    BY <1>3 DEF LockedLoad, At
  <2>. HIDE DEF j
  <2>4. EditFits(p)' /\ OwedFits(p)'
    BY <1>0, <2>1, <2>2, <2>3 DEF EditFits, OwedFits, OwedInv
  <2>5. OpFits(p)'
    BY <1>0, <2>1, <2>2, <2>3 DEF OpFits, CleanFits, BindTarget, BindFits
  <2>. QED
    BY <2>1, <2>2, <2>3, <2>4, <2>5, QuietStep
<1>4. CASE LockedImport(p)
  <2>. DEFINE file == Imported(job[p].file, job[p].keys)
              j    == [job[p] EXCEPT !.pc = "l_save", !.file = file]
  <2>0. file \in Bindings /\ \A k \in Keys : owed[k] \subseteq file[k]
    BY <1>0, <1>4, ImportedType, ImportFits DEF LockedImport, At, OwedFits
  <2>1. job' = [job EXCEPT ![p] = j] /\ job'[p] = j
    BY <1>0, <1>4 DEF LockedImport
  <2>. HIDE DEF file
  <2>2. /\ j \in Jobs /\ j.pc = "l_save" /\ j.clean = job[p].clean /\ j.op = job[p].op
        /\ j.key = job[p].key /\ j.keys = job[p].keys /\ j.file = file
    BY <1>0, <2>0 DEF Jobs, Steps, Locked
  <2>3. job[p].pc # "idle" /\ UNCHANGED <<bindings, managed, present, owed, edit>>
    BY <1>4 DEF LockedImport, At
  <2>. HIDE DEF j
  <2>4. EditFits(p)' /\ OwedFits(p)'
    BY <2>0, <2>1, <2>2, <2>3 DEF EditFits, OwedFits
  <2>5. OpFits(p)'
    BY <1>0, <2>1, <2>2, <2>3 DEF OpFits, CleanFits, BindTarget, BindFits
  <2>. QED
    BY <2>1, <2>2, <2>3, <2>4, <2>5, QuietStep
<1>5. CASE LockedSave(p)
  <2>. DEFINE o == job[p]
              j == IF Effective(o) THEN AfterUpdate(o) ELSE Idle
  <2>1. job' = [job EXCEPT ![p] = j] /\ job'[p] = j
    BY <1>0, <1>5 DEF LockedSave
  <2>2. /\ j \in Jobs /\ j.pc \in {"load", "idle"} /\ (j.pc = "load" => j.clean = o.clean)
        /\ j.op = "bind" => o.op = "bind" /\ j.key = o.key /\ j.keys = o.keys
                            /\ j.hosts = o.hosts
    BY <1>0, AfterUpdateType, IdleType DEF AfterUpdate, Idle, Jobs
  <2>3. /\ o.pc = "l_save" /\ UNCHANGED <<managed, present>> /\ bindings' = Changed(o, o.file)
        /\ owed' = [owed EXCEPT ![o.key] = IF o.op = "bind" THEN @ ELSE {}]
        /\ edit' = [edit EXCEPT ![o.key] = {}]
    BY <1>5 DEF LockedSave, At
  <2>. HIDE DEF j
  <2>4. /\ \A k \in Keys : edit'[k] \in {edit[k], {}}
        /\ \A k \in Keys : owed'[k] \subseteq owed[k]
    BY <2>3 DEF Inv, HostTypeOK, Bindings
  <2>5. /\ \A k \in Keys : owed'[k] \subseteq bindings'[k]
        /\ o.op = "bind" /\ o.key \in Keys => o.hosts \subseteq bindings'[o.key]
    <3>1. owed \in Bindings /\ \A k \in Keys : owed[k] \subseteq o.file[k]
      BY <1>0, <2>3 DEF OwedFits, Inv, HostTypeOK
    <3>2. CASE o.op = "bind"
      BY <1>0, <2>3, <3>1, <3>2 DEF Changed, Bindings
    <3>3. CASE o.op # "bind"
      <4>1. \A k \in Keys : k # o.key => bindings'[k] = o.file[k]
        BY <1>0, <2>3, <3>3 DEF Changed, Bindings
      <4>2. \A k \in Keys : owed'[k] = IF k = o.key THEN {} ELSE owed[k]
        BY <2>3, <3>1, <3>3 DEF Bindings
      <4>. QED
        BY <3>1, <3>3, <4>1, <4>2
    <3>. QED
      BY <3>2, <3>3
  <2>6. /\ Alone'
        /\ \A q \in Procs \ {p} : EditFits(q)' /\ OwedFits(q)' /\ OpFits(q)'
    BY <2>1, <2>2, <2>3, <2>4, OthersFit
  <2>7. EditFits(p)' /\ OwedFits(p)'
    BY <2>1, <2>2 DEF EditFits, OwedFits
  <2>8. OpFits(p)'
    BY <1>0, <2>1, <2>2, <2>5 DEF OpFits, CleanFits, BindTarget, BindFits
  <2>9. EditInv' /\ OwedInv'
    BY <2>3, <2>4, <2>5, <2>6, <2>7 DEF FilesInv, EditInv, OwedInv, HostLine
  <2>10. PresentInv'
    BY <2>3 DEF FilesInv, PresentInv
  <2>. QED
    BY <2>6, <2>8, <2>9, <2>10 DEF FilesInv
<1>. QED
  BY <1>1, <1>2, <1>3, <1>4, <1>5

LEMMA ImportFiles ==
    ASSUME Inv, FilesInv, NEW p \in Procs, LoadBindings(p) \/ ImportManaged(p) \/ SaveImported(p)
    PROVE  FilesInv'
<1>. USE DEF history
<1>0. /\ job \in [Procs -> Jobs] /\ job[p] \in Jobs /\ job[p].file \in Bindings
      /\ bindings \in Bindings /\ managed \in [Keys -> Lines] /\ job[p].keys \in SUBSET Keys
      /\ OpFits(p) /\ OwedFits(p) /\ EditFits(p) /\ OwedInv
  BY JobFields DEF Inv, HostTypeOK, FilesInv, OwedInv, EditInv
<1>01. AfterImport(job[p].op) \in Steps /\ AfterImport(job[p].op) \in {"dialog", "done", "prune"}
       /\ (AfterImport(job[p].op) = "done" <=> job[p].op = "list")
  BY DEF AfterImport, Steps
<1>1. CASE LoadBindings(p)
  <2>. DEFINE j == [job[p] EXCEPT !.pc = "read", !.file = bindings]
  <2>1. job' = [job EXCEPT ![p] = j] /\ job'[p] = j
    BY <1>0, <1>1 DEF LoadBindings
  <2>2. /\ j \in Jobs /\ j.pc = "read" /\ j.clean = job[p].clean /\ j.op = job[p].op
        /\ j.key = job[p].key /\ j.keys = job[p].keys /\ j.file = bindings
        /\ j.hosts = job[p].hosts
    BY <1>0 DEF Jobs, Steps
  <2>3. job[p].pc = "load" /\ UNCHANGED <<bindings, managed, present, owed, edit>>
    BY <1>1 DEF LoadBindings, At
  <2>. HIDE DEF j
  <2>4. EditFits(p)' /\ OwedFits(p)'
    BY <1>0, <2>1, <2>2, <2>3 DEF EditFits, OwedFits, OwedInv
  <2>5. OpFits(p)'
    BY <1>0, <2>1, <2>2, <2>3 DEF OpFits, CleanFits, BindTarget, BindFits
  <2>. QED
    BY <2>1, <2>2, <2>3, <2>4, <2>5, QuietStep
<1>2. CASE ImportManaged(p)
  <2>. DEFINE file == Imported(job[p].file, job[p].keys)
              pc   == IF file # job[p].file THEN "save" ELSE AfterImport(job[p].op)
              j    == [job[p] EXCEPT !.file = file, !.pc = pc]
  <2>0. /\ file \in Bindings /\ \A k \in Keys : owed[k] \subseteq file[k]
        /\ \A k \in job[p].keys : edit[k] # {} => file[k] = edit[k]
        /\ \A k \in Keys : job[p].keys = {} \/ managed[k] = {} => file[k] = job[p].file[k]
    BY <1>0, <1>2, ImportedType, ImportFits DEF ImportManaged, At, OwedFits
  <2>1. job' = [job EXCEPT ![p] = j] /\ job'[p] = j
    BY <1>0, <1>2 DEF ImportManaged
  <2>2. /\ pc \in Steps /\ pc \in {"save", "dialog", "done", "prune"}
        /\ pc = "done" => job[p].op = "list"
        /\ pc = "prune" => file = job[p].file
    BY <1>01 DEF Steps
  <2>. HIDE DEF file, pc
  <2>3. /\ j \in Jobs /\ j.pc = pc /\ j.clean = job[p].clean /\ j.op = job[p].op
        /\ j.key = job[p].key /\ j.keys = job[p].keys /\ j.file = file
        /\ j.hosts = job[p].hosts
    BY <1>0, <2>0, <2>2 DEF Jobs
  <2>4. job[p].pc = "read" /\ UNCHANGED <<bindings, managed, present, owed, edit>>
    BY <1>2 DEF ImportManaged, At
  <2>. HIDE DEF j
  <2>5. EditFits(p)' /\ OwedFits(p)'
    BY <2>0, <2>1, <2>3, <2>4 DEF EditFits, OwedFits
  <2>6. CleanFits(p)' /\ BindTarget(p)'
    BY <1>0, <2>1, <2>2, <2>3, <2>4 DEF OpFits, CleanFits, BindTarget
  <2>7. BindFits(p)'
    BY <1>0, <2>0, <2>1, <2>2, <2>3, <2>4 DEF OpFits, BindTarget, BindFits
  <2>. QED
    BY <2>1, <2>3, <2>4, <2>5, <2>6, <2>7, QuietStep DEF OpFits
<1>3. CASE SaveImported(p)
  <2>. DEFINE j == [job[p] EXCEPT !.pc = AfterImport(job[p].op)]
  <2>1. job' = [job EXCEPT ![p] = j] /\ job'[p] = j
    BY <1>0, <1>3 DEF SaveImported, Goto
  <2>2. /\ j \in Jobs /\ j.pc = AfterImport(job[p].op) /\ j.clean = job[p].clean
        /\ j.op = job[p].op /\ j.key = job[p].key /\ j.keys = job[p].keys
        /\ j.file = job[p].file /\ j.hosts = job[p].hosts
    BY <1>0, <1>01 DEF Jobs
  <2>3. /\ job[p].pc = "save" /\ bindings' = job[p].file
        /\ UNCHANGED <<managed, present, owed, edit>>
    BY <1>3 DEF SaveImported, At
  <2>. HIDE DEF j
  <2>4. /\ Alone'
        /\ \A q \in Procs \ {p} : EditFits(q)' /\ OwedFits(q)' /\ OpFits(q)'
    <3>1. /\ \A k \in Keys : edit'[k] \in {edit[k], {}}
          /\ \A k \in Keys : owed'[k] \subseteq owed[k]
      BY <2>3
    <3>. QED
      BY <2>1, <2>2, <2>3, <3>1, OthersFit
  <2>5. EditFits(p)' /\ OwedFits(p)'
    BY <1>0, <2>1, <2>2, <2>3 DEF EditFits, OwedFits
  <2>6. CleanFits(p)' /\ BindTarget(p)' /\ BindFits(p)'
    BY <1>0, <1>01, <2>1, <2>2, <2>3 DEF OpFits, CleanFits, BindTarget, BindFits
  <2>7. \A k \in Keys : owed'[k] \subseteq bindings'[k]
    BY <1>0, <2>3 DEF OwedFits
  <2>8. EditInv' /\ OwedInv'
    BY <2>3, <2>4, <2>5, <2>7 DEF FilesInv, EditInv, OwedInv, HostLine
  <2>9. PresentInv'
    BY <2>3 DEF FilesInv, PresentInv
  <2>. QED
    BY <2>4, <2>6, <2>8, <2>9 DEF FilesInv, OpFits
<1>. QED
  BY <1>1, <1>2, <1>3

LEMMA PruneFiles == ASSUME Inv, FilesInv, NEW p \in Procs, Prune(p) PROVE FilesInv'
<1>. USE DEF history
<1>. DEFINE o    == job[p]
            file == Pruned(o.file, o.keys)
            j    == [o EXCEPT !.file = file, !.pc = "write"]
<1>0. /\ job \in [Procs -> Jobs] /\ o \in Jobs /\ o.file \in Bindings
      /\ bindings \in Bindings /\ o.keys \in SUBSET Keys
      /\ OpFits(p) /\ OwedFits(p) /\ EditFits(p) /\ OwedInv
  BY JobFields DEF Inv, HostTypeOK, FilesInv, OwedInv, EditInv
<1>1. /\ file \in Bindings
      /\ \A k \in Keys : file[k] = IF o.keys = {} \/ k \in o.keys THEN o.file[k] ELSE {}
      /\ bindings' = IF file = o.file THEN bindings ELSE file
      /\ \A k \in Keys : owed'[k] = IF o.keys = {} \/ k \in o.keys THEN owed[k] ELSE {}
  BY <1>0, PrunedType DEF Pruned, Prune, PrunedFile
<1>2. /\ job' = [job EXCEPT ![p] = j] /\ job'[p] = j
      /\ o.pc = "prune" /\ UNCHANGED <<managed, present, edit>>
  BY <1>0 DEF Prune, At
<1>. HIDE DEF file
<1>3. /\ j \in Jobs /\ j.pc = "write" /\ j.clean = o.clean /\ j.op = o.op
      /\ j.key = o.key /\ j.keys = o.keys /\ j.file = file /\ j.hosts = o.hosts
  BY <1>0, <1>1 DEF Jobs, Steps
<1>. HIDE DEF j
<1>4. /\ Alone'
      /\ \A q \in Procs \ {p} : EditFits(q)' /\ OwedFits(q)' /\ OpFits(q)'
  <2>1. /\ \A k \in Keys : edit'[k] \in {edit[k], {}}
        /\ \A k \in Keys : owed'[k] \subseteq owed[k]
    BY <1>1, <1>2
  <2>. QED
    BY <1>2, <1>3, <2>1, OthersFit
<1>5. EditFits(p)' /\ OwedFits(p)'
  BY <1>0, <1>1, <1>2, <1>3 DEF EditFits, OwedFits
<1>6. CleanFits(p)' /\ BindTarget(p)'
  BY <1>0, <1>1, <1>2, <1>3 DEF OpFits, CleanFits, BindTarget
<1>7. BindFits(p)'
  BY <1>0, <1>1, <1>2, <1>3 DEF OpFits, BindTarget, BindFits
<1>8. \A k \in Keys : owed'[k] \subseteq bindings'[k]
  BY <1>0, <1>1, <1>2 DEF OwedFits, OwedInv
<1>9. EditInv' /\ OwedInv'
  BY <1>1, <1>2, <1>4, <1>5, <1>8 DEF FilesInv, EditInv, OwedInv, HostLine
<1>10. PresentInv'
  BY <1>2 DEF FilesInv, PresentInv
<1>. QED
  BY <1>4, <1>6, <1>7, <1>9, <1>10 DEF FilesInv, OpFits

\* The snippet an operation writes holds its copy of the bindings: a clean bind
\* finds the others idle, so what it owes from here on is in all of them.
LEMMA WriteFiles == ASSUME Inv, FilesInv, NEW p \in Procs, WriteSnippet(p) PROVE FilesInv'
<1>. USE DEF history
<1>. DEFINE o == job[p]
            j == [o EXCEPT !.pc = AfterWrite(o.op), !.file = Nothing]
            first == o.op = "bind" /\ o.clean /\ (o.keys = {} \/ managed[o.key] = {})
<1>0. /\ job \in [Procs -> Jobs] /\ o \in Jobs /\ o.file \in Bindings
      /\ bindings \in Bindings /\ o.keys \in SUBSET Keys
      /\ owed \in Bindings /\ edit \in Bindings
      /\ OpFits(p) /\ OwedFits(p) /\ EditFits(p) /\ OwedInv /\ EditInv
  BY JobFields DEF Inv, HostTypeOK, FilesInv, OwedInv, EditInv
<1>1. /\ job' = [job EXCEPT ![p] = j] /\ job'[p] = j /\ o.pc = "write" /\ UNCHANGED bindings
      /\ owed' = IF first THEN [owed EXCEPT ![o.key] = @ \cup o.hosts] ELSE owed
      /\ \A k \in Keys : edit'[k] = IF k \in o.keys THEN edit[k] ELSE {}
  BY <1>0 DEF WriteSnippet, At
<1>2. /\ j \in Jobs /\ j.pc \in {"include", "cache", "done"} /\ j.clean = o.clean /\ j.op = o.op
      /\ j.key = o.key /\ j.keys = o.keys /\ j.hosts = o.hosts
  BY <1>0, NothingType DEF Jobs, Steps, AfterWrite
<1>3. \/ /\ present' = TRUE
         /\ \A k \in Keys : managed'[k] = IF k \in o.keys THEN o.file[k] ELSE {}
         /\ managed' = Snippet(o.file, o.keys)
      \/ /\ ~Wanted(o) /\ UNCHANGED <<managed, present>>
  BY DEF WriteSnippet, Snippet
<1>4. /\ \A k \in Keys : o.file[k] \subseteq Hosts /\ HostLine(o.file[k]) = o.file[k]
      /\ HostLine({}) = {}
  BY <1>0, HostLineOfHosts DEF Bindings, HostLine
<1>5. first => /\ o.key \in Keys /\ o.hosts \subseteq o.file[o.key] /\ o.file = bindings
               /\ o.keys = {} \/ o.key \in o.keys
  BY <1>0, <1>1 DEF OpFits, BindTarget, BindFits, CleanFits
<1>6. \A k \in Keys : owed'[k] \subseteq bindings[k] /\ owed'[k] \subseteq o.file[k]
  BY <1>0, <1>1, <1>5 DEF OwedFits, OwedInv, Bindings
<1>. HIDE DEF j
<1>7. /\ Alone'
      /\ \A q \in Procs \ {p} : EditFits(q)' /\ OwedFits(q)' /\ OpFits(q)'
  <2>1. \A k \in Keys : edit'[k] \in {edit[k], {}}
    BY <1>1
  <2>2. CASE ~first
    <3>1. \A k \in Keys : owed'[k] \subseteq owed[k]
      BY <1>1, <2>2
    <3>. QED
      BY <1>1, <1>2, <2>1, <3>1, OthersFit
  <2>3. CASE first
    <3>1. \A q \in Procs \ {p} : job[q].pc = "idle" /\ job'[q] = job[q]
      BY <1>0, <1>1, <2>3 DEF FilesInv, Alone
    <3>2. Alone'
      BY <3>1 DEF Alone
    <3>3. \A q \in Procs \ {p} : EditFits(q)' /\ OwedFits(q)' /\ OpFits(q)'
      BY <3>1 DEF EditFits, OwedFits, OpFits, CleanFits, BindTarget, BindFits, FilesInv
    <3>. QED
      BY <3>2, <3>3
  <2>. QED
    BY <2>2, <2>3
<1>8. EditFits(p)' /\ OwedFits(p)' /\ BindTarget(p)' /\ BindFits(p)'
  BY <1>0, <1>1, <1>2 DEF EditFits, OwedFits, OpFits, BindTarget, BindFits
<1>9. CleanFits(p)'
  <2>. SUFFICES ASSUME o.clean, o.keys # {} PROVE managed' = bindings
    BY <1>1, <1>2 DEF CleanFits
  <2>1. o.file = bindings /\ \A k \in Keys \ o.keys : o.file[k] = {}
    BY <1>0, <1>1 DEF OpFits, CleanFits
  <2>2. CASE managed' = Snippet(o.file, o.keys)
    BY <1>0, <2>1, <2>2 DEF Snippet, Bindings
  <2>3. CASE ~Wanted(o) /\ UNCHANGED <<managed, present>>
    BY <2>1, <2>3 DEF Wanted, FilesInv, PresentInv
  <2>. QED
    BY <1>3, <2>2, <2>3
<1>10. EditInv'
  <2>1. ASSUME NEW k \in Keys, edit'[k] # {} PROVE HostLine(managed'[k]) = edit'[k]
    <3>1. k \in o.keys /\ edit'[k] = edit[k] /\ o.file[k] = edit[k]
      BY <1>0, <1>1, <2>1 DEF EditFits
    <3>2. managed'[k] = o.file[k] \/ UNCHANGED managed
      BY <1>3, <3>1
    <3>3. HostLine(managed[k]) = edit[k]
      BY <1>0, <2>1, <3>1 DEF EditInv
    <3>. QED
      BY <1>4, <3>1, <3>2, <3>3
  <2>. QED
    BY <1>7, <1>8, <2>1 DEF EditInv, HostLine
<1>11. OwedInv'
  <2>1. ASSUME NEW k \in Keys
        PROVE  HostLine(managed'[k]) = {} \/ owed'[k] \subseteq HostLine(managed'[k])
    <3>1. CASE managed'[k] = IF k \in o.keys THEN o.file[k] ELSE {}
      BY <1>4, <1>6, <3>1
    <3>2. CASE ~Wanted(o) /\ UNCHANGED <<managed, present>>
      <4>1. ~first
        BY <3>2 DEF Wanted
      <4>. QED
        BY <1>0, <1>1, <3>2, <4>1 DEF OwedInv
    <3>. QED
      BY <1>3, <3>1, <3>2
  <2>. QED
    BY <1>1, <1>6, <1>7, <1>8, <2>1 DEF OwedInv, HostLine
<1>12. PresentInv'
  BY <1>3 DEF FilesInv, PresentInv
<1>. QED
  BY <1>7, <1>8, <1>9, <1>10, <1>11, <1>12 DEF FilesInv, OpFits

LEMMA EndFiles ==
    ASSUME Inv, FilesInv, NEW p \in Procs,
           WriteInclude(p) \/ CacheSynced(p) \/ Report(p) \/ CancelDialog(p) \/ Fail(p)
    PROVE  FilesInv'
<1>. USE DEF history
<1>0. /\ job \in [Procs -> Jobs] /\ job[p] \in Jobs /\ OpFits(p)
      /\ Idle \in Jobs /\ Idle.pc = "idle" /\ Idle.op = "none"
      /\ UNCHANGED <<bindings, managed, present, owed, edit>>
  BY IdleType DEF Inv, HostTypeOK, FilesInv, Idle, WriteInclude, CacheSynced, Report,
                  CancelDialog, Fail
<1>1. CASE WriteInclude(p) \/ CacheSynced(p)
  <2>. DEFINE j == [job[p] EXCEPT !.pc = "done"]
  <2>1. /\ job' = [job EXCEPT ![p] = j] /\ job'[p] = j /\ job[p].pc \in {"include", "cache"}
    BY <1>0, <1>1 DEF WriteInclude, CacheSynced, Goto, At
  <2>2. /\ j \in Jobs /\ j.pc = "done" /\ j.clean = job[p].clean /\ j.op = job[p].op
        /\ j.key = job[p].key /\ j.keys = job[p].keys
    BY <1>0 DEF Jobs, Steps
  <2>. HIDE DEF j
  <2>3. EditFits(p)' /\ OwedFits(p)' /\ OpFits(p)'
    BY <1>0, <2>1, <2>2 DEF EditFits, OwedFits, OpFits, CleanFits, BindTarget, BindFits
  <2>. QED
    BY <1>0, <2>1, <2>2, <2>3, QuietStep
<1>2. CASE Report(p) \/ CancelDialog(p)
  <2>1. job' = [job EXCEPT ![p] = Idle] /\ job'[p] = Idle /\ job[p].pc # "idle"
    BY <1>0, <1>2 DEF Report, CancelDialog, At
  <2>2. EditFits(p)' /\ OwedFits(p)' /\ OpFits(p)'
    BY <1>0, <2>1, NoCopy
  <2>. QED
    BY <1>0, <2>1, <2>2, QuietStep
<1>3. CASE Fail(p)
  <2>. DEFINE o == job[p]
              j == CASE o.op = "open" -> [o EXCEPT !.pc = "dialog", !.file = Nothing]
                     [] o.op = "sync" /\ o.pc # "cache"
                          -> [o EXCEPT !.pc = "cache", !.clean = FALSE]
                     [] OTHER -> Idle
  <2>1. job' = [job EXCEPT ![p] = j] /\ job'[p] = j /\ o.pc # "idle"
    BY <1>0, <1>3 DEF Fail
  <2>2. /\ j \in Jobs /\ j.op # "bind" /\ (j.pc # "idle" /\ j.clean => o.clean)
        /\ j.pc \in {"idle", "dialog"} \/ (j.pc = "cache" /\ ~j.clean)
    BY <1>0, NothingType DEF Jobs, Steps
  <2>. HIDE DEF j
  <2>3. EditFits(p)' /\ OwedFits(p)' /\ OpFits(p)'
    BY <2>1, <2>2 DEF EditFits, OwedFits, OpFits, CleanFits, BindTarget, BindFits
  <2>. QED
    BY <1>0, <2>1, <2>2, <2>3, QuietStep
<1>. QED
  BY <1>1, <1>2, <1>3

\* What the user does to the snippet disturbs the operations at work.
LEMMA DisturbFiles ==
    ASSUME Inv, FilesInv, job' = Disturbed,
           \A k \in Keys : edit'[k] \in {edit[k], {}} \/ Busy = {},
           \A k \in Keys : owed'[k] \subseteq owed[k]
    PROVE  Alone' /\ \A q \in Procs : EditFits(q)' /\ OwedFits(q)' /\ OpFits(q)'
<1>1. ASSUME NEW q \in Procs
      PROVE  /\ job'[q].pc = job[q].pc /\ job'[q].op = job[q].op /\ job'[q].key = job[q].key
             /\ job'[q].keys = job[q].keys /\ job'[q].file = job[q].file
             /\ job'[q].pc = "idle" \/ ~job'[q].clean
             /\ job[q].keys \subseteq Keys
             /\ Busy = {} => job[q].pc = "idle"
  BY JobFields DEF Disturbed, Busy, Jobs, Inv, HostTypeOK
<1>2. Alone'
  BY <1>1 DEF Alone
<1>3. ASSUME NEW q \in Procs PROVE EditFits(q)' /\ OwedFits(q)' /\ OpFits(q)'
  <2>1. EditFits(q)'
    BY <1>1 DEF FilesInv, EditInv, EditFits
  <2>2. OwedFits(q)'
    BY <1>1 DEF FilesInv, OwedInv, OwedFits
  <2>3. OpFits(q)'
    BY <1>1 DEF FilesInv, OpFits, CleanFits, BindTarget, BindFits
  <2>. QED
    BY <2>1, <2>2, <2>3
<1>. QED
  BY <1>2, <1>3

LEMMA OutsideFiles == ASSUME Inv, FilesInv, Outside PROVE FilesInv'
<1>. USE DEF history
<1>1. ASSUME NEW k \in Keys, NEW line \in Lines, UserEdits(k, line) PROVE FilesInv'
  <2>0. /\ managed \in [Keys -> Lines] /\ edit \in Bindings /\ owed \in Bindings
    BY DEF Inv, HostTypeOK
  <2>1. /\ \A i \in Keys : managed'[i] = IF i = k THEN line ELSE managed[i]
        /\ \A i \in Keys : owed'[i] = IF i = k THEN {} ELSE owed[i]
        /\ \A i \in Keys : edit'[i] = IF i # k THEN edit[i]
                                      ELSE IF Busy = {} THEN HostLine(line) ELSE {}
        /\ job' = Disturbed /\ present /\ present' /\ UNCHANGED bindings
    BY <1>1, <2>0 DEF UserEdits, Bindings
  <2>2. Alone' /\ \A q \in Procs : EditFits(q)' /\ OwedFits(q)' /\ OpFits(q)'
    BY <2>1, DisturbFiles
  <2>3. EditInv' /\ OwedInv'
    BY <2>1, <2>2 DEF FilesInv, EditInv, OwedInv, HostLine
  <2>. QED
    BY <2>1, <2>2, <2>3 DEF FilesInv, PresentInv
<1>2. CASE UserDeletes
  <2>1. /\ \A i \in Keys : managed'[i] = {} /\ edit'[i] = {}
        /\ managed' = Nothing /\ job' = Disturbed /\ UNCHANGED <<bindings, owed>>
    BY <1>2 DEF UserDeletes, Nothing
  <2>2. Alone' /\ \A q \in Procs : EditFits(q)' /\ OwedFits(q)' /\ OpFits(q)'
    BY <2>1, DisturbFiles
  <2>3. EditInv' /\ OwedInv'
    BY <2>1, <2>2 DEF FilesInv, EditInv, OwedInv, HostLine
  <2>. QED
    BY <2>1, <2>2, <2>3 DEF FilesInv, PresentInv
<1>3. CASE RemoveInclude \/ ForgetCache \/ DoctorFix
  <2>1. /\ UNCHANGED <<bindings, managed, job, owed, edit>>
        /\ ~present' => ~present
    BY <1>3 DEF RemoveInclude, ForgetCache, DoctorFix
  <2>2. Alone' /\ PresentInv'
    BY <2>1 DEF FilesInv, Alone, PresentInv
  <2>3. \A q \in Procs : EditFits(q)' /\ OwedFits(q)' /\ OpFits(q)'
    BY <2>1 DEF FilesInv, EditInv, OwedInv, EditFits, OwedFits, OpFits, CleanFits, BindTarget,
                BindFits
  <2>4. EditInv' /\ OwedInv'
    BY <2>1, <2>3 DEF FilesInv, EditInv, OwedInv, HostLine
  <2>. QED
    BY <2>2, <2>3, <2>4 DEF FilesInv
<1>. QED
  BY <1>1, <1>2, <1>3 DEF Outside

LEMMA StutterFiles == ASSUME FilesInv, UNCHANGED vars PROVE FilesInv'
<1>1. UNCHANGED <<bindings, managed, present, job, owed, edit>>
  BY DEF vars, history
<1>2. Alone' /\ PresentInv'
  BY <1>1 DEF FilesInv, Alone, PresentInv
<1>3. \A q \in Procs : EditFits(q)' /\ OwedFits(q)' /\ OpFits(q)'
  BY <1>1 DEF FilesInv, EditInv, OwedInv, EditFits, OwedFits, OpFits, CleanFits, BindTarget,
              BindFits
<1>4. EditInv' /\ OwedInv'
  BY <1>1, <1>3 DEF FilesInv, EditInv, OwedInv, HostLine
<1>. QED
  BY <1>2, <1>3, <1>4 DEF FilesInv

LEMMA FilesInvariance == Spec => [](Inv /\ FilesInv)
<1>1. Inv /\ FilesInv /\ [Next]_vars => FilesInv'
  <2>. SUFFICES ASSUME Inv, FilesInv, [Next]_vars PROVE FilesInv'
    OBVIOUS
  <2>1. ASSUME NEW p \in Procs, Step(p) PROVE FilesInv'
    BY <2>1, UpdateFiles, ImportFiles, PruneFiles, WriteFiles, EndFiles DEF Step
  <2>. QED
    BY <2>1, BeginFiles, OutsideFiles, StutterFiles DEF Next
<1>. QED
  BY <1>1, Invariance, InitFiles, PTL DEF Spec

-----------------------------------------------------------------------------
(* The theorems.                                                           *)

\* Whatever the user writes into the snippet and however the operations overlap
\* and fail, bindings.json holds valid host patterns only.
THEOREM BindingsWellTyped == Spec => []HostTypeOK
BY Invariance, PTL DEF Inv

\* At most one process is between the load and the save of a locked update.
THEOREM LockedUpdatesExclusive == Spec => []UpdatesExclusive
BY Invariance, PTL DEF Inv

\* However operations overlap, fail and are killed: an operation that nobody
\* disturbed and that met no error ends with a snippet which agrees with
\* bindings.json on every key (sync_managed_ssh_config_inner).
THEOREM SnippetsAgree == Spec => []SnippetAgrees
<1>1. Inv /\ FilesInv => SnippetAgrees
  BY DEF FilesInv, OpFits, CleanFits, SnippetAgrees
<1>. QED
  BY <1>1, FilesInvariance, PTL

\* A valid Host line that the user edits outlives every regeneration of the
\* snippet, by operations that overlap and fail as well, until the user changes
\* that key or it is no longer known (import_host_bindings_from_managed_file).
THEOREM EditsSurvive == Spec => []EditSurvives
<1>1. ASSUME Inv, FilesInv PROVE EditSurvives
  <2>. SUFFICES ASSUME NEW k \in Keys, edit[k] # {}
                PROVE  managed[k] \ {Placeholder} = edit[k]
    BY DEF EditSurvives
  <2>1. HostLine(managed[k]) = edit[k]
    BY <1>1 DEF FilesInv, EditInv
  <2>. QED
    BY <2>1 DEF HostLine
<1>. QED
  BY <1>1, FilesInvariance, PTL

\* The first hosts bound to a key, once reported, are in bindings.json until the
\* user changes them or an operation that knows the vault finds the key gone.
THEOREM FirstBindsKept == Spec => []BindingsKept
<1>1. Inv /\ FilesInv => BindingsKept
  BY DEF FilesInv, OwedInv, BindingsKept
<1>. QED
  BY <1>1, FilesInvariance, PTL
===============================================================================
