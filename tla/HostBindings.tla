----------------------------- MODULE HostBindings -----------------------------
(***************************************************************************)
(* Which SSH key is offered to which host: bindings.json, the managed SSH  *)
(* config snippet generated from it, and the Include line that makes ssh   *)
(* read the snippet.  The `keys` and `ssh-config` commands, the bind-hosts *)
(* dialog and the daemon's sync work on these files from processes of      *)
(* their own, and the user may edit the Host lines of the snippet, which   *)
(* every operation imports before it writes the snippet again.  Only the   *)
(* update of an explicit change runs under the file lock.                  *)
(***************************************************************************)
EXTENDS Naturals

CONSTANTS
    Keys,         \* vault items
    Hosts,        \* valid host patterns
    Placeholder,  \* the pattern <host> of a template
    Invalid,      \* a pattern that validate_host_pattern refuses
    Procs,        \* processes and daemon tasks that work on the files
    NoProc,       \* no process
    NoKey,        \* no vault item
    Commands,     \* what the user and the daemon do
    Overlapping,  \* operations that may run at the same time; "edit" is the user's
    Faults        \* a process may be killed, or a file operation may fail

Ops == {"none", "bind", "unbind", "clear", "open", "dialog", "list", "write", "sync"}

ASSUME HostAssumption ==
    /\ Placeholder \notin Hosts /\ Invalid \notin Hosts /\ Invalid # Placeholder
    /\ NoProc \notin Procs /\ NoKey \notin Keys
    /\ Commands \subseteq {"bind", "unbind", "clear", "open", "list", "write", "sync"}
    /\ Overlapping \subseteq Ops \cup {"edit"}
    /\ Faults \in BOOLEAN

VARIABLES
    bindings,  \* bindings.json: the hosts of each key, {} when it has no entry
    managed,   \* the snippet: the patterns of the Host line in each key's block
    present,   \* the snippet exists
    included,  \* ~/.ssh/config includes the snippet
    cached,    \* the keys in the header of the local key cache, {} without one
    lock,      \* the holder of the advisory lock on bindings.json
    job,       \* the operation of each process: its step and its locals
    owed,      \* history: hosts whose first bind was reported to the user
    edit       \* history: the Host line the user has edited last

history == <<owed, edit>>
vars    == <<bindings, managed, present, included, cached, lock, job, history>>

\* Host lines a user may leave: an invalid pattern spoils the whole line.
Lines    == (SUBSET (Hosts \cup {Placeholder})) \cup {{Invalid}}
Bindings == [Keys -> SUBSET Hosts]
Nothing  == [k \in Keys |-> {}]

Locked == {"l_load", "l_read", "l_save"}
Steps  == {"idle", "lock", "load", "read", "save", "dialog", "prune", "write", "include",
           "cache", "done"} \cup Locked

\* keys: the caller's list of known keys; file: its copy of bindings.json; key
\* and hosts: the change it was asked for; clean: no error so far, and nobody else
\* touched the files.
Jobs == [pc : Steps, op : Ops, keys : SUBSET Keys, key : Keys \cup {NoKey}, hosts : SUBSET Hosts,
         file : Bindings, clean : BOOLEAN]

Idle == [pc |-> "idle", op |-> "none", keys |-> {}, key |-> NoKey,
         hosts |-> {}, file |-> Nothing, clean |-> TRUE]

\* Every variable stays in its type; bindings never hold the placeholder of a
\* template or a pattern that validation refuses.
HostTypeOK ==
    /\ bindings \in Bindings /\ managed \in [Keys -> Lines]
    /\ present \in BOOLEAN /\ included \in BOOLEAN
    /\ cached \subseteq Keys /\ lock \in Procs \cup {NoProc} /\ job \in [Procs -> Jobs]
    /\ owed \in Bindings /\ edit \in Bindings

-----------------------------------------------------------------------------
(* The files: what the helpers read and compute.                           *)

\* import_host_bindings_from_managed_file: a Host line counts without its
\* placeholders, and not at all when a pattern in it is invalid.
HostLine(line) == IF Invalid \in line THEN {} ELSE line \ {Placeholder}

ImportedUnfiltered(file, keys) ==
    [k \in Keys |-> IF k \in keys /\ managed[k] # {} THEN managed[k] ELSE file[k]]

ImportedUnbound(file, keys) ==
    [k \in Keys |-> IF k \in keys /\ file[k] = {} THEN HostLine(managed[k]) ELSE file[k]]

\* A line of a known key replaces the key's entry; a template replaces nothing.
Imported(file, keys) ==
    [k \in Keys |-> IF k \in keys /\ HostLine(managed[k]) # {}
                      THEN HostLine(managed[k]) ELSE file[k]]

PrunedAlways(file, keys) == [k \in Keys |-> IF k \in keys THEN file[k] ELSE {}]

\* prune_orphans, which a caller that knows no key at all leaves out.
Pruned(file, keys) ==
    IF keys = {} THEN file ELSE [k \in Keys |-> IF k \in keys THEN file[k] ELSE {}]

\* ssh_config_snippet_with_bindings: a block per known key, a template for the
\* ones without a binding.
Snippet(file, keys) == [k \in Keys |-> IF k \in keys THEN file[k] ELSE {}]

\* A snippet nobody asked for is not created.
Wanted(j) == j.op # "sync" \/ j.file # Nothing \/ present

\* add_host, remove_host, clear_key and set_hosts.
Changed(j, file) ==
    CASE j.op = "bind"   -> [file EXCEPT ![j.key] = @ \cup j.hosts]
      [] j.op = "unbind" -> [file EXCEPT ![j.key] = @ \ j.hosts]
      [] j.op = "clear"  -> [file EXCEPT ![j.key] = {}]
      [] OTHER           -> [file EXCEPT ![j.key] = j.hosts]

\* The change a command asks for has to be there: unbind fails without one.
Effective(j) == \/ j.op \notin {"unbind", "clear"}
                \/ j.op = "unbind" /\ j.file[j.key] \cap j.hosts # {}
                \/ j.op = "clear" /\ j.file[j.key] # {}

AfterUpdate(j) ==
    IF j.op = "bind" THEN [j EXCEPT !.pc = "load", !.file = Nothing]
                     ELSE [Idle EXCEPT !.pc = "load", !.op = j.op, !.keys = j.keys,
                                       !.clean = j.clean]

PrunedFileUnsaved(j) == bindings

\* What the pruning saves: the file is written when an entry went.
PrunedFile(j) ==
    LET pruned == Pruned(j.file, j.keys)
    IN IF pruned = j.file THEN bindings ELSE pruned

-----------------------------------------------------------------------------
(* Starting an operation.                                                  *)

Busy == {p \in Procs : job[p].pc # "idle"}

Disturbed == [p \in Procs |-> IF p \in Busy THEN [job[p] EXCEPT !.clean = FALSE] ELSE job[p]]

At(p, step) == job[p].pc = step

Goto(p, step) == job' = [job EXCEPT ![p].pc = step]

\* Nothing is claimed of operations that overlap.
Start(p, j) ==
    LET others == Busy \ {p} IN
    /\ others = {} \/ {job[q].op : q \in others} \cup {j.op} \subseteq Overlapping
    /\ job' = [Disturbed EXCEPT ![p] = [j EXCEPT !.clean = (others = {})]]
    /\ IF others = {} THEN UNCHANGED history ELSE owed' = Nothing /\ edit' = Nothing
    /\ UNCHANGED <<bindings, managed, present, included, cached, lock>>

\* resolve_cipher_id: without a cache any id is taken as it is.
Resolves(k) == cached = {} \/ k \in cached

\* `keys bind`.
CmdBind(p, k, hs) ==
    /\ At(p, "idle") /\ "bind" \in Commands /\ Resolves(k)
    /\ Start(p, [Idle EXCEPT !.pc = "lock", !.op = "bind", !.keys = cached, !.key = k,
                             !.hosts = hs])

\* `keys unbind` of a host.
CmdUnbind(p, k, h) ==
    /\ At(p, "idle") /\ "unbind" \in Commands /\ Resolves(k)
    /\ Start(p, [Idle EXCEPT !.pc = "lock", !.op = "unbind", !.keys = cached, !.key = k,
                             !.hosts = {h}])

\* `keys unbind --all`.
CmdClear(p, k) ==
    /\ At(p, "idle") /\ "clear" \in Commands /\ Resolves(k)
    /\ Start(p, [Idle EXCEPT !.pc = "lock", !.op = "clear", !.keys = cached, !.key = k])

\* The bind-hosts dialog, from a sign request or on its own, needs known keys.
OpenDialog(p) ==
    /\ At(p, "idle") /\ "open" \in Commands /\ cached # {}
    /\ Start(p, [Idle EXCEPT !.pc = "load", !.op = "open", !.keys = cached])

\* `keys` and `ssh-config` without a subcommand show what there is.
CmdList(p) ==
    /\ At(p, "idle") /\ "list" \in Commands /\ cached # {}
    /\ Start(p, [Idle EXCEPT !.pc = "load", !.op = "list", !.keys = cached])

\* `ssh-config write`.
CmdWrite(p) ==
    /\ At(p, "idle") /\ "write" \in Commands
    /\ Start(p, [Idle EXCEPT !.pc = "load", !.op = "write", !.keys = cached])

\* The daemon has synced the vault, whose keys may be any by now.
VaultSynced(p, ks) ==
    /\ At(p, "idle") /\ "sync" \in Commands
    /\ Start(p, [Idle EXCEPT !.pc = "load", !.op = "sync", !.keys = ks])

-----------------------------------------------------------------------------
(* update_locked: an explicit change under the file lock.                  *)

AcquireLock(p) ==
    /\ At(p, "lock") /\ lock = NoProc
    /\ lock' = p
    /\ Goto(p, "l_load")
    /\ UNCHANGED <<bindings, managed, present, included, cached, history>>

LockTimeoutIgnored(p) ==
    /\ At(p, "lock") /\ lock # NoProc
    /\ Goto(p, "l_load")
    /\ UNCHANGED <<bindings, managed, present, included, cached, lock, history>>

\* After ten seconds the command gives up.
LockTimeout(p) ==
    /\ At(p, "lock") /\ lock # NoProc
    /\ job' = [job EXCEPT ![p] = Idle]
    /\ UNCHANGED <<bindings, managed, present, included, cached, lock, history>>

LockedLoad(p) ==
    /\ At(p, "l_load")
    /\ job' = [job EXCEPT ![p].pc = "l_read", ![p].file = bindings]
    /\ UNCHANGED <<bindings, managed, present, included, cached, lock, history>>

\* with_host_bindings_locked imports the edited lines before it changes anything.
LockedImport(p) ==
    /\ At(p, "l_read")
    /\ job' = [job EXCEPT ![p].pc = "l_save",
                          ![p].file = Imported(job[p].file, job[p].keys)]
    /\ UNCHANGED <<bindings, managed, present, included, cached, lock, history>>

\* An unbind that finds nothing to remove saves the file all the same.  From here
\* on only a bind still matters by its hosts.
LockedSave(p) ==
    /\ At(p, "l_save")
    /\ bindings' = Changed(job[p], job[p].file)
    /\ lock' = NoProc
    /\ job' = [job EXCEPT ![p] = IF Effective(@) THEN AfterUpdate(@) ELSE Idle]
    /\ owed' = [owed EXCEPT ![job[p].key] = IF job[p].op = "bind" THEN @ ELSE {}]
    /\ edit' = [edit EXCEPT ![job[p].key] = {}]
    /\ UNCHANGED <<managed, present, included, cached>>

-----------------------------------------------------------------------------
(* Loading the bindings and writing the snippet, without the lock.         *)

LoadBindings(p) ==
    /\ At(p, "load")
    /\ job' = [job EXCEPT ![p].pc = "read", ![p].file = bindings]
    /\ UNCHANGED <<bindings, managed, present, included, cached, lock, history>>

\* Where the callers of load_host_bindings_importing_managed go on.
AfterImport(op) == CASE op = "open" -> "dialog" [] op = "list" -> "done" [] OTHER -> "prune"

ImportManaged(p) ==
    LET j == job[p]  file == Imported(j.file, j.keys) IN
    /\ At(p, "read")
    /\ job' = [job EXCEPT ![p].file = file,
                          ![p].pc = IF file # j.file THEN "save" ELSE AfterImport(j.op)]
    /\ UNCHANGED <<bindings, managed, present, included, cached, lock, history>>

SaveImported(p) ==
    /\ At(p, "save")
    /\ bindings' = job[p].file
    /\ Goto(p, AfterImport(job[p].op))
    /\ UNCHANGED <<managed, present, included, cached, lock, history>>

\* sync_managed_ssh_config_inner: entries of keys the caller does not know go.
Prune(p) ==
    LET j == job[p]  file == Pruned(j.file, j.keys) IN
    /\ At(p, "prune")
    /\ bindings' = PrunedFile(j)
    /\ job' = [job EXCEPT ![p].file = file, ![p].pc = "write"]
    /\ owed' = [k \in Keys |-> IF j.keys = {} \/ k \in j.keys THEN owed[k] ELSE {}]
    /\ UNCHANGED <<managed, present, included, cached, lock, edit>>

AfterWrite(op) == CASE op = "sync" -> "cache"
                    [] op \in {"bind", "dialog", "write"} -> "include"
                    [] OTHER -> "done"

\* A bind of a key that had no Host line is owed to the user from here on.
WriteSnippet(p) ==
    LET j == job[p] IN
    /\ At(p, "write")
    /\ IF Wanted(j) THEN managed' = Snippet(j.file, j.keys) /\ present' = TRUE
                    ELSE UNCHANGED <<managed, present>>
    /\ job' = [job EXCEPT ![p].pc = AfterWrite(j.op), ![p].file = Nothing]
    /\ owed' = IF j.op = "bind" /\ j.clean /\ (j.keys = {} \/ managed[j.key] = {})
                  THEN [owed EXCEPT ![j.key] = @ \cup j.hosts] ELSE owed
    /\ edit' = [k \in Keys |-> IF k \in j.keys THEN edit[k] ELSE {}]
    /\ UNCHANGED <<bindings, included, cached, lock>>

\* write_sshwarden_include_line; a bind goes on when it fails.
WriteInclude(p) ==
    /\ At(p, "include")
    /\ included' \in {TRUE} \cup (IF Faults THEN {included} ELSE {})
    /\ Goto(p, "done")
    /\ UNCHANGED <<bindings, managed, present, cached, lock, history>>

\* The sync goes on to the key cache, which it may not be able to write.
CacheSynced(p) ==
    /\ At(p, "cache")
    /\ cached' \in {cached, job[p].keys}
    /\ Goto(p, "done")
    /\ UNCHANGED <<bindings, managed, present, included, lock, history>>

\* The command reports and ends.
Report(p) ==
    /\ At(p, "done")
    /\ job' = [job EXCEPT ![p] = Idle]
    /\ UNCHANGED <<bindings, managed, present, included, cached, lock, history>>

\* The user saves the dialog: the hosts it showed for a key, one more or less.
SaveDialog(p, k, h) ==
    /\ At(p, "dialog") /\ k \in job[p].keys
    /\ \E hs \in {job[p].file[k] \cup {h}, job[p].file[k] \ {h}} :
         Start(p, [Idle EXCEPT !.pc = "lock", !.op = "dialog", !.keys = cached, !.key = k,
                               !.hosts = hs])

\* The user closes it, or it times out.
CancelDialog(p) ==
    /\ At(p, "dialog")
    /\ job' = [job EXCEPT ![p] = Idle]
    /\ UNCHANGED <<bindings, managed, present, included, cached, lock, history>>

\* An error ends a command and gives up the lock; a dialog that cannot load the
\* bindings shows none, and a sync goes on to the key cache.
Fail(p) ==
    /\ Faults /\ job[p].pc \in Steps \ {"idle", "dialog", "done"}
    /\ job' = [job EXCEPT ![p] =
          CASE @.op = "open" -> [@ EXCEPT !.pc = "dialog", !.file = Nothing]
            [] @.op = "sync" /\ @.pc # "cache" -> [@ EXCEPT !.pc = "cache", !.clean = FALSE]
            [] OTHER -> Idle]
    /\ lock' = IF lock = p THEN NoProc ELSE lock
    /\ UNCHANGED <<bindings, managed, present, included, cached, history>>

-----------------------------------------------------------------------------
(* What happens around the operations.                                     *)

MayEdit == Busy = {} \/ "edit" \in Overlapping

\* The user edits the Host line of a block in the snippet.
UserEdits(k, line) ==
    /\ present /\ MayEdit
    /\ managed' = [managed EXCEPT ![k] = line]
    /\ job' = Disturbed
    /\ edit' = [edit EXCEPT ![k] = IF Busy = {} THEN HostLine(line) ELSE {}]
    /\ owed' = [owed EXCEPT ![k] = {}]
    /\ UNCHANGED <<bindings, present, included, cached, lock>>

\* The user deletes the snippet.
UserDeletes ==
    /\ present /\ MayEdit
    /\ managed' = Nothing /\ present' = FALSE /\ edit' = Nothing
    /\ job' = Disturbed
    /\ UNCHANGED <<bindings, included, cached, lock, owed>>

\* `ssh-config remove`.
RemoveInclude ==
    /\ included /\ included' = FALSE
    /\ UNCHANGED <<bindings, managed, present, cached, lock, job, history>>

\* `doctor --fix` puts in the Include line and, where there is none, a snippet
\* without blocks; it reports what it cannot write and goes on.
DoctorFix ==
    /\ ~included
    /\ present' \in {TRUE} \cup (IF Faults THEN {present} ELSE {})
    /\ included' \in {TRUE} \cup (IF Faults THEN {included} ELSE {})
    /\ UNCHANGED <<bindings, managed, cached, lock, job, history>>

\* `forget` deletes the key cache.
ForgetCache ==
    /\ cached # {} /\ cached' = {}
    /\ UNCHANGED <<bindings, managed, present, included, lock, job, history>>

-----------------------------------------------------------------------------

Init ==
    /\ bindings = Nothing /\ managed = Nothing
    /\ present = FALSE /\ included = FALSE
    /\ cached \in SUBSET Keys
    /\ lock = NoProc /\ job = [p \in Procs |-> Idle]
    /\ owed = Nothing /\ edit = Nothing

Begin(p) ==
    \/ \E k \in Keys, hs \in (SUBSET Hosts) \ {{}} : CmdBind(p, k, hs)
    \/ \E k \in Keys, h \in Hosts : CmdUnbind(p, k, h) \/ SaveDialog(p, k, h)
    \/ \E k \in Keys : CmdClear(p, k)
    \/ \E ks \in SUBSET Keys : VaultSynced(p, ks)
    \/ OpenDialog(p) \/ CmdList(p) \/ CmdWrite(p)

Step(p) ==
    \/ AcquireLock(p) \/ LockTimeout(p) \/ LockedLoad(p) \/ LockedImport(p) \/ LockedSave(p)
    \/ LoadBindings(p) \/ ImportManaged(p) \/ SaveImported(p) \/ Prune(p) \/ WriteSnippet(p)
    \/ WriteInclude(p) \/ CacheSynced(p) \/ Report(p) \/ CancelDialog(p) \/ Fail(p)

Outside ==
    \/ \E k \in Keys, line \in Lines : UserEdits(k, line)
    \/ UserDeletes \/ RemoveInclude \/ DoctorFix \/ ForgetCache

Next == (\E p \in Procs : Begin(p) \/ Step(p)) \/ Outside

Spec == Init /\ [][Next]_vars

-----------------------------------------------------------------------------
(* Properties.                                                             *)

\* Two read-modify-write cycles under the lock never overlap, whichever of them
\* times out, fails or is killed (update_locked, acquire_lock).
UpdatesExclusive == \A p \in Procs : job[p].pc \in Locked => lock = p

\* An operation that ran without an error and without interference leaves a
\* snippet which says what bindings.json says, for every key: keys that left the
\* vault are gone from both (sync_managed_ssh_config_inner).
SnippetAgrees ==
    \A p \in Procs :
        /\ job[p].pc = "done" /\ job[p].op # "list"
        /\ job[p].clean /\ job[p].keys # {}
        => managed = bindings

\* A valid Host line that the user edits stays in the snippet through every
\* regeneration, until the user changes that key or it is no longer known
\* (import_host_bindings_from_managed_file).
EditSurvives == \A k \in Keys : edit[k] # {} => managed[k] \ {Placeholder} = edit[k]

\* The first hosts bound to a key stay bound until the user changes them or an
\* operation that knows the vault's keys finds the key gone; in particular a
\* binding made ahead of the first sync is not pruned (sync_managed_ssh_config_inner).
BindingsKept == \A k \in Keys : owed[k] \subseteq bindings[k]

\* keys.rs: a reported bind is in bindings.json, "a concurrent `keys bind` (or
\* sign-flow binding) cannot clobber this update".
BindTakesEffect ==
    \A p \in Procs :
        job[p].pc = "done" /\ job[p].op = "bind" => job[p].hosts \subseteq bindings[job[p].key]

=============================================================================
