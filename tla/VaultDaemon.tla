------------------------------ MODULE VaultDaemon ------------------------------
(***************************************************************************)
(* The SSHWarden daemon around its vault: the serial main loop of          *)
(* run_foreground (control commands, runtime events, hub events, timers)   *)
(* and the UI request handlers it spawns, one task per sign request.       *)
(*                                                                         *)
(* The runtime is multi-threaded, so every access to a shared cell         *)
(* (vault_locked, the agent keystore, cached_key_tuples, the local cache   *)
(* key, the authorization memory) is an action of its own; main and ui     *)
(* hold the program counters and the locals of the tasks.  Code between    *)
(* two such accesses that touches no shared cell is folded into one of     *)
(* them.                                                                   *)
(***************************************************************************)
EXTENDS Naturals, Sequences, FiniteSets

CONSTANTS
    Items,            \* vault item ids of the SSH keys
    MaxVersion,       \* bound: key material of an item is 1..MaxVersion, 0 is absent
    MaxGen,           \* bound: local cache keys generated over the lifetime of the files
    Ops,              \* operation kinds (SSH authentication, SSHSIG, ...)
    Requests,         \* slots for concurrent sign requests
    Forwarding,       \* whether requests come over a forwarded agent, or both
    EventCap,         \* bound: capacity of the runtime event channel (32 in the code)
    PromptBehavior,   \* [agent] prompt_behavior
    AutoUnlock,       \* [unlock] auto_unlock_on_request
    Commands,         \* control commands the clients issue
    VaultChanges,     \* what may happen to an SSH key in the Bitwarden vault
    HubEvents,        \* notification hub events the server can cause
    NetworkStalls,    \* a server call may outlast the control watchdog
    TransportFails,   \* the SSH agent listener may exit under the daemon
    SaveFails,        \* writing or deleting a file may fail
    Restarts          \* the process may end at any point and be started again

ASSUME ConstantsAssumption ==
    /\ Items # {} /\ Ops # {}
    /\ MaxVersion \in Nat \ {0}
    /\ MaxGen \in Nat \ {0}
    /\ EventCap \in Nat \ {0}
    /\ PromptBehavior \in {"Always", "Never", "RememberUntilLock"}
    /\ {AutoUnlock, NetworkStalls, TransportFails, SaveFails, Restarts} \subseteq BOOLEAN
    /\ Commands \subseteq {"Lock", "Unlock", "UnlockNative", "UnlockHello", "UnlockPin",
                         "Login", "Sync", "SetPin", "Forget"}
    /\ Forwarding \subseteq BOOLEAN
    /\ VaultChanges \subseteq {"rotate", "delete"}
    /\ HubEvents \subseteq {"CipherChanged", "LogOut", "FallbackSyncDue"}

VARIABLES
    vault_locked,     \* the AtomicBool
    is_running,       \* the agent's listener is serving
    keystore,         \* agent keystore: listed material and whether it is private
    cached,           \* cached_key_tuples: private key tuples in memory
    lck,              \* local_cache_key_state: generation of the key held, 0 is none
    memory,           \* authorization_memory
    fingerprints,     \* key_material_fingerprints
    cache_data,       \* local_key_cache_data: the cache file as last read or written
    disk,             \* local-key-cache.json
    session,          \* device session file: absent, without or with a PIN token
    made,             \* number of local cache keys generated so far
    api,              \* api_client: none, restored (no user key), or logged in
    pending_sync,     \* the AtomicBool
    hub,              \* a notification client and its receiver exist
    hubq,             \* events waiting in the receiver
    remote,           \* the SSH keys of the Bitwarden vault
    events,           \* runtime event channel, handlers to main loop
    main,             \* the main loop: program counter and locals
    ui,               \* the UI request handlers: program counters and locals
    due,              \* history: a vault change is seen and not yet in the agent; or its
                      \* sync is lost
    late,             \* history: approvals whose dialog was open at the last lock
    approved,         \* history: the material an approval was remembered for, 0 when the
                      \* daemon was not settled then
    forgotten         \* history: a forget succeeded, with or without requests in flight

secrets == <<keystore, cached, lck>>
store   == <<cache_data, disk, session, made>>
cloud   == <<api, hub, hubq, remote>>
history == <<due, late, approved, forgotten>>
vars == <<vault_locked, is_running, secrets, memory, fingerprints, store, cloud,
          pending_sync, events, main, ui, history>>

-----------------------------------------------------------------------------
Versions == 0 .. MaxVersion
Gens     == 0 .. MaxGen
KeySet   == [Items -> Versions]
NoKeys   == [i \in Items |-> 0]

\* A cache file: the local cache key its unlock slots wrap, the one its payload
\* is encrypted with, and the key set.  It decrypts only when the two agree.
Caches         == [slot : Gens, seal : Gens, keys : KeySet]
Absent         == [slot |-> 0, seal |-> 0, keys |-> NoKeys]
Sealed(g, k)   == [slot |-> g, seal |-> g, keys |-> k]
Present(c)     == c.slot # 0
Decryptable(c) == Present(c) /\ c.seal = c.slot

\* The local cache key an unlock of c recovers; 0 when the payload does not decrypt.
UsableKey(c) == IF Decryptable(c) THEN c.slot ELSE 0

Entries    == [ver : Versions, priv : BOOLEAN]
Keystores  == [Items -> Entries]
Private(k) == [i \in Items |-> [ver |-> k[i], priv |-> k[i] # 0]]
Public(k)  == [i \in Items |-> [ver |-> k[i], priv |-> FALSE]]

Methods == {"native", "pin"}

MainPcs == {"idle", "lock_keys", "lock_flag", "lock_cached", "lock_lck", "lock_memory",
            "u_wait", "u_lck", "u_cached", "u_keys", "u_flag", "restore", "resolve",
            "s_net", "l_net", "r_memory", "r_cached", "r_refresh", "r_blocked", "r_lck",
            "load", "l_flag", "l_session", "p_key", "p_write", "p_lck",
            "f_lck", "f_memory", "f_cached", "f_flag", "f_data", "f_keys"}
LockPcs == {"lock_flag", "lock_cached", "lock_lck", "lock_memory"}
UiPcs == {"none", "sent", "start", "capture", "decrypt", "apply", "load", "lck", "flag",
          "send", "recheck", "lookup", "prompt", "insert", "done"}

\* Handler program counters at which a captured cache is on its way into the agent.
UnlockPcs == {"decrypt", "apply", "load", "lck", "flag"}

\* What a sync or a login returns to.
Callers == {"none", "cmd", "hub", "resolve", "login"}

MainRecords == [pc : MainPcs, keys : KeySet, gen : Gens,
                cont : Callers, ctl : BOOLEAN, guard : BOOLEAN,
                was_locked : BOOLEAN, method : Methods]
UiRecords == [pc : UiPcs, item : Items, op : Ops, fwd : BOOLEAN, method : Methods,
              remember : BOOLEAN, keys : KeySet, gen : Gens,
              ok : BOOLEAN, by : {"nothing", "refusal", "prompt", "memory", "never"}]

Idle == [pc |-> "idle", keys |-> NoKeys, gen |-> 0, cont |-> "none", ctl |-> FALSE,
         guard |-> FALSE, was_locked |-> FALSE, method |-> "native"]
NoRequest == [pc |-> "none", item |-> CHOOSE i \in Items : TRUE,
              op |-> CHOOSE o \in Ops : TRUE, fwd |-> FALSE, method |-> "native",
              remember |-> FALSE, keys |-> NoKeys, gen |-> 0, ok |-> FALSE, by |-> "nothing"]
NoApprovals == [a \in Items \X Ops |-> 0]

AgentType ==
    /\ vault_locked \in BOOLEAN /\ is_running \in BOOLEAN
    /\ keystore \in Keystores /\ cached \in KeySet /\ lck \in Gens
ApprovalType ==
    /\ memory \in SUBSET (Items \X Ops) /\ late \in SUBSET (Items \X Ops)
    /\ approved \in [Items \X Ops -> Versions] /\ fingerprints \in KeySet
StoreType ==
    /\ cache_data \in Caches /\ disk \in Caches
    /\ session \in {"none", "bare", "pin"} /\ made \in Gens
CloudType ==
    /\ api \in {"none", "restored", "login"} /\ hub \in BOOLEAN
    /\ hubq \in SUBSET {"CipherChanged", "LogOut", "FallbackSyncDue"}
    /\ remote \in KeySet /\ pending_sync \in BOOLEAN
EventsType == events \in Seq(Methods) /\ Len(events) <= EventCap
TaskType == main \in MainRecords /\ ui \in [Requests -> UiRecords]
HistoryType ==
    /\ due \in {"no", "seen", "lost"}
    /\ forgotten \in {"no", "quiet", "busy"}

\* Every variable of the daemon stays in its type; the runtime event channel
\* never holds more than its capacity.
TypeOK == /\ AgentType /\ ApprovalType /\ StoreType /\ CloudType
          /\ EventsType /\ TaskType /\ HistoryType

-----------------------------------------------------------------------------
(* Starting the daemon: run_foreground up to its loop.                     *)

\* fetch_vault_keys_with_client at start: the keys go into the agent.
FirstLogin(b, r) ==
    [b EXCEPT !.keystore = Private(r), !.keys = r, !.api = "login",
              !.session = IF b.session = "none" THEN "bare" ELSE b.session]

\* prompt_setup_pin after it: a new local cache key and a cache file.
FirstPin(b) ==
    [b EXCEPT !.lck = b.made + 1, !.made = b.made + 1,
              !.disk = Sealed(b.made + 1, b.keys), !.session = "pin"]

\* What a fresh process finds or sets up, by the cache file d, the session
\* file s, the vault r and the number g of local cache keys made before.
\* With a cache file it starts locked and lists the identities of the header.
\* Without one it logs in and the user may set a PIN at once; when the login
\* fails it runs unlocked with no keys.
Boot(d, s, r, g) ==
    LET keyless == [locked |-> FALSE, keystore |-> Public(NoKeys), keys |-> NoKeys,
                    lck |-> 0, made |-> g, disk |-> d, session |-> s, api |-> "none"]
        login   == FirstLogin(keyless, r)
    IN IF Present(d)
       THEN {[keyless EXCEPT !.locked = TRUE, !.keystore = Public(d.keys)]}
       ELSE {keyless, login} \cup (IF r # NoKeys /\ g < MaxGen THEN {FirstPin(login)} ELSE {})

Init ==
    /\ remote = [i \in Items |-> 1]
    /\ \E d \in {Absent, Sealed(1, remote)}, s \in {"none", "pin"} :
       \E b \in Boot(d, s, remote, d.slot) :
          /\ vault_locked = b.locked /\ keystore = b.keystore
          /\ cached = b.keys /\ fingerprints = b.keys
          /\ lck = b.lck /\ made = b.made /\ disk = b.disk /\ cache_data = b.disk
          /\ session = b.session /\ api = b.api
          /\ hub \in {FALSE, b.api = "login"}
    /\ is_running = TRUE /\ pending_sync = FALSE
    /\ memory = {} /\ hubq = {} /\ events = << >>
    /\ main = Idle /\ ui = [r \in Requests |-> NoRequest]
    /\ due = "no" /\ late = {} /\ approved = NoApprovals
    /\ forgotten = "no"

\* The process ends (stop command, Ctrl-C, fatal transport signal, crash) at
\* any point and is started again: only the files and the server survive.
Restart ==
    /\ Restarts
    /\ \E b \in Boot(disk, session, remote, made) :
          /\ vault_locked' = b.locked /\ keystore' = b.keystore
          /\ cached' = b.keys /\ fingerprints' = b.keys
          /\ lck' = b.lck /\ made' = b.made /\ disk' = b.disk /\ cache_data' = b.disk
          /\ session' = b.session /\ api' = b.api
          /\ hub' \in {FALSE, b.api = "login"}
    /\ is_running' = TRUE /\ pending_sync' = FALSE
    /\ memory' = {} /\ hubq' = {} /\ events' = << >>
    /\ main' = Idle /\ ui' = [r \in Requests |-> NoRequest]
    /\ due' = "no" /\ late' = {} /\ approved' = NoApprovals
    /\ forgotten' = "no"
    /\ UNCHANGED remote

-----------------------------------------------------------------------------
(* The main loop's bookkeeping.  A task is a sequence of steps that ends in *)
(* Return; ctl marks a task run for a control command, under the watchdog. *)

At(pc)   == main.pc = pc
Goto(pc) == main' = [main EXCEPT !.pc = pc]
Return   == main' = Idle
Begin(pc, ctl) == At("idle") /\ main' = [Idle EXCEPT !.pc = pc, !.ctl = ctl]

\* Requests the loop has spawned a handler for: in_flight_prompts.
InFlight == {r \in Requests : ui[r].pc \notin {"none", "sent", "done"}}

\* No task of the daemon is in the middle of something that moves secrets.
Quiescent == At("idle") /\ \A r \in Requests : ui[r].pc \notin UnlockPcs \cup {"insert"}

-----------------------------------------------------------------------------
(* lock_vault, and the three ways into it.                                 *)

\* `sshwarden lock`; on a locked vault it only says so.
CmdLock ==
    /\ "Lock" \in Commands
    /\ ~vault_locked
    /\ Begin("lock_keys", TRUE)
    /\ UNCHANGED <<vault_locked, is_running, secrets, memory, fingerprints, store, cloud,
                   pending_sync, events, ui, history>>

\* A remote logout locks without looking at vault_locked.
OnLogOut ==
    /\ "LogOut" \in hubq
    /\ hubq' = hubq \ {"LogOut"}
    /\ Begin("lock_keys", FALSE)
    /\ UNCHANGED <<vault_locked, is_running, secrets, memory, fingerprints, store, api, hub,
                   remote, pending_sync, events, ui, history>>

\* The inactivity timer; the elapsed time is left open.
AutoLock ==
    /\ ~vault_locked
    /\ InFlight = {}
    /\ Begin("lock_keys", FALSE)
    /\ UNCHANGED <<vault_locked, is_running, secrets, memory, fingerprints, store, cloud,
                   pending_sync, events, ui, history>>

\* agent.lock(): fails, and ends the task, when the listener is gone.
LockKeys ==
    /\ At("lock_keys")
    /\ IF is_running
       THEN /\ keystore' = [i \in Items |-> [keystore[i] EXCEPT !.priv = FALSE]]
            /\ Goto("lock_flag")
       ELSE Return /\ UNCHANGED keystore
    /\ UNCHANGED <<vault_locked, is_running, cached, lck, memory, fingerprints, store, cloud,
                   pending_sync, events, ui, history>>

\* History: what the dialogs now open may still have remembered.
OpenDialogs ==
    {<<ui[r].item, ui[r].op>> : r \in
        {q \in Requests : \/ ui[q].pc \in {"lookup", "insert"}
                          \/ ui[q].pc = "prompt" /\ ui[q].remember}}

LockFlag ==
    /\ At("lock_flag")
    /\ vault_locked' = TRUE
    /\ late' = OpenDialogs
    /\ Goto("lock_cached")
    /\ UNCHANGED <<is_running, secrets, memory, fingerprints, store, cloud,
                   pending_sync, events, ui, due, approved, forgotten>>

LockCached ==
    /\ At("lock_cached")
    /\ cached' = NoKeys
    /\ Goto("lock_lck")
    /\ UNCHANGED <<vault_locked, is_running, keystore, lck, memory, fingerprints, store, cloud,
                   pending_sync, events, ui, history>>

LockLck ==
    /\ At("lock_lck")
    /\ lck' = 0
    /\ Goto("lock_memory")
    /\ UNCHANGED <<vault_locked, is_running, keystore, cached, memory, fingerprints, store,
                   cloud, pending_sync, events, ui, history>>

LockMemory ==
    /\ At("lock_memory")
    /\ memory' = {}
    /\ Return
    /\ UNCHANGED <<vault_locked, is_running, secrets, fingerprints, store, cloud,
                   pending_sync, events, ui, history>>

-----------------------------------------------------------------------------
(* Explicit unlock from the local key cache.  The four commands differ in  *)
(* the method (a native slot restores no API session, PIN and Hello do),   *)
(* and in the read guard of local_key_cache_data: in Unlock and            *)
(* UnlockHello it is a temporary of an `if let` and lives as long as the   *)
(* whole command.  Unlock is its native slot; on Windows it goes the way   *)
(* of UnlockHello, and its PIN dialog the way of UnlockPin.                *)

UnlockCommands == {"Unlock", "UnlockNative", "UnlockHello", "UnlockPin"}
MethodOf(c)    == IF c \in {"Unlock", "UnlockNative"} THEN "native" ELSE "pin"
HoldsGuard(c)  == c \in {"Unlock", "UnlockHello"}

CmdUnlock(c) ==
    /\ c \in Commands
    /\ vault_locked
    /\ Present(cache_data)
    /\ At("idle")
    /\ main' = [Idle EXCEPT !.pc = "u_wait", !.ctl = TRUE, !.method = MethodOf(c),
                            !.guard = HoldsGuard(c),
                            !.keys = cache_data.keys, !.gen = UsableKey(cache_data)]
    /\ UNCHANGED <<vault_locked, is_running, secrets, memory, fingerprints, store, cloud,
                   pending_sync, events, ui, history>>

\* The user answers the prompt: a wrong PIN, a refused or unavailable platform
\* unlock, a closed dialog or a cache that does not decrypt end the command.
UnlockAnswered ==
    /\ At("u_wait")
    /\ \/ Return
       \/ main.gen # 0 /\ Goto("u_lck")
    /\ UNCHANGED <<vault_locked, is_running, secrets, memory, fingerprints, store, cloud,
                   pending_sync, events, ui, history>>

UnlockLck ==
    /\ At("u_lck")
    /\ lck' = main.gen
    /\ Goto("u_cached")
    /\ UNCHANGED <<vault_locked, is_running, keystore, cached, memory, fingerprints, store,
                   cloud, pending_sync, events, ui, history>>

\* finish_unlock_with_json, three accesses.
UnlockCached ==
    /\ At("u_cached")
    /\ cached' = main.keys
    /\ Goto("u_keys")
    /\ UNCHANGED <<vault_locked, is_running, keystore, lck, memory, fingerprints, store,
                   cloud, pending_sync, events, ui, history>>

UnlockKeys ==
    /\ At("u_keys")
    /\ IF is_running
       THEN keystore' = Private(main.keys) /\ Goto("u_flag")
       ELSE Return /\ UNCHANGED keystore
    /\ UNCHANGED <<vault_locked, is_running, cached, lck, memory, fingerprints, store,
                   cloud, pending_sync, events, ui, history>>

UnlockFlag ==
    /\ At("u_flag")
    /\ vault_locked' = FALSE
    /\ Goto(IF main.method = "native" THEN "resolve" ELSE "restore")
    /\ UNCHANGED <<is_running, secrets, memory, fingerprints, store, cloud,
                   pending_sync, events, ui, history>>

-----------------------------------------------------------------------------
(* The API session and the notification hub.                               *)

\* connect_notification_client: the old receiver goes first, with whatever is
\* still queued in it; a connect that fails or times out leaves none.
ConnectHub ==
    /\ hubq' = {}
    /\ hub' \in BOOLEAN

\* save_device_session without a PIN at hand: a stored PIN token is kept.
StoredSession == IF session = "none" THEN "bare" ELSE session

SaveSession(s) == session' \in {s} \cup (IF SaveFails THEN {session} ELSE {})

\* A session is restored when there is none and a token is stored for the method.
Restorable == api = "none" /\ session = "pin"

\* try_restore_api_session: nothing without a stored PIN token; a refused token
\* deletes the session file.  The client it builds has no user key.
RestoreSession ==
    /\ At("restore")
    /\ \/ /\ UNCHANGED <<api, hub, hubq, session>>
       \/ /\ Restorable
          /\ \/ api' = "restored" /\ ConnectHub /\ UNCHANGED session
             \/ session' \in {"none", "pin"} /\ UNCHANGED <<api, hub, hubq>>
    /\ Goto("resolve")
    /\ UNCHANGED <<vault_locked, is_running, secrets, memory, fingerprints, cache_data, disk,
                   made, remote, pending_sync, events, ui, due, late, approved, forgotten>>

\* refresh_access_token: any session can be renewed; when its token is about to
\* expire is left open.
Renewable == api # "none"

\* The five-minute token timer: a renewed token means a new hub connection.
TokenRefresh ==
    /\ At("idle")
    /\ Renewable
    /\ ConnectHub
    /\ SaveSession(StoredSession)
    /\ UNCHANGED <<vault_locked, is_running, secrets, memory, fingerprints, cache_data, disk,
                   made, api, remote, pending_sync, events, main, ui, due, late, approved,
                   forgotten>>

\* The vault changes on the server: an item gets new key material or goes away.
RemoteChange(i) ==
    /\ remote[i] # 0
    /\ \/ /\ "rotate" \in VaultChanges /\ remote[i] < MaxVersion
          /\ remote' = [remote EXCEPT ![i] = @ + 1]
       \/ /\ "delete" \in VaultChanges
          /\ remote' = [remote EXCEPT ![i] = 0]
    /\ hubq' = IF hub THEN hubq \cup ({"CipherChanged"} \cap HubEvents) ELSE hubq
    /\ UNCHANGED <<vault_locked, is_running, secrets, memory, fingerprints, store, api, hub,
                   pending_sync, events, main, ui, history>>

\* The hub pushes a logout, or the client reports degraded delivery.
HubEvent(e) ==
    /\ e \in HubEvents \ {"CipherChanged"}
    /\ hub
    /\ hubq' = hubq \cup {e}
    /\ UNCHANGED <<vault_locked, is_running, secrets, memory, fingerprints, store, api, hub,
                   remote, pending_sync, events, main, ui, history>>

-----------------------------------------------------------------------------
(* Sync: do_sync, reconcile_synced_key_state, resolve_pending_sync.        *)

\* A vault change seen while locked, or a sync of one that failed, must leave
\* pending_sync set; the mutant drops it when the sync fails.
PendingAfterFailureLost == IF main.cont = "hub" THEN TRUE ELSE pending_sync
PendingAfterFailure     == IF main.cont \in {"hub", "resolve"} THEN TRUE ELSE pending_sync

ResolvePending ==
    /\ At("resolve")
    /\ IF pending_sync
       THEN pending_sync' = FALSE /\ main' = [main EXCEPT !.pc = "s_net", !.cont = "resolve"]
       ELSE Return /\ UNCHANGED pending_sync
    /\ UNCHANGED <<vault_locked, is_running, secrets, memory, fingerprints, store, cloud,
                   events, ui, history>>

\* A hub event that asks for a sync; while locked it becomes a pending sync.
OnSyncEvent(e) ==
    /\ e \in hubq \ {"LogOut"}
    /\ At("idle")
    /\ hubq' = hubq \ {e}
    /\ due' = "seen"
    /\ IF vault_locked
       THEN pending_sync' = TRUE /\ UNCHANGED main
       ELSE main' = [Idle EXCEPT !.pc = "s_net", !.cont = "hub"] /\ UNCHANGED pending_sync
    /\ UNCHANGED <<vault_locked, is_running, secrets, memory, fingerprints, store, api, hub,
                   remote, events, ui, late, approved, forgotten>>

CmdSync ==
    /\ "Sync" \in Commands
    /\ At("idle")
    /\ main' = [Idle EXCEPT !.pc = "s_net", !.ctl = TRUE, !.cont = "cmd",
                            !.was_locked = vault_locked]
    /\ UNCHANGED <<vault_locked, is_running, secrets, memory, fingerprints, store, cloud,
                   pending_sync, events, ui, history>>

\* sync_ssh_keys: what the server has now, decrypted.
SyncedKeys == remote

\* Only a client that logged in with the master password has the user key.
HasUserKey == api = "login"

\* The server call of do_sync.
SyncNet ==
    /\ At("s_net")
    /\ \/ /\ HasUserKey
          /\ main' = [main EXCEPT !.pc = "r_memory", !.keys = SyncedKeys]
          /\ UNCHANGED pending_sync
       \/ /\ pending_sync' = PendingAfterFailure
          /\ Return
    /\ UNCHANGED <<vault_locked, is_running, secrets, memory, fingerprints, store, cloud,
                   events, ui, history>>

\* clear_authorization_memory_for_changed_keys_async: approvals of items whose
\* material is not the one recorded at the last sync are dropped.  The mutant
\* looks only at items that went away.
UnchangedItemsAlive(old, new) == {i \in Items : new[i] # 0}
UnchangedItems(old, new)      == {i \in Items : old[i] = new[i]}

ReconcileMemory ==
    /\ At("r_memory")
    /\ memory' = {a \in memory : a[1] \in UnchangedItems(fingerprints, main.keys)}
    /\ Goto("r_cached")
    /\ UNCHANGED <<vault_locked, is_running, secrets, fingerprints, store, cloud,
                   pending_sync, events, ui, history>>

ReconcileCached ==
    /\ At("r_cached")
    /\ cached' = main.keys
    /\ fingerprints' = main.keys
    /\ Goto("r_refresh")
    /\ UNCHANGED <<vault_locked, is_running, keystore, lck, memory, store, cloud,
                   pending_sync, events, ui, history>>

\* The key a refreshed payload is encrypted with; the mutant makes a new one,
\* which no unlock slot wraps.
RefreshKeyFresh == made + 1
RefreshKey      == lck

\* refresh_envelope_local_key_cache: with a cache and a local cache key at hand
\* the payload is encrypted anew and every unlock slot is kept as it is.  The
\* file is written before the copy in memory; a command that holds the read
\* guard of the copy waits here for itself, until the watchdog drops it.
ReconcileRefresh ==
    /\ At("r_refresh")
    /\ \/ /\ Present(cache_data) /\ lck # 0
          /\ disk' = [slot |-> cache_data.slot, seal |-> RefreshKey, keys |-> main.keys]
          /\ IF main.guard
             THEN Goto("r_blocked") /\ UNCHANGED cache_data
             ELSE cache_data' = disk' /\ main' = [main EXCEPT !.pc = "r_lck", !.gen = lck]
       \/ /\ SaveFails \/ ~Present(cache_data) \/ lck = 0
          /\ Goto("load")
          /\ UNCHANGED <<disk, cache_data>>
    /\ UNCHANGED <<vault_locked, is_running, secrets, memory, fingerprints, session, made,
                   cloud, pending_sync, events, ui, history>>

ReconcileLck ==
    /\ At("r_lck")
    /\ lck' = main.gen
    /\ Goto("load")
    /\ UNCHANGED <<vault_locked, is_running, keystore, cached, memory, fingerprints, store,
                   cloud, pending_sync, events, ui, history>>

\* History: a pending sync ends without having brought its change into the agent
\* and without being pending again.
PendingLost == IF main.cont = "resolve" /\ due = "seen" THEN "lost" ELSE due

\* The end of do_sync: an unlocked agent gets the keys; a manual sync that began
\* locked leaves a pending sync.
SyncLoad ==
    /\ At("load") /\ main.cont # "login"
    /\ Return
    /\ IF vault_locked \/ is_running
       THEN /\ keystore' = IF vault_locked THEN keystore ELSE Private(main.keys)
            /\ due' = IF vault_locked THEN PendingLost ELSE "no"
            /\ pending_sync' = (pending_sync \/ (main.cont = "cmd" /\ main.was_locked))
       ELSE /\ pending_sync' = PendingAfterFailure
            /\ UNCHANGED <<keystore, due>>
    /\ UNCHANGED <<vault_locked, is_running, cached, lck, memory, fingerprints, store, cloud,
                   events, ui, late, approved, forgotten>>

-----------------------------------------------------------------------------
(* Login with the master password: UnlockPassword.                         *)

CmdLogin ==
    /\ "Login" \in Commands
    /\ Begin("l_net", TRUE)
    /\ forgotten' = "no"
    /\ UNCHANGED <<vault_locked, is_running, secrets, memory, fingerprints, store, cloud,
                   pending_sync, events, ui, due, late, approved>>

LoginNet ==
    /\ At("l_net")
    /\ \/ Return
       \/ main' = [main EXCEPT !.pc = "r_memory", !.keys = SyncedKeys, !.cont = "login"]
    /\ UNCHANGED <<vault_locked, is_running, secrets, memory, fingerprints, store, cloud,
                   pending_sync, events, ui, history>>

LoginLoad ==
    /\ At("load") /\ main.cont = "login"
    /\ IF is_running
       THEN keystore' = Private(main.keys) /\ due' = "no" /\ Goto("l_flag")
       ELSE Return /\ UNCHANGED <<keystore, due>>
    /\ UNCHANGED <<vault_locked, is_running, cached, lck, memory, fingerprints, store, cloud,
                   pending_sync, events, ui, late, approved, forgotten>>

LoginFlag ==
    /\ At("l_flag")
    /\ vault_locked' = FALSE
    /\ Goto("l_session")
    /\ UNCHANGED <<is_running, secrets, memory, fingerprints, store, cloud,
                   pending_sync, events, ui, history>>

LoginSession ==
    /\ At("l_session")
    /\ SaveSession(StoredSession)
    /\ api' = "login"
    /\ ConnectHub
    /\ Goto("resolve")
    /\ UNCHANGED <<vault_locked, is_running, secrets, memory, fingerprints, cache_data, disk,
                   made, remote, pending_sync, events, ui, due, late, approved, forgotten>>

-----------------------------------------------------------------------------
(* Setting a PIN: the cache is written anew, for the key held or a new one. *)

CmdSetPin ==
    /\ "SetPin" \in Commands
    /\ At("idle")
    /\ cached # NoKeys
    /\ lck # 0 \/ made < MaxGen
    /\ main' = [Idle EXCEPT !.pc = "p_key", !.ctl = TRUE, !.keys = cached]
    /\ UNCHANGED <<vault_locked, is_running, secrets, memory, fingerprints, store, cloud,
                   pending_sync, events, ui, history>>

SetPinKey ==
    /\ At("p_key")
    /\ IF lck # 0
       THEN main' = [main EXCEPT !.pc = "p_write", !.gen = lck] /\ UNCHANGED made
       ELSE /\ made < MaxGen
            /\ made' = made + 1
            /\ main' = [main EXCEPT !.pc = "p_write", !.gen = made + 1]
    /\ UNCHANGED <<vault_locked, is_running, secrets, memory, fingerprints, cache_data, disk,
                   session, cloud, pending_sync, events, ui, history>>

SetPinWrite ==
    /\ At("p_write")
    /\ \/ /\ disk' = Sealed(main.gen, main.keys)
          /\ cache_data' = disk'
          /\ Goto("p_lck")
       \/ SaveFails /\ Return /\ UNCHANGED <<disk, cache_data>>
    /\ UNCHANGED <<vault_locked, is_running, secrets, memory, fingerprints, session, made,
                   cloud, pending_sync, events, ui, history>>

SetPinLck ==
    /\ At("p_lck")
    /\ lck' = main.gen
    /\ SaveSession(IF api # "none" THEN "pin" ELSE session)
    /\ Return
    /\ UNCHANGED <<vault_locked, is_running, keystore, cached, memory, fingerprints,
                   cache_data, disk, made, cloud, pending_sync, events, ui, history>>

-----------------------------------------------------------------------------
(* Forget, single-device: files first, then memory, then the agent.        *)

\* Each deletion may fail on its own; the command goes on and reports it.
CmdForget ==
    /\ "Forget" \in Commands
    /\ Begin("f_lck", TRUE)
    /\ disk' \in {Absent} \cup (IF SaveFails THEN {disk} ELSE {})
    /\ session' \in {"none"} \cup (IF SaveFails THEN {session} ELSE {})
    /\ forgotten' = IF disk' # Absent \/ session' # "none" THEN "no"
                    ELSE IF InFlight = {} THEN "quiet" ELSE "busy"
    /\ UNCHANGED <<vault_locked, is_running, secrets, memory, fingerprints, cache_data, made,
                   cloud, pending_sync, events, ui, due, late, approved>>

ForgetLck ==
    /\ At("f_lck")
    /\ lck' = 0
    /\ Goto("f_memory")
    /\ UNCHANGED <<vault_locked, is_running, keystore, cached, memory, fingerprints, store,
                   cloud, pending_sync, events, ui, history>>

ForgetMemory ==
    /\ At("f_memory")
    /\ memory' = {}
    /\ Goto("f_cached")
    /\ UNCHANGED <<vault_locked, is_running, secrets, fingerprints, store, cloud,
                   pending_sync, events, ui, history>>

\* What a forget leaves of the API session; the mutant keeps it.
ApiAfterForgetKept == api
ApiAfterForget     == "none"

ForgetCached ==
    /\ At("f_cached")
    /\ cached' = NoKeys
    /\ api' = ApiAfterForget
    /\ pending_sync' = FALSE /\ due' = "no"
    /\ hub' = FALSE /\ hubq' = {}
    /\ Goto("f_flag")
    /\ UNCHANGED <<vault_locked, is_running, keystore, lck, memory, fingerprints, store,
                   remote, events, ui, late, approved, forgotten>>

\* The memory was cleared three steps ago: what a handler has remembered since
\* counts as late, too.
ForgetFlag ==
    /\ At("f_flag")
    /\ vault_locked' = TRUE
    /\ late' = OpenDialogs \cup memory
    /\ Goto("f_data")
    /\ UNCHANGED <<is_running, secrets, memory, fingerprints, store, cloud,
                   pending_sync, events, ui, due, approved, forgotten>>

ForgetData ==
    /\ At("f_data")
    /\ cache_data' = Absent
    /\ Goto("f_keys")
    /\ UNCHANGED <<vault_locked, is_running, secrets, memory, fingerprints, disk, session,
                   made, cloud, pending_sync, events, ui, history>>

\* clear_keys works even when the listener is gone.
ForgetKeys ==
    /\ At("f_keys")
    /\ keystore' = Public(NoKeys)
    /\ Return
    /\ UNCHANGED <<vault_locked, is_running, cached, lck, memory, fingerprints, store, cloud,
                   pending_sync, events, ui, history>>

-----------------------------------------------------------------------------
(* A sign request and its handler, handle_ui_request.                      *)

Ui(r, pc)   == ui[r].pc = pc
UiGoto(r, pc) == ui' = [ui EXCEPT ![r].pc = pc]

\* The broadcast of the answer; the locals of the handler are dead after it.
Reply(r, ok, by) ==
    ui' = [ui EXCEPT ![r] = [NoRequest EXCEPT !.pc = "done", !.item = ui[r].item,
                                              !.op = ui[r].op, !.fwd = ui[r].fwd,
                                              !.ok = ok, !.by = by]]

\* Every way out of the handler broadcasts an answer; the mutant's early
\* returns do not.
RefuseSilent(r) == ui' = [ui EXCEPT ![r] = NoRequest]
Refuse(r)       == Reply(r, FALSE, "refusal")

\* A client asks for a signature with a listed key; confirm() queues it.
Arrive(r, i, o, f) ==
    /\ Ui(r, "none") /\ is_running
    /\ keystore[i].ver # 0
    /\ ui' = [ui EXCEPT ![r] = [NoRequest EXCEPT !.pc = "sent", !.item = i, !.op = o,
                                                 !.fwd = f]]
    /\ UNCHANGED <<vault_locked, is_running, secrets, memory, fingerprints, store, cloud,
                   pending_sync, events, main, history>>

\* The loop takes the request off the channel and spawns its handler.
Spawn(r) ==
    /\ At("idle") /\ Ui(r, "sent")
    /\ UiGoto(r, "start")
    /\ UNCHANGED <<vault_locked, is_running, secrets, memory, fingerprints, store, cloud,
                   pending_sync, events, main, history>>

UiStart(r) ==
    /\ Ui(r, "start")
    /\ UiGoto(r, IF vault_locked /\ AutoUnlock THEN "capture" ELSE "recheck")
    /\ UNCHANGED <<vault_locked, is_running, secrets, memory, fingerprints, store, cloud,
                   pending_sync, events, main, history>>

\* The cache is cloned before the platform or PIN prompt, not after it.  A reader
\* queues behind a writer that waits.
UiCapture(r) ==
    /\ Ui(r, "capture")
    /\ ~At("r_blocked")
    /\ IF Present(cache_data)
       THEN ui' = [ui EXCEPT ![r].pc = "decrypt", ![r].keys = cache_data.keys,
                             ![r].gen = UsableKey(cache_data)]
       ELSE IF ui[r].method = "native"
            THEN ui' = [ui EXCEPT ![r].method = "pin"]
            ELSE Refuse(r)
    /\ UNCHANGED <<vault_locked, is_running, secrets, memory, fingerprints, store, cloud,
                   pending_sync, events, main, history>>

\* One method failed: after the platform slot comes the PIN dialog, after the
\* PIN dialog a refusal.
NextMethod(r) ==
    IF ui[r].method = "native"
    THEN ui' = [ui EXCEPT ![r].pc = "capture", ![r].method = "pin", ![r].keys = NoKeys,
                          ![r].gen = 0]
    ELSE Refuse(r)

UiDecrypt(r) ==
    /\ Ui(r, "decrypt")
    /\ \/ ui[r].gen # 0 /\ UiGoto(r, "apply")
       \/ NextMethod(r)
    /\ UNCHANGED <<vault_locked, is_running, secrets, memory, fingerprints, store, cloud,
                   pending_sync, events, main, history>>

UiApply(r) ==
    /\ Ui(r, "apply")
    /\ cached' = ui[r].keys
    /\ UiGoto(r, "load")
    /\ UNCHANGED <<vault_locked, is_running, keystore, lck, memory, fingerprints, store,
                   cloud, pending_sync, events, main, history>>

\* The order of an auto-unlock's writes: agent, local cache key, flag last.
\* The mutant clears the flag before the local cache key is in place.
UnlockOrderSwapped(pc) == CASE pc = "load" -> "flag" [] pc = "flag" -> "lck" [] OTHER -> "send"
UnlockOrder(pc)        == CASE pc = "load" -> "lck" [] pc = "lck" -> "flag" [] OTHER -> "send"

UiLoad(r) ==
    /\ Ui(r, "load")
    /\ IF is_running
       THEN keystore' = Private(ui[r].keys) /\ UiGoto(r, UnlockOrder("load"))
       ELSE NextMethod(r) /\ UNCHANGED keystore
    /\ UNCHANGED <<vault_locked, is_running, cached, lck, memory, fingerprints, store,
                   cloud, pending_sync, events, main, history>>

UiLck(r) ==
    /\ Ui(r, "lck")
    /\ lck' = ui[r].gen
    /\ UiGoto(r, UnlockOrder("lck"))
    /\ UNCHANGED <<vault_locked, is_running, keystore, cached, memory, fingerprints, store,
                   cloud, pending_sync, events, main, history>>

UiFlag(r) ==
    /\ Ui(r, "flag")
    /\ vault_locked' = FALSE
    /\ UiGoto(r, UnlockOrder("flag"))
    /\ UNCHANGED <<is_running, secrets, memory, fingerprints, store, cloud,
                   pending_sync, events, main, history>>

\* Whether the user must be asked.
NeedsPrompt(fwd) == fwd \/ PromptBehavior # "Never"

\* Ask the user, or approve without asking.
Authorize(r, remember) ==
    IF NeedsPrompt(ui[r].fwd)
    THEN ui' = [ui EXCEPT ![r].pc = "prompt", ![r].remember = remember,
                          ![r].keys = NoKeys, ![r].gen = 0]
    ELSE Reply(r, TRUE, "never")

\* runtime_event_tx.send().await waits for room; the mutant does not.
HasRoomAlways == TRUE
HasRoom       == Len(events) < EventCap

UiSend(r) ==
    /\ Ui(r, "send")
    /\ HasRoom
    /\ events' = Append(events, ui[r].method)
    /\ Authorize(r, FALSE)
    /\ UNCHANGED <<vault_locked, is_running, secrets, memory, fingerprints, store, cloud,
                   pending_sync, main, history>>

\* Whether the vault is locked by now; the mutant goes by what UiStart saw.
LockedByNowStale == FALSE
LockedByNow      == vault_locked

UiRecheck(r) ==
    /\ Ui(r, "recheck")
    /\ IF LockedByNow THEN Refuse(r) ELSE UiGoto(r, "lookup")
    /\ UNCHANGED <<vault_locked, is_running, secrets, memory, fingerprints, store, cloud,
                   pending_sync, events, main, history>>

\* Whether approvals are remembered and looked up at all; the mutant forgets
\* agent forwarding.
UsesMemoryForwarded(fwd) == PromptBehavior = "RememberUntilLock"
UsesMemory(fwd)          == ~fwd /\ PromptBehavior = "RememberUntilLock"

\* The memory lookup uses try_read: while another task is writing the memory a
\* remembered approval may be missed, and the user is asked.
MemoryContended(r) ==
    \/ main.pc \in {"lock_memory", "r_memory", "f_memory"}
    \/ \E q \in Requests \ {r} : Ui(q, "insert")

UiLookup(r) ==
    /\ Ui(r, "lookup")
    /\ LET hit == UsesMemory(ui[r].fwd) /\ <<ui[r].item, ui[r].op>> \in memory
       IN \/ hit /\ Reply(r, TRUE, "memory")
          \/ (~hit \/ MemoryContended(r)) /\ Authorize(r, TRUE)
    /\ UNCHANGED <<vault_locked, is_running, secrets, memory, fingerprints, store, cloud,
                   pending_sync, events, main, history>>

\* The user approves or denies (closing the dialog denies).
UiPrompt(r) ==
    /\ Ui(r, "prompt")
    /\ \/ Refuse(r)
       \/ IF ui[r].remember /\ UsesMemory(ui[r].fwd)
          THEN UiGoto(r, "insert")
          ELSE Reply(r, TRUE, "prompt")
    /\ UNCHANGED <<vault_locked, is_running, secrets, memory, fingerprints, store, cloud,
                   pending_sync, events, main, history>>

\* History: the daemon is unlocked, neither the loop nor an auto-unlock is in the
\* middle of something, and the fingerprints record for item i the material in
\* the agent, or none.
Settled(i) ==
    /\ ~vault_locked /\ At("idle")
    /\ \A r \in Requests : ui[r].pc \notin UnlockPcs \cup {"capture"}
    /\ fingerprints[i] \in {0, keystore[i].ver}

UiInsert(r) ==
    /\ Ui(r, "insert")
    /\ LET a == <<ui[r].item, ui[r].op>>
       IN /\ memory' = memory \cup {a}
          /\ approved' = [approved EXCEPT ![a] = IF Settled(a[1]) THEN keystore[a[1]].ver ELSE 0]
    /\ Reply(r, TRUE, "prompt")
    /\ UNCHANGED <<vault_locked, is_running, secrets, fingerprints, store, cloud,
                   pending_sync, events, main, due, late, forgotten>>

\* The client has its answer; the slot is free for another request.
Again(r) ==
    /\ Ui(r, "done")
    /\ ui' = [ui EXCEPT ![r] = NoRequest]
    /\ UNCHANGED <<vault_locked, is_running, secrets, memory, fingerprints, store, cloud,
                   pending_sync, events, main, history>>

-----------------------------------------------------------------------------
(* What is left of the loop.                                               *)

\* A handler's AutoUnlocked event: the PIN brings the API session back first.
OnRuntimeEvent ==
    /\ events # << >>
    /\ Begin(IF Head(events) = "pin" THEN "restore" ELSE "resolve", FALSE)
    /\ events' = Tail(events)
    /\ UNCHANGED <<vault_locked, is_running, secrets, memory, fingerprints, store, cloud,
                   pending_sync, ui, history>>

\* run_control_action: a control command that waits for itself, or is stuck in a
\* server call, is dropped where it stands.
Watchdog ==
    /\ main.ctl
    /\ \/ At("r_blocked")
       \/ NetworkStalls /\ main.pc \in {"l_net", "s_net", "restore", "l_session"}
    /\ due' = PendingLost
    /\ Return
    /\ UNCHANGED <<vault_locked, is_running, secrets, memory, fingerprints, store, cloud,
                   pending_sync, events, ui, late, approved, forgotten>>

\* The SSH agent listener ends under the daemon.
TransportExit ==
    /\ TransportFails /\ is_running
    /\ is_running' = FALSE
    /\ UNCHANGED <<vault_locked, secrets, memory, fingerprints, store, cloud,
                   pending_sync, events, main, ui, history>>

\* Status, and the commands that only report that there is nothing to do (lock
\* when locked, unlock when unlocked or without a cache, set-pin without keys).
CmdReplyOnly == At("idle") /\ UNCHANGED vars

LockSteps    == LockKeys \/ LockFlag \/ LockCached \/ LockLck \/ LockMemory
UnlockSteps  == UnlockAnswered \/ UnlockLck \/ UnlockCached \/ UnlockKeys \/ UnlockFlag
SyncSteps    == \/ RestoreSession \/ ResolvePending \/ SyncNet
                \/ ReconcileMemory \/ ReconcileCached \/ ReconcileRefresh \/ ReconcileLck
                \/ SyncLoad
LoginSteps   == LoginNet \/ LoginLoad \/ LoginFlag \/ LoginSession
SetPinSteps  == SetPinKey \/ SetPinWrite \/ SetPinLck
ForgetSteps  == \/ ForgetLck \/ ForgetMemory \/ ForgetCached \/ ForgetFlag
                \/ ForgetData \/ ForgetKeys
MainStep == LockSteps \/ UnlockSteps \/ SyncSteps \/ LoginSteps \/ SetPinSteps \/ ForgetSteps

Command == \/ CmdReplyOnly \/ CmdLock \/ CmdSync \/ CmdLogin \/ CmdSetPin \/ CmdForget
           \/ \E c \in UnlockCommands : CmdUnlock(c)
LoopArm == \/ OnLogOut \/ OnRuntimeEvent \/ AutoLock \/ TokenRefresh
           \/ \E e \in {"CipherChanged", "FallbackSyncDue"} : OnSyncEvent(e)
Handler(r) == \/ UiStart(r) \/ UiCapture(r) \/ UiDecrypt(r) \/ UiApply(r) \/ UiLoad(r)
              \/ UiLck(r) \/ UiFlag(r) \/ UiSend(r) \/ UiRecheck(r) \/ UiLookup(r)
              \/ UiPrompt(r) \/ UiInsert(r)
Client(r) == \/ Again(r)
             \/ \E i \in Items, o \in Ops, f \in Forwarding : Arrive(r, i, o, f)
World == \/ Watchdog \/ TransportExit \/ Restart
         \/ \E i \in Items : RemoteChange(i)
         \/ \E e \in HubEvents : HubEvent(e)

Next == \/ MainStep \/ Command \/ LoopArm \/ World
        \/ \E r \in Requests : Spawn(r) \/ Handler(r) \/ Client(r)

Spec == Init /\ [][Next]_vars

\* Tasks are polled until they finish, users answer prompts, the server answers
\* or refuses, the watchdog ends a command that waits for itself; select! picks
\* its ready branches at random, so neither a waiting request nor a runtime event
\* is passed over for ever; senders waiting for room in the runtime event channel
\* are served first come, first served.
Fairness == /\ WF_vars(MainStep) /\ WF_vars(At("r_blocked") /\ Watchdog)
            /\ SF_vars(OnRuntimeEvent)
            /\ \A r \in Requests :
                 WF_vars(Handler(r)) /\ SF_vars(UiSend(r)) /\ SF_vars(Spawn(r))
FairSpec == Spec /\ Fairness

-----------------------------------------------------------------------------
(* Properties.                                                             *)

\* A signature is allowed only after the user said so for this very request,
\* or, when no agent forwarding is involved, because the configuration never
\* asks or an earlier approval is remembered (handle_ui_request).
ApprovalJustified ==
    \A r \in Requests : ui[r].ok =>
        \/ ui[r].by = "prompt"
        \/ ui[r].by = "memory" /\ ~ui[r].fwd /\ PromptBehavior = "RememberUntilLock"
        \/ ui[r].by = "never"  /\ ~ui[r].fwd /\ PromptBehavior = "Never"

\* A locked daemon remembers no approval but those of dialogs that were open when
\* the lock began: lock_vault sets the flag before it clears the memory, and a
\* handler looks at the flag before it asks.
LockForgetsApprovals == vault_locked /\ main.pc \notin LockPcs => memory \subseteq late

\* Once lock_vault is over and no auto-unlock is half way, a locked daemon
\* holds neither private key tuples nor the local cache key.  It rests on the
\* order of the stores: lock_vault sets the flag before it clears, an
\* auto-unlock clears the flag after it has stored.
LockErasesSecrets == vault_locked /\ Quiescent => lck = 0 /\ cached = NoKeys

\* After a forget that deleted the files with no request being handled, nothing
\* brings keys or a session back before the next login: no queued request, no
\* queued runtime event, no hub event, no other command.
ForgetHolds ==
    forgotten = "quiet" /\ At("idle") =>
        /\ disk = Absent /\ cache_data = Absent /\ session = "none" /\ api = "none"
        /\ cached = NoKeys /\ keystore = Public(NoKeys) /\ lck = 0 /\ memory = {}

\* A vault change the daemon has seen and not yet brought into the agent is
\* remembered as a pending sync whenever the main loop is free (CONTEXT.md:
\* "Pending Sync is resolved after Unlock").  The code does not keep to this.
PendingSyncRemembered == due # "no" /\ At("idle") => pending_sync

\* It does but for one case: the pending sync was under way, and the watchdog
\* dropped it or the vault had been locked again.  A sync that fails, a listener
\* that is gone, a manual sync of a locked vault or a login loses no change.
ChangeRemembered == due = "seen" /\ At("idle") => pending_sync

\* The cache file can always be opened by the local cache key its slots wrap.
CacheOpens == Present(disk) => Decryptable(disk)

\* Every sign request handed to the daemon gets an answer.
RequestAnswered == \A r \in Requests : Ui(r, "sent") ~> Ui(r, "done")

\* While the vault is unlocked, an approval remembered by a settled daemon is for
\* the key material in the agent: a rotated key needs a fresh one, however syncs,
\* failed writes, dropped commands, stale captures, locks and unlocks follow on
\* one another (clear_authorization_memory_for_changed_keys_async).
ApprovalFitsMaterial ==
    ~vault_locked /\ Quiescent =>
        \A a \in memory : \/ approved[a] \in {0, keystore[a[1]].ver}
                          \/ keystore[a[1]].ver = 0
=============================================================================
