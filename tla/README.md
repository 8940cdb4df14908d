# A TLA+ verification of SSHWarden

SSHWarden is an SSH agent whose keys live in a Bitwarden vault. A daemon keeps
the keys in memory while its vault is unlocked, an encrypted copy of them on
disk, asks the user before it signs, and follows changes of the vault through a
notification hub. This directory models the parts of the daemon in which the
order of events matters, checks them with TLC on small instances and proves the
most important results with TLAPS for every instance.

Paths below are relative to the repository.

## 1. The system

| Part | State | Operations | Source |
|---|---|---|---|
| main loop | the shared cells below, one task at a time | `select!` over control commands, sign requests, runtime events, hub events, token timer, auto-lock timer, fatal signal, Ctrl-C | `src/daemon.rs` |
| control commands | `vault_locked`, `cached_key_tuples`, `local_cache_key_state`, `authorization_memory`, `pending_sync`, `api_client` | lock, unlock (PIN, native, Hello), login, sync, set-pin, forget, status | `src/control.rs` |
| sign request handlers | one spawned task per request, the same shared cells | auto-unlock, recheck, memory lookup, prompt, reply | `src/ui.rs` |
| agent core | keystore: listed identities with or without private material | `set_keys`, `set_public_identities`, `lock`, `clear_keys`, `confirm` | `crates/sshwarden-agent` |
| sync | fingerprints of the key material last synced | `do_sync`, `reconcile_synced_key_state`, `resolve_pending_sync` | `src/sync.rs`, `src/cache.rs` |
| local key cache | a file: payload sealed with a local cache key, which unlock slots wrap | write, refresh, unlock, delete | `src/cache.rs`, `crates/sshwarden-config/src/cache.rs` |
| device session | a file with the refresh token, wrapped by the PIN or not | save, restore, delete | `src/unlock.rs`, `crates/sshwarden-config/src/session.rs` |
| PIN limit | failures, end of lockout | check, record | `src/control.rs` |
| notification client | a background task, a bounded channel, a mirror of its state | connect, read, retry, fall back, stop | `crates/sshwarden-api/src/notifications.rs`, `src/notifications.rs` |
| process lifecycle | PID file, SSH endpoint, control socket | start, claim, serve, stop, restart | `src/process.rs`, `src/main.rs`, `src/control.rs` |
| multi-device mode | a cache file shared through a synchronised directory, platform slots of each device | reload, compare, enroll, reseed | `src/unlock.rs`, `src/cache.rs` |
| status report | none of its own | collect and render | `src/status.rs`, `src/status_report.rs` |
| host bindings, managed SSH config | `bindings.json` and its lock, a snippet the user may edit, an Include line in `~/.ssh/config` | bind, unbind, dialog, import, prune, regenerate | `src/sshconfig.rs`, `src/bindings_cli.rs`, `src/commands/keys.rs`, `src/commands/sshconfig.rs`, `crates/sshwarden-config/src/bindings.rs` |
| API client, crypto, dialogs, configuration, CLI, logging | tokens, windows, files | HTTP, prompts, parsing | `crates/sshwarden-api`, `crates/sshwarden-ui`, ... |

How they interact. Control clients send one line and wait for one line; the
loop runs the command to its end, under a watchdog. An SSH client's sign request
is queued to the loop, which spawns a handler; the handler works on the shared
cells while the loop goes on with other things, and tells the loop about an
auto-unlock through a bounded channel. The notification task talks to the loop
through another one. Processes share only the file system.

What is hard. The tokio runtime has several threads, so a handler and the loop
interleave at every access of a shared cell: lock against auto-unlock, forget
against an open prompt, set-pin against an auto-unlock. State is captured before
a prompt that can stay open for minutes and used after it. Events are handled
long after they were sent. The watchdog drops a command at an `await`. Channels
fill. Files are created, filled, checked and removed in separate steps by
processes that know nothing of each other. Section 5 lists what makes each part
correct, and `PROJECT.json` lists each hazard at its line.

## 2. Modules

| Module | Models |
|---|---|
| `VaultDaemon` | main loop, control commands, sign request handlers, agent keystore, sync, cache and session files |
| `PinThrottle` | the limit on PIN guesses, with time |
| `NotificationHub` | the notification client, the daemon's side of it, and the sync row of `status` |
| `SignService` | what the agent promises SSH clients: the abstract signing service |
| `SignChannel` | the agent's `confirm` and `can_list`, the request channel, the broadcast of replies, the start and end of the transport |
| `SharedCache` | multi-device mode: several daemons and one cache file that a cloud client copies between their machines |
| `DaemonLifecycle` | processes, PID file, endpoints, `stop` and `restart` |
| `HostBindings` | `bindings.json`, the managed SSH config snippet and the processes that work on them |
| `VaultDaemonMC`, `PinThrottleMC`, `DaemonLifecycleMC`, `HostBindingsMC` | the symmetry sets of the runs, and the views of `VaultLock` and `VaultForget` |
| `VaultDaemonProofs`, `VaultSecretsProofs`, `PinThrottleProofs`, `NotificationHubProofs`, `SignChannelProofs`, `SharedCacheProofs`, `DaemonLifecycleProofs`, `HostBindingsProofs` | the theorems |

### VaultDaemon

`main` and `ui[r]` are the program counters and locals of the loop and of the
handlers. **Every access to a shared cell is an action of its own**; code that
touches none is folded into the access next to it. `lock_vault` is the five
actions `LockKeys` ... `LockMemory` in the order of the code; an explicit unlock
is `CmdUnlock`, `UnlockAnswered` (the prompt), `UnlockLck`, `UnlockCached`,
`UnlockKeys`, `UnlockFlag`, then the restore of the API session and the pending
sync; a login and a sync share the reconcile steps `ReconcileMemory` ...
`ReconcileLck`; a forget is `CmdForget` (the files) to `ForgetKeys`. A handler
goes from `Arrive` and `Spawn` through `UiStart` to `UiInsert`; `UiCapture` takes
the cache before the prompt, as the code does.

Data is abstracted to what the properties tell apart. Key material of an item is
a version number, 0 when there is none. A local cache key is a generation
number; a cache file records the generation its slots wrap, the one its payload
is sealed with and the key set, and opens when the two agree. The API client is
absent, restored (it has tokens and no user key, so it cannot decrypt) or logged
in. The hub queue is a set: two events of one kind in a row have the effect of
one. Windows Hello goes through the same steps as a PIN and differs from a
native slot in that it restores the API session, so one method stands for both.

The one lock of the code that is held across an `await` is modelled: `Unlock`
and `UnlockHello` keep the read guard of `local_key_cache_data` from their first
statement to their last (`main.guard`, `HoldsGuard`), `UnlockNative` and
`UnlockPin` release it at once. `ReconcileRefresh` of a command with the guard
writes the cache file and then stands at `r_blocked`, where only the watchdog
ends it; a handler that wants to read the copy queues behind it. All other
guards are released before the next `await` and are part of the access.

Four variables are history: they record what the properties talk about and no
guard reads them.

- `due`: a vault change that a hub event announced is `"seen"` until it is in the
  agent, and `"lost"` once its resolution has cleared the flag and was dropped, or
  found the vault locked again.
- `late`: the approvals of the dialogs that were open when the last lock set the
  flag; for a forget, which clears the memory before it sets the flag, also what
  was remembered in between.
- `approved`: the material in the agent when an approval was remembered. It is
  noted only for a *settled* daemon: unlocked, the loop idle, no auto-unlock
  half way, and the fingerprints not saying otherwise than the agent.
- `forgotten`: a complete forget has not been followed by a login.

### PinThrottle

`Check` is `pin_lockout_remaining`, `RecordRight` and `RecordWrong` are
`record_pin_attempt`; between them the guess is being tried, with the mutex
released. The control channel sleeps a penalty after a wrong PIN and may be
dropped by the watchdog; dialogs do neither. Time is counted in ticks.

### NotificationHub

The program counter of the background task follows `run_message_loop`, with the
blocking send of an event a step of its own (`Deliver`, `LostSent`,
`FailSent`). A status is sent with `try_send` and lost when the channel is
full. `sock = "dead"` is a connection that nobody has noticed to be gone.
Durations are left open; the two that matter, the backoff and the fallback
throttle, are a number that doubles and a flag that time clears.

An event that the loop receives either syncs, or leaves a sync pending because
the vault is locked or the sync failed. `CmdSync` and `ResolvePending` are the
syncs that no event asks for. `ResolvePending` clears the flag and keeps the loop
busy (`resolving`) until the sync succeeds, fails, which sets the flag again, or
is dropped by the watchdog, which does not. `SyncRow` is what `status` prints of
this for a daemon with a session: pending, unknown, up to date, or not
delivering. `stale`, `missed`, `lost` and `dropped` are history. A `LogOut`
event, which syncs nothing, is handled in `VaultDaemon`.

### SignService and SignChannel

`SignService` says what a client of the agent relies on: a request is decided at
most once, its client is told yes only on that decision, and may always be told
no. Degradation is the one way out, see section 4.

`SignChannel` is how the code does it. Each connection is a task that takes a
request id, subscribes to the replies, sends its request through the bounded
channel and then reads replies until its own comes; the loop spawns a handler
per request, and every handler broadcasts one reply, to all. The broadcast is the
sequence of all replies with a position per receiver, and a receiver more than
`RingCap` behind has lost some. Ids wrap at `IdSpace`. A handler's decision is a
choice: how it comes about is `VaultDaemon`. The transport is there because
`is_running` decides which ids are given out: `StartServer`, `SetRunning` and
`ClaimPipe` differ in order between the Unix and the Windows build (the variable
`platform`), the pipe may fail at any time, and the failure is reported through a
broadcast of its own that `run_foreground` subscribes to late.

The refinement maps `open` to the connections with a sign request under way,
`verdict` to the reply that carries the request's serial number (a history
variable the code does not have: it has the id), `answer` to itself and
`degraded` to `zeroed`.

### SharedCache

Each machine `d` has its view `disk[d]` of the shared file, its own platform
slot, and a daemon with a copy of the file and a local cache key. `Replicate`
carries a file, or its absence, from one machine to another at any time and in
any order. A file is three facts: the key its PIN slot wraps, the key its payload
is sealed with, and the platform slot that a file of an older version carries.
Every command of the multi-device branches is one action; a manual sync is three
(`SyncStart`, `SyncPin`, `SyncFetch`), because it compares the key with the file
and then waits for the user and the server; so is the PIN dialog of a sign
request (`DialogOpens`, `DialogPin`). The history `clash` is set by a daemon that
ends up with a copy of the file and a key that do not belong together, without
any code having compared the two.

### DaemonLifecycle

A process is known by its PID, and each file operation of `claim_pid_file` is an
action: create, look for an older daemon, write, look at the owner, remove. A
PID file remembers who created it and whether the PID has been written, since
the file is empty in between. Starts may overlap at any of these steps. The
history `stolen` is set when a starting process removes, as a leftover, a file
whose creator is still claiming it or owns it. The control server is a task of its own that binds
after the daemon serves and unbinds when it is cancelled. A client is the `stop`
or `restart` command, one at a time.

### HostBindings

`job[p]` is the operation a process or daemon task is in the middle of: its step,
the keys it knows, its copy of `bindings.json` and the change it was asked for.
An explicit change goes through `AcquireLock` ... `LockedSave`, which is
`update_locked` with the import of edited Host lines inside; every operation that
writes the snippet then goes through `LoadBindings`, `ImportManaged`,
`SaveImported`, `Prune` and `WriteSnippet` without the lock, as
`sync_managed_ssh_config_inner` does. `keys`, `ssh-config`, the dialog and a
vault sync differ in where they enter and leave. Each load and each save of a
file is an action, since other processes and the user's editor come in between.

A host pattern is a model value, and `Placeholder` and `Invalid` stand for
`<host>` and for a pattern that validation refuses. A Host line is a set of
patterns: the order within a line, which decides nothing but whether the file is
saved once more, is left out. The dialog changes one host of one key. A `keys`
list that is empty stands for a missing cache and for a cache without keys. A
first login at start-up, a login command and a sync are all `VaultSynced`.

`owed` and `edit` are history. Operations that overlap are claimed nothing of
(`Start` clears the history and `clean`), except that the locked updates exclude
each other; `Overlapping` names the operations that may run at the same time.

## 3. Runs

| Run | Instance | Shows |
|---|---|---|
| `VaultLock` | two requests, forwarded or not, auto-unlock, logout, inactivity timer | `TypeOK`, `ApprovalJustified`, `LockForgetsApprovals`, `LockErasesSecrets` |
| `VaultApprove` | one request with auto-unlock, a key that rotates, lock, unlock, hub events, a one-slot event channel, fairness | `ApprovalFitsMaterial`, `RequestAnswered` |
| `VaultSync` | no request, every command but forget, stalls and the watchdog, failing writes, a listener that exits, two cache keys | `ChangeRemembered`, `CacheOpens` |
| `VaultForget` | one request with auto-unlock, every command but `UnlockPin`, `UnlockNative` and `UnlockHello`, remote logout, stalls, failing deletions, restarts | `ForgetHolds` |
| `UnlockDeadlock` | no request, one key that rotates, lock, unlock, no fault | violation of `PendingSyncRemembered` |
| `PinThrottle` | three guessers, three attempts, eight ticks | `PinTypeOK`, `RateLimited` |
| `NotificationHub` | a channel of three, threshold two, backoff up to three, fairness | `HubTypeOK`, `FirstRetryPrompt`, `MirrorCurrent`, `UpToDateHonest`, `OutageCovered`, `StopEnds` |
| `SignChannel` | two connections, two requests, a request channel and a broadcast of one slot each, both builds, fairness | `ChannelTypeOK`, `ReplyIsOwn`, `Implements`, `RequestEnds`, `FailureStops` |
| `SharedCache` | two machines, two local cache keys, a file of an older version to begin with | `SharedTypeOK`, `SharedOpens`, `ForgetSticks` |
| `DaemonLifecycle` | three PIDs that start at any time, every fault | `OneDaemon`, `EndpointHeld`, `StopTruthful` |
| `HostBindings` | two keys, two hosts, two processes, every command and fault, `unbind --all` overlapping itself | `HostTypeOK`, `UpdatesExclusive`, `SnippetAgrees`, `EditSurvives`, `BindingsKept` |
| `BindLost` | one process, one key, two hosts, no fault | violation of `BindTakesEffect` |

Bounds. Two handlers are the least at which one can hold a cell, the channel or
the memory against another, and the code treats them all alike; `VaultForget`
and `VaultApprove` have one because the races there are with the loop. One item
is enough where no property relates two. Two versions of the key material let
one be stale; two local cache keys let a slot and a payload disagree. A channel
of one to three slots reaches its limit, which 32 would not; three let a status be
queued behind an event and another one before it. Eight ticks hold two
full lockouts of three. Three PIDs are a daemon, its successor and a bystander.
`VaultLock` and `VaultForget` have a VIEW: states that differ only in a history
variable that the run's properties do not read count as one, and no guard reads
one either.
Two keys let one leave the vault while the other stays, and two hosts let a Host
line grow and shrink; of the commands only `unbind --all` overlaps itself in
`HostBindings`, which is enough for two locked updates to meet and for one of
them to time out.
Two requests on two connections can hold the same id, overtake each other in the
broadcast and make a receiver lag by one slot; four ids are more than two
requests use: run and proof assume that the `u32` does not wrap in the life of a
process. Two machines are a writer and a reader of a stale copy, and with two
local cache keys the second machine can replace the first one's.
The counters of the code that grow without bound (failures past the threshold,
time, cache keys) are cut by the named bounds.

Fairness. `VaultApprove`: every task is polled until it is done, the server and
the user answer in the end, the watchdog ends a command that waits for itself,
`select!` picks among ready branches at random (so a
waiting request and a waiting event are strongly fair), and tokio serves senders
waiting for a channel slot in order. That a server call ends is an assumption
about the network: the HTTP client sets no timeout and only control commands
have a watchdog. `NotificationHub`: the task is polled, the loop drains the
channel, a resolution ends by an answer, an error or the watchdog, the throttle
runs out, a dead socket is noticed by the keepalive or the
idle timeout. `SignChannel`: the runtime polls every task, the loop returns to
its `select!`, a failure signal that was sent is taken, and every dialog is
answered or closed in the end. Nothing is assumed of the transport, which may
serve for ever, or of a client, which need not ask.

Deadlock checking stays on in every run but `SignChannel`, whose process really
stops: after a shutdown, or when all requests have been asked, nothing happens
any more.

## 4. What the runs found

Two runs check what a document of the repository says and TLC refutes it.

- `UnlockDeadlock`. The user has logged in, the vault is locked, a key is rotated
  and the hub says so, which leaves a sync pending; the user runs
  `sshwarden unlock`. The command holds the read guard of `local_key_cache_data`
  in the scrutinee of an `if let` (`src/control.rs:477`, on Windows 511 and 716)
  when it calls `resolve_pending_sync`. That clears the flag (`src/sync.rs:179`),
  syncs, records the new fingerprints and tuples, writes the cache file and waits
  for the write lock of the cell whose guard the command holds
  (`src/sync.rs:60`). The watchdog drops it after fifteen minutes. Then the vault
  is unlocked, the agent has the old key, file, tuples and fingerprints the new
  one, the copy of the cache in memory is the old one, and no sync is pending:
  `status` says "up to date". `CONTEXT.md:224` says that a pending sync is
  resolved after unlock, ADR 0011 that an unresolved one is visible. The guard is
  avoided, with a comment, in `src/sync.rs:51-54` and `src/control.rs:798-799`,
  and a test (`src/sync.rs:237`) is about it, for the login.
- `BindLost`. `keys bind k h1`, then `keys bind k h2`, with nobody else around.
  The second command saves both hosts under the lock; the regeneration that
  follows loads the file, finds `Host h1` in the snippet that it is about to
  write again, takes the line for a user's edit and saves `h1` alone. The command
  reports success. An `unbind` of one of several hosts and a save of the dialog
  are undone in the same way. The lock protects the update from other processes
  and not from the command's own next step.

The models show more interleavings worth knowing; each follows from an
instance with the constants named, or from the module as it stands:

- `sshwarden sync` on a locked daemon stores the private key tuples of the vault
  in `cached_key_tuples`, where they stay until the next lock of an unlocked
  vault (commands `Lock` and `Sync` refute `LockErasesSecrets`). The comment at
  `src/control.rs:1004` says that no private material is held, and that the
  on-disk cache is refreshed, which it is not without a local cache key.
- A sign request waits at its unlock prompt, the user runs `sshwarden forget` and
  then answers the prompt: the handler applies the cache it captured before, and
  the daemon holds the keys, the local cache key and an unlocked flag again
  (`AutoUnlock`, command `Forget`). That is why `ForgetHolds` asks for a forget
  with no request in flight.
- An auto-unlock and a `lock_vault` that interleave can end with a locked flag
  and private keys in the agent, or the other way round (`AutoUnlock`, hub event
  `LogOut`, which locks without looking at the flag). `LockErasesSecrets` holds
  all the same: the tuples and the local cache key are always gone. It does not
  when the listener exits during an unlock (`TransportFails`: the unlock stores,
  then fails at the agent and returns with a locked flag), when a lock comes
  between an auto-unlock and its runtime event, whose pending sync then stores
  the tuples (`AutoUnlock`, `CipherChanged`), or when an auto-unlock stores between
  the steps of a forget, which sets the flag after it has cleared (`AutoUnlock`,
  `Forget`).
- An approval given in a dialog that was open during a lock is remembered after
  the lock (`RememberUntilLock`), and serves the next unlocked period, although
  ADR 0010 says that a lock clears the memory. `LockForgetsApprovals` holds with
  exactly these dialogs excepted. A forget clears the memory three steps before
  it sets the flag; an approval that a handler inserts in between stays as well.
- A lock between an auto-unlock and its runtime event makes the loop resolve a
  pending sync against a locked vault: the keys are not loaded and the flag stays
  cleared (`AutoUnlock`, `CipherChanged`). The watchdog loses a change without any
  deadlock, too, when it drops an unlock that waits for the server
  (`NetworkStalls`). `ChangeRemembered` excepts a resolution under way, and
  nothing else.
- After the drop of an `unlock` (see `UnlockDeadlock`) the fingerprints are ahead
  of the agent. An approval given for the old key from then on survives the next
  sync, which finds nothing changed and loads the new key, against ADR 0010;
  `ApprovalFitsMaterial` does not judge approvals given by a daemon in that state.
- After a sync of a locked vault the fingerprints are ahead of the agent as well,
  with the same effect (`Sync` and `rotate`). With `Login` and `delete` an approval
  survives the deletion of its item, because no fingerprint is recorded for keys
  that came from the cache: `ApprovalFitsMaterial` is about items the agent has.
- A sync that does not refresh the cache leaves the old key in it: the write fails
  (`SaveFails`), or there is no local cache key, as after a login on a locked
  daemon (`Login` and `rotate`) or after a lock that met an auto-unlock
  (`AutoUnlock`). An approval given for the new key in a dialog that was open
  during the next lock is remembered, and the unlock brings the old key back.
- A set-pin during an auto-unlock can leave a local cache key in memory that is
  not the one the file's slots wrap, and the next refresh then seals the payload
  with it (`AutoUnlock`, `SetPin`, `MaxGen = 2`).
- Replacing the notification client, which every token renewal does, throws away
  the events queued in the old receiver; a second loss of the connection within
  the fallback interval requests no recovery sync; the mirror says connected
  after an eager attempt that failed. `status` prints "up to date" in all these
  cases, until a status of the client arrives or the next event does; the
  exceptions of `UpToDateHonest` are these (`missed`, an undrained channel) and a
  resolution that was dropped (`lost`), after which it prints "up to date" until
  the next sync, without any of them.
- Request id 0 is given to every request that asks while the agent does not run,
  and `can_list` does not look at `is_running`. A listing that is approved
  without asking can then answer a sign request that waits with id 0: `confirm`
  looks at the flag first and takes its id afterwards. It takes a transport that
  ends between the two, or on Unix a request before the start has set the flag.
  `ReplyIsOwn` and `SignService` name this exception.
- A receiver that lags more than 256 replies behind is told no, although its own reply may
  have been yes: the agent fails closed and the client asks again.
- A Windows pipe that fails before `run_foreground` subscribes (`src/daemon.rs:135`)
  reports to nobody, and the daemon goes on without a transport.
- `unlock` on a daemon that is unlocked already reloads the shared cache under
  the key in memory and returns; when another machine has replaced the file
  meanwhile, the next automatic sync seals the new file's payload with the old
  key and the PIN no longer opens it (`src/control.rs:433-446`,
  `src/sync.rs:55-58`). A manual sync makes the comparison that is missing here.
  A PIN dialog that was open during a reload has the same effect.
- An automatic sync writes the copy in memory over a shared file that another
  machine has changed: a set-pin there is reverted, a shared cache deleted by
  `forget --shared-cache` comes back. The last writer wins.
- A platform slot is enrolled only where there is none, so that one that wraps an
  old key, or one taken over from another machine's file, is never replaced.
- A `forget` of this device only is undone on the machine whose platform slot an
  old shared file still carries: the next reload copies the slot back.
- Two starts whose claims overlap can both become daemons: between `create_new`
  and the write of the PID the file is empty, and the second starter takes an
  empty file for a leftover and removes it. The removal of a real leftover has the
  same gap between check and remove. The comment at `src/process.rs:253-257` says
  that exactly one racing process wins; `OneDaemon` without its exception
  (`stolen`) is refuted with two PIDs and no fault.
- A save of the unlocked path (a sync, `keys`, `ssh-config`, an opening dialog)
  discards what a bind saved under the lock since its load (`Overlapping` with
  `bind` and `sync`).
- An operation without a cache imports nothing and writes a snippet without
  blocks, so that Host lines the user edited since are gone; `EditSurvives` is
  about the keys an operation knows.

## 5. Properties

**Lock.** `LockErasesSecrets`: once `lock_vault` is over and no auto-unlock is
half way, a locked daemon holds no key tuple and no local cache key. It holds
because `lock_vault` sets the flag before it clears and an auto-unlock clears the
flag after it has stored. `LockForgetsApprovals`: a locked daemon remembers no
approval but those of dialogs that were open when the lock began. It holds
because the flag is set before the memory is cleared and a handler looks at the
flag again, after an auto-unlock, before it asks.

**Signing.** `ApprovalJustified`: every allowed signature was approved for this
request, or without forwarding by memory or by the setting. `ApprovalFitsMaterial`:
as long as the vault is unlocked, an approval remembered by a settled daemon is
for the key in the agent. `RequestAnswered`: every
request is answered, refusals included.

**The channel underneath.** `Implements`: whatever other requests, lag and a
shutdown do, a client is told yes only when the handler of its own
request said so. `ReplyIsOwn` is the invariant behind it. `RequestEnds`: every
request ends, the ones whose reply was lost included. `FailureStops`: a transport
that fails takes the daemon down.

**Several devices.** `SharedOpens`: the shared file opens with its own PIN slot,
in whatever order the machines write and receive it. `ForgetSticks`: a device
told to forget holds no keys again before its PIN or password.

**Sync and cache.** `PendingSyncRemembered`: a change that was seen and is not in
the agent is pending whenever the loop is idle; the code does not keep this
promise. `ChangeRemembered` says what it does keep: such a change is pending
unless its own resolution was dropped or met a vault that was locked again.
`CacheOpens`: the file opens with the key its own slots wrap.

**Forget.** `ForgetHolds`: after a complete forget with no request in flight
nothing brings keys or a session back before the next login.

**PIN.** `RateLimited`: wrong PINs since the last right one are at most
`MaxAttempts - 1` plus one per guesser for each lockout that fits into the time.
A plain limit of one per lockout is false: guesses that passed the check before
the lockout began are still counted after it.

**Notifications.** `FirstRetryPrompt`: a retry after a lost connection starts
from the shortest delay. `MirrorCurrent`: with the channel drained and no status
dropped the mirror shows what the task is doing. `UpToDateHonest`: `status` says
"up to date" only when every change has been synced but those in flight, those
no socket was there for and those whose resolution was dropped, and only while there is a connection as far as the
statuses tell. `OutageCovered`: without a connection a change is picked up again
and again by fallback syncs. `StopEnds`: a stopped task ends.

**Lifecycle.** `OneDaemon`: however starts overlap and whatever crashes, fails,
is left behind or reuses a PID, only the removal of a live process's PID file as a
leftover makes room for a second daemon. Until then `EndpointHeld`: a serving
daemon keeps the SSH endpoint, and `StopTruthful`: `stop` reports success only
when the daemon it reached has left its loop.

**Host bindings.** `HostTypeOK`: no placeholder and no invalid pattern gets into
`bindings.json`. `UpdatesExclusive`: locked updates do not overlap.
`SnippetAgrees`: an operation that ran undisturbed leaves the snippet and
`bindings.json` saying the same. `EditSurvives`: a valid line the user edited
stays through every regeneration that knows its key. `BindingsKept`: the hosts
first bound to a key stay, the ones bound ahead of the first sync included.
`BindTakesEffect` is the promise that the code does not keep.

Each property of a passing run has a mutant in `PROJECT.json`: a plausible bug in
one definition under which TLC finds the property violated.

## 6. Proofs

All theorems are safety properties, proved for every value of the constants
allowed by the named assumptions. Each rests on an inductive invariant; each
inductive step has one case per action.

| Theorem | Invariant and argument |
|---|---|
| `TypeCorrect` | `TypeOK` is inductive by itself. |
| `LockErasesApprovals` | `LateInv`: in a locked daemon, from the flag on, every approval that is remembered or that a handler may still insert is in `late` (`Remembering`, `DialogsAreLate`); those remembered before are gone once the lock's last step has cleared the memory. No handler gets past its second look at the flag while it is set. No assumption on the configuration. |
| `ApprovalsJustified` | The property with the fact that an unfinished request is not yet approved and that a handler bound for `insert` was prompted. |
| `ForgetIsFinal` | `ForgetInv`: step by step what the forget has cleared; afterwards the vault is locked, there is no cache to unlock from, no session and no hub, so that the loop can only let a stale event or a sync fail and a handler can only refuse. No assumption on the configuration. |
| `CacheAlwaysOpens` | `OpensInv`: file and copy have one key for slots and payload, and every local cache key at hand, in the daemon, in a task or in a handler's capture, is that of the copy. Assumes that set-pin and auto-unlock do not meet (`~AutoUnlock` or no `SetPin`). |
| `ChangesRemembered` | `CallerInv`: a sync for a hub event runs unlocked and without a watchdog, and a login holds no guard. `DueInv`: a change that is `"seen"` is pending or being synced by a task that, on a failure, makes it pending, or whose drop makes it `"lost"`. No assumption on the configuration. |
| `LockErases` | `TasksInv`: which tasks run. `ErasedInv`: secrets in a locked daemon belong to an auto-unlock that has stored and not yet cleared the flag, or to a named step of the task at hand, which unlocks or clears next. Storing ends only with the flag cleared, which is where the order of the stores counts. Assumes `StoresOrdered`. |
| `ApprovalsFit` | `FitsInv`: outside the last steps of a lock (`ClearingPcs`) every remembered approval with recorded material is *sound*: the vault is unlocked, no auto-unlock is half way, the loop is in no step of an unlock or a forget (`UnsettledPcs`), the fingerprints and the agent each have that material of its item or none, and between a reconcile and the load (`ReviewedPcs`) what is about to be loaded is what the fingerprints record, because the approvals that the new fingerprints contradict are already gone. It holds through drops, failed writes and captures that are applied late because the fingerprints change only in `ReconcileMemory`, together with the memory. No assumption on the configuration. |
| `PinTypeCorrect`, `PinRateLimited` | Wrong PINs are counted against the guessers now trying, the failure counter (which stays above the limit from one lockout to the next) and the number of lockouts that ran out; each of these took `Lockout` ticks, whence the quotient. |
| `HubTypeCorrect`, `RetriesPromptly` | A connected task has backoff 1: both ways into `reading` set it, and only `WaitEnds`, outside `reading`, doubles it. |
| `MirrorIsCurrent`, `StatusIsHonest` | Two more parts of the invariant. `MirrorInv`: the newest status in the channel, or the mirror when there is none, is one that the task's program counter allows, unless the last status was dropped. `DeliveryInv`: a change that is not synced is in flight, pending, being resolved, missed or lost with a dropped resolution. |
| `ChannelTypeCorrect`, `RepliesReachOwner` | `ChannelInv`: types; ids already spent and, but for 0, each with one request (`IdInv`, from the assumption of fewer requests than ids: the `u32` does not wrap in the life of a process); serial numbers that are distinct among the requests waiting, queued and being handled, and a reply's serial that no queued or handled request has (`SerialInv`). |
| `ConfirmImplements` | The refinement of `SignService`: the initial states correspond and, under `ChannelInv`, every step is a step of the service or none. Only `Reply` decides, only `Return` tells, and what it tells comes from the own reply by `ReplyIsOwn`. |
| `SharedTypeCorrect`, `SharedCacheOpens`, `DeviceForgets` | `OpensInv`: without a clash every copy of the file, on disk or in memory, opens, and a key held next to a copy is the one its payload is sealed with. `ForgetInv`: a device that forgot has no keys, no session and no slot of its own, and no file carries the slot of a machine other than `Home`. For any number of machines and keys. |
| `SingleDaemon`, `EndpointKept`, `StopIsTruthful` | `ClaimInv`: until a live claim is removed, whoever is past its claim created the PID file that is there and has its PID in it, and whoever has just created one finds it as it was; `create_new` fails for everybody else. With it the endpoint leads to a daemon that serves, and a client's target is alive and owns the file. No assumption: starts overlap freely. |
| `BindingsWellTyped`, `LockedUpdatesExclusive` | The two together are inductive. `HostLine` filters whatever is imported, so that a process's copy of the file is well typed and what it saves is too; a process between `l_load` and `l_save` holds the lock, which only it gives up. No assumption on overlap or faults. |
| `SnippetsAgree`, `EditsSurvive`, `FirstBindsKept` | `FilesInv`, on top of the two above: an undisturbed operation is the only one at work (`Alone`) and knows what is in the files at each of its steps (`CleanFits`, `BindFits`); a line the user edited is in the snippet and in every copy about to be written over it (`EditInv`); hosts that are owed are in `bindings.json`, in every copy of it, and never contradicted by the snippet, which the next operation imports (`OwedInv`). No assumption on overlap or faults. |

Where a theorem of `VaultSecretsProofs` assumes something of the configuration,
TLC refutes the property without it: section 4 describes the counterexamples
(`sync` while locked, the listener that exits, the auto-unlock that meets a lock,
a forget, a set-pin or a sync). `StoresOrdered`, the assumption of `LockErases`,
is: no `TransportFails`, no `Sync` command, and with `AutoUnlock` neither `Forget`
nor hub events other than `LogOut`. The inductive invariants were checked by TLC
before they were proved. The theorems cover more than the runs: `VaultApprove` has
no login, forget, set-pin, deletion, restart or stall, `VaultLock` no command and
no setting but `RememberUntilLock`, no run unlocks by `UnlockNative` or with a
guard held but by `Unlock`, and `HostBindings` overlaps only
`unbind --all`; the theorems have them all, for any number of items, requests,
hosts and processes. That with the setting Never a forwarded request is still
asked about is `ApprovalsJustified`, and no run has that setting with a request.

Every invariant that a run checks is a theorem, and so is the refinement.
Liveness (`RequestAnswered`, `RequestEnds`, `FailureStops`, `OutageCovered`,
`StopEnds`) needs fairness and `ENABLED`, which are out of the prover's reach, and
is checked by TLC only.

## 7. Not modelled

- Of multi-device mode: file operations that fail, the choice of the shared
  directory and the move from single-device mode. `VaultDaemon` is the daemon of a
  single device, with every interleaving inside it; `SharedCache` has several
  daemons whose commands are atomic.
- Of the agent: the wire protocol, peer information, and session binds (a second
  bind of a connection overwrites whether it is forwarded).
- The agent's collapse of two vault items with the same public key.
- A server call that never ends (the HTTP client has no timeout), the UI thread,
  dialogs and platform key stores: their answers are nondeterministic choices.
- HTTP, JSON and cryptography: a call is refused or succeeds, a payload opens
  with its key and with no other.
- Of the host bindings: the lines of `~/.ssh/config` around the Include line,
  the scan of the snippet line by line, the selector files, and a snippet that is
  read while it is being written (the file is written in place).
- The rows of `status` other than the sync row, and all rendering: they restate
  single cells of the daemon's state. Key names, configuration, CLI output, logging.

## 8. Plan

Done: the core (`VaultDaemon`), `PinThrottle`, `NotificationHub` with the sync
row, `DaemonLifecycle`, `HostBindings`, `SignChannel` with its refinement of
`SignService`, and `SharedCache`, with their proofs.

Next, in this order:

1. `ConfigLines`: the text of the snippet and of `~/.ssh/config` as operators
   over sequences of lines; installing the Include line twice is installing it
   once, removing it leaves the user's lines as they were, and the scan of a
   generated snippet gives back the bindings it was generated from. The scan of
   an edited one attributes a Host line to the last marker it knows, which need
   not be the block's own.
2. Theorems about the operators of `ConfigLines`, as far as they need no
   induction over the lines.
3. The remaining rows of `status`, where one is computed from two cells that
   different tasks write.
