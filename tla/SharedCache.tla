------------------------------ MODULE SharedCache ------------------------------
(***************************************************************************)
(* Multi-device mode: the daemons of several machines share one            *)
(* local-key-cache.json in a directory that a cloud client copies between  *)
(* them, while each machine keeps its own unlock-slots.json.               *)
(*                                                                         *)
(* The file holds the key payload, sealed with a local cache key, and that *)
(* key wrapped with the shared PIN.  A daemon works on the copy it read    *)
(* last and on the local cache key it recovered last; the two need not     *)
(* belong together.  A command is one action, but for a manual sync, whose *)
(* waits for the user and the server come after it has compared the two.   *)
(* The other interleavings inside one daemon are the subject of module     *)
(* VaultDaemon.                                                            *)
(***************************************************************************)
EXTENDS Naturals

CONSTANTS
    Devices,          \* the machines
    NoDevice,         \* not a machine
    Home,             \* the machine whose platform slot an old shared file carries
    MaxGen            \* bound: local cache keys generated

ASSUME SharedAssumption ==
    /\ NoDevice \notin Devices
    /\ Home \in Devices
    /\ MaxGen \in Nat \ {0}

VARIABLES
    disk,             \* local-key-cache.json as each machine sees it
    slots,            \* the platform slot in each unlock-slots.json
    mem,              \* local_key_cache_data
    lck,              \* local_cache_key_state: the key held, 0 is none
    vault_locked,     \* the AtomicBool
    keys,             \* cached_key_tuples is not empty
    session,          \* api_client may hold a session that can decrypt the vault
    dialog,           \* the key an open PIN dialog of an SSH request gives, 0 is none
    syncing,          \* a manual sync waits for its PIN dialog or for the server
    made,             \* number of local cache keys generated so far
    clash,            \* history: a reload, or a dialog older than one, left a daemon
                      \* with a key and a cache that nothing compared and do not fit
    forgotten         \* history: forgot this device, no PIN or password since

files   == <<disk, slots>>
state   == <<mem, lck, vault_locked, keys, session>>
waiting == <<dialog, syncing>>
vars    == <<files, state, waiting, made, clash, forgotten>>

-----------------------------------------------------------------------------
Gens   == 0 .. MaxGen
Slots  == [dev : Devices \cup {NoDevice}, gen : Gens]
NoSlot == [dev |-> NoDevice, gen |-> 0]

\* The key the PIN slot wraps, the key of the payload, and the platform slot a
\* file of an older version carries.
Caches == [pin : Gens, seal : Gens, slot : Slots]
NoFile == [pin |-> 0, seal |-> 0, slot |-> NoSlot]
Present(f) == f # NoFile

\* The PIN gives the key that decrypts the payload.
Opens(f) == f.pin = f.seal

\* write_envelope_local_key_cache_with_key: no platform slot in the shared file.
\* The mutant writes no PIN slot either.
WrittenBare(g) == [seal |-> g, slot |-> NoSlot]
Written(g) == [pin |-> g, seal |-> g, slot |-> NoSlot]

\* refresh_envelope_local_key_cache: the PIN slot is kept, platform slots are not.
Refreshed(f, g) == [f EXCEPT !.seal = g, !.slot = NoSlot]

\* migrate_pin_salt_to_v3: a new PIN slot for the key g that the old one gave.
Migrated(f, g) == [f EXCEPT !.pin = g]

\* persist_device_unlock_slots_from_cache: a device without a slot takes the one
\* an old shared file carries.
Seeded(s, f) == IF s = NoSlot THEN f.slot ELSE s

\* enroll_device_platform_slots_if_missing.
Enrolled(s, d, g) == IF s = NoSlot THEN [dev |-> d, gen |-> g] ELSE s

\* The platform slot of device d gives the key of the payload of f.
SlotOpens(d, s, f) == Present(f) /\ s.dev = d /\ s.gen = f.seal

Of(x) == [Devices -> x]

SharedTypeOK ==
    /\ disk \in Of(Caches) /\ mem \in Of(Caches) /\ dialog \in Of(Gens)
    /\ slots \in Of(Slots) /\ lck \in Of(Gens) /\ made \in Gens
    /\ vault_locked \in Of(BOOLEAN) /\ keys \in Of(BOOLEAN) /\ session \in Of(BOOLEAN)
    /\ syncing \in Of({"no", "pin", "fetch"}) /\ clash \in BOOLEAN /\ forgotten \in Of(BOOLEAN)

\* An installation of an older version, with its platform slot in the shared
\* file, that every machine has a copy of; the daemons start locked.
OldFile == [pin |-> 1, seal |-> 1, slot |-> [dev |-> Home, gen |-> 1]]

Init ==
    /\ disk = [d \in Devices |-> OldFile] /\ mem = disk /\ made = 1
    /\ slots = [d \in Devices |-> OldFile.slot]
    /\ lck = [d \in Devices |-> 0]
    /\ vault_locked = [d \in Devices |-> TRUE]
    /\ keys = [d \in Devices |-> FALSE] /\ session = [d \in Devices |-> FALSE]
    /\ dialog = [d \in Devices |-> 0] /\ syncing = [d \in Devices |-> "no"]
    /\ clash = FALSE /\ forgotten = [d \in Devices |-> FALSE]

-----------------------------------------------------------------------------
(* The cloud client copies a file, or its absence, to another machine.      *)

Replicate(d, e) ==
    /\ disk[d] # disk[e]
    /\ disk' = [disk EXCEPT ![e] = disk[d]]
    /\ UNCHANGED <<slots, state, waiting, made, clash, forgotten>>

-----------------------------------------------------------------------------
(* What the handlers of device d are built from.                           *)

\* reload_shared_local_cache_from_disk_if_multi_device: a missing file leaves the
\* copy in memory alone.
Reloaded(d) == IF Present(disk[d]) THEN disk[d] ELSE mem[d]
ReloadedSlot(d) == IF Present(disk[d]) THEN Seeded(slots[d], disk[d]) ELSE slots[d]

\* A cache and a key that do not belong together.
Misfit(f, g) == Present(f) /\ g # 0 /\ g # f.seal

\* The reload at the head of unlock, unlock-native, unlock-hello, unlock-pin and sync.
Reload(d) == slots' = [slots EXCEPT ![d] = ReloadedSlot(d)]

Save(d, f) == mem' = [mem EXCEPT ![d] = f] /\ disk' = [disk EXCEPT ![d] = f]

\* reconcile_synced_key_state as far as the cache goes: with a copy f and a key g
\* in memory, the payload is sealed anew and saved.
Reconcile(d, f, g) ==
    IF Present(f) /\ g # 0 THEN Save(d, Refreshed(f, g))
    ELSE mem' = [mem EXCEPT ![d] = f] /\ UNCHANGED disk

\* The key g, the keys and the flag after an unlock, which may have restored the
\* session of the device by the PIN or by Windows Hello.
Unlocked(d, g) ==
    /\ lck' = [lck EXCEPT ![d] = g]
    /\ vault_locked' = [vault_locked EXCEPT ![d] = FALSE]
    /\ keys' = [keys EXCEPT ![d] = TRUE]
    /\ session' = [session EXCEPT ![d] = TRUE]

\* resolve_pending_sync at the end of an unlock out of cache f: no sync is pending,
\* or it fails, or it runs.
ResolvePending(d, f, g) ==
    \/ mem' = [mem EXCEPT ![d] = f] /\ UNCHANGED disk
    \/ Reconcile(d, f, g)

\* lock_vault and forget: nothing secret stays in memory.
Wiped(d) ==
    /\ vault_locked' = [vault_locked EXCEPT ![d] = TRUE]
    /\ lck' = [lck EXCEPT ![d] = 0]
    /\ keys' = [keys EXCEPT ![d] = FALSE]

\* The main loop is in none of its handlers.
Ready(d) == syncing[d] = "no"

-----------------------------------------------------------------------------
(* Control commands.                                                       *)

\* Every unlock command reloads; one that finds the vault unlocked, or fails to
\* unlock it, has done no more than that.
UnlockInVain(d) ==
    /\ Ready(d) /\ Reload(d)
    /\ mem' = [mem EXCEPT ![d] = Reloaded(d)]
    /\ clash' = (clash \/ Misfit(Reloaded(d), lck[d]))
    /\ UNCHANGED <<disk, lck, vault_locked, keys, session, waiting, made, forgotten>>

\* unlock, unlock-native, unlock-hello by the platform slot of this device.
UnlockSlot(d) ==
    /\ Ready(d) /\ vault_locked[d] /\ Reload(d)
    /\ SlotOpens(d, ReloadedSlot(d), Reloaded(d))
    /\ Unlocked(d, Reloaded(d).seal)
    /\ ResolvePending(d, Reloaded(d), Reloaded(d).seal)
    /\ UNCHANGED <<waiting, made, clash, forgotten>>

\* The PIN dialog that unlock falls back to.
UnlockDialog(d) ==
    /\ Ready(d) /\ vault_locked[d] /\ Reload(d)
    /\ Present(Reloaded(d)) /\ Opens(Reloaded(d))
    /\ Unlocked(d, Reloaded(d).pin)
    /\ ResolvePending(d, Reloaded(d), Reloaded(d).pin)
    /\ forgotten' = [forgotten EXCEPT ![d] = FALSE]
    /\ UNCHANGED <<waiting, made, clash>>

\* unlock-pin: a PIN slot of an older version is made anew and saved, and a device
\* without a platform slot gets one.
UnlockPin(d) ==
    LET f == Reloaded(d)
    IN /\ Ready(d) /\ vault_locked[d]
       /\ Present(f) /\ Opens(f)
       /\ Unlocked(d, f.pin)
       /\ \/ ResolvePending(d, f, f.pin)
          \/ Save(d, Migrated(f, f.pin))
       /\ slots' = [slots EXCEPT ![d] = Enrolled(ReloadedSlot(d), d, f.pin)]
       /\ forgotten' = [forgotten EXCEPT ![d] = FALSE]
       /\ UNCHANGED <<waiting, made, clash>>

\* lock, and every other way into lock_vault.
Lock(d) ==
    /\ Ready(d) /\ ~vault_locked[d]
    /\ Wiped(d)
    /\ UNCHANGED <<files, mem, session, waiting, made, clash, forgotten>>

\* login: the server gives the keys, and the cache in memory follows.
Login(d) ==
    /\ Ready(d)
    /\ Reconcile(d, mem[d], lck[d])
    /\ Unlocked(d, lck[d])
    /\ forgotten' = [forgotten EXCEPT ![d] = FALSE]
    /\ UNCHANGED <<slots, waiting, made, clash>>

\* set-pin: a new PIN slot for the key held, or for a new key; the platform slot
\* of this device is written over.
SetPin(d) ==
    LET g == IF lck[d] # 0 THEN lck[d] ELSE made + 1
    IN /\ Ready(d) /\ keys[d] /\ g <= MaxGen
       /\ Save(d, Written(g))
       /\ made' = IF lck[d] # 0 THEN made ELSE made + 1
       /\ lck' = [lck EXCEPT ![d] = g]
       /\ slots' = [slots EXCEPT ![d] = [dev |-> d, gen |-> g]]
       /\ forgotten' = [forgotten EXCEPT ![d] = FALSE]
       /\ UNCHANGED <<vault_locked, keys, session, waiting, clash>>

\* The device's slots after a forget; the mutant leaves the file.
ForgottenSlotKept(s) == s
ForgottenSlot(s) == NoSlot

\* forget: this device only; the shared file stays and is read once more.
ForgetDevice(d) ==
    /\ Ready(d)
    /\ Wiped(d)
    /\ slots' = [slots EXCEPT ![d] = ForgottenSlot(slots[d])]
    /\ mem' = [mem EXCEPT ![d] = disk[d]]
    /\ session' = [session EXCEPT ![d] = FALSE]
    /\ forgotten' = [forgotten EXCEPT ![d] = TRUE]
    /\ UNCHANGED <<disk, waiting, made, clash>>

\* forget --shared-cache.
ForgetShared(d) ==
    /\ Ready(d)
    /\ Wiped(d) /\ Save(d, NoFile)
    /\ slots' = [slots EXCEPT ![d] = ForgottenSlot(slots[d])]
    /\ session' = [session EXCEPT ![d] = FALSE]
    /\ forgotten' = [forgotten EXCEPT ![d] = TRUE]
    /\ UNCHANGED <<waiting, made, clash>>

-----------------------------------------------------------------------------
(* sync.                                                                   *)

\* While locked it reloads and holds what the server gives; no key, no cache.
SyncLocked(d) ==
    /\ Ready(d) /\ vault_locked[d] /\ Reload(d)
    /\ \/ session[d] /\ keys' = [keys EXCEPT ![d] = TRUE] /\ Reconcile(d, Reloaded(d), lck[d])
       \/ UNCHANGED <<keys, disk>> /\ mem' = [mem EXCEPT ![d] = Reloaded(d)]
    /\ clash' = (clash \/ Misfit(Reloaded(d), lck[d]))
    /\ UNCHANGED <<lck, vault_locked, session, waiting, made, forgotten>>

\* The key held decrypts the cache; the mutant does not look.
KeyFitsAlways(f, g) == g # 0
KeyFits(f, g) == g # 0 /\ g = f.seal

\* ensure_local_cache_key_for_manual_sync, up to the dialog: a key that does not
\* fit the reloaded cache is dropped and the PIN asked for.
SyncStart(d) ==
    LET f == Reloaded(d)
        fits == ~Present(f) \/ KeyFits(f, lck[d])
    IN /\ Ready(d) /\ ~vault_locked[d] /\ Reload(d)
       /\ mem' = [mem EXCEPT ![d] = f]
       /\ lck' = IF fits THEN lck ELSE [lck EXCEPT ![d] = 0]
       /\ syncing' = [syncing EXCEPT ![d] = IF fits THEN "fetch" ELSE "pin"]
       /\ UNCHANGED <<disk, vault_locked, keys, session, dialog, made, clash, forgotten>>

\* The dialog gives the key of the cache, or is closed and the sync is over.
SyncPin(d) ==
    /\ syncing[d] = "pin"
    /\ \/ /\ Opens(mem[d])
          /\ lck' = [lck EXCEPT ![d] = mem[d].pin]
          /\ syncing' = [syncing EXCEPT ![d] = "fetch"]
       \/ syncing' = [syncing EXCEPT ![d] = "no"] /\ UNCHANGED lck
    /\ UNCHANGED <<files, mem, vault_locked, keys, session, dialog, made, clash, forgotten>>

\* do_sync: the server answers, or the sync fails.
SyncFetch(d) ==
    /\ syncing[d] = "fetch"
    /\ syncing' = [syncing EXCEPT ![d] = "no"]
    /\ \/ session[d] /\ keys' = [keys EXCEPT ![d] = TRUE] /\ Reconcile(d, mem[d], lck[d])
       \/ UNCHANGED <<keys, mem, disk>>
    /\ UNCHANGED <<slots, lck, vault_locked, session, dialog, made, clash, forgotten>>

\* A change notification or a fallback sync: do_sync on what is in memory.
AutoSync(d) ==
    /\ Ready(d) /\ ~vault_locked[d] /\ session[d]
    /\ keys' = [keys EXCEPT ![d] = TRUE]
    /\ Reconcile(d, mem[d], lck[d])
    /\ UNCHANGED <<slots, lck, vault_locked, session, waiting, made, clash, forgotten>>

-----------------------------------------------------------------------------
(* SSH requests on a locked vault, and the process.                        *)

\* Auto-unlock works on the cache in memory: by the platform slot, or by a PIN
\* dialog that keeps the cache it was opened with (a dialog whose cache does not
\* open can only be closed).
AutoUnlockSlot(d) ==
    /\ vault_locked[d] /\ SlotOpens(d, slots[d], mem[d])
    /\ Unlocked(d, mem[d].seal)
    /\ UNCHANGED <<files, mem, waiting, made, clash, forgotten>>

DialogOpens(d) ==
    /\ vault_locked[d] /\ Present(mem[d]) /\ Opens(mem[d]) /\ dialog[d] = 0
    /\ dialog' = [dialog EXCEPT ![d] = mem[d].pin]
    /\ UNCHANGED <<files, state, syncing, made, clash, forgotten>>

DialogPin(d) ==
    /\ dialog[d] # 0
    /\ dialog' = [dialog EXCEPT ![d] = 0]
    /\ \/ /\ Unlocked(d, dialog[d])
          /\ slots' = [slots EXCEPT ![d] = Enrolled(slots[d], d, dialog[d])]
          /\ clash' = (clash \/ Misfit(mem[d], dialog[d]))
          /\ forgotten' = [forgotten EXCEPT ![d] = FALSE]
       \/ UNCHANGED <<lck, vault_locked, keys, session, slots, clash, forgotten>>
    /\ UNCHANGED <<disk, mem, syncing, made>>

\* The daemon is started again.  Without a cache it logs in, or runs with no keys;
\* the user may set a PIN at once.
Restart(d) ==
    /\ dialog' = [dialog EXCEPT ![d] = 0]
    /\ syncing' = [syncing EXCEPT ![d] = "no"]
    /\ vault_locked' = [vault_locked EXCEPT ![d] = Present(disk[d])]
    /\ \/ /\ Present(disk[d])
          /\ mem' = [mem EXCEPT ![d] = disk[d]]
          /\ slots' = [slots EXCEPT ![d] = Seeded(slots[d], disk[d])]
          /\ lck' = [lck EXCEPT ![d] = 0] /\ keys' = [keys EXCEPT ![d] = FALSE]
          /\ session' = [session EXCEPT ![d] = FALSE]
          /\ UNCHANGED <<disk, made, forgotten>>
       \/ /\ ~Present(disk[d])
          /\ mem' = [mem EXCEPT ![d] = NoFile]
          /\ lck' = [lck EXCEPT ![d] = 0]
          /\ \E in \in BOOLEAN :
                /\ keys' = [keys EXCEPT ![d] = in] /\ session' = [session EXCEPT ![d] = in]
                /\ forgotten' = [forgotten EXCEPT ![d] = forgotten[d] /\ ~in]
          /\ UNCHANGED <<files, made>>
       \/ /\ ~Present(disk[d]) /\ made < MaxGen
          /\ Save(d, Written(made + 1)) /\ made' = made + 1
          /\ lck' = [lck EXCEPT ![d] = made + 1]
          /\ slots' = [slots EXCEPT ![d] = [dev |-> d, gen |-> made + 1]]
          /\ keys' = [keys EXCEPT ![d] = TRUE] /\ session' = [session EXCEPT ![d] = TRUE]
          /\ forgotten' = [forgotten EXCEPT ![d] = FALSE]
    /\ UNCHANGED clash

Command(d) ==
    \/ UnlockInVain(d) \/ UnlockSlot(d) \/ UnlockDialog(d) \/ UnlockPin(d)
    \/ Lock(d) \/ Login(d) \/ SetPin(d) \/ ForgetDevice(d) \/ ForgetShared(d)
    \/ SyncLocked(d) \/ SyncStart(d)

Next == \E d \in Devices :
    \/ Command(d) \/ SyncPin(d) \/ SyncFetch(d) \/ AutoSync(d)
    \/ AutoUnlockSlot(d) \/ DialogOpens(d) \/ DialogPin(d) \/ Restart(d)
    \/ \E e \in Devices : Replicate(d, e)

Spec == Init /\ [][Next]_vars

-----------------------------------------------------------------------------
(* Properties.                                                             *)

\* On every machine the shared file opens with its own PIN slot, whatever order
\* the machines write and receive it in: no sync, login, migration or set-pin
\* leaves the payload sealed with a key that the PIN does not give.  The daemons
\* break this only after a reload that nothing compared with the key they hold.
SharedOpens == clash \/ \A d \in Devices : Opens(disk[d])

\* A device that was told to forget holds no private keys again before its user
\* gives the PIN or the password.  The exception is the machine whose platform
\* slot an old shared file still carries: a reload copies it back.
ForgetSticks == \A d \in Devices : forgotten[d] /\ keys[d] => d = Home
=============================================================================
