-------------------------- MODULE VaultDaemonProofs --------------------------
(***************************************************************************)
(* The daemon's type invariant and its approval invariants, proved for     *)
(* every set of items, operations and requests and every configuration.    *)
(***************************************************************************)
EXTENDS VaultDaemon, TLAPS

-----------------------------------------------------------------------------
(* Values.                                                                 *)

\* The bounds of the model are natural numbers.
LEMMA Bounds == MaxVersion \in Nat \ {0} /\ MaxGen \in Nat \ {0} /\ EventCap \in Nat \ {0}
BY ConstantsAssumption

\* Zero stands for an absent key and for no local cache key; both are values of their types.
LEMMA ZeroTypes == 0 \in Gens /\ 0 \in Versions /\ NoKeys \in KeySet
BY Bounds DEF Gens, Versions, KeySet, NoKeys

\* Key sets loaded into the agent, with or without their private part.
LEMMA KeystoreTypes ==
    ASSUME NEW k \in KeySet
    PROVE  Private(k) \in Keystores /\ Public(k) \in Keystores
<1>1. \A i \in Items : k[i] \in Versions
  BY DEF KeySet
<1>2. \A i \in Items : (k[i] # 0) \in BOOLEAN
  OBVIOUS
<1>. QED
  BY <1>1, <1>2 DEF Private, Public, Keystores, Entries

\* agent.lock() keeps the listing and drops the private part.
LEMMA LockedKeystoreType ==
    ASSUME NEW ks \in Keystores
    PROVE  [i \in Items |-> [ks[i] EXCEPT !.priv = FALSE]] \in Keystores
BY DEF Keystores, Entries

\* A refreshed envelope is a cache whatever keys its slots and its payload use.
LEMMA CacheTypes ==
    ASSUME NEW g \in Gens, NEW h \in Gens, NEW k \in KeySet
    PROVE  [slot |-> g, seal |-> h, keys |-> k] \in Caches
BY DEF Caches

\* A freshly written envelope is a cache.
LEMMA SealedType ==
    ASSUME NEW g \in Gens, NEW k \in KeySet
    PROVE  Sealed(g, k) \in Caches
BY DEF Caches, Sealed

\* So is the missing file.
LEMMA AbsentType == Absent \in Caches
BY ZeroTypes DEF Absent, Caches

\* What can be read from a cache: its slots, its seal, its keys, the key an unlock recovers.
LEMMA CacheFields ==
    ASSUME NEW c \in Caches
    PROVE  c.slot \in Gens /\ c.seal \in Gens /\ c.keys \in KeySet /\ UsableKey(c) \in Gens
BY ZeroTypes DEF Caches, UsableKey

-----------------------------------------------------------------------------
(* The main loop's locals.                                                 *)

\* The main loop between two events.
LEMMA IdleType == Idle \in MainRecords
BY ZeroTypes DEF Idle, MainRecords, MainPcs, Methods, Callers

\* The locals of a main-loop task have their types.
LEMMA MainFields ==
    ASSUME NEW m \in MainRecords
    PROVE  /\ m.keys \in KeySet /\ m.gen \in Gens /\ m.method \in Methods
           /\ m.pc \in MainPcs
BY DEF MainRecords

\* The ways the steps of a main-loop task change its locals keep them typed.
LEMMA MainUpdates ==
    ASSUME NEW m \in MainRecords, NEW p \in MainPcs
    PROVE  /\ [m EXCEPT !.pc = p] \in MainRecords
           /\ \A b \in BOOLEAN : [m EXCEPT !.pc = p, !.ctl = b] \in MainRecords
           /\ \A x \in Callers : [m EXCEPT !.pc = p, !.cont = x] \in MainRecords
           /\ \A k \in KeySet : [m EXCEPT !.pc = p, !.keys = k] \in MainRecords
           /\ \A g \in Gens : [m EXCEPT !.pc = p, !.gen = g] \in MainRecords
           /\ \A k \in KeySet, x \in Callers :
                [m EXCEPT !.pc = p, !.keys = k, !.cont = x] \in MainRecords
           /\ \A b \in BOOLEAN, k \in KeySet :
                [m EXCEPT !.pc = p, !.ctl = b, !.keys = k] \in MainRecords
           /\ \A b \in BOOLEAN, x \in Callers, w \in BOOLEAN :
                [m EXCEPT !.pc = p, !.ctl = b, !.cont = x, !.was_locked = w] \in MainRecords
           /\ \A b \in BOOLEAN, n \in Methods, q \in BOOLEAN, k \in KeySet, g \in Gens :
                [m EXCEPT !.pc = p, !.ctl = b, !.method = n, !.guard = q, !.keys = k,
                          !.gen = g] \in MainRecords
BY DEF MainRecords

-----------------------------------------------------------------------------
(* The handlers' locals.                                                   *)

\* A request slot that is free.
LEMMA NoRequestType == NoRequest \in UiRecords
<1>1. (CHOOSE i \in Items : TRUE) \in Items /\ (CHOOSE o \in Ops : TRUE) \in Ops
  BY ConstantsAssumption
<1>. QED
  BY <1>1, ZeroTypes DEF NoRequest, UiRecords, UiPcs, Methods

\* The locals of a request handler have their types.
LEMMA UiFields ==
    ASSUME NEW u \in UiRecords
    PROVE  /\ u.item \in Items /\ u.op \in Ops /\ u.fwd \in BOOLEAN /\ u.method \in Methods
           /\ u.keys \in KeySet /\ u.gen \in Gens
BY DEF UiRecords

\* The ways a handler changes its locals keep them typed.
LEMMA UiUpdates ==
    ASSUME NEW u \in UiRecords, NEW p \in UiPcs, NEW k \in KeySet, NEW g \in Gens,
           NEW n \in Methods, NEW b \in BOOLEAN
    PROVE  /\ [u EXCEPT !.pc = p] \in UiRecords
           /\ [u EXCEPT !.method = n] \in UiRecords
           /\ [u EXCEPT !.pc = p, !.keys = k, !.gen = g] \in UiRecords
           /\ [u EXCEPT !.pc = p, !.method = n, !.keys = k, !.gen = g] \in UiRecords
           /\ [u EXCEPT !.pc = p, !.remember = b, !.keys = k, !.gen = g] \in UiRecords
BY DEF UiRecords

\* The dialogs open at some moment are about items and operations.
LEMMA OpenDialogsType ==
    ASSUME TaskType
    PROVE  OpenDialogs \in SUBSET (Items \X Ops)
BY UiFields DEF TaskType, OpenDialogs

\* Moving a handler to another step.
LEMMA UiGotoType ==
    ASSUME TaskType, NEW r \in Requests, NEW p \in UiPcs, UiGoto(r, p)
    PROVE  ui' \in [Requests -> UiRecords]
<1>1. [ui[r] EXCEPT !.pc = p] \in UiRecords
  BY UiUpdates, ZeroTypes, NoRequestType, UiFields DEF TaskType
<1>2. ui' = [ui EXCEPT ![r] = [ui[r] EXCEPT !.pc = p]]
  BY DEF UiGoto
<1>. QED
  BY <1>1, <1>2 DEF TaskType

\* Broadcasting an answer.
LEMMA ReplyType ==
    ASSUME TaskType, NEW r \in Requests, NEW ok \in BOOLEAN,
           NEW by \in {"nothing", "refusal", "prompt", "memory", "never"}, Reply(r, ok, by)
    PROVE  ui' \in [Requests -> UiRecords]
<1>. DEFINE u == [NoRequest EXCEPT !.pc = "done", !.item = ui[r].item, !.op = ui[r].op,
                                   !.fwd = ui[r].fwd, !.ok = ok, !.by = by]
<1>1. ui[r].item \in Items /\ ui[r].op \in Ops /\ ui[r].fwd \in BOOLEAN
  BY UiFields DEF TaskType
<1>2. u \in UiRecords
  BY <1>1, NoRequestType DEF UiRecords, UiPcs
<1>3. ui' = [ui EXCEPT ![r] = u]
  BY DEF Reply
<1>. QED
  BY <1>2, <1>3 DEF TaskType

\* Broadcasting a refusal.
LEMMA RefuseType ==
    ASSUME TaskType, NEW r \in Requests, Refuse(r)
    PROVE  ui' \in [Requests -> UiRecords]
BY ReplyType DEF Refuse

\* Falling back from the platform slot to the PIN dialog, or refusing.
LEMMA NextMethodType ==
    ASSUME TaskType, NEW r \in Requests, NextMethod(r)
    PROVE  ui' \in [Requests -> UiRecords]
<1>1. CASE ui[r].method = "native"
  <2>. DEFINE u == [ui[r] EXCEPT !.pc = "capture", !.method = "pin", !.keys = NoKeys,
                                 !.gen = 0]
  <2>1. u \in UiRecords
    BY UiUpdates, ZeroTypes DEF TaskType, UiPcs, Methods
  <2>2. ui' = [ui EXCEPT ![r] = u]
    BY <1>1 DEF NextMethod
  <2>. QED
    BY <2>1, <2>2 DEF TaskType
<1>2. CASE ui[r].method # "native"
  BY <1>2, RefuseType DEF NextMethod
<1>. QED
  BY <1>1, <1>2

\* Opening the prompt, or approving without one.
LEMMA AuthorizeType ==
    ASSUME TaskType, NEW r \in Requests, NEW b \in BOOLEAN, Authorize(r, b)
    PROVE  ui' \in [Requests -> UiRecords]
<1>1. CASE NeedsPrompt(ui[r].fwd)
  <2>. DEFINE u == [ui[r] EXCEPT !.pc = "prompt", !.remember = b, !.keys = NoKeys, !.gen = 0]
  <2>1. u \in UiRecords
    BY UiUpdates, ZeroTypes DEF TaskType, UiPcs, Methods
  <2>2. ui' = [ui EXCEPT ![r] = u]
    BY <1>1 DEF Authorize
  <2>. QED
    BY <2>1, <2>2 DEF TaskType
<1>2. CASE ~NeedsPrompt(ui[r].fwd)
  BY <1>2, ReplyType DEF Authorize
<1>. QED
  BY <1>1, <1>2

-----------------------------------------------------------------------------
(* Steps keep the types: the main loop's record first.                     *)

\* Moving the main loop to another step.
LEMMA GotoType ==
    ASSUME TaskType, NEW p \in MainPcs, Goto(p)
    PROVE  main' \in MainRecords
BY MainUpdates DEF Goto, TaskType

\* Starting a main-loop task.
LEMMA BeginType ==
    ASSUME NEW p \in MainPcs, NEW b \in BOOLEAN, Begin(p, b)
    PROVE  main' \in MainRecords
BY IdleType, MainUpdates DEF Begin

\* The lock path, from its three entries.
LEMMA LockType ==
    ASSUME TypeOK, CmdLock \/ OnLogOut \/ AutoLock \/ LockSteps
    PROVE  TypeOK'
<1>. USE ZeroTypes, AbsentType, IdleType
<1>. USE DEF TypeOK, AgentType, ApprovalType, StoreType, CloudType, EventsType, TaskType,
             HistoryType, secrets, store, cloud, history
<1>0. /\ main.keys \in KeySet /\ main.gen \in Gens /\ main.method \in Methods
      /\ Private(main.keys) \in Keystores
  BY MainFields, KeystoreTypes
<1>1. ASSUME CmdLock PROVE TypeOK'
  <2>1. main' \in MainRecords
    BY <1>1, BeginType DEF CmdLock, MainPcs
  <2>. QED
    BY <1>1, <1>0, <2>1 DEF CmdLock
<1>2. ASSUME OnLogOut PROVE TypeOK'
  <2>1. main' \in MainRecords
    BY <1>2, BeginType DEF OnLogOut, MainPcs
  <2>. QED
    BY <1>2, <1>0, <2>1 DEF OnLogOut
<1>3. ASSUME AutoLock PROVE TypeOK'
  <2>1. main' \in MainRecords
    BY <1>3, BeginType DEF AutoLock, MainPcs
  <2>. QED
    BY <1>3, <1>0, <2>1 DEF AutoLock
<1>4. ASSUME LockKeys PROVE TypeOK'
  <2>1. main' \in MainRecords
    BY <1>4, GotoType DEF LockKeys, Return, MainPcs
  <2>. QED
    BY <1>4, <1>0, <2>1, LockedKeystoreType DEF LockKeys
<1>5. ASSUME LockFlag PROVE TypeOK'
  <2>1. main' \in MainRecords
    BY <1>5, GotoType DEF LockFlag, Return, MainPcs
  <2>. QED
    BY <1>5, <1>0, <2>1, OpenDialogsType DEF LockFlag
<1>6. ASSUME LockCached PROVE TypeOK'
  <2>1. main' \in MainRecords
    BY <1>6, GotoType DEF LockCached, Return, MainPcs
  <2>. QED
    BY <1>6, <1>0, <2>1 DEF LockCached
<1>7. ASSUME LockLck PROVE TypeOK'
  <2>1. main' \in MainRecords
    BY <1>7, GotoType DEF LockLck, Return, MainPcs
  <2>. QED
    BY <1>7, <1>0, <2>1 DEF LockLck
<1>8. ASSUME LockMemory PROVE TypeOK'
  <2>1. main' \in MainRecords
    BY <1>8 DEF LockMemory, Return, MainPcs
  <2>. QED
    BY <1>8, <1>0, <2>1 DEF LockMemory
<1>. QED
  BY <1>1, <1>2, <1>3, <1>4, <1>5, <1>6, <1>7, <1>8 DEF LockSteps

\* The explicit unlock.
LEMMA UnlockType ==
    ASSUME TypeOK, (\E c \in UnlockCommands : CmdUnlock(c)) \/ UnlockSteps
    PROVE  TypeOK'
<1>. USE ZeroTypes, AbsentType, IdleType
<1>. USE DEF TypeOK, AgentType, ApprovalType, StoreType, CloudType, EventsType, TaskType,
             HistoryType, secrets, store, cloud, history
<1>0. /\ main.keys \in KeySet /\ main.gen \in Gens /\ main.method \in Methods
      /\ Private(main.keys) \in Keystores
  BY MainFields, KeystoreTypes
<1>1. ASSUME NEW c \in UnlockCommands, CmdUnlock(c) PROVE TypeOK'
  <2>0. [Idle EXCEPT !.pc = "u_wait", !.ctl = TRUE, !.method = MethodOf(c),
                      !.guard = HoldsGuard(c),
                      !.keys = cache_data.keys, !.gen = UsableKey(cache_data)]
          \in MainRecords
    <3>1. cache_data.keys \in KeySet /\ UsableKey(cache_data) \in Gens
      BY CacheFields
    <3>2. "u_wait" \in MainPcs /\ MethodOf(c) \in Methods /\ HoldsGuard(c) \in BOOLEAN
      BY DEF MainPcs, Methods, MethodOf, HoldsGuard
    <3>. QED
      BY <3>1, <3>2, <1>1, MainUpdates
  <2>1. main' \in MainRecords
    BY <1>1, <2>0 DEF CmdUnlock, Return, MainPcs
  <2>. QED
    BY <1>1, <1>0, <2>1 DEF CmdUnlock
<1>2. ASSUME UnlockAnswered PROVE TypeOK'
  <2>1. main' \in MainRecords
    BY <1>2, GotoType DEF UnlockAnswered, Return, MainPcs
  <2>. QED
    BY <1>2, <1>0, <2>1 DEF UnlockAnswered
<1>3. ASSUME UnlockLck PROVE TypeOK'
  <2>1. main' \in MainRecords
    BY <1>3, GotoType DEF UnlockLck, Return, MainPcs
  <2>. QED
    BY <1>3, <1>0, <2>1 DEF UnlockLck
<1>4. ASSUME UnlockCached PROVE TypeOK'
  <2>1. main' \in MainRecords
    BY <1>4, GotoType DEF UnlockCached, Return, MainPcs
  <2>. QED
    BY <1>4, <1>0, <2>1 DEF UnlockCached
<1>5. ASSUME UnlockKeys PROVE TypeOK'
  <2>1. main' \in MainRecords
    BY <1>5, GotoType DEF UnlockKeys, Return, MainPcs
  <2>. QED
    BY <1>5, <1>0, <2>1 DEF UnlockKeys
<1>6. ASSUME UnlockFlag PROVE TypeOK'
  <2>1. main' \in MainRecords
    BY <1>6, GotoType DEF UnlockFlag, Return, MainPcs
  <2>. QED
    BY <1>6, <1>0, <2>1 DEF UnlockFlag
<1>. QED
  BY <1>1, <1>2, <1>3, <1>4, <1>5, <1>6 DEF UnlockSteps

\* Session restore, token timer and sync.
LEMMA SyncType ==
    ASSUME TypeOK, \/ CmdSync \/ TokenRefresh \/ SyncSteps
                   \/ \E e \in {"CipherChanged", "FallbackSyncDue"} : OnSyncEvent(e)
    PROVE  TypeOK'
<1>. USE ZeroTypes, AbsentType, IdleType
<1>. USE DEF TypeOK, AgentType, ApprovalType, StoreType, CloudType, EventsType, TaskType,
             HistoryType, secrets, store, cloud, history
<1>0. /\ main.keys \in KeySet /\ main.gen \in Gens /\ main.method \in Methods
      /\ Private(main.keys) \in Keystores
  BY MainFields, KeystoreTypes
<1>1. ASSUME CmdSync PROVE TypeOK'
  <2>1. main' \in MainRecords
    BY <1>1, MainUpdates, <1>0, ZenonT(40) DEF CmdSync, Return, MainPcs, Methods, Callers
  <2>. QED
    BY <1>1, <1>0, <2>1 DEF CmdSync
<1>2. ASSUME TokenRefresh PROVE TypeOK'
  BY <1>2, <1>0 DEF TokenRefresh, Renewable, StoredSession, ConnectHub, SaveSession
<1>3. ASSUME NEW e \in {"CipherChanged", "FallbackSyncDue"}, OnSyncEvent(e) PROVE TypeOK'
  <2>0. [Idle EXCEPT !.pc = "s_net", !.cont = "hub"]
          \in MainRecords
    BY <1>3, <1>0, MainUpdates DEF MainPcs, Callers
  <2>1. main' \in MainRecords
    BY <1>3, <2>0 DEF OnSyncEvent, Return, MainPcs
  <2>. QED
    BY <1>3, <1>0, <2>1 DEF OnSyncEvent
<1>4. ASSUME RestoreSession PROVE TypeOK'
  <2>1. main' \in MainRecords
    BY <1>4, GotoType DEF RestoreSession, Restorable, Return, MainPcs
  <2>. QED
    BY <1>4, <1>0, <2>1, ZenonT(40) DEF RestoreSession, Restorable, ConnectHub
<1>5. ASSUME ResolvePending PROVE TypeOK'
  <2>0. [main EXCEPT !.pc = "s_net", !.cont = "resolve"]
          \in MainRecords
    BY <1>5, <1>0, MainUpdates DEF MainPcs, Callers
  <2>1. main' \in MainRecords
    BY <1>5, <2>0 DEF ResolvePending, Return, MainPcs
  <2>. QED
    BY <1>5, <1>0, <2>1, ZenonT(40) DEF ResolvePending
<1>6. ASSUME SyncNet PROVE TypeOK'
  <2>0. [main EXCEPT !.pc = "r_memory", !.keys = remote]
          \in MainRecords
    BY <1>6, <1>0, MainUpdates, ZenonT(40) DEF MainPcs, Callers
  <2>1. main' \in MainRecords
    BY <1>6, <2>0 DEF SyncNet, SyncedKeys, HasUserKey, Return, MainPcs
  <2>. QED
    BY <1>6, <1>0, <2>1, ZenonT(40) DEF SyncNet, SyncedKeys, HasUserKey, PendingAfterFailure
<1>7. ASSUME ReconcileMemory PROVE TypeOK'
  <2>1. main' \in MainRecords
    BY <1>7, GotoType DEF ReconcileMemory, Return, MainPcs
  <2>. QED
    BY <1>7, <1>0, <2>1 DEF ReconcileMemory
<1>8. ASSUME ReconcileCached PROVE TypeOK'
  <2>1. main' \in MainRecords
    BY <1>8, GotoType DEF ReconcileCached, Return, MainPcs
  <2>. QED
    BY <1>8, <1>0, <2>1 DEF ReconcileCached
<1>9. ASSUME ReconcileRefresh PROVE TypeOK'
  <2>0. [main EXCEPT !.pc = "r_lck", !.gen = lck]
          \in MainRecords
    BY <1>9, <1>0, MainUpdates, ZenonT(40) DEF MainPcs, Callers
  <2>1. main' \in MainRecords
    BY <1>9, <2>0, GotoType DEF ReconcileRefresh, Return, MainPcs
  <2>. QED
    BY <1>9, <1>0, <2>1, CacheTypes, CacheFields DEF ReconcileRefresh, RefreshKey
<1>10. ASSUME ReconcileLck PROVE TypeOK'
  <2>1. main' \in MainRecords
    BY <1>10, GotoType DEF ReconcileLck, Return, MainPcs
  <2>. QED
    BY <1>10, <1>0, <2>1 DEF ReconcileLck
<1>11. ASSUME SyncLoad PROVE TypeOK'
  <2>1. main' \in MainRecords
    BY <1>11 DEF SyncLoad, Return, MainPcs
  <2>. QED
    BY <1>11, <1>0, <2>1 DEF SyncLoad, PendingAfterFailure, PendingLost
<1>. QED
  BY <1>1, <1>2, <1>3, <1>4, <1>5, <1>6, <1>7, <1>8, <1>9, <1>10, <1>11 DEF SyncSteps

\* Login.
LEMMA LoginType ==
    ASSUME TypeOK, CmdLogin \/ LoginSteps
    PROVE  TypeOK'
<1>. USE ZeroTypes, AbsentType, IdleType
<1>. USE DEF TypeOK, AgentType, ApprovalType, StoreType, CloudType, EventsType, TaskType,
             HistoryType, secrets, store, cloud, history
<1>0. /\ main.keys \in KeySet /\ main.gen \in Gens /\ main.method \in Methods
      /\ Private(main.keys) \in Keystores
  BY MainFields, KeystoreTypes
<1>1. ASSUME CmdLogin PROVE TypeOK'
  <2>1. main' \in MainRecords
    BY <1>1, BeginType DEF CmdLogin, MainPcs
  <2>. QED
    BY <1>1, <1>0, <2>1 DEF CmdLogin
<1>2. ASSUME LoginNet PROVE TypeOK'
  <2>0. [main EXCEPT !.pc = "r_memory", !.keys = remote, !.cont = "login"]
          \in MainRecords
    BY <1>2, <1>0, MainUpdates DEF MainPcs, Callers
  <2>1. main' \in MainRecords
    BY <1>2, <2>0 DEF LoginNet, SyncedKeys, Return, MainPcs
  <2>. QED
    BY <1>2, <1>0, <2>1 DEF LoginNet, SyncedKeys
<1>3. ASSUME LoginLoad PROVE TypeOK'
  <2>1. main' \in MainRecords
    BY <1>3, GotoType DEF LoginLoad, Return, MainPcs
  <2>. QED
    BY <1>3, <1>0, <2>1 DEF LoginLoad
<1>4. ASSUME LoginFlag PROVE TypeOK'
  <2>1. main' \in MainRecords
    BY <1>4, GotoType DEF LoginFlag, Return, MainPcs
  <2>. QED
    BY <1>4, <1>0, <2>1 DEF LoginFlag
<1>5. ASSUME LoginSession PROVE TypeOK'
  <2>1. main' \in MainRecords
    BY <1>5, GotoType DEF LoginSession, Return, MainPcs
  <2>. QED
    BY <1>5, <1>0, <2>1 DEF LoginSession, StoredSession, ConnectHub, SaveSession
<1>. QED
  BY <1>1, <1>2, <1>3, <1>4, <1>5 DEF LoginSteps

\* Setting a PIN.
LEMMA SetPinType ==
    ASSUME TypeOK, CmdSetPin \/ SetPinSteps
    PROVE  TypeOK'
<1>. USE ZeroTypes, AbsentType, IdleType
<1>. USE DEF TypeOK, AgentType, ApprovalType, StoreType, CloudType, EventsType, TaskType,
             HistoryType, secrets, store, cloud, history
<1>0. /\ main.keys \in KeySet /\ main.gen \in Gens /\ main.method \in Methods
      /\ Private(main.keys) \in Keystores
  BY MainFields, KeystoreTypes
<1>1. ASSUME CmdSetPin PROVE TypeOK'
  <2>1. main' \in MainRecords
    BY <1>1, MainUpdates, <1>0, ZenonT(40) DEF CmdSetPin, Return, MainPcs, Methods, Callers
  <2>. QED
    BY <1>1, <1>0, <2>1 DEF CmdSetPin
<1>2. ASSUME SetPinKey PROVE TypeOK'
  <2>1. made < MaxGen => made + 1 \in Gens
    BY Bounds DEF Gens
  <2>2. "p_write" \in MainPcs
    BY DEF MainPcs
  <2>3. \A g \in Gens : [main EXCEPT !.pc = "p_write", !.gen = g] \in MainRecords
    BY <2>2, MainUpdates
  <2>4. CASE lck # 0
    BY <1>2, <2>3, <2>4 DEF SetPinKey
  <2>5. CASE lck = 0
    BY <1>2, <2>1, <2>3, <2>5, ZenonT(40) DEF SetPinKey
  <2>. QED
    BY <2>4, <2>5
<1>3. ASSUME SetPinWrite PROVE TypeOK'
  <2>1. main' \in MainRecords
    BY <1>3, GotoType DEF SetPinWrite, Return, MainPcs
  <2>. QED
    BY <1>3, <1>0, <2>1, SealedType DEF SetPinWrite
<1>4. ASSUME SetPinLck PROVE TypeOK'
  <2>1. main' \in MainRecords
    BY <1>4 DEF SetPinLck, Return, MainPcs
  <2>. QED
    BY <1>4, <1>0, <2>1 DEF SetPinLck, SaveSession
<1>. QED
  BY <1>1, <1>2, <1>3, <1>4 DEF SetPinSteps

\* Forget.
LEMMA ForgetType ==
    ASSUME TypeOK, CmdForget \/ ForgetSteps
    PROVE  TypeOK'
<1>. USE ZeroTypes, AbsentType, IdleType
<1>. USE DEF TypeOK, AgentType, ApprovalType, StoreType, CloudType, EventsType, TaskType,
             HistoryType, secrets, store, cloud, history
<1>0. /\ main.keys \in KeySet /\ main.gen \in Gens /\ main.method \in Methods
      /\ Private(main.keys) \in Keystores
  BY MainFields, KeystoreTypes
<1>1. ASSUME CmdForget PROVE TypeOK'
  <2>1. main' \in MainRecords
    BY <1>1, BeginType DEF CmdForget, MainPcs
  <2>. QED
    BY <1>1, <1>0, <2>1 DEF CmdForget
<1>2. ASSUME ForgetLck PROVE TypeOK'
  <2>1. main' \in MainRecords
    BY <1>2, GotoType DEF ForgetLck, Return, MainPcs
  <2>. QED
    BY <1>2, <1>0, <2>1 DEF ForgetLck
<1>3. ASSUME ForgetMemory PROVE TypeOK'
  <2>1. main' \in MainRecords
    BY <1>3, GotoType DEF ForgetMemory, Return, MainPcs
  <2>. QED
    BY <1>3, <1>0, <2>1 DEF ForgetMemory
<1>4. ASSUME ForgetCached PROVE TypeOK'
  <2>1. main' \in MainRecords
    BY <1>4, GotoType DEF ForgetCached, Return, MainPcs
  <2>. QED
    BY <1>4, <1>0, <2>1 DEF ForgetCached, ApiAfterForget
<1>5. ASSUME ForgetFlag PROVE TypeOK'
  <2>1. main' \in MainRecords
    BY <1>5, GotoType DEF ForgetFlag, Return, MainPcs
  <2>. QED
    BY <1>5, <1>0, <2>1, OpenDialogsType DEF ForgetFlag
<1>6. ASSUME ForgetData PROVE TypeOK'
  <2>1. main' \in MainRecords
    BY <1>6, GotoType DEF ForgetData, Return, MainPcs
  <2>. QED
    BY <1>6, <1>0, <2>1 DEF ForgetData
<1>7. ASSUME ForgetKeys PROVE TypeOK'
  <2>1. main' \in MainRecords
    BY <1>7 DEF ForgetKeys, Return, MainPcs
  <2>. QED
    BY <1>7, <1>0, <2>1, KeystoreTypes DEF ForgetKeys
<1>. QED
  BY <1>1, <1>2, <1>3, <1>4, <1>5, <1>6, <1>7 DEF ForgetSteps

\* A handler's steps, and the request's life around them.
LEMMA HandlerType ==
    ASSUME TypeOK, NEW r \in Requests, Spawn(r) \/ Handler(r) \/ Client(r)
    PROVE  TypeOK'
<1>. USE ZeroTypes, NoRequestType
<1>. USE DEF TypeOK, AgentType, ApprovalType, StoreType, CloudType, EventsType, TaskType,
             HistoryType, secrets, store, cloud, history
<1>0. /\ ui[r] \in UiRecords /\ ui[r].keys \in KeySet /\ ui[r].gen \in Gens
      /\ ui[r].method \in Methods /\ ui[r].item \in Items /\ ui[r].op \in Ops
      /\ Private(ui[r].keys) \in Keystores
  BY UiFields, KeystoreTypes
<1>1. ASSUME Spawn(r) PROVE TypeOK'
  BY <1>1, UiGotoType DEF Spawn, UiPcs
<1>2. ASSUME UiStart(r) PROVE TypeOK'
  BY <1>2, UiGotoType DEF UiStart, UiPcs
<1>3. ASSUME UiCapture(r) PROVE TypeOK'
  <2>. DEFINE u == [ui[r] EXCEPT !.pc = "decrypt", !.keys = cache_data.keys,
                                 !.gen = UsableKey(cache_data)]
              v == [ui[r] EXCEPT !.method = "pin"]
  <2>1. cache_data.keys \in KeySet /\ UsableKey(cache_data) \in Gens
    BY CacheFields
  <2>2. u \in UiRecords /\ v \in UiRecords
    BY <2>1, <1>0, UiUpdates, ZenonT(40) DEF UiPcs, Methods
  <2>3. CASE ui' = [ui EXCEPT ![r] = u] \/ ui' = [ui EXCEPT ![r] = v]
    BY <1>3, <2>2, <2>3, ZenonT(40) DEF UiCapture
  <2>4. CASE Refuse(r)
    BY <1>3, <2>4, RefuseType DEF UiCapture
  <2>. QED
    BY <1>3, <2>3, <2>4 DEF UiCapture
<1>4. ASSUME UiDecrypt(r) PROVE TypeOK'
  <2>1. ui' \in [Requests -> UiRecords]
    BY <1>4, UiGotoType, NextMethodType DEF UiDecrypt, UiPcs
  <2>. QED
    BY <1>4, <2>1 DEF UiDecrypt
<1>5. ASSUME UiApply(r) PROVE TypeOK'
  BY <1>5, <1>0, UiGotoType DEF UiApply, UiPcs
<1>6. ASSUME UiLoad(r) PROVE TypeOK'
  <2>1. UnlockOrder("load") \in UiPcs
    BY DEF UnlockOrder, UiPcs
  <2>2. ui' \in [Requests -> UiRecords]
    BY <1>6, <2>1, UiGotoType, NextMethodType DEF UiLoad
  <2>. QED
    BY <1>6, <1>0, <2>2 DEF UiLoad
<1>7. ASSUME UiLck(r) PROVE TypeOK'
  <2>1. UnlockOrder("lck") \in UiPcs
    BY DEF UnlockOrder, UiPcs
  <2>. QED
    BY <1>7, <1>0, <2>1, UiGotoType DEF UiLck
<1>8. ASSUME UiFlag(r) PROVE TypeOK'
  <2>1. UnlockOrder("flag") \in UiPcs
    BY DEF UnlockOrder, UiPcs
  <2>. QED
    BY <1>8, <2>1, UiGotoType DEF UiFlag
<1>9. ASSUME UiSend(r) PROVE TypeOK'
  <2>1. ui' \in [Requests -> UiRecords]
    BY <1>9, AuthorizeType DEF UiSend
  <2>2. events' \in Seq(Methods) /\ Len(events') <= EventCap
    BY <1>9, <1>0, Bounds DEF UiSend, HasRoom
  <2>. QED
    BY <1>9, <2>1, <2>2 DEF UiSend
<1>10. ASSUME UiRecheck(r) PROVE TypeOK'
  BY <1>10, UiGotoType, RefuseType DEF UiRecheck, LockedByNow, UiPcs
<1>11. ASSUME UiLookup(r) PROVE TypeOK'
  <2>1. ui' \in [Requests -> UiRecords]
    BY <1>11, ReplyType, AuthorizeType DEF UiLookup
  <2>. QED
    BY <1>11, <2>1 DEF UiLookup
<1>12. ASSUME UiPrompt(r) PROVE TypeOK'
  <2>1. ui' \in [Requests -> UiRecords]
    BY <1>12, RefuseType, ReplyType, UiGotoType DEF UiPrompt, UiPcs
  <2>. QED
    BY <1>12, <2>1 DEF UiPrompt
<1>13. ASSUME UiInsert(r) PROVE TypeOK'
  <2>. DEFINE a == <<ui[r].item, ui[r].op>>
  <2>1. a \in Items \X Ops /\ a[1] = ui[r].item
    BY <1>0
  <2>2. keystore[ui[r].item].ver \in Versions
    BY <1>0 DEF Keystores, Entries
  <2>3. approved' \in [Items \X Ops -> Versions]
    BY <1>13, <2>1, <2>2 DEF UiInsert
  <2>4. memory' \in SUBSET (Items \X Ops)
    BY <1>13, <2>1 DEF UiInsert
  <2>5. ui' \in [Requests -> UiRecords]
    BY <1>13, ReplyType DEF UiInsert
  <2>. QED
    BY <1>13, <2>3, <2>4, <2>5 DEF UiInsert
<1>14. ASSUME Again(r) PROVE TypeOK'
  BY <1>14 DEF Again
<1>15. ASSUME NEW i \in Items, NEW o \in Ops, NEW f \in Forwarding, Arrive(r, i, o, f)
       PROVE  TypeOK'
  <2>. DEFINE u == [NoRequest EXCEPT !.pc = "sent", !.item = i, !.op = o, !.fwd = f]
  <2>1. f \in BOOLEAN
    BY ConstantsAssumption
  <2>2. u \in UiRecords
    BY <2>1 DEF UiRecords, UiPcs
  <2>3. ui' = [ui EXCEPT ![r] = u]
    BY <1>15 DEF Arrive
  <2>. QED
    BY <1>15, <2>2, <2>3 DEF Arrive
<1>. QED
  BY <1>1, <1>2, <1>3, <1>4, <1>5, <1>6, <1>7, <1>8, <1>9, <1>10, <1>11, <1>12, <1>13,
     <1>14, <1>15 DEF Handler, Client

\* What a fresh process starts with is well typed.
LEMMA BootType ==
    ASSUME NEW d \in Caches, NEW x \in {"none", "bare", "pin"}, NEW k \in KeySet,
           NEW g \in Gens, NEW b \in Boot(d, x, k, g)
    PROVE  /\ b.locked \in BOOLEAN /\ b.keystore \in Keystores /\ b.keys \in KeySet
           /\ b.lck \in Gens /\ b.made \in Gens /\ b.disk \in Caches
           /\ b.session \in {"none", "bare", "pin"} /\ b.api \in {"none", "restored", "login"}
<1>. DEFINE keyless == [locked |-> FALSE, keystore |-> Public(NoKeys), keys |-> NoKeys,
                        lck |-> 0, made |-> g, disk |-> d, session |-> x, api |-> "none"]
            login   == [keyless EXCEPT !.keystore = Private(k), !.keys = k, !.api = "login",
                                       !.session = IF x = "none" THEN "bare" ELSE x]
            withPin == [login EXCEPT !.lck = g + 1, !.made = g + 1,
                                     !.disk = Sealed(g + 1, k), !.session = "pin"]
            listed  == [keyless EXCEPT !.locked = TRUE, !.keystore = Public(d.keys)]
<1>1. /\ d.keys \in KeySet /\ NoKeys \in KeySet /\ 0 \in Gens
      /\ Public(NoKeys) \in Keystores /\ Public(d.keys) \in Keystores
      /\ Private(k) \in Keystores
  BY ZeroTypes, CacheFields, KeystoreTypes
<1>2. g < MaxGen => g + 1 \in Gens /\ Sealed(g + 1, k) \in Caches
  BY Bounds, SealedType DEF Gens
<1>3. b = listed \/ b = keyless \/ b = login \/ (g < MaxGen /\ b = withPin)
  BY DEF Boot, FirstLogin, FirstPin
<1>4. CASE b = listed
  BY <1>1, <1>4
<1>5. CASE b = keyless
  BY <1>1, <1>5
<1>6. CASE b = login
  BY <1>1, <1>6
<1>7. CASE g < MaxGen /\ b = withPin
  BY <1>1, <1>2, <1>7
<1>. QED
  BY <1>3, <1>4, <1>5, <1>6, <1>7

\* The rest of the loop, the server and the process's end.
LEMMA WorldType ==
    ASSUME TypeOK, CmdReplyOnly \/ OnRuntimeEvent \/ World
    PROVE  TypeOK'
<1>. USE ZeroTypes, IdleType, NoRequestType
<1>. USE DEF TypeOK, AgentType, ApprovalType, StoreType, CloudType, EventsType, TaskType,
             HistoryType, secrets, store, cloud, history
<1>1. ASSUME CmdReplyOnly PROVE TypeOK'
  BY <1>1 DEF CmdReplyOnly, vars
<1>2. ASSUME OnRuntimeEvent PROVE TypeOK'
  <2>1. main' \in MainRecords
    BY <1>2, BeginType DEF OnRuntimeEvent, MainPcs
  <2>2. events' \in Seq(Methods) /\ Len(events') <= EventCap
    BY <1>2, Bounds DEF OnRuntimeEvent
  <2>. QED
    BY <1>2, <2>1, <2>2 DEF OnRuntimeEvent
<1>3. ASSUME Watchdog PROVE TypeOK'
  BY <1>3 DEF Watchdog, Return, PendingLost
<1>4. ASSUME TransportExit PROVE TypeOK'
  BY <1>4 DEF TransportExit
<1>5. ASSUME Restart PROVE TypeOK'
  <2>1. PICK b \in Boot(disk, session, remote, made) :
          /\ vault_locked' = b.locked /\ keystore' = b.keystore
          /\ cached' = b.keys /\ fingerprints' = b.keys
          /\ lck' = b.lck /\ made' = b.made /\ disk' = b.disk /\ cache_data' = b.disk
          /\ session' = b.session /\ api' = b.api
          /\ hub' \in {FALSE, b.api = "login"}
    BY <1>5 DEF Restart
  <2>2. /\ b.locked \in BOOLEAN /\ b.keystore \in Keystores /\ b.keys \in KeySet
        /\ b.lck \in Gens /\ b.made \in Gens /\ b.disk \in Caches
        /\ b.session \in {"none", "bare", "pin"} /\ b.api \in {"none", "restored", "login"}
    BY BootType
  <2>3. AgentType' /\ StoreType'
    BY <1>5, <2>1, <2>2 DEF Restart
  <2>4. CloudType'
    BY <1>5, <2>1, <2>2 DEF Restart
  <2>5. NoApprovals \in [Items \X Ops -> Versions]
    BY DEF NoApprovals
  <2>6. ApprovalType' /\ HistoryType'
    BY <1>5, <2>1, <2>2, <2>5 DEF Restart
  <2>7. TaskType' /\ EventsType'
    BY <1>5, Bounds DEF Restart
  <2>. QED
    BY <2>3, <2>4, <2>6, <2>7
<1>6. ASSUME NEW i \in Items, RemoteChange(i) PROVE TypeOK'
  <2>1. remote' \in KeySet
    <3>1. remote[i] \in Versions
      BY DEF KeySet
    <3>2. PICK v \in Versions : remote' = [remote EXCEPT ![i] = v]
      <4>1. remote[i] < MaxVersion => remote[i] + 1 \in Versions
        BY <3>1, Bounds DEF Versions
      <4>. QED
        BY <1>6, <4>1 DEF RemoteChange
    <3>. QED
      BY <3>2 DEF KeySet
  <2>2. hubq' \in SUBSET {"CipherChanged", "LogOut", "FallbackSyncDue"}
    BY <1>6 DEF RemoteChange
  <2>. QED
    BY <1>6, <2>1, <2>2 DEF RemoteChange
<1>7. ASSUME NEW e \in HubEvents, HubEvent(e) PROVE TypeOK'
  <2>1. e \in {"CipherChanged", "LogOut", "FallbackSyncDue"}
    BY ConstantsAssumption
  <2>. QED
    BY <1>7, <2>1 DEF HubEvent
<1>. QED
  BY <1>1, <1>2, <1>3, <1>4, <1>5, <1>6, <1>7 DEF World

-----------------------------------------------------------------------------
\* A fresh process is well typed, whatever its files hold (run_foreground up to its loop).
LEMMA InitType == Init => TypeOK
<1>. SUFFICES ASSUME Init PROVE TypeOK
  OBVIOUS
<1>. USE ZeroTypes, IdleType, NoRequestType
<1>. USE DEF AgentType, ApprovalType, StoreType, CloudType, EventsType, TaskType, HistoryType
<1>1. remote \in KeySet /\ 1 \in Gens
  BY Bounds DEF Init, KeySet, Versions, Gens
<1>2. PICK d \in {Absent, Sealed(1, remote)}, x \in {"none", "pin"} :
       \E b \in Boot(d, x, remote, d.slot) :
          /\ vault_locked = b.locked /\ keystore = b.keystore
          /\ cached = b.keys /\ fingerprints = b.keys
          /\ lck = b.lck /\ made = b.made /\ disk = b.disk /\ cache_data = b.disk
          /\ session = b.session /\ api = b.api
          /\ hub \in {FALSE, b.api = "login"}
  BY DEF Init
<1>3. d \in Caches /\ d.slot \in Gens
  BY <1>1, AbsentType, SealedType, CacheFields
<1>4. PICK b \in Boot(d, x, remote, d.slot) :
          /\ vault_locked = b.locked /\ keystore = b.keystore
          /\ cached = b.keys /\ fingerprints = b.keys
          /\ lck = b.lck /\ made = b.made /\ disk = b.disk /\ cache_data = b.disk
          /\ session = b.session /\ api = b.api
          /\ hub \in {FALSE, b.api = "login"}
  BY <1>2
<1>5. /\ b.locked \in BOOLEAN /\ b.keystore \in Keystores /\ b.keys \in KeySet
      /\ b.lck \in Gens /\ b.made \in Gens /\ b.disk \in Caches
      /\ b.session \in {"none", "bare", "pin"} /\ b.api \in {"none", "restored", "login"}
  BY <1>1, <1>3, BootType
<1>6. AgentType /\ StoreType
  BY <1>4, <1>5 DEF Init
<1>7. CloudType
  BY <1>1, <1>4, <1>5 DEF Init
<1>8. NoApprovals \in [Items \X Ops -> Versions]
  BY DEF NoApprovals
<1>9. ApprovalType /\ HistoryType
  BY <1>4, <1>5, <1>8 DEF Init
<1>10. TaskType /\ EventsType
  BY Bounds DEF Init
<1>. QED
  BY <1>6, <1>7, <1>9, <1>10 DEF TypeOK

\* Every step of the daemon, its handlers and its world keeps the types.
LEMMA NextType == TypeOK /\ [Next]_vars => TypeOK'
<1>. SUFFICES ASSUME TypeOK, [Next]_vars PROVE TypeOK'
  OBVIOUS
<1>1. CASE UNCHANGED vars
  BY <1>1 DEF vars, TypeOK, AgentType, ApprovalType, StoreType, CloudType, EventsType,
              TaskType, HistoryType, secrets, store, cloud, history
<1>2. CASE MainStep
  BY <1>2, LockType, UnlockType, SyncType, LoginType, SetPinType, ForgetType DEF MainStep
<1>3. CASE Command
  BY <1>3, WorldType, LockType, UnlockType, SyncType, LoginType, SetPinType, ForgetType
     DEF Command
<1>4. CASE LoopArm
  BY <1>4, LockType, SyncType, WorldType DEF LoopArm
<1>5. CASE World
  BY <1>5, WorldType
<1>6. CASE \E r \in Requests : Spawn(r) \/ Handler(r) \/ Client(r)
  BY <1>6, HandlerType
<1>. QED
  BY <1>1, <1>2, <1>3, <1>4, <1>5, <1>6 DEF Next

\* Every variable keeps its type, and no handler ever puts more into the
\* runtime event channel than it holds (run_foreground, handle_ui_request).
THEOREM TypeCorrect == Spec => []TypeOK
BY InitType, NextType, PTL DEF Spec

-----------------------------------------------------------------------------
(* Approvals.                                                              *)

\* Handler r may still put its approval into the memory.
Remembering(u) == \/ u.pc \in {"lookup", "insert"}
                  \/ u.pc = "prompt" /\ u.remember

\* On a locked vault every approval still to be remembered is of a dialog that
\* was open at the lock: UiRecheck lets nobody through, and an auto-unlock's
\* dialog remembers nothing.
DialogsAreLate ==
    vault_locked => \A r \in Requests :
        Remembering(ui[r]) => <<ui[r].item, ui[r].op>> \in late
LateInv == DialogsAreLate /\ LockForgetsApprovals

\* Where the steps of a handler lead, as far as its approval goes.
LEMMA RememberingStep ==
    ASSUME TypeOK, NEW r \in Requests, Spawn(r) \/ Handler(r) \/ Client(r)
    PROVE  /\ \A q \in Requests \ {r} : ui'[q] = ui[q]
           /\ vault_locked /\ Remembering(ui'[r]) =>
                /\ Remembering(ui[r])
                /\ ui'[r].item = ui[r].item /\ ui'[r].op = ui[r].op
<1>0. ui \in [Requests -> UiRecords] /\ ui[r] \in UiRecords /\ NoRequest \in UiRecords
  BY NoRequestType DEF TypeOK, TaskType
<1>1. \A p : UiGoto(r, p) =>
         /\ ui' = [ui EXCEPT ![r] = [ui[r] EXCEPT !.pc = p]]
         /\ ui'[r].pc = p /\ ui'[r].remember = ui[r].remember
         /\ ui'[r].item = ui[r].item /\ ui'[r].op = ui[r].op
  BY <1>0 DEF UiGoto, UiRecords
<1>2. \A ok, by : Reply(r, ok, by) =>
         /\ \A q \in Requests \ {r} : ui'[q] = ui[q]
         /\ ui'[r].pc = "done"
  BY <1>0 DEF Reply, UiRecords
<1>3. Refuse(r) => (\A q \in Requests \ {r} : ui'[q] = ui[q]) /\ ui'[r].pc = "done"
  BY <1>2 DEF Refuse
<1>4. NextMethod(r) => /\ \A q \in Requests \ {r} : ui'[q] = ui[q]
                       /\ ui'[r].pc \in {"capture", "done"}
  BY <1>0, <1>3 DEF NextMethod, UiRecords
<1>5. \A b \in BOOLEAN : Authorize(r, b) =>
         /\ \A q \in Requests \ {r} : ui'[q] = ui[q]
         /\ \/ ui'[r].pc = "done"
            \/ /\ ui'[r].pc = "prompt" /\ ui'[r].remember = b
               /\ ui'[r].item = ui[r].item /\ ui'[r].op = ui[r].op
  <2>. SUFFICES ASSUME NEW b \in BOOLEAN, Authorize(r, b)
                PROVE  /\ \A q \in Requests \ {r} : ui'[q] = ui[q]
                       /\ \/ ui'[r].pc = "done"
                          \/ /\ ui'[r].pc = "prompt" /\ ui'[r].remember = b
                             /\ ui'[r].item = ui[r].item /\ ui'[r].op = ui[r].op
    OBVIOUS
  <2>. DEFINE u == [ui[r] EXCEPT !.pc = "prompt", !.remember = b, !.keys = NoKeys, !.gen = 0]
  <2>1. /\ u.pc = "prompt" /\ u.remember = b
        /\ u.item = ui[r].item /\ u.op = ui[r].op
    BY <1>0 DEF UiRecords
  <2>2. ui' = [ui EXCEPT ![r] = u] \/ Reply(r, TRUE, "never")
    BY DEF Authorize
  <2>3. CASE ui' = [ui EXCEPT ![r] = u]
    <3>1. ui'[r] = u /\ \A q \in Requests \ {r} : ui'[q] = ui[q]
      BY <1>0, <2>3
    <3>. QED
      BY <2>1, <3>1
  <2>4. CASE Reply(r, TRUE, "never")
    BY <1>2, <2>4
  <2>. QED
    BY <2>2, <2>3, <2>4
<1>. USE DEF Remembering, Ui
<1>6. CASE Spawn(r) \/ UiStart(r) \/ UiApply(r)
  BY <1>0, <1>1, <1>6 DEF Spawn, UiStart, UiApply
<1>7. CASE UiLck(r) \/ UiFlag(r)
  BY <1>0, <1>1, <1>7 DEF UiLck, UiFlag, UnlockOrder
<1>8. CASE UiLoad(r)
  BY <1>0, <1>1, <1>4, <1>8 DEF UiLoad, UnlockOrder
<1>9. CASE UiDecrypt(r)
  BY <1>0, <1>1, <1>4, <1>9 DEF UiDecrypt
<1>10. CASE UiCapture(r)
  BY <1>0, <1>3, <1>10 DEF UiCapture, UiRecords
<1>11. CASE UiSend(r)
  BY <1>5, <1>11 DEF UiSend
<1>12. CASE UiRecheck(r)
  BY <1>0, <1>1, <1>3, <1>12 DEF UiRecheck, LockedByNow
<1>13. CASE UiLookup(r)
  <2>1. Reply(r, TRUE, "memory") \/ Authorize(r, TRUE)
    BY <1>13 DEF UiLookup
  <2>. QED
    BY <1>2, <1>5, <1>13, <2>1 DEF UiLookup
<1>14. CASE UiPrompt(r)
  BY <1>0, <1>1, <1>2, <1>3, <1>14 DEF UiPrompt
<1>15. CASE UiInsert(r)
  BY <1>2, <1>15 DEF UiInsert
<1>16. CASE Again(r)
  BY <1>0, <1>16 DEF Again, NoRequest
<1>17. ASSUME NEW i \in Items, NEW o \in Ops, NEW f \in Forwarding, Arrive(r, i, o, f)
       PROVE  (\A q \in Requests \ {r} : ui'[q] = ui[q]) /\ ui'[r].pc = "sent"
  BY <1>0, <1>17 DEF Arrive, UiRecords
<1>. QED
  BY <1>6, <1>7, <1>8, <1>9, <1>10, <1>11, <1>12, <1>13, <1>14, <1>15, <1>16, <1>17
     DEF Handler, Client

\* A step that leaves the dialogs, the memory and their history alone, and does
\* not lock: only the end of lock_vault could disturb the invariant.
LEMMA LateFrame ==
    ASSUME LateInv, UNCHANGED <<ui, late>>, memory' \subseteq memory,
           vault_locked' => vault_locked, main.pc \notin LockPcs \/ main'.pc \in LockPcs
    PROVE  LateInv'
BY DEF LateInv, DialogsAreLate, LockForgetsApprovals

\* No step remembers, on a locked vault, an approval asked for after the lock.
LEMMA LateNext == TypeOK /\ LateInv /\ [Next]_vars => LateInv'
<1>. SUFFICES ASSUME TypeOK, LateInv, [Next]_vars PROVE LateInv'
  OBVIOUS
<1>. USE DEF history
<1>0. /\ \A p : Goto(p) => main'.pc = p
      /\ Return => main'.pc = "idle"
  BY DEF Goto, Return, Idle, TypeOK, TaskType, MainRecords
<1>1. CASE UNCHANGED vars
  BY <1>1, LateFrame DEF vars
<1>2. CASE LockSteps
  <2>1. CASE LockKeys
    <3>1. main.pc \notin LockPcs
      BY <2>1 DEF LockKeys, At, LockPcs
    <3>. QED
      BY <2>1, <3>1, LateFrame DEF LockKeys
  <2>2. CASE LockFlag
    <3>1. main'.pc \in LockPcs /\ ui' = ui /\ late' = OpenDialogs
      BY <1>0, <2>2 DEF LockFlag, LockPcs
    <3>2. DialogsAreLate'
      BY <3>1 DEF DialogsAreLate, Remembering, OpenDialogs
    <3>. QED
      BY <3>1, <3>2 DEF LateInv, LockForgetsApprovals
  <2>3. CASE LockCached \/ LockLck
    <3>1. main'.pc \in LockPcs
      BY <1>0, <2>3 DEF LockCached, LockLck, LockPcs
    <3>. QED
      BY <2>3, <3>1, LateFrame DEF LockCached, LockLck
  <2>4. CASE LockMemory
    BY <2>4 DEF LockMemory, LateInv, DialogsAreLate, LockForgetsApprovals
  <2>. QED
    BY <1>2, <2>1, <2>2, <2>3, <2>4 DEF LockSteps
<1>3. CASE UnlockSteps
  <2>1. main.pc \notin LockPcs
    BY <1>3 DEF UnlockSteps, UnlockAnswered, UnlockLck, UnlockCached, UnlockKeys, UnlockFlag,
                At, LockPcs
  <2>. QED
    BY <1>3, <2>1, LateFrame
       DEF UnlockSteps, UnlockAnswered, UnlockLck, UnlockCached, UnlockKeys, UnlockFlag
<1>4. CASE SyncSteps
  <2>1. main.pc \notin LockPcs
    BY <1>4 DEF SyncSteps, RestoreSession, ResolvePending, SyncNet, ReconcileMemory,
                ReconcileCached, ReconcileRefresh, ReconcileLck, SyncLoad, At, LockPcs
  <2>2. UNCHANGED <<ui, late, vault_locked>> /\ memory' \subseteq memory
    BY <1>4 DEF SyncSteps, RestoreSession, ResolvePending, SyncNet, ReconcileMemory,
                ReconcileCached, ReconcileRefresh, ReconcileLck, SyncLoad
  <2>. QED
    BY <2>1, <2>2, LateFrame
<1>5. CASE LoginSteps \/ SetPinSteps
  <2>1. main.pc \notin LockPcs
    BY <1>5 DEF LoginSteps, LoginNet, LoginLoad, LoginFlag, LoginSession,
                SetPinSteps, SetPinKey, SetPinWrite, SetPinLck, At, LockPcs
  <2>2. UNCHANGED <<ui, late, memory>> /\ (vault_locked' => vault_locked)
    BY <1>5 DEF LoginSteps, LoginNet, LoginLoad, LoginFlag, LoginSession,
                SetPinSteps, SetPinKey, SetPinWrite, SetPinLck
  <2>. QED
    BY <2>1, <2>2, LateFrame
<1>6. CASE ForgetSteps
  <2>1. CASE ForgetFlag
    <3>1. ui' = ui /\ late' = OpenDialogs \cup memory /\ memory' = memory
      BY <2>1 DEF ForgetFlag
    <3>2. DialogsAreLate'
      BY <3>1 DEF DialogsAreLate, Remembering, OpenDialogs
    <3>. QED
      BY <3>1, <3>2 DEF LateInv, LockForgetsApprovals
  <2>2. CASE \/ ForgetLck \/ ForgetMemory \/ ForgetCached \/ ForgetData \/ ForgetKeys
    <3>1. main.pc \notin LockPcs
      BY <2>2 DEF ForgetLck, ForgetMemory, ForgetCached, ForgetData, ForgetKeys, At, LockPcs
    <3>2. UNCHANGED <<ui, late, vault_locked>> /\ memory' \subseteq memory
      BY <2>2 DEF ForgetLck, ForgetMemory, ForgetCached, ForgetData, ForgetKeys
    <3>. QED
      BY <3>1, <3>2, LateFrame
  <2>. QED
    BY <1>6, <2>1, <2>2 DEF ForgetSteps
<1>7. CASE Command
  <2>1. main.pc \notin LockPcs
    BY <1>7 DEF Command, CmdReplyOnly, CmdLock, CmdSync, CmdLogin, CmdSetPin, CmdForget,
                CmdUnlock, Begin, At, LockPcs
  <2>2. UNCHANGED <<ui, late, vault_locked, memory>>
    BY <1>7 DEF Command, CmdReplyOnly, CmdLock, CmdSync, CmdLogin, CmdSetPin, CmdForget,
                CmdUnlock, vars
  <2>. QED
    BY <2>1, <2>2, LateFrame
<1>8. CASE LoopArm
  <2>1. main.pc \notin LockPcs
    BY <1>8 DEF LoopArm, OnLogOut, OnRuntimeEvent, AutoLock, TokenRefresh, OnSyncEvent,
                Begin, At, LockPcs
  <2>2. UNCHANGED <<ui, late, vault_locked, memory>>
    BY <1>8 DEF LoopArm, OnLogOut, OnRuntimeEvent, AutoLock, TokenRefresh, OnSyncEvent
  <2>. QED
    BY <2>1, <2>2, LateFrame
<1>9. CASE World
  <2>1. CASE Restart
    <3>1. memory' = {} /\ \A r \in Requests : ui'[r].pc = "none"
      BY <2>1 DEF Restart, NoRequest
    <3>. QED
      BY <3>1 DEF LateInv, DialogsAreLate, LockForgetsApprovals, Remembering
  <2>2. CASE Watchdog
    <3>1. main.pc \notin LockPcs
      BY <2>2 DEF Watchdog, At, LockPcs
    <3>. QED
      BY <2>2, <3>1, LateFrame DEF Watchdog
  <2>3. CASE \/ TransportExit \/ (\E i \in Items : RemoteChange(i))
             \/ (\E e \in HubEvents : HubEvent(e))
    BY <2>3, LateFrame DEF TransportExit, RemoteChange, HubEvent
  <2>. QED
    BY <1>9, <2>1, <2>2, <2>3 DEF World
<1>10. ASSUME NEW r \in Requests, Spawn(r) \/ Handler(r) \/ Client(r)
       PROVE  LateInv'
  <2>1. main' = main /\ late' = late
    BY <1>10 DEF Spawn, Handler, Client, UiStart, UiCapture, UiDecrypt, UiApply, UiLoad, UiLck,
                 UiFlag, UiSend, UiRecheck, UiLookup, UiPrompt, UiInsert, Again, Arrive
  <2>0. vault_locked' => vault_locked
    BY <1>10 DEF Spawn, Handler, Client, UiStart, UiCapture, UiDecrypt, UiApply, UiLoad, UiLck,
                 UiFlag, UiSend, UiRecheck, UiLookup, UiPrompt, UiInsert, Again, Arrive
  <2>2. DialogsAreLate'
    <3>. SUFFICES ASSUME vault_locked', NEW q \in Requests, Remembering(ui'[q])
                  PROVE  <<ui'[q].item, ui'[q].op>> \in late'
      BY DEF DialogsAreLate, Remembering
    <3>1. /\ Remembering(ui[q])
          /\ ui'[q].item = ui[q].item /\ ui'[q].op = ui[q].op
      BY <1>10, <2>0, RememberingStep
    <3>. QED
      BY <2>0, <2>1, <3>1 DEF LateInv, DialogsAreLate
  <2>3. memory' \subseteq memory \/ UiInsert(r)
    BY <1>10 DEF Spawn, Handler, Client, UiStart, UiCapture, UiDecrypt, UiApply, UiLoad, UiLck,
                 UiFlag, UiSend, UiRecheck, UiLookup, UiPrompt, Again, Arrive
  <2>4. CASE UiInsert(r)
    <3>1. memory' = memory \cup {<<ui[r].item, ui[r].op>>} /\ ui[r].pc = "insert"
      BY <2>4 DEF UiInsert, Ui
    <3>2. vault_locked => <<ui[r].item, ui[r].op>> \in late
      BY <3>1 DEF LateInv, DialogsAreLate, Remembering
    <3>. QED
      BY <2>0, <2>1, <2>2, <3>1, <3>2 DEF LateInv, LockForgetsApprovals
  <2>. QED
    BY <2>0, <2>1, <2>2, <2>3, <2>4 DEF LateInv, LockForgetsApprovals
<1>. QED
  BY <1>1, <1>2, <1>3, <1>4, <1>5, <1>6, <1>7, <1>8, <1>9, <1>10 DEF Next, MainStep

\* Whatever the handlers look up and insert meanwhile, a daemon that is locked
\* and not in the middle of lock_vault remembers no approval but those of the
\* dialogs that were open when it was locked (lock_vault, ui.rs).
THEOREM LockErasesApprovals == Spec => []LockForgetsApprovals
<1>1. Init => LateInv
  <2>. SUFFICES ASSUME Init PROVE LateInv
    OBVIOUS
  <2>1. memory = {} /\ \A r \in Requests : ui[r].pc = "none"
    BY DEF Init, NoRequest
  <2>. QED
    BY <2>1 DEF LateInv, DialogsAreLate, LockForgetsApprovals, Remembering
<1>2. LateInv => LockForgetsApprovals
  BY DEF LateInv
<1>. QED
  BY <1>1, <1>2, InitType, NextType, LateNext, PTL DEF Spec

\* What makes the answer of one request justified.
Justified(u) ==
    u.ok => \/ u.by = "prompt"
            \/ u.by = "memory" /\ ~u.fwd /\ PromptBehavior = "RememberUntilLock"
            \/ u.by = "never"  /\ ~u.fwd /\ PromptBehavior = "Never"

\* A step that replaces one handler's record by a justified one keeps all justified.
LEMMA OneRequestJustified ==
    ASSUME TypeOK, ApprovalJustified, NEW r \in Requests, NEW u, Justified(u),
           ui' = [ui EXCEPT ![r] = u]
    PROVE  ApprovalJustified'
BY DEF ApprovalJustified, Justified, TypeOK, TaskType

\* A handler that has not answered, or was refused, is justified whatever else changes.
LEMMA UnansweredJustified ==
    ASSUME TypeOK, NEW r \in Requests
    PROVE  /\ Justified(NoRequest)
           /\ \A i, o, f : Justified([NoRequest EXCEPT !.pc = "sent", !.item = i, !.op = o,
                                                       !.fwd = f])
BY DEF Justified, NoRequest

\* Moving a handler to another step approves nothing.
LEMMA GotoJustified ==
    ASSUME TypeOK, ApprovalJustified, NEW r \in Requests, NEW p, UiGoto(r, p)
    PROVE  ApprovalJustified'
<1>1. ui[r] \in UiRecords /\ Justified(ui[r])
  BY DEF TypeOK, TaskType, ApprovalJustified, Justified
<1>2. Justified([ui[r] EXCEPT !.pc = p])
  BY <1>1 DEF Justified, UiRecords
<1>3. ui' = [ui EXCEPT ![r] = [ui[r] EXCEPT !.pc = p]]
  BY DEF UiGoto
<1>. QED
  BY <1>2, <1>3, OneRequestJustified

\* The four kinds of answer.
LEMMA ReplyJustified ==
    ASSUME TypeOK, ApprovalJustified, NEW r \in Requests, NEW ok, NEW by, Reply(r, ok, by),
           \/ ok = FALSE
           \/ by = "prompt"
           \/ by = "memory" /\ ~ui[r].fwd /\ PromptBehavior = "RememberUntilLock"
           \/ by = "never"  /\ ~ui[r].fwd /\ PromptBehavior = "Never"
    PROVE  ApprovalJustified'
<1>. DEFINE u == [NoRequest EXCEPT !.pc = "done", !.item = ui[r].item, !.op = ui[r].op,
                                   !.fwd = ui[r].fwd, !.ok = ok, !.by = by]
<1>1. u.ok = ok /\ u.by = by /\ u.fwd = ui[r].fwd
  BY DEF NoRequest
<1>2. Justified(u)
  BY <1>1 DEF Justified
<1>3. ui' = [ui EXCEPT ![r] = u]
  BY DEF Reply
<1>. QED
  BY <1>2, <1>3, OneRequestJustified

\* A refusal approves nothing.
LEMMA RefuseJustified ==
    ASSUME TypeOK, ApprovalJustified, NEW r \in Requests, Refuse(r)
    PROVE  ApprovalJustified'
BY ReplyJustified DEF Refuse

\* Authorize answers without a prompt only when NeedsPrompt says so.
LEMMA AuthorizeJustified ==
    ASSUME TypeOK, ApprovalJustified, NEW r \in Requests, NEW b, Authorize(r, b)
    PROVE  ApprovalJustified'
<1>1. ui[r] \in UiRecords /\ Justified(ui[r])
  BY DEF TypeOK, TaskType, ApprovalJustified, Justified
<1>2. CASE NeedsPrompt(ui[r].fwd)
  <2>. DEFINE u == [ui[r] EXCEPT !.pc = "prompt", !.remember = b, !.keys = NoKeys, !.gen = 0]
  <2>1. Justified(u)
    BY <1>1 DEF Justified, UiRecords
  <2>2. ui' = [ui EXCEPT ![r] = u]
    BY <1>2 DEF Authorize
  <2>. QED
    BY <2>1, <2>2, OneRequestJustified
<1>3. CASE ~NeedsPrompt(ui[r].fwd)
  <2>1. Reply(r, TRUE, "never") /\ ~ui[r].fwd /\ PromptBehavior = "Never"
    BY <1>3 DEF Authorize, NeedsPrompt
  <2>. QED
    BY <2>1, ReplyJustified
<1>. QED
  BY <1>2, <1>3

\* Falling back to the next unlock method approves nothing.
LEMMA NextMethodJustified ==
    ASSUME TypeOK, ApprovalJustified, NEW r \in Requests, NextMethod(r)
    PROVE  ApprovalJustified'
<1>1. ui[r] \in UiRecords /\ Justified(ui[r])
  BY DEF TypeOK, TaskType, ApprovalJustified, Justified
<1>. DEFINE u == [ui[r] EXCEPT !.pc = "capture", !.method = "pin", !.keys = NoKeys, !.gen = 0]
<1>2. Justified(u)
  BY <1>1 DEF Justified, UiRecords
<1>3. ui' = [ui EXCEPT ![r] = u] \/ Refuse(r)
  BY DEF NextMethod
<1>. QED
  BY <1>2, <1>3, OneRequestJustified, RefuseJustified

\* No step of the daemon approves a request without cause.
LEMMA JustifiedNext == TypeOK /\ ApprovalJustified /\ [Next]_vars => ApprovalJustified'
<1>. SUFFICES ASSUME TypeOK, ApprovalJustified, [Next]_vars PROVE ApprovalJustified'
  OBVIOUS
<1>1. ASSUME ui' = ui PROVE ApprovalJustified'
  BY <1>1 DEF ApprovalJustified
<1>2. CASE UNCHANGED vars
  BY <1>1, <1>2 DEF vars
<1>3. CASE LockSteps \/ UnlockSteps
  BY <1>1, <1>3 DEF LockSteps, LockKeys, LockFlag, LockCached, LockLck, LockMemory,
     UnlockSteps, UnlockAnswered, UnlockLck, UnlockCached, UnlockKeys, UnlockFlag
<1>4. CASE SyncSteps
  BY <1>1, <1>4 DEF SyncSteps, RestoreSession, ResolvePending, SyncNet, ReconcileMemory,
     ReconcileCached, ReconcileRefresh, ReconcileLck, SyncLoad
<1>5. CASE LoginSteps \/ SetPinSteps \/ ForgetSteps
  BY <1>1, <1>5 DEF LoginSteps, LoginNet, LoginLoad, LoginFlag, LoginSession,
     SetPinSteps, SetPinKey, SetPinWrite, SetPinLck,
     ForgetSteps, ForgetLck, ForgetMemory, ForgetCached, ForgetFlag, ForgetData, ForgetKeys
<1>6. CASE Command \/ LoopArm
  BY <1>1, <1>6 DEF Command, CmdReplyOnly, CmdLock, CmdSync, CmdLogin, CmdSetPin, CmdForget,
     CmdUnlock, LoopArm, OnLogOut, OnRuntimeEvent, AutoLock, TokenRefresh, OnSyncEvent, vars
<1>7. CASE World
  <2>1. CASE Restart
    BY <2>1 DEF Restart, NoRequest, ApprovalJustified
  <2>. QED
    BY <1>1, <1>7, <2>1 DEF World, Watchdog, TransportExit, RemoteChange, HubEvent
<1>8. ASSUME NEW r \in Requests, Spawn(r) \/ Handler(r) \/ Client(r)
      PROVE  ApprovalJustified'
  <2>1. ui[r] \in UiRecords /\ Justified(ui[r])
    BY DEF TypeOK, TaskType, ApprovalJustified, Justified
  <2>2. CASE \/ Spawn(r) \/ UiStart(r) \/ UiApply(r) \/ UiLck(r) \/ UiFlag(r)
    BY <2>2, GotoJustified DEF Spawn, UiStart, UiApply, UiLck, UiFlag
  <2>3. CASE UiDecrypt(r) \/ UiLoad(r)
    BY <2>3, GotoJustified, NextMethodJustified DEF UiDecrypt, UiLoad
  <2>4. CASE UiRecheck(r)
    BY <2>4, GotoJustified, RefuseJustified DEF UiRecheck
  <2>5. CASE UiCapture(r)
    <3>. DEFINE u == [ui[r] EXCEPT !.pc = "decrypt", !.keys = cache_data.keys,
                                   !.gen = UsableKey(cache_data)]
                v == [ui[r] EXCEPT !.method = "pin"]
    <3>1. Justified(u) /\ Justified(v)
      BY <2>1 DEF Justified, UiRecords
    <3>2. ui' = [ui EXCEPT ![r] = u] \/ ui' = [ui EXCEPT ![r] = v] \/ Refuse(r)
      BY <2>5 DEF UiCapture
    <3>. QED
      BY <3>1, <3>2, OneRequestJustified, RefuseJustified
  <2>6. CASE UiSend(r)
    BY <2>6, AuthorizeJustified DEF UiSend
  <2>7. CASE UiLookup(r)
    <3>1. \/ Authorize(r, TRUE)
          \/ Reply(r, TRUE, "memory") /\ ~ui[r].fwd /\ PromptBehavior = "RememberUntilLock"
      BY <2>7 DEF UiLookup, UsesMemory
    <3>. QED
      BY <3>1, ReplyJustified, AuthorizeJustified
  <2>8. CASE UiPrompt(r)
    <3>1. Refuse(r) \/ UiGoto(r, "insert") \/ Reply(r, TRUE, "prompt")
      BY <2>8 DEF UiPrompt
    <3>. QED
      BY <3>1, RefuseJustified, GotoJustified, ReplyJustified
  <2>9. CASE UiInsert(r)
    BY <2>9, ReplyJustified DEF UiInsert
  <2>10. CASE Client(r)
    <3>1. PICK u : Justified(u) /\ ui' = [ui EXCEPT ![r] = u]
      BY <2>10, UnansweredJustified DEF Client, Again, Arrive
    <3>. QED
      BY <3>1, OneRequestJustified
  <2>. QED
    BY <1>8, <2>2, <2>3, <2>4, <2>5, <2>6, <2>7, <2>8, <2>9, <2>10 DEF Handler
<1>. QED
  BY <1>2, <1>3, <1>4, <1>5, <1>6, <1>7, <1>8 DEF Next, MainStep

\* No request is ever approved without the user's word for it, a remembered
\* approval or a configuration that never asks, and a forwarded one only by the
\* user's word (handle_ui_request).
THEOREM ApprovalsJustified == Spec => []ApprovalJustified
<1>1. Init => ApprovalJustified
  BY DEF Init, NoRequest, ApprovalJustified
<1>. QED
  BY <1>1, InitType, NextType, JustifiedNext, PTL DEF Spec
=============================================================================
