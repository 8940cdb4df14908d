-------------------------- MODULE VaultSecretsProofs --------------------------
(***************************************************************************)
(* What the daemon's files, its memory and its agent have to do with each  *)
(* other, for every set of items, operations and requests.  A theorem that *)
(* needs an assumption on the configuration names it; TLC has a            *)
(* counterexample without it.                                              *)
(***************************************************************************)
EXTENDS VaultDaemonProofs

SyncPcs   == {"s_net", "r_memory", "r_cached", "r_refresh", "r_blocked", "r_lck", "load"}
ForgetPcs == {"f_lck", "f_memory", "f_cached", "f_flag", "f_data", "f_keys"}

-----------------------------------------------------------------------------
(* What the steps do, in the form the invariants below need it.            *)

\* Moving on, returning and starting change the main loop's record like this.
LEMMA MainMoves ==
    ASSUME TypeOK
    PROVE  /\ \A p : Goto(p) => /\ main'.pc = p /\ main'.cont = main.cont
                                /\ main'.keys = main.keys /\ main'.gen = main.gen
                                /\ main'.guard = main.guard /\ main'.ctl = main.ctl
           /\ Return => main' = Idle
           /\ Idle.pc = "idle" /\ Idle.cont = "none" /\ ~Idle.guard
           /\ \A p, c : Begin(p, c) => /\ main.pc = "idle" /\ main'.pc = p
                                       /\ main'.cont = "none" /\ ~main'.guard
BY DEF TypeOK, TaskType, MainRecords, Goto, Return, Begin, Idle, At

\* The main loop, the commands and the timers leave the handlers alone, and so
\* does the world but for a restart.
LEMMA HandlersKept ==
    ASSUME MainStep \/ Command \/ LoopArm \/ (World /\ ~Restart)
    PROVE  ui' = ui
<1>1. CASE LockSteps \/ UnlockSteps
  BY <1>1 DEF LockSteps, LockKeys, LockFlag, LockCached, LockLck, LockMemory,
     UnlockSteps, UnlockAnswered, UnlockLck, UnlockCached, UnlockKeys, UnlockFlag
<1>2. CASE SyncSteps
  BY <1>2 DEF SyncSteps, RestoreSession, ResolvePending, SyncNet, ReconcileMemory,
     ReconcileCached, ReconcileRefresh, ReconcileLck, SyncLoad
<1>3. CASE LoginSteps \/ SetPinSteps \/ ForgetSteps
  BY <1>3 DEF LoginSteps, LoginNet, LoginLoad, LoginFlag, LoginSession,
     SetPinSteps, SetPinKey, SetPinWrite, SetPinLck,
     ForgetSteps, ForgetLck, ForgetMemory, ForgetCached, ForgetFlag, ForgetData, ForgetKeys
<1>4. CASE Command \/ LoopArm
  BY <1>4 DEF Command, CmdReplyOnly, CmdLock, CmdSync, CmdLogin, CmdSetPin, CmdForget,
     CmdUnlock, LoopArm, OnLogOut, OnRuntimeEvent, AutoLock, TokenRefresh, OnSyncEvent, vars
<1>5. CASE World /\ ~Restart
  BY <1>5 DEF World, Watchdog, TransportExit, RemoteChange, HubEvent
<1>. QED
  BY <1>1, <1>2, <1>3, <1>4, <1>5 DEF MainStep

\* The steps of handler r that touch none of the shared cells.
QuietMove(r) ==
    LET from == ui[r].pc  to == ui'[r].pc IN
    /\ UNCHANGED <<vault_locked, secrets, memory, approved, events>>
    /\ \/ from = "none" /\ to = "sent"
       \/ from = "sent" /\ to = "start" /\ main.pc = "idle"
       \/ from = "start" /\ to = "capture" /\ vault_locked /\ AutoUnlock
       \/ from = "start" /\ to = "recheck"
       \/ from = "capture" /\ to = "decrypt" /\ Present(cache_data)
          /\ ui'[r].gen = UsableKey(cache_data)
       \/ from = "capture" /\ to \in {"capture", "done"}
       \/ from = "decrypt" /\ to = "apply" /\ ui'[r].gen = ui[r].gen
       \/ from = "decrypt" /\ to \in {"capture", "done"}
       \/ from = "load" /\ to \in {"capture", "done"} /\ ~is_running
       \/ from = "recheck" /\ to = "lookup" /\ ~vault_locked
       \/ from = "recheck" /\ to = "done"
       \/ from = "lookup" /\ to \in {"prompt", "done"}
       \/ from = "prompt" /\ to \in {"insert", "done"}
       \/ from = "done" /\ to = "none"

\* The ones that do.
LoudMove(r) ==
    LET from == ui[r].pc  to == ui'[r].pc IN
    \/ /\ from = "apply" /\ to = "load" /\ ui'[r].gen = ui[r].gen
       /\ cached' = ui[r].keys
       /\ UNCHANGED <<vault_locked, keystore, lck, memory, approved, events>>
    \/ /\ from = "load" /\ to = "lck" /\ ui'[r].gen = ui[r].gen
       /\ keystore' = Private(ui[r].keys)
       /\ UNCHANGED <<vault_locked, cached, lck, memory, approved, events>>
    \/ /\ from = "lck" /\ to = "flag"
       /\ lck' = ui[r].gen
       /\ UNCHANGED <<vault_locked, keystore, cached, memory, approved, events>>
    \/ /\ from = "flag" /\ to = "send"
       /\ vault_locked' = FALSE
       /\ UNCHANGED <<secrets, memory, approved, events>>
    \/ /\ from = "send" /\ to \in {"prompt", "done"}
       /\ UNCHANGED <<vault_locked, secrets, memory, approved>>
    \/ /\ from = "insert" /\ to = "done"
       /\ memory' = memory \cup {<<ui[r].item, ui[r].op>>}
       /\ approved' = [approved EXCEPT ![<<ui[r].item, ui[r].op>>]
                                         = IF Settled(ui[r].item) THEN keystore[ui[r].item].ver
                                                                  ELSE 0]
       /\ UNCHANGED <<vault_locked, secrets, events>>

HandlerFrame(r) ==
    /\ UNCHANGED <<main, is_running, fingerprints, store, cloud, pending_sync, due, forgotten>>
    /\ \A q \in Requests \ {r} : ui'[q] = ui[q]

\* Where an answer and a fallback leave the handler.
LEMMA UiEnds ==
    ASSUME TypeOK, NEW r \in Requests
    PROVE  /\ \A p : UiGoto(r, p) => /\ ui'[r].pc = p /\ ui'[r].gen = ui[r].gen
                                     /\ \A q \in Requests \ {r} : ui'[q] = ui[q]
           /\ \A ok, by : Reply(r, ok, by) => /\ ui'[r].pc = "done"
                                              /\ \A q \in Requests \ {r} : ui'[q] = ui[q]
           /\ Refuse(r) => ui'[r].pc = "done" /\ \A q \in Requests \ {r} : ui'[q] = ui[q]
           /\ NextMethod(r) => /\ ui'[r].pc \in {"capture", "done"}
                               /\ \A q \in Requests \ {r} : ui'[q] = ui[q]
           /\ \A b : Authorize(r, b) => /\ ui'[r].pc \in {"prompt", "done"}
                                        /\ \A q \in Requests \ {r} : ui'[q] = ui[q]
<1>0. ui \in [Requests -> UiRecords] /\ ui[r] \in UiRecords
  BY DEF TypeOK, TaskType
<1>1. ASSUME NEW p, UiGoto(r, p)
      PROVE  /\ ui'[r].pc = p /\ ui'[r].gen = ui[r].gen
             /\ \A q \in Requests \ {r} : ui'[q] = ui[q]
  BY <1>0, <1>1 DEF UiGoto, UiRecords
<1>2. ASSUME NEW ok, NEW by, Reply(r, ok, by)
      PROVE  ui'[r].pc = "done" /\ \A q \in Requests \ {r} : ui'[q] = ui[q]
  BY <1>0, <1>2 DEF Reply, NoRequest
<1>3. Refuse(r) => ui'[r].pc = "done" /\ \A q \in Requests \ {r} : ui'[q] = ui[q]
  BY <1>2 DEF Refuse
<1>4. NextMethod(r) => /\ ui'[r].pc \in {"capture", "done"}
                       /\ \A q \in Requests \ {r} : ui'[q] = ui[q]
  BY <1>0, <1>3 DEF NextMethod, UiRecords
<1>5. ASSUME NEW b, Authorize(r, b)
      PROVE  ui'[r].pc \in {"prompt", "done"} /\ \A q \in Requests \ {r} : ui'[q] = ui[q]
  <2>1. CASE NeedsPrompt(ui[r].fwd)
    BY <1>0, <1>5, <2>1 DEF Authorize, UiRecords
  <2>2. CASE ~NeedsPrompt(ui[r].fwd)
    BY <1>2, <1>5, <2>2 DEF Authorize
  <2>. QED
    BY <2>1, <2>2
<1>. QED
  BY <1>1, <1>2, <1>3, <1>4, <1>5

LEMMA HandlerMoves ==
    ASSUME TypeOK, NEW r \in Requests, Spawn(r) \/ Handler(r) \/ Client(r)
    PROVE  HandlerFrame(r) /\ (QuietMove(r) \/ LoudMove(r))
<1>. USE DEF Ui, history, HandlerFrame
<1>0. ui \in [Requests -> UiRecords] /\ ui[r] \in UiRecords
  BY DEF TypeOK, TaskType
<1>1. CASE Spawn(r)
  BY <1>1, UiEnds DEF Spawn, At, QuietMove
<1>2. CASE UiStart(r)
  BY <1>2, UiEnds DEF UiStart, QuietMove
<1>3. CASE UiCapture(r)
  <2>1. CASE Present(cache_data)
    BY <1>0, <1>3, <2>1 DEF UiCapture, QuietMove, UiRecords
  <2>2. CASE ~Present(cache_data) /\ ui[r].method = "native"
    BY <1>0, <1>3, <2>2 DEF UiCapture, QuietMove, UiRecords
  <2>3. CASE ~Present(cache_data) /\ ui[r].method # "native"
    BY <1>3, <2>3, UiEnds DEF UiCapture, QuietMove
  <2>. QED
    BY <2>1, <2>2, <2>3
<1>4. CASE UiDecrypt(r)
  BY <1>4, UiEnds DEF UiDecrypt, QuietMove
<1>5. CASE UiApply(r)
  BY <1>5, UiEnds DEF UiApply, LoudMove
<1>6. CASE UiLoad(r)
  <2>1. UnlockOrder("load") = "lck"
    BY DEF UnlockOrder
  <2>. QED
    BY <1>6, <2>1, UiEnds DEF UiLoad, LoudMove, QuietMove, secrets
<1>7. CASE UiLck(r)
  <2>1. UnlockOrder("lck") = "flag"
    BY DEF UnlockOrder
  <2>. QED
    BY <1>7, <2>1, UiEnds DEF UiLck, LoudMove
<1>8. CASE UiFlag(r)
  <2>1. UnlockOrder("flag") = "send"
    BY DEF UnlockOrder
  <2>. QED
    BY <1>8, <2>1, UiEnds DEF UiFlag, LoudMove
<1>9. CASE UiSend(r)
  BY <1>9, UiEnds DEF UiSend, LoudMove
<1>10. CASE UiRecheck(r)
  BY <1>10, UiEnds DEF UiRecheck, LockedByNow, QuietMove
<1>11. CASE UiLookup(r)
  BY <1>11, UiEnds DEF UiLookup, QuietMove
<1>12. CASE UiPrompt(r)
  BY <1>12, UiEnds DEF UiPrompt, QuietMove
<1>13. CASE UiInsert(r)
  BY <1>13, UiEnds DEF UiInsert, LoudMove, At
<1>14. CASE Client(r)
  <2>1. CASE Again(r)
    BY <1>0, <2>1 DEF Again, QuietMove, NoRequest
  <2>2. ASSUME NEW i \in Items, NEW o \in Ops, NEW f \in Forwarding, Arrive(r, i, o, f)
        PROVE  HandlerFrame(r) /\ QuietMove(r)
    BY <1>0, <2>2 DEF Arrive, QuietMove, NoRequest
  <2>. QED
    BY <1>14, <2>1, <2>2 DEF Client
<1>. QED
  BY <1>1, <1>2, <1>3, <1>4, <1>5, <1>6, <1>7, <1>8, <1>9, <1>10, <1>11, <1>12, <1>13, <1>14
     DEF Handler

-----------------------------------------------------------------------------
(* Forget.                                                                 *)

\* What a forget has cleared so far, by its next step; the rest of the time all
\* of it, with a vault that is locked for good.
ForgetCleared ==
    /\ disk = Absent /\ session = "none"
    /\ main.pc # "f_lck" => lck = 0
    /\ main.pc \notin {"f_lck", "f_memory"} => memory = {}
    /\ main.pc \notin {"f_lck", "f_memory", "f_cached"} =>
         cached = NoKeys /\ api = "none" /\ ~pending_sync /\ ~hub /\ hubq = {}
    /\ main.pc \notin {"f_lck", "f_memory", "f_cached", "f_flag"} => vault_locked
    /\ main.pc \notin ForgetPcs \ {"f_keys"} => cache_data = Absent
    /\ main.pc \notin ForgetPcs => keystore = Public(NoKeys)

\* All that the loop does then: it lets a stale runtime event or a sync fail.
ForgetLoop == \/ main.pc \in ForgetPcs \cup {"idle", "restore", "resolve"}
              \/ main.pc = "s_net" /\ main.cont = "cmd"

\* No handler is at work while a forget is, and later ones are refused.
ForgetHandlers ==
    \A r \in Requests :
        \/ ui[r].pc \in {"none", "sent", "done"}
        \/ main.pc \notin ForgetPcs /\ ui[r].pc \in {"start", "capture", "recheck"}

ForgetInv == forgotten = "quiet" => ForgetCleared /\ ForgetLoop /\ ForgetHandlers

LEMMA ForgetMainStep == ASSUME TypeOK, ForgetInv, MainStep PROVE ForgetInv'
<1>. USE MainMoves
<1>. USE DEF At, secrets, store, cloud, history
<1>0. ui' = ui
  BY HandlersKept
<1>1. CASE LockSteps \/ UnlockSteps
  <2>1. forgotten' = forgotten /\ ~ForgetLoop
    BY <1>1 DEF LockSteps, LockKeys, LockFlag, LockCached, LockLck, LockMemory,
       UnlockSteps, UnlockAnswered, UnlockLck, UnlockCached, UnlockKeys, UnlockFlag,
       ForgetLoop, ForgetPcs
  <2>. QED
    BY <2>1 DEF ForgetInv
<1>2. CASE LoginSteps \/ SetPinSteps
  <2>1. forgotten' = forgotten /\ ~ForgetLoop
    BY <1>2 DEF LoginSteps, LoginNet, LoginLoad, LoginFlag, LoginSession,
       SetPinSteps, SetPinKey, SetPinWrite, SetPinLck, ForgetLoop, ForgetPcs
  <2>. QED
    BY <2>1 DEF ForgetInv
<1>3. CASE SyncSteps
  <2>1. forgotten' = forgotten
    BY <1>3 DEF SyncSteps, RestoreSession, ResolvePending, SyncNet, ReconcileMemory,
       ReconcileCached, ReconcileRefresh, ReconcileLck, SyncLoad
  <2>. SUFFICES ASSUME forgotten = "quiet" PROVE ForgetInv'
    BY <2>1 DEF ForgetInv
  <2>2. ForgetCleared /\ ForgetLoop /\ ForgetHandlers
    BY DEF ForgetInv
  <2>3. RestoreSession \/ ResolvePending \/ SyncNet
    BY <1>3, <2>2 DEF SyncSteps, ReconcileMemory, ReconcileCached, ReconcileRefresh,
       ReconcileLck, SyncLoad, ForgetLoop, ForgetPcs
  <2>4. main.pc \notin ForgetPcs /\ main'.pc \in {"idle", "resolve"}
    BY <2>2, <2>3 DEF RestoreSession, ResolvePending, SyncNet, ForgetCleared, ForgetPcs,
       HasUserKey
  <2>5. /\ UNCHANGED <<disk, session, lck, memory, cached, api, hub, hubq, vault_locked,
                       cache_data, keystore>>
        /\ ~pending_sync'
    BY <2>2, <2>3, <2>4 DEF RestoreSession, ResolvePending, SyncNet, ForgetCleared, ForgetPcs,
       ForgetLoop, Restorable, PendingAfterFailure
  <2>6. ForgetCleared'
    BY <2>2, <2>4, <2>5 DEF ForgetCleared, ForgetPcs
  <2>7. ForgetHandlers'
    BY <1>0, <2>2, <2>4 DEF ForgetHandlers, ForgetPcs
  <2>. QED
    BY <2>4, <2>6, <2>7 DEF ForgetInv, ForgetLoop
<1>4. CASE ForgetSteps
  <2>1. forgotten' = forgotten
    BY <1>4 DEF ForgetSteps, ForgetLck, ForgetMemory, ForgetCached, ForgetFlag, ForgetData,
       ForgetKeys
  <2>. SUFFICES ASSUME forgotten = "quiet" PROVE ForgetInv'
    BY <2>1 DEF ForgetInv
  <2>2. ForgetCleared /\ ForgetHandlers
    BY DEF ForgetInv
  <2>3. main.pc \in ForgetPcs /\ main'.pc \in ForgetPcs \cup {"idle"}
    BY <1>4 DEF ForgetSteps, ForgetLck, ForgetMemory, ForgetCached, ForgetFlag, ForgetData,
       ForgetKeys, ForgetPcs
  <2>4. ForgetHandlers'
    BY <1>0, <2>2, <2>3 DEF ForgetHandlers
  <2>5. ForgetCleared'
    BY <1>4, <2>2 DEF ForgetSteps, ForgetLck, ForgetMemory, ForgetCached, ForgetFlag, ForgetData,
       ForgetKeys, ApiAfterForget, ForgetCleared, ForgetPcs
  <2>. QED
    BY <2>3, <2>4, <2>5 DEF ForgetInv, ForgetLoop
<1>. QED
  BY <1>1, <1>2, <1>3, <1>4 DEF MainStep

LEMMA ForgetCommand == ASSUME TypeOK, ForgetInv, Command \/ LoopArm PROVE ForgetInv'
<1>. USE MainMoves
<1>. USE DEF At, secrets, store, cloud, history
<1>0. ui' = ui
  BY HandlersKept
<1>1. CASE CmdLogin
  BY <1>1 DEF CmdLogin, ForgetInv
<1>2. CASE CmdForget
  <2>. SUFFICES ASSUME forgotten' = "quiet" PROVE ForgetInv'
    BY DEF ForgetInv
  <2>1. /\ main'.pc = "f_lck" /\ disk' = Absent /\ session' = "none" /\ InFlight = {}
    BY <1>2 DEF CmdForget
  <2>2. ForgetHandlers'
    BY <1>0, <2>1 DEF ForgetHandlers, InFlight
  <2>. QED
    BY <2>1, <2>2 DEF ForgetInv, ForgetCleared, ForgetLoop, ForgetPcs
<1>3. CASE ~CmdLogin /\ ~CmdForget
  <2>1. forgotten' = forgotten /\ main.pc = "idle"
    BY <1>3 DEF Command, CmdReplyOnly, CmdLock, CmdSync, CmdSetPin, CmdUnlock, Begin,
       LoopArm, OnLogOut, OnRuntimeEvent, AutoLock, TokenRefresh, OnSyncEvent, vars
  <2>. SUFFICES ASSUME forgotten = "quiet" PROVE ForgetInv'
    BY <2>1 DEF ForgetInv
  <2>2. /\ ForgetCleared /\ ForgetHandlers
        /\ vault_locked /\ hubq = {} /\ api = "none" /\ cached = NoKeys /\ cache_data = Absent
    BY <2>1 DEF ForgetInv, ForgetCleared, ForgetPcs
  <2>3. CmdReplyOnly \/ CmdSync \/ OnRuntimeEvent
    BY <1>3, <2>2 DEF Command, CmdLock, CmdSetPin, CmdUnlock, LoopArm, OnLogOut, AutoLock,
       TokenRefresh, Renewable, OnSyncEvent, Present, Absent
  <2>4. /\ main'.pc \in {"idle", "restore", "resolve"} \/ (main'.pc = "s_net" /\ main'.cont = "cmd")
        /\ UNCHANGED <<disk, session, lck, memory, cached, api, pending_sync, hub, hubq,
                       vault_locked, cache_data, keystore>>
    BY <2>1, <2>3 DEF CmdReplyOnly, CmdSync, OnRuntimeEvent, vars, Idle
  <2>5. ForgetCleared'
    BY <2>1, <2>2, <2>4 DEF ForgetCleared, ForgetPcs
  <2>6. ForgetHandlers'
    BY <1>0, <2>2, <2>4 DEF ForgetHandlers, ForgetPcs
  <2>. QED
    BY <2>4, <2>5, <2>6 DEF ForgetInv, ForgetLoop
<1>. QED
  BY <1>1, <1>2, <1>3

LEMMA ForgetWorld == ASSUME TypeOK, ForgetInv, World PROVE ForgetInv'
<1>. USE MainMoves
<1>. USE DEF At, secrets, store, cloud, history
<1>1. CASE Restart
  BY <1>1 DEF Restart, ForgetInv
<1>2. CASE Watchdog
  <2>1. main'.pc = "idle" /\ main.pc \notin ForgetPcs /\ ui' = ui
    BY <1>2 DEF Watchdog, ForgetPcs
  <2>. QED
    BY <1>2, <2>1 DEF Watchdog, ForgetInv, ForgetCleared, ForgetLoop, ForgetHandlers, ForgetPcs
<1>3. CASE TransportExit \/ (\E i \in Items : RemoteChange(i)) \/ (\E e \in HubEvents : HubEvent(e))
  <2>1. /\ UNCHANGED <<disk, session, lck, memory, cached, api, pending_sync, hub,
                       vault_locked, cache_data, keystore, main, ui, forgotten>>
        /\ ~hub => hubq' = hubq
    BY <1>3 DEF TransportExit, RemoteChange, HubEvent
  <2>. QED
    BY <2>1 DEF ForgetInv, ForgetCleared, ForgetLoop, ForgetHandlers
<1>. QED
  BY <1>1, <1>2, <1>3 DEF World

LEMMA ForgetHandler ==
    ASSUME TypeOK, ForgetInv, NEW r \in Requests, Spawn(r) \/ Handler(r) \/ Client(r)
    PROVE  ForgetInv'
<1>. USE DEF secrets, store, cloud
<1>1. HandlerFrame(r) /\ (QuietMove(r) \/ LoudMove(r))
  BY HandlerMoves
<1>. SUFFICES ASSUME forgotten = "quiet" PROVE ForgetInv'
  BY <1>1 DEF HandlerFrame, ForgetInv
<1>2. ForgetCleared /\ ForgetLoop /\ ForgetHandlers
  BY DEF ForgetInv
<1>3. QuietMove(r)
  BY <1>1, <1>2 DEF LoudMove, ForgetHandlers
<1>4. /\ ui'[r].pc \in {"none", "sent", "done"}
         \/ (main.pc \notin ForgetPcs /\ ui'[r].pc \in {"start", "capture", "recheck"})
  <2>1. ui[r].pc \in {"none", "sent", "done"}
         \/ (main.pc \notin ForgetPcs /\ ui[r].pc \in {"start", "capture", "recheck"})
    BY <1>2 DEF ForgetHandlers
  <2>2. main.pc \notin ForgetPcs => vault_locked /\ ~Present(cache_data)
    BY <1>2 DEF ForgetCleared, ForgetPcs, Present, Absent
  <2>. QED
    BY <1>3, <2>1, <2>2 DEF QuietMove, ForgetPcs
<1>5. ForgetHandlers'
  BY <1>1, <1>2, <1>4 DEF HandlerFrame, ForgetHandlers
<1>6. ForgetCleared' /\ ForgetLoop'
  BY <1>1, <1>2, <1>3 DEF HandlerFrame, QuietMove, ForgetCleared, ForgetLoop
<1>. QED
  BY <1>5, <1>6 DEF ForgetInv

\* A forget that deleted the files while no request was being handled is final:
\* whatever request, runtime event, hub event, timer or command comes next, no
\* key, session or approval comes back before the next login or start
\* (handle_forget).
THEOREM ForgetIsFinal == Spec => []ForgetHolds
<1>1. Init => ForgetInv
  BY DEF Init, ForgetInv
<1>2. TypeOK /\ ForgetInv /\ [Next]_vars => ForgetInv'
  <2>1. ASSUME ForgetInv, UNCHANGED vars PROVE ForgetInv'
    BY <2>1 DEF vars, secrets, store, cloud, history, ForgetInv, ForgetCleared, ForgetLoop,
                ForgetHandlers
  <2>. QED
    BY <2>1, ForgetMainStep, ForgetCommand, ForgetWorld, ForgetHandler DEF Next
<1>3. ForgetInv => ForgetHolds
  BY DEF ForgetInv, ForgetCleared, ForgetHolds, ForgetPcs, At
<1>. QED
  BY <1>1, <1>2, <1>3, InitType, NextType, PTL DEF Spec

-----------------------------------------------------------------------------
(* A fresh process: what run_foreground has set up when its loop starts.   *)

Started ==
    /\ main = Idle /\ \A r \in Requests : ui[r].pc = "none"
    /\ is_running /\ events = << >> /\ memory = {} /\ hubq = {} /\ ~pending_sync /\ due = "no"
    /\ cache_data = disk /\ fingerprints = cached
    /\ \/ /\ vault_locked /\ Present(disk)
          /\ keystore = Public(disk.keys) /\ cached = NoKeys /\ lck = 0 /\ api = "none"
       \/ /\ ~vault_locked /\ ~Present(disk)
          /\ keystore = Public(NoKeys) /\ cached = NoKeys /\ lck = 0 /\ api = "none"
       \/ /\ ~vault_locked /\ keystore = Private(cached) /\ api = "login"
          /\ IF Present(disk) THEN disk = Sealed(lck, cached) ELSE lck = 0

\* What Boot starts with, from the cache file d, the vault k and g keys made before.
BootState(b, d, k, g) ==
    \/ /\ b.locked = TRUE /\ Present(d) /\ b.disk = d
       /\ b.keystore = Public(d.keys) /\ b.keys = NoKeys /\ b.lck = 0 /\ b.api = "none"
    \/ /\ b.locked = FALSE /\ ~Present(d) /\ b.disk = d
       /\ b.keystore = Public(NoKeys) /\ b.keys = NoKeys /\ b.lck = 0 /\ b.api = "none"
    \/ /\ b.locked = FALSE /\ ~Present(d) /\ b.disk = d
       /\ b.keystore = Private(k) /\ b.keys = k /\ b.lck = 0 /\ b.api = "login"
    \/ /\ b.locked = FALSE /\ b.disk = Sealed(g + 1, k) /\ Present(b.disk)
       /\ b.keystore = Private(k) /\ b.keys = k /\ b.lck = g + 1 /\ b.api = "login"

LEMMA BootStates ==
    ASSUME NEW d \in Caches, NEW x \in {"none", "bare", "pin"}, NEW k \in KeySet,
           NEW g \in Gens, NEW b \in Boot(d, x, k, g)
    PROVE  BootState(b, d, k, g)
<1>. DEFINE keyless == [locked |-> FALSE, keystore |-> Public(NoKeys), keys |-> NoKeys,
                        lck |-> 0, made |-> g, disk |-> d, session |-> x, api |-> "none"]
            login   == [keyless EXCEPT !.keystore = Private(k), !.keys = k, !.api = "login",
                                       !.session = IF x = "none" THEN "bare" ELSE x]
            withPin == [login EXCEPT !.lck = g + 1, !.made = g + 1,
                                     !.disk = Sealed(g + 1, k), !.session = "pin"]
            listed  == [keyless EXCEPT !.locked = TRUE, !.keystore = Public(d.keys)]
<1>1. \/ Present(d) /\ b = listed
      \/ ~Present(d) /\ (b = keyless \/ b = login \/ b = withPin)
  BY DEF Boot, FirstLogin, FirstPin
<1>2. Present(Sealed(g + 1, k))
  BY Bounds DEF Present, Sealed, Gens
<1>3. CASE Present(d) /\ b = listed
  BY <1>3 DEF BootState
<1>4. CASE ~Present(d) /\ b = keyless
  BY <1>4 DEF BootState
<1>5. CASE ~Present(d) /\ b = login
  BY <1>5 DEF BootState
<1>6. CASE b = withPin
  BY <1>2, <1>6 DEF BootState
<1>. QED
  BY <1>1, <1>3, <1>4, <1>5, <1>6

LEMMA InitStarted == Init => Started /\ (Present(disk) => disk.seal = disk.slot)
<1>. SUFFICES ASSUME Init PROVE Started /\ (Present(disk) => disk.seal = disk.slot)
  OBVIOUS
<1>. DEFINE Taken(b) ==
        /\ vault_locked = b.locked /\ keystore = b.keystore
        /\ cached = b.keys /\ fingerprints = b.keys
        /\ lck = b.lck /\ made = b.made /\ disk = b.disk /\ cache_data = b.disk
        /\ session = b.session /\ api = b.api
        /\ hub \in {FALSE, b.api = "login"}
<1>1. remote \in KeySet /\ 1 \in Gens
  BY Bounds DEF Init, KeySet, Versions, Gens
<1>2. PICK d \in {Absent, Sealed(1, remote)}, x \in {"none", "pin"} :
        \E b \in Boot(d, x, remote, d.slot) : Taken(b)
  BY DEF Init
<1>3. d \in Caches /\ d.slot \in Gens /\ (Present(d) => d.seal = d.slot)
  BY <1>1, <1>2, AbsentType, SealedType, CacheFields DEF Absent, Sealed, Present
<1>4. PICK b \in Boot(d, x, remote, d.slot) : Taken(b)
  BY <1>2
<1>5. /\ main = Idle /\ \A r \in Requests : ui[r].pc = "none"
      /\ is_running /\ events = << >> /\ memory = {} /\ hubq = {} /\ ~pending_sync /\ due = "no"
  BY DEF Init, NoRequest
<1>6. Sealed(d.slot + 1, remote).seal = Sealed(d.slot + 1, remote).slot
  BY DEF Sealed
<1>7. BootState(b, d, remote, d.slot)
  BY <1>1, <1>3, <1>4, BootStates
<1>. QED
  BY <1>3, <1>4, <1>5, <1>6, <1>7 DEF Started, BootState

LEMMA RestartStarted ==
    ASSUME TypeOK, Restart
    PROVE  Started' /\ (disk' = disk \/ disk'.seal = disk'.slot)
<1>. DEFINE Taken(b) ==
        /\ vault_locked' = b.locked /\ keystore' = b.keystore
        /\ cached' = b.keys /\ fingerprints' = b.keys
        /\ lck' = b.lck /\ made' = b.made /\ disk' = b.disk /\ cache_data' = b.disk
        /\ session' = b.session /\ api' = b.api
        /\ hub' \in {FALSE, b.api = "login"}
<1>1. remote \in KeySet /\ disk \in Caches /\ session \in {"none", "bare", "pin"} /\ made \in Gens
  BY DEF TypeOK, StoreType, CloudType
<1>2. PICK b \in Boot(disk, session, remote, made) : Taken(b)
  BY DEF Restart
<1>3. /\ main' = Idle /\ \A r \in Requests : ui'[r].pc = "none"
      /\ is_running' /\ events' = << >> /\ memory' = {} /\ hubq' = {} /\ ~pending_sync' /\ due' = "no"
  BY DEF Restart, NoRequest
<1>4. Sealed(made + 1, remote).seal = Sealed(made + 1, remote).slot
  BY DEF Sealed
<1>5. BootState(b, disk, remote, made)
  BY <1>1, <1>2, BootStates
<1>. QED
  BY <1>2, <1>3, <1>4, <1>5 DEF Started, BootState

-----------------------------------------------------------------------------
(* The cache file opens.                                                   *)

Opens(c) == Present(c) => c.seal = c.slot

\* A local cache key at hand is the one the cache in memory is wrapped for.
Fits(g) == g # 0 /\ Present(cache_data) => g = cache_data.slot

OpensInv ==
    /\ Opens(disk) /\ Opens(cache_data) /\ Fits(lck)
    /\ main.pc \in {"u_wait", "u_lck", "r_lck"} => Fits(main.gen)
    /\ main.pc \in {"p_key", "p_write", "p_lck"} => ~AutoUnlock
    /\ main.pc \in {"p_write", "p_lck"} => lck \in {0, main.gen}
    /\ main.pc = "p_lck" => cache_data.slot = main.gen
    /\ \A r \in Requests :
         /\ ui[r].pc \in UnlockPcs \cup {"capture"} => AutoUnlock
         /\ ui[r].pc \in {"decrypt", "apply", "load", "lck"} => Fits(ui[r].gen)

\* A step of the main loop that writes no cache and takes no key over.
LEMMA CalmOpens ==
    ASSUME OpensInv, ui' = ui, UNCHANGED cache_data, disk' \in {disk, Absent}, lck' \in {lck, 0},
           main'.pc \notin {"u_wait", "u_lck", "r_lck", "p_key", "p_write", "p_lck"}
    PROVE  OpensInv'
<1>1. Opens(disk') /\ Opens(cache_data')
  BY DEF OpensInv, Opens, Absent, Present
<1>2. Fits(lck)' /\ \A g : Fits(g) => Fits(g)'
  BY DEF OpensInv, Fits
<1>. QED
  BY <1>1, <1>2 DEF OpensInv, Opens, Fits

LEMMA OpensMainStep == ASSUME TypeOK, OpensInv, MainStep PROVE OpensInv'
<1>. USE MainMoves
<1>. USE DEF At, secrets, store, cloud, history
<1>0. ui' = ui /\ main \in MainRecords
  BY HandlersKept DEF TypeOK, TaskType
<1>1. CASE LockSteps
  BY <1>0, <1>1, CalmOpens DEF LockSteps, LockKeys, LockFlag, LockCached, LockLck, LockMemory
<1>2. CASE LoginSteps \/ ForgetLck \/ ForgetMemory \/ ForgetCached \/ ForgetFlag \/ ForgetKeys
  <2>1. LoginNet => main'.pc \in {"idle", "r_memory"}
    BY <1>0 DEF LoginNet, MainRecords
  <2>. QED
    BY <1>0, <1>2, <2>1, CalmOpens DEF LoginSteps, LoginNet, LoginLoad, LoginFlag, LoginSession,
       ForgetLck, ForgetMemory, ForgetCached, ForgetFlag, ForgetKeys
<1>3. CASE UnlockCached \/ UnlockKeys \/ UnlockFlag
  BY <1>0, <1>3, CalmOpens DEF UnlockCached, UnlockKeys, UnlockFlag
<1>4. CASE RestoreSession \/ ReconcileMemory \/ ReconcileCached \/ SyncLoad
  BY <1>0, <1>4, CalmOpens DEF RestoreSession, ReconcileMemory, ReconcileCached, SyncLoad
<1>5. CASE ResolvePending \/ SyncNet
  <2>1. main'.pc \in {"s_net", "r_memory", "idle"}
    BY <1>0, <1>5 DEF ResolvePending, SyncNet, MainRecords
  <2>. QED
    BY <1>0, <1>5, <2>1, CalmOpens DEF ResolvePending, SyncNet
<1>6. CASE UnlockAnswered
  <2>1. CASE Return
    BY <1>0, <1>6, <2>1, CalmOpens DEF UnlockAnswered
  <2>2. CASE Goto("u_lck")
    BY <1>0, <1>6, <2>2 DEF UnlockAnswered, OpensInv, Fits
  <2>. QED
    BY <1>6, <2>1, <2>2 DEF UnlockAnswered
<1>7. CASE UnlockLck
  BY <1>0, <1>7 DEF UnlockLck, OpensInv, Fits
<1>8. CASE ReconcileRefresh
  <2>1. CASE UNCHANGED disk /\ main'.pc = "load"
    <3>1. [main EXCEPT !.pc = "r_lck", !.gen = lck].pc = "r_lck"
      BY <1>0 DEF MainRecords
    <3>2. cache_data' = cache_data /\ lck' = lck
      BY <1>8, <2>1, <3>1 DEF ReconcileRefresh
    <3>. QED
      BY <1>0, <2>1, <3>2, CalmOpens
  <2>2. CASE ~(UNCHANGED disk /\ main'.pc = "load")
    <3>1. /\ Present(cache_data) /\ lck # 0 /\ lck' = lck
          /\ disk' = [slot |-> cache_data.slot, seal |-> lck, keys |-> main.keys]
          /\ IF main.guard
             THEN Goto("r_blocked") /\ UNCHANGED cache_data
             ELSE cache_data' = disk' /\ main' = [main EXCEPT !.pc = "r_lck", !.gen = lck]
      BY <1>8, <2>2 DEF ReconcileRefresh, RefreshKey
    <3>2. lck = cache_data.slot
      BY <3>1 DEF OpensInv, Fits
    <3>3. disk'.slot = cache_data.slot /\ disk'.seal = cache_data.slot
      BY <3>1, <3>2
    <3>4. Opens(disk')
      BY <3>3 DEF Opens
    <3>5. CASE main.guard
      <4>1. main'.pc = "r_blocked" /\ cache_data' = cache_data
        BY <3>1, <3>5
      <4>. QED
        BY <1>0, <3>1, <3>4, <4>1 DEF OpensInv, Opens, Fits
    <3>6. CASE ~main.guard
      <4>1. cache_data' = disk' /\ main'.pc = "r_lck" /\ main'.gen = lck
        BY <1>0, <3>1, <3>6 DEF MainRecords
      <4>2. Opens(cache_data') /\ \A g : Fits(g) => Fits(g)'
        BY <3>1, <3>3, <3>4, <4>1 DEF Opens, Fits, Present
      <4>. QED
        BY <1>0, <3>1, <3>2, <3>4, <4>1, <4>2 DEF OpensInv, Opens, Fits
    <3>. QED
      BY <3>5, <3>6
  <2>. QED
    BY <2>1, <2>2
<1>9. CASE ReconcileLck
  BY <1>0, <1>9 DEF ReconcileLck, OpensInv, Fits
<1>10. CASE SetPinKey
  <2>1. /\ main'.pc = "p_write" /\ UNCHANGED <<disk, cache_data, lck>>
        /\ lck # 0 => main'.gen = lck
    BY <1>0, <1>10 DEF SetPinKey, MainRecords
  <2>2. ~AutoUnlock
    BY <1>10 DEF SetPinKey, OpensInv
  <2>. QED
    BY <1>0, <2>1, <2>2 DEF OpensInv, Opens, Fits
<1>11. CASE SetPinWrite
  <2>1. CASE Return
    BY <1>0, <1>11, <2>1, CalmOpens DEF SetPinWrite
  <2>2. CASE ~Return
    <3>1. /\ disk' = Sealed(main.gen, main.keys) /\ cache_data' = disk' /\ lck' = lck
          /\ main'.pc = "p_lck" /\ main'.gen = main.gen
      BY <1>11, <2>2 DEF SetPinWrite
    <3>2. cache_data'.slot = main.gen /\ cache_data'.seal = main.gen
      BY <3>1 DEF Sealed
    <3>3. ~AutoUnlock /\ lck \in {0, main.gen}
      BY <1>11 DEF SetPinWrite, OpensInv
    <3>. QED
      BY <1>0, <3>1, <3>2, <3>3 DEF OpensInv, Opens, Fits, UnlockPcs
  <2>. QED
    BY <2>1, <2>2
<1>12. CASE SetPinLck
  BY <1>0, <1>12 DEF SetPinLck, OpensInv, Opens, Fits
<1>13. CASE ForgetData
  BY <1>0, <1>13 DEF ForgetData, OpensInv, Opens, Fits, Present, Absent
<1>. QED
  BY <1>1, <1>2, <1>3, <1>4, <1>5, <1>6, <1>7, <1>8, <1>9, <1>10, <1>11, <1>12, <1>13
     DEF MainStep, UnlockSteps, SyncSteps, SetPinSteps, ForgetSteps

LEMMA OpensCommand ==
    ASSUME ~AutoUnlock \/ "SetPin" \notin Commands, TypeOK, OpensInv, Command \/ LoopArm
    PROVE  OpensInv'
<1>. USE MainMoves
<1>. USE DEF At, secrets, store, cloud, history
<1>0. ui' = ui /\ Idle \in MainRecords /\ main.pc = "idle" /\ lck' = lck /\ cache_data' = cache_data
  <2>1. /\ main.pc = "idle" /\ lck' = lck /\ cache_data' = cache_data
    BY DEF Command, CmdReplyOnly, CmdLock, CmdSync, CmdLogin, CmdSetPin, CmdForget,
       CmdUnlock, LoopArm, OnLogOut, OnRuntimeEvent, AutoLock, TokenRefresh, OnSyncEvent, Begin,
       vars
  <2>. QED
    BY <2>1, HandlersKept, IdleType
<1>1. CASE CmdLock \/ CmdLogin \/ OnLogOut \/ OnRuntimeEvent \/ AutoLock
  <2>1. main'.pc \in {"lock_keys", "l_net", "restore", "resolve"} /\ disk' = disk
    BY <1>1 DEF CmdLock, CmdLogin, OnLogOut, OnRuntimeEvent, AutoLock
  <2>. QED
    BY <1>0, <2>1, CalmOpens
<1>2. CASE CmdForget
  <2>1. main'.pc = "f_lck" /\ disk' \in {disk, Absent}
    BY <1>2 DEF CmdForget
  <2>. QED
    BY <1>0, <2>1, CalmOpens
<1>3. CASE CmdSync \/ \E e \in {"CipherChanged", "FallbackSyncDue"} : OnSyncEvent(e)
  <2>1. main'.pc \in {"idle", "s_net"}
    <3>1. CmdSync => main'.pc = "s_net"
      BY <1>0 DEF CmdSync, MainRecords
    <3>2. [Idle EXCEPT !.pc = "s_net", !.cont = "hub"].pc = "s_net"
      BY <1>0 DEF MainRecords
    <3>. QED
      BY <1>0, <1>3, <3>1, <3>2 DEF OnSyncEvent
  <2>2. disk' = disk
    BY <1>3 DEF CmdSync, OnSyncEvent
  <2>. QED
    BY <1>0, <2>1, <2>2, CalmOpens
<1>4. CASE CmdReplyOnly \/ TokenRefresh
  <2>1. main' = main /\ disk' = disk
    BY <1>4 DEF CmdReplyOnly, TokenRefresh, vars
  <2>. QED
    BY <1>0, <2>1, CalmOpens
<1>5. ASSUME NEW c \in UnlockCommands, CmdUnlock(c) PROVE OpensInv'
  <2>1. main'.pc = "u_wait" /\ main'.gen = UsableKey(cache_data) /\ disk' = disk
    BY <1>0, <1>5 DEF CmdUnlock, MainRecords
  <2>2. Fits(main'.gen)
    BY <2>1 DEF Fits, UsableKey, Decryptable
  <2>. QED
    BY <1>0, <2>1, <2>2 DEF OpensInv, Opens, Fits
<1>6. CASE CmdSetPin
  <2>1. main'.pc = "p_key" /\ ~AutoUnlock /\ disk' = disk
    BY <1>0, <1>6 DEF CmdSetPin, MainRecords
  <2>. QED
    BY <1>0, <2>1 DEF OpensInv, Opens, Fits
<1>. QED
  BY <1>1, <1>2, <1>3, <1>4, <1>5, <1>6 DEF Command, LoopArm

LEMMA StartedOpens == Started /\ Opens(disk) => OpensInv
BY DEF Started, OpensInv, Opens, Fits, Idle, Sealed, UnlockPcs

LEMMA OpensWorld == ASSUME TypeOK, OpensInv, World PROVE OpensInv'
<1>. USE MainMoves
<1>. USE DEF secrets, store, cloud
<1>1. CASE Restart
  <2>1. Started' /\ Opens(disk')
    BY <1>1, RestartStarted DEF OpensInv, Opens
  <2>. QED
    BY <2>1, StartedOpens DEF Started, OpensInv, Opens, Fits, Idle, Sealed, UnlockPcs
<1>2. CASE Watchdog
  BY <1>2, CalmOpens DEF Watchdog
<1>3. CASE TransportExit \/ (\E i \in Items : RemoteChange(i)) \/ (\E e \in HubEvents : HubEvent(e))
  <2>1. UNCHANGED <<disk, cache_data, lck, main, ui>>
    BY <1>3 DEF TransportExit, RemoteChange, HubEvent
  <2>. QED
    BY <2>1 DEF OpensInv, Opens, Fits
<1>. QED
  BY <1>1, <1>2, <1>3 DEF World

LEMMA OpensHandler ==
    ASSUME TypeOK, OpensInv, NEW r \in Requests, Spawn(r) \/ Handler(r) \/ Client(r)
    PROVE  OpensInv'
<1>. USE DEF secrets, store
<1>1. HandlerFrame(r) /\ (QuietMove(r) \/ LoudMove(r))
  BY HandlerMoves
<1>2. UNCHANGED <<main, disk, cache_data>> /\ \A q \in Requests \ {r} : ui'[q] = ui[q]
  BY <1>1 DEF HandlerFrame
<1>3. /\ ui[r].pc \in UnlockPcs \cup {"capture"} => AutoUnlock
      /\ ui[r].pc \in {"decrypt", "apply", "load", "lck"} => Fits(ui[r].gen)
  BY DEF OpensInv
<1>4. /\ ui'[r].pc \in UnlockPcs \cup {"capture"} => AutoUnlock
      /\ ui'[r].pc \in {"decrypt", "apply", "load", "lck"} => Fits(ui'[r].gen)
  <2>1. Fits(UsableKey(cache_data))
    BY DEF Fits, UsableKey, Decryptable
  <2>2. CASE QuietMove(r)
    BY <1>3, <2>1, <2>2 DEF QuietMove, UnlockPcs
  <2>3. CASE LoudMove(r)
    BY <1>3, <2>3 DEF LoudMove, UnlockPcs
  <2>. QED
    BY <1>1, <2>2, <2>3
<1>5. lck' = lck \/ (AutoUnlock /\ Fits(lck'))
  BY <1>1, <1>3 DEF QuietMove, LoudMove, UnlockPcs
<1>. QED
  BY <1>2, <1>4, <1>5 DEF OpensInv, Opens, Fits

\* The cache file can always be opened by the local cache key its slots wrap,
\* through every refresh, set-pin, forget, failed write and restart, unless a
\* set-pin can meet an auto-unlock (refresh_envelope_local_key_cache).
THEOREM CacheAlwaysOpens ==
    ASSUME ~AutoUnlock \/ "SetPin" \notin Commands
    PROVE  Spec => []CacheOpens
<1>1. Init => OpensInv
  BY InitStarted, StartedOpens DEF Opens
<1>2. TypeOK /\ OpensInv /\ [Next]_vars => OpensInv'
  <2>1. ASSUME OpensInv, UNCHANGED vars PROVE OpensInv'
    BY <2>1 DEF vars, secrets, store, OpensInv, Opens, Fits
  <2>. QED
    BY <2>1, OpensMainStep, OpensCommand, OpensWorld, OpensHandler DEF Next
<1>3. OpensInv => CacheOpens
  BY DEF OpensInv, Opens, CacheOpens, Decryptable
<1>. QED
  BY <1>1, <1>2, <1>3, InitType, NextType, PTL DEF Spec

-----------------------------------------------------------------------------
(* Without auto-unlock: no handler unlocks the vault, and the loop syncs   *)
(* after a vault change only while it is unlocked.                         *)

NoAutoUnlock ==
    /\ events = << >>
    /\ \A r \in Requests : ui[r].pc \notin UnlockPcs \cup {"capture", "send"}

\* A sync that a vault change has caused, right away or after an unlock.
SyncOfChange == main.pc \in SyncPcs /\ main.cont \in {"hub", "resolve"}

LoopInv ==
    /\ NoAutoUnlock
    /\ main.pc \in {"restore", "resolve", "l_session"} \/ SyncOfChange => ~vault_locked

LEMMA LoopNext == ASSUME ~AutoUnlock, TypeOK, LoopInv, [Next]_vars PROVE LoopInv'
<1>. USE MainMoves
<1>. USE DEF At, secrets, history
<1>0. main \in MainRecords /\ Idle \in MainRecords
  BY IdleType DEF TypeOK, TaskType
<1>1. ASSUME ui' = ui, events' = events PROVE NoAutoUnlock'
  BY <1>1 DEF LoopInv, NoAutoUnlock
<1>2. ASSUME ui' = ui, events' = events, main'.pc \notin {"restore", "resolve", "l_session"} \cup SyncPcs
      PROVE  LoopInv'
  BY <1>1, <1>2 DEF LoopInv, SyncOfChange
<1>3. CASE LockSteps \/ ForgetSteps \/ SetPinSteps
  <2>1. events' = events
    BY <1>3 DEF LockSteps, LockKeys, LockFlag, LockCached, LockLck, LockMemory,
       SetPinSteps, SetPinKey, SetPinWrite, SetPinLck,
       ForgetSteps, ForgetLck, ForgetMemory, ForgetCached, ForgetFlag, ForgetData, ForgetKeys
  <2>2. SetPinKey => main'.pc = "p_write"
    BY <1>0 DEF SetPinKey, MainRecords
  <2>3. CASE LockSteps
    <3>1. main'.pc \notin {"restore", "resolve", "l_session"} \cup SyncPcs
      BY <2>3 DEF LockSteps, LockKeys, LockFlag, LockCached, LockLck, LockMemory, SyncPcs
    <3>. QED
      BY <1>2, <2>1, <2>3, <3>1, HandlersKept DEF MainStep
  <2>4. CASE ForgetSteps
    <3>1. main'.pc \notin {"restore", "resolve", "l_session"} \cup SyncPcs
      BY <2>4 DEF ForgetSteps, ForgetLck, ForgetMemory, ForgetCached, ForgetFlag, ForgetData,
         ForgetKeys, SyncPcs
    <3>. QED
      BY <1>2, <2>1, <2>4, <3>1, HandlersKept DEF MainStep
  <2>5. CASE SetPinSteps
    <3>1. main'.pc \notin {"restore", "resolve", "l_session"} \cup SyncPcs
      BY <2>2, <2>5 DEF SetPinSteps, SetPinWrite, SetPinLck, SyncPcs
    <3>. QED
      BY <1>2, <2>1, <2>5, <3>1, HandlersKept DEF MainStep
  <2>. QED
    BY <1>3, <2>3, <2>4, <2>5
<1>4. CASE UnlockSteps \/ LoginSteps
  <2>1. ui' = ui /\ events' = events
    BY <1>4, HandlersKept DEF MainStep, UnlockSteps, UnlockAnswered, UnlockLck, UnlockCached,
       UnlockKeys, UnlockFlag, LoginSteps, LoginNet, LoginLoad, LoginFlag, LoginSession
  <2>2. CASE UnlockFlag \/ LoginFlag
    BY <1>1, <2>1, <2>2 DEF UnlockFlag, LoginFlag, LoopInv
  <2>3. CASE LoginNet
    <3>1. main'.pc = "idle" \/ main'.cont = "login"
      BY <1>0, <2>3 DEF LoginNet, MainRecords
    <3>2. main'.pc \in {"idle", "r_memory"}
      BY <1>0, <2>3 DEF LoginNet, MainRecords
    <3>. QED
      BY <1>1, <2>1, <3>1, <3>2 DEF LoopInv, SyncOfChange, SyncPcs
  <2>4. CASE LoginSession
    BY <1>1, <2>1, <2>4 DEF LoginSession, LoopInv
  <2>5. CASE LoginLoad \/ UnlockAnswered \/ UnlockLck \/ UnlockCached \/ UnlockKeys
    <3>1. main'.pc \notin {"restore", "resolve", "l_session"} \cup SyncPcs
      BY <2>5 DEF LoginLoad, UnlockAnswered, UnlockLck, UnlockCached, UnlockKeys, SyncPcs
    <3>. QED
      BY <1>2, <2>1, <3>1
  <2>. QED
    BY <1>4, <2>2, <2>3, <2>4, <2>5 DEF UnlockSteps, LoginSteps
<1>5. CASE SyncSteps
  <2>1. ui' = ui /\ events' = events /\ vault_locked' = vault_locked
    BY <1>5, HandlersKept DEF MainStep, SyncSteps, RestoreSession, ResolvePending, SyncNet,
       ReconcileMemory, ReconcileCached, ReconcileRefresh, ReconcileLck, SyncLoad
  <2>2. CASE RestoreSession \/ ResolvePending
    BY <1>0, <1>1, <2>1, <2>2 DEF RestoreSession, ResolvePending, LoopInv, SyncOfChange, SyncPcs
  <2>3. CASE ~RestoreSession /\ ~ResolvePending
    <3>1. /\ main.pc \in SyncPcs
          /\ main'.pc = "idle" \/ (main'.pc \in SyncPcs /\ main'.cont = main.cont)
      <4>1. CASE SyncNet
        BY <1>0, <4>1 DEF SyncNet, MainRecords, SyncPcs
      <4>2. CASE ReconcileRefresh
        BY <1>0, <4>2 DEF ReconcileRefresh, MainRecords, SyncPcs
      <4>3. CASE ReconcileMemory \/ ReconcileCached \/ ReconcileLck \/ SyncLoad
        BY <4>3 DEF ReconcileMemory, ReconcileCached, ReconcileLck, SyncLoad, SyncPcs
      <4>. QED
        BY <1>5, <2>3, <4>1, <4>2, <4>3 DEF SyncSteps
    <3>. QED
      BY <1>1, <2>1, <3>1 DEF LoopInv, SyncOfChange, SyncPcs
  <2>. QED
    BY <2>2, <2>3
<1>6. CASE Command \/ LoopArm
  <2>0. ~OnRuntimeEvent
    BY DEF OnRuntimeEvent, LoopInv, NoAutoUnlock
  <2>1. ui' = ui /\ events' = events /\ main.pc = "idle" /\ vault_locked' = vault_locked
    BY <1>6, <2>0, HandlersKept DEF Command, CmdReplyOnly, CmdLock, CmdSync, CmdLogin, CmdSetPin,
       CmdForget, CmdUnlock, LoopArm, OnLogOut, AutoLock, TokenRefresh, OnSyncEvent, vars, Begin
  <2>2. CASE CmdSync
    <3>1. main'.pc = "s_net" /\ main'.cont = "cmd"
      BY <1>0, <2>2 DEF CmdSync, MainRecords
    <3>. QED
      BY <1>1, <2>1, <3>1 DEF LoopInv, SyncOfChange
  <2>3. ASSUME NEW e \in {"CipherChanged", "FallbackSyncDue"}, OnSyncEvent(e) PROVE LoopInv'
    <3>1. CASE vault_locked
      BY <1>1, <2>1, <2>3, <3>1 DEF OnSyncEvent, LoopInv, SyncOfChange
    <3>2. CASE ~vault_locked
      BY <1>1, <2>1, <3>2 DEF LoopInv
    <3>. QED
      BY <3>1, <3>2
  <2>4. CASE CmdReplyOnly \/ TokenRefresh
    BY <1>1, <2>1, <2>4 DEF CmdReplyOnly, TokenRefresh, vars, LoopInv, SyncOfChange
  <2>5. CASE CmdLock \/ CmdLogin \/ CmdForget \/ OnLogOut \/ AutoLock
    <3>1. main'.pc \in {"lock_keys", "l_net", "f_lck"}
      BY <2>5 DEF CmdLock, CmdLogin, CmdForget, OnLogOut, AutoLock
    <3>. QED
      BY <1>2, <2>1, <3>1 DEF SyncPcs
  <2>6. CASE CmdSetPin \/ \E c \in UnlockCommands : CmdUnlock(c)
    <3>1. CmdSetPin => main'.pc = "p_key"
      BY <1>0 DEF CmdSetPin, MainRecords
    <3>2. ASSUME NEW c \in UnlockCommands, CmdUnlock(c) PROVE main'.pc = "u_wait"
      BY <1>0, <3>2 DEF CmdUnlock, MainRecords
    <3>. QED
      BY <1>2, <2>1, <2>6, <3>1, <3>2 DEF SyncPcs
  <2>. QED
    BY <1>6, <2>0, <2>2, <2>3, <2>4, <2>5, <2>6 DEF Command, LoopArm
<1>7. CASE World
  <2>1. CASE Restart
    BY <2>1, RestartStarted DEF Started, LoopInv, NoAutoUnlock, SyncOfChange, SyncPcs, UnlockPcs
  <2>2. CASE Watchdog
    BY <1>2, <2>2 DEF Watchdog, SyncPcs
  <2>3. CASE World /\ ~Restart /\ ~Watchdog
    BY <1>1, <2>3 DEF World, TransportExit, RemoteChange, HubEvent, LoopInv, SyncOfChange
  <2>. QED
    BY <1>7, <2>1, <2>2, <2>3
<1>8. ASSUME NEW r \in Requests, Spawn(r) \/ Handler(r) \/ Client(r) PROVE LoopInv'
  <2>1. HandlerFrame(r) /\ (QuietMove(r) \/ LoudMove(r))
    BY <1>8, HandlerMoves
  <2>2. ui[r].pc \notin UnlockPcs \cup {"capture", "send"}
    BY DEF LoopInv, NoAutoUnlock
  <2>3. /\ ui'[r].pc \notin UnlockPcs \cup {"capture", "send"}
        /\ events' = events /\ vault_locked' = vault_locked
    BY <2>1, <2>2 DEF QuietMove, LoudMove, UnlockPcs
  <2>. QED
    BY <2>1, <2>3 DEF HandlerFrame, LoopInv, NoAutoUnlock, SyncOfChange
<1>9. CASE UNCHANGED vars
  BY <1>1, <1>9 DEF vars, LoopInv, SyncOfChange
<1>. QED
  BY <1>3, <1>4, <1>5, <1>6, <1>7, <1>8, <1>9 DEF Next, MainStep

LEMMA StartedLoop == Started => LoopInv
BY DEF Started, LoopInv, NoAutoUnlock, SyncOfChange, SyncPcs, UnlockPcs, Idle

-----------------------------------------------------------------------------
(* Who runs a sync, and how: a sync right after a hub event is not under   *)
(* the watchdog and has an unlocked vault, a login holds no guard.         *)

CallerInv ==
    /\ main.cont = "hub" => main.pc \in SyncPcs /\ ~vault_locked /\ ~main.ctl
    /\ main.cont = "login" \/ main.pc = "l_net" => ~main.guard

LEMMA StartedCaller == Started => CallerInv
BY DEF Started, CallerInv, Idle

LEMMA CallerNext == TypeOK /\ CallerInv /\ [Next]_vars => CallerInv'
<1>. SUFFICES ASSUME TypeOK, CallerInv, [Next]_vars PROVE CallerInv'
  OBVIOUS
<1>. USE MainMoves
<1>. USE DEF At
<1>0. main \in MainRecords /\ Idle \in MainRecords
  BY IdleType DEF TypeOK, TaskType
<1>1. ASSUME main' = main, vault_locked' => vault_locked PROVE CallerInv'
  BY <1>1 DEF CallerInv
<1>2. ASSUME main'.cont \notin {"hub", "login"}, main'.pc # "l_net" PROVE CallerInv'
  BY <1>2 DEF CallerInv
<1>3. ASSUME main'.cont = main.cont, main'.guard = main.guard, main'.pc # "l_net",
             main.cont # "hub"
      PROVE  CallerInv'
  BY <1>3 DEF CallerInv
<1>4. ASSUME main'.cont = main.cont, main'.guard = main.guard, main'.ctl = main.ctl,
             vault_locked' = vault_locked, main'.pc \in SyncPcs
      PROVE  CallerInv'
  BY <1>4 DEF CallerInv, SyncPcs
<1>5. main.pc \notin SyncPcs => main.cont # "hub"
  BY DEF CallerInv
<1>6. CASE LockSteps
  <2>1. main.pc \notin SyncPcs
    BY <1>6 DEF LockSteps, LockKeys, LockFlag, LockCached, LockLck, LockMemory, SyncPcs
  <2>2. Return \/ \E p \in {"lock_flag", "lock_cached", "lock_lck", "lock_memory"} : Goto(p)
    BY <1>6 DEF LockSteps, LockKeys, LockFlag, LockCached, LockLck, LockMemory
  <2>. QED
    BY <1>2, <1>3, <1>5, <2>1, <2>2
<1>7. CASE UnlockSteps
  <2>1. main.pc \notin SyncPcs
    BY <1>7 DEF UnlockSteps, UnlockAnswered, UnlockLck, UnlockCached, UnlockKeys, UnlockFlag,
       SyncPcs
  <2>2. Return \/ \E p \in {"u_lck", "u_cached", "u_keys", "u_flag", "resolve", "restore"} : Goto(p)
    BY <1>7 DEF UnlockSteps, UnlockAnswered, UnlockLck, UnlockCached, UnlockKeys, UnlockFlag
  <2>. QED
    BY <1>2, <1>3, <1>5, <2>1, <2>2
<1>8. CASE SetPinSteps
  <2>1. main.pc \notin SyncPcs
    BY <1>8 DEF SetPinSteps, SetPinKey, SetPinWrite, SetPinLck, SyncPcs
  <2>2. CASE SetPinKey
    <3>1. main'.cont = main.cont /\ main'.guard = main.guard /\ main'.pc = "p_write"
      BY <1>0, <2>2 DEF SetPinKey, MainRecords
    <3>. QED
      BY <1>3, <1>5, <2>1, <3>1
  <2>3. CASE SetPinWrite \/ SetPinLck
    BY <1>2, <1>3, <1>5, <2>1, <2>3 DEF SetPinWrite, SetPinLck
  <2>. QED
    BY <1>8, <2>2, <2>3 DEF SetPinSteps
<1>9. CASE ForgetSteps
  <2>1. main.pc \notin SyncPcs
    BY <1>9 DEF ForgetSteps, ForgetLck, ForgetMemory, ForgetCached, ForgetFlag, ForgetData,
       ForgetKeys, SyncPcs
  <2>2. Return \/ \E p \in {"f_memory", "f_cached", "f_flag", "f_data", "f_keys"} : Goto(p)
    BY <1>9 DEF ForgetSteps, ForgetLck, ForgetMemory, ForgetCached, ForgetFlag, ForgetData,
       ForgetKeys
  <2>. QED
    BY <1>2, <1>3, <1>5, <2>1, <2>2
<1>10. CASE LoginSteps
  <2>1. CASE LoginNet
    <3>1. CASE Return
      BY <1>2, <3>1
    <3>2. CASE ~Return
      <4>1. /\ main.pc = "l_net" /\ main'.pc = "r_memory" /\ main'.cont = "login"
            /\ main'.guard = main.guard
        BY <1>0, <2>1, <3>2 DEF LoginNet, MainRecords
      <4>. QED
        BY <4>1 DEF CallerInv
    <3>. QED
      BY <3>1, <3>2
  <2>2. CASE LoginLoad
    BY <1>2, <1>3, <2>2 DEF LoginLoad
  <2>3. CASE LoginFlag \/ LoginSession
    <3>1. main.pc \notin SyncPcs
      BY <2>3 DEF LoginFlag, LoginSession, SyncPcs
    <3>. QED
      BY <1>3, <1>5, <2>3, <3>1 DEF LoginFlag, LoginSession
  <2>. QED
    BY <1>10, <2>1, <2>2, <2>3 DEF LoginSteps
<1>11. CASE SyncSteps
  <2>1. CASE RestoreSession
    BY <1>3, <1>5, <2>1 DEF RestoreSession, SyncPcs
  <2>2. CASE ResolvePending
    <3>1. main'.cont \in {"none", "resolve"} /\ main'.pc \in {"s_net", "idle"}
      BY <1>0, <2>2 DEF ResolvePending, MainRecords
    <3>. QED
      BY <1>2, <3>1
  <2>3. CASE SyncNet \/ ReconcileRefresh
    <3>1. CASE main'.pc = "idle" /\ main'.cont = "none"
      BY <1>2, <3>1
    <3>2. CASE ~(main'.pc = "idle" /\ main'.cont = "none")
      <4>1. /\ main'.cont = main.cont /\ main'.guard = main.guard /\ main'.ctl = main.ctl
            /\ main'.pc \in SyncPcs
        BY <1>0, <2>3, <3>2 DEF SyncNet, ReconcileRefresh, MainRecords, SyncPcs
      <4>2. vault_locked' = vault_locked
        BY <2>3 DEF SyncNet, ReconcileRefresh
      <4>. QED
        BY <1>4, <4>1, <4>2
    <3>. QED
      BY <3>1, <3>2
  <2>4. CASE ReconcileMemory \/ ReconcileCached \/ ReconcileLck
    BY <1>4, <2>4 DEF ReconcileMemory, ReconcileCached, ReconcileLck, SyncPcs
  <2>5. CASE SyncLoad
    BY <1>2, <2>5 DEF SyncLoad
  <2>. QED
    BY <1>11, <2>1, <2>2, <2>3, <2>4, <2>5 DEF SyncSteps
<1>12. CASE Command
  <2>1. CASE CmdReplyOnly
    BY <1>1, <2>1 DEF CmdReplyOnly, vars
  <2>2. CASE CmdLogin
    BY <2>2 DEF CmdLogin, CallerInv
  <2>3. CASE CmdLock \/ CmdForget
    <3>1. main'.cont = "none" /\ main'.pc \in {"lock_keys", "f_lck"}
      BY <2>3 DEF CmdLock, CmdForget
    <3>. QED
      BY <1>2, <3>1
  <2>4. CASE CmdSync \/ CmdSetPin \/ \E c \in UnlockCommands : CmdUnlock(c)
    <3>1. main'.cont \in {"none", "cmd"} /\ main'.pc \in {"s_net", "p_key", "u_wait"}
      <4>1. CmdSync => main'.cont = "cmd" /\ main'.pc = "s_net"
        BY <1>0 DEF CmdSync, MainRecords
      <4>2. CmdSetPin => main'.cont = "none" /\ main'.pc = "p_key"
        BY <1>0 DEF CmdSetPin, MainRecords
      <4>3. ASSUME NEW c \in UnlockCommands, CmdUnlock(c)
            PROVE  main'.cont = "none" /\ main'.pc = "u_wait"
        BY <1>0, <4>3 DEF CmdUnlock, MainRecords
      <4>. QED
        BY <2>4, <4>1, <4>2, <4>3
    <3>. QED
      BY <1>2, <3>1
  <2>. QED
    BY <1>12, <2>1, <2>2, <2>3, <2>4 DEF Command
<1>13. CASE LoopArm
  <2>1. CASE OnLogOut \/ OnRuntimeEvent \/ AutoLock
    <3>1. main'.cont = "none" /\ main'.pc \in {"lock_keys", "restore", "resolve"}
      BY <2>1 DEF OnLogOut, OnRuntimeEvent, AutoLock
    <3>. QED
      BY <1>2, <3>1
  <2>2. CASE TokenRefresh
    BY <1>1, <2>2 DEF TokenRefresh
  <2>3. ASSUME NEW e \in {"CipherChanged", "FallbackSyncDue"}, OnSyncEvent(e) PROVE CallerInv'
    <3>1. CASE vault_locked
      BY <1>1, <2>3, <3>1 DEF OnSyncEvent
    <3>2. CASE ~vault_locked
      <4>1. /\ main'.cont = "hub" /\ main'.pc = "s_net" /\ ~main'.ctl /\ ~vault_locked'
        <5>1. main' = [Idle EXCEPT !.pc = "s_net", !.cont = "hub"] /\ vault_locked' = vault_locked
          BY <2>3, <3>2 DEF OnSyncEvent
        <5>. QED
          BY <3>2, <5>1 DEF Idle
      <4>. QED
        BY <4>1 DEF CallerInv, SyncPcs
    <3>. QED
      BY <3>1, <3>2
  <2>. QED
    BY <1>13, <2>1, <2>2, <2>3 DEF LoopArm
<1>14. CASE World
  BY <1>1, <1>2, <1>14 DEF World, Watchdog, TransportExit, Restart, RemoteChange, HubEvent
<1>15. ASSUME NEW r \in Requests, Spawn(r) \/ Handler(r) \/ Client(r) PROVE CallerInv'
  <2>1. main' = main
    BY <1>15, HandlerMoves DEF HandlerFrame
  <2>2. vault_locked' => vault_locked
    BY <1>15, HandlerMoves DEF QuietMove, LoudMove
  <2>. QED
    BY <1>1, <2>1, <2>2
<1>16. CASE UNCHANGED vars
  BY <1>1, <1>16 DEF vars
<1>. QED
  BY <1>6, <1>7, <1>8, <1>9, <1>10, <1>11, <1>12, <1>13, <1>14, <1>15, <1>16 DEF Next, MainStep

-----------------------------------------------------------------------------
(* A vault change that was seen is synced, or a pending sync, or lost in a *)
(* pending sync that was under way.                                        *)

DueInv == due = "seen" => pending_sync \/ SyncOfChange

LEMMA DueNext ==
    ASSUME TypeOK, CallerInv, DueInv, [Next]_vars
    PROVE  DueInv'
<1>. USE MainMoves
<1>. USE DEF At, secrets, history
<1>0. main \in MainRecords /\ Idle \in MainRecords
  BY IdleType DEF TypeOK, TaskType
<1>1. ASSUME due' = due, pending_sync' = pending_sync, main' = main PROVE DueInv'
  BY <1>1 DEF DueInv, SyncOfChange
<1>2. ASSUME due' = due, pending_sync' = pending_sync, main.pc \notin SyncPcs PROVE DueInv'
  BY <1>2 DEF DueInv, SyncOfChange
<1>3. CASE LockSteps \/ UnlockSteps
  BY <1>2, <1>3 DEF LockSteps, LockKeys, LockFlag, LockCached, LockLck, LockMemory,
     UnlockSteps, UnlockAnswered, UnlockLck, UnlockCached, UnlockKeys, UnlockFlag, SyncPcs
<1>4. CASE SetPinSteps \/ LoginNet \/ LoginFlag \/ LoginSession
  BY <1>2, <1>4 DEF SetPinSteps, SetPinKey, SetPinWrite, SetPinLck, LoginNet, LoginFlag,
     LoginSession, SyncPcs
<1>5. CASE LoginLoad
  BY <1>5 DEF LoginLoad, DueInv, SyncOfChange
<1>6. CASE ForgetSteps
  <2>1. CASE ForgetCached
    BY <2>1 DEF ForgetCached, DueInv
  <2>. QED
    BY <1>2, <1>6, <2>1 DEF ForgetSteps, ForgetLck, ForgetMemory, ForgetFlag, ForgetData,
       ForgetKeys, SyncPcs
<1>7. CASE SyncSteps
  <2>1. CASE RestoreSession
    BY <1>2, <2>1 DEF RestoreSession, SyncPcs
  <2>2. CASE ResolvePending
    <3>1. CASE pending_sync
      BY <1>0, <2>2, <3>1 DEF ResolvePending, MainRecords, DueInv, SyncOfChange, SyncPcs
    <3>2. CASE ~pending_sync
      BY <2>2, <3>2 DEF ResolvePending, DueInv, SyncOfChange, SyncPcs
    <3>. QED
      BY <3>1, <3>2
  <2>3. CASE SyncNet
    <3>1. CASE Return /\ pending_sync' = PendingAfterFailure
      BY <2>3, <3>1 DEF SyncNet, PendingAfterFailure, DueInv, SyncOfChange
    <3>2. CASE ~(Return /\ pending_sync' = PendingAfterFailure)
      BY <1>0, <2>3, <3>2 DEF SyncNet, MainRecords, DueInv, SyncOfChange, SyncPcs
    <3>. QED
      BY <3>1, <3>2
  <2>4. CASE ReconcileMemory \/ ReconcileCached \/ ReconcileRefresh \/ ReconcileLck
    <3>1. main'.cont = main.cont /\ main'.pc \in SyncPcs /\ UNCHANGED <<due, pending_sync>>
      <4>1. CASE ReconcileRefresh
        BY <1>0, <4>1 DEF ReconcileRefresh, MainRecords, SyncPcs
      <4>2. CASE ReconcileMemory \/ ReconcileCached \/ ReconcileLck
        BY <4>2 DEF ReconcileMemory, ReconcileCached, ReconcileLck, SyncPcs
      <4>. QED
        BY <2>4, <4>1, <4>2
    <3>. QED
      BY <3>1 DEF DueInv, SyncOfChange
  <2>5. CASE SyncLoad
    <3>1. CASE vault_locked
      <4>1. main.cont # "hub" /\ due' = PendingLost /\ (pending_sync => pending_sync')
        BY <2>5, <3>1 DEF SyncLoad, CallerInv
      <4>. QED
        BY <4>1 DEF DueInv, SyncOfChange, PendingLost
    <3>2. CASE ~vault_locked
      BY <2>5, <3>2 DEF SyncLoad, DueInv, SyncOfChange, PendingAfterFailure
    <3>. QED
      BY <3>1, <3>2
  <2>. QED
    BY <1>7, <2>1, <2>2, <2>3, <2>4, <2>5 DEF SyncSteps
<1>8. CASE Command \/ LoopArm
  <2>1. ASSUME NEW e \in {"CipherChanged", "FallbackSyncDue"}, OnSyncEvent(e) PROVE DueInv'
    <3>1. CASE vault_locked
      BY <2>1, <3>1 DEF OnSyncEvent, DueInv
    <3>2. CASE ~vault_locked
      <4>1. main'.pc = "s_net" /\ main'.cont = "hub"
        BY <1>0, <2>1, <3>2 DEF OnSyncEvent, MainRecords
      <4>. QED
        BY <4>1 DEF DueInv, SyncOfChange, SyncPcs
    <3>. QED
      BY <3>1, <3>2
  <2>2. CASE Command
    <3>1. main.pc = "idle" /\ due' = due /\ pending_sync' = pending_sync
      BY <2>2 DEF Command, CmdReplyOnly, CmdLock, CmdSync, CmdLogin, CmdSetPin, CmdForget,
         CmdUnlock, Begin, vars
    <3>. QED
      BY <1>2, <3>1 DEF SyncPcs
  <2>3. CASE OnLogOut \/ OnRuntimeEvent \/ AutoLock \/ TokenRefresh
    <3>1. main.pc = "idle" /\ due' = due /\ pending_sync' = pending_sync
      BY <2>3 DEF OnLogOut, OnRuntimeEvent, AutoLock, TokenRefresh, Begin
    <3>. QED
      BY <1>2, <3>1 DEF SyncPcs
  <2>. QED
    BY <1>8, <2>1, <2>2, <2>3 DEF LoopArm
<1>9. CASE World
  <2>1. CASE Restart
    BY <2>1 DEF Restart, DueInv
  <2>2. CASE Watchdog
    <3>1. main.ctl /\ due' = PendingLost /\ pending_sync' = pending_sync
      BY <2>2 DEF Watchdog
    <3>2. main.cont # "hub"
      BY <3>1 DEF CallerInv
    <3>. QED
      BY <3>1, <3>2 DEF DueInv, SyncOfChange, PendingLost
  <2>. QED
    BY <1>1, <1>9, <2>1, <2>2 DEF World, TransportExit, RemoteChange, HubEvent
<1>10. ASSUME NEW r \in Requests, Spawn(r) \/ Handler(r) \/ Client(r) PROVE DueInv'
  BY <1>1, <1>10, HandlerMoves DEF HandlerFrame
<1>11. CASE UNCHANGED vars
  BY <1>1, <1>11 DEF vars
<1>. QED
  BY <1>3, <1>4, <1>5, <1>6, <1>7, <1>8, <1>9, <1>10, <1>11 DEF Next, MainStep, LoginSteps

\* A vault change that the hub reported and that is not in the agent yet is a
\* pending sync whenever the loop is free, in every configuration, unless the
\* pending sync itself was dropped by the watchdog or came to a vault locked
\* again (do_sync, resolve_pending_sync).
THEOREM ChangesRemembered == Spec => []ChangeRemembered
<1>1. Init => CallerInv /\ DueInv
  BY InitStarted, StartedCaller DEF Started, DueInv
<1>2. TypeOK /\ CallerInv /\ DueInv /\ [Next]_vars => CallerInv' /\ DueInv'
  BY CallerNext, DueNext
<1>3. DueInv => ChangeRemembered
  BY DEF DueInv, SyncOfChange, SyncPcs, ChangeRemembered, At
<1>. QED
  BY <1>1, <1>2, <1>3, InitType, NextType, PTL DEF Spec

-----------------------------------------------------------------------------
(* A locked daemon holds no secrets.                                       *)

\* The configurations that keep the order of the stores: the listener stays up,
\* no manual sync, and with auto-unlock neither a forget nor an automatic sync.
StoresOrdered ==
    /\ ~TransportFails /\ "Sync" \notin Commands
    /\ AutoUnlock => "Forget" \notin Commands /\ HubEvents \subseteq {"LogOut"}

\* Which tasks then run at all.
TasksInv ==
    /\ is_running /\ hubq \subseteq HubEvents
    /\ main.pc \in SyncPcs => main.cont \in {"hub", "resolve", "login"}
    /\ AutoUnlock => /\ ~pending_sync /\ main.pc \notin ForgetPcs
                     /\ main.pc \in SyncPcs => main.cont = "login"
    /\ ~AutoUnlock => LoopInv

\* An auto-unlock has stored keys and has not cleared the flag yet.
Storing == \E r \in Requests : ui[r].pc \in {"load", "lck", "flag"}

\* Secrets in a locked daemon are those of an auto-unlock, or of the task at hand.
ErasedInv ==
    /\ vault_locked /\ cached # NoKeys =>
         Storing \/ main.pc \in {"lock_cached", "u_keys", "u_flag", "r_refresh", "r_lck",
                                 "load", "l_flag"}
    /\ vault_locked /\ lck # 0 =>
         Storing \/ main.pc \in {"lock_cached", "lock_lck", "u_cached", "u_keys", "u_flag"}
    /\ main.pc \in {"p_key", "p_write", "p_lck", "r_lck"} => ~vault_locked \/ Storing
    /\ main.pc \in {"f_memory", "f_cached", "f_flag"} => lck = 0
    /\ main.pc = "f_flag" => cached = NoKeys

LEMMA TasksMainStep == ASSUME StoresOrdered, TypeOK, TasksInv, MainStep PROVE TasksInv'
<1>. USE MainMoves
<1>. USE DEF At, cloud
<1>0. main \in MainRecords
  BY DEF TypeOK, TaskType
<1>1. ~AutoUnlock => LoopInv'
  BY LoopNext DEF TasksInv, Next
<1>2. is_running'
  <2>1. LockSteps \/ UnlockSteps => is_running' = is_running
    BY DEF LockSteps, LockKeys, LockFlag, LockCached, LockLck, LockMemory,
       UnlockSteps, UnlockAnswered, UnlockLck, UnlockCached, UnlockKeys, UnlockFlag
  <2>2. SyncSteps => is_running' = is_running
    BY DEF SyncSteps, RestoreSession, ResolvePending, SyncNet,
       ReconcileMemory, ReconcileCached, ReconcileRefresh, ReconcileLck, SyncLoad
  <2>3. LoginSteps \/ SetPinSteps \/ ForgetSteps => is_running' = is_running
    BY DEF LoginSteps, LoginNet, LoginLoad, LoginFlag, LoginSession,
       SetPinSteps, SetPinKey, SetPinWrite, SetPinLck,
       ForgetSteps, ForgetLck, ForgetMemory, ForgetCached, ForgetFlag, ForgetData, ForgetKeys
  <2>. QED
    BY <2>1, <2>2, <2>3 DEF MainStep, TasksInv
<1>3. ASSUME hubq' \subseteq hubq, pending_sync' => pending_sync, main'.pc \notin SyncPcs,
             main'.pc \in ForgetPcs => main.pc \in ForgetPcs
      PROVE  TasksInv'
  BY <1>1, <1>2, <1>3 DEF TasksInv
<1>4. CASE LockSteps
  BY <1>3, <1>4 DEF LockSteps, LockKeys, LockFlag, LockCached, LockLck, LockMemory, SyncPcs,
     ForgetPcs
<1>5. CASE UnlockSteps
  BY <1>3, <1>5 DEF UnlockSteps, UnlockAnswered, UnlockLck, UnlockCached, UnlockKeys,
     UnlockFlag, SyncPcs, ForgetPcs
<1>6. CASE SetPinSteps
  <2>1. SetPinKey => main'.pc = "p_write"
    BY <1>0 DEF SetPinKey, MainRecords
  <2>. QED
    BY <1>3, <1>6, <2>1 DEF SetPinSteps, SetPinKey, SetPinWrite, SetPinLck, SyncPcs, ForgetPcs
<1>7. CASE ForgetSteps
  BY <1>3, <1>7 DEF ForgetSteps, ForgetLck, ForgetMemory, ForgetCached, ForgetFlag, ForgetData,
     ForgetKeys, SyncPcs, ForgetPcs
<1>8. CASE LoginSteps
  <2>1. CASE LoginNet
    <3>1. main'.pc = "idle" \/ (main'.pc = "r_memory" /\ main'.cont = "login")
      BY <1>0, <2>1 DEF LoginNet, MainRecords
    <3>. QED
      BY <1>1, <1>2, <2>1, <3>1 DEF LoginNet, TasksInv, SyncPcs, ForgetPcs
  <2>2. CASE LoginLoad \/ LoginFlag \/ LoginSession
    BY <1>3, <2>2 DEF LoginLoad, LoginFlag, LoginSession, ConnectHub, SyncPcs, ForgetPcs
  <2>. QED
    BY <1>8, <2>1, <2>2 DEF LoginSteps
<1>9. CASE SyncSteps
  <2>1. CASE RestoreSession
    BY <1>3, <2>1 DEF RestoreSession, ConnectHub, SyncPcs, ForgetPcs
  <2>2. CASE ResolvePending
    <3>1. CASE pending_sync
      <4>1. main'.pc = "s_net" /\ main'.cont = "resolve" /\ hubq' = hubq /\ ~AutoUnlock
        BY <1>0, <2>2, <3>1 DEF ResolvePending, MainRecords, TasksInv
      <4>. QED
        BY <1>1, <1>2, <4>1 DEF TasksInv, ForgetPcs
    <3>2. CASE ~pending_sync
      BY <1>3, <2>2, <3>2 DEF ResolvePending, SyncPcs, ForgetPcs
    <3>. QED
      BY <3>1, <3>2
  <2>3. CASE SyncNet
    <3>1. main'.pc = "idle" \/ (main'.pc = "r_memory" /\ main'.cont = main.cont)
      BY <1>0, <2>3 DEF SyncNet, MainRecords
    <3>2. hubq' = hubq /\ (AutoUnlock => ~pending_sync')
      BY <2>3 DEF SyncNet, PendingAfterFailure, TasksInv, SyncPcs
    <3>. QED
      BY <1>1, <1>2, <2>3, <3>1, <3>2 DEF SyncNet, TasksInv, SyncPcs, ForgetPcs
  <2>4. CASE ReconcileMemory \/ ReconcileCached \/ ReconcileRefresh \/ ReconcileLck
    <3>1. ReconcileRefresh => main'.pc \in {"r_blocked", "r_lck", "load"} /\ main'.cont = main.cont
      BY <1>0 DEF ReconcileRefresh, MainRecords
    <3>2. /\ main.pc \in SyncPcs /\ main'.pc \in SyncPcs /\ main'.cont = main.cont
          /\ UNCHANGED <<hubq, pending_sync>>
      BY <2>4, <3>1 DEF ReconcileMemory, ReconcileCached, ReconcileRefresh, ReconcileLck, SyncPcs
    <3>. QED
      BY <1>1, <1>2, <3>2 DEF TasksInv, SyncPcs, ForgetPcs
  <2>5. CASE SyncLoad
    <3>1. ~AutoUnlock /\ main'.pc = "idle" /\ hubq' = hubq
      BY <2>5 DEF SyncLoad, TasksInv, SyncPcs
    <3>. QED
      BY <1>1, <1>2, <3>1 DEF TasksInv, SyncPcs
  <2>. QED
    BY <1>9, <2>1, <2>2, <2>3, <2>4, <2>5 DEF SyncSteps
<1>. QED
  BY <1>4, <1>5, <1>6, <1>7, <1>8, <1>9 DEF MainStep

LEMMA TasksNext == ASSUME StoresOrdered, TypeOK, TasksInv, [Next]_vars PROVE TasksInv'
<1>. USE MainMoves
<1>. USE DEF At, cloud
<1>0. Idle \in MainRecords
  BY IdleType
<1>1. ~AutoUnlock => LoopInv'
  BY LoopNext DEF TasksInv
<1>2. ASSUME main.pc = "idle", is_running' = is_running, hubq' \subseteq hubq,
             pending_sync' = pending_sync, main'.pc \notin SyncPcs \cup ForgetPcs
      PROVE  TasksInv'
  BY <1>1, <1>2 DEF TasksInv
<1>3. ASSUME is_running' = is_running, hubq' \subseteq HubEvents, pending_sync' = pending_sync,
             main' = main
      PROVE  TasksInv'
  BY <1>1, <1>3 DEF TasksInv
<1>4. CASE Command
  <2>1. /\ main.pc = "idle" /\ hubq' = hubq
        /\ is_running' = is_running /\ pending_sync' = pending_sync
    BY <1>4 DEF Command, CmdReplyOnly, CmdLock, CmdSync, CmdLogin, CmdSetPin, CmdForget,
       CmdUnlock, Begin, vars
  <2>2. CASE CmdForget
    <3>1. main'.pc = "f_lck" /\ ~AutoUnlock
      BY <2>2 DEF CmdForget, StoresOrdered
    <3>. QED
      BY <1>1, <2>1, <3>1 DEF TasksInv, SyncPcs
  <2>3. CASE CmdSetPin
    <3>1. main'.pc = "p_key"
      BY <1>0, <2>3 DEF CmdSetPin, MainRecords
    <3>. QED
      BY <1>2, <2>1, <3>1 DEF SyncPcs, ForgetPcs
  <2>4. ASSUME NEW c \in UnlockCommands, CmdUnlock(c) PROVE TasksInv'
    <3>1. main'.pc = "u_wait"
      BY <1>0, <2>4 DEF CmdUnlock, MainRecords
    <3>. QED
      BY <1>2, <2>1, <3>1 DEF SyncPcs, ForgetPcs
  <2>5. CASE CmdReplyOnly \/ CmdLock \/ CmdLogin
    <3>1. main'.pc \in {"idle", "lock_keys", "l_net"}
      BY <2>5 DEF CmdReplyOnly, CmdLock, CmdLogin, vars
    <3>. QED
      BY <1>2, <2>1, <3>1 DEF SyncPcs, ForgetPcs
  <2>. QED
    BY <1>4, <2>2, <2>3, <2>4, <2>5 DEF Command, CmdSync, StoresOrdered
<1>5. CASE LoopArm
  <2>1. CASE OnLogOut \/ OnRuntimeEvent \/ AutoLock
    <3>1. /\ main.pc = "idle" /\ main'.pc \in {"lock_keys", "restore", "resolve"}
          /\ hubq' \subseteq hubq /\ is_running' = is_running /\ pending_sync' = pending_sync
      BY <2>1 DEF OnLogOut, OnRuntimeEvent, AutoLock
    <3>. QED
      BY <1>2, <3>1 DEF SyncPcs, ForgetPcs
  <2>2. CASE TokenRefresh
    BY <1>3, <2>2 DEF TokenRefresh, ConnectHub
  <2>3. ASSUME NEW e \in {"CipherChanged", "FallbackSyncDue"}, OnSyncEvent(e) PROVE TasksInv'
    <3>1. ~AutoUnlock /\ hubq' \subseteq HubEvents /\ is_running'
      BY <2>3 DEF OnSyncEvent, StoresOrdered, TasksInv
    <3>2. main'.pc = "idle" \/ (main'.pc = "s_net" /\ main'.cont = "hub")
      BY <1>0, <2>3 DEF OnSyncEvent, MainRecords
    <3>. QED
      BY <1>1, <3>1, <3>2 DEF TasksInv, SyncPcs
  <2>. QED
    BY <1>5, <2>1, <2>2, <2>3 DEF LoopArm
<1>6. CASE World
  <2>1. CASE Restart
    <3>1. Started'
      BY <2>1, RestartStarted
    <3>. QED
      BY <1>1, <3>1 DEF Started, TasksInv, Idle, SyncPcs, ForgetPcs
  <2>2. CASE Watchdog
    BY <1>1, <2>2 DEF Watchdog, TasksInv, SyncPcs, ForgetPcs
  <2>3. CASE (\E i \in Items : RemoteChange(i)) \/ (\E e \in HubEvents : HubEvent(e))
    <3>1. hubq' \subseteq HubEvents
      BY <2>3 DEF RemoteChange, HubEvent, TasksInv
    <3>. QED
      BY <1>3, <2>3, <3>1 DEF RemoteChange, HubEvent
  <2>. QED
    BY <1>6, <2>1, <2>2, <2>3 DEF World, TransportExit, StoresOrdered
<1>7. ASSUME NEW r \in Requests, Spawn(r) \/ Handler(r) \/ Client(r) PROVE TasksInv'
  BY <1>3, <1>7, HandlerMoves DEF HandlerFrame, TasksInv
<1>8. CASE UNCHANGED vars
  BY <1>3, <1>8 DEF vars, TasksInv
<1>. QED
  BY <1>4, <1>5, <1>6, <1>7, <1>8, TasksMainStep DEF Next

\* A sync in a locked daemon is the one of a login.
LEMMA LockedSync ==
    ASSUME TasksInv
    PROVE  main.pc \in SyncPcs => ~vault_locked \/ main.cont = "login"
BY DEF TasksInv, LoopInv, SyncOfChange

\* A step that stores nothing, locks nothing and begins no critical part.
LEMMA CalmErased ==
    ASSUME ErasedInv, ui' = ui, vault_locked' => vault_locked,
           cached' \in {cached, NoKeys}, lck' \in {lck, 0},
           vault_locked /\ cached # NoKeys =>
             main.pc \notin {"lock_cached", "u_keys", "u_flag", "r_refresh", "r_lck", "load",
                             "l_flag"},
           vault_locked /\ lck # 0 =>
             main.pc \notin {"lock_cached", "lock_lck", "u_cached", "u_keys", "u_flag"},
           main'.pc \notin {"p_key", "p_write", "p_lck", "r_lck", "f_memory", "f_cached", "f_flag"}
    PROVE  ErasedInv'
BY DEF ErasedInv, Storing

LEMMA ErasedMainStep ==
    ASSUME StoresOrdered, TypeOK, CallerInv, TasksInv, ErasedInv, MainStep
    PROVE  ErasedInv'
<1>. USE MainMoves, LockedSync
<1>. USE DEF At, secrets
<1>0. ui' = ui /\ main \in MainRecords /\ is_running /\ Storing' = Storing
  BY HandlersKept DEF TypeOK, TaskType, TasksInv, Storing
<1>1. CASE LockSteps
  <2>1. CASE LockKeys
    BY <1>0, <2>1, CalmErased DEF LockKeys
  <2>2. CASE LockFlag
    BY <1>0, <2>2 DEF LockFlag, ErasedInv
  <2>3. CASE LockCached
    BY <1>0, <2>3 DEF LockCached, ErasedInv
  <2>4. CASE LockLck
    BY <1>0, <2>4 DEF LockLck, ErasedInv
  <2>5. CASE LockMemory
    BY <1>0, <2>5, CalmErased DEF LockMemory
  <2>. QED
    BY <1>1, <2>1, <2>2, <2>3, <2>4, <2>5 DEF LockSteps
<1>2. CASE UnlockSteps
  <2>1. CASE UnlockAnswered
    BY <1>0, <2>1, CalmErased DEF UnlockAnswered
  <2>2. CASE UnlockLck
    BY <1>0, <2>2 DEF UnlockLck, ErasedInv
  <2>3. CASE UnlockCached
    BY <1>0, <2>3 DEF UnlockCached, ErasedInv
  <2>4. CASE UnlockKeys
    <3>1. main'.pc = "u_flag" /\ UNCHANGED <<vault_locked, cached, lck>>
      BY <1>0, <2>4 DEF UnlockKeys
    <3>. QED
      BY <1>0, <3>1 DEF ErasedInv
  <2>5. CASE UnlockFlag
    BY <1>0, <2>5 DEF UnlockFlag, ErasedInv
  <2>. QED
    BY <1>2, <2>1, <2>2, <2>3, <2>4, <2>5 DEF UnlockSteps
<1>3. CASE SyncSteps
  <2>1. CASE RestoreSession \/ ReconcileMemory
    <3>1. /\ main.pc \in {"restore", "r_memory"} /\ main'.pc \in {"resolve", "r_cached"}
          /\ UNCHANGED <<vault_locked, cached, lck>>
      BY <2>1 DEF RestoreSession, ReconcileMemory
    <3>. QED
      BY <1>0, <3>1, CalmErased
  <2>2. CASE ResolvePending \/ SyncNet
    <3>1. main'.pc \in {"s_net", "r_memory", "idle"}
      BY <1>0, <2>2 DEF ResolvePending, SyncNet, MainRecords
    <3>2. main.pc \in {"resolve", "s_net"} /\ UNCHANGED <<vault_locked, cached, lck>>
      BY <2>2 DEF ResolvePending, SyncNet
    <3>. QED
      BY <1>0, <3>1, <3>2, CalmErased
  <2>3. CASE ReconcileCached
    BY <1>0, <2>3 DEF ReconcileCached, ErasedInv
  <2>4. CASE ReconcileRefresh
    <3>1. CASE main'.pc = "load"
      BY <1>0, <2>4, <3>1 DEF ReconcileRefresh, ErasedInv
    <3>2. CASE main'.pc = "r_blocked"
      <4>1. main.pc = "r_refresh" /\ main.guard /\ vault_locked' = vault_locked
        <5>1. [main EXCEPT !.pc = "r_lck", !.gen = lck].pc = "r_lck"
          BY <1>0 DEF MainRecords
        <5>2. ~Goto("load") /\ main' # [main EXCEPT !.pc = "r_lck", !.gen = lck]
          <6>1. ASSUME Goto("load") PROVE FALSE
            BY <3>2, <6>1
          <6>2. ASSUME main' = [main EXCEPT !.pc = "r_lck", !.gen = lck] PROVE FALSE
            BY <3>2, <5>1, <6>2
          <6>. QED
            BY <6>1, <6>2
        <5>3. main.pc = "r_refresh" /\ vault_locked' = vault_locked
          BY <2>4 DEF ReconcileRefresh
        <5>4. main.guard
          BY <2>4, <5>2 DEF ReconcileRefresh
        <5>. QED
          BY <5>3, <5>4
      <4>2. ~vault_locked
        BY <4>1 DEF CallerInv, SyncPcs
      <4>. QED
        BY <3>2, <4>1, <4>2 DEF ErasedInv
    <3>3. CASE main'.pc \notin {"r_blocked", "load"}
      <4>1. main'.pc = "r_lck" /\ lck # 0
        BY <1>0, <2>4, <3>3 DEF ReconcileRefresh, MainRecords
      <4>. QED
        BY <1>0, <2>4, <4>1 DEF ReconcileRefresh, ErasedInv
    <3>. QED
      BY <3>1, <3>2, <3>3
  <2>5. CASE ReconcileLck
    BY <1>0, <2>5 DEF ReconcileLck, ErasedInv
  <2>6. CASE SyncLoad
    <3>1. ~vault_locked /\ ~vault_locked' /\ main'.pc = "idle"
      BY <2>6 DEF SyncLoad, SyncPcs
    <3>. QED
      BY <3>1 DEF ErasedInv
  <2>. QED
    BY <1>3, <2>1, <2>2, <2>3, <2>4, <2>5, <2>6 DEF SyncSteps
<1>4. CASE LoginSteps
  <2>1. LoginNet => main'.pc \in {"idle", "r_memory"}
    BY <1>0 DEF LoginNet, MainRecords
  <2>2. CASE LoginNet \/ LoginSession
    <3>1. /\ main.pc \in {"l_net", "l_session"} /\ main'.pc \in {"idle", "r_memory", "resolve"}
          /\ UNCHANGED <<vault_locked, cached, lck>>
      BY <2>1, <2>2 DEF LoginNet, LoginSession
    <3>. QED
      BY <1>0, <3>1, CalmErased
  <2>3. CASE LoginLoad
    <3>1. main.pc = "load" /\ main'.pc = "l_flag" /\ UNCHANGED <<vault_locked, cached, lck>>
      BY <1>0, <2>3 DEF LoginLoad
    <3>. QED
      BY <1>0, <3>1 DEF ErasedInv
  <2>4. CASE LoginFlag
    BY <1>0, <2>4 DEF LoginFlag, ErasedInv
  <2>. QED
    BY <1>4, <2>2, <2>3, <2>4 DEF LoginSteps
<1>5. CASE SetPinSteps
  <2>1. SetPinKey => main'.pc = "p_write"
    BY <1>0 DEF SetPinKey, MainRecords
  <2>2. CASE SetPinKey \/ SetPinWrite
    <3>1. /\ main.pc \in {"p_key", "p_write"} /\ main'.pc \in {"idle", "p_write", "p_lck"}
          /\ UNCHANGED <<vault_locked, cached, lck>>
      BY <2>1, <2>2 DEF SetPinKey, SetPinWrite
    <3>. QED
      BY <1>0, <3>1 DEF ErasedInv
  <2>3. CASE SetPinLck
    BY <1>0, <2>3 DEF SetPinLck, ErasedInv
  <2>. QED
    BY <1>5, <2>2, <2>3 DEF SetPinSteps
<1>6. CASE ForgetSteps
  <2>1. CASE ForgetLck
    BY <1>0, <2>1 DEF ForgetLck, ErasedInv
  <2>2. CASE ForgetMemory
    BY <1>0, <2>2 DEF ForgetMemory, ErasedInv
  <2>3. CASE ForgetCached
    BY <1>0, <2>3 DEF ForgetCached, ErasedInv
  <2>4. CASE ForgetFlag
    BY <1>0, <2>4 DEF ForgetFlag, ErasedInv
  <2>5. CASE ForgetData \/ ForgetKeys
    <3>1. /\ main.pc \in {"f_data", "f_keys"} /\ main'.pc \in {"f_keys", "idle"}
          /\ UNCHANGED <<vault_locked, cached, lck>>
      BY <2>5 DEF ForgetData, ForgetKeys
    <3>. QED
      BY <1>0, <3>1, CalmErased
  <2>. QED
    BY <1>6, <2>1, <2>2, <2>3, <2>4, <2>5 DEF ForgetSteps
<1>. QED
  BY <1>1, <1>2, <1>3, <1>4, <1>5, <1>6 DEF MainStep

LEMMA ErasedNext ==
    ASSUME StoresOrdered, TypeOK, CallerInv, TasksInv, ErasedInv, [Next]_vars
    PROVE  ErasedInv'
<1>. USE MainMoves
<1>. USE DEF At, secrets
<1>1. CASE Command \/ LoopArm
  <2>0. ui' = ui /\ Idle \in MainRecords
    BY <1>1, HandlersKept, IdleType
  <2>1. /\ main.pc = "idle" /\ vault_locked' = vault_locked /\ cached' = cached /\ lck' = lck
    BY <1>1 DEF Command, CmdReplyOnly, CmdLock, CmdSync, CmdLogin, CmdSetPin, CmdForget,
       CmdUnlock, LoopArm, OnLogOut, OnRuntimeEvent, AutoLock, TokenRefresh, OnSyncEvent, Begin,
       vars
  <2>2. CASE CmdSetPin
    <3>1. main'.pc = "p_key" /\ cached # NoKeys
      BY <2>0, <2>2 DEF CmdSetPin, MainRecords
    <3>. QED
      BY <2>0, <2>1, <3>1 DEF ErasedInv, Storing
  <2>3. CASE ~CmdSetPin
    <3>1. ASSUME NEW c \in UnlockCommands, CmdUnlock(c) PROVE main'.pc = "u_wait"
      BY <2>0, <3>1 DEF CmdUnlock, MainRecords
    <3>2. ASSUME NEW e, OnSyncEvent(e) PROVE main'.pc \in {"idle", "s_net"}
      BY <2>0, <2>1, <3>2 DEF OnSyncEvent, MainRecords
    <3>3. CmdSync => main'.pc = "s_net"
      BY <2>0 DEF CmdSync, MainRecords
    <3>4. CASE Command
      <4>1. main'.pc \in {"idle", "lock_keys", "s_net", "l_net", "f_lck", "u_wait"}
        BY <2>1, <2>3, <3>1, <3>3, <3>4 DEF Command, CmdReplyOnly, CmdLock, CmdLogin, CmdForget,
           vars
      <4>. QED
        BY <2>0, <2>1, <4>1, CalmErased
    <3>5. CASE LoopArm
      <4>1. main'.pc \in {"idle", "lock_keys", "restore", "resolve", "s_net"}
        BY <2>1, <3>2, <3>5 DEF LoopArm, OnLogOut, OnRuntimeEvent, AutoLock, TokenRefresh
      <4>. QED
        BY <2>0, <2>1, <4>1, CalmErased
    <3>. QED
      BY <1>1, <3>4, <3>5
  <2>. QED
    BY <2>2, <2>3
<1>2. CASE World
  <2>1. CASE Restart
    <3>1. Started'
      BY <2>1, RestartStarted
    <3>. QED
      BY <3>1 DEF Started, ErasedInv, Idle
  <2>2. CASE Watchdog
    BY <2>2, CalmErased DEF Watchdog
  <2>3. CASE ~Restart /\ ~Watchdog
    <3>1. UNCHANGED <<main, ui, vault_locked, cached, lck>>
      BY <1>2, <2>3 DEF World, TransportExit, RemoteChange, HubEvent
    <3>. QED
      BY <3>1 DEF ErasedInv, Storing
  <2>. QED
    BY <2>1, <2>2, <2>3
<1>3. ASSUME NEW r \in Requests, Spawn(r) \/ Handler(r) \/ Client(r) PROVE ErasedInv'
  <2>1. HandlerFrame(r) /\ (QuietMove(r) \/ LoudMove(r))
    BY <1>3, HandlerMoves
  <2>2. main' = main /\ is_running /\ \A q \in Requests \ {r} : ui'[q] = ui[q]
    BY <2>1 DEF HandlerFrame, TasksInv
  <2>3. /\ vault_locked' => vault_locked /\ (Storing => Storing')
        /\ cached' = cached \/ Storing'
        /\ lck' = lck \/ Storing'
    <3>1. CASE QuietMove(r)
      <4>1. ui[r].pc \notin {"load", "lck", "flag"}
        BY <2>2, <3>1 DEF QuietMove
      <4>. QED
        BY <2>2, <3>1, <4>1 DEF QuietMove, Storing
    <3>2. CASE LoudMove(r)
      BY <2>2, <3>2 DEF LoudMove, Storing
    <3>. QED
      BY <2>1, <3>1, <3>2
  <2>4. AutoUnlock \/ (cached' = cached /\ lck' = lck)
    <3>1. ~AutoUnlock => ui[r].pc \notin UnlockPcs
      BY DEF TasksInv, LoopInv, NoAutoUnlock
    <3>. QED
      BY <2>1, <3>1 DEF QuietMove, LoudMove, UnlockPcs
  <2>5. AutoUnlock => main.pc \notin ForgetPcs
    BY DEF TasksInv
  <2>. QED
    BY <2>2, <2>3, <2>4, <2>5 DEF ErasedInv, ForgetPcs
<1>4. CASE UNCHANGED vars
  BY <1>4 DEF vars, ErasedInv, Storing
<1>. QED
  BY <1>1, <1>2, <1>3, <1>4, ErasedMainStep DEF Next

\* When the loop is idle and no auto-unlock is half way, a locked daemon holds
\* neither private key tuples nor the local cache key: lock_vault sets the flag
\* before it clears, a handler clears the flag after it has stored, and however
\* the two interleave one of them cleans up or unlocks.
THEOREM LockErases ==
    ASSUME StoresOrdered
    PROVE  Spec => []LockErasesSecrets
<1>1. Init => CallerInv /\ TasksInv /\ ErasedInv
  BY InitStarted, StartedLoop, StartedCaller
     DEF Started, TasksInv, ErasedInv, Idle, SyncPcs, ForgetPcs
<1>2. TypeOK /\ CallerInv /\ TasksInv /\ ErasedInv /\ [Next]_vars
        => CallerInv' /\ TasksInv' /\ ErasedInv'
  BY CallerNext, TasksNext, ErasedNext
<1>3. ErasedInv => LockErasesSecrets
  BY DEF ErasedInv, LockErasesSecrets, Quiescent, Storing, UnlockPcs, At
<1>. QED
  BY <1>1, <1>2, <1>3, InitType, NextType, PTL DEF Spec

-----------------------------------------------------------------------------
(* Approvals are for the material in the agent.                            *)

\* lock_vault between its flag and its memory; a task that puts other keys into
\* the agent, or takes them out, without a look at the memory; and a sync that
\* has been through the memory.
ClearingPcs  == {"lock_cached", "lock_lck", "lock_memory"}
UnsettledPcs == {"u_wait", "u_lck", "u_cached", "u_keys", "u_flag",
                 "f_cached", "f_flag", "f_data", "f_keys"}
ReviewedPcs  == {"r_cached", "r_refresh", "r_blocked", "r_lck", "load"}

\* What holds of approval a while it is remembered: nobody is about to unlock,
\* the agent and the fingerprints have its material or none, and so has the
\* answer of a sync that let it pass.
Sound(a) ==
    /\ ~vault_locked
    /\ \A r \in Requests : ui[r].pc \notin UnlockPcs \cup {"capture"}
    /\ main.pc \notin UnsettledPcs
    /\ keystore[a[1]].ver \in {0, approved[a]}
    /\ fingerprints[a[1]] \in {0, approved[a]}
    /\ main.pc \in ReviewedPcs => main.keys[a[1]] = fingerprints[a[1]]

FitsInv == \/ main.pc \in ClearingPcs
           \/ \A a \in memory : approved[a] # 0 => Sound(a)

\* A step that touches neither the agent's material nor its record.
LEMMA CalmFits ==
    ASSUME FitsInv, main.pc \notin ClearingPcs, ui' = ui, vault_locked' => vault_locked,
           memory' \subseteq memory, UNCHANGED <<keystore, fingerprints, approved>>,
           main'.pc \notin UnsettledPcs,
           main'.pc \in ReviewedPcs => main.pc \in ReviewedPcs /\ main'.keys = main.keys
    PROVE  FitsInv'
BY DEF FitsInv, Sound

\* A step with no approval to lose.
LEMMA NoneToLose ==
    ASSUME memory' \subseteq memory, approved' = approved, \A a \in memory : approved[a] = 0
    PROVE  FitsInv'
BY DEF FitsInv

LEMMA FitsMainStep == ASSUME TypeOK, FitsInv, MainStep PROVE FitsInv'
<1>. USE MainMoves
<1>. USE DEF At, secrets, history
<1>0. ui' = ui /\ main \in MainRecords /\ memory \subseteq Items \X Ops /\ keystore \in Keystores
  BY HandlersKept DEF TypeOK, TaskType, ApprovalType, AgentType
<1>1. main.keys \in KeySet /\ \A i \in Items : Private(main.keys)[i].ver = main.keys[i]
  BY <1>0, MainFields DEF Private
<1>2. \A a \in memory : a[1] \in Items
  BY <1>0
<1>3. ASSUME main.pc \notin ClearingPcs, main.pc \in UnsettledPcs
      PROVE  \A a \in memory : approved[a] = 0
  BY <1>3 DEF FitsInv, Sound
<1>4. CASE LockSteps
  <2>1. CASE LockKeys
    <3>1. \A i \in Items : keystore'[i].ver = keystore[i].ver
      BY <1>0, <2>1 DEF LockKeys, Keystores, Entries
    <3>2. /\ main.pc \notin ClearingPcs /\ main'.pc \notin UnsettledPcs \cup ReviewedPcs
          /\ UNCHANGED <<vault_locked, memory, fingerprints, approved>>
      BY <2>1 DEF LockKeys, ClearingPcs, UnsettledPcs, ReviewedPcs
    <3>. QED
      BY <1>0, <1>2, <3>1, <3>2 DEF FitsInv, Sound
  <2>2. CASE LockFlag \/ LockCached \/ LockLck
    BY <2>2 DEF LockFlag, LockCached, LockLck, FitsInv, ClearingPcs
  <2>3. CASE LockMemory
    BY <2>3 DEF LockMemory, FitsInv
  <2>. QED
    BY <1>4, <2>1, <2>2, <2>3 DEF LockSteps
<1>5. CASE UnlockSteps
  <2>1. main.pc \in UnsettledPcs /\ main.pc \notin ClearingPcs
    BY <1>5 DEF UnlockSteps, UnlockAnswered, UnlockLck, UnlockCached, UnlockKeys, UnlockFlag,
       UnsettledPcs, ClearingPcs
  <2>2. UNCHANGED <<memory, approved>>
    BY <1>5 DEF UnlockSteps, UnlockAnswered, UnlockLck, UnlockCached, UnlockKeys, UnlockFlag
  <2>. QED
    BY <1>3, <2>1, <2>2, NoneToLose
<1>6. CASE SyncSteps
  <2>1. CASE RestoreSession
    BY <1>0, <2>1, CalmFits DEF RestoreSession, ClearingPcs, UnsettledPcs, ReviewedPcs
  <2>2. CASE ResolvePending \/ SyncNet
    <3>1. main.pc \notin ClearingPcs /\ main'.pc \in {"s_net", "r_memory", "idle"}
      BY <1>0, <2>2 DEF ResolvePending, SyncNet, MainRecords, ClearingPcs
    <3>2. UNCHANGED <<vault_locked, memory, keystore, fingerprints, approved>>
      BY <2>2 DEF ResolvePending, SyncNet
    <3>. QED
      BY <1>0, <3>1, <3>2, CalmFits DEF UnsettledPcs, ReviewedPcs
  <2>3. CASE ReconcileMemory
    <3>1. /\ main.pc \notin ClearingPcs /\ main'.pc = "r_cached" /\ main'.keys = main.keys
          /\ UNCHANGED <<vault_locked, keystore, fingerprints, approved>>
      BY <2>3 DEF ReconcileMemory, ClearingPcs
    <3>2. /\ memory' \subseteq memory
          /\ \A a \in memory' : fingerprints[a[1]] = main.keys[a[1]]
      BY <2>3 DEF ReconcileMemory, UnchangedItems
    <3>. QED
      BY <1>0, <3>1, <3>2 DEF FitsInv, Sound, UnsettledPcs
  <2>4. CASE ReconcileCached
    <3>1. /\ main.pc \notin ClearingPcs /\ main.pc \in ReviewedPcs
          /\ main'.pc = "r_refresh" /\ main'.keys = main.keys
          /\ UNCHANGED <<vault_locked, keystore, memory, approved>>
          /\ fingerprints' = main.keys
      BY <2>4 DEF ReconcileCached, ClearingPcs, ReviewedPcs
    <3>. QED
      BY <1>0, <3>1 DEF FitsInv, Sound, UnsettledPcs
  <2>5. CASE ReconcileRefresh
    <3>1. /\ main'.pc \in {"r_blocked", "r_lck", "load"} /\ main'.keys = main.keys
      BY <1>0, <2>5 DEF ReconcileRefresh, MainRecords
    <3>2. /\ main.pc = "r_refresh"
          /\ UNCHANGED <<vault_locked, keystore, memory, fingerprints, approved>>
      BY <2>5 DEF ReconcileRefresh
    <3>. QED
      BY <1>0, <3>1, <3>2, CalmFits DEF ClearingPcs, UnsettledPcs, ReviewedPcs
  <2>6. CASE ReconcileLck
    <3>1. /\ main.pc = "r_lck" /\ main'.pc = "load" /\ main'.keys = main.keys
          /\ UNCHANGED <<vault_locked, keystore, memory, fingerprints, approved>>
      BY <2>6 DEF ReconcileLck
    <3>. QED
      BY <1>0, <3>1, CalmFits DEF ClearingPcs, UnsettledPcs, ReviewedPcs
  <2>7. CASE SyncLoad
    <3>1. /\ main.pc = "load" /\ main'.pc = "idle"
          /\ UNCHANGED <<vault_locked, memory, fingerprints, approved>>
          /\ keystore' = keystore \/ keystore' = Private(main.keys)
      BY <2>7 DEF SyncLoad
    <3>. QED
      BY <1>0, <1>1, <1>2, <3>1 DEF FitsInv, Sound, ClearingPcs, UnsettledPcs, ReviewedPcs
  <2>. QED
    BY <1>6, <2>1, <2>2, <2>3, <2>4, <2>5, <2>6, <2>7 DEF SyncSteps
<1>7. CASE LoginSteps
  <2>1. CASE LoginNet
    <3>1. /\ main.pc = "l_net" /\ main'.pc \in {"idle", "r_memory"}
          /\ UNCHANGED <<vault_locked, keystore, memory, fingerprints, approved>>
      BY <1>0, <2>1 DEF LoginNet, MainRecords
    <3>. QED
      BY <1>0, <3>1, CalmFits DEF ClearingPcs, UnsettledPcs, ReviewedPcs
  <2>2. CASE LoginLoad
    <3>1. /\ main.pc = "load" /\ main'.pc \in {"idle", "l_flag"}
          /\ UNCHANGED <<vault_locked, memory, fingerprints, approved>>
          /\ keystore' = keystore \/ keystore' = Private(main.keys)
      BY <2>2 DEF LoginLoad
    <3>. QED
      BY <1>0, <1>1, <1>2, <3>1 DEF FitsInv, Sound, ClearingPcs, UnsettledPcs, ReviewedPcs
  <2>3. CASE LoginFlag \/ LoginSession
    <3>1. /\ main.pc \in {"l_flag", "l_session"} /\ main'.pc \in {"l_session", "resolve"}
          /\ UNCHANGED <<keystore, memory, fingerprints, approved>>
          /\ vault_locked' => vault_locked
      BY <2>3 DEF LoginFlag, LoginSession
    <3>. QED
      BY <1>0, <3>1, CalmFits DEF ClearingPcs, UnsettledPcs, ReviewedPcs
  <2>. QED
    BY <1>7, <2>1, <2>2, <2>3 DEF LoginSteps
<1>8. CASE SetPinSteps
  <2>1. SetPinKey => main'.pc = "p_write"
    BY <1>0 DEF SetPinKey, MainRecords
  <2>2. /\ main.pc \in {"p_key", "p_write", "p_lck"} /\ main'.pc \in {"p_write", "p_lck", "idle"}
        /\ UNCHANGED <<vault_locked, keystore, memory, fingerprints, approved>>
    BY <1>8, <2>1 DEF SetPinSteps, SetPinKey, SetPinWrite, SetPinLck
  <2>. QED
    BY <1>0, <2>2, CalmFits DEF ClearingPcs, UnsettledPcs, ReviewedPcs
<1>9. CASE ForgetSteps
  <2>1. CASE ForgetLck
    BY <1>0, <2>1, CalmFits DEF ForgetLck, ClearingPcs, UnsettledPcs, ReviewedPcs
  <2>2. CASE ForgetMemory
    BY <2>2 DEF ForgetMemory, FitsInv
  <2>3. CASE ForgetCached \/ ForgetFlag \/ ForgetData \/ ForgetKeys
    <3>1. main.pc \in UnsettledPcs /\ main.pc \notin ClearingPcs
      BY <2>3 DEF ForgetCached, ForgetFlag, ForgetData, ForgetKeys, UnsettledPcs, ClearingPcs
    <3>2. UNCHANGED <<memory, approved>>
      BY <2>3 DEF ForgetCached, ForgetFlag, ForgetData, ForgetKeys
    <3>. QED
      BY <1>3, <3>1, <3>2, NoneToLose
  <2>. QED
    BY <1>9, <2>1, <2>2, <2>3 DEF ForgetSteps
<1>. QED
  BY <1>4, <1>5, <1>6, <1>7, <1>8, <1>9 DEF MainStep

LEMMA FitsHandler ==
    ASSUME TypeOK, FitsInv, NEW r \in Requests, Spawn(r) \/ Handler(r) \/ Client(r)
    PROVE  FitsInv'
<1>. USE DEF secrets
<1>1. HandlerFrame(r) /\ (QuietMove(r) \/ LoudMove(r))
  BY HandlerMoves
<1>2. main' = main /\ fingerprints' = fingerprints /\ \A q \in Requests \ {r} : ui'[q] = ui[q]
  BY <1>1 DEF HandlerFrame
<1>3. CASE main.pc \in ClearingPcs
  BY <1>2, <1>3 DEF FitsInv
<1>. SUFFICES ASSUME main.pc \notin ClearingPcs, \A a \in memory : approved[a] # 0 => Sound(a)
              PROVE  FitsInv'
  BY <1>3 DEF FitsInv
<1>4. ASSUME ui'[r].pc \notin UnlockPcs \cup {"capture"}, NEW a, Sound(a),
             UNCHANGED <<vault_locked, keystore>>, approved'[a] = approved[a]
      PROVE  Sound(a)'
  BY <1>2, <1>4 DEF Sound
<1>5. CASE QuietMove(r)
  <2>1. ASSUME NEW a, Sound(a) PROVE ui'[r].pc \notin UnlockPcs \cup {"capture"}
    BY <1>5, <2>1 DEF QuietMove, Sound, UnlockPcs
  <2>. QED
    BY <1>4, <1>5, <2>1 DEF QuietMove, FitsInv
<1>6. CASE LoudMove(r)
  <2>1. CASE ui[r].pc \in UnlockPcs
    <3>1. \A a \in memory : approved[a] = 0
      BY <2>1 DEF Sound
    <3>2. UNCHANGED <<memory, approved>>
      BY <1>6, <2>1 DEF LoudMove, UnlockPcs
    <3>. QED
      BY <3>1, <3>2, NoneToLose
  <2>2. CASE ui[r].pc = "send"
    <3>1. UNCHANGED <<vault_locked, keystore, memory, approved>> /\ ui'[r].pc \in {"prompt", "done"}
      BY <1>6, <2>2 DEF LoudMove
    <3>. QED
      BY <1>4, <3>1 DEF FitsInv, UnlockPcs
  <2>3. CASE ui[r].pc = "insert"
    <3>. PICK a : a = <<ui[r].item, ui[r].op>>
      OBVIOUS
    <3>0. a \in Items \X Ops /\ a[1] = ui[r].item /\ approved \in [Items \X Ops -> Versions]
      BY UiFields DEF TypeOK, TaskType, ApprovalType
    <3>1. /\ UNCHANGED <<vault_locked, keystore>> /\ ui'[r].pc = "done"
          /\ memory' = memory \cup {a}
          /\ approved' = [approved EXCEPT ![a] = IF Settled(a[1]) THEN keystore[a[1]].ver ELSE 0]
      BY <1>6, <2>3, <3>0 DEF LoudMove
    <3>2. approved'[a] = (IF Settled(a[1]) THEN keystore[a[1]].ver ELSE 0)
      BY <3>0, <3>1
    <3>3. ASSUME approved'[a] # 0 PROVE Sound(a)'
      <4>1. Settled(a[1]) /\ approved'[a] = keystore[a[1]].ver
        BY <3>2, <3>3
      <4>2. /\ ~vault_locked' /\ keystore'[a[1]].ver = approved'[a]
            /\ fingerprints'[a[1]] \in {0, approved'[a]}
        BY <1>2, <3>1, <4>1 DEF Settled
      <4>3. \A q \in Requests : ui'[q].pc \notin UnlockPcs \cup {"capture"}
        BY <1>2, <3>1, <4>1 DEF Settled, UnlockPcs
      <4>4. main'.pc = "idle"
        BY <1>2, <4>1 DEF Settled, At
      <4>. QED
        BY <4>2, <4>3, <4>4 DEF Sound, UnsettledPcs, ReviewedPcs
    <3>4. ASSUME NEW b \in memory, b # a, approved'[b] # 0 PROVE Sound(b)'
      <4>1. b \in Items \X Ops /\ approved'[b] = approved[b]
        BY <3>0, <3>1, <3>4 DEF TypeOK, ApprovalType
      <4>2. ui'[r].pc \notin UnlockPcs \cup {"capture"}
        BY <3>1 DEF UnlockPcs
      <4>. QED
        BY <1>4, <3>1, <3>4, <4>1, <4>2
    <3>. QED
      BY <3>1, <3>3, <3>4 DEF FitsInv
  <2>. QED
    BY <1>6, <2>1, <2>2, <2>3 DEF LoudMove, UnlockPcs
<1>. QED
  BY <1>1, <1>5, <1>6

LEMMA FitsNext == TypeOK /\ FitsInv /\ [Next]_vars => FitsInv'
<1>. SUFFICES ASSUME TypeOK, FitsInv, [Next]_vars PROVE FitsInv'
  OBVIOUS
<1>. USE MainMoves
<1>. USE DEF At, secrets, history
<1>0. Idle \in MainRecords
  BY IdleType
<1>1. CASE Command \/ LoopArm
  <2>0. ui' = ui /\ main.pc = "idle" /\ main.pc \notin ClearingPcs
    <3>1. main.pc = "idle"
      BY <1>1 DEF Command, CmdReplyOnly, CmdLock, CmdSync, CmdLogin, CmdSetPin, CmdForget,
         CmdUnlock, LoopArm, OnLogOut, OnRuntimeEvent, AutoLock, TokenRefresh, OnSyncEvent, Begin
    <3>. QED
      BY <1>1, <3>1, HandlersKept DEF ClearingPcs
  <2>1. UNCHANGED <<vault_locked, memory, keystore, fingerprints, approved>>
    <3>1. CASE Command
      BY <3>1 DEF Command, CmdReplyOnly, CmdLock, CmdSync, CmdLogin, CmdSetPin, CmdForget,
         CmdUnlock, vars
    <3>2. CASE LoopArm
      BY <3>2 DEF LoopArm, OnLogOut, OnRuntimeEvent, AutoLock, TokenRefresh, OnSyncEvent
    <3>. QED
      BY <1>1, <3>1, <3>2
  <2>2. ASSUME main'.pc \in {"idle", "lock_keys", "s_net", "l_net", "p_key", "f_lck", "restore",
                             "resolve"}
        PROVE  FitsInv'
    BY <2>0, <2>1, <2>2, CalmFits DEF UnsettledPcs, ReviewedPcs
  <2>3. ASSUME NEW c \in UnlockCommands, CmdUnlock(c) PROVE FitsInv'
    <3>1. \A a \in memory : approved[a] = 0
      BY <2>0, <2>3 DEF CmdUnlock, FitsInv, Sound
    <3>. QED
      BY <2>1, <3>1, NoneToLose
  <2>4. CASE CmdSync \/ CmdSetPin \/ \E e \in {"CipherChanged", "FallbackSyncDue"} : OnSyncEvent(e)
    <3>1. main'.pc \in {"idle", "s_net", "p_key"}
      BY <1>0, <2>0, <2>4, ZenonT(40) DEF CmdSync, CmdSetPin, OnSyncEvent, MainRecords
    <3>. QED
      BY <2>2, <3>1
  <2>5. CASE CmdReplyOnly \/ CmdLock \/ CmdLogin \/ CmdForget
    <3>1. main'.pc \in {"idle", "lock_keys", "l_net", "f_lck"}
      BY <2>0, <2>5 DEF CmdReplyOnly, CmdLock, CmdLogin, CmdForget, vars
    <3>. QED
      BY <2>2, <3>1
  <2>6. CASE OnLogOut \/ OnRuntimeEvent \/ AutoLock \/ TokenRefresh
    <3>1. main'.pc \in {"idle", "lock_keys", "restore", "resolve"}
      BY <2>0, <2>6 DEF OnLogOut, OnRuntimeEvent, AutoLock, TokenRefresh
    <3>. QED
      BY <2>2, <3>1
  <2>. QED
    BY <1>1, <2>3, <2>4, <2>5, <2>6 DEF Command, LoopArm
<1>2. CASE World
  <2>1. CASE Restart
    BY <2>1 DEF Restart, FitsInv
  <2>2. CASE Watchdog
    <3>1. main.pc \notin ClearingPcs /\ main'.pc = "idle"
      BY <2>2 DEF Watchdog, ClearingPcs
    <3>. QED
      BY <2>2, <3>1, CalmFits DEF Watchdog, UnsettledPcs, ReviewedPcs
  <2>3. CASE ~Restart /\ ~Watchdog
    <3>1. UNCHANGED <<main, ui, vault_locked, memory, keystore, fingerprints, approved>>
      BY <1>2, <2>3 DEF World, TransportExit, RemoteChange, HubEvent
    <3>. QED
      BY <3>1 DEF FitsInv, Sound
  <2>. QED
    BY <2>1, <2>2, <2>3
<1>3. CASE UNCHANGED vars
  BY <1>3 DEF vars, FitsInv, Sound
<1>. QED
  BY <1>1, <1>2, <1>3, FitsMainStep, FitsHandler DEF Next

\* An approval remembered by a settled daemon is for the key material the agent
\* has whenever the vault is unlocked and nothing is under way, in every
\* configuration: with auto-unlock, manual syncs, logins, files that cannot be
\* written, and commands the watchdog drops half way
\* (clear_authorization_memory_for_changed_keys_async, lock_vault).
THEOREM ApprovalsFit == Spec => []ApprovalFitsMaterial
<1>1. Init => FitsInv
  BY DEF Init, FitsInv
<1>2. FitsInv => ApprovalFitsMaterial
  BY DEF FitsInv, Sound, ClearingPcs, ApprovalFitsMaterial, Quiescent, At
<1>. QED
  BY <1>1, <1>2, InitType, NextType, FitsNext, PTL DEF Spec
=============================================================================
