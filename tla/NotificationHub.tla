---------------------------- MODULE NotificationHub ----------------------------
(***************************************************************************)
(* The notification client: its background task (run_message_loop), the    *)
(* bounded channel to the daemon, and the daemon's side of it (connect,    *)
(* replace, receive).  Elapsed time is left open: a wait ends, and the     *)
(* fallback throttle runs out, at some point.  The replaced task of an     *)
(* earlier client shares nothing with its successor, so a new client       *)
(* starts once the old task has ended.                                     *)
(***************************************************************************)
EXTENDS Naturals, Sequences

CONSTANTS
    ChannelCap,        \* bound: capacity of the event channel (32 in the code)
    FallbackAfter,     \* reconnect_attempts_before_fallback
    MaxBackoff,        \* reconnect_max_backoff
    FallbackEnabled,   \* fallback_sync_interval is not zero
    Stops              \* the daemon stops or replaces its client

ASSUME HubAssumption ==
    /\ ChannelCap \in Nat \ {0} /\ MaxBackoff \in Nat \ {0}
    /\ FallbackAfter \in Nat
    /\ {FallbackEnabled, Stops} \subseteq BOOLEAN

VARIABLES
    pc,          \* the background task; "off" before a client exists
    sock,        \* the socket: none, up, or dead without either side having noticed
    wire,        \* a vault change is on its way through the socket
    chan,        \* the event channel
    rx,          \* the daemon holds the receiver
    cancelled,   \* the cancellation token
    consecutive_failures,
    backoff,
    throttled,   \* a fallback event was sent less than fallback_sync_interval ago
    mirror,      \* NotificationRuntimeState.state, the daemon's copy
    pending,     \* pending_sync
    resolving,   \* the loop is inside resolve_pending_sync, pending_sync already cleared
    synced,      \* last_sync_at is set
    dropped,     \* history: the last status of the client did not fit in the channel
    stale,       \* history: the vault changed after the last successful sync
    missed,      \* history: such a change went by while no socket or no receiver was there
    lost         \* history: such a change was pending for a resolution that was dropped

client == <<pc, cancelled, consecutive_failures, backoff, throttled>>
sync == <<pending, resolving, synced, stale, lost>>
vars == <<client, sock, wire, chan, rx, mirror, sync, dropped, missed>>

States == {"NotStarted", "Connecting", "Connected", "Degraded", "Stopped"}
Events == {"CipherChanged", "FallbackSyncDue"}
Pcs == {"off", "connect", "reading", "deliver", "lost", "lost_send", "lost_status",
        "fail", "fail_send", "wait"}
Smaller(a, b) == IF a <= b THEN a ELSE b

\* Every variable stays in its type; the channel never exceeds its capacity and
\* the backoff never exceeds its maximum.
HubTypeOK ==
    /\ pc \in Pcs /\ sock \in {"none", "up", "dead"}
    /\ chan \in Seq(States \cup Events) /\ Len(chan) <= ChannelCap
    /\ mirror \in States
    /\ consecutive_failures \in 0 .. FallbackAfter
    /\ backoff \in 1 .. MaxBackoff
    /\ wire \in BOOLEAN /\ rx \in BOOLEAN /\ cancelled \in BOOLEAN /\ throttled \in BOOLEAN
    /\ pending \in BOOLEAN /\ resolving \in BOOLEAN /\ synced \in BOOLEAN
    /\ dropped \in BOOLEAN /\ stale \in BOOLEAN /\ missed \in BOOLEAN /\ lost \in BOOLEAN

\* No client: the daemon has not connected yet, or the task has ended.
Init ==
    /\ pc = "off" /\ sock = "none" /\ wire = FALSE
    /\ chan = << >> /\ rx = FALSE /\ cancelled = FALSE
    /\ consecutive_failures = 0 /\ backoff = 1 /\ throttled = FALSE
    /\ mirror = "NotStarted" /\ pending = FALSE /\ resolving = FALSE /\ synced = FALSE
    /\ dropped = FALSE /\ stale = FALSE /\ missed = FALSE /\ lost = FALSE

-----------------------------------------------------------------------------
(* The channel.                                                            *)

\* Whether a sender finds room; the mutant never looks.
RoomIgnored == TRUE
Room        == Len(chan) < ChannelCap

\* An event waits in the channel for the daemon.
Queued == \E i \in DOMAIN chan : chan[i] \in Events

\* publish_status: try_send, dropped when the channel is full or closed.
Publish(s) ==
    /\ chan' = IF rx /\ Room THEN Append(chan, s) ELSE chan
    /\ dropped' = ~(rx /\ Room)

\* event_tx.send(e).await: waits for room, fails when the receiver is gone.
Send(e) == IF rx THEN Room /\ chan' = Append(chan, e) ELSE UNCHANGED chan

-----------------------------------------------------------------------------
(* The daemon's side: connect_notification_client and the loop's hub arm.  *)

\* One eager attempt, then the background task.  The daemon writes Connected
\* into its mirror whether or not the eager attempt succeeded; the channel
\* already holds the client's own first status.
Start(ok) ==
    /\ ~resolving /\ pc = "off" /\ ~rx
    /\ rx' = TRUE /\ cancelled' = FALSE
    /\ pc' = IF ok THEN "reading" ELSE "connect"
    /\ sock' = IF ok THEN "up" ELSE "none"
    /\ chan' = IF ok /\ ChannelCap > 1 THEN <<"Connecting", "Connected">> ELSE <<"Connecting">>
    /\ dropped' = (ok /\ ChannelCap = 1)
    /\ consecutive_failures' = 0 /\ backoff' = 1 /\ throttled' = FALSE
    /\ mirror' = "Connected"
    /\ UNCHANGED <<wire, sync, missed>>

\* The attempt as a whole runs into the daemon's own timeout: no client.
StartTimesOut ==
    /\ ~resolving /\ pc = "off" /\ ~rx
    /\ mirror' = "Degraded"
    /\ UNCHANGED <<client, sock, wire, chan, rx, sync, dropped, missed>>

\* The receiver after a stop; the mutant forgets to drop it.
ReceiverAfterStopKept == rx
ReceiverAfterStop     == FALSE

\* The old client is cancelled and its receiver dropped, with what is queued.
StopClient ==
    /\ Stops /\ ~resolving /\ rx
    /\ cancelled' = TRUE
    /\ rx' = ReceiverAfterStop
    /\ chan' = IF rx' THEN chan ELSE << >>
    /\ mirror' = "Connecting"
    /\ missed' = (missed \/ Queued)
    /\ UNCHANGED <<pc, consecutive_failures, backoff, throttled, sock, wire, sync,
                   dropped>>

\* do_sync succeeded: the daemon holds the vault as it is now.
Synced ==
    /\ synced' = TRUE /\ stale' = FALSE /\ missed' = FALSE /\ lost' = FALSE

\* The loop's hub arm.  A status goes into the mirror; an event makes the daemon
\* sync, or, when the vault is locked or the sync fails, remember to.
Receive ==
    /\ ~resolving /\ rx /\ ~cancelled /\ chan # << >>
    /\ chan' = Tail(chan)
    /\ \/ /\ Head(chan) \in States
          /\ mirror' = Head(chan)
          /\ UNCHANGED <<sync, missed>>
       \/ /\ Head(chan) \in Events
          /\ \/ Synced /\ UNCHANGED pending
             \/ pending' = TRUE /\ UNCHANGED <<synced, stale, missed, lost>>
          /\ UNCHANGED <<mirror, resolving>>
    /\ UNCHANGED <<client, sock, wire, rx, dropped>>

-----------------------------------------------------------------------------
(* Syncs that no hub event asks for.                                       *)

\* resolve_pending_sync after an unlock: the flag is cleared before the server
\* is asked, and the loop does nothing else until the sync is over.
ResolvePending ==
    /\ ~resolving /\ pending
    /\ pending' = FALSE /\ resolving' = TRUE
    /\ UNCHANGED <<client, sock, wire, chan, rx, mirror, synced, stale, dropped, missed, lost>>

ResolveSucceeds ==
    /\ resolving /\ resolving' = FALSE
    /\ Synced
    /\ UNCHANGED <<client, sock, wire, chan, rx, mirror, pending, dropped>>

\* The flag after a sync that returned an error; the mutant leaves it cleared.
PendingAfterErrorCleared == pending
PendingAfterError        == TRUE

ResolveFails ==
    /\ resolving /\ resolving' = FALSE
    /\ pending' = PendingAfterError
    /\ UNCHANGED <<client, sock, wire, chan, rx, mirror, synced, stale, dropped, missed, lost>>

\* run_control_action gives up on the command: the server does not answer, or
\* `unlock` waits for the cache copy that it holds itself (sync.rs:60).  Nobody
\* sets the flag again.
ResolveDropped ==
    /\ resolving /\ resolving' = FALSE
    /\ lost' = (lost \/ stale)
    /\ UNCHANGED <<client, sock, wire, chan, rx, mirror, pending, synced, stale, dropped, missed>>

\* A login, or the sync command, which on a locked vault leaves a sync pending.
CmdSync(locked) ==
    /\ ~resolving
    /\ Synced
    /\ pending' = (pending \/ locked)
    /\ UNCHANGED <<client, sock, wire, chan, rx, mirror, resolving, dropped>>

-----------------------------------------------------------------------------
(* The server and the network.                                             *)

\* No hub replays: a change published while the socket is down is gone.
VaultChange ==
    /\ stale' = TRUE
    /\ wire' = (wire \/ sock = "up")
    /\ missed' = (missed \/ sock # "up")
    /\ UNCHANGED <<client, sock, chan, rx, mirror, pending, resolving, synced, dropped, lost>>

\* The connection dies silently, with what was on its way.
SocketDies ==
    /\ sock = "up"
    /\ sock' = "dead" /\ wire' = FALSE
    /\ missed' = (missed \/ wire)
    /\ UNCHANGED <<client, chan, rx, mirror, sync, dropped>>

ThrottleExpires ==
    /\ throttled
    /\ throttled' = FALSE
    /\ UNCHANGED <<pc, cancelled, consecutive_failures, backoff, sock, wire, chan,
                   rx, mirror, sync, dropped, missed>>

-----------------------------------------------------------------------------
(* The background task.                                                    *)

\* Cancellation is looked at before an attempt and while reading.
Cancel ==
    /\ pc \in {"connect", "reading"} /\ cancelled
    /\ pc' = "off" /\ sock' = "none" /\ wire' = FALSE
    /\ Publish("Stopped")
    /\ missed' = (missed \/ wire)
    /\ UNCHANGED <<cancelled, consecutive_failures, backoff, throttled, rx, mirror,
                   sync>>

\* The delay the next retry starts from; the mutant keeps the old one.
BackoffAfterConnectKept == backoff
BackoffAfterConnect     == 1

ConnectSucceeds ==
    /\ pc = "connect" /\ ~cancelled
    /\ pc' = "reading" /\ sock' = "up"
    /\ consecutive_failures' = 0 /\ backoff' = BackoffAfterConnect
    /\ Publish("Connected")
    /\ UNCHANGED <<cancelled, throttled, wire, rx, mirror, sync, missed>>

\* Past the threshold the count of failures makes no difference.
ConnectFails ==
    /\ pc = "connect" /\ ~cancelled
    /\ consecutive_failures' = Smaller(consecutive_failures + 1, FallbackAfter)
    /\ pc' = "fail"
    /\ Publish("Degraded")
    /\ UNCHANGED <<cancelled, backoff, throttled, sock, wire, rx, mirror, sync, missed>>

\* maybe_emit_fallback_sync: whether the failures call for a fallback sync; the
\* mutant asks once, when the threshold is passed for the first time.
DegradedFirstTime == consecutive_failures >= FallbackAfter /\ backoff < MaxBackoff
Degraded          == consecutive_failures >= FallbackAfter

\* recovery_sync_due
RecoveryDue == FallbackEnabled /\ ~throttled

\* The throttle is set before the event is sent, and the send may wait.
Emit(from, send, skip, wanted) ==
    /\ pc = from
    /\ IF wanted /\ RecoveryDue THEN throttled' = TRUE /\ pc' = send
       ELSE pc' = skip /\ UNCHANGED throttled
    /\ UNCHANGED <<cancelled, consecutive_failures, backoff, sock, wire, chan, rx,
                   mirror, sync, dropped, missed>>

EmitSent(from, to) ==
    /\ pc = from
    /\ Send("FallbackSyncDue")
    /\ pc' = to
    /\ UNCHANGED <<cancelled, consecutive_failures, backoff, throttled, sock, wire,
                   rx, mirror, sync, dropped, missed>>

FailEmit == Emit("fail", "fail_send", "wait", Degraded)
FailSent == EmitSent("fail_send", "wait")

\* Keepalive failure, idle timeout, close frame, socket error or end of stream.
ConnectionLost ==
    /\ pc = "reading"
    /\ pc' = "lost" /\ sock' = "none" /\ wire' = FALSE
    /\ missed' = (missed \/ wire)
    /\ UNCHANGED <<cancelled, consecutive_failures, backoff, throttled, chan, rx,
                   mirror, sync, dropped>>

LostEmit == Emit("lost", "lost_send", "lost_status", TRUE)
LostSent == EmitSent("lost_send", "lost_status")

\* The status after a loss; the mutant publishes none.
LossUnreported == UNCHANGED <<chan, dropped>>
LossReported   == Publish("Degraded")

LostStatus ==
    /\ pc = "lost_status"
    /\ pc' = "wait"
    /\ LossReported
    /\ UNCHANGED <<cancelled, consecutive_failures, backoff, throttled, sock, wire,
                   rx, mirror, sync, missed>>

\* wait_before_reconnect ends by time or by cancellation.
WaitEnds ==
    /\ pc = "wait"
    /\ pc' = "connect"
    /\ backoff' = Smaller(2 * backoff, MaxBackoff)
    /\ UNCHANGED <<cancelled, consecutive_failures, throttled, sock, wire, chan, rx,
                   mirror, sync, dropped, missed>>

\* A frame that parses to an event; the loop reads nothing more until it is sent.
ReadEvent ==
    /\ pc = "reading" /\ wire
    /\ pc' = "deliver" /\ wire' = FALSE
    /\ UNCHANGED <<cancelled, consecutive_failures, backoff, throttled, sock, chan,
                   rx, mirror, sync, dropped, missed>>

Deliver ==
    /\ pc = "deliver"
    /\ Send("CipherChanged")
    /\ IF rx THEN pc' = "reading" /\ UNCHANGED <<sock, wire>>
       ELSE pc' = "off" /\ sock' = "none" /\ wire' = FALSE
    /\ missed' = (missed \/ ~rx)
    /\ UNCHANGED <<cancelled, consecutive_failures, backoff, throttled, rx, mirror,
                   sync, dropped>>

-----------------------------------------------------------------------------
Attempt == ConnectSucceeds \/ ConnectFails
Task == \/ Cancel \/ Attempt \/ FailEmit \/ FailSent \/ LostEmit \/ LostSent \/ LostStatus
        \/ WaitEnds \/ ReadEvent \/ Deliver

ResolveEnds == ResolveSucceeds \/ ResolveFails \/ ResolveDropped

Next == \/ Task \/ ConnectionLost
        \/ Receive \/ StopClient \/ StartTimesOut \/ \E ok \in BOOLEAN : Start(ok)
        \/ ResolvePending \/ ResolveEnds \/ \E locked \in BOOLEAN : CmdSync(locked)
        \/ VaultChange \/ SocketDies \/ ThrottleExpires

Spec == Init /\ [][Next]_vars

\* The task is polled, the daemon's loop drains the channel, a sync ends by an
\* answer, an error or the watchdog, time passes, and a dead socket is noticed by
\* the keepalive or the idle timeout.
Fairness == /\ WF_vars(Task) /\ WF_vars(Receive) /\ WF_vars(ResolveEnds)
            /\ WF_vars(ThrottleExpires)
            /\ WF_vars(sock = "dead" /\ ConnectionLost)
            /\ WF_vars(Cancel)
FairSpec == Spec /\ Fairness

-----------------------------------------------------------------------------
(* What `status` says of all this.                                         *)

\* sync_row, for a daemon with a session.
SyncRow ==
    CASE pending -> "pending"
      [] ~pending /\ ~synced -> "unknown"
      [] ~pending /\ synced /\ mirror = "Connected" -> "up to date"
      [] OTHER -> "not delivering"

-----------------------------------------------------------------------------
(* Properties.                                                             *)

\* A change that is on its way to the daemon.
InFlight == wire \/ pc = "deliver" \/ Queued

\* `status` prints "up to date" only when every vault change has been synced,
\* but for the ones on their way, the ones no socket was there for and the ones
\* whose resolution the watchdog dropped; and, with every status of the client
\* received, only while the client has a connection.  The loop that resolves a
\* pending sync prints no status (sync_row, resolve_pending_sync).
UpToDateHonest ==
    ~resolving /\ SyncRow = "up to date" =>
        /\ stale => missed \/ lost \/ InFlight
        /\ rx /\ ~cancelled /\ chan = << >> /\ ~dropped =>
              pc \in {"reading", "deliver", "lost", "lost_send", "lost_status"}

\* The retry after a lost connection starts from the shortest delay, whatever
\* the retries before that connection had grown to (run_message_loop, backoff).
FirstRetryPrompt == pc \in {"lost", "lost_send", "lost_status"} => backoff = 1

\* With the channel drained and no status dropped, the daemon's mirror shows
\* what the task is doing: connected while it reads, degraded while it waits
\* (publish_status, apply_status).
MirrorCurrent ==
    rx /\ ~cancelled /\ chan = << >> /\ ~dropped =>
        /\ pc = "reading" => mirror = "Connected"
        /\ pc = "wait" => mirror = "Degraded"

\* As long as there is no connection, a vault change is picked up by a fallback
\* sync, again and again (maybe_emit_fallback_sync, emit_recovery_sync).
OutageCovered == stale /\ rx /\ sock = "none" ~> ~stale \/ pending \/ ~rx \/ sock # "none"

\* A stopped client's task ends, even when it was waiting for room in the
\* channel: the receiver is dropped with it (connect_notification_client, stop).
StopEnds == cancelled ~> pc = "off"
=============================================================================
