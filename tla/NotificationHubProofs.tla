------------------------- MODULE NotificationHubProofs -------------------------
(***************************************************************************)
(* The notification client keeps its types, never overfills the channel,   *)
(* retries a lost connection promptly, is shown as it is by the daemon's   *)
(* mirror, and loses no change that its socket carried, for any channel    *)
(* capacity, threshold and maximal backoff.                                *)
(***************************************************************************)
EXTENDS NotificationHub, TLAPS

\* Inductive: a connection is only held with the backoff at its start value.
HubInv ==
    /\ HubTypeOK
    /\ pc \in {"reading", "deliver", "lost", "lost_send", "lost_status"} => backoff = 1

\* The first backoff, zero and the bounds are values of the counters they start.
LEMMA HubConstants ==
    /\ ChannelCap \in Nat \ {0} /\ MaxBackoff \in Nat \ {0} /\ FallbackAfter \in Nat
    /\ FallbackEnabled \in BOOLEAN /\ Stops \in BOOLEAN
BY HubAssumption

\* Both ways of putting something into the channel respect its capacity.
LEMMA PublishType ==
    ASSUME HubTypeOK, NEW s \in States, Publish(s)
    PROVE  chan' \in Seq(States \cup Events) /\ Len(chan') <= ChannelCap /\ dropped' \in BOOLEAN
BY HubConstants DEF Publish, Room, HubTypeOK

\* Sending a status or an event keeps the channel within its capacity (try_send and send().await).
LEMMA SendType ==
    ASSUME HubTypeOK, NEW e \in Events, Send(e)
    PROVE  chan' \in Seq(States \cup Events) /\ Len(chan') <= ChannelCap
BY HubConstants DEF Send, Room, HubTypeOK

\* Doubling stays below the maximum.
LEMMA BackoffType ==
    ASSUME NEW b \in 1 .. MaxBackoff
    PROVE  Smaller(2 * b, MaxBackoff) \in 1 .. MaxBackoff
BY HubConstants DEF Smaller

\* A client that has just been created satisfies the invariant.
LEMMA HubInit == Init => HubInv
<1>. SUFFICES ASSUME Init PROVE HubInv
  OBVIOUS
<1>1. chan \in Seq(States \cup Events) /\ Len(chan) <= ChannelCap
  BY HubConstants DEF Init
<1>2. consecutive_failures \in 0 .. FallbackAfter /\ backoff \in 1 .. MaxBackoff
  BY HubConstants DEF Init
<1>3. pc \in Pcs /\ sock \in {"none", "up", "dead"} /\ mirror \in States /\ backoff = 1
  BY DEF Init, Pcs, States
<1>. QED
  BY <1>1, <1>2, <1>3 DEF Init, HubInv, HubTypeOK

\* Every step of the message loop, of the daemon and of the world keeps the invariant.
LEMMA HubNext == HubInv /\ [Next]_vars => HubInv'
<1>. SUFFICES ASSUME HubInv, [Next]_vars PROVE HubInv'
  OBVIOUS
<1>. USE HubConstants DEF HubInv, HubTypeOK, client, sync, Pcs
<1>1. ASSUME NEW ok \in BOOLEAN, Start(ok) PROVE HubInv'
  <2>1. chan' \in Seq(States \cup Events) /\ Len(chan') <= ChannelCap
    <3>1. "Connecting" \in States \cup Events /\ "Connected" \in States \cup Events
      BY DEF States
    <3>2. CASE ok /\ ChannelCap > 1
      BY <1>1, <3>1, <3>2 DEF Start
    <3>3. CASE ~(ok /\ ChannelCap > 1)
      <4>1. chan' = <<"Connecting">>
        BY <1>1, <3>3 DEF Start
      <4>. QED
        BY <3>1, <4>1
    <3>. QED
      BY <3>2, <3>3
  <2>2. dropped' \in BOOLEAN
    BY <1>1 DEF Start
  <2>3. pc' \in Pcs /\ sock' \in {"none", "up", "dead"} /\ mirror' \in States
    BY <1>1 DEF Start, States
  <2>4. consecutive_failures' \in 0 .. FallbackAfter /\ backoff' \in 1 .. MaxBackoff
    BY <1>1 DEF Start
  <2>5. backoff' = 1 /\ rx' = TRUE /\ cancelled' = FALSE /\ throttled' = FALSE /\ wire' = wire
        /\ UNCHANGED <<sync, missed>>
    BY <1>1 DEF Start
  <2>. QED
    BY <2>1, <2>2, <2>3, <2>4, <2>5 DEF sync
<1>2. ASSUME StartTimesOut PROVE HubInv'
  BY <1>2 DEF StartTimesOut, States
<1>3. ASSUME StopClient PROVE HubInv'
  <2>1. chan' \in Seq(States \cup Events) /\ Len(chan') <= ChannelCap
    BY <1>3 DEF StopClient
  <2>2. missed' \in BOOLEAN
    BY <1>3, Zenon DEF StopClient
  <2>3. /\ rx' = FALSE /\ cancelled' = TRUE /\ mirror' = "Connecting"
        /\ UNCHANGED <<pc, consecutive_failures, backoff, throttled, sock, wire, pending,
                       resolving, synced, stale, lost, dropped>>
    BY <1>3 DEF StopClient, ReceiverAfterStop
  <2>4. mirror' \in States
    BY <2>3 DEF States
  <2>5. rx' \in BOOLEAN /\ cancelled' \in BOOLEAN
    BY <2>3
  <2>6. /\ throttled' \in BOOLEAN /\ wire' \in BOOLEAN /\ pending' \in BOOLEAN
        /\ resolving' \in BOOLEAN /\ synced' \in BOOLEAN /\ stale' \in BOOLEAN
        /\ lost' \in BOOLEAN /\ dropped' \in BOOLEAN
    BY <2>3
  <2>7. /\ pc' \in Pcs /\ sock' \in {"none", "up", "dead"}
        /\ consecutive_failures' \in 0 .. FallbackAfter /\ backoff' \in 1 .. MaxBackoff
        /\ pc' = pc /\ backoff' = backoff
    BY <2>3
  <2>. QED
    BY <2>1, <2>2, <2>4, <2>5, <2>6, <2>7
<1>4. ASSUME Receive PROVE HubInv'
  <2>1. chan' \in Seq(States \cup Events) /\ Len(chan') <= ChannelCap
    BY <1>4 DEF Receive
  <2>2. Head(chan) \in States \cup Events
    BY <1>4 DEF Receive
  <2>3. mirror' \in States
    BY <1>4, <2>2 DEF Receive
  <2>4. /\ pending' \in BOOLEAN /\ synced' \in BOOLEAN /\ stale' \in BOOLEAN
        /\ missed' \in BOOLEAN /\ lost' \in BOOLEAN /\ resolving' \in BOOLEAN
    BY <1>4, Zenon DEF Receive, Synced
  <2>. QED
    BY <1>4, <2>1, <2>3, <2>4 DEF Receive
<1>5. ASSUME VaultChange \/ SocketDies \/ ThrottleExpires PROVE HubInv'
  <2>1. CASE VaultChange
    <3>1. stale' \in BOOLEAN /\ wire' \in BOOLEAN /\ missed' \in BOOLEAN
      BY <2>1, Zenon DEF VaultChange
    <3>. QED
      BY <2>1, <3>1 DEF VaultChange
  <2>2. CASE SocketDies
    <3>1. missed' \in BOOLEAN
      BY <2>2, Zenon DEF SocketDies
    <3>2. /\ sock' = "dead" /\ wire' = FALSE
          /\ UNCHANGED <<pc, cancelled, consecutive_failures, backoff, throttled, chan, rx,
                         mirror, pending, resolving, synced, stale, lost, dropped>>
      BY <2>2 DEF SocketDies
    <3>3. wire' \in BOOLEAN /\ sock' \in {"none", "up", "dead"}
      BY <3>2
    <3>4. /\ cancelled' \in BOOLEAN /\ throttled' \in BOOLEAN /\ rx' \in BOOLEAN
          /\ pending' \in BOOLEAN /\ resolving' \in BOOLEAN /\ synced' \in BOOLEAN
          /\ stale' \in BOOLEAN /\ lost' \in BOOLEAN /\ dropped' \in BOOLEAN
      BY <3>2
    <3>5. /\ pc' \in Pcs /\ chan' \in Seq(States \cup Events) /\ Len(chan') <= ChannelCap
          /\ mirror' \in States /\ consecutive_failures' \in 0 .. FallbackAfter
          /\ backoff' \in 1 .. MaxBackoff /\ pc' = pc /\ backoff' = backoff
      BY <3>2
    <3>. QED
      BY <3>1, <3>3, <3>4, <3>5
  <2>3. CASE ThrottleExpires
    <3>1. throttled' = FALSE /\ UNCHANGED <<pc, cancelled, consecutive_failures, backoff,
            sock, wire, chan, rx, mirror, pending, resolving, synced, stale, dropped, missed, lost>>
      BY <2>3 DEF ThrottleExpires
    <3>2. throttled' \in BOOLEAN
      BY <3>1
    <3>3. HubTypeOK'
      BY <3>1, <3>2
    <3>. QED
      BY <3>1, <3>3
  <2>. QED
    BY <1>5, <2>1, <2>2, <2>3
<1>6. ASSUME Cancel PROVE HubInv'
  <2>1. chan' \in Seq(States \cup Events) /\ Len(chan') <= ChannelCap /\ dropped' \in BOOLEAN
    BY <1>6, PublishType DEF Cancel, States
  <2>2. missed' \in BOOLEAN
    BY <1>6, Zenon DEF Cancel
  <2>. QED
    BY <1>6, <2>1, <2>2 DEF Cancel
<1>7. ASSUME ConnectSucceeds PROVE HubInv'
  <2>1. chan' \in Seq(States \cup Events) /\ Len(chan') <= ChannelCap /\ dropped' \in BOOLEAN
    BY <1>7, PublishType DEF ConnectSucceeds, States
  <2>. QED
    BY <1>7, <2>1 DEF ConnectSucceeds, BackoffAfterConnect
<1>8. ASSUME ConnectFails PROVE HubInv'
  <2>1. chan' \in Seq(States \cup Events) /\ Len(chan') <= ChannelCap /\ dropped' \in BOOLEAN
    BY <1>8, PublishType DEF ConnectFails, States
  <2>2. consecutive_failures' \in 0 .. FallbackAfter
    BY <1>8 DEF ConnectFails, Smaller
  <2>. QED
    BY <1>8, <2>1, <2>2 DEF ConnectFails
<1>9. ASSUME FailEmit \/ LostEmit PROVE HubInv'
  <2>1. throttled' \in BOOLEAN /\ pc' \in Pcs
    BY <1>9 DEF FailEmit, LostEmit, Emit
  <2>2. pc' \in {"lost_send", "lost_status"} => pc = "lost"
    BY <1>9 DEF FailEmit, LostEmit, Emit
  <2>3. pc' \in {"wait", "fail_send", "lost_send", "lost_status"}
    BY <1>9 DEF FailEmit, LostEmit, Emit
  <2>4. UNCHANGED <<cancelled, consecutive_failures, backoff, sock, wire, chan, rx, mirror,
                    pending, resolving, synced, stale, dropped, missed, lost>>
    BY <1>9 DEF FailEmit, LostEmit, Emit
  <2>5. HubTypeOK'
    BY <2>1, <2>4, SMT
  <2>. QED
    BY <2>2, <2>3, <2>4, <2>5
<1>10. ASSUME FailSent \/ LostSent PROVE HubInv'
  <2>1. chan' \in Seq(States \cup Events) /\ Len(chan') <= ChannelCap
    BY <1>10, SendType DEF FailSent, LostSent, EmitSent, Events
  <2>. QED
    BY <1>10, <2>1 DEF FailSent, LostSent, EmitSent
<1>11. ASSUME ConnectionLost PROVE HubInv'
  <2>1. missed' \in BOOLEAN
    BY <1>11, Zenon DEF ConnectionLost
  <2>. QED
    BY <1>11, <2>1 DEF ConnectionLost
<1>12. ASSUME LostStatus PROVE HubInv'
  <2>1. chan' \in Seq(States \cup Events) /\ Len(chan') <= ChannelCap /\ dropped' \in BOOLEAN
    BY <1>12, PublishType DEF LostStatus, LossReported, States
  <2>. QED
    BY <1>12, <2>1 DEF LostStatus
<1>13. ASSUME WaitEnds PROVE HubInv'
  BY <1>13, BackoffType DEF WaitEnds
<1>14. ASSUME ReadEvent PROVE HubInv'
  BY <1>14, ZenonT(40) DEF ReadEvent
<1>15. ASSUME Deliver PROVE HubInv'
  <2>1. chan' \in Seq(States \cup Events) /\ Len(chan') <= ChannelCap
    BY <1>15, SendType DEF Deliver, Events
  <2>2. missed' \in BOOLEAN
    BY <1>15, Zenon DEF Deliver
  <2>. QED
    BY <1>15, <2>1, <2>2, ZenonT(40) DEF Deliver
<1>16. CASE UNCHANGED vars
  BY <1>16 DEF vars
<1>17. ASSUME ResolvePending \/ ResolveEnds PROVE HubInv'
  <2>1. lost' \in BOOLEAN
    BY <1>17, Zenon DEF ResolvePending, ResolveEnds, ResolveSucceeds, ResolveFails,
                        ResolveDropped, Synced
  <2>2. /\ pending' \in BOOLEAN /\ resolving' \in BOOLEAN /\ synced' \in BOOLEAN
        /\ stale' \in BOOLEAN /\ missed' \in BOOLEAN
    BY <1>17, Zenon DEF ResolvePending, ResolveEnds, ResolveSucceeds, ResolveFails,
                        ResolveDropped, Synced, PendingAfterError
  <2>3. UNCHANGED <<client, sock, wire, chan, rx, mirror, dropped>>
    BY <1>17 DEF ResolvePending, ResolveEnds, ResolveSucceeds, ResolveFails, ResolveDropped
  <2>. QED
    BY <2>1, <2>2, <2>3
<1>18. ASSUME NEW locked \in BOOLEAN, CmdSync(locked) PROVE HubInv'
  <2>1. pending' \in BOOLEAN
    BY <1>18, Zenon DEF CmdSync
  <2>. QED
    BY <1>18, <2>1, ZenonT(40) DEF CmdSync, Synced
<1>. QED
  BY <1>1, <1>2, <1>3, <1>4, <1>5, <1>6, <1>7, <1>8, <1>9, <1>10, <1>11, <1>12, <1>13, <1>14,
     <1>15, <1>16, <1>17, <1>18 DEF Next, Task, Attempt

\* Inductive: a change the socket carried and the daemon neither synced, nor holds
\* pending, nor is resolving, nor lost with a dropped resolution, is still in
\* flight; nothing is queued for a receiver that is gone.
DeliveryInv ==
    /\ ~rx => chan = << >>
    /\ stale /\ ~missed /\ ~lost /\ ~pending /\ ~resolving => InFlight

\* A status leaves the queued events where they are.
LEMMA PublishKeeps ==
    ASSUME HubTypeOK, NEW s \in States, Publish(s)
    PROVE  (Queued => Queued') /\ (~rx => chan' = chan)
BY DEF Publish, HubTypeOK, Queued

\* An event is queued behind the others.
LEMMA SendKeeps ==
    ASSUME HubTypeOK, NEW e \in Events, Send(e)
    PROVE  (Queued \/ rx => Queued') /\ (~rx => chan' = chan)
BY DEF Send, HubTypeOK, Queued

\* Every step keeps the changes that the socket carried in sight.
LEMMA DeliveryNext == HubTypeOK /\ DeliveryInv /\ [Next]_vars => DeliveryInv'
<1>. SUFFICES ASSUME HubTypeOK, DeliveryInv, [Next]_vars PROVE DeliveryInv'
  OBVIOUS
<1>. USE DEF DeliveryInv, InFlight, client, sync
<1>1. ASSUME NEW ok \in BOOLEAN, Start(ok) PROVE DeliveryInv'
  <2>1. ~Queued
    BY <1>1 DEF Start, Queued
  <2>. QED
    BY <1>1, <2>1 DEF Start
<1>2. ASSUME StartTimesOut PROVE DeliveryInv'
  BY <1>2 DEF StartTimesOut, Queued
<1>3. ASSUME StopClient PROVE DeliveryInv'
  BY <1>3 DEF StopClient, ReceiverAfterStop
<1>4. ASSUME Receive PROVE DeliveryInv'
  <2>1. CASE Head(chan) \in Events
    BY <1>4, <2>1 DEF Receive, Synced, States, Events
  <2>2. CASE Head(chan) \in States
    <3>1. UNCHANGED <<wire, pc, rx, pending, resolving, stale, missed, lost>>
      BY <1>4, <2>2 DEF Receive, States, Events
    <3>2. Queued => Queued'
      <4>. SUFFICES ASSUME Queued PROVE Queued'
        OBVIOUS
      <4>1. PICK i \in DOMAIN chan : chan[i] \in Events
        BY DEF Queued
      <4>2. i # 1
        BY <4>1, <2>2, <1>4 DEF Receive, States, Events, HubTypeOK
      <4>3. chan' = Tail(chan) /\ chan \in Seq(States \cup Events) /\ chan # << >>
        BY <1>4 DEF Receive, HubTypeOK
      <4>4. i - 1 \in DOMAIN chan' /\ chan'[i - 1] = chan[i]
        BY <4>1, <4>2, <4>3
      <4>. QED
        BY <4>1, <4>4 DEF Queued
    <3>. QED
      BY <1>4, <3>1, <3>2 DEF Receive
  <2>. QED
    BY <1>4, <2>1, <2>2 DEF Receive
<1>5. ASSUME VaultChange PROVE DeliveryInv'
  BY <1>5 DEF VaultChange
<1>6. ASSUME SocketDies \/ ConnectionLost PROVE DeliveryInv'
  <2>1. UNCHANGED <<chan, rx, stale, pending, resolving, lost>> /\ (Queued => Queued')
    BY <1>6 DEF SocketDies, ConnectionLost, Queued
  <2>2. wire' = FALSE /\ (wire => missed') /\ (missed => missed')
    BY <1>6, Zenon DEF SocketDies, ConnectionLost
  <2>3. pc = "deliver" => pc' = "deliver"
    BY <1>6 DEF SocketDies, ConnectionLost
  <2>. QED
    BY <2>1, <2>2, <2>3
<1>7. ASSUME ThrottleExpires \/ WaitEnds PROVE DeliveryInv'
  BY <1>7 DEF ThrottleExpires, WaitEnds, Queued
<1>8. ASSUME FailEmit \/ LostEmit PROVE DeliveryInv'
  BY <1>8 DEF FailEmit, LostEmit, Emit, Queued
<1>9. ASSUME Cancel PROVE DeliveryInv'
  <2>1. (Queued => Queued') /\ (~rx => chan' = chan)
    BY <1>9, PublishKeeps DEF Cancel, States
  <2>. QED
    BY <1>9, <2>1 DEF Cancel
<1>10. ASSUME Attempt PROVE DeliveryInv'
  <2>1. (Queued => Queued') /\ (~rx => chan' = chan)
    BY <1>10, PublishKeeps DEF Attempt, ConnectSucceeds, ConnectFails, States
  <2>. QED
    BY <1>10, <2>1 DEF Attempt, ConnectSucceeds, ConnectFails
<1>11. ASSUME LostStatus PROVE DeliveryInv'
  <2>1. (Queued => Queued') /\ (~rx => chan' = chan)
    BY <1>11, PublishKeeps DEF LostStatus, LossReported, States
  <2>. QED
    BY <1>11, <2>1 DEF LostStatus
<1>12. ASSUME FailSent \/ LostSent PROVE DeliveryInv'
  <2>1. (Queued => Queued') /\ (~rx => chan' = chan)
    BY <1>12, SendKeeps DEF FailSent, LostSent, EmitSent, Events
  <2>. QED
    BY <1>12, <2>1 DEF FailSent, LostSent, EmitSent
<1>13. ASSUME ReadEvent PROVE DeliveryInv'
  BY <1>13 DEF ReadEvent
<1>14. ASSUME Deliver PROVE DeliveryInv'
  <2>1. (rx => Queued') /\ (~rx => chan' = chan)
    BY <1>14, SendKeeps DEF Deliver, Events
  <2>. QED
    BY <1>14, <2>1 DEF Deliver
<1>15. ASSUME ResolvePending \/ ResolveEnds \/ \E locked \in BOOLEAN : CmdSync(locked)
       PROVE  DeliveryInv'
  <2>1. UNCHANGED <<chan, rx>>
    BY <1>15 DEF ResolvePending, ResolveEnds, ResolveSucceeds, ResolveFails, ResolveDropped, CmdSync
  <2>2. stale' => pending' \/ resolving' \/ lost'
    BY <1>15, Zenon DEF ResolvePending, ResolveEnds, ResolveSucceeds, ResolveFails,
                        ResolveDropped, CmdSync, Synced, PendingAfterError
  <2>. QED
    BY <2>1, <2>2
<1>16. CASE UNCHANGED vars
  BY <1>16 DEF vars, Queued
<1>. QED
  BY <1>1, <1>2, <1>3, <1>4, <1>5, <1>6, <1>7, <1>8, <1>9, <1>10, <1>11, <1>12, <1>13, <1>14,
     <1>15, <1>16 DEF Next, Task

\* What the mirror should show of a task at p that holds a receiver.
Expected(p) ==
    IF p \in {"reading", "deliver", "lost", "lost_send", "lost_status"} THEN {"Connected"}
    ELSE IF p \in {"fail", "fail_send", "wait"} THEN {"Degraded"}
    ELSE {"Connecting", "Degraded"}

\* The newest status, the last one queued or the one in the mirror, is in S.
NewestIn(S) ==
    \/ \E i \in DOMAIN chan : chan[i] \in S /\ \A j \in DOMAIN chan : j > i => chan[j] \in Events
    \/ (\A j \in DOMAIN chan : chan[j] \in Events) /\ mirror \in S

\* Inductive: a receiver belongs to a task that was not stopped, and the newest
\* status that was not dropped says what that task is doing.
MirrorInv ==
    /\ rx => ~cancelled /\ pc # "off"
    /\ rx /\ ~dropped => NewestIn(Expected(pc))

\* A status that finds room becomes the newest one.
LEMMA PublishNewest ==
    ASSUME HubTypeOK, NEW s \in States, Publish(s), UNCHANGED rx
    PROVE  rx' /\ ~dropped' => NewestIn({s})'
<1>. SUFFICES ASSUME rx', ~dropped' PROVE NewestIn({s})'
  OBVIOUS
<1>1. chan' = Append(chan, s) /\ chan \in Seq(States \cup Events)
  BY DEF Publish, HubTypeOK
<1>2. Len(chan) + 1 \in DOMAIN chan' /\ chan'[Len(chan) + 1] = s
      /\ \A j \in DOMAIN chan' : ~(j > Len(chan) + 1)
  BY <1>1
<1>. QED
  BY <1>2 DEF NewestIn

\* An event leaves the newest status the newest one.
LEMMA SendNewest ==
    ASSUME HubTypeOK, NEW e \in Events, Send(e), UNCHANGED mirror, NEW S, NewestIn(S)
    PROVE  NewestIn(S)'
<1>1. CASE ~rx
  BY <1>1 DEF Send, NewestIn
<1>2. CASE rx
  <2>1. chan' = Append(chan, e) /\ chan \in Seq(States \cup Events)
    BY <1>2 DEF Send, HubTypeOK
  <2>2. \A j \in DOMAIN chan' : \/ j \in DOMAIN chan /\ chan'[j] = chan[j]
                               \/ chan'[j] \in Events
    BY <2>1
  <2>3. \A j \in DOMAIN chan : j \in DOMAIN chan' /\ chan'[j] = chan[j]
    BY <2>1
  <2>4. CASE \E i \in DOMAIN chan : chan[i] \in S /\ \A j \in DOMAIN chan : j > i => chan[j] \in Events
    BY <2>2, <2>3, <2>4 DEF NewestIn
  <2>5. CASE (\A j \in DOMAIN chan : chan[j] \in Events) /\ mirror \in S
    BY <2>2, <2>5 DEF NewestIn
  <2>. QED
    BY <2>4, <2>5 DEF NewestIn
<1>. QED
  BY <1>1, <1>2

\* Receiving the oldest entry leaves the newest status the newest one.
LEMMA ReceiveNewest ==
    ASSUME HubTypeOK, Receive, NEW S \in SUBSET States, NewestIn(S)
    PROVE  NewestIn(S)'
<1>1. chan' = Tail(chan) /\ chan \in Seq(States \cup Events) /\ chan # << >>
  BY DEF Receive, HubTypeOK
<1>2. \A j \in DOMAIN chan' : j + 1 \in DOMAIN chan /\ chan'[j] = chan[j + 1]
  BY <1>1
<1>3. \A j \in DOMAIN chan : j # 1 => j - 1 \in DOMAIN chan' /\ chan'[j - 1] = chan[j]
  BY <1>1
<1>4. DOMAIN chan \subseteq Nat /\ DOMAIN chan' \subseteq Nat /\ 1 \in DOMAIN chan
  BY <1>1
<1>5. (Head(chan) \in Events => mirror' = mirror) /\ (Head(chan) \in States => mirror' = chan[1])
      /\ Head(chan) = chan[1]
  BY <1>1 DEF Receive, States, Events
<1>6. States \cap Events = {}
  BY DEF States, Events
<1>7. CASE \E i \in DOMAIN chan : chan[i] \in S /\ \A j \in DOMAIN chan : j > i => chan[j] \in Events
  <2>1. PICK i \in DOMAIN chan : chan[i] \in S /\ \A j \in DOMAIN chan : j > i => chan[j] \in Events
    BY <1>7
  <2>2. CASE i = 1
    <3>1. \A j \in DOMAIN chan' : chan'[j] \in Events
      <4>. SUFFICES ASSUME NEW j \in DOMAIN chan' PROVE chan'[j] \in Events
        OBVIOUS
      <4>1. j \in Nat /\ j >= 1
        BY <1>1
      <4>2. j + 1 > i /\ j + 1 \in DOMAIN chan
        BY <4>1, <2>2, <1>2
      <4>. QED
        BY <4>2, <2>1, <1>2
    <3>2. mirror' \in S
      BY <2>1, <2>2, <1>5
    <3>. QED
      BY <3>1, <3>2 DEF NewestIn
  <2>3. CASE i # 1
    <3>1. i - 1 \in DOMAIN chan' /\ chan'[i - 1] \in S
      BY <2>1, <2>3, <1>3
    <3>2. \A j \in DOMAIN chan' : j > i - 1 => chan'[j] \in Events
      BY <2>1, <1>2, <1>4
    <3>. QED
      BY <3>1, <3>2 DEF NewestIn
  <2>. QED
    BY <2>2, <2>3
<1>8. CASE (\A j \in DOMAIN chan : chan[j] \in Events) /\ mirror \in S
  BY <1>8, <1>2, <1>4, <1>5 DEF NewestIn
<1>. QED
  BY <1>7, <1>8 DEF NewestIn

\* Every step keeps the newest status true to the task.
LEMMA MirrorNext == HubTypeOK /\ MirrorInv /\ [Next]_vars => MirrorInv'
<1>. SUFFICES ASSUME HubTypeOK, MirrorInv, [Next]_vars PROVE MirrorInv'
  OBVIOUS
<1>. USE DEF MirrorInv, client, sync
<1>1. ASSUME NEW ok \in BOOLEAN, Start(ok) PROVE MirrorInv'
  <2>1. CASE ok
    <3>1. pc' = "reading" /\ ~cancelled'
      BY <1>1, <2>1 DEF Start
    <3>2. ~dropped' => chan' = <<"Connecting", "Connected">>
      <4>1. ~dropped' => ChannelCap # 1
        BY <1>1, <2>1, Zenon DEF Start
      <4>2. ChannelCap # 1 => ChannelCap > 1
        BY HubConstants
      <4>. QED
        BY <1>1, <2>1, <4>1, <4>2 DEF Start
    <3>3. ~dropped' => NewestIn({"Connected"})'
      <4>. SUFFICES ASSUME ~dropped' PROVE NewestIn({"Connected"})'
        OBVIOUS
      <4>1. 2 \in DOMAIN chan' /\ chan'[2] = "Connected" /\ \A j \in DOMAIN chan' : ~(j > 2)
        BY <3>2
      <4>. QED
        BY <4>1 DEF NewestIn
    <3>. QED
      BY <3>1, <3>3 DEF Expected
  <2>2. CASE ~ok
    <3>1. pc' = "connect" /\ ~cancelled' /\ chan' = <<"Connecting">>
      BY <1>1, <2>2 DEF Start
    <3>2. 1 \in DOMAIN chan' /\ chan'[1] = "Connecting" /\ \A j \in DOMAIN chan' : ~(j > 1)
      BY <3>1
    <3>3. NewestIn({"Connecting", "Degraded"})'
      BY <3>2 DEF NewestIn
    <3>. QED
      BY <3>1, <3>3 DEF Expected
  <2>. QED
    BY <2>1, <2>2
<1>2. ASSUME StartTimesOut PROVE MirrorInv'
  BY <1>2 DEF StartTimesOut
<1>3. ASSUME StopClient PROVE MirrorInv'
  BY <1>3 DEF StopClient, ReceiverAfterStop
<1>4. ASSUME Receive PROVE MirrorInv'
  <2>1. Expected(pc) \subseteq States
    BY DEF Expected, States
  <2>2. UNCHANGED <<pc, cancelled, rx, dropped>>
    BY <1>4 DEF Receive
  <2>3. rx /\ ~dropped => NewestIn(Expected(pc))'
    BY <1>4, <2>1, <2>2, ReceiveNewest
  <2>. QED
    BY <2>2, <2>3
<1>5. ASSUME VaultChange \/ SocketDies \/ ThrottleExpires \/ ResolvePending
             \/ ResolveEnds \/ \E locked \in BOOLEAN : CmdSync(locked)
      PROVE  MirrorInv'
  <2>1. UNCHANGED <<pc, cancelled, rx, dropped, chan, mirror>>
    BY <1>5 DEF VaultChange, SocketDies, ThrottleExpires, ResolvePending, ResolveEnds,
                 ResolveSucceeds, ResolveFails, ResolveDropped, CmdSync
  <2>2. NewestIn(Expected(pc)) => NewestIn(Expected(pc))'
    BY <2>1 DEF NewestIn
  <2>. QED
    BY <2>1, <2>2
<1>6. ASSUME Cancel PROVE MirrorInv'
  BY <1>6 DEF Cancel
<1>7. ASSUME ConnectSucceeds PROVE MirrorInv'
  <2>1. rx' /\ ~dropped' => NewestIn({"Connected"})'
    BY <1>7, PublishNewest DEF ConnectSucceeds, States
  <2>. QED
    BY <1>7, <2>1 DEF ConnectSucceeds, Expected
<1>8. ASSUME ConnectFails PROVE MirrorInv'
  <2>1. rx' /\ ~dropped' => NewestIn({"Degraded"})'
    BY <1>8, PublishNewest DEF ConnectFails, States
  <2>. QED
    BY <1>8, <2>1 DEF ConnectFails, Expected
<1>9. ASSUME LostStatus PROVE MirrorInv'
  <2>1. rx' /\ ~dropped' => NewestIn({"Degraded"})'
    BY <1>9, PublishNewest DEF LostStatus, LossReported, States
  <2>. QED
    BY <1>9, <2>1 DEF LostStatus, Expected
<1>10. ASSUME FailEmit \/ LostEmit \/ ConnectionLost \/ ReadEvent PROVE MirrorInv'
  <2>1. UNCHANGED <<cancelled, rx, dropped, chan, mirror>> /\ pc' # "off"
    BY <1>10 DEF FailEmit, LostEmit, Emit, ConnectionLost, ReadEvent
  <2>2. Expected(pc') = Expected(pc)
    BY <1>10 DEF FailEmit, LostEmit, Emit, ConnectionLost, ReadEvent, Expected
  <2>3. NewestIn(Expected(pc)) => NewestIn(Expected(pc))'
    BY <2>1, <2>2 DEF NewestIn
  <2>. QED
    BY <2>1, <2>3
<1>11. ASSUME WaitEnds PROVE MirrorInv'
  <2>1. UNCHANGED <<cancelled, rx, dropped, chan, mirror>> /\ pc' = "connect" /\ pc = "wait"
    BY <1>11 DEF WaitEnds
  <2>2. Expected(pc) \subseteq Expected(pc')
    BY <2>1 DEF Expected
  <2>3. NewestIn(Expected(pc)) => NewestIn(Expected(pc))'
    BY <2>1, <2>2 DEF NewestIn
  <2>. QED
    BY <2>1, <2>3
<1>12. ASSUME FailSent \/ LostSent PROVE MirrorInv'
  <2>1. UNCHANGED <<cancelled, rx, dropped, mirror>> /\ pc' # "off"
    BY <1>12 DEF FailSent, LostSent, EmitSent
  <2>2. Expected(pc') = Expected(pc)
    BY <1>12 DEF FailSent, LostSent, EmitSent, Expected
  <2>3. Send("FallbackSyncDue") /\ "FallbackSyncDue" \in Events
    BY <1>12 DEF FailSent, LostSent, EmitSent, Events
  <2>4. rx /\ ~dropped => NewestIn(Expected(pc))'
    BY <2>1, <2>2, <2>3, SendNewest
  <2>. QED
    BY <2>1, <2>4
<1>13. ASSUME Deliver PROVE MirrorInv'
  <2>1. UNCHANGED <<cancelled, rx, dropped, mirror>> /\ (rx => pc' = "reading") /\ pc = "deliver"
    BY <1>13 DEF Deliver
  <2>2. rx => Expected(pc') = Expected(pc)
    BY <2>1 DEF Expected
  <2>3. Send("CipherChanged") /\ "CipherChanged" \in Events
    BY <1>13 DEF Deliver, Events
  <2>4. rx /\ ~dropped => NewestIn(Expected(pc))'
    BY <2>1, <2>2, <2>3, SendNewest
  <2>. QED
    BY <2>1, <2>4
<1>14. CASE UNCHANGED vars
  <2>1. NewestIn(Expected(pc)) => NewestIn(Expected(pc))'
    BY <1>14 DEF vars, NewestIn
  <2>. QED
    BY <1>14, <2>1 DEF vars
<1>. QED
  BY <1>1, <1>2, <1>3, <1>4, <1>5, <1>6, <1>7, <1>8, <1>9, <1>10, <1>11, <1>12, <1>13, <1>14
     DEF Next, Task, Attempt

\* The three invariants together, for every behaviour of the client.
THEOREM HubInvariant == Spec => [](HubInv /\ DeliveryInv /\ MirrorInv)
<1>1. Init => DeliveryInv /\ MirrorInv
  BY DEF Init, DeliveryInv, MirrorInv
<1>2. HubInv => HubTypeOK
  BY DEF HubInv
<1>. QED
  BY HubInit, HubNext, DeliveryNext, MirrorNext, <1>1, <1>2, PTL DEF Spec

\* The client's types: above all, neither a status nor an event is ever put
\* into a full channel (publish_status, event_tx.send).
THEOREM HubTypeCorrect == Spec => []HubTypeOK
<1>1. HubInv => HubTypeOK
  BY DEF HubInv
<1>. QED
  BY HubInit, HubNext, <1>1, PTL DEF Spec

\* A lost connection is retried from the shortest delay, for any maximal
\* backoff (run_message_loop).
THEOREM RetriesPromptly == Spec => []FirstRetryPrompt
<1>1. HubInv => FirstRetryPrompt
  BY DEF HubInv, FirstRetryPrompt
<1>. QED
  BY HubInit, HubNext, <1>1, PTL DEF Spec

\* An empty channel has no event to look at (bounded mpsc).
LEMMA DrainedHasNoEvent == ASSUME NEW c, c = << >> PROVE \A j \in DOMAIN c : FALSE
  OBVIOUS

\* The daemon's mirror shows what the task is doing once the channel is drained
\* and no status was dropped, for any capacity (publish_status, apply_status).
THEOREM MirrorIsCurrent == Spec => []MirrorCurrent
<1>1. HubInv /\ DeliveryInv /\ MirrorInv => MirrorCurrent
  BY DEF MirrorInv, MirrorCurrent, NewestIn, Expected
<1>. QED
  BY HubInvariant, <1>1, PTL

\* `status` says "up to date" only of a daemon that has synced every change but
\* those in flight, those no socket was there for and those whose resolution the
\* watchdog dropped, and only while the client holds a connection, as far as its
\* statuses tell (sync_row, resolve_pending_sync).
THEOREM StatusIsHonest == Spec => []UpToDateHonest
<1>1. HubInv /\ DeliveryInv /\ MirrorInv => UpToDateHonest
  <2>. SUFFICES ASSUME HubInv, DeliveryInv, MirrorInv, ~resolving,
                       SyncRow = "up to date"
                PROVE  /\ stale => missed \/ lost \/ InFlight
                       /\ rx /\ ~cancelled /\ chan = << >> /\ ~dropped =>
                            pc \in {"reading", "deliver", "lost", "lost_send", "lost_status"}
    BY DEF UpToDateHonest
  <2>1. ~pending /\ mirror = "Connected"
    BY DEF SyncRow
  <2>2. stale => missed \/ lost \/ InFlight
    BY <2>1 DEF DeliveryInv
  <2>3. ASSUME rx, chan = << >>, ~dropped
        PROVE  pc \in {"reading", "deliver", "lost", "lost_send", "lost_status"}
    <3>1. NewestIn(Expected(pc))
      BY <2>3, Zenon DEF MirrorInv
    <3>2. mirror \in Expected(pc)
      <4>1. \A j \in DOMAIN chan : FALSE
        BY <2>3, DrainedHasNoEvent
      <4>. QED
        BY <3>1, <4>1, Zenon DEF NewestIn
    <3>. QED
      BY <2>1, <3>2 DEF Expected
  <2>. QED
    BY <2>2, <2>3
<1>. QED
  BY HubInvariant, <1>1, PTL
=============================================================================
