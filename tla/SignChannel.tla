------------------------------ MODULE SignChannel ------------------------------
(***************************************************************************)
(* The way of a request through the SSH agent: SshWardenAgent::confirm and *)
(* can_list on one task per connection, the bounded request channel to the *)
(* main loop, the handler task the loop spawns for each request, and the   *)
(* broadcast channel on which every handler's reply reaches every waiting  *)
(* request.  Around it, the transport: how it starts, fails and stops, and *)
(* the running flag the request ids depend on.                             *)
(*                                                                         *)
(* A request is decided by a handler (module VaultDaemon); here the        *)
(* decision is a choice, and what matters is which request it reaches.     *)
(***************************************************************************)
EXTENDS Naturals, Sequences, FiniteSets

CONSTANTS
    Clients,          \* connections of SSH clients, one task each
    Platforms,        \* builds considered: they start the transport differently
    QueueCap,         \* capacity of the request channel (32)
    RingCap,          \* capacity of the broadcast channel (256)
    IdSpace,          \* number of request ids (2^32)
    MaxRequests       \* bound: requests over the life of the process

\* Fewer requests than ids: the u32 does not wrap while the process lives.
ASSUME ChannelAssumption ==
    /\ IsFiniteSet(Clients)
    /\ Platforms \subseteq {"unix", "windows"}
    /\ QueueCap \in Nat \ {0}
    /\ RingCap \in Nat \ {0}
    /\ IdSpace \in Nat \ {0}
    /\ MaxRequests \in 0 .. IdSpace - 1

VARIABLES
    platform,         \* the build that runs
    main,             \* run_foreground: starting, watching the transport, stopped
    listener,         \* the transport: claiming its endpoint, serving, failed, ended
    is_running,       \* the AtomicBool
    fatal,            \* fatal_tx: nothing sent, sent to the loop, sent to nobody
    needs_unlock,     \* the AtomicBool
    request_id,       \* the AtomicU32
    queue,            \* the request channel
    handlers,         \* requests a spawned handle_ui_request holds
    replies,          \* everything sent on the broadcast channel, oldest first
    task,             \* the connections: program counter and locals
    asked,            \* history: requests so far, which numbers them
    answer,           \* history: what each client's last sign request returned
    zeroed            \* history: an id was handed out while the agent did not run

transport == <<platform, main, listener, is_running, fatal>>
channels  == <<queue, handlers, replies>>
history   == <<asked, answer, zeroed>>
vars      == <<transport, needs_unlock, request_id, channels, task, history>>

-----------------------------------------------------------------------------
Kinds   == {"sign", "list"}
Answers == {"none", "yes", "no"}
Ids     == 0 .. IdSpace - 1
Serials == 0 .. MaxRequests
Verdict(ok) == IF ok THEN "yes" ELSE "no"

\* A request as the channel carries it; serial tells requests apart in the model.
UIRequests == [id : Ids, serial : Serials, kind : Kinds]
Replies    == [id : Ids, serial : Serials, ok : BOOLEAN]

Tasks == [pc : {"closed", "idle", "id", "send", "wait"}, kind : Kinds,
          id : Ids, serial : Serials, rx : Nat]
NoTask == [pc |-> "idle", kind |-> "sign", id |-> 0, serial |-> 0, rx |-> 0]
Closed == [NoTask EXCEPT !.pc = "closed"]

ChannelTypeOK ==
    /\ platform \in Platforms
    /\ main \in {"start", "started", "loop", "stopped"}
    /\ listener \in {"none", "claiming", "serving", "failed", "ended"}
    /\ is_running \in BOOLEAN /\ needs_unlock \in BOOLEAN /\ zeroed \in BOOLEAN
    /\ fatal \in {"none", "sent", "lost"}
    /\ request_id \in Ids /\ asked \in Serials
    /\ queue \in Seq(UIRequests) /\ Len(queue) <= QueueCap
    /\ handlers \in SUBSET UIRequests
    /\ replies \in Seq(Replies)
    /\ task \in [Clients -> Tasks]
    /\ answer \in [Clients -> Answers]

Init ==
    /\ platform \in Platforms
    /\ main = "start" /\ listener = "none"
    /\ is_running = FALSE /\ fatal = "none"
    /\ needs_unlock = TRUE /\ request_id = 0
    /\ queue = << >> /\ handlers = {} /\ replies = << >>
    /\ task = [c \in Clients |-> Closed]
    /\ asked = 0 /\ answer = [c \in Clients |-> "none"] /\ zeroed = FALSE

-----------------------------------------------------------------------------
(* The transport.                                                          *)

\* start_server_with_endpoint: the listener task is spawned before the flag is
\* set.  A Unix socket is bound before that; a pipe is claimed in the task.
StartServer ==
    /\ main = "start" /\ listener = "none"
    /\ listener' = IF platform = "unix" THEN "serving" ELSE "claiming"
    /\ UNCHANGED <<platform, main, is_running, fatal, needs_unlock, request_id, channels, task, history>>

\* set_running(true) at the end of start_server_with_endpoint.
SetRunning ==
    /\ main = "start" /\ listener # "none"
    /\ main' = "started" /\ is_running' = TRUE
    /\ UNCHANGED <<platform, listener, fatal, needs_unlock, request_id, channels, task, history>>

\* The pipe is created; the server takes connections from it.
ClaimPipe ==
    /\ listener = "claiming" /\ main # "stopped"
    /\ listener' = "serving"
    /\ UNCHANGED <<platform, main, is_running, fatal, needs_unlock, request_id, channels, task, history>>

\* fatal_tx.send: a watch value sent while nobody has subscribed is dropped.
\* The mutant tells nobody.
SendFatalSilent == fatal
SendFatal == IF main = "loop" THEN "sent" ELSE "lost"

\* The pipe could not be claimed, or not be created again after a connection.
PipeFails ==
    /\ platform = "windows"
    /\ listener \in {"claiming", "serving"} /\ main # "stopped"
    /\ listener' = "failed" /\ is_running' = FALSE
    /\ fatal' = SendFatal
    /\ UNCHANGED <<platform, main, needs_unlock, request_id, channels, task, history>>

\* ssh_agent::serve returns: on a failed or cancelled listener, or of its own
\* accord (external); the task that awaited it clears the flag.
ServeExits ==
    /\ listener \in {"serving", "failed"} /\ main # "stopped"
    /\ platform = "windows" => main # "start"
    /\ listener' = IF listener = "failed" THEN "failed" ELSE "ended"
    /\ is_running' = FALSE
    /\ UNCHANGED <<platform, main, fatal, needs_unlock, request_id, channels, task, history>>

\* run_foreground subscribes to the failure signal and enters its loop.
Watch ==
    /\ main = "started"
    /\ main' = "loop"
    /\ UNCHANGED <<platform, listener, is_running, fatal, needs_unlock, request_id, channels, task, history>>

\* The loop ends on a failed transport, a stop command or Ctrl-C.  agent.stop()
\* clears the flag; the request channel closes and the process ends: nothing
\* starts any more, and what is under way only fails.
Shutdown ==
    /\ main = "loop"
    /\ main' = "stopped" /\ is_running' = FALSE /\ queue' = << >> /\ handlers' = {}
    /\ UNCHANGED <<platform, listener, fatal, needs_unlock, request_id, replies, task, history>>

FatalShutdown == fatal = "sent" /\ Shutdown

\* set_keys and clear_keys ask for an unlock before the next listing, lock and
\* set_public_identities do not; all but clear_keys need a running agent.
SetNeedsUnlock(value) ==
    /\ main = "loop"
    /\ value \/ is_running
    /\ needs_unlock' = value
    /\ UNCHANGED <<transport, request_id, channels, task, history>>

-----------------------------------------------------------------------------
(* A request on its connection's task.                                     *)

\* The server accepts a connection; the connection outlives the listener.
Connect(c) ==
    /\ listener = "serving" /\ main # "stopped" /\ task[c].pc = "closed"
    /\ platform = "windows" => main # "start"
    /\ task' = [task EXCEPT ![c] = NoTask]
    /\ UNCHANGED <<transport, needs_unlock, request_id, channels, history>>

\* The task returns ok to the client; only sign requests are recorded.
Return(c, ok) ==
    /\ task' = [task EXCEPT ![c] = NoTask]
    /\ answer' = IF task[c].kind = "sign"
                 THEN [answer EXCEPT ![c] = Verdict(ok)] ELSE answer

\* confirm: refused at once when the agent does not run.
Confirm(c) ==
    /\ main # "stopped" /\ task[c].pc = "idle" /\ asked < MaxRequests
    /\ asked' = asked + 1
    /\ \/ /\ ~is_running
          /\ answer' = [answer EXCEPT ![c] = "no"]
          /\ UNCHANGED task
       \/ /\ is_running
          /\ task' = [task EXCEPT ![c] = [NoTask EXCEPT !.pc = "id", !.serial = asked']]
          /\ UNCHANGED answer
    /\ UNCHANGED <<transport, needs_unlock, request_id, channels, zeroed>>

\* can_list: answered at once when no unlock is called for; no look at is_running.
CanList(c) ==
    /\ main # "stopped" /\ task[c].pc = "idle" /\ asked < MaxRequests
    /\ needs_unlock
    /\ asked' = asked + 1
    /\ task' = [task EXCEPT ![c] = [NoTask EXCEPT !.pc = "id", !.kind = "list", !.serial = asked']]
    /\ UNCHANGED <<transport, needs_unlock, request_id, channels, answer, zeroed>>

\* get_request_id's fetch_add, which wraps; the mutant reads without adding.
FetchAddNone(n) == n
FetchAdd(n) == (n + 1) % IdSpace

\* get_request_id: without a running agent every request is number 0.  The
\* payload of a sign request that does not parse is refused after that; the
\* others subscribe to the replies, from the next one sent on.
Register(c) ==
    /\ task[c].pc = "id"
    /\ request_id' = IF is_running THEN FetchAdd(request_id) ELSE request_id
    /\ \/ /\ zeroed' = (zeroed \/ ~is_running)
          /\ task' = [task EXCEPT ![c].pc = "send", ![c].rx = Len(replies),
                                  ![c].id = IF is_running THEN request_id ELSE 0]
          /\ UNCHANGED answer
       \/ task[c].kind = "sign" /\ Return(c, FALSE) /\ UNCHANGED zeroed
    /\ UNCHANGED <<transport, needs_unlock, channels, asked>>

\* The request channel has room; the mutant never looks.
RoomAlways == TRUE
Room == Len(queue) < QueueCap

\* show_ui_request_tx.send(): waits for room, fails once the loop is gone.
Send(c) ==
    /\ task[c].pc = "send"
    /\ \/ /\ main # "stopped" /\ Room
          /\ queue' = Append(queue, [id |-> task[c].id, serial |-> task[c].serial,
                                     kind |-> task[c].kind])
          /\ task' = [task EXCEPT ![c].pc = "wait"]
          /\ UNCHANGED answer
       \/ /\ main = "stopped"
          /\ Return(c, FALSE)
          /\ UNCHANGED queue
    /\ UNCHANGED <<transport, needs_unlock, request_id, handlers, replies, asked, zeroed>>

\* A receiver more than the capacity behind has lost its oldest replies.
Lagged(c) == Len(replies) - task[c].rx > RingCap

\* What a receiver that lagged does: it ends with a no.  The mutant goes on with
\* the replies that are left.
AfterLagGoOn(c) == task' = [task EXCEPT ![c].rx = @ + 1] /\ UNCHANGED answer
AfterLag(c) == Return(c, FALSE)

\* The id a reply is recognised by; the mutant takes the first one that comes.
MineAny(c, reply) == TRUE
Mine(c, reply) == reply.id = task[c].id

\* rx_channel.recv() in the loop of confirm and can_list: a lagged receiver
\* ends it with a no, another request's reply is passed over.
Receive(c) ==
    /\ task[c].pc = "wait" /\ task[c].rx < Len(replies)
    /\ LET reply == replies[task[c].rx + 1]
       IN \/ Lagged(c) /\ AfterLag(c)
          \/ ~Lagged(c) /\ Mine(c, reply) /\ Return(c, reply.ok)
          \/ /\ ~Lagged(c) /\ ~Mine(c, reply)
             /\ task' = [task EXCEPT ![c].rx = @ + 1]
             /\ UNCHANGED answer
    /\ UNCHANGED <<transport, needs_unlock, request_id, channels, asked, zeroed>>

-----------------------------------------------------------------------------
(* The main loop and the handlers.                                         *)

\* The UI arm of the select: one spawned handler per request.
Dispatch ==
    /\ main = "loop" /\ queue # << >>
    /\ queue' = Tail(queue)
    /\ handlers' = handlers \cup {Head(queue)}
    /\ UNCHANGED <<transport, needs_unlock, request_id, replies, task, history>>

\* handle_ui_request: a listing is always approved and clears needs_unlock; a
\* sign request is decided.  Every path of the handler sends exactly one reply.
Reply(q, ok) ==
    /\ q \in handlers
    /\ q.kind = "list" => ok
    /\ needs_unlock' = (needs_unlock /\ q.kind # "list")
    /\ handlers' = handlers \ {q}
    /\ replies' = Append(replies, [id |-> q.id, serial |-> q.serial, ok |-> ok])
    /\ UNCHANGED <<transport, request_id, queue, task, history>>

ClientStep(c) == Register(c) \/ Send(c) \/ Receive(c)

Next ==
    \/ StartServer \/ SetRunning \/ ClaimPipe \/ PipeFails \/ ServeExits \/ Watch
    \/ Shutdown
    \/ \E value \in BOOLEAN : SetNeedsUnlock(value)
    \/ \E c \in Clients : Connect(c) \/ Confirm(c) \/ CanList(c) \/ ClientStep(c)
    \/ Dispatch
    \/ \E q \in handlers, ok \in BOOLEAN : Reply(q, ok)

Spec == Init /\ [][Next]_vars

\* The runtime runs every task; the main loop comes back to its select; every
\* dialog is eventually answered or closed.
Fairness ==
    /\ WF_vars(StartServer) /\ WF_vars(SetRunning) /\ WF_vars(Watch)
    /\ WF_vars(FatalShutdown)
    /\ WF_vars(Dispatch)
    /\ \A c \in Clients : WF_vars(ClientStep(c))
    /\ WF_vars(\E q \in handlers, ok \in BOOLEAN : Reply(q, ok))

FairSpec == Spec /\ Fairness

-----------------------------------------------------------------------------
(* Properties.                                                             *)

Open(c) == task[c].pc \notin {"closed", "idle"} /\ task[c].kind = "sign"

\* What the handlers replied to the request client c has under way.
Given(c) == {i \in DOMAIN replies : replies[i].serial = task[c].serial}
Decided(c) == IF ~Open(c) \/ Given(c) = {} THEN "none"
              ELSE Verdict(\E i \in Given(c) : replies[i].ok)

Service == INSTANCE SignService
    WITH open     <- {c \in Clients : Open(c)},
         verdict  <- [c \in Clients |-> Decided(c)],
         answer   <- answer,
         degraded <- zeroed

\* confirm implements SignService over a queue, a task per request and a lossy
\* broadcast: a client is told yes only when the handler of its own request said
\* so, whatever the other requests, the lag of its receiver, or a shutdown do.
Implements == Service!Spec

\* A reply that a waiting request would take for its own was sent by the handler
\* of that request.  The one exception is id 0, which get_request_id hands out
\* over and over while the agent does not run.
ReplyIsOwn ==
    \A c \in Clients : task[c].pc = "wait" =>
        \A i \in task[c].rx + 1 .. Len(replies) :
            replies[i].id = task[c].id =>
                \/ replies[i].serial = task[c].serial
                \/ zeroed /\ task[c].id = 0

\* Every confirm and can_list returns, unless the process ends first: no reply
\* can be missed between the subscription and the wait, and one that the
\* receiver lost by lagging is replaced by a refusal.
RequestEnds ==
    \A c \in Clients : task[c].pc \notin {"closed", "idle"} ~>
        task[c].pc = "idle" \/ main = "stopped"

\* A transport that fails takes the daemon down (RT-01), unless it failed before
\* run_foreground had subscribed to the signal.
FailureStops == listener = "failed" ~> main = "stopped" \/ fatal = "lost"
=============================================================================
