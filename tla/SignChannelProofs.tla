--------------------------- MODULE SignChannelProofs ---------------------------
(***************************************************************************)
(* ReplyIsOwn and the refinement of SignService, for any number of clients *)
(* and requests and any capacities of the two channels.                    *)
(*                                                                         *)
(* Neither follows from the types.  IdInv adds that every id in a task, in *)
(* the queue, with a handler or in a reply was handed out before, that two *)
(* of them that agree belong to one request (0 of a stopped agent apart),  *)
(* and, counting the clients that are about to take one, that fewer ids    *)
(* are used than requests were made, so that the counter does not wrap.    *)
(* SerialInv adds that a request is at one place at a time: with its task, *)
(* in the queue, with a handler, or replied to; so it is decided once.     *)
(***************************************************************************)
EXTENDS SignChannel, FiniteSetTheorems, TLAPS

-----------------------------------------------------------------------------
(* The inductive invariant.                                                *)

InQueue   == {queue[i] : i \in 1 .. Len(queue)}
InReplies == {replies[i] : i \in 1 .. Len(replies)}
Items     == InQueue \cup handlers \cup InReplies

Registering == {c \in Clients : task[c].pc = "id"}
Active(c)   == task[c].pc \in {"id", "send", "wait"}
Numbered(c) == task[c].pc \in {"send", "wait"}

\* Request id i is not handed out again, but for the 0 of an agent that is down.
Spent(i) == i < request_id \/ (zeroed /\ i = 0)

\* What carries the id of client c's request belongs to that request.
Own(c, i, n) == i = task[c].id => n = task[c].serial \/ (zeroed /\ i = 0)

IdInv ==
    /\ request_id + Cardinality(Registering) <= asked
    /\ \A c \in Clients : Numbered(c) => Spent(task[c].id)
    /\ \A x \in Items : Spent(x.id)
    /\ \A c \in Clients : Numbered(c) => \A x \in Items : Own(c, x.id, x.serial)
    /\ \A c, e \in Clients : Numbered(c) /\ Numbered(e) => Own(c, task[e].id, task[e].serial)

SerialInv ==
    /\ \A c \in Clients : Active(c) => task[c].serial <= asked
    /\ \A x \in Items : x.serial <= asked
    /\ \A c, e \in Clients : Active(c) /\ Active(e) /\ task[c].serial = task[e].serial => c = e
    /\ \A c \in Clients : task[c].pc \in {"id", "send"} =>
          \A x \in Items : x.serial # task[c].serial
    /\ \A i, j \in 1 .. Len(queue) : queue[i].serial = queue[j].serial => i = j
    /\ \A x \in InQueue, y \in handlers \cup InReplies : x.serial # y.serial
    /\ \A x \in handlers, y \in InReplies : x.serial # y.serial
    /\ \A x, y \in handlers : x.serial = y.serial => x = y

ChannelInv == ChannelTypeOK /\ IdInv /\ SerialInv

-----------------------------------------------------------------------------
\* The id after the last one but one is the next number: no wrap.
LEMMA NoWrap ==
    ASSUME NEW n \in Nat, n + 1 < IdSpace
    PROVE  FetchAdd(n) = n + 1
<1>1. IdSpace \in Nat \ {0}
  BY ChannelAssumption
<1>. QED
  BY <1>1 DEF FetchAdd

\* Ids and serials are natural numbers.
LEMMA Numbers ==
    /\ IdSpace \in Nat \ {0} /\ MaxRequests \in Nat /\ MaxRequests < IdSpace
    /\ \A i : i \in Ids <=> i \in Nat /\ i < IdSpace
    /\ \A n : n \in Serials <=> n \in Nat /\ n <= MaxRequests
    /\ IsFiniteSet(Clients)
BY ChannelAssumption DEF Ids, Serials

\* The locals of a client.
LEMMA TaskTypes ==
    ASSUME ChannelTypeOK, NEW c \in Clients
    PROVE  /\ task[c] \in Tasks /\ task[c].kind \in Kinds /\ task[c].id \in Ids
           /\ task[c].serial \in Serials /\ task[c].rx \in Nat
           /\ task[c].pc \in {"closed", "idle", "id", "send", "wait"}
BY DEF ChannelTypeOK, Tasks

\* Tasks are built from the parts of tasks.
LEMMA TaskParts ==
    /\ NoTask \in Tasks
    /\ \A t \in Tasks, n \in Serials, k \in Kinds :
          /\ [t EXCEPT !.pc = "closed"] \in Tasks
          /\ [t EXCEPT !.pc = "id", !.kind = k, !.serial = n] \in Tasks
          /\ [t EXCEPT !.pc = "id", !.serial = n] \in Tasks
    /\ \A t \in Tasks, i \in Ids, r \in Nat :
          /\ [t EXCEPT !.pc = "send", !.rx = r, !.id = i] \in Tasks
          /\ [t EXCEPT !.pc = "wait"] \in Tasks
          /\ [t EXCEPT !.rx = r] \in Tasks
<1>1. 0 \in Ids /\ 0 \in Serials /\ 0 \in Nat
  BY Numbers
<1>2. NoTask \in Tasks
  BY <1>1 DEF NoTask, Tasks, Kinds
<1>. QED
  BY <1>2 DEF Tasks

\* The clients that are about to take an id are finitely many.
LEMMA RegisteringFinite ==
    IsFiniteSet(Registering) /\ Cardinality(Registering) \in Nat
BY Numbers, FS_Subset, FS_CardinalityType DEF Registering

\* What is in the channels.
LEMMA ItemTypes ==
    ASSUME ChannelTypeOK
    PROVE  /\ InQueue \subseteq UIRequests /\ InReplies \subseteq Replies
           /\ \A x \in Items : x.id \in Ids /\ x.serial \in Serials
<1>1. InQueue \subseteq UIRequests
  BY DEF ChannelTypeOK, InQueue
<1>2. InReplies \subseteq Replies
  BY DEF ChannelTypeOK, InReplies
<1>3. handlers \subseteq UIRequests
  BY DEF ChannelTypeOK
<1>. QED
  BY <1>1, <1>2, <1>3 DEF Items, UIRequests, Replies

\* A request put into the channel.
LEMMA QueueAppend ==
    ASSUME ChannelTypeOK, NEW x \in UIRequests, queue' = Append(queue, x)
    PROVE  InQueue' = InQueue \cup {x} /\ Len(queue') = Len(queue) + 1
BY DEF ChannelTypeOK, InQueue

LEMMA RepliesAppend ==
    ASSUME ChannelTypeOK, NEW x \in Replies, replies' = Append(replies, x)
    PROVE  InReplies' = InReplies \cup {x} /\ Len(replies') = Len(replies) + 1
BY DEF ChannelTypeOK, InReplies

LEMMA QueueTail ==
    ASSUME ChannelTypeOK, queue # << >>, queue' = Tail(queue)
    PROVE  /\ InQueue = InQueue' \cup {Head(queue)}
           /\ Head(queue) = queue[1] /\ Len(queue') = Len(queue) - 1
           /\ 1 \in 1 .. Len(queue)
           /\ \A i \in 1 .. Len(queue') : queue'[i] = queue[i + 1] /\ i + 1 \in 1 .. Len(queue)
<1>1. queue \in Seq(UIRequests) /\ Len(queue) \in Nat /\ Len(queue) > 0
  BY DEF ChannelTypeOK
<1>2. \A i \in 1 .. Len(queue') : queue'[i] = queue[i + 1] /\ i + 1 \in 1 .. Len(queue)
  BY <1>1
<1>3. \A i \in 1 .. Len(queue) : i = 1 \/ (i - 1 \in 1 .. Len(queue') /\ queue[i] = queue'[i - 1])
  BY <1>1
<1>4. Head(queue) = queue[1] /\ Len(queue') = Len(queue) - 1 /\ 1 \in 1 .. Len(queue)
  BY <1>1
<1>5. InQueue = InQueue' \cup {Head(queue)}
  <2>1. ASSUME NEW x \in InQueue PROVE x \in InQueue' \cup {Head(queue)}
    <3>1. PICK i \in 1 .. Len(queue) : x = queue[i]
      BY DEF InQueue
    <3>. QED
      BY <1>3, <1>4, <3>1 DEF InQueue
  <2>2. ASSUME NEW x \in InQueue' PROVE x \in InQueue
    <3>1. PICK i \in 1 .. Len(queue') : x = queue'[i]
      BY DEF InQueue
    <3>. QED
      BY <1>2, <3>1 DEF InQueue
  <2>. QED
    BY <1>4, <2>1, <2>2 DEF InQueue
<1>. QED
  BY <1>2, <1>4, <1>5
-----------------------------------------------------------------------------
(* What a step may do to the tasks and the channels.                       *)

\* The clients about to take an id, after client c moved on to t.
LEMMA RegisteringMoves ==
    ASSUME ChannelTypeOK, NEW c \in Clients, NEW t \in Tasks, task' = [task EXCEPT ![c] = t]
    PROVE  /\ task[c].pc # "id" /\ t.pc # "id" =>
                 Cardinality(Registering') = Cardinality(Registering)
           /\ task[c].pc # "id" /\ t.pc = "id" =>
                 Cardinality(Registering') = Cardinality(Registering) + 1
           /\ task[c].pc = "id" /\ t.pc # "id" =>
                 Cardinality(Registering') = Cardinality(Registering) - 1
           /\ Cardinality(Registering') \in Nat
<1>1. task' \in [Clients -> Tasks] /\ task'[c] = t /\ \A e \in Clients : e # c => task'[e] = task[e]
  BY DEF ChannelTypeOK
<1>2. /\ task[c].pc # "id" /\ t.pc # "id" => Registering' = Registering
      /\ task[c].pc # "id" /\ t.pc = "id" => Registering' = Registering \cup {c} /\ c \notin Registering
      /\ task[c].pc = "id" /\ t.pc # "id" => Registering' = Registering \ {c} /\ c \in Registering
  BY <1>1 DEF Registering
<1>3. IsFiniteSet(Registering') /\ Cardinality(Registering') \in Nat
  <2>1. Registering' \subseteq Clients
    BY DEF Registering
  <2>. QED
    BY <2>1, Numbers, FS_Subset, FS_CardinalityType
<1>. QED
  BY <1>2, <1>3, RegisteringFinite, FS_AddElement, FS_RemoveElement

\* A step that leaves tasks, ids and channels alone.
LEMMA QuietKeeps ==
    ASSUME ChannelInv, ChannelTypeOK', UNCHANGED <<request_id, channels, task, zeroed>>,
           asked <= asked'
    PROVE  ChannelInv'
<1>1. InQueue' = InQueue /\ InReplies' = InReplies /\ Items' = Items /\ Registering' = Registering
  BY DEF channels, InQueue, InReplies, Items, Registering
<1>2. request_id \in Nat /\ asked \in Nat /\ asked' \in Nat /\ Cardinality(Registering) \in Nat
  BY Numbers, RegisteringFinite DEF ChannelInv, ChannelTypeOK
<1>3. /\ \A e \in Clients : task[e].serial \in Nat
      /\ \A x \in Items : x.serial \in Nat
  BY TaskTypes, ItemTypes, Numbers DEF ChannelInv
<1>4. IdInv'
  BY <1>1, <1>2 DEF ChannelInv, IdInv, Numbered, Spent, Own
<1>5. SerialInv'
  BY <1>1, <1>2, <1>3 DEF ChannelInv, SerialInv, Active, channels
<1>. QED
  BY <1>4, <1>5 DEF ChannelInv

\* A step of one client that leaves the channels alone.
LEMMA TaskKeeps ==
    ASSUME ChannelInv, ChannelTypeOK', NEW c \in Clients, NEW t \in Tasks,
           task' = [task EXCEPT ![c] = t], UNCHANGED channels,
           request_id <= request_id', asked <= asked', zeroed => zeroed',
           request_id' + Cardinality(Registering') <= asked',
           t.pc \in {"send", "wait"} =>
             /\ t.id < request_id' \/ (zeroed' /\ t.id = 0)
             /\ \A x \in Items : x.id = t.id => x.serial = t.serial \/ (zeroed' /\ t.id = 0)
             /\ \A e \in Clients : e # c /\ Numbered(e) /\ task[e].id = t.id => zeroed' /\ t.id = 0,
           t.pc \in {"id", "send", "wait"} =>
             /\ t.serial <= asked'
             /\ \A e \in Clients : e # c /\ Active(e) => task[e].serial # t.serial,
           t.pc \in {"id", "send"} => \A x \in Items : x.serial # t.serial
    PROVE  ChannelInv'
<1>1. InQueue' = InQueue /\ InReplies' = InReplies /\ Items' = Items
  BY DEF channels, InQueue, InReplies, Items
<1>2. task'[c] = t /\ \A e \in Clients : e # c => task'[e] = task[e]
  BY DEF ChannelInv, ChannelTypeOK
<1>3. request_id \in Nat /\ request_id' \in Nat /\ asked \in Nat /\ asked' \in Nat
  BY Numbers DEF ChannelInv, ChannelTypeOK
<1>4. /\ \A e \in Clients : task[e].id \in Nat /\ task[e].serial \in Nat
      /\ \A x \in Items : x.id \in Nat /\ x.serial \in Nat
  BY TaskTypes, ItemTypes, Numbers DEF ChannelInv
<1>5. IdInv'
  <2>1. \A i \in Nat : Spent(i) => Spent(i)'
    BY <1>3 DEF Spent
  <2>2. \A e \in Clients : Numbered(e)' => Spent(task[e].id)'
    BY <1>2, <1>4, <2>1 DEF ChannelInv, IdInv, Numbered, Spent
  <2>3. \A x \in Items : Spent(x.id)'
    BY <1>4, <2>1 DEF ChannelInv, IdInv
  <2>4. \A e \in Clients : Numbered(e)' => \A x \in Items : Own(e, x.id, x.serial)'
    BY <1>2 DEF ChannelInv, IdInv, Numbered, Own
  <2>5. \A d, e \in Clients : Numbered(d)' /\ Numbered(e)' => Own(d, task[e].id, task[e].serial)'
    BY <1>2 DEF ChannelInv, IdInv, Numbered, Own
  <2>. QED
    BY <1>1, <2>2, <2>3, <2>4, <2>5 DEF IdInv, Spent, Own
<1>6. SerialInv'
  <2>1. \A e \in Clients : Active(e)' => task'[e].serial <= asked'
    BY <1>2, <1>3, <1>4 DEF ChannelInv, SerialInv, Active
  <2>2. \A x \in Items : x.serial <= asked'
    BY <1>3, <1>4 DEF ChannelInv, SerialInv
  <2>3. \A d, e \in Clients : Active(d)' /\ Active(e)' /\ task'[d].serial = task'[e].serial => d = e
    BY <1>2 DEF ChannelInv, SerialInv, Active
  <2>4. \A e \in Clients : task'[e].pc \in {"id", "send"} => \A x \in Items : x.serial # task'[e].serial
    BY <1>2 DEF ChannelInv, SerialInv
  <2>. QED
    BY <1>1, <2>1, <2>2, <2>3, <2>4 DEF ChannelInv, SerialInv, channels
<1>. QED
  BY <1>5, <1>6 DEF ChannelInv
-----------------------------------------------------------------------------
(* One lemma per action.                                                   *)

\* Starting, claiming and losing the transport, and watching it, touch no request.
LEMMA TransportKeeps ==
    ASSUME ChannelInv,
           \/ StartServer \/ SetRunning \/ ClaimPipe \/ PipeFails \/ ServeExits \/ Watch
           \/ \E value \in BOOLEAN : SetNeedsUnlock(value)
    PROVE  ChannelInv'
<1>1. UNCHANGED <<request_id, channels, task, history>>
  BY DEF StartServer, SetRunning, ClaimPipe, PipeFails, ServeExits, Watch, SetNeedsUnlock
<1>2. platform' = platform
  BY DEF StartServer, SetRunning, ClaimPipe, PipeFails, ServeExits, Watch, SetNeedsUnlock, transport
<1>3. main' \in {"start", "started", "loop", "stopped"} /\ fatal' \in {"none", "sent", "lost"}
  BY DEF ChannelInv, ChannelTypeOK, StartServer, SetRunning, ClaimPipe, PipeFails, SendFatal,
         ServeExits, Watch, SetNeedsUnlock, transport
<1>4. listener' \in {"none", "claiming", "serving", "failed", "ended"}
  BY DEF ChannelInv, ChannelTypeOK, StartServer, SetRunning, ClaimPipe, PipeFails,
         ServeExits, Watch, SetNeedsUnlock, transport
<1>5. is_running' \in BOOLEAN /\ needs_unlock' \in BOOLEAN
  BY DEF ChannelInv, ChannelTypeOK, StartServer, SetRunning, ClaimPipe, PipeFails,
         ServeExits, Watch, SetNeedsUnlock, transport
<1>6. ChannelTypeOK'
  BY <1>1, <1>2, <1>3, <1>4, <1>5 DEF ChannelInv, ChannelTypeOK, channels, history
<1>7. asked \in Nat
  BY Numbers DEF ChannelInv, ChannelTypeOK
<1>. QED
  BY <1>1, <1>6, <1>7, QuietKeeps DEF history

\* The end of the loop empties the request channel and drops the handlers.
LEMMA ShutdownKeeps ==
    ASSUME ChannelInv, Shutdown
    PROVE  ChannelInv'
<1>1. UNCHANGED <<replies, request_id, task, asked, zeroed>> /\ queue' = << >> /\ handlers' = {}
  BY DEF Shutdown, history
<1>2. InQueue' = {} /\ InReplies' = InReplies /\ Items' \subseteq Items /\ Registering' = Registering
  BY <1>1 DEF InQueue, InReplies, Items, Registering
<1>3. ChannelTypeOK'
  <2>1. << >> \in Seq(UIRequests) /\ Len(<< >>) <= QueueCap
    BY ChannelAssumption
  <2>. QED
    BY <2>1 DEF ChannelInv, ChannelTypeOK, Shutdown, history
<1>4. IdInv'
  BY <1>1, <1>2 DEF ChannelInv, IdInv, Numbered, Spent, Own
<1>5. SerialInv'
  BY <1>1, <1>2 DEF ChannelInv, SerialInv, Active
<1>. QED
  BY <1>3, <1>4, <1>5 DEF ChannelInv

\* A task that returns holds no request any more.
LEMMA ReturnKeeps ==
    ASSUME ChannelInv, ChannelTypeOK', NEW c \in Clients, NEW t \in Tasks,
           t.pc \in {"idle", "closed"}, task' = [task EXCEPT ![c] = t],
           UNCHANGED <<channels, asked, zeroed>>,
           \/ request_id' = request_id
           \/ task[c].pc = "id" /\ request_id' = request_id + 1
    PROVE  ChannelInv'
<1>1. request_id \in Nat /\ asked \in Nat
  BY Numbers DEF ChannelInv, ChannelTypeOK
<1>2. /\ task[c].pc # "id" => Cardinality(Registering') = Cardinality(Registering)
      /\ task[c].pc = "id" => Cardinality(Registering') = Cardinality(Registering) - 1
  BY RegisteringMoves DEF ChannelInv
<1>3. request_id + Cardinality(Registering) <= asked /\ Cardinality(Registering) \in Nat
  BY RegisteringFinite DEF ChannelInv, IdInv
<1>4. request_id' + Cardinality(Registering') <= asked' /\ request_id <= request_id' /\ asked <= asked'
  BY <1>1, <1>2, <1>3
<1>5. t.pc \notin {"id", "send", "wait"} /\ UNCHANGED channels /\ (zeroed => zeroed')
  OBVIOUS
<1>. QED
  BY <1>4, <1>5, TaskKeeps

\* An accepted connection.
LEMMA ConnectKeeps ==
    ASSUME ChannelInv, NEW c \in Clients, Connect(c)
    PROVE  ChannelInv'
<1>1. task' = [task EXCEPT ![c] = NoTask] /\ NoTask \in Tasks /\ NoTask.pc = "idle"
  BY TaskParts DEF Connect, NoTask
<1>2. ChannelTypeOK'
  BY <1>1 DEF ChannelInv, ChannelTypeOK, Connect, transport, channels, history
<1>3. UNCHANGED <<channels, asked, zeroed, request_id>>
  BY DEF Connect, history
<1>. QED
  BY <1>1, <1>2, <1>3, ReturnKeeps

\* A new request has a serial number that nothing else has.
LEMMA BeginKeeps ==
    ASSUME ChannelInv, ChannelTypeOK', NEW c \in Clients, NEW t \in Tasks,
           task[c].pc = "idle", t.pc = "id", t.serial = asked + 1,
           task' = [task EXCEPT ![c] = t],
           asked' = asked + 1, UNCHANGED <<channels, zeroed, request_id>>
    PROVE  ChannelInv'
<1>1. request_id \in Nat /\ asked \in Nat
  BY Numbers DEF ChannelInv, ChannelTypeOK
<1>2. request_id' + Cardinality(Registering') <= asked' /\ request_id <= request_id' /\ asked <= asked'
  <2>1. Cardinality(Registering') = Cardinality(Registering) + 1
    BY RegisteringMoves DEF ChannelInv
  <2>2. request_id + Cardinality(Registering) <= asked /\ Cardinality(Registering) \in Nat
    BY RegisteringFinite DEF ChannelInv, IdInv
  <2>. QED
    BY <1>1, <2>1, <2>2
<1>3. /\ \A e \in Clients : task[e].serial \in Nat
      /\ \A x \in Items : x.serial \in Nat
  BY TaskTypes, ItemTypes, Numbers DEF ChannelInv
<1>4. /\ \A e \in Clients : e # c /\ Active(e) => task[e].serial # t.serial
      /\ \A x \in Items : x.serial # t.serial
  BY <1>1, <1>3 DEF ChannelInv, SerialInv
<1>5. t.serial <= asked' /\ t.pc \notin {"send", "wait"} /\ UNCHANGED channels /\ (zeroed => zeroed')
  BY <1>1
<1>. QED
  BY <1>2, <1>4, <1>5, TaskKeeps

\* confirm refuses a request, or begins it.
LEMMA ConfirmKeeps ==
    ASSUME ChannelInv, NEW c \in Clients, Confirm(c)
    PROVE  ChannelInv'
<1>0. asked \in Nat /\ asked + 1 \in Serials /\ asked' = asked + 1
  BY Numbers DEF ChannelInv, ChannelTypeOK, Confirm
<1>1. UNCHANGED <<transport, needs_unlock, request_id, channels, zeroed>>
  BY DEF Confirm
<1>2. CASE ~is_running
  <2>1. ChannelTypeOK' /\ UNCHANGED task
    BY <1>0, <1>2 DEF ChannelInv, ChannelTypeOK, Confirm, Answers, transport, channels
  <2>. QED
    BY <1>0, <1>1, <2>1, QuietKeeps
<1>3. CASE is_running
  <2> DEFINE t == [NoTask EXCEPT !.pc = "id", !.serial = asked + 1]
  <2>1. t \in Tasks /\ t.pc = "id" /\ t.serial = asked + 1
    BY <1>0, TaskParts DEF Tasks
  <2>2. task' = [task EXCEPT ![c] = t] /\ UNCHANGED answer
    BY <1>0, <1>3 DEF Confirm
  <2>3. ChannelTypeOK'
    BY <1>0, <1>1, <2>1, <2>2 DEF ChannelInv, ChannelTypeOK, transport, channels
  <2>4. task[c].pc = "idle"
    BY DEF Confirm
  <2>. QED
    BY <1>0, <1>1, <2>1, <2>2, <2>3, <2>4, BeginKeeps
<1>. QED
  BY <1>2, <1>3

\* can_list begins a request.
LEMMA CanListKeeps ==
    ASSUME ChannelInv, NEW c \in Clients, CanList(c)
    PROVE  ChannelInv'
<1>0. asked \in Nat /\ asked + 1 \in Serials /\ asked' = asked + 1
  BY Numbers DEF ChannelInv, ChannelTypeOK, CanList
<1>1. UNCHANGED <<transport, needs_unlock, request_id, channels, answer, zeroed>> /\ task[c].pc = "idle"
  BY DEF CanList
<1> DEFINE t == [NoTask EXCEPT !.pc = "id", !.kind = "list", !.serial = asked + 1]
<1>2. t \in Tasks /\ t.pc = "id" /\ t.serial = asked + 1
  BY <1>0, TaskParts, ZenonT(40) DEF Tasks, Kinds
<1>3. task' = [task EXCEPT ![c] = t]
  BY <1>0 DEF CanList
<1>4. ChannelTypeOK'
  BY <1>0, <1>1, <1>2, <1>3 DEF ChannelInv, ChannelTypeOK, transport, channels
<1>. QED
  BY <1>0, <1>1, <1>2, <1>3, <1>4, BeginKeeps

\* What a task that returns may write.
LEMMA ReturnTypes ==
    ASSUME ChannelTypeOK, NEW c \in Clients, NEW ok \in BOOLEAN, Return(c, ok)
    PROVE  /\ task' = [task EXCEPT ![c] = NoTask] /\ task' \in [Clients -> Tasks]
           /\ answer' \in [Clients -> Answers]
           /\ NoTask \in Tasks /\ NoTask.pc = "idle"
BY TaskParts DEF ChannelTypeOK, Return, Verdict, Answers, NoTask

\* get_request_id hands out a number below every later one, or 0 when it is down.
LEMMA RegisterKeeps ==
    ASSUME ChannelInv, NEW c \in Clients, Register(c)
    PROVE  ChannelInv'
<1>0. /\ task[c].pc = "id" /\ UNCHANGED <<transport, needs_unlock, channels, asked>>
      /\ ChannelTypeOK
  BY DEF Register, ChannelInv
<1>1. request_id \in Nat /\ asked \in Nat /\ asked <= MaxRequests /\ MaxRequests < IdSpace
      /\ MaxRequests \in Nat /\ IdSpace \in Nat
  BY Numbers DEF ChannelInv, ChannelTypeOK
<1>2. request_id < asked
  <2>1. c \in Registering /\ Cardinality(Registering) \in Nat
    BY <1>0, RegisteringFinite DEF Registering
  <2>2. Cardinality(Registering) # 0
    BY <2>1, RegisteringFinite, FS_EmptySet
  <2>. QED
    BY <1>1, <2>1, <2>2 DEF ChannelInv, IdInv
<1>3. request_id' \in {request_id, request_id + 1} /\ request_id' \in Ids
      /\ (is_running => request_id' = request_id + 1)
  BY <1>1, <1>2, NoWrap, Numbers DEF Register, ChannelInv, ChannelTypeOK
<1>4. CASE task[c].kind = "sign" /\ Return(c, FALSE) /\ UNCHANGED zeroed
  <2>1. ChannelTypeOK'
    BY <1>0, <1>3, <1>4, ReturnTypes DEF ChannelTypeOK, transport, channels
  <2>. QED
    BY <1>0, <1>1, <1>3, <1>4, <2>1, ReturnTypes, ReturnKeeps
<1>5. CASE /\ zeroed' = (zeroed \/ ~is_running)
          /\ task' = [task EXCEPT ![c].pc = "send", ![c].rx = Len(replies),
                                  ![c].id = IF is_running THEN request_id ELSE 0]
          /\ UNCHANGED answer
  <2> DEFINE i == IF is_running THEN request_id ELSE 0
             t == [task[c] EXCEPT !.pc = "send", !.rx = Len(replies), !.id = i]
  <2>1. i \in Ids /\ Len(replies) \in Nat
    BY <1>0, <1>1, Numbers DEF ChannelTypeOK
  <2>2. t \in Tasks /\ t.pc = "send" /\ t.id = i /\ t.serial = task[c].serial
    BY <1>0, <2>1, TaskTypes, TaskParts, ZenonT(40) DEF Tasks
  <2>3. task' = [task EXCEPT ![c] = t]
    BY <1>0, <1>5 DEF ChannelTypeOK, Tasks
  <2>4. ChannelTypeOK'
    BY <1>0, <1>3, <1>5, <2>2, <2>3 DEF ChannelTypeOK, transport, channels
  <2>5. request_id' + Cardinality(Registering') <= asked'
    <3>1. Cardinality(Registering') = Cardinality(Registering) - 1
      BY <1>0, <2>2, <2>3, RegisteringMoves
    <3>2. request_id + Cardinality(Registering) <= asked /\ Cardinality(Registering) \in Nat
      BY RegisteringFinite DEF ChannelInv, IdInv
    <3>. QED
      BY <1>0, <1>1, <1>3, <3>1, <3>2
  <2>6. (zeroed => zeroed') /\ (~is_running => zeroed')
    BY <1>5
  <2>7. i < request_id' \/ (zeroed' /\ i = 0)
    BY <1>1, <1>3, <2>6
  <2>8. \A x \in Items : x.id \in Nat /\ (x.id = i => zeroed' /\ i = 0)
    BY <1>0, <1>1, <2>6, ItemTypes, Numbers DEF ChannelInv, IdInv, Spent
  <2>9. \A e \in Clients : Numbered(e) /\ task[e].id = i => zeroed' /\ i = 0
    BY <1>0, <1>1, <2>6, TaskTypes, Numbers DEF ChannelInv, IdInv, Spent
  <2>10. /\ task[c].serial <= asked'
         /\ \A e \in Clients : e # c /\ Active(e) => task[e].serial # task[c].serial
         /\ \A x \in Items : x.serial # task[c].serial
    BY <1>0 DEF ChannelInv, SerialInv, Active
  <2> HIDE DEF i, t
  <2>11. request_id <= request_id' /\ asked <= asked' /\ UNCHANGED channels
    BY <1>0, <1>1, <1>3
  <2>12. /\ t.id < request_id' \/ (zeroed' /\ t.id = 0)
         /\ \A x \in Items : x.id = t.id => x.serial = t.serial \/ (zeroed' /\ t.id = 0)
         /\ \A e \in Clients : e # c /\ Numbered(e) /\ task[e].id = t.id => zeroed' /\ t.id = 0
    BY <2>2, <2>7, <2>8, <2>9
  <2>13. /\ t.serial <= asked'
         /\ \A e \in Clients : e # c /\ Active(e) => task[e].serial # t.serial
         /\ \A x \in Items : x.serial # t.serial
    BY <2>2, <2>10
  <2>. QED
    BY <2>2, <2>3, <2>4, <2>5, <2>6, <2>11, <2>12, <2>13, TaskKeeps
<1>. QED
  BY <1>4, <1>5 DEF Register

\* A request enters the channel with the id and the serial of its task.
LEMMA SendKeeps ==
    ASSUME ChannelInv, NEW c \in Clients, Send(c)
    PROVE  ChannelInv'
<1>0. /\ task[c].pc = "send" /\ ChannelTypeOK
      /\ UNCHANGED <<transport, needs_unlock, request_id, handlers, replies, asked, zeroed>>
  BY DEF Send, ChannelInv
<1>1. CASE Return(c, FALSE) /\ UNCHANGED queue
  <2>1. ChannelTypeOK'
    BY <1>0, <1>1, ReturnTypes DEF ChannelTypeOK, transport
  <2>2. UNCHANGED <<channels, asked, zeroed>> /\ request_id' = request_id
    BY <1>0, <1>1 DEF channels
  <2>. QED
    BY <1>0, <1>1, <2>1, <2>2, ReturnTypes, ReturnKeeps
<1>2. CASE /\ Room
          /\ queue' = Append(queue, [id |-> task[c].id, serial |-> task[c].serial,
                                     kind |-> task[c].kind])
          /\ task' = [task EXCEPT ![c].pc = "wait"]
          /\ UNCHANGED answer
  <2> DEFINE q == [id |-> task[c].id, serial |-> task[c].serial, kind |-> task[c].kind]
             t == [task[c] EXCEPT !.pc = "wait"]
  <2>1. q \in UIRequests /\ q.id = task[c].id /\ q.serial = task[c].serial
    BY <1>0, TaskTypes DEF UIRequests
  <2>2. t \in Tasks /\ t.pc = "wait" /\ t.id = task[c].id /\ t.serial = task[c].serial
    BY <1>0, TaskTypes DEF Tasks
  <2>3. task' = [task EXCEPT ![c] = t] /\ queue' = Append(queue, q)
    BY <1>0, <1>2 DEF ChannelTypeOK, Tasks
  <2> HIDE DEF q, t
  <2>4. task'[c] = t /\ \A e \in Clients : e # c => task'[e] = task[e]
    BY <1>0, <2>3 DEF ChannelTypeOK
  <2>5. /\ InQueue' = InQueue \cup {q} /\ Len(queue') = Len(queue) + 1
        /\ InReplies' = InReplies /\ Items' = Items \cup {q}
    BY <1>0, <2>1, <2>3, QueueAppend DEF InReplies, Items
  <2>6. ChannelTypeOK'
    <3>1. queue' \in Seq(UIRequests) /\ Len(queue') <= QueueCap
      BY <1>0, <1>2, <2>1, <2>3, <2>5, ChannelAssumption DEF ChannelTypeOK, Room
    <3>. QED
      BY <1>0, <1>2, <2>2, <2>3, <3>1 DEF ChannelTypeOK, transport
  <2>7. IdInv'
    <3>1. Cardinality(Registering') = Cardinality(Registering)
      BY <1>0, <2>2, <2>3, RegisteringMoves
    <3>2. Spent(q.id) /\ \A e \in Clients : Numbered(e) => Own(e, q.id, q.serial)
      BY <1>0, <2>1 DEF ChannelInv, IdInv, Numbered
    <3>3. \A e \in Clients : Numbered(e)' <=> Numbered(e)
      BY <1>0, <2>2, <2>4 DEF Numbered
    <3>4. \A e \in Clients : task'[e].id = task[e].id /\ task'[e].serial = task[e].serial
      BY <2>2, <2>4
    <3>. QED
      BY <1>0, <2>5, <3>1, <3>2, <3>3, <3>4 DEF ChannelInv, IdInv, Spent, Own
  <2>8. SerialInv'
    <3>1. \A e \in Clients : Active(e)' <=> Active(e)
      BY <1>0, <2>2, <2>4 DEF Active
    <3>2. \A e \in Clients : task'[e].serial = task[e].serial
      BY <2>2, <2>4
    <3>3. q.serial <= asked /\ \A x \in Items : x.serial # q.serial
      BY <1>0, <2>1 DEF ChannelInv, SerialInv, Active
    <3>4. \A e \in Clients : task'[e].pc \in {"id", "send"} =>
              e # c /\ task[e].pc \in {"id", "send"} /\ task[e].serial # q.serial
      BY <1>0, <2>1, <2>2, <2>4 DEF ChannelInv, SerialInv, Active
    <3>5. \A i \in 1 .. Len(queue') :
              \/ i \in 1 .. Len(queue) /\ queue'[i] = queue[i] /\ queue[i] \in Items
              \/ i = Len(queue) + 1 /\ queue'[i] = q
      BY <1>0, <2>1, <2>3, <2>5 DEF ChannelTypeOK, InQueue, Items
    <3>6. \A i, j \in 1 .. Len(queue') : queue'[i].serial = queue'[j].serial => i = j
      BY <3>3, <3>5 DEF ChannelInv, SerialInv
    <3>7. \A x \in InQueue', y \in handlers' \cup InReplies' : x.serial # y.serial
      BY <1>0, <2>5, <3>3 DEF ChannelInv, SerialInv, Items
    <3>8. /\ \A x \in handlers', y \in InReplies' : x.serial # y.serial
          /\ \A x, y \in handlers' : x.serial = y.serial => x = y
      BY <1>0, <2>5 DEF ChannelInv, SerialInv
    <3>9. /\ \A e \in Clients : Active(e)' => task'[e].serial <= asked'
          /\ \A x \in Items' : x.serial <= asked'
          /\ \A d, e \in Clients : Active(d)' /\ Active(e)' /\ task'[d].serial = task'[e].serial => d = e
      BY <1>0, <2>5, <3>1, <3>2, <3>3 DEF ChannelInv, SerialInv
    <3>10. \A e \in Clients : task'[e].pc \in {"id", "send"} =>
              \A x \in Items' : x.serial # task'[e].serial
      BY <2>5, <3>2, <3>4 DEF ChannelInv, SerialInv
    <3>. QED
      BY <3>6, <3>7, <3>8, <3>9, <3>10 DEF SerialInv
  <2>. QED
    BY <2>6, <2>7, <2>8 DEF ChannelInv
<1>. QED
  BY <1>1, <1>2 DEF Send

\* A task reads the next reply, and returns or goes on waiting.
LEMMA ReceiveKeeps ==
    ASSUME ChannelInv, NEW c \in Clients, Receive(c)
    PROVE  ChannelInv'
<1>0. /\ task[c].pc = "wait" /\ ChannelTypeOK
      /\ UNCHANGED <<transport, needs_unlock, request_id, channels, asked, zeroed>>
  BY DEF Receive, ChannelInv
<1>1. ASSUME NEW ok \in BOOLEAN, Return(c, ok) PROVE ChannelInv'
  <2>1. ChannelTypeOK'
    BY <1>0, <1>1, ReturnTypes DEF ChannelTypeOK, transport, channels
  <2>2. UNCHANGED <<channels, asked, zeroed>> /\ request_id' = request_id
    BY <1>0
  <2>. QED
    BY <1>0, <1>1, <2>1, <2>2, ReturnTypes, ReturnKeeps
<1>2. CASE task' = [task EXCEPT ![c].rx = @ + 1] /\ UNCHANGED answer
  <2> DEFINE t == [task[c] EXCEPT !.rx = task[c].rx + 1]
  <2>1. t \in Tasks /\ t.pc = "wait" /\ t.id = task[c].id /\ t.serial = task[c].serial
    BY <1>0, TaskTypes DEF Tasks
  <2>2. task' = [task EXCEPT ![c] = t]
    BY <1>0, <1>2 DEF ChannelTypeOK, Tasks
  <2> HIDE DEF t
  <2>3. ChannelTypeOK'
    BY <1>0, <1>2, <2>1, <2>2 DEF ChannelTypeOK, transport, channels
  <2>4. Cardinality(Registering') = Cardinality(Registering)
    BY <1>0, <2>1, <2>2, RegisteringMoves
  <2>5. request_id' + Cardinality(Registering') <= asked' /\ (zeroed => zeroed') /\ UNCHANGED channels
        /\ request_id <= request_id' /\ asked <= asked'
    BY <1>0, <2>4, Numbers DEF ChannelInv, IdInv, ChannelTypeOK
  <2>6. /\ t.id < request_id' \/ (zeroed' /\ t.id = 0)
        /\ \A x \in Items : x.id = t.id => x.serial = t.serial \/ (zeroed' /\ t.id = 0)
    BY <1>0, <2>1 DEF ChannelInv, IdInv, Spent, Own, Numbered
  <2>7. /\ t.serial <= asked'
        /\ \A e \in Clients : e # c /\ Active(e) => task[e].serial # t.serial
    BY <1>0, <2>1 DEF ChannelInv, SerialInv, Active
  <2>8. \A e \in Clients : e # c /\ Numbered(e) /\ task[e].id = t.id => zeroed' /\ t.id = 0
    BY <1>0, <2>1, <2>7 DEF ChannelInv, IdInv, Own, Numbered, Active
  <2>. QED
    BY <2>1, <2>2, <2>3, <2>5, <2>6, <2>7, <2>8, TaskKeeps
<1>3. replies[task[c].rx + 1].ok \in BOOLEAN
  <2>1. task[c].rx + 1 \in 1 .. Len(replies) /\ replies \in Seq(Replies)
    BY <1>0, TaskTypes DEF Receive, ChannelTypeOK
  <2>2. replies[task[c].rx + 1] \in Replies
    BY <2>1
  <2>. QED
    BY <2>2 DEF Replies
<1>. QED
  BY <1>1, <1>2, <1>3 DEF Receive, AfterLag

\* The loop takes the oldest request and spawns its handler.
LEMMA DispatchKeeps ==
    ASSUME ChannelInv, Dispatch
    PROVE  ChannelInv'
<1>0. /\ queue # << >> /\ queue' = Tail(queue) /\ handlers' = handlers \cup {Head(queue)}
      /\ UNCHANGED <<transport, needs_unlock, request_id, replies, task, asked, answer, zeroed>>
      /\ ChannelTypeOK
  BY DEF Dispatch, ChannelInv, history
<1>1. /\ InQueue = InQueue' \cup {Head(queue)}
      /\ Head(queue) = queue[1] /\ Len(queue') = Len(queue) - 1
      /\ 1 \in 1 .. Len(queue)
      /\ \A i \in 1 .. Len(queue') : queue'[i] = queue[i + 1] /\ i + 1 \in 1 .. Len(queue)
  BY <1>0, QueueTail
<1>2. Items' = Items /\ InReplies' = InReplies /\ Registering' = Registering
  BY <1>0, <1>1 DEF Items, InReplies, Registering
<1>3. Head(queue) \in InQueue /\ \A x \in InQueue' : x.serial # Head(queue).serial
  <2>1. SUFFICES ASSUME NEW x \in InQueue' PROVE x.serial # Head(queue).serial
    BY <1>1
  <2>2. PICK i \in 1 .. Len(queue') : x = queue'[i]
    BY DEF InQueue
  <2>3. x = queue[i + 1] /\ i + 1 \in 1 .. Len(queue) /\ i + 1 # 1
    BY <1>1, <2>2
  <2>. QED
    BY <1>1, <2>3 DEF ChannelInv, SerialInv
<1>4. ChannelTypeOK'
  <2>1. Head(queue) \in UIRequests /\ queue' \in Seq(UIRequests) /\ Len(queue') <= QueueCap
    BY <1>0, <1>1, ChannelAssumption DEF ChannelTypeOK
  <2>. QED
    BY <1>0, <2>1 DEF ChannelTypeOK, transport
<1>5. IdInv'
  BY <1>0, <1>2 DEF ChannelInv, IdInv, Numbered, Spent, Own
<1>6. SerialInv'
  <2>1. \A i, j \in 1 .. Len(queue') : queue'[i].serial = queue'[j].serial => i = j
    BY <1>1, SMTT(30) DEF ChannelInv, SerialInv
  <2>2. \A x \in InQueue', y \in handlers' \cup InReplies' : x.serial # y.serial
    BY <1>0, <1>1, <1>2, <1>3 DEF ChannelInv, SerialInv
  <2>3. \A x \in handlers', y \in InReplies' : x.serial # y.serial
    BY <1>0, <1>2, <1>3 DEF ChannelInv, SerialInv
  <2>4. \A x, y \in handlers' : x.serial = y.serial => x = y
    BY <1>0, <1>3 DEF ChannelInv, SerialInv
  <2>. QED
    BY <1>0, <1>2, <2>1, <2>2, <2>3, <2>4 DEF ChannelInv, SerialInv, Active
<1>. QED
  BY <1>4, <1>5, <1>6 DEF ChannelInv

\* A handler replies under the id and the serial of its request.
LEMMA ReplyKeeps ==
    ASSUME ChannelInv, NEW q \in handlers, NEW ok \in BOOLEAN, Reply(q, ok)
    PROVE  ChannelInv'
<1> DEFINE x0 == [id |-> q.id, serial |-> q.serial, ok |-> ok]
<1>0. /\ handlers' = handlers \ {q} /\ replies' = Append(replies, x0)
      /\ UNCHANGED <<transport, request_id, queue, task, asked, answer, zeroed>>
      /\ needs_unlock' \in BOOLEAN /\ ChannelTypeOK
  BY DEF Reply, ChannelInv, history
<1>1. x0 \in Replies /\ x0.id = q.id /\ x0.serial = q.serial
  BY <1>0 DEF ChannelTypeOK, UIRequests, Replies
<1> HIDE DEF x0
<1>2. /\ InReplies' = InReplies \cup {x0} /\ InQueue' = InQueue /\ Registering' = Registering
      /\ q \in Items
  BY <1>0, <1>1, RepliesAppend DEF InQueue, Registering, Items
<1>3. \A x \in Items' : x \in Items \/ (x.id = q.id /\ x.serial = q.serial)
  BY <1>0, <1>1, <1>2 DEF Items
<1>4. ChannelTypeOK'
  BY <1>0, <1>1 DEF ChannelTypeOK, transport
<1>5. IdInv'
  BY <1>0, <1>2, <1>3 DEF ChannelInv, IdInv, Numbered, Spent, Own
<1>6. SerialInv'
  <2>1. \A x \in InQueue', y \in handlers' \cup InReplies' : x.serial # y.serial
    BY <1>0, <1>1, <1>2 DEF ChannelInv, SerialInv
  <2>2. \A x \in handlers', y \in InReplies' : x.serial # y.serial
    BY <1>0, <1>1, <1>2 DEF ChannelInv, SerialInv
  <2>3. \A x, y \in handlers' : x.serial = y.serial => x = y
    BY <1>0 DEF ChannelInv, SerialInv
  <2>. QED
    BY <1>0, <1>2, <1>3, <2>1, <2>2, <2>3 DEF ChannelInv, SerialInv, Active
<1>. QED
  BY <1>4, <1>5, <1>6 DEF ChannelInv

-----------------------------------------------------------------------------
\* The agent starts without requests.
LEMMA ChannelInit == Init => ChannelInv
<1>. SUFFICES ASSUME Init PROVE ChannelInv
  OBVIOUS
<1>1. 0 \in Ids /\ 0 \in Serials /\ Closed \in Tasks /\ Closed.pc = "closed"
  <2>1. NoTask \in Tasks
    BY TaskParts
  <2>. QED
    BY <2>1, Numbers DEF Closed, Tasks
<1>2. ChannelTypeOK
  <2>1. queue \in Seq(UIRequests) /\ Len(queue) <= QueueCap /\ replies \in Seq(Replies)
    BY ChannelAssumption DEF Init
  <2>. QED
    BY <1>1, <2>1 DEF Init, ChannelTypeOK, Answers
<1>3. InQueue = {} /\ InReplies = {} /\ Items = {}
  BY DEF Init, InQueue, InReplies, Items
<1>4. \A c \in Clients : ~Active(c) /\ ~Numbered(c) /\ task[c].pc = "closed"
  BY <1>1 DEF Init, Active, Numbered
<1>5. Cardinality(Registering) = 0
  <2>1. Registering = {}
    BY <1>4 DEF Registering
  <2>. QED
    BY <2>1, FS_EmptySet
<1>6. IdInv
  BY <1>3, <1>4, <1>5 DEF IdInv, Init
<1>7. SerialInv
  BY <1>3, <1>4 DEF SerialInv, Init
<1>. QED
  BY <1>2, <1>6, <1>7 DEF ChannelInv

\* Every step keeps the invariant.
LEMMA ChannelStep == ChannelInv /\ [Next]_vars => ChannelInv'
<1>. SUFFICES ASSUME ChannelInv, [Next]_vars PROVE ChannelInv'
  OBVIOUS
<1>1. CASE UNCHANGED vars
  <2>1. ChannelTypeOK'
    BY <1>1 DEF vars, transport, channels, history, ChannelInv, ChannelTypeOK
  <2>2. UNCHANGED <<request_id, channels, task, zeroed>> /\ asked <= asked'
    BY <1>1, Numbers DEF vars, history, ChannelInv, ChannelTypeOK
  <2>. QED
    BY <2>1, <2>2, QuietKeeps
<1>. QED
  BY <1>1, TransportKeeps, ShutdownKeeps, ConnectKeeps, ConfirmKeeps, CanListKeeps, RegisterKeeps,
     SendKeeps, ReceiveKeeps, DispatchKeeps, ReplyKeeps DEF Next, ClientStep

\* The inductive invariant.
THEOREM ChannelInvariant == Spec => []ChannelInv
BY ChannelInit, ChannelStep, PTL DEF Spec

\* The channels keep their bounds and the ids their range, for any number of
\* connections and any capacities.
THEOREM ChannelTypeCorrect == Spec => []ChannelTypeOK
<1>1. ChannelInv => ChannelTypeOK
  BY DEF ChannelInv
<1>. QED
  BY <1>1, ChannelInvariant, PTL

\* A reply that a waiting request would take for its own is by its own handler.
LEMMA OwnReplies == ChannelInv => ReplyIsOwn
<1>. SUFFICES ASSUME ChannelInv, NEW c \in Clients, task[c].pc = "wait",
                     NEW i \in task[c].rx + 1 .. Len(replies), replies[i].id = task[c].id
              PROVE  replies[i].serial = task[c].serial \/ (zeroed /\ task[c].id = 0)
  BY DEF ReplyIsOwn
<1>1. i \in 1 .. Len(replies)
  BY TaskTypes DEF ChannelInv, ChannelTypeOK
<1>2. replies[i] \in Items
  BY <1>1 DEF InReplies, Items
<1>. QED
  BY <1>2 DEF ChannelInv, IdInv, Numbered, Own

\* No two requests are ever answered by each other's handlers over the broadcast
\* channel, whatever their number; 0 of a stopped agent is the only shared id.
THEOREM RepliesReachOwner == Spec => []ReplyIsOwn
BY OwnReplies, ChannelInvariant, PTL

-----------------------------------------------------------------------------
(* The refinement.                                                         *)

\* The decision on a request follows its task and the replies.
LEMMA DecidedSame ==
    ASSUME NEW c \in Clients, Open(c)' <=> Open(c), task'[c].serial = task[c].serial, UNCHANGED replies
    PROVE  Decided(c)' = Decided(c)
BY DEF Decided, Given

LEMMA DecidedClosed ==
    ASSUME NEW c \in Clients, ~Open(c)
    PROVE  Decided(c) = "none"
BY DEF Decided

\* A step that opens, closes and decides no sign request.
LEMMA Stutters ==
    ASSUME \A c \in Clients : (Open(c)' <=> Open(c)) /\ Decided(c)' = Decided(c),
           UNCHANGED <<answer, zeroed>>
    PROVE  UNCHANGED Service!vars
BY DEF Service!vars

\* A step that tells client c the outcome v.
LEMMA Tells ==
    ASSUME NEW c \in Clients, NEW v \in {"yes", "no"}, Open(c), ~Open(c)',
           \A e \in Clients : e # c => (Open(e)' <=> Open(e)) /\ Decided(e)' = Decided(e),
           answer' = [answer EXCEPT ![c] = v], UNCHANGED zeroed,
           v = "yes" => Decided(c) = "yes" \/ zeroed
    PROVE  Service!Next
<1>1. Decided(c)' = "none"
  BY DEF Decided
<1>2. Service!Tell(c, v)
  BY <1>1 DEF Service!Tell
<1>. QED
  BY <1>2 DEF Service!Next, Service!Verdicts

\* The end of a request, on every path that returns.
LEMMA ReturnMaps ==
    ASSUME ChannelInv, NEW c \in Clients, NEW ok \in BOOLEAN, Active(c), Return(c, ok),
           UNCHANGED <<replies, zeroed>>,
           ok /\ Open(c) => Decided(c) = "yes" \/ zeroed
    PROVE  [Service!Next]_Service!vars
<1>1. /\ task' = [task EXCEPT ![c] = NoTask] /\ NoTask.pc = "idle"
      /\ task'[c] = NoTask /\ \A e \in Clients : e # c => task'[e] = task[e]
  BY ReturnTypes DEF ChannelInv, ChannelTypeOK
<1>2. ~Open(c)' /\ \A e \in Clients : e # c => (Open(e)' <=> Open(e)) /\ Decided(e)' = Decided(e)
  BY <1>1, DecidedSame DEF Open
<1>3. CASE task[c].kind = "sign"
  <2>1. Open(c) /\ answer' = [answer EXCEPT ![c] = Verdict(ok)] /\ Verdict(ok) \in {"yes", "no"}
        /\ (Verdict(ok) = "yes" => ok)
    BY <1>3 DEF Open, Active, Return, Verdict
  <2>. QED
    BY <1>2, <2>1, Tells
<1>4. CASE task[c].kind # "sign"
  <2>1. ~Open(c) /\ UNCHANGED answer
    BY <1>4 DEF Open, Return
  <2>2. Decided(c)' = Decided(c)
    BY <1>2, <2>1 DEF Decided
  <2>. QED
    BY <1>2, <2>1, <2>2, Stutters
<1>. QED
  BY <1>3, <1>4

\* A step that leaves every task and the replies alone is a stutter.
LEMMA QuietMaps ==
    ASSUME UNCHANGED <<task, replies, answer, zeroed>>
    PROVE  UNCHANGED Service!vars
<1>1. \A c \in Clients : (Open(c)' <=> Open(c)) /\ Decided(c)' = Decided(c)
  BY DEF Open, Decided, Given
<1>. QED
  BY <1>1, Stutters

\* A connection is not a request.
LEMMA ConnectMaps ==
    ASSUME ChannelInv, NEW c \in Clients, Connect(c)
    PROVE  UNCHANGED Service!vars
<1>1. /\ task[c].pc = "closed" /\ NoTask.pc = "idle" /\ UNCHANGED <<replies, answer, zeroed>>
      /\ task'[c] = NoTask /\ \A e \in Clients : e # c => task'[e] = task[e]
  BY DEF Connect, ChannelInv, ChannelTypeOK, NoTask, channels, history
<1>2. ~Open(c) /\ ~Open(c)' /\ \A e \in Clients : e # c => (Open(e)' <=> Open(e))
  BY <1>1 DEF Open
<1>3. \A e \in Clients : Decided(e)' = Decided(e)
  BY <1>1, <1>2, DecidedSame DEF Decided
<1>. QED
  BY <1>1, <1>2, <1>3, Stutters

\* A new sign request: nothing has been replied to its serial number yet.
LEMMA ConfirmMaps ==
    ASSUME ChannelInv, NEW c \in Clients, Confirm(c)
    PROVE  Service!Next
<1>0. task[c].pc = "idle" /\ asked' = asked + 1 /\ UNCHANGED <<replies, zeroed>> /\ asked \in Nat
  BY Numbers DEF Confirm, channels, ChannelInv, ChannelTypeOK
<1>1. ~Open(c) /\ Decided(c) = "none"
  BY <1>0 DEF Open, Decided
<1>2. CASE ~is_running
  <2>1. answer' = [answer EXCEPT ![c] = "no"] /\ UNCHANGED task
    BY <1>2 DEF Confirm
  <2>2. \A e \in Clients : (Open(e)' <=> Open(e)) /\ Decided(e)' = Decided(e)
    BY <1>0, <2>1 DEF Open, Decided, Given
  <2>3. Service!Refuse(c)
    BY <1>0, <1>1, <2>1, <2>2 DEF Service!Refuse
  <2>. QED
    BY <2>3 DEF Service!Next
<1>3. CASE is_running
  <2>1. /\ task' = [task EXCEPT ![c] = [NoTask EXCEPT !.pc = "id", !.serial = asked + 1]]
        /\ UNCHANGED answer
    BY <1>0, <1>3 DEF Confirm
  <2>2. task'[c].pc = "id" /\ task'[c].kind = "sign" /\ task'[c].serial = asked + 1
        /\ \A e \in Clients : e # c => task'[e] = task[e]
    BY <2>1 DEF NoTask, ChannelInv, ChannelTypeOK
  <2>3. Open(c)' /\ \A e \in Clients : e # c => (Open(e)' <=> Open(e)) /\ Decided(e)' = Decided(e)
    BY <1>0, <2>2, DecidedSame DEF Open
  <2>4. \A i \in DOMAIN replies : replies[i].serial # asked + 1
    <3>1. SUFFICES ASSUME NEW i \in DOMAIN replies PROVE replies[i].serial # asked + 1
      OBVIOUS
    <3>2. replies[i] \in Items
      BY DEF Items, InReplies, ChannelInv, ChannelTypeOK
    <3>3. replies[i].serial \in Nat /\ replies[i].serial <= asked
      BY <3>2, ItemTypes, Numbers DEF ChannelInv, SerialInv
    <3>. QED
      BY <1>0, <3>3
  <2>5. Decided(c)' = "none"
    BY <1>0, <2>2, <2>4 DEF Decided, Given
  <2>6. \A e \in Clients : Decided(e)' = Decided(e)
    BY <1>1, <2>3, <2>5
  <2>7. Service!Ask(c)
    BY <1>0, <1>1, <2>1, <2>3, <2>6 DEF Service!Ask
  <2>. QED
    BY <2>7 DEF Service!Next
<1>. QED
  BY <1>2, <1>3

\* A listing is not a sign request.
LEMMA CanListMaps ==
    ASSUME ChannelInv, NEW c \in Clients, CanList(c)
    PROVE  UNCHANGED Service!vars
<1>1. /\ task[c].pc = "idle" /\ UNCHANGED <<replies, answer, zeroed>>
      /\ task' = [task EXCEPT ![c] = [NoTask EXCEPT !.pc = "id", !.kind = "list", !.serial = asked']]
  BY DEF CanList, channels
<1>2. task'[c].kind = "list" /\ \A e \in Clients : e # c => task'[e] = task[e]
  BY <1>1 DEF ChannelInv, ChannelTypeOK, NoTask
<1>3. ~Open(c) /\ ~Open(c)' /\ \A e \in Clients : e # c => (Open(e)' <=> Open(e))
  BY <1>1, <1>2 DEF Open
<1>4. \A e \in Clients : Decided(e)' = Decided(e)
  BY <1>1, <1>2, <1>3, DecidedSame DEF Decided
<1>. QED
  BY <1>1, <1>3, <1>4, Stutters

\* A task that moves on with its request, while the replies stay.
LEMMA MoveMaps ==
    ASSUME ChannelInv, NEW c \in Clients, NEW t \in Tasks, task' = [task EXCEPT ![c] = t],
           t.kind = task[c].kind, t.serial = task[c].serial, Active(c),
           t.pc \in {"id", "send", "wait"}, UNCHANGED <<replies, answer>>
    PROVE  /\ zeroed' = zeroed => UNCHANGED Service!vars
           /\ zeroed' = TRUE => Service!Next
<1>1. task'[c] = t /\ \A e \in Clients : e # c => task'[e] = task[e]
  BY DEF ChannelInv, ChannelTypeOK
<1>2. \A e \in Clients : Open(e)' <=> Open(e)
  BY <1>1 DEF Open, Active
<1>3. \A e \in Clients : task'[e].serial = task[e].serial
  BY <1>1
<1>4. \A e \in Clients : Decided(e)' = Decided(e)
  BY <1>2, <1>3, DecidedSame
<1>5. zeroed' = TRUE => Service!Degrade
  BY <1>2, <1>4 DEF Service!Degrade
<1>. QED
  BY <1>2, <1>4, <1>5, Stutters DEF Service!Next

\* Taking an id: the request goes on, on a stopped agent as request 0, or is refused.
LEMMA RegisterMaps ==
    ASSUME ChannelInv, NEW c \in Clients, Register(c)
    PROVE  [Service!Next]_Service!vars
<1>0. task[c].pc = "id" /\ UNCHANGED replies /\ Active(c) /\ zeroed \in BOOLEAN /\ is_running \in BOOLEAN
  BY DEF Register, channels, Active, ChannelInv, ChannelTypeOK
<1>1. CASE task[c].kind = "sign" /\ Return(c, FALSE) /\ UNCHANGED zeroed
  BY <1>0, <1>1, ReturnMaps
<1>2. CASE /\ zeroed' = (zeroed \/ ~is_running)
          /\ task' = [task EXCEPT ![c].pc = "send", ![c].rx = Len(replies),
                                  ![c].id = IF is_running THEN request_id ELSE 0]
          /\ UNCHANGED answer
  <2> DEFINE i == IF is_running THEN request_id ELSE 0
             t == [task[c] EXCEPT !.pc = "send", !.rx = Len(replies), !.id = i]
  <2>1. i \in Ids /\ Len(replies) \in Nat /\ task[c] \in Tasks
    BY Numbers DEF ChannelInv, ChannelTypeOK
  <2>2. t \in Tasks /\ t.pc = "send" /\ t.kind = task[c].kind /\ t.serial = task[c].serial
    BY <2>1, TaskParts DEF Tasks
  <2>3. task' = [task EXCEPT ![c] = t]
    BY <1>2, <2>1 DEF ChannelInv, ChannelTypeOK, Tasks
  <2>4. zeroed' = zeroed \/ zeroed' = TRUE
    BY <1>0, <1>2
  <2> HIDE DEF t
  <2>. QED
    BY <1>0, <1>2, <2>2, <2>3, <2>4, MoveMaps
<1>. QED
  BY <1>1, <1>2 DEF Register

LEMMA SendMaps ==
    ASSUME ChannelInv, NEW c \in Clients, Send(c)
    PROVE  [Service!Next]_Service!vars
<1>0. task[c].pc = "send" /\ UNCHANGED <<replies, zeroed>> /\ Active(c)
  BY DEF Send, Active
<1>1. CASE Return(c, FALSE)
  BY <1>0, <1>1, ReturnMaps
<1>2. CASE task' = [task EXCEPT ![c].pc = "wait"] /\ UNCHANGED answer
  <2> DEFINE t == [task[c] EXCEPT !.pc = "wait"]
  <2>1. t \in Tasks /\ t.pc = "wait" /\ t.kind = task[c].kind /\ t.serial = task[c].serial
    BY TaskTypes DEF ChannelInv, Tasks
  <2>2. task' = [task EXCEPT ![c] = t]
    BY <1>2 DEF ChannelInv, ChannelTypeOK, Tasks
  <2> HIDE DEF t
  <2>. QED
    BY <1>0, <1>2, <2>1, <2>2, MoveMaps
<1>. QED
  BY <1>1, <1>2 DEF Send

\* A yes that a task takes for its own is the verdict on its request.
LEMMA ReceiveMaps ==
    ASSUME ChannelInv, NEW c \in Clients, Receive(c)
    PROVE  [Service!Next]_Service!vars
<1> DEFINE reply == replies[task[c].rx + 1]
<1>0. /\ task[c].pc = "wait" /\ UNCHANGED <<replies, zeroed>> /\ Active(c)
      /\ task[c].rx < Len(replies)
  BY DEF Receive, Active, channels
<1>1. /\ task[c].rx + 1 \in DOMAIN replies /\ task[c].rx + 1 \in task[c].rx + 1 .. Len(replies)
      /\ replies \in Seq(Replies) /\ reply \in Replies
  <2>1. task[c].rx + 1 \in 1 .. Len(replies) /\ replies \in Seq(Replies)
    BY <1>0, TaskTypes DEF ChannelInv, ChannelTypeOK
  <2>. QED
    BY <2>1, TaskTypes DEF ChannelInv
<1>2. CASE Return(c, FALSE)
  BY <1>0, <1>2, ReturnMaps
<1>3. CASE Mine(c, reply) /\ Return(c, reply.ok)
  <2>1. reply.serial = task[c].serial \/ zeroed
    BY <1>0, <1>1, <1>3, OwnReplies DEF ReplyIsOwn, Mine
  <2>2. reply.ok /\ Open(c) /\ reply.serial = task[c].serial => Decided(c) = "yes"
    BY <1>1 DEF Decided, Given, Verdict
  <2>3. reply.ok \in BOOLEAN
    BY <1>1 DEF Replies
  <2>. QED
    BY <1>0, <1>3, <2>1, <2>2, <2>3, ReturnMaps
<1>4. CASE task' = [task EXCEPT ![c].rx = @ + 1] /\ UNCHANGED answer
  <2> DEFINE t == [task[c] EXCEPT !.rx = task[c].rx + 1]
  <2>1. t \in Tasks /\ t.pc = "wait" /\ t.kind = task[c].kind /\ t.serial = task[c].serial
    BY <1>0, TaskTypes DEF ChannelInv, Tasks
  <2>2. task' = [task EXCEPT ![c] = t]
    BY <1>4 DEF ChannelInv, ChannelTypeOK, Tasks
  <2> HIDE DEF t
  <2>. QED
    BY <1>0, <1>4, <2>1, <2>2, MoveMaps
<1>. QED
  BY <1>2, <1>3, <1>4 DEF Receive, AfterLag

\* A handler decides the request it holds, once; a reply that no request waits for
\* any more, or to a listing, decides nothing.
LEMMA ReplyMaps ==
    ASSUME ChannelInv, NEW q \in handlers, NEW ok \in BOOLEAN, Reply(q, ok)
    PROVE  [Service!Next]_Service!vars
<1> DEFINE x0 == [id |-> q.id, serial |-> q.serial, ok |-> ok]
<1>0. replies' = Append(replies, x0) /\ UNCHANGED <<task, answer, zeroed>>
  BY DEF Reply, history
<1>1. x0 \in Replies /\ x0.serial = q.serial /\ x0.ok = ok /\ replies \in Seq(Replies)
  BY DEF ChannelInv, ChannelTypeOK, UIRequests, Replies
<1> HIDE DEF x0
<1>2. /\ DOMAIN replies' = DOMAIN replies \cup {Len(replies) + 1}
      /\ \A i \in DOMAIN replies : replies'[i] = replies[i]
      /\ replies'[Len(replies) + 1] = x0
  BY <1>0, <1>1
<1>3. \A c \in Clients : Open(c)' <=> Open(c)
  BY <1>0 DEF Open
<1>4. \A i \in DOMAIN replies : replies[i].serial # q.serial
  <2>1. \A i \in DOMAIN replies : replies[i] \in InReplies
    BY <1>1 DEF InReplies
  <2>. QED
    BY <2>1 DEF ChannelInv, SerialInv
<1>5. \A c \in Clients : task[c].serial # q.serial => Decided(c)' = Decided(c)
  <2>1. SUFFICES ASSUME NEW c \in Clients, task[c].serial # q.serial PROVE Decided(c)' = Decided(c)
    OBVIOUS
  <2>2. Given(c)' = Given(c)
    BY <1>0, <1>1, <1>2, <2>1 DEF Given
  <2>3. \A i \in Given(c) : replies'[i] = replies[i]
    BY <1>2 DEF Given
  <2>4. (\E i \in Given(c)' : replies'[i].ok) <=> (\E i \in Given(c) : replies[i].ok)
    BY <2>2, <2>3
  <2>. QED
    BY <1>3, <2>2, <2>4 DEF Decided, Verdict
<1>6. CASE \A c \in Clients : Open(c) => task[c].serial # q.serial
  <2>1. \A c \in Clients : Decided(c)' = Decided(c)
    BY <1>3, <1>5, <1>6 DEF Decided
  <2>. QED
    BY <1>0, <1>3, <2>1, Stutters
<1>7. ASSUME NEW c \in Clients, Open(c), task[c].serial = q.serial
      PROVE  Service!Next
  <2>1. Given(c) = {} /\ Given(c)' = {Len(replies) + 1}
    BY <1>0, <1>1, <1>2, <1>4, <1>7 DEF Given
  <2>2. Decided(c) = "none" /\ Decided(c)' = Verdict(ok)
    BY <1>1, <1>2, <1>3, <1>7, <2>1 DEF Decided
  <2>3. \A e \in Clients : e # c => Decided(e)' = Decided(e)
    <3>1. SUFFICES ASSUME NEW e \in Clients, e # c PROVE Decided(e)' = Decided(e)
      OBVIOUS
    <3>2. CASE Open(e)
      <4>1. Active(e) /\ Active(c)
        BY <1>7, <3>2, TaskTypes DEF Open, Active, ChannelInv
      <4>. QED
        BY <1>5, <1>7, <3>1, <4>1 DEF ChannelInv, SerialInv
    <3>3. CASE ~Open(e)
      BY <1>3, <3>3 DEF Decided
    <3>. QED
      BY <3>2, <3>3
  <2>4. Verdict(ok) \in {"yes", "no"}
    BY DEF Verdict
  <2>5. Service!Decide(c, Verdict(ok))
    BY <1>0, <1>3, <1>7, <2>2, <2>3, <2>4 DEF Service!Decide
  <2>. QED
    BY <2>4, <2>5 DEF Service!Next, Service!Verdicts
<1>. QED
  BY <1>6, <1>7

\* The initial state has no requests and no answers.
LEMMA InitMaps == Init => Service!Init
<1>. SUFFICES ASSUME Init PROVE Service!Init
  OBVIOUS
<1>1. \A c \in Clients : ~Open(c) /\ Decided(c) = "none"
  BY DEF Init, Closed, NoTask, Open, Decided
<1>. QED
  BY <1>1 DEF Init, Service!Init

\* Every step is a step of the service, or none.
LEMMA StepMaps == ChannelInv /\ [Next]_vars => [Service!Next]_Service!vars
<1>. SUFFICES ASSUME ChannelInv, [Next]_vars PROVE [Service!Next]_Service!vars
  OBVIOUS
<1>1. CASE UNCHANGED vars
  BY <1>1, QuietMaps DEF vars, channels, history
<1>2. CASE \/ StartServer \/ SetRunning \/ ClaimPipe \/ PipeFails \/ ServeExits \/ Watch
           \/ Shutdown \/ Dispatch \/ \E value \in BOOLEAN : SetNeedsUnlock(value)
  <2>1. UNCHANGED <<task, replies, answer, zeroed>>
    BY <1>2 DEF StartServer, SetRunning, ClaimPipe, PipeFails, ServeExits, Watch, Shutdown,
                Dispatch, SetNeedsUnlock, channels, history
  <2>. QED
    BY <2>1, QuietMaps
<1>. QED
  BY <1>1, <1>2, ConnectMaps, ConfirmMaps, CanListMaps, RegisterMaps, SendMaps, ReceiveMaps,
     ReplyMaps DEF Next, ClientStep

\* SshWardenAgent::confirm implements SignService for any number of clients and any
\* capacities: a client is told yes only on the verdict of its own request.
THEOREM ConfirmImplements == Spec => Implements
<1>1. Spec => Service!Spec
  BY InitMaps, StepMaps, ChannelInvariant, PTL DEF Spec, Service!Spec
<1>. QED
  BY <1>1 DEF Implements
=============================================================================
