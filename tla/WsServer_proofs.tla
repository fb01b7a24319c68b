-------------------------- MODULE WsServer_proofs --------------------------
(***************************************************************************)
(* What one /ws session keeps, whatever its client and the network do, for  *)
(* every size of the queue, the transport and the task table: its types,   *)
(* the sender discipline and the order of the live messages.  The lemmas   *)
(* are about a step of the session; WsAnyClient_proofs and WsSession_proofs *)
(* draw the theorems from them for the two kinds of client.                *)
(***************************************************************************)
EXTENDS WsServer, FiniteSetTheorems, TLAPS

\* What the client's side does to a session: a command arrives or nothing does, a
\* message is taken, the connection breaks, the client connects again.
Arrives == /\ inbox' = inbox \/ \E c \in Command : inbox' = Append(inbox, c)
           /\ UNCHANGED <<session, outbox, published, lastLive>>

Reads == /\ outbox # <<>> /\ outbox' = Tail(outbox)
         /\ UNCHANGED <<session, inbox, published, lastLive>>

SessionStep == ServerNext \/ HandleBroken \/ Arrives \/ Reads \/ ConnectionLost \/ Accept

-----------------------------------------------------------------------------
(* Lemmas about tasks. *)

\* The three forms a task is created or reset in are tasks.
LEMMA NewTasks ==
  /\ NoTask \in Task /\ NoTask.pc = "done" /\ NoTask.cancelled = FALSE
  /\ NewLive \in Task /\ NewLive.pc = "get" /\ NewLive.kind = "live"
  /\ NewLive.cancelled = FALSE
  /\ \A n, len \in Nat :
       /\ NewReplay(n, len) \in Task /\ NewReplay(n, len).pc = "play"
       /\ NewReplay(n, len).kind = "replay"
       /\ NewReplay(n, len).cancelled = FALSE
  BY DEF NoTask, NewLive, NewReplay, Error, Task, Message

\* cancel() sets a flag of the tasks it finds alive and changes nothing else.
LEMMA CancelTasks ==
  ASSUME tasks \in [Tids -> Task], NEW refs
  PROVE  /\ WithCancelled(refs) \in [Tids -> Task]
         /\ \A k \in Tids :
              /\ WithCancelled(refs)[k].kind = tasks[k].kind
              /\ WithCancelled(refs)[k].pc = tasks[k].pc
              /\ WithCancelled(refs)[k].msg = tasks[k].msg
              /\ WithCancelled(refs)[k].n = tasks[k].n
              /\ WithCancelled(refs)[k].cancelled =
                   (tasks[k].cancelled \/ (k \in refs /\ Alive(k)))
<1> DEFINE C(k) == IF k \in refs /\ Alive(k)
                     THEN [tasks[k] EXCEPT !.cancelled = TRUE] ELSE tasks[k]
<1>1. \A k \in Tids : /\ C(k) \in Task
                      /\ C(k).kind = tasks[k].kind
                      /\ C(k).pc = tasks[k].pc
                      /\ C(k).msg = tasks[k].msg
                      /\ C(k).n = tasks[k].n
                      /\ C(k).cancelled = (tasks[k].cancelled \/ (k \in refs /\ Alive(k)))
  <2> TAKE k \in Tids
  <2>1. tasks[k] \in Task
    OBVIOUS
  <2> HIDE DEF Alive
  <2> QED BY <2>1 DEF Task
<1>2. WithCancelled(refs) = [k \in Tids |-> C(k)]
  BY DEF WithCancelled
<1> HIDE DEF C
<1> QED BY <1>1, <1>2

\* The queue and both directions of the socket start empty.
LEMMA EmptyChannels ==
  /\ <<>> \in Seq(Nat) /\ <<>> \in Seq(Command) /\ <<>> \in Seq(Message)
  /\ Len(<<>>) <= MaxQueue /\ Len(<<>>) <= MaxOut
  BY QueueAssumption

\* A new task takes the place of one that is over.
LEMMA SlotIsFree == FreeSlots # {} => Slot \in FreeSlots
  BY DEF Slot

-----------------------------------------------------------------------------
(* Types. *)

\* Every behaviour starts in the types.
LEMMA InitType == ServerInit => ServerTypeOK
  BY NewTasks, QueueAssumption, TaskAssumption, LiveAssumption
     DEF ServerInit, ServerTypeOK, FirstTasks, Tids

\* What a sender writes fits the transport.
LEMMA WriteType ==
  ASSUME ServerTypeOK, NEW m \in Message, Room \/ Len(outbox) < MaxOut, Write(m)
  PROVE  outbox' \in Seq(Message) /\ Len(outbox') <= MaxOut /\ lastLive' \in Nat
<1>1. lastLive' \in Nat
  BY DEF ServerTypeOK, Write, Message
<1>2. CASE conn = "lost"
  BY <1>1, <1>2 DEF ServerTypeOK, Write
<1>3. CASE conn = "up"
  <2>1. outbox' = Append(outbox, m) /\ Len(outbox) < MaxOut
    BY <1>3 DEF Write, Room
  <2> QED BY <1>1, <2>1, QueueAssumption DEF ServerTypeOK
<1> QED BY <1>2, <1>3 DEF ServerTypeOK

\* Broadcaster.publish never grows a queue past its size.
LEMMA EnqueueType ==
  ASSUME NEW q \in Seq(Nat), Len(q) <= MaxQueue, NEW m \in Nat
  PROVE  Enqueue(q, m) \in Seq(Nat) /\ Len(Enqueue(q, m)) <= MaxQueue
<1>1. CASE Len(q) < MaxQueue
  BY <1>1, QueueAssumption DEF Enqueue
<1>2. CASE ~(Len(q) < MaxQueue)
  <2>1. Len(q) = MaxQueue /\ q # <<>>
    BY <1>2, QueueAssumption
  <2>2. Tail(q) \in Seq(Nat) /\ Len(Tail(q)) = Len(q) - 1
    BY <2>1
  <2> QED BY <1>2, <2>1, <2>2, QueueAssumption DEF Enqueue
<1> QED BY <1>1, <1>2

\* The task table stays a table of tasks, whichever task moves on.
LEMMA GoesType ==
  ASSUME ServerTypeOK, NEW k \in Tids, NEW m \in Message,
         NEW pc \in {"get", "play", "send", "done"}, Goes(k, pc, m)
  PROVE  /\ tasks' \in [Tids -> Task]
         /\ tasks'[k].pc = pc /\ tasks'[k].msg = m
         /\ tasks'[k].kind = tasks[k].kind /\ tasks'[k].n = tasks[k].n
         /\ tasks'[k].cancelled = tasks[k].cancelled
         /\ \A j \in Tids : j # k => tasks'[j] = tasks[j]
  BY DEF ServerTypeOK, Goes, Task

\* A replay that ends is replaced by one live task.
LEMMA FallBackType ==
  ASSUME ServerTypeOK, NEW k \in Tids, FallBack(k)
  PROVE  /\ tasks' \in [Tids -> Task]
         /\ liveTask' = Slot /\ Slot \in FreeSlots /\ UNCHANGED replayTask
         /\ tasks'[Slot] = NewLive
         /\ k # Slot => tasks'[k] = NoTask
         /\ \A j \in Tids : j \notin {k, Slot} => tasks'[j] = tasks[j]
  BY SlotIsFree, NewTasks DEF ServerTypeOK, FallBack, FreeSlots

\* What a sender task does between two awaits keeps the types.
LEMMA TaskStepType ==
  ASSUME ServerTypeOK, NEW k \in Tids, TaskStep(k)
  PROVE  ServerTypeOK'
<1>0. /\ tasks[k] \in Task /\ tasks[k].msg \in Message /\ tasks[k].n \in Nat
      /\ Error \in Message
  BY DEF ServerTypeOK, Task, Error, Message
<1>1. CASE LiveGets(k)
  <2>1. Head(queue) \in Nat /\ Tail(queue) \in Seq(Nat)
        /\ Len(Tail(queue)) <= MaxQueue
    BY <1>1, QueueAssumption DEF LiveGets, ServerTypeOK
  <2>2. [kind |-> "live", n |-> Head(queue)] \in Message
    BY <2>1 DEF Message
  <2>3. tasks' \in [Tids -> Task]
    BY <1>1, <2>2, GoesType DEF LiveGets
  <2> QED BY <1>1, <2>1, <2>3 DEF LiveGets, ServerTypeOK
<1>2. CASE ReplayYields(k)
  <2> DEFINE m == [kind |-> IF tasks[k].left > 0 THEN "replay" ELSE "replay_end",
                   n |-> tasks[k].n]
             l == IF tasks[k].left > 0 THEN tasks[k].left - 1 ELSE 0
  <2>1. m \in Message /\ l \in Nat
    BY <1>0 DEF Message, Task
  <2>2. tasks' = [tasks EXCEPT ![k].pc = "send", ![k].msg = m, ![k].left = l]
    BY <1>2 DEF ReplayYields
  <2> HIDE DEF m, l
  <2>3. tasks' \in [Tids -> Task]
    BY <1>0, <2>1, <2>2 DEF ServerTypeOK, Task
  <2> QED BY <1>2, <2>3 DEF ReplayYields, ServerTypeOK
<1>3. CASE ReplayRaises(k)
  <2>1. [kind |-> "error", n |-> tasks[k].n] \in Message
    BY <1>0 DEF Message
  <2>2. tasks' \in [Tids -> Task]
    BY <1>3, <2>1, GoesType DEF ReplayRaises
  <2> QED BY <1>3, <2>2 DEF ReplayRaises, ServerTypeOK
<1>4. CASE Sent(k)
  <2>1. outbox' \in Seq(Message) /\ Len(outbox') <= MaxOut /\ lastLive' \in Nat
    BY <1>0, <1>4, WriteType DEF Sent
  <2>2. /\ tasks' \in [Tids -> Task]
        /\ liveTask' \in 0 .. MaxTasks /\ replayTask' \in 0 .. MaxTasks
    <3>1. CASE Goes(k, "get", Error) /\ UNCHANGED <<liveTask, replayTask>>
      BY <1>0, <3>1, GoesType DEF ServerTypeOK
    <3>2. CASE Goes(k, "play", Error) /\ UNCHANGED <<liveTask, replayTask>>
      BY <1>0, <3>2, GoesType DEF ServerTypeOK
    <3>3. CASE FallBack(k)
      BY <3>3, FallBackType DEF ServerTypeOK, FreeSlots, Tids
    <3> QED BY <1>4, <3>1, <3>2, <3>3 DEF Sent
  <2> QED BY <1>4, <2>1, <2>2 DEF Sent, ServerTypeOK
<1>5. CASE SendRaises(k)
  <2>1. /\ tasks' \in [Tids -> Task]
        /\ liveTask' \in 0 .. MaxTasks /\ replayTask' \in 0 .. MaxTasks
    <3>1. CASE tasks' = [tasks EXCEPT ![k] = NoTask] /\ UNCHANGED <<liveTask, replayTask>>
      BY <3>1, NewTasks DEF ServerTypeOK
    <3>2. CASE /\ Goes(k, "send", [kind |-> "error", n |-> tasks[k].n])
               /\ UNCHANGED <<liveTask, replayTask>>
      <4>1. [kind |-> "error", n |-> tasks[k].n] \in Message
        BY <1>0 DEF Message
      <4> QED BY <3>2, <4>1, GoesType DEF ServerTypeOK
    <3>3. CASE FallBack(k)
      BY <3>3, FallBackType DEF ServerTypeOK, FreeSlots, Tids
    <3> QED BY <1>5, <3>1, <3>2, <3>3 DEF SendRaises
  <2> QED BY <1>5, <2>1 DEF SendRaises, ServerTypeOK
<1>6. CASE CancelDelivered(k)
  <2>1. tasks' \in [Tids -> Task]
    BY <1>6, NewTasks DEF CancelDelivered, ServerTypeOK
  <2>2. outbox' \in Seq(Message) /\ Len(outbox') <= MaxOut /\ lastLive' \in Nat
    BY <1>0, <1>6, WriteType DEF CancelDelivered, ServerTypeOK
  <2> QED BY <1>6, <2>1, <2>2 DEF CancelDelivered, ServerTypeOK
<1> QED BY <1>1, <1>2, <1>3, <1>4, <1>5, <1>6 DEF TaskStep

\* What the handler does with one command keeps the types.
LEMMA HandleType == ServerTypeOK /\ Handle => ServerTypeOK'
<1> SUFFICES ASSUME ServerTypeOK, Handle PROVE ServerTypeOK'
  OBVIOUS
<1>0. ASSUME NEW c, Receives(c)
      PROVE  inbox' \in Seq(Command) /\ Head(inbox) \in Command
  BY <1>0 DEF Receives, ServerTypeOK
<1>1. ASSUME NEW len \in 0 .. MaxReplay, HandleReplay(len)
      PROVE  ServerTypeOK'
  <2>1. Head(inbox).n \in Nat /\ inbox' \in Seq(Command)
    BY <1>0, <1>1 DEF HandleReplay, Command
  <2>2. Slot \in Tids
    BY <1>1, SlotIsFree DEF HandleReplay, FreeSlots
  <2>3. tasks' \in [Tids -> Task]
    BY <1>1, <2>1, <2>2, CancelTasks, NewTasks, TaskAssumption
       DEF HandleReplay, ServerTypeOK
  <2>4. liveTask' \in 0 .. MaxTasks /\ replayTask' \in 0 .. MaxTasks
    BY <1>1, <2>2, TaskAssumption DEF HandleReplay, Tids
  <2>5. UNCHANGED <<handler, conn, queue, outbox, published, lastLive>>
    BY <1>1 DEF HandleReplay
  <2> QED BY <2>1, <2>3, <2>4, <2>5 DEF ServerTypeOK
<1>2. CASE HandleLive
  <2>1. inbox' \in Seq(Command)
    BY <1>0, <1>2 DEF HandleLive
  <2>2. Slot \in Tids
    BY <1>2, SlotIsFree DEF HandleLive, FreeSlots
  <2>3. tasks' \in [Tids -> Task]
    BY <1>2, <2>2, CancelTasks, NewTasks DEF HandleLive, ServerTypeOK
  <2>4. liveTask' \in 0 .. MaxTasks /\ replayTask' \in 0 .. MaxTasks
    BY <1>2, <2>2, TaskAssumption DEF HandleLive, ServerTypeOK, Tids
  <2>5. UNCHANGED <<handler, conn, queue, outbox, published, lastLive>>
    BY <1>2 DEF HandleLive
  <2> QED BY <2>1, <2>3, <2>4, <2>5 DEF ServerTypeOK
<1>3. CASE HandleBad
  <2>1. inbox' \in Seq(Command) /\ Error \in Message
    BY <1>0, <1>3 DEF HandleBad, Error, Message
  <2>2. outbox' \in Seq(Message) /\ Len(outbox') <= MaxOut /\ lastLive' \in Nat
    BY <1>3, <2>1, WriteType DEF HandleBad
  <2>3. UNCHANGED <<handler, conn, queue, tasks, liveTask, replayTask, published>>
    BY <1>3 DEF HandleBad, session
  <2> QED BY <2>1, <2>2, <2>3 DEF ServerTypeOK
<1>4. CASE Disconnected
  <2>1. tasks' \in [Tids -> Task]
    BY <1>4, CancelTasks DEF Disconnected, ServerTypeOK
  <2>2. queue' \in Seq(Nat) /\ Len(queue') <= MaxQueue
    BY <1>4, EmptyChannels DEF Disconnected
  <2> QED BY <1>4, <2>1, <2>2 DEF Disconnected, ServerTypeOK
<1> QED BY <1>1, <1>2, <1>3, <1>4 DEF Handle

\* Every step of the session and of its client keeps the types.
LEMMA SessionType == ServerTypeOK /\ SessionStep => ServerTypeOK'
<1> SUFFICES ASSUME ServerTypeOK, SessionStep PROVE ServerTypeOK'
  OBVIOUS
<1>1. CASE Publish
  BY <1>1, EnqueueType, LiveAssumption DEF Publish, ServerTypeOK
<1>2. CASE Handle
  BY <1>2, HandleType
<1>3. CASE \E k \in Tids : TaskStep(k)
  BY <1>3, TaskStepType
<1>4. CASE Arrives
  <2>1. inbox' \in Seq(Command)
    BY <1>4 DEF Arrives, ServerTypeOK
  <2> QED BY <1>4, <2>1 DEF Arrives, ServerTypeOK, session
<1>5. CASE Reads
  <2>1. Tail(outbox) \in Seq(Message) /\ Len(Tail(outbox)) <= MaxOut
    BY <1>5, QueueAssumption DEF Reads, ServerTypeOK
  <2> QED BY <1>5, <2>1 DEF Reads, ServerTypeOK, session
<1>6. CASE ConnectionLost
  <2>1. /\ inbox' \in Seq(Command) /\ outbox' \in Seq(Message)
        /\ Len(outbox') <= MaxOut
    BY <1>6, EmptyChannels DEF ConnectionLost
  <2> QED BY <1>6, <2>1 DEF ConnectionLost, ServerTypeOK
<1>7. CASE Accept
  <2>1. FirstTasks \in [Tids -> Task]
    BY NewTasks DEF FirstTasks
  <2>2. queue' \in Seq(Nat) /\ Len(queue') <= MaxQueue
    BY <1>7, EmptyChannels DEF Accept
  <2> QED BY <1>7, <2>1, <2>2, TaskAssumption DEF Accept, ServerTypeOK
<1>8. CASE HandleBroken
  <2>1. tasks' \in [Tids -> Task]
    BY <1>8, CancelTasks DEF HandleBroken, ServerTypeOK
  <2>2. /\ queue' \in Seq(Nat) /\ Len(queue') <= MaxQueue
        /\ inbox' \in Seq(Command)
        /\ outbox' \in Seq(Message) /\ Len(outbox') <= MaxOut
    BY <1>8, EmptyChannels DEF HandleBroken
  <2> QED BY <1>8, <2>1, <2>2 DEF HandleBroken, ServerTypeOK
<1> QED
  BY <1>1, <1>2, <1>3, <1>4, <1>5, <1>6, <1>7, <1>8 DEF SessionStep, ServerNext

-----------------------------------------------------------------------------
(* The sender discipline.  The three properties are not inductive: that a   *)
(* replay's end may overwrite live_task needs to know that no other sender  *)
(* runs, and that a live command may leave live_task alone needs to know    *)
(* that an unfinished live_task has not been cancelled.                     *)

OneRuns == \A j, k \in Running : j = k

LiveTaskFresh ==
  /\ handler = "open" /\ liveTask \in Tids /\ Alive(liveTask)
       => ~tasks[liveTask].cancelled
  /\ liveTask # 0 => liveTask # replayTask

RunInv == OneRuns /\ SendersReachable /\ AlwaysASender /\ LiveTaskFresh

\* At most one task runs, said with or without a cardinality.
LEMMA OneRunsSingle == OneRuns => SingleSender
<1>1. CASE Running = {}
  BY <1>1, FS_EmptySet DEF SingleSender
<1>2. ASSUME OneRuns, NEW k \in Running PROVE SingleSender
  <2>1. Running = {k}
    BY <1>2 DEF OneRuns
  <2>2. Cardinality({k}) = 1
    BY FS_Singleton
  <2> QED BY <2>1, <2>2 DEF SingleSender
<1> QED BY <1>1, <1>2 DEF OneRuns

\* A fresh session has one sender, its live task.
LEMMA FirstRuns ==
  ASSUME tasks = FirstTasks
  PROVE  Running = {1} /\ ~tasks[1].cancelled
<1>1. 1 \in Tids
  BY TaskAssumption DEF Tids
<1>2. \A k \in Tids : tasks[k] = IF k = 1 THEN NewLive ELSE NoTask
  BY DEF FirstTasks
<1> QED BY <1>1, <1>2, NewTasks DEF Running, Alive

\* When a running task falls back to live, the live task it starts is the
\* only one that runs.
LEMMA FallBackRuns ==
  ASSUME ServerTypeOK, RunInv, NEW k \in Running, FallBack(k),
         UNCHANGED <<handler, conn>>
  PROVE  RunInv'
<1>0. k \in Tids /\ Alive(k)
  BY DEF Running
<1>1. /\ Slot \in Tids /\ ~Alive(Slot) /\ Slot \notin {liveTask, replayTask}
      /\ liveTask' = Slot /\ replayTask' = replayTask
      /\ tasks'[Slot] = NewLive
      /\ k # Slot => tasks'[k] = NoTask
      /\ \A j \in Tids : j \notin {k, Slot} => tasks'[j] = tasks[j]
  BY <1>0, FallBackType DEF FreeSlots
<1>2. \A j \in Running : j = k
  BY DEF RunInv, OneRuns
<1>3. Running' = {Slot}
  BY <1>0, <1>1, <1>2, NewTasks DEF Running, Alive
<1>4. ~(tasks'[Slot].cancelled) /\ Slot # 0
  BY <1>1, NewTasks, TaskAssumption DEF Tids
<1>5. handler' # "closed"
  BY DEF RunInv, SendersReachable
<1> QED BY <1>1, <1>3, <1>4, <1>5
        DEF RunInv, OneRuns, SendersReachable, AlwaysASender, LiveTaskFresh

\* A step that leaves the references, the handler and the connection alone and
\* neither ends, cancels nor revives a task leaves the discipline as it was.
LEMMA SameRuns ==
  ASSUME RunInv, UNCHANGED <<handler, conn, liveTask, replayTask>>,
         \A j \in Tids : /\ Alive(j)' = Alive(j)
                         /\ tasks'[j].cancelled = tasks[j].cancelled
  PROVE  RunInv'
<1>1. Running' = Running
  BY DEF Running
<1> QED BY <1>1 DEF RunInv, OneRuns, SendersReachable, AlwaysASender, LiveTaskFresh

\* One step of a sender task preserves the discipline.
LEMMA TaskStepRuns ==
  ASSUME ServerTypeOK, RunInv, NEW k \in Tids, TaskStep(k)
  PROVE  RunInv'
<1>0. tasks \in [Tids -> Task] /\ tasks[k].n \in Nat /\ Error \in Message
  BY DEF ServerTypeOK, Task, Error, Message
<1>a. ASSUME NEW pc \in {"get", "play", "send"}, NEW m, Goes(k, pc, m),
             Alive(k), UNCHANGED <<handler, conn, liveTask, replayTask>>
      PROVE  RunInv'
  <2>1. \A j \in Tids : /\ Alive(j)' = Alive(j)
                        /\ tasks'[j].cancelled = tasks[j].cancelled
    BY <1>0, <1>a DEF Goes, Alive, Task
  <2> QED BY <1>a, <2>1, SameRuns
<1>b. ASSUME Scheduled(k) PROVE k \in Running /\ Alive(k)
  BY <1>b DEF Scheduled, Running
<1>1. CASE LiveGets(k)
  BY <1>1, <1>a, <1>b DEF LiveGets
<1>2. CASE ReplayYields(k)
  <2>1. \A j \in Tids : /\ Alive(j)' = Alive(j)
                        /\ tasks'[j].cancelled = tasks[j].cancelled
    BY <1>0, <1>2, <1>b DEF ReplayYields, Alive, Task
  <2> QED BY <1>2, <2>1, SameRuns DEF ReplayYields
<1>3. CASE ReplayRaises(k)
  BY <1>3, <1>a, <1>b DEF ReplayRaises
<1>4. CASE Sent(k)
  <2>1. CASE FallBack(k)
    BY <1>4, <1>b, <2>1, FallBackRuns DEF Sent
  <2>2. CASE Goes(k, "get", Error) /\ UNCHANGED <<liveTask, replayTask>>
    BY <1>4, <1>a, <1>b, <2>2 DEF Sent
  <2>3. CASE Goes(k, "play", Error) /\ UNCHANGED <<liveTask, replayTask>>
    BY <1>4, <1>a, <1>b, <2>3 DEF Sent
  <2> QED BY <1>4, <2>1, <2>2, <2>3 DEF Sent
<1>5. CASE SendRaises(k)
  <2>1. CASE FallBack(k)
    BY <1>5, <1>b, <2>1, FallBackRuns DEF SendRaises
  <2>2. CASE /\ Goes(k, "send", [kind |-> "error", n |-> tasks[k].n])
             /\ UNCHANGED <<liveTask, replayTask>>
    BY <1>5, <1>a, <1>b, <2>2 DEF SendRaises
  <2>3. CASE tasks' = [tasks EXCEPT ![k] = NoTask] /\ UNCHANGED <<liveTask, replayTask>>
    \* live() dies with the connection: nothing runs, and nobody listens
    <3>1. conn' = "lost" /\ UNCHANGED <<handler, liveTask, replayTask>>
      BY <1>5, <2>3 DEF SendRaises
    <3>2. /\ ~(Alive(k)')
          /\ \A j \in Tids : j # k => tasks'[j] = tasks[j]
      BY <1>0, <2>3, NewTasks DEF Alive
    <3>3. Running' \subseteq Running
      BY <3>2 DEF Running, Alive
    <3> QED BY <3>1, <3>2, <3>3
            DEF RunInv, OneRuns, SendersReachable, AlwaysASender,
                LiveTaskFresh, Alive
  <2> QED BY <1>5, <2>1, <2>2, <2>3 DEF SendRaises
<1>6. CASE CancelDelivered(k)
  <2>1. /\ tasks' = [tasks EXCEPT ![k] = NoTask] /\ k \in Cancelled
        /\ UNCHANGED <<handler, conn, liveTask, replayTask>>
    BY <1>6 DEF CancelDelivered
  <2>2. /\ ~(Alive(k)') /\ k \notin Running
        /\ \A j \in Tids : j # k => tasks'[j] = tasks[j]
    BY <1>0, <2>1, NewTasks DEF Alive, Cancelled, Running
  <2>3. Running' = Running
    BY <2>2 DEF Running, Alive
  <2> QED BY <2>1, <2>2, <2>3
          DEF RunInv, OneRuns, SendersReachable, AlwaysASender,
              LiveTaskFresh, Alive
<1> QED BY <1>1, <1>2, <1>3, <1>4, <1>5, <1>6 DEF TaskStep

\* The handler preserves the discipline: whatever it stops it can name.
LEMMA HandleRuns == ServerTypeOK /\ RunInv /\ Handle => RunInv'
<1> SUFFICES ASSUME ServerTypeOK, RunInv, Handle PROVE RunInv'
  OBVIOUS
<1>0. /\ tasks \in [Tids -> Task] /\ 0 \notin Tids
      /\ Running \subseteq {liveTask, replayTask}
  BY TaskAssumption DEF ServerTypeOK, RunInv, SendersReachable, Tids
<1>c. ASSUME NEW refs
      PROVE  \A k \in Tids :
               /\ WithCancelled(refs)[k].pc = tasks[k].pc
               /\ WithCancelled(refs)[k].cancelled =
                    (tasks[k].cancelled \/ (k \in refs /\ Alive(k)))
  BY <1>0, CancelTasks
<1>1. ASSUME NEW len \in 0 .. MaxReplay, HandleReplay(len)
      PROVE  RunInv'
  <2>1. Slot \in Tids /\ ~Alive(Slot) /\ Slot \notin {liveTask, replayTask}
    BY <1>1, SlotIsFree DEF HandleReplay, FreeSlots
  <2>2. Head(inbox).n \in Nat /\ len \in Nat
    <3>1. Head(inbox) \in Command
      BY <1>1 DEF HandleReplay, Receives, ServerTypeOK
    <3> QED BY <3>1, TaskAssumption DEF Command
  <2>3. /\ tasks'[Slot] = NewReplay(Head(inbox).n, len)
        /\ \A j \in Tids : j # Slot =>
             tasks'[j] = WithCancelled({liveTask, replayTask})[j]
    <3>1. tasks' = [WithCancelled({liveTask, replayTask}) EXCEPT
                      ![Slot] = NewReplay(Head(inbox).n, len)]
      BY <1>1 DEF HandleReplay
    <3>2. WithCancelled({liveTask, replayTask}) \in [Tids -> Task]
      BY <1>0, CancelTasks
    <3> QED BY <2>1, <3>1, <3>2
  <2>4. Running' = {Slot}
    <3>1. tasks'[Slot].pc = "play" /\ tasks'[Slot].cancelled = FALSE
      BY <2>2, <2>3, NewTasks
    <3>2. ASSUME NEW j \in Tids, j # Slot PROVE j \notin Running'
      <4>1. /\ tasks'[j].pc = tasks[j].pc
            /\ tasks'[j].cancelled =
                 (tasks[j].cancelled \/ (j \in {liveTask, replayTask} /\ Alive(j)))
        BY <1>c, <2>3, <3>2
      <4>2. CASE j \in Running
        <5>1. j \in {liveTask, replayTask} /\ Alive(j)
          BY <1>0, <4>2 DEF Running
        <5> QED BY <4>1, <5>1 DEF Running
      <4>3. CASE j \notin Running
        BY <4>1, <4>3 DEF Running, Alive
      <4> QED BY <4>2, <4>3
    <3> QED BY <2>1, <3>1, <3>2 DEF Running, Alive
  <2>5. liveTask' = 0 /\ replayTask' = Slot /\ handler' = "open" /\ conn' = "up"
    BY <1>1 DEF HandleReplay, Receives
  <2> QED BY <1>0, <2>4, <2>5
          DEF RunInv, OneRuns, SendersReachable, AlwaysASender, LiveTaskFresh
<1>2. CASE HandleLive
  <2> DEFINE start == liveTask = 0 \/ (liveTask # 0 /\ ~Alive(liveTask))
             stopped == WithCancelled({replayTask})
  <2>1. Slot \in Tids /\ ~Alive(Slot) /\ Slot \notin {liveTask, replayTask}
    BY <1>2, SlotIsFree DEF HandleLive, FreeSlots
  <2>2. replayTask' = 0 /\ handler' = "open" /\ conn' = "up" /\ handler = "open"
    BY <1>2 DEF HandleLive, Receives
  <2>3. CASE start
    <3>1. /\ tasks' = [stopped EXCEPT ![Slot] = NewLive] /\ liveTask' = Slot
      BY <1>2, <2>3 DEF HandleLive
    <3>2. /\ tasks'[Slot] = NewLive
          /\ \A j \in Tids : j # Slot => tasks'[j] = stopped[j]
      BY <1>0, <2>1, <3>1, CancelTasks
    <3>3. Running' = {Slot}
      <4>1. \A j \in Running : j = replayTask
        BY <1>0, <2>3 DEF Running
      <4> HIDE DEF stopped, start
      <4>2. \A j \in Tids : /\ stopped[j].pc = tasks[j].pc
                            /\ stopped[j].cancelled =
                                 (tasks[j].cancelled \/ (j = replayTask /\ Alive(j)))
        BY <1>c DEF stopped
      <4> QED BY <2>1, <3>2, <4>1, <4>2, NewTasks DEF Running, Alive
    <3>4. ~(tasks'[Slot].cancelled)
      BY <3>2, NewTasks
    <3> QED BY <1>0, <2>1, <2>2, <3>1, <3>3, <3>4
            DEF RunInv, OneRuns, SendersReachable, AlwaysASender, LiveTaskFresh
  <2>4. CASE ~start
    <3>1. tasks' = stopped /\ liveTask' = liveTask
      BY <1>2, <2>4 DEF HandleLive
    <3>2. liveTask \in Tids /\ Alive(liveTask) /\ liveTask # replayTask
          /\ ~tasks[liveTask].cancelled
      BY <2>2, <2>4 DEF ServerTypeOK, Tids, RunInv, LiveTaskFresh
    <3>3. \A j \in Tids : /\ tasks'[j].pc = tasks[j].pc
                          /\ tasks'[j].cancelled =
                               (tasks[j].cancelled \/ (j = replayTask /\ Alive(j)))
      <4> HIDE DEF start
      <4> QED BY <1>c, <3>1
    <3>4. liveTask \in Running' /\ Running' \subseteq Running
      BY <3>2, <3>3 DEF Running, Alive
    <3>5. Running' = {liveTask}
      BY <3>4 DEF RunInv, OneRuns
    <3>6. ~(tasks'[liveTask].cancelled)
      BY <3>2, <3>3
    <3> QED BY <1>0, <2>2, <3>1, <3>2, <3>5, <3>6
            DEF RunInv, OneRuns, SendersReachable, AlwaysASender, LiveTaskFresh
  <2> QED BY <2>3, <2>4
<1>3. CASE HandleBad
  BY <1>3, SameRuns DEF HandleBad, session, Alive
<1>4. CASE Disconnected
  <2>1. /\ tasks' = WithCancelled({liveTask, replayTask})
        /\ handler' = "closed" /\ conn' = "lost"
        /\ UNCHANGED <<liveTask, replayTask>>
    BY <1>4 DEF Disconnected
  <2>2. Running' = {}
    BY <1>0, <1>c, <2>1 DEF Running, Alive
  <2> QED BY <2>1, <2>2
          DEF RunInv, OneRuns, SendersReachable, AlwaysASender, LiveTaskFresh
<1> QED BY <1>1, <1>2, <1>3, <1>4 DEF Handle

\* Every step, the client's and the network's included, preserves it.
LEMMA SessionRuns == ServerTypeOK /\ RunInv /\ SessionStep => RunInv'
<1> SUFFICES ASSUME ServerTypeOK, RunInv, SessionStep PROVE RunInv'
  OBVIOUS
<1>1. CASE Handle
  BY <1>1, HandleRuns
<1>2. CASE \E k \in Tids : TaskStep(k)
  BY <1>2, TaskStepRuns
<1>3. CASE Publish \/ Arrives \/ Reads
  <2>1. UNCHANGED <<handler, conn, tasks, liveTask, replayTask>>
    BY <1>3 DEF Publish, Arrives, Reads, session
  <2> QED BY <2>1, SameRuns DEF Alive
<1>4. CASE ConnectionLost
  <2>1. Running' = Running /\ conn' = "lost"
        /\ UNCHANGED <<handler, tasks, liveTask, replayTask>>
    BY <1>4 DEF ConnectionLost, Running, Alive
  <2> QED BY <2>1
          DEF RunInv, OneRuns, SendersReachable, AlwaysASender,
              LiveTaskFresh, Alive
<1>5. CASE Accept
  <2>1. /\ tasks' = FirstTasks /\ liveTask' = 1 /\ replayTask' = 0
        /\ handler' = "open"
    BY <1>5 DEF Accept
  <2>2. Running' = {1} /\ ~(tasks'[1].cancelled)
    <3>1. \A k \in Tids : tasks'[k] = IF k = 1 THEN NewLive ELSE NoTask
      BY <2>1 DEF FirstTasks
    <3>2. 1 \in Tids
      BY TaskAssumption DEF Tids
    <3> QED BY <3>1, <3>2, NewTasks DEF Running, Alive
  <2> QED BY <2>1, <2>2
          DEF RunInv, OneRuns, SendersReachable, AlwaysASender, LiveTaskFresh
<1>6. CASE HandleBroken
  <2>0. /\ tasks \in [Tids -> Task]
        /\ Running \subseteq {liveTask, replayTask}
    BY DEF ServerTypeOK, RunInv, SendersReachable
  <2>1. /\ tasks' = WithCancelled({liveTask, replayTask})
        /\ handler' = "closed" /\ conn' = "lost"
        /\ UNCHANGED <<liveTask, replayTask>>
    BY <1>6 DEF HandleBroken
  <2>1a. \A k \in Tids :
           /\ tasks'[k].pc = tasks[k].pc
           /\ tasks'[k].cancelled =
                (tasks[k].cancelled \/ (k \in {liveTask, replayTask} /\ Alive(k)))
    BY <2>0, <2>1, CancelTasks
  <2>2. Running' = {}
    BY <2>0, <2>1a DEF Running, Alive
  <2> QED BY <2>1, <2>2
          DEF RunInv, OneRuns, SendersReachable, AlwaysASender, LiveTaskFresh
<1> QED BY <1>1, <1>2, <1>3, <1>4, <1>5, <1>6 DEF SessionStep, ServerNext

\* A session starts with its live task and no other.
LEMMA InitRuns == ServerInit => RunInv
<1> SUFFICES ASSUME ServerInit PROVE RunInv
  OBVIOUS
<1>1. tasks = FirstTasks /\ liveTask = 1 /\ replayTask = 0 /\ handler = "open"
  BY DEF ServerInit
<1>2. Running = {1} /\ ~tasks[1].cancelled
  BY <1>1, FirstRuns
<1> QED BY <1>1, <1>2
        DEF RunInv, OneRuns, SendersReachable, AlwaysASender, LiveTaskFresh

-----------------------------------------------------------------------------
(* The order of the live messages.  Three places hold them: what has been  *)
(* written, the message a sender is writing, and the queue, whose messages *)
(* are newer than Base.  Only one task writes at a time, because a task is *)
(* not scheduled before every earlier cancellation has been delivered.     *)

Base == published - Len(queue)

SendingLive(k) == tasks[k].pc = "send" /\ tasks[k].msg.kind = "live"

OrderInv ==
  /\ handler = "closed" => queue = <<>>
  /\ \A i \in DOMAIN queue : queue[i] = Base + i
  /\ lastLive <= Base
  /\ \A k \in Tids : SendingLive(k) => /\ lastLive < tasks[k].msg.n
                                       /\ tasks[k].msg.n <= Base
  /\ \A j, k \in Tids : SendingLive(j) /\ SendingLive(k) => j = k

\* A task that is scheduled is the only one that is not over.
LEMMA OnlyTask ==
  ASSUME ServerTypeOK, RunInv, NEW k \in Tids, Scheduled(k)
  PROVE  Alive(k) /\ \A j \in Tids : Alive(j) => j = k
<1>1. \A j \in Tids : Alive(j) => j \in Running \cup Cancelled
  BY DEF Running, Cancelled
<1> QED BY <1>1 DEF Scheduled, Running, RunInv, OneRuns

\* The last position of a queue and the ones before it.
LEMMA LastPosition == \A n \in Nat : \A i \in 1 .. n : i \in 1 .. n - 1 \/ i = n
  OBVIOUS

\* What a full queue loses is its oldest message.
LEMMA EnqueueNewest ==
  ASSUME ServerTypeOK, OrderInv,
         NEW q, q = Enqueue(queue, published + 1)
  PROVE  /\ \A i \in DOMAIN q : q[i] = (published + 1) - Len(q) + i
         /\ Base <= (published + 1) - Len(q)
<1>0. queue \in Seq(Nat) /\ Len(queue) \in Nat /\ published \in Nat /\ MaxQueue \in Nat \ {0}
      /\ DOMAIN queue = 1 .. Len(queue) /\ Len(queue) <= MaxQueue
  BY QueueAssumption DEF ServerTypeOK
<1>1. CASE Len(queue) < MaxQueue
  <2>1. /\ Len(q) = Len(queue) + 1 /\ DOMAIN q = 1 .. Len(queue) + 1
        /\ q[Len(queue) + 1] = published + 1
        /\ \A i \in 1 .. Len(queue) : q[i] = queue[i]
    BY <1>0, <1>1 DEF Enqueue
  <2>2. (published + 1) - Len(q) = Base
    BY <1>0, <2>1 DEF Base
  <2>3. Base + (Len(queue) + 1) = published + 1
    BY <1>0 DEF Base
  <2>4. \A i \in 1 .. Len(queue) : queue[i] = Base + i
    BY <1>0 DEF OrderInv
  <2>5. \A i \in 1 .. Len(queue) + 1 : i \in 1 .. Len(queue) \/ i = Len(queue) + 1
    BY <1>0
  <2>6. \A i \in DOMAIN q : q[i] = Base + i
    BY <2>1, <2>3, <2>4, <2>5
  <2>7. Base \in Int
    BY <1>0 DEF Base
  <2> QED BY <2>2, <2>6, <2>7
<1>2. CASE ~(Len(queue) < MaxQueue)
  <2>1. queue # <<>> /\ Len(queue) > 0
    BY <1>0, <1>2
  <2>2. /\ Tail(queue) \in Seq(Nat) /\ Len(Tail(queue)) = Len(queue) - 1
        /\ \A i \in 1 .. Len(queue) - 1 : Tail(queue)[i] = queue[i + 1]
    BY <1>0, <2>1
  <2>3. /\ Len(q) = Len(queue) /\ DOMAIN q = 1 .. Len(queue)
        /\ q[Len(queue)] = published + 1
        /\ \A i \in 1 .. Len(queue) - 1 : q[i] = queue[i + 1]
    BY <1>0, <1>2, <2>1, <2>2 DEF Enqueue
  <2>4. \A i \in 1 .. Len(queue) - 1 : queue[i + 1] = Base + (i + 1)
    BY <1>0 DEF OrderInv
  <2>4a. Base = published - Len(queue) /\ Base \in Int
    BY <1>0 DEF Base
  <2>5. (published + 1) - Len(q) = Base + 1
    <3>1. Len(q) = Len(queue)
      BY <2>3
    <3> QED BY <1>0, <2>4a, <3>1
  <2>6. (Base + 1) + Len(queue) = published + 1
    BY <1>0, <2>4a
  <2>7. \A i \in 1 .. Len(queue) : i \in 1 .. Len(queue) - 1 \/ i = Len(queue)
    BY <1>0, LastPosition
  <2>8. \A i \in 1 .. Len(queue) - 1 : q[i] = (Base + 1) + i
    BY <1>0, <2>3, <2>4, <2>4a
  <2>9. \A i \in DOMAIN q : q[i] = (Base + 1) + i
    BY <2>3, <2>6, <2>7, <2>8
  <2> QED BY <2>4a, <2>5, <2>9
<1> QED BY <1>1, <1>2

\* Senders that go on sending what they sent, in front of a queue that is as it
\* was or starts later, keep the order; so does a session without a sender.
LEMMA OrderRests ==
  ASSUME ServerTypeOK, OrderInv, ServerTypeOK', lastLive' = lastLive,
         Base <= Base', handler' = "closed" => queue' = <<>>,
         \A i \in DOMAIN queue' : queue'[i] = Base' + i,
         \A k \in Tids : SendingLive(k)' => /\ SendingLive(k)
                                            /\ tasks'[k].msg = tasks[k].msg
  PROVE  OrderInv'
<1>1. /\ Base \in Int /\ Base' \in Int /\ lastLive \in Nat
      /\ \A k \in Tids : tasks[k].msg.n \in Nat
  <2>1. \A k \in Tids : tasks[k].msg \in Message
    BY DEF ServerTypeOK, Task
  <2>2. \A m \in Message : m.n \in Nat
    BY DEF Message
  <2>3. /\ queue \in Seq(Nat) /\ queue' \in Seq(Nat) /\ published \in Nat /\ published' \in Nat
        /\ lastLive \in Nat
    BY DEF ServerTypeOK
  <2> QED BY <2>1, <2>2, <2>3 DEF Base
<1> QED BY <1>1 DEF OrderInv

\* An empty queue starts after what has been published.
LEMMA BaseEmpty ==
  ASSUME ServerTypeOK, ServerTypeOK', queue' = <<>>, published <= published'
  PROVE  Base <= Base' /\ \A i \in DOMAIN queue' : queue'[i] = Base' + i
<1>1. queue \in Seq(Nat) /\ Len(queue) \in Nat /\ published \in Nat /\ published' \in Nat
  BY DEF ServerTypeOK
<1> QED BY <1>1 DEF Base

\* A task that is cancelled or replaced sends nothing it was not sending already.
LEMMA HandleOrder ==
  ASSUME ServerTypeOK, ServerTypeOK', OrderInv, Handle
  PROVE  OrderInv'
<1>0. /\ tasks \in [Tids -> Task]
      /\ \A refs : /\ WithCancelled(refs) \in [Tids -> Task]
                   /\ \A k \in Tids : /\ WithCancelled(refs)[k].pc = tasks[k].pc
                                      /\ WithCancelled(refs)[k].msg = tasks[k].msg
  BY CancelTasks DEF ServerTypeOK
<1>a. Base \in Int /\ \A i \in DOMAIN queue : queue[i] = Base + i
  BY DEF ServerTypeOK, OrderInv, Base
<1>1. ASSUME NEW len \in 0 .. MaxReplay, HandleReplay(len) PROVE OrderInv'
  <2>1. Slot \in Tids /\ NewReplay(Head(inbox).n, len).pc = "play"
    BY <1>1, SlotIsFree DEF HandleReplay, FreeSlots, NewReplay, NoTask
  <2>2. \A k \in Tids : SendingLive(k)' => SendingLive(k) /\ tasks'[k].msg = tasks[k].msg
    BY <1>0, <1>1, <2>1 DEF HandleReplay, SendingLive
  <2>3. Base' = Base /\ UNCHANGED <<queue, lastLive>> /\ handler' # "closed"
    BY <1>1 DEF HandleReplay, Base, Receives
  <2> QED BY <1>a, <2>2, <2>3, OrderRests
<1>2. CASE HandleLive
  <2>1. Slot \in Tids /\ NewLive.pc = "get"
    BY <1>2, SlotIsFree, NewTasks DEF HandleLive, FreeSlots
  <2>2. \/ tasks' = WithCancelled({replayTask})
        \/ tasks' = [WithCancelled({replayTask}) EXCEPT ![Slot] = NewLive]
    BY <1>2 DEF HandleLive
  <2>3. \A k \in Tids : SendingLive(k)' => SendingLive(k) /\ tasks'[k].msg = tasks[k].msg
    BY <1>0, <2>1, <2>2 DEF SendingLive
  <2>4. Base' = Base /\ UNCHANGED <<queue, lastLive>> /\ handler' # "closed"
    BY <1>2 DEF HandleLive, Base, Receives
  <2> QED BY <1>a, <2>3, <2>4, OrderRests
<1>3. CASE HandleBad
  <2>1. UNCHANGED <<tasks, queue, published, lastLive>> /\ handler' # "closed"
    BY <1>3 DEF HandleBad, session, Write, Error, Receives
  <2> QED BY <1>a, <2>1, OrderRests DEF Base, SendingLive
<1>4. CASE Disconnected
  <2>1. /\ tasks' = WithCancelled({liveTask, replayTask}) /\ queue' = <<>>
        /\ UNCHANGED <<published, lastLive>>
    BY <1>4 DEF Disconnected
  <2>1a. published <= published'
    BY <2>1 DEF ServerTypeOK
  <2>2. Base <= Base' /\ \A i \in DOMAIN queue' : queue'[i] = Base' + i
    BY <2>1, <2>1a, BaseEmpty
  <2> QED BY <1>0, <2>1, <2>2, OrderRests DEF SendingLive
<1> QED BY <1>1, <1>2, <1>3, <1>4 DEF Handle

\* A task that steps takes the oldest message, or writes the only one under way.
LEMMA TaskStepOrder ==
  ASSUME ServerTypeOK, ServerTypeOK', RunInv, OrderInv, NEW k \in Tids, TaskStep(k)
  PROVE  OrderInv'
<1>0. /\ tasks \in [Tids -> Task] /\ tasks[k] \in Task /\ tasks[k].msg \in Message
      /\ queue \in Seq(Nat) /\ Len(queue) \in Nat /\ published \in Nat
      /\ Base \in Int /\ lastLive \in Nat /\ lastLive' \in Nat /\ lastLive <= Base
      /\ \A i \in DOMAIN queue : queue[i] = Base + i
  BY DEF ServerTypeOK, Task, Base, OrderInv
<1>a. ASSUME Scheduled(k) PROVE \A j \in Tids : j # k => ~Alive(j)
  BY <1>a, OnlyTask
<1>1. CASE LiveGets(k)
  <2>1. /\ Scheduled(k) /\ queue # <<>> /\ queue' = Tail(queue)
        /\ UNCHANGED <<handler, published, lastLive>>
    BY <1>1 DEF LiveGets
  <2>2. /\ Head(queue) = queue[1] /\ 1 \in DOMAIN queue /\ Len(queue') = Len(queue) - 1
        /\ DOMAIN queue' = 1 .. Len(queue) - 1
        /\ \A i \in DOMAIN queue' : queue'[i] = queue[i + 1] /\ i + 1 \in DOMAIN queue
    BY <1>0, <2>1
  <2>3. Base = published - Len(queue) /\ Base' = published - (Len(queue) - 1)
    BY <2>1, <2>2 DEF Base
  <2>4. Base' = Base + 1
    BY <1>0, <2>3
  <2>5. \A i \in DOMAIN queue' : queue'[i] = Base' + i
    <3> TAKE i \in DOMAIN queue'
    <3>1. queue'[i] = Base + (i + 1) /\ i \in Nat
      BY <1>0, <2>2
    <3> QED BY <1>0, <2>4, <3>1
  <2> DEFINE m == [kind |-> "live", n |-> Head(queue)]
  <2>7. tasks' = [tasks EXCEPT ![k].pc = "send", ![k].msg = m] /\ m.n = Base + 1
    BY <1>0, <1>1, <2>2 DEF LiveGets, Goes
  <2> HIDE DEF m
  <2>8. tasks'[k].msg = m /\ \A j \in Tids : j # k => tasks'[j] = tasks[j]
    BY <1>0, <2>7 DEF Task
  <2>9. \A j \in Tids : SendingLive(j)' => j = k
    BY <1>a, <2>1, <2>8 DEF SendingLive, Alive
  <2>10. handler' = "closed" => queue' = <<>>
    BY <2>1 DEF OrderInv
  <2>11. lastLive' <= Base' /\ lastLive' < Base + 1
    BY <1>0, <2>1, <2>4
  <2>12. \A j \in Tids : SendingLive(j)' => /\ lastLive' < tasks'[j].msg.n
                                            /\ tasks'[j].msg.n <= Base'
    <3>1. lastLive' < m.n /\ m.n <= Base'
      BY <1>0, <2>4, <2>7, <2>11
    <3> QED BY <2>8, <2>9, <3>1
  <2> QED BY <2>5, <2>9, <2>10, <2>11, <2>12 DEF OrderInv
<1>2. CASE ReplayYields(k)
  <2>1. /\ Scheduled(k) /\ UNCHANGED <<handler, queue, published, lastLive>>
        /\ tasks'[k].msg.kind # "live"
        /\ \A j \in Tids : j # k => tasks'[j] = tasks[j]
    BY <1>0, <1>2 DEF ReplayYields, Task
  <2>2. \A j \in Tids : ~(SendingLive(j)')
    BY <1>a, <2>1 DEF SendingLive, Alive
  <2> QED BY <1>0, <2>1, <2>2, OrderRests DEF Base, OrderInv
<1>3. CASE ReplayRaises(k) \/ SendRaises(k)
  <2>1. /\ Scheduled(k) /\ UNCHANGED <<handler, queue, published, lastLive>>
    BY <1>3 DEF ReplayRaises, SendRaises
  <2>2. \A j \in Tids : ~(SendingLive(j)')
    <3>1. CASE Goes(k, "send", [kind |-> "error", n |-> tasks[k].n])
      BY <1>0, <1>a, <2>1, <3>1 DEF Goes, SendingLive, Alive, Task
    <3>2. CASE tasks' = [tasks EXCEPT ![k] = NoTask]
      BY <1>0, <1>a, <2>1, <3>2, NewTasks DEF SendingLive, Alive
    <3>3. CASE FallBack(k)
      BY <1>0, <1>a, <2>1, <3>3, FallBackType, NewTasks DEF SendingLive, Alive
    <3> QED BY <1>3, <3>1, <3>2, <3>3 DEF ReplayRaises, SendRaises
  <2> QED BY <1>0, <2>1, <2>2, OrderRests DEF Base, OrderInv
<1>4. CASE Sent(k)
  <2>1. /\ Scheduled(k) /\ UNCHANGED <<handler, queue, published>> /\ Write(tasks[k].msg)
        /\ tasks[k].pc = "send"
    BY <1>4 DEF Sent
  <2>2. \A j \in Tids : ~(SendingLive(j)')
    <3>1. CASE Goes(k, "get", Error) \/ Goes(k, "play", Error)
      BY <1>0, <1>a, <2>1, <3>1 DEF Goes, SendingLive, Alive, Task
    <3>2. CASE FallBack(k)
      BY <1>0, <1>a, <2>1, <3>2, FallBackType, NewTasks DEF SendingLive, Alive
    <3> QED BY <1>4, <3>1, <3>2 DEF Sent
  <2>3. lastLive' <= Base
    BY <1>0, <2>1 DEF Write, OrderInv, SendingLive
  <2> QED BY <1>0, <2>1, <2>2, <2>3 DEF Base, OrderInv
<1>5. CASE CancelDelivered(k)
  <2>1. /\ tasks' = [tasks EXCEPT ![k] = NoTask]
        /\ UNCHANGED <<handler, queue, published>>
    BY <1>5 DEF CancelDelivered
  <2>2. /\ ~(SendingLive(k)')
        /\ \A j \in Tids : j # k => tasks'[j] = tasks[j]
    BY <1>0, <2>1, NewTasks DEF SendingLive
  <2>3. CASE lastLive' = lastLive
    BY <1>0, <2>1, <2>2, <2>3, OrderRests DEF Base, OrderInv, SendingLive
  <2>4. CASE lastLive' # lastLive
    <3>1. SendingLive(k) /\ lastLive' = tasks[k].msg.n
      BY <1>5, <2>4 DEF CancelDelivered, Write, SendingLive
    <3>2. lastLive' <= Base /\ \A j \in Tids : ~(SendingLive(j)')
      BY <2>2, <3>1 DEF OrderInv, SendingLive
    <3> QED BY <1>0, <2>1, <3>2 DEF Base, OrderInv
  <2> QED BY <2>3, <2>4
<1> QED BY <1>1, <1>2, <1>3, <1>4, <1>5 DEF TaskStep

\* Every step of the session and of its client keeps the order.
LEMMA SessionOrder == ServerTypeOK /\ RunInv /\ OrderInv /\ SessionStep => OrderInv'
<1> SUFFICES ASSUME ServerTypeOK, RunInv, OrderInv, SessionStep PROVE OrderInv'
  OBVIOUS
<1>0. ServerTypeOK'
  BY SessionType
<1>a. Base \in Int /\ \A i \in DOMAIN queue : queue[i] = Base + i
  BY DEF ServerTypeOK, OrderInv, Base
<1>1. CASE Publish
  <2>1. /\ published' = published + 1 /\ UNCHANGED <<handler, tasks, lastLive>>
        /\ queue' = IF handler = "open" THEN Enqueue(queue, published + 1) ELSE queue
    BY <1>1 DEF Publish
  <2>2. CASE handler = "open"
    <3>1. queue' = Enqueue(queue, published + 1)
      BY <2>1, <2>2
    <3>2. /\ \A i \in DOMAIN queue' : queue'[i] = (published + 1) - Len(queue') + i
          /\ Base <= (published + 1) - Len(queue')
      BY <3>1, EnqueueNewest
    <3>3. Base' = (published + 1) - Len(queue')
      BY <2>1 DEF Base
    <3>4. \A k \in Tids : SendingLive(k)' => SendingLive(k) /\ tasks'[k].msg = tasks[k].msg
      BY <2>1 DEF SendingLive
    <3> QED BY <1>0, <2>1, <2>2, <3>2, <3>3, <3>4, OrderRests
  <2>3. CASE handler # "open"
    <3>1. queue' = <<>> /\ published <= published'
      BY <2>1, <2>3 DEF OrderInv, ServerTypeOK
    <3> QED BY <1>0, <2>1, <3>1, BaseEmpty, OrderRests DEF SendingLive
  <2> QED BY <2>2, <2>3
<1>2. CASE Handle
  BY <1>0, <1>2, HandleOrder
<1>3. CASE \E k \in Tids : TaskStep(k)
  BY <1>0, <1>3, TaskStepOrder
<1>4. CASE Arrives \/ Reads \/ ConnectionLost
  <2>1. UNCHANGED <<handler, queue, tasks, published, lastLive>>
    BY <1>4 DEF Arrives, Reads, ConnectionLost, session
  <2> QED BY <2>1 DEF OrderInv, Base, SendingLive
<1>5. CASE Accept
  <2>1. queue' = <<>> /\ UNCHANGED <<published, lastLive>> /\ tasks' = FirstTasks
    BY <1>5 DEF Accept
  <2>2. published <= published'
    BY <2>1 DEF ServerTypeOK
  <2>3. \A k \in Tids : ~(SendingLive(k)')
    <3>1. \A k \in Tids : tasks'[k] = IF k = 1 THEN NewLive ELSE NoTask
      BY <2>1 DEF FirstTasks
    <3> QED BY <3>1, NewTasks DEF SendingLive
  <2> QED BY <1>0, <2>1, <2>2, <2>3, BaseEmpty, OrderRests
<1>6. CASE HandleBroken
  <2>1. /\ tasks' = WithCancelled({liveTask, replayTask}) /\ queue' = <<>>
        /\ UNCHANGED <<published, lastLive>>
    BY <1>6 DEF HandleBroken
  <2>2. published <= published'
    BY <2>1 DEF ServerTypeOK
  <2>3. Base <= Base' /\ \A i \in DOMAIN queue' : queue'[i] = Base' + i
    BY <1>0, <2>1, <2>2, BaseEmpty
  <2>4. \A k \in Tids : SendingLive(k)' => SendingLive(k) /\ tasks'[k].msg = tasks[k].msg
    BY <2>1, CancelTasks DEF SendingLive, ServerTypeOK
  <2> QED BY <1>0, <2>1, <2>3, <2>4, OrderRests
<1> QED BY <1>1, <1>2, <1>3, <1>4, <1>5, <1>6 DEF SessionStep, ServerNext

\* Nothing has been published when the session starts.
LEMMA InitOrder == ServerInit => OrderInv
<1> SUFFICES ASSUME ServerInit PROVE OrderInv
  OBVIOUS
<1>1. \A k \in Tids : ~SendingLive(k)
  <2>1. \A k \in Tids : tasks[k] = IF k = 1 THEN NewLive ELSE NoTask
    BY DEF ServerInit, FirstTasks
  <2> QED BY <2>1, NewTasks DEF SendingLive
<1> QED BY <1>1 DEF ServerInit, OrderInv, Base

\* A live message that is written now is newer than every one written before.
NewestSent ==
  \A m \in {outbox'[i] : i \in DOMAIN outbox' \ DOMAIN outbox} :
    (Len(outbox') > Len(outbox) /\ m.kind = "live") => m.n > lastLive

\* Every step of the session and of its client writes nothing older.
LEMMA NewestStep ==
  ASSUME ServerTypeOK, RunInv, OrderInv, SessionStep
  PROVE  NewestSent
<1>0. /\ outbox \in Seq(Message) /\ Len(outbox) \in Nat /\ lastLive \in Nat
      /\ DOMAIN outbox = 1 .. Len(outbox) /\ Error.kind = "error"
  BY DEF ServerTypeOK, Error
<1>1. ASSUME NEW m, Write(m), m.kind = "live" => m.n > lastLive PROVE NewestSent
  <2>1. CASE outbox' = outbox
    BY <2>1 DEF NewestSent
  <2>2. CASE outbox' = Append(outbox, m)
    <3>1. \A i \in DOMAIN outbox' \ DOMAIN outbox : outbox'[i] = m
      BY <1>0, <2>2
    <3> QED BY <1>1, <3>1 DEF NewestSent
  <2> QED BY <1>1, <2>1, <2>2 DEF Write
<1>2. CASE outbox' = outbox
  BY <1>2 DEF NewestSent
<1>3. ASSUME NEW k \in Tids, Sent(k) \/ CancelDelivered(k) PROVE NewestSent
  <2>1. outbox' = outbox \/ (tasks[k].pc = "send" /\ Write(tasks[k].msg))
    BY <1>3 DEF Sent, CancelDelivered
  <2>2. tasks[k].pc = "send" /\ tasks[k].msg.kind = "live" => tasks[k].msg.n > lastLive
    <3>1. tasks[k].msg.n \in Nat
      BY DEF ServerTypeOK, Task, Message
    <3> QED BY <1>0, <3>1 DEF OrderInv, SendingLive
  <2> QED BY <1>1, <1>2, <2>1, <2>2
<1>4. CASE HandleBad
  BY <1>0, <1>1, <1>4 DEF HandleBad
<1>5. CASE Reads \/ ConnectionLost \/ HandleBroken
  <2>1. Len(outbox') <= Len(outbox) /\ Len(outbox') \in Nat
    BY <1>0, <1>5 DEF Reads, ConnectionLost, HandleBroken
  <2> QED BY <1>0, <2>1 DEF NewestSent
<1> QED
  <2>1. ASSUME NEW k \in Tids, TaskStep(k) PROVE NewestSent
    BY <1>2, <1>3, <2>1 DEF TaskStep, LiveGets, ReplayYields, ReplayRaises, SendRaises
  <2>2. CASE Handle
    BY <1>2, <1>4, <2>2 DEF Handle, HandleReplay, HandleLive, Disconnected
  <2>3. CASE Publish \/ Arrives \/ Accept
    BY <1>2, <2>3 DEF Publish, Arrives, Accept
  <2> QED BY <1>5, <2>1, <2>2, <2>3 DEF SessionStep, ServerNext

=============================================================================
