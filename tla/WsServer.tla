------------------------------ MODULE WsServer ------------------------------
(***************************************************************************)
(* One /ws session on the server: the handler api.py ws(), its live and    *)
(* replay sender tasks, and the subscriber queue the Broadcaster feeds     *)
(* (broadcast.py).                                                       *)
(*                                                                         *)
(* The handler, the two kinds of task and the publishers run on one event  *)
(* loop; an action is what one of them does between two awaits.  A task    *)
(* that has been cancelled sees the cancellation when the loop runs it     *)
(* next, which is before a task created after the cancel() takes its first *)
(* step; the handler may process further commands in between.              *)
(*                                                                         *)
(* A live message is its publication number.  A replay message carries the *)
(* number of the replay command it answers; replay.py's generator is       *)
(* abstracted to how many messages it yields before replay_end and whether *)
(* it raises.                                                              *)
(***************************************************************************)
EXTENDS Integers, Sequences, FiniteSets

CONSTANTS MaxQueue,   \* Broadcaster maxsize
          MaxReplay,  \* bound: messages a replay yields before replay_end
          MaxTasks,   \* bound: sender tasks that exist at one time
          MaxOut,     \* messages the transport takes before send blocks
          MaxLive,    \* bound: live messages published
          MayFail     \* whether a replay can raise (a failing database read)

ASSUME QueueAssumption == MaxQueue \in Nat \ {0} /\ MaxOut \in Nat \ {0}
ASSUME TaskAssumption  == MaxTasks \in Nat \ {0} /\ MaxReplay \in Nat
ASSUME LiveAssumption  == MaxLive \in Nat /\ MayFail \in BOOLEAN

VARIABLES handler,    \* "open" from subscribe to the finally block
          conn,       \* the WebSocket: "up" or "lost"
          queue,      \* the subscriber queue q
          tasks,      \* every sender task the handler has created
          liveTask,   \* live_task, 0 for None
          replayTask, \* replay_task, 0 for None
          inbox,      \* commands on their way to the handler
          outbox,     \* messages on their way to the client
          published,  \* number of the last live message published
          lastLive    \* history: the last live message written to the client

session    == <<handler, conn, queue, tasks, liveTask, replayTask>>
serverVars == <<handler, conn, queue, tasks, liveTask, replayTask, inbox,
                outbox, published, lastLive>>

Tids     == 1 .. MaxTasks
Message  == [kind : {"live", "replay", "replay_end", "error"}, n : Nat]
Task     == [kind : {"live", "replay"},
             pc   : {"get", "play", "send", "done"},
             cancelled : BOOLEAN,
             msg  : Message,   \* what send_json is writing
             n    : Nat,       \* the replay command it answers
             left : Nat]       \* messages left before replay_end
Command  == [cmd : {"replay", "live", "bad", "broken"}, n : Nat]

Error   == [kind |-> "error", n |-> 0]
NoTask  == [kind |-> "live", pc |-> "done", cancelled |-> FALSE,
            msg |-> Error, n |-> 0, left |-> 0]
NewLive == [NoTask EXCEPT !.pc = "get"]
NewReplay(n, len) == [NoTask EXCEPT !.kind = "replay", !.pc = "play",
                                    !.n = n, !.left = len]

ServerTypeOK ==
  /\ handler \in {"open", "closed"} /\ conn \in {"up", "lost"}
  /\ queue \in Seq(Nat) /\ Len(queue) <= MaxQueue
  /\ tasks \in [Tids -> Task]
  /\ liveTask \in 0 .. MaxTasks /\ replayTask \in 0 .. MaxTasks
  /\ inbox \in Seq(Command)
  /\ outbox \in Seq(Message) /\ Len(outbox) <= MaxOut
  /\ published \in Nat /\ lastLive \in Nat

\* accept() has returned, q = subscribe(), live_task = _start_live()
FirstTasks == [k \in Tids |-> IF k = 1 THEN NewLive ELSE NoTask]

ServerInit == /\ handler = "open" /\ conn = "up"
              /\ queue = <<>>
              /\ tasks = FirstTasks /\ liveTask = 1 /\ replayTask = 0
              /\ inbox = <<>> /\ outbox = <<>>
              /\ published = 0 /\ lastLive = 0

-----------------------------------------------------------------------------
Alive(k)   == tasks[k].pc # "done"
Running    == {k \in Tids : Alive(k) /\ ~tasks[k].cancelled}
Cancelled  == {k \in Tids : Alive(k) /\ tasks[k].cancelled}

\* k may take a step: a cancellation requested before it was created has
\* been delivered
Scheduled(k) == k \in Running /\ Cancelled = {}

\* a slot for a new task: nothing refers to it and its task is over
FreeSlots == {k \in Tids : ~Alive(k) /\ k \notin {liveTask, replayTask}}
Slot == CHOOSE k \in FreeSlots : TRUE

\* Task.cancel() on the tasks in refs; one that is done ignores it
WithCancelled(refs) ==
  [k \in Tids |-> IF k \in refs /\ Alive(k)
                    THEN [tasks[k] EXCEPT !.cancelled = TRUE] ELSE tasks[k]]

Write(m) ==
  /\ outbox' = IF conn = "up" THEN Append(outbox, m) ELSE outbox
  /\ lastLive' = IF conn = "up" /\ m.kind = "live" THEN m.n ELSE lastLive

Room == conn = "up" => Len(outbox) < MaxOut

-----------------------------------------------------------------------------
(* Broadcaster.publish: a full queue loses its oldest message. *)

\* mutant of Enqueue: the queue is created without its maxsize
EnqueueUnbounded(q, m) == Append(q, m)

\* mutant of Enqueue: a full queue refuses the new message
EnqueueDropsNewest(q, m) == IF Len(q) < MaxQueue THEN Append(q, m) ELSE q

Enqueue(q, m) == IF Len(q) < MaxQueue THEN Append(q, m)
                                      ELSE Append(Tail(q), m)

Publish ==
  /\ published < MaxLive
  /\ published' = published + 1
  /\ queue' = IF handler = "open" THEN Enqueue(queue, published + 1) ELSE queue
  /\ UNCHANGED <<handler, conn, tasks, liveTask, replayTask, inbox, outbox,
                 lastLive>>

-----------------------------------------------------------------------------
(* The command loop. *)

Receives(c) == /\ handler = "open" /\ conn = "up"
               /\ inbox # <<>> /\ Head(inbox).cmd = c
               /\ inbox' = Tail(inbox)

\* mutant of HandleReplay: a second replay does not stop the first
HandleReplayKeepsOld(len) ==
  /\ Receives("replay") /\ FreeSlots # {}
  /\ tasks' = [WithCancelled({liveTask}) EXCEPT
                 ![Slot] = NewReplay(Head(inbox).n, len)]
  /\ liveTask' = 0
  /\ replayTask' = Slot
  /\ UNCHANGED <<handler, conn, queue, outbox, published, lastLive>>

\* a replay command: stop both tasks, start the new replay
HandleReplay(len) ==
  /\ Receives("replay") /\ FreeSlots # {}
  /\ tasks' = [WithCancelled({liveTask, replayTask}) EXCEPT
                 ![Slot] = NewReplay(Head(inbox).n, len)]
  /\ liveTask' = 0
  /\ replayTask' = Slot
  /\ UNCHANGED <<handler, conn, queue, outbox, published, lastLive>>

\* a live command: stop the replay; start live unless it already runs
HandleLive ==
  /\ Receives("live") /\ FreeSlots # {}
  /\ replayTask' = 0
  /\ LET stopped == WithCancelled({replayTask})
         start   == liveTask = 0 \/ (liveTask # 0 /\ ~Alive(liveTask))
     IN  /\ tasks' = IF start THEN [stopped EXCEPT ![Slot] = NewLive]
                              ELSE stopped
         /\ liveTask' = IF start THEN Slot ELSE liveTask
  /\ UNCHANGED <<handler, conn, queue, outbox, published, lastLive>>

\* a replay command that does not validate: the handler answers it itself
HandleBad ==
  /\ Receives("bad") /\ Room
  /\ Write(Error)
  /\ UNCHANGED <<session, published>>

\* mutant of Disconnected: the finally block forgets the replay
DisconnectedKeepsReplay ==
  /\ handler = "open" /\ conn = "lost"
  /\ handler' = "closed"
  /\ tasks' = WithCancelled({liveTask})
  /\ queue' = <<>>
  /\ UNCHANGED <<conn, liveTask, replayTask, inbox, outbox, published, lastLive>>

\* receive_json raises WebSocketDisconnect: the finally block
Disconnected ==
  /\ handler = "open" /\ conn = "lost"
  /\ handler' = "closed"
  /\ tasks' = WithCancelled({liveTask, replayTask})
  /\ queue' = <<>>
  /\ UNCHANGED <<conn, liveTask, replayTask, inbox, outbox, published, lastLive>>

\* A command that is no JSON, or JSON but no object: receive_json or cmd.get
\* raises out of ws() past the finally block, and the connection is closed.
HandleBroken ==
  /\ handler = "open" /\ conn = "up"
  /\ inbox # <<>> /\ Head(inbox).cmd = "broken"
  /\ handler' = "closed" /\ conn' = "lost"
  /\ tasks' = WithCancelled({liveTask, replayTask})
  /\ queue' = <<>> /\ inbox' = <<>> /\ outbox' = <<>>
  /\ UNCHANGED <<liveTask, replayTask, published, lastLive>>

-----------------------------------------------------------------------------
(* The sender tasks. *)

Goes(k, pc, m) == tasks' = [tasks EXCEPT ![k].pc = pc, ![k].msg = m]

\* live(): q.get() returns
LiveGets(k) ==
  /\ Scheduled(k) /\ tasks[k].pc = "get" /\ queue # <<>>
  /\ Goes(k, "send", [kind |-> "live", n |-> Head(queue)])
  /\ queue' = Tail(queue)
  /\ UNCHANGED <<handler, conn, liveTask, replayTask, inbox, outbox, published,
                 lastLive>>

\* run_replay(): the generator yields the next message, or raises
ReplayYields(k) ==
  /\ Scheduled(k) /\ tasks[k].pc = "play"
  /\ LET t == tasks[k] IN
     tasks' = [tasks EXCEPT ![k].pc = "send",
                 ![k].msg = [kind |-> IF t.left > 0 THEN "replay" ELSE "replay_end",
                             n |-> t.n],
                 ![k].left = IF t.left > 0 THEN t.left - 1 ELSE 0]
  /\ UNCHANGED <<handler, conn, queue, liveTask, replayTask, inbox, outbox,
                 published, lastLive>>

ReplayRaises(k) ==
  /\ MayFail
  /\ Scheduled(k) /\ tasks[k].pc = "play"
  /\ Goes(k, "send", [kind |-> "error", n |-> tasks[k].n])
  /\ UNCHANGED <<handler, conn, queue, liveTask, replayTask, inbox, outbox,
                 published, lastLive>>

\* mutant of FallBack: the replay just ends
FallBackFreezes(k) ==
  /\ tasks' = [tasks EXCEPT ![k] = NoTask]
  /\ UNCHANGED <<liveTask, replayTask>>

\* the replay is over, in order or not: run_replay's last line starts live
FallBack(k) ==
  /\ FreeSlots # {}
  /\ tasks' = [tasks EXCEPT ![k] = NoTask, ![Slot] = NewLive]
  /\ liveTask' = Slot
  /\ UNCHANGED replayTask

\* send_json returns
Sent(k) ==
  /\ Scheduled(k) /\ tasks[k].pc = "send" /\ Room
  /\ Write(tasks[k].msg)
  /\ \/ /\ tasks[k].msg.kind = "live"
        /\ Goes(k, "get", Error)
        /\ UNCHANGED <<liveTask, replayTask>>
     \/ /\ tasks[k].msg.kind = "replay"
        /\ Goes(k, "play", Error)
        /\ UNCHANGED <<liveTask, replayTask>>
     \/ /\ tasks[k].msg.kind \in {"replay_end", "error"}
        /\ FallBack(k)
  /\ UNCHANGED <<handler, conn, queue, inbox, published>>

\* send_json raises on a lost connection: live() ends with the exception,
\* run_replay() tries to report it and then falls back all the same
SendRaises(k) ==
  /\ conn = "lost"
  /\ Scheduled(k) /\ tasks[k].pc = "send"
  /\ \/ /\ tasks[k].kind = "live"
        /\ tasks' = [tasks EXCEPT ![k] = NoTask]
        /\ UNCHANGED <<liveTask, replayTask>>
     \/ /\ tasks[k].kind = "replay" /\ tasks[k].msg.kind # "error"
        /\ Goes(k, "send", [kind |-> "error", n |-> tasks[k].n])
        /\ UNCHANGED <<liveTask, replayTask>>
     \/ /\ tasks[k].kind = "replay" /\ tasks[k].msg.kind = "error"
        /\ FallBack(k)
  /\ UNCHANGED <<handler, conn, queue, inbox, outbox, published, lastLive>>

\* mutant of CancelDelivered: run_replay restarts live in a finally block
CancelRestartsLive(k) ==
  /\ k \in Cancelled /\ FreeSlots # {}
  /\ IF tasks[k].kind = "replay"
       THEN /\ tasks' = [tasks EXCEPT ![k] = NoTask, ![Slot] = NewLive]
            /\ liveTask' = Slot
       ELSE tasks' = [tasks EXCEPT ![k] = NoTask] /\ UNCHANGED liveTask
  /\ UNCHANGED <<handler, conn, queue, replayTask, inbox, outbox, published,
                 lastLive>>

\* mutant of CancelDelivered: live() puts back the message it was sending
CancelRequeues(k) ==
  /\ k \in Cancelled
  /\ tasks' = [tasks EXCEPT ![k] = NoTask]
  /\ queue' = IF tasks[k].msg.kind = "live" THEN <<tasks[k].msg.n>> \o queue
                                            ELSE queue
  /\ \/ UNCHANGED <<outbox, lastLive>>
     \/ tasks[k].pc = "send" /\ Len(outbox) < MaxOut /\ Write(tasks[k].msg)
  /\ UNCHANGED <<handler, conn, liveTask, replayTask, inbox, published>>

\* CancelledError: q.get() leaves its message in the queue; a send may or may
\* not have reached the transport; run_replay re-raises past its last line
CancelDelivered(k) ==
  /\ k \in Cancelled
  /\ tasks' = [tasks EXCEPT ![k] = NoTask]
  /\ \/ UNCHANGED <<outbox, lastLive>>
     \/ tasks[k].pc = "send" /\ Len(outbox) < MaxOut /\ Write(tasks[k].msg)
  /\ UNCHANGED <<handler, conn, queue, liveTask, replayTask, inbox, published>>

\* The connection breaks with whatever is in flight on it.
ConnectionLost ==
  /\ conn = "up"
  /\ conn' = "lost" /\ inbox' = <<>> /\ outbox' = <<>>
  /\ UNCHANGED <<handler, queue, tasks, liveTask, replayTask, published,
                 lastLive>>

\* The client connects again: a new session, with a new queue.  The last one
\* shares nothing with it; it is modelled as over.
Accept ==
  /\ conn = "lost" /\ handler = "closed" /\ Cancelled = {}
  /\ handler' = "open" /\ conn' = "up"
  /\ queue' = <<>>
  /\ tasks' = FirstTasks /\ liveTask' = 1 /\ replayTask' = 0
  /\ UNCHANGED <<inbox, outbox, published, lastLive>>

TaskStep(k) == \/ LiveGets(k) \/ ReplayYields(k) \/ ReplayRaises(k)
               \/ Sent(k) \/ SendRaises(k) \/ CancelDelivered(k)

Handle == (\E len \in 0 .. MaxReplay : HandleReplay(len))
          \/ HandleLive \/ HandleBad \/ Disconnected

\* HandleBroken is for the client that can send such a command; the page cannot.
ServerNext == Publish \/ Handle \/ \E k \in Tids : TaskStep(k)

\* The bound on Publish reached with nothing in flight: the only way this
\* model stops; a session in any other state that cannot move is a deadlock.
AtRest ==
  /\ handler = "open" /\ conn = "up" /\ published = MaxLive
  /\ queue = <<>> /\ inbox = <<>> /\ outbox = <<>>
  /\ Cancelled = {} /\ \E k \in Running : tasks[k].pc = "get"
  /\ UNCHANGED serverVars

-----------------------------------------------------------------------------
(* Properties of the session, whatever the client sends. *)

\* Two tasks never race each other for the queue and the socket (the hazard
\* api.py run_replay's comment describes): at most one sender is not being
\* cancelled.
SingleSender == Cardinality(Running) <= 1

\* Every sender still running is one the handler can cancel: it is live_task or
\* replay_task.  A session that has ended has no sender left but those whose
\* cancellation is under way.
SendersReachable ==
  /\ Running \subseteq {liveTask, replayTask}
  /\ handler = "closed" => Running = {}

\* A connected client is never left without a sender ("should not be left
\* staring at a frozen view"): in every command order, with replays ending,
\* failing and being replaced.
AlwaysASender == handler = "open" /\ conn = "up" => Running # {}

\* The backlog is the newest messages published, without gaps: what a slow
\* client loses is always the oldest.
BacklogIsNewest ==
  handler = "open" =>
    \A i \in DOMAIN queue : queue[i] = published - Len(queue) + i

\* Live messages reach the client in the order of publication, each at most
\* once, across replays, cancellations and dropped messages.
LiveInOrder ==
  [][\A m \in {outbox'[i] : i \in DOMAIN outbox' \ DOMAIN outbox} :
       (Len(outbox') > Len(outbox) /\ m.kind = "live") => m.n > lastLive]_serverVars

=============================================================================
