-------------------------- MODULE WsSession_proofs --------------------------
(***************************************************************************)
(* The theorems about the web page and its server session together, for    *)
(* any number of clicks, any length of a replay and any size of the queue  *)
(* and the transport.                                                      *)
(***************************************************************************)
EXTENDS WsSession, WsServer_proofs

\* The command that reaches the handler last.
LastCommand == inbox[Len(inbox)]

\* A broken connection holds no command, a connection that has never broken has a
\* session, and live_task is never a replay.
LinkInv ==
  /\ conn = "lost" => inbox = <<>>
  /\ losses = 0 => conn = "up" /\ handler = "open"
  /\ liveTask \in Tids => tasks[liveTask].kind = "live"

\* What the user asked for last is played, or on its way to the handler.
WinsInv ==
  conn = "up" =>
    IF inbox = <<>>
      THEN \A k \in Running : tasks[k].kind = "replay" => tasks[k].n = viewing
      ELSE \/ LastCommand.cmd = "replay" /\ LastCommand.n = viewing
           \/ LastCommand.cmd = "live"

\* What ends a replay mode on the page.
Ends(m) == m.kind \in {"replay_end", "error"}

\* A page in replay mode has a replay to wait for: the command that starts it, its
\* task, or the message that ends it.
AgreeInv ==
  replaying /\ losses = 0 =>
    IF inbox = <<>>
      THEN \/ \E k \in Running : tasks[k].kind = "replay"
           \/ \E i \in DOMAIN outbox : Ends(outbox[i])
      ELSE LastCommand.cmd = "replay"

PageInv == TypeOK /\ RunInv /\ LinkInv /\ TrailClean /\ WinsInv /\ AgreeInv

-----------------------------------------------------------------------------
(* The page's steps are what a client may do to a session. *)

\* A click sends one command, or none on a connection that is down.
LEMMA SendArrives ==
  ASSUME NEW c \in {"replay", "live"}, NEW n \in Nat, Send(c, n),
         UNCHANGED <<session, outbox, published, lastLive>>
  PROVE  /\ Arrives
         /\ conn = "up" => inbox' = Append(inbox, [cmd |-> c, n |-> n])
         /\ conn # "up" => inbox' = inbox
<1> DEFINE new == [cmd |-> c, n |-> n]
<1>1. new \in Command /\ (inbox' = IF conn = "up" THEN Append(inbox, new) ELSE inbox)
  BY DEF Send, Command
<1> HIDE DEF new
<1>2. Arrives
  BY <1>1 DEF Arrives
<1> QED BY <1>1, <1>2 DEF new

\* Every step of the page and the network is one the server side allows.
LEMMA PageStep == TypeOK /\ [Next]_vars => SessionStep
<1> SUFFICES ASSUME TypeOK, [Next]_vars PROVE SessionStep
  OBVIOUS
<1>1. CASE Start \/ Jump
  <2>1. Ask /\ asked' \in Nat
    BY <1>1 DEF Start, Jump, Ask, TypeOK
  <2> QED BY <2>1, SendArrives DEF Ask, SessionStep
<1>2. CASE GoLive
  BY <1>2, SendArrives DEF GoLive, SessionStep
<1>3. CASE Deliver
  BY <1>3 DEF Deliver, Reads, SessionStep
<1>4. CASE UNCHANGED vars \/ (AtRest /\ UNCHANGED <<page, losses>>)
  BY <1>4 DEF vars, AtRest, serverVars, session, Arrives, SessionStep
<1>5. CASE Loses \/ Reconnects
  BY <1>5 DEF Loses, Reconnects, SessionStep
<1> QED BY <1>1, <1>2, <1>3, <1>4, <1>5 DEF Next, SessionStep

\* The page's own variables keep their types.
LEMMA PageType == TypeOK /\ [Next]_vars => TypeOK'
<1> SUFFICES ASSUME TypeOK, [Next]_vars PROVE TypeOK'
  OBVIOUS
<1>1. ServerTypeOK'
  BY PageStep, SessionType DEF TypeOK
<1>2. StoreTypeOK'
  <2>1. CASE UNCHANGED storeVars
    BY <2>1 DEF TypeOK, StoreTypeOK, storeVars
  <2>2. CASE ClearForReplay \/ ResumeLive
    BY <2>2 DEF StoreTypeOK, ClearForReplay, ResumeLive
  <2>3. CASE Deliver
    <3>1. Head(outbox) \in Message
      BY <2>3 DEF Deliver, TypeOK, ServerTypeOK
    <3>2. Head(outbox).n \in Nat
      BY <3>1 DEF Message
    <3>3. ApplyMessage(Head(outbox)) /\ replaying \in BOOLEAN
      BY <2>3 DEF Deliver, TypeOK, StoreTypeOK
    <3>3a. trail \subseteq Nat
      BY DEF TypeOK, StoreTypeOK
    <3>4. CASE ApplyPoints(Head(outbox))
      <4>1. trail' \subseteq Nat
        <5>1. CASE Head(outbox).kind = "live"
          BY <3>3a, <3>4, <5>1 DEF ApplyPoints, Live
        <5>2. CASE Head(outbox).kind # "live"
          <6>1. trail' = trail \cup {Head(outbox).n}
            BY <3>4, <5>2 DEF ApplyPoints
          <6> QED BY <3>2, <3>3a, <6>1
        <5> QED BY <5>1, <5>2
      <4>2. replaying' = replaying
        BY <3>4 DEF ApplyPoints
      <4> QED BY <3>3, <4>1, <4>2 DEF StoreTypeOK
    <3>5. CASE ApplyReplayEnd(Head(outbox)) \/ ApplyError(Head(outbox))
      BY <3>3, <3>3a, <3>5 DEF ApplyReplayEnd, ApplyError, StoreTypeOK
    <3> QED BY <2>1, <3>3, <3>4, <3>5 DEF ApplyMessage
  <2> QED BY <2>1, <2>2, <2>3
          DEF Next, Start, Jump, Ask, GoLive, Loses, Reconnects, vars, page, storeVars
<1>3. asked' \in 0 .. MaxAsked /\ viewing' \in 0 .. MaxAsked /\ losses' \in 0 .. MaxLosses
  <2>0. /\ asked \in Nat /\ viewing \in Nat /\ losses \in Nat /\ MaxAsked \in Nat
        /\ MaxLosses \in Nat /\ asked <= MaxAsked /\ viewing <= MaxAsked
        /\ losses <= MaxLosses
    BY PageAssumption DEF TypeOK
  <2>1. CASE asked < MaxAsked /\ asked' = asked + 1 /\ viewing' = asked' /\ losses' = losses
    BY <2>0, <2>1
  <2>2. CASE viewing' = 0 /\ UNCHANGED <<asked, losses>>
    BY <2>0, <2>2
  <2>3. CASE losses < MaxLosses /\ losses' = losses + 1 /\ UNCHANGED <<asked, viewing>>
    BY <2>0, <2>3
  <2>4. CASE UNCHANGED <<asked, viewing, losses>>
    BY <2>0, <2>4
  <2> QED BY <2>1, <2>2, <2>3, <2>4
          DEF Next, Start, Jump, Ask, GoLive, Deliver, Loses, Reconnects, vars, page, Live
<1>4. failed' \in BOOLEAN
  BY DEF TypeOK, Next, Start, Jump, Ask, GoLive, Deliver, Loses, Reconnects, vars, page
<1> QED BY <1>1, <1>2, <1>3, <1>4 DEF TypeOK

-----------------------------------------------------------------------------
(* What a step of the server does for the page. *)

\* The command the handler takes: the one before the rest, or the last one.
LEMMA Taken ==
  ASSUME ServerTypeOK, NEW c, Receives(c)
  PROVE  /\ Head(inbox) \in Command /\ Head(inbox).cmd = c
         /\ inbox # <<>> /\ inbox' = Tail(inbox)
         /\ inbox' # <<>> => LastCommand' = LastCommand
         /\ inbox' = <<>> => LastCommand = Head(inbox)
<1>1. inbox \in Seq(Command) /\ inbox # <<>> /\ inbox' = Tail(inbox) /\ Head(inbox).cmd = c
  BY DEF ServerTypeOK, Receives
<1>2. Len(inbox) \in Nat /\ Len(inbox) > 0 /\ Len(inbox') = Len(inbox) - 1
      /\ Head(inbox) = inbox[1] /\ Head(inbox) \in Command
  BY <1>1
<1>3. ASSUME inbox' # <<>> PROVE LastCommand' = LastCommand
  <2>1. Len(inbox') > 0
    BY <1>1, <1>3
  <2>2. Len(inbox) - 1 \in 1 .. Len(inbox) - 1
    BY <1>2, <2>1
  <2>3. Tail(inbox)[Len(inbox) - 1] = inbox[(Len(inbox) - 1) + 1]
    BY <1>1, <2>2
  <2>4. (Len(inbox) - 1) + 1 = Len(inbox)
    BY <1>2
  <2> QED BY <1>1, <1>2, <2>3, <2>4 DEF LastCommand
<1>4. ASSUME inbox' = <<>> PROVE LastCommand = Head(inbox)
  <2>1. Len(inbox) = 1
    BY <1>2, <1>4
  <2> QED BY <1>2, <2>1 DEF LastCommand
<1> QED BY <1>1, <1>2, <1>3, <1>4

\* A task that steps is what it was, or gives way to a live task.
LEMMA KindsKept ==
  ASSUME ServerTypeOK, NEW k \in Tids, TaskStep(k), NEW j \in Tids
  PROVE  \/ tasks'[j].kind = "live"
         \/ /\ tasks'[j].kind = tasks[j].kind /\ tasks'[j].n = tasks[j].n
            /\ j \in Running' => j \in Running
            /\ UNCHANGED liveTask \/ liveTask' # j
<1>0. tasks \in [Tids -> Task] /\ NoTask.kind = "live"
  BY DEF ServerTypeOK, NoTask
<1>1. CASE LiveGets(k) \/ ReplayRaises(k) \/ ReplayYields(k)
  <2>1. k \in Running /\ liveTask' = liveTask
    BY <1>1 DEF LiveGets, ReplayRaises, ReplayYields, Scheduled
  <2>2. tasks'[j].kind = tasks[j].kind /\ tasks'[j].n = tasks[j].n
    <3>1. ASSUME NEW m, Goes(k, "send", m) PROVE tasks'[j].kind = tasks[j].kind /\ tasks'[j].n = tasks[j].n
      BY <1>0, <3>1 DEF Goes, Task
    <3>2. CASE ReplayYields(k)
      BY <1>0, <3>2 DEF ReplayYields, Task
    <3> QED BY <1>1, <3>1, <3>2 DEF LiveGets, ReplayRaises
  <2>3. \/ j = k \/ tasks'[j] = tasks[j]
    BY <1>0, <1>1 DEF LiveGets, ReplayRaises, ReplayYields, Goes
  <2> QED BY <2>1, <2>2, <2>3 DEF Running, Alive
<1>2. CASE FallBack(k)
  <2>1. \/ j \in {k, Slot} /\ tasks'[j].kind = "live"
        \/ j # Slot /\ tasks'[j] = tasks[j]
    BY <1>0, <1>2, FallBackType, NewTasks
  <2>2. liveTask' = Slot
    BY <1>2, FallBackType
  <2> QED BY <2>1, <2>2 DEF Running, Alive
<1>3. CASE tasks' = [tasks EXCEPT ![k] = NoTask] /\ UNCHANGED liveTask
  <2>1. tasks'[j] = tasks[j] \/ tasks'[j].kind = "live"
    BY <1>0, <1>3
  <2> QED BY <1>3, <2>1 DEF Running, Alive
<1>4. ASSUME NEW pc \in {"get", "play", "send"}, NEW m, Goes(k, pc, m), k \in Running,
             UNCHANGED liveTask
      PROVE  /\ tasks'[j].kind = tasks[j].kind /\ tasks'[j].n = tasks[j].n
             /\ j \in Running' => j \in Running
  BY <1>0, <1>4 DEF Goes, Task, Running, Alive
<1>5. CASE Sent(k) \/ SendRaises(k)
  <2>1. k \in Running
    BY <1>5 DEF Sent, SendRaises, Scheduled
  <2> QED BY <1>2, <1>3, <1>4, <1>5, <2>1 DEF Sent, SendRaises
<1> QED BY <1>1, <1>3, <1>5 DEF TaskStep, CancelDelivered

\* A replay goes on, or what ends it is on its way to the page.
LEMMA ReplayGoesOn ==
  ASSUME ServerTypeOK, NEW k \in Tids, TaskStep(k), conn = "up",
         NEW j \in Running, tasks[j].kind = "replay"
  PROVE  \/ j \in Running' /\ tasks'[j].kind = "replay"
         \/ \E i \in DOMAIN outbox' : Ends(outbox'[i])
<1>0. /\ tasks \in [Tids -> Task] /\ outbox \in Seq(Message) /\ j \in Tids
      /\ Alive(j) /\ ~tasks[j].cancelled
  BY DEF ServerTypeOK, Running
<1>1. CASE j # k /\ tasks'[j] = tasks[j]
  BY <1>0, <1>1 DEF Running, Alive
<1>2. ASSUME NEW pc \in {"get", "play", "send"}, NEW m, Goes(k, pc, m)
      PROVE  j \in Running' /\ tasks'[j].kind = "replay"
  BY <1>0, <1>2 DEF Goes, Task, Running, Alive
<1>3. CASE LiveGets(k) \/ ReplayRaises(k)
  BY <1>2, <1>3 DEF LiveGets, ReplayRaises
<1>4. CASE ReplayYields(k)
  BY <1>0, <1>4 DEF ReplayYields, Task, Running, Alive
<1>5. CASE Sent(k)
  <2>1. CASE tasks[k].msg.kind \in {"replay_end", "error"}
    <3>1. outbox' = Append(outbox, tasks[k].msg)
      BY <1>5 DEF Sent, Write
    <3>2. Len(outbox) + 1 \in DOMAIN outbox' /\ outbox'[Len(outbox) + 1] = tasks[k].msg
      BY <1>0, <3>1
    <3> QED BY <2>1, <3>2 DEF Ends
  <2>2. CASE tasks[k].msg.kind \notin {"replay_end", "error"}
    BY <1>2, <1>5, <2>2 DEF Sent
  <2> QED BY <2>1, <2>2
<1>6. CASE CancelDelivered(k)
  <2>1. j # k
    BY <1>6 DEF CancelDelivered, Cancelled, Running
  <2> QED BY <1>0, <1>1, <1>6, <2>1 DEF CancelDelivered
<1>7. ~SendRaises(k)
  BY DEF SendRaises
<1> QED BY <1>3, <1>4, <1>5, <1>6, <1>7 DEF TaskStep

\* A sender writes behind what is on its way already.
LEMMA OutboxGrows ==
  ASSUME ServerTypeOK, NEW m, Write(m) \/ outbox' = outbox
  PROVE  \A i \in DOMAIN outbox : i \in DOMAIN outbox' /\ outbox'[i] = outbox[i]
<1>1. outbox \in Seq(Message)
  BY DEF ServerTypeOK
<1> QED BY <1>1 DEF Write

\* Which tasks run once the handler has acted on a command.
LEMMA AfterCommand ==
  ASSUME ServerTypeOK, RunInv, LinkInv, Handle, conn = "up"
  PROVE  \/ /\ Receives("replay") /\ UNCHANGED outbox
            /\ \E k \in Running' : tasks'[k].kind = "replay"
            /\ \A k \in Running' : tasks'[k].n = Head(inbox).n
         \/ /\ Receives("live") /\ UNCHANGED outbox
            /\ \A k \in Running' : tasks'[k].kind = "live"
         \/ Receives("bad") /\ Write(Error) /\ UNCHANGED <<tasks, liveTask>>
<1>0. /\ tasks \in [Tids -> Task] /\ 0 \notin Tids
      /\ RunInv'
      /\ \A refs : /\ WithCancelled(refs) \in [Tids -> Task]
                   /\ \A k \in Tids : WithCancelled(refs)[k].kind = tasks[k].kind
  BY HandleRuns, CancelTasks, TaskAssumption DEF ServerTypeOK, Tids
<1>1. ASSUME NEW len \in 0 .. MaxReplay, HandleReplay(len)
      PROVE  /\ Receives("replay") /\ UNCHANGED outbox
             /\ \E k \in Running' : tasks'[k].kind = "replay"
             /\ \A k \in Running' : tasks'[k].n = Head(inbox).n
  <2> DEFINE new == NewReplay(Head(inbox).n, len)
  <2>1. Slot \in Tids /\ new.kind = "replay" /\ new.n = Head(inbox).n
    BY <1>1, SlotIsFree DEF HandleReplay, FreeSlots, NewReplay, NoTask
  <2>2. tasks' = [WithCancelled({liveTask, replayTask}) EXCEPT ![Slot] = new]
        /\ liveTask' = 0 /\ replayTask' = Slot /\ Receives("replay") /\ UNCHANGED outbox
        /\ handler' = "open" /\ conn' = "up"
    BY <1>1 DEF HandleReplay, Receives
  <2> HIDE DEF new
  <2>3. tasks'[Slot] = new
    BY <1>0, <2>1, <2>2
  <2>4. Running' \subseteq {Slot} /\ Running' # {}
    <3>1. Running' \subseteq {liveTask', replayTask'} /\ Running' # {}
      BY <1>0, <2>2 DEF RunInv, SendersReachable, AlwaysASender
    <3> QED BY <1>0, <2>2, <3>1 DEF Running
  <2> QED BY <2>1, <2>2, <2>3, <2>4
<1>2. ASSUME HandleLive
      PROVE  /\ Receives("live") /\ UNCHANGED outbox
             /\ \A k \in Running' : tasks'[k].kind = "live"
  <2>1. Slot \in Tids /\ NewLive.kind = "live" /\ Slot \notin {liveTask, replayTask}
    BY <1>2, SlotIsFree, NewTasks DEF HandleLive, FreeSlots
  <2>2. \A k \in Running' : k \in Tids /\ k = liveTask'
    <3>1. Running' \subseteq {liveTask', 0}
      BY <1>0, <1>2 DEF HandleLive, RunInv, SendersReachable
    <3> QED BY <1>0, <3>1 DEF Running
  <2>3. CASE liveTask' = Slot /\ tasks' = [WithCancelled({replayTask}) EXCEPT ![Slot] = NewLive]
    <3>1. tasks'[Slot] = NewLive
      BY <1>0, <2>1, <2>3
    <3> QED BY <1>2, <2>1, <2>2, <2>3, <3>1 DEF HandleLive
  <2>4. CASE liveTask' = liveTask /\ tasks' = WithCancelled({replayTask})
    BY <1>0, <1>2, <2>2, <2>4 DEF HandleLive, LinkInv
  <2> QED BY <1>2, <2>3, <2>4 DEF HandleLive
<1>3. CASE HandleBad
  BY <1>3 DEF HandleBad, session
<1>4. ~Disconnected
  BY DEF Disconnected
<1> QED BY <1>1, <1>2, <1>3, <1>4 DEF Handle

-----------------------------------------------------------------------------
(* The page's invariant, one part at a time. *)

\* live_task is never a replay, and the connection's state is what the page's
\* history says.
LEMMA LinkStep == TypeOK /\ RunInv /\ LinkInv /\ [Next]_vars => LinkInv'
<1> SUFFICES ASSUME TypeOK, RunInv, LinkInv, [Next]_vars PROVE LinkInv'
  OBVIOUS
<1>0. ServerTypeOK /\ tasks \in [Tids -> Task] /\ losses \in Nat /\ 0 \notin Tids
  BY PageAssumption DEF TypeOK, ServerTypeOK, Tids
<1>1. ASSUME NEW k \in Tids, TaskStep(k), UNCHANGED losses PROVE LinkInv'
  <2>1. liveTask' \in Tids => tasks'[liveTask'].kind = "live"
    <3>1. CASE liveTask' = liveTask
      BY <1>0, <1>1, <3>1, KindsKept DEF LinkInv
    <3>2. CASE liveTask' # liveTask
      <4>1. FallBack(k)
        BY <1>1, <3>2 DEF TaskStep, LiveGets, ReplayYields, ReplayRaises, Sent, SendRaises,
           CancelDelivered
      <4> QED BY <1>0, <4>1, FallBackType, NewTasks
    <3> QED BY <3>1, <3>2
  <2>2. UNCHANGED <<conn, handler, inbox>>
    BY <1>1 DEF TaskStep, LiveGets, ReplayYields, ReplayRaises, Sent, SendRaises, CancelDelivered
  <2> QED BY <1>1, <2>1, <2>2 DEF LinkInv
<1>2. ASSUME Handle, UNCHANGED losses PROVE LinkInv'
  <2>1. \A refs : /\ WithCancelled(refs) \in [Tids -> Task]
                  /\ \A k \in Tids : WithCancelled(refs)[k].kind = tasks[k].kind
    BY <1>0, CancelTasks
  <2>2. ASSUME NEW len \in 0 .. MaxReplay, HandleReplay(len) PROVE LinkInv'
    <3>1. liveTask' = 0 /\ conn' = "up" /\ handler' = "open"
      BY <2>2 DEF HandleReplay, Receives
    <3> QED BY <1>0, <1>2, <3>1 DEF LinkInv
  <2>3. CASE HandleLive
    <3>1. conn' = "up" /\ handler' = "open"
      BY <2>3 DEF HandleLive, Receives
    <3>2. Slot \in Tids
      BY <2>3, SlotIsFree DEF HandleLive, FreeSlots
    <3>3. CASE liveTask' = Slot /\ tasks' = [WithCancelled({replayTask}) EXCEPT ![Slot] = NewLive]
      BY <2>1, <3>1, <3>2, <3>3, NewTasks DEF LinkInv
    <3>4. CASE liveTask' = liveTask /\ tasks' = WithCancelled({replayTask})
      BY <2>1, <3>1, <3>4 DEF LinkInv
    <3> QED BY <2>3, <3>3, <3>4 DEF HandleLive
  <2>4. CASE HandleBad
    BY <1>2, <2>4 DEF HandleBad, session, Receives, LinkInv
  <2>5. CASE Disconnected
    BY <1>2, <2>1, <2>5 DEF Disconnected, LinkInv
  <2> QED BY <1>2, <2>2, <2>3, <2>4, <2>5 DEF Handle
<1>3. CASE Publish /\ UNCHANGED losses
  BY <1>3 DEF Publish, LinkInv
<1>4. CASE Start \/ Jump \/ GoLive
  BY <1>4 DEF Start, Jump, Ask, GoLive, Send, session, LinkInv
<1>5. CASE Deliver \/ UNCHANGED vars \/ (AtRest /\ UNCHANGED <<page, losses>>)
  BY <1>5 DEF Deliver, vars, AtRest, serverVars, session, LinkInv
<1>6. CASE Loses
  BY <1>0, <1>6 DEF Loses, ConnectionLost, LinkInv
<1>7. CASE Reconnects
  <2>1. /\ liveTask' = 1 /\ conn' = "up" /\ handler' = "open"
        /\ \A k \in Tids : tasks'[k] = IF k = 1 THEN NewLive ELSE NoTask
    BY <1>7 DEF Reconnects, Accept, FirstTasks
  <2> QED BY <2>1, NewTasks DEF LinkInv
<1> QED BY <1>1, <1>2, <1>3, <1>4, <1>5, <1>6, <1>7 DEF Next, ServerNext

\* The map: a replay point is only taken in replay mode, and every way out of it
\* but an error clears the map.
LEMMA TrailStep == TrailClean /\ [Next]_vars => TrailClean'
<1> SUFFICES ASSUME TrailClean, [Next]_vars PROVE TrailClean'
  OBVIOUS
<1>1. CASE Deliver
  <2> DEFINE m == Head(outbox)
  <2>1. ApplyMessage(m) /\ failed' = (failed \/ (replaying /\ m.kind = "error"))
    BY <1>1 DEF Deliver
  <2> HIDE DEF m
  <2>2. CASE UNCHANGED storeVars
    BY <2>1, <2>2 DEF storeVars, TrailClean
  <2>3. CASE ApplyPoints(m) /\ ~Discards(m)
    BY <2>1, <2>3 DEF ApplyPoints, Discards, IsReplay, TrailClean
  <2>4. CASE ApplyReplayEnd(m)
    BY <2>4 DEF ApplyReplayEnd, TrailClean
  <2>5. CASE ApplyError(m)
    BY <2>1, <2>5 DEF ApplyError, TrailClean
  <2> QED BY <2>1, <2>2, <2>3, <2>4, <2>5 DEF ApplyMessage
<1>2. CASE Start \/ Jump \/ GoLive
  BY <1>2 DEF Start, Jump, Ask, GoLive, ClearForReplay, ResumeLive, TrailClean
<1>3. CASE UNCHANGED page
  BY <1>3 DEF page, TrailClean
<1> QED BY <1>1, <1>2, <1>3 DEF Next, Loses, Reconnects, vars, page

\* What the page's steps leave of the server: the click's command comes last.
LEMMA ClickLast ==
  ASSUME ServerTypeOK, NEW new \in Command, inbox' = Append(inbox, new)
  PROVE  inbox' # <<>> /\ LastCommand' = new
<1>1. inbox \in Seq(Command) /\ Len(inbox) \in Nat
  BY DEF ServerTypeOK
<1> QED BY <1>1 DEF LastCommand

\* The three clicks, as the server sees them.
LEMMA Clicks ==
  ASSUME TypeOK, LinkInv, Start \/ Jump \/ GoLive
  PROVE  /\ UNCHANGED <<session, outbox, published, lastLive, losses>>
         /\ conn = "up" => \/ /\ inbox' # <<>> /\ LastCommand'.cmd = "replay"
                              /\ LastCommand'.n = viewing' /\ replaying'
                           \/ /\ inbox' # <<>> /\ LastCommand'.cmd = "live"
                              /\ ~replaying'
         /\ conn # "up" => inbox' = inbox
<1>1. CASE Ask
  <2> DEFINE new == [cmd |-> "replay", n |-> asked']
  <2>1. asked' \in Nat /\ viewing' = asked' /\ replaying' = TRUE
    BY <1>1 DEF Ask, TypeOK, ClearForReplay
  <2>2. new \in Command /\ new.cmd = "replay" /\ new.n = asked'
    BY <2>1 DEF Command
  <2>3. inbox' = (IF conn = "up" THEN Append(inbox, new) ELSE inbox)
        /\ UNCHANGED <<session, outbox, published, lastLive, losses>>
    BY <1>1 DEF Ask, Send
  <2> HIDE DEF new
  <2> QED BY <2>1, <2>2, <2>3, ClickLast DEF TypeOK
<1>2. CASE GoLive
  <2> DEFINE new == [cmd |-> "live", n |-> 0]
  <2>1. new \in Command /\ new.cmd = "live"
    BY DEF Command
  <2>2. inbox' = (IF conn = "up" THEN Append(inbox, new) ELSE inbox)
        /\ UNCHANGED <<session, outbox, published, lastLive, losses>> /\ replaying' = FALSE
    BY <1>2 DEF GoLive, Send, ResumeLive
  <2> HIDE DEF new
  <2> QED BY <2>1, <2>2, ClickLast DEF TypeOK
<1> QED BY <1>1, <1>2 DEF Start, Jump

\* The handler plays what was asked for last, or has still to read it.
LEMMA WinsStep == TypeOK /\ RunInv /\ LinkInv /\ WinsInv /\ [Next]_vars => WinsInv'
<1> SUFFICES ASSUME TypeOK, RunInv, LinkInv, WinsInv, [Next]_vars PROVE WinsInv'
  OBVIOUS
<1>0. ServerTypeOK
  BY DEF TypeOK
<1>1. ASSUME NEW k \in Tids, TaskStep(k), UNCHANGED viewing PROVE WinsInv'
  <2>1. UNCHANGED <<conn, inbox>>
    BY <1>1 DEF TaskStep, LiveGets, ReplayYields, ReplayRaises, Sent, SendRaises, CancelDelivered
  <2>2. ASSUME NEW j \in Running', tasks'[j].kind = "replay"
        PROVE  j \in Running /\ tasks[j].kind = "replay" /\ tasks'[j].n = tasks[j].n
    BY <1>0, <1>1, <2>2, KindsKept DEF Running
  <2> QED BY <1>1, <2>1, <2>2 DEF WinsInv, LastCommand
<1>2. ASSUME Handle, UNCHANGED viewing PROVE WinsInv'
  <2>1. CASE conn = "lost"
    <3>1. conn' = "lost"
      BY <1>2, <2>1 DEF Handle, HandleReplay, HandleLive, HandleBad, Disconnected, Receives
    <3> QED BY <3>1 DEF WinsInv
  <2>2. CASE conn = "up"
    <3>0. PICK c \in {"replay", "live", "bad"} : Receives(c)
      BY <1>0, <1>2, <2>2, AfterCommand
    <3>1. CASE inbox' # <<>>
      <4>1. inbox # <<>> /\ LastCommand' = LastCommand
        BY <1>0, <3>0, <3>1, Taken
      <4> QED BY <1>2, <2>2, <3>1, <4>1 DEF WinsInv
    <3>2. CASE inbox' = <<>>
      <4>1. LastCommand = Head(inbox) /\ inbox # <<>> /\ Head(inbox).cmd = c
        BY <1>0, <3>0, <3>2, Taken
      <4>2. CASE c = "replay"
        <5>1. \A k \in Running' : tasks'[k].n = Head(inbox).n
          BY <1>0, <1>2, <2>2, <3>0, <4>1, <4>2, AfterCommand DEF Receives
        <5> QED BY <1>2, <2>2, <3>2, <4>1, <4>2, <5>1 DEF WinsInv
      <4>3. CASE c = "live"
        <5>1. \A k \in Running' : tasks'[k].kind = "live"
          BY <1>0, <1>2, <2>2, <3>0, <4>1, <4>3, AfterCommand DEF Receives
        <5> QED BY <3>2, <5>1 DEF WinsInv
      <4>4. c # "bad"
        BY <2>2, <4>1 DEF WinsInv
      <4> QED BY <4>2, <4>3, <4>4
    <3> QED BY <3>1, <3>2
  <2> QED BY <1>0, <2>1, <2>2 DEF ServerTypeOK
<1>3. CASE Publish /\ UNCHANGED viewing
  BY <1>3 DEF Publish, WinsInv, LastCommand, Running, Alive
<1>4. CASE Start \/ Jump \/ GoLive
  <2>1. UNCHANGED conn
    BY <1>4, Clicks DEF session
  <2> QED BY <1>4, <2>1, Clicks DEF WinsInv
<1>5. CASE Deliver \/ UNCHANGED vars \/ (AtRest /\ UNCHANGED <<page, losses>>)
  BY <1>5 DEF Deliver, vars, AtRest, serverVars, session, page, WinsInv, LastCommand, Running, Alive
<1>6. CASE Loses
  BY <1>6 DEF Loses, ConnectionLost, WinsInv
<1>7. CASE Reconnects
  <2>1. /\ inbox' = <<>>
        /\ \A k \in Tids : tasks'[k] = IF k = 1 THEN NewLive ELSE NoTask
    BY <1>7 DEF Reconnects, Accept, FirstTasks, LinkInv
  <2> QED BY <2>1, NewTasks DEF WinsInv, Running, NoTask
<1> QED BY <1>1, <1>2, <1>3, <1>4, <1>5, <1>6, <1>7 DEF Next, ServerNext, page

\* What ends a replay stays on its way until the page takes it.
LEMMA EndStays ==
  ASSUME ServerTypeOK, NEW m, Write(m) \/ outbox' = outbox,
         \E i \in DOMAIN outbox : Ends(outbox[i])
  PROVE  \E i \in DOMAIN outbox' : Ends(outbox'[i])
  BY OutboxGrows

\* The page takes one message; another one that ends a replay is still there.
LEMMA EndTaken ==
  ASSUME ServerTypeOK, outbox # <<>>, outbox' = Tail(outbox), ~Ends(Head(outbox)),
         \E i \in DOMAIN outbox : Ends(outbox[i])
  PROVE  \E i \in DOMAIN outbox' : Ends(outbox'[i])
<1>1. outbox \in Seq(Message) /\ DOMAIN outbox = 1 .. Len(outbox) /\ Len(outbox) \in Nat
  BY DEF ServerTypeOK
<1>2. PICK i \in DOMAIN outbox : Ends(outbox[i])
  OBVIOUS
<1>3. i # 1
  BY <1>1, <1>2
<1>4. i - 1 \in DOMAIN outbox' /\ outbox'[i - 1] = outbox[(i - 1) + 1] /\ (i - 1) + 1 = i
  BY <1>1, <1>3
<1> QED BY <1>2, <1>4

\* A page in replay mode keeps having a replay to wait for.
LEMMA AgreeStep ==
  TypeOK /\ RunInv /\ LinkInv /\ AgreeInv /\ [Next]_vars => AgreeInv'
<1> SUFFICES ASSUME TypeOK, RunInv, LinkInv, AgreeInv, [Next]_vars, losses' = 0, replaying'
             PROVE  IF inbox' = <<>>
                      THEN \/ \E k \in Running' : tasks'[k].kind = "replay"
                           \/ \E i \in DOMAIN outbox' : Ends(outbox'[i])
                      ELSE LastCommand'.cmd = "replay"
  BY DEF AgreeInv
<1> DEFINE Goal == IF inbox' = <<>>
                     THEN \/ \E k \in Running' : tasks'[k].kind = "replay"
                          \/ \E i \in DOMAIN outbox' : Ends(outbox'[i])
                     ELSE LastCommand'.cmd = "replay"
<1>0. ServerTypeOK
  BY DEF TypeOK
<1>n. losses \in Nat
  BY PageAssumption DEF TypeOK
<1>a. losses = 0
  <2>1. CASE Loses
    BY <1>n, <2>1 DEF Loses
  <2>2. CASE ServerNext /\ UNCHANGED <<page, losses>>
    BY <2>2
  <2>3. CASE Start \/ Jump \/ GoLive
    BY <2>3 DEF Start, Jump, Ask, GoLive
  <2>4. CASE Deliver
    BY <2>4 DEF Deliver
  <2>5. CASE Reconnects \/ (AtRest /\ UNCHANGED <<page, losses>>) \/ UNCHANGED vars
    BY <2>5 DEF Reconnects, vars
  <2> QED BY <2>1, <2>2, <2>3, <2>4, <2>5 DEF Next
<1>b. conn = "up" /\ handler = "open"
  BY <1>a DEF LinkInv
<1>1. ASSUME NEW k \in Tids, TaskStep(k), UNCHANGED replaying PROVE Goal
  <2>1. UNCHANGED inbox
    BY <1>1 DEF TaskStep, LiveGets, ReplayYields, ReplayRaises, Sent, SendRaises, CancelDelivered
  <2>2. Write(tasks[k].msg) \/ outbox' = outbox
    BY <1>1 DEF TaskStep, LiveGets, ReplayYields, ReplayRaises, Sent, SendRaises, CancelDelivered
  <2>3. CASE inbox = <<>>
    <3>1. CASE \E j \in Running : tasks[j].kind = "replay"
      BY <1>0, <1>1, <1>b, <2>1, <2>3, <3>1, ReplayGoesOn
    <3>2. CASE \E i \in DOMAIN outbox : Ends(outbox[i])
      BY <1>0, <2>1, <2>2, <2>3, <3>2, EndStays
    <3> QED BY <1>1, <1>a, <2>3, <3>1, <3>2 DEF AgreeInv
  <2>4. CASE inbox # <<>>
    BY <1>1, <1>a, <2>1, <2>4 DEF AgreeInv, LastCommand
  <2> QED BY <2>3, <2>4
<1>2. ASSUME Handle, UNCHANGED replaying PROVE Goal
  <2>0. PICK c \in {"replay", "live", "bad"} : Receives(c)
    BY <1>0, <1>2, <1>b, AfterCommand
  <2>1. inbox # <<>> /\ LastCommand.cmd = "replay"
    BY <1>0, <1>2, <1>a, <2>0, Taken DEF AgreeInv
  <2>2. CASE inbox' # <<>>
    BY <1>0, <2>0, <2>1, <2>2, Taken
  <2>3. CASE inbox' = <<>>
    <3>1. c = "replay"
      BY <1>0, <2>0, <2>1, <2>3, Taken
    <3>2. \E k \in Running' : tasks'[k].kind = "replay"
      BY <1>0, <1>2, <1>b, <2>0, <3>1, AfterCommand DEF Receives
    <3> QED BY <2>3, <3>2
  <2> QED BY <2>2, <2>3
<1>3. CASE Publish /\ UNCHANGED replaying
  BY <1>3, <1>a DEF Publish, AgreeInv, LastCommand, Running, Alive
<1>4. CASE Start \/ Jump \/ GoLive
  BY <1>4, <1>b, Clicks
<1>5. CASE Deliver
  <2>1. /\ outbox # <<>> /\ outbox' = Tail(outbox) /\ ApplyMessage(Head(outbox))
        /\ UNCHANGED <<inbox, tasks>>
    BY <1>5 DEF Deliver, session
  <2>2. replaying /\ ~Ends(Head(outbox))
    <3>1. CASE UNCHANGED storeVars /\ Discards(Head(outbox))
      BY <3>1 DEF storeVars, Discards
    <3>2. CASE ApplyPoints(Head(outbox))
      BY <3>2 DEF ApplyPoints, Ends
    <3> QED BY <2>1, <3>1, <3>2 DEF ApplyMessage, ApplyReplayEnd, ApplyError
  <2>3. (\E i \in DOMAIN outbox : Ends(outbox[i])) => \E i \in DOMAIN outbox' : Ends(outbox'[i])
    BY <1>0, <2>1, <2>2, EndTaken
  <2> QED BY <1>a, <2>1, <2>2, <2>3 DEF AgreeInv, LastCommand, Running, Alive
<1>6. CASE UNCHANGED vars \/ (AtRest /\ UNCHANGED <<page, losses>>)
  BY <1>6, <1>a DEF vars, AtRest, serverVars, session, page, AgreeInv, LastCommand, Running, Alive
<1>7. ~Loses /\ ~Reconnects
  BY <1>a, <1>b DEF Loses, Reconnects, Accept
<1> QED BY <1>1, <1>2, <1>3, <1>4, <1>5, <1>6, <1>7 DEF Next, ServerNext, page

-----------------------------------------------------------------------------
(* The theorems. *)

\* Every behaviour starts in the invariant: live mode, an empty map, no command.
LEMMA PageInit == Init => PageInv
<1> SUFFICES ASSUME Init PROVE PageInv
  OBVIOUS
<1>1. ServerInit /\ StoreInit /\ asked = 0 /\ viewing = Live /\ failed = FALSE /\ losses = 0
  BY DEF Init
<1>2. TypeOK
  <2>1. asked \in 0 .. MaxAsked /\ viewing \in 0 .. MaxAsked /\ losses \in 0 .. MaxLosses
    BY <1>1, PageAssumption DEF Live
  <2>2. failed \in BOOLEAN /\ StoreTypeOK
    BY <1>1 DEF StoreInit, StoreTypeOK
  <2>3. ServerTypeOK
    BY <1>1, InitType
  <2> QED BY <2>1, <2>2, <2>3 DEF TypeOK
<1>3. /\ handler = "open" /\ conn = "up" /\ inbox = <<>> /\ liveTask = 1
      /\ \A k \in Tids : tasks[k] = IF k = 1 THEN NewLive ELSE NoTask
  <2>1. /\ handler = "open" /\ conn = "up" /\ inbox = <<>> /\ liveTask = 1
        /\ tasks = FirstTasks
    BY <1>1 DEF ServerInit
  <2> QED BY <2>1 DEF FirstTasks
<1>4. LinkInv /\ WinsInv
  <2>1. NoTask.kind = "live" /\ NewLive.kind = "live"
    BY NewTasks DEF NoTask
  <2>2. \A k \in Tids : tasks[k].kind = "live"
    BY <1>3, <2>1
  <2> QED BY <1>1, <1>3, <2>2 DEF LinkInv, WinsInv, Running
<1>5. TrailClean /\ AgreeInv
  BY <1>1 DEF StoreInit, TrailClean, AgreeInv
<1> QED BY <1>1, <1>2, <1>4, <1>5, InitRuns DEF PageInv

\* Page and session keep the invariant at every step.
THEOREM PageInvariance == Spec => []PageInv
<1>1. PageInv /\ [Next]_vars => PageInv'
  <2> SUFFICES ASSUME PageInv, [Next]_vars PROVE PageInv'
    OBVIOUS
  <2>1. RunInv'
    BY PageStep, SessionRuns DEF PageInv, TypeOK
  <2> QED BY <2>1, PageType, LinkStep, TrailStep, WinsStep, AgreeStep DEF PageInv
<1> QED BY <1>1, PageInit, PTL DEF Spec

\* The state of the page and of the session has its types (store.js, api.py ws()).
THEOREM TypeCorrect == Spec => []TypeOK
  BY PageInvariance, PTL DEF PageInv

\* In live mode the map shows no point of a replay unless an error ended it, for
\* any number of replays and however late their messages are (store.js).
THEOREM CleanTrail == Spec => []TrailClean
  BY PageInvariance, PTL DEF PageInv

\* The server plays no replay but the last one asked for, for any number of
\* clicks, whichever replays end, fail or are replaced meanwhile (api.py, ws()).
THEOREM LastOneWins == Spec => []LastCommandWins
<1>1. PageInv => LastCommandWins
  BY DEF PageInv, WinsInv, LastCommandWins
<1> QED BY <1>1, PageInvariance, PTL

\* Page and server agree on the mode whenever nothing is under way: a page in
\* replay mode always has a command, a task or a message that leads it out.
THEOREM ModesAgree == Spec => []SettledAgree
<1>1. PageInv => SettledAgree
  <2> SUFFICES ASSUME PageInv, Settled, losses = 0, replaying PROVE FALSE
    BY DEF SettledAgree
  <2>1. inbox = <<>> /\ outbox = <<>> /\ Running \subseteq {liveTask}
    BY DEF Settled
  <2>2. PICK k \in Running : tasks[k].kind = "replay"
    BY <2>1 DEF PageInv, AgreeInv
  <2>3. liveTask \in Tids /\ k = liveTask
    BY <2>1, <2>2 DEF Running
  <2> QED BY <2>2, <2>3 DEF PageInv, LinkInv
<1> QED BY <1>1, PageInvariance, PTL

\* The session's own promises hold under the page as under any client: one sender,
\* which the handler can cancel, and never none while the page is connected.
THEOREM PageDiscipline ==
  Spec => []SingleSender /\ []SendersReachable /\ []AlwaysASender
<1>1. PageInv => SingleSender /\ SendersReachable /\ AlwaysASender
  BY OneRunsSingle DEF PageInv, RunInv
<1> QED BY <1>1, PageInvariance, PTL

=============================================================================
