---------------------------- MODULE WsAnyClient ----------------------------
(***************************************************************************)
(* The server session against a client that sends any command at any time, *)
(* reads when it likes and may drop the connection and come back: /ws is a *)
(* documented interface, and the web page is only one user of it.          *)
(***************************************************************************)
EXTENDS WsServer

CONSTANTS MaxCommands, \* bound: commands sent
          MaxLosses    \* bound: connections lost

ASSUME ClientAssumption == MaxCommands \in Nat /\ MaxLosses \in Nat

VARIABLES commands, \* commands sent so far
          losses    \* connections lost so far

vars == <<handler, conn, queue, tasks, liveTask, replayTask, inbox, outbox,
          published, lastLive, commands, losses>>
client == <<commands, losses>>

Init == ServerInit /\ commands = 0 /\ losses = 0

Sends(c) ==
  /\ conn = "up" /\ commands < MaxCommands
  /\ commands' = commands + 1
  /\ inbox' = Append(inbox, [cmd |-> c, n |-> commands'])
  /\ UNCHANGED <<session, outbox, published, lastLive, losses>>

Takes ==
  /\ outbox # <<>>
  /\ outbox' = Tail(outbox)
  /\ UNCHANGED <<session, inbox, published, lastLive, client>>

Drops ==
  /\ losses < MaxLosses /\ losses' = losses + 1
  /\ ConnectionLost /\ UNCHANGED commands

Reconnects == Accept /\ UNCHANGED client

Next == \/ (ServerNext \/ HandleBroken) /\ UNCHANGED client
        \/ \E c \in {"replay", "live", "bad", "broken"} : Sends(c)
        \/ Takes \/ Drops \/ Reconnects
        \/ AtRest /\ UNCHANGED client

Spec == Init /\ [][Next]_vars

\* The event loop runs every task that can step and the handler; the client
\* goes on reading.  Nothing obliges it to send or to come back.
Fairness == /\ WF_vars((Handle \/ HandleBroken) /\ UNCHANGED client)
            /\ \A k \in Tids : WF_vars(TaskStep(k) /\ UNCHANGED client)
            /\ WF_vars(Takes)

FairSpec == Spec /\ Fairness

\* A replay does not hold the session for ever: it gives way to live, to the
\* next command or to the end of the session, and a client that stops sending
\* ends up with live messages (api.py, run_replay).
LiveResumes ==
  handler = "open" /\ conn = "up" ~>
    \/ conn = "lost"
    \/ liveTask \in Running /\ replayTask \notin Running

\* After a disconnect the handler unsubscribes and every task it started ends
\* (api.py, the finally block).
SessionCleansUp ==
  conn = "lost" ~> handler = "closed" /\ \A k \in Tids : ~Alive(k)

=============================================================================
