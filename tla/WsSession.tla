----------------------------- MODULE WsSession -----------------------------
(***************************************************************************)
(* The web page and the server session together: the user's clicks         *)
(* (replaybar.js, eventlist.js), the WebSocket client (ws.js), the store   *)
(* (WebStore) and the session (WsServer), joined by two FIFO channels, the *)
(* WebSocket's two directions, that may break and come back.               *)
(***************************************************************************)
EXTENDS WsServer, WebStore

CONSTANTS MaxAsked, \* bound: replays the user asks for
          MaxLosses \* bound: connections lost

ASSUME PageAssumption == MaxAsked \in Nat /\ MaxLosses \in Nat

VARIABLES asked,   \* the number of the last replay the user asked for
          viewing, \* history: the replay the user wants to see, Live for none
          failed,  \* history: an error has ended replay mode, and nothing
                   \* has cleared the map since
          losses   \* connections lost so far

page == <<replaying, trail, asked, viewing, failed>>
vars == <<handler, conn, queue, tasks, liveTask, replayTask, inbox, outbox,
          published, lastLive, replaying, trail, asked, viewing,
          failed, losses>>

TypeOK == /\ ServerTypeOK /\ StoreTypeOK
          /\ asked \in 0 .. MaxAsked /\ viewing \in 0 .. MaxAsked
          /\ failed \in BOOLEAN /\ losses \in 0 .. MaxLosses

Init == ServerInit /\ StoreInit /\ asked = 0 /\ viewing = Live
        /\ failed = FALSE /\ losses = 0

-----------------------------------------------------------------------------
\* ws.js _send: nothing at all unless the socket is open
Send(c, n) ==
  inbox' = IF conn = "up" THEN Append(inbox, [cmd |-> c, n |-> n]) ELSE inbox

Ask ==
  /\ asked < MaxAsked /\ asked' = asked + 1
  /\ viewing' = asked' /\ failed' = FALSE
  /\ ClearForReplay
  /\ Send("replay", asked')
  /\ UNCHANGED <<session, outbox, published, lastLive, losses>>

\* the replay bar's start button, disabled while replaying
Start == ~replaying /\ Ask

\* a click on an event in the list, possible in either mode
Jump == Ask

\* the replay bar's live button, enabled while replaying
GoLive ==
  /\ replaying
  /\ viewing' = Live /\ failed' = FALSE
  /\ Send("live", 0)
  /\ ResumeLive
  /\ UNCHANGED <<session, outbox, published, lastLive, asked, losses>>

\* ws.onmessage
Deliver ==
  /\ outbox # <<>>
  /\ outbox' = Tail(outbox)
  /\ ApplyMessage(Head(outbox))
  /\ failed' = (failed \/ (replaying /\ Head(outbox).kind = "error"))
  /\ UNCHANGED <<session, inbox, published, lastLive, asked, viewing, losses>>

\* ws.onclose and, after the backoff, connect(): the store keeps its mode
Loses ==
  /\ losses < MaxLosses /\ losses' = losses + 1
  /\ ConnectionLost /\ UNCHANGED page

Reconnects == Accept /\ UNCHANGED <<page, losses>>

Next ==
  \/ ServerNext /\ UNCHANGED <<page, losses>>
  \/ Start \/ Jump \/ GoLive
  \/ Deliver \/ Loses \/ Reconnects
  \/ AtRest /\ UNCHANGED <<page, losses>>

Spec == Init /\ [][Next]_vars

\* The event loop and the browser run what can run, and ws.js reconnects; the
\* user need not do anything.
Fairness == /\ WF_vars(Handle /\ UNCHANGED <<page, losses>>)
            /\ \A k \in Tids : WF_vars(TaskStep(k) /\ UNCHANGED <<page, losses>>)
            /\ WF_vars(Deliver)
            /\ WF_vars(Reconnects)

FairSpec == Spec /\ Fairness

-----------------------------------------------------------------------------
(* Properties. *)

\* docs/integration-rtkrcv.md:61, store.js:43-47: in live mode the map shows no
\* point of a replay, so that no straight line joins the two.
TrailCleanWhenLive == ~replaying => trail \subseteq {Live}

\* ... and an error that ends a replay is the only way one can get there.
TrailClean == ~replaying /\ ~failed => trail \subseteq {Live}

\* The server plays no replay but the one the user asked for last and has not
\* left again, once it has read every command (api.py, the command loop).
LastCommandWins ==
  conn = "up" /\ inbox = <<>> =>
    \A k \in Running : tasks[k].kind = "replay" => tasks[k].n = viewing

\* Nothing under way in either direction and the server back in live mode.
Settled ==
  /\ handler = "open" /\ conn = "up" /\ inbox = <<>> /\ outbox = <<>>
  /\ Cancelled = {} /\ Running # {} /\ Running \subseteq {liveTask}

\* Page and server agree on the mode whenever nothing is under way, however
\* clicks, replay ends, failures and cancellations crossed each other, on a
\* connection that has not been lost.
SettledAgree == Settled /\ losses = 0 => ~replaying

\* docs/ws-contract.md:150-153: replay_end is not dropped, because s.replaying
\* is still true when it arrives.  Stated for the replay the user is viewing.
CurrentEndSeen ==
  (outbox # <<>> /\ Head(outbox).kind = "replay_end"
     /\ Head(outbox).n = viewing) => replaying

\* Every replay mode ends by itself: with replay_end, with an error, or when
\* the user leaves it, unless the connection is lost.
ReplayModeEnds == replaying ~> ~replaying \/ losses > 0

=============================================================================
