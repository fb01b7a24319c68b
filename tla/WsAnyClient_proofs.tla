------------------------- MODULE WsAnyClient_proofs -------------------------
(***************************************************************************)
(* The theorems about a /ws session whose client sends any command at any  *)
(* time, reads when it likes, leaves and comes back.                       *)
(***************************************************************************)
EXTENDS WsAnyClient, WsServer_proofs

TypeInv == ServerTypeOK /\ commands \in Nat /\ losses \in Nat

\* What this client does is what a client may do to a session.
LEMMA AnyClientStep == TypeInv /\ [Next]_vars => SessionStep
<1> SUFFICES ASSUME TypeInv, [Next]_vars PROVE SessionStep
  OBVIOUS
<1>1. ASSUME NEW c \in {"replay", "live", "bad", "broken"}, Sends(c) PROVE Arrives
  <2> DEFINE new == [cmd |-> c, n |-> commands']
  <2>1. new \in Command
    BY <1>1 DEF Sends, TypeInv, Command
  <2>2. inbox' = Append(inbox, new) /\ UNCHANGED <<session, outbox, published, lastLive>>
    BY <1>1 DEF Sends
  <2> HIDE DEF new
  <2> QED BY <2>1, <2>2 DEF Arrives
<1>2. CASE Takes
  BY <1>2 DEF Takes, Reads, SessionStep
<1>3. CASE UNCHANGED vars \/ (AtRest /\ UNCHANGED client)
  BY <1>3 DEF vars, AtRest, serverVars, session, Arrives, SessionStep
<1>4. CASE Drops \/ Reconnects
  BY <1>4 DEF Drops, Reconnects, SessionStep
<1> QED BY <1>1, <1>2, <1>3, <1>4 DEF Next, SessionStep

\* Types and discipline hold at first.
LEMMA InitInv == Init => TypeInv /\ RunInv
  BY InitType, InitRuns DEF Init, TypeInv

\* Every step of the session with this client keeps both.
LEMMA StepInv == TypeInv /\ RunInv /\ [Next]_vars => TypeInv' /\ RunInv'
<1> SUFFICES ASSUME TypeInv, RunInv, [Next]_vars PROVE TypeInv' /\ RunInv'
  OBVIOUS
<1>1. commands' \in Nat /\ losses' \in Nat
  BY DEF TypeInv, Next, vars, client, Sends, Takes, Drops, Reconnects
<1>2. ServerTypeOK' /\ RunInv'
  BY AnyClientStep, SessionType, SessionRuns DEF TypeInv
<1> QED BY <1>1, <1>2 DEF TypeInv

\* The session's state has its types (api.py ws(), broadcast.py).
THEOREM TypeCorrect == Spec => []ServerTypeOK
<1>1. Spec => [](TypeInv /\ RunInv)
  BY InitInv, StepInv, PTL DEF Spec
<1> QED BY <1>1, PTL DEF TypeInv

\* Two senders never race for the queue and the socket, every running sender is
\* one the handler can cancel, and a connected client always has one: api.py
\* ws(), for every order of commands, endings, failures and disconnects.
THEOREM Discipline ==
  Spec => []SingleSender /\ []SendersReachable /\ []AlwaysASender
<1>1. Spec => [](TypeInv /\ RunInv)
  BY InitInv, StepInv, PTL DEF Spec
<1>2. RunInv => SingleSender /\ SendersReachable /\ AlwaysASender
  BY OneRunsSingle DEF RunInv
<1> QED BY <1>1, <1>2, PTL

\* A sender that runs is one the handler can still cancel, and a handler that has
\* closed has left none, for every order of commands.
THEOREM SendersCanBeEnded == Spec => []SendersReachable
  BY Discipline, PTL

\* A connected client always has a sender, for every order of commands and every
\* way a replay ends.
THEOREM NeverAFrozenView == Spec => []AlwaysASender
  BY Discipline, PTL

\* The backlog is the newest messages published, for every size of the queue and
\* however slow the client is (broadcast.py, publish).
THEOREM BacklogNewest == Spec => []BacklogIsNewest
<1>1. Init => OrderInv
  BY InitOrder DEF Init
<1>2. TypeInv /\ RunInv /\ OrderInv /\ [Next]_vars => OrderInv'
  BY AnyClientStep, SessionOrder DEF TypeInv
<1>3. OrderInv => BacklogIsNewest
  BY DEF OrderInv, BacklogIsNewest, Base
<1>4. Spec => [](TypeInv /\ RunInv)
  BY InitInv, StepInv, PTL DEF Spec
<1> QED BY <1>1, <1>2, <1>3, <1>4, PTL DEF Spec

\* Live messages are written in the order of publication, each at most once,
\* across replays, cancellations, overflows and lost connections.
THEOREM LiveOrdered == Spec => LiveInOrder
<1>1. Init => OrderInv
  BY InitOrder DEF Init
<1>2. TypeInv /\ RunInv /\ OrderInv /\ [Next]_vars => OrderInv'
  BY AnyClientStep, SessionOrder DEF TypeInv
<1>3. TypeInv /\ RunInv /\ OrderInv /\ [Next]_vars => [NewestSent]_serverVars
  BY AnyClientStep, NewestStep DEF TypeInv
<1>4. Spec => [](TypeInv /\ RunInv)
  BY InitInv, StepInv, PTL DEF Spec
<1> QED BY <1>1, <1>2, <1>3, <1>4, PTL DEF Spec, LiveInOrder, NewestSent

=============================================================================
