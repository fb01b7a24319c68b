------------------------------ MODULE TcpLink -------------------------------
(***************************************************************************)
(* A TCP route: TcpCollector (collectors/tcp.py) under App._supervise.     *)
(*                                                                         *)
(* Client mode dials, reads until the peer closes, resets or falls silent, *)
(* and waits longer and longer before it dials again.  Listener mode       *)
(* serves every peer that comes in a task of its own.  on_data never       *)
(* raises (main.py guards every callback); a crash is the exception nobody *)
(* foresaw that _supervise exists for.                                     *)
(***************************************************************************)
EXTENDS Integers, Reports

CONSTANTS TcpInitial,   \* initial_backoff
          TcpMax,       \* max_backoff
          TcpPeers,     \* peers of a listener
          TcpWaits,     \* bound: waits counted since the last connection
          TcpMaxCrashes \* bound: crashes

ASSUME TcpAssumption == /\ TcpInitial \in Nat \ {0} /\ TcpMax \in Nat
                        /\ TcpInitial <= TcpMax
                        /\ TcpWaits \in Nat \ {0} /\ TcpMaxCrashes \in Nat

VARIABLES tcpPc,      \* where the client is
          tcpBackoff, \* backoff
          tcpLast,    \* _last_state
          tcpServer,  \* the server: up and sending, mute, or down
          tcpTold,    \* history: what has been reported
          tcpWaits,   \* history: waits since the last connection or start
          tcpCrashes,
          lsnPc,      \* the listener
          lsnPeers,   \* its connections: the state of each peer's handler
          lsnOpen     \* history: "connected" less "disconnected" reports

tcpClient == <<tcpPc, tcpBackoff, tcpLast, tcpServer, tcpTold, tcpWaits, tcpCrashes>>
listener  == <<lsnPc, lsnPeers, lsnOpen>>
tcpVars   == <<tcpPc, tcpBackoff, tcpLast, tcpServer, tcpTold, tcpWaits, tcpCrashes,
               lsnPc, lsnPeers, lsnOpen>>

TcpTypeOK ==
  /\ tcpPc \in {"dialing", "reading", "sleeping", "resting"}
  /\ tcpBackoff \in TcpInitial..TcpMax
  /\ tcpLast \in LinkState
  /\ tcpServer \in {"up", "mute", "down"}
  /\ tcpTold \in Told /\ tcpWaits \in 0..TcpWaits /\ tcpCrashes \in Nat
  /\ lsnPc \in {"listening", "resting", "over"}
  /\ lsnPeers \in [TcpPeers -> {"away", "accepted", "served", "closing"}]
  /\ lsnOpen \in Nat

TcpInit ==
  /\ tcpPc = "dialing" /\ tcpBackoff = TcpInitial /\ tcpLast = "none"
  /\ tcpServer \in {"up", "mute", "down"}
  /\ tcpTold = NothingTold /\ tcpWaits = 0 /\ tcpCrashes = 0
  /\ lsnPc = "listening" /\ lsnPeers = [p \in TcpPeers |-> "away"] /\ lsnOpen = 0

-----------------------------------------------------------------------------
(* The client. *)

\* mutant of TcpConnect: the backoff survives the connection
TcpConnectSlow ==
  /\ tcpPc = "dialing" /\ tcpServer # "down"
  /\ tcpPc' = "reading" /\ UNCHANGED tcpBackoff
  /\ tcpLast' = "connected" /\ tcpTold' = Report(tcpTold, "connected")
  /\ tcpWaits' = 0
  /\ UNCHANGED <<tcpServer, tcpCrashes, listener>>

\* open_connection succeeds, _pump reports and starts to read
TcpConnect ==
  /\ tcpPc = "dialing" /\ tcpServer # "down"
  /\ tcpPc' = "reading" /\ tcpBackoff' = TcpInitial
  /\ tcpLast' = "connected" /\ tcpTold' = Report(tcpTold, "connected")
  /\ tcpWaits' = 0
  /\ UNCHANGED <<tcpServer, tcpCrashes, listener>>

\* mutant of GoesDown: every failed attempt is reported
GoesDownAgain ==
  /\ tcpPc' = "sleeping"
  /\ tcpTold' = Report(tcpTold, "disconnected")
  /\ tcpLast' = "disconnected"
  /\ tcpWaits' = IF tcpWaits < TcpWaits THEN tcpWaits + 1 ELSE tcpWaits

\* the end of a round of _run_client: report the transition, and sleep
GoesDown ==
  /\ tcpPc' = "sleeping"
  /\ tcpTold' = IF tcpLast = "disconnected" THEN tcpTold
                ELSE Report(tcpTold, "disconnected")
  /\ tcpLast' = "disconnected"
  /\ tcpWaits' = IF tcpWaits < TcpWaits THEN tcpWaits + 1 ELSE tcpWaits

\* open_connection raises OSError
TcpRefused ==
  /\ tcpPc = "dialing" /\ tcpServer = "down"
  /\ GoesDown
  /\ UNCHANGED <<tcpBackoff, tcpServer, tcpCrashes, listener>>

\* _pump: end of file, an OSError or idle_timeout of silence
TcpLost ==
  /\ tcpPc = "reading" /\ tcpServer # "up"
  /\ GoesDown
  /\ UNCHANGED <<tcpBackoff, tcpServer, tcpCrashes, listener>>

TcpWake ==
  /\ tcpPc = "sleeping"
  /\ tcpPc' = "dialing"
  /\ tcpBackoff' = IF 2 * tcpBackoff < TcpMax THEN 2 * tcpBackoff ELSE TcpMax
  /\ UNCHANGED <<tcpLast, tcpServer, tcpTold, tcpWaits, tcpCrashes, listener>>

\* an exception leaves run(): _supervise reports it and sleeps
TcpCrash ==
  /\ tcpPc \in {"dialing", "reading"}
  /\ tcpCrashes < TcpMaxCrashes /\ tcpCrashes' = tcpCrashes + 1
  /\ tcpPc' = "resting"
  /\ tcpTold' = TornDown(tcpTold)
  /\ UNCHANGED <<tcpBackoff, tcpLast, tcpServer, tcpWaits, listener>>

\* mutant of TcpRestart: the supervisor gives the route up
TcpRestartNever == tcpPc = "resting" /\ UNCHANGED tcpVars

\* _supervise runs the route again: the collector is the same object
TcpRestart ==
  /\ tcpPc = "resting"
  /\ tcpPc' = "dialing" /\ tcpBackoff' = TcpInitial /\ tcpWaits' = 0
  /\ UNCHANGED <<tcpLast, tcpServer, tcpTold, tcpCrashes, listener>>

\* The server comes, goes and falls silent as it likes.  A connection reset
\* with the server up is one the server was down for.
TcpServerTurns ==
  /\ \E s \in {"up", "mute", "down"} \ {tcpServer} : tcpServer' = s
  /\ UNCHANGED <<tcpPc, tcpBackoff, tcpLast, tcpTold, tcpWaits, tcpCrashes, listener>>

-----------------------------------------------------------------------------
(* The listener.  A handler is a task: accepted but not yet run, serving,  *)
(* or serving a connection that is already closed.                         *)

Peer(p, from, to) == lsnPeers[p] = from /\ lsnPeers' = [lsnPeers EXCEPT ![p] = to]

LsnAccept(p) == /\ lsnPc = "listening" /\ Peer(p, "away", "accepted")
                /\ UNCHANGED <<lsnPc, lsnOpen, tcpClient>>

\* handler up to its first await
LsnServe(p)  == /\ Peer(p, "accepted", "served") /\ lsnOpen' = lsnOpen + 1
                /\ UNCHANGED <<lsnPc, tcpClient>>

\* handler's loop ends: end of file, OSError, idle_timeout, or at the very end
\* asyncio.run cancels it; then its finally
LsnFinish(p) == /\ \/ Peer(p, "served", "away") \/ Peer(p, "closing", "away")
                /\ lsnOpen' = lsnOpen - 1
                /\ UNCHANGED <<lsnPc, tcpClient>>

\* start_server or serve_forever raises: the server is closed, its
\* connections go on
LsnCrash     == /\ lsnPc = "listening" /\ lsnPc' = "resting"
                /\ tcpCrashes < TcpMaxCrashes /\ tcpCrashes' = tcpCrashes + 1
                /\ UNCHANGED <<lsnPeers, lsnOpen, tcpPc, tcpBackoff, tcpLast, tcpServer,
                               tcpTold, tcpWaits>>

LsnRestart   == /\ lsnPc = "resting" /\ lsnPc' = "listening"
                /\ UNCHANGED <<lsnPeers, lsnOpen, tcpClient>>

\* run is cancelled: the connections it serves are closed.  A handler that was
\* accepted and has not run yet is not among them.
LsnCancel    == /\ lsnPc # "over" /\ lsnPc' = "over"
                /\ lsnPeers' = [p \in TcpPeers |->
                     IF lsnPeers[p] = "served" /\ lsnPc = "listening" THEN "closing"
                                                                     ELSE lsnPeers[p]]
                /\ UNCHANGED <<lsnOpen, tcpClient>>

TcpRun == TcpConnect \/ TcpRefused \/ TcpLost \/ TcpWake \/ TcpRestart
LsnRun == LsnRestart \/ \E p \in TcpPeers : LsnServe(p) \/ LsnFinish(p)

TcpNext == \/ TcpRun \/ TcpCrash \/ TcpServerTurns
           \/ LsnRun \/ LsnCrash \/ LsnCancel
           \/ \E p \in TcpPeers : LsnAccept(p)

-----------------------------------------------------------------------------
(* Properties. *)

\* What a client reports about its link is true and alternates: a link that is
\* read is reported up, one that waits to be dialed again is reported down, and
\* "connected" is never the last word about a link that is gone, unless a crash
\* has been reported.  (tcp.py, _last_state: disconnected on transition only.)
TcpHonest ==
  /\ tcpPc = "reading"  => tcpTold.last = "connected"
  /\ tcpPc = "sleeping" => tcpTold.last = "disconnected"
  /\ tcpTold.last = "connected" => tcpPc = "reading" \/ tcpTold.since
  /\ Repeats(tcpTold) => tcpTold.last = "connected" /\ tcpTold.between

Doubled[n \in Nat] == IF n = 0 THEN TcpInitial ELSE 2 * Doubled[n - 1]

\* The n-th wait since a connection (or a start) is initial_backoff doubled
\* n - 1 times, and never more than max_backoff.
TcpPaced ==
  tcpPc = "sleeping" /\ tcpWaits < TcpWaits =>
    tcpBackoff = IF Doubled[tcpWaits - 1] < TcpMax THEN Doubled[tcpWaits - 1] ELSE TcpMax

\* A server that stays up is read in the end, whatever happened before.
TcpReturns == <>[](tcpServer = "up") => <>[](tcpPc = "reading")

\* Once the listener is cancelled no handler outlives it for ever, and every
\* "connected" has had its "disconnected".
LsnEnds == (lsnPc = "over") ~> (lsnOpen = 0 /\ \A p \in TcpPeers : lsnPeers[p] = "away")
=============================================================================
