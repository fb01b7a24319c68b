------------------------------- MODULE Routes -------------------------------
(***************************************************************************)
(* The routes of the App side by side: the tasks run_forever supervises,   *)
(* and what each does with what it receives.                               *)
(*                                                                         *)
(* Routes share nothing but the event loop and the event table, to which   *)
(* they only append, and one runs no further for what another does: their  *)
(* steps commute.  So a behaviour of all of them is one of each, and the   *)
(* specification lets one route, chosen at the start, move.                *)
(***************************************************************************)
EXTENDS TcpLink, CanLink, Solver, Framing, CanCycle, StatTail, Replay, BaseStation,
        Reserver, RawLog, Retention

CONSTANT RouteNames  \* the routes that are looked at

ASSUME RoutesAssumption ==
  RouteNames \subseteq {"tcp", "can", "solver", "framing", "cycle", "stat", "replay", "base",
                        "reserver", "rawlog", "retention"}

VARIABLE route

vars == <<route, tcpVars, canVars, solVars, frmVars, cycVars, statVars, repVars, baseVars,
          resVars, logVars, retVars>>

\* A route that is not looked at stays where it starts, in one of its initial
\* states.
OnlyOneStarts ==
  /\ \/ route = "tcp"
     \/ route # "tcp" /\ tcpServer = "up"
  /\ \/ route = "can"
     \/ route # "can" /\ canTraffic = TRUE
  /\ \/ route = "solver"
     \/ route # "solver" /\ solCan = TRUE
  /\ \/ route = "framing"
     \/ route # "framing" /\ frmKind = "corr" /\ frmWire = CHOOSE w \in FrmWires : TRUE
  /\ \/ route = "replay"
     \/ /\ route # "replay" /\ repWindow = CHOOSE w \in RepWindows : TRUE
        /\ repTables = CHOOSE t \in [epochs : RepEpochs, events : RepEvents] : TRUE
  /\ \/ route = "rawlog"
     \/ route # "rawlog" /\ logKind = CHOOSE k \in LogKinds : TRUE
  /\ \/ route = "retention"
     \/ route # "retention" /\ retOthers = CHOOSE n \in RetOthers : TRUE

Init == /\ route \in RouteNames
        /\ OnlyOneStarts
        /\ TcpInit /\ CanInit /\ SolInit /\ FrmInit /\ CycInit /\ StatInit /\ RepInit
        /\ BaseInit /\ ResInit /\ LogInit /\ RetInit

Rests(name, names) == IF route = name THEN TRUE ELSE UNCHANGED names

OthersRest ==
  /\ UNCHANGED route
  /\ Rests("tcp", tcpVars) /\ Rests("can", canVars) /\ Rests("solver", solVars)
  /\ Rests("framing", frmVars) /\ Rests("cycle", cycVars) /\ Rests("stat", statVars)
  /\ Rests("replay", repVars) /\ Rests("base", baseVars) /\ Rests("reserver", resVars)
  /\ Rests("rawlog", logVars) /\ Rests("retention", retVars)

Next ==
  \/ route = "tcp" /\ TcpNext /\ OthersRest
  \/ route = "can" /\ CanNext /\ OthersRest
  \/ route = "solver" /\ SolNext /\ OthersRest
  \/ route = "framing" /\ FrmNext /\ OthersRest
  \/ route = "cycle" /\ CycNext /\ OthersRest
  \/ route = "stat" /\ StatNext /\ OthersRest
  \/ route = "replay" /\ RepNext /\ OthersRest
  \/ route = "base" /\ BaseNext /\ OthersRest
  \/ route = "reserver" /\ ResNext /\ OthersRest
  \/ route = "rawlog" /\ LogNext /\ OthersRest
  \/ route = "retention" /\ RetNext /\ OthersRest

\* Fair is what the event loop, its timers and the system do by themselves: a task
\* that can go on does, a timeout comes, a process killed dies, asyncio.run ends
\* the handlers it cancels.  Nobody is fair who connects, sends, crashes or is
\* unplugged.
Fairness ==
  /\ WF_vars(route = "tcp" /\ TcpRun /\ OthersRest)
  /\ WF_vars(route = "tcp" /\ LsnRestart /\ OthersRest)
  /\ \A p \in TcpPeers :
       /\ WF_vars(route = "tcp" /\ LsnServe(p) /\ OthersRest)
       /\ WF_vars(route = "tcp" /\ lsnPc = "over" /\ LsnFinish(p) /\ OthersRest)
  /\ WF_vars(route = "can" /\ CanRun /\ OthersRest)
  /\ WF_vars(route = "solver" /\ SolRun /\ OthersRest)
  /\ WF_vars(route = "solver" /\ AppRun /\ OthersRest)
  /\ WF_vars(route = "solver" /\ SolDies /\ OthersRest)

Spec == Init /\ [][Next]_vars /\ Fairness

-----------------------------------------------------------------------------
(* Properties. *)

\* Every variable has its type.
TypeOK ==
  /\ TcpTypeOK /\ CanTypeOK /\ SolTypeOK /\ FrmTypeOK /\ CycTypeOK /\ StatTypeOK /\ RepTypeOK
  /\ BaseTypeOK /\ ResTypeOK /\ LogTypeOK /\ RetTypeOK

\* What the TCP, CAN and rtkrcv routes report about their links is true, and
\* reports alternate but for an outage a crash or a reopened bus cuts in two.
LinkReportsHonest == TcpHonest /\ CanHonest /\ SolHonest

\* Retries wait twice as long each time up to their limit, and start over after
\* a connection or a long life.
RetriesPaced == TcpPaced /\ SolPaced

\* A source, a bus or a solver that can be had is had in the end, whatever was
\* refused, lost, wedged or crashed before.
CollectionNeverStops ==
  /\ route = "tcp" => TcpReturns
  /\ route = "can" => CanReturns
  /\ route = "solver" => SolReturns

\* Whatever is under way when the App is told to stop, it stops: the handlers of
\* a listener come to their end, and so does the manager, deaf process or not.
ShutdownEnds == (route = "tcp" => LsnEnds) /\ (route = "solver" => AppEnds)

\* However a wire is cut into chunks, the messages and lines that come out are
\* those that were sent, once, in order, no later than they could be told.
FramesAsSent == MessagesCome /\ RtcmAsSent /\ LinesAsSent

\* The CAN cycles that come out are whole, one epoch a second is stored, and
\* positions keep flowing to the pages through lost frames and failing stores.
CyclesWhole == CyclesMatch /\ PositionsFlow

\* The sky shown is one epoch of the solver's status, and a slip counts once.
StatOnce == SkyIsOneEpoch /\ SlipsOnce
=============================================================================
