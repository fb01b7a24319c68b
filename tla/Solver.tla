------------------------------- MODULE Solver -------------------------------
(***************************************************************************)
(* The rtkrcv route: RtkrcvManager (solver/rtkrcv.py) under                *)
(* App._supervise, and the way the App ends (run_forever, main, asyncio).  *)
(*                                                                         *)
(* The rtkrcv process is external: it can be started or not, exits when it *)
(* likes, and may be one that does not end on SIGTERM.  A life is short or *)
(* long (_CRASH_LOOP_LIFE_S).                                              *)
(***************************************************************************)
EXTENDS Integers, Reports

CONSTANTS SolBase,       \* restart_delay
          SolCap,        \* _MAX_RESTART_DELAY_S
          SolMaxCrashes, \* bound: crashes of the manager
          SolMaxLives,   \* bound: short lives counted
          SolTasks,      \* the App's other tasks
          SolStubborn    \* whether a process may ignore SIGTERM: a set of Booleans

ASSUME SolAssumption == /\ SolBase \in Nat \ {0} /\ SolCap \in Nat /\ SolBase <= SolCap
                        /\ SolMaxCrashes \in Nat /\ SolMaxLives \in Nat \ {0}
                        /\ SolTasks \in Nat \ {0}
                        /\ SolStubborn \in (SUBSET BOOLEAN) \ {{}}

VARIABLES solPc,       \* where the manager is
          solDelay,    \* current_delay
          solLast,     \* _last_state
          solChild,    \* the process: none, running, dying of a signal, or gone
          solDeaf,     \* it ignores SIGTERM
          solCan,      \* the binary can be started
          solCancel,   \* a cancel() is on its way to the manager's task
          solCrashes,
          solShort,    \* history: short lives since the last long one
          solTold,     \* history: what has been reported
          appPc,       \* how far the App's end has come
          appRest      \* the other tasks that have not ended

solWorld == <<solDeaf, solCan, solCrashes>>
app      == <<appPc, appRest>>
solVars  == <<solPc, solDelay, solLast, solChild, solDeaf, solCan, solCancel, solCrashes,
              solShort, solTold, appPc, appRest>>

SolTypeOK ==
  /\ solPc \in {"start", "spawn", "wait", "sleep", "resting", "term", "kill", "ended"}
  /\ solDelay \in SolBase..SolCap
  /\ solLast \in LinkState
  /\ solChild \in {"none", "running", "dying", "gone"}
  /\ solDeaf \in BOOLEAN /\ solCan \in BOOLEAN /\ solCancel \in BOOLEAN
  /\ solCrashes \in Nat /\ solShort \in 0..SolMaxLives
  /\ solTold \in Told
  /\ appPc \in {"running", "stopping", "unwinding", "teardown", "stopped"}
  /\ appRest \in 0..SolTasks

SolInit ==
  /\ solPc = "start" /\ solDelay = SolBase /\ solLast = "none"
  /\ solChild = "none" /\ solDeaf = FALSE /\ solCan \in BOOLEAN
  /\ solCancel = FALSE /\ solCrashes = 0 /\ solShort = 0
  /\ solTold = NothingTold
  /\ appPc = "running" /\ appRest = SolTasks

-----------------------------------------------------------------------------
(* The manager. *)

\* mutant of Emit: a report is made once in a row, but not remembered
EmitForgetful(state) ==
  /\ solLast' = solLast
  /\ solTold' = IF solLast = state THEN solTold ELSE Report(solTold, state)

\* _emit: on transitions only
Emit(state) ==
  /\ solLast' = state
  /\ solTold' = IF solLast = state THEN solTold ELSE Report(solTold, state)

\* mutant of UpdateDelay: nothing limits the delay
UpdateDelayUncapped(long) ==
  /\ solDelay' = IF long THEN SolBase ELSE 2 * solDelay
  /\ solShort' = IF long THEN 0
                 ELSE IF solShort < SolMaxLives THEN solShort + 1 ELSE solShort

\* mutant of UpdateDelay: a long life leaves the delay as it is
UpdateDelayUp(long) ==
  /\ solDelay' = IF long THEN solDelay
                 ELSE IF 2 * solDelay < SolCap THEN 2 * solDelay ELSE SolCap
  /\ solShort' = IF long THEN 0
                 ELSE IF solShort < SolMaxLives THEN solShort + 1 ELSE solShort

\* _update_delay
UpdateDelay(long) ==
  /\ solDelay' = IF long THEN SolBase
                 ELSE IF 2 * solDelay < SolCap THEN 2 * solDelay ELSE SolCap
  /\ solShort' = IF long THEN 0
                 ELSE IF solShort < SolMaxLives THEN solShort + 1 ELSE solShort

\* run() begins: write_conf
SolStart ==
  /\ solPc = "start" /\ ~solCancel /\ solPc' = "spawn"
  /\ UNCHANGED <<solDelay, solLast, solChild, solWorld, solCancel, solShort, solTold, app>>

\* ... or it raises (the disk is full), and _supervise reports a crash
SolCrash ==
  /\ solPc = "start" /\ ~solCancel /\ solPc' = "resting"
  /\ solCrashes < SolMaxCrashes /\ solCrashes' = solCrashes + 1
  /\ solTold' = TornDown(solTold)
  /\ UNCHANGED <<solDelay, solLast, solChild, solDeaf, solCan, solCancel, solShort, app>>

\* create_subprocess_exec returns
SolSpawns ==
  /\ solPc = "spawn" /\ ~solCancel /\ solCan
  /\ solPc' = "wait" /\ solChild' = "running"
  /\ solDeaf' \in SolStubborn
  /\ Emit("connected")
  /\ UNCHANGED <<solDelay, solCan, solCrashes, solCancel, solShort, app>>

\* ... or raises: a life of no length
SolSpawnFails ==
  /\ solPc = "spawn" /\ ~solCancel /\ ~solCan
  /\ solPc' = "sleep"
  /\ Emit("disconnected") /\ UpdateDelay(FALSE)
  /\ UNCHANGED <<solChild, solWorld, solCancel, app>>

\* proc.wait returns; a spawn failure's "disconnected" and an exit's are one state
SolReaps ==
  /\ solPc = "wait" /\ ~solCancel /\ solChild = "gone"
  /\ solPc' = "sleep" /\ solChild' = "none"
  /\ Emit("disconnected") /\ \E long \in BOOLEAN : UpdateDelay(long)
  /\ UNCHANGED <<solWorld, solCancel, app>>

SolWake ==
  /\ solPc = "sleep" /\ ~solCancel /\ solPc' = "spawn"
  /\ UNCHANGED <<solDelay, solLast, solChild, solWorld, solCancel, solShort, solTold, app>>

\* _supervise runs the manager again: the same object, with its delay
SolRestart ==
  /\ solPc = "resting" /\ ~solCancel /\ solPc' = "start"
  /\ UNCHANGED <<solDelay, solLast, solChild, solWorld, solCancel, solShort, solTold, app>>

-----------------------------------------------------------------------------
(* The end.  cancel() marks the task; the CancelledError is raised at the  *)
(* await it is in.  A second one interrupts the handler of the first.      *)

\* mutant of SolCancelled: a start that is cancelled does not raise again
SolCancelledOn ==
  /\ solCancel /\ solCancel' = FALSE
  /\ \/ /\ solPc = "wait" /\ solChild = "running"
        /\ solPc' = "term"
        /\ solChild' = IF solDeaf THEN "running" ELSE "dying"
     \/ /\ solPc = "wait" /\ solChild # "running" /\ solPc' = "ended" /\ UNCHANGED solChild
     \/ /\ solPc = "spawn" /\ solPc' = "sleep" /\ UNCHANGED solChild
     \/ /\ solPc \in {"start", "sleep", "resting", "term", "kill"}
        /\ solPc' = "ended" /\ UNCHANGED solChild
  /\ UNCHANGED <<solDelay, solLast, solWorld, solShort, solTold, app>>

SolCancelled ==
  /\ solCancel /\ solCancel' = FALSE
  /\ \/ /\ solPc = "wait" /\ solChild = "running"
        /\ solPc' = "term"
        /\ solChild' = IF solDeaf THEN "running" ELSE "dying"
     \/ /\ solPc = "wait" /\ solChild # "running" /\ solPc' = "ended" /\ UNCHANGED solChild
        \* in spawn, asyncio kills the process it is starting
     \/ /\ solPc \in {"start", "spawn", "sleep", "resting", "term", "kill"}
        /\ solPc' = "ended" /\ UNCHANGED solChild
  /\ UNCHANGED <<solDelay, solLast, solWorld, solShort, solTold, app>>

\* the 5 s of SIGTERM are over: SIGKILL
SolKills ==
  /\ solPc = "term" /\ ~solCancel /\ solChild = "running"
  /\ solPc' = "kill" /\ solChild' = "dying"
  /\ UNCHANGED <<solDelay, solLast, solWorld, solCancel, solShort, solTold, app>>

\* the process is gone while the handler waits for it
SolReleased ==
  /\ solPc \in {"term", "kill"} /\ ~solCancel /\ solChild = "gone"
  /\ solPc' = "ended"
  /\ UNCHANGED <<solDelay, solLast, solChild, solWorld, solCancel, solShort, solTold, app>>

\* cancels every task that has not ended
CancelTasks == solCancel' = (solPc # "ended")

\* Ctrl-C: the task of run_forever is cancelled, and through its gather the others
AppCancel ==
  /\ appPc = "running" /\ appPc' = "stopping" /\ CancelTasks
  /\ UNCHANGED <<solPc, solDelay, solLast, solChild, solWorld, solShort, solTold, appRest>>

\* another task ends
AppTaskEnds ==
  /\ appPc # "running" /\ appRest > 0 /\ appRest' = appRest - 1
  /\ UNCHANGED <<solPc, solDelay, solLast, solChild, solWorld, solCancel, solShort, solTold,
                 appPc>>

\* gather raises when the first task has ended: run_forever cancels them again
AppUnwinds ==
  /\ appPc = "stopping" /\ (appRest < SolTasks \/ solPc = "ended")
  /\ appPc' = "unwinding" /\ CancelTasks
  /\ UNCHANGED <<solPc, solDelay, solLast, solChild, solWorld, solShort, solTold, appRest>>

\* asyncio.run cancels what is left ...
AppTearsDown ==
  /\ appPc = "unwinding" /\ appPc' = "teardown" /\ CancelTasks
  /\ UNCHANGED <<solPc, solDelay, solLast, solChild, solWorld, solShort, solTold, appRest>>

\* ... and waits for it
AppStops ==
  /\ appPc = "teardown" /\ appRest = 0 /\ solPc = "ended" /\ appPc' = "stopped"
  /\ UNCHANGED <<solPc, solDelay, solLast, solChild, solWorld, solCancel, solShort, solTold,
                 appRest>>

-----------------------------------------------------------------------------
(* The process and the machine it runs on. *)

SolExits ==
  /\ solChild = "running" /\ solChild' = "gone"
  /\ UNCHANGED <<solPc, solDelay, solLast, solWorld, solCancel, solShort, solTold, app>>

SolDies ==
  /\ solChild = "dying" /\ solChild' = "gone"
  /\ UNCHANGED <<solPc, solDelay, solLast, solWorld, solCancel, solShort, solTold, app>>

SolWorldTurns ==
  /\ solCan' = ~solCan
  /\ UNCHANGED <<solPc, solDelay, solLast, solChild, solDeaf, solCancel, solCrashes, solShort,
                 solTold, app>>

SolRun  == \/ SolStart \/ SolSpawns \/ SolSpawnFails \/ SolReaps \/ SolWake \/ SolRestart
           \/ SolCancelled \/ SolKills \/ SolReleased
AppRun  == AppTaskEnds \/ AppUnwinds \/ AppTearsDown \/ AppStops
SolNext == SolRun \/ SolCrash \/ AppCancel \/ AppRun \/ SolExits \/ SolDies \/ SolWorldTurns

SolSpec == SolInit /\ [][SolNext]_solVars

-----------------------------------------------------------------------------
(* Properties. *)

\* What is reported about the solver is true: a process that runs under the
\* manager is "connected", one waited for is "disconnected", and the two reports
\* alternate whatever failed in between (_emit, on transitions only).
SolHonest ==
  /\ solPc = "wait"  => solTold.last = "connected"
  /\ solPc = "sleep" => solTold.last = "disconnected"
  /\ ~Repeats(solTold)

Redoubled[n \in Nat] == IF n = 0 THEN SolBase ELSE 2 * Redoubled[n - 1]

\* The wait after n short lives in a row is restart_delay doubled n times, and
\* at most _MAX_RESTART_DELAY_S; a life of 30 s starts the count again.
SolPaced ==
  solShort < SolMaxLives =>
    solDelay = IF Redoubled[solShort] < SolCap THEN Redoubled[solShort] ELSE SolCap

\* A solver that can be started is started again however often it exits.
SolReturns ==
  [](appPc = "running") /\ <>[]solCan => []<>(solChild = "running")

\* The App's end ends: no process, however deaf, keeps it from stopping.
AppEnds == (appPc = "stopping") ~> (appPc = "stopped")

\* A process group that was signalled is gone, or going, when the App has
\* stopped ("to ensure child and grandchild termination").
NothingLeftBehind == appPc = "stopped" => solChild # "running"
=============================================================================
