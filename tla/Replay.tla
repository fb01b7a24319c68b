------------------------------- MODULE Replay -------------------------------
(***************************************************************************)
(* The replay generator: _replay_messages (replay.py), as run_replay of    *)
(* api.py drives it, one message per step, over EpochStore.query           *)
(* (storage/epochs.py) and EventStore.query.                               *)
(*                                                                         *)
(* Times are counted in RepSecond-ths of a second, so that rows fall       *)
(* between the whole seconds and on them.  What a message carries is its   *)
(* row.                                                                    *)
(***************************************************************************)
EXTENDS Picks

CONSTANTS RepSecond,   \* one second
          RepLookback, \* _SNAPSHOT_LOOKBACK_S
          RepWindows,  \* windows asked for: records with t0 and t1
          RepEpochs,   \* contents of the epoch table: sets of records with src and t
          RepEvents    \* contents of the event table: sets of records with diagnosis,
                       \* t and t_close, which is NotClosed or a time
NotClosed == -1

Sources == {"rtkrcv", "can", "gpchc"}

\* rows as the tables hold them
Epochs == [src : Sources, t : Nat]
Events == [diagnosis : BOOLEAN, t : Nat, t_close : Nat \cup {NotClosed}]

\* The rows of a source, and the diagnosis rows, have times of their own.
ASSUME RepAssumption ==
  /\ RepSecond \in Nat \ {0} /\ RepLookback \in Nat
  /\ RepWindows \subseteq {w \in [t0 : Nat, t1 : Nat] : w.t0 < w.t1}
  /\ \A S \in RepEpochs : /\ S \subseteq Epochs /\ IsFiniteSet(S)
                         /\ \A e, f \in S : e.src = f.src /\ e.t = f.t => e = f
  /\ \A S \in RepEvents : /\ S \subseteq Events /\ IsFiniteSet(S)
                         /\ \A e, f \in S : e.diagnosis /\ f.diagnosis /\ e.t = f.t => e = f

VARIABLES repTables, \* the tables as the generator finds them
          repWindow,
          repOther,  \* other: position and event messages
          repOi,     \* oi
          repSec,    \* the next whole second
          repIdx,    \* idx, per source
          repLast,   \* last, per source: the rows so far, at most one
          repPc,     \* not started, merging, flushing the tail, over
          repOut     \* history: the messages sent

repVars == <<repTables, repWindow, repOther, repOi, repSec, repIdx, repLast, repPc, repOut>>

\* ORDER BY t
Sorted(S) == LET times == InTurn({e.t : e \in S})
             IN  [n \in DOMAIN times |-> CHOOSE e \in S : e.t = times[n]]

\* EpochStore.query
Query(src, t0, t1) ==
  Sorted({e \in repTables.epochs : e.src = src /\ t0 <= e.t /\ e.t <= t1})

Rows(src) == Query(src, repWindow.t0 - RepLookback, repWindow.t1)

Within(t) == repWindow.t0 <= t /\ t <= repWindow.t1

Position(e) == [type |-> "position", t |-> e.t, row |-> e]
Opened(e)   == [type |-> "open", t |-> e.t, row |-> e]
Closed(e)   == [type |-> "close", t |-> e.t_close, row |-> e]
Status(t, last) == [type |-> "status", t |-> t, row |-> last]
EndMessage  == [type |-> "replay_end", t |-> repWindow.t1, row |-> {}]

PositionsOf(src) ==
  LET rows == Rows(src)
      in   == Picked(rows, {i \in DOMAIN rows : Within(rows[i].t)})
  IN  [i \in DOMAIN in |-> Position(in[i])]

\* EventStore.query, the diagnosis rows: each is opened, and then closed or not
EventMessages ==
  LET rows == Sorted({e \in repTables.events : e.diagnosis})
      all  == [i \in 1 .. 2 * Len(rows) |-> IF i % 2 = 1 THEN Opened(rows[(i + 1) \div 2])
                                             ELSE Closed(rows[i \div 2])]
  IN  Picked(all, {i \in DOMAIN all : all[i].t # NotClosed /\ Within(all[i].t)})

\* sort by time, stable
Times(s) == [i \in DOMAIN s |-> s[i].t]
StableSort(s) == [n \in DOMAIN s |-> s[OfRank(Times(s), n - 1)]]

\* other, as it is gathered
Unsorted == PositionsOf("can") \o PositionsOf("gpchc") \o EventMessages

CeilSecond(t) == ((t + RepSecond - 1) \div RepSecond) * RepSecond

RepTypeOK ==
  /\ repPc \in {"new", "merging", "tail", "over"}
  /\ repWindow \in RepWindows
  /\ repOi \in 0..Len(repOther) /\ repSec \in Nat
  /\ repIdx \in [Sources -> Nat] /\ DOMAIN repLast = Sources

RepInit ==
  /\ repTables \in [epochs : RepEpochs, events : RepEvents] /\ repWindow \in RepWindows
  /\ repPc = "new" /\ repOther = <<>> /\ repOi = 0 /\ repSec = 0
  /\ repIdx = [s \in Sources |-> 0] /\ repLast = [s \in Sources |-> {}]
  /\ repOut = <<>>

\* the tables are read and the positions and events sorted, before the first yield
RepStart ==
  /\ repPc = "new" /\ repPc' = "merging"
  /\ repOther' = StableSort(Unsorted)
  /\ repSec' = CeilSecond(repWindow.t0)
  /\ UNCHANGED <<repTables, repWindow, repOi, repIdx, repLast, repOut>>

Due(t) == repOi < Len(repOther) /\ repOther[repOi + 1].t <= t

SendOther ==
  /\ repOut' = Append(repOut, repOther[repOi + 1]) /\ repOi' = repOi + 1
  /\ UNCHANGED <<repTables, repWindow, repOther, repSec, repIdx, repLast>>

\* a message due at or before the next whole second
RepFlush ==
  /\ repPc = "merging" /\ repSec <= repWindow.t1 /\ Due(repSec)
  /\ SendOther /\ UNCHANGED repPc

\* mutant of Advanced: one row a second, as if a source had no more
AdvancedByOne(src) ==
  LET rows == Rows(src)
      i == IF repIdx[src] < Len(rows) /\ rows[repIdx[src] + 1].t <= repSec
           THEN repIdx[src] + 1 ELSE repIdx[src]
  IN  [idx |-> i, last |-> IF i = 0 THEN {} ELSE {rows[i]}]

\* idx and last moved up to the latest row at or before the second
Advanced(src) ==
  LET rows == Rows(src)
      past == {i \in repIdx[src] + 1 .. Len(rows) :
                 \A j \in repIdx[src] + 1 .. i : rows[j].t <= repSec}
  IN  IF past = {} THEN [idx |-> repIdx[src], last |-> repLast[src]]
      ELSE LET i == Max(past) IN [idx |-> i, last |-> {rows[i]}]

\* the status of a whole second
RepStatus ==
  /\ repPc = "merging" /\ repSec <= repWindow.t1 /\ ~Due(repSec)
  /\ LET advanced == [s \in Sources |-> Advanced(s)]
     IN  /\ repIdx' = [s \in Sources |-> advanced[s].idx]
         /\ repLast' = [s \in Sources |-> advanced[s].last]
         /\ repOut' = Append(repOut, Status(repSec, repLast'))
  /\ repSec' = repSec + RepSecond
  /\ UNCHANGED <<repTables, repWindow, repOther, repOi, repPc>>

\* what lies behind the last whole second, and the end
RepTail ==
  /\ \/ repPc = "merging" /\ repSec > repWindow.t1
     \/ repPc = "tail"
  /\ IF repOi < Len(repOther) THEN SendOther /\ repPc' = "tail"
     ELSE /\ repPc' = "over" /\ repOut' = Append(repOut, EndMessage)
          /\ UNCHANGED <<repTables, repWindow, repOther, repOi, repSec, repIdx, repLast>>

RepNext == RepStart \/ RepFlush \/ RepStatus \/ RepTail
RepSpec == RepInit /\ [][RepNext]_repVars

-----------------------------------------------------------------------------
(* Properties. *)

\* the latest row of a source at or before t, looked for in the whole table
LatestRow(src, t) ==
  LET known == {e \in repTables.epochs : /\ e.src = src /\ e.t <= t
                                         /\ e.t >= repWindow.t0 - RepLookback}
  IN  {e \in known : \A f \in known : f.t <= e.t}

Seconds == {t \in repWindow.t0 .. repWindow.t1 : \E k \in 0 .. t : t = k * RepSecond}

\* everything the stream has to carry, materialised and sorted
Statuses == LET times == InTurn(Seconds)
            IN  [n \in DOMAIN times |-> Status(times[n], [s \in Sources |-> LatestRow(s, times[n])])]
Materialised == Append(StableSort(Unsorted \o Statuses), EndMessage)

\* The lazy merge sends what the old sort of the whole stream would have sent,
\* message for message ("reproduces the same global time order as the old
\* sort-then-walk", replay.py): every position and event of the window once, a
\* status per whole second with the latest row of each source, known from before
\* the window too, ties in the order positions, events, status, and the end last.
ReplayMerges ==
  /\ Len(repOut) <= Len(Materialised)
  /\ \A n \in DOMAIN repOut : repOut[n] = Materialised[n]
  /\ repPc = "over" => repOut = Materialised
=============================================================================
