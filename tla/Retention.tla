----------------------------- MODULE Retention ------------------------------
(***************************************************************************)
(* Retention: cleanup_logs (storage/cleanup.py) and the pruning of both    *)
(* databases, in the hourly round of App._cleanup_loop.                    *)
(*                                                                         *)
(* Of the disk it counts what the day directories take and what others do. *)
(* The rows of a database are told apart by the day of their t, and by     *)
(* whether they are open: state = 'open' in the table of the events.  The  *)
(* clock counts days, so a row is past the cutoff or not for a whole day.  *)
(***************************************************************************)
EXTENDS Integers, FiniteSets, FiniteSetsExt

CONSTANTS RetDays,      \* bound: days
          RetKeep,      \* retention_days
          RetDbKeep,    \* db_retention_days
          RetWatermark, \* what may be used of the disk: disk_watermark_pct
          RetSizes,     \* what a day's logs may take
          RetOthers,    \* what others may take
          RetMaxFails,  \* bound: rounds that raise
          RetMaxEvents  \* bound: events recorded

ASSUME RetAssumption == /\ RetDays \in Nat \ {0} /\ RetKeep \in Nat /\ RetDbKeep \in Nat
                        /\ RetWatermark \in Nat /\ RetSizes \subseteq Nat \ {0}
                        /\ RetOthers \subseteq Nat /\ RetMaxFails \in Nat
                        /\ RetMaxEvents \in Nat

VARIABLES retToday,
          retDirs,   \* day directories: what each takes, 0 if there is none
          retOthers, \* what others take
          retRows,   \* the rows in the databases
          retFails, retEvents,
          retBefore, \* history: what the round that has just ended found
          retDone,   \* history: a round has just ended, and nothing raised
          retLatest, \* history: the latest day the clock has shown
          retAll,    \* history: every row ever written, open until it is closed
          retSwept,  \* history: the day of the last round that did not raise, or 0
          retFresh   \* history: the rows written or closed since that round

rowHistory == <<retAll, retSwept, retFresh>>
retVars == <<retToday, retDirs, retOthers, retRows, retFails, retEvents, retBefore, retDone,
             retLatest, rowHistory>>

Days    == 1..RetDays
DbTables == {"epochs", "events"} \* the two databases: base_station goes with epochs
DbRows  == [table : DbTables, day : Days, open : BOOLEAN]

RetTypeOK ==
  /\ retToday \in Days /\ retDirs \in [Days -> Nat] /\ retOthers \in RetOthers
  /\ retRows \subseteq DbRows /\ retFails \in Nat /\ retEvents \in Nat
  /\ retBefore \in [Days -> Nat] /\ retDone \in BOOLEAN /\ retLatest \in Days
  /\ retAll \subseteq DbRows /\ retSwept \in Nat /\ retFresh \subseteq DbRows

RetInit ==
  /\ retToday = 1 /\ retDirs = [d \in Days |-> 0] /\ retOthers \in RetOthers
  /\ retRows = {} /\ retFails = 0 /\ retEvents = 0
  /\ retBefore = retDirs /\ retDone = FALSE
  /\ retLatest = 1 /\ retAll = {} /\ retSwept = 0 /\ retFresh = {}

Dirs(dirs)    == {d \in Days : dirs[d] # 0}
Taken(dirs)   == MapThenSumSet(LAMBDA d : dirs[d], Dirs(dirs))
TooOld(d)     == retToday - d > RetKeep
OverFull(dirs) == retOthers + Taken(dirs) > RetWatermark

\* what one look at the oldest directories deletes, as far as it gets: each is
\* deleted if it is before today, and too old or the disk too full
Without(dirs, S) == [d \in Days |-> IF d \in S THEN 0 ELSE dirs[d]]

\* mutant of Deletes: the disk is looked at once, before anything is deleted
DeletesOnce(S) ==
  \A d \in S : /\ d \in Dirs(retDirs) /\ d < retToday
               /\ {e \in Dirs(retDirs) : e < d} \subseteq S
               /\ TooOld(d) \/ OverFull(retDirs)

\* S is what cleanup_logs deletes before it looks at the next directory: the
\* oldest, each before today and too old or the disk still too full
Deletes(S) ==
  \A d \in S : /\ d \in Dirs(retDirs) /\ d < retToday
               /\ {e \in Dirs(retDirs) : e < d} \subseteq S
               /\ TooOld(d) \/ OverFull(Without(retDirs, {e \in S : e < d}))

\* the largest such S is where the loop stops by itself
DeletesAll(S) == Deletes(S) /\ \A T \in SUBSET Days : Deletes(T) => T \subseteq S

Deleted(S) == retDirs' = Without(retDirs, S)

\* prune: rows before the cutoff go, but never an open one
Past(r) == retToday - r.day > RetDbKeep

\* mutant of Pruned: open events go with the others
PrunedOpenToo(tables) == retRows' = {r \in retRows : ~(r.table \in tables /\ Past(r))}

Pruned(tables) == retRows' = {r \in retRows : r.table \in tables /\ Past(r) => r.open}

\* a round of _cleanup_loop
RetRound ==
  /\ \E S \in SUBSET Days : DeletesAll(S) /\ Deleted(S)
  /\ Pruned(DbTables)
  /\ retBefore' = retDirs /\ retDone' = TRUE
  /\ retSwept' = retToday /\ retFresh' = {}
  /\ UNCHANGED <<retToday, retOthers, retFails, retEvents, retLatest, retAll>>

\* ... in which something raises: a look at the disk or an rmtree, and neither
\* database is pruned this hour; or, with all directories looked at, the pruning of
\* the epochs, or that of the events, before its rows are gone or in the commit
RetRoundFails ==
  /\ retFails < RetMaxFails /\ retFails' = retFails + 1
  /\ \E S \in SUBSET Days, tables \in {{}, {"epochs"}, DbTables} :
       /\ Deletes(S) /\ Deleted(S)
       /\ tables # {} => DeletesAll(S)
       /\ Pruned(tables)
  /\ retBefore' = retDirs' /\ retDone' = FALSE
  /\ UNCHANGED <<retToday, retOthers, retEvents, retLatest, rowHistory>>

Written(row) ==
  /\ retRows' = retRows \cup {row}
  /\ retAll' = retAll \cup {row} /\ retFresh' = retFresh \cup {row}

\* today's logs and epochs are written
RetWrites ==
  /\ \E n \in RetSizes : retDirs' = [retDirs EXCEPT ![retToday] = n]
  /\ retDirs'[retToday] > retDirs[retToday]
  /\ Written([table |-> "epochs", day |-> retToday, open |-> FALSE])
  /\ retBefore' = retDirs' /\ retDone' = FALSE
  /\ UNCHANGED <<retToday, retOthers, retFails, retEvents, retLatest, retSwept>>

\* an event is recorded, an open one or one that never is
RetRecords ==
  /\ retEvents < RetMaxEvents /\ retEvents' = retEvents + 1
  /\ \E open \in BOOLEAN :
       LET row == [table |-> "events", day |-> retToday, open |-> open]
       IN  row \notin retRows /\ Written(row)
  /\ retBefore' = retDirs /\ retDone' = FALSE
  /\ UNCHANGED <<retToday, retDirs, retOthers, retFails, retLatest, retSwept>>

\* an open event is closed; its t stays
RetCloses ==
  /\ \E r \in retRows :
       /\ r.open
       /\ retRows' = (retRows \ {r}) \cup {[r EXCEPT !.open = FALSE]}
       /\ retAll' = (retAll \ {r}) \cup {[r EXCEPT !.open = FALSE]}
       /\ retFresh' = (retFresh \ {r}) \cup {[r EXCEPT !.open = FALSE]}
  /\ retBefore' = retDirs /\ retDone' = FALSE
  /\ UNCHANGED <<retToday, retDirs, retOthers, retFails, retEvents, retLatest, retSwept>>

\* midnight, a clock that is set back to yesterday, or others use the disk
RetWorldTurns ==
  /\ \/ retToday < RetDays /\ retToday' = retToday + 1 /\ UNCHANGED retOthers
     \/ retToday > 1 /\ retToday' = retToday - 1 /\ UNCHANGED retOthers
     \/ retOthers' \in RetOthers \ {retOthers} /\ UNCHANGED retToday
  /\ retLatest' = IF retToday' > retLatest THEN retToday' ELSE retLatest
  /\ retBefore' = retDirs /\ retDone' = FALSE
  /\ UNCHANGED <<retDirs, retRows, retFails, retEvents, rowHistory>>

RetNext ==
  \/ RetRound \/ RetRoundFails \/ RetWrites \/ RetRecords \/ RetCloses \/ RetWorldTurns
RetSpec == RetInit /\ [][RetNext]_retVars

-----------------------------------------------------------------------------
(* Properties. *)

\* A round that ends keeps what retention promises of the logs: nothing of today or
\* later is deleted, the oldest goes first and no more than age or the watermark
\* asks for; what is too old is gone, and as long as the disk is too full so is
\* everything before today.
DirsKept ==
  retDone =>
    LET gone == Dirs(retBefore) \ Dirs(retDirs)
        kept == Dirs(retDirs)
    IN  /\ \A d \in gone : d < retToday /\ \A e \in kept : d < e
        /\ \A e \in kept : e < retToday => ~TooOld(e) /\ ~OverFull(retDirs)
        /\ \A d \in gone : (\A e \in gone : e <= d) =>
             TooOld(d) \/ OverFull([retDirs EXCEPT ![d] = retBefore[d]])

\* Of all rows ever written, those of an event that is open are there however old
\* they are, and so are those the clock, at its latest, was never db_retention_days
\* past: whatever rounds ended or raised, and though the clock is set back.
NoRowLost ==
  \A r \in retAll : r.open \/ retLatest - r.day <= RetDbKeep => r \in retRows

\* What was past db_retention_days in the last round that did not raise is gone,
\* but for what was open then: only rows written or closed since are that old.
OldRowsGone ==
  \A r \in retRows : ~r.open /\ retSwept - r.day > RetDbKeep => r \in retFresh

\* Retention deletes what it must and nothing else, of the logs and of the rows,
\* through rounds that stop half-way, clocks that are set back and events that stay
\* open.
RetentionKept == DirsKept /\ NoRowLost /\ OldRowsGone
=============================================================================
