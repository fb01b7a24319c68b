------------------------------- MODULE RawLog -------------------------------
(***************************************************************************)
(* The raw logs: RawLogWriter (storage/rawlog.py) and the CandumpWriter    *)
(* over it (storage/canlog.py), with crashes, a disk that fills up and     *)
(* restarts.                                                               *)
(*                                                                         *)
(* Python's file objects are external: what is written stays in memory     *)
(* until flush or close; a flush that raises may have put some of it on    *)
(* disk and keeps the rest; a close that raises loses the rest and the     *)
(* file is closed all the same, so that closing it again does nothing.     *)
(* Bytes handed to the system outlive the process.                         *)
(***************************************************************************)
EXTENDS Integers, Sequences, FiniteSets

CONSTANTS LogHours,     \* bound: hours
          LogSizes,     \* lengths of what is appended
          LogKinds,     \* writers: records with indexed (index) and every (flush_every)
          LogMaxBytes,  \* bound: bytes per hour
          LogMaxFails,  \* bound: writes to a full disk
          LogMaxCrashes \* bound

ASSUME LogAssumption == /\ LogHours \in Nat \ {0} /\ LogSizes \subseteq Nat \ {0}
                        /\ LogKinds \subseteq [indexed : BOOLEAN, every : Nat \ {0}]
                        /\ LogMaxBytes \in Nat /\ LogMaxFails \in Nat /\ LogMaxCrashes \in Nat

VARIABLES logKind,
          logClock,   \* the hour it is
          logHour,    \* _hour_key; 0 is None
          logOpen,    \* which of _file and _idx are open files
          logBuf,     \* bytes of _file not yet on disk
          logIdxBuf,  \* lines of _idx not yet on disk
          logPending, \* _pending
          logDisk,    \* per hour: the bytes on disk
          logIndex,   \* per hour: the index lines on disk
          logFails, logCrashes,
          logLoser    \* history: hours a close has lost bytes of

logVars == <<logKind, logClock, logHour, logOpen, logBuf, logIdxBuf, logPending, logDisk, logIndex,
             logFails, logCrashes, logLoser>>

Entry == [off : Nat, len : Nat]
Indexed == logKind.indexed
Every   == logKind.every

LogTypeOK ==
  /\ logKind \in LogKinds
  /\ logClock \in 1..LogHours /\ logHour \in 0..LogHours
  /\ logOpen \in SUBSET {"file", "idx"}
  /\ logBuf \in Nat /\ logIdxBuf \in Seq(Entry) /\ logPending \in 0..logKind.every
  /\ logDisk \in [1..LogHours -> Nat] /\ logIndex \in [1..LogHours -> Seq(Entry)]
  /\ logFails \in Nat /\ logCrashes \in Nat
  /\ logLoser \in SUBSET (1..LogHours)

LogInit ==
  /\ logKind \in LogKinds
  /\ logClock = 1 /\ logHour = 0 /\ logOpen = {}
  /\ logBuf = 0 /\ logIdxBuf = <<>> /\ logPending = 0
  /\ logDisk = [h \in 1..LogHours |-> 0] /\ logIndex = [h \in 1..LogHours |-> <<>>]
  /\ logFails = 0 /\ logCrashes = 0 /\ logLoser = {}

\* a step in which the disk is full once
Fails == logFails < LogMaxFails /\ logFails' = logFails + 1

ToDisk(h, n)      == [logDisk EXCEPT ![h] = @ + n]
ToIndex(h, lines) == [logIndex EXCEPT ![h] = @ \o lines]

-----------------------------------------------------------------------------
(* append, while the hour is the one of the open files *)

\* the index lines in memory when the record is written, tell's offset first
Lines(n) == IF Indexed THEN Append(logIdxBuf, [off |-> logDisk[logHour] + logBuf, len |-> n])
            ELSE <<>>

FlushDue == logPending + 1 >= Every

\* the record stays in memory
Kept(n) == /\ ~FlushDue /\ logPending' = logPending + 1
           /\ logBuf' = logBuf + n /\ logIdxBuf' = Lines(n)
           /\ UNCHANGED <<logDisk, logIndex, logFails>>

\* both are flushed
Flushed(n) == /\ FlushDue /\ logPending' = 0
              /\ logDisk' = ToDisk(logHour, logBuf + n) /\ logBuf' = 0
              /\ logIndex' = ToIndex(logHour, Lines(n)) /\ logIdxBuf' = <<>>
              /\ UNCHANGED logFails

\* the data's flush raises with k bytes on disk, or the index's does
FlushFails(n) == /\ FlushDue /\ Fails /\ logPending' = Every
                 /\ \E k \in 0 .. logBuf + n :
                      /\ k = logBuf + n => Indexed
                      /\ logDisk' = ToDisk(logHour, k) /\ logBuf' = logBuf + n - k
                 /\ logIdxBuf' = Lines(n) /\ UNCHANGED logIndex

\* the index is flushed, and the data's flush raises
IndexOnly(n) == /\ FlushDue /\ Fails /\ logPending' = Every
                /\ logIndex' = ToIndex(logHour, Lines(n)) /\ logIdxBuf' = <<>>
                /\ logBuf' = logBuf + n /\ UNCHANGED logDisk

Appends(n) == /\ logHour = logClock /\ "file" \in logOpen
              /\ logDisk[logHour] + logBuf + n <= LogMaxBytes
              /\ UNCHANGED <<logKind, logClock, logHour, logOpen, logCrashes, logLoser>>

\* mutant of LogAppend: the index is flushed first
LogAppendIndexFirst(n) == Appends(n) /\ (Kept(n) \/ Flushed(n) \/ IndexOnly(n))

\* tell, write, count, and flush the data and then the index; a flush that raises
\* leaves _pending at flush_every or above, and the next append flushes again
LogAppend(n) == Appends(n) /\ (Kept(n) \/ Flushed(n) \/ FlushFails(n))

\* the write itself raises, on its way through a full buffer: some of the record
\* is in the file, without a line of its own
LogAppendBreaks(n) ==
  /\ logHour = logClock /\ "file" \in logOpen
  /\ Fails
  /\ \E k \in 0..n : /\ logDisk[logHour] + logBuf + k <= LogMaxBytes
                     /\ logBuf' = logBuf + k
  /\ UNCHANGED <<logKind, logClock, logHour, logOpen, logIdxBuf, logPending, logDisk, logIndex,
                 logCrashes, logLoser>>

\* a buffer that fills up writes through before it is flushed
LogThrough ==
  /\ logBuf > 0
  /\ \E k \in 1..logBuf : logDisk' = ToDisk(logHour, k) /\ logBuf' = logBuf - k
  /\ UNCHANGED <<logKind, logClock, logHour, logOpen, logIdxBuf, logPending, logIndex, logFails,
                 logCrashes, logLoser>>

-----------------------------------------------------------------------------
(* append in a new hour begins with _rotate: close the data, close the     *)
(* index, open the new files.  What raises ends the append there, and the  *)
(* process may die before the record is written: rotating and writing are  *)
(* two steps.                                                              *)

LogRotate ==
  /\ logHour # logClock
  /\ \/ /\ logHour' = logClock
        /\ logOpen' = IF Indexed THEN {"file", "idx"} ELSE {"file"}
        /\ logDisk' = IF logHour = 0 THEN logDisk ELSE ToDisk(logHour, logBuf)
        /\ logIndex' = IF logHour = 0 THEN logIndex ELSE ToIndex(logHour, logIdxBuf)
        /\ logBuf' = 0 /\ logIdxBuf' = <<>> /\ logPending' = 0
        /\ UNCHANGED <<logFails, logLoser>>
     \* open raises: nothing is open
     \/ /\ Fails
        /\ logHour' = 0 /\ logOpen' = {}
        /\ logDisk' = IF logHour = 0 THEN logDisk ELSE ToDisk(logHour, logBuf)
        /\ logIndex' = IF logHour = 0 THEN logIndex ELSE ToIndex(logHour, logIdxBuf)
        /\ logBuf' = 0 /\ logIdxBuf' = <<>> /\ logPending' = 0
        /\ UNCHANGED logLoser
     \* the data's close raises: what was in memory is gone, the index stays open
     \/ /\ Fails /\ logBuf > 0
        /\ logOpen' = logOpen \ {"file"} /\ logBuf' = 0 /\ logLoser' = logLoser \cup {logHour}
        /\ UNCHANGED <<logHour, logDisk, logIndex, logIdxBuf, logPending>>
     \* the index's close raises
     \/ /\ Fails /\ logIdxBuf # <<>>
        /\ logOpen' = {} /\ logIdxBuf' = <<>>
        /\ logDisk' = ToDisk(logHour, logBuf) /\ logBuf' = 0
        /\ UNCHANGED <<logHour, logIndex, logPending, logLoser>>
  /\ UNCHANGED <<logKind, logClock, logCrashes>>

LogTick ==
  /\ logClock < LogHours /\ logClock' = logClock + 1
  /\ UNCHANGED <<logKind, logHour, logOpen, logBuf, logIdxBuf, logPending, logDisk, logIndex,
                 logFails, logCrashes, logLoser>>

\* The process dies, between two appends or between an append's two flushes, and
\* is started again.
LogCrash ==
  /\ logCrashes < LogMaxCrashes /\ logCrashes' = logCrashes + 1
  /\ logDisk' \in {logDisk, IF FlushDue /\ logHour = logClock /\ "file" \in logOpen
                            THEN ToDisk(logHour, logBuf + 1) ELSE logDisk}
  /\ logHour' = 0 /\ logOpen' = {} /\ logBuf' = 0 /\ logIdxBuf' = <<>> /\ logPending' = 0
  /\ UNCHANGED <<logKind, logClock, logIndex, logFails, logLoser>>

LogNext == \/ \E n \in LogSizes : LogAppend(n) \/ LogAppendBreaks(n)
           \/ LogThrough \/ LogRotate \/ LogTick \/ LogCrash
LogSpec == LogInit /\ [][LogNext]_logVars

-----------------------------------------------------------------------------
(* Properties. *)

\* What the index says is there: each line points at bytes that are on disk, and
\* no two at the same ones, through full disks, crashes and restarts, except
\* in an hour whose file could not be closed.  As long as the disk has room, a
\* crash costs at most flush_every - 1 records.
IndexTrue ==
  /\ \A h \in 1..LogHours : \A i \in DOMAIN logIndex[h] :
       /\ h \notin logLoser => logIndex[h][i].off + logIndex[h][i].len <= logDisk[h]
       /\ \A j \in 1 .. i - 1 :
            logIndex[h][j].off + logIndex[h][j].len <= logIndex[h][i].off
  /\ logFails = 0 => logPending < Every /\ (logPending = 0 => logBuf = 0 /\ logIdxBuf = <<>>)
=============================================================================
