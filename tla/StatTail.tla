------------------------------ MODULE StatTail ------------------------------
(***************************************************************************)
(* The solver's status: App._stat_reader tails the newest .stat file into  *)
(* StatEpochAccumulator and SlipWindow (parsers/rtkstat.py).               *)
(*                                                                         *)
(* rtkrcv is external: it appends $SAT lines, epoch after epoch, a line    *)
(* becoming visible in two halves: a line per frequency for every          *)
(* satellite of the epoch, the first frequency first.  Every process opens *)
(* a file of its own and counts slips from 0, per satellite and frequency. *)
(* Lines that are not $SAT change nothing.                                 *)
(***************************************************************************)
EXTENDS Picks

CONSTANTS StatSats,    \* satellites
          StatMaxLines,\* bound: lines of the first file; one less of each later one
          StatMaxTow,  \* bound: epochs per file
          StatMaxSlips,\* bound: slips per satellite and file
          StatMaxFiles,\* bound: processes
          StatMaxNow,  \* bound: time
          StatWindow   \* window_s

ASSUME StatAssumption == /\ StatMaxLines \in Nat /\ StatMaxTow \in Nat /\ StatMaxSlips \in Nat
                         /\ StatMaxFiles \in Nat \ {0} /\ StatMaxNow \in Nat
                         /\ StatWindow \in Nat

VARIABLES statFile,  \* the newest file: its number and the lines that are complete
          statHalf,  \* half of its next line is there
          statCur,   \* cur_path
          statPos,   \* fh.tell(), in halves of a line
          statAcc,   \* StatEpochAccumulator: _tow and _cur_stats
          statSats,  \* _latest_sats and _latest_satstats
          statLast,  \* SlipWindow._last; -1 is no entry
          statHits,  \* SlipWindow._hits
          statNow,
          statSlips  \* history: when each slip of each file happened

statVars == <<statFile, statHalf, statCur, statPos, statAcc, statSats, statLast, statHits,
              statNow, statSlips>>

Line == [tow : 1..StatMaxTow, sat : StatSats, freq : {1, 2}, slipc : 0..StatMaxSlips]
NoEpoch == [tow |-> 0, stats |-> <<>>]

StatTypeOK ==
  /\ statFile \in [number : 1..StatMaxFiles, lines : Seq(Line)]
  /\ statHalf \in BOOLEAN
  /\ statCur \in 0..StatMaxFiles /\ statPos \in 0..2 * StatMaxLines
  /\ statAcc \in [tow : 0..StatMaxTow, stats : Seq(Line)] /\ statSats \in Seq(Line)
  /\ statLast \in [StatSats -> -1..StatMaxSlips]
  /\ statHits \in Seq([t : Nat, delta : Nat])
  /\ statNow \in 0..StatMaxNow
  /\ statSlips \in Seq(Nat)

StatInit ==
  /\ statFile = [number |-> 1, lines |-> <<>>] /\ statHalf = FALSE
  /\ statCur = 0 /\ statPos = 0 /\ statAcc = NoEpoch /\ statSats = <<>>
  /\ statLast = [s \in StatSats |-> -1] /\ statHits = <<>>
  /\ statNow = 0 /\ statSlips = <<>>

-----------------------------------------------------------------------------
(* The reader. *)

Sats(stats) == {stats[i].sat : i \in DOMAIN stats}

\* what a line does to the accumulator and the slip window
Fed(st, line) ==
  LET new  == st.acc.tow # line.tow
      had  == IF new THEN <<>> ELSE st.acc.stats
      prev == st.last[line.sat]
  IN  IF line.sat \in Sats(had)     \* its second frequency
      THEN [st EXCEPT !.acc = [tow |-> line.tow, stats |-> had]]
      ELSE [st EXCEPT
              !.acc  = [tow |-> line.tow, stats |-> Append(had, line)],
              !.sats = Append(had, line),
              !.last[line.sat] = line.slipc,
              !.hits = IF prev # -1 /\ line.slipc > prev
                       THEN Append(@, [t |-> statNow, delta |-> line.slipc - prev]) ELSE @]

\* what the lines behind the from-th do, up to the to-th
Read(st, from, to) ==
  LET R[n \in from..to] == IF n = from THEN st ELSE Fed(R[n - 1], statFile.lines[n])
  IN  R[to]

\* how much there is to read, and where the newline of the last whole line is
OnDisk      == 2 * Len(statFile.lines) + (IF statHalf THEN 1 ELSE 0)
LastNewline == 2 * (OnDisk \div 2)

\* the first line that is read whole from a position, less one: what is left of a
\* line that was begun before is no $SAT line
WholeFrom(pos) == (pos + 1) \div 2

Reader == [acc |-> statAcc, sats |-> statSats, last |-> statLast, hits |-> statHits]

\* mutant of StatPoll: a new file is read on with the old accumulator
StatPollOn ==
  LET fresh == statCur # statFile.number
      from  == IF fresh THEN 0 ELSE statPos
      st    == Read(Reader, WholeFrom(from), LastNewline \div 2)
  IN  /\ statCur' = statFile.number /\ statPos' = LastNewline
      /\ statAcc' = st.acc /\ statSats' = st.sats
      /\ statLast' = st.last /\ statHits' = st.hits
      /\ UNCHANGED <<statFile, statHalf, statNow, statSlips>>

\* mutant of StatPoll: half a line is not put back
StatPollNoSeek ==
  LET fresh == statCur # statFile.number
      from  == IF fresh THEN 0 ELSE statPos
      start == IF fresh THEN [Reader EXCEPT !.acc = NoEpoch, !.sats = <<>>] ELSE Reader
      st    == IF from >= LastNewline THEN start
               ELSE Read(start, WholeFrom(from), LastNewline \div 2)
  IN  /\ statCur' = statFile.number /\ statPos' = OnDisk
      /\ statAcc' = st.acc /\ statSats' = st.sats
      /\ statLast' = st.last /\ statHits' = st.hits
      /\ UNCHANGED <<statFile, statHalf, statNow, statSlips>>

\* An iteration: the newest file is opened at its start and the accumulator
\* (not the slip window) reset; it is read to its end, every line that ends in a
\* newline is fed, and one that does not is put back: the position is behind the
\* last newline.
StatPoll ==
  LET fresh == statCur # statFile.number
      from  == IF fresh THEN 0 ELSE statPos
      start == IF fresh THEN [Reader EXCEPT !.acc = NoEpoch, !.sats = <<>>] ELSE Reader
      st    == Read(start, WholeFrom(from), LastNewline \div 2)
  IN  /\ statCur' = statFile.number /\ statPos' = LastNewline
      /\ statAcc' = st.acc /\ statSats' = st.sats
      /\ statLast' = st.last /\ statHits' = st.hits
      /\ UNCHANGED <<statFile, statHalf, statNow, statSlips>>

\* SlipWindow.count, as the diagnosis tick calls it: hits that have left the
\* window are forgotten
Recent(hits) == Picked(hits, {i \in DOMAIN hits : hits[i].t >= statNow - StatWindow})
StatCount ==
  /\ statHits' = Recent(statHits)
  /\ UNCHANGED <<statFile, statHalf, statCur, statPos, statAcc, statSats, statLast, statNow,
                 statSlips>>

\* the monitor is started again, rtkrcv's file is still there
StatRestart ==
  /\ statCur' = 0 /\ statPos' = 0 /\ statAcc' = NoEpoch /\ statSats' = <<>>
  /\ statLast' = [s \in StatSats |-> -1] /\ statHits' = <<>>
  /\ UNCHANGED <<statFile, statHalf, statNow, statSlips>>

-----------------------------------------------------------------------------
(* rtkrcv. *)

\* its lines of a satellite among the first p, and the slips counted by then
FirstFreq(lines, p, s) == {i \in 1..p : lines[i].sat = s /\ lines[i].freq = 1}
Counted(lines, p, s) ==
  IF FirstFreq(lines, p, s) = {} THEN 0 ELSE lines[Max(FirstFreq(lines, p, s))].slipc

\* What comes after these lines: a satellite that is not in this epoch yet, the
\* first of the next epoch, with one more slip or none, or a second frequency.
WritesNext(lines, line) ==
  LET p    == Len(lines)
      tow  == IF p = 0 THEN 0 ELSE lines[p].tow
      slip == Counted(lines, p, line.sat)
  IN  IF line.freq = 1
      THEN /\ line.tow \in {tow, tow + 1} /\ line.slipc \in {slip, slip + 1}
           /\ \A i \in 1..p : lines[i].tow = line.tow => lines[i].sat # line.sat
      ELSE p > 0 /\ lines[p].freq = 1 /\ line.tow = tow /\ line.sat = lines[p].sat

Slips(lines, line) == line.freq = 1 /\ line.slipc > Counted(lines, Len(lines), line.sat)

\* the rest of a line
StatWrites ==
  /\ statHalf /\ statHalf' = FALSE
  /\ \E line \in Line :
       /\ WritesNext(statFile.lines, line)
       /\ statFile' = [statFile EXCEPT !.lines = Append(@, line)]
       /\ statSlips' = IF Slips(statFile.lines, line) THEN Append(statSlips, statNow) ELSE statSlips
  /\ UNCHANGED <<statCur, statPos, statAcc, statSats, statLast, statHits, statNow>>

StatHalves ==
  /\ ~statHalf /\ statHalf' = TRUE
  /\ Len(statFile.lines) + statFile.number <= StatMaxLines
  /\ UNCHANGED <<statFile, statCur, statPos, statAcc, statSats, statLast, statHits, statNow,
                 statSlips>>

\* a new process, and a new file
StatNewFile ==
  /\ statFile.number < StatMaxFiles
  /\ statFile' = [number |-> statFile.number + 1, lines |-> <<>>] /\ statHalf' = FALSE
  /\ UNCHANGED <<statCur, statPos, statAcc, statSats, statLast, statHits, statNow, statSlips>>

StatTick ==
  /\ statNow < StatMaxNow /\ statNow' = statNow + 1
  /\ UNCHANGED <<statFile, statHalf, statCur, statPos, statAcc, statSats, statLast, statHits,
                 statSlips>>

StatNext == \/ StatPoll \/ StatCount \/ StatRestart
            \/ StatWrites \/ StatHalves \/ StatNewFile \/ StatTick
StatSpec == StatInit /\ [][StatNext]_statVars

-----------------------------------------------------------------------------
(* Properties. *)

\* the lines of the epoch that the p-th is of, up to there and one per satellite,
\* the first
LastEpoch(lines, p) ==
  {i \in 1..p : /\ lines[i].tow = lines[p].tow
                /\ \A j \in 1 .. i - 1 : lines[j].tow = lines[i].tow => lines[j].sat # lines[i].sat}

\* The sky shown is the last epoch of the lines up to the position, a point for every
\* satellite of it and one only, however the polls cut the file, in the middle of a
\* line too, and across a new one.
SkyIsOneEpoch ==
  /\ statCur = statFile.number /\ statPos >= 2 =>
       statSats = Picked(statFile.lines, LastEpoch(statFile.lines, statPos \div 2))
  /\ \A i, j \in DOMAIN statSats :
       /\ statSats[i].tow = statSats[j].tow
       /\ i # j => statSats[i].sat # statSats[j].sat

\* what the window has counted by a time: the deltas of its hits, one by one
CountedBy(t) ==
  {hit \in (DOMAIN statHits) \X (1..StatMaxSlips) :
     statHits[hit[1]].t <= t /\ hit[2] <= statHits[hit[1]].delta}

\* A slip is counted at most once and not before it happened, however polls,
\* restarts of the solver and restarts of the monitor fall.
SlipsOnce ==
  \A t \in 0..statNow :
    Cardinality(CountedBy(t)) <= Cardinality({i \in DOMAIN statSlips : statSlips[i] <= t})
=============================================================================
