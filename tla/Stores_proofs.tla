--------------------------- MODULE Stores_proofs ----------------------------
(***************************************************************************)
(* What leaves the monitor and what it keeps: the fan-out, the raw logs,   *)
(* retention, the base station's tables and the replay of what was kept,   *)
(* for any number of clients, hours, days, positions and rows.  LeastOf    *)
(* and Ranks are with the links.                                           *)
(***************************************************************************)
EXTENDS Links_proofs, Reserver, RawLog, Retention, BaseStation, Replay

-----------------------------------------------------------------------------
(* The fan-out.  Its property is inductive as it stands: a client that is  *)
(* open is up to date, and was not above the limit before the last chunk.  *)

ResInv == ResTypeOK /\ FanOutWhole

\* It starts with no client.
LEMMA ResInitInv == ResInit => ResInv
  BY DEF ResInit, ResInv, ResTypeOK, FanOutWhole

\* A chunk goes to those who are ready, and only they stay open.
LEMMA BroadcastInv ==
  ASSUME ResInv, NEW n \in 1..ResChunk, ResBroadcast(n)
  PROVE  ResInv'
<1>0. ResLimit \in Nat /\ ResChunk \in Nat /\ n \in Nat
  BY ResAssumption
<1>1. ResTypeOK'
  BY <1>0 DEF ResInv, ResTypeOK, ResBroadcast, Slow, Ready
<1>2. ASSUME NEW c \in ResClients
      PROVE  /\ resState'[c] = "open" => c \in resIn' /\ resWritten'[c] = resSent'
             /\ resState'[c] # "away" =>
                  /\ resGot'[c] <= resWritten'[c] /\ resWritten'[c] <= resSent'
                  /\ Held(c)' <= ResLimit + ResChunk
  <2>1. CASE c \in Ready
    BY <1>0, <2>1 DEF ResInv, ResTypeOK, FanOutWhole, ResBroadcast, Slow, Ready, Held
  <2>2. CASE c \notin Ready
    BY <1>0, <2>2 DEF ResInv, ResTypeOK, FanOutWhole, ResBroadcast, Slow, Ready, Held
  <2> QED BY <2>1, <2>2
<1> QED BY <1>1, <1>2 DEF ResInv, FanOutWhole

\* Every step preserves it.
LEMMA ResStepInv == ResInv /\ [ResNext]_resVars => ResInv'
<1> SUFFICES ASSUME ResInv, [ResNext]_resVars PROVE ResInv'
  OBVIOUS
<1>0. ResLimit \in Nat /\ ResChunk \in Nat
  BY ResAssumption
<1>1. ASSUME NEW c \in ResClients, ResCome(c) PROVE ResInv'
  BY <1>0, <1>1 DEF ResCome, ResInv, ResTypeOK, FanOutWhole, Held
<1>2. ASSUME NEW c \in ResClients, ResLeave(c) PROVE ResInv'
  BY <1>0, <1>2 DEF ResLeave, ResInv, ResTypeOK, FanOutWhole, Held
<1>3. ASSUME NEW c \in ResClients, ResClosing(c) PROVE ResInv'
  BY <1>0, <1>3 DEF ResClosing, ResInv, ResTypeOK, FanOutWhole, Held
<1>4. ASSUME NEW c \in ResClients, ResRead(c) PROVE ResInv'
  BY <1>0, <1>4 DEF ResRead, ResInv, ResTypeOK, FanOutWhole, Held
<1>5. ASSUME NEW n \in 1..ResChunk, ResBroadcast(n) PROVE ResInv'
  BY <1>5, BroadcastInv
<1>6. CASE UNCHANGED resVars
  BY <1>6 DEF resVars, ResInv, ResTypeOK, FanOutWhole, Held
<1> QED BY <1>1, <1>2, <1>3, <1>4, <1>5, <1>6 DEF ResNext

-----------------------------------------------------------------------------
(* The raw logs.  The lines of an hour's index and those still in memory   *)
(* are one stack: each begins where the ones before it end at the latest,  *)
(* and all of them below what is on disk and in memory together.           *)

ApartIn(s) == \A i \in DOMAIN s : \A j \in 1 .. i - 1 : s[j].off + s[j].len <= s[i].off
Under(s, n) == \A i \in DOMAIN s : s[i].off + s[i].len <= n

\* A record written at the end of what is there goes on top.
LEMMA Push ==
  ASSUME NEW s \in Seq(Entry), NEW n \in Nat, NEW k \in Nat, ApartIn(s), Under(s, n)
  PROVE  LET pushed == Append(s, [off |-> n, len |-> k])
         IN  pushed \in Seq(Entry) /\ ApartIn(pushed) /\ Under(pushed, n + k)
<1> DEFINE e == [off |-> n, len |-> k]
           p == Append(s, e)
<1>1. e \in Entry /\ e.off = n /\ e.len = k
  BY DEF Entry
<1> HIDE DEF e
<1>2. p \in Seq(Entry) /\ Len(p) = Len(s) + 1
  BY <1>1, AppendProperties
<1>3. /\ DOMAIN p = 1 .. Len(s) + 1 /\ DOMAIN s = 1 .. Len(s) /\ Len(s) \in Nat
      /\ p[Len(s) + 1] = e /\ \A i \in 1 .. Len(s) : p[i] = s[i] /\ s[i] \in Entry
  <2>1. DOMAIN s = 1 .. Len(s) /\ Len(s) \in Nat /\ \A i \in 1 .. Len(s) : s[i] \in Entry
    BY LenProperties, ElementOfSeq
  <2>2. DOMAIN p = 1 .. Len(s) + 1
    BY <1>2, LenProperties
  <2>3. p[Len(s) + 1] = e /\ \A i \in 1 .. Len(s) : p[i] = s[i]
    BY <1>1, <2>1, AppendProperties
  <2> QED BY <2>1, <2>2, <2>3
<1> HIDE DEF p
<1>4. \A i \in 1 .. Len(s) : s[i].off \in Nat /\ s[i].len \in Nat
  BY <1>3 DEF Entry
<1>5. ApartIn(p)
  <2> SUFFICES ASSUME NEW i \in 1 .. Len(s) + 1, NEW j \in 1 .. i - 1
               PROVE  p[j].off + p[j].len <= p[i].off
    BY <1>3 DEF ApartIn
  <2>1. j \in 1 .. Len(s) /\ p[j] = s[j]
    BY <1>3
  <2>2. CASE i \in 1 .. Len(s)
    <3>1. s[j].off + s[j].len <= s[i].off
      BY <1>3, <2>2 DEF ApartIn
    <3> QED BY <1>3, <2>1, <2>2, <3>1
  <2>3. CASE i = Len(s) + 1
    <3>1. s[j].off + s[j].len <= n
      BY <1>3, <2>1 DEF Under
    <3> QED BY <1>1, <1>3, <2>1, <2>3, <3>1
  <2> QED BY <1>3, <2>2, <2>3
<1>6. Under(p, n + k)
  BY <1>1, <1>3, <1>4 DEF Under
<1> QED BY <1>2, <1>5, <1>6 DEF p, e

\* A line added to those in memory is added to the stack.
LEMMA AppendOnTheRight ==
  ASSUME NEW s \in Seq(Entry), NEW t \in Seq(Entry), NEW x \in Entry
  PROVE  s \o Append(t, x) = Append(s \o t, x)
<1>1. <<x>> \in Seq(Entry)
  OBVIOUS
<1>2. Append(t, x) = t \o <<x>>
  BY AppendIsConcat
<1>3. s \o t \in Seq(Entry)
  BY ConcatProperties
<1>4. Append(s \o t, x) = (s \o t) \o <<x>>
  BY <1>3, AppendIsConcat, Zenon
<1>5. (s \o t) \o <<x>> = s \o (t \o <<x>>)
  BY <1>1, ConcatAssociative
<1> QED BY <1>2, <1>4, <1>5

\* The top may rise.
LEMMA Rise ==
  ASSUME NEW s \in Seq(Entry), NEW n \in Nat, NEW m \in Nat, n <= m, Under(s, n)
  PROVE  Under(s, m)
<1>1. \A i \in DOMAIN s : s[i] \in Entry
  BY LenProperties, ElementOfSeq
<1>2. \A i \in DOMAIN s : s[i].off \in Nat /\ s[i].len \in Nat
  BY <1>1 DEF Entry
<1> QED BY <1>2 DEF Under

\* No lines in memory add nothing to the ones on disk: after a flush the index is
\* whole as it is.
LEMMA Nothing ==
  ASSUME NEW s \in Seq(Entry)
  PROVE  s \o <<>> = s /\ s \in Seq(Entry)
  BY ConcatEmptySeq

\* The one conjunct about the hours, and the one about the hour that is open.
HoursTrue ==
  \A h \in 1..LogHours :
    ApartIn(logIndex[h]) /\ (h \notin logLoser => Under(logIndex[h], logDisk[h]))

Whole == logIndex[logHour] \o logIdxBuf

OpenHourTrue ==
  logHour # 0 =>
    ApartIn(Whole) /\ (logHour \notin logLoser => Under(Whole, logDisk[logHour] + logBuf))

LogTypes ==
  /\ logKind \in LogKinds
  /\ logClock \in 1..LogHours /\ logHour \in 0..LogHours /\ logHour <= logClock
  /\ logBuf \in Nat /\ logIdxBuf \in Seq(Entry) /\ logPending \in Nat
  /\ logDisk \in [1..LogHours -> Nat] /\ logIndex \in [1..LogHours -> Seq(Entry)]
  /\ logFails \in Nat

\* An hour that has lost bytes is over; a file that is open is the hour's.
LogShaped ==
  /\ \A h \in logLoser : h \in Nat /\ h < logClock
  /\ "file" \in logOpen => logHour # 0 /\ logHour \notin logLoser
  /\ logHour = 0 => logBuf = 0 /\ logIdxBuf = <<>>

LogFlushed ==
  logFails = 0 => logPending < Every /\ (logPending = 0 => logBuf = 0 /\ logIdxBuf = <<>>)

LogInv == LogTypes /\ LogShaped /\ HoursTrue /\ OpenHourTrue /\ LogFlushed

\* A writer of either kind flushes now and then.
LEMMA KindFacts ==
  ASSUME LogTypes
  PROVE  Every \in Nat \ {0} /\ LogHours \in Nat /\ logClock \in Nat /\ logHour \in Nat
<1>1. LogKinds \subseteq [indexed : BOOLEAN, every : Nat \ {0}] /\ LogHours \in Nat
  BY LogAssumption
<1>2. logKind \in [indexed : BOOLEAN, every : Nat \ {0}]
  BY <1>1 DEF LogTypes
<1> QED BY <1>1, <1>2 DEF LogTypes, Every

\* It starts with nothing on disk.
LEMMA LogInitInv == LogInit => LogInv
<1> SUFFICES ASSUME LogInit PROVE LogInv
  OBVIOUS
<1>0. <<>> \in Seq(Entry)
  OBVIOUS
<1>1. LogTypes
  BY <1>0, LogAssumption DEF LogInit, LogTypes
<1>2. Every \in Nat \ {0}
  BY <1>1, KindFacts
<1>3. HoursTrue
  BY DEF LogInit, HoursTrue, ApartIn, Under
<1> QED BY <1>1, <1>2, <1>3 DEF LogInit, LogInv, LogShaped, OpenHourTrue, LogFlushed

\* The lines after an append, with its own, fit below the bytes with its own.
LEMMA LinesFit ==
  ASSUME LogInv, "file" \in logOpen, NEW n \in Nat
  PROVE  /\ logHour \in 1..LogHours
         /\ Lines(n) \in Seq(Entry)
         /\ logIndex[logHour] \o Lines(n) \in Seq(Entry)
         /\ ApartIn(logIndex[logHour] \o Lines(n))
         /\ Under(logIndex[logHour] \o Lines(n), logDisk[logHour] + logBuf + n)
<1>1. /\ logHour \in 1..LogHours /\ logHour \notin logLoser
      /\ logIndex[logHour] \in Seq(Entry) /\ logIdxBuf \in Seq(Entry)
      /\ logDisk[logHour] \in Nat /\ logBuf \in Nat
  BY KindFacts DEF LogInv, LogTypes, LogShaped
<1>2. CASE Indexed
  <2> DEFINE e == [off |-> logDisk[logHour] + logBuf, len |-> n]
  <2>1. e \in Entry
    BY <1>1 DEF Entry
  <2>2. Whole \in Seq(Entry) /\ ApartIn(Whole) /\ Under(Whole, logDisk[logHour] + logBuf)
    BY <1>1, ConcatProperties DEF LogInv, OpenHourTrue, Whole
  <2>3. /\ Append(Whole, e) \in Seq(Entry) /\ ApartIn(Append(Whole, e))
        /\ Under(Append(Whole, e), logDisk[logHour] + logBuf + n)
    BY <1>1, <2>2, Push
  <2> HIDE DEF e
  <2>4. Lines(n) = Append(logIdxBuf, e) /\ Lines(n) \in Seq(Entry)
    BY <1>1, <1>2, <2>1 DEF e, Lines
  <2>5. logIndex[logHour] \o Append(logIdxBuf, e) = Append(Whole, e)
    <3>1. logIndex[logHour] \in Seq(Entry) /\ logIdxBuf \in Seq(Entry)
      BY <1>1
    <3>2. logIndex[logHour] \o Append(logIdxBuf, e) = Append(logIndex[logHour] \o logIdxBuf, e)
      BY <2>1, <3>1, AppendOnTheRight, Zenon
    <3> QED BY <3>2, Zenon DEF Whole
  <2> QED BY <1>1, <2>3, <2>4, <2>5
<1>3. CASE ~Indexed
  <2>1. Lines(n) = <<>> /\ Lines(n) \in Seq(Entry)
    BY <1>3 DEF Lines
  <2>2. logIndex[logHour] \o Lines(n) = logIndex[logHour]
    BY <1>1, <2>1, Nothing
  <2>3. ApartIn(logIndex[logHour]) /\ Under(logIndex[logHour], logDisk[logHour])
    BY <1>1 DEF LogInv, HoursTrue
  <2>4. Under(logIndex[logHour], logDisk[logHour] + logBuf + n)
    BY <1>1, <2>3, Rise
  <2> QED BY <1>1, <2>1, <2>2, <2>3, <2>4
<1> QED BY <1>2, <1>3

\* An append that stays in memory, reaches the disk, or breaks on the way there.
LEMMA AppendInv ==
  ASSUME LogInv, NEW n \in Nat, LogAppend(n)
  PROVE  LogInv'
<1>0. /\ "file" \in logOpen /\ logHour = logClock /\ LogHours \in Nat
      /\ Every \in Nat \ {0} /\ Every' = Every /\ Indexed' = Indexed
      /\ UNCHANGED <<logKind, logClock, logHour, logOpen, logLoser>>
  BY KindFacts DEF LogInv, LogAppend, Appends, Every, Indexed
<1>1. /\ logHour \in 1..LogHours /\ Lines(n) \in Seq(Entry)
      /\ logIndex[logHour] \o Lines(n) \in Seq(Entry)
      /\ ApartIn(logIndex[logHour] \o Lines(n))
      /\ Under(logIndex[logHour] \o Lines(n), logDisk[logHour] + logBuf + n)
  BY <1>0, LinesFit
<1>3. /\ logDisk \in [1..LogHours -> Nat] /\ logIndex \in [1..LogHours -> Seq(Entry)]
      /\ logBuf \in Nat /\ logPending \in Nat /\ logFails \in Nat /\ logHour \notin logLoser
      /\ logIndex[logHour] \in Seq(Entry) /\ logDisk[logHour] \in Nat
  BY <1>0, <1>1 DEF LogInv, LogTypes, LogShaped
<1>4. \A h \in 1..LogHours :
        ApartIn(logIndex[h]) /\ (h \notin logLoser => Under(logIndex[h], logDisk[h]))
  BY DEF LogInv, HoursTrue
<1>5. CASE Kept(n)
  <2>0. /\ logPending + 1 < Every
        /\ logBuf' = logBuf + n /\ logIdxBuf' = Lines(n) /\ logPending' = logPending + 1
        /\ UNCHANGED <<logDisk, logIndex, logFails>>
    BY <1>0, <1>3, <1>5 DEF Kept, FlushDue
  <2>1. LogTypes' /\ LogShaped'
    BY <1>0, <1>1, <1>3, <2>0 DEF LogInv, LogTypes, LogShaped
  <2>2. HoursTrue'
    BY <1>0, <1>4, <2>0 DEF HoursTrue
  <2>3. Whole' = logIndex[logHour] \o Lines(n)
        /\ logDisk'[logHour'] + logBuf' = logDisk[logHour] + logBuf + n
    BY <1>0, <1>3, <2>0 DEF Whole
  <2>4. OpenHourTrue'
    BY <1>0, <1>1, <1>3, <2>3 DEF OpenHourTrue
  <2>5. LogFlushed'
    BY <1>0, <1>3, <2>0 DEF LogInv, LogFlushed
  <2> QED BY <2>1, <2>2, <2>4, <2>5 DEF LogInv
<1>6. CASE Flushed(n)
  <2>0. <<>> \in Seq(Entry)
    OBVIOUS
  <2>a. /\ logDisk' = [logDisk EXCEPT ![logHour] = @ + (logBuf + n)]
        /\ logIndex' = [logIndex EXCEPT ![logHour] = @ \o Lines(n)]
        /\ logBuf' = 0 /\ logIdxBuf' = <<>> /\ logPending' = 0
        /\ UNCHANGED logFails
    BY <1>6 DEF Flushed, ToDisk, ToIndex
  <2>1. /\ logDisk' \in [1..LogHours -> Nat] /\ logIndex' \in [1..LogHours -> Seq(Entry)]
        /\ logIndex'[logHour] = logIndex[logHour] \o Lines(n)
        /\ logDisk'[logHour] = logDisk[logHour] + logBuf + n
        /\ \A h \in 1..LogHours : h # logHour => /\ logIndex'[h] = logIndex[h]
                                                 /\ logDisk'[h] = logDisk[h]
    BY <1>1, <1>3, <2>a
  <2>2. LogTypes' /\ LogShaped' /\ LogFlushed'
    BY <1>0, <1>3, <2>a, <2>0, <2>1 DEF LogInv, LogTypes, LogShaped, LogFlushed
  <2>3. HoursTrue'
    BY <1>0, <1>1, <1>4, <2>1 DEF HoursTrue
  <2>4. Whole' = logIndex[logHour] \o Lines(n)
    BY <1>0, <1>1, <2>a, <2>1, Nothing DEF Whole
  <2>5. logDisk'[logHour'] + logBuf' = logDisk[logHour] + logBuf + n
    BY <1>0, <1>3, <2>a, <2>1
  <2>6. OpenHourTrue'
    BY <1>0, <1>1, <2>4, <2>5 DEF OpenHourTrue
  <2> QED BY <2>2, <2>3, <2>6 DEF LogInv
<1>7. ASSUME NEW k \in 0 .. logBuf + n,
             logDisk' = [logDisk EXCEPT ![logHour] = @ + k], logBuf' = logBuf + n - k,
             logFails' = logFails + 1, logPending' = Every, logIdxBuf' = Lines(n),
             UNCHANGED logIndex
      PROVE  LogInv'
  <2>1. /\ logDisk' \in [1..LogHours -> Nat] /\ logDisk'[logHour] = logDisk[logHour] + k
        /\ \A h \in 1..LogHours : h # logHour => logDisk'[h] = logDisk[h]
        /\ logBuf' \in Nat
    BY <1>1, <1>3, <1>7
  <2>2. LogTypes' /\ LogShaped' /\ LogFlushed'
    BY <1>0, <1>1, <1>3, <1>7, <2>1 DEF LogInv, LogTypes, LogShaped, LogFlushed
  <2>3. Under(logIndex[logHour], logDisk[logHour] + k)
    BY <1>1, <1>3, <1>4, Rise
  <2>4. HoursTrue'
    BY <1>0, <1>4, <1>7, <2>1, <2>3 DEF HoursTrue
  <2>5. Whole' = logIndex[logHour] \o Lines(n)
    BY <1>0, <1>7 DEF Whole
  <2>6. logDisk'[logHour'] + logBuf' = logDisk[logHour] + logBuf + n
    BY <1>0, <1>3, <1>7, <2>1
  <2>7. OpenHourTrue'
    BY <1>0, <1>1, <2>5, <2>6 DEF OpenHourTrue
  <2> QED BY <2>2, <2>4, <2>7 DEF LogInv
<1>8. CASE FlushFails(n)
  <2>1. /\ logFails' = logFails + 1 /\ logPending' = Every /\ logIdxBuf' = Lines(n)
        /\ UNCHANGED logIndex
    BY <1>8 DEF FlushFails, Fails
  <2>2. PICK k \in 0 .. logBuf + n :
          logDisk' = [logDisk EXCEPT ![logHour] = @ + k] /\ logBuf' = logBuf + n - k
    BY <1>8 DEF FlushFails, ToDisk
  <2> QED BY <1>7, <2>1, <2>2
<1> QED BY <1>5, <1>6, <1>8 DEF LogAppend

\* More on disk of the open hour, and less in memory, changes nothing for the
\* other hours and as much as it says for this one.
LEMMA MoreOnDisk ==
  ASSUME LogInv, logHour # 0, NEW k \in Nat
  PROVE  /\ logHour \in 1..LogHours
         /\ ToDisk(logHour, k) \in [1..LogHours -> Nat]
         /\ ToDisk(logHour, k)[logHour] = logDisk[logHour] + k
         /\ \A h \in 1..LogHours : h # logHour => ToDisk(logHour, k)[h] = logDisk[h]
         /\ \A h \in 1..LogHours : logDisk[h] \in Nat /\ logIndex[h] \in Seq(Entry)
         /\ \A h \in 1..LogHours :
              h \notin logLoser => Under(logIndex[h], ToDisk(logHour, k)[h])
<1>1. /\ logHour \in 1..LogHours
      /\ logDisk \in [1..LogHours -> Nat] /\ logIndex \in [1..LogHours -> Seq(Entry)]
  BY KindFacts DEF LogInv, LogTypes
<1>2. /\ ToDisk(logHour, k) \in [1..LogHours -> Nat]
      /\ ToDisk(logHour, k)[logHour] = logDisk[logHour] + k
      /\ \A h \in 1..LogHours : h # logHour => ToDisk(logHour, k)[h] = logDisk[h]
  BY <1>1 DEF ToDisk
<1>3. ASSUME NEW h \in 1..LogHours, h \notin logLoser
      PROVE  Under(logIndex[h], ToDisk(logHour, k)[h])
  <2>1. Under(logIndex[h], logDisk[h]) /\ logIndex[h] \in Seq(Entry) /\ logDisk[h] \in Nat
    BY <1>1, <1>3 DEF LogInv, HoursTrue
  <2>2. ToDisk(logHour, k)[h] \in Nat /\ logDisk[h] <= ToDisk(logHour, k)[h]
    BY <1>1, <1>2
  <2> QED BY <2>1, <2>2, Rise
<1> QED BY <1>1, <1>2, <1>3

\* A write that breaks leaves bytes that no line points at.
LEMMA AppendBreaksInv ==
  ASSUME LogInv, NEW n \in Nat, LogAppendBreaks(n)
  PROVE  LogInv'
<1>0. PICK k \in 0..n : logBuf' = logBuf + k
  BY DEF LogAppendBreaks
<1>1. /\ logHour = logClock /\ "file" \in logOpen /\ logFails' = logFails + 1
      /\ UNCHANGED <<logKind, logClock, logHour, logOpen, logIdxBuf, logPending, logDisk, logIndex,
                     logLoser>>
  BY DEF LogAppendBreaks, Fails
<1>2. k \in Nat /\ logBuf \in Nat /\ logFails \in Nat /\ logHour # 0
  BY DEF LogInv, LogTypes, LogShaped, LogAppendBreaks
<1>3. LogTypes' /\ LogShaped' /\ HoursTrue' /\ LogFlushed'
  BY <1>0, <1>1, <1>2 DEF LogInv, LogTypes, LogShaped, HoursTrue, LogFlushed, Every
<1>4. Whole' = Whole /\ Whole \in Seq(Entry) /\ logDisk[logHour] \in Nat
  <2>1. logIdxBuf \in Seq(Entry)
    BY DEF LogInv, LogTypes
  <2>2. logIndex[logHour] \in Seq(Entry) /\ logDisk[logHour] \in Nat
    BY <1>2, MoreOnDisk
  <2> QED BY <1>1, <2>1, <2>2, ConcatProperties DEF Whole
<1>5. ApartIn(Whole) /\ (logHour \notin logLoser => Under(Whole, logDisk[logHour] + logBuf))
  BY <1>2 DEF LogInv, OpenHourTrue
<1>6. logHour \notin logLoser => Under(Whole, logDisk[logHour] + logBuf + k)
  BY <1>2, <1>4, <1>5, Rise
<1>7. logDisk'[logHour'] + logBuf' = logDisk[logHour] + logBuf + k
  BY <1>0, <1>1, <1>2, <1>4
<1>8. OpenHourTrue'
  BY <1>1, <1>4, <1>5, <1>6, <1>7 DEF OpenHourTrue
<1> QED BY <1>3, <1>8 DEF LogInv

\* What a full buffer writes through was the hour's already.
LEMMA ThroughInv ==
  ASSUME LogInv, LogThrough
  PROVE  LogInv'
<1>0. PICK k \in 1..logBuf : logDisk' = ToDisk(logHour, k) /\ logBuf' = logBuf - k
  BY DEF LogThrough
<1>1. /\ logBuf > 0
      /\ UNCHANGED <<logKind, logClock, logHour, logOpen, logIdxBuf, logPending, logIndex, logFails,
                     logLoser>>
  BY DEF LogThrough
<1>2. k \in Nat /\ logBuf \in Nat /\ logHour # 0 /\ logBuf' \in Nat
  BY <1>0, <1>1 DEF LogInv, LogTypes, LogShaped
<1>3. /\ logHour \in 1..LogHours /\ logDisk' \in [1..LogHours -> Nat]
      /\ logDisk[logHour] \in Nat /\ logDisk'[logHour] = logDisk[logHour] + k
      /\ \A h \in 1..LogHours : h \notin logLoser => Under(logIndex[h], logDisk'[h])
  BY <1>0, <1>2, MoreOnDisk
<1>4. LogTypes' /\ LogShaped'
  BY <1>1, <1>2, <1>3 DEF LogInv, LogTypes, LogShaped
<1>5. HoursTrue'
  BY <1>1, <1>3 DEF LogInv, HoursTrue
<1>6. Whole' = Whole /\ logDisk'[logHour'] + logBuf' = logDisk[logHour] + logBuf
  BY <1>0, <1>1, <1>2, <1>3 DEF Whole
<1>7. OpenHourTrue'
  BY <1>1, <1>2, <1>6 DEF LogInv, OpenHourTrue
<1>8. LogFlushed'
  BY <1>1, <1>2 DEF LogInv, LogFlushed, Every
<1> QED BY <1>4, <1>5, <1>7, <1>8 DEF LogInv

\* A new hour opens on a file nothing of which has been lost, and what was in
\* memory has gone to the hour before.
LEMMA RotateInv ==
  ASSUME LogInv, LogRotate
  PROVE  LogInv'
<1>0. /\ logHour # logClock /\ logClock \in 1..LogHours /\ logHour \in 0..LogHours
      /\ logHour < logClock /\ logHour \in Nat /\ logClock \in Nat /\ LogHours \in Nat
      /\ logBuf \in Nat /\ logIdxBuf \in Seq(Entry) /\ logFails \in Nat /\ logPending \in Nat
      /\ logDisk \in [1..LogHours -> Nat] /\ logIndex \in [1..LogHours -> Seq(Entry)]
      /\ Every' = Every /\ Every \in Nat \ {0} /\ <<>> \in Seq(Entry)
      /\ logKind' = logKind /\ logKind \in LogKinds /\ logClock' = logClock
  BY KindFacts DEF LogRotate, LogInv, LogTypes, Every
<1>1. \A h \in logLoser : h \in Nat /\ h < logClock
  BY DEF LogInv, LogShaped
<1>2. /\ \A h \in 1..LogHours : ApartIn(logIndex[h])
      /\ \A h \in 1..LogHours : h \notin logLoser => Under(logIndex[h], logDisk[h])
  BY DEF LogInv, HoursTrue
<1>3. CASE /\ logBuf' = 0 /\ logIdxBuf' = <<>> /\ logPending' = 0
           /\ logDisk' = IF logHour = 0 THEN logDisk ELSE ToDisk(logHour, logBuf)
           /\ logIndex' = IF logHour = 0 THEN logIndex ELSE ToIndex(logHour, logIdxBuf)
           /\ logLoser' = logLoser /\ logFails' \in Nat
           /\ \/ logHour' = logClock
              \/ logHour' = 0 /\ logOpen' = {}
  <2>1. /\ logDisk' \in [1..LogHours -> Nat] /\ logIndex' \in [1..LogHours -> Seq(Entry)]
        /\ logIndex'[logClock] = logIndex[logClock] /\ logDisk'[logClock] = logDisk[logClock]
    <3>1. CASE logHour = 0
      BY <1>0, <1>3, <3>1
    <3>2. CASE logHour # 0
      <4>1. logHour \in 1..LogHours
        BY <1>0, <3>2
      <4>2. logIndex[logHour] \o logIdxBuf \in Seq(Entry)
        BY <1>0, <4>1, ConcatProperties
      <4> QED BY <1>0, <1>3, <3>2, <4>1, <4>2 DEF ToDisk, ToIndex
    <3> QED BY <3>1, <3>2
  <2>2. LogTypes'
    <3>1. logHour' \in 0..LogHours /\ logHour' <= logClock
      BY <1>0, <1>3
    <3>2. logBuf' \in Nat /\ logPending' \in Nat /\ logIdxBuf' \in Seq(Entry) /\ logFails' \in Nat
      BY <1>0, <1>3
    <3> QED BY <1>0, <2>1, <3>1, <3>2 DEF LogTypes
  <2>3. LogShaped'
    <3>1. \A h \in logLoser' : h \in Nat /\ h < logClock'
      BY <1>0, <1>1, <1>3
    <3>2. logClock \notin logLoser /\ logClock # 0
      BY <1>0, <1>1
    <3>3. "file" \in logOpen' => logHour' # 0 /\ logHour' \notin logLoser'
      BY <1>3, <3>2
    <3> QED BY <1>3, <3>1, <3>3 DEF LogShaped
  <2>4. LogFlushed'
    BY <1>0, <1>3 DEF LogFlushed
  <2>5. HoursTrue'
    <3>1. CASE logHour = 0
      BY <1>2, <1>3, <3>1 DEF HoursTrue
    <3>2. CASE logHour # 0
      <4>1. logHour \in 1..LogHours
        BY <1>0, <3>2
      <4>2. /\ logIndex'[logHour] = Whole /\ logDisk'[logHour] = logDisk[logHour] + logBuf
            /\ \A h \in 1..LogHours : h # logHour => /\ logIndex'[h] = logIndex[h]
                                                     /\ logDisk'[h] = logDisk[h]
        BY <1>0, <1>3, <3>2, <4>1 DEF Whole, ToDisk, ToIndex
      <4>3. ApartIn(Whole) /\ (logHour \notin logLoser
                               => Under(Whole, logDisk[logHour] + logBuf))
        BY <3>2 DEF LogInv, OpenHourTrue
      <4> QED BY <1>2, <1>3, <4>2, <4>3 DEF HoursTrue
    <3> QED BY <3>1, <3>2
  <2>6. OpenHourTrue'
    <3> SUFFICES ASSUME logHour' = logClock PROVE OpenHourTrue'
      BY <1>3 DEF OpenHourTrue
    <3>1. logIndex[logClock] \in Seq(Entry)
      BY <1>0
    <3>2. Whole' = logIndex[logClock]
      BY <1>3, <2>1, <3>1, Nothing DEF Whole
    <3>3. logDisk'[logHour'] + logBuf' = logDisk[logClock]
      <4>1. logDisk[logClock] \in Nat /\ logDisk'[logHour'] = logDisk[logClock]
        BY <1>0, <2>1
      <4>2. logBuf' = 0
        BY <1>3
      <4> QED BY <4>1, <4>2
    <3>4. ApartIn(logIndex[logClock]) /\ Under(logIndex[logClock], logDisk[logClock])
      <4>1. logClock \notin logLoser
        BY <1>0, <1>1
      <4> QED BY <1>0, <1>2, <4>1
    <3> QED BY <3>2, <3>3, <3>4 DEF OpenHourTrue
  <2> QED BY <2>2, <2>3, <2>4, <2>5, <2>6 DEF LogInv
<1>4. CASE /\ Fails /\ logBuf > 0
           /\ logOpen' = logOpen \ {"file"} /\ logBuf' = 0 /\ logLoser' = logLoser \cup {logHour}
           /\ UNCHANGED <<logHour, logDisk, logIndex, logIdxBuf, logPending>>
  <2>1. logFails' = logFails + 1 /\ logHour # 0
    BY <1>0, <1>4 DEF Fails, LogInv, LogShaped
  <2>2. LogTypes' /\ LogShaped' /\ LogFlushed'
    BY <1>0, <1>1, <1>4, <2>1 DEF LogTypes, LogShaped, LogFlushed
  <2>3. HoursTrue'
    BY <1>2, <1>4 DEF HoursTrue
  <2>4. ApartIn(Whole) /\ Whole' = Whole
    BY <1>4, <2>1 DEF LogInv, OpenHourTrue, Whole
  <2>5. OpenHourTrue'
    BY <1>4, <2>4 DEF OpenHourTrue
  <2> QED BY <2>2, <2>3, <2>5 DEF LogInv
<1>5. CASE /\ Fails /\ logIdxBuf # <<>>
           /\ logOpen' = {} /\ logIdxBuf' = <<>>
           /\ logDisk' = ToDisk(logHour, logBuf) /\ logBuf' = 0
           /\ UNCHANGED <<logHour, logIndex, logPending, logLoser>>
  <2>1. logFails' = logFails + 1 /\ logHour # 0
    BY <1>5 DEF Fails, LogInv, LogShaped
  <2>2. /\ logHour \in 1..LogHours /\ logDisk' \in [1..LogHours -> Nat]
        /\ logIndex[logHour] \in Seq(Entry)
        /\ \A h \in 1..LogHours : h \notin logLoser => Under(logIndex[h], logDisk'[h])
    BY <1>0, <1>5, <2>1, MoreOnDisk
  <2>3. LogTypes' /\ LogShaped' /\ LogFlushed'
    BY <1>0, <1>1, <1>5, <2>1, <2>2 DEF LogTypes, LogShaped, LogFlushed
  <2>4. HoursTrue'
    BY <1>2, <1>5, <2>2 DEF HoursTrue
  <2>5. Whole' = logIndex[logHour] /\ logDisk'[logHour'] + logBuf' = logDisk'[logHour]
    BY <1>5, <2>2, Nothing DEF Whole
  <2>6. OpenHourTrue'
    BY <1>2, <1>5, <2>2, <2>5 DEF OpenHourTrue
  <2> QED BY <2>3, <2>4, <2>6 DEF LogInv
<1> QED
  <2>1. Fails => logFails' \in Nat
    BY <1>0 DEF Fails
  <2>2. logFails' = logFails => logFails' \in Nat
    BY <1>0
  <2> QED BY <1>3, <1>4, <1>5, <2>1, <2>2, Zenon DEF LogRotate

\* A crash leaves of what was in memory nothing, or what the first flush wrote.
LEMMA CrashInv ==
  ASSUME LogInv, LogCrash
  PROVE  LogInv'
<1>0. /\ logBuf \in Nat /\ logFails \in Nat /\ <<>> \in Seq(Entry) /\ LogHours \in Nat
      /\ logClock \in 1..LogHours /\ Every' = Every /\ Every \in Nat \ {0}
      /\ logHour' = 0 /\ logOpen' = {} /\ logBuf' = 0 /\ logIdxBuf' = <<>> /\ logPending' = 0
      /\ UNCHANGED <<logKind, logClock, logIndex, logFails, logLoser>>
  BY KindFacts DEF LogCrash, LogInv, LogTypes, Every
<1>1. /\ logDisk' \in [1..LogHours -> Nat]
      /\ \A h \in 1..LogHours : h \notin logLoser => Under(logIndex[h], logDisk'[h])
  <2>1. CASE logDisk' = logDisk
    BY <2>1 DEF LogInv, LogTypes, HoursTrue
  <2>2. CASE "file" \in logOpen /\ logDisk' = ToDisk(logHour, logBuf + 1)
    <3>1. logHour # 0
      BY <2>2 DEF LogInv, LogShaped
    <3>2. logBuf + 1 \in Nat
      BY <1>0
    <3> QED BY <2>2, <3>1, <3>2, MoreOnDisk
  <2> QED BY <2>1, <2>2 DEF LogCrash
<1>2. LogTypes' /\ LogShaped' /\ LogFlushed' /\ OpenHourTrue'
  BY <1>0, <1>1 DEF LogInv, LogTypes, LogShaped, LogFlushed, OpenHourTrue
<1>3. HoursTrue'
  BY <1>0, <1>1 DEF LogInv, HoursTrue
<1> QED BY <1>2, <1>3 DEF LogInv

\* Every step preserves it.
LEMMA LogStepInv == LogInv /\ [LogNext]_logVars => LogInv'
<1> SUFFICES ASSUME LogInv, [LogNext]_logVars PROVE LogInv'
  OBVIOUS
<1>0. LogSizes \subseteq Nat
  BY LogAssumption
<1>1. ASSUME NEW n \in LogSizes, LogAppend(n) PROVE LogInv'
  BY <1>0, <1>1, AppendInv
<1>2. ASSUME NEW n \in LogSizes, LogAppendBreaks(n) PROVE LogInv'
  BY <1>0, <1>2, AppendBreaksInv
<1>3. CASE LogTick
  <2>1. /\ logClock \in 1..LogHours /\ LogHours \in Nat /\ logHour <= logClock /\ logHour \in Nat
        /\ logClock < LogHours /\ logClock' = logClock + 1
        /\ UNCHANGED <<logKind, logHour, logOpen, logBuf, logIdxBuf, logPending, logDisk, logIndex,
                       logFails, logLoser>>
    BY <1>3, KindFacts DEF LogTick, LogInv, LogTypes
  <2>2. \A h \in logLoser : h \in Nat /\ h < logClock
    BY DEF LogInv, LogShaped
  <2>3. logClock \in Nat
    BY <2>1
  <2>4. LogTypes'
    BY <2>1 DEF LogInv, LogTypes
  <2>5. LogShaped'
    BY <2>1, <2>2, <2>3 DEF LogInv, LogShaped
  <2>6. HoursTrue' /\ OpenHourTrue' /\ LogFlushed'
    BY <2>1 DEF LogInv, HoursTrue, OpenHourTrue, Whole, LogFlushed, Every
  <2> QED BY <2>4, <2>5, <2>6 DEF LogInv
<1>4. CASE UNCHANGED logVars
  BY <1>4 DEF logVars, LogInv, LogTypes, LogShaped, HoursTrue, OpenHourTrue, Whole, LogFlushed, Every
<1> QED
  BY <1>1, <1>2, <1>3, <1>4, ThroughInv, RotateInv, CrashInv DEF LogNext

\* What the types say beyond the invariant: the open files, the records that wait
\* for a flush and the hours that lost bytes.
LogRanges ==
  /\ logOpen \in SUBSET {"file", "idx"} /\ logPending \in 0 .. Every
  /\ logCrashes \in Nat /\ logLoser \in SUBSET (1..LogHours)

\* Nothing is open when the monitor starts.
LEMMA LogInitRanges == LogInit => LogRanges
<1> SUFFICES ASSUME LogInit PROVE LogRanges
  OBVIOUS
<1>1. Every \in Nat
  BY LogAssumption DEF LogInit, Every
<1> QED BY <1>1 DEF LogInit, LogRanges

\* Only a file of an hour can lose bytes, and records wait for no more than a flush.
LEMMA LogStepRanges == LogInv /\ LogRanges /\ [LogNext]_logVars => LogRanges'
<1> SUFFICES ASSUME LogInv, LogRanges, [LogNext]_logVars PROVE LogRanges'
  OBVIOUS
<1>0. /\ Every \in Nat /\ logHour \in 0 .. LogHours /\ LogHours \in Nat
      /\ logHour = 0 => logBuf = 0
      /\ logOpen \in SUBSET {"file", "idx"} /\ logPending \in 0 .. Every
      /\ logCrashes \in Nat /\ logLoser \in SUBSET (1..LogHours)
  BY LogAssumption DEF LogInv, LogTypes, LogShaped, LogRanges, Every
<1>1. ASSUME NEW n \in LogSizes, LogAppend(n)
      PROVE  LogRanges'
  <2>1. logOpen' = logOpen /\ logCrashes' = logCrashes /\ logLoser' = logLoser /\ Every' = Every
    BY <1>1 DEF LogAppend, Appends, Every
  <2>2. logPending' \in 0 .. Every
    BY <1>0, <1>1 DEF LogAppend, Kept, Flushed, FlushFails, FlushDue
  <2> QED BY <1>0, <2>1, <2>2 DEF LogRanges
<1>2. ASSUME NEW n \in LogSizes, LogAppendBreaks(n)
      PROVE  LogRanges'
  BY <1>0, <1>2 DEF LogAppendBreaks, LogRanges, Every
<1>3. CASE LogThrough
  BY <1>0, <1>3 DEF LogThrough, LogRanges, Every
<1>4. CASE LogRotate
  <2>1. logCrashes' = logCrashes /\ Every' = Every
    BY <1>4 DEF LogRotate, Every
  <2>2. logOpen' \in SUBSET {"file", "idx"} /\ logPending' \in 0 .. Every
    <3>1. /\ logOpen' \in {{"file", "idx"}, {"file"}, {}, logOpen, logOpen \ {"file"}}
          /\ logPending' = 0 \/ logPending' = logPending
      BY <1>4, Zenon DEF LogRotate
    <3>2. logOpen' \in SUBSET {"file", "idx"}
      BY <1>0, <3>1
    <3>3. logPending' \in 0 .. Every
      BY <1>0, <3>1
    <3> QED BY <3>2, <3>3
  <2>3. logLoser' = logLoser \/ (logBuf > 0 /\ logLoser' = logLoser \cup {logHour})
    BY <1>4 DEF LogRotate
  <2>4. logLoser' \in SUBSET (1..LogHours)
    <3>1. CASE logLoser' = logLoser
      BY <1>0, <3>1
    <3>2. CASE logBuf > 0 /\ logLoser' = logLoser \cup {logHour}
      <4>1. logHour \in 1..LogHours
        BY <1>0, <3>2
      <4> QED BY <1>0, <3>2, <4>1
    <3> QED BY <2>3, <3>1, <3>2
  <2> QED BY <1>0, <2>1, <2>2, <2>4 DEF LogRanges
<1>5. CASE LogTick
  BY <1>0, <1>5 DEF LogTick, LogRanges, Every
<1>6. CASE LogCrash
  BY <1>0, <1>6 DEF LogCrash, LogRanges, Every
<1>7. CASE UNCHANGED logVars
  BY <1>0, <1>7 DEF logVars, LogRanges, Every
<1> QED BY <1>1, <1>2, <1>3, <1>4, <1>5, <1>6, <1>7 DEF LogNext

\* Together they are the types.
LEMMA LogTyped == LogInv /\ LogRanges => LogTypeOK
  BY DEF LogInv, LogTypes, LogRanges, LogTypeOK, Every

\* It has what the index promises.
LEMMA LogInvTrue == LogInv => IndexTrue
<1> SUFFICES ASSUME LogInv PROVE IndexTrue
  OBVIOUS
<1>1. \A h \in 1..LogHours : \A i \in DOMAIN logIndex[h] :
        /\ h \notin logLoser => logIndex[h][i].off + logIndex[h][i].len <= logDisk[h]
        /\ \A j \in 1 .. i - 1 : logIndex[h][j].off + logIndex[h][j].len <= logIndex[h][i].off
  BY DEF LogInv, HoursTrue, ApartIn, Under
<1> QED BY <1>1 DEF LogInv, LogFlushed, IndexTrue

-----------------------------------------------------------------------------
(* Retention. *)

\* Types, a clock that was never later than its latest, and what is promised.
RetInv == RetTypeOK /\ retToday <= retLatest /\ RetentionKept

\* Where the loop has stopped, it has stopped for a reason: what is left before
\* today is young enough, and the disk is not too full.
LEMMA WhatIsLeft ==
  ASSUME NEW S \in SUBSET Days, DeletesAll(S), retToday \in Nat,
         NEW e \in Dirs(retDirs) \ S, e < retToday
  PROVE  ~TooOld(e) /\ ~OverFull(Without(retDirs, S))
<1>0. RetKeep \in Nat /\ Days \subseteq Nat /\ Dirs(retDirs) \subseteq Days
  BY RetAssumption DEF Days, Dirs
<1> DEFINE Left == Dirs(retDirs) \ S
<1>1. PICK m \in Left : \A k \in Left : m <= k
  BY <1>0, LeastOf
<1>2. m \in Days /\ m \in Nat /\ e \in Nat /\ m <= e /\ m < retToday
  <2>1. e \in Left /\ e \in Nat /\ m \in Days /\ m \in Nat
    BY <1>0
  <2>2. m <= e
    BY <1>1, <2>1
  <2> QED BY <2>1, <2>2
<1>3. \A d \in S : d \in Nat /\ d < m
  <2>1. \A d \in S : {x \in Dirs(retDirs) : x < d} \subseteq S
    BY DEF DeletesAll, Deletes
  <2> QED BY <2>1, <1>0, <1>1, <1>2
<1>4. ASSUME TooOld(m) \/ OverFull(Without(retDirs, S)) PROVE FALSE
  <2> DEFINE T == S \cup {m}
  <2>1. \A d \in S : {x \in T : x < d} = {x \in S : x < d}
    <3> SUFFICES ASSUME NEW d \in S, NEW x \in T, x < d PROVE x \in S
      OBVIOUS
    <3> QED BY <1>2, <1>3
  <2>2. {x \in T : x < m} = S
    <3>1. ~(m < m) /\ \A x \in T : x < m <=> x \in S
      BY <1>2, <1>3
    <3> QED BY <3>1, Zenon
  <2>3. {x \in Dirs(retDirs) : x < m} \subseteq T
    <3> SUFFICES ASSUME NEW x \in Dirs(retDirs), x < m, x \notin S PROVE FALSE
      OBVIOUS
    <3>1. x \in Left /\ x \in Nat
      BY <1>0
    <3> QED BY <1>1, <1>2, <3>1
  <2>4. Deletes(T)
    <3> SUFFICES ASSUME NEW d \in T
                 PROVE  /\ d \in Dirs(retDirs) /\ d < retToday
                        /\ {x \in Dirs(retDirs) : x < d} \subseteq T
                        /\ \/ TooOld(d)
                           \/ OverFull(Without(retDirs, {x \in T : x < d}))
      BY Zenon DEF Deletes
    <3>1. CASE d \in S
      BY <2>1, <3>1 DEF DeletesAll, Deletes
    <3>2. CASE d = m
      BY <1>1, <1>2, <1>4, <2>2, <2>3, <3>2
    <3> QED BY <3>1, <3>2
  <2>5. T \in SUBSET Days
    BY <1>2
  <2> QED BY <1>1, <2>4, <2>5 DEF DeletesAll
<1>5. ~TooOld(e)
  BY <1>0, <1>2, <1>4 DEF TooOld
<1> QED BY <1>4, <1>5

\* A round keeps what it promises of the logs.
LEMMA RoundKeepsDirs ==
  ASSUME RetInv, RetRound
  PROVE  DirsKept'
<1>0. /\ RetKeep \in Nat /\ Days \subseteq Nat
      /\ Dirs(retDirs) \subseteq Days /\ retToday \in Nat
  BY RetAssumption DEF Days, Dirs, RetInv, RetTypeOK
<1>1. PICK S \in SUBSET Days : DeletesAll(S) /\ retDirs' = Without(retDirs, S)
  BY DEF RetRound, Deleted
<1>2. UNCHANGED <<retToday, retOthers>> /\ retBefore' = retDirs
  BY DEF RetRound
<1>3. /\ S \subseteq Dirs(retDirs)
      /\ \A d \in S : d < retToday /\ {e \in Dirs(retDirs) : e < d} \subseteq S
      /\ \A d \in S : TooOld(d) \/ OverFull(Without(retDirs, {e \in S : e < d}))
  BY <1>1 DEF DeletesAll, Deletes
<1>4. Dirs(retDirs') = Dirs(retDirs) \ S /\ Dirs(retBefore') = Dirs(retDirs)
  BY <1>1, <1>2 DEF Dirs, Without
<1>5. Dirs(retBefore') \ Dirs(retDirs') = S
  BY <1>3, <1>4
<1>6. \A d \in S : d < retToday' /\ \A e \in Dirs(retDirs') : d < e
  BY <1>0, <1>2, <1>3, <1>4
<1>7. \A e \in Dirs(retDirs') : e < retToday' => ~TooOld(e)' /\ ~OverFull(retDirs)'
  <2> SUFFICES ASSUME NEW e \in Dirs(retDirs) \ S, e < retToday
               PROVE  ~TooOld(e)' /\ ~OverFull(retDirs)'
    BY <1>2, <1>4
  <2>1. ~TooOld(e) /\ ~OverFull(Without(retDirs, S))
    BY <1>0, <1>1, WhatIsLeft
  <2> QED BY <1>1, <1>2, <2>1 DEF TooOld, OverFull
<1>8. ASSUME NEW d \in S, \A e \in S : e <= d
      PROVE  TooOld(d)' \/ OverFull([retDirs EXCEPT ![d] = retBefore[d]])'
  <2>1. Without(retDirs, {e \in S : e < d}) = [retDirs' EXCEPT ![d] = retBefore'[d]]
    <3>1. d \in Days /\ \A e \in Days : e \in S => e < d \/ e = d
      BY <1>0, <1>3, <1>8
    <3>2. {e \in S : e < d} = S \ {d}
      <4>1. \A e \in S : e < d <=> e \notin {d}
        BY <1>0, <1>3, <3>1
      <4> QED BY <4>1, Zenon
    <3>3. Without(retDirs, S \ {d}) = [Without(retDirs, S) EXCEPT ![d] = retDirs[d]]
      BY <3>1 DEF Without
    <3> QED BY <1>1, <1>2, <3>2, <3>3
  <2>2. TooOld(d) \/ OverFull(Without(retDirs, {e \in S : e < d}))
    BY <1>3
  <2> QED BY <1>2, <2>1, <2>2 DEF TooOld, OverFull
<1> QED BY <1>5, <1>6, <1>7, <1>8 DEF DirsKept

\* Rows are pruned by the clock, which is not ahead of its latest: none that is open
\* or young goes, and no new one comes.
LEMMA PrunedKeeps ==
  ASSUME RetInv, NEW tables, Pruned(tables),
         UNCHANGED <<retToday, retLatest, retAll>>
  PROVE  /\ NoRowLost' /\ retRows' \subseteq retRows
         /\ \A r \in retRows' : r.table \in tables /\ ~r.open =>
              retToday - r.day <= RetDbKeep
<1>0. /\ RetDbKeep \in Nat /\ retToday \in Nat /\ retLatest \in Nat
      /\ retToday <= retLatest /\ retAll \subseteq DbRows /\ retRows \subseteq DbRows
      /\ \A r \in DbRows : r.day \in Nat
  BY RetAssumption DEF RetInv, RetTypeOK, DbRows, Days
<1>1. retRows' = {r \in retRows : r.table \in tables /\ Past(r) => r.open}
  BY DEF Pruned
<1>2. NoRowLost'
  <2> SUFFICES ASSUME NEW r \in retAll, r.open \/ retLatest - r.day <= RetDbKeep
               PROVE  r \in retRows'
    BY DEF NoRowLost
  <2>1. r \in retRows
    BY DEF RetInv, RetentionKept, NoRowLost
  <2>2. Past(r) => r.open
    BY <1>0 DEF Past
  <2> QED BY <1>1, <2>1, <2>2
<1>3. \A r \in retRows' : r.table \in tables /\ ~r.open => retToday - r.day <= RetDbKeep
  <2> SUFFICES ASSUME NEW r \in retRows, r.table \in tables /\ Past(r) => r.open,
                      r.table \in tables, ~r.open
               PROVE  retToday - r.day <= RetDbKeep
    BY <1>1
  <2> QED BY <1>0 DEF Past
<1> QED BY <1>1, <1>2, <1>3

\* A round that does not raise.
LEMMA RoundInv ==
  ASSUME RetInv, RetRound
  PROVE  RetInv'
<1>1. /\ Pruned(DbTables) /\ UNCHANGED <<retToday, retLatest, retAll, retOthers>>
      /\ UNCHANGED <<retFails, retEvents>> /\ retBefore' = retDirs /\ retDone' = TRUE
      /\ retSwept' = retToday /\ retFresh' = {}
  BY DEF RetRound
<1>2. /\ NoRowLost' /\ retRows' \subseteq retRows
      /\ \A r \in retRows' : r.table \in DbTables /\ ~r.open =>
           retToday - r.day <= RetDbKeep
  BY <1>1, PrunedKeeps
<1>3. OldRowsGone'
  <2> SUFFICES ASSUME NEW r \in retRows', ~r.open, retToday - r.day > RetDbKeep
               PROVE  FALSE
    BY <1>1 DEF OldRowsGone
  <2>1. r \in DbRows /\ r.table \in DbTables /\ r.day \in Nat /\ retToday \in Nat
    BY <1>2 DEF RetInv, RetTypeOK, DbRows, Days
  <2> QED BY <1>2, <2>1, RetAssumption
<1>4. RetTypeOK'
  <2>1. retDirs' \in [Days -> Nat]
    BY DEF RetRound, Deleted, Without, RetInv, RetTypeOK
  <2>2. retToday \in Nat
    BY DEF RetInv, RetTypeOK, Days
  <2> QED BY <1>1, <1>2, <2>1, <2>2 DEF RetInv, RetTypeOK
<1>5. (retToday <= retLatest)'
  BY <1>1 DEF RetInv
<1> QED BY <1>2, <1>3, <1>4, <1>5, RoundKeepsDirs DEF RetInv, RetentionKept

\* A round in which something raises.
LEMMA RoundFailsInv ==
  ASSUME RetInv, RetRoundFails
  PROVE  RetInv'
<1>1. PICK tables \in {{}, {"epochs"}, DbTables} : Pruned(tables)
  BY DEF RetRoundFails
<1>2. /\ UNCHANGED <<retToday, retLatest, retAll, retOthers, retEvents, retSwept, retFresh>>
      /\ retFails' = retFails + 1 /\ retBefore' = retDirs' /\ retDone' = FALSE
  BY DEF RetRoundFails, rowHistory
<1>3. NoRowLost' /\ retRows' \subseteq retRows
  BY <1>1, <1>2, PrunedKeeps
<1>4. OldRowsGone'
  BY <1>2, <1>3 DEF RetInv, RetentionKept, OldRowsGone
<1>5. RetTypeOK'
  <2>1. retDirs' \in [Days -> Nat]
    BY DEF RetRoundFails, Deleted, Without, RetInv, RetTypeOK
  <2>2. retFails' \in Nat
    BY <1>2 DEF RetInv, RetTypeOK
  <2> QED BY <1>2, <1>3, <2>1, <2>2 DEF RetInv, RetTypeOK
<1>6. (retToday <= retLatest)'
  BY <1>2 DEF RetInv
<1>7. DirsKept'
  BY <1>2 DEF DirsKept
<1> QED BY <1>3, <1>4, <1>5, <1>6, <1>7 DEF RetInv, RetentionKept

\* A row is written: it is fresh.
LEMMA WrittenKeeps ==
  ASSUME RetInv, NEW row \in DbRows, Written(row),
         UNCHANGED <<retToday, retLatest, retSwept>>
  PROVE  /\ NoRowLost' /\ OldRowsGone'
         /\ retRows' \subseteq DbRows /\ retAll' \subseteq DbRows
         /\ retFresh' \subseteq DbRows
  BY DEF RetInv, RetentionKept, NoRowLost, OldRowsGone, RetTypeOK, Written

\* Logs, epochs and events are written.
LEMMA WritesInv ==
  ASSUME RetInv, RetWrites \/ RetRecords
  PROVE  RetInv'
<1>0. /\ retToday \in Days /\ retDirs \in [Days -> Nat] /\ retEvents \in Nat
      /\ RetSizes \subseteq Nat
  BY RetAssumption DEF RetInv, RetTypeOK
<1>1. /\ UNCHANGED <<retToday, retOthers, retFails, retLatest, retSwept>>
      /\ retBefore' = retDirs' /\ retDone' = FALSE
  BY DEF RetWrites, RetRecords
<1>2. \E row \in DbRows : Written(row)
  <2>1. \A table \in DbTables, open \in BOOLEAN :
          [table |-> table, day |-> retToday, open |-> open] \in DbRows
    BY <1>0 DEF DbRows
  <2>2. CASE RetWrites
    BY <2>1, <2>2 DEF RetWrites, DbTables
  <2>3. CASE RetRecords
    BY <2>1, <2>3 DEF RetRecords, DbTables
  <2> QED BY <2>2, <2>3
<1>3. /\ NoRowLost' /\ OldRowsGone'
      /\ retRows' \subseteq DbRows /\ retAll' \subseteq DbRows
      /\ retFresh' \subseteq DbRows
  BY <1>1, <1>2, WrittenKeeps
<1>4. retDirs' \in [Days -> Nat] /\ retEvents' \in Nat
  <2>1. CASE RetWrites
    BY <1>0, <2>1 DEF RetWrites
  <2>2. CASE RetRecords
    BY <1>0, <2>2 DEF RetRecords
  <2> QED BY <2>1, <2>2
<1>5. RetTypeOK'
  BY <1>1, <1>3, <1>4 DEF RetInv, RetTypeOK
<1>6. (retToday <= retLatest)' /\ DirsKept'
  BY <1>1 DEF RetInv, DirsKept
<1> QED BY <1>3, <1>5, <1>6 DEF RetInv, RetentionKept

\* An open event is closed: its row is another one from now on, and fresh.
LEMMA ClosesInv ==
  ASSUME RetInv, RetCloses
  PROVE  RetInv'
<1>1. PICK r \in retRows :
        /\ retRows' = (retRows \ {r}) \cup {[r EXCEPT !.open = FALSE]}
        /\ retAll' = (retAll \ {r}) \cup {[r EXCEPT !.open = FALSE]}
        /\ retFresh' = (retFresh \ {r}) \cup {[r EXCEPT !.open = FALSE]}
        /\ r.open
  BY DEF RetCloses
<1>2. /\ UNCHANGED <<retToday, retDirs, retOthers, retFails, retEvents, retLatest, retSwept>>
      /\ retBefore' = retDirs /\ retDone' = FALSE
  BY DEF RetCloses
<1>3. [r EXCEPT !.open = FALSE] \in DbRows
  BY DEF RetInv, RetTypeOK, DbRows
<1> DEFINE closed == [r EXCEPT !.open = FALSE]
<1>4. NoRowLost'
  <2> SUFFICES ASSUME NEW x \in (retAll \ {r}) \cup {closed},
                      x.open \/ retLatest - x.day <= RetDbKeep
               PROVE  x \in (retRows \ {r}) \cup {closed}
    BY <1>1, <1>2 DEF NoRowLost
  <2> QED BY DEF RetInv, RetentionKept, NoRowLost
<1>5. OldRowsGone'
  <2> SUFFICES ASSUME NEW x \in (retRows \ {r}) \cup {closed},
                      ~x.open /\ retSwept - x.day > RetDbKeep
               PROVE  x \in (retFresh \ {r}) \cup {closed}
    BY <1>1, <1>2 DEF OldRowsGone
  <2> QED BY DEF RetInv, RetentionKept, OldRowsGone
<1>6. RetTypeOK'
  BY <1>1, <1>2, <1>3 DEF RetInv, RetTypeOK
<1>7. (retToday <= retLatest)' /\ DirsKept'
  BY <1>2 DEF RetInv, DirsKept
<1> QED BY <1>4, <1>5, <1>6, <1>7 DEF RetInv, RetentionKept

\* The clock moves, in either direction: its latest is not less than before.
LEMMA WorldTurnsInv ==
  ASSUME RetInv, RetWorldTurns
  PROVE  RetInv'
<1>0. /\ RetDays \in Nat /\ retToday \in 1..RetDays /\ retLatest \in 1..RetDays
      /\ RetDbKeep \in Nat /\ retAll \subseteq DbRows /\ \A r \in DbRows : r.day \in Nat
      /\ retToday <= retLatest
  BY RetAssumption DEF RetInv, RetTypeOK, Days, DbRows
<1>1. /\ retLatest' = (IF retToday' > retLatest THEN retToday' ELSE retLatest)
      /\ UNCHANGED <<retDirs, retRows, retFails, retEvents, retAll, retSwept, retFresh>>
      /\ retBefore' = retDirs /\ retDone' = FALSE
  BY DEF RetWorldTurns, rowHistory
<1>2. retToday' \in 1..RetDays /\ retOthers' \in RetOthers
  BY <1>0 DEF RetWorldTurns, RetInv, RetTypeOK
<1>3. /\ retLatest' \in 1..RetDays /\ retLatest <= retLatest'
      /\ retToday' <= retLatest'
  BY <1>0, <1>1, <1>2
<1>4. NoRowLost'
  <2> SUFFICES ASSUME NEW r \in retAll, r.open \/ retLatest' - r.day <= RetDbKeep
               PROVE  r \in retRows
    BY <1>1 DEF NoRowLost
  <2>1. r.day \in Nat /\ (r.open \/ retLatest - r.day <= RetDbKeep)
    BY <1>0, <1>3
  <2> QED BY <2>1 DEF RetInv, RetentionKept, NoRowLost
<1>5. OldRowsGone'
  BY <1>1 DEF RetInv, RetentionKept, OldRowsGone
<1>6. RetTypeOK'
  BY <1>1, <1>2, <1>3 DEF RetInv, RetTypeOK, Days
<1>7. DirsKept'
  BY <1>1 DEF DirsKept
<1> QED BY <1>3, <1>4, <1>5, <1>6, <1>7 DEF RetInv, RetentionKept

\* Every step preserves it.
LEMMA RetStepInv == RetInv /\ [RetNext]_retVars => RetInv'
<1> SUFFICES ASSUME RetInv, [RetNext]_retVars PROVE RetInv'
  OBVIOUS
<1>1. CASE UNCHANGED retVars
  BY <1>1 DEF retVars, rowHistory, RetInv, RetTypeOK, RetentionKept, DirsKept, NoRowLost,
              OldRowsGone, TooOld, OverFull
<1> QED BY <1>1, RoundInv, RoundFailsInv, WritesInv, ClosesInv, WorldTurnsInv DEF RetNext

\* Before the first round there is nothing to keep.
LEMMA RetInitInv == RetInit => RetInv
<1> SUFFICES ASSUME RetInit PROVE RetInv
  OBVIOUS
<1>1. retToday \in Days /\ retLatest \in Days /\ retToday <= retLatest
  BY RetAssumption DEF RetInit, Days
<1>2. retDirs \in [Days -> Nat] /\ retBefore = retDirs
  BY DEF RetInit
<1>3. RetTypeOK
  BY <1>1, <1>2 DEF RetInit, RetTypeOK
<1>4. RetentionKept
  BY DEF RetInit, RetentionKept, DirsKept, NoRowLost, OldRowsGone
<1> QED BY <1>1, <1>3, <1>4 DEF RetInv

-----------------------------------------------------------------------------
(* The base station.                                                       *)

\* Where the samples are, and those before the i-th in the order the median is
\* taken in.
Places(s) == [i \in DOMAIN s |-> s[i].at]
Before(s, i) == Ahead(Places(s), i)

\* What it is to be before.
LEMMA BeforeIs ==
  ASSUME NEW s, NEW i \in DOMAIN s, NEW j \in DOMAIN s
  PROVE  j \in Before(s, i) <=> s[j].at < s[i].at \/ (s[j].at = s[i].at /\ j < i)
<1>1. DOMAIN Places(s) = DOMAIN s /\ Places(s)[i] = s[i].at /\ Places(s)[j] = s[j].at
  BY DEF Places
<1> DEFINE v == Places(s)
<1>2. j \in DOMAIN v
  BY <1>1
<1>3. j \in Ahead(v, i) <=> v[j] < v[i] \/ (v[j] = v[i] /\ j < i)
  BY <1>2, AheadIs, Zenon
<1> QED BY <1>1, <1>3, Zenon DEF Before

\* Positions are numbers.
LEMMA PlacesAreNumbers == \A p \in BasePlaces : p \in Nat
  BY BaseAssumption

\* So are those of the samples.
LEMMA SamplesAreNumbers ==
  ASSUME NEW s \in Seq(Fix)
  PROVE  \A i \in DOMAIN s : s[i].at \in Nat
<1>1. \A i \in DOMAIN s : s[i] \in Fix
  OBVIOUS
<1>2. \A x \in Fix : x.at \in BasePlaces
  BY DEF Fix
<1> QED BY <1>1, <1>2, PlacesAreNumbers

\* Their places are a sequence of numbers, so every rank is that of a sample.
LEMMA PlacesAre ==
  ASSUME NEW s \in Seq(Fix)
  PROVE  /\ Len(s) \in Nat /\ DOMAIN s = 1 .. Len(s)
         /\ IsFiniteSet(1 .. Len(s)) /\ Cardinality(1 .. Len(s)) = Len(s)
         /\ Places(s) \in Seq(Nat) /\ Len(Places(s)) = Len(s)
<1> DEFINE n == Len(s)
<1>1. n \in Nat /\ DOMAIN s = 1 .. n
  OBVIOUS
<1>2. \A i \in 1 .. n : s[i].at \in Nat
  BY <1>1, SamplesAreNumbers
<1> HIDE DEF n
<1>3. [i \in 1 .. n |-> s[i].at] \in Seq(Nat) /\ Len([i \in 1 .. n |-> s[i].at]) = n
  BY <1>1, <1>2
<1>4. IsFiniteSet(1 .. n) /\ Cardinality(1 .. n) = IF 1 > n THEN 0 ELSE n - 1 + 1
  BY <1>1, FS_Interval
<1>5. Cardinality(1 .. n) = n
  BY <1>1, <1>4
<1> QED BY <1>1, <1>3, <1>4, <1>5 DEF n, Places

\* So a rank is that of a sample.
LEMMA RankIs ==
  ASSUME NEW s \in Seq(Fix), NEW k \in 0 .. Len(s) - 1
  PROVE  /\ OfRank(Places(s), k) \in DOMAIN s
         /\ Cardinality(Before(s, OfRank(Places(s), k))) = k
<1>1. Places(s) \in Seq(Nat) /\ Len(Places(s)) = Len(s) /\ DOMAIN s = 1 .. Len(s)
  BY PlacesAre
<1>2. k \in 0 .. Len(Places(s)) - 1
  BY <1>1
<1>3. OfRank(Places(s), k) \in 1 .. Len(Places(s)) /\ Cardinality(Ahead(Places(s), OfRank(Places(s), k))) = k
  BY <1>1, <1>2, Ranks
<1> QED BY <1>1, <1>3 DEF Before

\* The value of rank k.
At(s, k) == Places(s)[OfRank(Places(s), k)]

\* The median is the mean of the values of the two middle ranks.
LEMMA MedianIs ==
  ASSUME NEW s
  PROVE  Median(s) = (At(s, (Len(s) - 1) \div 2) + At(s, Len(s) \div 2)) \div 2
  BY DEF Median, At, Places

\* The middle ranks are ranks.
LEMMA MiddleRanks ==
  ASSUME NEW n \in Nat, n > 0
  PROVE  /\ (n - 1) \div 2 \in 0 .. n - 1 /\ n - 2 <= 2 * ((n - 1) \div 2)
         /\ n \div 2 \in 0 .. n - 1 /\ n - 2 <= 2 * (n \div 2)
         /\ 2 * ((n - 1) \div 2) <= n /\ 2 * (n \div 2) <= n
  OBVIOUS

\* A median is a number.
LEMMA MedianType ==
  ASSUME NEW s \in Seq(Fix), s # <<>>
  PROVE  Median(s) \in Nat
<1>1. Len(s) \in Nat /\ Len(s) > 0
  OBVIOUS
<1>2. \A k \in 0 .. Len(s) - 1 : At(s, k) \in Nat
  <2> TAKE k \in 0 .. Len(s) - 1
  <2> DEFINE i == OfRank(Places(s), k)
  <2>1. i \in DOMAIN s
    BY RankIs
  <2> HIDE DEF i
  <2>2. s[i].at \in Nat /\ Places(s)[i] = s[i].at
    BY <2>1, SamplesAreNumbers DEF Places
  <2> QED BY <2>2 DEF At, i
<1>3. At(s, (Len(s) - 1) \div 2) \in Nat /\ At(s, Len(s) \div 2) \in Nat
  BY <1>1, <1>2, MiddleRanks
<1>4. \A a, b \in Nat : (a + b) \div 2 \in Nat
  OBVIOUS
<1> QED BY <1>3, <1>4, MedianIs

\* A value that more than half of the samples have is at both middle ranks.
LEMMA MajorityAt ==
  ASSUME NEW s \in Seq(Fix), NEW p \in BasePlaces, 2 * Share(s, p) > Len(s),
         NEW k \in 0 .. Len(s) - 1, Len(s) - 2 <= 2 * k, 2 * k <= Len(s)
  PROVE  At(s, k) = p
<1> DEFINE n == Len(s)
           Same == {j \in DOMAIN s : s[j].at = p}
           Less == {j \in DOMAIN s : s[j].at < p}
           More == {j \in DOMAIN s : s[j].at > p}
           i == OfRank(Places(s), k)
<1>1. n \in Nat /\ DOMAIN s = 1 .. n /\ IsFiniteSet(1 .. n) /\ Cardinality(1 .. n) = n
  BY PlacesAre
<1>2. p \in Nat /\ \A j \in DOMAIN s : s[j].at \in Nat
  BY <1>1, SamplesAreNumbers, PlacesAreNumbers
<1>3. i \in DOMAIN s /\ Cardinality(Before(s, i)) = k
  BY RankIs
<1> HIDE DEF i
<1>a. Before(s, i) \subseteq DOMAIN s
  BY DEF Before, Ahead, Places
<1>4. Share(s, p) = Cardinality(Same)
  BY DEF Share
<1>5. /\ IsFiniteSet(Same) /\ IsFiniteSet(Less) /\ IsFiniteSet(Before(s, i))
      /\ Cardinality(Same) \in Nat /\ Cardinality(Less) \in Nat
  <2>1. Same \subseteq 1 .. n /\ Less \subseteq 1 .. n /\ Before(s, i) \subseteq 1 .. n
    BY <1>1, <1>a
  <2> QED BY <1>1, <2>1, FS_Subset, FS_CardinalityType
<1>6. Cardinality(Same) + Cardinality(Less) <= n
  <2>1. Same \cap Less = {} /\ Same \cup Less \subseteq 1 .. n
    BY <1>1, <1>2
  <2>2. Cardinality(Same \cup Less) <= n
    BY <1>1, <2>1, FS_Subset
  <2>3. Cardinality(Same \cup Less) = Cardinality(Same) + Cardinality(Less) - 0
    BY <1>5, <2>1, FS_Union, FS_EmptySet
  <2> DEFINE a == Cardinality(Same)
             b == Cardinality(Less)
             c == Cardinality(Same \cup Less)
  <2>4. a \in Nat /\ b \in Nat
    BY <1>5
  <2> HIDE DEF a, b, c, n
  <2>5. c <= n /\ c = a + b - 0
    BY <2>2, <2>3 DEF a, b, c
  <2>6. a + b <= n
    BY <2>4, <2>5
  <2> QED BY <2>6 DEF a, b
<1>7. ~(s[i].at < p)
  <2> SUFFICES ASSUME s[i].at < p PROVE FALSE
    OBVIOUS
  <2>1. Before(s, i) \cup {i} \subseteq Less /\ i \notin Before(s, i)
    <3>1. i \notin Before(s, i)
      BY <1>2, <1>3, BeforeIs
    <3>2. ASSUME NEW j \in Before(s, i) PROVE j \in Less
      <4>1. j \in DOMAIN s /\ (s[j].at < s[i].at \/ s[j].at = s[i].at)
        BY <1>3, <1>a, <3>2, BeforeIs
      <4> QED BY <1>2, <1>3, <4>1
    <3> QED BY <1>3, <3>1, <3>2
  <2>2. Cardinality(Before(s, i) \cup {i}) = k + 1
    BY <1>3, <1>5, <2>1, FS_AddElement
  <2>3. k + 1 <= Cardinality(Less)
    BY <1>5, <2>1, <2>2, FS_Subset
  <2> QED BY <1>1, <1>4, <1>5, <1>6, <2>3
<1>8. ~(s[i].at > p)
  <2> SUFFICES ASSUME s[i].at > p PROVE FALSE
    OBVIOUS
  <2>1. Same \subseteq Before(s, i)
    <3> SUFFICES ASSUME NEW j \in DOMAIN s, s[j].at = p PROVE j \in Before(s, i)
      OBVIOUS
    <3>1. s[j].at < s[i].at
      BY <1>2, <1>3
    <3> QED BY <1>3, <3>1, BeforeIs
  <2>2. Cardinality(Same) <= k
    BY <1>3, <1>5, <2>1, FS_Subset
  <2> QED BY <1>1, <1>4, <1>5, <2>2
<1>9. s[i].at = p
  BY <1>2, <1>3, <1>7, <1>8
<1>10. Places(s)[i] = s[i].at
  BY <1>3 DEF Places
<1> QED BY <1>9, <1>10 DEF At, i

\* So it is the median, whatever the others are.
LEMMA MajorityRules ==
  ASSUME NEW s \in Seq(Fix), s # <<>>, NEW p \in BasePlaces, 2 * Share(s, p) > Len(s)
  PROVE  Median(s) = p
<1>1. Len(s) \in Nat /\ Len(s) > 0
  OBVIOUS
<1>2. At(s, (Len(s) - 1) \div 2) = p /\ At(s, Len(s) \div 2) = p
  BY <1>1, MiddleRanks, MajorityAt
<1>3. p \in Nat /\ (p + p) \div 2 = p
  BY BaseAssumption
<1> QED BY <1>2, <1>3, MedianIs

\* What the base station's properties rest on: rows are numbered, one of them is
\* the newest, and while the clock is not set back it is the position fed last, or one
\* whose add_base raised.
BaseInv ==
  /\ BaseTypeOK /\ BaselineHonest
  /\ \A r \in baseRows : r.id <= baseIds
  /\ baseRows # {} => \E r \in baseRows : IsNewest(r)
  /\ \A r, q \in baseRows : r.id = q.id => r = q
  /\ baseBack = 0 => \A r \in baseRows : r.t <= baseNow
  /\ baseBack = 0 /\ baseLast # Unset =>
       \A r \in baseRows : IsNewest(r) => r.at \in {baseLast} \cup baseRaised

\* The tables start empty and the memory unset.
LEMMA BaseInitInv == BaseInit => BaseInv
<1> SUFFICES ASSUME BaseInit PROVE BaseInv
  OBVIOUS
<1>1. BaseTypeOK
  BY DEF BaseInit, BaseTypeOK
<1>2. BaselineHonest
  BY DEF BaseInit, BaselineHonest, Unset
<1> QED BY <1>1, <1>2 DEF BaseInit, BaseInv, Unset

\* A new row has a new number; if it is as late as any, it becomes the newest.
LEMMA AddBaseRow ==
  ASSUME BaseInv, NEW t \in Nat, NEW p \in BasePlaces, AddBase(t, p)
  PROVE  /\ baseRows' \subseteq Row /\ baseIds' \in Nat
         /\ \A r \in baseRows' : r.id <= baseIds' /\ (r \in baseRows \/ r.t = t)
         /\ \A r, q \in baseRows' : r.id = q.id => r = q
         /\ \E r \in baseRows' : IsNewest(r)'
         /\ (\A r \in baseRows : r.t <= t) => \A r \in baseRows' : IsNewest(r)' => r.at = p
<1>1. baseIds \in Nat /\ baseRows \subseteq Row /\ \A r \in baseRows : r.id <= baseIds
  BY DEF BaseInv, BaseTypeOK
<1>2. PICK new : new = [id |-> baseIds', t |-> t, at |-> p]
  OBVIOUS
<1>3. baseIds' = baseIds + 1 /\ baseRows' = baseRows \cup {new}
  BY <1>2 DEF AddBase
<1>4. baseIds' \in Nat
  BY <1>1, <1>3
<1>5. new \in Row /\ new.id = baseIds' /\ new.t = t /\ new.at = p
  BY <1>2, <1>4 DEF Row
<1>6. \A r \in baseRows : r.id \in Nat /\ r.t \in Nat /\ r.id <= baseIds
  BY <1>1 DEF Row
<1>7. \A r \in baseRows : r.id < new.id
  BY <1>1, <1>3, <1>5, <1>6
<1>8. \A r \in baseRows' : r.id <= baseIds' /\ (r \in baseRows \/ r.t = t)
  BY <1>3, <1>4, <1>5, <1>6, <1>7
<1>9. \A r, q \in baseRows' : r.id = q.id => r = q
  <2>1. \A r, q \in baseRows : r.id = q.id => r = q
    BY DEF BaseInv
  <2> QED BY <1>3, <1>4, <1>5, <1>6, <1>7, <2>1
<1>10. ASSUME \A r \in baseRows : r.t <= t
       PROVE  /\ new \in baseRows' /\ IsNewest(new)'
              /\ \A r \in baseRows' : IsNewest(r)' => r.at = p
  <2>1. \A q \in baseRows' : q.t < new.t \/ (q.t = new.t /\ q.id <= new.id)
    BY <1>3, <1>4, <1>5, <1>6, <1>7, <1>10
  <2>2. new \in baseRows' /\ IsNewest(new)'
    BY <1>3, <2>1 DEF IsNewest
  <2>3. ASSUME NEW r \in baseRows', IsNewest(r)' PROVE r = new
    <3>1. new.t < r.t \/ (new.t = r.t /\ new.id <= r.id)
      BY <2>2, <2>3 DEF IsNewest
    <3> QED BY <1>3, <1>4, <1>5, <1>6, <1>7, <1>10, <3>1
  <2> QED BY <1>5, <2>2, <2>3
<1>11. \E r \in baseRows' : IsNewest(r)'
  <2>1. CASE \A r \in baseRows : r.t <= t
    BY <1>10, <2>1
  <2>2. CASE ~(\A r \in baseRows : r.t <= t)
    <3>1. PICK top \in baseRows : IsNewest(top)
      BY <2>2 DEF BaseInv
    <3>2. \A q \in baseRows : q.t < top.t \/ (q.t = top.t /\ q.id <= top.id)
      BY <3>1 DEF IsNewest
    <3>3. new.t < top.t
      BY <1>5, <1>6, <2>2, <3>1, <3>2
    <3>4. \A q \in baseRows' : q.t < top.t \/ (q.t = top.t /\ q.id <= top.id)
      BY <1>3, <3>2, <3>3
    <3> QED BY <1>3, <3>1, <3>4 DEF IsNewest
  <2> QED BY <2>1, <2>2
<1> QED BY <1>1, <1>3, <1>4, <1>5, <1>8, <1>9, <1>10, <1>11

\* What does not touch the rows, nor set the clock back, leaves the newest as it is.
LEMMA RowsRest ==
  ASSUME BaseInv, UNCHANGED <<baseRows, baseIds>>
  PROVE  /\ \A r \in baseRows' : r.id <= baseIds'
         /\ baseRows' # {} => \E r \in baseRows' : IsNewest(r)'
         /\ \A r, q \in baseRows' : r.id = q.id => r = q
         /\ \A r : IsNewest(r)' <=> IsNewest(r)
  BY Zenon DEF BaseInv, IsNewest

\* The newest row is one of the table's.
LEMMA NewestIs ==
  ASSUME BaseInv, baseRows # {}
  PROVE  Newest \in baseRows /\ IsNewest(Newest) /\ Newest \in Row
<1>1. \E r \in baseRows : IsNewest(r)
  BY DEF BaseInv
<1>2. Newest \in baseRows /\ IsNewest(Newest)
  BY <1>1 DEF Newest
<1> QED BY <1>2 DEF BaseInv, BaseTypeOK

\* Setting the baseline keeps the types.
LEMMA SetBaselineTypes ==
  ASSUME BaseTypeOK, NEW p \in Nat, NEW samples \in Seq(Fix), NEW fails \in BOOLEAN,
         SetBaseline(p, samples, fails)
  PROVE  /\ baseLine' = p /\ baseLine' \in Nat /\ baseKv' \in Nat \cup {Unset, Corrupt}
         /\ baseSamples' \in Seq(Fix) /\ baseFails' \in Nat /\ baseSaved' \in BOOLEAN
         /\ baseSaved' => baseKv' = baseLine'
<1>1. baseSamples' \in Seq(Fix) /\ baseLine' = p /\ baseKv' \in Nat \cup {Unset, Corrupt}
  BY DEF SetBaseline, BaseTypeOK
<1>2. baseFails' \in Nat
  BY DEF SetBaseline, Writes, BaseTypeOK
<1>3. baseSaved' \in BOOLEAN /\ (baseSaved' => baseKv' = baseLine')
  BY DEF SetBaseline
<1> QED BY <1>1, <1>2, <1>3

\* The rows' part of the invariant, when the rows rest.
LEMMA RestingRows ==
  ASSUME BaseInv, UNCHANGED <<baseRows, baseIds>>, BaseTypeOK', BaselineHonest',
         baseBack' = 0 => baseBack = 0 /\ baseNow' >= baseNow,
         baseLast' = Unset \/ (baseLast' = baseLast /\ baseRaised \subseteq baseRaised')
  PROVE  BaseInv'
<1>1. /\ \A r \in baseRows' : r.id <= baseIds'
      /\ baseRows' # {} => \E r \in baseRows' : IsNewest(r)'
      /\ \A r, q \in baseRows' : r.id = q.id => r = q
      /\ \A r : IsNewest(r)' <=> IsNewest(r)
  BY RowsRest
<1>2. baseBack' = 0 => \A r \in baseRows' : r.t <= baseNow'
  <2>1. \A r \in baseRows : r.t \in Nat
    BY DEF BaseInv, BaseTypeOK, Row
  <2>2. baseNow \in Nat /\ baseNow' \in Nat
    BY DEF BaseInv, BaseTypeOK
  <2>3. baseBack = 0 => \A r \in baseRows : r.t <= baseNow
    BY DEF BaseInv
  <2> QED BY <2>1, <2>2, <2>3
<1>3. baseBack' = 0 /\ baseLast' # Unset =>
        \A r \in baseRows' : IsNewest(r)' => r.at \in {baseLast'} \cup baseRaised'
  BY <1>1 DEF BaseInv
<1> QED BY <1>1, <1>2, <1>3 DEF BaseInv

\* Feeding a position.
LEMMA FeedInv ==
  ASSUME BaseInv, NEW p \in BasePlaces, BaseFeed(p)
  PROVE  BaseInv'
<1> USE DEF baseWorld
<1>1. CASE FeedFails(p) /\ UNCHANGED <<baseRows, baseIds>>
  <2>1. BaseTypeOK'
    <3>1. baseFails' \in Nat
      BY <1>1 DEF FeedFails, Writes, BaseInv, BaseTypeOK
    <3> QED BY <1>1, <3>1 DEF FeedFails, BaseFeed, BaseInv, BaseTypeOK
  <2>2. BaselineHonest'
    BY <1>1 DEF FeedFails, BaseFeed, BaseInv, BaselineHonest, Share
  <2> QED BY <1>1, <2>1, <2>2, RestingRows DEF FeedFails, BaseFeed, BaseInv, BaseTypeOK
<1>1a. CASE FeedFails(p) /\ AddBase(baseNow, p)
  <2>1. /\ UNCHANGED <<baseLine, baseSamples, baseLast, baseKv, baseSaved, baseLearned>>
        /\ UNCHANGED <<baseNow, baseRestarts, baseBack>>
        /\ baseRaised' = baseRaised \cup {p} /\ baseReset' = Unset /\ baseFails' \in Nat
    BY <1>1a DEF FeedFails, Writes, BaseFeed, BaseInv, BaseTypeOK
  <2>2. baseNow \in Nat /\ (baseBack = 0 => \A r \in baseRows : r.t <= baseNow)
    BY DEF BaseInv, BaseTypeOK
  <2>3. /\ baseRows' \subseteq Row /\ baseIds' \in Nat
        /\ \A r \in baseRows' : r.id <= baseIds' /\ (r \in baseRows \/ r.t = baseNow)
        /\ \A r, q \in baseRows' : r.id = q.id => r = q
        /\ \E r \in baseRows' : IsNewest(r)'
        /\ baseBack = 0 => \A r \in baseRows' : IsNewest(r)' => r.at = p
    BY <1>1a, <2>2, AddBaseRow
  <2>4. BaseTypeOK'
    BY <2>1, <2>3 DEF BaseInv, BaseTypeOK
  <2>5. BaselineHonest'
    BY <2>1 DEF BaseInv, BaselineHonest, Share
  <2>6. baseBack' = 0 => \A r \in baseRows' : r.t <= baseNow'
    BY <2>1, <2>2, <2>3
  <2> QED BY <2>1, <2>3, <2>4, <2>5, <2>6 DEF BaseInv
<1>2. CASE FeedOn(p)
  <2> DEFINE samples == Append(baseSamples, [t |-> baseNow, at |-> p])
  <2>1. samples \in Seq(Fix) /\ samples # <<>>
    <3>1. [t |-> baseNow, at |-> p] \in Fix
      BY DEF BaseInv, BaseTypeOK, Fix
    <3>2. baseSamples \in Seq(Fix)
      BY DEF BaseInv, BaseTypeOK
    <3> HIDE DEF Fix
    <3>3. samples \in Seq(Fix)
      BY <3>1, <3>2
    <3>4. Len(samples) = Len(baseSamples) + 1 /\ Len(baseSamples) \in Nat
      BY <3>1, <3>2
    <3>5. Len(<<>>) = 0 /\ Len(samples) # 0
      BY <3>4
    <3> QED BY <3>3, <3>5
  <2>2. /\ baseLine' \in Nat \cup {Unset} /\ baseKv' \in Nat \cup {Unset, Corrupt}
        /\ baseSamples' \in Seq(Fix) /\ baseFails' \in Nat /\ baseSaved' \in BOOLEAN
        /\ baseLearned' \in Seq(Fix)
        /\ baseSaved' /\ baseLine' # Unset => baseKv' = baseLine'
        /\ baseLearned' # <<>> => \A q \in BasePlaces :
             2 * Share(baseLearned', q) > Len(baseLearned') => baseLine' = q
    <3>1. CASE UNCHANGED <<baseLine, baseKv, baseSamples, baseFails, baseSaved, baseLearned>>
      BY <3>1 DEF BaseInv, BaseTypeOK, BaselineHonest
    <3>2. CASE /\ baseSamples' = samples
               /\ UNCHANGED <<baseLine, baseKv, baseFails, baseSaved, baseLearned>>
      BY <2>1, <3>2 DEF BaseInv, BaseTypeOK, BaselineHonest
    <3>3. CASE /\ \E fails \in BOOLEAN : SetBaseline(Median(samples), samples, fails)
               /\ baseLearned' = samples
      <4> HIDE DEF samples
      <4>1. Median(samples) \in Nat
        BY <2>1, MedianType
      <4>2. PICK fails \in BOOLEAN : SetBaseline(Median(samples), samples, fails)
        BY <3>3
      <4>3. /\ baseLine' = Median(samples) /\ baseLine' \in Nat
            /\ baseKv' \in Nat \cup {Unset, Corrupt} /\ baseSamples' \in Seq(Fix)
            /\ baseFails' \in Nat /\ baseSaved' \in BOOLEAN
            /\ baseSaved' => baseKv' = baseLine'
        BY <2>1, <4>1, <4>2, SetBaselineTypes DEF BaseInv
      <4>4. \A q \in BasePlaces : 2 * Share(samples, q) > Len(samples) => baseLine' = q
        BY <2>1, <4>3, MajorityRules
      <4> QED BY <2>1, <3>3, <4>3, <4>4
    <3> QED BY <1>2, <3>1, <3>2, <3>3 DEF FeedOn
  <2>3. baseReset' = Unset /\ baseLast' = p
    BY <1>2 DEF BaseFeed, FeedOn
  <2>4. BaselineHonest'
    BY <2>2, <2>3 DEF BaselineHonest
  <2>5. CASE ~News(p)
    <3>1. UNCHANGED <<baseRows, baseIds, baseNow, baseRestarts, baseBack, baseLast,
                      baseRaised>>
      BY <1>2, <2>3, <2>5 DEF FeedOn, BaseFeed, News
    <3>2. BaseTypeOK'
      BY <2>2, <2>3, <3>1 DEF BaseTypeOK, BaseInv
    <3> QED BY <2>4, <3>1, <3>2, RestingRows DEF BaseInv, BaseTypeOK
  <2>6. CASE News(p)
    <3>1. /\ AddBase(baseNow, p) /\ UNCHANGED <<baseNow, baseRestarts, baseBack>>
          /\ baseRaised' = {}
      BY <1>2, <2>6 DEF FeedOn, BaseFeed
    <3>2. baseNow \in Nat
      BY DEF BaseInv, BaseTypeOK
    <3>3. /\ baseRows' \subseteq Row /\ baseIds' \in Nat
          /\ \A r \in baseRows' : r.id <= baseIds'
          /\ \A r, q \in baseRows' : r.id = q.id => r = q
          /\ \E r \in baseRows' : IsNewest(r)'
      BY <3>1, <3>2, AddBaseRow
    <3>4. baseBack = 0 => \A r \in baseRows : r.t <= baseNow
      BY DEF BaseInv
    <3>5. baseBack' = 0 => \A r \in baseRows' : r.t <= baseNow'
      BY <3>1, <3>2, <3>4, AddBaseRow
    <3>6. baseBack' = 0 => \A r \in baseRows' : IsNewest(r)' => r.at = p
      BY <3>1, <3>2, <3>4, AddBaseRow
    <3>7. BaseTypeOK'
      BY <2>2, <2>3, <3>1, <3>3 DEF BaseTypeOK, BaseInv
    <3> QED BY <2>3, <2>4, <3>3, <3>5, <3>6, <3>7 DEF BaseInv
  <2> QED BY <2>5, <2>6
<1> QED BY <1>1, <1>1a, <1>2 DEF BaseFeed, FeedFails, AddBaseFails

\* A reset takes the newest row, which is the position that was fed last or one that
\* was not recorded.
LEMMA DoResetInv ==
  ASSUME BaseInv, BaseDoReset
  PROVE  BaseInv'
<1>1. /\ Newest \in baseRows /\ IsNewest(Newest) /\ Newest \in Row
      /\ Newest.t \in Nat /\ Newest.at \in BasePlaces /\ Newest.at \in Nat
  BY NewestIs, PlacesAreNumbers DEF BaseDoReset, Row
<1>2. PICK fails \in BOOLEAN : SetBaseline(Newest.at, baseSamples, fails)
  BY DEF BaseDoReset
<1>3. /\ baseLine' = Newest.at /\ baseLine' \in Nat
      /\ baseKv' \in Nat \cup {Unset, Corrupt} /\ baseSamples' \in Seq(Fix)
      /\ baseFails' \in Nat /\ baseSaved' \in BOOLEAN
      /\ baseSaved' => baseKv' = baseLine'
  BY <1>1, <1>2, SetBaselineTypes DEF BaseInv, BaseTypeOK
<1>4. /\ baseLearned' = <<>> /\ UNCHANGED <<baseNow, baseRestarts, baseBack, baseRaised>>
      /\ baseReset' \in {Unset, baseLast}
  BY DEF BaseDoReset, baseWorld
<1>5. baseReset' # Unset /\ baseBack' = 0 => baseLine' \in {baseReset'} \cup baseRaised'
  BY <1>1, <1>3, <1>4 DEF BaseInv
<1>6. BaselineHonest'
  BY <1>3, <1>4, <1>5 DEF BaselineHonest
<1>7. CASE UNCHANGED <<baseRows, baseIds, baseLast>>
  <2>1. BaseTypeOK'
    BY <1>3, <1>4, <1>7 DEF BaseInv, BaseTypeOK
  <2> QED BY <1>4, <1>6, <1>7, <2>1, RestingRows DEF BaseInv, BaseTypeOK
<1>8. CASE AddBase(Newest.t, Newest.at) /\ baseLast' \in {baseLast, Newest.at}
  <2>1. \A r \in baseRows : r.t <= Newest.t
    BY <1>1 DEF IsNewest, BaseInv, BaseTypeOK, Row
  <2>2. /\ baseRows' \subseteq Row /\ baseIds' \in Nat
        /\ \A r \in baseRows' : r.id <= baseIds' /\ (r \in baseRows \/ r.t = Newest.t)
        /\ \A r, q \in baseRows' : r.id = q.id => r = q
        /\ \E r \in baseRows' : IsNewest(r)'
        /\ \A r \in baseRows' : IsNewest(r)' => r.at = Newest.at
    BY <1>1, <1>8, <2>1, AddBaseRow
  <2>3. BaseTypeOK'
    BY <1>1, <1>3, <1>4, <1>8, <2>2 DEF BaseInv, BaseTypeOK
  <2>4. baseBack' = 0 => \A r \in baseRows' : r.t <= baseNow'
    BY <1>1, <1>4, <2>2 DEF BaseInv
  <2>5. baseBack' = 0 /\ baseLast' # Unset =>
          \A r \in baseRows' : IsNewest(r)' => r.at \in {baseLast'} \cup baseRaised'
    BY <1>1, <1>4, <1>8, <2>2 DEF BaseInv
  <2> QED BY <1>6, <1>8, <2>2, <2>3, <2>4, <2>5 DEF BaseInv
<1> QED BY <1>7, <1>8 DEF BaseDoReset, AddBaseFails

\* Retention takes the oldest rows: what is left, if anything, has the newest.
LEMMA PruneInv ==
  ASSUME BaseInv, BasePrune
  PROVE  BaseInv'
<1>1. /\ baseRows' = {r \in baseRows : r.t >= baseNow - BaseKeep}
      /\ UNCHANGED <<baseLine, baseSamples, baseLast, baseKv, baseIds, baseFails, baseNow,
                     baseRestarts, baseBack, baseSaved, baseLearned, baseReset, baseRaised>>
  BY DEF BasePrune, baseWorld
<1>2. BaseTypeOK'
  BY <1>1 DEF BaseInv, BaseTypeOK
<1>3. BaselineHonest'
  BY <1>1 DEF BaseInv, BaselineHonest, Share
<1>4. \A r \in baseRows : r.t \in Nat /\ r.id \in Nat
  BY DEF BaseInv, BaseTypeOK, Row
<1>5. baseNow - BaseKeep \in Int
  BY BaseAssumption DEF BaseInv, BaseTypeOK
<1>6. ASSUME NEW r \in baseRows'
      PROVE  \E top \in baseRows' : IsNewest(top) /\ IsNewest(top)'
  <2>1. PICK top \in baseRows : IsNewest(top)
    BY <1>1, <1>6 DEF BaseInv
  <2>2. \A q \in baseRows : q.t < top.t \/ (q.t = top.t /\ q.id <= top.id)
    BY <2>1 DEF IsNewest
  <2>3. top \in baseRows'
    BY <1>1, <1>4, <1>5, <1>6, <2>2
  <2>4. \A q \in baseRows' : q.t < top.t \/ (q.t = top.t /\ q.id <= top.id)
    BY <1>1, <2>2
  <2> QED BY <2>1, <2>3, <2>4 DEF IsNewest
<1>7. ASSUME NEW r \in baseRows', IsNewest(r)'
      PROVE  IsNewest(r)
  <2>1. PICK top \in baseRows' : IsNewest(top) /\ IsNewest(top)'
    BY <1>6
  <2>2. /\ \A q \in baseRows' : q.t < r.t \/ (q.t = r.t /\ q.id <= r.id)
        /\ \A q \in baseRows' : q.t < top.t \/ (q.t = top.t /\ q.id <= top.id)
    BY <1>7, <2>1 DEF IsNewest
  <2>3. r.t = top.t /\ r.id = top.id
    BY <1>1, <1>4, <2>1, <2>2
  <2> QED BY <1>1, <2>1, <2>3 DEF BaseInv
<1>8. baseRows' # {} => \E r \in baseRows' : IsNewest(r)'
  BY <1>6
<1>9. /\ \A r \in baseRows' : r.id <= baseIds'
      /\ \A r, q \in baseRows' : r.id = q.id => r = q
      /\ baseBack' = 0 => \A r \in baseRows' : r.t <= baseNow'
      /\ baseBack' = 0 /\ baseLast' # Unset =>
           \A r \in baseRows' : IsNewest(r)' => r.at \in {baseLast'} \cup baseRaised'
  BY <1>1, <1>7 DEF BaseInv
<1> QED BY <1>2, <1>3, <1>8, <1>9 DEF BaseInv

\* A restart reads the baseline from its row, or starts anew.
LEMMA RestartInv ==
  ASSUME BaseInv, BaseRestart
  PROVE  BaseInv'
<1>1. BaseTypeOK'
  BY DEF BaseInv, BaseTypeOK, BaseRestart, Unset, Corrupt
<1>2. BaselineHonest'
  BY DEF BaseInv, BaseTypeOK, BaselineHonest, BaseRestart, Unset, Corrupt
<1> QED BY <1>1, <1>2, RestingRows DEF BaseInv, BaseTypeOK, BaseRestart

\* The clock goes on, or is set back.
LEMMA BaseTickInv ==
  ASSUME BaseInv, BaseTick
  PROVE  BaseInv'
<1>1. baseNow' \in Nat /\ baseBack' \in Nat /\ (baseBack' = 0 => baseBack = 0 /\ baseNow' >= baseNow)
  BY DEF BaseInv, BaseTypeOK, BaseTick
<1>2. UNCHANGED <<baseLine, baseSamples, baseLast, baseKv, baseRows, baseIds, baseFails,
                  baseRestarts, baseSaved, baseLearned, baseReset, baseRaised>>
  BY DEF BaseTick
<1>3. BaseTypeOK'
  BY <1>1, <1>2 DEF BaseInv, BaseTypeOK
<1>4. BaselineHonest'
  BY <1>1, <1>2 DEF BaseInv, BaselineHonest, Share
<1> QED BY <1>1, <1>2, <1>3, <1>4, RestingRows

\* Every step of the base station's route.
LEMMA BaseStepInv == BaseInv /\ [BaseNext]_baseVars => BaseInv'
<1> SUFFICES ASSUME BaseInv, [BaseNext]_baseVars PROVE BaseInv'
  OBVIOUS
<1>1. CASE BaseNext
  BY <1>1, FeedInv, DoResetInv, PruneInv, RestartInv, BaseTickInv DEF BaseNext
<1>2. CASE UNCHANGED baseVars
  <2>1. UNCHANGED <<baseLine, baseSamples, baseLast, baseKv, baseRows, baseIds, baseNow, baseFails,
                    baseRestarts, baseBack, baseSaved, baseLearned, baseReset, baseRaised>>
    BY <1>2 DEF baseVars
  <2>2. BaseTypeOK' /\ BaselineHonest'
    BY <2>1 DEF BaseInv, BaseTypeOK, BaselineHonest, Share
  <2> QED BY <2>1, <2>2, RestingRows DEF BaseInv, BaseTypeOK
<1> QED BY <1>1, <1>2

-----------------------------------------------------------------------------
(* The replay.                                                             *)

\* A function on 1 .. n is a sequence.
LEMMA ListIs ==
  ASSUME NEW T, NEW n \in Nat, NEW f \in [1 .. n -> T]
  PROVE  f \in Seq(T) /\ Len(f) = n
  OBVIOUS

\* The times of a sequence of messages.
LEMMA TimesAre ==
  ASSUME NEW T, \A x \in T : x.t \in Nat, NEW s \in Seq(T)
  PROVE  /\ Len(s) \in Nat /\ DOMAIN s = 1 .. Len(s) /\ \A i \in 1 .. Len(s) : s[i] \in T
         /\ Times(s) \in Seq(Nat) /\ Len(Times(s)) = Len(s)
         /\ \A i \in 1 .. Len(s) : Times(s)[i] = s[i].t /\ s[i].t \in Nat
<1> DEFINE n == Len(s)
<1>1. n \in Nat /\ DOMAIN s = 1 .. n /\ \A i \in 1 .. n : s[i] \in T
  OBVIOUS
<1> HIDE DEF n
<1>2. \A i \in 1 .. n : s[i].t \in Nat
  BY <1>1
<1>3. Times(s) = [i \in 1 .. n |-> s[i].t]
  BY <1>1 DEF Times
<1>4. [i \in 1 .. n |-> s[i].t] \in Seq(Nat) /\ Len([i \in 1 .. n |-> s[i].t]) = n
  BY <1>1, <1>2
<1> QED BY <1>1, <1>2, <1>3, <1>4 DEF n

\* What it is to be ahead of a message.
LEMMA EarlierIs ==
  ASSUME NEW T, \A x \in T : x.t \in Nat, NEW s \in Seq(T),
         NEW i \in 1 .. Len(s), NEW j \in 1 .. Len(s)
  PROVE  j \in Ahead(Times(s), i) <=> s[j].t < s[i].t \/ (s[j].t = s[i].t /\ j < i)
<1>1. j \in DOMAIN Times(s) /\ Times(s)[i] = s[i].t /\ Times(s)[j] = s[j].t
  BY TimesAre
<1>2. j \in Ahead(Times(s), i)
        <=> Times(s)[j] < Times(s)[i] \/ (Times(s)[j] = Times(s)[i] /\ j < i)
  BY <1>1, AheadIs, Zenon
<1> QED BY <1>1, <1>2, Zenon

\* A message's place in the sorted sequence is its rank.
LEMMA SortIs ==
  ASSUME NEW T, \A x \in T : x.t \in Nat, NEW s \in Seq(T)
  PROVE  /\ StableSort(s) \in Seq(T) /\ Len(StableSort(s)) = Len(s)
         /\ \A n \in 1 .. Len(s) : \E i \in 1 .. Len(s) :
              StableSort(s)[n] = s[i] /\ Cardinality(Ahead(Times(s), i)) = n - 1
         /\ \A i \in 1 .. Len(s), n \in 1 .. Len(s) :
              Cardinality(Ahead(Times(s), i)) = n - 1 => StableSort(s)[n] = s[i]
<1> DEFINE v == Times(s)
           c == Len(s)
           Q == StableSort(s)
<1>1. /\ c \in Nat /\ DOMAIN s = 1 .. c /\ \A i \in 1 .. c : s[i] \in T
      /\ v \in Seq(Nat) /\ Len(v) = c
  BY TimesAre
<1>2. /\ \A k \in 0 .. c - 1 : OfRank(v, k) \in 1 .. c /\ Cardinality(Ahead(v, OfRank(v, k))) = k
      /\ \A i \in 1 .. c : OfRank(v, Cardinality(Ahead(v, i))) = i
  <2> HIDE DEF v, c
  <2> QED BY <1>1, Ranks
<1>3. Q = [n \in 1 .. c |-> s[OfRank(v, n - 1)]]
  BY <1>1 DEF StableSort
<1> HIDE DEF v, c, Q
<1>4. \A n \in 1 .. c : n - 1 \in 0 .. c - 1
  BY <1>1
<1>5. \A n \in 1 .. c : Q[n] = s[OfRank(v, n - 1)] /\ OfRank(v, n - 1) \in 1 .. c
  BY <1>2, <1>3, <1>4
<1>6. Q \in Seq(T) /\ Len(Q) = c
  <2>1. \A n \in 1 .. c : s[OfRank(v, n - 1)] \in T
    BY <1>1, <1>5
  <2>2. [n \in 1 .. c |-> s[OfRank(v, n - 1)]] \in Seq(T)
        /\ Len([n \in 1 .. c |-> s[OfRank(v, n - 1)]]) = c
    <3> DEFINE f == [n \in 1 .. c |-> s[OfRank(v, n - 1)]]
    <3>1. f \in [1 .. c -> T]
      BY <2>1
    <3> HIDE DEF f
    <3>2. f \in Seq(T) /\ Len(f) = c
      BY <1>1, <3>1, ListIs
    <3> QED BY <3>2 DEF f
  <2> QED BY <1>3, <2>2
<1>7. \A n \in 1 .. c : \E i \in 1 .. c : Q[n] = s[i] /\ Cardinality(Ahead(v, i)) = n - 1
  BY <1>2, <1>4, <1>5
<1>8. \A i \in 1 .. c, n \in 1 .. c : Cardinality(Ahead(v, i)) = n - 1 => Q[n] = s[i]
  BY <1>2, <1>5
<1> QED BY <1>6, <1>7, <1>8 DEF v, c, Q

\* It rises.
LEMMA SortRises ==
  ASSUME NEW T, \A x \in T : x.t \in Nat, NEW s \in Seq(T),
         NEW m \in 1 .. Len(s), NEW n \in 1 .. Len(s), m < n
  PROVE  StableSort(s)[m].t <= StableSort(s)[n].t
<1>1. PICK i \in 1 .. Len(s) :
        StableSort(s)[m] = s[i] /\ Cardinality(Ahead(Times(s), i)) = m - 1
  BY SortIs
<1>2. PICK j \in 1 .. Len(s) :
        StableSort(s)[n] = s[j] /\ Cardinality(Ahead(Times(s), j)) = n - 1
  BY SortIs
<1>3. /\ Times(s) \in Seq(Nat) /\ Len(Times(s)) = Len(s) /\ Len(s) \in Nat
      /\ s[i].t \in Nat /\ s[j].t \in Nat
  BY TimesAre
<1>4. i \in Ahead(Times(s), j)
  <2>1. m - 1 < n - 1
    BY <1>3
  <2>2. Cardinality(Ahead(Times(s), i)) < Cardinality(Ahead(Times(s), j))
    BY <1>1, <1>2, <2>1
  <2> QED BY <1>3, <2>2, Ranks
<1>5. s[i].t < s[j].t \/ s[i].t = s[j].t
  BY <1>4, EarlierIs
<1> QED BY <1>1, <1>2, <1>3, <1>5

\* Behind the first of two sequences, m of the second that are adjacent.
LEMMA Block ==
  ASSUME NEW c \in Nat, NEW m \in Nat
  PROVE  IsFiniteSet(c + 1 .. c + m) /\ Cardinality(c + 1 .. c + m) = m
<1>1. c + 1 \in Int /\ c + m \in Int
  OBVIOUS
<1>2. /\ IsFiniteSet(c + 1 .. c + m)
      /\ Cardinality(c + 1 .. c + m) = IF c + 1 > c + m THEN 0 ELSE c + m - (c + 1) + 1
  BY <1>1, FS_Interval
<1> QED BY <1>2

\* A set and a block behind it.
LEMMA WithBlock ==
  ASSUME NEW c \in Nat, NEW m \in Nat, NEW k \in Nat, NEW K \in SUBSET (1 .. c),
         Cardinality(K) = k
  PROVE  Cardinality(K \cup (c + 1 .. c + m)) = k + m
<1> DEFINE B == c + 1 .. c + m
<1>1. IsFiniteSet(B) /\ Cardinality(B) = m
  BY Block
<1>2. IsFiniteSet(K)
  <2>1. IsFiniteSet(1 .. c)
    BY FS_Interval
  <2> QED BY <2>1, FS_Subset
<1>3. K \cap B = {}
  OBVIOUS
<1> HIDE DEF B
<1>4. Cardinality(K \cup B) = Cardinality(K) + Cardinality(B) - Cardinality(K \cap B)
  BY <1>1, <1>2, FS_Union
<1>5. Cardinality(K \cap B) = 0
  BY <1>3, FS_EmptySet
<1> QED BY <1>1, <1>4, <1>5 DEF B

\* Two sequences of messages one behind the other.
LEMMA JoinedIs ==
  ASSUME NEW T, \A x \in T : x.t \in Nat, NEW A \in Seq(T), NEW B \in Seq(T)
  PROVE  /\ Len(A) \in Nat /\ Len(B) \in Nat
         /\ A \o B \in Seq(T) /\ Len(A \o B) = Len(A) + Len(B)
         /\ \A i \in 1 .. Len(A) : (A \o B)[i] = A[i] /\ A[i].t \in Nat
         /\ \A j \in 1 .. Len(B) : (A \o B)[Len(A) + j] = B[j] /\ B[j].t \in Nat
<1> DEFINE a == Len(A)
           b == Len(B)
<1>1. /\ a \in Nat /\ b \in Nat /\ A \o B \in Seq(T) /\ Len(A \o B) = a + b
      /\ \A i \in 1 .. a + b : (A \o B)[i] = IF i <= a THEN A[i] ELSE B[i - a]
  BY ConcatProperties
<1>2. /\ \A i \in 1 .. a : A[i].t \in Nat
      /\ \A j \in 1 .. b : B[j].t \in Nat
  BY TimesAre
<1> HIDE DEF a, b
<1>3. \A i \in 1 .. a : (A \o B)[i] = A[i]
  <2> TAKE i \in 1 .. a
  <2>1. i \in 1 .. a + b /\ i <= a
    BY <1>1
  <2> QED BY <1>1, <2>1
<1>4. \A j \in 1 .. b : (A \o B)[a + j] = B[j]
  <2> TAKE j \in 1 .. b
  <2>1. a + j \in 1 .. a + b /\ ~(a + j <= a) /\ a + j - a = j
    BY <1>1
  <2> QED BY <1>1, <2>1
<1> QED BY <1>1, <1>2, <1>3, <1>4 DEF a, b

\* Who is ahead of a message when two sequences are sorted together.
LEMMA JoinedEarlier ==
  ASSUME NEW T, \A x \in T : x.t \in Nat, NEW A \in Seq(T), NEW B \in Seq(T)
  PROVE  /\ \A i \in 1 .. Len(A), j \in 1 .. Len(A) :
              j \in Ahead(Times(A \o B), i) <=> j \in Ahead(Times(A), i)
         /\ \A i \in 1 .. Len(A), j \in 1 .. Len(B) :
              Len(A) + j \in Ahead(Times(A \o B), i) <=> B[j].t < A[i].t
         /\ \A i \in 1 .. Len(B), j \in 1 .. Len(A) :
              j \in Ahead(Times(A \o B), Len(A) + i) <=> A[j].t <= B[i].t
         /\ \A i \in 1 .. Len(B), j \in 1 .. Len(B) :
              Len(A) + j \in Ahead(Times(A \o B), Len(A) + i)
                <=> B[j].t < B[i].t \/ (B[j].t = B[i].t /\ j < i)
         /\ \A i : Ahead(Times(A \o B), i) \subseteq 1 .. Len(A) + Len(B)
         /\ \A i : Ahead(Times(A), i) \subseteq 1 .. Len(A)
<1> DEFINE a == Len(A)
           b == Len(B)
           s == A \o B
<1>1. /\ a \in Nat /\ b \in Nat /\ s \in Seq(T) /\ Len(s) = a + b
      /\ \A i \in 1 .. a : s[i] = A[i] /\ A[i].t \in Nat
      /\ \A j \in 1 .. b : s[a + j] = B[j] /\ B[j].t \in Nat
  BY JoinedIs
<1>2. \A i, j \in 1 .. a + b :
        j \in Ahead(Times(s), i) <=> s[j].t < s[i].t \/ (s[j].t = s[i].t /\ j < i)
  <2> HIDE DEF s, a, b
  <2> QED BY <1>1, EarlierIs
<1>3. \A i, j \in 1 .. a :
        j \in Ahead(Times(A), i) <=> A[j].t < A[i].t \/ (A[j].t = A[i].t /\ j < i)
  BY EarlierIs
<1>4. \A i : Ahead(Times(s), i) \subseteq 1 .. a + b
  <2>1. DOMAIN Times(s) = 1 .. a + b
    <3> HIDE DEF s, a, b
    <3> QED BY <1>1, TimesAre DEF Times
  <2> QED BY <2>1 DEF Ahead
<1>5. \A i : Ahead(Times(A), i) \subseteq 1 .. a
  <2>1. DOMAIN Times(A) = 1 .. a
    BY TimesAre DEF Times
  <2> QED BY <2>1 DEF Ahead
<1> HIDE DEF a, b, s
<1>6. /\ \A i \in 1 .. a : i \in 1 .. a + b
      /\ \A j \in 1 .. b : a + j \in 1 .. a + b
  BY <1>1
<1>7. \A i \in 1 .. a, j \in 1 .. a : j \in Ahead(Times(s), i) <=> j \in Ahead(Times(A), i)
  <2> TAKE i \in 1 .. a, j \in 1 .. a
  <2>1. j \in Ahead(Times(s), i) <=> s[j].t < s[i].t \/ (s[j].t = s[i].t /\ j < i)
    BY <1>2, <1>6
  <2>2. s[j] = A[j] /\ s[i] = A[i]
    BY <1>1
  <2> QED BY <1>3, <2>1, <2>2
<1>8. \A i \in 1 .. a, j \in 1 .. b : a + j \in Ahead(Times(s), i) <=> B[j].t < A[i].t
  <2> TAKE i \in 1 .. a, j \in 1 .. b
  <2>1. a + j \in Ahead(Times(s), i)
          <=> s[a + j].t < s[i].t \/ (s[a + j].t = s[i].t /\ a + j < i)
    BY <1>2, <1>6
  <2>2. s[a + j] = B[j] /\ s[i] = A[i] /\ ~(a + j < i)
    BY <1>1
  <2> QED BY <2>1, <2>2
<1>9. \A i \in 1 .. b, j \in 1 .. a : j \in Ahead(Times(s), a + i) <=> A[j].t <= B[i].t
  <2> TAKE i \in 1 .. b, j \in 1 .. a
  <2>1. j \in Ahead(Times(s), a + i)
          <=> s[j].t < s[a + i].t \/ (s[j].t = s[a + i].t /\ j < a + i)
    BY <1>2, <1>6
  <2>2. s[j] = A[j] /\ s[a + i] = B[i] /\ j < a + i /\ A[j].t \in Nat /\ B[i].t \in Nat
    BY <1>1
  <2>3. A[j].t <= B[i].t <=> A[j].t < B[i].t \/ A[j].t = B[i].t
    BY <2>2
  <2> QED BY <2>1, <2>2, <2>3
<1>10. \A i \in 1 .. b, j \in 1 .. b :
         a + j \in Ahead(Times(s), a + i) <=> B[j].t < B[i].t \/ (B[j].t = B[i].t /\ j < i)
  <2> TAKE i \in 1 .. b, j \in 1 .. b
  <2>1. a + j \in Ahead(Times(s), a + i)
          <=> s[a + j].t < s[a + i].t \/ (s[a + j].t = s[a + i].t /\ a + j < a + i)
    BY <1>2, <1>6
  <2>2. s[a + j] = B[j] /\ s[a + i] = B[i] /\ (a + j < a + i <=> j < i)
    BY <1>1
  <2> QED BY <2>1, <2>2
<1> QED BY <1>4, <1>5, <1>7, <1>8, <1>9, <1>10 DEF a, b, s

\* Sorted together with m of the second sequence ahead of it, a message of the
\* first moves m places.
LEMMA NextOther ==
  ASSUME NEW T, \A x \in T : x.t \in Nat, NEW A \in Seq(T), NEW B \in Seq(T),
         NEW k \in 0 .. Len(A) - 1, NEW m \in 0 .. Len(B),
         \A j \in 1 .. Len(B) : B[j].t < StableSort(A)[k + 1].t <=> j <= m
  PROVE  StableSort(A \o B)[k + m + 1] = StableSort(A)[k + 1]
<1> DEFINE a == Len(A)
           b == Len(B)
           s == A \o B
           q == StableSort(A)[k + 1]
<1>1. /\ a \in Nat /\ b \in Nat /\ s \in Seq(T) /\ Len(s) = a + b
      /\ \A i \in 1 .. a : s[i] = A[i]
  BY JoinedIs
<1>2. k + 1 \in 1 .. a /\ k \in Nat /\ m \in Nat /\ m \in 0 .. b /\ k + m + 1 \in 1 .. a + b
      /\ (k + m + 1) - 1 = k + m
  BY <1>1
<1>3. PICK i \in 1 .. a : q = A[i] /\ Cardinality(Ahead(Times(A), i)) = k
  <2> HIDE DEF a
  <2>1. \E i \in 1 .. a : q = A[i] /\ Cardinality(Ahead(Times(A), i)) = (k + 1) - 1
    BY <1>2, SortIs DEF a
  <2>2. (k + 1) - 1 = k
    BY <1>2
  <2> QED BY <2>1, <2>2
<1>4. Ahead(Times(s), i) = Ahead(Times(A), i) \cup (a + 1 .. a + m)
  <2>1. /\ \A j \in 1 .. a : j \in Ahead(Times(s), i) <=> j \in Ahead(Times(A), i)
        /\ \A j \in 1 .. b : a + j \in Ahead(Times(s), i) <=> B[j].t < q.t
        /\ Ahead(Times(s), i) \subseteq 1 .. a + b
        /\ Ahead(Times(A), i) \subseteq 1 .. a
    BY <1>3, JoinedEarlier
  <2>2. \A j \in 1 .. b : B[j].t < q.t <=> j <= m
    OBVIOUS
  <2> HIDE DEF a, b, s, q
  <2>3. ASSUME NEW j \in Ahead(Times(s), i)
        PROVE  j \in Ahead(Times(A), i) \cup (a + 1 .. a + m)
    <3>1. j \in 1 .. a \/ (j - a \in 1 .. b /\ a + (j - a) = j)
      BY <1>1, <2>1, <2>3
    <3>2. CASE j \in 1 .. a
      BY <2>1, <2>3, <3>2
    <3>3. CASE j - a \in 1 .. b /\ a + (j - a) = j
      <4>1. j - a <= m
        BY <2>1, <2>2, <2>3, <3>3
      <4> QED BY <1>1, <1>2, <3>3, <4>1
    <3> QED BY <3>1, <3>2, <3>3
  <2>4. ASSUME NEW j \in a + 1 .. a + m PROVE j \in Ahead(Times(s), i)
    <3>1. j - a \in 1 .. b /\ a + (j - a) = j /\ j - a <= m
      BY <1>1, <1>2
    <3>2. a + (j - a) \in Ahead(Times(s), i)
      BY <2>1, <2>2, <3>1
    <3> QED BY <3>1, <3>2
  <2>5. Ahead(Times(A), i) \subseteq Ahead(Times(s), i)
    BY <2>1
  <2> QED BY <2>3, <2>4, <2>5
<1>5. Cardinality(Ahead(Times(s), i)) = k + m
  <2> DEFINE X == Ahead(Times(A), i)
  <2>1. X \in SUBSET (1 .. a) /\ Cardinality(X) = k
    BY <1>3, JoinedEarlier
  <2> HIDE DEF a, s, X
  <2>2. Cardinality(X \cup (a + 1 .. a + m)) = k + m
    BY <1>1, <1>2, <2>1, WithBlock
  <2> QED BY <1>4, <2>2 DEF X
<1>6. StableSort(s)[k + m + 1] = s[i]
  <2>1. i \in 1 .. Len(s) /\ k + m + 1 \in 1 .. Len(s)
        /\ Cardinality(Ahead(Times(s), i)) = (k + m + 1) - 1
    BY <1>1, <1>2, <1>3, <1>5
  <2> HIDE DEF s
  <2> QED BY <1>1, <2>1, SortIs
<1> QED BY <1>1, <1>3, <1>6

\* The first k of a sequence, once sorted, are those at or before a time.
UpTo(A, t, k) == \A n \in 1 .. Len(A) : StableSort(A)[n].t <= t <=> n <= k

\* A message of the second moves as many places as messages of the first are not
\* behind it.
LEMMA NextStatus ==
  ASSUME NEW T, \A x \in T : x.t \in Nat, NEW A \in Seq(T), NEW B \in Seq(T),
         \A i, j \in 1 .. Len(B) : i < j => B[i].t < B[j].t,
         NEW k \in 0 .. Len(A), NEW l \in 1 .. Len(B), UpTo(A, B[l].t, k)
  PROVE  StableSort(A \o B)[k + l] = B[l]
<1> DEFINE a == Len(A)
           b == Len(B)
           s == A \o B
           m == l - 1
           K == {i \in 1 .. a : A[i].t <= B[m + 1].t}
<1>1. /\ a \in Nat /\ b \in Nat /\ s \in Seq(T) /\ Len(s) = a + b
      /\ \A i \in 1 .. a : A[i].t \in Nat
      /\ \A j \in 1 .. b : s[a + j] = B[j] /\ B[j].t \in Nat
  BY JoinedIs
<1>0. m + 1 = l /\ m \in 0 .. b - 1
  BY <1>1
<1> HIDE DEF m
<1>2. m + 1 \in 1 .. b /\ k \in Nat /\ m \in Nat /\ k \in 0 .. a /\ k + m + 1 \in 1 .. a + b
      /\ (k + m + 1) - 1 = k + m
  BY <1>0, <1>1
<1>3. Cardinality(K) = k
  <2>1. /\ \A n \in 1 .. a : \E i \in 1 .. a :
              StableSort(A)[n] = A[i] /\ Cardinality(Ahead(Times(A), i)) = n - 1
        /\ \A i \in 1 .. a, n \in 1 .. a :
              Cardinality(Ahead(Times(A), i)) = n - 1 => StableSort(A)[n] = A[i]
    BY SortIs
  <2>2. /\ \A i \in 1 .. a : Cardinality(Ahead(Times(A), i)) \in 0 .. a - 1
        /\ \A i, j \in 1 .. a :
              j \in Ahead(Times(A), i) <=> Cardinality(Ahead(Times(A), j)) < Cardinality(Ahead(Times(A), i))
    <3>1. Times(A) \in Seq(Nat) /\ Len(Times(A)) = a
      BY TimesAre
    <3> HIDE DEF a
    <3> QED BY <3>1, Ranks
  <2>3. \A i \in 1 .. a : i \in K <=> Cardinality(Ahead(Times(A), i)) < k
    <3> TAKE i \in 1 .. a
    <3> DEFINE n == Cardinality(Ahead(Times(A), i)) + 1
    <3>1. n \in 1 .. a /\ n - 1 = Cardinality(Ahead(Times(A), i)) /\ (n <= k <=> n - 1 < k)
      BY <1>1, <1>2, <2>2
    <3> HIDE DEF n
    <3>2. StableSort(A)[n] = A[i]
      BY <2>1, <3>1
    <3>3. A[i].t <= B[m + 1].t <=> n <= k
      BY <1>0, <3>1, <3>2 DEF UpTo
    <3>4. i \in K <=> A[i].t <= B[m + 1].t
      OBVIOUS
    <3> QED BY <3>1, <3>3, <3>4, Zenon
  <2>4. Ahead(Times(A), 1) \subseteq 1 .. a /\ \A i : Ahead(Times(A), i) \subseteq 1 .. a
    BY JoinedEarlier
  <2>5. K \subseteq 1 .. a
    OBVIOUS
  <2>6. IsFiniteSet(1 .. a) /\ Cardinality(1 .. a) = a
    <3>0. 1 \in Int /\ a \in Int
      BY <1>1
    <3> HIDE DEF a
    <3>1. IsFiniteSet(1 .. a) /\ Cardinality(1 .. a) = IF 1 > a THEN 0 ELSE a - 1 + 1
      BY <3>0, FS_Interval
    <3> QED BY <1>1, <3>1
  <2> HIDE DEF K, a
  <2>7. CASE k = a
    <3>1. \A i \in 1 .. a : i \in K
      BY <1>1, <2>2, <2>3, <2>7
    <3>2. K = 1 .. a
      BY <2>5, <3>1
    <3> QED BY <2>6, <2>7, <3>2
  <2>8. CASE k # a
    <3>1. k + 1 \in 1 .. a /\ (k + 1) - 1 = k
      BY <1>1, <1>2, <2>8
    <3>2. PICK h \in 1 .. a : Cardinality(Ahead(Times(A), h)) = k
      BY <2>1, <3>1
    <3>3. \A i \in 1 .. a : i \in K <=> i \in Ahead(Times(A), h)
      BY <2>2, <2>3, <3>2
    <3>4. K = Ahead(Times(A), h)
      BY <2>4, <2>5, <3>3
    <3> QED BY <3>2, <3>4
  <2> QED BY <2>7, <2>8
<1>4. Ahead(Times(s), a + (m + 1)) = K \cup (a + 1 .. a + m)
  <2>1. /\ \A j \in 1 .. a : j \in Ahead(Times(s), a + (m + 1)) <=> A[j].t <= B[m + 1].t
        /\ \A j \in 1 .. b : a + j \in Ahead(Times(s), a + (m + 1))
             <=> B[j].t < B[m + 1].t \/ (B[j].t = B[m + 1].t /\ j < m + 1)
        /\ Ahead(Times(s), a + (m + 1)) \subseteq 1 .. a + b
    BY <1>2, JoinedEarlier
  <2>2. \A j \in 1 .. b : B[j].t < B[m + 1].t \/ (B[j].t = B[m + 1].t /\ j < m + 1) <=> j <= m
    <3> TAKE j \in 1 .. b
    <3>1. B[j].t \in Nat /\ B[m + 1].t \in Nat /\ j \in Nat
      BY <1>1, <1>2
    <3>2. j <= m => B[j].t < B[m + 1].t
      BY <1>2, <3>1
    <3>3. m + 1 < j => B[m + 1].t < B[j].t
      BY <1>2, <3>1
    <3>4. j <= m \/ j = m + 1 \/ m + 1 < j
      BY <1>2, <3>1
    <3> QED BY <1>2, <3>1, <3>2, <3>3, <3>4
  <2>3. \A j \in 1 .. a : j \in K <=> A[j].t <= B[m + 1].t
    OBVIOUS
  <2>4. K \subseteq 1 .. a
    OBVIOUS
  <2> DEFINE S == Ahead(Times(s), a + (m + 1))
  <2> HIDE DEF a, b, s, K, S
  <2>5. /\ \A j \in 1 .. a : j \in S <=> j \in K
        /\ \A j \in 1 .. b : a + j \in S <=> j <= m
        /\ S \subseteq 1 .. a + b
    BY <2>1, <2>2, <2>3, Zenon DEF S
  <2>6. ASSUME NEW j \in S PROVE j \in K \cup (a + 1 .. a + m)
    <3>1. j \in 1 .. a \/ (j - a \in 1 .. b /\ a + (j - a) = j)
      BY <1>1, <2>5, <2>6
    <3>2. CASE j \in 1 .. a
      BY <2>5, <2>6, <3>2
    <3>3. CASE j - a \in 1 .. b /\ a + (j - a) = j
      <4>1. j - a <= m
        BY <2>5, <2>6, <3>3
      <4> QED BY <1>1, <1>2, <3>3, <4>1
    <3> QED BY <3>1, <3>2, <3>3
  <2>7. ASSUME NEW j \in a + 1 .. a + m PROVE j \in S
    <3>1. j - a \in 1 .. b /\ a + (j - a) = j /\ j - a <= m
      BY <1>1, <1>2
    <3>2. a + (j - a) \in S
      BY <2>5, <3>1
    <3> QED BY <3>1, <3>2
  <2>8. K \subseteq S
    BY <2>4, <2>5
  <2> QED BY <2>6, <2>7, <2>8 DEF S
<1>5. Cardinality(Ahead(Times(s), a + (m + 1))) = k + m
  <2>1. K \in SUBSET (1 .. a)
    OBVIOUS
  <2> HIDE DEF K, a, s
  <2>2. Cardinality(K \cup (a + 1 .. a + m)) = k + m
    BY <1>1, <1>2, <1>3, <2>1, WithBlock
  <2> QED BY <1>4, <2>2
<1>6. StableSort(s)[k + m + 1] = s[a + (m + 1)]
  <2>1. a + (m + 1) \in 1 .. Len(s) /\ k + m + 1 \in 1 .. Len(s)
        /\ Cardinality(Ahead(Times(s), a + (m + 1))) = (k + m + 1) - 1
    BY <1>1, <1>2, <1>5
  <2> HIDE DEF s, a
  <2> QED BY <1>1, <2>1, SortIs
<1>7. k + l = k + m + 1 /\ s[a + (m + 1)] = B[l]
  BY <1>0, <1>1, <1>2
<1> QED BY <1>6, <1>7, Zenon

\* Rows in the order of their times.
LEMMA SortedIs ==
  ASSUME NEW S, IsFiniteSet(S), \A e \in S : e.t \in Nat,
         \A e, f \in S : e.t = f.t => e = f
  PROVE  /\ Sorted(S) \in Seq(S)
         /\ \A m, n \in 1 .. Len(Sorted(S)) : m < n => Sorted(S)[m].t < Sorted(S)[n].t
         /\ \A e \in S : \E n \in 1 .. Len(Sorted(S)) : Sorted(S)[n] = e
<1> DEFINE K == {e.t : e \in S}
           q == InTurn(K)
           s == Sorted(S)
<1>1. K \in SUBSET Nat /\ IsFiniteSet(K)
  <2> DEFINE f == [e \in S |-> e.t]
  <2>1. f \in Surjection(S, K)
    BY DEF Surjection
  <2>2. IsFiniteSet(K)
    <3> HIDE DEF f, K
    <3> QED BY <2>1, FS_Surjection
  <2> QED BY <2>2
<1>2. /\ q \in Seq(K) /\ InOrder(q) /\ {q[i] : i \in DOMAIN q} = K
  <2> HIDE DEF K
  <2> QED BY <1>1, InTurnIs
<1> DEFINE c == Len(q)
<1>3. c \in Nat /\ DOMAIN q = 1 .. c /\ \A n \in 1 .. c : q[n] \in K
  <2> HIDE DEF q, K
  <2> QED BY <1>2
<1>a. \A k \in K : \E n \in 1 .. c : q[n] = k
  <2> HIDE DEF q, K, c
  <2> QED BY <1>2, <1>3
<1>4. \A k \in K : (CHOOSE e \in S : e.t = k) \in S /\ (CHOOSE e \in S : e.t = k).t = k
  OBVIOUS
<1>5. s = [n \in 1 .. c |-> CHOOSE e \in S : e.t = q[n]]
  BY <1>3 DEF Sorted
<1> HIDE DEF q, s, c
<1>6. \A n \in 1 .. c : s[n] = (CHOOSE e \in S : e.t = q[n]) /\ s[n] \in S /\ s[n].t = q[n]
  BY <1>3, <1>4, <1>5
<1>7. s \in Seq(S) /\ Len(s) = c
  <2>1. s \in [1 .. c -> S]
    BY <1>5, <1>6
  <2> HIDE DEF K
  <2> QED BY <1>3, <2>1, ListIs
<1>8. \A m, n \in 1 .. c : m < n => s[m].t < s[n].t
  BY <1>2, <1>3, <1>6 DEF InOrder
<1>9. ASSUME NEW e \in S PROVE \E n \in 1 .. c : s[n] = e
  <2>2. PICK n \in 1 .. c : q[n] = e.t
    BY <1>a
  <2>3. s[n] \in S /\ s[n].t = e.t
    BY <1>6, <2>2
  <2>4. s[n] = e
    BY <2>3
  <2> QED BY <2>4
<1> QED BY <1>7, <1>8, <1>9 DEF s

-----------------------------------------------------------------------------
(* Whole seconds. *)

\* The first whole second is one, not before the window opens, and the last such.
LEMMA FirstSecond ==
  ASSUME NEW t \in Nat
  PROVE  /\ CeilSecond(t) \in Nat /\ CeilSecond(t) >= t
         /\ \E k \in Nat : CeilSecond(t) = k * RepSecond
         /\ \A k \in Nat : k * RepSecond >= t => CeilSecond(t) <= k * RepSecond
<1> DEFINE s == RepSecond
           d == (t + s - 1) \div s
<1>1. s \in Nat \ {0}
  BY RepAssumption
<1> HIDE DEF s
<1>2. d \in Nat /\ d * s \in Nat /\ d * s >= t /\ d * s < t + s
  BY <1>1
<1> HIDE DEF d
<1>3. ASSUME NEW k \in Nat, k * s >= t PROVE d * s <= k * s
  <2>1. \A i, j \in Nat : i < j => i * s + s <= j * s
    BY <1>1
  <2>2. k < d => k * s + s <= d * s
    BY <1>2, <2>1
  <2>3. k * s \in Nat
    BY <1>1
  <2>4. ~(k < d)
    BY <1>1, <1>2, <1>3, <2>2, <2>3
  <2>5. d < k => d * s + s <= k * s
    BY <1>2, <2>1
  <2> QED BY <1>1, <1>2, <2>3, <2>4, <2>5
<1> QED BY <1>2, <1>3 DEF CeilSecond, d, s

\* After a whole second, the next.
LEMMA NextSecond ==
  ASSUME NEW k \in Nat
  PROVE  /\ k * RepSecond \in Nat /\ RepSecond \in Nat /\ RepSecond > 0
         /\ (k + 1) * RepSecond = k * RepSecond + RepSecond
         /\ \A j \in Nat : k * RepSecond < j * RepSecond
                           => k * RepSecond + RepSecond <= j * RepSecond
         /\ k <= k * RepSecond
<1> DEFINE s == RepSecond
<1>1. s \in Nat \ {0}
  BY RepAssumption
<1> HIDE DEF s
<1>2. k * s \in Nat /\ (k + 1) * s = k * s + s /\ k <= k * s
  BY <1>1
<1>3. \A i, j \in Nat : i < j => i * s + s <= j * s
  BY <1>1
<1>4. ASSUME NEW j \in Nat, k * s < j * s PROVE k * s + s <= j * s
  <2>1. j < k => j * s + s <= k * s
    BY <1>3
  <2>2. j = k => j * s = k * s
    OBVIOUS
  <2>3. j * s \in Nat
    BY <1>1
  <2>4. k < j
    BY <1>1, <1>2, <1>4, <2>1, <2>2, <2>3
  <2> QED BY <1>3, <2>4
<1> QED BY <1>1, <1>2, <1>4 DEF s

-----------------------------------------------------------------------------
(* What there is to send. *)

RepAsked == repTables \in [epochs : RepEpochs, events : RepEvents] /\ repWindow \in RepWindows

\* What the tables hold, and the window.
LEMMA TablesAre ==
  ASSUME RepAsked
  PROVE  /\ repWindow.t0 \in Nat /\ repWindow.t1 \in Nat /\ repWindow.t0 < repWindow.t1
         /\ RepLookback \in Nat
         /\ repTables.epochs \subseteq Epochs /\ IsFiniteSet(repTables.epochs)
         /\ \A e, f \in repTables.epochs : e.src = f.src /\ e.t = f.t => e = f
         /\ repTables.events \subseteq Events /\ IsFiniteSet(repTables.events)
         /\ \A e, f \in repTables.events :
              e.diagnosis /\ f.diagnosis /\ e.t = f.t => e = f
<1>1. /\ repWindow \in [t0 : Nat, t1 : Nat] /\ repWindow.t0 < repWindow.t1 /\ RepLookback \in Nat
  BY RepAssumption DEF RepAsked
<1>2. repTables.epochs \in RepEpochs /\ repTables.events \in RepEvents
  BY DEF RepAsked
<1>3. /\ repTables.epochs \subseteq Epochs /\ IsFiniteSet(repTables.epochs)
      /\ \A e, f \in repTables.epochs : e.src = f.src /\ e.t = f.t => e = f
  BY <1>2, RepAssumption
<1>4. /\ repTables.events \subseteq Events /\ IsFiniteSet(repTables.events)
      /\ \A e, f \in repTables.events : e.diagnosis /\ f.diagnosis /\ e.t = f.t => e = f
  BY <1>2, RepAssumption
<1> QED BY <1>1, <1>3, <1>4

\* The rows of a source.
LEMMA RowsAre ==
  ASSUME RepAsked, NEW src
  PROVE  /\ Rows(src) \in Seq(repTables.epochs) /\ Len(Rows(src)) \in Nat
         /\ DOMAIN Rows(src) = 1 .. Len(Rows(src))
         /\ \A n \in 1 .. Len(Rows(src)) :
              LET e == Rows(src)[n]
              IN  /\ e \in repTables.epochs /\ e.src = src /\ e.t \in Nat
                  /\ repWindow.t0 - RepLookback <= e.t /\ e.t <= repWindow.t1
         /\ \A m, n \in 1 .. Len(Rows(src)) : m < n => Rows(src)[m].t < Rows(src)[n].t
         /\ \A e \in repTables.epochs :
              /\ e.src = src /\ repWindow.t0 - RepLookback <= e.t /\ e.t <= repWindow.t1
              => \E n \in 1 .. Len(Rows(src)) : Rows(src)[n] = e
<1> DEFINE S == {e \in repTables.epochs : /\ e.src = src /\ repWindow.t0 - RepLookback <= e.t
                                         /\ e.t <= repWindow.t1}
           q == Sorted(S)
<1>1. Rows(src) = q
  BY Zenon DEF Rows, Query
<1>2. IsFiniteSet(S) /\ S \subseteq repTables.epochs
  BY TablesAre, FS_Subset
<1>3. \A e \in S : e.t \in Nat /\ e.src = src
  BY TablesAre DEF Epochs
<1>4. \A e, f \in S : e.t = f.t => e = f
  BY <1>2, <1>3, TablesAre
<1>5. \A e \in S : repWindow.t0 - RepLookback <= e.t /\ e.t <= repWindow.t1
  OBVIOUS
<1>6. \A e \in repTables.epochs :
        e.src = src /\ repWindow.t0 - RepLookback <= e.t /\ e.t <= repWindow.t1 => e \in S
  OBVIOUS
<1> HIDE DEF S, q
<1>7. /\ q \in Seq(S)
      /\ \A m, n \in 1 .. Len(q) : m < n => q[m].t < q[n].t
      /\ \A e \in S : \E n \in 1 .. Len(q) : q[n] = e
  BY <1>2, <1>3, <1>4, SortedIs DEF q
<1>8. /\ Len(q) \in Nat /\ DOMAIN q = 1 .. Len(q) /\ \A n \in 1 .. Len(q) : q[n] \in S
  BY <1>7
<1>9. q \in Seq(repTables.epochs)
  BY <1>2, <1>7, SeqWider, Zenon
<1>10. \A n \in 1 .. Len(q) : /\ q[n] \in repTables.epochs /\ q[n].src = src /\ q[n].t \in Nat
                              /\ repWindow.t0 - RepLookback <= q[n].t /\ q[n].t <= repWindow.t1
  BY <1>2, <1>3, <1>5, <1>8
<1>11. \A e \in repTables.epochs :
         e.src = src /\ repWindow.t0 - RepLookback <= e.t /\ e.t <= repWindow.t1
           => \E n \in 1 .. Len(q) : q[n] = e
  BY <1>6, <1>7
<1> QED BY <1>1, <1>7, <1>8, <1>9, <1>10, <1>11, Zenon

\* The last row not behind a second is the latest known there.
LEMMA LatestIs ==
  ASSUME RepAsked, NEW src, NEW sec \in Nat, sec <= repWindow.t1,
         NEW i \in 0 .. Len(Rows(src)),
         \A n \in 1 .. i : Rows(src)[n].t <= sec,
         \A n \in i + 1 .. Len(Rows(src)) : Rows(src)[n].t > sec
  PROVE  LatestRow(src, sec) = IF i = 0 THEN {} ELSE {Rows(src)[i]}
<1> DEFINE q == Rows(src)
           known == {e \in repTables.epochs : /\ e.src = src /\ e.t <= sec
                                              /\ e.t >= repWindow.t0 - RepLookback}
<1>1. /\ Len(q) \in Nat
      /\ \A n \in 1 .. Len(q) : /\ q[n] \in repTables.epochs /\ q[n].src = src /\ q[n].t \in Nat
                                /\ repWindow.t0 - RepLookback <= q[n].t
      /\ \A m, n \in 1 .. Len(q) : m < n => q[m].t < q[n].t
  BY RowsAre
<1>2. /\ repWindow.t0 \in Nat /\ repWindow.t1 \in Nat /\ RepLookback \in Nat
      /\ \A e \in repTables.epochs : e.t \in Nat
  BY TablesAre DEF Epochs
<1>3. LatestRow(src, sec) = {e \in known : \A f \in known : f.t <= e.t}
  BY DEF LatestRow
<1>4. \A e \in known : \E n \in 1 .. i : q[n] = e
  <2> TAKE e \in known
  <2>1. e \in repTables.epochs /\ e.src = src /\ e.t <= sec /\ e.t \in Nat
        /\ repWindow.t0 - RepLookback <= e.t /\ e.t <= repWindow.t1
    BY <1>2
  <2>2. PICK n \in 1 .. Len(q) : q[n] = e
    BY <2>1, RowsAre
  <2>3. ~(q[n].t > sec)
    BY <1>1, <2>1, <2>2
  <2>4. n \in 1 .. i
    BY <1>1, <2>2, <2>3
  <2> QED BY <2>2, <2>4
<1>5. \A n \in 1 .. i : q[n] \in known /\ q[n].t \in Nat
  <2> TAKE n \in 1 .. i
  <2>1. n \in 1 .. Len(q)
    BY <1>1
  <2>2. q[n] \in repTables.epochs /\ q[n].src = src /\ q[n].t \in Nat /\ q[n].t <= sec
        /\ repWindow.t0 - RepLookback <= q[n].t
    BY <1>1, <2>1
  <2>3. q[n].t >= repWindow.t0 - RepLookback
    BY <1>2, <2>2
  <2> QED BY <2>2, <2>3
<1>6. \A m, n \in 1 .. i : m < n => q[m].t < q[n].t
  BY <1>1
<1> DEFINE newest == {e \in known : \A f \in known : f.t <= e.t}
<1> HIDE DEF q, known
<1>7. CASE i = 0
  <2>1. known = {}
    BY <1>4, <1>7
  <2> QED BY <1>3, <1>7, <2>1
<1>8. CASE i # 0
  <2>1. i \in 1 .. i /\ i \in Nat
    BY <1>1, <1>8
  <2>2. q[i] \in newest
    <3>1. \A f \in known : f.t <= q[i].t
      <4> TAKE f \in known
      <4>1. PICK n \in 1 .. i : q[n] = f
        BY <1>4
      <4>2. n = i \/ n < i
        BY <2>1
      <4> QED BY <1>5, <1>6, <2>1, <4>1, <4>2
    <3> QED BY <1>5, <2>1, <3>1
  <2>3. ASSUME NEW e \in newest PROVE e = q[i]
    <3>1. PICK n \in 1 .. i : q[n] = e
      BY <1>4
    <3>2. q[i].t <= q[n].t
      BY <1>5, <2>1, <3>1
    <3>3. ~(n < i)
      BY <1>5, <1>6, <2>1, <3>2
    <3>4. n = i
      BY <2>1, <3>3
    <3> QED BY <3>1, <3>4
  <2>4. newest = {q[i]}
    BY <2>2, <2>3
  <2> QED BY <1>3, <1>8, <2>4 DEF q
<1> QED BY <1>7, <1>8

\* Positions and events that are sent, and status messages.
InWindow == {t \in Nat : repWindow.t0 <= t /\ t <= repWindow.t1}
Others == [type : {"position", "open", "close"}, t : InWindow,
           row : repTables.epochs \cup repTables.events]
StatusMsgs == [type : {"status"}, t : InWindow, row : [Sources -> SUBSET repTables.epochs]]

\* The positions of a source.
LEMMA PositionsAre ==
  ASSUME RepAsked, NEW src
  PROVE  PositionsOf(src) \in Seq(Others)
<1> DEFINE rows == Rows(src)
           K == {i \in DOMAIN rows : Within(rows[i].t)}
           in == Picked(rows, K)
           c == Cardinality(K)
<1>1. /\ rows \in Seq(repTables.epochs) /\ DOMAIN rows = 1 .. Len(rows)
      /\ \A n \in 1 .. Len(rows) : rows[n] \in repTables.epochs /\ rows[n].t \in Nat
  BY RowsAre
<1>2. \A i \in K : rows[i].t \in InWindow /\ rows[i] \in repTables.epochs
  BY <1>1 DEF Within, InWindow
<1>3. K \in SUBSET DOMAIN rows
  OBVIOUS
<1>4. PositionsOf(src) = [i \in DOMAIN in |-> Position(in[i])]
  BY Zenon DEF PositionsOf
<1> HIDE DEF rows, K, in
<1>5. /\ c \in Nat /\ in \in Seq(repTables.epochs) /\ Len(in) = c
      /\ \A n \in 1 .. c : Nth(K, n) \in K /\ in[n] = rows[Nth(K, n)]
  BY <1>1, <1>3, PickedIs DEF in
<1> HIDE DEF c
<1>6. DOMAIN in = 1 .. c
  BY <1>5
<1>7. \A n \in 1 .. c : Position(in[n]) \in Others
  <2> TAKE n \in 1 .. c
  <2>1. in[n].t \in InWindow /\ in[n] \in repTables.epochs
    BY <1>2, <1>5
  <2> QED BY <2>1 DEF Position, Others
<1> DEFINE f == [i \in 1 .. c |-> Position(in[i])]
<1>8. f \in [1 .. c -> Others]
  BY <1>7
<1> HIDE DEF f
<1>9. f \in Seq(Others)
  BY <1>5, <1>8, ListIs
<1> QED BY <1>4, <1>6, <1>9 DEF f

\* The events.
LEMMA EventsAre ==
  ASSUME RepAsked
  PROVE  EventMessages \in Seq(Others)
<1> DEFINE S == {e \in repTables.events : e.diagnosis}
           rows == Sorted(S)
           Any == [type : {"open", "close"}, t : Nat \cup {NotClosed}, row : repTables.events]
           all == [i \in 1 .. 2 * Len(rows) |-> IF i % 2 = 1 THEN Opened(rows[(i + 1) \div 2])
                                               ELSE Closed(rows[i \div 2])]
           K == {i \in DOMAIN all : all[i].t # NotClosed /\ Within(all[i].t)}
           c == Cardinality(K)
           out == Picked(all, K)
<1>1. EventMessages = out
  BY Zenon DEF EventMessages
<1>2. /\ IsFiniteSet(S) /\ S \subseteq repTables.events
      /\ \A e \in S : e.t \in Nat /\ e.t_close \in Nat \cup {NotClosed}
      /\ \A e, f \in S : e.t = f.t => e = f
  <2>1. S \subseteq repTables.events /\ \A e \in S : e.diagnosis
    OBVIOUS
  <2>2. IsFiniteSet(S)
    BY <2>1, TablesAre, FS_Subset
  <2>3. \A e \in repTables.events : e.t \in Nat /\ e.t_close \in Nat \cup {NotClosed}
    BY TablesAre DEF Events
  <2>4. \A e, f \in S : e.t = f.t => e = f
    <3> HIDE DEF S
    <3> QED BY <2>1, TablesAre
  <2> QED BY <2>1, <2>2, <2>3, <2>4
<1> HIDE DEF S
<1>3. rows \in Seq(S)
  BY <1>2, SortedIs
<1> HIDE DEF rows
<1> DEFINE n == Len(rows)
<1>4. n \in Nat /\ \A i \in 1 .. n : rows[i] \in S
  BY <1>3
<1>5. \A i \in 1 .. n : Opened(rows[i]) \in Any /\ Closed(rows[i]) \in Any
  BY <1>2, <1>4 DEF Opened, Closed
<1>6. all = [i \in 1 .. 2 * n |-> IF i % 2 = 1 THEN Opened(rows[(i + 1) \div 2])
                                   ELSE Closed(rows[i \div 2])]
  OBVIOUS
<1> HIDE DEF n, Any
<1>7. \A i \in 1 .. 2 * n : IF i % 2 = 1 THEN (i + 1) \div 2 \in 1 .. n ELSE i \div 2 \in 1 .. n
  BY <1>4
<1>8. \A i \in 1 .. 2 * n : all[i] \in Any
  BY <1>5, <1>6, <1>7
<1>9. all \in Seq(Any) /\ Len(all) = 2 * n
  <2>1. 2 * n \in Nat
    BY <1>4
  <2>2. all = [i \in 1 .. 2 * n |-> all[i]]
    BY <1>6, Zenon
  <2> HIDE DEF all
  <2>3. all \in [1 .. 2 * n -> Any]
    BY <1>8, <2>2
  <2> QED BY <2>1, <2>3, ListIs
<1> HIDE DEF all
<1>10. DOMAIN all = 1 .. 2 * n
  BY <1>9
<1>11. \A i \in K : all[i] \in Others
  <2> TAKE i \in K
  <2>1. all[i] \in Any /\ all[i].t # NotClosed /\ Within(all[i].t)
    BY <1>8, <1>10
  <2>2. all[i].t \in InWindow
    BY <2>1 DEF Any, Within, InWindow
  <2>3. all[i] = [type |-> all[i].type, t |-> all[i].t, row |-> all[i].row]
        /\ all[i].type \in {"open", "close"} /\ all[i].row \in repTables.events
    BY <2>1 DEF Any
  <2> QED BY <2>2, <2>3 DEF Others
<1>12. K \in SUBSET DOMAIN all
  OBVIOUS
<1> HIDE DEF K, c, out
<1>13. /\ c \in Nat /\ out \in Seq(Any) /\ Len(out) = c
       /\ \A m \in 1 .. c : Nth(K, m) \in K /\ out[m] = all[Nth(K, m)]
  BY <1>9, <1>12, PickedIs DEF c, out
<1>14. \A m \in 1 .. c : out[m] \in Others
  BY <1>11, <1>13
<1>15. out \in [1 .. c -> Others]
  BY <1>13, <1>14
<1> QED BY <1>1, <1>13, <1>15, ListIs

\* All of them, as they are gathered.
LEMMA OthersAre ==
  ASSUME RepAsked
  PROVE  Unsorted \in Seq(Others)
<1> DEFINE a == PositionsOf("can")
           b == PositionsOf("gpchc")
           c == EventMessages
<1>1. a \in Seq(Others) /\ b \in Seq(Others) /\ c \in Seq(Others)
  BY PositionsAre, EventsAre
<1> HIDE DEF a, b, c
<1>2. a \o b \in Seq(Others)
  BY <1>1, ConcatProperties
<1>3. (a \o b) \o c \in Seq(Others)
  BY <1>1, <1>2, ConcatProperties
<1> QED BY <1>3 DEF Unsorted, a, b, c

\* The statuses.
LEMMA StatusesAre ==
  ASSUME RepAsked
  PROVE  /\ Statuses \in Seq(StatusMsgs) /\ Len(Statuses) \in Nat
         /\ \A n \in 1 .. Len(Statuses) :
              LET t == Statuses[n].t
              IN  /\ t \in InWindow /\ \E k \in Nat : t = k * RepSecond
                  /\ Statuses[n] = Status(t, [s \in Sources |-> LatestRow(s, t)])
         /\ \A m, n \in 1 .. Len(Statuses) : m < n => Statuses[m].t < Statuses[n].t
         /\ \A k \in Nat : k * RepSecond \in InWindow
              => \E n \in 1 .. Len(Statuses) : Statuses[n].t = k * RepSecond
<1> DEFINE K == Seconds
           q == InTurn(K)
           c == Len(q)
           f == [n \in 1 .. c |-> Status(q[n], [s \in Sources |-> LatestRow(s, q[n])])]
<1>1. repWindow.t0 \in Nat /\ repWindow.t1 \in Nat
  BY TablesAre
<1>2. /\ K \subseteq InWindow /\ InWindow \subseteq Nat
      /\ \A t \in K : \E k \in Nat : t = k * RepSecond
  BY <1>1 DEF Seconds, InWindow
<1>3. \A k \in Nat : k * RepSecond \in InWindow => k * RepSecond \in K
  <2> SUFFICES ASSUME NEW k \in Nat, k * RepSecond \in InWindow PROVE k * RepSecond \in K
    OBVIOUS
  <2> DEFINE x == k * RepSecond
  <2>1. k <= x /\ x \in Nat /\ x = k * RepSecond
    BY NextSecond
  <2>2. repWindow.t0 <= x /\ x <= repWindow.t1
    BY DEF InWindow
  <2> HIDE DEF x
  <2>3. x \in repWindow.t0 .. repWindow.t1 /\ k \in 0 .. x
    BY <1>1, <2>1, <2>2
  <2>4. x \in Seconds
    BY <2>1, <2>3, Zenon DEF Seconds
  <2> QED BY <2>4 DEF x
<1>4. K \in SUBSET Nat /\ IsFiniteSet(K)
  <2>1. IsFiniteSet(repWindow.t0 .. repWindow.t1)
    BY <1>1, FS_Interval
  <2>2. K \subseteq repWindow.t0 .. repWindow.t1
    BY DEF Seconds
  <2> HIDE DEF K
  <2> QED BY <1>2, <2>1, <2>2, FS_Subset
<1> HIDE DEF K
<1>5. q \in Seq(K) /\ InOrder(q) /\ {q[i] : i \in DOMAIN q} = K
  BY <1>4, InTurnIs
<1> HIDE DEF q
<1>6. c \in Nat /\ DOMAIN q = 1 .. c /\ (\A n \in 1 .. c : q[n] \in K)
      /\ \A k \in K : \E n \in 1 .. c : q[n] = k
  BY <1>5
<1>7. Statuses = f
  <2>1. Statuses = [n \in DOMAIN q |-> Status(q[n], [s \in Sources |-> LatestRow(s, q[n])])]
    BY Zenon DEF Statuses, q, K
  <2> HIDE DEF c
  <2> QED BY <1>6, <2>1
<1> HIDE DEF c, f
<1>8. \A t : [s \in Sources |-> LatestRow(s, t)] \in [Sources -> SUBSET repTables.epochs]
  BY DEF LatestRow
<1>9. \A n \in 1 .. c : /\ f[n] = Status(q[n], [s \in Sources |-> LatestRow(s, q[n])])
                       /\ f[n].t = q[n] /\ f[n] \in StatusMsgs
  <2> TAKE n \in 1 .. c
  <2> DEFINE g == [s \in Sources |-> LatestRow(s, q[n])]
  <2>1. f[n] = Status(q[n], g)
    BY Zenon DEF f
  <2>2. g \in [Sources -> SUBSET repTables.epochs] /\ q[n] \in InWindow
    BY <1>2, <1>6, <1>8
  <2> HIDE DEF g
  <2>3. f[n].t = q[n] /\ f[n] \in StatusMsgs
    BY <2>1, <2>2 DEF Status, StatusMsgs
  <2> QED BY <2>1, <2>3 DEF g
<1>10. f \in [1 .. c -> StatusMsgs]
  <2>1. f = [n \in 1 .. c |-> f[n]]
    BY DEF f
  <2> QED BY <1>9, <2>1
<1>11. f \in Seq(StatusMsgs) /\ Len(f) = c
  BY <1>6, <1>10, ListIs
<1>12. \A n \in 1 .. c : LET t == f[n].t
                         IN  /\ t \in InWindow /\ \E k \in Nat : t = k * RepSecond
                             /\ f[n] = Status(t, [s \in Sources |-> LatestRow(s, t)])
  <2> TAKE n \in 1 .. c
  <2>1. f[n].t = q[n] /\ f[n] = Status(q[n], [s \in Sources |-> LatestRow(s, q[n])])
    BY <1>9
  <2>2. q[n] \in InWindow /\ \E k \in Nat : q[n] = k * RepSecond
    BY <1>2, <1>6
  <2> QED BY <2>1, <2>2
<1>13. \A m, n \in 1 .. c : m < n => f[m].t < f[n].t
  <2> SUFFICES ASSUME NEW m \in 1 .. c, NEW n \in 1 .. c, m < n PROVE f[m].t < f[n].t
    OBVIOUS
  <2>1. q[m] < q[n]
    BY <1>5, <1>6 DEF InOrder
  <2>2. f[m].t = q[m] /\ f[n].t = q[n]
    BY <1>9
  <2> QED BY <2>1, <2>2
<1>14. \A k \in Nat : k * RepSecond \in InWindow => \E n \in 1 .. c : f[n].t = k * RepSecond
  <2> SUFFICES ASSUME NEW k \in Nat, k * RepSecond \in InWindow
               PROVE  \E n \in 1 .. c : f[n].t = k * RepSecond
    OBVIOUS
  <2>1. PICK n \in 1 .. c : q[n] = k * RepSecond
    BY <1>3, <1>6
  <2> QED BY <1>9, <2>1
<1> QED BY <1>6, <1>7, <1>11, <1>12, <1>13, <1>14, Zenon

-----------------------------------------------------------------------------
(* The merge.  What has been sent is the first positions and events and the *)
(* first statuses; no position or event that is left is behind a status     *)
(* sent, and none sent is ahead of the second that is next.                 *)

Msgs == Others \cup StatusMsgs
Sent == Msgs \cup {EndMessage}

SentUpTo(m) ==
  /\ m \in 0 .. Len(Statuses)
  /\ Len(repOut) = repOi + m + (IF repPc = "over" THEN 1 ELSE 0)
  /\ \A j \in 1 .. Len(Statuses) : j <= m <=> Statuses[j].t < repSec
  /\ \A n \in repOi + 1 .. Len(Unsorted) : \A j \in 1 .. m : Statuses[j].t < repOther[n].t

SourceInv(s) ==
  /\ repIdx[s] \in 0 .. Len(Rows(s))
  /\ \A n \in 1 .. repIdx[s] : Rows(s)[n].t <= repSec
  /\ repLast[s] = IF repIdx[s] = 0 THEN {} ELSE {Rows(s)[repIdx[s]]}

MergeInv ==
  /\ repOther = StableSort(Unsorted) /\ repOi \in 0 .. Len(Unsorted)
  /\ repSec >= repWindow.t0 /\ \E k \in Nat : repSec = k * RepSecond
  /\ \E m : SentUpTo(m)
  /\ \A n \in 1 .. repOi : repOther[n].t <= repSec
  /\ \A n \in 1 .. Len(repOut) : repOut[n] = Materialised[n]
  /\ \A s \in Sources : SourceInv(s)
  /\ repPc = "merging" \/ repSec > repWindow.t1
  /\ repPc = "over" => repOi = Len(Unsorted)

NothingRead ==
  /\ repOther = <<>> /\ repOi = 0 /\ repSec = 0 /\ repOut = <<>>
  /\ \A s \in Sources : repIdx[s] = 0 /\ repLast[s] = {}

RepInv ==
  /\ RepAsked /\ repPc \in {"new", "merging", "tail", "over"}
  /\ repOut \in Seq(Sent) /\ repIdx \in [Sources -> Nat] /\ DOMAIN repLast = Sources
  /\ repPc = "new" => NothingRead
  /\ repPc # "new" => MergeInv

\* What is to be sent, and in which order.
LEMMA MaterialisedIs ==
  ASSUME RepAsked
  PROVE  /\ Unsorted \in Seq(Msgs) /\ Statuses \in Seq(Msgs) /\ \A x \in Msgs : x.t \in Nat
         /\ Len(Unsorted) \in Nat /\ Len(Statuses) \in Nat
         /\ StableSort(Unsorted) \in Seq(Others) /\ Len(StableSort(Unsorted)) = Len(Unsorted)
         /\ \A n \in 1 .. Len(Unsorted) : /\ StableSort(Unsorted)[n] \in Others
                                         /\ StableSort(Unsorted)[n].t \in InWindow
         /\ \A m, n \in 1 .. Len(Unsorted) :
              m < n => StableSort(Unsorted)[m].t <= StableSort(Unsorted)[n].t
         /\ Materialised \in Seq(Sent) /\ Len(Materialised) = Len(Unsorted) + Len(Statuses) + 1
         /\ \A n \in 1 .. Len(Unsorted) + Len(Statuses) :
              Materialised[n] = StableSort(Unsorted \o Statuses)[n]
         /\ Materialised[Len(Unsorted) + Len(Statuses) + 1] = EndMessage
<1> DEFINE U == Unsorted
           V == Statuses
           a == Len(U)
           b == Len(V)
           M == StableSort(U \o V)
           Q == StableSort(U)
<1>1. /\ \A x \in Others : x.t \in InWindow /\ x.t \in Nat
      /\ \A x \in StatusMsgs : x.t \in Nat
  BY DEF Others, StatusMsgs, InWindow
<1>2. \A x \in Msgs : x.t \in Nat
  BY <1>1 DEF Msgs
<1>3. U \in Seq(Others) /\ V \in Seq(StatusMsgs)
  BY OthersAre, StatusesAre
<1> HIDE DEF U, V, Q
<1>4. U \in Seq(Msgs) /\ V \in Seq(Msgs)
  <2>1. Others \subseteq Msgs /\ StatusMsgs \subseteq Msgs
    BY DEF Msgs
  <2> QED BY <1>3, <2>1, SeqWider, Zenon
<1>5. /\ a \in Nat /\ b \in Nat /\ U \o V \in Seq(Msgs) /\ Len(U \o V) = a + b
  BY <1>4, ConcatProperties
<1>6. Q \in Seq(Others) /\ Len(Q) = a
  BY <1>1, <1>3, SortIs DEF Q
<1>7. \A n \in 1 .. a : Q[n] \in Others /\ Q[n].t \in InWindow
  BY <1>1, <1>6
<1>8. \A m, n \in 1 .. a : m < n => Q[m].t <= Q[n].t
  BY <1>1, <1>3, SortRises DEF Q
<1>9. M \in Seq(Msgs) /\ Len(M) = a + b
  <2> DEFINE W == U \o V
  <2> HIDE DEF W
  <2>1. W \in Seq(Msgs) /\ Len(W) = a + b
    BY <1>5 DEF W
  <2>2. StableSort(W) \in Seq(Msgs) /\ Len(StableSort(W)) = Len(W)
    BY <1>2, <2>1, SortIs
  <2> QED BY <2>1, <2>2 DEF W
<1> HIDE DEF M, a, b
<1>10. M \in Seq(Sent) /\ EndMessage \in Sent
  <2>1. Msgs \subseteq Sent /\ EndMessage \in Sent
    BY DEF Sent
  <2> QED BY <1>9, <2>1, SeqWider, Zenon
<1>11. /\ Append(M, EndMessage) \in Seq(Sent) /\ Len(Append(M, EndMessage)) = a + b + 1
       /\ \A n \in 1 .. a + b : Append(M, EndMessage)[n] = M[n]
       /\ Append(M, EndMessage)[a + b + 1] = EndMessage
  BY <1>9, <1>10, AppendProperties
<1>12. Materialised = Append(M, EndMessage)
  BY DEF Materialised, M, U, V
<1> QED BY <1>2, <1>4, <1>5, <1>6, <1>7, <1>8, <1>11, <1>12 DEF U, V, Q, M, a, b

\* It stays so.
LEMMA RepStays ==
  ASSUME repTables' = repTables, repWindow' = repWindow
  PROVE  /\ RepAsked' = RepAsked /\ Unsorted' = Unsorted /\ Statuses' = Statuses
         /\ Materialised' = Materialised /\ EndMessage' = EndMessage /\ Sent' = Sent
         /\ \A s : Rows(s)' = Rows(s)
<1>1. \A s : Rows(s)' = Rows(s)
  BY DEF Rows, Query
<1>2. PositionsOf("can")' = PositionsOf("can") /\ PositionsOf("gpchc")' = PositionsOf("gpchc")
  BY <1>1, Zenon DEF PositionsOf, Within
<1>3. EventMessages' = EventMessages
  BY Zenon DEF EventMessages, Within
<1>4. Unsorted' = Unsorted
  BY <1>2, <1>3 DEF Unsorted
<1>5. \A s, t : LatestRow(s, t)' = LatestRow(s, t)
  BY DEF LatestRow
<1>6. Seconds' = Seconds
  BY DEF Seconds
<1>7. Statuses' = Statuses
  BY <1>6, Zenon DEF Statuses, LatestRow
<1>8. EndMessage' = EndMessage
  BY DEF EndMessage
<1>9. Materialised' = Materialised
  BY <1>4, <1>7, <1>8 DEF Materialised
<1>10. Sent' = Sent
  BY <1>8 DEF Sent, Msgs, Others, StatusMsgs, InWindow
<1>11. RepAsked' = RepAsked
  BY DEF RepAsked
<1> QED BY <1>1, <1>4, <1>7, <1>8, <1>9, <1>10, <1>11

\* One more message is sent, and it is the one that is next.
LEMMA OutGrows ==
  ASSUME repOut \in Seq(Sent), NEW x \in Sent,
         \A n \in 1 .. Len(repOut) : repOut[n] = Materialised[n],
         x = Materialised[Len(repOut) + 1], repOut' = Append(repOut, x)
  PROVE  /\ Len(repOut) \in Nat /\ Len(repOut') = Len(repOut) + 1 /\ repOut' \in Seq(Sent)
         /\ \A n \in 1 .. Len(repOut') : repOut'[n] = Materialised[n]
<1> DEFINE q == Append(repOut, x)
           c == Len(repOut)
<1>1. /\ c \in Nat /\ q \in Seq(Sent) /\ Len(q) = c + 1
      /\ \A n \in 1 .. c : q[n] = repOut[n]
      /\ q[c + 1] = x
  BY AppendProperties
<1> HIDE DEF c, q
<1>2. \A n \in 1 .. c : repOut[n] = Materialised[n]
  BY DEF c
<1>3. x = Materialised[c + 1]
  BY DEF c
<1>4. \A n \in 1 .. c + 1 : q[n] = Materialised[n]
  <2> TAKE n \in 1 .. c + 1
  <2>1. n \in 1 .. c \/ n = c + 1
    BY <1>1
  <2> QED BY <1>1, <1>2, <1>3, <2>1
<1>5. repOut' = q
  BY DEF q
<1> QED BY <1>1, <1>4, <1>5 DEF c

\* Nothing is read before the replay starts.
LEMMA RepInitInv == RepInit => RepInv
<1> SUFFICES ASSUME RepInit PROVE RepInv
  OBVIOUS
<1>1. RepAsked /\ repPc = "new"
  BY DEF RepInit, RepAsked
<1>2. repOther = <<>> /\ repOi = 0 /\ repSec = 0 /\ repOut = <<>>
  BY DEF RepInit
<1>3. repIdx = [s \in Sources |-> 0] /\ repLast = [s \in Sources |-> {}]
  BY DEF RepInit
<1>4. repOut \in Seq(Sent)
  BY <1>2
<1>5. repIdx \in [Sources -> Nat] /\ DOMAIN repLast = Sources
  BY <1>3
<1>6. NothingRead
  BY <1>2, <1>3 DEF NothingRead
<1> QED BY <1>1, <1>4, <1>5, <1>6 DEF RepInv

\* The tables are read.
LEMMA RepStartInv == RepInv /\ RepStart => RepInv'
<1> SUFFICES ASSUME RepInv, RepStart PROVE RepInv'
  OBVIOUS
<1>1. /\ RepAsked /\ repPc = "new" /\ repPc' = "merging" /\ NothingRead
      /\ repOther' = StableSort(Unsorted) /\ repSec' = CeilSecond(repWindow.t0)
      /\ repTables' = repTables /\ repWindow' = repWindow
      /\ repOi' = repOi /\ repIdx' = repIdx /\ repLast' = repLast /\ repOut' = repOut
      /\ repOut \in Seq(Sent) /\ repIdx \in [Sources -> Nat] /\ DOMAIN repLast = Sources
  BY Zenon DEF RepInv, RepStart
<1>2. /\ RepAsked' = RepAsked /\ Unsorted' = Unsorted /\ Statuses' = Statuses
      /\ Materialised' = Materialised /\ Sent' = Sent
      /\ \A s : Rows(s)' = Rows(s)
  BY <1>1, RepStays
<1>3. Len(Unsorted) \in Nat /\ Len(Statuses) \in Nat
  BY <1>1, MaterialisedIs
<1>4. repOi' = 0 /\ repOut' = <<>> /\ \A s \in Sources : repIdx'[s] = 0 /\ repLast'[s] = {}
  BY <1>1 DEF NothingRead
<1>5. /\ repSec' >= repWindow'.t0 /\ (\E k \in Nat : repSec' = k * RepSecond) /\ repSec' \in Nat
      /\ \A k \in Nat : k * RepSecond >= repWindow.t0 => repSec' <= k * RepSecond
  <2>1. repWindow.t0 \in Nat
    BY <1>1, TablesAre
  <2> QED BY <1>1, <2>1, FirstSecond
<1>6. \A j \in 1 .. Len(Statuses) : ~(Statuses[j].t < repSec')
  <2> TAKE j \in 1 .. Len(Statuses)
  <2>1. Statuses[j].t \in InWindow /\ \E k \in Nat : Statuses[j].t = k * RepSecond
    BY <1>1, StatusesAre
  <2>2. PICK k \in Nat : Statuses[j].t = k * RepSecond
    BY <2>1
  <2>3. repWindow.t0 \in Nat
    BY <1>1, TablesAre
  <2>4. Statuses[j].t \in Nat /\ Statuses[j].t >= repWindow.t0
    BY <2>1, <2>3 DEF InWindow
  <2>5. repSec' <= Statuses[j].t
    BY <1>5, <2>2, <2>4
  <2> QED BY <1>5, <2>4, <2>5
<1>7. SentUpTo(0)'
  <2>1. /\ 0 \in 0 .. Len(Statuses) /\ Len(repOut') = repOi' + 0 + 0
        /\ \A j \in 1 .. Len(Statuses) : ~(j <= 0)
        /\ \A n, j : ~(j \in 1 .. 0)
    BY <1>3, <1>4
  <2>2. \A j \in 1 .. Len(Statuses) : j <= 0 <=> Statuses[j].t < repSec'
    BY <1>6, <2>1, Zenon
  <2>3. repPc' # "over"
    BY <1>1
  <2> QED BY <1>2, <2>1, <2>2, <2>3, Zenon DEF SentUpTo
<1>8. \A s \in Sources : SourceInv(s)'
  <2> TAKE s \in Sources
  <2>1. Len(Rows(s)) \in Nat
    BY <1>1, RowsAre
  <2>2. repIdx'[s] = 0 /\ repLast'[s] = {} /\ Rows(s)' = Rows(s)
    BY <1>2, <1>4
  <2> QED BY <2>1, <2>2 DEF SourceInv
<1>9. /\ repOther' = StableSort(Unsorted)' /\ repOi' \in 0 .. Len(Unsorted')
      /\ \A n \in 1 .. repOi' : repOther'[n].t <= repSec'
      /\ \A n \in 1 .. Len(repOut') : repOut'[n] = Materialised'[n]
  <2>1. StableSort(Unsorted)' = StableSort(Unsorted)
    BY <1>2 DEF StableSort, Times
  <2>2. /\ repOi' \in 0 .. Len(Unsorted') /\ \A n : n \notin 1 .. repOi'
        /\ \A n : n \notin 1 .. Len(repOut')
    BY <1>2, <1>3, <1>4
  <2> QED BY <1>1, <2>1, <2>2
<1>10. MergeInv'
  BY <1>1, <1>5, <1>7, <1>8, <1>9 DEF MergeInv
<1> QED BY <1>1, <1>2, <1>10 DEF RepInv

\* What SendOther leaves true.
LEMMA SendOtherInv ==
  ASSUME RepInv, repPc \in {"merging", "tail"}, repOi < Len(repOther),
         repOther[repOi + 1].t <= repSec, SendOther,
         repPc' \in {"merging", "tail"}, repPc' = "merging" \/ repSec > repWindow.t1
  PROVE  RepInv'
<1> DEFINE a == Len(Unsorted)
           b == Len(Statuses)
           q == repOther[repOi + 1]
<1>1. /\ RepAsked /\ MergeInv /\ repOut \in Seq(Sent) /\ repIdx \in [Sources -> Nat]
      /\ DOMAIN repLast = Sources
  BY DEF RepInv
<1>2. /\ repOut' = Append(repOut, q) /\ repOi' = repOi + 1
      /\ repTables' = repTables /\ repWindow' = repWindow /\ repOther' = repOther
      /\ repSec' = repSec /\ repIdx' = repIdx /\ repLast' = repLast
  BY DEF SendOther
<1>3. /\ RepAsked' = RepAsked /\ Unsorted' = Unsorted /\ Statuses' = Statuses
      /\ Materialised' = Materialised /\ Sent' = Sent
      /\ \A s : Rows(s)' = Rows(s)
  BY <1>2, RepStays
<1>4. PICK m : SentUpTo(m)
  BY <1>1 DEF MergeInv
<1>5. /\ a \in Nat /\ b \in Nat /\ repOther = StableSort(Unsorted) /\ Len(repOther) = a
      /\ repOi \in 0 .. a /\ m \in 0 .. b /\ Len(repOut) = repOi + m
      /\ \A n \in 1 .. a : repOther[n] \in Others /\ repOther[n].t \in InWindow
  <2>1. repPc # "over"
    OBVIOUS
  <2> QED BY <1>1, <1>4, <2>1, MaterialisedIs DEF MergeInv, SentUpTo
<1>6. repOi \in 0 .. a - 1 /\ repOi + 1 \in 1 .. a /\ repOi + m + 1 \in 1 .. a + b
      /\ repOi \in Nat /\ m \in Nat
  BY <1>5
<1>7. q \in Others /\ q.t \in Nat
  BY <1>5, <1>6 DEF InWindow
<1>8. repSec \in Nat
  BY <1>1, NextSecond DEF MergeInv
<1>9. \A j \in 1 .. b : Statuses[j].t < q.t <=> j <= m
  <2> TAKE j \in 1 .. b
  <2>1. Statuses[j].t \in Nat
    BY <1>1, StatusesAre DEF InWindow
  <2>2. j <= m <=> Statuses[j].t < repSec
    BY <1>4 DEF SentUpTo
  <2>3. j <= m => Statuses[j].t < q.t
    <3> SUFFICES ASSUME j <= m PROVE Statuses[j].t < q.t
      OBVIOUS
    <3>1. j \in 1 .. m /\ repOi + 1 \in repOi + 1 .. a
      BY <1>5, <1>6
    <3> QED BY <1>4, <3>1 DEF SentUpTo
  <2>4. Statuses[j].t < q.t => Statuses[j].t < repSec
    BY <1>7, <1>8, <2>1
  <2> QED BY <2>2, <2>3, <2>4, Zenon
<1>10. q = Materialised[Len(repOut) + 1]
  <2>1. /\ Unsorted \in Seq(Msgs) /\ Statuses \in Seq(Msgs) /\ \A x \in Msgs : x.t \in Nat
        /\ \A n \in 1 .. a + b : Materialised[n] = StableSort(Unsorted \o Statuses)[n]
    BY <1>1, MaterialisedIs
  <2>2. StableSort(Unsorted \o Statuses)[repOi + m + 1] = q
    BY <1>5, <1>6, <1>9, <2>1, NextOther
  <2> QED BY <1>5, <1>6, <2>1, <2>2
<1>11. /\ Len(repOut') = Len(repOut) + 1 /\ repOut' \in Seq(Sent)
       /\ \A n \in 1 .. Len(repOut') : repOut'[n] = Materialised[n]
  <2>1. \A n \in 1 .. Len(repOut) : repOut[n] = Materialised[n]
    BY <1>1 DEF MergeInv
  <2>2. q \in Sent
    BY <1>7 DEF Sent, Msgs
  <2> HIDE DEF q
  <2> QED BY <1>1, <1>2, <1>10, <2>1, <2>2, OutGrows
<1>12. SentUpTo(m)'
  <2>1. Len(repOut') = repOi' + m + 0
    BY <1>2, <1>5, <1>6, <1>11
  <2>2. \A n \in repOi' + 1 .. a : n \in repOi + 1 .. a
    BY <1>2, <1>5, <1>6
  <2>3. /\ \A j \in 1 .. b : j <= m <=> Statuses[j].t < repSec
        /\ \A n \in repOi + 1 .. a : \A j \in 1 .. m : Statuses[j].t < repOther[n].t
    BY <1>4 DEF SentUpTo
  <2>4. repPc' # "over"
    OBVIOUS
  <2> QED BY <1>2, <1>3, <1>5, <2>1, <2>2, <2>3, <2>4, Zenon DEF SentUpTo
<1>13. \A s \in Sources : SourceInv(s)'
  <2>1. \A s \in Sources : SourceInv(s)
    BY <1>1 DEF MergeInv
  <2> QED BY <1>2, <1>3, <2>1, Zenon DEF SourceInv
<1>14. \A n \in 1 .. repOi' : repOther'[n].t <= repSec'
  <2> TAKE n \in 1 .. repOi'
  <2>1. n \in 1 .. repOi \/ n = repOi + 1
    BY <1>2, <1>6
  <2>2. CASE n \in 1 .. repOi
    BY <1>1, <1>2, <2>2 DEF MergeInv
  <2>3. CASE n = repOi + 1
    BY <1>2, <2>3
  <2> QED BY <2>1, <2>2, <2>3
<1>15. /\ repOther' = StableSort(Unsorted)' /\ repOi' \in 0 .. Len(Unsorted')
       /\ repSec' >= repWindow'.t0 /\ \E k \in Nat : repSec' = k * RepSecond
  <2>1. StableSort(Unsorted)' = StableSort(Unsorted)
    BY <1>3 DEF StableSort, Times
  <2>2. repOi' \in 0 .. Len(Unsorted')
    BY <1>2, <1>3, <1>5, <1>6
  <2> QED BY <1>1, <1>2, <1>5, <2>1, <2>2 DEF MergeInv
<1>16. MergeInv'
  <2>1. \A n \in 1 .. Len(repOut') : repOut'[n] = Materialised'[n]
    BY <1>3, <1>11
  <2>2. repPc' # "over" /\ (repPc' = "merging" \/ repSec' > repWindow'.t1)
    BY <1>2
  <2> QED BY <1>12, <1>13, <1>14, <1>15, <2>1, <2>2, Zenon DEF MergeInv
<1> QED BY <1>1, <1>2, <1>3, <1>11, <1>16 DEF RepInv

\* A position or event before the next second.
LEMMA RepFlushInv == RepInv /\ RepFlush => RepInv'
<1> SUFFICES ASSUME RepInv, RepFlush PROVE RepInv'
  OBVIOUS
<1>1. /\ repPc = "merging" /\ repPc' = "merging" /\ SendOther
      /\ repOi < Len(repOther) /\ repOther[repOi + 1].t <= repSec
  BY Zenon DEF RepFlush, Due
<1> QED BY <1>1, SendOtherInv

\* Where the index of a source is moved to.
LEMMA AdvancedIs ==
  ASSUME RepAsked, NEW s \in Sources, SourceInv(s), repSec \in Nat, repSec <= repWindow.t1
  PROVE  /\ Advanced(s).idx \in 0 .. Len(Rows(s))
         /\ \A n \in 1 .. Advanced(s).idx : Rows(s)[n].t <= repSec
         /\ Advanced(s).last = IF Advanced(s).idx = 0 THEN {} ELSE {Rows(s)[Advanced(s).idx]}
         /\ Advanced(s).last = LatestRow(s, repSec)
<1> DEFINE rows == Rows(s)
           c == Len(rows)
           i == repIdx[s]
           past == {n \in i + 1 .. c : \A j \in i + 1 .. n : rows[j].t <= repSec}
           k == IF past = {} THEN i ELSE Max(past)
<1>1. /\ c \in Nat /\ i \in 0 .. c /\ \A n \in 1 .. i : rows[n].t <= repSec
      /\ repLast[s] = IF i = 0 THEN {} ELSE {rows[i]}
      /\ \A n \in 1 .. c : rows[n].t \in Nat
      /\ \A m, n \in 1 .. c : m < n => rows[m].t < rows[n].t
  BY RowsAre DEF SourceInv
<1>2. Advanced(s) = IF past = {} THEN [idx |-> i, last |-> repLast[s]]
                    ELSE [idx |-> k, last |-> {rows[k]}]
  BY Zenon DEF Advanced
<1> HIDE DEF rows, c, i
<1>3. past # {} => Max(past) \in past /\ \A n \in past : n <= Max(past)
  <2> SUFFICES ASSUME past # {} PROVE Max(past) \in past /\ \A n \in past : n <= Max(past)
    OBVIOUS
  <2>1. past \in SUBSET (1 .. c) /\ c \in Nat
    <3>1. past \subseteq i + 1 .. c /\ i + 1 .. c \subseteq 1 .. c
      BY <1>1
    <3> HIDE DEF past
    <3> QED BY <1>1, <3>1
  <2> HIDE DEF past
  <2> QED BY <2>1, MaxIs
<1>4. k \in i .. c /\ k \in 0 .. c /\ (\A n \in i + 1 .. k : rows[n].t <= repSec)
      /\ (past # {} => k # 0)
  <2>1. CASE past = {}
    BY <1>1, <2>1
  <2>2. CASE past # {}
    <3>1. k \in past
      BY <1>3, <2>2
    <3>2. k \in i + 1 .. c /\ \A n \in i + 1 .. k : rows[n].t <= repSec
      BY <3>1
    <3> HIDE DEF k, past
    <3> QED BY <1>1, <3>2
  <2> QED BY <2>1, <2>2
<1>5. \A n \in 1 .. k : rows[n].t <= repSec
  <2> TAKE n \in 1 .. k
  <2> HIDE DEF k
  <2>1. n \in 1 .. i \/ n \in i + 1 .. k
    BY <1>1, <1>4
  <2> QED BY <1>1, <1>4, <2>1
<1>6. \A n \in k + 1 .. c : rows[n].t > repSec
  <2>1. k < c => ~(rows[k + 1].t <= repSec)
    <3> SUFFICES ASSUME k < c, rows[k + 1].t <= repSec PROVE FALSE
      OBVIOUS
    <3>1. k + 1 \in i + 1 .. c
      <4> HIDE DEF k
      <4> QED BY <1>1, <1>4
    <3>2. \A j \in i + 1 .. k + 1 : rows[j].t <= repSec
      <4> HIDE DEF k
      <4> TAKE j \in i + 1 .. k + 1
      <4>1. j \in i + 1 .. k \/ j = k + 1
        BY <1>1, <1>4
      <4> QED BY <1>4, <4>1
    <3>3. k + 1 \in past
      BY <3>1, <3>2
    <3>4. past # {} /\ k + 1 <= Max(past)
      BY <1>3, <3>3
    <3>5. k = Max(past) /\ k \in Nat
      BY <1>1, <1>4, <3>4
    <3> HIDE DEF k, past
    <3> QED BY <3>4, <3>5
  <2> HIDE DEF k, past
  <2> TAKE n \in k + 1 .. c
  <2>2. k < c /\ k + 1 \in 1 .. c /\ n \in 1 .. c /\ (n = k + 1 \/ k + 1 < n)
    BY <1>1, <1>4
  <2>3. rows[k + 1].t \in Nat /\ rows[n].t \in Nat /\ (k + 1 < n => rows[k + 1].t < rows[n].t)
    BY <1>1, <2>2
  <2> QED BY <2>1, <2>2, <2>3
<1>7. Advanced(s).idx = k /\ Advanced(s).last = IF k = 0 THEN {} ELSE {rows[k]}
  <2>1. CASE past = {}
    BY <1>1, <1>2, <2>1
  <2>2. CASE past # {}
    <3>1. Advanced(s) = [idx |-> k, last |-> {rows[k]}] /\ k # 0
      BY <1>2, <1>4, <2>2
    <3> HIDE DEF k, past
    <3> QED BY <3>1
  <2> QED BY <2>1, <2>2
<1> HIDE DEF k, past
<1>8. LatestRow(s, repSec) = IF k = 0 THEN {} ELSE {rows[k]}
  BY <1>4, <1>5, <1>6, LatestIs DEF rows, c
<1> QED BY <1>4, <1>5, <1>7, <1>8 DEF rows, c

\* A status.
LEMMA RepStatusInv == RepInv /\ RepStatus => RepInv'
<1> SUFFICES ASSUME RepInv, RepStatus PROVE RepInv'
  OBVIOUS
<1> DEFINE a == Len(Unsorted)
           b == Len(Statuses)
           x == Status(repSec, repLast')
<1>1. /\ RepAsked /\ MergeInv /\ repOut \in Seq(Sent) /\ repIdx \in [Sources -> Nat]
      /\ DOMAIN repLast = Sources /\ repPc = "merging"
  BY DEF RepInv, RepStatus
<1>2. /\ repSec <= repWindow.t1 /\ ~Due(repSec) /\ repSec' = repSec + RepSecond
      /\ repTables' = repTables /\ repWindow' = repWindow /\ repOther' = repOther
      /\ repOi' = repOi /\ repPc' = repPc
  BY Zenon DEF RepStatus
<1>3. /\ repIdx' = [s \in Sources |-> Advanced(s).idx]
      /\ repLast' = [s \in Sources |-> Advanced(s).last]
      /\ repOut' = Append(repOut, x)
  <2> DEFINE advanced == [s \in Sources |-> Advanced(s)]
  <2>1. \A s \in Sources : advanced[s] = Advanced(s)
    OBVIOUS
  <2>2. /\ repIdx' = [s \in Sources |-> advanced[s].idx]
        /\ repLast' = [s \in Sources |-> advanced[s].last]
        /\ repOut' = Append(repOut, x)
    BY Zenon DEF RepStatus
  <2> HIDE DEF advanced
  <2> QED BY <2>1, <2>2
<1>4. /\ RepAsked' = RepAsked /\ Unsorted' = Unsorted /\ Statuses' = Statuses
      /\ Materialised' = Materialised /\ Sent' = Sent
      /\ \A s : Rows(s)' = Rows(s)
  BY <1>2, RepStays
<1>5. PICK m : SentUpTo(m)
  BY <1>1 DEF MergeInv
<1>6. /\ a \in Nat /\ b \in Nat /\ repOther = StableSort(Unsorted) /\ Len(repOther) = a
      /\ repOi \in 0 .. a /\ m \in 0 .. b /\ Len(repOut) = repOi + m
      /\ \A n \in 1 .. a : repOther[n].t \in Nat
      /\ \A n, h \in 1 .. a : h < n => repOther[h].t <= repOther[n].t
  <2>1. repPc # "over"
    BY <1>1
  <2>2. \A t \in InWindow : t \in Nat
    BY DEF InWindow
  <2> QED BY <1>1, <1>5, <2>1, <2>2, MaterialisedIs DEF MergeInv, SentUpTo
<1>7. PICK k \in Nat : repSec = k * RepSecond
  BY <1>1 DEF MergeInv
<1>8. /\ repSec \in Nat /\ repSec' \in Nat /\ repSec < repSec' /\ repSec' = (k + 1) * RepSecond
      /\ \A j \in Nat : repSec < j * RepSecond => repSec' <= j * RepSecond
  <2> DEFINE u == k * RepSecond
             v == (k + 1) * RepSecond
  <2>1. /\ u \in Nat /\ RepSecond \in Nat /\ RepSecond > 0 /\ v = u + RepSecond
        /\ \A j \in Nat : u < j * RepSecond => u + RepSecond <= j * RepSecond
    BY <1>7, NextSecond
  <2>2. repSec = u /\ repSec' = u + RepSecond
    BY <1>2, <1>7
  <2>3. repSec' = v
    BY <2>1, <2>2
  <2>4. \A j \in Nat : repSec < j * RepSecond => repSec' <= j * RepSecond
    BY <2>1, <2>2, Zenon
  <2>5. repSec \in Nat /\ repSec' \in Nat /\ repSec < repSec'
    <3> HIDE DEF u, v
    <3> QED BY <2>1, <2>2
  <2> QED BY <2>3, <2>4, <2>5
<1>9. repSec \in InWindow
  BY <1>1, <1>2, <1>8 DEF InWindow, MergeInv
\* the second is that of the next status
<1>10. m + 1 \in 1 .. b /\ Statuses[m + 1].t = repSec /\ m \in 0 .. b - 1
  <2>1. PICK j \in 1 .. b : Statuses[j].t = repSec
    BY <1>1, <1>7, <1>9, StatusesAre
  <2>2. \A i \in 1 .. b : i <= m <=> Statuses[i].t < repSec
    BY <1>5 DEF SentUpTo
  <2>3. ~(j <= m)
    BY <1>8, <2>1, <2>2
  <2>4. m + 1 \in 1 .. b /\ ~(m + 1 <= m) /\ m + 1 <= j
    BY <1>6, <2>3
  <2>5. ~(Statuses[m + 1].t < repSec)
    BY <2>2, <2>4
  <2>6. m + 1 < j => Statuses[m + 1].t < Statuses[j].t
    BY <1>1, <2>4, StatusesAre
  <2>7. m + 1 = j
    BY <1>6, <2>1, <2>4, <2>5, <2>6
  <2> QED BY <1>6, <2>1, <2>4, <2>7
<1>11. \A s \in Sources : SourceInv(s)
  BY <1>1 DEF MergeInv
<1>12. \A s \in Sources :
         /\ Advanced(s).idx \in 0 .. Len(Rows(s))
         /\ \A n \in 1 .. Advanced(s).idx : Rows(s)[n].t <= repSec
         /\ Advanced(s).last = IF Advanced(s).idx = 0 THEN {} ELSE {Rows(s)[Advanced(s).idx]}
         /\ Advanced(s).last = LatestRow(s, repSec)
  BY <1>1, <1>2, <1>8, <1>11, AdvancedIs
<1>13. x = Statuses[m + 1]
  <2>1. repLast' = [s \in Sources |-> LatestRow(s, repSec)]
    BY <1>3, <1>12
  <2>2. Statuses[m + 1] = Status(Statuses[m + 1].t, [s \in Sources |-> LatestRow(s, Statuses[m + 1].t)])
    BY <1>1, <1>10, StatusesAre
  <2>3. Statuses[m + 1] = Status(repSec, [s \in Sources |-> LatestRow(s, repSec)])
    BY <1>10, <2>2
  <2> QED BY <2>1, <2>3
\* what has been sent of the others is what is not behind it
<1>14. \A n \in 1 .. a : repOther[n].t <= repSec <=> n <= repOi
  <2> TAKE n \in 1 .. a
  <2>1. n <= repOi => repOther[n].t <= repSec
    <3>1. n <= repOi => n \in 1 .. repOi
      BY <1>6
    <3> QED BY <1>1, <3>1 DEF MergeInv
  <2>2. ASSUME repOi < n PROVE ~(repOther[n].t <= repSec)
    <3>1. repOi + 1 \in 1 .. a /\ repOi < Len(repOther) /\ (repOi + 1 = n \/ repOi + 1 < n)
      BY <1>6, <2>2
    <3>2. ~(repOther[repOi + 1].t <= repSec)
      BY <1>2, <3>1 DEF Due
    <3>3. repOther[repOi + 1].t \in Nat /\ repOther[n].t \in Nat
          /\ repOther[repOi + 1].t <= repOther[n].t
      BY <1>6, <3>1
    <3> QED BY <1>8, <3>2, <3>3
  <2>3. n <= repOi \/ repOi < n
    BY <1>6
  <2> QED BY <2>1, <2>2, <2>3
<1>15. x = Materialised[Len(repOut) + 1]
  <2>1. /\ Unsorted \in Seq(Msgs) /\ Statuses \in Seq(Msgs) /\ \A y \in Msgs : y.t \in Nat
        /\ \A n \in 1 .. a + b : Materialised[n] = StableSort(Unsorted \o Statuses)[n]
    BY <1>1, MaterialisedIs
  <2>2. \A i, j \in 1 .. b : i < j => Statuses[i].t < Statuses[j].t
    BY <1>1, StatusesAre
  <2>3. \A n \in 1 .. a : StableSort(Unsorted)[n].t <= Statuses[m + 1].t <=> n <= repOi
    BY <1>6, <1>10, <1>14
  <2>4. StableSort(Unsorted \o Statuses)[repOi + m + 1] = Statuses[m + 1]
    <3> DEFINE A == Unsorted
               B == Statuses
               l == m + 1
    <3>1. /\ A \in Seq(Msgs) /\ B \in Seq(Msgs) /\ \A y \in Msgs : y.t \in Nat
          /\ repOi \in 0 .. Len(A) /\ l \in 1 .. Len(B)
      BY <1>6, <1>10, <2>1
    <3>2. /\ \A i, j \in 1 .. Len(B) : i < j => B[i].t < B[j].t
          /\ UpTo(A, B[l].t, repOi)
      BY <2>2, <2>3 DEF UpTo
    <3>3. repOi + m + 1 = repOi + l
      BY <1>6
    <3> HIDE DEF A, B, l
    <3>4. StableSort(A \o B)[repOi + l] = B[l]
      BY <3>1, <3>2, NextStatus, SMTT(60)
    <3> QED BY <3>3, <3>4 DEF A, B, l
  <2>5. repOi + m + 1 \in 1 .. a + b /\ Len(repOut) + 1 = repOi + m + 1
    BY <1>6, <1>10
  <2> QED BY <1>13, <2>1, <2>4, <2>5
<1>16. /\ Len(repOut') = Len(repOut) + 1 /\ repOut' \in Seq(Sent)
       /\ \A n \in 1 .. Len(repOut') : repOut'[n] = Materialised[n]
  <2>1. \A n \in 1 .. Len(repOut) : repOut[n] = Materialised[n]
    BY <1>1 DEF MergeInv
  <2>2. x \in Sent
    <3>1. Statuses[m + 1] \in StatusMsgs
      BY <1>1, <1>10, StatusesAre
    <3> QED BY <1>13, <3>1 DEF Sent, Msgs
  <2> HIDE DEF x
  <2> QED BY <1>1, <1>3, <1>15, <2>1, <2>2, OutGrows
<1>17. SentUpTo(m + 1)'
  <2>1. Len(repOut') = repOi' + (m + 1) + 0 /\ m + 1 \in 0 .. b
    BY <1>2, <1>6, <1>10, <1>16
  <2>2. \A j \in 1 .. b : j <= m + 1 <=> Statuses[j].t < repSec'
    <3> TAKE j \in 1 .. b
    <3>1. /\ j <= m <=> Statuses[j].t < repSec
          /\ Statuses[j].t \in Nat
          /\ m + 1 < j => Statuses[m + 1].t < Statuses[j].t
      BY <1>1, <1>5, <1>10, StatusesAre DEF SentUpTo, InWindow
    <3>2. PICK h \in Nat : Statuses[j].t = h * RepSecond
      BY <1>1, StatusesAre
    <3>3. CASE j <= m
      BY <1>6, <1>8, <3>1, <3>3
    <3>4. CASE j = m + 1
      BY <1>6, <1>8, <1>10, <3>4
    <3>5. CASE m + 1 < j
      <4>1. repSec' <= Statuses[j].t
        BY <1>8, <1>10, <3>1, <3>2, <3>5
      <4> QED BY <1>6, <1>8, <3>1, <3>5, <4>1
    <3>6. j <= m \/ j = m + 1 \/ m + 1 < j
      BY <1>6
    <3> QED BY <3>3, <3>4, <3>5, <3>6
  <2>3. \A n \in repOi + 1 .. a : \A j \in 1 .. m + 1 : Statuses[j].t < repOther[n].t
    <3> TAKE n \in repOi + 1 .. a
    <3> TAKE j \in 1 .. m + 1
    <3>1. j \in 1 .. m \/ j = m + 1
      BY <1>6
    <3>2. CASE j \in 1 .. m
      BY <1>5, <3>2 DEF SentUpTo
    <3>3. CASE j = m + 1
      <4>1. n \in 1 .. a /\ ~(n <= repOi)
        BY <1>6
      <4>2. ~(repOther[n].t <= repSec) /\ repOther[n].t \in Nat
        BY <1>6, <1>14, <4>1
      <4> QED BY <1>8, <1>10, <3>3, <4>2
    <3> QED BY <3>1, <3>2, <3>3
  <2>4. repPc' # "over"
    BY <1>1, <1>2
  <2> QED BY <1>2, <1>4, <2>1, <2>2, <2>3, <2>4, Zenon DEF SentUpTo
<1>18. \A s \in Sources : SourceInv(s)'
  <2> TAKE s \in Sources
  <2>1. repIdx'[s] = Advanced(s).idx /\ repLast'[s] = Advanced(s).last /\ Rows(s)' = Rows(s)
    BY <1>3, <1>4
  <2>2. \A n \in 1 .. Advanced(s).idx : Rows(s)[n].t <= repSec'
    <3> TAKE n \in 1 .. Advanced(s).idx
    <3>1. n \in 1 .. Len(Rows(s)) /\ Rows(s)[n].t <= repSec
      <4>1. Advanced(s).idx \in 0 .. Len(Rows(s)) /\ Len(Rows(s)) \in Nat
        BY <1>1, <1>12, RowsAre
      <4>2. n \in 1 .. Len(Rows(s))
        BY <4>1
      <4>3. Rows(s)[n].t <= repSec
        BY <1>12, Zenon
      <4> QED BY <4>2, <4>3
    <3>2. Rows(s)[n].t \in Nat
      BY <1>1, <3>1, RowsAre
    <3> QED BY <1>8, <3>1, <3>2
  <2> QED BY <1>12, <2>1, <2>2, Zenon DEF SourceInv
<1>19. \A n \in 1 .. repOi' : repOther'[n].t <= repSec'
  <2> TAKE n \in 1 .. repOi'
  <2>1. n \in 1 .. a /\ n <= repOi
    BY <1>2, <1>6
  <2>2. repOther[n].t <= repSec /\ repOther[n].t \in Nat
    BY <1>6, <1>14, <2>1
  <2> QED BY <1>2, <1>8, <2>2
<1>20. /\ repOther' = StableSort(Unsorted)' /\ repOi' \in 0 .. Len(Unsorted')
       /\ repSec' >= repWindow'.t0 /\ \E i \in Nat : repSec' = i * RepSecond
  <2>1. StableSort(Unsorted)' = StableSort(Unsorted)
    BY <1>4 DEF StableSort, Times
  <2>2. repSec' >= repWindow'.t0
    BY <1>1, <1>2, <1>8, TablesAre DEF MergeInv
  <2>3. k + 1 \in Nat
    OBVIOUS
  <2> QED BY <1>2, <1>4, <1>6, <1>8, <2>1, <2>2, <2>3
<1>21. MergeInv'
  <2>1. \A n \in 1 .. Len(repOut') : repOut'[n] = Materialised'[n]
    BY <1>4, <1>16
  <2>2. repPc' = "merging" /\ repPc' # "over"
    BY <1>1, <1>2
  <2> QED BY <1>17, <1>18, <1>19, <1>20, <2>1, <2>2, Zenon DEF MergeInv
<1>22. repIdx' \in [Sources -> Nat] /\ DOMAIN repLast' = Sources
  <2>1. \A s \in Sources : Advanced(s).idx \in Nat
    <3> TAKE s \in Sources
    <3>1. Advanced(s).idx \in 0 .. Len(Rows(s)) /\ Len(Rows(s)) \in Nat
      BY <1>1, <1>12, RowsAre
    <3> QED BY <3>1
  <2> QED BY <1>3, <2>1
<1> QED BY <1>1, <1>2, <1>4, <1>16, <1>21, <1>22 DEF RepInv

\* What is left when the seconds are done, and the end.
LEMMA RepTailInv == RepInv /\ RepTail => RepInv'
<1> SUFFICES ASSUME RepInv, RepTail PROVE RepInv'
  OBVIOUS
<1> DEFINE a == Len(Unsorted)
           b == Len(Statuses)
           x == EndMessage
<1>1. /\ RepAsked /\ MergeInv /\ repOut \in Seq(Sent) /\ repIdx \in [Sources -> Nat]
      /\ DOMAIN repLast = Sources /\ repPc \in {"merging", "tail"} /\ repSec > repWindow.t1
  <2>1. \/ repPc = "merging" /\ repSec > repWindow.t1
        \/ repPc = "tail"
    BY DEF RepTail
  <2>2. RepInv /\ repPc # "new"
    BY <2>1
  <2>3. MergeInv
    BY <2>2 DEF RepInv
  <2>4. repPc = "tail" => repSec > repWindow.t1
    BY <2>3 DEF MergeInv
  <2> QED BY <2>1, <2>2, <2>3, <2>4 DEF RepInv
<1>2. PICK m : SentUpTo(m)
  BY <1>1 DEF MergeInv
<1>3. /\ a \in Nat /\ b \in Nat /\ repOther = StableSort(Unsorted) /\ Len(repOther) = a
      /\ repOi \in 0 .. a /\ m \in 0 .. b /\ Len(repOut) = repOi + m
      /\ \A n \in 1 .. a : repOther[n].t \in InWindow
  <2>1. repPc # "over"
    BY <1>1
  <2> QED BY <1>1, <1>2, <2>1, MaterialisedIs DEF MergeInv, SentUpTo
<1>4. repSec \in Nat /\ repWindow.t1 \in Nat
  <2>1. repSec \in Nat
    BY <1>1, NextSecond DEF MergeInv
  <2> QED BY <1>1, <2>1, TablesAre
<1>5. CASE repOi < Len(repOther)
  <2>1. SendOther /\ repPc' = "tail"
    BY <1>5, Zenon DEF RepTail
  <2>2. repOi + 1 \in 1 .. a
    BY <1>3, <1>5
  <2>3. repOther[repOi + 1].t \in Nat /\ repOther[repOi + 1].t <= repWindow.t1
    BY <1>3, <2>2 DEF InWindow
  <2>4. repOther[repOi + 1].t <= repSec
    BY <1>1, <1>4, <2>3
  <2> QED BY <1>1, <1>5, <2>1, <2>4, SendOtherInv
<1>6. CASE ~(repOi < Len(repOther))
  <2>1. /\ repPc' = "over" /\ repOut' = Append(repOut, x)
        /\ repTables' = repTables /\ repWindow' = repWindow /\ repOther' = repOther
        /\ repOi' = repOi /\ repSec' = repSec /\ repIdx' = repIdx /\ repLast' = repLast
    BY <1>6, Zenon DEF RepTail
  <2>2. /\ RepAsked' = RepAsked /\ Unsorted' = Unsorted /\ Statuses' = Statuses
        /\ Materialised' = Materialised /\ Sent' = Sent
        /\ \A s : Rows(s)' = Rows(s)
    BY <2>1, RepStays
  <2>3. repOi = a
    BY <1>3, <1>6
  \* every second of the window is behind
  <2>4. m = b
    <3>1. CASE b = 0
      BY <1>3, <3>1
    <3>2. CASE b # 0
      <4>1. b \in 1 .. b
        BY <1>3, <3>2
      <4>2. Statuses[b].t \in Nat /\ Statuses[b].t <= repWindow.t1
        BY <1>1, <4>1, StatusesAre DEF InWindow
      <4>3. Statuses[b].t < repSec
        BY <1>1, <1>4, <4>2
      <4>4. b <= m
        BY <1>2, <4>1, <4>3 DEF SentUpTo
      <4> QED BY <1>3, <4>4
    <3> QED BY <3>1, <3>2
  <2>5. x = Materialised[Len(repOut) + 1] /\ x \in Sent
    <3>1. Len(repOut) + 1 = a + b + 1
      BY <1>3, <2>3, <2>4
    <3>2. Materialised[a + b + 1] = x
      BY <1>1, MaterialisedIs
    <3> QED BY <3>1, <3>2 DEF Sent
  <2>6. /\ Len(repOut') = Len(repOut) + 1 /\ repOut' \in Seq(Sent)
        /\ \A n \in 1 .. Len(repOut') : repOut'[n] = Materialised[n]
    <3>1. \A n \in 1 .. Len(repOut) : repOut[n] = Materialised[n]
      BY <1>1 DEF MergeInv
    <3> HIDE DEF x
    <3> QED BY <1>1, <2>1, <2>5, <3>1, OutGrows
  <2>7. SentUpTo(m)'
    <3>1. Len(repOut') = repOi' + m + 1
      BY <1>3, <2>1, <2>6
    <3>2. /\ \A j \in 1 .. b : j <= m <=> Statuses[j].t < repSec
          /\ \A n \in repOi + 1 .. a : \A j \in 1 .. m : Statuses[j].t < repOther[n].t
      BY <1>2 DEF SentUpTo
    <3> QED BY <1>3, <2>1, <2>2, <3>1, <3>2, Zenon DEF SentUpTo
  <2>8. \A s \in Sources : SourceInv(s)'
    <3>1. \A s \in Sources : SourceInv(s)
      BY <1>1 DEF MergeInv
    <3> QED BY <2>1, <2>2, <3>1, Zenon DEF SourceInv
  <2>9. /\ repOther' = StableSort(Unsorted)' /\ repOi' \in 0 .. Len(Unsorted')
        /\ repSec' >= repWindow'.t0 /\ \E k \in Nat : repSec' = k * RepSecond
        /\ \A n \in 1 .. repOi' : repOther'[n].t <= repSec'
    <3>1. StableSort(Unsorted)' = StableSort(Unsorted)
      BY <2>2 DEF StableSort, Times
    <3> QED BY <1>1, <1>3, <2>1, <2>2, <3>1 DEF MergeInv
  <2>10. MergeInv'
    <3>1. \A n \in 1 .. Len(repOut') : repOut'[n] = Materialised'[n]
      BY <2>2, <2>6
    <3>2. repSec' > repWindow'.t1 /\ repOi' = Len(Unsorted')
      BY <1>1, <2>1, <2>2, <2>3
    <3> QED BY <2>7, <2>8, <2>9, <3>1, <3>2, Zenon DEF MergeInv
  <2> QED BY <1>1, <2>1, <2>2, <2>6, <2>10 DEF RepInv
<1> QED BY <1>5, <1>6

\* Every step of the replay, and every step that is not one of its own.
LEMMA RepStepInv == RepInv /\ [RepNext]_repVars => RepInv'
<1> SUFFICES ASSUME RepInv, [RepNext]_repVars PROVE RepInv'
  OBVIOUS
<1>1. CASE RepStart
  BY <1>1, RepStartInv
<1>2. CASE RepFlush
  BY <1>2, RepFlushInv
<1>3. CASE RepStatus
  BY <1>3, RepStatusInv
<1>4. CASE RepTail
  BY <1>4, RepTailInv
<1>5. CASE UNCHANGED repVars
  <2>1. /\ repTables' = repTables /\ repWindow' = repWindow /\ repOther' = repOther
        /\ repOi' = repOi /\ repSec' = repSec /\ repIdx' = repIdx /\ repLast' = repLast
        /\ repPc' = repPc /\ repOut' = repOut
    BY <1>5 DEF repVars
  <2>2. /\ RepAsked' = RepAsked /\ Unsorted' = Unsorted /\ Statuses' = Statuses
        /\ Materialised' = Materialised /\ Sent' = Sent
        /\ \A s : Rows(s)' = Rows(s)
    BY <2>1, RepStays
  <2>3. NothingRead' <=> NothingRead
    BY <2>1 DEF NothingRead
  <2>4. MergeInv => MergeInv'
    <3> SUFFICES ASSUME MergeInv PROVE MergeInv'
      OBVIOUS
    <3>1. StableSort(Unsorted)' = StableSort(Unsorted)
      BY <2>2 DEF StableSort, Times
    <3>2. \A s \in Sources : SourceInv(s)'
      <4>1. \A s \in Sources : SourceInv(s)
        BY DEF MergeInv
      <4> QED BY <2>1, <2>2, <4>1, Zenon DEF SourceInv
    <3>3. PICK m : SentUpTo(m)
      BY DEF MergeInv
    <3>4. SentUpTo(m)'
      BY <2>1, <2>2, <3>3 DEF SentUpTo
    <3>5. /\ repOther' = StableSort(Unsorted)' /\ repOi' \in 0 .. Len(Unsorted')
          /\ repSec' >= repWindow'.t0 /\ \E k \in Nat : repSec' = k * RepSecond
          /\ \A n \in 1 .. repOi' : repOther'[n].t <= repSec'
          /\ \A n \in 1 .. Len(repOut') : repOut'[n] = Materialised'[n]
          /\ repPc' = "merging" \/ repSec' > repWindow'.t1
          /\ repPc' = "over" => repOi' = Len(Unsorted')
      BY <2>1, <2>2, <3>1 DEF MergeInv
    <3> QED BY <3>2, <3>4, <3>5, Zenon DEF MergeInv
  <2> QED BY <2>1, <2>2, <2>3, <2>4, Zenon DEF RepInv
<1> QED BY <1>1, <1>2, <1>3, <1>4, <1>5 DEF RepNext

\* The invariant says that the two orders agree.
LEMMA RepInvMerges == RepInv => ReplayMerges
<1> SUFFICES ASSUME RepInv PROVE ReplayMerges
  OBVIOUS
<1> DEFINE a == Len(Unsorted)
           b == Len(Statuses)
<1>1. /\ RepAsked /\ repOut \in Seq(Sent)
      /\ repPc = "new" => NothingRead
      /\ repPc # "new" => MergeInv
  BY DEF RepInv
<1>2. /\ a \in Nat /\ b \in Nat /\ Materialised \in Seq(Sent)
      /\ Len(Materialised) = a + b + 1
  BY <1>1, MaterialisedIs
<1>3. Len(repOut) \in Nat /\ DOMAIN repOut = 1 .. Len(repOut)
  BY <1>1
<1>4. CASE repPc = "new"
  <2>1. repOut = <<>>
    BY <1>1, <1>4 DEF NothingRead
  <2>2. Len(repOut) = 0 /\ DOMAIN repOut = {}
    BY <2>1
  <2> QED BY <1>2, <1>4, <2>2 DEF ReplayMerges
<1>5. CASE repPc # "new"
  <2>1. MergeInv
    BY <1>1, <1>5
  <2>2. PICK m : SentUpTo(m)
    BY <2>1 DEF MergeInv
  <2>3. \A n \in DOMAIN repOut : repOut[n] = Materialised[n]
    BY <1>3, <2>1 DEF MergeInv
  <2>4. repOi \in 0 .. a /\ m \in 0 .. b
    BY <2>1, <2>2 DEF MergeInv, SentUpTo
  <2>5. CASE repPc = "over"
    <3>1. repOi = a /\ Len(repOut) = repOi + m + 1 /\ repSec > repWindow.t1
      BY <2>1, <2>2, <2>5 DEF MergeInv, SentUpTo
    <3>2. m = b
      <4>1. CASE b = 0
        BY <2>4, <4>1
      <4>2. CASE b # 0
        <5>1. b \in 1 .. b
          BY <1>2, <4>2
        <5>2. Statuses[b].t \in Nat /\ Statuses[b].t <= repWindow.t1
          BY <1>1, <5>1, StatusesAre DEF InWindow
        <5>3. repSec \in Nat /\ repWindow.t1 \in Nat
          <6>1. repSec \in Nat
            BY <2>1, NextSecond DEF MergeInv
          <6> QED BY <1>1, <6>1, TablesAre
        <5>4. Statuses[b].t < repSec
          BY <3>1, <5>2, <5>3
        <5>5. b <= m
          BY <2>2, <5>1, <5>4 DEF SentUpTo
        <5> QED BY <1>2, <2>4, <5>5
      <4> QED BY <4>1, <4>2
    <3>3. Len(repOut) = Len(Materialised)
      BY <1>2, <2>4, <3>1, <3>2
    <3>4. repOut = Materialised
      <4>1. \A n \in 1 .. Len(repOut) : repOut[n] = Materialised[n]
        BY <1>3, <2>3
      <4> DEFINE M == Materialised
      <4>2. M \in Seq(Sent) /\ Len(M) = Len(repOut) /\ \A n \in 1 .. Len(repOut) : repOut[n] = M[n]
        BY <1>2, <3>3, <4>1
      <4> HIDE DEF M
      <4>3. repOut = M
        BY <1>1, <4>2
      <4> QED BY <4>3 DEF M
    <3> QED BY <1>2, <1>3, <2>3, <3>3, <3>4 DEF ReplayMerges
  <2>6. CASE repPc # "over"
    <3>1. Len(repOut) = repOi + m + 0
      BY <2>2, <2>6 DEF SentUpTo
    <3>2. Len(repOut) <= Len(Materialised)
      BY <1>2, <2>4, <3>1
    <3> QED BY <2>3, <2>6, <3>2 DEF ReplayMerges
  <2> QED BY <2>5, <2>6
<1> QED BY <1>4, <1>5

\* And the types of the replay.
LEMMA RepInvTyped == RepInv => RepTypeOK
<1> SUFFICES ASSUME RepInv PROVE RepTypeOK
  OBVIOUS
<1>1. /\ RepAsked /\ repPc \in {"new", "merging", "tail", "over"}
      /\ repIdx \in [Sources -> Nat] /\ DOMAIN repLast = Sources
  BY DEF RepInv
<1>2. repWindow \in RepWindows
  BY <1>1 DEF RepAsked
<1>3. repOi \in 0 .. Len(repOther) /\ repSec \in Nat
  <2>1. CASE repPc = "new"
    <3>1. repOther = <<>> /\ repOi = 0 /\ repSec = 0
      BY <2>1 DEF RepInv, NothingRead
    <3> QED BY <3>1
  <2>2. CASE repPc # "new"
    <3>1. MergeInv
      BY <2>2 DEF RepInv
    <3>2. repSec \in Nat
      BY <3>1, NextSecond DEF MergeInv
    <3>3. repOi \in 0 .. Len(repOther)
      BY <1>1, <3>1, MaterialisedIs DEF MergeInv
    <3> QED BY <3>2, <3>3
  <2> QED BY <2>1, <2>2
<1> QED BY <1>1, <1>2, <1>3 DEF RepTypeOK
=============================================================================
