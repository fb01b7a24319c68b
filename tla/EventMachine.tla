--------------------------- MODULE EventMachine ---------------------------
(***************************************************************************)
(* The diagnosis event machine (diagnosis/events.py), the SQLite event     *)
(* table it writes (storage/events.py) and the live event stream its       *)
(* transition callback feeds (main.py, _on_diagnosis_transition).          *)
(*                                                                         *)
(* One call of EventMachine.update is several steps here, because each     *)
(* store call commits on its own and the process can die, or the store can *)
(* raise, between them:                                                    *)
(*                                                                         *)
(*   idle --> closing --> closed --> recording --> opened --> idle         *)
(*                                                                         *)
(* The code is synchronous, so nothing but a fault interleaves with these  *)
(* steps.  Quiet stands for a verdict of level ok or info, a member of     *)
(* Codes for one of level warning, serious or critical with that code.     *)
(* Abstracted: message, position and peak metrics of an event.             *)
(***************************************************************************)
EXTENDS Integers, Sequences

CONSTANTS Codes,       \* verdict codes that can open an event
          Quiet,       \* an ok or info verdict
          None,        \* Python's None
          Hyst,        \* close_hysteresis_s, in clock units
          Retention,   \* db_retention_days, in clock units
          Gaps,        \* how far the clock can move between two readings
          SetBacks,    \* how far the wall clock can be set back
          MaxTime,     \* bound: the last clock reading
          MaxLinks,    \* bound: the id after which no link row is added
          MaxFaults    \* bound: store failures, crashes, clock set back

ASSUME VerdictAssumption == /\ Quiet \notin Codes
                            /\ None \notin Codes
                            /\ None # Quiet
                            /\ None \notin Int
                            /\ None \notin [id : Nat, code : Codes]
ASSUME TimeAssumption == /\ Hyst \in Nat
                         /\ Retention \in Nat
                         /\ MaxTime \in Nat
                         /\ Gaps \subseteq Nat \ {0}
                         /\ SetBacks \subseteq Nat \ {0}
ASSUME BoundAssumption == MaxLinks \in Nat /\ MaxFaults \in Nat

VARIABLES rows,      \* the events table: id -> row
          nextId,    \* AUTOINCREMENT: one more than every id ever used
          now,       \* the last clock reading
          pc,        \* where the call of update is
          openId,    \* _open_id
          openCode,  \* _open_code (the code of _open_verdict)
          okSince,   \* _ok_since
          closing,   \* the event _close has taken over, None outside a close
          verdict,   \* the verdict of the update in progress
          stream,    \* event messages published so far, oldest first
          orphans,   \* history: open rows a fault has cut loose
          lastActive,\* history: clock reading of the last active verdict
          lull,      \* history: the first and the last clock reading of a quiet
                     \* verdict since then
          steady,    \* history: the clock has not been set back
          faults     \* number of faults so far

store   == <<rows, nextId>>
machine == <<openId, openCode, okSince>>
vars    == <<rows, nextId, now, pc, openId, openCode, okSince, closing,
             verdict, stream, orphans, lastActive, lull, steady, faults>>

Verdicts == Codes \cup {Quiet}
Ids      == Nat \ {0}
Row      == [etype  : {"diagnosis", "link"},
             state  : {"open", "closed", "link"},
             code   : Codes \cup {None},
             t      : Nat,
             tClose : Nat \cup {None}]
Closing  == [id : Ids, code : Codes]
NoLull   == [from |-> None, to |-> None]
Message  == [action : {"open", "close"}, code : Codes, t : Nat]

TypeOK ==
  /\ DOMAIN rows \subseteq Ids
  /\ rows \in [DOMAIN rows -> Row]
  /\ nextId \in Ids
  /\ now \in Nat
  /\ pc \in {"idle", "closing", "closed", "recording", "opened"}
  /\ openId \in Ids \cup {None}
  /\ openCode \in Codes \cup {None}
  /\ okSince \in Nat \cup {None}
  /\ closing \in Closing \cup {None}
  /\ verdict \in Verdicts
  /\ stream \in Seq(Message)
  /\ orphans \subseteq Ids
  /\ lastActive \in Nat /\ steady \in BOOLEAN
  /\ lull \in [from : Nat, to : Nat] \cup {NoLull}
  /\ faults \in Nat

Init ==
  /\ rows = [i \in {} |-> None]
  /\ nextId = 1
  /\ now = 0
  /\ pc = "idle"
  /\ openId = None /\ openCode = None /\ okSince = None
  /\ closing = None
  /\ verdict = Quiet
  /\ stream = <<>>
  /\ orphans = {}
  /\ lastActive = 0 /\ lull = NoLull /\ steady = TRUE
  /\ faults = 0

-----------------------------------------------------------------------------
(* The table. *)

Insert(row) == [i \in DOMAIN rows \cup {nextId} |->
                  IF i = nextId THEN row ELSE rows[i]]

NewEvent(c) == [etype |-> "diagnosis", state |-> "open", code |-> c,
                t |-> now, tClose |-> None]

\* storage/events.py close_event: an UPDATE, which finds no row if it is gone
WithClosed(id) ==
  [i \in DOMAIN rows |->
     IF i = id THEN [rows[i] EXCEPT !.state = "closed", !.tClose = now]
               ELSE rows[i]]

\* mutant of Reads: times cut to a coarser resolution, two updates may share one
ReadsCoarse(t) == t - now \in Gaps \cup {0}

\* time.time() at the next reading
Reads(t) == t - now \in Gaps

-----------------------------------------------------------------------------
(* EventMachine.update, called once a second by the diagnosis tick. *)

\* mutant of BeginClose: the event is read after the machine is reset
BeginCloseLate ==
  /\ closing' = [id |-> None, code |-> None]
  /\ openId' = None /\ openCode' = None /\ okSince' = None
  /\ pc' = "closing"

\* _close up to the store call: the machine forgets the event before the
\* store is told, so that an exception finds it clean.
BeginClose ==
  /\ closing' = [id |-> openId, code |-> openCode]
  /\ openId' = None /\ openCode' = None /\ okSince' = None
  /\ pc' = "closing"

\* mutant of SameCondition: the hysteresis is not restarted
SameConditionKeepsTimer(c) ==
  /\ openCode = c
  /\ UNCHANGED <<pc, openId, openCode, closing, okSince>>

\* the open event's code again: it stays open and the hysteresis restarts
SameCondition(c) ==
  /\ openCode = c
  /\ okSince' = None
  /\ UNCHANGED <<pc, openId, openCode, closing>>

\* mutant of OtherCondition: the new event opens over the old one
OtherConditionNoClose(c) ==
  /\ openCode # c /\ openId # None
  /\ okSince' = None
  /\ pc' = "recording"
  /\ UNCHANGED <<openId, openCode, closing>>

\* another code while an event is open: close that one first
OtherCondition(c) ==
  /\ openCode # c /\ openId # None
  /\ BeginClose

NewCondition(c) ==
  /\ openCode # c /\ openId = None
  /\ okSince' = None
  /\ pc' = "recording"
  /\ UNCHANGED <<openId, openCode, closing>>

\* mutant of QuietVerdict: every quiet verdict starts the timer again
QuietVerdictRestarts(t) ==
  \/ /\ openId = None
     /\ UNCHANGED <<pc, machine, closing>>
  \/ /\ openId # None
     /\ okSince # None => t - okSince < Hyst
     /\ okSince' = t
     /\ UNCHANGED <<pc, openId, openCode, closing>>
  \/ /\ openId # None /\ okSince # None
     /\ t - okSince >= Hyst
     /\ BeginClose

\* the event closes once the verdicts have been quiet for Hyst
QuietVerdict(t) ==
  \/ /\ openId = None
     /\ UNCHANGED <<pc, machine, closing>>
  \/ /\ openId # None /\ okSince = None
     /\ okSince' = t
     /\ UNCHANGED <<pc, openId, openCode, closing>>
  \/ /\ openId # None /\ okSince # None
     /\ t - okSince < Hyst
     /\ UNCHANGED <<pc, machine, closing>>
  \/ /\ openId # None /\ okSince # None
     /\ t - okSince >= Hyst
     /\ BeginClose

Update(v, t) ==
  /\ pc = "idle" /\ Reads(t)
  /\ now' = t
  /\ verdict' = v
  /\ \/ v \in Codes /\ lastActive' = t /\ lull' = NoLull
        /\ (SameCondition(v) \/ OtherCondition(v) \/ NewCondition(v))
     \/ v = Quiet /\ lastActive' = lastActive /\ QuietVerdict(t)
        /\ lull' = [from |-> IF lull.from = None THEN t ELSE lull.from, to |-> t]
  /\ UNCHANGED <<store, stream, orphans, steady, faults>>

StoreClose ==
  /\ pc = "closing"
  /\ rows' = WithClosed(closing.id)
  /\ pc' = "closed"
  /\ UNCHANGED <<nextId, now, machine, closing, verdict, stream, orphans,
                 lastActive, lull, steady, faults>>

\* mutant of PublishClose: the callback is given the new verdict
PublishCloseOfNew ==
  /\ pc = "closed"
  /\ stream' = Append(stream, [action |-> "close", t |-> now,
        code |-> IF verdict = Quiet THEN closing.code ELSE verdict])
  /\ closing' = None
  /\ pc' = IF verdict = Quiet THEN "idle" ELSE "recording"
  /\ UNCHANGED <<store, now, machine, verdict, orphans, lastActive, lull, steady,
                 faults>>

\* the callback: the message reaches every subscriber's queue; after it the
\* update either returns (closed by quiet) or goes on to record
PublishClose ==
  /\ pc = "closed"
  /\ stream' = Append(stream, [action |-> "close", code |-> closing.code,
                               t |-> now])
  /\ closing' = None
  /\ pc' = IF verdict = Quiet THEN "idle" ELSE "recording"
  /\ UNCHANGED <<store, now, machine, verdict, orphans, lastActive, lull, steady,
                 faults>>

Record ==
  /\ pc = "recording"
  /\ rows' = Insert(NewEvent(verdict))
  /\ nextId' = nextId + 1
  /\ openId' = nextId /\ openCode' = verdict
  /\ pc' = "opened"
  /\ UNCHANGED <<now, okSince, closing, verdict, stream, orphans, lastActive, lull,
                 steady, faults>>

PublishOpen ==
  /\ pc = "opened"
  /\ stream' = Append(stream, [action |-> "open", code |-> openCode,
                               t |-> now])
  /\ pc' = "idle"
  /\ UNCHANGED <<store, now, machine, closing, verdict, orphans, lastActive, lull,
                 steady, faults>>

-----------------------------------------------------------------------------
(* Faults.  A store call raises: the exception leaves update and           *)
(* _diagnosis_loop logs it.  The statement may have reached the database   *)
(* all the same (the commit raised and a later commit completes it).       *)

\* mutant of StoreCloseRaises: the exception is swallowed before the callback
StoreCloseSwallows(applied) ==
  /\ pc = "closing" /\ faults < MaxFaults
  /\ rows' = IF applied THEN WithClosed(closing.id) ELSE rows
  /\ orphans' = IF applied THEN orphans ELSE orphans \cup {closing.id}
  /\ pc' = "closed"
  /\ faults' = faults + 1
  /\ UNCHANGED <<nextId, now, machine, closing, verdict, stream, lastActive, lull,
                 steady>>

StoreCloseRaises(applied) ==
  /\ pc = "closing" /\ faults < MaxFaults
  /\ rows' = IF applied THEN WithClosed(closing.id) ELSE rows
  /\ orphans' = IF applied THEN orphans ELSE orphans \cup {closing.id}
  /\ closing' = None
  /\ pc' = "idle"
  /\ faults' = faults + 1
  /\ UNCHANGED <<nextId, now, machine, verdict, stream, lastActive, lull, steady>>

RecordRaises(applied) ==
  /\ pc = "recording" /\ faults < MaxFaults
  /\ rows' = IF applied THEN Insert(NewEvent(verdict)) ELSE rows
  /\ nextId' = IF applied THEN nextId + 1 ELSE nextId
  /\ orphans' = IF applied THEN orphans \cup {nextId} ELSE orphans
  /\ pc' = "idle"
  /\ faults' = faults + 1
  /\ UNCHANGED <<now, machine, closing, verdict, stream, lastActive, lull, steady>>

\* The process dies and a new one starts: the table survives, the machine
\* starts afresh (events.py __init__) and nothing looks for open rows.
Unclosed == {id \in {openId} \cup (IF pc = "closing" THEN {closing.id} ELSE {})
               : id # None}

Crash ==
  /\ faults < MaxFaults
  /\ openId' = None /\ openCode' = None /\ okSince' = None
  /\ closing' = None
  /\ verdict' = Quiet
  /\ pc' = "idle"
  /\ orphans' = orphans \cup Unclosed
  /\ faults' = faults + 1
  /\ UNCHANGED <<store, now, stream, lastActive, lull, steady>>

\* NTP sets the wall clock back; every time in this module is time.time()
ClockSetBack(s) ==
  /\ pc = "idle" /\ faults < MaxFaults /\ s <= now
  /\ now' = now - s
  /\ steady' = FALSE
  /\ faults' = faults + 1
  /\ UNCHANGED <<store, pc, machine, closing, verdict, stream, orphans,
                 lastActive, lull>>

-----------------------------------------------------------------------------
(* The table's other users, which run between two updates. *)

\* _on_event: a link or crash row
LinkEvent ==
  /\ pc = "idle" /\ nextId <= MaxLinks
  /\ rows' = Insert([etype |-> "link", state |-> "link", code |-> None,
                     t |-> now, tClose |-> None])
  /\ nextId' = nextId + 1
  /\ UNCHANGED <<now, pc, machine, closing, verdict, stream, orphans,
                 lastActive, lull, steady, faults>>

\* mutant of Expired: retention looks at the time alone
ExpiredAnyState(cutoff) == {i \in DOMAIN rows : rows[i].t < cutoff}

Expired(cutoff) == {i \in DOMAIN rows : rows[i].t < cutoff
                                        /\ rows[i].state # "open"}

\* the hourly prune, cutoff = time.time() - retention
Prune(t) ==
  /\ pc = "idle" /\ Reads(t)
  /\ now' = t
  /\ rows' = [i \in DOMAIN rows \ Expired(t - Retention) |-> rows[i]]
  /\ UNCHANGED <<nextId, pc, machine, closing, verdict, stream, orphans,
                 lastActive, lull, steady, faults>>

\* the bound on the clock, not a step of the program
TimeIsUp ==
  /\ pc = "idle" /\ \A t \in 0 .. MaxTime : ~Reads(t)
  /\ UNCHANGED vars

Next ==
  \/ \E v \in Verdicts, t \in 0 .. MaxTime : Update(v, t)
  \/ StoreClose \/ PublishClose \/ Record \/ PublishOpen
  \/ \E applied \in BOOLEAN : StoreCloseRaises(applied) \/ RecordRaises(applied)
  \/ Crash
  \/ \E s \in SetBacks : ClockSetBack(s)
  \/ LinkEvent
  \/ \E t \in 0 .. MaxTime : Prune(t)
  \/ TimeIsUp

Spec == Init /\ [][Next]_vars

-----------------------------------------------------------------------------
(* Properties. *)

OpenRows == {i \in DOMAIN rows : rows[i].state = "open"}

\* Every open row is the event the machine tracks (or has just taken over to
\* close) or was cut loose by a fault, and the tracked event does have an open
\* row: update never leaves an old event open when it opens the next one, and
\* retention never takes the row from under the machine (events.py, update,
\* _close and prune).
OpenRowsAccounted == /\ Unclosed \subseteq OpenRows
                     /\ OpenRows \subseteq Unclosed \cup orphans

\* A close in the live stream is the close of the message just before it, the
\* opening of the same code: no double close and no close of another event,
\* whatever the store does and however often the process restarts.
ClosesMatchOpens ==
  \A k \in DOMAIN stream :
    stream[k].action = "close" =>
      k > 1 /\ stream[k - 1].action = "open" /\ stream[k - 1].code = stream[k].code

\* The message that opened the event message k is about.
Opening(k) == IF stream[k].action = "open" THEN k ELSE k - 1

\* What the operators saw live is in the table, with the times they saw, until
\* retention removes it: the store call comes before the callback, so neither a
\* crash nor a store failure leaves a message without its row (as long as the
\* clock moves forward).
StreamBacked ==
  steady => \A k \in DOMAIN stream :
    \/ stream[Opening(k)].t < now - Retention
    \/ \E i \in DOMAIN rows :
         /\ rows[i].etype = "diagnosis"
         /\ rows[i].code = stream[k].code
         /\ rows[i].t = stream[Opening(k)].t
         /\ stream[k].action = "close" => rows[i].tClose = stream[k].t

\* The web client drops an event message whose t, action and code it has
\* already seen (protocol.js, eventKey): no two live messages share all three,
\* as long as the clock moves forward.
KeysUnique ==
  steady => \A j, k \in DOMAIN stream : j # k => stream[j] # stream[k]

\* Two events never overlap in the table: before a later one opens the earlier
\* one has closed, or a fault has cut it loose (as long as the clock moves
\* forward).
NoOverlap ==
  steady => \A i, j \in DOMAIN rows :
    (i < j /\ rows[i].etype = "diagnosis" /\ rows[j].etype = "diagnosis") =>
      \/ i \in orphans
      \/ rows[i].state = "closed" /\ rows[i].tClose <= rows[j].t

\* The hysteresis ends on time: between two updates no row of the table is open,
\* but those a fault cut loose, once the verdicts have been quiet for Hyst from the
\* first after the last active one, whatever clock readings, faults and restarts lay
\* in between.  (The first quiet verdict closes nothing, so of it alone nothing is
\* claimed where Hyst is 0.)
ClosedOnTime ==
  pc = "idle" /\ lull # NoLull /\ lull.to # lull.from /\ lull.to - lull.from >= Hyst =>
    OpenRows \subseteq orphans

\* ... and not early: an event closed by a quiet verdict has seen no active
\* verdict for more than Hyst, however often the condition flapped before (as
\* long as the clock moves forward).
NotClosedEarly ==
  steady /\ pc \in {"closing", "closed"} /\ verdict = Quiet =>
    now - lastActive > Hyst

\* The log as its readers see it: the diagnosis rows, and the event _close has
\* taken over still current until the store knows of its end.
Diagnosis == {i \in DOMAIN rows : rows[i].etype = "diagnosis"}

Incidents == [i \in Diagnosis |-> [code   |-> rows[i].code,
                                   start  |-> rows[i].t,
                                   finish |-> rows[i].tClose]]

Current == IF pc = "closing" THEN closing.id ELSE openId

Log == INSTANCE IncidentLog WITH incidents <- Incidents,
                                 used      <- 1 .. nextId - 1,
                                 current   <- Current

\* The event machine and its table implement the incident log.
ImplementsLog == Log!LogSpec

\* storage/events.py:84-88 says of prune: "Only rows still actively open (any
\* etype) must survive retention -- everything else past the cutoff is
\* prunable."  It compares the state column, so a row cut loose by a crash
\* survives too.
PruneLeavesOnlyActive ==
  [][Prune(now') => \A i \in DOMAIN rows' :
                      rows'[i].t < now' - Retention => i = openId]_vars

=============================================================================
