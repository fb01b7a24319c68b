------------------------ MODULE EventMachine_proofs ------------------------
(***************************************************************************)
(* The event machine's invariants and its refinement of IncidentLog, for   *)
(* every set of codes, every clock and any number of faults.               *)
(***************************************************************************)
EXTENDS EventMachine, TLAPS

\* How the machine's fields go together between the steps of an update: it
\* tracks an event with a code or nothing at all, and _close owns an event
\* exactly from the reset to the callback.
FieldsAgree ==
  /\ openId = None <=> openCode = None
  /\ okSince # None => openId # None
  /\ closing # None <=> pc \in {"closing", "closed"}
  /\ pc \in {"closing", "closed", "recording"} => openId = None
  /\ pc = "opened" => openId # None
  /\ pc = "recording" => verdict \in Codes

\* A diagnosis row is open and unfinished, or closed with a time; no other row
\* is ever open; ids stay below the next one.
RowsShaped ==
  /\ \A i \in DOMAIN rows :
       /\ i < nextId
       /\ rows[i].etype = "diagnosis" =>
            /\ rows[i].code \in Codes
            /\ \/ rows[i].state = "open" /\ rows[i].tClose = None
               \/ rows[i].state = "closed" /\ rows[i].tClose \in Nat
       /\ rows[i].etype = "link" => rows[i].state = "link"

Inv == TypeOK /\ FieldsAgree /\ RowsShaped /\ OpenRowsAccounted

-----------------------------------------------------------------------------
(* Lemmas about the table. *)

\* A new row takes an unused id and leaves the other rows alone.
LEMMA InsertRow ==
  ASSUME TypeOK, RowsShaped, NEW row \in Row
  PROVE  /\ DOMAIN Insert(row) = DOMAIN rows \cup {nextId}
         /\ nextId \notin DOMAIN rows
         /\ Insert(row) \in [DOMAIN Insert(row) -> Row]
         /\ Insert(row)[nextId] = row
         /\ \A i \in DOMAIN rows : Insert(row)[i] = rows[i]
  BY DEF TypeOK, RowsShaped, Insert, Ids

\* Closing changes one row's state and end time and nothing else.
LEMMA CloseRow ==
  ASSUME TypeOK, NEW id
  PROVE  /\ DOMAIN WithClosed(id) = DOMAIN rows
         /\ WithClosed(id) \in [DOMAIN rows -> Row]
         /\ \A i \in DOMAIN rows : i # id => WithClosed(id)[i] = rows[i]
         /\ id \in DOMAIN rows => /\ WithClosed(id)[id].state = "closed"
                                  /\ WithClosed(id)[id].tClose = now
                                  /\ WithClosed(id)[id].etype = rows[id].etype
                                  /\ WithClosed(id)[id].code = rows[id].code
                                  /\ WithClosed(id)[id].t = rows[id].t
  BY DEF TypeOK, WithClosed, Row

-----------------------------------------------------------------------------
(* Inv is inductive: one lemma per action. *)

\* Every behaviour starts in the invariant: no row, no tracked event.
LEMMA InitInv == Init => Inv
  BY VerdictAssumption DEF Init, Inv, TypeOK, FieldsAgree, RowsShaped,
     OpenRowsAccounted, OpenRows, Unclosed, Ids, Verdicts

\* An update touches no row, and an event moves from tracked to taken over.
LEMMA UpdateInv ==
  ASSUME Inv, NEW v \in Verdicts, NEW t \in Nat, Update(v, t)
  PROVE  Inv'
<1>1a. lull' \in [from : Nat, to : Nat] \cup {NoLull}
  <2>1. CASE lull' = NoLull
    BY <2>1
  <2>2. CASE lull' = [from |-> IF lull.from = None THEN t ELSE lull.from, to |-> t]
    BY <2>2, VerdictAssumption DEF Inv, TypeOK, NoLull
  <2> QED
    BY <2>1, <2>2 DEF Update
<1>1b. lastActive' \in Nat
  BY DEF Inv, TypeOK, Update
<1>1. TypeOK'
  BY <1>1a, <1>1b, VerdictAssumption DEF Inv, TypeOK, FieldsAgree, Update, SameCondition,
     OtherCondition, NewCondition, QuietVerdict, BeginClose, machine, store,
     Verdicts, Closing
<1>2. FieldsAgree'
  BY VerdictAssumption DEF Inv, TypeOK, FieldsAgree, Update, SameCondition,
     OtherCondition, NewCondition, QuietVerdict, BeginClose, machine, store,
     Verdicts, Ids
<1>3. RowsShaped'
  BY DEF Inv, RowsShaped, Update, store
<1>4. Unclosed' = Unclosed
  BY VerdictAssumption DEF Inv, TypeOK, FieldsAgree, Update, SameCondition,
     OtherCondition, NewCondition, QuietVerdict, BeginClose, machine, store,
     Unclosed
<1>5. OpenRowsAccounted'
  BY <1>4 DEF Inv, OpenRowsAccounted, OpenRows, Update, store
<1> QED
  BY <1>1, <1>2, <1>3, <1>5 DEF Inv


\* The taken-over row closes; no other row is touched.
LEMMA ClosingInv ==
  ASSUME Inv, pc = "closing", rows' = WithClosed(closing.id),
         pc' \in {"closed", "idle"}, orphans' = orphans,
         pc' = "closed" => closing' = closing,
         pc' = "idle" => closing' = None,
         faults' \in Nat,
         UNCHANGED <<nextId, now, machine, verdict, stream, lastActive, lull, steady>>
  PROVE  Inv'
<1> USE DEF Inv
<1>1. closing \in Closing /\ closing.id # None /\ openId = None
  BY VerdictAssumption DEF TypeOK, FieldsAgree, Closing, Ids
<1>1a. closing.id \in DOMAIN rows /\ rows[closing.id].state = "open"
  BY <1>1 DEF OpenRowsAccounted, Unclosed, OpenRows
<1>2. TypeOK'
  BY CloseRow DEF TypeOK, machine
<1>3. FieldsAgree'
  BY <1>1 DEF TypeOK, FieldsAgree, machine
<1>4. RowsShaped'
  <2>1. \A i \in DOMAIN rows' : i \in DOMAIN rows
    BY CloseRow
  <2>2. \A i \in DOMAIN rows : i # closing.id => rows'[i] = rows[i]
    BY CloseRow
  <2>3. rows[closing.id].etype = "diagnosis"
    BY <1>1a DEF TypeOK, RowsShaped, Row
  <2>4. /\ rows'[closing.id].state = "closed"
        /\ rows'[closing.id].tClose = now
        /\ rows'[closing.id].etype = "diagnosis"
        /\ rows'[closing.id].code = rows[closing.id].code
    BY <1>1a, <2>3, CloseRow
  <2> QED
    BY <1>1a, <2>1, <2>2, <2>3, <2>4 DEF TypeOK, RowsShaped
<1>5. OpenRows' = OpenRows \ {closing.id}
  BY <1>1a, CloseRow DEF OpenRows
<1>6. Unclosed = {closing.id} /\ Unclosed' = {}
  BY <1>1, VerdictAssumption DEF Unclosed, Closing, Ids, machine
<1> QED
  BY <1>2, <1>3, <1>4, <1>5, <1>6 DEF OpenRowsAccounted

\* An open diagnosis row appears: tracked by the machine, or cut loose.
LEMMA RecordingInv ==
  ASSUME Inv, pc = "recording", rows' = Insert(NewEvent(verdict)),
         nextId' = nextId + 1, faults' \in Nat,
         \/ /\ pc' = "opened" /\ openId' = nextId /\ openCode' = verdict
            /\ orphans' = orphans
         \/ /\ pc' = "idle" /\ UNCHANGED <<openId, openCode>>
            /\ orphans' = orphans \cup {nextId},
         UNCHANGED <<now, okSince, closing, verdict, stream, lastActive, lull, steady>>
  PROVE  Inv'
<1> USE DEF Inv
<1>1. NewEvent(verdict) \in Row /\ verdict \in Codes /\ openId = None
      /\ closing = None
  BY DEF TypeOK, FieldsAgree, NewEvent, Row
<1>2. TypeOK'
  BY <1>1, InsertRow DEF TypeOK, Ids
<1>3. FieldsAgree'
  BY <1>1, VerdictAssumption DEF TypeOK, FieldsAgree, Ids
<1>4. RowsShaped'
  <2>1. rows'[nextId] = NewEvent(verdict)
    BY <1>1, InsertRow
  <2>2. \A i \in DOMAIN rows : rows'[i] = rows[i]
    BY <1>1, InsertRow
  <2>3. DOMAIN rows' = DOMAIN rows \cup {nextId}
    BY <1>1, InsertRow
  <2> QED
    BY <1>1, <2>1, <2>2, <2>3 DEF TypeOK, RowsShaped, NewEvent, Ids
<1>5. OpenRows' = OpenRows \cup {nextId}
  BY <1>1, InsertRow DEF OpenRows, NewEvent
<1>6. Unclosed = {} /\ Unclosed' = (IF pc' = "opened" THEN {nextId} ELSE {})
  BY <1>1, VerdictAssumption DEF TypeOK, Unclosed, Ids
<1> QED
  BY <1>2, <1>3, <1>4, <1>5, <1>6 DEF OpenRowsAccounted

\* The clock moves; nothing that is typed by it is touched.
LEMMA ClockType ==
  ASSUME TypeOK, TimeIsUp \/ \E s \in SetBacks : ClockSetBack(s)
  PROVE  TypeOK'
<1>1. CASE TimeIsUp
  BY <1>1 DEF TimeIsUp, vars, TypeOK
<1>2. ASSUME NEW s \in SetBacks, ClockSetBack(s) PROVE TypeOK'
  <2>1. s \in Nat /\ s <= now /\ now \in Nat /\ faults \in Nat
    BY <1>2, TimeAssumption DEF ClockSetBack, TypeOK
  <2>2. now' \in Nat /\ faults' \in Nat
    BY <1>2, <2>1 DEF ClockSetBack
  <2>2a. steady' \in BOOLEAN
    BY <1>2 DEF ClockSetBack
  <2>3. UNCHANGED <<rows, nextId, pc, openId, openCode, okSince, closing,
                    verdict, stream, orphans, lastActive, lull>>
    BY <1>2 DEF ClockSetBack, store, machine
  <2> QED BY <2>2, <2>2a, <2>3 DEF TypeOK
<1> QED BY <1>1, <1>2

\* Steps that leave the table alone: the callbacks, a crash, a failed store
\* call that did not reach the database, the clock.
LEMMA TableUntouchedInv ==
  ASSUME Inv,
         \/ PublishClose \/ PublishOpen \/ Crash \/ TimeIsUp
         \/ StoreCloseRaises(FALSE) \/ RecordRaises(FALSE)
         \/ \E s \in SetBacks : ClockSetBack(s)
  PROVE  Inv'
<1> USE VerdictAssumption, TimeAssumption
        DEF Inv, PublishClose, PublishOpen, Crash, StoreCloseRaises, TimeIsUp,
            RecordRaises, ClockSetBack, vars, store, machine
<1>1. TypeOK'
  <2>1. CASE PublishClose
    BY <2>1 DEF TypeOK, FieldsAgree, Closing, Message
  <2>2. CASE PublishOpen
    BY <2>2 DEF TypeOK, FieldsAgree, Message
  <2>3. CASE Crash
    BY <2>3 DEF TypeOK, FieldsAgree, Unclosed, Closing, Verdicts
  <2>4. CASE TimeIsUp \/ \E s \in SetBacks : ClockSetBack(s)
    BY <2>4, ClockType
  <2>5. CASE StoreCloseRaises(FALSE) \/ RecordRaises(FALSE)
    BY <2>5 DEF TypeOK, FieldsAgree, Closing
  <2> QED BY <2>1, <2>2, <2>3, <2>4, <2>5
<1>2. FieldsAgree'
  BY DEF TypeOK, FieldsAgree, Verdicts
<1>3. RowsShaped'
  BY DEF RowsShaped
<1>4. OpenRowsAccounted'
  BY DEF TypeOK, FieldsAgree, OpenRowsAccounted, OpenRows, Unclosed
<1> QED BY <1>1, <1>2, <1>3, <1>4

\* A link row is no diagnosis row; the machine and the open rows do not change.
LEMMA LinkEventInv == Inv /\ LinkEvent => Inv'
<1> SUFFICES ASSUME Inv, LinkEvent PROVE Inv'
  OBVIOUS
<1> DEFINE row == [etype |-> "link", state |-> "link", code |-> None,
                   t |-> now, tClose |-> None]
<1> USE DEF Inv, LinkEvent
<1>1. row \in Row
  BY DEF TypeOK, Row
<1> HIDE DEF row
<1>2. rows' = Insert(row)
  BY DEF row
<1>3. TypeOK'
  <2>1. DOMAIN rows' = DOMAIN rows \cup {nextId} /\ rows' \in [DOMAIN rows' -> Row]
    BY <1>1, <1>2, InsertRow
  <2> QED
    BY <2>1 DEF TypeOK, Ids, machine
<1>4. FieldsAgree'
  BY DEF FieldsAgree, machine
<1>5. row.etype = "link" /\ row.state = "link"
  BY DEF row
<1>6. RowsShaped'
  BY <1>1, <1>2, <1>5, InsertRow DEF TypeOK, RowsShaped, Ids
<1>7. OpenRows' = OpenRows /\ Unclosed' = Unclosed
  BY <1>1, <1>2, <1>5, InsertRow DEF OpenRows, Unclosed, machine
<1> QED BY <1>3, <1>4, <1>6, <1>7 DEF OpenRowsAccounted

\* Retention only removes rows that are not open (storage/events.py, prune).
LEMMA PruneInv == ASSUME Inv, NEW t \in Nat, Prune(t) PROVE Inv'
<1> USE DEF Inv, Prune, machine
<1>1. /\ DOMAIN rows' \subseteq DOMAIN rows
      /\ \A i \in DOMAIN rows' : rows'[i] = rows[i]
      /\ \A i \in DOMAIN rows : rows[i].state = "open" => i \in DOMAIN rows'
  BY DEF Expired
<1>2. TypeOK'
  BY <1>1 DEF TypeOK
<1>3. FieldsAgree' /\ RowsShaped'
  BY <1>1 DEF FieldsAgree, RowsShaped
<1>4. OpenRows' = OpenRows /\ Unclosed' = Unclosed
  BY <1>1 DEF OpenRows, Unclosed
<1> QED BY <1>2, <1>3, <1>4 DEF OpenRowsAccounted

\* Every step keeps the invariant, one case for each action.
LEMMA StepInv == Inv /\ [Next]_vars => Inv'
<1> SUFFICES ASSUME Inv, [Next]_vars PROVE Inv'
  OBVIOUS
<1>1. CASE \E v \in Verdicts, t \in 0 .. MaxTime : Update(v, t)
  BY <1>1, UpdateInv, TimeAssumption
<1>2. CASE StoreClose
  BY <1>2, ClosingInv DEF StoreClose, Inv, TypeOK
<1>3. CASE StoreCloseRaises(TRUE)
  BY <1>3, ClosingInv DEF StoreCloseRaises, Inv, TypeOK
<1>4. CASE Record
  BY <1>4, RecordingInv DEF Record, Inv, TypeOK
<1>5. CASE RecordRaises(TRUE)
  BY <1>5, RecordingInv DEF RecordRaises, machine, Inv, TypeOK
<1>6. CASE \/ PublishClose \/ PublishOpen \/ Crash \/ TimeIsUp
           \/ StoreCloseRaises(FALSE) \/ RecordRaises(FALSE)
           \/ \E s \in SetBacks : ClockSetBack(s)
  BY <1>6, TableUntouchedInv
<1>7. CASE LinkEvent
  BY <1>7, LinkEventInv
<1>8. CASE \E t \in 0 .. MaxTime : Prune(t)
  BY <1>8, PruneInv, TimeAssumption
<1>9. CASE UNCHANGED vars
  BY <1>9 DEF vars, Inv, TypeOK, FieldsAgree, RowsShaped, OpenRowsAccounted,
     OpenRows, Unclosed
<1> QED
  BY <1>1, <1>2, <1>3, <1>4, <1>5, <1>6, <1>7, <1>8, <1>9 DEF Next

-----------------------------------------------------------------------------
(* The theorems. *)

\* Every reachable state is typed and has the shape the code relies on.
THEOREM Invariance == Spec => []Inv
  BY InitInv, StepInv, PTL DEF Spec

\* The state of the machine and the table have their types (events.py,
\* EventMachine and EventStore).
THEOREM TypeCorrect == Spec => []TypeOK
  BY Invariance, PTL DEF Inv

\* Whatever faults occur, the open rows are the event the machine tracks and
\* the ones a fault has cut loose (events.py, update, _close, prune).
THEOREM OpenRowsSafe == Spec => []OpenRowsAccounted
  BY Invariance, PTL DEF Inv

-----------------------------------------------------------------------------
(* What the operators see.  A close follows its opening because the event  *)
(* that is tracked, or has been taken over, is the one last said to open.  *)

SaidOpen(c) == /\ stream # <<>> /\ stream[Len(stream)].action = "open"
               /\ stream[Len(stream)].code = c

StreamInv ==
  /\ ClosesMatchOpens
  /\ closing # None => SaidOpen(closing.code)
  /\ openId # None /\ pc # "opened" => SaidOpen(openCode)

\* A message goes to the end of the stream and leaves what is before it alone.
LEMMA Published ==
  ASSUME TypeOK, ClosesMatchOpens, NEW m \in Message,
         m.action = "open" \/ SaidOpen(m.code), stream' = Append(stream, m)
  PROVE  /\ ClosesMatchOpens'
         /\ m.action = "open" => SaidOpen(m.code)'
<1>1. stream \in Seq(Message) /\ Len(stream) \in Nat /\ DOMAIN stream = 1 .. Len(stream)
  BY DEF TypeOK
<1>2. /\ DOMAIN stream' = 1 .. Len(stream) + 1 /\ Len(stream') = Len(stream) + 1
      /\ stream'[Len(stream) + 1] = m
      /\ \A k \in 1 .. Len(stream) : stream'[k] = stream[k]
  BY <1>1
<1>3. ASSUME NEW k \in DOMAIN stream', stream'[k].action = "close"
      PROVE  /\ k > 1 /\ stream'[k - 1].action = "open"
             /\ stream'[k - 1].code = stream'[k].code
  <2>1. CASE k \in 1 .. Len(stream)
    <3>1. k > 1 /\ stream[k - 1].action = "open" /\ stream[k - 1].code = stream[k].code
      BY <1>1, <1>2, <1>3, <2>1 DEF ClosesMatchOpens
    <3>2. k - 1 \in 1 .. Len(stream)
      BY <1>1, <2>1, <3>1
    <3> QED BY <1>2, <2>1, <3>1, <3>2
  <2>2. CASE k = Len(stream) + 1
    <3>1. SaidOpen(m.code) /\ Len(stream) > 0
      BY <1>1, <1>2, <1>3, <2>2 DEF SaidOpen
    <3>2. k - 1 = Len(stream) /\ k - 1 \in 1 .. Len(stream)
      BY <1>1, <2>2, <3>1
    <3> QED BY <1>1, <1>2, <2>2, <3>1, <3>2 DEF SaidOpen
  <2> QED BY <1>2, <1>3, <2>1, <2>2
<1> QED BY <1>1, <1>2, <1>3 DEF ClosesMatchOpens, SaidOpen

\* Every step preserves it.
LEMMA StreamStep == Inv /\ StreamInv /\ [Next]_vars => StreamInv'
<1> SUFFICES ASSUME Inv, StreamInv, [Next]_vars PROVE StreamInv'
  OBVIOUS
<1>0. TypeOK /\ FieldsAgree
  BY DEF Inv
<1>1. CASE \E v \in Verdicts, t \in 0 .. MaxTime : Update(v, t)
  BY <1>0, <1>1 DEF Update, SameCondition, OtherCondition, NewCondition, QuietVerdict, BeginClose,
     machine, store, FieldsAgree, StreamInv, ClosesMatchOpens, SaidOpen
<1>2. CASE PublishClose
  <2> DEFINE m == [action |-> "close", code |-> closing.code, t |-> now]
  <2>1. closing \in Closing /\ closing # None /\ openId = None
    BY <1>0, <1>2 DEF TypeOK, FieldsAgree, PublishClose
  <2>2. m \in Message /\ SaidOpen(m.code) /\ stream' = Append(stream, m)
    BY <1>0, <1>2, <2>1 DEF TypeOK, Closing, Message, StreamInv, PublishClose
  <2> HIDE DEF m
  <2>3. ClosesMatchOpens'
    BY <1>0, <2>2, Published DEF StreamInv
  <2> QED BY <1>2, <2>1, <2>3 DEF PublishClose, machine, StreamInv
<1>3. CASE PublishOpen
  <2>1. openCode \in Codes /\ closing = None
    BY <1>0, <1>3 DEF TypeOK, FieldsAgree, PublishOpen
  <2>2. PICK m \in Message : /\ m.action = "open" /\ m.code = openCode
                            /\ stream' = Append(stream, m)
    BY <1>0, <1>3, <2>1 DEF TypeOK, Message, PublishOpen
  <2>3. ClosesMatchOpens' /\ SaidOpen(m.code)'
    BY <1>0, <2>2, Published DEF StreamInv
  <2>4. openCode' = m.code /\ UNCHANGED closing
    BY <1>3, <2>2 DEF PublishOpen, machine
  <2> QED BY <2>1, <2>3, <2>4 DEF StreamInv
<1>4. CASE Record
  BY <1>0, <1>4 DEF Record, FieldsAgree, StreamInv, ClosesMatchOpens, SaidOpen
<1>5. CASE StoreClose \/ \E applied \in BOOLEAN : StoreCloseRaises(applied) \/ RecordRaises(applied)
  BY <1>0, <1>5 DEF StoreClose, StoreCloseRaises, RecordRaises, machine, FieldsAgree, StreamInv,
     ClosesMatchOpens, SaidOpen
<1>6. CASE Crash \/ LinkEvent \/ TimeIsUp \/ UNCHANGED vars
  BY <1>0, <1>6 DEF Crash, LinkEvent, TimeIsUp, vars, store, machine, StreamInv,
     ClosesMatchOpens, SaidOpen
<1>7. CASE \/ \E s \in SetBacks : ClockSetBack(s)
           \/ \E t \in 0 .. MaxTime : Prune(t)
  BY <1>0, <1>7 DEF ClockSetBack, Prune, store, machine, StreamInv, ClosesMatchOpens, SaidOpen
<1> QED BY <1>1, <1>2, <1>3, <1>4, <1>5, <1>6, <1>7 DEF Next

\* A close in the live stream is the close of the message just before it, for any
\* number of faults at any of the steps of an update.
THEOREM ClosesFollowOpens == Spec => []ClosesMatchOpens
<1>1. Init => StreamInv
  BY DEF Init, StreamInv, ClosesMatchOpens
<1>2. StreamInv => ClosesMatchOpens
  BY DEF StreamInv
<1> QED BY <1>1, <1>2, StreamStep, Invariance, PTL DEF Spec

-----------------------------------------------------------------------------
(* What depends on the clock.  As long as it moves forward the hysteresis  *)
(* starts after the last active verdict, and no row is from the future.    *)

HystInv ==
  steady =>
    /\ lastActive <= now
    /\ okSince # None => lastActive < okSince /\ okSince <= now
    /\ pc \in {"closing", "closed"} /\ verdict = Quiet => now - lastActive > Hyst

\* Every step preserves it.
LEMMA HystStep == Inv /\ HystInv /\ [Next]_vars => HystInv'
<1> SUFFICES ASSUME Inv, HystInv, [Next]_vars PROVE HystInv'
  OBVIOUS
<1>0. /\ now \in Nat /\ lastActive \in Nat /\ okSince \in Nat \cup {None} /\ Hyst \in Nat
      /\ Gaps \subseteq Nat \ {0} /\ MaxTime \in Nat /\ Quiet \notin Codes /\ None \notin Int
  BY VerdictAssumption, TimeAssumption DEF Inv, TypeOK
<1>1. ASSUME NEW v \in Verdicts, NEW t \in 0 .. MaxTime, Update(v, t) PROVE HystInv'
  <2>1. t > now /\ now' = t /\ t \in Nat /\ verdict' = v /\ steady' = steady
    BY <1>0, <1>1 DEF Update, Reads
  <2>2. CASE v \in Codes
    <3>1. lastActive' = t /\ okSince' = None /\ verdict' # Quiet
      BY <1>0, <1>1, <2>1, <2>2
         DEF Update, SameCondition, OtherCondition, NewCondition, BeginClose
    <3> QED BY <2>1, <3>1 DEF HystInv
  <2>3. CASE v = Quiet
    <3>1. lastActive' = lastActive /\ QuietVerdict(t) /\ pc = "idle"
      BY <1>0, <1>1, <2>3 DEF Update
    <3>2. \/ okSince' \in {okSince, None} /\ pc' = "idle"
          \/ okSince' = t /\ pc' = "idle"
          \/ okSince' = None /\ okSince # None /\ t - okSince >= Hyst
      BY <3>1 DEF QuietVerdict, BeginClose, machine
    <3> QED BY <1>0, <2>1, <3>1, <3>2 DEF HystInv
  <2> QED BY <2>2, <2>3 DEF Verdicts
<1>2. ASSUME NEW t \in 0 .. MaxTime, Prune(t) PROVE HystInv'
  <2>1. t > now /\ now' = t /\ t \in Nat
    BY <1>0, <1>2 DEF Prune, Reads
  <2>2. UNCHANGED <<pc, okSince, lastActive, steady>> /\ pc = "idle"
    BY <1>2 DEF Prune, machine
  <2> QED BY <1>0, <2>1, <2>2 DEF HystInv
<1>3. CASE StoreClose \/ PublishClose \/ Record \/ PublishOpen
  BY <1>3 DEF StoreClose, PublishClose, Record, PublishOpen, machine, store, HystInv
<1>4. CASE \E applied \in BOOLEAN : StoreCloseRaises(applied) \/ RecordRaises(applied)
  BY <1>4 DEF StoreCloseRaises, RecordRaises, machine, HystInv
<1>5. CASE Crash \/ LinkEvent \/ TimeIsUp \/ UNCHANGED vars
  BY <1>5 DEF Crash, LinkEvent, TimeIsUp, vars, store, machine, HystInv
<1>6. CASE \E s \in SetBacks : ClockSetBack(s)
  BY <1>6 DEF ClockSetBack, HystInv
<1> QED BY <1>1, <1>2, <1>3, <1>4, <1>5, <1>6 DEF Next

\* An event closed by a quiet verdict has seen no active one for more than Hyst,
\* for every hysteresis and however often the condition flapped before.
THEOREM NeverClosedEarly == Spec => []NotClosedEarly
<1>1. Init => HystInv
  BY DEF Init, HystInv
<1>2. HystInv => NotClosedEarly
  BY DEF HystInv, NotClosedEarly
<1> QED BY <1>1, <1>2, HystStep, Invariance, PTL DEF Spec

PastInv ==
  steady => \A i \in DOMAIN rows : /\ rows[i].t <= now
                                   /\ rows[i].tClose # None => rows[i].tClose <= now

\* Rows that are left as they are, at the same time or later, stay in the past and
\* apart.
LEMMA RowsRest ==
  ASSUME Inv, PastInv, NoOverlap, DOMAIN rows' \subseteq DOMAIN rows,
         \A i \in DOMAIN rows' : rows'[i] = rows[i],
         now' \in Nat, steady' => steady /\ now <= now', orphans \subseteq orphans'
  PROVE  PastInv' /\ NoOverlap'
<1>1. \A i \in DOMAIN rows : rows[i].t \in Nat /\ rows[i].tClose \in Nat \cup {None}
  BY DEF Inv, TypeOK, Row
<1>2. now \in Nat /\ DOMAIN rows \subseteq Nat
  BY DEF Inv, TypeOK, Ids
<1>3. PastInv'
  BY <1>1, <1>2 DEF PastInv
<1>4. NoOverlap'
  BY <1>1, <1>2 DEF NoOverlap
<1> QED BY <1>3, <1>4

\* A row that is closed now ends before any that opens later; one that is not the
\* last is an orphan already.
LEMMA CloseApart ==
  ASSUME Inv, PastInv, NoOverlap, pc = "closing", rows' = WithClosed(closing.id),
         UNCHANGED <<now, steady, orphans>>
  PROVE  PastInv' /\ NoOverlap'
<1>1. closing.id \in DOMAIN rows /\ rows[closing.id].state = "open" /\ now \in Nat
  BY VerdictAssumption DEF Inv, TypeOK, FieldsAgree, Closing, Ids, OpenRowsAccounted, Unclosed,
     OpenRows
<1>2. /\ DOMAIN rows' = DOMAIN rows
      /\ \A i \in DOMAIN rows : i # closing.id => rows'[i] = rows[i]
      /\ \A i \in DOMAIN rows : rows'[i].etype = rows[i].etype /\ rows'[i].t = rows[i].t
      /\ rows'[closing.id].state = "closed" /\ rows'[closing.id].tClose = now
  BY <1>1, CloseRow DEF Inv
<1>3. PastInv'
  BY <1>1, <1>2 DEF PastInv
<1>4. NoOverlap'
  BY <1>1, <1>2 DEF NoOverlap
<1> QED BY <1>3, <1>4

\* When a row is recorded every earlier event has closed, or is an orphan.
LEMMA RecordApart ==
  ASSUME Inv, PastInv, NoOverlap, NEW row \in Row, rows' = Insert(row),
         row.t = now, row.tClose = None,
         row.etype = "diagnosis" => pc = "recording",
         UNCHANGED <<now, steady>>, orphans \subseteq orphans'
  PROVE  PastInv' /\ NoOverlap'
<1>1. /\ DOMAIN rows' = DOMAIN rows \cup {nextId} /\ rows'[nextId] = row
      /\ \A i \in DOMAIN rows : rows'[i] = rows[i] /\ i < nextId
      /\ DOMAIN rows \subseteq Nat /\ nextId \in Nat /\ now \in Nat
  BY InsertRow DEF Inv, TypeOK, RowsShaped, Ids
<1>2. PastInv'
  BY <1>1 DEF PastInv
<1>3. ASSUME pc = "recording", NEW i \in DOMAIN rows, rows[i].etype = "diagnosis", steady
      PROVE  i \in orphans \/ (rows[i].state = "closed" /\ rows[i].tClose <= now)
  <2>1. Unclosed = {}
    BY <1>3, VerdictAssumption DEF Inv, FieldsAgree, Unclosed
  <2>2. rows[i].state = "open" => i \in orphans
    BY <2>1 DEF Inv, OpenRowsAccounted, OpenRows
  <2>3. rows[i].state = "closed" => rows[i].tClose # None
    BY <1>3, VerdictAssumption DEF Inv, RowsShaped
  <2> QED BY <1>3, <2>2, <2>3 DEF Inv, RowsShaped, PastInv
<1>4. NoOverlap'
  <2> SUFFICES ASSUME steady, NEW i \in DOMAIN rows', NEW j \in DOMAIN rows', i < j,
                      rows'[i].etype = "diagnosis", rows'[j].etype = "diagnosis"
               PROVE  \/ i \in orphans'
                      \/ rows'[i].state = "closed" /\ rows'[i].tClose <= rows'[j].t
    BY DEF NoOverlap
  <2>1. i \in DOMAIN rows /\ rows'[i] = rows[i]
    BY <1>1
  <2>2. CASE j = nextId
    BY <1>1, <1>3, <2>1, <2>2
  <2>3. CASE j # nextId
    BY <1>1, <2>1, <2>3 DEF NoOverlap
  <2> QED BY <2>2, <2>3
<1> QED BY <1>2, <1>4

\* Every step preserves them.
LEMMA OverlapStep == Inv /\ PastInv /\ NoOverlap /\ [Next]_vars => PastInv' /\ NoOverlap'
<1> SUFFICES ASSUME Inv, PastInv, NoOverlap, [Next]_vars PROVE PastInv' /\ NoOverlap'
  OBVIOUS
<1>0. now \in Nat /\ Gaps \subseteq Nat \ {0} /\ MaxTime \in Nat
  BY TimeAssumption DEF Inv, TypeOK
<1>1. ASSUME \/ \E v \in Verdicts, t \in 0 .. MaxTime : Update(v, t)
             \/ \E t \in 0 .. MaxTime : Prune(t)
      PROVE  PastInv' /\ NoOverlap'
  <2>1. now' \in Nat /\ now <= now' /\ steady' = steady /\ orphans' = orphans
    <3>1. ASSUME NEW v \in Verdicts, NEW t \in 0 .. MaxTime, Update(v, t)
          PROVE  now' = t /\ t - now \in Gaps /\ UNCHANGED <<steady, orphans>>
      BY <3>1 DEF Update, Reads
    <3>2. ASSUME NEW t \in 0 .. MaxTime, Prune(t)
          PROVE  now' = t /\ t - now \in Gaps /\ UNCHANGED <<steady, orphans>>
      BY <3>2 DEF Prune, Reads
    <3>3. \E t \in 0 .. MaxTime :
            now' = t /\ t - now \in Gaps /\ UNCHANGED <<steady, orphans>>
      BY <1>1, <3>1, <3>2
    <3> QED BY <1>0, <3>3
  <2>2. DOMAIN rows' \subseteq DOMAIN rows /\ \A i \in DOMAIN rows' : rows'[i] = rows[i]
    BY <1>1 DEF Update, Prune, store
  <2> QED BY <2>1, <2>2, RowsRest
<1>2. CASE \/ PublishClose \/ PublishOpen \/ Crash \/ TimeIsUp \/ UNCHANGED vars
           \/ StoreCloseRaises(FALSE) \/ RecordRaises(FALSE)
  <2>1. UNCHANGED <<rows, now, steady>> /\ orphans \subseteq orphans'
    BY <1>2 DEF PublishClose, PublishOpen, Crash, TimeIsUp, vars, StoreCloseRaises, RecordRaises,
       store
  <2> QED BY <1>0, <2>1, RowsRest
<1>3. CASE \E s \in SetBacks : ClockSetBack(s)
  BY <1>3 DEF ClockSetBack, PastInv, NoOverlap
<1>4. CASE StoreClose \/ StoreCloseRaises(TRUE)
  BY <1>4, CloseApart DEF StoreClose, StoreCloseRaises
<1>5. CASE Record \/ RecordRaises(TRUE)
  <2>1. NewEvent(verdict) \in Row /\ pc = "recording"
    BY <1>5 DEF Inv, TypeOK, FieldsAgree, NewEvent, Row, Record, RecordRaises
  <2>2. NewEvent(verdict).t = now /\ NewEvent(verdict).tClose = None
    BY DEF NewEvent
  <2>3. rows' = Insert(NewEvent(verdict)) /\ UNCHANGED <<now, steady>> /\ orphans \subseteq orphans'
    BY <1>5 DEF Record, RecordRaises
  <2> QED BY <2>1, <2>2, <2>3, RecordApart
<1>6. CASE LinkEvent
  <2>1. PICK row \in Row : /\ rows' = Insert(row) /\ row.etype = "link"
                           /\ row.t = now /\ row.tClose = None
    BY <1>0, <1>6 DEF LinkEvent, Row
  <2>2. UNCHANGED <<now, steady, orphans>>
    BY <1>6 DEF LinkEvent
  <2> QED BY <2>1, <2>2, RecordApart
<1> QED BY <1>1, <1>2, <1>3, <1>4, <1>5, <1>6 DEF Next

\* Two events never overlap in the table but for one that a fault has cut loose,
\* for any number of rows.
THEOREM EventsApart == Spec => []NoOverlap
<1>1. Init => PastInv /\ NoOverlap
  BY DEF Init, PastInv, NoOverlap
<1> QED BY <1>1, OverlapStep, Invariance, PTL DEF Spec

-----------------------------------------------------------------------------
(* The keys of the live messages.  An update says at most one close and    *)
(* one open, in this order, and every update reads a later clock.          *)

KeyInv ==
  steady =>
    /\ \A k \in DOMAIN stream : stream[k].t <= now
    /\ pc \in {"closing", "closed"} => \A k \in DOMAIN stream : stream[k].t < now
    /\ pc \in {"recording", "opened"} =>
         \A k \in DOMAIN stream : stream[k].action = "open" => stream[k].t < now

\* A reading that is used is later than the one before it.
LEMMA LaterReading ==
  ASSUME Inv, \/ \E v \in Verdicts, t \in 0 .. MaxTime : Update(v, t)
              \/ \E t \in 0 .. MaxTime : Prune(t)
  PROVE  now' \in Nat /\ now < now' /\ UNCHANGED <<steady, stream, orphans>>
<1>0. now \in Nat /\ Gaps \subseteq Nat \ {0} /\ MaxTime \in Nat
  BY TimeAssumption DEF Inv, TypeOK
<1>1. ASSUME NEW v \in Verdicts, NEW t \in 0 .. MaxTime, Update(v, t)
      PROVE  now' = t /\ t - now \in Gaps /\ UNCHANGED <<steady, stream, orphans>>
  BY <1>1 DEF Update, Reads
<1>2. ASSUME NEW t \in 0 .. MaxTime, Prune(t)
      PROVE  now' = t /\ t - now \in Gaps /\ UNCHANGED <<steady, stream, orphans>>
  BY <1>2 DEF Prune, Reads
<1>3. \E t \in 0 .. MaxTime :
        now' = t /\ t - now \in Gaps /\ UNCHANGED <<steady, stream, orphans>>
  BY <1>1, <1>2
<1> QED BY <1>0, <1>3

\* The two callbacks append one message that carries the update's reading.
LEMMA CallbackSays ==
  ASSUME Inv, PublishClose \/ PublishOpen
  PROVE  \E m \in Message :
           /\ stream' = Append(stream, m) /\ m.t = now
           /\ PublishClose => m.action = "close" /\ m.code = closing.code
           /\ PublishOpen => m.action = "open" /\ m.code = openCode
<1>0. TypeOK /\ FieldsAgree /\ now \in Nat
  BY DEF Inv, TypeOK
<1>1. CASE PublishClose
  <2> DEFINE m == [action |-> "close", code |-> closing.code, t |-> now]
  <2>1. closing \in Closing /\ closing.code \in Codes
    BY <1>0, <1>1 DEF TypeOK, FieldsAgree, PublishClose, Closing
  <2>2. m \in Message /\ stream' = Append(stream, m) /\ ~PublishOpen
    BY <1>0, <1>1, <2>1 DEF Message, PublishClose, PublishOpen
  <2> QED BY <2>2
<1>2. CASE PublishOpen
  <2> DEFINE m == [action |-> "open", code |-> openCode, t |-> now]
  <2>1. openCode \in Codes
    BY <1>0, <1>2 DEF TypeOK, FieldsAgree, PublishOpen
  <2>2. m \in Message /\ stream' = Append(stream, m) /\ ~PublishClose
    BY <1>0, <1>2, <2>1 DEF Message, PublishClose, PublishOpen
  <2> QED BY <2>2
<1> QED BY <1>1, <1>2

\* Every step preserves the order of the messages' times and their keys.
LEMMA KeyStep == Inv /\ KeyInv /\ KeysUnique /\ [Next]_vars => KeyInv' /\ KeysUnique'
<1> SUFFICES ASSUME Inv, KeyInv, KeysUnique, [Next]_vars PROVE KeyInv' /\ KeysUnique'
  OBVIOUS
<1>0. /\ now \in Nat /\ stream \in Seq(Message) /\ DOMAIN stream = 1 .. Len(stream)
      /\ Len(stream) \in Nat /\ \A k \in DOMAIN stream : stream[k].t \in Nat
  <2>1. now \in Nat /\ stream \in Seq(Message)
    BY DEF Inv, TypeOK
  <2>2. \A m \in Message : m.t \in Nat
    BY DEF Message
  <2> QED BY <2>1, <2>2
<1>1. CASE \/ \E v \in Verdicts, t \in 0 .. MaxTime : Update(v, t)
           \/ \E t \in 0 .. MaxTime : Prune(t)
  BY <1>0, <1>1, LaterReading DEF KeyInv, KeysUnique
<1>2. CASE PublishClose \/ PublishOpen
  <2>1. PICK m \in Message :
          /\ stream' = Append(stream, m) /\ m.t = now
          /\ PublishClose => m.action = "close"
          /\ PublishOpen => m.action = "open"
    BY <1>2, CallbackSays
  <2>2. /\ DOMAIN stream' = 1 .. Len(stream) + 1 /\ stream'[Len(stream) + 1] = m
        /\ \A k \in DOMAIN stream : stream'[k] = stream[k]
    BY <1>0, <2>1
  <2>3. UNCHANGED <<now, steady>>
    BY <1>2 DEF PublishClose, PublishOpen
  <2>4. steady => \A k \in DOMAIN stream : stream[k] # m
    <3>1. CASE PublishClose
      BY <1>0, <2>1, <3>1 DEF KeyInv, PublishClose
    <3>2. CASE PublishOpen
      <4>1. steady => \A k \in DOMAIN stream : stream[k].action = "open" => stream[k].t < now
        BY <3>2 DEF KeyInv, PublishOpen
      <4> QED BY <1>0, <2>1, <3>2, <4>1
    <3> QED BY <1>2, <3>1, <3>2
  <2>5. KeysUnique'
    BY <1>0, <2>2, <2>3, <2>4 DEF KeysUnique
  <2>6. CASE PublishClose
    <3>1. pc = "closed" /\ pc' \in {"idle", "recording"} /\ m.action = "close"
      BY <2>1, <2>6 DEF PublishClose
    <3> QED BY <1>0, <2>1, <2>2, <2>3, <2>5, <3>1 DEF KeyInv
  <2>7. CASE PublishOpen
    <3>1. pc' = "idle"
      BY <2>7 DEF PublishOpen
    <3> QED BY <1>0, <2>1, <2>2, <2>3, <2>5, <3>1 DEF KeyInv
  <2> QED BY <1>2, <2>6, <2>7
<1>3. CASE StoreClose \/ Record
  BY <1>3 DEF StoreClose, Record, KeyInv, KeysUnique
<1>4. CASE \/ Crash \/ LinkEvent \/ TimeIsUp \/ UNCHANGED vars
           \/ \E applied \in BOOLEAN : StoreCloseRaises(applied) \/ RecordRaises(applied)
  BY <1>4 DEF Crash, LinkEvent, TimeIsUp, vars, StoreCloseRaises, RecordRaises, KeyInv, KeysUnique
<1>5. CASE \E s \in SetBacks : ClockSetBack(s)
  BY <1>5 DEF ClockSetBack, KeyInv, KeysUnique
<1> QED BY <1>1, <1>2, <1>3, <1>4, <1>5 DEF Next

\* No two live messages share the key the page drops repeats by, for any number of
\* events and faults, until the clock is set back.
THEOREM KeysApart == Spec => []KeysUnique
<1>1. Init => KeyInv /\ KeysUnique
  BY DEF Init, KeyInv, KeysUnique
<1> QED BY <1>1, KeyStep, Invariance, PTL DEF Spec

-----------------------------------------------------------------------------
(* What was said live is in the table.  The row of the event that is       *)
(* tracked, or has been taken over, opened when the last message says.     *)

LastTime == stream[Len(stream)].t

BackInv ==
  steady =>
    /\ openId # None => /\ rows[openId].code = openCode
                        /\ rows[openId].t = IF pc = "opened" THEN now ELSE LastTime
    /\ closing # None => /\ closing.id \in DOMAIN rows
                         /\ rows[closing.id].etype = "diagnosis"
                         /\ rows[closing.id].code = closing.code
                         /\ rows[closing.id].t = LastTime
                         /\ pc = "closed" => rows[closing.id].tClose = now

\* Row i is the one that message k of the stream is about.
Backs(i, k) == /\ rows[i].etype = "diagnosis"
               /\ rows[i].code = stream[k].code
               /\ rows[i].t = stream[Opening(k)].t
               /\ stream[k].action = "close" => rows[i].tClose = stream[k].t

\* The rows of the event tracked and of the event taken over are open.
LEMMA TrackedRow ==
  ASSUME Inv
  PROVE  /\ openId # None => openId \in DOMAIN rows /\ rows[openId].state = "open"
         /\ pc = "closing" => closing.id \in DOMAIN rows /\ rows[closing.id].state = "open"
         /\ \A i \in DOMAIN rows : rows[i].state = "open" =>
              rows[i].etype = "diagnosis" /\ rows[i].tClose = None
<1>1. openId # None => openId \in Unclosed
  BY DEF Unclosed
<1>2. pc = "closing" => closing.id \in Unclosed
  BY VerdictAssumption DEF Inv, TypeOK, FieldsAgree, Unclosed, Closing, Ids
<1>3. \A i \in DOMAIN rows : rows[i].etype \in {"diagnosis", "link"}
  BY DEF Inv, TypeOK, Row
<1> QED BY <1>1, <1>2, <1>3 DEF Inv, OpenRowsAccounted, OpenRows, RowsShaped

\* The message that opened the event of a message is in the stream.
LEMMA OpeningInStream ==
  ASSUME Inv, ClosesMatchOpens, NEW k \in DOMAIN stream
  PROVE  /\ Opening(k) \in DOMAIN stream /\ stream[Opening(k)].t \in Nat
         /\ stream[k].t \in Nat
<1>1. stream \in Seq(Message) /\ DOMAIN stream = 1 .. Len(stream) /\ Len(stream) \in Nat
  BY DEF Inv, TypeOK
<1>2. \A m \in Message : m.t \in Nat /\ m.action \in {"open", "close"}
  BY DEF Message
<1>3. \A j \in DOMAIN stream : stream[j] \in Message
  BY <1>1
<1>4. CASE stream[k].action = "open"
  BY <1>2, <1>3, <1>4 DEF Opening
<1>5. CASE stream[k].action = "close"
  <2>1. Opening(k) = k - 1 /\ k > 1
    BY <1>5 DEF Opening, ClosesMatchOpens
  <2>2. k - 1 \in DOMAIN stream
    BY <1>1, <2>1
  <2> QED BY <1>2, <1>3, <2>1, <2>2
<1> QED BY <1>2, <1>3, <1>4, <1>5

\* Rows that keep their code and times, and the end they have, still back the
\* messages they backed.
LEMMA BackedStill ==
  ASSUME Inv, StreamInv, StreamBacked, steady' => steady /\ now <= now', now' \in Nat,
         stream' = stream,
         \A i \in DOMAIN rows :
           \/ rows[i].t < now' - Retention /\ now' - Retention \in Int
           \/ /\ i \in DOMAIN rows' /\ rows'[i].etype = rows[i].etype
              /\ rows'[i].code = rows[i].code /\ rows'[i].t = rows[i].t
              /\ rows[i].tClose # None => rows'[i].tClose = rows[i].tClose
  PROVE  StreamBacked'
<1> SUFFICES ASSUME steady', NEW k \in DOMAIN stream
             PROVE  \/ stream[Opening(k)].t < now' - Retention
                    \/ \E i \in DOMAIN rows' :
                         /\ rows'[i].etype = "diagnosis"
                         /\ rows'[i].code = stream[k].code
                         /\ rows'[i].t = stream[Opening(k)].t
                         /\ stream[k].action = "close" => rows'[i].tClose = stream[k].t
  BY DEF StreamBacked, Opening
<1>1. /\ stream[Opening(k)].t \in Nat /\ stream[k].t \in Nat
      /\ now \in Nat /\ now <= now' /\ Retention \in Nat /\ None \notin Nat
  BY OpeningInStream, TimeAssumption, VerdictAssumption DEF Inv, TypeOK, StreamInv
<1>2. CASE stream[Opening(k)].t < now - Retention
  BY <1>1, <1>2
<1>3. CASE \E i \in DOMAIN rows : Backs(i, k)
  BY <1>1, <1>3 DEF Backs
<1> QED BY <1>2, <1>3 DEF StreamBacked, Backs

\* A message that is appended is backed by the row of the machine's event.
LEMMA BackedNew ==
  ASSUME Inv, StreamInv, StreamBacked, NEW m \in Message, stream' = Append(stream, m),
         m.action = "close" => SaidOpen(m.code), UNCHANGED <<rows, now, steady>>,
         NEW i \in DOMAIN rows,
         steady => /\ rows[i].etype = "diagnosis" /\ rows[i].code = m.code
                   /\ rows[i].t = IF m.action = "open" THEN m.t ELSE LastTime
                   /\ m.action = "close" => rows[i].tClose = m.t
  PROVE  StreamBacked'
<1>1. /\ stream \in Seq(Message) /\ DOMAIN stream = 1 .. Len(stream) /\ Len(stream) \in Nat
      /\ m.action \in {"open", "close"}
  BY DEF Inv, TypeOK, Message
<1>2. /\ DOMAIN stream' = 1 .. Len(stream) + 1 /\ stream'[Len(stream) + 1] = m
      /\ \A k \in DOMAIN stream : stream'[k] = stream[k]
  BY <1>1
<1> SUFFICES ASSUME steady, NEW k \in DOMAIN stream'
             PROVE  \/ stream'[Opening(k)'].t < now - Retention
                    \/ \E j \in DOMAIN rows :
                         /\ rows[j].etype = "diagnosis"
                         /\ rows[j].code = stream'[k].code
                         /\ rows[j].t = stream'[Opening(k)'].t
                         /\ stream'[k].action = "close" => rows[j].tClose = stream'[k].t
  BY DEF StreamBacked, Opening
<1>3. CASE k \in DOMAIN stream
  <2>1. Opening(k)' = Opening(k) /\ stream'[Opening(k)] = stream[Opening(k)]
    BY <1>2, <1>3, OpeningInStream DEF Opening, StreamInv
  <2>2. \/ stream[Opening(k)].t < now - Retention
        \/ \E j \in DOMAIN rows : Backs(j, k)
    BY <1>3 DEF StreamBacked, Backs
  <2> QED BY <1>2, <1>3, <2>1, <2>2 DEF Backs
<1>4. CASE k = Len(stream) + 1
  <2>0. stream'[k] = m
    BY <1>2, <1>4
  <2>1. CASE m.action = "open"
    <3>1. Opening(k)' = k
      BY <2>0, <2>1 DEF Opening
    <3> QED BY <2>0, <2>1, <3>1
  <2>2. CASE m.action = "close"
    <3>1. Opening(k)' = k - 1
      BY <2>0, <2>2 DEF Opening
    <3>2. k - 1 = Len(stream) /\ Len(stream) \in DOMAIN stream
      BY <1>1, <1>4, <2>2 DEF SaidOpen
    <3>3. stream'[Len(stream)].t = LastTime
      BY <1>2, <3>2 DEF LastTime
    <3>4. /\ rows[i].etype = "diagnosis" /\ rows[i].code = m.code
          /\ rows[i].t = LastTime /\ rows[i].tClose = m.t
      BY <2>2
    <3> QED BY <2>0, <3>1, <3>2, <3>3, <3>4
  <2> QED BY <1>1, <2>1, <2>2
<1>5. k \in 1 .. Len(stream) + 1
  BY <1>2
<1>6. k \in 1 .. Len(stream) \/ k = Len(stream) + 1
  BY <1>1, <1>5
<1> QED BY <1>1, <1>3, <1>4, <1>6

\* Every step keeps the messages backed.
LEMMA BackStep == Inv /\ StreamInv /\ BackInv /\ StreamBacked /\ [Next]_vars
                    => BackInv' /\ StreamBacked'
<1> SUFFICES ASSUME Inv, StreamInv, BackInv, StreamBacked, [Next]_vars
             PROVE  BackInv' /\ StreamBacked'
  OBVIOUS
<1>0. /\ now \in Nat /\ Retention \in Nat /\ None \notin Nat
      /\ rows \in [DOMAIN rows -> Row] /\ TypeOK /\ FieldsAgree
  BY TimeAssumption, VerdictAssumption DEF Inv, TypeOK
<1>1. ASSUME NEW v \in Verdicts, NEW t \in 0 .. MaxTime, Update(v, t)
      PROVE  BackInv' /\ StreamBacked'
  <2>1. /\ UNCHANGED <<rows, steady, stream>> /\ now' \in Nat /\ now < now' /\ pc = "idle"
    BY <1>1, LaterReading DEF Update, store
  <2>2. StreamBacked'
    BY <1>0, <2>1, BackedStill
  <2>3. \/ UNCHANGED <<openId, openCode, closing>> /\ pc' \in {"idle", "recording"}
        \/ openId # None /\ openId' = None /\ closing' = [id |-> openId, code |-> openCode]
           /\ pc' = "closing"
    BY <1>0, <1>1 DEF Update, SameCondition, OtherCondition, NewCondition, QuietVerdict,
       BeginClose, machine, FieldsAgree
  <2>4. BackInv'
    BY <1>0, <2>1, <2>3, TrackedRow DEF BackInv, FieldsAgree, LastTime
  <2> QED BY <2>2, <2>4
<1>2. CASE StoreClose \/ StoreCloseRaises(TRUE)
  <2>1. /\ rows' = WithClosed(closing.id) /\ pc = "closing" /\ openId' = None
        /\ UNCHANGED <<now, steady, stream>>
        /\ closing' = closing \/ closing' = None
    BY <1>0, <1>2 DEF StoreClose, StoreCloseRaises, machine, FieldsAgree
  <2>2. /\ DOMAIN rows' = DOMAIN rows
        /\ \A i \in DOMAIN rows : i # closing.id => rows'[i] = rows[i]
        /\ rows'[closing.id].tClose = now /\ rows[closing.id].tClose = None
        /\ rows'[closing.id].etype = rows[closing.id].etype
        /\ rows'[closing.id].code = rows[closing.id].code
        /\ rows'[closing.id].t = rows[closing.id].t
        /\ closing.id \in DOMAIN rows
    BY <1>0, <2>1, CloseRow, TrackedRow
  <2>3. StreamBacked'
    BY <1>0, <2>1, <2>2, BackedStill
  <2>4. BackInv'
    BY <1>0, <2>1, <2>2 DEF BackInv, FieldsAgree, LastTime
  <2> QED BY <2>3, <2>4
<1>3. CASE PublishClose \/ PublishOpen
  <2>1. PICK m \in Message :
          /\ stream' = Append(stream, m) /\ m.t = now
          /\ PublishClose => m.action = "close" /\ m.code = closing.code
          /\ PublishOpen => m.action = "open" /\ m.code = openCode
    BY <1>3, CallbackSays
  <2>2. UNCHANGED <<rows, now, steady, openId, openCode>>
    BY <1>3 DEF PublishClose, PublishOpen, store, machine
  <2>3. LastTime' = now
    BY <1>0, <2>1 DEF LastTime, TypeOK
  <2>4. CASE PublishClose
    <3>1. pc = "closed" /\ closing # None /\ openId = None /\ closing' = None
      BY <1>0, <2>4 DEF PublishClose, FieldsAgree
    <3>2. SaidOpen(m.code)
      BY <2>1, <2>4, <3>1 DEF StreamInv
    <3>3. steady => closing.id \in DOMAIN rows
      BY <3>1 DEF BackInv
    <3>4. CASE steady
      <4>1. StreamBacked'
        BY <2>1, <2>2, <2>4, <3>1, <3>2, <3>3, <3>4, BackedNew DEF BackInv
      <4> QED BY <2>2, <3>1, <4>1 DEF BackInv
    <3>5. CASE ~steady
      BY <2>2, <3>5 DEF BackInv, StreamBacked
    <3> QED BY <3>4, <3>5
  <2>5. CASE PublishOpen
    <3>1. pc = "opened" /\ closing = None /\ openId # None /\ closing' = closing /\ pc' = "idle"
      BY <1>0, <2>5 DEF PublishOpen, FieldsAgree
    <3>2. openId \in DOMAIN rows /\ rows[openId].etype = "diagnosis"
      BY <3>1, TrackedRow
    <3>3. StreamBacked'
      BY <2>1, <2>2, <2>5, <3>1, <3>2, BackedNew DEF BackInv
    <3> QED BY <2>2, <2>3, <3>1, <3>3 DEF BackInv
  <2> QED BY <1>3, <2>4, <2>5
<1>4. CASE Record \/ RecordRaises(TRUE)
  <2>1. NewEvent(verdict) \in Row /\ pc = "recording" /\ openId = None /\ closing = None
    BY <1>0, <1>4 DEF TypeOK, FieldsAgree, NewEvent, Row, Record, RecordRaises
  <2>2. rows' = Insert(NewEvent(verdict)) /\ UNCHANGED <<now, steady, stream, closing>>
    BY <1>4 DEF Record, RecordRaises
  <2>3. /\ DOMAIN rows' = DOMAIN rows \cup {nextId} /\ rows'[nextId] = NewEvent(verdict)
        /\ \A i \in DOMAIN rows : rows'[i] = rows[i]
    BY <2>1, <2>2, InsertRow DEF Inv
  <2>4. StreamBacked'
    BY <1>0, <2>2, <2>3, BackedStill
  <2>5. \/ openId' = None
        \/ openId' = nextId /\ openCode' = verdict /\ pc' = "opened"
    BY <1>4, <2>1 DEF Record, RecordRaises, machine
  <2>6. BackInv'
    BY <2>1, <2>2, <2>3, <2>5 DEF BackInv, NewEvent
  <2> QED BY <2>4, <2>6
<1>5. CASE \/ Crash \/ TimeIsUp \/ UNCHANGED vars
           \/ StoreCloseRaises(FALSE) \/ RecordRaises(FALSE)
  <2>1. UNCHANGED <<rows, now, steady, stream>>
    BY <1>5 DEF Crash, TimeIsUp, vars, StoreCloseRaises, RecordRaises, store
  <2>2. StreamBacked'
    BY <1>0, <2>1, BackedStill
  <2>3. \/ UNCHANGED <<openId, openCode, closing, pc>>
        \/ openId' = None /\ closing' = None
    BY <1>0, <1>5 DEF Crash, TimeIsUp, vars, StoreCloseRaises, RecordRaises, machine, FieldsAgree
  <2> QED BY <2>1, <2>2, <2>3 DEF BackInv, LastTime
<1>6. CASE LinkEvent
  <2>1. PICK row \in Row : rows' = Insert(row)
    BY <1>0, <1>6 DEF LinkEvent, Row
  <2>2. UNCHANGED <<now, steady, stream, openId, openCode, closing, pc>>
    BY <1>6 DEF LinkEvent, machine
  <2>3. /\ DOMAIN rows' = DOMAIN rows \cup {nextId}
        /\ \A i \in DOMAIN rows : rows'[i] = rows[i]
    BY <2>1, InsertRow DEF Inv
  <2>4. StreamBacked'
    BY <1>0, <2>2, <2>3, BackedStill
  <2>5. BackInv'
    BY <2>2, <2>3, TrackedRow DEF BackInv, LastTime
  <2> QED BY <2>4, <2>5
<1>7. ASSUME NEW t \in 0 .. MaxTime, Prune(t) PROVE BackInv' /\ StreamBacked'
  <2>1. /\ UNCHANGED <<steady, stream, pc, openId, openCode, closing>>
        /\ now' = t /\ t \in Nat /\ now < t /\ pc = "idle"
    BY <1>7, LaterReading DEF Prune, machine
  <2>2. /\ \A i \in DOMAIN rows \ DOMAIN rows' : rows[i].t < t - Retention
        /\ DOMAIN rows' \subseteq DOMAIN rows
        /\ \A i \in DOMAIN rows' : rows'[i] = rows[i]
        /\ \A i \in DOMAIN rows : rows[i].state = "open" => i \in DOMAIN rows'
    BY <1>7 DEF Prune, Expired
  <2>3. StreamBacked'
    BY <1>0, <2>1, <2>2, BackedStill
  <2>4. BackInv'
    BY <1>0, <2>1, <2>2, TrackedRow DEF BackInv, FieldsAgree, LastTime
  <2> QED BY <2>3, <2>4
<1>8. CASE \E s \in SetBacks : ClockSetBack(s)
  BY <1>8 DEF ClockSetBack, BackInv, StreamBacked
<1> QED
  <2>1. \A applied \in BOOLEAN : applied = TRUE \/ applied = FALSE
    OBVIOUS
  <2> QED BY <1>1, <1>2, <1>3, <1>4, <1>5, <1>6, <1>7, <1>8, <2>1 DEF Next

\* Whatever the operators saw live is in the table with the times they saw until
\* retention removes it, wherever a crash or a store failure cuts an update.
THEOREM LiveIsOnRecord == Spec => []StreamBacked
<1>1. Init => StreamInv /\ BackInv /\ StreamBacked
  BY DEF Init, StreamInv, ClosesMatchOpens, BackInv, StreamBacked
<1> QED BY <1>1, BackStep, StreamStep, Invariance, PTL DEF Spec

\* What the quiet timer is to the history: of an event that is tracked, it holds the
\* first quiet verdict since the last active one; and between two updates that one
\* is younger than Hyst, or there has been no other.
LullInv ==
  /\ openId # None => /\ okSince = lull.from
                      /\ pc = "idle" /\ lull # NoLull =>
                           lull.to = lull.from \/ lull.to - lull.from < Hyst
  /\ pc \in {"recording", "opened"} => lull = NoLull
  /\ pc \in {"closing", "closed"} /\ verdict # Quiet => lull = NoLull

\* An update leaves the timer at the first quiet verdict, or the event is gone.
LEMMA UpdateLull ==
  ASSUME Inv, LullInv, NEW v \in Verdicts, NEW t \in Nat, Update(v, t)
  PROVE  LullInv'
<1>0. /\ None \notin Int /\ okSince \in Nat \cup {None} /\ Quiet \notin Codes
      /\ lull \in [from : Nat, to : Nat] \cup {NoLull} /\ pc = "idle"
      /\ okSince # None => openId # None
  BY VerdictAssumption DEF Inv, TypeOK, FieldsAgree, Update
<1>1. CASE v \in Codes
  <2>1. lull' = NoLull
    BY <1>0, <1>1 DEF Update
  <2>2. openId' # None => okSince' = None
    BY <1>0, <1>1 DEF Update, SameCondition, OtherCondition, NewCondition, BeginClose
  <2> QED BY <2>1, <2>2 DEF LullInv, NoLull
<1>2. CASE v = Quiet
  <2>1. /\ lull' = [from |-> IF lull.from = None THEN t ELSE lull.from, to |-> t]
        /\ QuietVerdict(t)
    BY <1>0, <1>2 DEF Update
  <2>2. lull'.from = (IF lull.from = None THEN t ELSE lull.from) /\ lull'.to = t
    BY <2>1
  <2>a. pc' \in {"idle", "closing"} /\ verdict' = Quiet
    BY <1>0, <1>2, <2>1 DEF Update, QuietVerdict, BeginClose
  <2>3. ASSUME openId' # None
        PROVE  okSince' = lull'.from /\ (t = lull'.from \/ t - lull'.from < Hyst)
    <3>1. openId # None /\ okSince = lull.from
      BY <2>1, <2>3 DEF QuietVerdict, BeginClose, machine, LullInv
    <3>2. \/ okSince = None /\ okSince' = t
          \/ okSince # None /\ t - okSince < Hyst /\ okSince' = okSince
      BY <2>1, <2>3, <3>1 DEF QuietVerdict, BeginClose, machine
    <3> QED BY <2>2, <3>1, <3>2
  <2> QED BY <2>2, <2>a, <2>3 DEF LullInv
<1> QED BY <1>1, <1>2 DEF Verdicts

\* So does every other step, which has no verdict: an event is recorded when a
\* verdict has just been active, and lost with its timer.
LEMMA LullStep == Inv /\ LullInv /\ [Next]_vars => LullInv'
<1> SUFFICES ASSUME Inv, LullInv, [Next]_vars PROVE LullInv'
  OBVIOUS
<1>1. ASSUME NEW v \in Verdicts, NEW t \in 0 .. MaxTime, Update(v, t) PROVE LullInv'
  BY <1>1, UpdateLull, TimeAssumption
<1>2. CASE Record
  <2>1. lull = NoLull /\ okSince = None
    BY <1>2 DEF Record, LullInv, Inv, FieldsAgree
  <2> QED BY <1>2, <2>1 DEF Record, LullInv, NoLull
<1>3. CASE StoreClose \/ PublishClose \/ PublishOpen
  BY <1>3, VerdictAssumption
     DEF StoreClose, PublishClose, PublishOpen, machine, LullInv, Inv, FieldsAgree
<1>4. CASE \E applied \in BOOLEAN : StoreCloseRaises(applied) \/ RecordRaises(applied)
  BY <1>4 DEF StoreCloseRaises, RecordRaises, machine, LullInv, Inv, FieldsAgree
<1>5. CASE \/ Crash \/ LinkEvent \/ TimeIsUp \/ UNCHANGED vars
           \/ \E t \in 0 .. MaxTime : Prune(t)
           \/ \E s \in SetBacks : ClockSetBack(s)
  BY <1>5 DEF Crash, LinkEvent, TimeIsUp, vars, Prune, ClockSetBack, machine, LullInv
<1> QED BY <1>1, <1>2, <1>3, <1>4, <1>5 DEF Next

\* Between two updates no row is open, but those a fault cut loose, once the
\* verdicts have been quiet for the hysteresis: for every hysteresis, every clock and
\* any faults and restarts.
THEOREM ClosesOnTime == Spec => []ClosedOnTime
<1>1. Init => LullInv
  BY DEF Init, LullInv
<1>2. Inv /\ LullInv => ClosedOnTime
  <2> SUFFICES ASSUME Inv, LullInv, pc = "idle", lull # NoLull, lull.to # lull.from,
                      lull.to - lull.from >= Hyst
               PROVE  OpenRows \subseteq orphans
    BY DEF ClosedOnTime
  <2>1. lull.to \in Nat /\ lull.from \in Nat /\ Hyst \in Nat
    BY TimeAssumption DEF Inv, TypeOK
  <2>2. openId = None
    BY <2>1 DEF LullInv
  <2> QED BY <2>2 DEF Inv, OpenRowsAccounted, Unclosed
<1> QED BY <1>1, <1>2, LullStep, Invariance, PTL DEF Spec

-----------------------------------------------------------------------------
(* The event machine implements the incident log. *)

\* An empty table is an empty log.
LEMMA LogInitStep == Init => Log!LogInit
<1> SUFFICES ASSUME Init PROVE Log!LogInit
  OBVIOUS
<1>1. Diagnosis = {} /\ Current = None /\ 1 .. nextId - 1 = {}
  BY DEF Init, Diagnosis, Current
<1> QED
  BY <1>1 DEF Log!LogInit, Incidents

\* A step that leaves the table and the current event alone is a stutter.
LEMMA LogStutter ==
  ASSUME UNCHANGED store, Current' = Current
  PROVE  UNCHANGED Log!logVars
  BY DEF store, Log!logVars, Incidents, Diagnosis

\* The row of the event _close has taken over becomes a finished incident.
LEMMA LogFinish ==
  ASSUME Inv, pc = "closing", rows' = WithClosed(closing.id),
         pc' \in {"closed", "idle"}, UNCHANGED <<nextId, openId>>
  PROVE  Log!Finish
<1> USE DEF Inv
<1>1. closing \in Closing /\ closing.id # None /\ openId = None
  BY VerdictAssumption DEF TypeOK, FieldsAgree, Closing, Ids
<1>2. closing.id \in DOMAIN rows /\ rows[closing.id].state = "open"
  BY <1>1 DEF OpenRowsAccounted, Unclosed, OpenRows
<1>3. closing.id \in Diagnosis /\ rows[closing.id].tClose = None
  BY <1>2 DEF TypeOK, RowsShaped, Row, Diagnosis
<1>4. Current = closing.id /\ Current' = None
  BY <1>1 DEF Current
<1>5. /\ DOMAIN rows' = DOMAIN rows
      /\ \A i \in DOMAIN rows : i # closing.id => rows'[i] = rows[i]
      /\ rows'[closing.id].etype = rows[closing.id].etype
      /\ rows'[closing.id].code = rows[closing.id].code
      /\ rows'[closing.id].t = rows[closing.id].t
      /\ rows'[closing.id].tClose = now
  BY <1>2, CloseRow
<1>6. Diagnosis' = Diagnosis
  BY <1>2, <1>5 DEF Diagnosis
<1>7. Incidents' = [Incidents EXCEPT ![closing.id].finish = now]
  BY <1>3, <1>5, <1>6 DEF Incidents, Diagnosis
<1>8. Incidents[closing.id].finish = None /\ Incidents'[closing.id].finish = now
  BY <1>3, <1>5, <1>6 DEF Incidents
<1> QED
  BY <1>3, <1>4, <1>7, <1>8 DEF Log!Finish, Incidents, TypeOK

\* A row the machine records is a new incident.
LEMMA LogAppears ==
  ASSUME Inv, pc = "recording", rows' = Insert(NewEvent(verdict)),
         nextId' = nextId + 1
  PROVE  Log!Appears(nextId) /\ nextId \in DOMAIN Incidents'
<1> USE DEF Inv
<1>1. NewEvent(verdict) \in Row /\ verdict \in Codes
  BY DEF TypeOK, FieldsAgree, NewEvent, Row
<1>2. /\ DOMAIN rows' = DOMAIN rows \cup {nextId}
      /\ rows'[nextId] = NewEvent(verdict)
      /\ \A i \in DOMAIN rows : rows'[i] = rows[i]
      /\ nextId \notin DOMAIN rows
  BY <1>1, InsertRow
<1>3. Diagnosis' = Diagnosis \cup {nextId}
  BY <1>2 DEF Diagnosis, NewEvent
<1>4. \A i \in Diagnosis : Incidents'[i] = Incidents[i]
  BY <1>2, <1>3 DEF Incidents, Diagnosis
<1>5. Incidents'[nextId] = [code |-> verdict, start |-> now, finish |-> None]
  BY <1>2, <1>3 DEF Incidents, NewEvent
<1>6. nextId \notin 1 .. nextId - 1
      /\ (1 .. nextId - 1) \cup {nextId} \subseteq 1 .. nextId' - 1
  BY DEF TypeOK, Ids
<1> QED
  BY <1>1, <1>3, <1>4, <1>5, <1>6 DEF Log!Appears, Incidents, TypeOK

\* A step of the machine is a step of the log or leaves it alone.
LEMMA LogStep == Inv /\ [Next]_vars => [Log!LogNext]_Log!logVars
<1> SUFFICES ASSUME Inv, [Next]_vars PROVE [Log!LogNext]_Log!logVars
  OBVIOUS
<1> USE DEF Inv
<1>1. CASE \E v \in Verdicts, t \in 0 .. MaxTime : Update(v, t)
  <2>1. Current' = Current /\ UNCHANGED store
    BY <1>1 DEF Current, Update, SameCondition, OtherCondition, NewCondition,
       QuietVerdict, BeginClose, machine
  <2> QED BY <2>1, LogStutter
<1>2. CASE StoreClose \/ StoreCloseRaises(TRUE)
  BY <1>2, LogFinish DEF StoreClose, StoreCloseRaises, machine, Log!LogNext
<1>3. CASE Record
  <2>1. Current = None /\ Current' = nextId /\ nextId # None
    BY <1>3, VerdictAssumption DEF Record, Current, TypeOK, FieldsAgree, Ids
  <2>2. Log!Appears(nextId)
    BY <1>3, LogAppears DEF Record
  <2> QED BY <2>1, <2>2 DEF Log!LogNext, Log!Start
<1>4. CASE RecordRaises(TRUE)
  <2>1. Current = None /\ Current' = None
    BY <1>4 DEF RecordRaises, Current, TypeOK, FieldsAgree, machine
  <2>2. Log!Appears(nextId) /\ nextId \in DOMAIN Incidents'
    BY <1>4, LogAppears DEF RecordRaises
  <2> QED BY <2>1, <2>2 DEF Log!LogNext, Log!Stillborn
<1>5. CASE StoreCloseRaises(FALSE) \/ Crash
  <2>1. Current' = None /\ UNCHANGED store
    BY <1>5 DEF StoreCloseRaises, Crash, Current, store, machine, FieldsAgree
  <2>2. CASE Current = None
    BY <2>1, <2>2, LogStutter
  <2>3. CASE Current # None
    BY <2>1, <2>3 DEF Log!LogNext, Log!Abandon, store, Incidents, Diagnosis
  <2> QED BY <2>2, <2>3
<1>6. CASE \/ PublishClose \/ PublishOpen \/ TimeIsUp \/ RecordRaises(FALSE)
           \/ \E s \in SetBacks : ClockSetBack(s)
  <2>1. Current' = Current /\ UNCHANGED store
    BY <1>6 DEF PublishClose, PublishOpen, TimeIsUp, RecordRaises, ClockSetBack,
       vars, store, machine, Current
  <2> QED BY <2>1, LogStutter
<1>7. CASE LinkEvent
  <2> DEFINE row == [etype |-> "link", state |-> "link", code |-> None,
                     t |-> now, tClose |-> None]
  <2>1. row \in Row /\ row.etype = "link"
    BY DEF TypeOK, Row
  <2> HIDE DEF row
  <2>2. rows' = Insert(row) /\ nextId' = nextId + 1 /\ Current' = Current
    BY <1>7 DEF LinkEvent, row, machine, Current
  <2>3. /\ DOMAIN rows' = DOMAIN rows \cup {nextId}
        /\ rows'[nextId] = row
        /\ \A i \in DOMAIN rows : rows'[i] = rows[i]
    BY <2>1, <2>2, InsertRow
  <2>4. Diagnosis' = Diagnosis
    BY <2>1, <2>3 DEF Diagnosis
  <2>5. Incidents' = Incidents
    BY <2>3, <2>4 DEF Incidents, Diagnosis
  <2> QED BY <2>2, <2>5 DEF Log!LogNext, Log!Skip, TypeOK, Ids
<1>8. CASE \E t \in 0 .. MaxTime : Prune(t)
  <2>1. PICK t \in 0 .. MaxTime : Prune(t)
    BY <1>8
  <2>2. /\ DOMAIN rows' = DOMAIN rows \ Expired(t - Retention)
        /\ \A i \in DOMAIN rows' : rows'[i] = rows[i]
        /\ UNCHANGED nextId /\ Current' = Current
    BY <2>1 DEF Prune, Current, machine
  <2>3. Diagnosis' = Diagnosis \ Expired(t - Retention)
    BY <2>2 DEF Diagnosis
  <2>4. \A i \in Diagnosis' : Incidents'[i] = Incidents[i]
    BY <2>2, <2>3 DEF Incidents, Diagnosis
  <2>5. Diagnosis \ Diagnosis' \subseteq Log!Finished
    BY <2>3, VerdictAssumption
       DEF Diagnosis, Expired, Log!Finished, Incidents, RowsShaped
  <2> QED BY <2>2, <2>3, <2>4, <2>5 DEF Log!LogNext, Log!Expire, Incidents
<1>9. CASE UNCHANGED vars
  BY <1>9, LogStutter DEF vars, store, Current
<1> QED
  BY <1>1, <1>2, <1>3, <1>4, <1>5, <1>6, <1>7, <1>8, <1>9 DEF Next

\* The event table, as the machine, its faults and retention write it, is an
\* incident log (events.py against IncidentLog).
THEOREM Refinement == Spec => ImplementsLog
  BY LogInitStep, LogStep, Invariance, PTL DEF Spec, ImplementsLog, Log!LogSpec

=============================================================================
