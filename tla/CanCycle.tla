------------------------------ MODULE CanCycle ------------------------------
(***************************************************************************)
(* From CAN frames to epochs and positions: Cgi610Assembler                *)
(* (parsers/cgi610_can.py) in App._on_can.                                 *)
(*                                                                         *)
(* The 610 sends its cycles in order, each as a head (0x320) and the       *)
(* frames of _NEED, numbered; any frame may be lost on the bus or be too   *)
(* short to unpack.  The other frames change nothing that is told apart.   *)
(***************************************************************************)
EXTENDS Integers, Sequences, FiniteSets

CONSTANTS CycFrames,  \* number of frames of _NEED behind the head
          CycMax,     \* bound: cycles sent
          CycSteps,   \* how much time may pass from head to head
          CycSecond,  \* one second
          CycGap      \* 0.2 s

ASSUME CycAssumption == /\ CycFrames \in Nat \ {0} /\ CycMax \in Nat
                        /\ CycSecond \in Nat \ {0} /\ CycGap \in Nat \ {0}
                        /\ CycSteps \subseteq Nat \ {0}

VARIABLES cycNow,     \* the cycle being sent
          cycAt,      \* the frame of it sent last; 0 is the head
          cycTime,    \* now
          cycCur,     \* _cur: its head's cycle and host_time and, per frame, the cycle it is of
          cycStored,  \* _last_epoch_write["can"]
          cycLastPos, \* _last_pos_pub
          cycLost,    \* history: heads lost
          cycWhole,   \* history: all of this cycle has arrived so far, of the one before
          cycOut,     \* history: the last cycle that came out
          cycEpochs,  \* history: seconds for which add was called, and whether it stored
          cycMissed   \* history: cycles that came out since a position was published

cycVars == <<cycNow, cycAt, cycTime, cycCur, cycStored, cycLastPos, cycLost, cycWhole,
             cycOut, cycEpochs, cycMissed>>

Cycle   == [head : 0..CycMax, t : Nat, of : [1..CycFrames -> 0..CycMax]]
NoCycle == [head |-> 0, t |-> 0, of |-> [i \in 1..CycFrames |-> 0]]
Full(c) == c.head # 0 /\ \A i \in 1..CycFrames : c.of[i] # 0

CycTypeOK ==
  /\ cycNow \in 0..CycMax /\ cycAt \in 0..CycFrames /\ cycTime \in Nat
  /\ cycCur \in Cycle /\ cycOut \in Cycle
  /\ cycStored \in Int /\ cycLastPos \in Nat
  /\ cycLost \subseteq 1..CycMax
  /\ cycWhole \in [this : BOOLEAN, last : BOOLEAN]
  /\ cycEpochs \in Seq([second : Nat, stored : BOOLEAN]) /\ cycMissed \in Nat

CycInit ==
  /\ cycNow = 0 /\ cycAt = CycFrames /\ cycTime = CycSecond
  /\ cycCur = NoCycle /\ cycStored = -1 /\ cycLastPos = 0
  /\ cycLost = {} /\ cycWhole = [this |-> FALSE, last |-> FALSE]
  /\ cycOut = NoCycle /\ cycEpochs = <<>> /\ cycMissed = 0

-----------------------------------------------------------------------------
Quiet == UNCHANGED <<cycStored, cycEpochs, cycLastPos, cycMissed, cycOut>>

\* mutant of Store: the second is marked only when the row is in
StoreMarksLate(t, fails) ==
  LET second == t \div CycSecond
      due    == cycStored # second
  IN  /\ fails => due
      /\ cycStored' = IF fails THEN cycStored ELSE second
      /\ cycEpochs' = IF due THEN Append(cycEpochs, [second |-> second, stored |-> ~fails])
                    ELSE cycEpochs
      /\ IF t - cycLastPos >= CycGap /\ ~fails
         THEN cycLastPos' = t /\ cycMissed' = 0
         ELSE cycLastPos' = cycLastPos /\ cycMissed' = cycMissed + 1

\* The rest of _on_can for a cycle that comes out: at most one epoch a second,
\* a position at most every 0.2 s.  An add that raises ends the callback, with
\* the second marked as written.
Store(t, fails) ==
  LET second == t \div CycSecond
      due    == cycStored # second
  IN  /\ fails => due
      /\ cycStored' = second
      /\ cycEpochs' = IF due THEN Append(cycEpochs, [second |-> second, stored |-> ~fails])
                    ELSE cycEpochs
      /\ IF t - cycLastPos >= CycGap /\ ~fails
         THEN cycLastPos' = t /\ cycMissed' = 0
         ELSE cycLastPos' = cycLastPos /\ cycMissed' = cycMissed + 1

\* mutant of Flush: what was gathered stays for the next cycle
FlushKeeps(next) ==
  /\ cycCur' = [next EXCEPT !.of = cycCur.of]
  /\ IF Full(cycCur)
     THEN cycOut' = cycCur /\ \E fails \in BOOLEAN : Store(cycCur.t, fails)
     ELSE Quiet

\* _flush, and what becomes of the cycle it returns
Flush(next) ==
  /\ cycCur' = next
  /\ IF Full(cycCur)
     THEN cycOut' = cycCur /\ \E fails \in BOOLEAN : Store(cycCur.t, fails)
     ELSE Quiet

\* A head: it arrives, it is too short (what _flush returns is lost with the
\* exception), or it is lost.
CycHead ==
  /\ cycAt = CycFrames /\ cycNow < CycMax
  /\ cycNow' = cycNow + 1 /\ cycAt' = 0
  /\ \E step \in CycSteps : cycTime' = cycTime + step
  /\ \/ /\ Flush([NoCycle EXCEPT !.head = cycNow + 1, !.t = cycTime'])
        /\ cycWhole' = [this |-> TRUE, last |-> cycWhole.this]
        /\ UNCHANGED cycLost
     \/ /\ cycCur' = NoCycle /\ Quiet
        /\ cycWhole' = [this |-> FALSE, last |-> FALSE]
        /\ UNCHANGED cycLost
     \/ /\ UNCHANGED cycCur /\ Quiet
        /\ cycWhole' = [this |-> FALSE, last |-> FALSE]
        /\ cycLost' = cycLost \cup {cycNow + 1}

\* One of the other frames: it is put into the cycle that is open, whichever
\* that is; lost and too short come to the same.
CycFrame ==
  /\ cycNow > 0 /\ cycAt < CycFrames /\ cycAt' = cycAt + 1
  /\ \/ /\ cycCur' = IF cycCur.head = 0 THEN cycCur
                     ELSE [cycCur EXCEPT !.of[cycAt + 1] = cycNow]
        /\ UNCHANGED cycWhole
     \/ /\ UNCHANGED cycCur /\ cycWhole' = [cycWhole EXCEPT !.this = FALSE]
  /\ Quiet /\ UNCHANGED <<cycNow, cycTime, cycLost>>

CycNext == CycHead \/ CycFrame
CycSpec == CycInit /\ [][CycNext]_cycVars

-----------------------------------------------------------------------------
(* Properties. *)

\* What comes out is a cycle: every frame of it is of the head's cycle, or of a
\* later one whose head, like every one in between, was lost on the bus.  A
\* cycle all of which arrived comes out with the next head that arrives.
CyclesMatch ==
  /\ Full(cycOut) => \A i \in 1..CycFrames :
       cycOut.of[i] >= cycOut.head /\ cycOut.head + 1 .. cycOut.of[i] \subseteq cycLost
  /\ cycAt = 0 /\ cycWhole.last =>
       cycOut.head = cycNow - 1 /\ \A i \in 1..CycFrames : cycOut.of[i] = cycNow - 1

\* One row is tried for each second and never a second one, and positions flow:
\* a cycle stays off the map because the last position is not 0.2 s old, or
\* because its store failed, which happens once in a second.
PositionsFlow ==
  /\ \A i, j \in DOMAIN cycEpochs : i < j => cycEpochs[i].second < cycEpochs[j].second
  /\ cycMissed < CycGap + Cardinality({i \in DOMAIN cycEpochs :
                             ~cycEpochs[i].stored /\ cycEpochs[i].second >= cycLastPos \div CycSecond})
=============================================================================
