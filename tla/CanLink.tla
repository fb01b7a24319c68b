------------------------------ MODULE CanLink -------------------------------
(***************************************************************************)
(* The CAN route: CanCollector (collectors/can.py) with the reopen         *)
(* watchdog main.py wires for real hardware, under App._supervise.         *)
(*                                                                         *)
(* python-can is external: a bus that has been shut down, or whose         *)
(* notifier is stopped, delivers nothing, and shutting it down again does  *)
(* nothing.                                                                *)
(***************************************************************************)
EXTENDS Integers, Reports

CONSTANTS CanReopenAfter, \* reopen_after
          CanMaxWedges,   \* bound: times the controller gets stuck
          CanMaxCrashes   \* bound: crashes

ASSUME CanAssumption == /\ CanReopenAfter \in Nat \ {0, 1}
                        /\ CanMaxWedges \in Nat /\ CanMaxCrashes \in Nat

VARIABLES canPc,       \* "reading", or "resting" after a crash
          canTimeouts, \* timeouts
          canSeen,     \* _seen_any
          canDown,     \* _was_down
          canFailTold, \* _reopen_failed_emitted
          canBus,      \* the bus run() holds: live, wedged, or closed
          canIsFirst,  \* it is self._bus, the one the App opened
          canTraffic,  \* the 610 is sending
          canDevice,   \* the interface can be opened
          canWedges, canCrashes,
          canFlow,     \* history: a frame came, and no timeout or crash since
          canTold      \* history: what has been reported

canVars == <<canPc, canTimeouts, canSeen, canDown, canFailTold, canBus, canIsFirst,
             canTraffic, canDevice, canWedges, canCrashes, canFlow, canTold>>
canWorld == <<canTraffic, canDevice, canWedges, canCrashes>>

CanTypeOK ==
  /\ canPc \in {"reading", "resting"}
  /\ canTimeouts \in 0..CanReopenAfter
  /\ canSeen \in BOOLEAN /\ canDown \in BOOLEAN /\ canFailTold \in BOOLEAN
  /\ canBus \in {"live", "wedged", "closed"} /\ canIsFirst \in BOOLEAN
  /\ canTraffic \in BOOLEAN /\ canDevice \in BOOLEAN
  /\ canWedges \in Nat /\ canCrashes \in Nat
  /\ canFlow \in BOOLEAN /\ canTold \in Told

CanInit ==
  /\ canPc = "reading" /\ canTimeouts = 0
  /\ canSeen = FALSE /\ canDown = FALSE /\ canFailTold = FALSE
  /\ canBus = "live" /\ canIsFirst = TRUE
  /\ canTraffic \in BOOLEAN /\ canDevice = TRUE
  /\ canWedges = 0 /\ canCrashes = 0 /\ canFlow = FALSE /\ canTold = NothingTold

Delivers == canBus = "live" /\ canTraffic

\* get_message returns a frame; the first one, and the first after an outage,
\* is news
CanFrame ==
  /\ canPc = "reading" /\ Delivers
  /\ canTold' = IF canDown \/ ~canSeen THEN Report(canTold, "connected") ELSE canTold
  /\ canSeen' = TRUE /\ canDown' = FALSE
  /\ canTimeouts' = IF canDown \/ ~canSeen THEN 0 ELSE canTimeouts
  /\ canFlow' = TRUE
  /\ UNCHANGED <<canPc, canFailTold, canBus, canIsFirst, canWorld>>

\* the first timeout in a row is news
Silence(told) == IF canTimeouts = 0 THEN Report(told, "disconnected") ELSE told

\* a timeout below the threshold
CanTimeout ==
  /\ canPc = "reading" /\ ~Delivers
  /\ canTimeouts + 1 < CanReopenAfter
  /\ canTimeouts' = canTimeouts + 1
  /\ canDown' = (canDown \/ canTimeouts = 0)
  /\ canTold' = Silence(canTold)
  /\ canFlow' = FALSE
  /\ UNCHANGED <<canPc, canSeen, canFailTold, canBus, canIsFirst, canWorld>>

\* mutant of CanReopens: the outage is taken for over with the new bus
CanReopensCounting ==
  /\ canPc = "reading" /\ ~Delivers
  /\ canTimeouts + 1 >= CanReopenAfter /\ canDevice
  /\ canTold' = TornDown(Silence(canTold)) /\ canTimeouts' = 0
  /\ canFailTold' = FALSE
  /\ canBus' = "live" /\ canIsFirst' = FALSE
  /\ canFlow' = FALSE /\ canDown' = FALSE
  /\ UNCHANGED <<canPc, canSeen, canWorld>>

\* the timeout at the threshold, and the bus is opened anew
CanReopens ==
  /\ canPc = "reading" /\ ~Delivers
  /\ canTimeouts + 1 >= CanReopenAfter /\ canDevice
  /\ canTold' = TornDown(Silence(canTold)) /\ canTimeouts' = 0
  /\ canFailTold' = FALSE
  /\ canBus' = "live" /\ canIsFirst' = FALSE
  /\ canFlow' = FALSE /\ canDown' = (canDown \/ canTimeouts = 0)
  /\ UNCHANGED <<canPc, canSeen, canWorld>>

\* ... or the factory raises: the old bus is shut down already, and the next
\* timeout tries again
CanReopenFails ==
  /\ canPc = "reading" /\ ~Delivers
  /\ canTimeouts + 1 >= CanReopenAfter /\ ~canDevice
  /\ canTold' = Silence(canTold) /\ canTimeouts' = CanReopenAfter
  /\ canFailTold' = TRUE
  /\ canBus' = "closed"
  /\ canFlow' = FALSE /\ canDown' = (canDown \/ canTimeouts = 0)
  /\ UNCHANGED <<canPc, canSeen, canIsFirst, canWorld>>

\* an exception leaves run(); its finally stops the notifier
CanCrash ==
  /\ canPc = "reading" /\ canPc' = "resting"
  /\ canCrashes < CanMaxCrashes /\ canCrashes' = canCrashes + 1
  /\ canTold' = TornDown(canTold) /\ canFlow' = FALSE
  /\ UNCHANGED <<canTimeouts, canSeen, canDown, canFailTold, canBus, canIsFirst,
                 canTraffic, canDevice, canWedges>>

\* _supervise runs it again, from self._bus: a bus the watchdog has replaced is
\* closed, and it takes the watchdog once more to get a living one
CanRestart ==
  /\ canPc = "resting" /\ canPc' = "reading" /\ canTimeouts' = 0
  /\ canBus' = IF canIsFirst THEN canBus ELSE "closed"
  /\ canIsFirst' = TRUE
  /\ UNCHANGED <<canSeen, canDown, canFailTold, canWorld, canFlow, canTold>>

\* the 610, the controller and the interface
CanWorldTurns ==
  /\ \/ canTraffic' = ~canTraffic /\ UNCHANGED <<canDevice, canBus, canWedges>>
     \/ canDevice' = ~canDevice /\ UNCHANGED <<canTraffic, canBus, canWedges>>
     \/ /\ canBus = "live" /\ canBus' = "wedged"
        /\ canWedges < CanMaxWedges /\ canWedges' = canWedges + 1
        /\ UNCHANGED <<canTraffic, canDevice>>
  /\ UNCHANGED <<canPc, canTimeouts, canSeen, canDown, canFailTold, canIsFirst,
                 canCrashes, canFlow, canTold>>

CanRun  == CanFrame \/ CanTimeout \/ CanReopens \/ CanReopenFails \/ CanRestart
CanNext == CanRun \/ CanCrash \/ CanWorldTurns

-----------------------------------------------------------------------------
(* Properties. *)

\* What is reported about the CAN link is true: while frames flow the last word
\* is "connected", while timeouts are counted it is "disconnected".
\* "connected" is never reported twice in a row, and "disconnected" only across
\* a reopened bus or a crash.
CanHonest ==
  /\ canFlow => canTold.last = "connected" /\ ~canDown
  /\ canPc = "reading" /\ canTimeouts > 0 => canTold.last = "disconnected"
  /\ Repeats(canTold) => canTold.last = "disconnected" /\ canTold.between

\* Once the 610 keeps sending and the interface can be opened, frames flow in
\* the end: a wedged controller, a reopen that failed half-way and a crash after
\* a reopen are all left behind.
CanReturns == <>[](canTraffic /\ canDevice) => <>[]canFlow
=============================================================================
