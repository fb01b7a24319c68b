------------------------------ MODULE WebStore ------------------------------
(***************************************************************************)
(* The web page's view of the session (web/js/store.js): whether it is in  *)
(* replay mode, and whose points the map's trails hold since they were     *)
(* last cleared.  A point's source is 0 for live and the replay's number   *)
(* for a replay.  Abstracted: coordinates, series, status and the caps on  *)
(* their lengths, the event list, and lastError, which is only displayed.  *)
(***************************************************************************)
EXTENDS Naturals

VARIABLES replaying, \* s.replaying
          trail      \* the sources of the points in s.trails

storeVars == <<replaying, trail>>

Live == 0

StoreTypeOK == replaying \in BOOLEAN /\ trail \subseteq Nat

StoreInit == replaying = FALSE /\ trail = {}

\* m.replay: replay messages and replay_end carry it, errors do not
IsReplay(m) == m.kind \in {"replay", "replay_end"}

\* mutant of Discards: replay messages are taken in every mode
DiscardsNothing(m) == FALSE

\* applyMessage's first line: a replay message that arrives in live mode
Discards(m) == IsReplay(m) /\ ~replaying

ApplyPoints(m) ==
  /\ m.kind \in {"live", "replay"}
  /\ trail' = trail \cup {IF m.kind = "live" THEN Live ELSE m.n}
  /\ UNCHANGED replaying

\* mutant of ApplyReplayEnd: the trails alone are reset
ApplyReplayEndStays(m) ==
  /\ m.kind = "replay_end"
  /\ trail' = {} /\ UNCHANGED replaying

ApplyReplayEnd(m) ==
  /\ m.kind = "replay_end"
  /\ trail' = {} /\ replaying' = FALSE

\* mutant of ApplyError: the handler was not written
ApplyErrorIgnored(m) == m.kind = "error" /\ UNCHANGED storeVars

\* an error leaves replay mode and keeps what is on the map
ApplyError(m) ==
  /\ m.kind = "error"
  /\ replaying' = FALSE /\ UNCHANGED trail

ApplyMessage(m) ==
  \/ Discards(m) /\ UNCHANGED storeVars
  \/ ~Discards(m) /\ (ApplyPoints(m) \/ ApplyReplayEnd(m) \/ ApplyError(m))

ClearForReplay == trail' = {} /\ replaying' = TRUE

ResumeLive == trail' = {} /\ replaying' = FALSE

=============================================================================
