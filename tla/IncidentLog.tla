---------------------------- MODULE IncidentLog ----------------------------
(***************************************************************************)
(* What the diagnosis event log promises its readers (the event list, the  *)
(* report, replay), whatever the store and the process do in between:      *)
(*                                                                         *)
(*   - at most one incident is current, and only the current one can       *)
(*     finish;                                                             *)
(*   - a new incident starts only when none is current;                    *)
(*   - an incident's code and start never change and a finished one is     *)
(*     never touched again, except that it may expire as a whole;          *)
(*   - an incident nobody finished never disappears;                       *)
(*   - a number is never used for a second incident.                       *)
(*                                                                         *)
(* A fault may abandon the current incident, or leave one that was never   *)
(* current at all; it then stays unfinished.                               *)
(***************************************************************************)
EXTENDS Naturals

CONSTANTS Codes, None

VARIABLES incidents, \* number -> [code, start, finish]
          used,      \* every number spent so far
          current    \* the current incident, or None

logVars == <<incidents, used, current>>

LogInit == incidents = [i \in {} |-> None] /\ used = {} /\ current = None

\* incident i appears, unfinished, and the others stay as they are
Appears(i) ==
  /\ i \notin used /\ used \cup {i} \subseteq used'
  /\ DOMAIN incidents' = DOMAIN incidents \cup {i}
  /\ incidents'[i].code \in Codes
  /\ incidents'[i].start \in Nat
  /\ incidents'[i].finish = None
  /\ \A j \in DOMAIN incidents : incidents'[j] = incidents[j]

Start == current = None /\ current' # None /\ Appears(current')

\* a fault leaves an incident that was never current
Stillborn ==
  /\ current = None /\ current' = None
  /\ \E i \in DOMAIN incidents' : Appears(i)

Finish ==
  /\ current \in DOMAIN incidents /\ current' = None
  /\ incidents[current].finish = None
  /\ incidents'[current].finish \in Nat
  /\ incidents' = [incidents EXCEPT ![current].finish = incidents'[current].finish]
  /\ UNCHANGED used

\* a fault cuts the current incident loose
Abandon == current # None /\ current' = None /\ UNCHANGED <<incidents, used>>

Finished == {i \in DOMAIN incidents : incidents[i].finish # None}

\* retention removes finished incidents and nothing else
Expire ==
  /\ DOMAIN incidents \ DOMAIN incidents' \subseteq Finished
  /\ DOMAIN incidents' \subseteq DOMAIN incidents
  /\ \A i \in DOMAIN incidents' : incidents'[i] = incidents[i]
  /\ UNCHANGED <<used, current>>

\* numbers are also spent on things that are no incidents
Skip == used \subseteq used' /\ UNCHANGED <<incidents, current>>

LogNext == Start \/ Stillborn \/ Finish \/ Abandon \/ Expire \/ Skip

LogSpec == LogInit /\ [][LogNext]_logVars

=============================================================================
