------------------------------ MODULE Reports -------------------------------
(***************************************************************************)
(* What a route has reported about its link (the calls of App._on_event):  *)
(* the last two "connected"/"disconnected" reports, and whether the route  *)
(* was torn down (crashed, or its bus reopened) between them and since.    *)
(* The row a report leaves may be lost, _on_event swallows a failing       *)
(* store; these are the reports, not the rows.                             *)
(***************************************************************************)

LinkState == {"none", "connected", "disconnected"}

Told == [before : LinkState, between : BOOLEAN, last : LinkState, since : BOOLEAN]

NothingTold == [before |-> "none", between |-> FALSE, last |-> "none", since |-> FALSE]

Report(told, state) == [before |-> told.last, between |-> told.since,
                        last |-> state, since |-> FALSE]

TornDown(told) == [told EXCEPT !.since = TRUE]

\* the same report twice in a row
Repeats(told) == told.before = told.last /\ told.last # "none"
=============================================================================
