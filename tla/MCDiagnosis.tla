---------------------------- MODULE MCDiagnosis ----------------------------
(***************************************************************************)
(* Diagnosis on small instances: one solution per rule that looks at one,  *)
(* two positions, thresholds of one to three seconds.                      *)
(***************************************************************************)
EXTENDS Diagnosis

Fixed == [q |-> 1, few |-> FALSE, lowRatio |-> FALSE, late |-> FALSE,
          offPoint |-> FALSE, pos |-> 0]

\* a good fix, and the same elsewhere
TwoFixes == {Fixed, [Fixed EXCEPT !.pos = 1]}

\* one for every rule about a solution
EverySol == TwoFixes \cup
  {[Fixed EXCEPT !.q = 2, !.lowRatio = TRUE, !.late = TRUE],
   [Fixed EXCEPT !.offPoint = TRUE], [Fixed EXCEPT !.few = TRUE],
   [Fixed EXCEPT !.q = 5]}

OneCan  == {[late |-> FALSE, pos |-> 0]}
TwoCans == OneCan \cup {[late |-> TRUE, pos |-> 0]}
=============================================================================
