----------------------------- MODULE Diagnosis -----------------------------
(***************************************************************************)
(* The 1 Hz diagnosis tick (main.py, _diagnosis_tick), the state the       *)
(* stream callbacks leave for it and the rule chain (diagnosis/rules.py).  *)
(*                                                                         *)
(* Every comparison a rule makes against a threshold of the configuration  *)
(* is a field of the datum it is made on: late is "age > age_max_s", few   *)
(* "ns < min_sats", and so on.  Two positions are apart when their         *)
(* distance exceeds divergence_sigma times the solution's sigma.  What the *)
(* tick does with a verdict is EventMachine's subject.                     *)
(***************************************************************************)
EXTENDS Integers, Sequences, FiniteSetsExt, Functions

CONSTANTS Sols,       \* the solutions the solver may report
          Cans,       \* the cycles the 610 may report
          Shifts,     \* whether the base station may be found shifted
          SatSets,    \* whether the satellites may be found suspect
          None,
          CorrGap,    \* corr_gap_s
          SolStale,   \* sol_stale_s
          PairWindow, \* how far apart in time a solution and a cycle compare
          Hold,       \* divergence_hold_s
          SlipWindow, \* window_s of the slip counter
          SlipMax,    \* slip_max_per_30s
          MaxGap,     \* longest time between two ticks that complete
          MaxTime,    \* bound: the last time
          MaxHits,    \* bound: slips counted at one time
          MaxRestarts \* bound: restarts of the process

Sol == [q : {1, 2, 5},       \* fixed, float, single
        few      : BOOLEAN,  \* fewer satellites than min_sats
        lowRatio : BOOLEAN,  \* ratio < min_ratio
        late     : BOOLEAN,  \* age > age_max_s
        offPoint : BOOLEAN,  \* at a control point, off by more than abs_ref_max_m
        pos      : Nat]
Can == [late : BOOLEAN, pos : Nat]

\* The rules in their order: the first that matches wins.
Chain == <<"no_data", "corr_outage", "base_shift", "abs_ref_shift", "low_sats",
           "multipath", "ambiguity", "cycle_slip", "device_divergence",
           "no_solution", "not_fixed", "rtk_fixed">>

ASSUME DataAssumption == /\ Sols \subseteq Sol /\ Cans \subseteq Can
                         /\ Shifts \subseteq BOOLEAN /\ SatSets \subseteq BOOLEAN
ASSUME NoneAssumption == None \notin Int /\ None \notin Sol /\ None \notin Range(Chain)
                         /\ None \notin [late : BOOLEAN, pos : Nat, t : Nat]
ASSUME TimeAssumption ==
  /\ CorrGap \in Nat /\ SolStale \in Nat /\ PairWindow \in Nat
  /\ Hold \in Nat /\ SlipWindow \in Nat /\ SlipMax \in Nat
  /\ MaxGap \in Nat \ {0}
ASSUME BoundAssumption == MaxTime \in Nat /\ MaxHits \in Nat /\ MaxRestarts \in Nat

VARIABLES now,
          lastTick, \* when the last tick completed
          corrLast, \* _corr_last_t
          shifted,  \* _base_offset > base_shift_m
          sol,      \* _sol
          solT,     \* _sol_t
          can,      \* the newest can row of the epoch store
          canSec,   \* _last_epoch_write["can"]
          badSats,  \* _latest_satstats has two satellites rule 4 suspects
          hits,     \* SlipWindow._hits: how many slips, by their time
          divSince, \* _div_since
          code,     \* code of the last verdict
          restarts,
          \* history
          lastSol,      \* when a solution last arrived
          lastLate,     \* when a late solution or stored cycle last arrived
          lastTogether  \* the last tick that did not find the 610 apart

mem  == <<corrLast, shifted, sol, solT, canSec, badSats, hits, divSince>>
past == <<lastSol, lastLate, lastTogether>>
vars == <<now, lastTick, corrLast, shifted, sol, solT, can, canSec, badSats, hits,
          divSince, code, restarts, lastSol, lastLate, lastTogether>>

Time == Nat \cup {None}

Slips   == [0 .. MaxTime -> 0 .. MaxHits]
NoSlips == [t \in 0 .. MaxTime |-> 0]

TypeOK ==
  /\ now \in 0 .. MaxTime /\ lastTick \in 0 .. now
  /\ corrLast \in Time /\ shifted \in BOOLEAN
  /\ sol \in Sol \cup {None} /\ solT \in Time /\ (sol = None <=> solT = None)
  /\ can \in [late : BOOLEAN, pos : Nat, t : Nat] \cup {None}
  /\ canSec \in Time /\ badSats \in BOOLEAN
  /\ hits \in Slips /\ divSince \in Time
  /\ code \in Range(Chain) \cup {None}
  /\ restarts \in Nat
  /\ lastSol \in Time /\ lastLate \in Time /\ lastTogether \in Nat

\* __init__: nothing received yet
Forgets ==
  /\ corrLast' = None /\ shifted' = FALSE /\ sol' = None /\ solT' = None
  /\ canSec' = None /\ badSats' = FALSE /\ hits' = NoSlips /\ divSince' = None

Init ==
  /\ now = 0 /\ lastTick = 0
  /\ corrLast = None /\ shifted = FALSE /\ sol = None /\ solT = None
  /\ can = None /\ canSec = None /\ badSats = FALSE /\ hits = NoSlips
  /\ divSince = None /\ code = None /\ restarts = 0
  /\ lastSol = None /\ lastLate = None /\ lastTogether = 0

-----------------------------------------------------------------------------
(* What the streams leave behind. *)

\* _on_corr: any data counts as corrections; a 1005 or 1006 also updates the
\* base station's offset, unless its decoding or the store fails
Corrections(s) ==
  /\ corrLast' = now
  /\ shifted' = s
  /\ UNCHANGED <<now, lastTick, sol, solT, can, canSec, badSats, hits, divSince,
                 code, restarts, past>>

\* mutant of Solution: the time of arrival is not noted
SolutionUntimed(s) ==
  /\ sol' = s /\ lastSol' = now
  /\ lastLate' = IF s.late THEN now ELSE lastLate
  /\ UNCHANGED <<now, lastTick, corrLast, shifted, solT, can, canSec, badSats, hits,
                 divSince, code, restarts, lastTogether>>

\* _on_rtksol
Solution(s) ==
  /\ sol' = s /\ solT' = now
  /\ lastSol' = now
  /\ lastLate' = IF s.late THEN now ELSE lastLate
  /\ UNCHANGED <<now, lastTick, corrLast, shifted, can, canSec, badSats, hits,
                 divSince, code, restarts, lastTogether>>

\* _on_can: one cycle a second is stored; a store that raises has already
\* spent the second
CanCycle(c, stored) ==
  /\ canSec # now
  /\ canSec' = now
  /\ can' = IF stored THEN [late |-> c.late, pos |-> c.pos, t |-> now] ELSE can
  /\ lastLate' = IF stored /\ c.late THEN now ELSE lastLate
  /\ UNCHANGED <<now, lastTick, corrLast, shifted, sol, solT, badSats, hits,
                 divSince, code, restarts, lastSol, lastTogether>>

\* _stat_reader: the satellites of the solver's last epoch; it keeps them when
\* the solver stops writing
SatStats(b) ==
  /\ badSats' = b
  /\ UNCHANGED <<now, lastTick, corrLast, shifted, sol, solT, can, canSec, hits,
                 divSince, code, restarts, past>>

\* _stat_reader, SlipWindow.feed: a satellite's slip counter has grown by one
Slip ==
  /\ hits[now] < MaxHits
  /\ hits' = [hits EXCEPT ![now] = @ + 1]
  /\ UNCHANGED <<now, lastTick, corrLast, shifted, sol, solT, can, canSec, badSats,
                 divSince, code, restarts, past>>

-----------------------------------------------------------------------------
(* The tick. *)

\* mutant of FreshSol: the newest solution, whatever its age
FreshSolAny == sol

FreshSol == IF solT # None /\ now - solT < SolStale THEN sol ELSE None

\* mutant of FreshCan: the newest row, whatever its age
FreshCanAny == can

FreshCan == IF can # None /\ now - can.t <= SolStale THEN can ELSE None

\* the solution and the 610 can be compared and are apart
Apart == LET s == FreshSol  c == FreshCan IN
         /\ s # None /\ c # None
         /\ solT - c.t < PairWindow /\ c.t - solT < PairWindow
         /\ s.pos # c.pos

\* mutant of DivSince: a tick without a pair keeps the timer
DivSinceKept ==
  IF Apart THEN (IF divSince = None THEN now ELSE divSince)
  ELSE IF FreshSol = None \/ FreshCan = None THEN divSince ELSE None

\* mutant of DivSince: the timer restarts at every tick
DivSinceNow == IF Apart THEN now ELSE None

DivSince == IF Apart THEN (IF divSince = None THEN now ELSE divSince) ELSE None

Recent == [t \in 0 .. MaxTime |-> IF t >= now - SlipWindow THEN hits[t] ELSE 0]

\* corr_age: the solution's, else the 610's
AgeLate == LET s == FreshSol  c == FreshCan IN
           \/ s # None /\ s.late
           \/ s = None /\ c # None /\ c.late

\* diagnose: the rules that match, by code
Matches ==
  LET s == FreshSol
      rules ==
        [no_data           |-> s = None /\ corrLast = None,
         corr_outage       |-> (corrLast # None /\ now - corrLast > CorrGap) \/ AgeLate,
         base_shift        |-> shifted,
         abs_ref_shift     |-> s # None /\ s.q = 1 /\ s.offPoint,
         low_sats          |-> s # None /\ s.few,
         multipath         |-> badSats,
         ambiguity         |-> s # None /\ s.q = 2 /\ s.lowRatio,
         cycle_slip        |-> FoldFunction(+, 0, Recent) > SlipMax,
         device_divergence |-> Apart /\ now - DivSince >= Hold,
         no_solution       |-> s = None,
         not_fixed         |-> s # None /\ s.q # 1,
         rtk_fixed         |-> TRUE]
  IN  {c \in DOMAIN rules : rules[c]}

Diagnose == Chain[Min({k \in DOMAIN Chain : Chain[k] \in Matches})]

\* _diagnosis_tick up to the verdict.  A tick that raises before it (the epoch
\* store's latest) changes nothing; it is a late tick.
Tick ==
  /\ now > lastTick
  /\ lastTick' = now
  /\ divSince' = DivSince
  /\ hits' = Recent
  /\ code' = Diagnose
  /\ lastTogether' = IF Apart THEN lastTogether ELSE now
  /\ UNCHANGED <<now, corrLast, shifted, sol, solT, can, canSec, badSats, restarts,
                 lastSol, lastLate>>

\* Time passes; the loop sleeps one second and may be late.
Passes ==
  /\ now < MaxTime /\ now < lastTick + MaxGap
  /\ now' = now + 1
  /\ UNCHANGED <<lastTick, mem, can, code, restarts, past>>

\* The process restarts: what is in memory goes, the epoch store stays.
Restart ==
  /\ restarts < MaxRestarts /\ restarts' = restarts + 1
  /\ Forgets
  /\ lastTick' = now /\ code' = None
  /\ lastTogether' = now
  /\ UNCHANGED <<now, can, lastSol, lastLate>>

Next ==
  \/ \E s \in Shifts : Corrections(s)
  \/ \E s \in Sols : Solution(s)
  \/ \E c \in Cans, stored \in BOOLEAN : CanCycle(c, stored)
  \/ \E b \in SatSets : SatStats(b)
  \/ Slip \/ Tick \/ Passes \/ Restart

Spec == Init /\ [][Next]_vars

-----------------------------------------------------------------------------
(* Properties. *)

SolutionCodes == {"abs_ref_shift", "low_sats", "ambiguity", "device_divergence",
                  "not_fixed", "rtk_fixed"}

\* No verdict about a solution outlives it: the tick that gives one has seen a
\* solution less than SolStale old (main.py, _diagnosis_tick: a frozen solver
\* output must not be treated as a live solution forever).
NoStaleFix ==
  code \in SolutionCodes => lastSol # None /\ lastTick - lastSol < SolStale

\* The 610 is blamed only after it has been apart from the solution at every
\* tick for more than Hold: a tick without a fresh pair, an agreeing one and a
\* restart all start the timer afresh.
DivergenceHeld ==
  code = "device_divergence" => lastTick - lastTogether > Hold

\* ... and it is not missed: an apart 610 cannot pass for a good fix longer than
\* Hold and the longest gap between two ticks.
DivergenceNoticed ==
  code \in {"no_solution", "not_fixed", "rtk_fixed"} =>
    lastTick - lastTogether < Hold + MaxGap

\* The corrections link is blamed only on evidence that is not stale: a gap in
\* the corrections themselves, or a late solution or cycle that has arrived
\* within SolStale.  A CAN feed that has died, before a restart even, is none.
OutageEvidence ==
  [][Tick /\ code' = "corr_outage" =>
       \/ corrLast # None /\ now - corrLast > CorrGap
       \/ lastLate # None /\ now - lastLate <= SolStale]_vars

\* main.py:446-449: with the solver's output frozen "the rule chain degrades to
\* the "no_solution" path".  Only the link, the base station and the slips of
\* the last seconds come before that path.
FrozenSolverNoticed ==
  [][Tick /\ lastSol # None /\ now - lastSol >= SolStale =>
       code' \in {"no_data", "corr_outage", "base_shift", "cycle_slip",
                  "no_solution"}]_vars

=============================================================================
