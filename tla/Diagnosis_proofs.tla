-------------------------- MODULE Diagnosis_proofs --------------------------
(***************************************************************************)
(* What the diagnosis tick guarantees, for every configuration of the      *)
(* thresholds, every set of inputs and every bound.                        *)
(***************************************************************************)
EXTENDS Diagnosis, TLAPS

-----------------------------------------------------------------------------
(* The rule chain. *)

\* A non-empty set of positions in the chain has a least element: were there
\* none, each position in turn would be outside the set.
LEMMA MinOf ==
  ASSUME NEW K \in SUBSET (1 .. 12), K # {}
  PROVE  Min(K) \in K /\ \A k \in K : Min(K) <= k
<1>1. \E m \in K : \A k \in K : m <= k
  <2>0. SUFFICES ASSUME \A m \in K : \E k \in K : k < m PROVE FALSE
    OBVIOUS
  <2>1. 1 \notin K
    BY <2>0
  <2>2. 2 \notin K
    BY <2>0, <2>1
  <2>3. 3 \notin K
    BY <2>0, <2>1, <2>2
  <2>4. 4 \notin K
    BY <2>0, <2>1, <2>2, <2>3
  <2>5. 5 \notin K
    BY <2>0, <2>1, <2>2, <2>3, <2>4
  <2>6. 6 \notin K
    BY <2>0, <2>1, <2>2, <2>3, <2>4, <2>5
  <2>7. 7 \notin K
    BY <2>0, <2>1, <2>2, <2>3, <2>4, <2>5, <2>6
  <2>8. 8 \notin K
    BY <2>0, <2>1, <2>2, <2>3, <2>4, <2>5, <2>6, <2>7
  <2>9. 9 \notin K
    BY <2>0, <2>1, <2>2, <2>3, <2>4, <2>5, <2>6, <2>7, <2>8
  <2>10. 10 \notin K
    BY <2>0, <2>1, <2>2, <2>3, <2>4, <2>5, <2>6, <2>7, <2>8, <2>9
  <2>11. 11 \notin K
    BY <2>0, <2>1, <2>2, <2>3, <2>4, <2>5, <2>6, <2>7, <2>8, <2>9, <2>10
  <2>12. 12 \notin K
    BY <2>0, <2>1, <2>2, <2>3, <2>4, <2>5, <2>6, <2>7, <2>8, <2>9, <2>10, <2>11
  <2>13. PICK k \in K : TRUE
    OBVIOUS
  <2>14. k \in {1, 2, 3, 4, 5, 6, 7, 8, 9, 10, 11, 12}
    BY <2>13
  <2> QED BY <2>13, <2>14, <2>1, <2>2, <2>3, <2>4, <2>5, <2>6, <2>7, <2>8, <2>9, <2>10, <2>11, <2>12
<1> QED BY <1>1 DEF Min

\* The code diagnosed is one whose rule matches, and no rule before it does.
LEMMA FirstMatch ==
  /\ Diagnose \in Matches /\ Diagnose \in Range(Chain)
  /\ \A k \in 1 .. 12 : Chain[k] \in Matches =>
       \E j \in 1 .. k : Diagnose = Chain[j]
<1> DEFINE K == {k \in DOMAIN Chain : Chain[k] \in Matches}
<1>1. DOMAIN Chain = 1 .. 12 /\ Chain[12] = "rtk_fixed"
  BY DEF Chain
<1>2. "rtk_fixed" \in Matches
  BY DEF Matches
<1>3. K \in SUBSET (1 .. 12) /\ K # {}
  BY <1>1, <1>2
<1> HIDE DEF K
<1>4. Min(K) \in K /\ \A k \in K : Min(K) <= k
  BY <1>3, MinOf
<1>5. Diagnose = Chain[Min(K)]
  BY DEF Diagnose, K
<1> QED BY <1>1, <1>4, <1>5 DEF K, Range

\* What a match says about the solution and the divergence timer.
LEMMA MatchFacts ==
  /\ \A c \in SolutionCodes : c \in Matches => c = "rtk_fixed" \/ FreshSol # None
  /\ "no_solution" \in Matches <=> FreshSol = None
  /\ "device_divergence" \in Matches <=> Apart /\ now - DivSince >= Hold
<1>1. "abs_ref_shift" \in Matches => FreshSol # None
  BY DEF Matches
<1>2. "low_sats" \in Matches => FreshSol # None
  BY DEF Matches
<1>3. "ambiguity" \in Matches => FreshSol # None
  BY DEF Matches
<1>4. "not_fixed" \in Matches => FreshSol # None
  BY DEF Matches
<1>5. "no_solution" \in Matches <=> FreshSol = None
  BY DEF Matches
<1>6. "device_divergence" \in Matches <=> Apart /\ now - DivSince >= Hold
  BY DEF Matches
<1>7. Apart => FreshSol # None
  BY DEF Apart
<1> QED BY <1>1, <1>2, <1>3, <1>4, <1>5, <1>6, <1>7 DEF SolutionCodes

\* A code about a solution is diagnosed only when there is a fresh one.
LEMMA SolutionSeen == Diagnose \in SolutionCodes => FreshSol # None
<1> SUFFICES ASSUME Diagnose \in SolutionCodes, FreshSol = None PROVE FALSE
  OBVIOUS
<1>1. Diagnose = "rtk_fixed"
  BY FirstMatch, MatchFacts
<1>2. PICK j \in 1 .. 10 : Diagnose = Chain[j]
  <2>1. Chain[10] = "no_solution"
    BY DEF Chain
  <2> QED BY <2>1, FirstMatch, MatchFacts
<1>3. \A k \in 1 .. 10 : Chain[k] # "rtk_fixed"
  BY DEF Chain
<1> QED BY <1>1, <1>2, <1>3

\* The codes after device_divergence are diagnosed only when it does not match.
LEMMA DivergenceFirst ==
  Diagnose \in {"no_solution", "not_fixed", "rtk_fixed"} =>
    ~(Apart /\ now - DivSince >= Hold)
<1> SUFFICES ASSUME Diagnose \in {"no_solution", "not_fixed", "rtk_fixed"},
                    "device_divergence" \in Matches
             PROVE  FALSE
  BY MatchFacts
<1>1. PICK j \in 1 .. 9 : Diagnose = Chain[j]
  <2>1. Chain[9] = "device_divergence"
    BY DEF Chain
  <2> QED BY <2>1, FirstMatch
<1>2. \A k \in 1 .. 9 : Chain[k] \notin {"no_solution", "not_fixed", "rtk_fixed"}
  BY DEF Chain
<1> QED BY <1>1, <1>2

-----------------------------------------------------------------------------
(* Types.                                                                  *)

\* What the tick does with the slips is of their type.
LEMMA SlipTypes ==
  /\ NoSlips \in Slips
  /\ hits \in Slips => Recent \in Slips
  BY BoundAssumption DEF NoSlips, Slips, Recent

\* Every behaviour starts in the types ...
LEMMA InitTypes == Init => TypeOK
<1> SUFFICES ASSUME Init PROVE TypeOK
  OBVIOUS
<1>1. now = 0 /\ lastTick = 0 /\ lastTogether = 0 /\ restarts = 0 /\ MaxTime \in Nat
  BY BoundAssumption DEF Init
<1>2. hits \in Slips
  BY SlipTypes DEF Init
<1>3. shifted \in BOOLEAN /\ badSats \in BOOLEAN
  BY DEF Init
<1>4. /\ corrLast = None /\ sol = None /\ solT = None /\ can = None /\ canSec = None
      /\ divSince = None /\ code = None /\ lastSol = None /\ lastLate = None
  BY DEF Init
<1> QED BY <1>1, <1>2, <1>3, <1>4 DEF TypeOK, Time

\* ... and every action keeps them.
LEMMA StepTypes == TypeOK /\ [Next]_vars => TypeOK'
<1> SUFFICES ASSUME TypeOK, [Next]_vars PROVE TypeOK'
  OBVIOUS
<1>0. /\ now \in Nat /\ None \notin Nat /\ None \notin Sol /\ MaxTime \in Nat
      /\ MaxHits \in Nat /\ now \in 0 .. MaxTime
  BY NoneAssumption, BoundAssumption DEF TypeOK
<1>1. ASSUME NEW s \in Shifts, Corrections(s) PROVE TypeOK'
  <2>1. s \in BOOLEAN
    BY DataAssumption
  <2> QED BY <1>0, <1>1, <2>1 DEF TypeOK, Time, Corrections, past
<1>2. ASSUME NEW s \in Sols, Solution(s) PROVE TypeOK'
  <2>1. s \in Sol
    BY DataAssumption
  <2> QED BY <1>0, <1>2, <2>1 DEF TypeOK, Time, Solution
<1>3. ASSUME NEW c \in Cans, NEW stored \in BOOLEAN, CanCycle(c, stored) PROVE TypeOK'
  <2>1. c \in Can
    BY DataAssumption
  <2>2. [late |-> c.late, pos |-> c.pos, t |-> now] \in [late : BOOLEAN, pos : Nat, t : Nat]
    BY <1>0, <2>1 DEF Can
  <2> QED BY <1>0, <1>3, <2>2 DEF TypeOK, Time, CanCycle
<1>4. ASSUME NEW b \in SatSets, SatStats(b) PROVE TypeOK'
  <2>1. b \in BOOLEAN
    BY DataAssumption
  <2> QED BY <1>4, <2>1 DEF TypeOK, SatStats, past
<1>5. CASE Slip
  <2>1. hits' \in Slips
    BY <1>0, <1>5 DEF TypeOK, Slip, Slips
  <2> QED BY <1>5, <2>1 DEF TypeOK, Slip, past
<1>6. CASE Tick
  <2>1. DivSince \in Time
    BY <1>0 DEF TypeOK, DivSince, Time
  <2>2. Recent \in Slips
    BY SlipTypes DEF TypeOK
  <2>3. Diagnose \in Range(Chain)
    BY FirstMatch
  <2>4. lastTick' \in 0 .. now' /\ lastTogether' \in Nat
    BY <1>0, <1>6 DEF TypeOK, Tick
  <2> QED BY <1>6, <2>1, <2>2, <2>3, <2>4 DEF TypeOK, Tick
<1>7. CASE Passes
  <2>1. now' \in 0 .. MaxTime /\ lastTick' \in 0 .. now'
    BY <1>0, <1>7 DEF TypeOK, Passes
  <2> QED BY <1>7, <2>1 DEF TypeOK, Passes, mem, past
<1>8. CASE Restart
  <2>1. hits' \in Slips
    BY <1>8, SlipTypes DEF Restart, Forgets
  <2>2. restarts' \in Nat /\ lastTick' \in 0 .. now' /\ lastTogether' \in Nat
    BY <1>0, <1>8 DEF TypeOK, Restart
  <2>3. shifted' \in BOOLEAN /\ badSats' \in BOOLEAN
    BY <1>8 DEF Restart, Forgets
  <2>4. /\ corrLast' = None /\ sol' = None /\ solT' = None /\ canSec' = None
        /\ divSince' = None /\ code' = None
        /\ UNCHANGED <<now, can, lastSol, lastLate>>
    BY <1>8 DEF Restart, Forgets
  <2> QED BY <2>1, <2>2, <2>3, <2>4 DEF TypeOK, Time
<1>9. CASE UNCHANGED vars
  BY <1>9 DEF TypeOK, vars
<1> QED BY <1>1, <1>2, <1>3, <1>4, <1>5, <1>6, <1>7, <1>8, <1>9 DEF Next

-----------------------------------------------------------------------------
(* The verdicts.  The three properties are about the last tick only; what   *)
(* carries them from tick to tick is where the divergence timer stands      *)
(* between the last tick that was not apart and the clock.                  *)

TimerInv ==
  /\ lastTogether <= lastTick
  /\ now <= lastTick + MaxGap
  /\ divSince # None => lastTogether < divSince /\ divSince <= lastTogether + MaxGap
  /\ divSince = None => lastTogether = lastTick

SolInv ==
  /\ solT # None => lastSol # None /\ solT <= lastSol
  /\ lastSol # None => lastSol <= now

VerdictInv == NoStaleFix /\ DivergenceHeld /\ DivergenceNoticed

Inv == TypeOK /\ TimerInv /\ SolInv /\ VerdictInv

\* Every behaviour starts in the invariant.
LEMMA InitInv == Init => Inv
  BY InitTypes, NoneAssumption, TimeAssumption
     DEF Init, Inv, TimerInv, SolInv, VerdictInv, NoStaleFix, DivergenceHeld,
         DivergenceNoticed, SolutionCodes, TypeOK, Range, Chain

\* A tick moves the timer and gives the verdict.
LEMMA TickInv ==
  ASSUME Inv, Tick
  PROVE  TimerInv' /\ SolInv' /\ VerdictInv'
<1>0. /\ now \in Nat /\ lastTick \in Nat /\ lastTick < now /\ lastTogether \in Nat
      /\ divSince \in Time /\ solT \in Time /\ lastSol \in Time
      /\ MaxGap \in Nat \ {0} /\ Hold \in Nat /\ None \notin Int
  BY NoneAssumption, TimeAssumption DEF Inv, TypeOK, Tick
<1>1. /\ lastTick' = now /\ now' = now /\ divSince' = DivSince /\ code' = Diagnose
      /\ lastTogether' = IF Apart THEN lastTogether ELSE now
      /\ UNCHANGED <<solT, lastSol>>
  BY DEF Tick
<1>2. /\ Apart => /\ DivSince \in Nat
                  /\ lastTogether < DivSince /\ DivSince <= lastTogether + MaxGap
      /\ ~Apart => DivSince = None
  BY <1>0 DEF Inv, TimerInv, DivSince, Time
<1>3. TimerInv'
  <2>1. CASE Apart
    <3>1. divSince' # None /\ lastTogether' = lastTogether
      BY <1>0, <1>1, <1>2, <2>1
    <3>2. lastTogether < divSince' /\ divSince' <= lastTogether + MaxGap
      BY <1>1, <1>2, <2>1
    <3>3. lastTogether <= now /\ now <= now + MaxGap
      BY <1>0 DEF Inv, TimerInv
    <3> QED BY <1>1, <3>1, <3>2, <3>3 DEF TimerInv
  <2>2. CASE ~Apart
    BY <1>0, <1>1, <1>2, <2>2 DEF TimerInv
  <2> QED BY <2>1, <2>2
<1>4. SolInv'
  BY <1>1 DEF Inv, SolInv
<1>5. NoStaleFix'
  <2>1. FreshSol # None => solT # None /\ now - solT < SolStale
    BY DEF FreshSol
  <2> QED BY <1>0, <1>1, <2>1, SolutionSeen, TimeAssumption
          DEF NoStaleFix, Inv, SolInv, Time
<1>6. DivergenceHeld'
  BY <1>0, <1>1, <1>2, FirstMatch, MatchFacts DEF DivergenceHeld
<1>7. DivergenceNoticed'
  BY <1>0, <1>1, <1>2, DivergenceFirst DEF DivergenceNoticed
<1> QED BY <1>3, <1>4, <1>5, <1>6, <1>7 DEF VerdictInv

\* The invariant is inductive.
LEMMA StepInv == Inv /\ [Next]_vars => Inv'
<1> SUFFICES ASSUME Inv, [Next]_vars PROVE Inv'
  OBVIOUS
<1>0. TypeOK /\ TypeOK' /\ TimerInv /\ SolInv /\ VerdictInv
  BY StepTypes DEF Inv
<1>a. ASSUME UNCHANGED <<now, lastTick, solT, divSince, code, lastSol, lastTogether>>
      PROVE  Inv'
  BY <1>0, <1>a DEF Inv, TimerInv, SolInv, VerdictInv, NoStaleFix,
                    DivergenceHeld, DivergenceNoticed
<1>1. CASE \E s \in Sols : Solution(s)
  <2>1. /\ solT' = now /\ lastSol' = now
        /\ UNCHANGED <<now, lastTick, divSince, code, lastTogether>>
    BY <1>1 DEF Solution
  <2>2. now \in Nat /\ lastTick \in Nat /\ lastSol \in Time /\ SolStale \in Nat
    BY <1>0, TimeAssumption DEF TypeOK
  <2>3. SolInv' /\ TimerInv' /\ DivergenceHeld' /\ DivergenceNoticed'
    BY <1>0, <2>1, <2>2, NoneAssumption
       DEF SolInv, TimerInv, VerdictInv, DivergenceHeld, DivergenceNoticed
  <2>4. NoStaleFix'
    BY <1>0, <2>1, <2>2, NoneAssumption DEF VerdictInv, NoStaleFix, SolInv, Time
  <2> QED BY <1>0, <2>3, <2>4 DEF Inv, VerdictInv
<1>2. CASE Tick
  BY <1>0, <1>2, TickInv DEF Inv
<1>3. CASE Passes
  <2>1. /\ now' = now + 1 /\ now < lastTick + MaxGap
        /\ UNCHANGED <<lastTick, solT, divSince, code, lastSol, lastTogether>>
    BY <1>3 DEF Passes, mem, past
  <2>2. now \in Nat /\ lastTick \in Nat /\ MaxGap \in Nat /\ lastSol \in Time
    BY <1>0, TimeAssumption DEF TypeOK
  <2> QED BY <1>0, <2>1, <2>2
          DEF Inv, TimerInv, SolInv, VerdictInv, NoStaleFix, DivergenceHeld,
              DivergenceNoticed, Time
<1>4. CASE Restart
  <2>1. /\ lastTick' = now /\ lastTogether' = now /\ now' = now /\ code' = None
        /\ solT' = None /\ divSince' = None /\ lastSol' = lastSol
    BY <1>4 DEF Restart, Forgets
  <2>2. VerdictInv'
    BY <2>1, NoneAssumption DEF VerdictInv, NoStaleFix, DivergenceHeld,
       DivergenceNoticed, SolutionCodes, Range, Chain
  <2> QED BY <1>0, <2>1, <2>2, TimeAssumption DEF Inv, TimerInv, SolInv, TypeOK
<1>5. CASE \/ \E s \in Shifts : Corrections(s)
           \/ \E c \in Cans, stored \in BOOLEAN : CanCycle(c, stored)
           \/ \E b \in SatSets : SatStats(b)
           \/ Slip \/ UNCHANGED vars
  BY <1>a, <1>5 DEF Corrections, CanCycle, SatStats, Slip, past, vars
<1> QED BY <1>1, <1>2, <1>3, <1>4, <1>5 DEF Next

\* _diagnosis_tick gives no verdict about a solution that is no longer fresh,
\* and blames the 610 after more than Hold of divergence at every tick, but not
\* later than the longest gap between ticks adds.
THEOREM Held ==
  Spec => []NoStaleFix /\ []DivergenceHeld /\ []DivergenceNoticed
<1>1. Spec => []Inv
  BY InitInv, StepInv, PTL DEF Spec
<1>2. Inv => NoStaleFix /\ DivergenceHeld /\ DivergenceNoticed
  BY DEF Inv, VerdictInv
<1> QED BY <1>1, <1>2, PTL

\* No verdict about a solution outlives it, for every age limit and however the
\* solver's output freezes.
THEOREM FixesAreFresh == Spec => []NoStaleFix
  BY Held, PTL

\* A 610 that is apart does not pass for a good fix longer than Hold and the
\* longest gap between two ticks.
THEOREM DivergenceIsNoticed == Spec => []DivergenceNoticed
  BY Held, PTL

\* The state of the tick, and of what the streams leave for it, has its types
\* (main.py, App.__init__).
THEOREM TypeCorrect == Spec => []TypeOK
  BY InitTypes, StepTypes, PTL DEF Spec

-----------------------------------------------------------------------------
(* The evidence for an outage of the corrections link.                     *)

\* A late datum that is held is on the record of late data: what is fresh when
\* the tick reads it has arrived as recently.
EvidenceInv ==
  /\ sol # None /\ sol.late => lastLate # None /\ solT <= lastLate
  /\ can # None /\ can.late => lastLate # None /\ can.t <= lastLate
  /\ lastLate # None => lastLate <= now

\* The record grows with the late data that arrives, and time does not go back.
LEMMA EvidenceStep == TypeOK /\ EvidenceInv /\ [Next]_vars => EvidenceInv'
<1> SUFFICES ASSUME TypeOK, EvidenceInv, [Next]_vars PROVE EvidenceInv'
  OBVIOUS
<1>0. /\ now \in Nat /\ None \notin Nat /\ None \notin Sol
      /\ None \notin [late : BOOLEAN, pos : Nat, t : Nat]
      /\ solT \in Time /\ lastLate \in Time /\ (sol = None <=> solT = None)
      /\ can # None => can.t \in Nat
  BY NoneAssumption DEF TypeOK
<1>1. ASSUME NEW s \in Sols, Solution(s) PROVE EvidenceInv'
  <2>1. /\ sol' = s /\ solT' = now /\ UNCHANGED <<now, can>>
        /\ lastLate' = IF s.late THEN now ELSE lastLate
    BY <1>1 DEF Solution
  <2> QED BY <1>0, <2>1 DEF EvidenceInv, Time
<1>2. ASSUME NEW c \in Cans, NEW stored \in BOOLEAN, CanCycle(c, stored) PROVE EvidenceInv'
  <2>1. /\ UNCHANGED <<now, sol, solT>>
        /\ can' = IF stored THEN [late |-> c.late, pos |-> c.pos, t |-> now] ELSE can
        /\ lastLate' = IF stored /\ c.late THEN now ELSE lastLate
    BY <1>2 DEF CanCycle
  <2> QED BY <1>0, <2>1 DEF EvidenceInv, Time
<1>3. CASE Passes
  <2>1. now' = now + 1 /\ UNCHANGED <<sol, solT, can, lastLate>>
    BY <1>3 DEF Passes, mem, past
  <2> QED BY <1>0, <2>1 DEF EvidenceInv, Time
<1>4. CASE Restart
  BY <1>0, <1>4 DEF Restart, Forgets, EvidenceInv
<1>5. CASE \/ \E s \in Shifts : Corrections(s)
           \/ \E b \in SatSets : SatStats(b)
           \/ Slip \/ Tick \/ UNCHANGED vars
  <2>1. UNCHANGED <<now, sol, solT, can, lastLate>>
    BY <1>5 DEF Corrections, SatStats, Slip, Tick, past, vars
  <2> QED BY <2>1 DEF EvidenceInv
<1> QED BY <1>1, <1>2, <1>3, <1>4, <1>5 DEF Next

\* An outage is diagnosed on a gap in the corrections or on a late datum that
\* has arrived within SolStale.
LEMMA OutageSeen ==
  ASSUME TypeOK, EvidenceInv, Diagnose = "corr_outage"
  PROVE  \/ corrLast # None /\ now - corrLast > CorrGap
         \/ lastLate # None /\ now - lastLate <= SolStale
<1>0. /\ now \in Nat /\ None \notin Nat /\ SolStale \in Nat
      /\ solT \in Time /\ lastLate \in Time
      /\ can # None => can.t \in Nat
  BY NoneAssumption, TimeAssumption DEF TypeOK
<1>1. "corr_outage" \in Matches
  BY FirstMatch
<1>2. (corrLast # None /\ now - corrLast > CorrGap) \/ AgeLate
  BY <1>1 DEF Matches
<1>3. CASE FreshSol # None /\ FreshSol.late
  <2>1. FreshSol = sol /\ solT # None /\ now - solT < SolStale
    BY <1>3 DEF FreshSol
  <2>2. lastLate # None /\ solT <= lastLate
    BY <1>3, <2>1 DEF EvidenceInv
  <2> QED BY <1>0, <2>1, <2>2 DEF Time
<1>4. CASE FreshCan # None /\ FreshCan.late
  <2>1. FreshCan = can /\ can # None /\ now - can.t <= SolStale
    BY <1>4 DEF FreshCan
  <2>2. lastLate # None /\ can.t <= lastLate
    BY <1>4, <2>1 DEF EvidenceInv
  <2> QED BY <1>0, <2>1, <2>2 DEF Time
<1> QED BY <1>2, <1>3, <1>4 DEF AgeLate

\* _diagnosis_tick blames the corrections link only on evidence that is not
\* stale, for every age limit, however long the CAN feed has been dead and
\* whatever restarts came between.
THEOREM OutageOnEvidence == Spec => OutageEvidence
<1>1. Init => EvidenceInv
  BY NoneAssumption DEF Init, EvidenceInv
<1>2. TypeOK /\ EvidenceInv /\ [Next]_vars =>
        [Tick /\ code' = "corr_outage" =>
           \/ corrLast # None /\ now - corrLast > CorrGap
           \/ lastLate # None /\ now - lastLate <= SolStale]_vars
  <2>1. Tick => code' = Diagnose
    BY DEF Tick
  <2> QED BY <2>1, OutageSeen
<1> QED BY <1>1, <1>2, EvidenceStep, TypeCorrect, PTL DEF Spec, OutageEvidence

=============================================================================
