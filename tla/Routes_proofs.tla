---------------------------- MODULE Routes_proofs ----------------------------
(***************************************************************************)
(* The theorems about the routes, for all values of the constants.  Each   *)
(* route has its invariant, and a step of the App is a step of one route   *)
(* while the others rest.                                                  *)
(***************************************************************************)
EXTENDS Routes, Links_proofs, Stores_proofs

Inv == /\ TcpInv /\ TcpPaceInv /\ CanInv /\ CanTypeOK /\ SolInv /\ SolPaceInv
       /\ CycInv /\ ResInv /\ LogInv /\ RetInv /\ BaseInv /\ FrmInv /\ StatInv
       /\ RepInv /\ LogRanges

\* Every route starts in its own initial states.
LEMMA InitInv == Init => Inv
  BY TcpInitInv, TcpPaceInit, CanInitInv, CanInitTypes, SolInitInv, SolPaceInit, CycInitInv,
     ResInitInv, LogInitInv, RetInitInv, BaseInitInv, FrmInitInv, StatInitInv,
     RepInitInv, LogInitRanges
  DEF Init, Inv

\* A route takes a step of its own or none.
LEMMA StepOrRest ==
  ASSUME [Next]_vars
  PROVE  /\ [TcpNext]_tcpVars /\ [CanNext]_canVars /\ [SolNext]_solVars
         /\ [CycNext]_cycVars /\ [ResNext]_resVars /\ [LogNext]_logVars /\ [RetNext]_retVars
         /\ [BaseNext]_baseVars /\ [FrmNext]_frmVars /\ [StatNext]_statVars
         /\ [RepNext]_repVars
<1>1. CASE Next
  <2>1. OthersRest
    BY <1>1 DEF Next
  <2>2. [TcpNext]_tcpVars
    BY <1>1, <2>1, Zenon DEF Next, OthersRest, Rests
  <2>3. [CanNext]_canVars
    BY <1>1, <2>1, Zenon DEF Next, OthersRest, Rests
  <2>4. [SolNext]_solVars
    BY <1>1, <2>1, Zenon DEF Next, OthersRest, Rests
  <2>5. [ResNext]_resVars
    BY <1>1, <2>1, Zenon DEF Next, OthersRest, Rests
  <2>6. [LogNext]_logVars
    BY <1>1, <2>1, Zenon DEF Next, OthersRest, Rests
  <2>7. [RetNext]_retVars
    BY <1>1, <2>1, Zenon DEF Next, OthersRest, Rests
  <2>8. [CycNext]_cycVars
    BY <1>1, <2>1, Zenon DEF Next, OthersRest, Rests
  <2>9. [BaseNext]_baseVars
    BY <1>1, <2>1, Zenon DEF Next, OthersRest, Rests
  <2>10. [FrmNext]_frmVars
    BY <1>1, <2>1, Zenon DEF Next, OthersRest, Rests
  <2>11. [StatNext]_statVars
    BY <1>1, <2>1, Zenon DEF Next, OthersRest, Rests
  <2>12. [RepNext]_repVars
    BY <1>1, <2>1, Zenon DEF Next, OthersRest, Rests
  <2> QED BY <2>2, <2>3, <2>4, <2>5, <2>6, <2>7, <2>8, <2>9, <2>10, <2>11, <2>12
<1>2. CASE UNCHANGED vars
  BY <1>2 DEF vars
<1> QED BY <1>1, <1>2

\* Every step of the App preserves every route's invariant.
LEMMA StepInv == Inv /\ [Next]_vars => Inv'
  BY StepOrRest, TcpStepInv, TcpPaceStep, CanStepInv, CanStepTypes, SolStepInv, SolPaceStep,
     CycStepInv, ResStepInv, LogStepInv, RetStepInv, BaseStepInv, FrmStepInv, StatStepInv,
     RepStepInv, LogStepRanges
  DEF Inv

\* So they hold for ever.
LEMMA Invariant == Spec => []Inv
  BY InitInv, StepInv, PTL DEF Spec

-----------------------------------------------------------------------------

\* What the TCP, CAN and rtkrcv routes report about their links is true, and
\* reports alternate, in every behaviour of the App.
THEOREM LinksReportHonestly == Spec => []LinkReportsHonest
<1>1. Inv => LinkReportsHonest
  BY CanInvHonest DEF Inv, TcpInv, SolInv, LinkReportsHonest
<1> QED BY <1>1, Invariant, PTL

\* Retries wait twice as long each time up to their limit, and start over after a
\* connection or a long life, for every first wait and every limit.
THEOREM RetriesKeepPace == Spec => []RetriesPaced
<1>1. Inv => RetriesPaced
  BY DEF Inv, TcpPaceInv, SolPaceInv, RetriesPaced
<1> QED BY <1>1, Invariant, PTL

\* The CAN cycles that come out are whole, one epoch a second is tried, and
\* positions flow, for any number of frames to a cycle and any losses.
THEOREM CyclesAreWhole == Spec => []CyclesWhole
<1>1. Inv => CyclesWhole
  BY CycInvWhole DEF Inv, CyclesWhole
<1> QED BY <1>1, Invariant, PTL

\* The baseline is the one stored, the one most of the warm-up gave, and after a
\* reset the position fed last, for any positions, warm-up and retention.
THEOREM BaselineIsHonest == Spec => []BaselineHonest
<1>1. Inv => BaselineHonest
  BY DEF Inv, BaseInv
<1> QED BY <1>1, Invariant, PTL

\* However a wire is cut, what comes out is what was sent, once and in order, for
\* any wire, any chunks, any longest frame and any limit of a line.  Frames too
\* short to carry a message type are left out: feed raises on one and the buffer
\* behind it is stuck, as MCFraming_short shows.
THEOREM FramesComeAsSent ==
  ASSUME NoShortMessages
  PROVE  Spec => []FramesAsSent
<1>1. Inv => FramesAsSent
  <2>1. FrmInv => MessagesCome /\ RtcmAsSent
    BY FrmInvRtcm
  <2> QED BY <2>1, FrmInvLines DEF Inv, FramesAsSent
<1> QED BY <1>1, Invariant, PTL

\* The sky shown is one epoch of the solver's status, and a slip counts at most
\* once and not before it happened, for any lines the solver writes, any polls, and
\* any restarts of the solver and of the monitor.
THEOREM StatusCountsOnce == Spec => []StatOnce
<1>1. Inv => StatOnce
  BY StatInvOnce DEF Inv, StatOnce
<1> QED BY <1>1, Invariant, PTL

\* A client of the fan-out that is served has the whole stream since it came, and
\* none makes the monitor hold more than the limit and a chunk, for any number of
\* clients.
THEOREM FanOutIsWhole == Spec => []FanOutWhole
<1>1. Inv => FanOutWhole
  BY DEF Inv, ResInv
<1> QED BY <1>1, Invariant, PTL

\* The index of a raw log points at what is on disk, through any number of full
\* disks, crashes and restarts.
THEOREM IndexIsTrue == Spec => []IndexTrue
<1>1. Inv => IndexTrue
  BY LogInvTrue DEF Inv
<1> QED BY <1>1, Invariant, PTL

\* A replay sends what a sort of the whole stream would have sent, message for
\* message, for any tables whose rows of one source have times of their own, any
\* window and any look-back.
THEOREM ReplayMergesAll == Spec => []ReplayMerges
<1>1. Inv => ReplayMerges
  BY RepInvMerges DEF Inv
<1> QED BY <1>1, Invariant, PTL

\* A round of the cleanup deletes the oldest days, none of today, and no more than
\* it has to; no row goes that is open or that the clock was never db_retention_days
\* past, and what the last whole round found past it is gone, unless it was open: for
\* any number of days, retention, rows and rounds that raise, and any clock.
THEOREM RetentionIsKept == Spec => []RetentionKept
<1>1. Inv => RetentionKept
  BY DEF Inv, RetInv
<1> QED BY <1>1, Invariant, PTL

\* The invariants of the routes hold the types of all their variables.
LEMMA InvTyped == Inv => TypeOK
<1> SUFFICES ASSUME Inv PROVE TypeOK
  OBVIOUS
<1>1. TcpTypeOK /\ CanTypeOK /\ SolTypeOK
  BY DEF Inv, TcpPaceInv, SolPaceInv
<1>2. FrmTypeOK
  BY DEF Inv, FrmInv
<1>3. CycTypeOK
  BY DEF Inv, CycInv
<1>4. StatTypeOK
  BY DEF Inv, StatInv
<1>5. RepTypeOK
  BY RepInvTyped DEF Inv
<1>6. BaseTypeOK
  BY DEF Inv, BaseInv
<1>7. ResTypeOK
  BY DEF Inv, ResInv
<1>8. LogTypeOK
  BY LogTyped DEF Inv
<1>9. RetTypeOK
  BY DEF Inv, RetInv
<1> QED BY <1>1, <1>2, <1>3, <1>4, <1>5, <1>6, <1>7, <1>8, <1>9 DEF TypeOK

\* No variable of a route ever leaves its type, in every behaviour of the App.
THEOREM TypesHold == Spec => []TypeOK
  BY InvTyped, Invariant, PTL

-----------------------------------------------------------------------------
(* The routes together, as run_forever starts them: each takes its own     *)
(* steps, in any interleaving, and none is chosen.                         *)

TogetherInit ==
  /\ TcpInit /\ CanInit /\ SolInit /\ FrmInit /\ CycInit /\ StatInit /\ RepInit
  /\ BaseInit /\ ResInit /\ LogInit /\ RetInit

TogetherNext ==
  /\ [TcpNext]_tcpVars /\ [CanNext]_canVars /\ [SolNext]_solVars /\ [FrmNext]_frmVars
  /\ [CycNext]_cycVars /\ [StatNext]_statVars /\ [RepNext]_repVars /\ [BaseNext]_baseVars
  /\ [ResNext]_resVars /\ [LogNext]_logVars /\ [RetNext]_retVars

Together == TogetherInit /\ [][TogetherNext]_vars

\* A behaviour of one route is a behaviour of the routes together.
THEOREM OneIsTogether == Spec => Together
<1>1. Init => TogetherInit
  BY DEF Init, TogetherInit
<1>2. [Next]_vars => [TogetherNext]_vars
  BY StepOrRest DEF TogetherNext
<1> QED BY <1>1, <1>2, PTL DEF Spec, Together

\* The invariants of the routes hold however their steps are interleaved.
LEMMA TogetherInvariant == Together => []Inv
<1>1. TogetherInit => Inv
  BY TcpInitInv, TcpPaceInit, CanInitInv, CanInitTypes, SolInitInv, SolPaceInit, CycInitInv,
     ResInitInv, LogInitInv, RetInitInv, BaseInitInv, FrmInitInv, StatInitInv,
     RepInitInv, LogInitRanges
  DEF TogetherInit, Inv
<1>2. Inv /\ TogetherNext => Inv'
  BY TcpStepInv, TcpPaceStep, CanStepInv, CanStepTypes, SolStepInv, SolPaceStep,
     CycStepInv, ResStepInv, LogStepInv, RetStepInv, BaseStepInv, FrmStepInv, StatStepInv,
     RepStepInv, LogStepRanges
  DEF TogetherNext, Inv
<1>3. UNCHANGED vars => TogetherNext
  BY DEF TogetherNext, vars
<1> QED BY <1>1, <1>2, <1>3, PTL DEF Together

\* What is proved of one route at a time holds of all of them together: honest
\* reports, paced retries, whole cycles, an honest baseline, a status that counts
\* once, a whole fan-out, a true index, a merged replay, a kept retention, and
\* frames as sent where none is too short for its type.
THEOREM TogetherHolds ==
  Together => [](/\ LinkReportsHonest /\ RetriesPaced /\ CyclesWhole /\ BaselineHonest
                 /\ StatOnce /\ FanOutWhole /\ IndexTrue /\ ReplayMerges /\ RetentionKept
                 /\ TypeOK /\ (NoShortMessages => FramesAsSent))
<1>1. Inv => LinkReportsHonest /\ RetriesPaced
  BY CanInvHonest DEF Inv, TcpInv, SolInv, LinkReportsHonest, TcpPaceInv, SolPaceInv,
                      RetriesPaced
<1>2. Inv => CyclesWhole /\ BaselineHonest /\ StatOnce
  BY CycInvWhole, StatInvOnce DEF Inv, CyclesWhole, BaseInv, StatOnce
<1>3. Inv => FanOutWhole /\ IndexTrue /\ RetentionKept
  BY LogInvTrue DEF Inv, ResInv, RetInv
<1>4. Inv => ReplayMerges /\ TypeOK
  BY RepInvMerges, InvTyped DEF Inv
<1>5. Inv => (NoShortMessages => FramesAsSent)
  BY FrmInvRtcm, FrmInvLines DEF Inv, FramesAsSent
<1> QED BY <1>1, <1>2, <1>3, <1>4, <1>5, TogetherInvariant, PTL
=============================================================================
