---------------------------- MODULE Links_proofs ----------------------------
(***************************************************************************)
(* What the three kinds of link report is true, whatever fails, and they   *)
(* retry at the pace they promise: two inductive invariants for each, for  *)
(* every backoff, threshold, delay and any number of peers, crashes and    *)
(* lives.  What the CAN link delivers comes out as whole cycles, what the  *)
(* others deliver as the frames that were sent, and the solver's status is *)
(* counted once.                                                           *)
(***************************************************************************)
EXTENDS TcpLink, CanLink, Solver, CanCycle, Framing, StatTail, FiniteSetTheorems,
        SequenceTheorems, WellFoundedInduction, TLAPS

\* What Report and TornDown make of a history.
LEMMA ReportFacts ==
  ASSUME NEW told \in Told, NEW state \in LinkState
  PROVE  /\ Report(told, state) \in Told /\ TornDown(told) \in Told
         /\ Report(told, state).last = state /\ Report(told, state).before = told.last
         /\ ~Report(told, state).since
         /\ Report(told, state).between <=> told.since
         /\ TornDown(told).last = told.last /\ TornDown(told).before = told.before
         /\ TornDown(told).since
         /\ TornDown(told).between <=> told.between
  BY DEF Told, Report, TornDown

-----------------------------------------------------------------------------
(* The TCP client.  _last_state is what was reported last, so a report is  *)
(* repeated only where a crash has come between; that is the only way      *)
(* "connected" can outlive the connection.                                 *)

TcpInv ==
  /\ tcpTold \in Told /\ tcpLast = tcpTold.last
  /\ TcpHonest

\* A client starts with nothing reported.
LEMMA TcpInitInv == TcpInit => TcpInv
  BY DEF TcpInit, TcpInv, TcpHonest, NothingTold, Told, LinkState, Repeats

\* The end of a round reports an outage once.
LEMMA GoesDownInv ==
  ASSUME TcpInv, tcpPc \in {"dialing", "reading"}, GoesDown
  PROVE  TcpInv'
<1>1. /\ tcpPc' = "sleeping" /\ tcpLast' = "disconnected"
      /\ tcpTold' = IF tcpLast = "disconnected" THEN tcpTold
                    ELSE Report(tcpTold, "disconnected")
  BY DEF GoesDown
<1>2. "disconnected" \in LinkState
  BY DEF LinkState
<1> QED BY <1>1, <1>2, ReportFacts DEF TcpInv, TcpHonest, Repeats

\* Every step of the client, the server and the listener preserves it.
LEMMA TcpStepInv == TcpInv /\ [TcpNext]_tcpVars => TcpInv'
<1> SUFFICES ASSUME TcpInv, [TcpNext]_tcpVars PROVE TcpInv'
  OBVIOUS
<1>0. "connected" \in LinkState
  BY DEF LinkState
<1>a. ASSUME UNCHANGED <<tcpPc, tcpLast, tcpTold>> PROVE TcpInv'
  BY <1>a DEF TcpInv, TcpHonest
<1>1. CASE TcpConnect
  <2>1. /\ tcpPc' = "reading" /\ tcpLast' = "connected"
        /\ tcpTold \in Told /\ tcpTold' = Report(tcpTold, "connected")
    BY <1>1 DEF TcpConnect, TcpInv
  <2>2. tcpTold.last = "connected" => tcpTold.since
    BY <1>1 DEF TcpConnect, TcpInv, TcpHonest
  <2>3. /\ tcpTold' \in Told /\ tcpTold'.last = "connected"
        /\ Repeats(tcpTold') => tcpTold'.between
    BY <1>0, <2>1, <2>2, ReportFacts DEF Repeats
  <2> QED BY <2>1, <2>3 DEF TcpInv, TcpHonest
<1>2. CASE TcpRefused \/ TcpLost
  BY <1>2, GoesDownInv DEF TcpRefused, TcpLost
<1>3. CASE TcpWake \/ TcpRestart
  BY <1>3 DEF TcpWake, TcpRestart, TcpInv, TcpHonest
<1>4. CASE TcpCrash
  BY <1>0, <1>4, ReportFacts DEF TcpCrash, TcpInv, TcpHonest, Repeats
<1>5. CASE \/ TcpServerTurns \/ LsnRestart \/ LsnCrash \/ LsnCancel
           \/ \E p \in TcpPeers : LsnServe(p) \/ LsnFinish(p) \/ LsnAccept(p)
           \/ UNCHANGED tcpVars
  BY <1>a, <1>5 DEF TcpServerTurns, LsnRestart, LsnCrash, LsnCancel, LsnServe,
     LsnFinish, LsnAccept, tcpClient, tcpVars
<1> QED BY <1>1, <1>2, <1>3, <1>4, <1>5 DEF TcpNext, TcpRun, LsnRun

-----------------------------------------------------------------------------
(* The CAN link.  _was_down is whether the last word was "disconnected";   *)
(* a count that starts over while the link is down says why: a new bus or  *)
(* a crash.                                                                *)

CanInv ==
  /\ canTold \in Told /\ canTimeouts \in Nat
  /\ canDown => canTold.last = "disconnected"
  /\ ~canDown => canTold.last = IF canSeen THEN "connected" ELSE "none"
  /\ canTimeouts > 0 => canDown
  /\ canPc = "resting" => canTold.since
  /\ canTold.last = "disconnected" /\ canTimeouts = 0 => canTold.since
  /\ canFlow => ~canDown /\ canSeen
  /\ Repeats(canTold) => canTold.last = "disconnected" /\ canTold.between

\* The collector starts with nothing seen and nothing reported.
LEMMA CanInitInv == CanInit => CanInv
  BY DEF CanInit, CanInv, NothingTold, Told, LinkState, Repeats

\* A timeout leaves the link down, and says so unless it has been said.
LEMMA SilenceInv ==
  ASSUME CanInv, canPc = "reading"
  PROVE  /\ Silence(canTold) \in Told
         /\ Silence(canTold).last = "disconnected"
         /\ Repeats(Silence(canTold)) => Silence(canTold).between
<1>1. "disconnected" \in LinkState
  BY DEF LinkState
<1>2. CASE canTimeouts = 0
  <2>1. Silence(canTold) = Report(canTold, "disconnected") /\ canTold \in Told
    BY <1>2 DEF Silence, CanInv
  <2>2. canTold.last = "disconnected" => canTold.since
    BY <1>2 DEF CanInv
  <2> QED BY <1>1, <2>1, <2>2, ReportFacts DEF Repeats
<1>3. CASE canTimeouts # 0
  BY <1>3 DEF CanInv, Silence, Repeats
<1> QED BY <1>2, <1>3

\* Every step of the collector, the supervisor and the bus preserves it.
LEMMA CanStepInv == CanInv /\ [CanNext]_canVars => CanInv'
<1> SUFFICES ASSUME CanInv, [CanNext]_canVars PROVE CanInv'
  OBVIOUS
<1>0. "connected" \in LinkState /\ CanReopenAfter \in Nat
  BY CanAssumption DEF LinkState
<1>1. CASE CanFrame
  <2>1. CASE canDown \/ ~canSeen
    <3>1. /\ canTold \in Told /\ canTold.last # "connected"
          /\ canTold' = Report(canTold, "connected")
      BY <1>1, <2>1 DEF CanFrame, CanInv
    <3>2. canTold' \in Told /\ canTold'.last = "connected" /\ ~Repeats(canTold')
      BY <1>0, <3>1, ReportFacts DEF Repeats
    <3>3. canTimeouts' = 0 /\ canPc' = "reading" /\ canSeen' /\ ~canDown'
      BY <1>1, <2>1 DEF CanFrame
    <3> QED BY <3>2, <3>3 DEF CanInv
  <2>2. CASE ~canDown /\ canSeen
    BY <1>1, <2>2 DEF CanFrame, CanInv
  <2> QED BY <2>1, <2>2
<1>2. CASE CanTimeout \/ CanReopens \/ CanReopenFails
  <2>0. /\ canPc = "reading" /\ canPc' = "reading" /\ ~canFlow'
    BY <1>2 DEF CanTimeout, CanReopens, CanReopenFails
  <2>1. canDown'
    <3>1. canDown \/ canTimeouts = 0
      BY DEF CanInv
    <3>2. canDown' = (canDown \/ canTimeouts = 0)
      BY <1>2, Zenon DEF CanTimeout, CanReopens, CanReopenFails
    <3> QED BY <3>1, <3>2, Zenon
  <2>2. CASE CanTimeout
    BY <2>0, <2>1, <2>2, SilenceInv DEF CanTimeout, CanInv
  <2>3. CASE CanReopens
    <3>1. TornDown(Silence(canTold)) \in Told
      BY <2>0, SilenceInv, ReportFacts, <1>0
    <3>2. /\ canTold'.last = "disconnected" /\ canTold'.since
          /\ Repeats(canTold') => canTold'.between
      BY <2>0, <2>3, SilenceInv, ReportFacts, <1>0 DEF CanReopens, Repeats
    <3> QED BY <2>0, <2>1, <2>3, <3>1, <3>2 DEF CanReopens, CanInv
  <2>4. CASE CanReopenFails
    <3>1. canTimeouts' \in Nat /\ canTimeouts' # 0
      BY <2>4, CanAssumption DEF CanReopenFails
    <3> QED BY <2>0, <2>1, <2>4, <3>1, SilenceInv DEF CanReopenFails, CanInv
  <2> QED BY <1>2, <2>2, <2>3, <2>4
<1>3. CASE CanCrash
  BY <1>0, <1>3, ReportFacts DEF CanCrash, CanInv, Repeats
<1>4. CASE CanRestart
  BY <1>4 DEF CanRestart, CanInv
<1>5. CASE CanWorldTurns \/ UNCHANGED canVars
  BY <1>5 DEF CanWorldTurns, CanInv, canVars
<1> QED BY <1>1, <1>2, <1>3, <1>4, <1>5 DEF CanNext, CanRun

\* The invariant says what was promised.
LEMMA CanInvHonest == CanInv => CanHonest
  BY DEF CanInv, CanHonest

-----------------------------------------------------------------------------
(* The solver.  _last_state is what was reported last, and _emit reports   *)
(* only what differs from it.                                              *)

SolInv ==
  /\ solTold \in Told /\ solLast = solTold.last
  /\ SolHonest

\* A manager starts with nothing reported.
LEMMA SolInitInv == SolInit => SolInv
  BY DEF SolInit, SolInv, SolHonest, NothingTold, Told, LinkState, Repeats

\* _emit leaves the state as the last word, without a repetition.
LEMMA EmitInv ==
  ASSUME SolInv, NEW state \in {"connected", "disconnected"}, Emit(state)
  PROVE  /\ solTold' \in Told /\ solLast' = state /\ solTold'.last = state
         /\ ~Repeats(solTold')
<1>1. state \in LinkState
  BY DEF LinkState
<1> QED BY <1>1, ReportFacts DEF Emit, SolInv, SolHonest, Repeats

\* Every step of the manager, of the App's end and of the process preserves it.
LEMMA SolStepInv == SolInv /\ [SolNext]_solVars => SolInv'
<1> SUFFICES ASSUME SolInv, [SolNext]_solVars PROVE SolInv'
  OBVIOUS
<1>1. CASE SolSpawns
  BY <1>1, EmitInv DEF SolSpawns, SolInv, SolHonest
<1>2. CASE SolSpawnFails \/ SolReaps
  BY <1>2, EmitInv DEF SolSpawnFails, SolReaps, SolInv, SolHonest
<1>3. CASE SolCrash
  <2>1. "none" \in LinkState
    BY DEF LinkState
  <2> QED BY <1>3, <2>1, ReportFacts DEF SolCrash, SolInv, SolHonest, Repeats
<1>4. CASE \/ SolStart \/ SolWake \/ SolRestart \/ SolCancelled \/ SolKills \/ SolReleased
  BY <1>4 DEF SolStart, SolWake, SolRestart, SolCancelled, SolKills, SolReleased, SolInv,
     SolHonest
<1>5. CASE AppCancel \/ AppRun \/ SolExits \/ SolDies \/ SolWorldTurns \/ UNCHANGED solVars
  BY <1>5 DEF AppCancel, AppRun, AppTaskEnds, AppUnwinds, AppTearsDown, AppStops, SolExits,
     SolDies, SolWorldTurns, solVars, SolInv, SolHonest
<1> QED BY <1>1, <1>2, <1>3, <1>4, <1>5 DEF SolNext, SolRun

-----------------------------------------------------------------------------
(* How retries are paced.  The counts of waits double a first delay.        *)

\* A set of numbers that has any has a least one.
LEMMA LeastOf ==
  ASSUME NEW S \in SUBSET Nat, S # {}
  PROVE  \E m \in S : \A k \in S : m <= k
<1> DEFINE R == OpToRel(<, Nat)
<1>1. IsWellFoundedOn(R, Nat)
  BY NatLessThanWellFounded
<1>2. \A k, m \in Nat : k < m => <<k, m>> \in R
  BY DEF OpToRel
<1> HIDE DEF R
<1>3. PICK m \in S : \A k \in S : ~(<<k, m>> \in R)
  BY <1>1, WFMin
<1>4. \A k \in S : ~(k < m)
  BY <1>2, <1>3
<1> QED BY <1>4

\* A function that doubles its first value at every step exists: there is one up to
\* every length, they agree with each other, and so their last values are one
\* function.
LEMMA DoublingExists ==
  ASSUME NEW b \in Nat
  PROVE  \E D : D = [n \in Nat |-> IF n = 0 THEN b ELSE 2 * D[n - 1]]
<1> DEFINE Upto(n, f) == /\ f \in [0 .. n -> Nat] /\ f[0] = b
                         /\ \A k \in 1 .. n : f[k] = 2 * f[k - 1]
<1>1. \A n \in Nat : \E f : Upto(n, f)
  <2> DEFINE Bad == {n \in Nat : ~ \E f : Upto(n, f)}
  <2> SUFFICES ASSUME Bad # {} PROVE FALSE
    OBVIOUS
  <2>1. PICK m \in Bad : \A k \in Bad : m <= k
    <3> HIDE DEF Bad
    <3>1. Bad \in SUBSET Nat
      BY DEF Bad
    <3> QED BY <3>1, LeastOf
  <2>2. m # 0
    <3>1. Upto(0, [k \in 0 .. 0 |-> b])
      OBVIOUS
    <3> QED BY <3>1
  <2>3. PICK f : Upto(m - 1, f)
    <3>1. m - 1 \in Nat /\ ~(m <= m - 1)
      BY <2>2
    <3> QED BY <2>1, <3>1
  <2> DEFINE g == [k \in 0 .. m |-> IF k = m THEN 2 * f[m - 1] ELSE f[k]]
  <2>4. Upto(m, g)
    <3>1. m \in Nat /\ m > 0 /\ m - 1 \in 0 .. m - 1
      BY <2>2
    <3>2. \A k \in 0 .. m : g[k] = IF k = m THEN 2 * f[m - 1] ELSE f[k]
      OBVIOUS
    <3>3. g \in [0 .. m -> Nat]
      BY <2>3, <3>1
    <3> HIDE DEF g
    <3>4. g[0] = b
      BY <2>3, <3>1, <3>2
    <3>5. ASSUME NEW k \in 1 .. m PROVE g[k] = 2 * g[k - 1]
      <4>1. k - 1 \in 0 .. m /\ k - 1 # m
        BY <3>1
      <4>2. g[k - 1] = f[k - 1]
        BY <3>2, <4>1
      <4>3. CASE k = m
        BY <3>2, <4>2, <4>3
      <4>4. CASE k # m
        <5>1. k \in 1 .. m - 1
          BY <3>1, <4>4
        <5> QED BY <2>3, <3>2, <4>2, <4>4, <5>1
      <4> QED BY <4>3, <4>4
    <3> QED BY <3>3, <3>4, <3>5
  <2> QED BY <2>4
<1>2. ASSUME NEW n \in Nat, NEW m \in Nat, NEW f, NEW g, Upto(n, f), Upto(m, g),
             NEW i \in Nat, i <= n, i <= m
      PROVE  f[i] = g[i]
  <2> DEFINE Bad == {k \in Nat : k <= n /\ k <= m /\ f[k] # g[k]}
  <2> SUFFICES ASSUME Bad # {} PROVE FALSE
    BY <1>2
  <2>1. PICK k \in Bad : \A j \in Bad : k <= j
    <3> HIDE DEF Bad
    <3>1. Bad \in SUBSET Nat
      BY DEF Bad
    <3> QED BY <3>1, LeastOf
  <2>2. k \in 1 .. n /\ k \in 1 .. m
    BY <1>2
  <2>3. f[k - 1] = g[k - 1]
    <3>1. k - 1 \in Nat /\ ~(k <= k - 1) /\ k - 1 <= n /\ k - 1 <= m
      BY <2>2
    <3> QED BY <2>1, <3>1
  <2> QED BY <1>2, <2>2, <2>3
<1> DEFINE F(n) == CHOOSE f : Upto(n, f)
           D == [n \in Nat |-> F(n)[n]]
<1>3. \A n \in Nat : Upto(n, F(n))
  BY <1>1
<1> HIDE DEF F
<1>4. \A n \in Nat : D[n] \in Nat /\ D[n] = IF n = 0 THEN b ELSE 2 * D[n - 1]
  <2> SUFFICES ASSUME NEW n \in Nat
               PROVE  D[n] \in Nat /\ D[n] = IF n = 0 THEN b ELSE 2 * D[n - 1]
    OBVIOUS
  <2>1. F(n)[n] \in Nat
    BY <1>3
  <2>2. CASE n = 0
    BY <1>3, <2>1, <2>2
  <2>3. CASE n # 0
    <3>1. n - 1 \in Nat /\ n - 1 <= n /\ n - 1 <= n - 1 /\ n \in 1 .. n
      BY <2>3
    <3>2. F(n)[n] = 2 * F(n)[n - 1]
      BY <1>3, <3>1
    <3>3. F(n)[n - 1] = F(n - 1)[n - 1]
      <4>1. Upto(n, F(n)) /\ Upto(n - 1, F(n - 1))
        BY <1>3, <3>1
      <4> HIDE DEF Upto
      <4> QED BY <1>2, <3>1, <4>1
    <3> QED BY <2>1, <2>3, <3>1, <3>2, <3>3
  <2> QED BY <2>2, <2>3
<1>5. D \in [Nat -> Nat]
  BY <1>4
<1> HIDE DEF D
<1>6. D = [n \in Nat |-> IF n = 0 THEN b ELSE 2 * D[n - 1]]
  BY <1>4, <1>5
<1> QED BY <1>5, <1>6

\* What such a function returns.
LEMMA DoublingFacts ==
  ASSUME NEW b \in Nat, NEW D, D = [n \in Nat |-> IF n = 0 THEN b ELSE 2 * D[n - 1]]
  PROVE  /\ D[0] = b
         /\ \A n \in Nat : D[n] \in Nat /\ D[n + 1] = 2 * D[n]
<1>1. D[0] = b
  OBVIOUS
<1>2. \A n \in Nat : n # 0 => D[n] = 2 * D[n - 1]
  OBVIOUS
<1>3. \A n \in Nat : D[n + 1] = 2 * D[n]
  <2> SUFFICES ASSUME NEW n \in Nat PROVE D[n + 1] = 2 * D[n]
    OBVIOUS
  <2>1. n + 1 \in Nat /\ n + 1 # 0 /\ (n + 1) - 1 = n
    OBVIOUS
  <2> QED BY <1>2, <2>1
<1>4. \A n \in Nat : D[n] \in Nat
  <2> DEFINE Bad == {n \in Nat : D[n] \notin Nat}
  <2> SUFFICES ASSUME Bad # {} PROVE FALSE
    OBVIOUS
  <2>1. PICK m \in Bad : \A k \in Bad : m <= k
    <3> HIDE DEF Bad
    <3>1. Bad \in SUBSET Nat
      BY DEF Bad
    <3> QED BY <3>1, LeastOf
  <2>2. m # 0
    BY <1>1
  <2>3. m - 1 \in Nat /\ ~(m <= m - 1)
    BY <2>2
  <2>4. D[m - 1] \in Nat
    BY <2>1, <2>3
  <2> QED BY <1>2, <2>2, <2>4
<1> QED BY <1>1, <1>3, <1>4

\* The waits of the TCP client ...
LEMMA DoubledFacts ==
  /\ Doubled[0] = TcpInitial
  /\ \A n \in Nat : Doubled[n] \in Nat /\ Doubled[n + 1] = 2 * Doubled[n]
<1>1. TcpInitial \in Nat
  BY TcpAssumption
<1>2. Doubled = [n \in Nat |-> IF n = 0 THEN TcpInitial ELSE 2 * Doubled[n - 1]]
  BY <1>1, DoublingExists DEF Doubled
<1> HIDE DEF Doubled
<1> QED BY <1>1, <1>2, DoublingFacts

\* ... and the delays of the solver's manager are such functions.
LEMMA RedoubledFacts ==
  /\ Redoubled[0] = SolBase
  /\ \A n \in Nat : Redoubled[n] \in Nat /\ Redoubled[n + 1] = 2 * Redoubled[n]
<1>1. SolBase \in Nat
  BY SolAssumption
<1>2. Redoubled = [n \in Nat |-> IF n = 0 THEN SolBase ELSE 2 * Redoubled[n - 1]]
  BY <1>1, DoublingExists DEF Redoubled
<1> QED BY <1>1, <1>2, DoublingFacts

\* The peers whose "connected" has no "disconnected" yet.
Serving == {p \in TcpPeers : lsnPeers[p] \in {"served", "closing"}}

\* The backoff is the wait to come while the client dials and the wait under way
\* while it sleeps; the listener's reports count the peers it serves.
TcpPaceInv ==
  /\ TcpTypeOK
  /\ IsFiniteSet(Serving) /\ lsnOpen = Cardinality(Serving)
  /\ tcpPc = "reading" => tcpBackoff = TcpInitial /\ tcpWaits = 0
  /\ tcpPc = "sleeping" => tcpWaits >= 1
  /\ tcpPc = "dialing" /\ tcpWaits < TcpWaits =>
       tcpBackoff = IF Doubled[tcpWaits] < TcpMax THEN Doubled[tcpWaits] ELSE TcpMax
  /\ TcpPaced

\* The first wait is initial_backoff.
LEMMA TcpPaceInit == TcpInit => TcpPaceInv
<1> SUFFICES ASSUME TcpInit PROVE TcpPaceInv
  OBVIOUS
<1>1. TcpTypeOK
  <2>1. tcpTold \in Told /\ tcpLast \in LinkState
    BY DEF TcpInit, NothingTold, Told, LinkState
  <2>2. tcpBackoff \in TcpInitial .. TcpMax /\ tcpWaits \in 0 .. TcpWaits
    BY TcpAssumption DEF TcpInit
  <2> QED BY <2>1, <2>2 DEF TcpInit, TcpTypeOK
<1>2. tcpPc = "dialing" /\ tcpBackoff = TcpInitial /\ tcpWaits = 0
  BY DEF TcpInit
<1>3. Serving = {} /\ lsnOpen = 0
  BY DEF TcpInit, Serving
<1> QED BY <1>1, <1>2, <1>3, FS_EmptySet, DoubledFacts, TcpAssumption DEF TcpPaceInv, TcpPaced

\* A round ends before its wait is doubled.
LEMMA GoesDownPaced ==
  ASSUME TcpPaceInv, tcpPc \in {"dialing", "reading"}, GoesDown,
         UNCHANGED <<tcpBackoff, tcpServer, tcpCrashes, listener>>
  PROVE  TcpPaceInv'
<1>0. /\ tcpWaits \in 0 .. TcpWaits /\ TcpWaits \in Nat \ {0} /\ tcpBackoff \in TcpInitial .. TcpMax
      /\ TcpInitial \in Nat \ {0} /\ TcpMax \in Nat /\ TcpInitial <= TcpMax
  BY TcpAssumption DEF TcpPaceInv, TcpTypeOK
<1>1. /\ tcpPc' = "sleeping" /\ tcpBackoff' = tcpBackoff /\ tcpLast' = "disconnected"
      /\ tcpWaits' = IF tcpWaits < TcpWaits THEN tcpWaits + 1 ELSE tcpWaits
      /\ tcpTold' = IF tcpLast = "disconnected" THEN tcpTold
                    ELSE Report(tcpTold, "disconnected")
  BY DEF GoesDown
<1>2. tcpWaits' \in 0 .. TcpWaits /\ tcpWaits' >= 1
  BY <1>0, <1>1
<1>3. tcpWaits' < TcpWaits =>
        tcpBackoff' = IF Doubled[tcpWaits' - 1] < TcpMax THEN Doubled[tcpWaits' - 1] ELSE TcpMax
  <2> SUFFICES ASSUME tcpWaits' < TcpWaits
               PROVE  tcpBackoff = IF Doubled[tcpWaits' - 1] < TcpMax
                                     THEN Doubled[tcpWaits' - 1] ELSE TcpMax
    BY <1>1
  <2>1. tcpWaits < TcpWaits /\ tcpWaits' - 1 = tcpWaits
    BY <1>0, <1>1
  <2>2. CASE tcpPc = "dialing"
    BY <2>1, <2>2 DEF TcpPaceInv
  <2>3. CASE tcpPc = "reading"
    BY <1>0, <2>1, <2>3, DoubledFacts DEF TcpPaceInv
  <2> QED BY <2>2, <2>3
<1>4. tcpTold' \in Told /\ tcpLast' \in LinkState
  <2>1. "disconnected" \in LinkState /\ tcpTold \in Told
    BY DEF LinkState, TcpPaceInv, TcpTypeOK
  <2> QED BY <1>1, <2>1, ReportFacts
<1>5. TcpTypeOK'
  BY <1>0, <1>1, <1>2, <1>4 DEF TcpPaceInv, TcpTypeOK, listener
<1>6. Serving' = Serving /\ lsnOpen' = lsnOpen
  BY DEF Serving, listener
<1> QED BY <1>1, <1>2, <1>3, <1>5, <1>6 DEF TcpPaceInv, TcpPaced

\* The listener leaves the client alone, and its handlers report in pairs.
LEMMA ListenerCounts ==
  ASSUME TcpPaceInv,
         \/ LsnRestart \/ LsnCrash \/ LsnCancel
         \/ \E p \in TcpPeers : LsnAccept(p) \/ LsnServe(p) \/ LsnFinish(p)
  PROVE  TcpPaceInv'
<1>1. /\ UNCHANGED <<tcpPc, tcpBackoff, tcpLast, tcpServer, tcpTold, tcpWaits>>
      /\ tcpCrashes' \in Nat
  BY DEF LsnRestart, LsnCrash, LsnCancel, LsnAccept, LsnServe, LsnFinish, tcpClient,
         TcpPaceInv, TcpTypeOK
<1>2. /\ lsnPc' \in {"listening", "resting", "over"}
      /\ lsnPeers' \in [TcpPeers -> {"away", "accepted", "served", "closing"}]
  BY DEF LsnRestart, LsnCrash, LsnCancel, LsnAccept, LsnServe, LsnFinish, Peer,
         TcpPaceInv, TcpTypeOK
<1>3. IsFiniteSet(Serving') /\ lsnOpen' = Cardinality(Serving')
  <2>0. /\ IsFiniteSet(Serving) /\ lsnOpen = Cardinality(Serving)
        /\ lsnPeers \in [TcpPeers -> {"away", "accepted", "served", "closing"}]
    BY DEF TcpPaceInv, TcpTypeOK
  <2>1. CASE \/ LsnRestart \/ LsnCrash \/ LsnCancel \/ \E p \in TcpPeers : LsnAccept(p)
    <3>1. Serving' = Serving /\ lsnOpen' = lsnOpen
      BY <2>0, <2>1 DEF LsnRestart, LsnCrash, LsnCancel, LsnAccept, Peer, Serving
    <3> QED BY <2>0, <3>1
  <2>2. ASSUME NEW p \in TcpPeers, LsnServe(p)
        PROVE  IsFiniteSet(Serving') /\ lsnOpen' = Cardinality(Serving')
    <3>1. Serving' = Serving \cup {p} /\ p \notin Serving /\ lsnOpen' = lsnOpen + 1
      BY <2>0, <2>2 DEF LsnServe, Peer, Serving
    <3> QED BY <2>0, <3>1, FS_AddElement
  <2>3. ASSUME NEW p \in TcpPeers, LsnFinish(p)
        PROVE  IsFiniteSet(Serving') /\ lsnOpen' = Cardinality(Serving')
    <3>1. Serving' = Serving \ {p} /\ p \in Serving /\ lsnOpen' = lsnOpen - 1
      BY <2>0, <2>3 DEF LsnFinish, Peer, Serving
    <3> QED BY <2>0, <3>1, FS_RemoveElement
  <2> QED BY <2>1, <2>2, <2>3
<1>4. lsnOpen' \in Nat
  BY <1>3, FS_CardinalityType
<1>5. TcpTypeOK'
  BY <1>1, <1>2, <1>4 DEF TcpPaceInv, TcpTypeOK
<1> QED BY <1>1, <1>3, <1>5 DEF TcpPaceInv, TcpPaced

\* Every step of the client, the server and the listener keeps the pace.
LEMMA TcpPaceStep == TcpPaceInv /\ [TcpNext]_tcpVars => TcpPaceInv'
<1> SUFFICES ASSUME TcpPaceInv, [TcpNext]_tcpVars PROVE TcpPaceInv'
  OBVIOUS
<1>0. /\ tcpWaits \in 0 .. TcpWaits /\ TcpWaits \in Nat \ {0} /\ tcpBackoff \in TcpInitial .. TcpMax
      /\ TcpInitial \in Nat \ {0} /\ TcpMax \in Nat /\ TcpInitial <= TcpMax
      /\ tcpTold \in Told /\ tcpCrashes \in Nat
  BY TcpAssumption DEF TcpPaceInv, TcpTypeOK
<1>1. CASE TcpConnect
  <2>1. "connected" \in LinkState /\ tcpTold' \in Told
    BY <1>0, <1>1, ReportFacts DEF LinkState, TcpConnect
  <2>2. /\ tcpPc' = "reading" /\ tcpBackoff' = TcpInitial /\ tcpWaits' = 0
        /\ tcpLast' = "connected"
        /\ UNCHANGED <<tcpServer, tcpCrashes, lsnPc, lsnPeers, lsnOpen>>
    BY <1>1 DEF TcpConnect, listener
  <2>3. TcpTypeOK'
    BY <1>0, <2>1, <2>2 DEF TcpPaceInv, TcpTypeOK
  <2>4. Serving' = Serving
    BY <2>2 DEF Serving
  <2> QED BY <2>2, <2>3, <2>4 DEF TcpPaceInv, TcpPaced
<1>2. CASE TcpRefused \/ TcpLost
  BY <1>2, GoesDownPaced DEF TcpRefused, TcpLost
<1>3. CASE TcpWake
  <2>1. /\ tcpPc = "sleeping" /\ tcpPc' = "dialing" /\ tcpWaits' = tcpWaits
        /\ tcpBackoff' = IF 2 * tcpBackoff < TcpMax THEN 2 * tcpBackoff ELSE TcpMax
        /\ UNCHANGED <<tcpLast, tcpServer, tcpTold, tcpCrashes, lsnPc, lsnPeers, lsnOpen>>
    BY <1>3 DEF TcpWake, listener
  <2>2. tcpWaits - 1 \in Nat /\ (tcpWaits - 1) + 1 = tcpWaits
    BY <1>0, <2>1 DEF TcpPaceInv
  <2>3. Doubled[tcpWaits - 1] \in Nat /\ Doubled[tcpWaits] = 2 * Doubled[tcpWaits - 1]
    BY <2>2, DoubledFacts
  <2>4. tcpWaits < TcpWaits =>
          tcpBackoff' = IF Doubled[tcpWaits] < TcpMax THEN Doubled[tcpWaits] ELSE TcpMax
    BY <1>0, <2>1, <2>3 DEF TcpPaceInv, TcpPaced
  <2>5. TcpTypeOK'
    <3>1. tcpBackoff' \in TcpInitial .. TcpMax
      BY <1>0, <2>1
    <3> QED BY <2>1, <3>1 DEF TcpPaceInv, TcpTypeOK
  <2>6. Serving' = Serving
    BY <2>1 DEF Serving
  <2> QED BY <2>1, <2>4, <2>5, <2>6 DEF TcpPaceInv, TcpPaced
<1>4. CASE TcpCrash
  <2>1. tcpTold' \in Told
    <3>1. "connected" \in LinkState
      BY DEF LinkState
    <3> QED BY <1>0, <1>4, <3>1, ReportFacts DEF TcpCrash
  <2>2. /\ tcpPc' = "resting" /\ tcpCrashes' \in Nat
        /\ UNCHANGED <<tcpBackoff, tcpLast, tcpServer, tcpWaits, lsnPc, lsnPeers, lsnOpen>>
    BY <1>0, <1>4 DEF TcpCrash, listener
  <2>3. TcpTypeOK' /\ Serving' = Serving
    BY <2>1, <2>2 DEF TcpPaceInv, TcpTypeOK, Serving
  <2> QED BY <2>2, <2>3 DEF TcpPaceInv, TcpPaced
<1>5. CASE TcpRestart
  <2>1. /\ tcpPc' = "dialing" /\ tcpBackoff' = TcpInitial /\ tcpWaits' = 0
        /\ UNCHANGED <<tcpLast, tcpServer, tcpTold, tcpCrashes, lsnPc, lsnPeers, lsnOpen>>
    BY <1>5 DEF TcpRestart, listener
  <2>2. TcpTypeOK' /\ Serving' = Serving
    BY <1>0, <2>1 DEF TcpPaceInv, TcpTypeOK, Serving
  <2> QED BY <1>0, <2>1, <2>2, DoubledFacts DEF TcpPaceInv, TcpPaced
<1>6. CASE TcpServerTurns
  <2>1. TcpTypeOK' /\ Serving' = Serving
    BY <1>6 DEF TcpServerTurns, listener, TcpPaceInv, TcpTypeOK, Serving
  <2> QED BY <1>6, <2>1 DEF TcpServerTurns, listener, TcpPaceInv, TcpPaced
<1>7. CASE UNCHANGED tcpVars
  BY <1>7 DEF tcpVars, TcpPaceInv, TcpTypeOK, TcpPaced, Serving
<1> QED BY <1>1, <1>2, <1>3, <1>4, <1>5, <1>6, <1>7, ListenerCounts DEF TcpNext, TcpRun, LsnRun

\* The delay is restart_delay doubled once per short life.
SolPaceInv == SolTypeOK /\ SolPaced

\* The first delay is restart_delay.
LEMMA SolPaceInit == SolInit => SolPaceInv
<1> SUFFICES ASSUME SolInit PROVE SolPaceInv
  OBVIOUS
<1>1. solTold \in Told /\ solLast \in LinkState
  BY DEF SolInit, NothingTold, Told, LinkState
<1>2. /\ solDelay \in SolBase .. SolCap /\ solShort \in 0 .. SolMaxLives
      /\ appRest \in 0 .. SolTasks
  BY SolAssumption DEF SolInit
<1>3. SolTypeOK
  BY <1>1, <1>2 DEF SolInit, SolTypeOK
<1>4. SolPaced
  BY RedoubledFacts, SolAssumption DEF SolInit, SolPaced
<1> QED BY <1>3, <1>4 DEF SolPaceInv

\* A life doubles the delay or starts it again.
LEMMA UpdateDelayPaced ==
  ASSUME SolPaceInv, NEW long \in BOOLEAN, UpdateDelay(long)
  PROVE  /\ solDelay' \in SolBase .. SolCap /\ solShort' \in 0 .. SolMaxLives
         /\ SolPaced'
<1>0. /\ solDelay \in SolBase .. SolCap /\ solShort \in 0 .. SolMaxLives
      /\ SolBase \in Nat \ {0} /\ SolCap \in Nat /\ SolBase <= SolCap
      /\ SolMaxLives \in Nat \ {0}
  BY SolAssumption DEF SolPaceInv, SolTypeOK
<1>1. CASE long
  BY <1>0, <1>1, RedoubledFacts DEF UpdateDelay, SolPaced
<1>2. CASE ~long
  <2>1. /\ solDelay' = IF 2 * solDelay < SolCap THEN 2 * solDelay ELSE SolCap
        /\ solShort' = IF solShort < SolMaxLives THEN solShort + 1 ELSE solShort
    BY <1>2 DEF UpdateDelay
  <2>2. solDelay' \in SolBase .. SolCap /\ solShort' \in 0 .. SolMaxLives
    BY <1>0, <2>1
  <2>3. solShort' < SolMaxLives => solShort < SolMaxLives /\ solShort' = solShort + 1
    BY <1>0, <2>1
  <2>4. Redoubled[solShort] \in Nat /\ Redoubled[solShort + 1] = 2 * Redoubled[solShort]
    BY <1>0, RedoubledFacts
  <2> QED BY <1>0, <2>1, <2>2, <2>3, <2>4 DEF SolPaceInv, SolPaced
<1> QED BY <1>1, <1>2

\* A report keeps the types of what has been reported.
LEMMA EmitTypes ==
  ASSUME solTold \in Told, NEW state \in {"connected", "disconnected"}, Emit(state)
  PROVE  solTold' \in Told /\ solLast' \in LinkState
<1>1. state \in LinkState
  BY DEF LinkState
<1> QED BY <1>1, ReportFacts DEF Emit

\* Every step of the manager, of the App's end and of the process keeps the pace.
LEMMA SolPaceStep == SolPaceInv /\ [SolNext]_solVars => SolPaceInv'
<1> SUFFICES ASSUME SolPaceInv, [SolNext]_solVars PROVE SolPaceInv'
  OBVIOUS
<1>0. /\ SolTypeOK /\ SolPaced /\ solTold \in Told /\ solCrashes \in Nat
      /\ appRest \in 0 .. SolTasks /\ SolTasks \in Nat
  BY SolAssumption DEF SolPaceInv, SolTypeOK
<1>1. CASE SolSpawns
  <2>1. solTold' \in Told /\ solLast' \in LinkState
    BY <1>0, <1>1, EmitTypes DEF SolSpawns
  <2>2. solDeaf' \in BOOLEAN
    <3>1. SolStubborn \subseteq BOOLEAN
      BY SolAssumption
    <3> QED BY <1>1, <3>1 DEF SolSpawns
  <2> QED BY <1>0, <1>1, <2>1, <2>2 DEF SolSpawns, SolPaceInv, SolTypeOK, SolPaced, app
<1>2. ASSUME solPc' = "sleep", solChild' \in {"none", "running", "dying", "gone"},
             Emit("disconnected"), \E long \in BOOLEAN : UpdateDelay(long),
             UNCHANGED <<solWorld, solCancel, app>>
      PROVE  SolPaceInv'
  <2>1. solTold' \in Told /\ solLast' \in LinkState
    BY <1>0, <1>2, EmitTypes
  <2>2. /\ solDelay' \in SolBase .. SolCap /\ solShort' \in 0 .. SolMaxLives
        /\ SolPaced'
    BY <1>2, UpdateDelayPaced
  <2> QED BY <1>0, <1>2, <2>1, <2>2 DEF SolPaceInv, SolTypeOK, app, solWorld
<1>3. CASE SolSpawnFails
  BY <1>0, <1>2, <1>3 DEF SolSpawnFails, SolTypeOK
<1>4. CASE SolReaps
  BY <1>2, <1>4 DEF SolReaps
<1>5. CASE SolCrash
  <2>1. solTold' \in Told
    <3>1. "none" \in LinkState
      BY DEF LinkState
    <3> QED BY <1>0, <1>5, <3>1, ReportFacts DEF SolCrash
  <2> QED BY <1>0, <1>5, <2>1 DEF SolCrash, SolPaceInv, SolTypeOK, SolPaced, app
<1>6. CASE SolStart \/ SolWake \/ SolRestart \/ SolKills \/ SolReleased
  BY <1>0, <1>6 DEF SolStart, SolWake, SolRestart, SolKills, SolReleased,
     SolPaceInv, SolTypeOK, SolPaced, app, solWorld
<1>7. CASE SolCancelled
  BY <1>0, <1>7 DEF SolCancelled, SolPaceInv, SolTypeOK, SolPaced, app, solWorld
<1>8. CASE AppCancel \/ AppUnwinds \/ AppTearsDown
  <2>1. solCancel' \in BOOLEAN
    BY <1>8, Zenon DEF AppCancel, AppUnwinds, AppTearsDown, CancelTasks
  <2> QED BY <1>0, <1>8, <2>1 DEF AppCancel, AppUnwinds, AppTearsDown,
          SolPaceInv, SolTypeOK, SolPaced, solWorld
<1>9. CASE AppTaskEnds \/ AppStops
  <2>1. appRest' \in 0 .. SolTasks
    BY <1>0, <1>9 DEF AppTaskEnds, AppStops
  <2> QED BY <1>0, <1>9, <2>1 DEF AppTaskEnds, AppStops, SolPaceInv, SolTypeOK, SolPaced, solWorld
<1>10. CASE SolExits \/ SolDies
  BY <1>0, <1>10 DEF SolExits, SolDies, SolPaceInv, SolTypeOK, SolPaced, app, solWorld
<1>11. CASE SolWorldTurns
  <2>1. solCan' \in BOOLEAN
    BY <1>11, Zenon DEF SolWorldTurns
  <2> QED BY <1>0, <1>11, <2>1 DEF SolWorldTurns, SolPaceInv, SolTypeOK, SolPaced, app
<1>12. CASE UNCHANGED solVars
  BY <1>0, <1>12 DEF solVars, SolPaceInv, SolTypeOK, SolPaced
<1> QED BY <1>1, <1>3, <1>4, <1>5, <1>6, <1>7, <1>8, <1>9, <1>10, <1>11, <1>12
        DEF SolNext, SolRun, AppRun

-----------------------------------------------------------------------------
(* The types of the CAN route, which retries at the pace of its timeouts.   *)

\* The collector starts with its bus open.
LEMMA CanInitTypes == CanInit => CanTypeOK
<1> SUFFICES ASSUME CanInit PROVE CanTypeOK
  OBVIOUS
<1>1. canTold \in Told
  BY DEF CanInit, NothingTold, Told, LinkState
<1>2. canTimeouts \in 0 .. CanReopenAfter /\ canWedges \in Nat /\ canCrashes \in Nat
  BY CanAssumption DEF CanInit
<1> QED BY <1>1, <1>2 DEF CanInit, CanTypeOK

\* The count of timeouts never passes the threshold.
LEMMA CanStepTypes == CanTypeOK /\ [CanNext]_canVars => CanTypeOK'
<1> SUFFICES ASSUME CanTypeOK, [CanNext]_canVars PROVE CanTypeOK'
  OBVIOUS
<1>0. /\ canTimeouts \in 0 .. CanReopenAfter /\ CanReopenAfter \in Nat \ {0, 1}
      /\ canTold \in Told /\ canWedges \in Nat /\ canCrashes \in Nat
  BY CanAssumption DEF CanTypeOK
<1>1. "connected" \in LinkState /\ "disconnected" \in LinkState
  BY DEF LinkState
<1>2. /\ \A state \in {"connected", "disconnected"} : Report(canTold, state) \in Told
      /\ TornDown(canTold) \in Told
      /\ Silence(canTold) \in Told /\ TornDown(Silence(canTold)) \in Told
  <2>1. \A told \in Told : TornDown(told) \in Told
    BY <1>1, ReportFacts
  <2>2. \A state \in {"connected", "disconnected"} : Report(canTold, state) \in Told
    BY <1>0, <1>1, ReportFacts
  <2> QED BY <1>0, <2>1, <2>2 DEF Silence
<1>3. CASE CanFrame
  <2>1. canTimeouts' \in 0 .. CanReopenAfter /\ canTold' \in Told
    BY <1>0, <1>2, <1>3 DEF CanFrame
  <2> QED BY <1>3, <2>1 DEF CanFrame, CanTypeOK, canWorld
<1>4. CASE CanTimeout \/ CanReopens \/ CanReopenFails
  <2>1. canTimeouts' \in 0 .. CanReopenAfter /\ canTold' \in Told
    BY <1>0, <1>2, <1>4 DEF CanTimeout, CanReopens, CanReopenFails
  <2>2. canDown' \in BOOLEAN /\ canFlow' = FALSE
    <3>1. canDown' = (canDown \/ canTimeouts = 0)
      BY <1>4, Zenon DEF CanTimeout, CanReopens, CanReopenFails
    <3>2. canFlow' = FALSE
      BY <1>4 DEF CanTimeout, CanReopens, CanReopenFails
    <3> QED BY <3>1, <3>2, Zenon
  <2> QED BY <1>4, <2>1, <2>2 DEF CanTimeout, CanReopens, CanReopenFails, CanTypeOK, canWorld
<1>5. CASE CanCrash
  <2>1. canCrashes' \in Nat /\ canTold' \in Told
    BY <1>0, <1>2, <1>5 DEF CanCrash
  <2> QED BY <1>5, <2>1 DEF CanCrash, CanTypeOK
<1>6. CASE CanRestart
  <2>1. canTimeouts' \in 0 .. CanReopenAfter
    BY <1>0, <1>6 DEF CanRestart
  <2> QED BY <1>6, <2>1 DEF CanRestart, CanTypeOK, canWorld
<1>7. CASE CanWorldTurns
  <2>1. /\ canWedges' \in Nat
        /\ canPc' = canPc /\ canTimeouts' = canTimeouts /\ canTold' = canTold
        /\ canCrashes' = canCrashes
        /\ canBus' \in {"live", "wedged", "closed"}
    BY <1>0, <1>7 DEF CanWorldTurns, CanTypeOK
  <2>2. /\ canTraffic' \in BOOLEAN /\ canDevice' \in BOOLEAN
    BY <1>7, Zenon DEF CanWorldTurns, CanTypeOK
  <2>3. UNCHANGED <<canSeen, canDown, canFailTold, canIsFirst, canFlow>>
    BY <1>7 DEF CanWorldTurns
  <2> QED BY <2>1, <2>2, <2>3 DEF CanTypeOK
<1>8. CASE UNCHANGED canVars
  BY <1>8 DEF canVars, CanTypeOK
<1> QED BY <1>3, <1>4, <1>5, <1>6, <1>7, <1>8 DEF CanNext, CanRun

-----------------------------------------------------------------------------
(* The CAN cycles.  A cycle that is open was opened by the last head that  *)
(* arrived, and every head since was lost; that is what its frames may be  *)
(* of.  Between two positions, cycles come out at different times, so few  *)
(* of them are too early.                                                  *)

\* Division keeps the order.
LEMMA DivMonotone ==
  ASSUME NEW a \in Nat, NEW b \in Nat, a <= b, NEW c \in Nat \ {0}
  PROVE  a \div c \in Nat /\ a \div c <= b \div c
<1>1. a \div c \in Int /\ a \div c >= 0
  OBVIOUS
<1>2. a \div c <= b \div c
  OBVIOUS
<1> QED BY <1>1, <1>2

\* The failed attempts to store an epoch since the last position.
FailedSince == {i \in DOMAIN cycEpochs :
                  ~cycEpochs[i].stored /\ cycEpochs[i].second >= cycLastPos \div CycSecond}

CycMatchInv ==
  /\ cycCur.head # 0 => cycCur.head <= cycNow /\ cycCur.head + 1 .. cycNow \subseteq cycLost
  /\ \A i \in 1 .. CycFrames :
       cycCur.of[i] # 0 => cycCur.head <= cycCur.of[i] /\ cycCur.of[i] <= cycNow
  /\ cycWhole.this => /\ cycNow # 0 /\ cycCur.head = cycNow
                      /\ \A i \in 1 .. cycAt : cycCur.of[i] = cycNow
  /\ CyclesMatch

CycFlowInv ==
  /\ cycOut.t <= cycTime /\ cycLastPos <= cycOut.t
  /\ cycCur.head # 0 => cycOut.t < cycCur.t /\ cycCur.t <= cycTime
  /\ cycStored <= cycOut.t \div CycSecond
  /\ \A i \in DOMAIN cycEpochs : cycEpochs[i].second <= cycStored
  /\ \A i, j \in DOMAIN cycEpochs : i < j => cycEpochs[i].second < cycEpochs[j].second
  /\ cycMissed <= (cycOut.t - cycLastPos) + Cardinality(FailedSince)
  /\ cycMissed <= (CycGap - 1) + Cardinality(FailedSince)

CycInv == CycTypeOK /\ CycMatchInv /\ CycFlowInv

\* The failed attempts are finitely many.
LEMMA FailedFinite ==
  ASSUME CycTypeOK
  PROVE  IsFiniteSet(FailedSince) /\ Cardinality(FailedSince) \in Nat
<1>1. DOMAIN cycEpochs = 1 .. Len(cycEpochs) /\ Len(cycEpochs) \in Nat
  BY DEF CycTypeOK
<1>2. IsFiniteSet(1 .. Len(cycEpochs))
  BY <1>1, FS_Interval
<1> QED BY <1>1, <1>2, FS_Subset, FS_CardinalityType DEF FailedSince

\* Nothing has arrived.
LEMMA CycInitInv == CycInit => CycInv
<1> SUFFICES ASSUME CycInit PROVE CycInv
  OBVIOUS
<1>1. /\ NoCycle \in Cycle /\ NoCycle.head = 0 /\ NoCycle.t = 0
      /\ \A i \in 1 .. CycFrames : NoCycle.of[i] = 0
  BY CycAssumption DEF NoCycle, Cycle
<1>2. CycTypeOK
  BY <1>1, CycAssumption DEF CycInit, CycTypeOK
<1>3. CycMatchInv
  BY <1>1 DEF CycInit, CycMatchInv, CyclesMatch, Full
<1>4. CycFlowInv
  <2>1. FailedSince = {}
    BY DEF CycInit, FailedSince
  <2>2. 0 \div CycSecond \in Nat
    BY CycAssumption, DivMonotone
  <2> QED BY <1>1, <2>1, <2>2, FS_EmptySet, CycAssumption DEF CycInit, CycFlowInv
<1> QED BY <1>2, <1>3, <1>4 DEF CycInv

\* What App._on_can does with a cycle that comes out.
LEMMA StoreInv ==
  ASSUME CycInv, Full(cycCur), cycOut' = cycCur, NEW fails \in BOOLEAN, Store(cycCur.t, fails)
  PROVE  /\ cycStored' \in Int /\ cycLastPos' \in Nat /\ cycMissed' \in Nat
         /\ cycEpochs' \in Seq([second : Nat, stored : BOOLEAN])
         /\ cycLastPos' <= cycOut'.t
         /\ cycStored' <= cycOut'.t \div CycSecond
         /\ \A i \in DOMAIN cycEpochs' : cycEpochs'[i].second <= cycStored'
         /\ \A i, j \in DOMAIN cycEpochs' : i < j => cycEpochs'[i].second < cycEpochs'[j].second
         /\ cycMissed' <= (cycOut'.t - cycLastPos') + Cardinality(FailedSince')
         /\ cycMissed' <= (CycGap - 1) + Cardinality(FailedSince')
<1> DEFINE t == cycCur.t
           second == t \div CycSecond
           due == cycStored # second
           entry == [second |-> second, stored |-> ~fails]
<1>0. /\ CycTypeOK /\ CycFlowInv /\ t \in Nat /\ cycOut.t \in Nat /\ cycOut.t < t
      /\ cycStored \in Int /\ cycLastPos \in Nat /\ cycMissed \in Nat
      /\ cycEpochs \in Seq([second : Nat, stored : BOOLEAN])
      /\ CycSecond \in Nat \ {0} /\ CycGap \in Nat \ {0} /\ cycLastPos <= cycOut.t
  BY CycAssumption DEF CycInv, CycTypeOK, CycFlowInv, Full, Cycle
<1>1. second \in Nat /\ cycStored <= second /\ cycLastPos \div CycSecond <= second
  <2>1. cycOut.t \div CycSecond <= second /\ second \in Nat /\ cycOut.t \div CycSecond \in Nat
    BY <1>0, DivMonotone
  <2>2. cycLastPos \div CycSecond <= cycOut.t \div CycSecond /\ cycLastPos \div CycSecond \in Nat
    BY <1>0, DivMonotone
  <2> QED BY <1>0, <2>1, <2>2 DEF CycFlowInv
<1>2. /\ fails => due
      /\ cycStored' = second
      /\ cycEpochs' = IF due THEN Append(cycEpochs, entry) ELSE cycEpochs
      /\ IF t - cycLastPos >= CycGap /\ ~fails
         THEN cycLastPos' = t /\ cycMissed' = 0
         ELSE cycLastPos' = cycLastPos /\ cycMissed' = cycMissed + 1
  BY DEF Store
<1> HIDE DEF second, t
<1>3. /\ entry \in [second : Nat, stored : BOOLEAN]
      /\ entry.second = second /\ (fails => ~entry.stored)
  BY <1>1
<1> HIDE DEF entry
<1>4. /\ cycStored' \in Int /\ cycLastPos' \in Nat /\ cycMissed' \in Nat /\ cycLastPos' <= t
  BY <1>0, <1>1, <1>2
<1>a. /\ Append(cycEpochs, entry) \in Seq([second : Nat, stored : BOOLEAN])
      /\ Len(Append(cycEpochs, entry)) = Len(cycEpochs) + 1 /\ Len(cycEpochs) \in Nat
      /\ DOMAIN cycEpochs = 1 .. Len(cycEpochs)
      /\ DOMAIN Append(cycEpochs, entry) = 1 .. Len(cycEpochs) + 1
      /\ Append(cycEpochs, entry)[Len(cycEpochs) + 1] = entry
      /\ \A i \in 1 .. Len(cycEpochs) : /\ Append(cycEpochs, entry)[i] = cycEpochs[i]
                                        /\ cycEpochs[i].second \in Nat
  <2> DEFINE Entries == [second : Nat, stored : BOOLEAN]
  <2>1. cycEpochs \in Seq(Entries) /\ entry \in Entries
    BY <1>0, <1>3
  <2>2. \A e \in Entries : e.second \in Nat
    OBVIOUS
  <2> HIDE DEF Entries
  <2>3. /\ Append(cycEpochs, entry) \in Seq(Entries)
        /\ Len(Append(cycEpochs, entry)) = Len(cycEpochs) + 1 /\ Len(cycEpochs) \in Nat
        /\ DOMAIN cycEpochs = 1 .. Len(cycEpochs)
        /\ DOMAIN Append(cycEpochs, entry) = 1 .. Len(cycEpochs) + 1
        /\ Append(cycEpochs, entry)[Len(cycEpochs) + 1] = entry
    BY <2>1
  <2>4. \A i \in 1 .. Len(cycEpochs) : /\ Append(cycEpochs, entry)[i] = cycEpochs[i]
                                       /\ cycEpochs[i] \in Entries
    BY <2>1
  <2> QED BY <2>2, <2>3, <2>4 DEF Entries
<1>5. cycEpochs' \in Seq([second : Nat, stored : BOOLEAN])
  BY <1>0, <1>2, <1>a
<1>6. /\ \A i \in DOMAIN cycEpochs' : cycEpochs'[i].second <= cycStored'
      /\ \A i, j \in DOMAIN cycEpochs' : i < j => cycEpochs'[i].second < cycEpochs'[j].second
  <2>1. CASE ~due
    BY <1>0, <1>2, <2>1 DEF CycFlowInv
  <2>2. CASE due
    <3>1. cycEpochs' = Append(cycEpochs, entry) /\ cycStored < second
      BY <1>0, <1>1, <1>2, <2>2
    <3>2. /\ DOMAIN cycEpochs' = 1 .. Len(cycEpochs) + 1 /\ Len(cycEpochs) \in Nat
          /\ DOMAIN cycEpochs = 1 .. Len(cycEpochs)
          /\ cycEpochs'[Len(cycEpochs) + 1].second = second
          /\ \A i \in 1 .. Len(cycEpochs) :
               cycEpochs'[i] = cycEpochs[i] /\ cycEpochs[i].second \in Nat
      BY <1>3, <1>a, <3>1
    <3>3. \A i \in DOMAIN cycEpochs : cycEpochs[i].second <= cycStored
      BY <1>0 DEF CycFlowInv
    <3>4. \A i, j \in DOMAIN cycEpochs : i < j => cycEpochs[i].second < cycEpochs[j].second
      BY <1>0 DEF CycFlowInv
    <3>5. \A i \in 1 .. Len(cycEpochs) : cycEpochs'[i].second < second
      BY <1>0, <1>1, <3>1, <3>2, <3>3
    <3>6. \A i \in DOMAIN cycEpochs' : cycEpochs'[i].second <= second
      <4> SUFFICES ASSUME NEW i \in DOMAIN cycEpochs' PROVE cycEpochs'[i].second <= second
        OBVIOUS
      <4>1. CASE i = Len(cycEpochs) + 1
        BY <1>1, <3>2, <4>1
      <4>2. CASE i # Len(cycEpochs) + 1
        <5>1. i \in 1 .. Len(cycEpochs)
          BY <3>2, <4>2
        <5> QED BY <1>1, <3>2, <3>5, <5>1
      <4> QED BY <4>1, <4>2
    <3>7. ASSUME NEW i \in DOMAIN cycEpochs', NEW j \in DOMAIN cycEpochs', i < j
          PROVE  cycEpochs'[i].second < cycEpochs'[j].second
      <4>1. i \in 1 .. Len(cycEpochs)
        BY <3>2, <3>7
      <4>2. CASE j = Len(cycEpochs) + 1
        BY <3>2, <3>5, <4>1, <4>2
      <4>3. CASE j # Len(cycEpochs) + 1
        <5>1. j \in 1 .. Len(cycEpochs)
          BY <3>2, <4>3
        <5> QED BY <3>2, <3>4, <3>7, <4>1, <5>1
      <4> QED BY <4>2, <4>3
    <3> QED BY <1>2, <3>6, <3>7
  <2> QED BY <2>1, <2>2
<1>7. IsFiniteSet(FailedSince) /\ Cardinality(FailedSince) \in Nat
  BY <1>0, FailedFinite
<1>8. IsFiniteSet(FailedSince') /\ Cardinality(FailedSince') \in Nat
  <2>1. DOMAIN cycEpochs' = 1 .. Len(cycEpochs') /\ Len(cycEpochs') \in Nat
    BY <1>5
  <2>2. IsFiniteSet(1 .. Len(cycEpochs'))
    BY <2>1, FS_Interval
  <2> QED BY <2>1, <2>2, FS_Subset, FS_CardinalityType DEF FailedSince
<1>9. cycLastPos' = cycLastPos => FailedSince \subseteq FailedSince'
  <2> SUFFICES ASSUME cycLastPos' = cycLastPos, NEW i \in FailedSince PROVE i \in FailedSince'
    OBVIOUS
  <2>1. i \in DOMAIN cycEpochs' /\ cycEpochs'[i] = cycEpochs[i]
    BY <1>0, <1>2, <1>a DEF FailedSince
  <2> QED BY <2>1 DEF FailedSince
<1>10. cycMissed' <= (t - cycLastPos') + Cardinality(FailedSince')
       /\ cycMissed' <= (CycGap - 1) + Cardinality(FailedSince')
  <2>1. CASE t - cycLastPos >= CycGap /\ ~fails
    BY <1>0, <1>2, <1>8, <2>1
  <2>2. CASE ~(t - cycLastPos >= CycGap)
    <3>1. cycLastPos' = cycLastPos /\ cycMissed' = cycMissed + 1
      BY <1>2, <2>2
    <3>2. Cardinality(FailedSince) <= Cardinality(FailedSince')
      BY <1>8, <1>9, <3>1, FS_Subset
    <3>3. cycMissed <= (cycOut.t - cycLastPos) + Cardinality(FailedSince)
      BY <1>0 DEF CycFlowInv
    <3> QED BY <1>0, <1>7, <1>8, <2>2, <3>1, <3>2, <3>3
  <2>3. CASE fails
    <3>1. cycLastPos' = cycLastPos /\ cycMissed' = cycMissed + 1
          /\ cycEpochs' = Append(cycEpochs, entry)
      BY <1>2, <2>3
    <3>2. Len(cycEpochs) + 1 \in FailedSince' /\ Len(cycEpochs) + 1 \notin FailedSince
      <4>1. /\ Len(cycEpochs) + 1 \in DOMAIN cycEpochs'
            /\ Len(cycEpochs) + 1 \notin DOMAIN cycEpochs
            /\ cycEpochs'[Len(cycEpochs) + 1] = entry
        BY <1>a, <3>1
      <4> QED BY <1>1, <1>3, <2>3, <3>1, <4>1 DEF FailedSince
    <3>3. Cardinality(FailedSince) + 1 <= Cardinality(FailedSince')
      <4>1. FailedSince \cup {Len(cycEpochs) + 1} \subseteq FailedSince'
        BY <1>9, <3>1, <3>2
      <4>2. Cardinality(FailedSince \cup {Len(cycEpochs) + 1}) = Cardinality(FailedSince) + 1
        BY <1>7, <3>2, FS_AddElement
      <4> QED BY <1>8, <4>1, <4>2, FS_Subset
    <3>4. /\ cycMissed <= (cycOut.t - cycLastPos) + Cardinality(FailedSince)
          /\ cycMissed <= (CycGap - 1) + Cardinality(FailedSince)
      BY <1>0 DEF CycFlowInv
    <3> QED BY <1>0, <1>7, <1>8, <3>1, <3>3, <3>4
  <2> QED BY <2>1, <2>2, <2>3
<1>11. cycOut'.t = t
  BY DEF t
<1>12. cycStored' <= cycOut'.t \div CycSecond
  BY <1>1, <1>2 DEF second, t
<1> QED BY <1>4, <1>5, <1>6, <1>10, <1>11, <1>12

\* Nothing comes out: the times go on.
LEMMA QuietFlow ==
  ASSUME CycTypeOK, CycFlowInv, Quiet, cycTime' \in Nat, cycTime <= cycTime',
         cycCur'.head # 0 => cycOut.t < cycCur'.t /\ cycCur'.t <= cycTime'
  PROVE  CycFlowInv'
<1>1. FailedSince' = FailedSince
  BY DEF Quiet, FailedSince
<1>2. /\ UNCHANGED <<cycStored, cycEpochs, cycLastPos, cycMissed, cycOut>>
      /\ cycOut.t \in Nat /\ cycTime \in Nat
  BY DEF Quiet, CycTypeOK, Cycle
<1> QED BY <1>1, <1>2 DEF CycFlowInv

\* A head ends the cycle before it, when it arrives.
LEMMA CycHeadInv ==
  ASSUME CycInv, CycHead
  PROVE  CycInv'
<1>0. /\ CycTypeOK /\ CycMatchInv /\ CycFlowInv /\ cycNow \in Nat /\ CycMax \in Nat
      /\ cycNow < CycMax /\ cycAt = CycFrames /\ cycTime \in Nat /\ CycFrames \in Nat \ {0}
      /\ cycCur \in Cycle /\ cycCur.head \in Nat /\ cycCur.t \in Nat /\ cycOut.t \in Nat
      /\ \A i \in 1 .. CycFrames : cycCur.of[i] \in Nat
      /\ cycLost \subseteq 1 .. CycMax
  BY CycAssumption DEF CycInv, CycTypeOK, CycHead, Cycle
<1>1. cycNow' = cycNow + 1 /\ cycAt' = 0 /\ cycTime' \in Nat /\ cycTime < cycTime'
  <2>1. \A step \in CycSteps : step \in Nat /\ step > 0
    BY CycAssumption
  <2> QED BY <1>0, <2>1 DEF CycHead
<1>2. /\ NoCycle \in Cycle /\ NoCycle.head = 0
      /\ \A i \in 1 .. CycFrames : NoCycle.of[i] = 0
  BY <1>0 DEF NoCycle, Cycle
<1>3. cycNow' \in 0 .. CycMax /\ cycAt' \in 0 .. CycFrames
  BY <1>0, <1>1
<1> DEFINE next == [NoCycle EXCEPT !.head = cycNow + 1, !.t = cycTime']
<1>4. /\ next \in Cycle /\ next.head = cycNow + 1 /\ next.t = cycTime'
      /\ \A i \in 1 .. CycFrames : next.of[i] = 0
  <2>1. cycNow + 1 \in 0 .. CycMax /\ cycTime' \in Nat
    BY <1>1, <1>3
  <2> QED BY <1>2, <2>1 DEF Cycle
<1> HIDE DEF next
<1>5. CASE Flush(next) /\ cycWhole' = [this |-> TRUE, last |-> cycWhole.this] /\ UNCHANGED cycLost
  <2>1. cycCur' = next /\ cycCur'.head = cycNow' /\ cycCur'.head + 1 .. cycNow' = {}
    BY <1>0, <1>1, <1>4, <1>5 DEF Flush
  <2>2. /\ cycWhole' \in [this : BOOLEAN, last : BOOLEAN]
        /\ cycWhole'.last <=> cycWhole.this
    BY <1>0, <1>5 DEF CycTypeOK
  <2>3. cycWhole.this => Full(cycCur) /\ \A i \in 1 .. CycFrames : cycCur.of[i] = cycNow
    BY <1>0 DEF CycMatchInv, Full
  <2>4. Full(cycCur) => \A i \in 1 .. CycFrames :
          cycCur.of[i] >= cycCur.head /\ cycCur.head + 1 .. cycCur.of[i] \subseteq cycLost
    <3> SUFFICES ASSUME Full(cycCur), NEW i \in 1 .. CycFrames
                 PROVE  /\ cycCur.of[i] >= cycCur.head
                        /\ cycCur.head + 1 .. cycCur.of[i] \subseteq cycLost
      OBVIOUS
    <3>1. /\ cycCur.head # 0 /\ cycCur.head <= cycCur.of[i] /\ cycCur.of[i] <= cycNow
          /\ cycCur.head + 1 .. cycNow \subseteq cycLost
      BY <1>0 DEF Full, CycMatchInv
    <3>2. cycCur.head + 1 .. cycCur.of[i] \subseteq cycCur.head + 1 .. cycNow
      BY <1>0, <3>1
    <3> QED BY <1>0, <3>1, <3>2
  <2>5. CASE Full(cycCur)
    <3>1. PICK fails \in BOOLEAN : Store(cycCur.t, fails)
      BY <1>5, <2>5 DEF Flush
    <3>2. cycOut' = cycCur /\ cycOut'.t = cycCur.t /\ cycOut'.head = cycCur.head
      BY <1>5, <2>5 DEF Flush
    <3>3. /\ cycStored' \in Int /\ cycLastPos' \in Nat /\ cycMissed' \in Nat
          /\ cycEpochs' \in Seq([second : Nat, stored : BOOLEAN])
          /\ cycLastPos' <= cycOut'.t
          /\ cycStored' <= cycOut'.t \div CycSecond
          /\ \A i \in DOMAIN cycEpochs' : cycEpochs'[i].second <= cycStored'
          /\ \A i, j \in DOMAIN cycEpochs' : i < j => cycEpochs'[i].second < cycEpochs'[j].second
          /\ cycMissed' <= (cycOut'.t - cycLastPos') + Cardinality(FailedSince')
          /\ cycMissed' <= (CycGap - 1) + Cardinality(FailedSince')
      BY <2>5, <3>1, <3>2, StoreInv
    <3>4. CycTypeOK'
      BY <1>0, <1>1, <1>3, <1>4, <1>5, <2>1, <2>2, <3>2, <3>3 DEF CycTypeOK
    <3>5. CycFlowInv'
      <4>1. cycCur.t <= cycTime
        BY <1>0, <2>5 DEF Full, CycFlowInv
      <4>2. cycOut'.t <= cycTime' /\ cycOut'.t < cycCur'.t /\ cycCur'.t <= cycTime'
        BY <1>0, <1>1, <1>4, <2>1, <3>2, <4>1
      <4> QED BY <3>3, <4>2 DEF CycFlowInv
    <3>6. CyclesMatch'
      <4>1. cycWhole.this => cycCur.head = cycNow
        BY <1>0 DEF CycMatchInv
      <4>2. cycNow' - 1 = cycNow
        BY <1>0, <1>1
      <4> QED BY <1>5, <2>2, <2>3, <2>4, <3>2, <4>1, <4>2 DEF CyclesMatch
    <3>7. CycMatchInv'
      BY <1>0, <1>1, <1>4, <2>1, <3>6 DEF CycMatchInv
    <3> QED BY <3>4, <3>5, <3>7 DEF CycInv
  <2>6. CASE ~Full(cycCur)
    <3>1. Quiet
      BY <1>5, <2>6 DEF Flush
    <3>2. CycTypeOK'
      BY <1>0, <1>1, <1>3, <1>4, <1>5, <2>1, <2>2, <3>1 DEF CycTypeOK, Quiet
    <3>3. CycFlowInv'
      <4>1. cycOut.t < cycCur'.t /\ cycCur'.t <= cycTime'
        BY <1>0, <1>1, <1>4, <2>1 DEF CycFlowInv
      <4> QED BY <1>0, <1>1, <3>1, <4>1, QuietFlow
    <3>4. CyclesMatch'
      BY <1>0, <1>5, <2>2, <2>3, <2>6, <3>1 DEF CyclesMatch, CycMatchInv, Quiet
    <3>5. CycMatchInv'
      BY <1>0, <1>1, <1>4, <2>1, <3>4 DEF CycMatchInv
    <3> QED BY <3>2, <3>3, <3>5 DEF CycInv
  <2> QED BY <2>5, <2>6
<1>6. CASE /\ Quiet /\ cycWhole' = [this |-> FALSE, last |-> FALSE]
           /\ \/ cycCur' = NoCycle /\ UNCHANGED cycLost
              \/ UNCHANGED cycCur /\ cycLost' = cycLost \cup {cycNow + 1}
  <2>1. ~cycWhole'.this /\ ~cycWhole'.last /\ cycWhole' \in [this : BOOLEAN, last : BOOLEAN]
    BY <1>6
  <2>2. cycLost \subseteq cycLost' /\ cycLost' \subseteq 1 .. CycMax
    <3>1. cycNow + 1 \in 1 .. CycMax
      BY <1>0
    <3> QED BY <1>0, <1>6, <3>1
  <2>3. CycTypeOK'
    BY <1>0, <1>1, <1>2, <1>3, <1>6, <2>1, <2>2 DEF CycTypeOK, Quiet
  <2>4. CycFlowInv'
    <3>1. cycCur'.head # 0 => cycCur' = cycCur
      BY <1>2, <1>6
    <3>2. cycCur'.head # 0 => cycOut.t < cycCur'.t /\ cycCur'.t <= cycTime'
      BY <1>0, <1>1, <3>1 DEF CycFlowInv
    <3> QED BY <1>0, <1>1, <1>6, <3>2, QuietFlow
  <2>5. CyclesMatch'
    BY <1>0, <1>6, <2>1, <2>2 DEF CyclesMatch, CycMatchInv, Quiet
  <2>6. cycCur'.head # 0 =>
          cycCur'.head <= cycNow' /\ cycCur'.head + 1 .. cycNow' \subseteq cycLost'
    <3> SUFFICES ASSUME cycCur'.head # 0
                 PROVE  cycCur'.head <= cycNow' /\ cycCur'.head + 1 .. cycNow' \subseteq cycLost'
      OBVIOUS
    <3>1. cycCur' = cycCur /\ cycLost' = cycLost \cup {cycNow + 1}
      BY <1>2, <1>6
    <3>2. cycCur.head <= cycNow /\ cycCur.head + 1 .. cycNow \subseteq cycLost
      BY <1>0, <3>1 DEF CycMatchInv
    <3>3. cycCur.head + 1 .. cycNow + 1 = (cycCur.head + 1 .. cycNow) \cup {cycNow + 1}
      BY <1>0, <3>2
    <3> QED BY <1>0, <1>1, <3>1, <3>2, <3>3
  <2>7. \A i \in 1 .. CycFrames :
          cycCur'.of[i] # 0 => cycCur'.head <= cycCur'.of[i] /\ cycCur'.of[i] <= cycNow'
    BY <1>0, <1>1, <1>2, <1>6 DEF CycMatchInv
  <2>8. CycMatchInv'
    BY <2>1, <2>5, <2>6, <2>7 DEF CycMatchInv
  <2> QED BY <2>3, <2>4, <2>8 DEF CycInv
<1> QED BY <1>5, <1>6 DEF CycHead, next

\* A frame joins the cycle that is open.
LEMMA CycFrameInv ==
  ASSUME CycInv, CycFrame
  PROVE  CycInv'
<1>0. /\ CycTypeOK /\ CycMatchInv /\ CycFlowInv /\ cycNow \in Nat /\ CycMax \in Nat /\ cycNow > 0
      /\ cycNow \in 0 .. CycMax
      /\ cycAt \in Nat /\ cycAt < CycFrames /\ cycTime \in Nat /\ CycFrames \in Nat \ {0}
      /\ cycCur \in Cycle /\ cycCur.head \in Nat /\ cycCur.t \in Nat
      /\ \A i \in 1 .. CycFrames : cycCur.of[i] \in Nat
  BY CycAssumption DEF CycInv, CycTypeOK, CycFrame, Cycle
<1>1. Quiet /\ cycAt' = cycAt + 1 /\ UNCHANGED <<cycNow, cycTime, cycLost>>
  BY DEF CycFrame
<1>2. cycAt' \in 0 .. CycFrames /\ cycAt' # 0 /\ cycAt + 1 \in 1 .. CycFrames
  BY <1>0, <1>1
<1>3. /\ cycCur' \in Cycle /\ cycCur'.head = cycCur.head /\ cycCur'.t = cycCur.t
      /\ cycWhole' \in [this : BOOLEAN, last : BOOLEAN]
      /\ cycWhole'.this => cycWhole.this
  <2>1. cycWhole \in [this : BOOLEAN, last : BOOLEAN]
    BY <1>0 DEF CycTypeOK
  <2>2. CASE /\ cycCur' = IF cycCur.head = 0 THEN cycCur
                          ELSE [cycCur EXCEPT !.of[cycAt + 1] = cycNow]
             /\ UNCHANGED cycWhole
    <3>1. /\ cycCur' \in Cycle /\ cycCur'.head = cycCur.head /\ cycCur'.t = cycCur.t
      BY <1>0, <1>2, <2>2 DEF Cycle
    <3> QED BY <2>1, <2>2, <3>1
  <2>3. CASE UNCHANGED cycCur /\ cycWhole' = [cycWhole EXCEPT !.this = FALSE]
    BY <1>0, <2>1, <2>3
  <2> QED BY <2>2, <2>3 DEF CycFrame
<1>4. CycTypeOK'
  BY <1>0, <1>1, <1>2, <1>3 DEF CycTypeOK, Quiet
<1>5. CycFlowInv'
  BY <1>0, <1>1, <1>3, QuietFlow DEF CycFlowInv
<1>6. CyclesMatch'
  BY <1>0, <1>1, <1>2 DEF CyclesMatch, CycMatchInv, Quiet
<1>7. \A i \in 1 .. CycFrames :
        \/ cycCur'.of[i] = cycCur.of[i]
        \/ cycCur.head # 0 /\ cycCur'.of[i] = cycNow
  BY <1>0, <1>2 DEF CycFrame, Cycle
<1>8. \A i \in 1 .. CycFrames :
        cycCur'.of[i] # 0 => cycCur'.head <= cycCur'.of[i] /\ cycCur'.of[i] <= cycNow'
  BY <1>0, <1>1, <1>3, <1>7 DEF CycMatchInv
<1>9. cycWhole'.this => \A i \in 1 .. cycAt' : cycCur'.of[i] = cycNow
  <2> SUFFICES ASSUME cycWhole'.this, NEW i \in 1 .. cycAt' PROVE cycCur'.of[i] = cycNow
    OBVIOUS
  <2>1. cycWhole.this /\ cycCur.head = cycNow /\ \A k \in 1 .. cycAt : cycCur.of[k] = cycNow
    BY <1>0, <1>3 DEF CycMatchInv
  <2>2. cycCur' = [cycCur EXCEPT !.of[cycAt + 1] = cycNow]
    <3>1. ~(cycWhole' = [cycWhole EXCEPT !.this = FALSE])
      BY <1>0 DEF CycTypeOK
    <3> QED BY <1>0, <2>1, <3>1 DEF CycFrame
  <2>3. cycCur'.of[cycAt + 1] = cycNow /\ \A k \in 1 .. cycAt : cycCur'.of[k] = cycCur.of[k]
    BY <1>0, <1>2, <2>2 DEF Cycle
  <2>4. i \in 1 .. cycAt \/ i = cycAt + 1
    BY <1>0, <1>1
  <2> QED BY <2>1, <2>3, <2>4
<1>10. CycMatchInv'
  BY <1>0, <1>1, <1>3, <1>6, <1>8, <1>9 DEF CycMatchInv
<1> QED BY <1>4, <1>5, <1>10 DEF CycInv

\* Every step of the bus and of App._on_can preserves the invariant.
LEMMA CycStepInv == CycInv /\ [CycNext]_cycVars => CycInv'
<1> SUFFICES ASSUME CycInv, [CycNext]_cycVars PROVE CycInv'
  OBVIOUS
<1>1. CASE UNCHANGED cycVars
  <2>1. FailedSince' = FailedSince
    BY <1>1 DEF cycVars, FailedSince
  <2>2. CycTypeOK' /\ CycMatchInv'
    BY <1>1 DEF CycInv, cycVars, CycTypeOK, CycMatchInv, CyclesMatch, Full
  <2>3. CycFlowInv'
    BY <1>1, <2>1 DEF CycInv, cycVars, CycFlowInv
  <2> QED BY <2>2, <2>3 DEF CycInv
<1> QED BY <1>1, CycHeadInv, CycFrameInv DEF CycNext

\* The invariant says what was promised.
LEMMA CycInvWhole == CycInv => CyclesMatch /\ PositionsFlow
<1> SUFFICES ASSUME CycInv PROVE PositionsFlow
  BY DEF CycInv, CycMatchInv
<1>1. Cardinality(FailedSince) \in Nat /\ cycMissed \in Nat /\ CycGap \in Nat
  BY FailedFinite, CycAssumption DEF CycInv, CycTypeOK
<1>2. cycMissed < CycGap + Cardinality(FailedSince)
  BY <1>1 DEF CycInv, CycFlowInv
<1> QED BY <1>2 DEF CycInv, CycFlowInv, PositionsFlow, FailedSince

-----------------------------------------------------------------------------
(* The framers.                                                            *)

\* A sequence over a set is one over a larger set.
LEMMA SeqWider ==
  ASSUME NEW T, NEW U, NEW q \in Seq(T), T \in SUBSET U
  PROVE  q \in Seq(U)
<1>1. Len(q) \in Nat /\ q = [i \in 1 .. Len(q) |-> q[i]] /\ \A i \in 1 .. Len(q) : q[i] \in T
  OBVIOUS
<1>2. \A i \in 1 .. Len(q) : q[i] \in U
  BY <1>1
<1>3. [i \in 1 .. Len(q) |-> q[i]] \in Seq(U)
  BY <1>1, <1>2
<1> QED BY <1>1, <1>3

\* The numbers of K below i.
Below(K, i) == {j \in K : j < i}

\* A number of a finite set has a rank, and a larger one a higher rank.
LEMMA RankType ==
  ASSUME NEW K \in SUBSET Nat, IsFiniteSet(K)
  PROVE  \A i \in K : /\ IsFiniteSet(Below(K, i))
                      /\ Cardinality(Below(K, i)) \in 0 .. Cardinality(K) - 1
<1> TAKE i \in K
<1>1. Below(K, i) \subseteq K \ {i}
  BY DEF Below
<1>2. IsFiniteSet(K \ {i}) /\ Cardinality(K \ {i}) = Cardinality(K) - 1
  BY FS_RemoveElement
<1>3. IsFiniteSet(Below(K, i)) /\ Cardinality(Below(K, i)) <= Cardinality(K) - 1
  BY <1>1, <1>2, FS_Subset
<1>4. Cardinality(Below(K, i)) \in Nat /\ Cardinality(K) \in Nat
  BY <1>3, FS_CardinalityType
<1> QED BY <1>3, <1>4

\* Ranks rise with the numbers.
LEMMA RankRises ==
  ASSUME NEW K \in SUBSET Nat, IsFiniteSet(K), NEW i \in K, NEW j \in K, i < j
  PROVE  Cardinality(Below(K, i)) < Cardinality(Below(K, j))
<1>1. Below(K, i) \cup {i} \subseteq Below(K, j) /\ i \notin Below(K, i)
  <2>1. i \in Nat /\ j \in Nat /\ \A k \in K : k \in Nat
    OBVIOUS
  <2>2. \A k \in K : k < i => k < j
    BY <2>1
  <2>3. ~(i < i)
    BY <2>1
  <2> QED BY <2>2, <2>3, Zenon DEF Below
<1>2. IsFiniteSet(Below(K, i)) /\ IsFiniteSet(Below(K, j))
      /\ Cardinality(Below(K, i)) \in Nat /\ Cardinality(Below(K, j)) \in Nat
  BY RankType, FS_CardinalityType
<1>3. Cardinality(Below(K, i) \cup {i}) = Cardinality(Below(K, i)) + 1
  BY <1>1, <1>2, FS_AddElement
<1>4. Cardinality(Below(K, i) \cup {i}) <= Cardinality(Below(K, j))
  BY <1>1, <1>2, FS_Subset
<1> QED BY <1>2, <1>3, <1>4

\* The n-th number of a finite set has n - 1 below it, and every number is one.
LEMMA NthIs ==
  ASSUME NEW K \in SUBSET Nat, IsFiniteSet(K)
  PROVE  /\ Cardinality(K) \in Nat
         /\ \A n \in 1 .. Cardinality(K) :
              Nth(K, n) \in K /\ Cardinality(Below(K, Nth(K, n))) = n - 1
         /\ \A i \in K : \E n \in 1 .. Cardinality(K) : Nth(K, n) = i
<1> DEFINE c == Cardinality(K)
           rank == [i \in K |-> Cardinality(Below(K, i))]
<1>1. c \in Nat
  BY FS_CardinalityType
<1>2. IsFiniteSet(0 .. c - 1) /\ Cardinality(0 .. c - 1) = c
  <2>1. c - 1 \in Int /\ 0 \in Int
    BY <1>1
  <2>2. IsFiniteSet(0 .. c - 1) /\ Cardinality(0 .. c - 1) = IF 0 > c - 1 THEN 0 ELSE c - 1 - 0 + 1
    BY <2>1, FS_Interval
  <2> HIDE DEF c
  <2> QED BY <1>1, <2>2
<1>3. \A i \in K : rank[i] \in 0 .. c - 1
  BY RankType
<1>4. \A i, j \in K : rank[i] = rank[j] => i = j
  <2> SUFFICES ASSUME NEW i \in K, NEW j \in K, i < j PROVE rank[i] # rank[j]
    <3>1. \A i, j \in K : i < j => rank[i] # rank[j]
      BY Zenon
    <3>2. \A i, j \in K : i < j \/ j < i \/ i = j
      OBVIOUS
    <3> QED BY <3>1, <3>2, Zenon
  <2>1. rank[i] < rank[j]
    BY RankRises
  <2>2. rank[i] \in Nat /\ rank[j] \in Nat
    BY <1>3
  <2> HIDE DEF rank
  <2> QED BY <2>1, <2>2
<1>5. rank \in Injection(K, 0 .. c - 1)
  BY <1>3, <1>4 DEF Injection, IsInjective
<1>6. rank \in Surjection(K, 0 .. c - 1)
  BY <1>2, <1>5, FS_Injection
<1>7. \A n \in 1 .. c : \E i \in K : Cardinality(Below(K, i)) = n - 1
  <2> TAKE n \in 1 .. c
  <2>1. n - 1 \in 0 .. c - 1
    BY <1>1
  <2> QED BY <1>6, <2>1 DEF Surjection
<1>8. \A n \in 1 .. c : Nth(K, n) \in K /\ Cardinality(Below(K, Nth(K, n))) = n - 1
  BY <1>7 DEF Nth, Below
<1>9. ASSUME NEW i \in K PROVE \E n \in 1 .. c : Nth(K, n) = i
  <2>1. rank[i] \in 0 .. c - 1
    BY <1>3
  <2>2. rank[i] + 1 \in 1 .. c /\ (rank[i] + 1) - 1 = rank[i]
    BY <1>1, <2>1
  <2>3. Nth(K, rank[i] + 1) \in K /\ rank[Nth(K, rank[i] + 1)] = rank[i]
    <3> DEFINE n == rank[i] + 1
    <3>1. n \in 1 .. c /\ n - 1 = rank[i]
      BY <2>2
    <3> HIDE DEF n
    <3>2. Nth(K, n) \in K /\ Cardinality(Below(K, Nth(K, n))) = rank[i]
      BY <1>8, <3>1
    <3>3. rank[Nth(K, n)] = rank[i]
      BY <3>2
    <3> QED BY <3>2, <3>3 DEF n
  <2> HIDE DEF rank
  <2> QED BY <1>4, <2>2, <2>3
<1> QED BY <1>1, <1>8, <1>9

\* What it is to be ahead.
LEMMA AheadIs ==
  ASSUME NEW v, NEW i, NEW j \in DOMAIN v
  PROVE  j \in Ahead(v, i) <=> v[j] < v[i] \/ (v[j] = v[i] /\ j < i)
  BY Zenon DEF Ahead

\* Places of a sequence of numbers have ranks of their own, and every rank below
\* the length is that of a place.
LEMMA Ranks ==
  ASSUME NEW v \in Seq(Nat)
  PROVE  /\ Len(v) \in Nat /\ DOMAIN v = 1 .. Len(v)
         /\ \A i \in 1 .. Len(v) : /\ IsFiniteSet(Ahead(v, i))
                                  /\ Cardinality(Ahead(v, i)) \in 0 .. Len(v) - 1
         /\ \A i, j \in 1 .. Len(v) :
              j \in Ahead(v, i) <=> Cardinality(Ahead(v, j)) < Cardinality(Ahead(v, i))
         /\ \A k \in 0 .. Len(v) - 1 :
              OfRank(v, k) \in 1 .. Len(v) /\ Cardinality(Ahead(v, OfRank(v, k))) = k
         /\ \A i \in 1 .. Len(v) : OfRank(v, Cardinality(Ahead(v, i))) = i
<1> DEFINE n == Len(v)
           rank == [i \in 1 .. n |-> Cardinality(Ahead(v, i))]
<1>1. /\ n \in Nat /\ DOMAIN v = 1 .. n /\ \A i \in 1 .. n : v[i] \in Nat
  OBVIOUS
<1> HIDE DEF n
<1>2. /\ IsFiniteSet(1 .. n) /\ Cardinality(1 .. n) = n
      /\ IsFiniteSet(0 .. n - 1) /\ Cardinality(0 .. n - 1) = n
  <2>1. IsFiniteSet(1 .. n) /\ Cardinality(1 .. n) = IF 1 > n THEN 0 ELSE n - 1 + 1
    BY <1>1, FS_Interval
  <2>2. IsFiniteSet(0 .. n - 1) /\ Cardinality(0 .. n - 1) = IF 0 > n - 1 THEN 0 ELSE n - 1 - 0 + 1
    <3>1. n - 1 \in Int /\ 0 \in Int
      BY <1>1
    <3> QED BY <3>1, FS_Interval
  <2> QED BY <1>1, <2>1, <2>2
<1>3. \A i \in 1 .. n : Ahead(v, i) \subseteq (1 .. n) \ {i}
  BY <1>1 DEF Ahead
<1>4. \A i \in 1 .. n : IsFiniteSet((1 .. n) \ {i}) /\ Cardinality((1 .. n) \ {i}) = n - 1
  BY <1>2, FS_RemoveElement
<1>5. \A i \in 1 .. n : IsFiniteSet(Ahead(v, i)) /\ rank[i] \in 0 .. n - 1
  <2> TAKE i \in 1 .. n
  <2>1. IsFiniteSet(Ahead(v, i)) /\ Cardinality(Ahead(v, i)) <= Cardinality((1 .. n) \ {i})
    BY <1>3, <1>4, FS_Subset
  <2>2. Cardinality(Ahead(v, i)) \in Nat
    BY <2>1, FS_CardinalityType
  <2>3. Cardinality(Ahead(v, i)) <= n - 1
    BY <1>4, <2>1
  <2> QED BY <1>1, <2>1, <2>2, <2>3
<1>6. ASSUME NEW i \in 1 .. n, NEW j \in 1 .. n, j \in Ahead(v, i)
      PROVE  rank[j] < rank[i]
  <2>1. Ahead(v, j) \subseteq Ahead(v, i)
    BY <1>1, <1>6 DEF Ahead
  <2>2. Ahead(v, j) \cup {j} \subseteq Ahead(v, i) /\ j \notin Ahead(v, j)
    BY <1>3, <1>6, <2>1
  <2>3. Cardinality(Ahead(v, j) \cup {j}) = Cardinality(Ahead(v, j)) + 1
    BY <1>5, <2>2, FS_AddElement
  <2>4. Cardinality(Ahead(v, j) \cup {j}) <= Cardinality(Ahead(v, i))
    BY <1>5, <2>2, FS_Subset
  <2>5. Cardinality(Ahead(v, j)) \in Nat /\ Cardinality(Ahead(v, i)) \in Nat
    BY <1>5, FS_CardinalityType
  <2> QED BY <2>3, <2>4, <2>5
<1>7. ASSUME NEW i \in 1 .. n, NEW j \in 1 .. n, i # j
      PROVE  i \in Ahead(v, j) \/ j \in Ahead(v, i)
  BY <1>1, <1>7 DEF Ahead
<1>8. \A i \in 1 .. n : rank[i] \in Nat
  BY <1>5
<1>9. \A i \in 1 .. n : rank[i] = Cardinality(Ahead(v, i))
  OBVIOUS
<1>10. rank \in Injection(1 .. n, 0 .. n - 1)
  <2>1. \A i, j \in 1 .. n : rank[i] = rank[j] => i = j
    <3> HIDE DEF rank
    <3> QED BY <1>6, <1>7, <1>8
  <2> QED BY <1>5, <2>1 DEF Injection, IsInjective
<1>11. rank \in Surjection(1 .. n, 0 .. n - 1)
  BY <1>2, <1>10, FS_Injection
<1> HIDE DEF rank
<1>12. \A i, j \in 1 .. n : j \in Ahead(v, i) <=> rank[j] < rank[i]
  BY <1>6, <1>7, <1>8
<1>13. \A k \in 0 .. n - 1 : \E i \in 1 .. n : rank[i] = k
  BY <1>11 DEF Surjection
<1>14. \A k \in 0 .. n - 1 : OfRank(v, k) \in 1 .. n /\ rank[OfRank(v, k)] = k
  <2> TAKE k \in 0 .. n - 1
  <2>1. \E i \in DOMAIN v : Cardinality(Ahead(v, i)) = k
    BY <1>1, <1>9, <1>13
  <2>2. OfRank(v, k) \in DOMAIN v /\ Cardinality(Ahead(v, OfRank(v, k))) = k
    BY <2>1 DEF OfRank
  <2> QED BY <1>1, <1>9, <2>2
<1>15. \A i \in 1 .. n : OfRank(v, rank[i]) = i
  <2> TAKE i \in 1 .. n
  <2>1. rank[i] \in 0 .. n - 1
    BY <1>5
  <2>2. OfRank(v, rank[i]) \in 1 .. n /\ rank[OfRank(v, rank[i])] = rank[i]
    BY <1>14, <2>1
  <2> QED BY <1>10, <2>2 DEF Injection, IsInjective
<1> QED BY <1>1, <1>5, <1>9, <1>12, <1>14, <1>15 DEF n

\* They come in order.
LEMMA NthRises ==
  ASSUME NEW K \in SUBSET Nat, IsFiniteSet(K),
         NEW m \in 1 .. Cardinality(K), NEW n \in 1 .. Cardinality(K), m < n
  PROVE  Nth(K, m) < Nth(K, n)
<1>1. /\ Cardinality(K) \in Nat
      /\ Nth(K, m) \in K /\ Cardinality(Below(K, Nth(K, m))) = m - 1
      /\ Nth(K, n) \in K /\ Cardinality(Below(K, Nth(K, n))) = n - 1
  BY NthIs
<1>2. m \in Nat /\ n \in Nat
  BY <1>1
<1>3. ASSUME Nth(K, n) < Nth(K, m) PROVE n - 1 < m - 1
  <2>1. Cardinality(Below(K, Nth(K, n))) < Cardinality(Below(K, Nth(K, m)))
    BY <1>1, <1>3, RankRises
  <2> QED BY <1>1, <2>1
<1>4. Nth(K, n) # Nth(K, m)
  BY <1>1, <1>2
<1>5. Nth(K, n) \in Nat /\ Nth(K, m) \in Nat
  BY <1>1
<1> QED BY <1>2, <1>3, <1>4, <1>5

\* InTurn is the set as a sequence, in order.
LEMMA InTurnIs ==
  ASSUME NEW K \in SUBSET Nat, IsFiniteSet(K)
  PROVE  /\ InTurn(K) \in Seq(K) /\ Len(InTurn(K)) = Cardinality(K)
         /\ InOrder(InTurn(K))
         /\ {InTurn(K)[i] : i \in DOMAIN InTurn(K)} = K
<1> DEFINE s == InTurn(K)
           c == Cardinality(K)
<1>1. c \in Nat /\ \A n \in 1 .. c : Nth(K, n) \in K
  BY NthIs
<1>2. s = [n \in 1 .. c |-> Nth(K, n)]
  BY DEF InTurn
<1>3. DOMAIN s = 1 .. c /\ \A n \in 1 .. c : s[n] = Nth(K, n)
  BY <1>2
<1>4. s \in Seq(K) /\ Len(s) = c
  <2> HIDE DEF c
  <2> QED BY <1>1, <1>2
<1>5. InOrder(s)
  BY <1>1, <1>3, NthRises DEF InOrder
<1>6. {s[i] : i \in DOMAIN s} = K
  <2>1. \A i \in K : \E n \in 1 .. c : Nth(K, n) = i
    BY NthIs
  <2> HIDE DEF s, c
  <2> QED BY <1>1, <1>3, <2>1
<1> QED BY <1>4, <1>5, <1>6

-----------------------------------------------------------------------------
\* What the assumption says of the wire under way.
LEMMA WireIs ==
  ASSUME frmWire \in FrmWires
  PROVE  /\ Len(frmWire) \in Nat /\ DOMAIN frmWire = 1 .. Len(frmWire)
         /\ \A i \in 1 .. Len(frmWire) :
              /\ frmWire[i].sync \in BOOLEAN /\ frmWire[i].good \in BOOLEAN
              /\ frmWire[i].total \in Nat /\ Ends(i) \in Int
              /\ frmWire[i].good => frmWire[i].sync
              /\ frmWire[i].sync => /\ FrmOverhead <= frmWire[i].total
                                    /\ frmWire[i].total <= FrmLongest
                                    /\ i <= Ends(i)
         /\ FrmOverhead \in Nat /\ FrmOverhead > 0 /\ FrmPayload \in Nat /\ FrmLongest \in Nat
<1> DEFINE L == Len(frmWire)
<1>1. L \in Nat /\ DOMAIN frmWire = 1 .. L
  BY FrmAssumption DEF OnWire
<1>2. \A i \in 1 .. L :
        \/ frmWire[i] = NoSync
        \/ \E n \in FrmOverhead .. FrmLongest, g \in BOOLEAN : frmWire[i] = Sync(n, g)
  BY <1>1, FrmAssumption
<1>3. FrmOverhead \in Nat /\ FrmOverhead > 0 /\ FrmPayload \in Nat /\ FrmLongest \in Nat
  BY FrmAssumption
<1>4. ASSUME NEW i \in 1 .. L
      PROVE  /\ frmWire[i].sync \in BOOLEAN /\ frmWire[i].good \in BOOLEAN
             /\ frmWire[i].total \in Nat /\ Ends(i) \in Int
             /\ frmWire[i].good => frmWire[i].sync
             /\ frmWire[i].sync => /\ FrmOverhead <= frmWire[i].total
                                   /\ frmWire[i].total <= FrmLongest
                                   /\ i <= Ends(i)
  <2>1. CASE frmWire[i] = NoSync
    <3>1. frmWire[i].sync = FALSE /\ frmWire[i].good = FALSE /\ frmWire[i].total = 0
      BY <2>1 DEF NoSync
    <3>2. frmWire[i].total \in Nat /\ i + frmWire[i].total - 1 \in Int
      BY <1>1, <3>1
    <3> QED BY <3>1, <3>2, Zenon DEF Ends
  <2>2. CASE \E n \in FrmOverhead .. FrmLongest, g \in BOOLEAN : frmWire[i] = Sync(n, g)
    <3>1. PICK n \in FrmOverhead .. FrmLongest, g \in BOOLEAN : frmWire[i] = Sync(n, g)
      BY <2>2
    <3>2. frmWire[i].sync = TRUE /\ frmWire[i].good = g /\ frmWire[i].total = n
      BY <3>1 DEF Sync
    <3>3. n \in Nat /\ FrmOverhead <= n /\ n <= FrmLongest /\ i <= i + n - 1 /\ i + n - 1 \in Int
      BY <1>1, <1>3
    <3> QED BY <3>2, <3>3 DEF Ends
  <2> QED BY <1>2, <2>1, <2>2
<1> QED BY <1>1, <1>3, <1>4

\* Where a frame may begin next.
Starts(t, fed) == {i \in t + 1 .. fed : frmWire[i].sync}
First(t, fed) == Min(Starts(t, fed))

\* The first start is the first.
LEMMA FirstIs ==
  ASSUME frmWire \in FrmWires, NEW fed \in 0 .. Len(frmWire), NEW t \in 0 .. Len(frmWire),
         Starts(t, fed) # {}
  PROVE  /\ First(t, fed) \in t + 1 .. fed /\ First(t, fed) \in 1 .. Len(frmWire)
         /\ frmWire[First(t, fed)].sync
         /\ \A i \in t + 1 .. fed : i < First(t, fed) => ~frmWire[i].sync
<1>1. Len(frmWire) \in Nat
  BY WireIs
<1>2. Starts(t, fed) \in SUBSET Nat
  BY <1>1 DEF Starts
<1>3. \E m \in Starts(t, fed) : \A k \in Starts(t, fed) : m <= k
  BY <1>2, LeastOf
<1>4. /\ First(t, fed) \in Starts(t, fed)
      /\ \A k \in Starts(t, fed) : First(t, fed) <= k
  BY <1>3 DEF First, Min
<1>5. /\ First(t, fed) \in t + 1 .. fed /\ First(t, fed) \in 1 .. Len(frmWire)
      /\ frmWire[First(t, fed)].sync
  BY <1>1, <1>4 DEF Starts
<1>6. ASSUME NEW i \in t + 1 .. fed, i < First(t, fed) PROVE ~frmWire[i].sync
  <2>1. i \in Nat /\ First(t, fed) \in Nat
    BY <1>1, <1>5
  <2>2. i \notin Starts(t, fed)
    BY <1>4, <1>6, <2>1
  <2> QED BY <2>2 DEF Starts
<1> QED BY <1>5, <1>6

\* A turn, by its cases.
LEMMA TurnIs ==
  ASSUME NEW S, NEW t, NEW fed
  PROVE  LET s == First(t, fed)
         IN  Turn(S, t, fed) =
               IF Starts(t, fed) = {} THEN [taken |-> fed, out |-> <<>>, raised |-> FALSE]
               ELSE IF fed - s + 1 < FrmOverhead \/ Ends(s) > fed
                    THEN [taken |-> s - 1, out |-> <<>>, raised |-> FALSE]
               ELSE IF ~frmWire[s].good THEN S[s]
               ELSE IF frmWire[s].total < FrmOverhead + FrmPayload
                    THEN [taken |-> s - 1, out |-> <<>>, raised |-> TRUE]
               ELSE [S[Ends(s)] EXCEPT !.out = <<s>> \o @]
  BY DEF Turn, Starts, First

\* A turn depends on later ones only.
LEMMA TurnLooksAhead ==
  ASSUME frmWire \in FrmWires, NEW fed \in 0 .. Len(frmWire), NEW t \in 0 .. Len(frmWire),
         NEW S, NEW R, \A u \in t + 1 .. Len(frmWire) : S[u] = R[u]
  PROVE  Turn(S, t, fed) = Turn(R, t, fed)
<1> DEFINE s == First(t, fed)
<1>1. CASE Starts(t, fed) = {}
  BY <1>1, TurnIs
<1>2. CASE Starts(t, fed) # {} /\ Ends(s) > fed
  BY <1>2, TurnIs
<1>3. CASE Starts(t, fed) # {} /\ ~(Ends(s) > fed)
  <2>1. s \in t + 1 .. fed /\ s \in 1 .. Len(frmWire) /\ frmWire[s].sync
    BY <1>3, FirstIs
  <2>2. Len(frmWire) \in Nat /\ s <= Ends(s) /\ Ends(s) \in Int
    BY <2>1, WireIs
  <2>3. s \in t + 1 .. Len(frmWire) /\ Ends(s) \in t + 1 .. Len(frmWire)
    BY <1>3, <2>1, <2>2
  <2>4. S[s] = R[s] /\ S[Ends(s)] = R[Ends(s)]
    BY <2>3
  <2> HIDE DEF s
  <2> QED BY <2>4, TurnIs DEF s
<1> QED BY <1>1, <1>2, <1>3

\* So the turns are well defined, from the last to the first.
LEMMA ScanIs ==
  ASSUME frmWire \in FrmWires, NEW fed \in 0 .. Len(frmWire)
  PROVE  \E S : /\ \A t \in 0 .. Len(frmWire) : S[t] = Turn(S, t, fed)
                /\ \A t \in 0 .. Len(frmWire) : Scan(t, fed) = S[t]
<1> DEFINE L == Len(frmWire)
           From(k, F) == /\ F = [t \in 0 .. L |-> F[t]]
                         /\ \A t \in 0 .. L : t > L - k => F[t] = Turn(F, t, fed)
<1>1. L \in Nat
  BY WireIs
<1>2. \A k \in Nat : \E F : From(k, F)
  <2> DEFINE Bad == {k \in Nat : ~ \E F : From(k, F)}
  <2> SUFFICES ASSUME Bad # {} PROVE FALSE
    OBVIOUS
  <2>1. PICK m \in Bad : \A k \in Bad : m <= k
    <3> HIDE DEF Bad
    <3>1. Bad \in SUBSET Nat
      BY DEF Bad
    <3> QED BY <3>1, LeastOf
  <2>2. m # 0
    <3> DEFINE F0 == [t \in 0 .. L |-> 0]
    <3>1. \A t \in 0 .. L : ~(t > L - 0)
      BY <1>1
    <3>2. From(0, F0)
      BY <3>1
    <3> QED BY <3>2
  <2>3. PICK F : From(m - 1, F)
    <3>1. m - 1 \in Nat /\ ~(m <= m - 1)
      BY <2>2
    <3> QED BY <2>1, <3>1
  <2> DEFINE u == (L - m) + 1
             G == [t \in 0 .. L |-> IF t = u THEN Turn(F, u, fed) ELSE F[t]]
  <2>4. u \in Int /\ L - (m - 1) = u /\ \A t \in 0 .. L : t > L - m => t = u \/ t > u
    BY <1>1
  <2>5. \A t \in 0 .. L : G[t] = IF t = u THEN Turn(F, u, fed) ELSE F[t]
    OBVIOUS
  <2>6. G = [t \in 0 .. L |-> G[t]]
    OBVIOUS
  <2>7. ASSUME NEW t \in 0 .. L, t > L - m PROVE G[t] = Turn(G, t, fed)
    <3>1. \A v \in t + 1 .. L : G[v] = F[v]
      <4>1. \A v \in t + 1 .. L : v \in 0 .. L /\ v # u
        BY <1>1, <2>4, <2>7
      <4> QED BY <2>5, <4>1
    <3> HIDE DEF G
    <3>2. Turn(F, t, fed) = Turn(G, t, fed)
      BY <3>1, TurnLooksAhead
    <3>3. CASE t = u
      BY <2>5, <3>2, <3>3
    <3>4. CASE t # u
      BY <2>3, <2>4, <2>5, <2>7, <3>2, <3>4
    <3> QED BY <3>3, <3>4
  <2> HIDE DEF G
  <2>8. From(m, G)
    BY <2>6, <2>7
  <2> QED BY <2>8
<1>3. PICK S : From(L + 1, S)
  BY <1>1, <1>2
<1>4. \A t \in 0 .. L : S[t] = Turn(S, t, fed)
  BY <1>1, <1>3
<1>5. S = [t \in 0 .. L |-> Turn(S, t, fed)]
  BY <1>3, <1>4
<1> DEFINE C == CHOOSE R : R = [t \in 0 .. L |-> Turn(R, t, fed)]
<1>6. C = [t \in 0 .. L |-> Turn(C, t, fed)]
  BY <1>5
<1>7. \A t : Scan(t, fed) = C[t]
  BY DEF Scan
<1> HIDE DEF C
<1>8. \A t \in 0 .. L : C[t] = Turn(C, t, fed)
  BY <1>6
<1> QED BY <1>7, <1>8

\* The loop ends with an empty buffer, or one that begins with a frame that is not
\* all there.
StopsAt(taken, fed) ==
  \/ taken = fed
  \/ /\ taken + 1 <= fed /\ frmWire[taken + 1].sync
     /\ fed - taken < FrmOverhead \/ Ends(taken + 1) > fed

Scanned(t, fed) == [taken : t .. fed, out : Seq(1 .. Len(frmWire)), raised : BOOLEAN]

\* What the turns from t on return.
ScanOK(r, t, fed) ==
  /\ r \in Scanned(t, fed)
  /\ \A k \in DOMAIN r.out : /\ t < r.out[k] /\ r.out[k] <= r.taken
                             /\ r.out[k] \in GoodFrames /\ Ends(r.out[k]) <= fed
  /\ InOrder(r.out)
  /\ r.raised \/ StopsAt(r.taken, fed)
  /\ \A i \in GoodFrames : t < i /\ i <= r.taken => \E k \in DOMAIN r.out : r.out[k] = i
  /\ NoShortMessages => ~r.raised

\* A turn that ends the loop.
LEMMA TurnEnds ==
  ASSUME frmWire \in FrmWires, NEW fed \in 0 .. Len(frmWire), NEW t \in 0 .. fed,
         NEW taken \in t .. fed, NEW raised \in BOOLEAN,
         \A i \in t + 1 .. taken : ~frmWire[i].sync,
         raised \/ StopsAt(taken, fed), NoShortMessages => ~raised
  PROVE  ScanOK([taken |-> taken, out |-> <<>>, raised |-> raised], t, fed)
<1> DEFINE r == [taken |-> taken, out |-> <<>>, raised |-> raised]
<1>1. r \in Scanned(t, fed)
  BY DEF Scanned
<1>2. r.taken = taken /\ r.out = <<>> /\ r.raised = raised /\ DOMAIN r.out = {}
  OBVIOUS
<1>3. InOrder(r.out)
  BY <1>2 DEF InOrder
<1>4. \A i \in GoodFrames : ~(t < i /\ i <= taken)
  <2> SUFFICES ASSUME NEW i \in GoodFrames, t < i, i <= taken PROVE FALSE
    OBVIOUS
  <2>1. i \in 1 .. Len(frmWire) /\ frmWire[i].good
    BY WireIs DEF GoodFrames
  <2>2. frmWire[i].sync
    BY <2>1, WireIs
  <2>3. i \in t + 1 .. taken
    BY <2>1, WireIs
  <2> QED BY <2>2, <2>3
<1> HIDE DEF r
<1> QED BY <1>1, <1>2, <1>3, <1>4, Zenon DEF ScanOK, r

\* A turn that passes a false start.
LEMMA TurnPasses ==
  ASSUME frmWire \in FrmWires, NEW fed \in 0 .. Len(frmWire), NEW t \in 0 .. fed,
         NEW s \in t + 1 .. fed, ~frmWire[s].good,
         \A i \in t + 1 .. fed : i < s => ~frmWire[i].sync,
         NEW r, ScanOK(r, s, fed)
  PROVE  ScanOK(r, t, fed)
<1>1. Len(frmWire) \in Nat
  BY WireIs
<1>2. /\ r \in Scanned(t, fed) /\ r.taken \in Int
  BY <1>1 DEF ScanOK, Scanned
<1>3. \A k \in DOMAIN r.out : t < r.out[k]
  <2>1. \A k \in DOMAIN r.out : s < r.out[k] /\ r.out[k] \in 1 .. Len(frmWire)
    BY DEF ScanOK, Scanned
  <2> QED BY <1>1, <2>1
<1>4. \A i \in GoodFrames : t < i /\ i <= r.taken => s < i
  <2> SUFFICES ASSUME NEW i \in GoodFrames, t < i, i <= r.taken, ~(s < i) PROVE FALSE
    OBVIOUS
  <2>1. i \in 1 .. Len(frmWire) /\ frmWire[i].good /\ frmWire[i].sync
    BY WireIs DEF GoodFrames
  <2>2. i # s
    BY <2>1
  <2>3. i < s /\ i \in t + 1 .. fed
    BY <1>1, <2>1, <2>2
  <2> QED BY <2>1, <2>3
<1> QED BY <1>2, <1>3, <1>4, Zenon DEF ScanOK

\* What a sequence is with an element before it.
LEMMA Prefixed ==
  ASSUME NEW S, NEW q \in Seq(S), NEW x \in S
  PROVE  /\ <<x>> \o q \in Seq(S) /\ Len(<<x>> \o q) = Len(q) + 1 /\ Len(q) \in Nat
         /\ (<<x>> \o q)[1] = x
         /\ \A k \in 1 .. Len(q) : (<<x>> \o q)[k + 1] = q[k]
         /\ \A k \in 1 .. Len(q) + 1 : k # 1 => k - 1 \in 1 .. Len(q) /\ (<<x>> \o q)[k] = q[k - 1]
  OBVIOUS

\* A result with another sequence of messages.
LEMMA OutReplaced ==
  ASSUME NEW A, NEW B, NEW C, NEW r \in [taken : A, out : B, raised : C], NEW x
  PROVE  [r EXCEPT !.out = x] = [taken |-> r.taken, out |-> x, raised |-> r.raised]
  OBVIOUS

\* A turn that takes a message.
LEMMA TurnTakes ==
  ASSUME frmWire \in FrmWires, NEW fed \in 0 .. Len(frmWire), NEW t \in 0 .. fed,
         NEW s \in t + 1 .. fed, s \in GoodFrames, Ends(s) \in s .. fed,
         \A i \in t + 1 .. fed : i < s => ~frmWire[i].sync,
         NEW r, ScanOK(r, Ends(s), fed)
  PROVE  ScanOK([r EXCEPT !.out = <<s>> \o @], t, fed)
<1> DEFINE L == Len(frmWire)
           e == Ends(s)
           p == [r EXCEPT !.out = <<s>> \o @]
<1>1. L \in Nat /\ s \in 1 .. L /\ e \in Int /\ DOMAIN frmWire = 1 .. L
  BY WireIs
<1>2. /\ r \in Scanned(e, fed) /\ r.out \in Seq(1 .. L) /\ r.taken \in e .. fed /\ r.raised \in BOOLEAN
  BY DEF ScanOK, Scanned
<1>3. /\ p = [taken |-> r.taken, out |-> <<s>> \o r.out, raised |-> r.raised]
      /\ p.out = <<s>> \o r.out /\ p.taken = r.taken /\ p.raised = r.raised
  <2>1. p = [r EXCEPT !.out = <<s>> \o r.out]
    OBVIOUS
  <2> HIDE DEF p
  <2>2. p = [taken |-> r.taken, out |-> <<s>> \o r.out, raised |-> r.raised]
    BY <1>2, <2>1, OutReplaced DEF Scanned
  <2> QED BY <2>2
<1> HIDE DEF p
<1>4. /\ p.out \in Seq(1 .. L) /\ Len(p.out) = Len(r.out) + 1 /\ Len(r.out) \in Nat
      /\ p.out[1] = s
      /\ \A k \in 1 .. Len(r.out) : p.out[k + 1] = r.out[k]
      /\ \A k \in 1 .. Len(r.out) + 1 : k # 1 => /\ k - 1 \in 1 .. Len(r.out)
                                                 /\ p.out[k] = r.out[k - 1]
  BY <1>1, <1>2, <1>3, Prefixed
<1>5. p \in Scanned(t, fed)
  <2>1. r.taken \in t .. fed
    BY <1>1, <1>2
  <2> QED BY <1>2, <1>3, <1>4, <2>1 DEF Scanned
<1>6. DOMAIN p.out = 1 .. Len(r.out) + 1 /\ DOMAIN r.out = 1 .. Len(r.out)
  BY <1>2, <1>4
<1>13. t \in Int /\ s \in Int /\ fed \in Int /\ t < s /\ s <= e /\ e <= fed
  BY <1>1
<1>7. \A k \in 1 .. Len(r.out) : /\ e < r.out[k] /\ r.out[k] <= r.taken
                                 /\ r.out[k] \in GoodFrames /\ Ends(r.out[k]) <= fed
  BY <1>6 DEF ScanOK
<1>8. ASSUME NEW k \in 1 .. Len(r.out) + 1
      PROVE  /\ t < p.out[k] /\ p.out[k] <= p.taken
             /\ p.out[k] \in GoodFrames /\ Ends(p.out[k]) <= fed
  <2>1. CASE k = 1
    <3>1. p.out[k] = s /\ s <= p.taken
      BY <1>2, <1>3, <1>4, <1>13, <2>1
    <3>2. t < s /\ s \in GoodFrames /\ Ends(s) <= fed
      BY <1>13
    <3> QED BY <3>1, <3>2, Zenon
  <2>2. CASE k # 1
    <3>0. k - 1 \in 1 .. Len(r.out) /\ p.out[k] = r.out[k - 1]
      BY <1>4, <2>2
    <3>1. k - 1 \in 1 .. Len(r.out) /\ p.out[k] = r.out[k - 1] /\ r.out[k - 1] \in 1 .. L
      BY <1>2, <1>6, <3>0
    <3>2. e < r.out[k - 1]
      BY <1>7, <3>1
    <3>3. t < p.out[k]
      BY <1>1, <3>1, <3>2
    <3> QED BY <1>3, <1>7, <3>1, <3>3
  <2> QED BY <2>1, <2>2
<1>9. InOrder(p.out)
  <2> SUFFICES ASSUME NEW i \in 1 .. Len(r.out) + 1, NEW j \in 1 .. Len(r.out) + 1, i < j
               PROVE  p.out[i] < p.out[j]
    BY <1>6 DEF InOrder
  <2>1. j # 1 /\ j - 1 \in 1 .. Len(r.out) /\ p.out[j] = r.out[j - 1] /\ r.out[j - 1] \in 1 .. L
    <3>1. j # 1
      BY <1>4
    <3>2. j - 1 \in 1 .. Len(r.out) /\ p.out[j] = r.out[j - 1]
      BY <1>4, <3>1
    <3> QED BY <1>2, <1>6, <3>1, <3>2
  <2>2. CASE i = 1
    <3>1. e < r.out[j - 1]
      BY <1>7, <2>1
    <3>2. p.out[i] = s /\ r.out[j - 1] \in Int
      BY <1>1, <1>4, <2>1, <2>2
    <3> QED BY <1>13, <2>1, <3>1, <3>2
  <2>3. CASE i # 1
    <3>1. i - 1 \in 1 .. Len(r.out) /\ p.out[i] = r.out[i - 1] /\ i - 1 < j - 1
      BY <1>4, <2>3
    <3>2. r.out[i - 1] < r.out[j - 1]
      BY <1>6, <2>1, <3>1 DEF ScanOK, InOrder
    <3> QED BY <2>1, <3>1, <3>2
  <2> QED BY <2>2, <2>3
<1>10. ASSUME NEW i \in GoodFrames, t < i, i <= p.taken
       PROVE  \E k \in DOMAIN p.out : p.out[k] = i
  <2>1. i \in 1 .. L /\ frmWire[i].good /\ frmWire[i].sync
    BY WireIs DEF GoodFrames
  <2>2. CASE i = s
    <3>1. 1 \in DOMAIN p.out
      BY <1>4, <1>6
    <3> QED BY <1>4, <2>2, <3>1
  <2>3. CASE i # s
    <3>1. ~(i < s)
      <4>1. r.taken \in Int
        BY <1>1, <1>2
      <4>2. i \in t + 1 .. fed
        BY <1>1, <1>2, <1>3, <1>10, <2>1, <4>1
      <4> QED BY <2>1, <4>2
    <3>2. s < i
      BY <1>1, <2>1, <2>3, <3>1
    <3>3. i >= s + frmWire[s].total
      <4>1. FramesApart(frmWire)
        BY FrmAssumption
      <4>2. frmWire[s].good
        BY DEF GoodFrames
      <4> QED BY <1>1, <2>1, <3>2, <4>1, <4>2 DEF FramesApart
    <3>4. e < i
      <4>1. frmWire[s].total \in Nat
        BY <1>1, WireIs
      <4> QED BY <1>1, <2>1, <3>3, <4>1 DEF Ends
    <3>5. PICK k \in DOMAIN r.out : r.out[k] = i
      <4>1. \A m \in GoodFrames : e < m /\ m <= r.taken => \E k \in DOMAIN r.out : r.out[k] = m
        BY Zenon DEF ScanOK
      <4>2. i <= r.taken
        BY <1>3, <1>10
      <4> QED BY <1>10, <3>4, <4>1, <4>2
    <3>6. k + 1 \in DOMAIN p.out /\ p.out[k + 1] = i
      <4>1. k \in 1 .. Len(r.out) /\ k + 1 \in 1 .. Len(r.out) + 1
        BY <1>4, <1>6, <3>5
      <4> QED BY <1>4, <1>6, <3>5, <4>1
    <3> QED BY <3>6
  <2> QED BY <2>2, <2>3
<1>11. (p.raised \/ StopsAt(p.taken, fed)) /\ (NoShortMessages => ~p.raised)
  BY <1>3 DEF ScanOK
<1>12. ScanOK(p, t, fed)
  BY <1>5, <1>6, <1>8, <1>9, <1>10, <1>11, Zenon DEF ScanOK
<1> QED BY <1>12 DEF p

\* So is every scan, from the last turn to the first.
LEMMA ScanFacts ==
  ASSUME frmWire \in FrmWires, NEW fed \in 0 .. Len(frmWire), NEW from \in 0 .. fed
  PROVE  ScanOK(Scan(from, fed), from, fed)
<1> DEFINE L == Len(frmWire)
           Bad == {k \in Nat : \E t \in 0 .. fed : fed - t = k /\ ~ScanOK(Scan(t, fed), t, fed)}
<1>1. L \in Nat /\ fed \in Nat /\ fed <= L
  BY WireIs
<1>2. PICK S : /\ \A t \in 0 .. L : S[t] = Turn(S, t, fed)
               /\ \A t \in 0 .. L : Scan(t, fed) = S[t]
  BY ScanIs
<1>3. SUFFICES ASSUME Bad # {} PROVE FALSE
  <2>1. fed - from \in Nat
    BY <1>1
  <2> QED BY <2>1
<1>4. PICK m \in Bad : \A k \in Bad : m <= k
  <2> HIDE DEF Bad
  <2>1. Bad \in SUBSET Nat
    BY DEF Bad
  <2> QED BY <1>3, <2>1, LeastOf
<1>5. PICK t \in 0 .. fed : fed - t = m /\ ~ScanOK(Scan(t, fed), t, fed)
  BY <1>4
<1>6. t \in 0 .. L /\ t \in Nat /\ t <= fed
  BY <1>1
<1>7. \A u \in t + 1 .. fed : ScanOK(S[u], u, fed)
  <2> SUFFICES ASSUME NEW u \in t + 1 .. fed PROVE ScanOK(S[u], u, fed)
    OBVIOUS
  <2>1. u \in 0 .. fed /\ u \in 0 .. L /\ fed - u \in Nat /\ ~(m <= fed - u)
    BY <1>1, <1>5, <1>6
  <2>2. fed - u \notin Bad
    BY <1>4, <2>1
  <2>3. ScanOK(Scan(u, fed), u, fed)
    BY <2>1, <2>2
  <2> QED BY <1>2, <2>1, <2>3
<1> HIDE DEF Bad
<1> DEFINE s == First(t, fed)
<1>8. Scan(t, fed) = Turn(S, t, fed)
  BY <1>2, <1>6
<1>9. CASE Starts(t, fed) = {}
  <2>1. Scan(t, fed) = [taken |-> fed, out |-> <<>>, raised |-> FALSE]
    BY <1>8, <1>9, TurnIs
  <2>2. fed \in t .. fed /\ \A i \in t + 1 .. fed : ~frmWire[i].sync
    BY <1>1, <1>6, <1>9 DEF Starts
  <2>3. StopsAt(fed, fed)
    BY DEF StopsAt
  <2> QED BY <1>5, <2>1, <2>2, <2>3, TurnEnds
<1>10. CASE Starts(t, fed) # {}
  <2>1. /\ s \in t + 1 .. fed /\ s \in 1 .. L /\ frmWire[s].sync
        /\ \A i \in t + 1 .. fed : i < s => ~frmWire[i].sync
    BY <1>6, <1>10, FirstIs
  <2> HIDE DEF s
  <2>2. Turn(S, t, fed) =
          IF fed - s + 1 < FrmOverhead \/ Ends(s) > fed
          THEN [taken |-> s - 1, out |-> <<>>, raised |-> FALSE]
          ELSE IF ~frmWire[s].good THEN S[s]
          ELSE IF frmWire[s].total < FrmOverhead + FrmPayload
               THEN [taken |-> s - 1, out |-> <<>>, raised |-> TRUE]
          ELSE [S[Ends(s)] EXCEPT !.out = <<s>> \o @]
    BY <1>10, TurnIs DEF s
  <2>3. /\ s \in Nat /\ s - 1 \in t .. fed /\ (s - 1) + 1 = s /\ s <= fed
        /\ \A i \in t + 1 .. s - 1 : ~frmWire[i].sync
    BY <1>1, <1>6, <2>1
  <2>4. CASE fed - s + 1 < FrmOverhead \/ Ends(s) > fed
    <3>1. Scan(t, fed) = [taken |-> s - 1, out |-> <<>>, raised |-> FALSE]
      BY <1>8, <2>2, <2>4
    <3>2. fed - (s - 1) = fed - s + 1
      BY <1>1, <2>3
    <3>3. StopsAt(s - 1, fed)
      BY <2>1, <2>3, <2>4, <3>2 DEF StopsAt
    <3> QED BY <1>5, <2>3, <3>1, <3>3, TurnEnds
  <2>5. CASE ~(fed - s + 1 < FrmOverhead \/ Ends(s) > fed)
    <3>1. Ends(s) \in s .. fed /\ Ends(s) \in t + 1 .. fed
      <4>1. Ends(s) \in Int /\ s <= Ends(s)
        BY <2>1, WireIs
      <4> QED BY <1>1, <1>6, <2>1, <2>3, <2>5, <4>1
    <3>2. CASE ~frmWire[s].good
      <4>1. Scan(t, fed) = S[s] /\ ScanOK(S[s], s, fed)
        BY <1>7, <1>8, <2>1, <2>2, <2>5, <3>2
      <4> QED BY <1>5, <2>1, <3>2, <4>1, TurnPasses
    <3>3. CASE frmWire[s].good /\ frmWire[s].total < FrmOverhead + FrmPayload
      <4>1. Scan(t, fed) = [taken |-> s - 1, out |-> <<>>, raised |-> TRUE]
        BY <1>8, <2>2, <2>5, <3>3
      <4>2. ~NoShortMessages
        <5>1. frmWire[s].total \in Nat /\ FrmOverhead + FrmPayload \in Nat /\ s \in DOMAIN frmWire
          BY <2>1, WireIs
        <5>2. ~(frmWire[s].total >= FrmOverhead + FrmPayload)
          BY <3>3, <5>1
        <5> QED BY <3>3, <5>1, <5>2 DEF NoShortMessages
      <4> QED BY <1>5, <2>3, <4>1, <4>2, TurnEnds
    <3>4. CASE frmWire[s].good /\ ~(frmWire[s].total < FrmOverhead + FrmPayload)
      <4>1. Scan(t, fed) = [S[Ends(s)] EXCEPT !.out = <<s>> \o @]
        BY <1>8, <2>2, <2>5, <3>4
      <4>2. ScanOK(S[Ends(s)], Ends(s), fed)
        BY <1>7, <3>1
      <4>3. s \in GoodFrames
        <5>1. frmWire[s].total \in Nat /\ FrmOverhead + FrmPayload \in Nat /\ s \in DOMAIN frmWire
          BY <2>1, WireIs
        <5>2. frmWire[s].total >= FrmOverhead + FrmPayload
          BY <3>4, <5>1
        <5> QED BY <3>4, <5>1, <5>2, Zenon DEF GoodFrames
      <4>4. ASSUME NEW r, ScanOK(r, Ends(s), fed) PROVE ScanOK([r EXCEPT !.out = <<s>> \o @], t, fed)
        BY <2>1, <3>1, <4>3, <4>4, TurnTakes
      <4> QED BY <1>5, <4>1, <4>2, <4>4, Zenon
    <3> QED BY <3>2, <3>3, <3>4
  <2> QED BY <2>4, <2>5
<1> QED BY <1>9, <1>10

-----------------------------------------------------------------------------
\* Two ordered sequences, one behind the other.
LEMMA InOrderConcat ==
  ASSUME NEW s \in Seq(Nat), NEW q \in Seq(Nat), InOrder(s), InOrder(q),
         \A i \in DOMAIN s, j \in DOMAIN q : s[i] < q[j]
  PROVE  InOrder(s \o q)
<1> DEFINE r == s \o q
           m == Len(s)
           n == Len(q)
<1>1. /\ m \in Nat /\ n \in Nat /\ DOMAIN s = 1 .. m /\ DOMAIN q = 1 .. n /\ DOMAIN r = 1 .. m + n
      /\ \A i \in 1 .. m + n : r[i] = IF i <= m THEN s[i] ELSE q[i - m]
  OBVIOUS
<1> HIDE DEF r, m, n
<1> SUFFICES ASSUME NEW i \in 1 .. m + n, NEW j \in 1 .. m + n, i < j PROVE r[i] < r[j]
  BY <1>1 DEF InOrder, r
<1>2. CASE j <= m
  <2>1. i \in 1 .. m /\ j \in 1 .. m
    BY <1>1, <1>2
  <2>2. s[i] < s[j]
    BY <1>1, <2>1 DEF InOrder
  <2>3. r[i] = s[i] /\ r[j] = s[j]
    BY <1>1, <2>1
  <2> QED BY <2>2, <2>3
<1>3. CASE i <= m /\ ~(j <= m)
  <2>1. i \in 1 .. m /\ j - m \in 1 .. n
    BY <1>1, <1>3
  <2> QED BY <1>1, <1>3, <2>1
<1>4. CASE ~(i <= m) /\ ~(j <= m)
  <2>1. i - m \in 1 .. n /\ j - m \in 1 .. n /\ i - m < j - m
    BY <1>1, <1>4
  <2> QED BY <1>1, <1>4, <2>1 DEF InOrder
<1>5. i <= m \/ ~(j <= m)
  BY <1>1
<1> QED BY <1>2, <1>3, <1>4, <1>5

\* What a sequence has.
Elems(s) == {s[i] : i \in DOMAIN s}

\* What two sequences have between them.
LEMMA RangeConcat ==
  ASSUME NEW S, NEW s \in Seq(S), NEW q \in Seq(S)
  PROVE  /\ s \o q \in Seq(S) /\ Len(s \o q) = Len(s) + Len(q)
         /\ Elems(s \o q) = Elems(s) \cup Elems(q)
<1> DEFINE r == s \o q
           m == Len(s)
           n == Len(q)
<1>1. /\ m \in Nat /\ n \in Nat /\ DOMAIN s = 1 .. m /\ DOMAIN q = 1 .. n /\ DOMAIN r = 1 .. m + n
      /\ \A i \in 1 .. m + n : r[i] = IF i <= m THEN s[i] ELSE q[i - m]
      /\ r \in Seq(S) /\ Len(r) = m + n
  OBVIOUS
<1> HIDE DEF r, m, n
<1>2. ASSUME NEW i \in DOMAIN r PROVE r[i] \in {s[k] : k \in DOMAIN s} \cup {q[k] : k \in DOMAIN q}
  <2>1. i \in 1 .. m \/ (i - m \in 1 .. n /\ ~(i <= m))
    BY <1>1
  <2> QED BY <1>1, <2>1
<1>3. ASSUME NEW i \in DOMAIN s PROVE s[i] \in {r[k] : k \in DOMAIN r}
  <2>1. i \in 1 .. m + n /\ i <= m
    BY <1>1
  <2> QED BY <1>1, <2>1
<1>4. ASSUME NEW i \in DOMAIN q PROVE q[i] \in {r[k] : k \in DOMAIN r}
  <2>1. i + m \in 1 .. m + n /\ ~(i + m <= m) /\ (i + m) - m = i
    BY <1>1
  <2>2. r[i + m] = q[i]
    BY <1>1, <2>1
  <2> QED BY <1>1, <2>1, <2>2
<1>5. {r[k] : k \in DOMAIN r} = {s[i] : i \in DOMAIN s} \cup {q[i] : i \in DOMAIN q}
  BY <1>2, <1>3, <1>4
<1> QED BY <1>1, <1>5 DEF r, m, n, Elems

\* What is logged of the messages is of the messages, and of corrections all that
\* did not fail.
LEMMA LoggedIs ==
  ASSUME NEW msgs \in Seq(DOMAIN frmWire), NEW failing \in SUBSET DOMAIN msgs
  PROVE  /\ Logged(msgs, failing) \in Seq(DOMAIN frmWire)
         /\ Cardinality(failing) \in Nat
         /\ frmKind = "corr" => Len(Logged(msgs, failing)) + Cardinality(failing) = Len(msgs)
<1> DEFINE kept == IF frmKind = "corr" THEN DOMAIN msgs \ failing
                   ELSE {k \in DOMAIN msgs : \A f \in failing : k < f}
           c == Cardinality(kept)
<1>1. Logged(msgs, failing) = [n \in 1 .. c |-> msgs[Nth(kept, n)]]
  BY DEF Logged, Picked
<1>2. Len(msgs) \in Nat /\ DOMAIN msgs = 1 .. Len(msgs)
  OBVIOUS
<1>3. IsFiniteSet(DOMAIN msgs) /\ Cardinality(DOMAIN msgs) = Len(msgs)
  <2>1. IsFiniteSet(1 .. Len(msgs))
        /\ Cardinality(1 .. Len(msgs)) = IF 1 > Len(msgs) THEN 0 ELSE Len(msgs) - 1 + 1
    BY <1>2, FS_Interval
  <2>2. (IF 1 > Len(msgs) THEN 0 ELSE Len(msgs) - 1 + 1) = Len(msgs)
    BY <1>2
  <2> QED BY <1>2, <2>1, <2>2
<1>4. kept \subseteq DOMAIN msgs
  OBVIOUS
<1>5. IsFiniteSet(failing) /\ Cardinality(failing) \in Nat
  BY <1>3, FS_Subset, FS_CardinalityType
<1>6. frmKind = "corr" => c = Len(msgs) - Cardinality(failing)
  <2> SUFFICES ASSUME frmKind = "corr" PROVE c = Len(msgs) - Cardinality(failing)
    OBVIOUS
  <2>1. kept = DOMAIN msgs \ failing /\ DOMAIN msgs \cap failing = failing
    OBVIOUS
  <2> QED BY <1>3, <1>5, <2>1, FS_Difference
<1> HIDE DEF kept
<1>7. IsFiniteSet(kept) /\ kept \in SUBSET Nat
  BY <1>2, <1>3, <1>4, FS_Subset
<1>8. c \in Nat /\ \A n \in 1 .. c : Nth(kept, n) \in kept
  BY <1>7, NthIs
<1>9. \A n \in 1 .. c : msgs[Nth(kept, n)] \in DOMAIN frmWire
  BY <1>4, <1>8
<1> HIDE DEF c
<1>10. /\ Logged(msgs, failing) \in Seq(DOMAIN frmWire) /\ Len(Logged(msgs, failing)) = c
  BY <1>1, <1>8, <1>9
<1> QED BY <1>2, <1>5, <1>6, <1>8, <1>10

-----------------------------------------------------------------------------
\* Between chunks: messages came from the bytes that are no longer in the buffer,
\* each that was there came, and the loop has nothing left to do.
RtcmInv ==
  /\ OutSet \subseteq {i \in GoodFrames : Ends(i) <= frmFed /\ i <= frmTaken}
  /\ InOrder(frmOut)
  /\ frmKind = "corr" => Len(frmLog) + frmFails = Len(frmOut)
  /\ NoShortMessages => /\ StopsAt(frmTaken, frmFed)
                        /\ \A i \in GoodFrames : i <= frmTaken => i \in OutSet

\* Where a line begins, an overflow apart.
LineStart(b) == b = 1 \/ frmWire[b - 1] = "nl"

\* Between chunks: the buffer holds no end of line and begins behind one, at the
\* start or at a cut; a line that a cut went through is longer than the buffer;
\* and the lines that ended came out.
LineInv ==
  /\ InOrder(frmOut) /\ \A i \in OutSet : i <= frmTaken
  /\ \A i \in frmTaken + 1 .. frmFed : frmWire[i] # "nl"
  /\ frmTaken = 0 \/ frmTaken \in frmCut \/ frmWire[frmTaken] = "nl"
  /\ \A b \in 1 .. frmTaken :
       LineStart(b) /\ (\A i \in b .. frmTaken : frmWire[i] # "nl")
         => frmTaken + 1 - b > FrmMaxBuf
  /\ \A b \in OutSet : b = 1 \/ frmWire[b - 1] = "nl" \/ b - 1 \in frmCut
  /\ \A e \in 1 .. frmTaken : frmWire[e] = "nl" =>
       \A b \in 1 .. e :
         /\ LineStart(b) /\ \A i \in b .. e - 1 : frmWire[i] # "nl"
         /\ b < e /\ e - b <= FrmMaxBuf
         => b \in OutSet

FrmInv == /\ FrmTypeOK
          /\ frmKind # "sol" => RtcmInv
          /\ frmKind = "sol" => LineInv

\* Nothing has come yet.
LEMMA FrmInitInv == FrmInit => FrmInv
<1> SUFFICES ASSUME FrmInit PROVE FrmInv
  OBVIOUS
<1>1. Len(frmWire) \in Nat /\ DOMAIN frmWire = 1 .. Len(frmWire)
  BY FrmAssumption DEF FrmInit, OnWire
<1>2. frmFed = 0 /\ frmTaken = 0 /\ frmOut = <<>> /\ frmLog = <<>> /\ frmCut = {} /\ frmFails = 0
  BY DEF FrmInit
<1>3. FrmTypeOK
  <2>1. /\ frmKind \in {"corr", "obs", "sol"}
        /\ frmWire \in IF frmKind = "sol" THEN FrmTexts ELSE FrmWires
    BY DEF FrmInit
  <2> QED BY <1>1, <1>2, <2>1 DEF FrmTypeOK
<1>4. OutSet = {} /\ InOrder(frmOut)
  BY <1>2 DEF OutSet, InOrder
<1>5. \A i \in DOMAIN frmWire : ~(i <= 0)
  BY <1>1
<1>6. RtcmInv
  <2>1. \A i \in GoodFrames : ~(i <= frmTaken)
    BY <1>2, <1>5 DEF GoodFrames
  <2>2. Len(frmLog) + frmFails = Len(frmOut)
    BY <1>2
  <2>3. StopsAt(frmTaken, frmFed)
    BY <1>2 DEF StopsAt
  <2> QED BY <1>4, <2>1, <2>2, <2>3 DEF RtcmInv
<1>7. LineInv
  <2>1. 1 .. frmTaken = {} /\ frmTaken + 1 .. frmFed = {}
    BY <1>2
  <2> QED BY <1>2, <1>4, <2>1, Zenon DEF LineInv
<1> QED BY <1>3, <1>6, <1>7 DEF FrmInv

\* Frames are read as they were sent, short ones apart.
LEMMA FrmInvRtcm == FrmInv /\ NoShortMessages => MessagesCome /\ RtcmAsSent
<1> SUFFICES ASSUME FrmInv, NoShortMessages, frmKind # "sol"
             PROVE  /\ \A i \in GoodFrames :
                         Ends(i) <= frmFed /\ i + FrmLongest - 2 <= frmFed => i \in OutSet
                    /\ OutSet \subseteq {i \in GoodFrames : Ends(i) <= frmFed} /\ InOrder(frmOut)
                    /\ frmFed - frmTaken < FrmLongest
                    /\ frmKind = "corr" => Len(frmLog) + frmFails = Len(frmOut)
  BY DEF MessagesCome, RtcmAsSent
<1>1. /\ frmWire \in FrmWires /\ frmFed \in 0 .. Len(frmWire) /\ frmTaken \in 0 .. frmFed
  BY DEF FrmInv, FrmTypeOK
<1>2. Len(frmWire) \in Nat /\ frmFed \in Nat /\ frmTaken \in Nat /\ frmTaken <= frmFed
  BY <1>1, WireIs
<1>3. RtcmInv /\ StopsAt(frmTaken, frmFed)
  BY DEF FrmInv, RtcmInv
<1>4. FrmOverhead \in Nat /\ FrmOverhead > 0 /\ FrmLongest \in Nat /\ FrmOverhead <= FrmLongest
  BY FrmAssumption
<1>5. ASSUME frmTaken # frmFed
      PROVE  /\ frmTaken + 1 <= frmFed /\ frmTaken + 1 \in 1 .. Len(frmWire)
             /\ frmWire[frmTaken + 1].sync
             /\ frmWire[frmTaken + 1].total \in Nat /\ frmWire[frmTaken + 1].total <= FrmLongest
             /\ \/ frmFed - frmTaken < FrmOverhead
                \/ (frmTaken + 1) + frmWire[frmTaken + 1].total - 1 > frmFed
  <2>1. /\ frmTaken + 1 <= frmFed /\ frmWire[frmTaken + 1].sync
        /\ frmFed - frmTaken < FrmOverhead \/ Ends(frmTaken + 1) > frmFed
    BY <1>3, <1>5 DEF StopsAt
  <2>2. frmTaken + 1 \in 1 .. Len(frmWire)
    BY <1>1, <1>2, <2>1
  <2> QED BY <2>1, <2>2, <1>1, WireIs DEF Ends
<1>6. frmFed - frmTaken < FrmLongest
  <2>1. CASE frmTaken = frmFed
    BY <1>2, <1>4, <2>1
  <2>2. CASE frmTaken # frmFed
    BY <1>2, <1>4, <1>5, <2>2
  <2> QED BY <2>1, <2>2
<1>7. ASSUME NEW i \in GoodFrames, Ends(i) <= frmFed, i + FrmLongest - 2 <= frmFed
      PROVE  i \in OutSet
  <2>1. i \in 1 .. Len(frmWire) /\ frmWire[i].good /\ frmWire[i].sync
    BY <1>1, WireIs DEF GoodFrames
  <2>2. frmWire[i].total \in Nat /\ FrmOverhead <= frmWire[i].total
    BY <1>1, <2>1, WireIs
  <2>3. i <= frmTaken
    <3> SUFFICES ASSUME ~(i <= frmTaken) PROVE FALSE
      OBVIOUS
    <3>1. i \in Nat /\ i + frmWire[i].total - 1 <= frmFed
      BY <1>2, <1>7, <2>1 DEF Ends
    <3>2. frmTaken # frmFed
      BY <1>2, <1>4, <2>2, <3>1
    <3>3. ~(frmFed - frmTaken < FrmOverhead)
      BY <1>2, <1>4, <2>2, <3>1
    <3>4. (frmTaken + 1) + frmWire[frmTaken + 1].total - 1 > frmFed
      BY <1>5, <3>2, <3>3
    <3>5. CASE i = frmTaken + 1
      <4>1. frmWire[i].total = frmWire[frmTaken + 1].total
        BY <3>5
      <4>2. (frmTaken + 1) + frmWire[i].total - 1 > frmFed
        BY <3>4, <4>1
      <4> QED BY <1>2, <2>2, <3>1, <3>5, <4>2
    <3>6. CASE i # frmTaken + 1
      BY <1>2, <1>4, <1>5, <1>7, <3>1, <3>2, <3>4, <3>6
    <3> QED BY <3>5, <3>6
  <2> QED BY <1>3, <2>3 DEF RtcmInv
<1> QED BY <1>3, <1>6, <1>7 DEF RtcmInv

\* So are lines.
LEMMA FrmInvLines == FrmInv => LinesAsSent
  BY DEF FrmInv, LineInv, LinesAsSent, LineStart

\* A chunk of a binary stream.
LEMMA OnRtcmInv ==
  ASSUME FrmInv, NEW n \in 1 .. Len(frmWire), OnRtcm(n)
  PROVE  FrmInv'
<1> DEFINE L == Len(frmWire)
           fed == frmFed + n
           scan == Scan(frmTaken, fed)
           msgs == IF scan.raised THEN <<>> ELSE scan.out
<1>1. /\ frmKind \in {"corr", "obs"} /\ fed <= L /\ frmFed' = fed /\ frmTaken' = scan.taken
      /\ frmOut' = frmOut \o msgs /\ frmKind' = frmKind /\ frmWire' = frmWire /\ frmCut' = frmCut
  BY DEF OnRtcm
<1>2. PICK failing \in SUBSET DOMAIN msgs :
        /\ frmFails' = frmFails + Cardinality(failing)
        /\ frmLog' = frmLog \o Logged(msgs, failing)
  BY DEF OnRtcm
<1>3. /\ frmWire \in FrmWires /\ L \in Nat /\ DOMAIN frmWire = 1 .. L
      /\ frmFed \in 0 .. L /\ frmTaken \in 0 .. frmFed
      /\ frmOut \in Seq(1 .. L) /\ frmLog \in Seq(1 .. L) /\ frmFails \in Nat /\ frmCut \subseteq 0 .. L
  <2>1. frmWire \in FrmWires
    BY <1>1 DEF FrmInv, FrmTypeOK
  <2>2. L \in Nat /\ DOMAIN frmWire = 1 .. L
    BY <2>1, WireIs
  <2> QED BY <2>1, <2>2 DEF FrmInv, FrmTypeOK
<1>4. fed \in 0 .. L /\ frmTaken \in 0 .. fed /\ frmFed <= fed /\ fed \in Nat
  BY <1>1, <1>3
<1>5. ScanOK(scan, frmTaken, fed)
  BY <1>3, <1>4, ScanFacts
<1> HIDE DEF scan, fed
<1>6. scan.taken \in frmTaken .. fed /\ scan.out \in Seq(1 .. L) /\ scan.raised \in BOOLEAN
  BY <1>5 DEF ScanOK, Scanned
<1>7. /\ msgs \in Seq(1 .. L) /\ InOrder(msgs)
      /\ \A k \in DOMAIN msgs : /\ frmTaken < msgs[k] /\ msgs[k] <= scan.taken
                                /\ msgs[k] \in GoodFrames /\ Ends(msgs[k]) <= fed
  <2>1. CASE scan.raised
    <3>1. msgs = <<>> /\ DOMAIN msgs = {}
      BY <2>1
    <3> HIDE DEF msgs
    <3>2. msgs \in Seq(1 .. L)
      BY <3>1
    <3> QED BY <3>1, <3>2, Zenon DEF InOrder
  <2>2. CASE ~scan.raised
    <3>1. msgs = scan.out
      BY <2>2
    <3> HIDE DEF msgs
    <3> QED BY <1>5, <1>6, <3>1, Zenon DEF ScanOK
  <2> QED BY <1>6, <2>1, <2>2
<1> HIDE DEF msgs
<1>8. /\ frmOut' \in Seq(1 .. L) /\ Len(frmOut') = Len(frmOut) + Len(msgs)
      /\ OutSet' = OutSet \cup {msgs[k] : k \in DOMAIN msgs}
  <2>1. /\ frmOut \o msgs \in Seq(1 .. L) /\ Len(frmOut \o msgs) = Len(frmOut) + Len(msgs)
        /\ Elems(frmOut \o msgs) = Elems(frmOut) \cup Elems(msgs)
    BY <1>3, <1>7, RangeConcat
  <2>2. OutSet' = Elems(frmOut') /\ OutSet = Elems(frmOut)
    BY DEF OutSet, Elems
  <2>3. OutSet' = OutSet \cup Elems(msgs)
    BY <1>1, <2>1, <2>2
  <2> QED BY <1>1, <2>1, <2>3 DEF Elems
<1>9. /\ Logged(msgs, failing) \in Seq(1 .. L) /\ Cardinality(failing) \in Nat
      /\ frmKind = "corr" => Len(Logged(msgs, failing)) + Cardinality(failing) = Len(msgs)
  BY <1>2, <1>3, <1>7, LoggedIs
<1>10. /\ frmLog' \in Seq(1 .. L) /\ Len(frmLog') = Len(frmLog) + Len(Logged(msgs, failing))
  BY <1>2, <1>3, <1>9, RangeConcat
<1>11. FrmTypeOK'
  <2>1. frmKind # "sol" /\ frmWire' \in FrmWires /\ Len(frmWire') = L /\ DOMAIN frmWire' = 1 .. L
    BY <1>1, <1>3
  <2>2. frmFed' \in 0 .. L /\ frmTaken' \in 0 .. frmFed' /\ frmFails' \in Nat
    BY <1>1, <1>2, <1>3, <1>4, <1>6, <1>9
  <2> QED BY <1>1, <1>3, <1>8, <1>10, <2>1, <2>2 DEF FrmTypeOK
<1>12. RtcmInv
  BY <1>1 DEF FrmInv
<1>13. InOrder(frmOut')
  <2>1. frmOut \in Seq(Nat) /\ msgs \in Seq(Nat)
    BY <1>3, <1>7
  <2>2. \A i \in DOMAIN frmOut, k \in DOMAIN msgs : frmOut[i] < msgs[k]
    <3> TAKE i \in DOMAIN frmOut, k \in DOMAIN msgs
    <3>1. frmOut[i] <= frmTaken
      BY <1>12 DEF RtcmInv, OutSet
    <3>2. frmTaken < msgs[k] /\ frmOut[i] \in Nat /\ msgs[k] \in Nat /\ frmTaken \in Nat
      BY <1>3, <1>7, <2>1
    <3> QED BY <3>1, <3>2
  <2> QED BY <1>1, <1>7, <1>12, <2>1, <2>2, InOrderConcat DEF RtcmInv
<1>14. GoodFrames' = GoodFrames /\ \A i : Ends(i)' = Ends(i)
  BY <1>1 DEF GoodFrames, Ends
<1>15. ASSUME NEW i \in OutSet'
       PROVE  i \in GoodFrames /\ Ends(i) <= frmFed' /\ i <= frmTaken'
  <2>1. CASE i \in OutSet
    <3>1. i \in GoodFrames /\ Ends(i) <= frmFed /\ i <= frmTaken
      BY <1>12, <2>1 DEF RtcmInv
    <3>2. i \in 1 .. L /\ Ends(i) \in Int
      BY <1>3, <3>1, WireIs DEF GoodFrames
    <3> QED BY <1>1, <1>3, <1>4, <1>6, <3>1, <3>2
  <2>2. CASE i \in {msgs[k] : k \in DOMAIN msgs}
    BY <1>1, <1>7, <2>2
  <2> QED BY <1>8, <2>1, <2>2
<1>16. frmKind = "corr" => Len(frmLog') + frmFails' = Len(frmOut')
  <2>1. Len(frmLog) \in Nat /\ Len(frmOut) \in Nat /\ Len(msgs) \in Nat
        /\ Len(Logged(msgs, failing)) \in Nat
    BY <1>3, <1>7, <1>9
  <2> SUFFICES ASSUME frmKind = "corr" PROVE Len(frmLog') + frmFails' = Len(frmOut')
    OBVIOUS
  <2>2. Len(frmLog) + frmFails = Len(frmOut)
    BY <1>12 DEF RtcmInv
  <2>3. Len(Logged(msgs, failing)) + Cardinality(failing) = Len(msgs)
    BY <1>9
  <2> DEFINE lg == Len(frmLog)
             lo == Len(frmOut)
             lm == Len(msgs)
             ll == Len(Logged(msgs, failing))
             cf == Cardinality(failing)
  <2>4. Len(frmLog') = lg + ll /\ Len(frmOut') = lo + lm /\ frmFails' = frmFails + cf
    BY <1>2, <1>8, <1>10
  <2>5. /\ lg \in Nat /\ lo \in Nat /\ lm \in Nat /\ ll \in Nat /\ cf \in Nat /\ frmFails \in Nat
        /\ lg + frmFails = lo /\ ll + cf = lm
    BY <1>3, <1>9, <2>1, <2>2, <2>3
  <2> HIDE DEF lg, lo, lm, ll, cf
  <2> QED BY <2>4, <2>5
<1>17. ASSUME NoShortMessages
       PROVE  /\ StopsAt(frmTaken, frmFed)'
              /\ \A i \in GoodFrames : i <= frmTaken' => i \in OutSet'
  <2>1. ~scan.raised /\ StopsAt(scan.taken, fed)
    BY <1>5, <1>17 DEF ScanOK
  <2>2. StopsAt(frmTaken, frmFed)'
    BY <1>1, <1>14, <2>1 DEF StopsAt
  <2>3. ASSUME NEW i \in GoodFrames, i <= frmTaken' PROVE i \in OutSet'
    <3>1. CASE i <= frmTaken
      BY <1>8, <1>12, <1>17, <3>1 DEF RtcmInv
    <3>2. CASE ~(i <= frmTaken)
      <4>1. i \in 1 .. L
        BY <1>3 DEF GoodFrames
      <4>2. frmTaken < i /\ i <= scan.taken
        BY <1>1, <1>3, <2>3, <3>2, <4>1
      <4>3. PICK k \in DOMAIN scan.out : scan.out[k] = i
        BY <1>5, <4>2 DEF ScanOK
      <4>4. msgs = scan.out
        BY <2>1 DEF msgs
      <4> QED BY <1>8, <4>3, <4>4
    <3> QED BY <3>1, <3>2
  <2> QED BY <2>2, <2>3
<1>18. RtcmInv'
  <2>1. OutSet' \subseteq {i \in GoodFrames' : Ends(i)' <= frmFed' /\ i <= frmTaken'}
    BY <1>14, <1>15
  <2>2. NoShortMessages' <=> NoShortMessages
    BY DEF NoShortMessages
  <2> QED BY <1>1, <1>13, <1>14, <1>16, <1>17, <2>1, <2>2 DEF RtcmInv, InOrder
<1> QED BY <1>1, <1>11, <1>18 DEF FrmInv

\* The last of a finite set of numbers.
LEMMA MaxIs ==
  ASSUME NEW m \in Nat, NEW K \in SUBSET (1 .. m), K # {}
  PROVE  Max(K) \in K /\ \A y \in K : y <= Max(K)
<1> DEFINE R == {m - k : k \in K}
<1>1. R \in SUBSET Nat /\ R # {}
  <2>1. \A k \in K : k \in 1 .. m
    OBVIOUS
  <2>2. \A k \in 1 .. m : m - k \in Nat
    OBVIOUS
  <2> QED BY <2>1, <2>2
<1> HIDE DEF R
<1>2. PICK r \in R : \A q \in R : r <= q
  BY <1>1, LeastOf
<1>3. PICK x \in K : r = m - x
  BY <1>2 DEF R
<1>4. \A y \in K : y <= x
  <2> TAKE y \in K
  <2>1. m - y \in R
    BY DEF R
  <2>2. m - x <= m - y
    BY <1>2, <1>3, <2>1
  <2> QED BY <2>2
<1> QED BY <1>4 DEF Max

\* A chunk of text: a cut.
LEMMA CutInv ==
  ASSUME FrmInv, NEW n \in 1 .. Len(frmWire), OnSol(n), frmTaken' = frmFed + n,
         (frmFed + n) - frmTaken > FrmMaxBuf,
         \A i \in frmTaken + 1 .. frmFed + n : frmWire[i] # "nl",
         frmCut' = frmCut \cup {frmFed + n}, UNCHANGED frmOut
  PROVE  FrmInv'
<1> DEFINE L == Len(frmWire)
           fed == frmFed + n
<1>1. /\ frmKind = "sol" /\ fed <= L /\ frmFed' = fed
      /\ UNCHANGED <<frmKind, frmWire, frmLog, frmFails>>
  BY DEF OnSol
<1>2. /\ frmWire \in FrmTexts /\ L \in Nat /\ DOMAIN frmWire = 1 .. L
      /\ frmFed \in 0 .. L /\ frmTaken \in 0 .. frmFed /\ frmCut \subseteq 0 .. L /\ FrmMaxBuf \in Nat
  BY <1>1, FrmAssumption DEF FrmInv, FrmTypeOK, OnWire
<1>3. fed \in 0 .. L /\ frmTaken \in Nat /\ frmFed \in Nat /\ frmTaken <= frmFed /\ frmFed < fed
  BY <1>1, <1>2
<1>4. FrmTypeOK'
  BY <1>1, <1>2, <1>3 DEF FrmInv, FrmTypeOK
<1>5. LineInv /\ frmTaken' = fed /\ OutSet' = OutSet
  BY <1>1 DEF FrmInv, OutSet
<1> HIDE DEF fed
<1>6. InOrder(frmOut') /\ \A i \in OutSet' : i <= frmTaken'
  <2>1. \A i \in OutSet : i <= frmTaken /\ i \in Nat
    BY <1>2, <1>5 DEF LineInv, OutSet, FrmInv, FrmTypeOK
  <2>2. \A i \in OutSet : i <= fed
    BY <1>3, <2>1
  <2> QED BY <1>5, <2>2 DEF LineInv
<1>7. \A i \in frmTaken' + 1 .. frmFed' : frmWire'[i] # "nl"
  BY <1>1, <1>3, <1>5
<1>8. frmTaken' \in frmCut'
  BY <1>5 DEF fed
<1>9. ASSUME NEW b \in 1 .. fed, LineStart(b), \A i \in b .. fed : frmWire[i] # "nl"
      PROVE  fed + 1 - b > FrmMaxBuf
  <2>1. CASE b <= frmTaken
    <3>1. b \in 1 .. frmTaken /\ \A i \in b .. frmTaken : frmWire[i] # "nl"
      BY <1>3, <1>9, <2>1
    <3>2. frmTaken + 1 - b > FrmMaxBuf
      BY <1>5, <1>9, <3>1 DEF LineInv
    <3> QED BY <1>2, <1>3, <3>1, <3>2
  <2>2. CASE b = frmTaken + 1
    BY <1>2, <1>3, <2>2 DEF fed
  <2>3. CASE b > frmTaken + 1
    <3>1. b # 1 /\ b - 1 \in frmTaken + 1 .. fed
      BY <1>3, <2>3
    <3>2. frmWire[b - 1] = "nl"
      BY <1>9, <3>1 DEF LineStart
    <3> QED BY <3>1, <3>2 DEF fed
  <2> QED BY <1>3, <2>1, <2>2, <2>3
<1>10. ASSUME NEW e \in 1 .. fed, frmWire[e] = "nl", NEW b \in 1 .. e, LineStart(b),
              \A i \in b .. e - 1 : frmWire[i] # "nl", b < e, e - b <= FrmMaxBuf
       PROVE  b \in OutSet
  <2>1. e \in 1 .. frmTaken
    <3>1. ~(e \in frmTaken + 1 .. fed)
      BY <1>10 DEF fed
    <3> QED BY <1>3, <3>1
  <2> QED BY <1>5, <1>10, <2>1 DEF LineInv
<1>11. \A b \in OutSet : b = 1 \/ frmWire[b - 1] = "nl" \/ b - 1 \in frmCut
  BY <1>5 DEF LineInv
<1>12. \A b : LineStart(b)' <=> LineStart(b)
  BY <1>1 DEF LineStart
<1>13. LineInv'
  BY <1>1, <1>5, <1>6, <1>7, <1>8, <1>9, <1>10, <1>11, <1>12 DEF LineInv
<1> QED BY <1>1, <1>4, <1>13 DEF FrmInv

\* A chunk of text: the lines in it, if any.
LEMMA LinesInv ==
  ASSUME FrmInv, NEW n \in 1 .. Len(frmWire), OnSol(n),
         NEW ends, ends = {i \in frmTaken + 1 .. frmFed + n : frmWire[i] = "nl"},
         NEW begins, begins = {frmTaken + 1} \cup {e + 1 : e \in ends \ {frmFed + n}},
         NEW lines, lines = {b \in begins : (\E e \in ends : b < e) /\ frmWire[b] # "nl"},
         frmTaken' = IF ends = {} THEN frmTaken ELSE Max(ends),
         frmOut' = frmOut \o InTurn(lines), UNCHANGED frmCut
  PROVE  FrmInv'
<1> DEFINE L == Len(frmWire)
           fed == frmFed + n
<1>1. /\ frmKind = "sol" /\ fed <= L /\ frmFed' = fed
      /\ UNCHANGED <<frmKind, frmWire, frmLog, frmFails>>
  BY DEF OnSol
<1>2. /\ frmWire \in FrmTexts /\ L \in Nat /\ DOMAIN frmWire = 1 .. L
      /\ frmFed \in 0 .. L /\ frmTaken \in 0 .. frmFed /\ frmCut \subseteq 0 .. L /\ FrmMaxBuf \in Nat
      /\ frmOut \in Seq(1 .. L)
  BY <1>1, FrmAssumption DEF FrmInv, FrmTypeOK, OnWire
<1>3. fed \in 0 .. L /\ frmTaken \in Nat /\ frmFed \in Nat /\ frmTaken <= frmFed /\ frmFed < fed
  BY <1>1, <1>2
<1>4. ends = {i \in frmTaken + 1 .. fed : frmWire[i] = "nl"} /\ ends \in SUBSET (1 .. fed)
  BY <1>3
<1>5. begins = {frmTaken + 1} \cup {e + 1 : e \in ends \ {fed}} /\ LineInv
  BY <1>1 DEF FrmInv
<1> HIDE DEF fed
<1>6. ASSUME NEW b \in begins
      PROVE  b \in frmTaken + 1 .. fed /\ (b = frmTaken + 1 \/ frmWire[b - 1] = "nl")
  <2>1. CASE b = frmTaken + 1
    BY <1>3, <2>1
  <2>2. CASE b \in {e + 1 : e \in ends \ {fed}}
    <3>1. PICK e \in ends \ {fed} : b = e + 1
      BY <2>2
    <3>2. e \in frmTaken + 1 .. fed /\ e # fed /\ frmWire[e] = "nl" /\ (e + 1) - 1 = e
      BY <1>3, <1>4, <3>1
    <3> QED BY <1>3, <3>1, <3>2
  <2> QED BY <1>5, <2>1, <2>2
<1>7. ends # {} => /\ frmTaken' \in ends /\ \A y \in ends : y <= frmTaken'
  <2> SUFFICES ASSUME ends # {} PROVE frmTaken' \in ends /\ \A y \in ends : y <= frmTaken'
    OBVIOUS
  <2>1. fed \in Nat
    BY <1>3
  <2>2. Max(ends) \in ends /\ \A y \in ends : y <= Max(ends)
    BY <1>4, <2>1, MaxIs
  <2>3. frmTaken' = Max(ends)
    OBVIOUS
  <2> QED BY <2>2, <2>3, Zenon
<1>8. frmTaken' \in frmTaken .. fed
  <2>1. CASE ends = {}
    BY <1>3, <2>1
  <2>2. CASE ends # {}
    BY <1>3, <1>4, <1>7, <2>2
  <2> QED BY <2>1, <2>2
<1>9. ASSUME NEW b \in lines
      PROVE  /\ b \in frmTaken + 1 .. fed /\ b \in 1 .. L /\ frmTaken < b /\ b <= frmTaken'
             /\ b = frmTaken + 1 \/ frmWire[b - 1] = "nl"
  <2>1. b \in begins /\ \E e \in ends : b < e
    OBVIOUS
  <2>2. PICK e \in ends : b < e
    BY <2>1
  <2>3. ends # {} /\ e <= frmTaken'
    BY <1>7, <2>2
  <2>5. e \in Nat /\ frmTaken' \in Nat
    BY <1>3, <1>4, <1>8
  <2>4. b \in frmTaken + 1 .. fed /\ (b = frmTaken + 1 \/ frmWire[b - 1] = "nl")
    BY <1>6, <2>1
  <2>6. b \in Nat /\ frmTaken < b /\ b \in 1 .. L
    BY <1>2, <1>3, <2>4
  <2>7. b <= frmTaken'
    BY <2>2, <2>3, <2>5, <2>6
  <2> QED BY <2>4, <2>6, <2>7
<1>10. IsFiniteSet(lines) /\ lines \in SUBSET Nat
  <2>1. L \in Int /\ 1 \in Int /\ 1 .. L \in SUBSET Nat
    BY <1>2
  <2> HIDE DEF L
  <2>2. IsFiniteSet(1 .. L)
    BY <2>1, FS_Interval
  <2>3. lines \subseteq 1 .. L
    BY <1>9
  <2>4. IsFiniteSet(lines)
    BY <2>2, <2>3, FS_Subset
  <2> QED BY <2>1, <2>3, <2>4
<1> HIDE DEF L
<1>11. /\ InTurn(lines) \in Seq(lines) /\ InOrder(InTurn(lines)) /\ Elems(InTurn(lines)) = lines
  BY <1>10, InTurnIs DEF Elems
<1>12. InTurn(lines) \in Seq(1 .. L)
  <2>1. lines \subseteq 1 .. L
    BY <1>9
  <2> QED BY <1>11, <2>1, SeqWider, Zenon
<1>13. frmOut' \in Seq(1 .. L) /\ OutSet' = OutSet \cup lines
  <2>1. OutSet' = Elems(frmOut') /\ OutSet = Elems(frmOut)
    BY DEF OutSet, Elems
  <2>2. frmOut \o InTurn(lines) \in Seq(1 .. L)
        /\ Elems(frmOut \o InTurn(lines)) = Elems(frmOut) \cup Elems(InTurn(lines))
    <3>1. frmOut \in Seq(1 .. L)
      BY <1>2 DEF L
    <3> DEFINE q == InTurn(lines)
               T == 1 .. L
    <3>2. frmOut \in Seq(T) /\ q \in Seq(T)
      BY <1>12, <3>1
    <3> HIDE DEF q, T
    <3>3. frmOut \o q \in Seq(T) /\ Elems(frmOut \o q) = Elems(frmOut) \cup Elems(q)
      BY <3>2, RangeConcat
    <3> QED BY <3>3 DEF q, T
  <2> QED BY <1>11, <2>1, <2>2
<1>14. FrmTypeOK'
  <2>1. frmWire' \in FrmTexts /\ Len(frmWire') = L /\ DOMAIN frmWire' = 1 .. L /\ DOMAIN frmWire = 1 .. L
    BY <1>1, <1>2 DEF L
  <2>2. frmFed' \in 0 .. L /\ frmTaken' \in 0 .. frmFed'
    BY <1>1, <1>3, <1>8
  <2> QED BY <1>1, <1>13, <2>1, <2>2 DEF FrmInv, FrmTypeOK, L
<1>15. \A i \in OutSet : i <= frmTaken /\ i \in 1 .. L
  BY <1>2, <1>5 DEF LineInv, OutSet, L
<1>16. \A i \in OutSet' : i <= frmTaken'
  <2> SUFFICES ASSUME NEW i \in OutSet' PROVE i <= frmTaken'
    OBVIOUS
  <2>1. CASE i \in OutSet
    <3>1. i <= frmTaken /\ i \in Int
      BY <1>15, <2>1
    <3> QED BY <1>3, <1>8, <3>1
  <2>2. CASE i \in lines
    BY <1>9, <2>2
  <2> QED BY <1>13, <2>1, <2>2
<1>17. InOrder(frmOut')
  <2>1. frmOut \in Seq(Nat) /\ InTurn(lines) \in Seq(Nat) /\ InOrder(frmOut)
    <3>1. \A T : \A q \in Seq(T) : T \in SUBSET Nat => q \in Seq(Nat)
      BY SeqWider, Zenon
    <3>2. 1 .. L \in SUBSET Nat /\ frmOut \in Seq(1 .. L)
      <4>1. L \in Nat /\ frmOut \in Seq(1 .. L)
        BY <1>2 DEF L
      <4> QED BY <4>1
    <3>3. frmOut \in Seq(Nat)
      BY <3>1, <3>2, Zenon
    <3>4. InTurn(lines) \in Seq(Nat)
      BY <1>10, <1>11, <3>1, Zenon
    <3>5. InOrder(frmOut)
      BY <1>5 DEF LineInv
    <3> QED BY <3>3, <3>4, <3>5
  <2>2. \A i \in DOMAIN frmOut, k \in DOMAIN InTurn(lines) : frmOut[i] < InTurn(lines)[k]
    <3> TAKE i \in DOMAIN frmOut, k \in DOMAIN InTurn(lines)
    <3>1. frmOut[i] <= frmTaken /\ frmOut[i] \in Nat
      BY <1>15, <2>1 DEF OutSet
    <3>2. InTurn(lines)[k] \in lines /\ InTurn(lines)[k] \in Nat
      <4>1. InTurn(lines)[k] \in Elems(InTurn(lines))
        BY DEF Elems
      <4> QED BY <1>10, <1>11, <4>1
    <3>3. frmTaken < InTurn(lines)[k]
      BY <1>9, <3>2
    <3> QED BY <1>3, <3>1, <3>2, <3>3
  <2> QED BY <1>11, <2>1, <2>2, InOrderConcat
<1>18. \A i \in frmTaken' + 1 .. fed : frmWire[i] # "nl"
  <2> SUFFICES ASSUME NEW i \in frmTaken' + 1 .. fed, frmWire[i] = "nl" PROVE FALSE
    OBVIOUS
  <2>1. i \in frmTaken + 1 .. fed /\ i > frmTaken' /\ frmTaken' \in Nat /\ i \in Nat
    BY <1>3, <1>8
  <2>2. i \in ends
    BY <1>4, <2>1
  <2>3. i <= frmTaken'
    BY <1>7, <2>2
  <2> QED BY <2>1, <2>3
<1>19. frmTaken' = 0 \/ frmTaken' \in frmCut' \/ frmWire[frmTaken'] = "nl"
  <2>1. CASE ends = {}
    BY <1>5, <2>1 DEF LineInv
  <2>2. CASE ends # {}
    BY <1>4, <1>7, <2>2
  <2> QED BY <2>1, <2>2
<1>20. ASSUME NEW b \in 1 .. frmTaken', LineStart(b), \A i \in b .. frmTaken' : frmWire[i] # "nl"
       PROVE  frmTaken' + 1 - b > FrmMaxBuf
  <2>1. ends = {}
    <3>1. frmTaken' \in b .. frmTaken'
      BY <1>3, <1>8
    <3> QED BY <1>4, <1>7, <1>20, <3>1
  <2> QED BY <1>5, <1>20, <2>1 DEF LineInv
<1>21. ASSUME NEW b \in OutSet'
       PROVE  b = 1 \/ frmWire[b - 1] = "nl" \/ b - 1 \in frmCut
  <2>1. CASE b \in OutSet
    BY <1>5, <2>1 DEF LineInv
  <2>2. CASE b \in lines
    <3>1. CASE b = frmTaken + 1
      <4>1. b - 1 = frmTaken
        BY <1>3, <3>1
      <4> QED BY <1>3, <1>5, <3>1, <4>1 DEF LineInv
    <3> QED BY <1>9, <2>2, <3>1
  <2> QED BY <1>13, <2>1, <2>2
<1>22. ASSUME NEW e \in 1 .. frmTaken', frmWire[e] = "nl", NEW b \in 1 .. e, LineStart(b),
              \A i \in b .. e - 1 : frmWire[i] # "nl", b < e, e - b <= FrmMaxBuf
       PROVE  b \in OutSet'
  <2>1. CASE e <= frmTaken
    <3>1. e \in 1 .. frmTaken
      BY <1>3, <1>8, <2>1
    <3>2. b \in OutSet
      BY <1>5, <1>22, <3>1 DEF LineInv
    <3> QED BY <1>13, <3>2
  <2>2. CASE ~(e <= frmTaken)
    <3>1. e \in ends /\ e \in Nat /\ b \in Nat /\ b >= 1 /\ e <= fed
      <4>1. e \in Nat /\ e >= frmTaken + 1 /\ e <= fed /\ b \in Nat /\ b >= 1
        BY <1>3, <1>8, <2>2
      <4>2. e \in frmTaken + 1 .. fed
        BY <1>3, <4>1
      <4> QED BY <1>4, <1>22, <4>1, <4>2
    <3>2. b > frmTaken
      <4> SUFFICES ASSUME ~(b > frmTaken) PROVE FALSE
        OBVIOUS
      <4>1. b \in 1 .. frmTaken /\ \A i \in b .. frmTaken : frmWire[i] # "nl"
        BY <1>3, <1>22, <2>2, <3>1
      <4>2. frmTaken + 1 - b > FrmMaxBuf
        BY <1>5, <1>22, <4>1 DEF LineInv
      <4> QED BY <1>2, <1>3, <1>22, <2>2, <3>1, <4>2
    <3>3. b \in begins
      <4>1. CASE b = frmTaken + 1
        BY <1>5, <4>1
      <4>2. CASE b # frmTaken + 1
        <5>1. b # 1 /\ b - 1 \in frmTaken + 1 .. fed /\ b - 1 # fed /\ (b - 1) + 1 = b
          BY <1>3, <1>22, <3>1, <3>2, <4>2
        <5>2. b - 1 \in ends
          BY <1>4, <1>22, <5>1 DEF LineStart
        <5> QED BY <1>5, <5>1, <5>2
      <4> QED BY <4>1, <4>2
    <3>4. frmWire[b] # "nl"
      <4>1. b \in b .. e - 1
        BY <1>22, <3>1
      <4> QED BY <1>22, <4>1
    <3>5. b \in lines
      BY <1>22, <3>1, <3>3, <3>4
    <3> QED BY <1>13, <3>5
  <2> QED BY <2>1, <2>2
<1>23. \A b : LineStart(b)' <=> LineStart(b)
  BY <1>1 DEF LineStart
<1>24. LineInv'
  BY <1>1, <1>16, <1>17, <1>18, <1>19, <1>20, <1>21, <1>22, <1>23 DEF LineInv, InOrder
<1> QED BY <1>1, <1>14, <1>24 DEF FrmInv

\* A chunk of text.
LEMMA OnSolInv ==
  ASSUME FrmInv, NEW n \in 1 .. Len(frmWire), OnSol(n)
  PROVE  FrmInv'
<1> DEFINE fed    == frmFed + n
           ends   == {i \in frmTaken + 1 .. fed : frmWire[i] = "nl"}
           begins == {frmTaken + 1} \cup {e + 1 : e \in ends \ {fed}}
           whole  == {b \in begins : \E e \in ends : b < e}
           lines  == {b \in begins : (\E e \in ends : b < e) /\ frmWire[b] # "nl"}
<1>1. CASE fed - frmTaken > FrmMaxBuf /\ ends = {}
  BY <1>1, CutInv DEF OnSol
<1>2. CASE ~(fed - frmTaken > FrmMaxBuf /\ ends = {})
  <2>1. /\ frmTaken' = IF ends = {} THEN frmTaken ELSE Max(ends)
        /\ frmOut' = frmOut \o InTurn({b \in whole : frmWire[b] # "nl"})
        /\ UNCHANGED frmCut
    BY <1>2 DEF OnSol
  <2>2. {b \in whole : frmWire[b] # "nl"} = lines
    OBVIOUS
  <2>3. frmOut' = frmOut \o InTurn(lines)
    BY <2>1, <2>2
  <2> HIDE DEF whole
  <2> QED BY <2>1, <2>3, LinesInv
<1> QED BY <1>1, <1>2

\* Every step of a framer.
LEMMA FrmStepInv == FrmInv /\ [FrmNext]_frmVars => FrmInv'
<1> SUFFICES ASSUME FrmInv, [FrmNext]_frmVars PROVE FrmInv'
  OBVIOUS
<1>1. CASE FrmNext
  BY <1>1, OnRtcmInv, OnSolInv DEF FrmNext
<1>2. CASE UNCHANGED frmVars
  <2>1. UNCHANGED <<frmKind, frmWire, frmFed, frmTaken, frmOut, frmLog, frmCut, frmFails>>
    BY <1>2 DEF frmVars
  <2>2. FrmTypeOK'
    BY <2>1 DEF FrmInv, FrmTypeOK
  <2>3. OutSet' = OutSet /\ GoodFrames' = GoodFrames /\ (NoShortMessages' <=> NoShortMessages)
        /\ (\A i : Ends(i)' = Ends(i)) /\ (\A b : LineStart(b)' <=> LineStart(b))
    BY <2>1 DEF OutSet, GoodFrames, NoShortMessages, Ends, LineStart
  <2>4. frmKind # "sol" => RtcmInv'
    BY <2>1, <2>3 DEF FrmInv, RtcmInv, InOrder, StopsAt
  <2>5. frmKind = "sol" => LineInv'
    BY <2>1, <2>3 DEF FrmInv, LineInv, InOrder
  <2> QED BY <2>1, <2>2, <2>4, <2>5 DEF FrmInv
<1> QED BY <1>1, <1>2

-----------------------------------------------------------------------------
(* The solver's status.                                                    *)

\* The number with n - 1 below it is the n-th.
LEMMA NthUnique ==
  ASSUME NEW K \in SUBSET Nat, IsFiniteSet(K), NEW i \in K, NEW n \in Nat,
         Cardinality(Below(K, i)) = n - 1
  PROVE  n \in 1 .. Cardinality(K) /\ Nth(K, n) = i
<1>1. /\ Cardinality(K) \in Nat
      /\ \A m \in 1 .. Cardinality(K) : Cardinality(Below(K, Nth(K, m))) = m - 1
      /\ \A j \in K : \E m \in 1 .. Cardinality(K) : Nth(K, m) = j
  BY NthIs
<1>2. PICK m \in 1 .. Cardinality(K) : Nth(K, m) = i
  BY <1>1
<1>3. m - 1 = n - 1 /\ m \in Nat
  BY <1>1, <1>2
<1>4. m = n
  BY <1>3
<1> QED BY <1>2, <1>4

\* What is picked, and from where.
LEMMA PickedIs ==
  ASSUME NEW T, NEW s \in Seq(T), NEW K \in SUBSET DOMAIN s
  PROVE  /\ K \in SUBSET Nat /\ IsFiniteSet(K) /\ Cardinality(K) \in Nat
         /\ Picked(s, K) \in Seq(T) /\ Len(Picked(s, K)) = Cardinality(K)
         /\ \A n \in 1 .. Cardinality(K) : Nth(K, n) \in K /\ Picked(s, K)[n] = s[Nth(K, n)]
         /\ \A i \in K : \E n \in 1 .. Cardinality(K) : Nth(K, n) = i
<1>1. DOMAIN s = 1 .. Len(s) /\ Len(s) \in Nat /\ 1 \in Int
  OBVIOUS
<1>2. K \in SUBSET Nat /\ IsFiniteSet(K)
  <2>1. IsFiniteSet(1 .. Len(s))
    BY <1>1, FS_Interval
  <2>2. IsFiniteSet(K)
    BY <1>1, <2>1, FS_Subset
  <2> QED BY <1>1, <2>2
<1>3. /\ Cardinality(K) \in Nat
      /\ \A n \in 1 .. Cardinality(K) : Nth(K, n) \in K
      /\ \A i \in K : \E n \in 1 .. Cardinality(K) : Nth(K, n) = i
  BY <1>2, NthIs
<1> DEFINE c == Cardinality(K)
<1>4. Picked(s, K) = [n \in 1 .. c |-> s[Nth(K, n)]]
  BY DEF Picked
<1> HIDE DEF c
<1>5. c \in Nat /\ \A n \in 1 .. c : Nth(K, n) \in K
  BY <1>3 DEF c
<1>6. \A n \in 1 .. c : s[Nth(K, n)] \in T
  BY <1>5
<1>7. Picked(s, K) \in Seq(T) /\ Len(Picked(s, K)) = c
      /\ \A n \in 1 .. c : Picked(s, K)[n] = s[Nth(K, n)]
  BY <1>4, <1>5, <1>6
<1> QED BY <1>2, <1>3, <1>7 DEF c

\* A number behind all others of a set is the last one.
LEMMA NthBehind ==
  ASSUME NEW K \in SUBSET Nat, IsFiniteSet(K), NEW m \in Nat, \A i \in K : i < m
  PROVE  /\ IsFiniteSet(K \cup {m}) /\ Cardinality(K \cup {m}) = Cardinality(K) + 1
         /\ \A n \in 1 .. Cardinality(K) : Nth(K \cup {m}, n) = Nth(K, n)
         /\ Nth(K \cup {m}, Cardinality(K) + 1) = m
<1> DEFINE M == K \cup {m}
           c == Cardinality(K)
<1>1. m \notin K /\ M \in SUBSET Nat
  OBVIOUS
<1>2. IsFiniteSet(M) /\ Cardinality(M) = c + 1 /\ c \in Nat
  BY <1>1, FS_AddElement, FS_CardinalityType
<1>3. \A i \in K : Below(M, i) = Below(K, i)
  <2> TAKE i \in K
  <2>1. i \in Nat /\ i < m /\ ~(m < i)
    OBVIOUS
  <2> QED BY <2>1 DEF Below
<1>4. Below(M, m) = K
  <2>1. ~(m < m)
    OBVIOUS
  <2> QED BY <2>1 DEF Below
<1> HIDE DEF M
<1>5. \A n \in 1 .. c : Nth(M, n) = Nth(K, n)
  <2> TAKE n \in 1 .. c
  <2>1. Nth(K, n) \in K /\ Cardinality(Below(K, Nth(K, n))) = n - 1
    BY NthIs
  <2>2. Nth(K, n) \in M /\ Cardinality(Below(M, Nth(K, n))) = n - 1 /\ n \in Nat
    <3>1. n \in Nat /\ Nth(K, n) \in M
      BY <1>2, <2>1 DEF M
    <3>2. Below(M, Nth(K, n)) = Below(K, Nth(K, n))
      BY <1>3, <2>1
    <3> QED BY <2>1, <3>1, <3>2
  <2> QED BY <1>1, <1>2, <2>2, NthUnique
<1>6. Nth(M, c + 1) = m
  <2>1. m \in M /\ Cardinality(Below(M, m)) = (c + 1) - 1 /\ c + 1 \in Nat
    BY <1>2, <1>4 DEF M
  <2> QED BY <1>1, <1>2, <2>1, NthUnique
<1> QED BY <1>2, <1>5, <1>6 DEF M

\* So what it picks comes last.
LEMMA PickedBehind ==
  ASSUME NEW T, NEW s \in Seq(T), NEW K \in SUBSET DOMAIN s, NEW m \in DOMAIN s,
         \A i \in K : i < m
  PROVE  Picked(s, K \cup {m}) = Append(Picked(s, K), s[m])
<1> DEFINE M == K \cup {m}
           c == Cardinality(K)
           p == Picked(s, K)
           q == Picked(s, M)
<1>1. M \in SUBSET DOMAIN s /\ m \in Nat /\ s[m] \in T
  OBVIOUS
<1>2. /\ K \in SUBSET Nat /\ IsFiniteSet(K) /\ c \in Nat /\ p \in Seq(T) /\ Len(p) = c
      /\ \A n \in 1 .. c : p[n] = s[Nth(K, n)]
  BY PickedIs
<1>3. /\ Cardinality(M) = c + 1 /\ Nth(M, c + 1) = m
      /\ \A n \in 1 .. c : Nth(M, n) = Nth(K, n)
  BY <1>1, <1>2, NthBehind
<1> HIDE DEF M
<1>4. /\ q \in Seq(T) /\ Len(q) = c + 1
      /\ \A n \in 1 .. c + 1 : q[n] = s[Nth(M, n)]
  BY <1>1, <1>3, PickedIs
<1> HIDE DEF c, p, q
<1>5. q = Append(p, s[m])
  <2>1. /\ Append(p, s[m]) \in Seq(T) /\ Len(Append(p, s[m])) = c + 1
        /\ Append(p, s[m])[c + 1] = s[m]
        /\ \A n \in 1 .. c : Append(p, s[m])[n] = p[n]
    BY <1>1, <1>2
  <2>2. \A n \in 1 .. c + 1 : q[n] = Append(p, s[m])[n]
    <3> TAKE n \in 1 .. c + 1
    <3>1. CASE n = c + 1
      BY <1>2, <1>3, <1>4, <2>1, <3>1
    <3>2. CASE n # c + 1
      <4>1. n \in 1 .. c /\ n \in 1 .. c + 1
        BY <1>2, <3>2
      <4> QED BY <1>2, <1>3, <1>4, <2>1, <4>1
    <3> QED BY <3>1, <3>2
  <2> QED BY <1>4, <2>1, <2>2, SeqEqual
<1> QED BY <1>5 DEF M, p, q

\* Sequences that agree where it picks.
LEMMA PickedSame ==
  ASSUME NEW K \in SUBSET Nat, IsFiniteSet(K), NEW s, NEW q, \A i \in K : s[i] = q[i]
  PROVE  Picked(s, K) = Picked(q, K)
<1>1. Cardinality(K) \in Nat /\ \A n \in 1 .. Cardinality(K) : Nth(K, n) \in K
  BY NthIs
<1> QED BY <1>1 DEF Picked

-----------------------------------------------------------------------------
\* The lines of a file, as rtkrcv writes them: epoch after epoch; a satellite is
\* first in its epoch on its first frequency, with the slips counted or one more.
FirstLine(lines, i) ==
  \A j \in 1 .. i - 1 : lines[j].tow = lines[i].tow => lines[j].sat # lines[i].sat

FileInv(lines) ==
  /\ lines \in Seq(Line)
  /\ \A i, j \in 1 .. Len(lines) : i <= j => lines[i].tow <= lines[j].tow
  /\ \A i \in 1 .. Len(lines) :
       /\ lines[i].freq = 1 <=> FirstLine(lines, i)
       /\ lines[i].freq = 1 => lines[i].slipc \in {Counted(lines, i - 1, lines[i].sat),
                                                   Counted(lines, i - 1, lines[i].sat) + 1}

\* the lines that tell of a slip, behind the p-th
SlipLines(lines, p) ==
  {i \in p + 1 .. Len(lines) :
     lines[i].freq = 1 /\ lines[i].slipc > Counted(lines, i - 1, lines[i].sat)}

\* What a line is.
LEMMA LineIs ==
  ASSUME NEW line \in Line
  PROVE  /\ line.tow \in Nat /\ line.tow >= 1 /\ line.tow <= StatMaxTow /\ line.sat \in StatSats
         /\ line.freq \in {1, 2} /\ line.slipc \in Nat /\ line.slipc <= StatMaxSlips
         /\ StatMaxTow \in Nat /\ StatMaxSlips \in Nat
  BY StatAssumption DEF Line

\* The slips counted by a line.
LEMMA CountedIs ==
  ASSUME NEW lines \in Seq(Line), NEW p \in 0 .. Len(lines), NEW s \in StatSats
  PROVE  /\ Counted(lines, p, s) \in Nat
         /\ p = 0 => Counted(lines, p, s) = 0
         /\ p > 0 => Counted(lines, p, s) =
                       IF lines[p].sat = s /\ lines[p].freq = 1 THEN lines[p].slipc
                       ELSE Counted(lines, p - 1, s)
<1> DEFINE F(q) == FirstFreq(lines, q, s)
<1>1. Len(lines) \in Nat /\ p \in Nat /\ \A i \in 1 .. Len(lines) : lines[i] \in Line
  OBVIOUS
<1>2. F(p) \in SUBSET (1 .. p)
  BY DEF FirstFreq
<1>3. Counted(lines, p, s) \in Nat
  <2>1. CASE F(p) = {}
    BY <2>1 DEF Counted
  <2>2. CASE F(p) # {}
    <3>1. Max(F(p)) \in 1 .. p
      BY <1>1, <1>2, <2>2, MaxIs
    <3>2. lines[Max(F(p))] \in Line
      BY <1>1, <3>1
    <3>3. lines[Max(F(p))].slipc \in Nat
      BY <3>2, LineIs
    <3> QED BY <2>2, <3>3 DEF Counted
  <2> QED BY <2>1, <2>2
<1>4. ASSUME p = 0 PROVE Counted(lines, p, s) = 0
  <2>1. F(p) = {}
    BY <1>4 DEF FirstFreq
  <2> QED BY <2>1 DEF Counted
<1>5. ASSUME p > 0, lines[p].sat = s, lines[p].freq = 1
      PROVE  Counted(lines, p, s) = lines[p].slipc
  <2>1. p \in F(p)
    BY <1>1, <1>5 DEF FirstFreq
  <2>2. Max(F(p)) \in F(p) /\ \A y \in F(p) : y <= Max(F(p))
    BY <1>1, <1>2, <2>1, MaxIs
  <2>3. Max(F(p)) = p
    BY <1>1, <1>2, <2>1, <2>2
  <2> QED BY <2>1, <2>3 DEF Counted
<1>6. ASSUME p > 0, ~(lines[p].sat = s /\ lines[p].freq = 1)
      PROVE  Counted(lines, p, s) = Counted(lines, p - 1, s)
  <2>1. F(p) = F(p - 1)
    <3>1. \A i : i \in 1 .. p <=> i \in 1 .. p - 1 \/ i = p
      BY <1>1, <1>6
    <3> QED BY <1>6, <3>1 DEF FirstFreq
  <2> QED BY <2>1 DEF Counted
<1> QED BY <1>3, <1>4, <1>5, <1>6

\* It does not depend on later lines.
LEMMA CountedSame ==
  ASSUME NEW lines, NEW more, NEW p \in Nat, \A i \in 1 .. p : lines[i] = more[i], NEW s
  PROVE  Counted(lines, p, s) = Counted(more, p, s)
<1>1. FirstFreq(lines, p, s) = FirstFreq(more, p, s)
  BY DEF FirstFreq
<1>2. CASE FirstFreq(lines, p, s) = {}
  BY <1>1, <1>2 DEF Counted
<1>3. CASE FirstFreq(lines, p, s) # {}
  <2>1. FirstFreq(lines, p, s) \in SUBSET (1 .. p)
    BY DEF FirstFreq
  <2>2. Max(FirstFreq(lines, p, s)) \in 1 .. p
    BY <1>3, <2>1, MaxIs
  <2> QED BY <1>1, <1>3, <2>2 DEF Counted
<1> QED BY <1>2, <1>3

-----------------------------------------------------------------------------
\* Readers.
Epoch == [tow : 0..StatMaxTow, stats : Seq(Line)]
Hit == [t : Nat, delta : Nat]
ReaderType == [acc : Epoch, sats : Seq(Line), last : [StatSats -> -1..StatMaxSlips],
               hits : Seq(Hit)]

\* What the p-th line leaves behind: the epoch so far, and of each satellite a count
\* that is not behind.
ReadInv(st, lines, p) ==
  /\ IF p = 0 THEN st.acc = NoEpoch /\ st.sats = <<>>
     ELSE /\ st.acc = [tow |-> lines[p].tow, stats |-> Picked(lines, LastEpoch(lines, p))]
          /\ st.sats = Picked(lines, LastEpoch(lines, p))
  /\ \A s \in StatSats : st.last[s] = -1 \/ st.last[s] >= Counted(lines, p, s)

\* A line whose satellite the epoch has already leaves everything as it is.
LEMMA FedSecond ==
  ASSUME NEW st \in ReaderType, NEW line \in Line, st.acc.tow = line.tow,
         line.sat \in Sats(st.acc.stats)
  PROVE  Fed(st, line) = st
<1>1. Fed(st, line) = [st EXCEPT !.acc = [tow |-> line.tow, stats |-> st.acc.stats]]
  BY DEF Fed
<1>2. st.acc = [tow |-> line.tow, stats |-> st.acc.stats]
  <2>1. st.acc \in Epoch
    BY DEF ReaderType
  <2> QED BY <2>1 DEF Epoch
<1>3. st = [st EXCEPT !.acc = st.acc]
  BY DEF ReaderType
<1> QED BY <1>1, <1>2, <1>3

\* Another one joins the epoch, or begins one.
LEMMA FedFirst ==
  ASSUME statNow \in Nat, NEW st \in ReaderType, NEW line \in Line, NEW had \in Seq(Line),
         had = IF st.acc.tow # line.tow THEN <<>> ELSE st.acc.stats,
         line.sat \notin Sats(had)
  PROVE  /\ Fed(st, line) \in ReaderType
         /\ Fed(st, line).acc = [tow |-> line.tow, stats |-> Append(had, line)]
         /\ Fed(st, line).sats = Append(had, line)
         /\ \A s \in StatSats :
              Fed(st, line).last[s] = IF s = line.sat THEN line.slipc ELSE st.last[s]
         /\ Fed(st, line).hits =
              IF st.last[line.sat] # -1 /\ line.slipc > st.last[line.sat]
              THEN Append(st.hits, [t |-> statNow, delta |-> line.slipc - st.last[line.sat]])
              ELSE st.hits
<1> DEFINE prev == st.last[line.sat]
           hits == IF prev # -1 /\ line.slipc > prev
                   THEN Append(st.hits, [t |-> statNow, delta |-> line.slipc - prev])
                   ELSE st.hits
           last == [st.last EXCEPT ![line.sat] = line.slipc]
<1>1. Fed(st, line) =
        [st EXCEPT !.acc  = [tow |-> line.tow, stats |-> Append(had, line)],
                   !.sats = Append(had, line), !.last[line.sat] = line.slipc,
                   !.hits = IF prev # -1 /\ line.slipc > prev
                            THEN Append(@, [t |-> statNow, delta |-> line.slipc - prev]) ELSE @]
  BY Zenon DEF Fed
<1>2. /\ st.acc \in Epoch /\ st.sats \in Seq(Line) /\ st.hits \in Seq(Hit)
      /\ st.last \in [StatSats -> -1..StatMaxSlips]
      /\ st = [acc |-> st.acc, sats |-> st.sats, last |-> st.last, hits |-> st.hits]
  BY DEF ReaderType
<1>3. Fed(st, line) = [acc |-> [tow |-> line.tow, stats |-> Append(had, line)],
                       sats |-> Append(had, line), last |-> last, hits |-> hits]
  BY <1>1, <1>2
<1>4. line.sat \in StatSats /\ line.slipc \in Nat /\ line.slipc <= StatMaxSlips
      /\ StatMaxSlips \in Nat /\ line.tow \in 0..StatMaxTow
  BY LineIs
<1>5. prev \in Int /\ prev >= -1
  BY <1>2, <1>4
<1>6. last \in [StatSats -> -1..StatMaxSlips]
  <2>1. line.slipc \in -1..StatMaxSlips
    BY <1>4
  <2> QED BY <1>2, <2>1
<1>7. hits \in Seq(Hit)
  <2>1. CASE prev # -1 /\ line.slipc > prev
    <3>1. line.slipc - prev \in Nat
      BY <1>4, <1>5, <2>1
    <3>2. [t |-> statNow, delta |-> line.slipc - prev] \in Hit
      BY <3>1 DEF Hit
    <3> QED BY <1>2, <2>1, <3>2
  <2>2. CASE ~(prev # -1 /\ line.slipc > prev)
    BY <1>2, <2>2
  <2> QED BY <2>1, <2>2
<1>8. Append(had, line) \in Seq(Line) /\ [tow |-> line.tow, stats |-> Append(had, line)] \in Epoch
  BY <1>4 DEF Epoch
<1>9. \A s \in StatSats : last[s] = IF s = line.sat THEN line.slipc ELSE st.last[s]
  BY <1>2
<1> HIDE DEF last, hits
<1>10. Fed(st, line) \in ReaderType
  BY <1>3, <1>6, <1>7, <1>8 DEF ReaderType
<1>11. /\ Fed(st, line).acc = [tow |-> line.tow, stats |-> Append(had, line)]
       /\ Fed(st, line).sats = Append(had, line)
       /\ Fed(st, line).last = last /\ Fed(st, line).hits = hits
  BY <1>3
<1> QED BY <1>9, <1>10, <1>11 DEF hits

\* The next line of a file leaves what it should, and a hit only for a slip.
LEMMA FedInv ==
  ASSUME statNow \in Nat, NEW lines, FileInv(lines), NEW p \in 1 .. Len(lines),
         NEW st \in ReaderType, ReadInv(st, lines, p - 1)
  PROVE  /\ Fed(st, lines[p]) \in ReaderType
         /\ ReadInv(Fed(st, lines[p]), lines, p)
         /\ \/ Fed(st, lines[p]).hits = st.hits
            \/ /\ p \in SlipLines(lines, p - 1)
               /\ Fed(st, lines[p]).hits = Append(st.hits, [t |-> statNow, delta |-> 1])
<1> DEFINE line == lines[p]
           K(q) == LastEpoch(lines, q)
           had == IF st.acc.tow # line.tow THEN <<>> ELSE st.acc.stats
           new == Fed(st, line)
<1>1. /\ lines \in Seq(Line) /\ line \in Line /\ Len(lines) \in Nat /\ p \in Nat /\ p > 0
      /\ p - 1 \in 0 .. Len(lines) /\ p \in 0 .. Len(lines) /\ p \in 1 .. Len(lines)
      /\ \A i \in 1 .. p : lines[i] \in Line /\ lines[i].tow \in Nat /\ lines[i].sat \in StatSats
      /\ line.tow \in Nat /\ line.tow >= 1 /\ line.sat \in StatSats
  <2>1. lines \in Seq(Line) /\ Len(lines) \in Nat /\ line \in Line
    BY DEF FileInv
  <2>2. \A i \in 1 .. p : lines[i] \in Line
    BY <2>1
  <2> QED BY <2>1, <2>2, LineIs
<1>2. K(p) \in SUBSET (1 .. p) /\ K(p) \in SUBSET DOMAIN lines
  BY <1>1 DEF LastEpoch
<1>3. p > 1 => K(p - 1) \in SUBSET (1 .. p - 1) /\ K(p - 1) \in SUBSET DOMAIN lines
  BY <1>1 DEF LastEpoch
\* the epoch so far is what the next line is to join
<1>4. /\ \A i \in 1 .. p - 1 : lines[i].tow <= line.tow
      /\ line.freq = 1 <=> FirstLine(lines, p)
      /\ \A i \in 1 .. p : lines[i].freq = 1 <=> FirstLine(lines, i)
  BY <1>1 DEF FileInv
<1>5. ASSUME NEW H \in SUBSET (1 .. p - 1), had = Picked(lines, H), K(p) = H \cup {p},
             line.sat \notin Sats(had), FirstLine(lines, p)
      PROVE  /\ new \in ReaderType /\ ReadInv(new, lines, p)
             /\ \/ new.hits = st.hits
                \/ /\ p \in SlipLines(lines, p - 1)
                   /\ new.hits = Append(st.hits, [t |-> statNow, delta |-> 1])
  <2> DEFINE c == Counted(lines, p - 1, line.sat)
             prev == st.last[line.sat]
  <2>1. H \in SUBSET DOMAIN lines /\ p \in DOMAIN lines /\ \A i \in H : i < p
    BY <1>1
  <2>2. had \in Seq(Line) /\ Picked(lines, K(p)) = Append(had, line)
    <3>1. Picked(lines, H) \in Seq(Line)
      BY <1>1, <2>1, PickedIs
    <3>2. Picked(lines, H \cup {p}) = Append(Picked(lines, H), line)
      BY <1>1, <2>1, PickedBehind
    <3> HIDE DEF had, K
    <3> QED BY <1>5, <3>1, <3>2
  <2> HIDE DEF had
  <2>3. had = IF st.acc.tow # line.tow THEN <<>> ELSE st.acc.stats
    BY DEF had
  <2>4. /\ new \in ReaderType
        /\ new.acc = [tow |-> line.tow, stats |-> Append(had, line)]
        /\ new.sats = Append(had, line)
        /\ \A s \in StatSats : new.last[s] = IF s = line.sat THEN line.slipc ELSE st.last[s]
        /\ new.hits = IF prev # -1 /\ line.slipc > prev
                      THEN Append(st.hits, [t |-> statNow, delta |-> line.slipc - prev])
                      ELSE st.hits
    BY <1>1, <1>5, <2>2, <2>3, FedFirst
  <2> HIDE DEF new
  <2>5. line.freq = 1 /\ line.slipc \in {c, c + 1}
    BY <1>1, <1>4, <1>5 DEF FileInv
  <2>6. \A s \in StatSats : Counted(lines, p, s) = IF line.sat = s THEN line.slipc
                                                    ELSE Counted(lines, p - 1, s)
    <3> TAKE s \in StatSats
    <3>1. Counted(lines, p, s) = IF lines[p].sat = s /\ lines[p].freq = 1 THEN lines[p].slipc
                                 ELSE Counted(lines, p - 1, s)
      BY <1>1, CountedIs
    <3> QED BY <2>5, <3>1
  <2>7. \A s \in StatSats : st.last[s] = -1 \/ st.last[s] >= Counted(lines, p - 1, s)
    BY DEF ReadInv
  <2>8. line.slipc \in Nat /\ c \in Nat /\ prev \in Int
    <3>1. c \in Nat
      BY <1>1, CountedIs
    <3>2. st.last \in [StatSats -> -1..StatMaxSlips] /\ StatMaxSlips \in Nat
      BY StatAssumption DEF ReaderType
    <3> QED BY <1>1, <3>1, <3>2, LineIs
  <2>9. \A s \in StatSats : new.last[s] = -1 \/ new.last[s] >= Counted(lines, p, s)
    <3> TAKE s \in StatSats
    <3>1. CASE s = line.sat
      <4>1. new.last[s] = line.slipc /\ Counted(lines, p, s) = line.slipc
        BY <2>4, <2>6, <3>1
      <4> QED BY <2>8, <4>1
    <3>2. CASE s # line.sat
      BY <2>4, <2>6, <2>7, <3>2
    <3> QED BY <3>1, <3>2
  <2>10. ReadInv(new, lines, p)
    BY <1>1, <2>2, <2>4, <2>9 DEF ReadInv
  <2>11. CASE prev # -1 /\ line.slipc > prev
    <3>1. prev >= c
      BY <1>1, <2>7, <2>11
    <3> HIDE DEF c, prev, line
    <3>2. line.slipc - prev = 1 /\ line.slipc > c
      BY <2>5, <2>8, <2>11, <3>1
    <3>3. new.hits = Append(st.hits, [t |-> statNow, delta |-> 1])
      BY <2>4, <2>11, <3>2
    <3>4. p \in SlipLines(lines, p - 1)
      <4>1. p \in (p - 1) + 1 .. Len(lines)
        BY <1>1
      <4> QED BY <2>5, <3>2, <4>1 DEF SlipLines, line, c
    <3> QED BY <2>4, <2>10, <3>3, <3>4
  <2>12. CASE ~(prev # -1 /\ line.slipc > prev)
    <3> QED BY <2>4, <2>10, <2>12
  <2> QED BY <2>11, <2>12
<1>6. CASE p > 1 /\ lines[p - 1].tow = line.tow
  <2>1. /\ st.acc.tow = line.tow /\ st.acc.stats = Picked(lines, K(p - 1))
        /\ had = Picked(lines, K(p - 1))
    <3>1. p - 1 # 0
      BY <1>1, <1>6
    <3>2. st.acc = [tow |-> lines[p - 1].tow, stats |-> Picked(lines, K(p - 1))]
      BY <3>1 DEF ReadInv
    <3> QED BY <1>6, <3>2
  <2>2. K(p) = K(p - 1) \cup (IF FirstLine(lines, p) THEN {p} ELSE {})
    <3>1. \A i : i \in 1 .. p <=> i \in 1 .. p - 1 \/ i = p
      BY <1>1
    <3> QED BY <1>6, <3>1 DEF LastEpoch, FirstLine
  <2>3. \A sat : sat \in Sats(had) <=> \E i \in K(p - 1) : lines[i].sat = sat
    <3> TAKE sat
    <3> DEFINE q == Picked(lines, K(p - 1))
               c == Cardinality(K(p - 1))
    <3>1. /\ q \in Seq(Line) /\ Len(q) = c /\ c \in Nat
          /\ \A n \in 1 .. c : Nth(K(p - 1), n) \in K(p - 1) /\ q[n] = lines[Nth(K(p - 1), n)]
          /\ \A i \in K(p - 1) : \E n \in 1 .. c : Nth(K(p - 1), n) = i
      BY <1>1, <1>3, <1>6, PickedIs
    <3> HIDE DEF q, c
    <3>2. DOMAIN q = 1 .. c
      BY <3>1
    <3>3. sat \in Sats(q) <=> \E n \in 1 .. c : q[n].sat = sat
      BY <3>2 DEF Sats
    <3>4. sat \in Sats(q) <=> \E i \in K(p - 1) : lines[i].sat = sat
      BY <3>1, <3>3
    <3> QED BY <2>1, <3>4 DEF q
  <2>4. CASE FirstLine(lines, p)
    <3>1. \A i \in K(p - 1) : i \in 1 .. p - 1 /\ lines[i].tow = line.tow
      BY <1>6 DEF LastEpoch
    <3>2. line.sat \notin Sats(had)
      BY <2>3, <2>4, <3>1 DEF FirstLine
    <3> QED BY <1>3, <1>5, <1>6, <2>1, <2>2, <2>4, <3>2
  <2>5. CASE ~FirstLine(lines, p)
    <3>1. PICK j \in 1 .. p - 1 : lines[j].tow = line.tow /\ lines[j].sat = line.sat
      BY <2>5 DEF FirstLine
    \* the first of its epoch and satellite
    <3>2. \E i \in K(p - 1) : lines[i].sat = line.sat
      <4> DEFINE E == {i \in 1 .. p - 1 : lines[i].tow = line.tow /\ lines[i].sat = line.sat}
      <4>1. E \in SUBSET Nat /\ E # {}
        BY <3>1
      <4> HIDE DEF E
      <4>2. PICK m \in E : \A k \in E : m <= k
        BY <4>1, LeastOf
      <4>3. m \in 1 .. p - 1 /\ lines[m].tow = line.tow /\ lines[m].sat = line.sat
        BY <4>2 DEF E
      <4>4. \A i \in 1 .. m - 1 : lines[i].tow = lines[m].tow => lines[i].sat # lines[m].sat
        <5> SUFFICES ASSUME NEW i \in 1 .. m - 1, lines[i].tow = line.tow, lines[i].sat = line.sat
                     PROVE  FALSE
          BY <4>3
        <5>1. i \in 1 .. p - 1 /\ ~(m <= i)
          BY <1>1, <4>3
        <5>2. i \in E
          BY <5>1 DEF E
        <5> QED BY <4>2, <5>1, <5>2
      <4>5. m \in K(p - 1)
        BY <1>6, <4>3, <4>4 DEF LastEpoch
      <4> QED BY <4>3, <4>5
    <3>3. line.sat \in Sats(st.acc.stats)
      BY <2>1, <2>3, <3>2
    <3>4. new = st
      BY <1>1, <2>1, <3>3, FedSecond
    <3>5. K(p) = K(p - 1)
      BY <2>2, <2>5
    <3>6. \A s \in StatSats : Counted(lines, p, s) = Counted(lines, p - 1, s)
      <4>1. line.freq # 1
        BY <1>4, <2>5
      <4> QED BY <1>1, <4>1, CountedIs
    <3>7. ReadInv(st, lines, p)
      <4>1. p # 0 /\ p - 1 # 0
        BY <1>1, <1>6
      <4> QED BY <1>6, <3>5, <3>6, <4>1 DEF ReadInv
    <3> QED BY <3>4, <3>7
  <2> QED BY <2>4, <2>5
<1>7. CASE ~(p > 1 /\ lines[p - 1].tow = line.tow)
  <2>1. \A i \in 1 .. p - 1 : lines[i].tow # line.tow
    <3> SUFFICES ASSUME NEW i \in 1 .. p - 1, lines[i].tow = line.tow PROVE FALSE
      OBVIOUS
    <3>1. p - 1 \in 1 .. p - 1 /\ i \in 1 .. Len(lines) /\ p - 1 \in 1 .. Len(lines)
          /\ i <= p - 1 /\ p > 1
      BY <1>1
    <3>2. lines[i].tow <= lines[p - 1].tow /\ lines[p - 1].tow <= line.tow
      BY <1>4, <3>1 DEF FileInv
    <3>3. lines[p - 1].tow \in Nat /\ lines[i].tow \in Nat
      BY <1>1, <3>1
    <3>4. lines[p - 1].tow = line.tow
      BY <1>1, <3>2, <3>3
    <3> QED BY <1>7, <3>1, <3>4
  <2>2. FirstLine(lines, p)
    BY <2>1 DEF FirstLine
  <2>3. K(p) = {} \cup {p}
    <3>1. \A i : i \in 1 .. p <=> i \in 1 .. p - 1 \/ i = p
      BY <1>1
    <3> QED BY <2>1, <2>2, <3>1 DEF LastEpoch, FirstLine
  <2>4. st.acc.tow # line.tow
    <3>1. CASE p = 1
      <4>1. st.acc = NoEpoch
        BY <3>1 DEF ReadInv
      <4> QED BY <1>1, <4>1 DEF NoEpoch
    <3>2. CASE p # 1
      <4>1. p - 1 # 0 /\ p - 1 \in 1 .. p - 1
        BY <1>1, <3>2
      <4>2. st.acc.tow = lines[p - 1].tow
        BY <4>1 DEF ReadInv
      <4> QED BY <2>1, <4>1, <4>2
    <3> QED BY <3>1, <3>2
  <2>5. Picked(lines, {}) = <<>>
    <3>1. Cardinality({}) = 0
      BY FS_EmptySet
    <3> QED BY <3>1 DEF Picked
  <2>6. had = Picked(lines, {}) /\ line.sat \notin Sats(had)
    BY <2>4, <2>5 DEF Sats
  <2> QED BY <1>5, <2>2, <2>3, <2>6
<1> QED BY <1>6, <1>7

-----------------------------------------------------------------------------
\* The recursion of Read is well defined.
LEMMA ReadIs ==
  ASSUME NEW st, NEW from \in Nat, Len(statFile.lines) \in Nat, from <= Len(statFile.lines)
  PROVE  \E R : /\ R[from] = st
                /\ \A n \in from + 1 .. Len(statFile.lines) : R[n] = Fed(R[n - 1], statFile.lines[n])
                /\ Read(st, from, Len(statFile.lines)) = R[Len(statFile.lines)]
<1> DEFINE L == Len(statFile.lines)
           lines == statFile.lines
           D == from .. L
           Rule(F, n) == IF n = from THEN st ELSE Fed(F[n - 1], lines[n])
           Upto(k, F) == /\ F = [n \in D |-> F[n]]
                         /\ \A n \in D : n <= from + k => F[n] = Rule(F, n)
<1>1. L \in Nat /\ from \in D /\ \A n \in D : n \in Nat /\ (n # from => n - 1 \in D /\ n - 1 < n)
  OBVIOUS
<1>2. \A k \in Nat : \E F : Upto(k, F)
  <2> DEFINE Bad == {k \in Nat : ~ \E F : Upto(k, F)}
  <2> SUFFICES ASSUME Bad # {} PROVE FALSE
    OBVIOUS
  <2>1. PICK m \in Bad : \A k \in Bad : m <= k
    <3> HIDE DEF Bad
    <3>1. Bad \in SUBSET Nat
      BY DEF Bad
    <3> QED BY <3>1, LeastOf
  <2>2. m # 0
    <3> SUFFICES ASSUME m = 0 PROVE FALSE
      OBVIOUS
    <3> DEFINE F0 == [n \in D |-> st]
    <3>1. \A n \in D : n <= from + 0 => n = from
      BY <1>1
    <3>2. F0 = [n \in D |-> F0[n]] /\ F0[from] = st
      BY <1>1
    <3> HIDE DEF F0
    <3>3. Upto(0, F0)
      BY <3>1, <3>2
    <3> QED BY <3>3
  <2>3. PICK F : Upto(m - 1, F)
    <3>1. m - 1 \in Nat /\ ~(m <= m - 1)
      BY <2>2
    <3> QED BY <2>1, <3>1
  <2> DEFINE u == from + m
             G == [n \in D |-> IF n = u THEN Rule(F, u) ELSE F[n]]
  <2>4. u \in Nat /\ u # from /\ \A n \in D : n <= from + m => n = u \/ n <= from + (m - 1)
    BY <1>1, <2>2
  <2>5. G = [n \in D |-> G[n]] /\ \A n \in D : G[n] = IF n = u THEN Rule(F, u) ELSE F[n]
    OBVIOUS
  <2> HIDE DEF G
  <2>6. ASSUME NEW n \in D, n <= from + m PROVE G[n] = Rule(G, n)
    <3>1. n # from => n - 1 \in D /\ n - 1 # u
      BY <1>1, <2>4, <2>6
    <3>2. n # from => G[n - 1] = F[n - 1]
      BY <2>5, <3>1
    <3>3. Rule(G, n) = Rule(F, n)
      BY <3>2
    <3>4. CASE n = u
      BY <2>5, <3>3, <3>4
    <3>5. CASE n # u
      BY <2>3, <2>4, <2>5, <2>6, <3>3, <3>5
    <3> QED BY <3>4, <3>5
  <2>7. Upto(m, G)
    BY <2>5, <2>6
  <2> QED BY <2>7
<1>3. PICK R : Upto(L, R)
  BY <1>1, <1>2
<1>4. \A n \in D : R[n] = Rule(R, n)
  <2>1. \A n \in D : n <= from + L
    BY <1>1
  <2> QED BY <1>3, <2>1
<1>5. R = [n \in D |-> Rule(R, n)]
  BY <1>3, <1>4
<1> DEFINE C == CHOOSE F : F = [n \in D |-> Rule(F, n)]
<1>6. C = [n \in D |-> Rule(C, n)]
  BY <1>5
<1>7. Read(st, from, L) = C[L]
  BY DEF Read
<1> HIDE DEF C
<1>8. C[from] = st
  BY <1>1, <1>6
<1>9. \A n \in from + 1 .. L : C[n] = Fed(C[n - 1], lines[n])
  <2> TAKE n \in from + 1 .. L
  <2>1. n \in D /\ n # from
    BY <1>1
  <2> QED BY <1>6, <2>1
<1> QED BY <1>7, <1>8, <1>9

\* Slip lines are few, and a line takes itself off them when it is read.
LEMMA SlipLinesAre ==
  ASSUME NEW lines, FileInv(lines), NEW p \in 0 .. Len(lines)
  PROVE  /\ IsFiniteSet(SlipLines(lines, p)) /\ Cardinality(SlipLines(lines, p)) \in Nat
         /\ p = Len(lines) => SlipLines(lines, p) = {}
         /\ p > 0 => Cardinality(SlipLines(lines, p - 1)) =
                       Cardinality(SlipLines(lines, p))
                         + IF p \in SlipLines(lines, p - 1) THEN 1 ELSE 0
<1>1. Len(lines) \in Nat /\ p \in Nat
  BY DEF FileInv
<1>2. SlipLines(lines, p) \subseteq 1 .. Len(lines)
  BY <1>1 DEF SlipLines
<1>3. IsFiniteSet(1 .. Len(lines))
  <2>1. 1 \in Int /\ Len(lines) \in Int
    BY <1>1
  <2> QED BY <2>1, FS_Interval
<1>4. IsFiniteSet(SlipLines(lines, p)) /\ Cardinality(SlipLines(lines, p)) \in Nat
  BY <1>2, <1>3, FS_Subset, FS_CardinalityType
<1>5. ASSUME p = Len(lines) PROVE SlipLines(lines, p) = {}
  BY <1>1, <1>5 DEF SlipLines
<1>6. ASSUME p > 0
      PROVE  Cardinality(SlipLines(lines, p - 1)) =
               Cardinality(SlipLines(lines, p)) + IF p \in SlipLines(lines, p - 1) THEN 1 ELSE 0
  <2>1. \A i : i \in (p - 1) + 1 .. Len(lines) <=> i \in p + 1 .. Len(lines) \/ i = p
    BY <1>1, <1>6
  <2>2. p \notin SlipLines(lines, p)
    BY <1>1 DEF SlipLines
  <2>3. CASE p \in SlipLines(lines, p - 1)
    <3>1. SlipLines(lines, p - 1) = SlipLines(lines, p) \cup {p}
      BY <2>1, <2>3 DEF SlipLines
    <3> QED BY <1>4, <2>2, <2>3, <3>1, FS_AddElement
  <2>4. CASE p \notin SlipLines(lines, p - 1)
    <3>1. SlipLines(lines, p - 1) = SlipLines(lines, p)
      BY <2>1, <2>4 DEF SlipLines
    <3> QED BY <1>4, <2>4, <3>1
  <2> QED BY <2>3, <2>4
<1> QED BY <1>4, <1>5, <1>6

\* hits as the window keeps them: of one slip each, none of the future
HitsOK(hits) == \A i \in 1 .. Len(hits) : hits[i].delta = 1 /\ hits[i].t <= statNow

\* hits that are older hits and after those new ones
HitsAdded(old, hits) ==
  /\ Len(old) <= Len(hits)
  /\ \A i \in 1 .. Len(hits) : IF i <= Len(old) THEN hits[i] = old[i] ELSE hits[i].t = statNow

\* A reader at the end of what it can read.
LEMMA ReadsOn ==
  ASSUME statNow \in Nat, FileInv(statFile.lines), NEW from \in 0 .. Len(statFile.lines),
         NEW st \in ReaderType, ReadInv(st, statFile.lines, from), HitsOK(st.hits), NEW m \in Nat,
         Len(st.hits) + Cardinality(SlipLines(statFile.lines, from)) <= m
  PROVE  LET r == Read(st, from, Len(statFile.lines))
         IN  /\ r \in ReaderType /\ ReadInv(r, statFile.lines, Len(statFile.lines))
             /\ HitsOK(r.hits) /\ HitsAdded(st.hits, r.hits) /\ Len(r.hits) <= m
<1> DEFINE lines == statFile.lines
           L == Len(lines)
<1>1. L \in Nat /\ from \in Nat /\ from <= L
  BY DEF FileInv
<1>2. PICK R : /\ R[from] = st
               /\ \A n \in from + 1 .. L : R[n] = Fed(R[n - 1], lines[n])
               /\ Read(st, from, Len(statFile.lines)) = R[L]
  BY <1>1, ReadIs
<1> DEFINE Fine(n) == /\ R[n] \in ReaderType /\ ReadInv(R[n], lines, n)
                      /\ HitsOK(R[n].hits) /\ HitsAdded(st.hits, R[n].hits)
                      /\ Len(R[n].hits) + Cardinality(SlipLines(lines, n)) <= m
<1>3. Fine(from)
  <2>1. st.hits \in Seq(Hit)
    BY DEF ReaderType
  <2>2. HitsAdded(st.hits, st.hits)
    BY <2>1 DEF HitsAdded
  <2> QED BY <1>2, <2>2
<1>4. ASSUME NEW n \in from + 1 .. L, Fine(n - 1) PROVE Fine(n)
  <2> DEFINE old == R[n - 1]
             new == R[n]
             one == [t |-> statNow, delta |-> 1]
  <2>1. n \in 1 .. L /\ n \in 0 .. L /\ n > 0 /\ new = Fed(old, lines[n])
    BY <1>1, <1>2
  <2>2. /\ new \in ReaderType /\ ReadInv(new, lines, n)
        /\ \/ new.hits = old.hits
           \/ n \in SlipLines(lines, n - 1) /\ new.hits = Append(old.hits, one)
    <3>1. old \in ReaderType /\ ReadInv(old, lines, n - 1)
      BY <1>4
    <3> HIDE DEF old, new
    <3>2. \A u \in ReaderType : ReadInv(u, lines, n - 1) =>
            /\ Fed(u, lines[n]) \in ReaderType /\ ReadInv(Fed(u, lines[n]), lines, n)
            /\ \/ Fed(u, lines[n]).hits = u.hits
               \/ n \in SlipLines(lines, n - 1) /\ Fed(u, lines[n]).hits = Append(u.hits, one)
      BY <2>1, FedInv
    <3> QED BY <2>1, <3>1, <3>2
  <2>3. /\ Cardinality(SlipLines(lines, n)) \in Nat
        /\ Cardinality(SlipLines(lines, n - 1)) =
             Cardinality(SlipLines(lines, n)) + IF n \in SlipLines(lines, n - 1) THEN 1 ELSE 0
    BY <2>1, SlipLinesAre
  <2>4. old.hits \in Seq(Hit) /\ st.hits \in Seq(Hit) /\ new.hits \in Seq(Hit)
    BY <1>4, <2>2 DEF ReaderType
  <2>5. HitsOK(old.hits) /\ HitsAdded(st.hits, old.hits)
        /\ Len(old.hits) + Cardinality(SlipLines(lines, n - 1)) <= m
    BY <1>4
  <2>6. CASE new.hits = old.hits
    <3>1. Len(old.hits) + Cardinality(SlipLines(lines, n)) <= m
      BY <2>3, <2>4, <2>5
    <3> QED BY <2>2, <2>5, <2>6, <3>1
  <2>7. CASE n \in SlipLines(lines, n - 1) /\ new.hits = Append(old.hits, one)
    <3> HIDE DEF old, new
    <3> DEFINE h == old.hits
               g == new.hits
    <3>1. /\ Len(g) = Len(h) + 1 /\ Len(h) \in Nat /\ g[Len(h) + 1] = one
          /\ \A i \in 1 .. Len(h) : g[i] = h[i]
      BY <2>4, <2>7
    <3>2. one.t = statNow /\ one.delta = 1
      OBVIOUS
    <3> HIDE DEF g, h, one
    <3>3. \A i \in 1 .. Len(g) : i \in 1 .. Len(h) \/ i = Len(h) + 1
      BY <3>1
    <3>4. HitsOK(g)
      <4> SUFFICES ASSUME NEW i \in 1 .. Len(g) PROVE g[i].delta = 1 /\ g[i].t <= statNow
        BY DEF HitsOK
      <4>1. CASE i \in 1 .. Len(h)
        BY <2>5, <3>1, <4>1 DEF HitsOK, h
      <4>2. CASE i = Len(h) + 1
        BY <3>1, <3>2, <4>2
      <4> QED BY <3>3, <4>1, <4>2
    <3>5. HitsAdded(st.hits, g)
      <4>1. HitsAdded(st.hits, h) /\ Len(st.hits) \in Nat
        BY <2>4, <2>5 DEF h
      <4>2. Len(st.hits) <= Len(g)
        BY <3>1, <4>1 DEF HitsAdded
      <4>3. ASSUME NEW i \in 1 .. Len(g)
            PROVE  IF i <= Len(st.hits) THEN g[i] = st.hits[i] ELSE g[i].t = statNow
        <5>1. CASE i \in 1 .. Len(h)
          BY <3>1, <4>1, <5>1 DEF HitsAdded
        <5>2. CASE i = Len(h) + 1
          <6>1. ~(i <= Len(st.hits))
            BY <3>1, <4>1, <5>2 DEF HitsAdded
          <6> QED BY <3>1, <3>2, <5>2, <6>1
        <5> QED BY <3>3, <5>1, <5>2
      <4> QED BY <4>2, <4>3 DEF HitsAdded
    <3>6. Len(g) + Cardinality(SlipLines(lines, n)) <= m
      BY <2>3, <2>5, <2>7, <3>1 DEF h
    <3> QED BY <2>2, <3>4, <3>5, <3>6 DEF g, new
  <2> QED BY <2>2, <2>6, <2>7
<1>5. \A n \in from .. L : Fine(n)
  <2> DEFINE Bad == {n \in from .. L : ~Fine(n)}
  <2> SUFFICES ASSUME Bad # {} PROVE FALSE
    OBVIOUS
  <2>1. PICK n \in Bad : \A k \in Bad : n <= k
    <3> HIDE DEF Fine
    <3>1. Bad \in SUBSET Nat
      BY <1>1
    <3> HIDE DEF Bad
    <3> QED BY <3>1, LeastOf
  <2> HIDE DEF Fine
  <2>2. n # from
    BY <1>3, <2>1
  <2>3. n \in from + 1 .. L /\ n - 1 \in from .. L /\ ~(n <= n - 1)
    BY <1>1, <2>1, <2>2
  <2>4. Fine(n - 1)
    BY <2>1, <2>3
  <2> QED BY <1>4, <2>1, <2>3, <2>4
<1>6. Fine(L)
  <2>1. L \in from .. L
    BY <1>1
  <2> HIDE DEF Fine
  <2> QED BY <1>5, <2>1
<1>7. Len(R[L].hits) <= m
  <2>1. R[L].hits \in Seq(Hit) /\ Cardinality(SlipLines(lines, L)) \in Nat
    <3>1. L \in 0 .. Len(lines)
      BY <1>1
    <3> QED BY <1>6, <3>1, SlipLinesAre DEF ReaderType
  <2> QED BY <1>6, <2>1
<1> QED BY <1>2, <1>6, <1>7

-----------------------------------------------------------------------------
HitsBy(hits, t) == {i \in 1 .. Len(hits) : hits[i].t <= t}
SlipsBy(slips, t) == {i \in 1 .. Len(slips) : slips[i] <= t}

\* the lines that have been read, and those of the newest file
LinesRead == statPos \div 2
ReadTo == IF statCur = statFile.number THEN LinesRead ELSE 0

OneSky(sats) ==
  \A i, j \in DOMAIN sats : /\ sats[i].tow = sats[j].tow
                            /\ i # j => sats[i].sat # sats[j].sat

\* The count: no slip that the window has, or that a line still tells of, is
\* without one that happened, and in time.
CountInv ==
  /\ \A i \in 1 .. Len(statSlips) : statSlips[i] <= statNow
  /\ HitsOK(statHits)
  /\ \A t \in 0 .. statNow :
       Cardinality(HitsBy(statHits, t)) <= Cardinality(SlipsBy(statSlips, t))
  /\ Cardinality(SlipLines(statFile.lines, 0)) <= Len(statSlips)
  /\ Len(statHits) + Cardinality(SlipLines(statFile.lines, ReadTo)) <= Len(statSlips)

StatInv ==
  /\ StatTypeOK /\ statPos = 2 * LinesRead
  /\ FileInv(statFile.lines) /\ Len(statFile.lines) <= StatMaxLines
  /\ statHalf => Len(statFile.lines) + statFile.number <= StatMaxLines
  /\ statCur <= statFile.number /\ ReadTo <= Len(statFile.lines)
  /\ statCur = statFile.number => ReadInv(Reader, statFile.lines, LinesRead)
  /\ OneSky(statSats)
  /\ CountInv

\* Sets of hits and of slips are finite.
LEMMA BySets ==
  ASSUME NEW T, NEW s \in Seq(T), NEW t
  PROVE  /\ IsFiniteSet(HitsBy(s, t)) /\ Cardinality(HitsBy(s, t)) \in Nat
         /\ IsFiniteSet(SlipsBy(s, t)) /\ Cardinality(SlipsBy(s, t)) \in Nat
         /\ Cardinality(HitsBy(s, t)) <= Len(s)
         /\ (\A i \in 1 .. Len(s) : s[i] <= t) => Cardinality(SlipsBy(s, t)) = Len(s)
<1>1. Len(s) \in Nat /\ 1 \in Int /\ Len(s) \in Int
  OBVIOUS
<1>2. IsFiniteSet(1 .. Len(s)) /\ Cardinality(1 .. Len(s)) = Len(s)
  <2>1. IsFiniteSet(1 .. Len(s))
        /\ Cardinality(1 .. Len(s)) = IF 1 > Len(s) THEN 0 ELSE Len(s) - 1 + 1
    BY <1>1, FS_Interval
  <2> QED BY <1>1, <2>1
<1>3. HitsBy(s, t) \in SUBSET (1 .. Len(s)) /\ SlipsBy(s, t) \in SUBSET (1 .. Len(s))
  BY DEF HitsBy, SlipsBy
<1>4. /\ IsFiniteSet(HitsBy(s, t)) /\ IsFiniteSet(SlipsBy(s, t))
      /\ Cardinality(HitsBy(s, t)) <= Len(s)
  BY <1>2, <1>3, FS_Subset
<1>5. ASSUME \A i \in 1 .. Len(s) : s[i] <= t PROVE SlipsBy(s, t) = 1 .. Len(s)
  BY <1>5 DEF SlipsBy
<1> QED BY <1>2, <1>4, <1>5, FS_CardinalityType

\* Nothing is written yet.
LEMMA StatInitInv == StatInit => StatInv
<1> SUFFICES ASSUME StatInit PROVE StatInv
  OBVIOUS
<1>1. /\ statFile = [number |-> 1, lines |-> <<>>] /\ statHalf = FALSE
      /\ statCur = 0 /\ statPos = 0 /\ statAcc = NoEpoch /\ statSats = <<>>
      /\ statLast = [s \in StatSats |-> -1] /\ statHits = <<>> /\ statNow = 0 /\ statSlips = <<>>
  BY DEF StatInit
<1>2. statFile.number = 1 /\ statFile.lines = <<>> /\ Len(<<>>) = 0
  BY <1>1
<1>3. StatTypeOK
  <2>1. /\ <<>> \in Seq(Line) /\ <<>> \in Seq([t : Nat, delta : Nat]) /\ <<>> \in Seq(Nat)
        /\ 1 \in 1..StatMaxFiles /\ 0 \in 0..StatMaxFiles /\ 0 \in 0..2 * StatMaxLines
        /\ 0 \in 0..StatMaxTow /\ 0 \in 0..StatMaxNow /\ -1 \in -1..StatMaxSlips
    BY StatAssumption
  <2>2. statFile \in [number : 1..StatMaxFiles, lines : Seq(Line)]
    BY <1>1, <2>1
  <2>3. statAcc \in [tow : 0..StatMaxTow, stats : Seq(Line)]
    BY <1>1, <2>1 DEF NoEpoch
  <2>4. statLast \in [StatSats -> -1..StatMaxSlips]
    BY <1>1, <2>1
  <2> QED BY <1>1, <2>1, <2>2, <2>3, <2>4 DEF StatTypeOK
<1>4. FileInv(statFile.lines)
  BY <1>2 DEF FileInv
<1>5. CountInv
  <2>1. SlipLines(statFile.lines, 0) = {} /\ ReadTo = 0
    BY <1>1, <1>2 DEF SlipLines, ReadTo
  <2>2. \A t : HitsBy(statHits, t) = {} /\ SlipsBy(statSlips, t) = {}
    BY <1>1 DEF HitsBy, SlipsBy
  <2>3. Cardinality({}) = 0
    BY FS_EmptySet
  <2>4. Len(statHits) = 0 /\ Len(statSlips) = 0 /\ statNow = 0
        /\ Cardinality(SlipLines(statFile.lines, 0)) = 0
        /\ Cardinality(SlipLines(statFile.lines, ReadTo)) = 0
    BY <1>1, <2>1, <2>3
  <2>5. \A t : Cardinality(HitsBy(statHits, t)) = 0 /\ Cardinality(SlipsBy(statSlips, t)) = 0
    BY <2>2, <2>3
  <2> QED BY <2>4, <2>5 DEF CountInv, HitsOK
<1>6. OneSky(statSats)
  BY <1>1 DEF OneSky
<1>7. Len(statFile.lines) <= StatMaxLines /\ statCur <= statFile.number
      /\ ReadTo <= Len(statFile.lines) /\ statCur # statFile.number
      /\ statPos = 2 * LinesRead
  BY <1>1, <1>2, StatAssumption DEF ReadTo, LinesRead
<1> QED BY <1>1, <1>3, <1>4, <1>5, <1>6, <1>7 DEF StatInv

\* What a step needs of the types.
LEMMA StatTypes ==
  ASSUME StatTypeOK
  PROVE  /\ statNow \in Nat /\ statHits \in Seq(Hit) /\ statSlips \in Seq(Nat)
         /\ Reader \in ReaderType
         /\ statFile.lines \in Seq(Line) /\ statFile.number \in Nat /\ statFile.number >= 1
         /\ statCur \in Nat /\ statPos \in Nat /\ LinesRead \in Nat /\ ReadTo \in Nat /\ StatMaxLines \in Nat
         /\ Len(statFile.lines) \in Nat /\ Len(statHits) \in Nat /\ Len(statSlips) \in Nat
         /\ statFile = [number |-> statFile.number, lines |-> statFile.lines]
<1>1. /\ statNow \in Nat /\ statHits \in Seq(Hit) /\ statSlips \in Seq(Nat)
      /\ statCur \in Nat /\ statPos \in Nat
      /\ statFile \in [number : 1..StatMaxFiles, lines : Seq(Line)] /\ StatMaxLines \in Nat
  BY StatAssumption DEF StatTypeOK, Hit
<1>2. Reader \in ReaderType
  BY DEF StatTypeOK, ReaderType, Reader, Epoch, Hit
<1>3. statFile.lines \in Seq(Line) /\ statFile.number \in Nat /\ statFile.number >= 1
      /\ statFile = [number |-> statFile.number, lines |-> statFile.lines]
  BY <1>1, StatAssumption
<1>4. Len(statFile.lines) \in Nat /\ Len(statHits) \in Nat /\ Len(statSlips) \in Nat
  BY <1>1, <1>3
<1>5. LinesRead \in Nat
  BY <1>1 DEF LinesRead
<1> QED BY <1>1, <1>2, <1>3, <1>4, <1>5 DEF ReadTo

\* The sky of an epoch is one of it.
LEMMA EpochIsOneSky ==
  ASSUME NEW lines \in Seq(Line), NEW p \in 1 .. Len(lines)
  PROVE  OneSky(Picked(lines, LastEpoch(lines, p)))
<1> DEFINE K == LastEpoch(lines, p)
           q == Picked(lines, K)
           c == Cardinality(K)
<1>1. K \in SUBSET DOMAIN lines
  BY DEF LastEpoch
<1>2. /\ K \in SUBSET Nat /\ IsFiniteSet(K) /\ c \in Nat /\ q \in Seq(Line) /\ Len(q) = c
      /\ \A n \in 1 .. c : Nth(K, n) \in K /\ q[n] = lines[Nth(K, n)]
  BY <1>1, PickedIs
<1>3. \A m, n \in 1 .. c : m < n => Nth(K, m) < Nth(K, n)
  BY <1>2, NthRises
<1>4. \A i, j \in K : /\ lines[i].tow = lines[j].tow
                      /\ i < j => lines[i].sat # lines[j].sat
  <2> TAKE i \in K, j \in K
  <2>1. /\ lines[i].tow = lines[p].tow /\ lines[j].tow = lines[p].tow
        /\ \A h \in 1 .. j - 1 : lines[h].tow = lines[j].tow => lines[h].sat # lines[j].sat
    BY DEF LastEpoch
  <2>2. ASSUME i < j PROVE i \in 1 .. j - 1
    <3>1. i \in 1 .. p /\ j \in 1 .. p
      BY DEF LastEpoch
    <3> QED BY <2>2, <3>1
  <2> QED BY <2>1, <2>2
<1>5. /\ \A m, n \in 1 .. c : q[m].tow = q[n].tow
      /\ \A m, n \in 1 .. c : m < n => q[m].sat # q[n].sat
  <2> SUFFICES ASSUME NEW m \in 1 .. c, NEW n \in 1 .. c
               PROVE  q[m].tow = q[n].tow /\ (m < n => q[m].sat # q[n].sat)
    OBVIOUS
  <2>1. /\ Nth(K, m) \in K /\ q[m] = lines[Nth(K, m)]
        /\ Nth(K, n) \in K /\ q[n] = lines[Nth(K, n)]
    BY <1>2
  <2> HIDE DEF q, c, K
  <2>2. q[m].tow = q[n].tow
    BY <1>4, <2>1
  <2>3. ASSUME m < n PROVE q[m].sat # q[n].sat
    <3>1. Nth(K, m) < Nth(K, n)
      BY <1>3, <2>3
    <3>2. lines[Nth(K, m)].sat # lines[Nth(K, n)].sat
      BY <1>4, <2>1, <3>1
    <3> QED BY <2>1, <3>2
  <2> QED BY <2>2, <2>3
<1>6. DOMAIN q = 1 .. c /\ \A m, n \in 1 .. c : m # n => m < n \/ n < m
  BY <1>2
<1> HIDE DEF q, c
<1>7. \A m, n \in 1 .. c : q[m].tow = q[n].tow /\ (m # n => q[m].sat # q[n].sat)
  <2> TAKE m \in 1 .. c, n \in 1 .. c
  <2>1. q[m].tow = q[n].tow
    BY <1>5
  <2>2. m < n => q[m].sat # q[n].sat
    BY <1>5
  <2>3. n < m => q[n].sat # q[m].sat
    BY <1>5
  <2> QED BY <1>6, <2>1, <2>2, <2>3
<1> QED BY <1>6, <1>7 DEF OneSky, q

\* A poll.
LEMMA StatPollInv == StatInv /\ StatPoll => StatInv'
<1> SUFFICES ASSUME StatInv, StatPoll PROVE StatInv'
  OBVIOUS
<1> DEFINE lines == statFile.lines
           L == Len(lines)
           fresh == statCur # statFile.number
           from == IF fresh THEN 0 ELSE LinesRead
           start == IF fresh THEN [Reader EXCEPT !.acc = NoEpoch, !.sats = <<>>] ELSE Reader
           r == Read(start, from, L)
<1>1. /\ statCur' = statFile.number /\ statPos' = 2 * L /\ LinesRead' = L
      /\ statAcc' = r.acc /\ statSats' = r.sats /\ statLast' = r.last /\ statHits' = r.hits
      /\ UNCHANGED <<statFile, statHalf, statNow, statSlips>>
  <2>1. L \in Nat /\ statPos \in Nat /\ statPos = 2 * LinesRead /\ LinesRead \in Nat
    BY StatTypes DEF StatInv
  <2>2. OnDisk \div 2 = L /\ LastNewline = 2 * L /\ LastNewline \div 2 = L
    <3>1. \A n \in Nat : (2 * n + 1) \div 2 = n /\ (2 * n + 0) \div 2 = n /\ (2 * n) \div 2 = n
      OBVIOUS
    <3>2. OnDisk = 2 * L + 1 \/ OnDisk = 2 * L + 0
      BY DEF OnDisk
    <3>3. OnDisk \div 2 = L
      BY <2>1, <3>1, <3>2
    <3> QED BY <2>1, <3>1, <3>3 DEF LastNewline
  <2>3. WholeFrom(IF fresh THEN 0 ELSE statPos) = from
    BY <2>1 DEF WholeFrom
  <2> HIDE DEF from, L
  <2>4. /\ statCur' = statFile.number /\ statPos' = 2 * L
        /\ statAcc' = r.acc /\ statSats' = r.sats /\ statLast' = r.last /\ statHits' = r.hits
        /\ UNCHANGED <<statFile, statHalf, statNow, statSlips>>
    BY <2>2, <2>3 DEF StatPoll
  <2>5. LinesRead' = L
    BY <2>1, <2>4 DEF LinesRead
  <2> QED BY <2>4, <2>5
<1>2. /\ StatTypeOK /\ FileInv(lines) /\ L <= StatMaxLines
      /\ statHalf => L + statFile.number <= StatMaxLines
      /\ statCur <= statFile.number /\ ReadTo <= L
      /\ ~fresh => ReadInv(Reader, lines, LinesRead)
      /\ CountInv
  BY DEF StatInv
<1>3. /\ statNow \in Nat /\ statHits \in Seq(Hit) /\ statSlips \in Seq(Nat)
      /\ Reader \in ReaderType /\ lines \in Seq(Line) /\ ReadTo \in Nat /\ L \in Nat
      /\ Len(statSlips) \in Nat /\ statFile.number \in Nat
  BY <1>2, StatTypes
<1>4. from = ReadTo /\ from \in 0 .. L
  BY <1>2, <1>3 DEF ReadTo
<1>5. /\ start \in ReaderType /\ start.hits = statHits /\ start.last = statLast
      /\ fresh => from = 0 /\ start.acc = NoEpoch /\ start.sats = <<>>
      /\ ~fresh => from = LinesRead /\ start = Reader
  <2>1. NoEpoch \in Epoch /\ <<>> \in Seq(Line)
    BY StatAssumption DEF NoEpoch, Epoch
  <2>2. Reader = [acc |-> statAcc, sats |-> statSats, last |-> statLast, hits |-> statHits]
    BY DEF Reader
  <2>3. CASE fresh
    <3>1. start = [acc |-> NoEpoch, sats |-> <<>>, last |-> statLast, hits |-> statHits]
      BY <2>2, <2>3
    <3>2. start \in ReaderType
      BY <1>3, <2>1, <2>2, <3>1 DEF ReaderType
    <3> QED BY <2>3, <3>1, <3>2
  <2>4. CASE ~fresh
    BY <1>3, <2>2, <2>4
  <2> QED BY <2>3, <2>4
<1> HIDE DEF start, from, fresh
<1>6. ReadInv(start, lines, from)
  <2>1. CASE fresh
    <3>1. \A s \in StatSats : statLast[s] = -1 \/ statLast[s] >= Counted(lines, 0, s)
      <4> TAKE s \in StatSats
      <4>1. Counted(lines, 0, s) = 0
        <5>1. 0 \in 0 .. Len(lines)
          BY <1>3
        <5> QED BY <1>3, <5>1, CountedIs
      <4>2. statLast[s] = -1 \/ statLast[s] >= 0
        <5>1. statLast \in [StatSats -> -1..StatMaxSlips] /\ StatMaxSlips \in Nat
          BY <1>2, StatAssumption DEF StatTypeOK
        <5>2. statLast[s] \in -1..StatMaxSlips
          BY <5>1
        <5> QED BY <5>1, <5>2
      <4> QED BY <4>1, <4>2
    <3> QED BY <1>5, <2>1, <3>1 DEF ReadInv
  <2>2. CASE ~fresh
    BY <1>2, <1>5, <2>2
  <2> QED BY <2>1, <2>2
<1>7. HitsOK(start.hits) /\ Len(start.hits) + Cardinality(SlipLines(lines, from)) <= Len(statSlips)
  BY <1>2, <1>4, <1>5 DEF CountInv
<1>8. /\ r \in ReaderType /\ ReadInv(r, lines, L)
      /\ HitsOK(r.hits) /\ HitsAdded(statHits, r.hits) /\ Len(r.hits) <= Len(statSlips)
  <2>1. /\ r \in ReaderType /\ ReadInv(r, lines, L)
        /\ HitsOK(r.hits) /\ HitsAdded(start.hits, r.hits) /\ Len(r.hits) <= Len(statSlips)
    BY <1>2, <1>3, <1>4, <1>5, <1>6, <1>7, ReadsOn
  <2> QED BY <1>5, <2>1
<1> HIDE DEF r
<1>9. /\ Reader' = r /\ ReadTo' = L
  <2>1. r = [acc |-> r.acc, sats |-> r.sats, last |-> r.last, hits |-> r.hits]
    BY <1>8 DEF ReaderType
  <2> QED BY <1>1, <2>1 DEF Reader, ReadTo
<1>10. StatTypeOK'
  <2>1. /\ r.acc \in [tow : 0..StatMaxTow, stats : Seq(Line)] /\ r.sats \in Seq(Line)
        /\ r.last \in [StatSats -> -1..StatMaxSlips] /\ r.hits \in Seq([t : Nat, delta : Nat])
    BY <1>8 DEF ReaderType, Epoch, Hit
  <2>2. statFile.number \in 0..StatMaxFiles /\ 2 * L \in 0..2 * StatMaxLines
    BY <1>2, <1>3, StatAssumption DEF StatTypeOK
  <2> QED BY <1>1, <1>2, <2>1, <2>2 DEF StatTypeOK
<1>11. OneSky(r.sats)
  <2>1. CASE L = 0
    BY <1>8, <2>1 DEF ReadInv, OneSky
  <2>2. CASE L # 0
    <3>1. L \in 1 .. Len(lines)
      BY <1>3, <2>2
    <3>2. r.sats = Picked(lines, LastEpoch(lines, L))
      BY <1>8, <2>2 DEF ReadInv
    <3> QED BY <1>3, <3>1, <3>2, EpochIsOneSky
  <2> QED BY <2>1, <2>2
<1>12. \A t \in 0 .. statNow :
         Cardinality(HitsBy(r.hits, t)) <= Cardinality(SlipsBy(statSlips, t))
  <2> TAKE t \in 0 .. statNow
  <2>1. r.hits \in Seq(Hit) /\ Len(r.hits) \in Nat /\ Len(statHits) \in Nat
    BY <1>3, <1>8 DEF ReaderType
  <2>2. CASE t = statNow
    <3>1. Cardinality(SlipsBy(statSlips, t)) = Len(statSlips)
      BY <1>2, <1>3, <2>2, BySets DEF CountInv
    <3>2. Cardinality(HitsBy(r.hits, t)) <= Len(r.hits) /\ Cardinality(HitsBy(r.hits, t)) \in Nat
      BY <2>1, BySets
    <3> QED BY <1>3, <1>8, <2>1, <3>1, <3>2
  <2>3. CASE t # statNow
    <3>1. HitsBy(r.hits, t) = HitsBy(statHits, t)
      <4>1. ~(statNow <= t)
        BY <1>3, <2>3
      <4>2. /\ Len(statHits) <= Len(r.hits)
            /\ \A i \in 1 .. Len(r.hits) :
                 IF i <= Len(statHits) THEN r.hits[i] = statHits[i] ELSE r.hits[i].t = statNow
        BY <1>8 DEF HitsAdded
      <4>3. \A i \in 1 .. Len(statHits) : i \in 1 .. Len(r.hits) /\ i <= Len(statHits)
        BY <2>1, <4>2
      <4>4. \A i \in 1 .. Len(r.hits) : i <= Len(statHits) => i \in 1 .. Len(statHits)
        BY <2>1
      <4> QED BY <4>1, <4>2, <4>3, <4>4 DEF HitsBy
    <3> QED BY <1>2, <3>1 DEF CountInv
  <2> QED BY <2>2, <2>3
<1>13. CountInv'
  <2>1. SlipLines(lines, L) = {} /\ Cardinality({}) = 0
    <3>1. L \in 0 .. Len(lines)
      BY <1>3
    <3> QED BY <1>2, <3>1, SlipLinesAre, FS_EmptySet
  <2>2. Len(r.hits) + Cardinality(SlipLines(lines, L)) <= Len(statSlips)
    <3>1. Len(r.hits) \in Nat
      BY <1>8 DEF ReaderType
    <3> QED BY <1>8, <2>1, <3>1
  <2>4. HitsOK(statHits)'
    BY <1>1, <1>8 DEF HitsOK
  <2>5. \A t \in 0 .. statNow' :
          Cardinality(HitsBy(statHits', t)) <= Cardinality(SlipsBy(statSlips', t))
    BY <1>1, <1>12
  <2> QED BY <1>1, <1>2, <1>9, <2>2, <2>4, <2>5 DEF CountInv, HitsBy, SlipsBy
<1>14. (statHalf => L + statFile.number <= StatMaxLines)' /\ FileInv(lines)' /\ (L <= StatMaxLines)'
       /\ (statCur <= statFile.number)' /\ (ReadTo <= L)'
  BY <1>1, <1>2, <1>3, <1>9
<1>15. ReadInv(Reader, lines, LinesRead)'
  <2>1. ReadInv(Reader', lines, L)
    BY <1>8, <1>9
  <2> QED BY <1>1, <2>1 DEF ReadInv, Reader, Counted, LastEpoch, FirstFreq
<1>16. OneSky(statSats)' /\ (statPos = 2 * LinesRead)'
  BY <1>1, <1>11 DEF OneSky
<1> QED BY <1>10, <1>13, <1>14, <1>15, <1>16 DEF StatInv

\* Hits that are picked are no more than there were.
LEMMA PickedHits ==
  ASSUME NEW hits \in Seq(Hit), NEW K \in SUBSET DOMAIN hits
  PROVE  /\ Picked(hits, K) \in Seq(Hit) /\ Len(Picked(hits, K)) <= Len(hits)
         /\ \A i \in 1 .. Len(Picked(hits, K)) : \E j \in 1 .. Len(hits) : Picked(hits, K)[i] = hits[j]
         /\ \A t : Cardinality(HitsBy(Picked(hits, K), t)) <= Cardinality(HitsBy(hits, t))
<1> DEFINE q == Picked(hits, K)
           c == Cardinality(K)
<1>1. /\ K \in SUBSET Nat /\ IsFiniteSet(K) /\ c \in Nat /\ q \in Seq(Hit) /\ Len(q) = c
      /\ \A n \in 1 .. c : Nth(K, n) \in K /\ q[n] = hits[Nth(K, n)]
  BY PickedIs
<1>2. \A m, n \in 1 .. c : m < n => Nth(K, m) < Nth(K, n)
  BY <1>1, NthRises
<1>3. DOMAIN hits = 1 .. Len(hits) /\ Len(hits) \in Nat
  OBVIOUS
<1>4. c <= Len(hits)
  <2>1. IsFiniteSet(1 .. Len(hits)) /\ Cardinality(1 .. Len(hits)) = Len(hits)
    <3>1. 1 \in Int /\ Len(hits) \in Int
      BY <1>3
    <3>2. IsFiniteSet(1 .. Len(hits))
          /\ Cardinality(1 .. Len(hits)) = IF 1 > Len(hits) THEN 0 ELSE Len(hits) - 1 + 1
      BY <3>1, FS_Interval
    <3> QED BY <1>3, <3>2
  <2>2. K \in SUBSET (1 .. Len(hits))
    BY <1>3
  <2>3. Cardinality(K) <= Cardinality(1 .. Len(hits))
    BY <2>1, <2>2, FS_Subset
  <2> QED BY <2>1, <2>3
<1> HIDE DEF q, c
<1>5. ASSUME NEW t PROVE Cardinality(HitsBy(q, t)) <= Cardinality(HitsBy(hits, t))
  <2> DEFINE S == HitsBy(q, t)
             T == HitsBy(hits, t)
             f == [n \in S |-> Nth(K, n)]
  <2>1. S \in SUBSET (1 .. c) /\ IsFiniteSet(T)
    BY <1>1, BySets DEF HitsBy
  <2>2. \A n \in S : Nth(K, n) \in T
    BY <1>1, <1>3, <2>1 DEF HitsBy
  <2>3. \A m, n \in S : Nth(K, m) = Nth(K, n) => m = n
    <3> TAKE m \in S, n \in S
    <3>1. m \in 1 .. c /\ n \in 1 .. c
      BY <2>1
    <3>2. Nth(K, m) \in Nat /\ Nth(K, n) \in Nat /\ m \in Nat /\ n \in Nat
      BY <1>1, <3>1
    <3>3. m < n => Nth(K, m) < Nth(K, n)
      BY <1>2, <3>1
    <3>4. n < m => Nth(K, n) < Nth(K, m)
      BY <1>2, <3>1
    <3> QED BY <3>2, <3>3, <3>4
  <2>4. f \in Injection(S, T)
    <3> HIDE DEF S, T
    <3> QED BY <2>2, <2>3 DEF Injection, IsInjective
  <2> QED BY <2>1, <2>4, FS_Injection
<1>6. \A i \in 1 .. c : \E j \in 1 .. Len(hits) : q[i] = hits[j]
  BY <1>1, <1>3
<1> QED BY <1>1, <1>4, <1>5, <1>6 DEF q

\* The window forgets what has left it.
LEMMA StatCountInv == StatInv /\ StatCount => StatInv'
<1> SUFFICES ASSUME StatInv, StatCount PROVE StatInv'
  OBVIOUS
<1> DEFINE K == {i \in DOMAIN statHits : statHits[i].t >= statNow - StatWindow}
           q == Picked(statHits, K)
<1>1. /\ statHits' = q
      /\ UNCHANGED <<statFile, statHalf, statCur, statPos, statAcc, statSats, statLast, statNow,
                     statSlips>>
  BY DEF StatCount, Recent
<1>2. StatTypeOK /\ CountInv
  BY DEF StatInv
<1>3. /\ statHits \in Seq(Hit) /\ Len(statHits) \in Nat /\ statNow \in Nat
      /\ statSlips \in Seq(Nat) /\ Len(statSlips) \in Nat /\ K \in SUBSET DOMAIN statHits
      /\ Cardinality(SlipLines(statFile.lines, ReadTo)) \in Nat
  <2>1. ReadTo \in 0 .. Len(statFile.lines)
    BY <1>2, StatTypes DEF StatInv
  <2> QED BY <1>2, <2>1, StatTypes, SlipLinesAre DEF StatInv
<1> HIDE DEF K
<1>4. /\ q \in Seq(Hit) /\ Len(q) <= Len(statHits)
      /\ \A i \in 1 .. Len(q) : \E j \in 1 .. Len(statHits) : q[i] = statHits[j]
      /\ \A t : Cardinality(HitsBy(q, t)) <= Cardinality(HitsBy(statHits, t))
  BY <1>3, PickedHits
<1> HIDE DEF q
<1>5. HitsOK(q)
  BY <1>2, <1>4 DEF CountInv, HitsOK
<1>6. \A t \in 0 .. statNow : Cardinality(HitsBy(q, t)) <= Cardinality(SlipsBy(statSlips, t))
  <2> TAKE t \in 0 .. statNow
  <2>1. /\ Cardinality(HitsBy(q, t)) \in Nat /\ Cardinality(HitsBy(statHits, t)) \in Nat
        /\ Cardinality(SlipsBy(statSlips, t)) \in Nat
    BY <1>3, <1>4, BySets
  <2> QED BY <1>2, <1>4, <2>1 DEF CountInv
<1>7. Len(q) + Cardinality(SlipLines(statFile.lines, ReadTo)) <= Len(statSlips)
  <2>1. Len(q) \in Nat
    BY <1>4
  <2> QED BY <1>2, <1>3, <1>4, <2>1 DEF CountInv
<1>8. CountInv'
  <2>1. HitsOK(statHits)'
    BY <1>1, <1>5 DEF HitsOK
  <2>2. ReadTo' = ReadTo
    BY <1>1 DEF ReadTo, LinesRead
  <2> QED BY <1>1, <1>2, <1>6, <1>7, <2>1, <2>2 DEF CountInv
<1>9. StatTypeOK'
  BY <1>1, <1>2, <1>4 DEF StatTypeOK, Hit
<1>10. statCur = statFile.number => ReadInv(Reader, statFile.lines, LinesRead)'
  BY <1>1 DEF StatInv, ReadInv, Reader, Counted, LastEpoch, FirstFreq, LinesRead
<1>11. OneSky(statSats)' /\ FileInv(statFile.lines)' /\ ReadTo' = ReadTo /\ LinesRead' = LinesRead
  BY <1>1 DEF StatInv, OneSky, ReadTo, LinesRead
<1> QED BY <1>1, <1>8, <1>9, <1>10, <1>11 DEF StatInv

\* Started again, the monitor has read nothing.
LEMMA StatRestartInv == StatInv /\ StatRestart => StatInv'
<1> SUFFICES ASSUME StatInv, StatRestart PROVE StatInv'
  OBVIOUS
<1>1. /\ statCur' = 0 /\ statPos' = 0 /\ statAcc' = NoEpoch /\ statSats' = <<>>
      /\ statLast' = [s \in StatSats |-> -1] /\ statHits' = <<>>
      /\ UNCHANGED <<statFile, statHalf, statNow, statSlips>>
  BY DEF StatRestart
<1>2. StatTypeOK /\ CountInv /\ FileInv(statFile.lines)
  BY DEF StatInv
<1>3. /\ statNow \in Nat /\ statSlips \in Seq(Nat) /\ Len(statSlips) \in Nat
      /\ statFile.number \in Nat /\ statFile.number >= 1 /\ Len(statFile.lines) \in Nat
  BY <1>2, StatTypes
<1>4. ReadTo' = 0 /\ statCur' # statFile.number /\ LinesRead' = 0
  BY <1>1, <1>3 DEF ReadTo, LinesRead
<1>5. StatTypeOK'
  <2>1. /\ <<>> \in Seq(Line) /\ <<>> \in Seq([t : Nat, delta : Nat])
        /\ 0 \in 0..StatMaxFiles /\ 0 \in 0..2 * StatMaxLines
        /\ 0 \in 0..StatMaxTow /\ -1 \in -1..StatMaxSlips
    BY StatAssumption
  <2>2. statAcc' \in [tow : 0..StatMaxTow, stats : Seq(Line)]
    BY <1>1, <2>1 DEF NoEpoch
  <2>3. statLast' \in [StatSats -> -1..StatMaxSlips]
    BY <1>1, <2>1
  <2> QED BY <1>1, <1>2, <2>1, <2>2, <2>3 DEF StatTypeOK
<1>6. CountInv'
  <2>1. \A t : Cardinality(HitsBy(<<>>, t)) = 0
    <3>1. \A t : HitsBy(<<>>, t) = {}
      BY DEF HitsBy
    <3> QED BY <3>1, FS_EmptySet
  <2>2. \A t : Cardinality(HitsBy(<<>>, t)) <= Cardinality(SlipsBy(statSlips, t))
    <3> TAKE t
    <3>1. Cardinality(SlipsBy(statSlips, t)) \in Nat
      BY <1>3, BySets
    <3> QED BY <2>1, <3>1
  <2>3. Cardinality(SlipLines(statFile.lines, 0)) \in Nat
    <3>1. 0 \in 0 .. Len(statFile.lines)
      BY <1>3
    <3> QED BY <1>2, <3>1, SlipLinesAre
  <2>4. HitsOK(statHits)' /\ Len(<<>>) = 0
    BY <1>1 DEF HitsOK
  <2>5. Len(<<>>) + Cardinality(SlipLines(statFile.lines, 0)) <= Len(statSlips)
    BY <1>2, <2>3, <2>4 DEF CountInv
  <2>6. /\ statHits' = <<>> /\ statFile' = statFile /\ statSlips' = statSlips /\ statNow' = statNow
    BY <1>1
  <2>7. \A i \in 1 .. Len(statSlips) : statSlips[i] <= statNow
    BY <1>2 DEF CountInv
  <2>8. Cardinality(SlipLines(statFile.lines, 0)) <= Len(statSlips)
    BY <1>2 DEF CountInv
  <2> QED BY <1>4, <2>2, <2>4, <2>5, <2>6, <2>7, <2>8 DEF CountInv
<1>7. OneSky(statSats)'
  BY <1>1 DEF OneSky
<1>8. FileInv(statFile.lines)'
  BY <1>1, <1>2
<1> QED BY <1>1, <1>3, <1>4, <1>5, <1>6, <1>7, <1>8 DEF StatInv

\* Lines that are there stay what they are when one is appended.
LEMMA LinesStay ==
  ASSUME NEW lines \in Seq(Line), NEW more \in Seq(Line), Len(lines) <= Len(more),
         \A i \in 1 .. Len(lines) : more[i] = lines[i]
  PROVE  /\ \A p \in 0 .. Len(lines) : \A s : Counted(more, p, s) = Counted(lines, p, s)
         /\ \A i \in 1 .. Len(lines) : FirstLine(more, i) <=> FirstLine(lines, i)
         /\ \A p \in 1 .. Len(lines) :
              /\ LastEpoch(more, p) = LastEpoch(lines, p)
              /\ Picked(more, LastEpoch(more, p)) = Picked(lines, LastEpoch(lines, p))
<1>1. Len(lines) \in Nat /\ \A i \in 1 .. Len(lines) : more[i] = lines[i]
  OBVIOUS
<1>2. \A p \in 0 .. Len(lines) : \A s : Counted(more, p, s) = Counted(lines, p, s)
  <2> TAKE p \in 0 .. Len(lines)
  <2> TAKE s
  <2>1. p \in Nat /\ \A i \in 1 .. p : more[i] = lines[i]
    BY <1>1
  <2> QED BY <2>1, CountedSame
<1>3. \A i \in 1 .. Len(lines) : FirstLine(more, i) <=> FirstLine(lines, i)
  <2> TAKE i \in 1 .. Len(lines)
  <2>1. \A j \in 1 .. i - 1 : j \in 1 .. Len(lines)
    BY <1>1
  <2> QED BY <1>1, <2>1 DEF FirstLine
<1>4. ASSUME NEW p \in 1 .. Len(lines)
      PROVE  /\ LastEpoch(more, p) = LastEpoch(lines, p)
             /\ Picked(more, LastEpoch(more, p)) = Picked(lines, LastEpoch(lines, p))
  <2>1. \A i \in 1 .. p : i \in 1 .. Len(lines) /\ \A j \in 1 .. i - 1 : j \in 1 .. Len(lines)
    BY <1>1
  <2>2. LastEpoch(more, p) = LastEpoch(lines, p)
    BY <1>1, <2>1 DEF LastEpoch
  <2>3. LastEpoch(lines, p) \in SUBSET DOMAIN lines
        /\ \A i \in LastEpoch(lines, p) : i \in 1 .. Len(lines)
    BY <2>1 DEF LastEpoch
  <2>4. LastEpoch(lines, p) \in SUBSET Nat /\ IsFiniteSet(LastEpoch(lines, p))
    BY <2>3, PickedIs
  <2>5. Picked(more, LastEpoch(lines, p)) = Picked(lines, LastEpoch(lines, p))
    BY <1>1, <2>3, <2>4, PickedSame
  <2> QED BY <2>2, <2>5
<1> QED BY <1>1, <1>2, <1>3, <1>4

\* A file stays as rtkrcv writes it.
LEMMA FileStays ==
  ASSUME NEW lines, FileInv(lines), NEW line \in Line, WritesNext(lines, line),
         NEW more, more = Append(lines, line)
  PROVE  /\ FileInv(more)
         /\ \A p \in 0 .. Len(lines) :
              Cardinality(SlipLines(more, p)) =
                Cardinality(SlipLines(lines, p)) + IF Slips(lines, line) THEN 1 ELSE 0
<1> DEFINE L == Len(lines)
           c == Counted(lines, L, line.sat)
           tow == IF L = 0 THEN 0 ELSE lines[L].tow
<1>1. /\ lines \in Seq(Line) /\ more \in Seq(Line) /\ Len(more) = L + 1 /\ L \in Nat
      /\ more[L + 1] = line /\ \A i \in 1 .. L : more[i] = lines[i]
      /\ \A p \in 0 .. L : \A s : Counted(more, p, s) = Counted(lines, p, s)
      /\ \A i \in 1 .. L : FirstLine(more, i) <=> FirstLine(lines, i)
  <2>1. lines \in Seq(Line)
    BY DEF FileInv
  <2>2. /\ more \in Seq(Line) /\ Len(more) = L + 1 /\ L \in Nat
        /\ more[L + 1] = line /\ \A i \in 1 .. L : more[i] = lines[i]
    BY <2>1
  <2>3. L <= Len(more)
    BY <2>2
  <2> QED BY <2>1, <2>2, <2>3, LinesStay
<1>2. /\ line.freq = 1 => /\ line.tow \in {tow, tow + 1} /\ line.slipc \in {c, c + 1}
                          /\ \A i \in 1 .. L : lines[i].tow = line.tow => lines[i].sat # line.sat
      /\ line.freq # 1 => L > 0 /\ line.tow = tow /\ line.sat = lines[L].sat
  BY DEF WritesNext
<1>3. line.tow \in Nat /\ \A i \in 1 .. L : lines[i].tow \in Nat
  <2>1. \A i \in 1 .. L : lines[i] \in Line
    BY <1>1
  <2> QED BY <2>1, LineIs
<1>4. L > 0 => lines[L].tow <= line.tow
  <2> SUFFICES ASSUME L > 0 PROVE lines[L].tow <= line.tow
    OBVIOUS
  <2>1. L \in 1 .. L /\ lines[L].tow \in Nat /\ tow = lines[L].tow
    BY <1>1, <1>3
  <2>2. line.tow = tow \/ line.tow = tow + 1
    BY <1>2
  <2> QED BY <2>1, <2>2
<1>5. \A i \in 1 .. L : lines[i].tow <= line.tow
  <2> TAKE i \in 1 .. L
  <2>1. L > 0 /\ L \in 1 .. L /\ i <= L
    BY <1>1
  <2>2. lines[i].tow <= lines[L].tow
    BY <2>1 DEF FileInv
  <2> QED BY <1>3, <1>4, <2>1, <2>2
<1>6. line.freq = 1 <=> FirstLine(more, L + 1)
  <2>1. \A j : j \in 1 .. (L + 1) - 1 <=> j \in 1 .. L
    BY <1>1
  <2>2. FirstLine(more, L + 1) <=> \A j \in 1 .. L : lines[j].tow = line.tow => lines[j].sat # line.sat
    BY <1>1, <2>1 DEF FirstLine
  <2>3. line.freq # 1 => L \in 1 .. L /\ lines[L].tow = line.tow /\ lines[L].sat = line.sat
    BY <1>1, <1>2
  <2> QED BY <1>2, <2>2, <2>3
<1>7. \A i \in 1 .. L + 1 : i \in 1 .. L \/ i = L + 1
  BY <1>1
<1>8. Counted(more, (L + 1) - 1, line.sat) = c
  <2>1. L \in 0 .. L /\ (L + 1) - 1 = L
    BY <1>1
  <2> QED BY <1>1, <2>1
<1>9. FileInv(more)
  <2>1. ASSUME NEW i \in 1 .. L + 1, NEW j \in 1 .. L + 1, i <= j PROVE more[i].tow <= more[j].tow
    <3>1. CASE j \in 1 .. L
      <4>1. i \in 1 .. L
        BY <1>1, <2>1, <3>1
      <4>2. lines[i].tow <= lines[j].tow
        BY <2>1, <3>1, <4>1 DEF FileInv
      <4> QED BY <1>1, <3>1, <4>1, <4>2
    <3>2. CASE j = L + 1 /\ i \in 1 .. L
      BY <1>1, <1>5, <3>2
    <3>3. CASE j = L + 1 /\ i = L + 1
      BY <1>1, <1>3, <3>3
    <3> QED BY <1>7, <3>1, <3>2, <3>3
  <2>2. ASSUME NEW i \in 1 .. L + 1
        PROVE  /\ more[i].freq = 1 <=> FirstLine(more, i)
               /\ more[i].freq = 1 => more[i].slipc \in {Counted(more, i - 1, more[i].sat),
                                                         Counted(more, i - 1, more[i].sat) + 1}
    <3>1. CASE i \in 1 .. L
      <4>1. i - 1 \in 0 .. L
        BY <1>1, <3>1
      <4>2. Counted(more, i - 1, lines[i].sat) = Counted(lines, i - 1, lines[i].sat)
        BY <1>1, <4>1
      <4>3. more[i] = lines[i] /\ (FirstLine(more, i) <=> FirstLine(lines, i))
        BY <1>1, <3>1
      <4>4. /\ lines[i].freq = 1 <=> FirstLine(lines, i)
            /\ lines[i].freq = 1 => lines[i].slipc \in {Counted(lines, i - 1, lines[i].sat),
                                                        Counted(lines, i - 1, lines[i].sat) + 1}
        BY <3>1 DEF FileInv
      <4> QED BY <4>2, <4>3, <4>4
    <3>2. CASE i = L + 1
      <4>1. more[i] = line
        BY <1>1, <3>2
      <4> QED BY <1>2, <1>6, <1>8, <3>2, <4>1
    <3> QED BY <1>7, <3>1, <3>2
  <2> QED BY <1>1, <2>1, <2>2 DEF FileInv
<1>10. ASSUME NEW p \in 0 .. L
       PROVE  Cardinality(SlipLines(more, p)) =
                Cardinality(SlipLines(lines, p)) + IF Slips(lines, line) THEN 1 ELSE 0
  <2>1. \A i : i \in p + 1 .. L + 1 <=> i \in p + 1 .. L \/ i = L + 1
    BY <1>1
  <2>2. \A i \in p + 1 .. L : i \in 1 .. L /\ i - 1 \in 0 .. L
    BY <1>1
  <2>3. \A i \in p + 1 .. L : i \in SlipLines(more, p) <=> i \in SlipLines(lines, p)
    BY <1>1, <2>1, <2>2 DEF SlipLines
  <2>4. L + 1 \in SlipLines(more, p) <=> Slips(lines, line)
    BY <1>1, <1>8, <2>1 DEF SlipLines, Slips
  <2>5. L + 1 \notin SlipLines(lines, p) /\ L + 1 \notin p + 1 .. L
    BY <1>1 DEF SlipLines
  <2>6. SlipLines(more, p) \subseteq p + 1 .. L + 1 /\ SlipLines(lines, p) \subseteq p + 1 .. L
    BY <1>1 DEF SlipLines
  <2>7. IsFiniteSet(SlipLines(lines, p)) /\ Cardinality(SlipLines(lines, p)) \in Nat
    BY SlipLinesAre
  <2>8. CASE Slips(lines, line)
    <3>1. SlipLines(more, p) = SlipLines(lines, p) \cup {L + 1}
      BY <2>1, <2>3, <2>4, <2>6, <2>8
    <3> QED BY <2>5, <2>7, <2>8, <3>1, FS_AddElement
  <2>9. CASE ~Slips(lines, line)
    <3>1. SlipLines(more, p) = SlipLines(lines, p)
      BY <2>1, <2>3, <2>4, <2>6, <2>9
    <3> QED BY <2>7, <2>9, <3>1
  <2> QED BY <2>8, <2>9
<1> QED BY <1>9, <1>10

\* The rest of a line is there, and a slip with it or not.
LEMMA StatWritesInv == StatInv /\ StatWrites => StatInv'
<1> SUFFICES ASSUME StatInv, StatWrites PROVE StatInv'
  OBVIOUS
<1> DEFINE lines == statFile.lines
           L == Len(lines)
<1>1. PICK line \in Line :
        /\ WritesNext(lines, line)
        /\ statFile' = [statFile EXCEPT !.lines = Append(@, line)]
        /\ statSlips' = IF Slips(lines, line) THEN Append(statSlips, statNow) ELSE statSlips
  BY DEF StatWrites
<1> DEFINE more == Append(lines, line)
<1>2. /\ statHalf /\ statHalf' = FALSE
      /\ UNCHANGED <<statCur, statPos, statAcc, statSats, statLast, statHits, statNow>>
  BY DEF StatWrites
<1>3. /\ StatTypeOK /\ CountInv /\ FileInv(lines) /\ OneSky(statSats)
      /\ statPos = 2 * LinesRead /\ L + statFile.number <= StatMaxLines
      /\ statCur <= statFile.number /\ ReadTo <= L
      /\ statCur = statFile.number => ReadInv(Reader, lines, LinesRead)
  BY <1>2 DEF StatInv
<1>4. /\ statNow \in Nat /\ statHits \in Seq(Hit) /\ statSlips \in Seq(Nat)
      /\ lines \in Seq(Line) /\ ReadTo \in Nat /\ L \in Nat /\ StatMaxLines \in Nat
      /\ Len(statSlips) \in Nat /\ Len(statHits) \in Nat
      /\ statFile.number \in Nat /\ statFile.number >= 1
      /\ statFile = [number |-> statFile.number, lines |-> lines]
  BY <1>3, StatTypes
<1>5. statFile' = [number |-> statFile.number, lines |-> more]
  BY <1>1, <1>4
<1>6. statFile'.number = statFile.number /\ statFile'.lines = more
  BY <1>5
<1>7. /\ more \in Seq(Line) /\ Len(more) = L + 1
      /\ \A p \in 0 .. L : \A s : Counted(more, p, s) = Counted(lines, p, s)
      /\ \A p \in 1 .. L : more[p] = lines[p]
                           /\ Picked(more, LastEpoch(more, p)) = Picked(lines, LastEpoch(lines, p))
  <2>1. more \in Seq(Line) /\ Len(more) = L + 1 /\ \A i \in 1 .. L : more[i] = lines[i]
    BY <1>4
  <2> HIDE DEF more
  <2>2. L <= Len(more)
    BY <1>4, <2>1
  <2> QED BY <1>4, <2>1, <2>2, LinesStay
<1>8. /\ FileInv(more)
      /\ \A p \in 0 .. L : Cardinality(SlipLines(more, p)) =
                             Cardinality(SlipLines(lines, p)) + IF Slips(lines, line) THEN 1 ELSE 0
  BY <1>1, <1>3, FileStays
<1>9. \A p \in 0 .. L : Cardinality(SlipLines(lines, p)) \in Nat
  BY <1>3, SlipLinesAre
<1> HIDE DEF more
<1>10. ReadTo' = ReadTo
  BY <1>2, <1>6 DEF ReadTo, LinesRead
<1>11. /\ statSlips' \in Seq(Nat)
       /\ Len(statSlips') = Len(statSlips) + IF Slips(lines, line) THEN 1 ELSE 0
       /\ \A i \in 1 .. Len(statSlips) : statSlips'[i] = statSlips[i]
       /\ \A i \in 1 .. Len(statSlips') : i \in 1 .. Len(statSlips) \/ statSlips'[i] = statNow
  <2>1. CASE Slips(lines, line)
    <3>1. statSlips' = Append(statSlips, statNow)
      BY <1>1, <2>1
    <3>2. /\ statSlips' \in Seq(Nat) /\ Len(statSlips') = Len(statSlips) + 1
          /\ \A i \in 1 .. Len(statSlips) : statSlips'[i] = statSlips[i]
          /\ statSlips'[Len(statSlips) + 1] = statNow
      BY <1>4, <3>1
    <3>3. \A i \in 1 .. Len(statSlips) + 1 : i \in 1 .. Len(statSlips) \/ i = Len(statSlips) + 1
      BY <1>4
    <3> QED BY <2>1, <3>2, <3>3
  <2>2. CASE ~Slips(lines, line)
    <3>1. statSlips' = statSlips
      BY <1>1, <2>2
    <3> QED BY <1>4, <2>2, <3>1
  <2> QED BY <2>1, <2>2
<1>12. StatTypeOK'
  <2>1. /\ statFile \in [number : 1..StatMaxFiles, lines : Seq(Line)]
        /\ statCur \in 0..StatMaxFiles /\ statPos \in 0..2 * StatMaxLines
        /\ statAcc \in [tow : 0..StatMaxTow, stats : Seq(Line)] /\ statSats \in Seq(Line)
        /\ statLast \in [StatSats -> -1..StatMaxSlips]
        /\ statHits \in Seq([t : Nat, delta : Nat]) /\ statNow \in 0..StatMaxNow
    BY <1>3 DEF StatTypeOK
  <2>2. statFile' \in [number : 1..StatMaxFiles, lines : Seq(Line)]
    BY <1>5, <1>7, <2>1
  <2> QED BY <1>2, <1>11, <2>1, <2>2 DEF StatTypeOK
<1>13. statCur = statFile.number => ReadInv(Reader, more, LinesRead)
  <2> SUFFICES ASSUME statCur = statFile.number PROVE ReadInv(Reader, more, LinesRead)
    OBVIOUS
  <2>1. LinesRead \in 0 .. L /\ (LinesRead # 0 => LinesRead \in 1 .. L)
    BY <1>3, <1>4, StatTypes DEF ReadTo
  <2>2. ReadInv(Reader, lines, LinesRead)
    BY <1>3
  <2> QED BY <1>7, <2>1, <2>2 DEF ReadInv
<1>14. (statCur = statFile.number => ReadInv(Reader, statFile.lines, LinesRead))'
  <2>1. Reader' = Reader /\ LinesRead' = LinesRead
    BY <1>2 DEF Reader, LinesRead
  <2> QED BY <1>2, <1>6, <1>13, <2>1 DEF ReadInv, LastEpoch, Counted, FirstFreq
<1>15. \A t \in 0 .. statNow :
         Cardinality(HitsBy(statHits, t)) <= Cardinality(SlipsBy(statSlips', t))
  <2> TAKE t \in 0 .. statNow
  <2>1. SlipsBy(statSlips, t) \in SUBSET SlipsBy(statSlips', t)
    <3>1. \A i \in 1 .. Len(statSlips) : i \in 1 .. Len(statSlips') /\ statSlips'[i] = statSlips[i]
      BY <1>4, <1>11
    <3> QED BY <3>1 DEF SlipsBy
  <2>2. /\ IsFiniteSet(SlipsBy(statSlips', t)) /\ Cardinality(SlipsBy(statSlips', t)) \in Nat
        /\ Cardinality(SlipsBy(statSlips, t)) \in Nat /\ Cardinality(HitsBy(statHits, t)) \in Nat
    BY <1>4, <1>11, BySets
  <2>3. Cardinality(SlipsBy(statSlips, t)) <= Cardinality(SlipsBy(statSlips', t))
    BY <2>1, <2>2, FS_Subset
  <2>4. Cardinality(HitsBy(statHits, t)) <= Cardinality(SlipsBy(statSlips, t))
    BY <1>3 DEF CountInv
  <2> QED BY <2>2, <2>3, <2>4
<1>16. CountInv'
  <2>1. \A i \in 1 .. Len(statSlips') : statSlips'[i] <= statNow
    <3> TAKE i \in 1 .. Len(statSlips')
    <3>1. CASE i \in 1 .. Len(statSlips)
      BY <1>3, <1>11, <3>1 DEF CountInv
    <3>2. CASE statSlips'[i] = statNow
      BY <1>4, <3>2
    <3> QED BY <1>11, <3>1, <3>2
  <2>2. 0 \in 0 .. L /\ ReadTo \in 0 .. L
    BY <1>3, <1>4
  <2>3. Cardinality(SlipLines(lines, 0)) \in Nat /\ Cardinality(SlipLines(lines, ReadTo)) \in Nat
    BY <1>9, <2>2
  <2>4. /\ Cardinality(SlipLines(lines, 0)) <= Len(statSlips)
        /\ Len(statHits) + Cardinality(SlipLines(lines, ReadTo)) <= Len(statSlips)
    BY <1>3 DEF CountInv
  <2>5. /\ Cardinality(SlipLines(more, 0)) <= Len(statSlips')
        /\ Len(statHits) + Cardinality(SlipLines(more, ReadTo)) <= Len(statSlips')
    <3>1. CASE Slips(lines, line)
      <4>1. /\ Cardinality(SlipLines(more, 0)) = Cardinality(SlipLines(lines, 0)) + 1
            /\ Cardinality(SlipLines(more, ReadTo)) = Cardinality(SlipLines(lines, ReadTo)) + 1
            /\ Len(statSlips') = Len(statSlips) + 1
        BY <1>8, <1>11, <2>2, <3>1
      <4> QED BY <1>4, <2>3, <2>4, <4>1
    <3>2. CASE ~Slips(lines, line)
      <4>1. /\ Cardinality(SlipLines(more, 0)) = Cardinality(SlipLines(lines, 0)) + 0
            /\ Cardinality(SlipLines(more, ReadTo)) = Cardinality(SlipLines(lines, ReadTo)) + 0
            /\ Len(statSlips') = Len(statSlips) + 0
        BY <1>8, <1>11, <2>2, <3>2
      <4> QED BY <1>4, <2>3, <2>4, <4>1
    <3> QED BY <3>1, <3>2
  <2>6. HitsOK(statHits)'
    BY <1>2, <1>3 DEF CountInv, HitsOK
  <2> QED BY <1>2, <1>6, <1>10, <1>15, <2>1, <2>5, <2>6 DEF CountInv
<1>17. OneSky(statSats)' /\ (statPos = 2 * LinesRead)'
  BY <1>2, <1>3 DEF LinesRead
<1>18. /\ (Len(statFile.lines) <= StatMaxLines)' /\ statCur' <= statFile'.number
       /\ (ReadTo <= Len(statFile.lines))' /\ FileInv(statFile.lines)'
  <2>1. Len(more) <= StatMaxLines /\ ReadTo <= Len(more)
    BY <1>3, <1>4, <1>7
  <2> QED BY <1>2, <1>3, <1>6, <1>8, <1>10, <2>1
<1> QED BY <1>2, <1>12, <1>14, <1>16, <1>17, <1>18 DEF StatInv

\* Half a line is nothing yet.
LEMMA StatHalvesInv == StatInv /\ StatHalves => StatInv'
<1> SUFFICES ASSUME StatInv, StatHalves PROVE StatInv'
  OBVIOUS
<1>1. /\ statHalf' = TRUE /\ Len(statFile.lines) + statFile.number <= StatMaxLines
      /\ UNCHANGED <<statFile, statCur, statPos, statAcc, statSats, statLast, statHits, statNow,
                     statSlips>>
  BY DEF StatHalves
<1>2. StatTypeOK'
  BY <1>1 DEF StatInv, StatTypeOK
<1>3. CountInv' /\ ReadTo' = ReadTo
  BY <1>1 DEF StatInv, CountInv, HitsOK, ReadTo, LinesRead
<1>4. /\ (statCur = statFile.number => ReadInv(Reader, statFile.lines, LinesRead))'
      /\ (statPos = 2 * LinesRead)'
  BY <1>1 DEF StatInv, Reader, LinesRead, ReadInv, Counted, LastEpoch, FirstFreq
<1> QED BY <1>1, <1>2, <1>3, <1>4 DEF StatInv, OneSky

\* A new file is empty, and none of it read.
LEMMA StatNewFileInv == StatInv /\ StatNewFile => StatInv'
<1> SUFFICES ASSUME StatInv, StatNewFile PROVE StatInv'
  OBVIOUS
<1>1. /\ statFile.number < StatMaxFiles /\ statHalf' = FALSE
      /\ statFile' = [number |-> statFile.number + 1, lines |-> <<>>]
      /\ UNCHANGED <<statCur, statPos, statAcc, statSats, statLast, statHits, statNow, statSlips>>
  BY DEF StatNewFile
<1>2. StatTypeOK /\ CountInv /\ FileInv(statFile.lines) /\ statCur <= statFile.number
      /\ OneSky(statSats)
  BY DEF StatInv
<1>3. /\ statHits \in Seq(Hit) /\ Len(statHits) \in Nat /\ Len(statSlips) \in Nat
      /\ statFile.number \in Nat /\ statCur \in Nat /\ Len(statFile.lines) \in Nat
      /\ statFile.number >= 1 /\ ReadTo \in Nat /\ StatMaxLines \in Nat
  BY <1>2, StatTypes
<1>4. statFile'.number = statFile.number + 1 /\ statFile'.lines = <<>> /\ Len(<<>>) = 0
  BY <1>1
<1>5. statCur' < statFile'.number /\ statCur' <= statFile'.number /\ statCur' # statFile'.number
  BY <1>1, <1>2, <1>3, <1>4
<1>6. ReadTo' = 0 /\ LinesRead' = LinesRead /\ (statPos = 2 * LinesRead)'
  BY <1>1, <1>5 DEF StatInv, ReadTo, LinesRead
<1>7. StatTypeOK'
  <2>1. statFile' \in [number : 1..StatMaxFiles, lines : Seq(Line)]
    <3>1. statFile.number + 1 \in 1..StatMaxFiles /\ <<>> \in Seq(Line)
      BY <1>1, <1>3, StatAssumption
    <3> QED BY <1>1, <3>1
  <2> QED BY <1>1, <1>2, <2>1 DEF StatTypeOK
<1>8. FileInv(<<>>)
  BY <1>4 DEF FileInv
<1>9. CountInv'
  <2>1. SlipLines(<<>>, 0) = {} /\ Cardinality({}) = 0
    BY FS_EmptySet DEF SlipLines
  <2>2. Len(statHits) <= Len(statSlips)
    <3>1. ReadTo \in 0 .. Len(statFile.lines)
      BY <1>3 DEF StatInv
    <3>2. Cardinality(SlipLines(statFile.lines, ReadTo)) \in Nat
      BY <1>2, <3>1, SlipLinesAre
    <3> QED BY <1>2, <1>3, <3>2 DEF CountInv
  <2>3. Cardinality(SlipLines(<<>>, 0)) <= Len(statSlips)
        /\ Len(statHits) + Cardinality(SlipLines(<<>>, 0)) <= Len(statSlips)
    <3>1. Cardinality(SlipLines(<<>>, 0)) = 0
      BY <2>1
    <3> QED BY <1>3, <2>2, <3>1
  <2>4. HitsOK(statHits)'
    BY <1>1, <1>2 DEF CountInv, HitsOK
  <2>5. /\ \A i \in 1 .. Len(statSlips) : statSlips[i] <= statNow
        /\ \A t \in 0 .. statNow :
             Cardinality(HitsBy(statHits, t)) <= Cardinality(SlipsBy(statSlips, t))
    BY <1>2 DEF CountInv
  <2> QED BY <1>1, <1>4, <1>6, <2>3, <2>4, <2>5 DEF CountInv
<1>10. OneSky(statSats)' /\ FileInv(statFile.lines)' /\ (Len(statFile.lines) <= StatMaxLines)'
       /\ (ReadTo <= Len(statFile.lines))'
  <2>1. 0 <= StatMaxLines /\ Len(<<>>) <= StatMaxLines
    BY <1>3, <1>4
  <2> QED BY <1>1, <1>2, <1>4, <1>6, <1>8, <2>1
<1> QED BY <1>1, <1>5, <1>6, <1>7, <1>9, <1>10 DEF StatInv

\* Time goes by.
LEMMA StatTickInv == StatInv /\ StatTick => StatInv'
<1> SUFFICES ASSUME StatInv, StatTick PROVE StatInv'
  OBVIOUS
<1>1. /\ statNow < StatMaxNow /\ statNow' = statNow + 1
      /\ UNCHANGED <<statFile, statHalf, statCur, statPos, statAcc, statSats, statLast, statHits,
                     statSlips>>
  BY DEF StatTick
<1>2. StatTypeOK /\ CountInv /\ FileInv(statFile.lines)
  BY DEF StatInv
<1>3. /\ statNow \in Nat /\ statHits \in Seq(Hit) /\ statSlips \in Seq(Nat)
      /\ Len(statHits) \in Nat /\ Len(statSlips) \in Nat
  BY <1>2, StatTypes
<1>4. StatTypeOK'
  BY <1>1, <1>2, StatAssumption DEF StatTypeOK
<1>5. ReadTo' = ReadTo
  BY <1>1 DEF ReadTo, LinesRead
<1>6. \A i \in 1 .. Len(statSlips) : statSlips[i] \in Nat /\ statSlips[i] <= statNow
  BY <1>2, <1>3 DEF CountInv
<1>7. \A i \in 1 .. Len(statSlips) : statSlips[i] <= statNow + 1
  BY <1>3, <1>6
<1>8. \A t \in 0 .. statNow + 1 :
        Cardinality(HitsBy(statHits, t)) <= Cardinality(SlipsBy(statSlips, t))
  <2> TAKE t \in 0 .. statNow + 1
  <2>1. CASE t = statNow + 1
    <3>1. Cardinality(SlipsBy(statSlips, t)) = Len(statSlips)
      BY <1>3, <1>7, <2>1, BySets
    <3>2. Cardinality(HitsBy(statHits, t)) <= Len(statHits) /\ Cardinality(HitsBy(statHits, t)) \in Nat
      BY <1>3, BySets
    <3>3. Len(statHits) <= Len(statSlips)
      <4>1. Cardinality(SlipLines(statFile.lines, ReadTo)) \in Nat
        <5>1. ReadTo \in 0 .. Len(statFile.lines)
          BY <1>2, StatTypes DEF StatInv
        <5> QED BY <1>2, <5>1, SlipLinesAre
      <4> QED BY <1>2, <1>3, <4>1 DEF CountInv
    <3> QED BY <1>3, <3>1, <3>2, <3>3
  <2>2. CASE t # statNow + 1
    <3>1. t \in 0 .. statNow
      BY <1>3, <2>2
    <3> QED BY <1>2, <3>1 DEF CountInv
  <2> QED BY <2>1, <2>2
<1>9. CountInv'
  <2>1. HitsOK(statHits)'
    <3>1. \A i \in 1 .. Len(statHits) : statHits[i].delta = 1 /\ statHits[i].t <= statNow
      BY <1>2 DEF CountInv, HitsOK
    <3>2. \A i \in 1 .. Len(statHits) : statHits[i].t \in Nat
      <4>1. \A i \in 1 .. Len(statHits) : statHits[i] \in Hit
        BY <1>3
      <4> QED BY <4>1 DEF Hit
    <3>3. \A i \in 1 .. Len(statHits) : statHits[i].t <= statNow + 1
      BY <1>3, <3>1, <3>2
    <3> QED BY <1>1, <3>1, <3>3 DEF HitsOK
  <2> QED BY <1>1, <1>2, <1>5, <1>7, <1>8, <2>1 DEF CountInv
<1>10. /\ (statCur = statFile.number => ReadInv(Reader, statFile.lines, LinesRead))'
       /\ (statPos = 2 * LinesRead)'
  BY <1>1 DEF StatInv, Reader, LinesRead, ReadInv, Counted, LastEpoch, FirstFreq
<1>11. OneSky(statSats)' /\ FileInv(statFile.lines)'
  BY <1>1 DEF StatInv
<1> QED BY <1>1, <1>4, <1>5, <1>9, <1>10, <1>11 DEF StatInv

\* Every step of the reader, of rtkrcv and of the clock.
LEMMA StatStepInv == StatInv /\ [StatNext]_statVars => StatInv'
<1> SUFFICES ASSUME StatInv, [StatNext]_statVars PROVE StatInv'
  OBVIOUS
<1>1. CASE StatNext
  BY <1>1, StatPollInv, StatCountInv, StatRestartInv, StatWritesInv, StatHalvesInv,
     StatNewFileInv, StatTickInv DEF StatNext
<1>2. CASE UNCHANGED statVars
  <2>1. UNCHANGED <<statFile, statHalf, statCur, statPos, statAcc, statSats, statLast, statHits,
                    statNow, statSlips>>
    BY <1>2 DEF statVars
  <2>2. StatTypeOK' /\ CountInv' /\ ReadTo' = ReadTo
    BY <2>1 DEF StatInv, StatTypeOK, CountInv, HitsOK, ReadTo, LinesRead
  <2>3. /\ (statCur = statFile.number => ReadInv(Reader, statFile.lines, LinesRead))'
        /\ (statPos = 2 * LinesRead)'
    BY <2>1 DEF StatInv, Reader, LinesRead, ReadInv, Counted, LastEpoch, FirstFreq
  <2>4. OneSky(statSats)' /\ FileInv(statFile.lines)'
    BY <2>1 DEF StatInv
  <2> QED BY <2>1, <2>2, <2>3, <2>4 DEF StatInv
<1> QED BY <1>1, <1>2

\* What it says of the sky and of the slips.
LEMMA StatInvOnce == StatInv => SkyIsOneEpoch /\ SlipsOnce
<1> SUFFICES ASSUME StatInv PROVE SkyIsOneEpoch /\ SlipsOnce
  OBVIOUS
<1>1. SkyIsOneEpoch
  <2>1. statPos \in Nat /\ LinesRead = statPos \div 2 /\ (statPos >= 2 => LinesRead # 0)
    BY StatTypes DEF StatInv, LinesRead
  <2>2. statCur = statFile.number /\ statPos >= 2 =>
          statSats = Picked(statFile.lines, LastEpoch(statFile.lines, statPos \div 2))
    BY <2>1 DEF StatInv, ReadInv, Reader
  <2> QED BY <2>2 DEF StatInv, OneSky, SkyIsOneEpoch
<1>2. ASSUME NEW t \in 0 .. statNow
      PROVE  Cardinality(CountedBy(t)) <= Cardinality({i \in DOMAIN statSlips : statSlips[i] <= t})
  <2> DEFINE S == CountedBy(t)
             T == HitsBy(statHits, t)
             f == [hit \in S |-> hit[1]]
  <2>1. /\ statHits \in Seq(Hit) /\ statSlips \in Seq(Nat) /\ HitsOK(statHits)
        /\ Cardinality(T) <= Cardinality(SlipsBy(statSlips, t))
    BY StatTypes DEF StatInv, CountInv
  <2>2. /\ IsFiniteSet(T) /\ Cardinality(T) \in Nat
        /\ Cardinality(SlipsBy(statSlips, t)) \in Nat
    BY <2>1, BySets
  <2>3. DOMAIN statHits = 1 .. Len(statHits) /\ DOMAIN statSlips = 1 .. Len(statSlips)
    BY <2>1
  <2>4. \A hit \in S : /\ hit \in (DOMAIN statHits) \X (1..StatMaxSlips)
                       /\ statHits[hit[1]].t <= t /\ hit[2] <= statHits[hit[1]].delta
    BY DEF CountedBy
  <2>5. \A hit \in S : hit[1] \in T /\ hit[2] = 1 /\ hit = <<hit[1], hit[2]>>
    <3> TAKE hit \in S
    <3>1. /\ hit[1] \in 1 .. Len(statHits) /\ hit[2] \in 1..StatMaxSlips /\ hit = <<hit[1], hit[2]>>
          /\ statHits[hit[1]].t <= t /\ hit[2] <= statHits[hit[1]].delta
      BY <2>3, <2>4
    <3>2. statHits[hit[1]].delta = 1
      BY <2>1, <3>1 DEF HitsOK
    <3>3. hit[2] = 1
      BY <3>1, <3>2, StatAssumption
    <3> QED BY <3>1, <3>3 DEF HitsBy
  <2>6. f \in Injection(S, T)
    <3> HIDE DEF S, T
    <3>1. \A x, y \in S : x[1] = y[1] => x = y
      BY <2>5
    <3> QED BY <2>5, <3>1 DEF Injection, IsInjective
  <2>7. Cardinality(S) <= Cardinality(T) /\ IsFiniteSet(S)
    BY <2>2, <2>6, FS_Injection
  <2>8. Cardinality(S) \in Nat
    BY <2>7, FS_CardinalityType
  <2>9. {i \in DOMAIN statSlips : statSlips[i] <= t} = SlipsBy(statSlips, t)
    BY <2>3 DEF SlipsBy
  <2> HIDE DEF S, T
  <2>10. Cardinality(S) <= Cardinality(SlipsBy(statSlips, t))
    BY <2>1, <2>2, <2>7, <2>8
  <2> QED BY <2>9, <2>10 DEF S
<1> QED BY <1>1, <1>2 DEF SlipsOnce
=============================================================================
