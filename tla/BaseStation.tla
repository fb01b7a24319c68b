---------------------------- MODULE BaseStation -----------------------------
(***************************************************************************)
(* The base station: BaseStationMonitor (diagnosis/base_station.py), fed   *)
(* by App._on_corr, reset by POST /api/base_reset (api.py), over the kv    *)
(* and base_station tables of EpochStore (storage/epochs.py), with         *)
(* retention and restarts of the monitor.                                  *)
(*                                                                         *)
(* A position is one even coordinate, so that the mean of two is a number. *)
(* Any write to the tables may raise; a kv row may be found corrupt.       *)
(***************************************************************************)
EXTENDS Picks

CONSTANTS BasePlaces,   \* positions a station may send
          BaseWarmup,   \* warmup_s
          BaseKeep,     \* db_retention_days
          BaseMaxNow, BaseMaxRows, BaseMaxSamples, \* bounds: time, rows ever, samples
          BaseMaxFails, \* bound: writes that raise
          BaseMaxRestarts, \* bound
          BaseMaxBack   \* bound: times the clock is set back

Unset   == -1
Corrupt == -2

ASSUME BaseAssumption == /\ \A p \in BasePlaces : p \in Nat /\ p % 2 = 0
                         /\ BaseWarmup \in Nat /\ BaseKeep \in Nat
                         /\ BaseMaxNow \in Nat /\ BaseMaxRows \in Nat /\ BaseMaxSamples \in Nat
                         /\ BaseMaxFails \in Nat /\ BaseMaxRestarts \in Nat
                         /\ BaseMaxBack \in Nat

VARIABLES baseLine,    \* _baseline
          baseSamples, \* _samples
          baseLast,    \* _last_hist
          baseKv,      \* the kv row
          baseRows,    \* the table base_station
          baseIds,     \* the id its last row was given (AUTOINCREMENT)
          baseNow,
          baseFails, baseRestarts, baseBack,
          baseSaved,   \* history: the baseline's kv_set, if any, did not raise
          baseLearned, \* history: the samples the baseline was learned from
          baseReset,   \* history: after a reset, the position that was fed last; else Unset
          baseRaised   \* history: the positions whose add_base raised since one did not

baseVars == <<baseLine, baseSamples, baseLast, baseKv, baseRows, baseIds, baseNow,
              baseFails, baseRestarts, baseBack, baseSaved, baseLearned, baseReset,
              baseRaised>>
baseWorld == <<baseNow, baseRestarts, baseBack>>

Fix == [t : Nat, at : BasePlaces]
Row == [id : Nat, t : Nat, at : BasePlaces]

BaseTypeOK ==
  /\ baseLine \in Nat \cup {Unset} /\ baseKv \in Nat \cup {Unset, Corrupt}
  /\ baseSamples \in Seq(Fix) /\ baseLearned \in Seq(Fix)
  /\ baseLast \in BasePlaces \cup {Unset}
  /\ baseRows \subseteq Row /\ baseIds \in Nat
  /\ baseNow \in Nat /\ baseFails \in Nat /\ baseRestarts \in Nat /\ baseBack \in Nat
  /\ baseSaved \in BOOLEAN /\ baseReset \in BasePlaces \cup {Unset}
  /\ baseRaised \subseteq BasePlaces

BaseInit ==
  /\ baseLine = Unset /\ baseSamples = <<>> /\ baseLast = Unset
  /\ baseKv = Unset /\ baseRows = {} /\ baseIds = 0 /\ baseNow = 1
  /\ baseFails = 0 /\ baseRestarts = 0 /\ baseBack = 0
  /\ baseSaved = TRUE /\ baseLearned = <<>> /\ baseReset = Unset /\ baseRaised = {}

-----------------------------------------------------------------------------
\* statistics.median: the middle value, or the mean of the two
Median(s) ==
  LET n     == Len(s)
      at    == [i \in DOMAIN s |-> s[i].at]
      At(k) == at[OfRank(at, k)]
  IN  (At((n - 1) \div 2) + At(n \div 2)) \div 2

\* a write raises, or not
Writes(fails) == /\ baseFails' = IF fails THEN baseFails + 1 ELSE baseFails
                 /\ baseFails' <= BaseMaxFails

\* mutant of SetBaseline: only the memory is set
SetBaselineOnly(p, samples, fails) ==
  /\ baseLine' = p /\ baseSaved' = ~fails
  /\ baseKv' = baseKv
  /\ baseSamples' = IF fails THEN samples ELSE <<>>
  /\ Writes(fails)

\* _set_baseline: kv_set after the assignment; when it raises, before the row is
\* written or in the commit, the samples stay
SetBaseline(p, samples, fails) ==
  /\ baseLine' = p /\ baseSaved' = ~fails
  /\ baseKv' = p \/ (fails /\ baseKv' = baseKv)
  /\ baseSamples' = IF fails THEN samples ELSE <<>>
  /\ Writes(fails)

News(p) == baseLast # p

\* add_base
AddBase(t, p) == /\ baseIds < BaseMaxRows /\ baseIds' = baseIds + 1
                 /\ baseRows' = baseRows \cup {[id |-> baseIds', t |-> t, at |-> p]}

\* add_base raises, before the row is inserted or in the commit, which a later one
\* makes good: the row is there then
AddBaseFails(t, p) == AddBase(t, p) \/ UNCHANGED <<baseRows, baseIds>>

\* add_base of a new position raises: feed ends there
FeedFails(p) ==
  /\ News(p) /\ Writes(TRUE)
  /\ AddBaseFails(baseNow, p) /\ baseRaised' = baseRaised \cup {p}
  /\ UNCHANGED <<baseLine, baseSamples, baseLast, baseKv, baseSaved, baseLearned>>

FeedOn(p) ==
  LET samples == Append(baseSamples, [t |-> baseNow, at |-> p])
  IN  /\ baseLast' = p
      /\ IF News(p) THEN AddBase(baseNow, p) /\ baseRaised' = {}
                    ELSE UNCHANGED <<baseRows, baseIds, baseRaised>>
      /\ Len(samples) <= BaseMaxSamples
      /\ \/ /\ baseLine # Unset
            /\ UNCHANGED <<baseLine, baseKv, baseSamples, baseFails, baseSaved, baseLearned>>
         \/ /\ baseLine = Unset /\ baseNow - samples[1].t < BaseWarmup
            /\ baseSamples' = samples
            /\ UNCHANGED <<baseLine, baseKv, baseFails, baseSaved, baseLearned>>
         \/ /\ baseLine = Unset /\ baseNow - samples[1].t >= BaseWarmup
            /\ \E fails \in BOOLEAN : SetBaseline(Median(samples), samples, fails)
            /\ baseLearned' = samples

\* feed, for a 1005 or 1006 message that says p
BaseFeed(p) ==
  /\ FeedFails(p) \/ FeedOn(p)
  /\ baseReset' = Unset
  /\ UNCHANGED baseWorld

\* base_history: ORDER BY t, and then by id
IsNewest(r) == \A q \in baseRows : q.t < r.t \/ (q.t = r.t /\ q.id <= r.id)
Newest == CHOOSE r \in baseRows : IsNewest(r)

\* base_reset and reset: refused without history; a kv_set that raises leaves
\* the new baseline in memory only, an add_base that raises the history as it is
BaseDoReset ==
  /\ baseRows # {}
  /\ \/ /\ SetBaseline(Newest.at, baseSamples, TRUE)
        /\ baseReset' = Unset
        /\ UNCHANGED <<baseRows, baseIds, baseLast>>
     \/ /\ SetBaseline(Newest.at, baseSamples, FALSE)
        /\ AddBase(Newest.t, Newest.at) /\ baseLast' = Newest.at
        /\ baseReset' = baseLast
     \* add_base raises
     \/ /\ SetBaseline(Newest.at, baseSamples, FALSE)
        /\ AddBaseFails(Newest.t, Newest.at)
        /\ baseReset' = baseLast
        /\ UNCHANGED baseLast
  /\ baseLearned' = <<>>
  /\ UNCHANGED <<baseWorld, baseRaised>>

\* EpochStore.prune, the base_station table
BasePrune ==
  /\ baseRows' = {r \in baseRows : r.t >= baseNow - BaseKeep}
  /\ UNCHANGED <<baseLine, baseSamples, baseLast, baseKv, baseIds, baseFails, baseWorld,
                 baseSaved, baseLearned, baseReset, baseRaised>>

\* the monitor starts again; a kv row that cannot be read is a fresh warm-up
BaseRestart ==
  /\ baseRestarts < BaseMaxRestarts /\ baseRestarts' = baseRestarts + 1
  /\ baseKv' \in {baseKv, IF baseKv = Unset THEN Unset ELSE Corrupt}
  /\ baseLine' = IF baseKv' = Corrupt THEN Unset ELSE baseKv'
  /\ baseSamples' = <<>> /\ baseLast' = Unset
  /\ baseSaved' = TRUE /\ baseLearned' = <<>> /\ baseReset' = Unset
  /\ baseRaised' = {}
  /\ UNCHANGED <<baseRows, baseIds, baseNow, baseFails, baseBack>>

BaseTick ==
  /\ \/ baseNow < BaseMaxNow /\ baseNow' = baseNow + 1 /\ UNCHANGED baseBack
     \/ baseBack < BaseMaxBack /\ baseBack' = baseBack + 1 /\ baseNow > 1 /\ baseNow' = baseNow - 1
  /\ UNCHANGED <<baseLine, baseSamples, baseLast, baseKv, baseRows, baseIds, baseFails,
                 baseRestarts, baseSaved, baseLearned, baseReset, baseRaised>>

BaseNext == \/ \E p \in BasePlaces : BaseFeed(p)
            \/ BaseDoReset \/ BasePrune \/ BaseRestart \/ BaseTick
BaseSpec == BaseInit /\ [][BaseNext]_baseVars

-----------------------------------------------------------------------------
(* Properties. *)

Share(s, p) == Cardinality({i \in DOMAIN s : s[i].at = p})

\* The baseline is what it should be: the row a restart reads it from holds it,
\* unless storing it raised; a position that more than half of the warm-up's
\* messages gave is the one learned, whatever the others said; and a reset takes
\* the position fed last, or one whose add_base raised since a position was last
\* recorded, through repeated resets, retention and restarts, as long as the clock
\* is not set back.
BaselineHonest ==
  /\ baseSaved /\ baseLine # Unset => baseKv = baseLine
  /\ baseLearned # <<>> => \A p \in BasePlaces :
       2 * Share(baseLearned, p) > Len(baseLearned) => baseLine = p
  /\ baseReset # Unset /\ baseBack = 0 => baseLine \in {baseReset} \cup baseRaised
=============================================================================
