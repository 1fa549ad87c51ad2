---------------------------- MODULE MCCarriedState ----------------------------
(***************************************************************************)
(* What one run leaves in the state directory for the next: the memory of  *)
(* the regime guard, the performance loop, the promotion of the HF tuning  *)
(* and the order store itself, in the cache that carries them. The four    *)
(* share no variable and each property reads one of them, so a behaviour   *)
(* moves one of them and leaves the others at their start.                 *)
(*                                                                         *)
(* Bounds. Regime: values below, inside and above the band, sources that   *)
(* fail, a clock that passes the hold twice, two losses. Loop: milestones  *)
(* at one and two rows, a gate at two, and a third entry. Promotion: a     *)
(* freeze after two stable runs that two noisy ones end, a window of three *)
(* comparisons, and a clock that outlives a verification. Cache: two keys, *)
(* four jobs, two overlaps, re-runs or failed saves.                       *)
(***************************************************************************)
EXTENDS RegimeGuard

CONSTANTS
  LoopKeys, Bucket, Required, LoopRuns, LoopFaults,
  Hashes, StableTarget, AlertStreak, MaxRate, Window, MinCompared, Sticky, LastRun, RunFaults,
  CacheKeys, CacheRuns, CacheFaults, MaxExcuses

\* A file has finitely many rows or keys; a streak and the history have a length of
\* at least one, and the other numbers are not negative (index.ts:1512, 11186,
\* 11288-11297).
ASSUME CarriedAssumption ==
  /\ IsFiniteSet(LoopKeys) /\ Bucket \in Nat \ {0} /\ Required \in Nat
  /\ {StableTarget, AlertStreak, Window} \subseteq Nat \ {0}
  /\ {MaxRate, MinCompared, Sticky, LastRun, RunFaults} \subseteq Nat
  /\ IsFiniteSet(CacheKeys) /\ {CacheRuns, MaxExcuses} \subseteq Nat

VARIABLES
  part,   \* the component that moves
  plLoop, plStep, plEntries, plDue, plBought, plSent, plRuns, plFaults, plTorn,
  hfNow, hfShadow, hfFreeze, hfPath, hfStep, hfRun, hfVerdict, hfStableRuns, hfBadRuns,
  hfProven, hfFaults,
  scEntries, scJob, scNext, scDecisions, scDecided, scBought, scLast, scExcuses

loopVars == <<plLoop, plStep, plEntries, plDue, plBought, plSent, plRuns, plFaults, plTorn>>
promotionVars == <<hfNow, hfShadow, hfFreeze, hfPath, hfStep, hfRun, hfVerdict, hfStableRuns,
                   hfBadRuns, hfProven, hfFaults>>
cacheVars == <<scEntries, scJob, scNext, scDecisions, scDecided, scBought, scLast, scExcuses>>

Loop == INSTANCE PerformanceLoop
  WITH Keys <- LoopKeys, Bucket <- Bucket, Required <- Required, MaxRuns <- LoopRuns,
       MaxFaults <- LoopFaults,
       loop <- plLoop, step <- plStep, entries <- plEntries, due <- plDue, bought <- plBought,
       sent <- plSent, runs <- plRuns, faults <- plFaults, torn <- plTorn

Promotion == INSTANCE HfPromotion
  WITH Hashes <- Hashes, StableTarget <- StableTarget, AlertStreak <- AlertStreak,
       MaxRate <- MaxRate, Window <- Window, MinCompared <- MinCompared, Sticky <- Sticky,
       MaxNow <- LastRun, MaxFaults <- RunFaults,
       now <- hfNow, shadow <- hfShadow, freeze <- hfFreeze, path <- hfPath, step <- hfStep,
       run <- hfRun, verdict <- hfVerdict, stableRuns <- hfStableRuns, badRuns <- hfBadRuns,
       proven <- hfProven, faults <- hfFaults

Cache == INSTANCE StateCache
  WITH Keys <- CacheKeys, MaxRuns <- CacheRuns, Faults <- CacheFaults, MaxExcuses <- MaxExcuses,
       entries <- scEntries, job <- scJob, next <- scNext, decisions <- scDecisions,
       decided <- scDecided, bought <- scBought, last <- scLast, excuses <- scExcuses

CarriedInit ==
  /\ part \in {"regime", "loop", "promotion", "cache"}
  /\ Init /\ Loop!Init /\ Promotion!Init /\ Cache!Init
  /\ part # "loop" => Loop!Rows(plLoop) = {}   \* the loop has several starts

RegimeMoves ==
  part = "regime" /\ Next /\ UNCHANGED <<part, loopVars, promotionVars, cacheVars>>
LoopMoves ==
  part = "loop" /\ Loop!Next /\ UNCHANGED <<part, vars, promotionVars, cacheVars>>
PromotionMoves ==
  part = "promotion" /\ Promotion!Next /\ UNCHANGED <<part, vars, loopVars, cacheVars>>
CacheMoves ==
  part = "cache" /\ Cache!Next /\ UNCHANGED <<part, vars, loopVars, promotionVars>>

CarriedNext == RegimeMoves \/ LoopMoves \/ PromotionMoves \/ CacheMoves

CarriedSpec ==
  CarriedInit /\ [][CarriedNext]_<<part, vars, loopVars, promotionVars, cacheVars>>

-------------------------------------------------------------------------------
(* Properties; those of the regime guard are in its module. *)

\* Entries pass the performance gate on the rows as they are, never on a snapshot that
\* newer rows have overtaken, and a milestone is announced once per batch
\* (index.ts:12976, 13334).
GateCountsEveryRow ==
  part = "loop" =>
    Loop!TypeOK /\ Loop!EntriesNeedCurrentKpis /\ Loop!SnapshotCountsEveryRow /\ Loop!MilestonesOnce

\* A PASS of the promotion checklist rests on a payload path that was really verified
\* within its time; a baseline that is not under review is frozen only by enough stable
\* runs in a row, and noise ends a freeze, whichever runs died and whichever file was
\* torn in between (index.ts:11245, 11361).
PromotionIsProven ==
  [][Promotion!TypeOK' /\ Promotion!PassIsProven' /\ Promotion!NoiseEndsFreeze'
     /\ Promotion!FirstFreezeEarned]_promotionVars

\* Without overlaps, re-runs and failed saves of the cache the newest entry knows every
\* bought key and the guard's last decision, although either workflow saves the other
\* one's files as well; and each of those pays for one order beyond a key's first at
\* the most (dry-run.yml:436-443, 2338; index.ts:10464).
StoreIsCarried ==
  part = "cache" => Cache!TypeOK /\ Cache!NothingIsLostAlone /\ Cache!ExtraOrdersAreExcused
===============================================================================
