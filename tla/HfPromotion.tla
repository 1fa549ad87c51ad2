---- MODULE HfPromotion ----
(***************************************************************************)
(* What a sidecar run keeps of the HF tuning from run to run, and the      *)
(* checklist that live orders need: the history of shadow comparisons, the *)
(* freeze of the thresholds, and the payload path that was once verified   *)
(* (src/index.ts, src/hf-judgement-core.ts).  Each is a file of its own,   *)
(* saved one after the other; a run can end between any two of them, and a *)
(* file that is torn is taken for none.                                    *)
(***************************************************************************)
EXTENDS Integers, SequencesExt

CONSTANTS
  Hashes,        \* Stage6 files
  StableTarget,  \* HF_TUNING_FREEZE_STABLE_RUNS
  AlertStreak,   \* HF_TUNING_UNFREEZE_ALERT_STREAK
  MaxRate,       \* HF_TUNING_FREEZE_MAX_SHADOW_ALERT_RATE, in percent
  Window,        \* HF_SHADOW_HISTORY_WINDOW
  MinCompared,   \* comparisons the checklist asks for: 3
  Sticky,        \* HF_LIVE_PROMOTION_PAYLOAD_PATH_STICKY_HOURS, in ticks
  MaxNow,        \* bound on the clock
  MaxFaults      \* bound on runs that end early and files that are torn

Never == -1000
Gates == {"PENDING_SAMPLE", "NO_DATA", "NO_GO", "GO"}
NoFreeze == [status |-> "OBSERVE", stable |-> 0, alerts |-> 0]
NoPath == [hash |-> "none", verified |-> FALSE, at |-> Never]

VARIABLES
  now,
  shadow,      \* state/hf-shadow-history.jsonl, the last Window records
  freeze,      \* state/hf-tuning-freeze.json
  path,        \* state/hf-live-promotion-state.json
  step,        \* what the run does next
  run,         \* what this run saw
  verdict,     \* the checklist of the run: none, BLOCK, HOLD or PASS
  stableRuns,  \* stable runs in a row that the freeze has been told of
  badRuns,     \* runs in a row with an alert or a high rate that it has been told of
  proven,      \* when and for which file a run last verified the payload path itself
  faults

vars == <<now, shadow, freeze, path, step, run, verdict, stableRuns, badRuns, proven, faults>>
saw == <<stableRuns, badRuns, proven>>

\* computeHfShadowTrendSummary: the share of alerts among the compared runs.
Compared == SelectSeq(shadow, LAMBDA r : r.compared)
Alerts == SelectSeq(Compared, LAMBDA r : r.alert)

\* updateHfFreezeSummary: without a comparison the rate is 0.
RateIsHigh == Len(Alerts) * 100 > MaxRate * Len(Compared)

\* deriveHfLivePromotionSummaryCore
ShadowStable == Len(Compared) >= MinCompared /\ ~RateIsHigh

HasProgress == run.gate # "PENDING_SAMPLE"
Noisy == run.alert \/ RateIsHigh

\* updateHfFreezeSummary: a frozen baseline is reviewed after AlertStreak noisy runs.
WhileFrozen(f) ==
  IF ~Noisy THEN [f EXCEPT !.alerts = 0]
  ELSE [f EXCEPT !.alerts = @ + 1,
                 !.status = IF f.alerts + 1 >= AlertStreak THEN "UNFREEZE_REVIEW" ELSE @]

\* updateHfFreezeSummary: StableTarget stable runs freeze, a noisy one starts over.
WhileNotFrozen(f) ==
  IF Noisy THEN NoFreeze
  ELSE [status |-> IF f.stable + 1 >= StableTarget THEN "FROZEN" ELSE "CANDIDATE",
        stable |-> f.stable + 1, alerts |-> 0]

\* updateHfFreezeSummary
NextFreeze(f) ==
  CASE ~HasProgress -> NoFreeze
    [] HasProgress /\ f.status = "FROZEN" -> WhileFrozen(f)
    [] HasProgress /\ f.status # "FROZEN" -> WhileNotFrozen(f)

\* resolvePayloadPathVerificationStatus: a verification carries over for Sticky hours,
\* to another file as well.
StickyEligible == path.verified /\ Sticky > 0 /\ now - path.at <= Sticky

\* Mutation of NextPath: a carried verification counts as a new one.
NextPathRenewed ==
  IF run.verified \/ StickyEligible
  THEN [hash |-> run.hash, verified |-> TRUE, at |-> now]
  ELSE [hash |-> run.hash, verified |-> FALSE, at |-> Never]

\* resolvePayloadPathVerificationStatus: the time of the verification is carried too.
NextPath ==
  IF run.verified THEN [hash |-> run.hash, verified |-> TRUE, at |-> now]
  ELSE IF StickyEligible THEN [hash |-> run.hash, verified |-> TRUE, at |-> path.at]
  ELSE [hash |-> run.hash, verified |-> FALSE, at |-> Never]

\* deriveHfLivePromotionSummaryCore with every check required, the default policy
Verdict(pathVerified) ==
  IF run.alert \/ run.gate = "NO_GO" THEN "BLOCK"
  ELSE IF run.gate = "NO_DATA" THEN "HOLD"
  ELSE IF freeze.status = "UNFREEZE_REVIEW" THEN "BLOCK"
  ELSE IF run.gate = "GO" /\ freeze.status = "FROZEN" /\ ShadowStable /\ pathVerified THEN "PASS"
  ELSE "HOLD"

NoRun == [hash |-> "none", alert |-> FALSE, compared |-> FALSE, gate |-> "PENDING_SAMPLE", verified |-> FALSE]

Init ==
  /\ now = 0 /\ shadow = <<>> /\ freeze = NoFreeze /\ path = NoPath
  /\ step = "idle" /\ run = NoRun /\ verdict = "none"
  /\ stableRuns = 0 /\ badRuns = 0 /\ proven = [at |-> Never, hash |-> "none"] /\ faults = 0

\* The next run is one tick later, or the clock goes on without a run.
Tick ==
  /\ step = "idle" /\ now < MaxNow
  /\ now' = now + 1
  /\ UNCHANGED <<shadow, freeze, path, step, run, verdict, saw, faults>>

\* evaluateHfAnomalyAlert, updatePerformanceLoop, appendHfShadowHistory: the run has its
\* alert and its gate, and adds its record to the history.
AppendShadow ==
  /\ step = "idle" /\ now < MaxNow
  /\ \E hash \in Hashes, alert, compared, verified \in BOOLEAN, gate \in Gates :
       /\ run' = [hash |-> hash, alert |-> alert, compared |-> compared, gate |-> gate, verified |-> verified]
       /\ LET longer == Append(shadow, [compared |-> compared, alert |-> alert])
          IN shadow' = IF Len(longer) > Window THEN Tail(longer) ELSE longer
  /\ step' = "freeze" /\ now' = now + 1 /\ verdict' = "none"
  /\ UNCHANGED <<freeze, path, saw, faults>>

\* updateHfFreezeSummary
UpdateFreeze ==
  /\ step = "freeze"
  /\ freeze' = NextFreeze(freeze)
  /\ stableRuns' = IF HasProgress /\ ~Noisy THEN stableRuns + 1 ELSE 0
  /\ badRuns' = IF HasProgress /\ Noisy THEN badRuns + 1 ELSE 0
  /\ step' = "path"
  /\ UNCHANGED <<now, shadow, path, run, verdict, proven, faults>>

\* evaluateCurrentPayloadPathVerification, resolvePayloadPathVerificationStatus,
\* deriveHfLivePromotionSummary
Promote ==
  /\ step = "path"
  /\ path' = NextPath
  /\ proven' = IF run.verified THEN [at |-> now, hash |-> run.hash] ELSE proven
  /\ verdict' = Verdict(path'.verified)
  /\ step' = "done"
  /\ UNCHANGED <<now, shadow, freeze, run, stableRuns, badRuns, faults>>

\* submitOrdersToBroker and the rest of the run
EndRun ==
  /\ step = "done"
  /\ step' = "idle" /\ run' = NoRun /\ verdict' = "none"
  /\ UNCHANGED <<now, shadow, freeze, path, saw, faults>>

\* loadHfShadowHistory: a run that dies while it writes the history leaves the lines
\* that got through, the oldest ones.
TearHistory ==
  /\ step = "idle" /\ now < MaxNow /\ faults < MaxFaults
  /\ \E n \in 0..(Len(shadow) - 1) : shadow' = SubSeq(shadow, 1, n)
  /\ now' = now + 1 /\ faults' = faults + 1
  /\ UNCHANGED <<freeze, path, step, run, verdict, saw>>

\* The process dies between two files, or while it writes the next one, which then
\* does not parse: loadHfFreezeState and loadHfLivePromotionState begin anew.
Die ==
  /\ step # "idle" /\ faults < MaxFaults
  /\ step' = "idle" /\ run' = NoRun /\ verdict' = "none" /\ faults' = faults + 1
  /\ \/ UNCHANGED <<freeze, path, stableRuns, badRuns>>
     \/ step = "freeze" /\ freeze' = NoFreeze /\ stableRuns' = 0 /\ badRuns' = 0 /\ UNCHANGED path
     \/ step = "path" /\ path' = NoPath /\ UNCHANGED <<freeze, stableRuns, badRuns>>
  /\ UNCHANGED <<now, shadow, proven>>

Next == Tick \/ AppendShadow \/ UpdateFreeze \/ Promote \/ EndRun \/ TearHistory \/ Die

Spec == Init /\ [][Next]_vars

(***************************************************************************)
(* Properties                                                              *)
(***************************************************************************)
TypeOK ==
  /\ now \in 0..MaxNow /\ faults \in 0..MaxFaults
  /\ shadow \in BoundedSeq([compared : BOOLEAN, alert : BOOLEAN], Window)
  /\ freeze.status \in {"OBSERVE", "CANDIDATE", "FROZEN", "UNFREEZE_REVIEW"}
  /\ freeze.alerts \in 0..AlertStreak /\ path.hash \in Hashes \cup {"none"}
  /\ step \in {"idle", "freeze", "path", "done"} /\ verdict \in {"none", "BLOCK", "HOLD", "PASS"}

\* A PASS rests on a payload that some run really built at most Sticky hours ago, over
\* however many runs and files the verification was carried.
PassIsProven == verdict = "PASS" => now - proven.at <= Sticky

\* A baseline that is not under review is frozen only by StableTarget stable runs in a
\* row, whichever runs died and whichever file was torn in between.
FirstFreezeEarned ==
  freeze'.status = "FROZEN" /\ freeze.status \in {"OBSERVE", "CANDIDATE"}
    => stableRuns' >= StableTarget

\* Noise ends a freeze: it never outlives AlertStreak noisy runs in a row.
NoiseEndsFreeze == freeze.status = "FROZEN" => badRuns < AlertStreak

====
