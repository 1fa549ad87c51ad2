---- MODULE RegimeGuard ----
(***************************************************************************)
(* The regime guards of a sidecar run (applyRegimeGuards in src/index.ts): *)
(* a score of the volatility data, a band between two thresholds, and a    *)
(* least time between two switches of the profile, which is remembered in  *)
(* state/regime-guard-state.json.  Runs do not overlap; what a run saves   *)
(* can be lost with its job, and the file can be missing or unreadable.    *)
(***************************************************************************)
EXTENDS Integers, FiniteSetsExt

CONSTANTS
  Off, On,       \* VIX_RISK_OFF_THRESHOLD and VIX_RISK_ON_THRESHOLD
  Hold,          \* REGIME_MIN_HOLD_MIN, in ticks
  MinScore,      \* REGIME_QUALITY_MIN_SCORE
  QualityGuard,  \* REGIME_QUALITY_GUARD_ENABLED
  Hysteresis,    \* REGIME_HYSTERESIS_ENABLED
  Vixes,         \* the values the sources may report
  Deductions,    \* what unavailable, old or differing sources take off the score
  MaxNow,        \* bound on the clock
  MaxLost        \* bound on saves and files that are lost

Never == -1000
NoVix == -1
NoMemory == [profile |-> "none", switchedAt |-> Never]
Profiles == {"default", "risk_off"}

ASSUME RegimeAssumption ==
  /\ {On, Off, MinScore, MaxNow} \subseteq Int /\ Hold \in Nat
  /\ Vixes \subseteq Nat /\ Deductions \subseteq Nat
  /\ QualityGuard \in BOOLEAN /\ Hysteresis \in BOOLEAN

VARIABLES
  now,           \* the time
  memory,        \* state/regime-guard-state.json
  last,          \* what the last run applied, and the value it applied it for
  switchedAt,    \* when the applied profile last changed
  dangerSince,   \* since when every run has seen a value of at least Off
  lost,          \* a save or the file was lost, and no switch was saved since
  losses         \* how often

vars == <<now, memory, last, switchedAt, dangerSince, lost, losses>>

\* evaluateRegimeQuality
Score(vix, deducted) == Max({0, 100 - deducted - (IF vix = NoVix THEN 65 + 35 ELSE 0)})

\* evaluateRegimeQuality
ForceRiskOff(vix, deducted) == QualityGuard /\ Score(vix, deducted) < MinScore

\* resolveRegimeSelection: without a value the profile is the default one.
BaseProfile(vix) == IF vix # NoVix /\ vix >= Off THEN "risk_off" ELSE "default"

\* applyRegimeGuards: recovery has to wait for a value of at most On.
InBand(vix) == vix # NoVix /\ memory.profile = "risk_off" /\ vix > On

Desired(vix, forced) ==
  IF forced \/ InBand(vix) THEN "risk_off" ELSE BaseProfile(vix)

\* Mutation of Held: only recoveries are held, and a switch to risk_off is not.
HeldOneWay(desired, forced) ==
  /\ Hysteresis /\ ~forced
  /\ memory.profile = "risk_off" /\ memory.profile # desired
  /\ now - memory.switchedAt < Hold

\* applyRegimeGuards: the least time between switches, which low quality bypasses.
Held(desired, forced) ==
  /\ Hysteresis /\ ~forced
  /\ memory # NoMemory /\ memory.profile # desired
  /\ now - memory.switchedAt < Hold

\* Mutation of Saved: the time of the switch moves with every save.
SavedNow(profile) == [profile |-> profile, switchedAt |-> now]

\* applyRegimeGuards, saveRegimeGuardState: the hourly refresh of updatedAt
\* changes neither field that a decision reads.
Saved(profile) ==
  [profile |-> profile,
   switchedAt |-> IF memory.profile = profile THEN memory.switchedAt ELSE now]

Init == /\ now = 0 /\ memory = NoMemory
        /\ last = [profile |-> "none", vix |-> NoVix, forced |-> FALSE, at |-> Never]
        /\ switchedAt = Never /\ dangerSince = Never
        /\ lost = FALSE /\ losses = 0

Tick == /\ now < MaxNow
        /\ now' = now + 1
        /\ UNCHANGED <<memory, last, switchedAt, dangerSince, lost, losses>>

\* What the run decides; a run whose save is lost has used the profile all the same.
Decide(vix, deducted) ==
  LET forced  == ForceRiskOff(vix, deducted)
      desired == Desired(vix, forced)
      applied == IF Held(desired, forced) THEN memory.profile ELSE desired
  IN  /\ last' = [profile |-> applied, vix |-> vix, forced |-> forced, at |-> now]
      /\ switchedAt' = IF last.profile = applied THEN switchedAt ELSE now
      /\ dangerSince' = IF vix = NoVix \/ vix < Off THEN Never
                        ELSE IF dangerSince = Never THEN now ELSE dangerSince
      /\ UNCHANGED now

Run(vix, deducted) ==
  /\ Decide(vix, deducted)
  /\ memory' = Saved(last'.profile)
  /\ lost' = (lost /\ memory.profile = last'.profile)
  /\ UNCHANGED losses

RunUnsaved(vix, deducted) ==
  /\ losses < MaxLost
  /\ Decide(vix, deducted)
  /\ losses' = losses + 1
  /\ lost' = TRUE
  /\ UNCHANGED memory

\* loadRegimeGuardState: a missing, unreadable or malformed file is no memory.
LoseFile ==
  /\ losses < MaxLost
  /\ memory # NoMemory
  /\ memory' = NoMemory
  /\ losses' = losses + 1
  /\ lost' = TRUE
  /\ UNCHANGED <<now, last, switchedAt, dangerSince>>

Next == \/ Tick
        \/ \E vix \in Vixes \union {NoVix}, deducted \in Deductions :
             Run(vix, deducted) \/ RunUnsaved(vix, deducted)
        \/ LoseFile

Spec == Init /\ [][Next]_vars

TypeOK ==
  /\ now \in Nat
  /\ memory = NoMemory \/ memory \in [profile : Profiles, switchedAt : Nat]
  /\ last \in [profile : Profiles \union {"none"}, vix : Vixes \union {NoVix},
               forced : BOOLEAN, at : Int]
  /\ switchedAt \in Int /\ dangerSince \in Int
  /\ lost \in BOOLEAN /\ losses \in 0..MaxLost

\* README.md:60, minimum hold time: between two switches of the applied profile
\* lies the hold, unless the later one is forced by the quality of the data, or
\* the memory of the earlier one was lost.
SwitchesAreSpaced ==
  [][last.profile \in Profiles /\ last'.profile # last.profile
       => \/ ~Hysteresis \/ last'.forced \/ lost
          \/ last'.at - switchedAt >= Hold]_vars

\* README.md:60, "only after on-threshold": the profile recovers on a value of
\* at most On, however often the values crossed the thresholds before, unless
\* the memory was lost.
RecoveriesAreEarned ==
  [][last.profile = "risk_off" /\ last'.profile = "default"
       => lost \/ (last'.vix # NoVix /\ last'.vix <= On)]_vars

\* The hold also delays the switch to risk_off, but no longer than the hold,
\* whatever was lost: values of at least Off that keep coming are followed.
DangerIsFollowed ==
  last.profile = "default" /\ dangerSince # Never => last.at - dangerSince < Hold
====
