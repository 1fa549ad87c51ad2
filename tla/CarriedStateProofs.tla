--------------------------- MODULE CarriedStateProofs ---------------------------
(***************************************************************************)
(* What holds of the state that is carried from run to run, for every      *)
(* value of the constants: the spacing of the regime guard's switches and  *)
(* its bounded delay of a danger, the gate of the performance loop, the    *)
(* promotion of the HF tuning, and the hand-over of the state directory.   *)
(* Each part is proved by itself; PartsAreKept carries the results to the  *)
(* behaviours that the run explores.                                       *)
(***************************************************************************)
EXTENDS MCCarriedState, FiniteSetTheorems, SequenceTheorems, TLAPS

-------------------------------------------------------------------------------
(* The parts                                                               *)

\* A behaviour of the four is one of each of them.
THEOREM PartsAreKept ==
  CarriedSpec => Spec /\ Loop!Spec /\ Promotion!Spec /\ Cache!Spec
<1>1. CarriedInit => Init /\ Loop!Init /\ Promotion!Init /\ Cache!Init
  BY DEF CarriedInit
<1>2. [CarriedNext]_<<part, vars, loopVars, promotionVars, cacheVars>> =>
        [Next]_vars /\ [Loop!Next]_(Loop!vars) /\ [Promotion!Next]_(Promotion!vars) /\ [Cache!Next]_(Cache!vars)
  BY DEF CarriedNext, RegimeMoves, LoopMoves, PromotionMoves, CacheMoves, loopVars, promotionVars, cacheVars,
         Loop!vars, Promotion!vars, Cache!vars
<1>q. QED BY <1>1, <1>2, PTL DEF CarriedSpec, Spec, Loop!Spec, Promotion!Spec, Cache!Spec

-------------------------------------------------------------------------------
(* The regime guard: the memory is tied to what was applied by a weak      *)
(* relation: unless it was lost it names the profile the last run applied  *)
(* and a switch no earlier than the last one.                              *)
\* What the memory says of the last run, unless it was lost.
MemoryInv ==
  ~lost => /\ memory.profile = last.profile
           /\ memory.switchedAt >= switchedAt

\* A switch is applied at the time of the run that applies it.
RegimeInv ==
  /\ now \in Nat /\ memory.switchedAt \in Int /\ switchedAt \in Int
  /\ switchedAt <= now
  /\ last.profile \in Profiles \union {"none"}
  /\ memory = NoMemory \/ memory.profile \in Profiles
  /\ lost \in BOOLEAN
  /\ MemoryInv

LEMMA InitRegimeInv == Init => RegimeInv
<1> SUFFICES ASSUME Init PROVE RegimeInv
  OBVIOUS
<1>1. Never \in Int /\ Never <= 0
  BY DEF Never
<1>2. /\ now = 0 /\ switchedAt = Never /\ memory = NoMemory
      /\ memory.switchedAt = Never /\ memory.profile = "none"
      /\ last.profile = "none" /\ lost = FALSE
  BY DEF Init, NoMemory
<1>3. MemoryInv
  BY <1>1, <1>2 DEF MemoryInv
<1> HIDE DEF Never
<1> QED
  BY <1>1, <1>2, <1>3 DEF RegimeInv

\* The profile a run applies is one of the two.
LEMMA AppliedIsAProfile ==
  ASSUME RegimeInv, NEW vix, NEW deducted, Decide(vix, deducted)
  PROVE  last'.profile \in Profiles
<1> DEFINE forced  == ForceRiskOff(vix, deducted)
           desired == Desired(vix, forced)
<1>1. desired \in Profiles
  BY DEF Desired, BaseProfile, Profiles
<1>2. last'.profile = IF Held(desired, forced) THEN memory.profile ELSE desired
  BY DEF Decide
<1>3. Held(desired, forced) => memory.profile \in Profiles
  BY DEF Held, RegimeInv
<1> HIDE DEF desired, forced
<1> QED
  BY <1>1, <1>2, <1>3

\* A saved run leaves the memory tied to what it applied.
LEMMA RunInv ==
  ASSUME RegimeInv, NEW vix, NEW deducted, Run(vix, deducted)
  PROVE  RegimeInv'
<1>1. Decide(vix, deducted) /\ memory' = Saved(last'.profile)
  BY DEF Run
<1>2. last'.profile \in Profiles
  BY <1>1, AppliedIsAProfile
<1>3. now' = now /\ now \in Nat
  BY <1>1 DEF Decide, RegimeInv
<1>4. switchedAt' = IF last.profile = last'.profile THEN switchedAt ELSE now
  BY <1>1 DEF Decide
<1>5. /\ memory'.profile = last'.profile
      /\ memory'.switchedAt = IF memory.profile = last'.profile
                              THEN memory.switchedAt ELSE now
  BY <1>1 DEF Saved
<1>6. lost' = (lost /\ memory.profile = last'.profile)
  BY DEF Run
<1>7. memory'.switchedAt \in Int /\ switchedAt' \in Int
  BY <1>3, <1>4, <1>5 DEF RegimeInv
<1>8. lost' \in BOOLEAN
  BY <1>6
<1>9. switchedAt' <= now'
  BY <1>3, <1>4 DEF RegimeInv
<1>10. ~lost' => memory'.switchedAt >= switchedAt'
  <2> SUFFICES ASSUME ~lost' PROVE memory'.switchedAt >= switchedAt'
    OBVIOUS
  <2>1. CASE memory.profile # last'.profile
    BY <2>1, <1>3, <1>5, <1>7, <1>9
  <2>2. CASE memory.profile = last'.profile
    <3>1. ~lost
      BY <2>2, <1>6
    <3> QED
      BY <3>1, <2>2, <1>4, <1>5 DEF RegimeInv, MemoryInv
  <2> QED
    BY <2>1, <2>2
<1> QED
  BY <1>2, <1>3, <1>5, <1>7, <1>8, <1>9, <1>10 DEF RegimeInv, MemoryInv

\* A run whose save is lost changes everything but the memory.
LEMMA RunUnsavedInv ==
  ASSUME RegimeInv, NEW vix, NEW deducted, RunUnsaved(vix, deducted)
  PROVE  RegimeInv'
<1>1. Decide(vix, deducted) /\ lost' = TRUE /\ memory' = memory
  BY DEF RunUnsaved
<1>2. last'.profile \in Profiles
  BY <1>1, AppliedIsAProfile
<1>3. now' = now /\ switchedAt' = IF last.profile = last'.profile THEN switchedAt ELSE now
  BY <1>1 DEF Decide
<1>4. switchedAt' \in Int /\ switchedAt' <= now'
  BY <1>3 DEF RegimeInv
<1> QED
  BY <1>1, <1>2, <1>3, <1>4 DEF RegimeInv, MemoryInv

\* The clock and a lost file change nothing the invariant relates.
LEMMA OtherStepsInv ==
  ASSUME RegimeInv, Tick \/ LoseFile \/ UNCHANGED vars
  PROVE  RegimeInv'
<1>1. CASE Tick
  BY <1>1 DEF Tick, RegimeInv, MemoryInv
<1>2. CASE LoseFile
  <2>1. memory' = NoMemory /\ memory'.switchedAt \in Int /\ lost' = TRUE
    BY <1>2 DEF LoseFile, NoMemory, Never
  <2>2. UNCHANGED <<now, last, switchedAt>>
    BY <1>2 DEF LoseFile
  <2> QED
    BY <2>1, <2>2 DEF RegimeInv, MemoryInv
<1>3. CASE UNCHANGED vars
  BY <1>3 DEF vars, RegimeInv, MemoryInv
<1> QED
  BY <1>1, <1>2, <1>3

\* The inductive invariant: the memory's switch is no earlier than the last
\* one applied, unless the memory was lost.
THEOREM RegimeInvariant == Spec => []RegimeInv
<1>1. RegimeInv /\ [Next]_vars => RegimeInv'
  <2> SUFFICES ASSUME RegimeInv, [Next]_vars PROVE RegimeInv'
    OBVIOUS
  <2>1. CASE Tick \/ LoseFile \/ UNCHANGED vars
    BY <2>1, OtherStepsInv
  <2>2. CASE \E vix \in Vixes \union {NoVix}, deducted \in Deductions :
               Run(vix, deducted) \/ RunUnsaved(vix, deducted)
    <3>1. PICK vix \in Vixes \union {NoVix}, deducted \in Deductions :
            Run(vix, deducted) \/ RunUnsaved(vix, deducted)
      BY <2>2
    <3>2. CASE Run(vix, deducted)
      BY <3>2, RunInv
    <3>3. CASE RunUnsaved(vix, deducted)
      BY <3>3, RunUnsavedInv
    <3> QED
      BY <3>1, <3>2, <3>3
  <2> QED
    BY <2>1, <2>2 DEF Next
<1> QED
  BY <1>1, InitRegimeInv, PTL DEF Spec

\* What a deciding run applies, from the memory it finds.
LEMMA DecideShape ==
  ASSUME NEW vix, NEW deducted, Decide(vix, deducted)
  PROVE  LET forced  == ForceRiskOff(vix, deducted)
             desired == Desired(vix, forced)
         IN  /\ last'.profile = IF Held(desired, forced) THEN memory.profile ELSE desired
             /\ last'.vix = vix /\ last'.forced = forced /\ last'.at = now
             /\ now' = now
  BY DEF Decide

\* A switch that no memory loss excuses keeps its distance.
LEMMA SpacedStep ==
  ASSUME RegimeInv, NEW vix, NEW deducted, Decide(vix, deducted),
         ~lost, Hysteresis, ~last'.forced,
         last.profile \in Profiles, last'.profile # last.profile
  PROVE  last'.at - switchedAt >= Hold
<1> DEFINE forced  == ForceRiskOff(vix, deducted)
           desired == Desired(vix, forced)
<1>1. /\ last'.profile = IF Held(desired, forced) THEN memory.profile ELSE desired
      /\ last'.forced = forced /\ last'.at = now
  BY DecideShape
<1>2. /\ memory.profile = last.profile /\ memory.switchedAt >= switchedAt
      /\ now \in Int /\ memory.switchedAt \in Int /\ switchedAt \in Int
  BY DEF RegimeInv, MemoryInv
<1>3. memory # NoMemory
  BY <1>2 DEF NoMemory, Profiles
<1> HIDE DEF forced, desired
<1>4. ~Held(desired, forced) /\ memory.profile # desired
  BY <1>1, <1>2
<1>5. ~(now - memory.switchedAt < Hold)
  BY <1>1, <1>3, <1>4 DEF Held
<1> QED
  BY <1>1, <1>2, <1>5, RegimeAssumption DEF RegimeAssumption

\* Without a value the score is zero.
LEMMA NoValueScoresZero ==
  ASSUME NEW deducted \in Nat
  PROVE  Score(NoVix, deducted) = 0
<1>1. Score(NoVix, deducted) = Max({0, 100 - deducted - 100})
  BY DEF Score
<1>2. \A x \in Int : x <= 0 => Max({0, x}) = 0
  BY DEF Max
<1> QED
  BY <1>1, <1>2

\* A recovery that no memory loss excuses has a value of at most On.
LEMMA EarnedStep ==
  ASSUME RegimeInv, QualityGuard, MinScore > 0,
         NEW vix \in Vixes \union {NoVix}, NEW deducted \in Deductions,
         Decide(vix, deducted), ~lost,
         last.profile = "risk_off", last'.profile = "default"
  PROVE  last'.vix # NoVix /\ last'.vix <= On
<1> DEFINE forced  == ForceRiskOff(vix, deducted)
           desired == Desired(vix, forced)
<1>1. /\ last'.profile = IF Held(desired, forced) THEN memory.profile ELSE desired
      /\ last'.vix = vix
  BY DecideShape
<1>2. memory.profile = "risk_off"
  BY DEF RegimeInv, MemoryInv
<1>3. desired = "default"
  <2> HIDE DEF forced, desired
  <2> QED
    BY <1>1, <1>2
<1>4. ~forced /\ ~InBand(vix)
  BY <1>3 DEF Desired
<1>5. vix # NoVix
  <2> SUFFICES ASSUME vix = NoVix PROVE FALSE
    OBVIOUS
  <2>1. deducted \in Nat
    BY RegimeAssumption DEF RegimeAssumption
  <2>2. Score(vix, deducted) = 0
    BY <2>1, NoValueScoresZero
  <2> QED
    BY <1>4, <2>2 DEF ForceRiskOff
<1>6. vix \in Nat /\ On \in Int
  BY <1>5, RegimeAssumption DEF RegimeAssumption
<1> QED
  BY <1>1, <1>2, <1>4, <1>5, <1>6 DEF InBand

\* Only deciding runs change what is applied.
LEMMA OnlyRunsApply ==
  ASSUME [Next]_vars, last' # last
  PROVE  \E vix \in Vixes \union {NoVix}, deducted \in Deductions : Decide(vix, deducted)
  BY DEF Next, vars, Tick, LoseFile, Run, RunUnsaved

\* README.md:60: two switches are the hold apart, for any hold and values.
THEOREM SwitchesSpaced == Spec => SwitchesAreSpaced
<1> DEFINE Spaced == last.profile \in Profiles /\ last'.profile # last.profile
                       => \/ ~Hysteresis \/ last'.forced \/ lost
                          \/ last'.at - switchedAt >= Hold
<1>1. RegimeInv /\ [Next]_vars => [Spaced]_vars
  <2> SUFFICES ASSUME RegimeInv, [Next]_vars,
                      last.profile \in Profiles, last'.profile # last.profile,
                      Hysteresis, ~last'.forced, ~lost
               PROVE  last'.at - switchedAt >= Hold
    OBVIOUS
  <2>1. PICK vix \in Vixes \union {NoVix}, deducted \in Deductions : Decide(vix, deducted)
    BY OnlyRunsApply
  <2> QED
    BY <2>1, SpacedStep
<1> QED
  BY <1>1, RegimeInvariant, PTL DEF Spec, SwitchesAreSpaced

\* README.md:60: with the quality guard on, recovery needs a value of at most On.
THEOREM RecoveriesEarned ==
  ASSUME QualityGuard, MinScore > 0
  PROVE  Spec => RecoveriesAreEarned
<1> DEFINE Earned == last.profile = "risk_off" /\ last'.profile = "default"
                       => lost \/ (last'.vix # NoVix /\ last'.vix <= On)
<1>1. RegimeInv /\ [Next]_vars => [Earned]_vars
  <2> SUFFICES ASSUME RegimeInv, [Next]_vars,
                      last.profile = "risk_off", last'.profile = "default", ~lost
               PROVE  last'.vix # NoVix /\ last'.vix <= On
    OBVIOUS
  <2>1. PICK vix \in Vixes \union {NoVix}, deducted \in Deductions : Decide(vix, deducted)
    BY OnlyRunsApply
  <2> QED
    BY <2>1, EarnedStep
<1> QED
  BY <1>1, RegimeInvariant, PTL DEF Spec, RecoveriesAreEarned

\* While values of at least Off keep coming, a memory of the default profile is
\* older than the first of them.
DangerInv ==
  /\ RegimeInv
  /\ memory.switchedAt <= now
  /\ dangerSince \in Int /\ dangerSince <= now
  /\ memory.profile = "default" /\ dangerSince # Never
       => memory.switchedAt <= dangerSince
  /\ DangerIsFollowed

\* Arithmetic: from a later time it is no further.
LEMMA LaterIsCloser ==
  ASSUME NEW t \in Int, NEW a \in Int, NEW b \in Int, NEW h \in Int,
         t - a < h, a <= b
  PROVE  t - b < h
  OBVIOUS

\* A value of at least Off leaves the default profile only to the hold.
LEMMA DangerStep ==
  ASSUME DangerInv, RegimeInv', NEW vix \in Vixes \union {NoVix},
         NEW deducted \in Deductions, Decide(vix, deducted)
  PROVE  /\ DangerIsFollowed'
         /\ dangerSince' \in Int /\ dangerSince' <= now'
         /\ memory.profile = "default" /\ dangerSince' # Never
              => memory.switchedAt <= dangerSince'
         /\ dangerSince' # Never /\ last'.profile = "default"
              => memory.profile = "default"
<1> DEFINE forced  == ForceRiskOff(vix, deducted)
           desired == Desired(vix, forced)
<1>1. /\ last'.profile = IF Held(desired, forced) THEN memory.profile ELSE desired
      /\ last'.at = now /\ now' = now
  BY DecideShape
<1>2. dangerSince' = IF vix = NoVix \/ vix < Off THEN Never
                     ELSE IF dangerSince = Never THEN now ELSE dangerSince
  BY DEF Decide
<1>3. /\ now \in Nat /\ memory.switchedAt \in Int /\ dangerSince \in Int
      /\ memory.switchedAt <= now /\ dangerSince <= now
  BY DEF DangerInv, RegimeInv
<1>4. Never \in Int /\ Never < 0
  BY DEF Never
<1>5. dangerSince' \in Int /\ dangerSince' <= now'
  <2> HIDE DEF Never
  <2> QED
    BY <1>1, <1>2, <1>3, <1>4
<1>6. memory.profile = "default" /\ dangerSince' # Never
        => memory.switchedAt <= dangerSince'
  <2> HIDE DEF Never
  <2> QED
    BY <1>2, <1>3 DEF DangerInv
<1>7. ASSUME dangerSince' # Never, last'.profile = "default"
      PROVE  Held(desired, forced) /\ memory.profile = "default"
  <2>1. vix # NoVix /\ ~(vix < Off)
    BY <1>2, <1>7
  <2>2. vix \in Nat /\ Off \in Int
    BY <2>1, RegimeAssumption DEF RegimeAssumption
  <2>3. desired = "risk_off"
    BY <2>1, <2>2 DEF Desired, BaseProfile
  <2> HIDE DEF forced, desired
  <2> QED
    BY <1>1, <1>7, <2>3
<1>8. DangerIsFollowed'
  <2> SUFFICES ASSUME last'.profile = "default", dangerSince' # Never
               PROVE  last'.at - dangerSince' < Hold
    BY DEF DangerIsFollowed
  <2>1. Held(desired, forced) /\ memory.profile = "default"
    BY <1>7
  <2>2. now - memory.switchedAt < Hold
    BY <2>1 DEF Held
  <2>3. memory.switchedAt <= dangerSince'
    BY <1>6, <2>1
  <2>4. last'.at = now
    BY <1>1
  <2>5. now - dangerSince' < Hold
    <3>1. now \in Int /\ memory.switchedAt \in Int /\ dangerSince' \in Int
      BY <1>3, <1>5
    <3>2. Hold \in Int
      BY RegimeAssumption DEF RegimeAssumption
    <3> QED
      BY <3>1, <3>2, <2>2, <2>3, LaterIsCloser
  <2> QED
    BY <2>4, <2>5
<1> QED
  BY <1>5, <1>6, <1>7, <1>8

\* Both kinds of run keep the invariant of the danger.
LEMMA RunDangerInv ==
  ASSUME DangerInv, RegimeInv', NEW vix \in Vixes \union {NoVix},
         NEW deducted \in Deductions,
         Run(vix, deducted) \/ RunUnsaved(vix, deducted)
  PROVE  DangerInv'
<1>1. Decide(vix, deducted)
  BY DEF Run, RunUnsaved
<1>2. now' = now
  BY <1>1, DecideShape
<1>3. /\ DangerIsFollowed'
      /\ dangerSince' \in Int /\ dangerSince' <= now'
      /\ memory.profile = "default" /\ dangerSince' # Never
           => memory.switchedAt <= dangerSince'
      /\ dangerSince' # Never /\ last'.profile = "default"
           => memory.profile = "default"
  BY <1>1, DangerStep
<1>4. memory.switchedAt <= now /\ now \in Nat
  BY DEF DangerInv, RegimeInv
<1>5. CASE Run(vix, deducted)
  <2>1. /\ memory'.profile = last'.profile
        /\ memory'.switchedAt = IF memory.profile = last'.profile
                                THEN memory.switchedAt ELSE now
    BY <1>5 DEF Run, Saved
  <2>2. memory'.switchedAt <= now'
    BY <2>1, <1>2, <1>4
  <2>3. memory'.profile = "default" /\ dangerSince' # Never
          => memory'.switchedAt <= dangerSince'
    BY <2>1, <1>3
  <2> QED
    BY <2>2, <2>3, <1>3 DEF DangerInv
<1>6. CASE RunUnsaved(vix, deducted)
  <2>1. memory' = memory
    BY <1>6 DEF RunUnsaved
  <2> QED
    BY <2>1, <1>2, <1>3, <1>4 DEF DangerInv
<1> QED
  BY <1>5, <1>6

\* The hold delays risk_off no longer than the hold, however many saves are lost.
THEOREM DangerFollowed == Spec => []DangerIsFollowed
<1>1. Init => DangerInv
  <2> SUFFICES ASSUME Init PROVE DangerInv
    OBVIOUS
  <2>1. Never \in Int /\ Never <= 0
    BY DEF Never
  <2>2. /\ now = 0 /\ dangerSince = Never /\ memory.switchedAt = Never
        /\ last.profile = "none"
    BY DEF Init, NoMemory
  <2> HIDE DEF Never
  <2> QED
    BY <2>1, <2>2, InitRegimeInv DEF DangerInv, DangerIsFollowed
<1>2. DangerInv /\ [Next]_vars /\ RegimeInv' => DangerInv'
  <2> SUFFICES ASSUME DangerInv, [Next]_vars, RegimeInv' PROVE DangerInv'
    OBVIOUS
  <2>1. CASE Tick
    <3>1. now' = now + 1 /\ UNCHANGED <<memory, last, switchedAt, dangerSince>>
      BY <2>1 DEF Tick
    <3>2. /\ now \in Nat /\ memory.switchedAt \in Int /\ memory.switchedAt <= now
          /\ dangerSince \in Int /\ dangerSince <= now
      BY DEF DangerInv, RegimeInv
    <3>3. memory'.switchedAt <= now' /\ dangerSince' <= now'
      BY <3>1, <3>2
    <3>4. DangerIsFollowed'
      BY <3>1 DEF DangerInv, DangerIsFollowed
    <3> QED
      BY <3>1, <3>3, <3>4 DEF DangerInv
  <2>2. CASE LoseFile
    <3>1. /\ memory'.switchedAt = Never /\ memory'.profile = "none"
          /\ UNCHANGED <<now, last, dangerSince>>
      BY <2>2 DEF LoseFile, NoMemory
    <3>2. Never \in Int /\ Never <= 0 /\ now \in Nat
      BY DEF Never, DangerInv, RegimeInv
    <3>3. memory'.switchedAt <= now'
      <4> HIDE DEF Never
      <4> QED
        BY <3>1, <3>2
    <3> QED
      BY <3>1, <3>3 DEF DangerInv, DangerIsFollowed
  <2>3. CASE UNCHANGED vars
    BY <2>3 DEF vars, DangerInv, DangerIsFollowed
  <2>4. CASE \E vix \in Vixes \union {NoVix}, deducted \in Deductions :
               Run(vix, deducted) \/ RunUnsaved(vix, deducted)
    BY <2>4, RunDangerInv
  <2> QED
    BY <2>1, <2>2, <2>3, <2>4 DEF Next
<1>3. DangerInv => DangerIsFollowed
  BY DEF DangerInv
<1> QED
  BY <1>1, <1>2, <1>3, RegimeInvariant, PTL DEF Spec

-------------------------------------------------------------------------------
(* The state directory                                                     *)


AllDirs == [known : SUBSET CacheKeys, control : Nat]
Entries == Seq([id : Nat, dir : AllDirs])
Jobs == [id : Nat, dir : AllDirs, sent : BOOLEAN]

Shape ==
  /\ scEntries \in Entries /\ scEntries # <<>>
  /\ scJob \in [Cache!Groups -> {Cache!None} \cup Jobs]
  /\ \A g \in Cache!Groups : Cache!Running(g) => scJob[g] \in Jobs
  /\ scNext \in Nat /\ scDecisions \in Nat /\ scDecided \in Nat /\ scExcuses \in Nat
  /\ scBought \in [CacheKeys -> Nat]

\* What holds while nothing has gone wrong: one job runs, under an id of its
\* own, and its copy is the newest entry with the job's own work added.
Alone ==
  /\ \A g, h \in Cache!Groups : Cache!Running(g) /\ Cache!Running(h) => g = h
  /\ \A n \in DOMAIN scEntries : scEntries[n].id < scNext
  /\ \A g \in Cache!Groups : Cache!Running(g) => scJob[g].id < scNext /\ ~Cache!HasEntry(scJob[g].id)
  /\ Cache!Newest.control = scDecided
  /\ Cache!Running("sidecar") => scJob["sidecar"].dir.control = scDecided
  /\ Cache!Running("sidecar") => Cache!Newest.known \subseteq scJob["sidecar"].dir.known
  /\ Cache!Running("guard") => Cache!Newest.known \subseteq scJob["guard"].dir.known
  /\ Cache!Running("guard") /\ ~scJob["guard"].sent => scJob["guard"].dir.control = scDecided
  /\ \A k \in CacheKeys : scBought[k] > 0 =>
       k \in Cache!Newest.known \/ (Cache!Running("sidecar") /\ k \in scJob["sidecar"].dir.known)
  /\ Cache!Running("sidecar") /\ ~scJob["sidecar"].sent => scJob["sidecar"].dir.known \subseteq Cache!Newest.known

CacheInv == Shape /\ (scExcuses = 0 => Alone)

\* A job is told from no job.
LEMMA JobIsNotNone == ASSUME NEW j \in Jobs PROVE j # Cache!None
<1>1. "sent" \in DOMAIN j BY DEF Jobs
<1>2. "sent" \notin DOMAIN Cache!None BY DEF Cache!None
<1>3. QED BY <1>1, <1>2

LEMMA LastAppended ==
  ASSUME NEW S, NEW s \in Seq(S), NEW e \in S
  PROVE  /\ Append(s, e) \in Seq(S) /\ Append(s, e) # <<>>
         /\ DOMAIN Append(s, e) = 1..(Len(s) + 1)
         /\ \A n \in 1..Len(s) : Append(s, e)[n] = s[n]
         /\ Cache!Last(Append(s, e)) = e
BY DEF Cache!Last

LEMMA InitCacheInv == ASSUME Cache!Init PROVE CacheInv
<1> USE DEF Cache!Init
<1>1. scEntries \in Entries BY DEF Entries, AllDirs
<1>2. \A g \in Cache!Groups : ~Cache!Running(g) BY DEF Cache!Running
<1>3. Shape BY <1>1, <1>2 DEF Shape, Jobs
<1>4. Cache!Newest = [known |-> {}, control |-> 0] BY DEF Cache!Newest, Cache!Last
<1>5. Alone BY <1>2, <1>4 DEF Alone, Cache!Groups
<1>6. QED BY <1>3, <1>5 DEF CacheInv

LEMMA EntryIsTyped ==
  ASSUME Shape
  PROVE  /\ DOMAIN scEntries = 1..Len(scEntries) /\ Len(scEntries) \in DOMAIN scEntries
         /\ \A n \in DOMAIN scEntries : scEntries[n] \in [id : Nat, dir : AllDirs]
<1> DEFINE E == [id : Nat, dir : AllDirs]
<1>1. scEntries \in Seq(E) /\ scEntries # <<>> BY DEF Shape, Entries
<1> HIDE DEF E
<1>2. DOMAIN scEntries = 1..Len(scEntries) /\ Len(scEntries) \in Nat /\ Len(scEntries) # 0
  BY <1>1, EmptySeq, LenProperties
<1>3. \A n \in 1..Len(scEntries) : scEntries[n] \in E BY <1>1, ElementOfSeq
<1>4. QED BY <1>2, <1>3 DEF E

\* The restored copy is a directory.
LEMMA RestoredIsADir == ASSUME Shape, NEW id PROVE Cache!Restored(id) \in AllDirs
<1>1. CASE Cache!HasEntry(id)
  <2> DEFINE m == CHOOSE n \in DOMAIN scEntries : scEntries[n].id = id
  <2>1. m \in DOMAIN scEntries BY <1>1 DEF Cache!HasEntry
  <2>2. scEntries[m] \in [id : Nat, dir : AllDirs] BY <2>1, EntryIsTyped
  <2>3. Cache!Restored(id) = scEntries[m].dir BY <1>1 DEF Cache!Restored
  <2>4. QED BY <2>2, <2>3
<1>2. CASE ~Cache!HasEntry(id)
  <2>2. scEntries[Len(scEntries)] \in [id : Nat, dir : AllDirs] BY EntryIsTyped
  <2>3. QED BY <1>2, <2>2 DEF Cache!Restored, Cache!Newest, Cache!Last
<1>3. QED BY <1>1, <1>2

\* A job that begins gets a copy of a directory; nothing else changes.
LEMMA BeginsShape ==
  ASSUME Shape, NEW g \in Cache!Groups, NEW id \in Nat, NEW cost \in Nat,
         Cache!Begins(g, id, cost), scNext' \in Nat
  PROVE  Shape'
<1> DEFINE j == [id |-> id, dir |-> Cache!Restored(id), sent |-> FALSE]
<1>1. j \in Jobs BY RestoredIsADir DEF Jobs
<1>2. scJob' = [scJob EXCEPT ![g] = j] BY DEF Cache!Begins
<1>3. scJob' \in [Cache!Groups -> {Cache!None} \cup Jobs] BY <1>1, <1>2 DEF Shape
<1>4. ASSUME NEW h \in Cache!Groups, Cache!Running(h)' PROVE scJob'[h] \in Jobs
  BY <1>3, <1>4 DEF Cache!Running
<1>5. UNCHANGED <<scEntries, scDecisions, scDecided, scBought>> /\ scExcuses' \in Nat
  BY DEF Cache!Begins, Shape
<1>6. QED BY <1>3, <1>4, <1>5 DEF Shape, Cache!Running

LEMMA BeginInv == ASSUME CacheInv, NEW g \in Cache!Groups, Cache!Begin(g) PROVE CacheInv'
<1> DEFINE cost == IF \E h \in Cache!Groups \ {g} : Cache!Running(h) THEN 1 ELSE 0
<1>1. Cache!Begins(g, scNext, cost) /\ cost \in Nat /\ scNext' = scNext + 1 /\ scNext \in Nat
  BY DEF Cache!Begin, CacheInv, Shape
<1>2. Shape' BY <1>1, BeginsShape DEF CacheInv
<1>3. ASSUME scExcuses' = 0 PROVE Alone'
  <2>1. scExcuses = 0 /\ cost = 0 BY <1>1, <1>3 DEF Cache!Begins, CacheInv, Shape
  <2>2. \A h \in Cache!Groups : ~Cache!Running(h) BY <1>1, <2>1 DEF Cache!Begins, Cache!Starts
  <2>3. Alone BY <2>1 DEF CacheInv
  <2>4. ~Cache!HasEntry(scNext) BY <1>1, <2>3, EntryIsTyped DEF Alone, Cache!HasEntry, CacheInv
  <2>5. scJob' = [scJob EXCEPT ![g] = [id |-> scNext, dir |-> Cache!Newest, sent |-> FALSE]]
    BY <1>1, <2>4 DEF Cache!Begins, Cache!Restored
  <2>6. /\ scJob'[g].id = scNext /\ scJob'[g].dir = Cache!Newest /\ ~scJob'[g].sent
        /\ \A h \in Cache!Groups : Cache!Running(h)' => h = g
    BY <2>2, <2>5 DEF Cache!Running, CacheInv, Shape
  <2>7. UNCHANGED <<scEntries, scDecided, scBought>> BY <1>1 DEF Cache!Begins
  <2>8. Cache!Newest' = Cache!Newest BY <2>7 DEF Cache!Newest
  <2>9. \A n \in DOMAIN scEntries' : scEntries'[n].id < scNext'
    BY <1>1, <2>3, <2>7, EntryIsTyped DEF Alone, CacheInv
  <2>10. \A h \in Cache!Groups : Cache!Running(h)' => scJob'[h].id < scNext' /\ ~Cache!HasEntry(scJob[h].id)'
    BY <1>1, <2>4, <2>6, <2>7 DEF Cache!HasEntry
  <2>11. \A k \in CacheKeys : scBought'[k] > 0 => k \in Cache!Newest'.known
    BY <2>2, <2>3, <2>7, <2>8 DEF Alone, Cache!Groups
  <2>12. \A h, i \in Cache!Groups : Cache!Running(h)' /\ Cache!Running(i)' => h = i BY <2>6
  <2>13. Cache!Newest'.control = scDecided' BY <2>3, <2>7, <2>8 DEF Alone
  <2>14. ASSUME NEW h \in Cache!Groups, Cache!Running(h)'
         PROVE  scJob'[h].dir = Cache!Newest' /\ ~scJob'[h].sent
    BY <2>6, <2>8, <2>14
  <2>15. QED BY <2>9, <2>10, <2>11, <2>12, <2>13, <2>14 DEF Alone, Cache!Groups
<1>4. QED BY <1>2, <1>3 DEF CacheInv

\* A re-run costs an excuse, so nothing is claimed of it.
LEMMA RerunInv ==
  ASSUME CacheInv, NEW g \in Cache!Groups, NEW id \in 1..CacheRuns, Cache!Rerun(g, id) PROVE CacheInv'
<1> DEFINE cost == 1 + IF \E h \in Cache!Groups \ {g} : Cache!Running(h) THEN 1 ELSE 0
<1>1. Cache!Begins(g, id, cost) /\ cost \in Nat /\ cost > 0 /\ id \in Nat /\ scNext' = scNext
  BY DEF Cache!Rerun, CacheInv, Shape
<1>2. Shape' BY <1>1, BeginsShape DEF CacheInv, Shape
<1>3. scExcuses' # 0 BY <1>1 DEF Cache!Begins, CacheInv, Shape
<1>4. QED BY <1>2, <1>3 DEF CacheInv

LEMMA BuyInv == ASSUME CacheInv, NEW k \in CacheKeys, Cache!Buy(k) PROVE CacheInv'
<1> DEFINE s == scJob["sidecar"]
           j == [s EXCEPT !.dir.known = @ \cup {k}, !.sent = TRUE]
<1>1. "sidecar" \in Cache!Groups BY DEF Cache!Groups
<1>2. s \in Jobs /\ Cache!Running("sidecar") BY <1>1 DEF Cache!Buy, CacheInv, Shape
<1>3. /\ j \in Jobs /\ j.id = s.id /\ j.sent = TRUE
      /\ j.dir.known = s.dir.known \cup {k} /\ j.dir.control = s.dir.control
  BY <1>2 DEF Jobs, AllDirs
<1>4. j \in Jobs BY <1>3
<1>5. scJob' = [scJob EXCEPT !["sidecar"] = j] BY DEF Cache!Buy
<1> HIDE DEF j
<1>6. /\ scJob'["sidecar"] = j /\ \A g \in Cache!Groups \ {"sidecar"} : scJob'[g] = scJob[g]
      /\ scJob' \in [Cache!Groups -> {Cache!None} \cup Jobs]
  BY <1>1, <1>4, <1>5 DEF CacheInv, Shape
<1>7. Cache!Running("sidecar")' /\ \A g \in Cache!Groups : Cache!Running(g)' <=> Cache!Running(g)
  <2>1. j # Cache!None BY <1>4, JobIsNotNone
  <2>2. scJob'["sidecar"] # Cache!None /\ scJob["sidecar"] # Cache!None BY <1>2, <1>6, <2>1 DEF Cache!Running
  <2>3. \A g \in Cache!Groups : scJob'[g] # Cache!None <=> scJob[g] # Cache!None BY <1>6, <2>2
  <2>4. QED BY <2>2, <2>3 DEF Cache!Running
<1>8. /\ UNCHANGED <<scEntries, scNext, scDecisions, scDecided, scExcuses>>
      /\ scBought' = [scBought EXCEPT ![k] = @ + 1]
  BY DEF Cache!Buy
<1>9. Shape'
  <2>1. \A g \in Cache!Groups : Cache!Running(g)' => scJob'[g] \in Jobs BY <1>4, <1>6 DEF Cache!Running
  <2>2. scBought' \in [CacheKeys -> Nat] BY <1>8 DEF CacheInv, Shape
  <2>3. QED BY <1>6, <1>8, <2>1, <2>2 DEF CacheInv, Shape, Cache!Running
<1>10. ASSUME scExcuses' = 0 PROVE Alone'
  <2>1. Alone BY <1>8, <1>10 DEF CacheInv
  <2>2. Cache!Newest' = Cache!Newest /\ \A id : Cache!HasEntry(id)' <=> Cache!HasEntry(id)
    BY <1>8 DEF Cache!Newest, Cache!HasEntry
  <2>3. \A g \in Cache!Groups : scJob'[g].id = scJob[g].id BY <1>3, <1>6
  <2>4. \A g \in Cache!Groups : Cache!Running(g)' => scJob'[g].id < scNext' /\ ~(Cache!HasEntry(scJob[g].id)')
    <3>1. SUFFICES ASSUME NEW g \in Cache!Groups, Cache!Running(g)'
                   PROVE  scJob'[g].id < scNext' /\ ~(Cache!HasEntry(scJob[g].id)')
      OBVIOUS
    <3>2. scJob[g].id < scNext /\ ~Cache!HasEntry(scJob[g].id) BY <1>7, <2>1, <3>1 DEF Alone
    <3>3. QED BY <1>8, <2>3, <3>2 DEF Cache!HasEntry
  <2>5. \A x \in CacheKeys : scBought'[x] > 0 =>
           x \in Cache!Newest'.known \/ (Cache!Running("sidecar")' /\ x \in scJob'["sidecar"].dir.known)
    <3>1. SUFFICES ASSUME NEW x \in CacheKeys, scBought'[x] > 0, x # k
                   PROVE  x \in Cache!Newest'.known \/ x \in scJob'["sidecar"].dir.known
      BY <1>3, <1>6, <1>7
    <3>2. scBought[x] > 0 BY <1>8, <3>1 DEF CacheInv, Shape
    <3>3. QED BY <1>3, <1>6, <2>1, <2>2, <3>2 DEF Alone
  <2>6. j.dir.control = scDecided /\ Cache!Newest.known \subseteq j.dir.known /\ j.sent
    BY <1>2, <1>3, <2>1 DEF Alone
  <2>7. scJob'["guard"] = scJob["guard"] BY <1>6 DEF Cache!Groups
  <2>8. \A g, h \in Cache!Groups : Cache!Running(g)' /\ Cache!Running(h)' => g = h BY <1>7, <2>1 DEF Alone
  <2>9. \A n \in DOMAIN scEntries' : scEntries'[n].id < scNext' BY <1>8, <2>1 DEF Alone
  <2>10. Cache!Newest'.control = scDecided' BY <1>8, <2>1, <2>2 DEF Alone
  <2>11. (Cache!Running("guard")' => Cache!Newest'.known \subseteq scJob'["guard"].dir.known)
         /\ (Cache!Running("guard")' /\ ~scJob'["guard"].sent => scJob'["guard"].dir.control = scDecided')
    BY <1>7, <1>8, <2>1, <2>2, <2>7 DEF Alone, Cache!Groups
  <2>12. QED BY <1>6, <1>8, <2>2, <2>4, <2>5, <2>6, <2>8, <2>9, <2>10, <2>11 DEF Alone
<1>11. QED BY <1>9, <1>10 DEF CacheInv

LEMMA GuardInv == ASSUME CacheInv, Cache!Guard PROVE CacheInv'
<1> DEFINE s == scJob["guard"]
           j == [s EXCEPT !.dir.control = scDecisions + 1, !.sent = TRUE]
<1>1. "guard" \in Cache!Groups BY DEF Cache!Groups
<1>2. s \in Jobs /\ Cache!Running("guard") BY <1>1 DEF Cache!Guard, CacheInv, Shape
<1>3. /\ j \in Jobs /\ j.id = s.id /\ j.sent = TRUE /\ j.dir.known = s.dir.known
  <2>1. scDecisions + 1 \in Nat BY DEF CacheInv, Shape
  <2>2. QED BY <1>2, <2>1 DEF Jobs, AllDirs
<1>4. j \in Jobs BY <1>3
<1>5. scJob' = [scJob EXCEPT !["guard"] = j] BY DEF Cache!Guard
<1> HIDE DEF j
<1>6. /\ scJob'["guard"] = j /\ \A g \in Cache!Groups \ {"guard"} : scJob'[g] = scJob[g]
      /\ scJob' \in [Cache!Groups -> {Cache!None} \cup Jobs]
  BY <1>1, <1>4, <1>5 DEF CacheInv, Shape
<1>7. \A g \in Cache!Groups : Cache!Running(g)' <=> Cache!Running(g)
  <2>1. j # Cache!None BY <1>4, JobIsNotNone
  <2>2. scJob'["guard"] # Cache!None /\ scJob["guard"] # Cache!None BY <1>2, <1>6, <2>1 DEF Cache!Running
  <2>3. \A g \in Cache!Groups : scJob'[g] # Cache!None <=> scJob[g] # Cache!None BY <1>6, <2>2
  <2>4. QED BY <2>3 DEF Cache!Running
<1>8. UNCHANGED <<scEntries, scNext, scDecided, scBought, scExcuses>> /\ scDecisions' = scDecisions + 1
  BY DEF Cache!Guard
<1>9. Shape'
  <2>1. \A g \in Cache!Groups : Cache!Running(g)' => scJob'[g] \in Jobs BY <1>4, <1>6 DEF Cache!Running
  <2>2. QED BY <1>6, <1>8, <2>1 DEF CacheInv, Shape, Cache!Running
<1>10. ASSUME scExcuses' = 0 PROVE Alone'
  <2>1. Alone BY <1>8, <1>10 DEF CacheInv
  <2>2. Cache!Newest' = Cache!Newest BY <1>8 DEF Cache!Newest
  <2>3. \A g \in Cache!Groups : scJob'[g].id = scJob[g].id BY <1>3, <1>6
  <2>4. \A g \in Cache!Groups : Cache!Running(g)' => scJob'[g].id < scNext' /\ ~(Cache!HasEntry(scJob[g].id)')
    <3>1. SUFFICES ASSUME NEW g \in Cache!Groups, Cache!Running(g)'
                   PROVE  scJob'[g].id < scNext' /\ ~(Cache!HasEntry(scJob[g].id)')
      OBVIOUS
    <3>2. scJob[g].id < scNext /\ ~Cache!HasEntry(scJob[g].id) BY <1>7, <2>1, <3>1 DEF Alone
    <3>3. QED BY <1>8, <2>3, <3>2 DEF Cache!HasEntry
  <2>5. Cache!Newest.known \subseteq j.dir.known /\ j.sent BY <1>2, <1>3, <2>1 DEF Alone
  <2>6. scJob'["sidecar"] = scJob["sidecar"] /\ (Cache!Running("sidecar")' <=> Cache!Running("sidecar"))
    BY <1>6, <1>7 DEF Cache!Groups
  <2>7. \A g, h \in Cache!Groups : Cache!Running(g)' /\ Cache!Running(h)' => g = h BY <1>7, <2>1 DEF Alone
  <2>8. \A n \in DOMAIN scEntries' : scEntries'[n].id < scNext' BY <1>8, <2>1 DEF Alone
  <2>9. Cache!Newest'.control = scDecided' BY <1>8, <2>1, <2>2 DEF Alone
  <2>10. \A x \in CacheKeys : scBought'[x] > 0 =>
           x \in Cache!Newest'.known \/ (Cache!Running("sidecar")' /\ x \in scJob'["sidecar"].dir.known)
    BY <1>8, <2>1, <2>2, <2>6 DEF Alone
  <2>11. QED BY <1>6, <1>8, <2>1, <2>2, <2>4, <2>5, <2>6, <2>7, <2>8, <2>9, <2>10 DEF Alone
<1>11. QED BY <1>9, <1>10 DEF CacheInv

\* The end of a job: it is gone, and the cache has its directory at the front,
\* or has what it had.
LEMMA SaveInv == ASSUME CacheInv, NEW g \in Cache!Groups, Cache!Save(g) PROVE CacheInv'
<1> DEFINE e == [id |-> scJob[g].id, dir |-> scJob[g].dir]
<1>1. Cache!Running(g) /\ scJob[g] \in Jobs BY DEF Cache!Save, CacheInv, Shape
<1>2. e \in [id : Nat, dir : AllDirs] /\ e.id = scJob[g].id /\ e.dir = scJob[g].dir
  BY <1>1 DEF Jobs
<1>3. scEntries' = IF Cache!HasEntry(scJob[g].id) THEN scEntries ELSE Append(scEntries, e) BY DEF Cache!Save
<1> HIDE DEF e
<1>4. /\ Append(scEntries, e) \in Entries /\ Append(scEntries, e) # <<>>
      /\ DOMAIN Append(scEntries, e) = 1..(Len(scEntries) + 1)
      /\ \A n \in 1..Len(scEntries) : Append(scEntries, e)[n] = scEntries[n]
      /\ Append(scEntries, e)[Len(scEntries) + 1] = e
      /\ Cache!Last(Append(scEntries, e)) = e
  <2>1. scEntries \in Seq([id : Nat, dir : AllDirs]) BY DEF CacheInv, Shape, Entries
  <2>2. QED BY <1>2, <2>1, LastAppended DEF Entries, Cache!Last
<1>5. /\ scJob' = [scJob EXCEPT ![g] = Cache!None] /\ UNCHANGED <<scNext, scDecisions, scBought, scExcuses>>
      /\ scDecided' = IF g = "guard" /\ ~Cache!HasEntry(scJob[g].id) THEN scJob[g].dir.control ELSE scDecided
  BY DEF Cache!Save
<1>6. /\ scJob' \in [Cache!Groups -> {Cache!None} \cup Jobs] /\ scJob'[g] = Cache!None
      /\ \A h \in Cache!Groups \ {g} : scJob'[h] = scJob[h]
  BY <1>5 DEF CacheInv, Shape
<1>7. \A h \in Cache!Groups : Cache!Running(h)' => h # g /\ Cache!Running(h) /\ scJob'[h] = scJob[h]
  BY <1>6 DEF Cache!Running
<1>8. Shape'
  <2>1. scEntries' \in Entries /\ scEntries' # <<>> BY <1>3, <1>4 DEF CacheInv, Shape
  <2>2. scDecided' \in Nat BY <1>1, <1>5 DEF CacheInv, Shape, Jobs, AllDirs
  <2>3. \A h \in Cache!Groups : Cache!Running(h)' => scJob'[h] \in Jobs BY <1>7 DEF CacheInv, Shape
  <2>4. QED BY <1>5, <1>6, <2>1, <2>2, <2>3 DEF CacheInv, Shape, Cache!Running
<1>9. ASSUME scExcuses' = 0 PROVE Alone'
  <2>1. Alone BY <1>5, <1>9 DEF CacheInv
  <2>2. \A h \in Cache!Groups : ~Cache!Running(h)' BY <1>1, <1>7, <2>1 DEF Alone
  <2>3. ~Cache!HasEntry(scJob[g].id) /\ scJob[g].id < scNext BY <1>1, <2>1 DEF Alone
  <2>4. scEntries' = Append(scEntries, e) /\ Cache!Newest' = scJob[g].dir
    BY <1>2, <1>3, <1>4, <2>3 DEF Cache!Newest
  <2>5. \A n \in DOMAIN scEntries' : scEntries'[n].id < scNext'
    <3>1. \A n \in 1..Len(scEntries) : scEntries[n].id < scNext
      BY <2>1, EntryIsTyped DEF Alone, CacheInv
    <3>2. Len(scEntries) \in Nat BY EntryIsTyped, LenProperties DEF CacheInv, Shape, Entries
    <3>3. QED BY <1>2, <1>4, <1>5, <2>3, <2>4, <3>1, <3>2
  <2>6. Cache!Newest'.control = scDecided'
    BY <1>1, <1>5, <2>1, <2>3, <2>4 DEF Alone, Cache!Groups
  <2>7. \A k \in CacheKeys : scBought'[k] > 0 => k \in Cache!Newest'.known
    <3>1. SUFFICES ASSUME NEW k \in CacheKeys, scBought[k] > 0 PROVE k \in scJob[g].dir.known
      BY <1>5, <2>4
    <3>2. Cache!Newest.known \subseteq scJob[g].dir.known BY <1>1, <2>1 DEF Alone, Cache!Groups
    <3>3. Cache!Running("sidecar") => g = "sidecar" BY <1>1, <2>1 DEF Alone, Cache!Groups
    <3>4. QED BY <2>1, <3>1, <3>2, <3>3 DEF Alone
  <2>8. QED BY <2>2, <2>5, <2>6, <2>7 DEF Alone, Cache!Groups
<1>10. QED BY <1>8, <1>9 DEF CacheInv

LEMMA SaveFailsInv == ASSUME CacheInv, NEW g \in Cache!Groups, Cache!SaveFails(g) PROVE CacheInv'
<1>1. /\ scJob' = [scJob EXCEPT ![g] = Cache!None] /\ scExcuses' = scExcuses + 1
      /\ UNCHANGED <<scEntries, scNext, scDecisions, scDecided, scBought>>
  BY DEF Cache!SaveFails
<1>2. scJob' \in [Cache!Groups -> {Cache!None} \cup Jobs] BY <1>1 DEF CacheInv, Shape
<1>3. \A h \in Cache!Groups : Cache!Running(h)' => scJob'[h] \in Jobs BY <1>2 DEF Cache!Running
<1>4. Shape' BY <1>1, <1>2, <1>3 DEF CacheInv, Shape, Cache!Running
<1>5. scExcuses' # 0 BY <1>1 DEF CacheInv, Shape
<1>6. QED BY <1>4, <1>5 DEF CacheInv

\* What the invariant speaks of stays as it was.
LEMMA UnchangedInv ==
  ASSUME CacheInv, UNCHANGED <<scEntries, scJob, scNext, scDecisions, scDecided, scBought, scExcuses>>
  PROVE  CacheInv'
<1>1. Shape' BY DEF CacheInv, Shape, Cache!Running
<1>2. Cache!Newest' = Cache!Newest /\ (\A id : Cache!HasEntry(id)' <=> Cache!HasEntry(id)) BY DEF Cache!Newest, Cache!HasEntry
<1>3. ASSUME Alone PROVE Alone' BY <1>2, <1>3 DEF Alone, Cache!Running, Cache!HasEntry
<1>4. QED BY <1>1, <1>3 DEF CacheInv

\* The inductive invariant holds of every behaviour: jobs and their copies are
\* what they should be, and while nothing has gone wrong one job at a time
\* works on the newest directory (dry-run.yml:199, 436).
THEOREM CacheInvariant == Cache!Spec => []CacheInv
<1>1. Cache!Init => CacheInv BY InitCacheInv
<1>2. CacheInv /\ [Cache!Next]_(Cache!vars) => CacheInv'
  <2>1. SUFFICES ASSUME CacheInv, [Cache!Next]_(Cache!vars) PROVE CacheInv' OBVIOUS
  <2>2. CASE \E g \in Cache!Groups : Cache!Begin(g) BY <2>1, <2>2, BeginInv
  <2>3. CASE \E g \in Cache!Groups : Cache!Save(g) BY <2>1, <2>3, SaveInv
  <2>4. CASE \E g \in Cache!Groups : Cache!SaveFails(g) BY <2>1, <2>4, SaveFailsInv
  <2>5. CASE \E g \in Cache!Groups, id \in 1..CacheRuns : Cache!Rerun(g, id) BY <2>1, <2>5, RerunInv
  <2>6. CASE \E k \in CacheKeys : Cache!Buy(k) BY <2>1, <2>6, BuyInv
  <2>7. CASE \E k \in CacheKeys : Cache!OrderEnds(k) BY <2>1, <2>7, UnchangedInv DEF Cache!OrderEnds
  <2>8. CASE Cache!Guard BY <2>1, <2>8, GuardInv
  <2>9. CASE UNCHANGED Cache!vars BY <2>1, <2>9, UnchangedInv DEF Cache!vars
  <2>10. QED BY <2>1, <2>2, <2>3, <2>4, <2>5, <2>6, <2>7, <2>8, <2>9 DEF Cache!Next
<1>3. QED BY <1>1, <1>2, PTL DEF Cache!Spec

\* However many keys and jobs there are, as long as jobs neither overlap nor
\* are re-run nor fail to save, the newest entry knows every key that was
\* bought and carries the guard's last saved decision (dry-run.yml:2335,
\* market-guard.yml:254).
THEOREM NothingLost == Cache!Spec => []Cache!NothingIsLostAlone
<1>1. CacheInv => Cache!NothingIsLostAlone
  BY DEF CacheInv, Alone, Cache!NothingIsLostAlone
<1>2. QED BY <1>1, CacheInvariant, PTL

\* What a directory of the cache would have to pay for: the orders beyond a key's first,
\* and the keys it has forgotten, each of which lets one more through.
Extras(orders) == UNION {{k} \X (2..orders[k]) : k \in CacheKeys}
Forgotten(orders, known) == {k \in CacheKeys : orders[k] > 0 /\ k \notin known}
Debt(orders, known) == Cardinality(Extras(orders)) + Cardinality(Forgotten(orders, known))
Counts == [CacheKeys -> Nat]

LEMMA CacheCounts == ASSUME NEW S PROVE Cache!Cardinality(S) = Cardinality(S)
  BY Zenon DEF Cache!Cardinality, Cardinality

LEMMA OneMore ==
  ASSUME NEW S, IsFiniteSet(S), NEW x
  PROVE  /\ IsFiniteSet(S \cup {x}) /\ Cardinality(S) \in Nat /\ Cardinality(S \cup {x}) \in Nat
         /\ Cardinality(S \cup {x}) <= Cardinality(S) + 1
<1>1. IsFiniteSet(S \cup {x}) /\ Cardinality(S \cup {x}) = IF x \in S THEN Cardinality(S) ELSE Cardinality(S) + 1
  BY FS_AddElement
<1>2. Cardinality(S) \in Nat /\ Cardinality(S \cup {x}) \in Nat
  BY <1>1, FS_CardinalityType
<1>q. QED BY <1>1, <1>2

LEMMA DebtIsNat ==
  ASSUME NEW orders \in Counts, IsFiniteSet(Extras(orders)), NEW known
  PROVE  /\ Debt(orders, known) \in Nat /\ Cardinality(Extras(orders)) \in Nat
         /\ Cardinality(Extras(orders)) <= Debt(orders, known)
         /\ IsFiniteSet(Forgotten(orders, known)) /\ Cardinality(Forgotten(orders, known)) \in Nat
<1>1. Forgotten(orders, known) \subseteq CacheKeys
  BY DEF Forgotten
<1>2. IsFiniteSet(Forgotten(orders, known))
  BY <1>1, FS_Subset, CarriedAssumption
<1>3. Cardinality(Forgotten(orders, known)) \in Nat /\ Cardinality(Extras(orders)) \in Nat
  BY <1>2, FS_CardinalityType
<1>q. QED BY <1>2, <1>3 DEF Debt

\* An order is an extra one of its key, or it is the first.
LEMMA ExtrasGrow ==
  ASSUME NEW orders \in Counts, NEW k \in CacheKeys, NEW more,
         more = [orders EXCEPT ![k] = @ + 1]
  PROVE  /\ orders[k] = 0 => Extras(more) = Extras(orders)
         /\ orders[k] > 0 => Extras(more) = Extras(orders) \cup {<<k, orders[k] + 1>>}
<1>1. more \in Counts /\ more[k] = orders[k] + 1 /\ \A h \in CacheKeys \ {k} : more[h] = orders[h]
  BY DEF Counts
<1>2. orders[k] \in Nat /\ \A h \in CacheKeys : orders[h] \in Nat /\ more[h] \in Nat
  BY <1>1 DEF Counts
<1>3. ASSUME NEW b \in Counts, NEW x
      PROVE  x \in Extras(b) <=> \E h \in CacheKeys : \E n \in 2..b[h] : x = <<h, n>>
  BY DEF Extras
<1>4. ASSUME orders[k] = 0 PROVE Extras(more) = Extras(orders)
  <2>1. ASSUME NEW h \in CacheKeys PROVE 2..more[h] = 2..orders[h]
    <3>1. CASE h = k
      BY <1>1, <1>4, <3>1
    <3>2. CASE h # k
      BY <1>1, <3>2
    <3>q. QED BY <3>1, <3>2
  <2>q. QED BY <2>1 DEF Extras
<1>5. ASSUME orders[k] > 0 PROVE Extras(more) = Extras(orders) \cup {<<k, orders[k] + 1>>}
  <2>1. ASSUME NEW h \in CacheKeys, NEW n \in 2..more[h]
        PROVE  <<h, n>> \in Extras(orders) \cup {<<k, orders[k] + 1>>}
    <3>1. CASE n \in 2..orders[h]
      BY <1>3, <3>1
    <3>2. CASE n \notin 2..orders[h]
      <4>1. h = k
        BY <1>1, <3>2
      <4>2. n = orders[k] + 1
        BY <1>1, <1>2, <3>2, <4>1
      <4>q. QED BY <4>1, <4>2
    <3>q. QED BY <3>1, <3>2
  <2>2. ASSUME NEW h \in CacheKeys, NEW n \in 2..orders[h] PROVE <<h, n>> \in Extras(more)
    <3>1. n \in 2..more[h]
      <4>1. CASE h = k
        BY <1>1, <1>2, <4>1
      <4>2. CASE h # k
        BY <1>1, <4>2
      <4>q. QED BY <4>1, <4>2
    <3>q. QED BY <1>1, <1>3, <3>1
  <2>3. <<k, orders[k] + 1>> \in Extras(more)
    <3>1. orders[k] + 1 \in 2..more[k]
      BY <1>1, <1>2, <1>5
    <3>q. QED BY <1>1, <1>3, <3>1
  <2>4. ASSUME NEW x \in Extras(more) PROVE x \in Extras(orders) \cup {<<k, orders[k] + 1>>}
    <3>1. PICK h \in CacheKeys : \E n \in 2..more[h] : x = <<h, n>>
      <4>1. more \in Counts
        BY <1>1
      <4>2. x \in Extras(more) <=> \E h \in CacheKeys : \E n \in 2..more[h] : x = <<h, n>>
        BY ONLY <1>3, <4>1, Zenon
      <4>q. QED BY ONLY <4>2, x \in Extras(more)
    <3>q. QED BY <2>1, <3>1
  <2>5. ASSUME NEW x \in Extras(orders) PROVE x \in Extras(more)
    <3>1. PICK h \in CacheKeys : \E n \in 2..orders[h] : x = <<h, n>>
      BY <1>3
    <3>q. QED BY <2>2, <3>1
  <2>q. QED BY <2>3, <2>4, <2>5
<1>q. QED BY <1>4, <1>5

\* An order costs what was known before at most one more, and costs nothing a copy
\* that forgot its key and knows it now.
LEMMA OrderCosts ==
  ASSUME NEW orders \in Counts, IsFiniteSet(Extras(orders)), NEW k \in CacheKeys, NEW more,
         more = [orders EXCEPT ![k] = @ + 1]
  PROVE  /\ more \in Counts /\ IsFiniteSet(Extras(more))
         /\ \A known : Debt(more, known) <= Debt(orders, known) + 1
         /\ \A known : k \notin known => Debt(more, known \cup {k}) <= Debt(orders, known)
<1>1. more \in Counts /\ more[k] = orders[k] + 1 /\ \A h \in CacheKeys \ {k} : more[h] = orders[h]
  BY DEF Counts
<1>2. orders[k] \in Nat
  BY DEF Counts
<1>3. ASSUME NEW known
      PROVE  /\ Forgotten(more, known) \subseteq Forgotten(orders, known) \cup {k}
             /\ orders[k] > 0 => Forgotten(more, known) = Forgotten(orders, known)
             /\ Forgotten(more, known \cup {k}) = Forgotten(orders, known) \ {k}
  BY <1>1, <1>2 DEF Forgotten
<1>4. CASE orders[k] = 0
  <2>1. Extras(more) = Extras(orders)
    BY <1>4, ExtrasGrow
  <2>2. ASSUME NEW known PROVE Debt(more, known) <= Debt(orders, known) + 1
    <3>1. /\ IsFiniteSet(Forgotten(orders, known)) /\ Cardinality(Forgotten(orders, known)) \in Nat
          /\ Cardinality(Extras(orders)) \in Nat
      BY DebtIsNat
    <3>2. /\ IsFiniteSet(Forgotten(orders, known) \cup {k})
          /\ Cardinality(Forgotten(orders, known) \cup {k}) <= Cardinality(Forgotten(orders, known)) + 1
          /\ Cardinality(Forgotten(orders, known) \cup {k}) \in Nat
      BY <3>1, OneMore
    <3>3. /\ Cardinality(Forgotten(more, known)) <= Cardinality(Forgotten(orders, known) \cup {k})
          /\ Cardinality(Forgotten(more, known)) \in Nat
      BY <1>3, <3>2, FS_Subset, FS_CardinalityType
    <3>q. QED BY <2>1, <3>1, <3>2, <3>3 DEF Debt
  <2>3. ASSUME NEW known, k \notin known PROVE Debt(more, known \cup {k}) <= Debt(orders, known)
    <3>1. /\ IsFiniteSet(Forgotten(orders, known)) /\ Cardinality(Forgotten(orders, known)) \in Nat
          /\ Cardinality(Extras(orders)) \in Nat
      BY DebtIsNat
    <3>2. k \notin Forgotten(orders, known)
      BY <1>4 DEF Forgotten
    <3>3. Forgotten(more, known \cup {k}) = Forgotten(orders, known) \ {k}
      BY <1>3
    <3>4. Forgotten(orders, known) \ {k} = Forgotten(orders, known)
      BY <3>2
    <3>5. Debt(more, known \cup {k}) = Cardinality(Extras(orders)) + Cardinality(Forgotten(orders, known))
      BY <2>1, <3>3, <3>4, Zenon DEF Debt
    <3>q. QED BY <3>1, <3>5 DEF Debt
  <2>4. IsFiniteSet(Extras(more))
    BY <2>1
  <2>q. QED BY <1>1, <2>2, <2>3, <2>4, Zenon
<1>5. CASE orders[k] > 0
  <2>1. Extras(more) = Extras(orders) \cup {<<k, orders[k] + 1>>}
    BY <1>5, ExtrasGrow
  <2>2. /\ IsFiniteSet(Extras(more)) /\ Cardinality(Extras(more)) <= Cardinality(Extras(orders)) + 1
        /\ Cardinality(Extras(more)) \in Nat /\ Cardinality(Extras(orders)) \in Nat
    BY <2>1, OneMore
  <2>3. ASSUME NEW known PROVE Debt(more, known) <= Debt(orders, known) + 1
    <3>1. Cardinality(Forgotten(orders, known)) \in Nat /\ Forgotten(more, known) = Forgotten(orders, known)
      BY <1>3, <1>5, DebtIsNat
    <3>q. QED BY <2>2, <3>1 DEF Debt
  <2>4. ASSUME NEW known, k \notin known PROVE Debt(more, known \cup {k}) <= Debt(orders, known)
    <3>1. IsFiniteSet(Forgotten(orders, known)) /\ Cardinality(Forgotten(orders, known)) \in Nat
      BY DebtIsNat
    <3>2. k \in Forgotten(orders, known)
      BY <1>5, <2>4 DEF Forgotten
    <3>3. Cardinality(Forgotten(orders, known) \ {k}) = Cardinality(Forgotten(orders, known)) - 1
      BY <3>1, <3>2, FS_RemoveElement
    <3>4. Forgotten(more, known \cup {k}) = Forgotten(orders, known) \ {k}
      BY <1>3
    <3>5. Debt(more, known \cup {k}) = Cardinality(Extras(more)) + (Cardinality(Forgotten(orders, known)) - 1)
      BY <3>3, <3>4, Zenon DEF Debt
    <3>q. QED BY <2>2, <3>1, <3>5 DEF Debt
  <2>q. QED BY <1>1, <2>2, <2>3, <2>4, Zenon
<1>6. orders[k] = 0 \/ orders[k] > 0
  BY <1>2
<1>q. QED BY <1>4, <1>5, <1>6, Zenon

Orders == {"none", "open", "held", "flat", "canceled"}

\* Run ids and decisions are not ahead of their counters, and two jobs differ.
TypedInv ==
  /\ scNext \in 1..(CacheRuns + 1) /\ scDecided <= scDecisions /\ scExcuses <= MaxExcuses
  /\ scLast \in [CacheKeys -> Orders]
  /\ \A n \in DOMAIN scEntries : scEntries[n].dir.control <= scDecisions /\ scEntries[n].id < scNext
  /\ \A g \in Cache!Groups : Cache!Running(g) =>
       scJob[g].dir.control <= scDecisions /\ scJob[g].id \in 1..(scNext - 1)
  /\ Cache!Running("sidecar") /\ Cache!Running("guard") => scJob["sidecar"].id # scJob["guard"].id

Spent == IF scJob["sidecar"].sent = TRUE THEN 1 ELSE 0

\* Every directory that may become the newest entry is paid for. A sidecar that has an
\* order to send, beside a guard that may put an older directory in front of it, still
\* has the excuse of their overlap; a re-run whose entry is there will not save, and has
\* its own.
PaidInv ==
  /\ IsFiniteSet(Extras(scBought))
  /\ ~Cache!Running("sidecar") => Debt(scBought, Cache!Newest.known) <= scExcuses
  /\ Cache!Running("sidecar") /\ ~Cache!HasEntry(scJob["sidecar"].id) =>
       /\ Debt(scBought, scJob["sidecar"].dir.known) <= scExcuses
       /\ Debt(scBought, Cache!Newest.known) <= scExcuses + Spent
  /\ Cache!Running("sidecar") /\ Cache!HasEntry(scJob["sidecar"].id) =>
       Debt(scBought, Cache!Newest.known) + 1 <= scExcuses + Spent
  /\ Cache!Running("guard") /\ ~Cache!HasEntry(scJob["guard"].id) =>
       Debt(scBought, scJob["guard"].dir.known) + (IF Cache!Running("sidecar") THEN 1 - Spent ELSE 0)
         <= scExcuses

StoreInv == CacheInv /\ TypedInv /\ PaidInv

LEMMA InitStore == Cache!Init => StoreInv
<1> SUFFICES ASSUME Cache!Init PROVE StoreInv
  OBVIOUS
<1>1. CacheInv
  BY InitCacheInv
<1>2. /\ scEntries = <<[id |-> 0, dir |-> [known |-> {}, control |-> 0]]>>
      /\ scJob = [g \in Cache!Groups |-> Cache!None]
      /\ scNext = 1 /\ scDecisions = 0 /\ scDecided = 0 /\ scExcuses = 0
      /\ scBought = [k \in CacheKeys |-> 0] /\ scLast = [k \in CacheKeys |-> "none"]
  BY DEF Cache!Init
<1>3. \A g \in Cache!Groups : ~Cache!Running(g)
  BY <1>2 DEF Cache!Running
<1>4. ~Cache!Running("sidecar") /\ ~Cache!Running("guard")
  BY <1>3 DEF Cache!Groups
<1>5. TypedInv
  <2>1. DOMAIN scEntries = {1} /\ scEntries[1].dir.control = 0 /\ scEntries[1].id = 0
    BY <1>2
  <2>q. QED BY <1>2, <1>3, <1>4, <2>1, CarriedAssumption DEF TypedInv, Orders
<1>6. Extras(scBought) = {} /\ \A known : Forgotten(scBought, known) = {}
  BY <1>2 DEF Extras, Forgotten
<1>7. IsFiniteSet(Extras(scBought)) /\ \A known : Debt(scBought, known) = 0
  <2>1. IsFiniteSet({}) /\ Cardinality({}) = 0
    BY FS_EmptySet
  <2>2. ASSUME NEW known PROVE Debt(scBought, known) = 0
    <3>1. Debt(scBought, known) = Cardinality({}) + Cardinality({})
      BY <1>6, Zenon DEF Debt
    <3>q. QED BY <2>1, <3>1
  <2>q. QED BY <1>6, <2>1, <2>2
<1>8. PaidInv
  BY <1>2, <1>4, <1>7 DEF PaidInv
<1>q. QED BY <1>1, <1>5, <1>8 DEF StoreInv

\* A job that begins works on a copy of the newest entry, or of its own.
LEMMA BeginsFacts ==
  ASSUME StoreInv, NEW g \in Cache!Groups, NEW id \in Nat, NEW cost \in Nat, Cache!Begins(g, id, cost)
  PROVE  /\ ~Cache!Running(g) /\ Cache!Running(g)'
         /\ scJob'[g].id = id /\ scJob'[g].sent = FALSE /\ scJob'[g].dir = Cache!Restored(id)
         /\ \A h \in Cache!Groups \ {g} : scJob'[h] = scJob[h] /\ (Cache!Running(h)' <=> Cache!Running(h))
         /\ UNCHANGED <<scEntries, scDecisions, scDecided, scBought, scLast>>
         /\ scExcuses' = scExcuses + cost /\ scExcuses' <= MaxExcuses
         /\ Cache!Newest' = Cache!Newest /\ \A i : Cache!HasEntry(i)' <=> Cache!HasEntry(i)
<1> DEFINE j == [id |-> id, dir |-> Cache!Restored(id), sent |-> FALSE]
<1>1. Shape
  BY DEF StoreInv, CacheInv
<1>2. j \in Jobs
  BY <1>1, RestoredIsADir DEF Jobs
<1>3. scJob' = [scJob EXCEPT ![g] = j]
  BY DEF Cache!Begins
<1>4. j.id = id /\ j.sent = FALSE /\ j.dir = Cache!Restored(id)
  OBVIOUS
<1>5. PICK job : job = j
  OBVIOUS
<1> HIDE DEF j
<1>6. /\ ~Cache!Running(g)
      /\ UNCHANGED <<scEntries, scDecisions, scDecided, scBought, scLast>>
      /\ scExcuses' = scExcuses + cost /\ scExcuses' <= MaxExcuses
  BY DEF Cache!Begins, Cache!Starts
<1>7. scJob'[g] = j /\ \A h \in Cache!Groups \ {g} : scJob'[h] = scJob[h]
  BY <1>1, <1>3 DEF Shape
<1>8. Cache!Running(g)' /\ \A h \in Cache!Groups \ {g} : Cache!Running(h)' <=> Cache!Running(h)
  BY <1>2, <1>7, JobIsNotNone DEF Cache!Running
<1>9. Cache!Newest' = Cache!Newest /\ \A i : Cache!HasEntry(i)' <=> Cache!HasEntry(i)
  BY <1>6 DEF Cache!Newest, Cache!HasEntry
<1>q. QED BY <1>4, <1>6, <1>7, <1>8, <1>9

\* A start keeps what is typed, when its id is no other job's.
LEMMA BeginsTyped ==
  ASSUME StoreInv, NEW g \in Cache!Groups, NEW id \in Nat, NEW cost \in Nat, Cache!Begins(g, id, cost),
         scNext' \in scNext..(CacheRuns + 1), id \in 1..(scNext' - 1),
         \A h \in Cache!Groups \ {g} : Cache!Running(h) => scJob[h].id # id
  PROVE  TypedInv'
<1>1. Shape /\ TypedInv
  BY DEF StoreInv, CacheInv
<1>2. /\ Cache!Running(g)' /\ scJob'[g].id = id /\ scJob'[g].dir = Cache!Restored(id)
      /\ \A h \in Cache!Groups \ {g} : scJob'[h] = scJob[h] /\ (Cache!Running(h)' <=> Cache!Running(h))
      /\ UNCHANGED <<scEntries, scDecisions, scDecided, scLast>> /\ scExcuses' <= MaxExcuses
  BY BeginsFacts
<1>3. scNext \in Nat /\ scNext' \in Nat /\ scNext <= scNext' /\ scNext' \in 1..(CacheRuns + 1) /\ scDecisions \in Nat
  BY <1>1, CarriedAssumption DEF TypedInv, Shape
<1>4. Cache!Restored(id).control <= scDecisions
  <2>1. CASE Cache!HasEntry(id)
    <3>1. PICK n \in DOMAIN scEntries : Cache!Restored(id) = scEntries[n].dir
      BY <2>1 DEF Cache!HasEntry, Cache!Restored
    <3>q. QED BY <1>1, <3>1 DEF TypedInv
  <2>2. CASE ~Cache!HasEntry(id)
    <3>1. Cache!Restored(id) = scEntries[Len(scEntries)].dir
      BY <2>2 DEF Cache!Restored, Cache!Newest, Cache!Last
    <3>q. QED BY <1>1, <3>1, EntryIsTyped DEF TypedInv
  <2>q. QED BY <2>1, <2>2
<1>5. \A n \in DOMAIN scEntries : scEntries[n].dir.control <= scDecisions /\ scEntries[n].id < scNext'
  <2> SUFFICES ASSUME NEW n \in DOMAIN scEntries PROVE scEntries[n].dir.control <= scDecisions /\ scEntries[n].id < scNext'
    OBVIOUS
  <2>1. scEntries[n].id \in Nat /\ scEntries[n].id < scNext /\ scEntries[n].dir.control <= scDecisions
    BY <1>1, EntryIsTyped DEF TypedInv
  <2>q. QED BY <1>3, <2>1
<1>6. ASSUME NEW h \in Cache!Groups, Cache!Running(h)'
      PROVE  scJob'[h].dir.control <= scDecisions /\ scJob'[h].id \in 1..(scNext' - 1)
  <2>1. CASE h = g
    BY <1>2, <1>4, <2>1
  <2>2. CASE h # g
    <3>1. scJob[h].dir.control <= scDecisions /\ scJob[h].id \in 1..(scNext - 1) /\ scJob'[h] = scJob[h]
      BY <1>1, <1>2, <1>6, <2>2 DEF TypedInv
    <3>q. QED BY <1>3, <3>1
  <2>q. QED BY <2>1, <2>2
<1>7. Cache!Running("sidecar")' /\ Cache!Running("guard")' => scJob'["sidecar"].id # scJob'["guard"].id
  BY <1>2 DEF Cache!Groups
<1>q. QED BY <1>1, <1>2, <1>3, <1>5, <1>6, <1>7 DEF TypedInv, Cache!Running

\* What is owed is a number, whatever directory is asked.
LEMMA Owed ==
  ASSUME StoreInv PROVE \A known : Debt(scBought, known) \in Nat
<1>1. scBought \in Counts /\ IsFiniteSet(Extras(scBought))
  BY DEF StoreInv, CacheInv, Shape, Counts, PaidInv
<1>q. QED BY <1>1, DebtIsNat

LEMMA SpentIsOne == Spent \in {0, 1}
  BY DEF Spent

\* A start keeps what is paid for: an overlap and a re-run each cost an excuse.
LEMMA BeginsPaid ==
  ASSUME StoreInv, NEW g \in Cache!Groups, NEW id \in Nat, NEW cost \in Nat, Cache!Begins(g, id, cost),
         \A h \in Cache!Groups \ {g} : Cache!Running(h) => cost >= 1,
         Cache!HasEntry(id) => cost >= 1
  PROVE  PaidInv'
<1>1. /\ ~Cache!Running(g) /\ Cache!Running(g)'
      /\ scJob'[g].id = id /\ scJob'[g].sent = FALSE /\ scJob'[g].dir = Cache!Restored(id)
      /\ \A h \in Cache!Groups \ {g} : scJob'[h] = scJob[h] /\ (Cache!Running(h)' <=> Cache!Running(h))
      /\ scBought' = scBought /\ scExcuses' = scExcuses + cost
      /\ Cache!Newest' = Cache!Newest /\ \A i : Cache!HasEntry(i)' <=> Cache!HasEntry(i)
  BY BeginsFacts
<1>2. scExcuses \in Nat /\ PaidInv /\ IsFiniteSet(Extras(scBought))
  BY DEF StoreInv, CacheInv, Shape, PaidInv
<1>3. PICK newest \in Nat : newest = Debt(scBought, Cache!Newest.known)
  BY Owed
<1>4. ~Cache!HasEntry(id) => Debt(scBought, scJob'[g].dir.known) = newest
  BY <1>1, <1>3 DEF Cache!Restored
<1>5. CASE g = "sidecar"
  <2>1. "guard" \in Cache!Groups \ {g} /\ scJob'["guard"] = scJob["guard"]
    BY <1>1, <1>5 DEF Cache!Groups
  <2>2. newest <= scExcuses /\ Spent' = 0
    BY <1>1, <1>2, <1>3, <1>5 DEF PaidInv, Spent
  <2>3. PICK others \in Nat : others = Debt(scBought, scJob["guard"].dir.known)
    BY Owed
  <2>4. Cache!Running("guard") /\ ~Cache!HasEntry(scJob["guard"].id) => others <= scExcuses
    BY <1>1, <1>2, <1>5, <2>3 DEF PaidInv
  <2>5. Cache!Running("guard") => cost >= 1
    BY <2>1
  <2>6. Cache!Running("guard")' <=> Cache!Running("guard")
    BY <1>1, <2>1
  <2>7. Cache!HasEntry(scJob["sidecar"].id)' <=> Cache!HasEntry(id)
    BY <1>1, <1>5 DEF Cache!HasEntry
  <2>8. Cache!HasEntry(scJob["guard"].id)' <=> Cache!HasEntry(scJob["guard"].id)
    BY <1>1, <2>1 DEF Cache!HasEntry
  <2>9. Cache!Running("guard")' /\ ~Cache!HasEntry(scJob["guard"].id)' => others + 1 <= scExcuses'
    BY <1>1, <1>2, <2>3, <2>4, <2>5, <2>6, <2>8
  <2>10. ~Cache!HasEntry(id) => newest <= scExcuses'
    BY <1>1, <1>2, <1>3, <2>2
  <2>11. Cache!HasEntry(id) => newest + 1 <= scExcuses'
    BY <1>1, <1>2, <1>3, <2>2
  <2>q. QED BY <1>1, <1>2, <1>3, <1>4, <1>5, <2>1, <2>2, <2>3, <2>7, <2>9, <2>10, <2>11 DEF PaidInv
<1>6. CASE g = "guard"
  <2>1. "sidecar" \in Cache!Groups \ {g} /\ scJob'["sidecar"] = scJob["sidecar"] /\ Spent' = Spent
    BY <1>1, <1>6 DEF Cache!Groups, Spent
  <2>2. PICK spent \in {0, 1} : spent = Spent
    BY SpentIsOne
  <2>3. PICK own \in Nat : own = Debt(scBought, scJob["sidecar"].dir.known)
    BY Owed
  <2>4. Cache!Running("sidecar") => cost >= 1 /\ newest <= scExcuses + spent
    BY <1>2, <1>3, <2>1, <2>2 DEF PaidInv
  <2>5. ~Cache!Running("sidecar") => newest <= scExcuses
    BY <1>2, <1>3 DEF PaidInv
  <2>6. Cache!Running("sidecar")' <=> Cache!Running("sidecar")
    BY <1>1, <2>1
  <2>7. Cache!HasEntry(scJob["sidecar"].id)' <=> Cache!HasEntry(scJob["sidecar"].id)
    BY <1>1, <2>1 DEF Cache!HasEntry
  <2>8. Cache!HasEntry(scJob["guard"].id)' <=> Cache!HasEntry(id)
    BY <1>1, <1>6 DEF Cache!HasEntry
  <2>9. Cache!Running("sidecar") => newest + (1 - spent) <= scExcuses'
    BY <1>1, <1>2, <1>3, <2>2, <2>4
  <2>10. ~Cache!Running("sidecar") => newest <= scExcuses'
    BY <1>1, <1>2, <1>3, <2>5
  <2>11. Cache!Running("sidecar") /\ ~Cache!HasEntry(scJob["sidecar"].id) =>
           own <= scExcuses' /\ newest <= scExcuses' + spent
    <3>1. Cache!Running("sidecar") /\ ~Cache!HasEntry(scJob["sidecar"].id) => own <= scExcuses
      BY <1>2, <2>3 DEF PaidInv
    <3>q. QED BY <1>1, <1>2, <1>3, <2>2, <2>3, <2>4, <3>1
  <2>12. Cache!Running("sidecar") /\ Cache!HasEntry(scJob["sidecar"].id) => newest + 1 <= scExcuses' + spent
    <3>1. Cache!Running("sidecar") /\ Cache!HasEntry(scJob["sidecar"].id) => newest + 1 <= scExcuses + spent
      BY <1>2, <1>3, <2>2 DEF PaidInv
    <3>q. QED BY <1>1, <1>2, <1>3, <2>2, <3>1
  <2>q. QED BY <1>1, <1>2, <1>3, <1>4, <1>6, <2>1, <2>2, <2>3, <2>6, <2>7, <2>8, <2>9, <2>10, <2>11, <2>12 DEF PaidInv
<1>q. QED BY <1>5, <1>6 DEF Cache!Groups

LEMMA BeginStore == ASSUME StoreInv, NEW g \in Cache!Groups, Cache!Begin(g) PROVE StoreInv'
<1>1. PICK cost \in {0, 1} :
        /\ Cache!Begins(g, scNext, cost)
        /\ \A h \in Cache!Groups \ {g} : Cache!Running(h) => cost >= 1
  <2>1. PICK cost : cost = IF \E h \in Cache!Groups \ {g} : Cache!Running(h) THEN 1 ELSE 0
    OBVIOUS
  <2>2. Cache!Begins(g, scNext, cost)
    BY <2>1 DEF Cache!Begin
  <2>3. cost \in {0, 1} /\ \A h \in Cache!Groups \ {g} : Cache!Running(h) => cost = 1
    BY <2>1
  <2>q. QED BY <2>2, <2>3
<1>2. scNext <= CacheRuns /\ scNext' = scNext + 1 /\ scNext \in Nat /\ scNext \in 1..(CacheRuns + 1)
  BY DEF Cache!Begin, StoreInv, CacheInv, Shape, TypedInv
<1>3. scNext' \in scNext..(CacheRuns + 1) /\ scNext \in 1..(scNext' - 1)
  BY <1>2, CarriedAssumption
<1>4. \A h \in Cache!Groups \ {g} : Cache!Running(h) => scJob[h].id # scNext
  BY <1>2 DEF StoreInv, TypedInv
<1>5. ~Cache!HasEntry(scNext)
  BY <1>2, EntryIsTyped DEF StoreInv, TypedInv, Cache!HasEntry, CacheInv
<1>6. TypedInv'
  BY <1>1, <1>2, <1>3, <1>4, BeginsTyped
<1>7. PaidInv'
  BY <1>1, <1>2, <1>5, BeginsPaid
<1>q. QED BY <1>6, <1>7, BeginInv DEF StoreInv

LEMMA RerunStore ==
  ASSUME StoreInv, NEW g \in Cache!Groups, NEW id \in 1..CacheRuns, Cache!Rerun(g, id) PROVE StoreInv'
<1>1. PICK cost \in {1, 2} : Cache!Begins(g, id, cost)
  <2>1. PICK overlap \in {0, 1} : overlap = IF \E h \in Cache!Groups \ {g} : Cache!Running(h) THEN 1 ELSE 0
    OBVIOUS
  <2>2. Cache!Begins(g, id, 1 + overlap)
    BY <2>1 DEF Cache!Rerun
  <2>q. QED BY <2>2
<1>2. /\ id \in 1..(scNext - 1) /\ scNext' = scNext /\ scNext \in 1..(CacheRuns + 1) /\ id \in Nat
      /\ \A h \in Cache!Groups : scJob[h].id # id
  BY DEF Cache!Rerun, StoreInv, TypedInv
<1>3. scNext' \in scNext..(CacheRuns + 1)
  BY <1>2, CarriedAssumption
<1>4. TypedInv'
  BY <1>1, <1>2, <1>3, BeginsTyped
<1>5. PaidInv'
  BY <1>1, <1>2, BeginsPaid
<1>q. QED BY <1>4, <1>5, RerunInv DEF StoreInv

\* An order changes the sidecar's copy and the broker's count.
LEMMA BuyFacts ==
  ASSUME StoreInv, NEW k \in CacheKeys, Cache!Buy(k)
  PROVE  /\ Cache!Running("sidecar") /\ scJob["sidecar"].sent = FALSE /\ k \notin scJob["sidecar"].dir.known
         /\ scJob'["sidecar"].id = scJob["sidecar"].id /\ scJob'["sidecar"].sent = TRUE
         /\ scJob'["sidecar"].dir.known = scJob["sidecar"].dir.known \cup {k}
         /\ scJob'["sidecar"].dir.control = scJob["sidecar"].dir.control
         /\ scJob'["guard"] = scJob["guard"]
         /\ Cache!Running("sidecar")' /\ (Cache!Running("guard")' <=> Cache!Running("guard"))
         /\ scBought' = [scBought EXCEPT ![k] = @ + 1] /\ scLast' = [scLast EXCEPT ![k] = "open"]
         /\ UNCHANGED <<scEntries, scNext, scDecisions, scDecided, scExcuses>>
<1> DEFINE s == scJob["sidecar"]
           j == [s EXCEPT !.dir.known = @ \cup {k}, !.sent = TRUE]
<1>1. "sidecar" \in Cache!Groups /\ "guard" \in Cache!Groups /\ Shape
  BY DEF Cache!Groups, StoreInv, CacheInv
<1>2. s \in Jobs /\ Cache!Running("sidecar")
  BY <1>1 DEF Cache!Buy, Shape
<1>3. s.sent \in BOOLEAN /\ ~s.sent /\ k \notin s.dir.known
  BY <1>2 DEF Cache!Buy, Cache!Buys, Jobs
<1>4. /\ j \in Jobs /\ j.id = s.id /\ j.sent = TRUE
      /\ j.dir.known = s.dir.known \cup {k} /\ j.dir.control = s.dir.control
  BY <1>2 DEF Jobs, AllDirs
<1>5. scJob' = [scJob EXCEPT !["sidecar"] = j]
  BY DEF Cache!Buy
<1> HIDE DEF j
<1>6. scJob'["sidecar"] = j /\ scJob'["guard"] = scJob["guard"]
  BY <1>1, <1>5 DEF Shape
<1>7. Cache!Running("sidecar")' /\ (Cache!Running("guard")' <=> Cache!Running("guard"))
  BY <1>4, <1>6, JobIsNotNone DEF Cache!Running
<1>8. /\ scBought' = [scBought EXCEPT ![k] = @ + 1] /\ scLast' = [scLast EXCEPT ![k] = "open"]
      /\ UNCHANGED <<scEntries, scNext, scDecisions, scDecided, scExcuses>>
  BY DEF Cache!Buy
<1>9. s.sent = FALSE
  BY <1>3
<1>q. QED BY <1>2, <1>3, <1>4, <1>6, <1>7, <1>8, <1>9

LEMMA BuyStore == ASSUME StoreInv, NEW k \in CacheKeys, Cache!Buy(k) PROVE StoreInv'
<1>1. /\ Cache!Running("sidecar") /\ scJob["sidecar"].sent = FALSE /\ k \notin scJob["sidecar"].dir.known
      /\ scJob'["sidecar"].id = scJob["sidecar"].id /\ scJob'["sidecar"].sent = TRUE
      /\ scJob'["sidecar"].dir.known = scJob["sidecar"].dir.known \cup {k}
      /\ scJob'["sidecar"].dir.control = scJob["sidecar"].dir.control
      /\ scJob'["guard"] = scJob["guard"]
      /\ Cache!Running("sidecar")' /\ (Cache!Running("guard")' <=> Cache!Running("guard"))
      /\ scBought' = [scBought EXCEPT ![k] = @ + 1] /\ scLast' = [scLast EXCEPT ![k] = "open"]
      /\ UNCHANGED <<scEntries, scNext, scDecisions, scDecided, scExcuses>>
  BY BuyFacts
<1>2. Shape /\ TypedInv /\ PaidInv /\ scBought \in Counts /\ scExcuses \in Nat
  BY DEF StoreInv, CacheInv, Shape, Counts
<1>3. Cache!Newest' = Cache!Newest /\ \A i : Cache!HasEntry(i)' <=> Cache!HasEntry(i)
  BY <1>1 DEF Cache!Newest, Cache!HasEntry
<1>4. TypedInv'
  <2>1. scLast' \in [CacheKeys -> Orders]
    BY <1>1, <1>2 DEF TypedInv, Orders
  <2>2. ASSUME NEW g \in Cache!Groups, Cache!Running(g)'
        PROVE  scJob'[g].dir.control <= scDecisions /\ scJob'[g].id \in 1..(scNext - 1)
    <3>1. "sidecar" \in Cache!Groups /\ "guard" \in Cache!Groups /\ (g = "sidecar" \/ g = "guard")
      BY DEF Cache!Groups
    <3>2. CASE g = "sidecar"
      BY <1>1, <1>2, <3>1, <3>2 DEF TypedInv
    <3>3. CASE g = "guard"
      <4>1. Cache!Running("guard")
        BY <1>1, <2>2, <3>3
      <4>q. QED BY <1>1, <1>2, <3>1, <3>3, <4>1 DEF TypedInv
    <3>q. QED BY <3>1, <3>2, <3>3
  <2>3. Cache!Running("sidecar")' /\ Cache!Running("guard")' => scJob'["sidecar"].id # scJob'["guard"].id
    BY <1>1, <1>2 DEF TypedInv
  <2>q. QED BY <1>1, <1>2, <2>1, <2>2, <2>3 DEF TypedInv, Cache!Running
<1>5. PaidInv'
  <2>1. PICK orders : orders = scBought'
    OBVIOUS
  <2>2. orders = [scBought EXCEPT ![k] = @ + 1]
    BY <1>1, <2>1
  <2>3. /\ orders \in Counts /\ IsFiniteSet(Extras(orders))
        /\ \A known : Debt(orders, known) <= Debt(scBought, known) + 1
        /\ \A known : k \notin known => Debt(orders, known \cup {k}) <= Debt(scBought, known)
    BY <1>2, <2>2, OrderCosts DEF PaidInv
  <2>4. PICK newest \in Nat, own \in Nat, others \in Nat :
          /\ newest = Debt(scBought, Cache!Newest.known)
          /\ own = Debt(scBought, scJob["sidecar"].dir.known)
          /\ others = Debt(scBought, scJob["guard"].dir.known)
    BY Owed
  <2>5. \A known : Debt(orders, known) \in Nat
    BY <2>3, DebtIsNat
  <2>6. PICK newest2 \in Nat, own2 \in Nat, others2 \in Nat :
          /\ newest2 = Debt(orders, Cache!Newest.known)
          /\ own2 = Debt(orders, scJob'["sidecar"].dir.known)
          /\ others2 = Debt(orders, scJob["guard"].dir.known)
    BY <2>5
  <2>7. newest2 <= newest + 1 /\ others2 <= others + 1
    BY <2>3, <2>4, <2>6
  <2>8. own2 <= own
    <3>1. PICK known : known = scJob["sidecar"].dir.known
      OBVIOUS
    <3>2. k \notin known /\ own2 = Debt(orders, known \cup {k}) /\ own = Debt(scBought, known)
      BY <1>1, <2>4, <2>6, <3>1
    <3>q. QED BY <2>3, <3>2
  <2>9. Spent = 0 /\ Spent' = 1
    BY <1>1 DEF Spent
  <2>10. ~Cache!HasEntry(scJob["sidecar"].id) => own <= scExcuses /\ newest <= scExcuses
    BY <1>1, <1>2, <2>4, <2>9 DEF PaidInv
  <2>11. Cache!HasEntry(scJob["sidecar"].id) => newest + 1 <= scExcuses
    BY <1>1, <1>2, <2>4, <2>9 DEF PaidInv
  <2>12. Cache!Running("guard") /\ ~Cache!HasEntry(scJob["guard"].id) => others + 1 <= scExcuses
    BY <1>1, <1>2, <2>4, <2>9 DEF PaidInv
  <2>13. ~Cache!HasEntry(scJob["sidecar"].id) => own2 <= scExcuses /\ newest2 <= scExcuses + 1
    BY <1>2, <2>7, <2>8, <2>10
  <2>14. Cache!HasEntry(scJob["sidecar"].id) => newest2 + 1 <= scExcuses + 1
    BY <1>2, <2>7, <2>11
  <2>15. Cache!Running("guard") /\ ~Cache!HasEntry(scJob["guard"].id) => others2 + (1 - 1) <= scExcuses
    BY <1>2, <2>7, <2>12
  <2>16. Cache!HasEntry(scJob["sidecar"].id)' <=> Cache!HasEntry(scJob["sidecar"].id)
    BY <1>1 DEF Cache!HasEntry
  <2>17. Cache!HasEntry(scJob["guard"].id)' <=> Cache!HasEntry(scJob["guard"].id)
    BY <1>1 DEF Cache!HasEntry
  <2>q. QED BY <1>1, <1>3, <2>1, <2>3, <2>6, <2>9, <2>13, <2>14, <2>15, <2>16, <2>17 DEF PaidInv
<1>q. QED BY <1>4, <1>5, BuyInv DEF StoreInv

\* What the guard writes touches no key.
LEMMA GuardStore == ASSUME StoreInv, Cache!Guard PROVE StoreInv'
<1> DEFINE s == scJob["guard"]
           j == [s EXCEPT !.dir.control = scDecisions + 1, !.sent = TRUE]
<1>1. "sidecar" \in Cache!Groups /\ "guard" \in Cache!Groups /\ Shape /\ TypedInv /\ PaidInv /\ scDecisions \in Nat
  BY DEF Cache!Groups, StoreInv, CacheInv, Shape
<1>2. s \in Jobs /\ Cache!Running("guard")
  BY <1>1 DEF Cache!Guard, Shape
<1>3. /\ j \in Jobs /\ j.id = s.id /\ j.dir.known = s.dir.known /\ j.dir.control = scDecisions + 1
  <2>1. scDecisions + 1 \in Nat
    BY <1>1
  <2>q. QED BY <1>2, <2>1 DEF Jobs, AllDirs
<1>4. scJob' = [scJob EXCEPT !["guard"] = j]
  BY DEF Cache!Guard
<1> HIDE DEF j
<1>5. scJob'["guard"] = j /\ scJob'["sidecar"] = scJob["sidecar"]
  BY <1>1, <1>4 DEF Shape
<1>6. Cache!Running("guard")' /\ (Cache!Running("sidecar")' <=> Cache!Running("sidecar"))
  BY <1>3, <1>5, JobIsNotNone DEF Cache!Running
<1>7. UNCHANGED <<scEntries, scNext, scDecided, scBought, scLast, scExcuses>> /\ scDecisions' = scDecisions + 1
  BY DEF Cache!Guard
<1>8. Cache!Newest' = Cache!Newest /\ Spent' = Spent
  BY <1>5, <1>7 DEF Cache!Newest, Spent
<1>9. /\ Cache!HasEntry(scJob["sidecar"].id)' <=> Cache!HasEntry(scJob["sidecar"].id)
      /\ Cache!HasEntry(scJob["guard"].id)' <=> Cache!HasEntry(scJob["guard"].id)
  BY <1>3, <1>5, <1>7 DEF Cache!HasEntry
<1>10. PaidInv'
  BY <1>1, <1>2, <1>3, <1>5, <1>6, <1>7, <1>8, <1>9 DEF PaidInv
<1>11. TypedInv'
  <2>1. \A n \in DOMAIN scEntries : scEntries[n].dir.control <= scDecisions + 1 /\ scEntries[n].id < scNext
    <3> SUFFICES ASSUME NEW n \in DOMAIN scEntries
                 PROVE  scEntries[n].dir.control <= scDecisions + 1 /\ scEntries[n].id < scNext
      OBVIOUS
    <3>1. scEntries[n].dir.control \in Nat /\ scEntries[n].dir.control <= scDecisions /\ scEntries[n].id < scNext
      BY <1>1, EntryIsTyped DEF TypedInv, AllDirs
    <3>q. QED BY <1>1, <3>1
  <2>2. ASSUME NEW g \in Cache!Groups, Cache!Running(g)'
        PROVE  scJob'[g].dir.control <= scDecisions + 1 /\ scJob'[g].id \in 1..(scNext - 1)
    <3>1. CASE g = "guard"
      BY <1>1, <1>2, <1>3, <1>5, <3>1 DEF TypedInv
    <3>2. CASE g = "sidecar"
      <4>1. scJob["sidecar"].dir.control \in Nat /\ Cache!Running("sidecar")
        BY <1>1, <1>6, <2>2, <3>2 DEF Shape, Jobs, AllDirs
      <4>2. scJob["sidecar"].dir.control <= scDecisions /\ scJob["sidecar"].id \in 1..(scNext - 1)
        BY <1>1, <4>1 DEF TypedInv
      <4>q. QED BY <1>1, <1>5, <3>2, <4>1, <4>2
    <3>q. QED BY <3>1, <3>2 DEF Cache!Groups
  <2>3. scDecided <= scDecisions + 1
    BY <1>1 DEF TypedInv, Shape
  <2>4. Cache!Running("sidecar")' /\ Cache!Running("guard")' => scJob'["sidecar"].id # scJob'["guard"].id
    BY <1>1, <1>2, <1>3, <1>5, <1>6 DEF TypedInv
  <2>q. QED BY <1>1, <1>7, <2>1, <2>2, <2>3, <2>4 DEF TypedInv, Cache!Running
<1>q. QED BY <1>10, <1>11, GuardInv DEF StoreInv

\* A job is over: what it may no longer save needs no excuse.
LEMMA SaveFailsStore == ASSUME StoreInv, NEW g \in Cache!Groups, Cache!SaveFails(g) PROVE StoreInv'
<1>1. /\ scJob' = [scJob EXCEPT ![g] = Cache!None] /\ scExcuses' = scExcuses + 1 /\ scExcuses < MaxExcuses
      /\ Cache!Running(g) /\ UNCHANGED <<scEntries, scNext, scDecisions, scDecided, scBought, scLast>>
  BY DEF Cache!SaveFails
<1>2. Shape /\ TypedInv /\ PaidInv /\ scExcuses \in Nat
  BY DEF StoreInv, CacheInv, Shape
<1>3. /\ scJob'[g] = Cache!None
      /\ \A h \in Cache!Groups \ {g} : scJob'[h] = scJob[h] /\ (Cache!Running(h)' <=> Cache!Running(h))
      /\ ~Cache!Running(g)'
  BY <1>1, <1>2 DEF Shape, Cache!Running
<1>4. Cache!Newest' = Cache!Newest /\ \A i : Cache!HasEntry(i)' <=> Cache!HasEntry(i)
  BY <1>1 DEF Cache!Newest, Cache!HasEntry
<1>5. TypedInv'
  <2>1. \A h \in Cache!Groups : Cache!Running(h)' => Cache!Running(h) /\ scJob'[h] = scJob[h]
    BY <1>3
  <2>2. scExcuses' <= MaxExcuses
    BY <1>1, <1>2, CarriedAssumption
  <2>3. ASSUME NEW h \in Cache!Groups, Cache!Running(h)'
        PROVE  scJob'[h].dir.control <= scDecisions /\ scJob'[h].id \in 1..(scNext - 1)
    BY <1>2, <2>1, <2>3 DEF TypedInv
  <2>4. Cache!Running("sidecar")' /\ Cache!Running("guard")' => scJob'["sidecar"].id # scJob'["guard"].id
    BY <1>2, <2>1 DEF TypedInv, Cache!Groups
  <2>q. QED BY <1>1, <1>2, <2>2, <2>3, <2>4 DEF TypedInv, Cache!Running
<1>6. PICK newest \in Nat, own \in Nat, others \in Nat :
        /\ newest = Debt(scBought, Cache!Newest.known)
        /\ own = Debt(scBought, scJob["sidecar"].dir.known)
        /\ others = Debt(scBought, scJob["guard"].dir.known)
  BY Owed
<1>7. PICK spent \in {0, 1} : spent = Spent
  BY SpentIsOne
<1>8. PaidInv'
  <2>1. CASE g = "sidecar"
    <3>1. /\ "guard" \in Cache!Groups \ {g} /\ scJob'["guard"] = scJob["guard"]
          /\ (Cache!Running("guard")' <=> Cache!Running("guard")) /\ ~Cache!Running("sidecar")'
      BY <1>3, <2>1 DEF Cache!Groups
    <3>2. newest <= scExcuses + 1
      BY <1>1, <1>2, <1>6, <1>7, <2>1 DEF PaidInv
    <3>3. Cache!Running("guard") /\ ~Cache!HasEntry(scJob["guard"].id) => others + (1 - spent) <= scExcuses
      BY <1>1, <1>2, <1>6, <1>7, <2>1 DEF PaidInv
    <3>4. Cache!Running("guard") /\ ~Cache!HasEntry(scJob["guard"].id) => others + 0 <= scExcuses + 1
      BY <1>2, <1>6, <1>7, <3>3
    <3>5. Cache!HasEntry(scJob["guard"].id)' <=> Cache!HasEntry(scJob["guard"].id)
      BY <1>1, <3>1 DEF Cache!HasEntry
    <3>q. QED BY <1>1, <1>2, <1>4, <1>6, <3>1, <3>2, <3>4, <3>5 DEF PaidInv
  <2>2. CASE g = "guard"
    <3>1. /\ "sidecar" \in Cache!Groups \ {g} /\ scJob'["sidecar"] = scJob["sidecar"] /\ Spent' = Spent
          /\ (Cache!Running("sidecar")' <=> Cache!Running("sidecar")) /\ ~Cache!Running("guard")'
      BY <1>3, <2>2 DEF Cache!Groups, Spent
    <3>2. Cache!HasEntry(scJob["sidecar"].id)' <=> Cache!HasEntry(scJob["sidecar"].id)
      BY <1>1, <3>1 DEF Cache!HasEntry
    <3>3. ~Cache!Running("sidecar") => newest <= scExcuses + 1
      BY <1>2, <1>6 DEF PaidInv
    <3>4. Cache!Running("sidecar") /\ ~Cache!HasEntry(scJob["sidecar"].id) =>
            own <= scExcuses + 1 /\ newest <= scExcuses + 1 + spent
      <4>1. Cache!Running("sidecar") /\ ~Cache!HasEntry(scJob["sidecar"].id) =>
              own <= scExcuses /\ newest <= scExcuses + spent
        BY <1>2, <1>6, <1>7 DEF PaidInv
      <4>q. QED BY <1>2, <1>6, <1>7, <4>1
    <3>5. Cache!Running("sidecar") /\ Cache!HasEntry(scJob["sidecar"].id) => newest + 1 <= scExcuses + 1 + spent
      <4>1. Cache!Running("sidecar") /\ Cache!HasEntry(scJob["sidecar"].id) => newest + 1 <= scExcuses + spent
        BY <1>2, <1>6, <1>7 DEF PaidInv
      <4>q. QED BY <1>2, <1>6, <1>7, <4>1
    <3>q. QED BY <1>1, <1>2, <1>4, <1>6, <1>7, <3>1, <3>2, <3>3, <3>4, <3>5 DEF PaidInv
  <2>q. QED BY <2>1, <2>2 DEF Cache!Groups
<1>q. QED BY <1>5, <1>8, SaveFailsInv DEF StoreInv

\* A job that ends gives its copy to the cache, unless its entry is there.
LEMMA SaveFacts ==
  ASSUME StoreInv, NEW g \in Cache!Groups, Cache!Save(g)
  PROVE  /\ Cache!Running(g) /\ ~Cache!Running(g)'
         /\ \A h \in Cache!Groups \ {g} : scJob'[h] = scJob[h] /\ (Cache!Running(h)' <=> Cache!Running(h))
         /\ UNCHANGED <<scNext, scDecisions, scBought, scLast, scExcuses>>
         /\ Cache!HasEntry(scJob[g].id) =>
              scEntries' = scEntries /\ scDecided' = scDecided /\ Cache!Newest' = Cache!Newest
         /\ ~Cache!HasEntry(scJob[g].id) =>
              /\ Cache!Newest' = scJob[g].dir /\ scDecided' \in {scDecided, scJob[g].dir.control}
              /\ \A n \in DOMAIN scEntries' :
                   \/ n \in DOMAIN scEntries /\ scEntries'[n] = scEntries[n]
                   \/ scEntries'[n].id = scJob[g].id /\ scEntries'[n].dir = scJob[g].dir
              /\ \A n \in DOMAIN scEntries : n \in DOMAIN scEntries' /\ scEntries'[n] = scEntries[n]
<1> DEFINE e == [id |-> scJob[g].id, dir |-> scJob[g].dir]
<1>1. Shape
  BY DEF StoreInv, CacheInv
<1>2. Cache!Running(g) /\ scJob[g] \in Jobs
  BY <1>1 DEF Cache!Save, Shape
<1>3. e \in [id : Nat, dir : AllDirs] /\ e.id = scJob[g].id /\ e.dir = scJob[g].dir
  BY <1>2 DEF Jobs
<1>4. scEntries' = IF Cache!HasEntry(scJob[g].id) THEN scEntries ELSE Append(scEntries, e)
  BY DEF Cache!Save
<1> HIDE DEF e
<1>5. /\ DOMAIN Append(scEntries, e) = 1..(Len(scEntries) + 1)
      /\ \A n \in 1..Len(scEntries) : Append(scEntries, e)[n] = scEntries[n]
      /\ Append(scEntries, e)[Len(scEntries) + 1] = e
      /\ Cache!Last(Append(scEntries, e)) = e
  <2>1. scEntries \in Seq([id : Nat, dir : AllDirs])
    BY <1>1 DEF Shape, Entries
  <2>2. QED BY <1>3, <2>1, LastAppended DEF Cache!Last
<1>6. /\ scJob' = [scJob EXCEPT ![g] = Cache!None] /\ UNCHANGED <<scNext, scDecisions, scBought, scLast, scExcuses>>
      /\ scDecided' = IF g = "guard" /\ ~Cache!HasEntry(scJob[g].id) THEN scJob[g].dir.control ELSE scDecided
  BY DEF Cache!Save
<1>7. /\ ~Cache!Running(g)'
      /\ \A h \in Cache!Groups \ {g} : scJob'[h] = scJob[h] /\ (Cache!Running(h)' <=> Cache!Running(h))
  BY <1>1, <1>6 DEF Shape, Cache!Running
<1>8. ASSUME Cache!HasEntry(scJob[g].id)
      PROVE  scEntries' = scEntries /\ scDecided' = scDecided /\ Cache!Newest' = Cache!Newest
  BY <1>4, <1>6, <1>8 DEF Cache!Newest
<1>9. ASSUME ~Cache!HasEntry(scJob[g].id)
      PROVE  /\ Cache!Newest' = scJob[g].dir /\ scDecided' \in {scDecided, scJob[g].dir.control}
             /\ \A n \in DOMAIN scEntries' :
                  \/ n \in DOMAIN scEntries /\ scEntries'[n] = scEntries[n]
                  \/ scEntries'[n].id = scJob[g].id /\ scEntries'[n].dir = scJob[g].dir
             /\ \A n \in DOMAIN scEntries : n \in DOMAIN scEntries' /\ scEntries'[n] = scEntries[n]
  <2>1. scEntries' = Append(scEntries, e)
    BY <1>4, <1>9
  <2>2. Cache!Newest' = scJob[g].dir
    BY <1>3, <1>5, <2>1 DEF Cache!Newest
  <2>3. DOMAIN scEntries = 1..Len(scEntries) /\ Len(scEntries) \in Nat
    BY <1>1, EntryIsTyped, LenProperties DEF Shape, Entries
  <2>4. \A n \in 1..(Len(scEntries) + 1) : n \in 1..Len(scEntries) \/ n = Len(scEntries) + 1
    BY <2>3
  <2>5. \A n \in 1..Len(scEntries) : n \in 1..(Len(scEntries) + 1)
    BY <2>3
  <2>q. QED BY <1>3, <1>5, <1>6, <2>1, <2>2, <2>3, <2>4, <2>5
<1>q. QED BY <1>2, <1>6, <1>7, <1>8, <1>9

LEMMA SaveStore == ASSUME StoreInv, NEW g \in Cache!Groups, Cache!Save(g) PROVE StoreInv'
<1>1. /\ Cache!Running(g) /\ ~Cache!Running(g)'
      /\ \A h \in Cache!Groups \ {g} : scJob'[h] = scJob[h] /\ (Cache!Running(h)' <=> Cache!Running(h))
      /\ UNCHANGED <<scNext, scDecisions, scBought, scLast, scExcuses>>
  BY SaveFacts
<1>2. Cache!HasEntry(scJob[g].id) =>
        scEntries' = scEntries /\ scDecided' = scDecided /\ Cache!Newest' = Cache!Newest
  BY SaveFacts
<1>3. ~Cache!HasEntry(scJob[g].id) =>
        /\ Cache!Newest' = scJob[g].dir /\ scDecided' \in {scDecided, scJob[g].dir.control}
        /\ \A n \in DOMAIN scEntries' :
             \/ n \in DOMAIN scEntries /\ scEntries'[n] = scEntries[n]
             \/ scEntries'[n].id = scJob[g].id /\ scEntries'[n].dir = scJob[g].dir
        /\ \A n \in DOMAIN scEntries : n \in DOMAIN scEntries' /\ scEntries'[n] = scEntries[n]
  BY SaveFacts
<1>4. Shape /\ TypedInv /\ PaidInv /\ scExcuses \in Nat /\ scNext \in Nat
  BY DEF StoreInv, CacheInv, Shape
<1>5. scJob[g].dir.control <= scDecisions /\ scJob[g].id \in 1..(scNext - 1) /\ scJob[g].id < scNext
  BY <1>1, <1>4 DEF TypedInv
<1>6. \A i : i # scJob[g].id => (Cache!HasEntry(i)' <=> Cache!HasEntry(i))
  <2>1. CASE Cache!HasEntry(scJob[g].id)
    BY <1>2, <2>1 DEF Cache!HasEntry
  <2>2. CASE ~Cache!HasEntry(scJob[g].id)
    BY <1>3, <2>2 DEF Cache!HasEntry
  <2>q. QED BY <2>1, <2>2
<1>7. TypedInv'
  <2>1. \A h \in Cache!Groups : Cache!Running(h)' => Cache!Running(h) /\ scJob'[h] = scJob[h]
    BY <1>1
  <2>2. ASSUME NEW h \in Cache!Groups, Cache!Running(h)'
        PROVE  scJob'[h].dir.control <= scDecisions /\ scJob'[h].id \in 1..(scNext - 1)
    BY <1>4, <2>1, <2>2 DEF TypedInv
  <2>3. Cache!Running("sidecar")' /\ Cache!Running("guard")' => scJob'["sidecar"].id # scJob'["guard"].id
    BY <1>4, <2>1 DEF TypedInv, Cache!Groups
  <2>4. scDecided' <= scDecisions
    BY <1>2, <1>3, <1>4, <1>5 DEF TypedInv
  <2>5. \A n \in DOMAIN scEntries' : scEntries'[n].dir.control <= scDecisions /\ scEntries'[n].id < scNext
    <3>1. CASE Cache!HasEntry(scJob[g].id)
      BY <1>2, <1>4, <3>1 DEF TypedInv
    <3>2. CASE ~Cache!HasEntry(scJob[g].id)
      <4> SUFFICES ASSUME NEW n \in DOMAIN scEntries'
                   PROVE  scEntries'[n].dir.control <= scDecisions /\ scEntries'[n].id < scNext
        OBVIOUS
      <4>1. CASE n \in DOMAIN scEntries /\ scEntries'[n] = scEntries[n]
        BY <1>4, <4>1 DEF TypedInv
      <4>2. CASE scEntries'[n].id = scJob[g].id /\ scEntries'[n].dir = scJob[g].dir
        BY <1>5, <4>2
      <4>q. QED BY <1>3, <3>2, <4>1, <4>2
    <3>q. QED BY <3>1, <3>2
  <2>q. QED BY <1>1, <1>4, <2>2, <2>3, <2>4, <2>5 DEF TypedInv, Cache!Running
<1>8. PICK newest \in Nat, own \in Nat, others \in Nat :
        /\ newest = Debt(scBought, Cache!Newest.known)
        /\ own = Debt(scBought, scJob["sidecar"].dir.known)
        /\ others = Debt(scBought, scJob["guard"].dir.known)
  BY Owed
<1>9. PICK spent \in {0, 1} : spent = Spent
  BY SpentIsOne
<1>10. PICK after \in Nat : after = Debt(scBought, Cache!Newest'.known)
  BY Owed
<1>11. PaidInv'
  <2>1. CASE g = "sidecar"
    <3>1. /\ "guard" \in Cache!Groups \ {g} /\ scJob'["guard"] = scJob["guard"]
          /\ (Cache!Running("guard")' <=> Cache!Running("guard")) /\ ~Cache!Running("sidecar")'
      BY <1>1, <2>1 DEF Cache!Groups
    <3>2. after <= scExcuses
      <4>1. CASE Cache!HasEntry(scJob["sidecar"].id)
        <5>1. after = newest
          BY <1>2, <1>8, <1>10, <2>1, <4>1
        <5>2. newest + 1 <= scExcuses + spent
          BY <1>1, <1>4, <1>8, <1>9, <2>1, <4>1 DEF PaidInv
        <5>q. QED BY <1>4, <1>8, <1>9, <5>1, <5>2
      <4>2. CASE ~Cache!HasEntry(scJob["sidecar"].id)
        <5>1. after = own
          BY <1>3, <1>8, <1>10, <2>1, <4>2
        <5>q. QED BY <1>1, <1>4, <1>8, <2>1, <4>2, <5>1 DEF PaidInv
      <4>q. QED BY <4>1, <4>2
    <3>3. Cache!Running("guard") /\ ~Cache!HasEntry(scJob["guard"].id) => others + (1 - spent) <= scExcuses
      BY <1>1, <1>4, <1>8, <1>9, <2>1 DEF PaidInv
    <3>4. Cache!Running("guard") /\ ~Cache!HasEntry(scJob["guard"].id) => others + 0 <= scExcuses
      BY <1>4, <1>8, <1>9, <3>3
    <3>5. Cache!Running("guard") => scJob["guard"].id # scJob["sidecar"].id
      BY <1>1, <1>4, <2>1 DEF TypedInv
    <3>6. Cache!HasEntry(scJob["guard"].id)' <=> \E n \in DOMAIN scEntries' : scEntries'[n].id = scJob["guard"].id
      BY <3>1 DEF Cache!HasEntry
    <3>7. Cache!Running("guard") => (Cache!HasEntry(scJob["guard"].id)' <=> Cache!HasEntry(scJob["guard"].id))
      BY <1>6, <2>1, <3>5, <3>6 DEF Cache!HasEntry
    <3>8. IsFiniteSet(Extras(scBought))
      BY <1>4 DEF PaidInv
    <3>q. QED BY <1>1, <1>8, <1>10, <3>1, <3>2, <3>4, <3>7, <3>8 DEF PaidInv
  <2>2. CASE g = "guard"
    <3>1. /\ "sidecar" \in Cache!Groups \ {g} /\ scJob'["sidecar"] = scJob["sidecar"] /\ Spent' = Spent
          /\ (Cache!Running("sidecar")' <=> Cache!Running("sidecar")) /\ ~Cache!Running("guard")'
      BY <1>1, <2>2 DEF Cache!Groups, Spent
    <3>2. Cache!Running("sidecar") => scJob["guard"].id # scJob["sidecar"].id
      BY <1>1, <1>4, <2>2 DEF TypedInv
    <3>3. Cache!HasEntry(scJob["sidecar"].id)' <=> \E n \in DOMAIN scEntries' : scEntries'[n].id = scJob["sidecar"].id
      BY <3>1 DEF Cache!HasEntry
    <3>4. Cache!Running("sidecar") => (Cache!HasEntry(scJob["sidecar"].id)' <=> Cache!HasEntry(scJob["sidecar"].id))
      BY <1>6, <2>2, <3>2, <3>3 DEF Cache!HasEntry
    <3>5. \/ after = newest
          \/ after = others /\ others + (IF Cache!Running("sidecar") THEN 1 - spent ELSE 0) <= scExcuses
      <4>1. CASE Cache!HasEntry(scJob["guard"].id)
        BY <1>2, <1>8, <1>10, <2>2, <4>1
      <4>2. CASE ~Cache!HasEntry(scJob["guard"].id)
        <5>1. after = others
          BY <1>3, <1>8, <1>10, <2>2, <4>2
        <5>q. QED BY <1>1, <1>4, <1>8, <1>9, <2>2, <4>2, <5>1 DEF PaidInv
      <4>q. QED BY <4>1, <4>2
    <3>6. ~Cache!Running("sidecar") => after <= scExcuses
      <4>1. ~Cache!Running("sidecar") => newest <= scExcuses
        BY <1>4, <1>8 DEF PaidInv
      <4>q. QED BY <1>4, <1>8, <1>10, <3>5, <4>1
    <3>7. Cache!Running("sidecar") /\ ~Cache!HasEntry(scJob["sidecar"].id) =>
            own <= scExcuses /\ after <= scExcuses + spent
      <4>1. Cache!Running("sidecar") /\ ~Cache!HasEntry(scJob["sidecar"].id) =>
              own <= scExcuses /\ newest <= scExcuses + spent
        BY <1>4, <1>8, <1>9 DEF PaidInv
      <4>q. QED BY <1>4, <1>8, <1>9, <1>10, <3>5, <4>1
    <3>8. Cache!Running("sidecar") /\ Cache!HasEntry(scJob["sidecar"].id) => after + 1 <= scExcuses + spent
      <4>1. Cache!Running("sidecar") /\ Cache!HasEntry(scJob["sidecar"].id) => newest + 1 <= scExcuses + spent
        BY <1>4, <1>8, <1>9 DEF PaidInv
      <4>q. QED BY <1>4, <1>8, <1>9, <1>10, <3>5, <4>1
    <3>9. IsFiniteSet(Extras(scBought))
      BY <1>4 DEF PaidInv
    <3>q. QED BY <1>1, <1>8, <1>9, <1>10, <3>1, <3>4, <3>6, <3>7, <3>8, <3>9 DEF PaidInv
  <2>q. QED BY <2>1, <2>2 DEF Cache!Groups
<1>q. QED BY <1>7, <1>11, SaveInv DEF StoreInv

\* Orders end, and nothing of the store moves.
LEMMA OtherStore ==
  ASSUME StoreInv, UNCHANGED <<scEntries, scJob, scNext, scDecisions, scDecided, scBought, scExcuses>>,
         scLast' \in [CacheKeys -> Orders]
  PROVE  StoreInv'
<1>1. CacheInv'
  BY UnchangedInv DEF StoreInv
<1>2. Cache!Newest' = Cache!Newest /\ Spent' = Spent
  BY DEF Cache!Newest, Spent
<1>3. PaidInv'
  BY <1>2 DEF StoreInv, PaidInv, Cache!Running, Cache!HasEntry
<1>4. TypedInv'
  BY DEF StoreInv, TypedInv, Cache!Running
<1>q. QED BY <1>1, <1>3, <1>4 DEF StoreInv

\* However many keys and jobs: each directory that may become the newest is paid for by
\* what went wrong (dry-run.yml:436-443, 2338; market-guard.yml:254).
THEOREM StoreInvariant == Cache!Spec => []StoreInv
<1>1. StoreInv /\ [Cache!Next]_(Cache!vars) => StoreInv'
  <2> SUFFICES ASSUME StoreInv, [Cache!Next]_(Cache!vars) PROVE StoreInv'
    OBVIOUS
  <2>1. scLast \in [CacheKeys -> Orders]
    BY DEF StoreInv, TypedInv
  <2>2. CASE \E g \in Cache!Groups : Cache!Begin(g)
    BY <2>2, BeginStore
  <2>3. CASE \E g \in Cache!Groups : Cache!Save(g)
    BY <2>3, SaveStore
  <2>4. CASE \E g \in Cache!Groups : Cache!SaveFails(g)
    BY <2>4, SaveFailsStore
  <2>5. CASE \E g \in Cache!Groups, id \in 1..CacheRuns : Cache!Rerun(g, id)
    BY <2>5, RerunStore
  <2>6. CASE \E k \in CacheKeys : Cache!Buy(k)
    BY <2>6, BuyStore
  <2>7. CASE \E k \in CacheKeys : Cache!OrderEnds(k)
    <3>1. scLast' \in [CacheKeys -> Orders]
      BY <2>1, <2>7 DEF Cache!OrderEnds, Orders
    <3>q. QED BY <2>7, <3>1, OtherStore DEF Cache!OrderEnds
  <2>8. CASE Cache!Guard
    BY <2>8, GuardStore
  <2>9. CASE UNCHANGED Cache!vars
    BY <2>1, <2>9, OtherStore DEF Cache!vars
  <2>q. QED BY <2>2, <2>3, <2>4, <2>5, <2>6, <2>7, <2>8, <2>9 DEF Cache!Next
<1>q. QED BY <1>1, InitStore, PTL DEF Cache!Spec

\* For any keys and any number of jobs: alone, the jobs lose nothing, and otherwise each
\* order beyond a key's first is paid for by an overlap, a re-run or a failed save
\* (dry-run.yml:436-443, 2338; index.ts:10464).
THEOREM StoreCarried == CarriedSpec => []StoreIsCarried
<1>1. StoreInv => StoreIsCarried
  <2> SUFFICES ASSUME StoreInv
               PROVE  Cache!TypeOK /\ Cache!NothingIsLostAlone /\ Cache!ExtraOrdersAreExcused
    BY DEF StoreIsCarried
  <2>1. Shape /\ TypedInv /\ PaidInv /\ scExcuses \in Nat /\ scDecisions \in Nat
    BY DEF StoreInv, CacheInv, Shape
  <2>2. Cache!NothingIsLostAlone
    BY DEF StoreInv, CacheInv, Alone, Cache!NothingIsLostAlone
  <2>3. Cache!ExtraOrdersAreExcused
    <3>1. PICK newest \in Nat, own \in Nat :
            /\ newest = Debt(scBought, Cache!Newest.known)
            /\ own = Debt(scBought, scJob["sidecar"].dir.known)
      BY Owed
    <3>2. /\ Cardinality(Extras(scBought)) \in Nat
          /\ \A known : Cardinality(Extras(scBought)) <= Debt(scBought, known)
      BY <2>1, DebtIsNat DEF PaidInv, Shape, Counts
    <3>3. PICK extra \in Nat : extra = Cardinality(Extras(scBought)) /\ extra <= newest /\ extra <= own
      BY <3>1, <3>2
    <3>4. newest <= scExcuses \/ own <= scExcuses
      <4>1. PICK spent \in {0, 1} : spent = Spent
        BY SpentIsOne
      <4>2. CASE ~Cache!Running("sidecar")
        BY <2>1, <3>1, <4>2 DEF PaidInv
      <4>3. CASE Cache!Running("sidecar") /\ ~Cache!HasEntry(scJob["sidecar"].id)
        BY <2>1, <3>1, <4>3 DEF PaidInv
      <4>4. CASE Cache!Running("sidecar") /\ Cache!HasEntry(scJob["sidecar"].id)
        <5>1. newest + 1 <= scExcuses + spent
          BY <2>1, <3>1, <4>1, <4>4 DEF PaidInv
        <5>q. QED BY <2>1, <3>1, <4>1, <5>1
      <4>q. QED BY <4>2, <4>3, <4>4
    <3>5. Cardinality(Extras(scBought)) <= scExcuses
      BY <2>1, <3>1, <3>3, <3>4
    <3>q. QED BY <3>5, CacheCounts DEF Extras, Cache!ExtraOrders, Cache!ExtraOrdersAreExcused
  <2>4. Cache!TypeOK
    <3>1. ASSUME NEW n \in DOMAIN scEntries PROVE scEntries[n].dir \in Cache!Dirs
      BY <2>1, EntryIsTyped DEF TypedInv, AllDirs, Cache!Dirs
    <3>2. ASSUME NEW g \in Cache!Groups, Cache!Running(g)
          PROVE  scJob[g].dir \in Cache!Dirs /\ scJob[g].id \in 1..CacheRuns
      <4>1. scJob[g].dir \in AllDirs /\ scJob[g].dir.control <= scDecisions /\ scJob[g].id \in 1..(scNext - 1)
        BY <2>1, <3>2 DEF TypedInv, Shape, Jobs
      <4>2. scNext \in 1..(CacheRuns + 1) /\ CacheRuns \in Nat
        BY <2>1, CarriedAssumption DEF TypedInv
      <4>q. QED BY <2>1, <4>1, <4>2 DEF AllDirs, Cache!Dirs
    <3>3. scDecided \in 0..scDecisions /\ scExcuses \in 0..MaxExcuses /\ scNext \in 1..(CacheRuns + 1)
      BY <2>1, CarriedAssumption DEF TypedInv, Shape
    <3>4. scBought \in [CacheKeys -> Nat] /\ scLast \in [CacheKeys -> Orders]
      BY <2>1 DEF TypedInv, Shape
    <3>q. QED BY <3>1, <3>2, <3>3, <3>4 DEF Cache!TypeOK, Orders
  <2>q. QED BY <2>2, <2>3, <2>4
<1>q. QED BY <1>1, StoreInvariant, PartsAreKept, PTL

-------------------------------------------------------------------------------
(* The performance loop                                                    *)

RowTables == [LoopKeys -> Loop!Kinds \cup {Loop!NoRow}]
Counted(rows) == Cardinality(Loop!OfKind(rows, Loop!Kinds))

\* A file, and a snapshot that some rows have given.
FileOk(file) ==
  /\ file = [rows |-> file.rows, snapshot |-> file.snapshot, notified |-> file.notified]
  /\ file.rows \in RowTables /\ file.notified \subseteq Loop!Milestones
  /\ file.snapshot.trades \in 0..Cardinality(LoopKeys)
  /\ file.snapshot.filled \in Nat /\ file.snapshot.filled <= file.snapshot.trades

\* A notice that is due was never sent in this batch, and a milestone counts as
\* notified before its notice is sent.
NoticesOk ==
  \A m \in Loop!Milestones :
    plSent[m] + (IF m \in plDue THEN 1 ELSE 0) <= plTorn + (IF m \in plLoop.notified THEN 1 ELSE 0)

LoopInv ==
  /\ FileOk(plLoop)
  /\ plStep \in {"idle", "submit", "notify"} /\ plEntries \subseteq LoopKeys
  /\ plDue \subseteq plLoop.notified /\ (plStep = "idle" => plDue = {})
  /\ plSent \in [Loop!Milestones -> Nat] /\ plTorn \in Nat
  /\ plStep = "submit" /\ plEntries # {} => plLoop.snapshot = Loop!Snapshot(plLoop.rows)
  /\ plStep # "idle" /\ Loop!Rows(plLoop) # {} => plLoop.snapshot.trades = Counted(plLoop.rows)
  /\ plBought \in {"no", "GO"}
  /\ NoticesOk

\* The loop counts as its reader does.
LEMMA LoopCounts == ASSUME NEW S PROVE Loop!Cardinality(S) = Cardinality(S)
  BY Zenon DEF Loop!Cardinality, Cardinality

\* A snapshot counts the rows, and of the filled ones there are not more.
LEMMA SnapshotFacts ==
  ASSUME NEW rows \in RowTables, NEW s, s = Loop!Snapshot(rows)
  PROVE  /\ s.trades = Counted(rows) /\ s.trades \in 0..Cardinality(LoopKeys)
         /\ s.filled \in Nat /\ s.filled <= s.trades
<1>1. PICK all : all = Loop!OfKind(rows, Loop!Kinds)
  OBVIOUS
<1>2. PICK filled : filled = Loop!OfKind(rows, Loop!Kinds \ {"planned", "unchecked"})
  OBVIOUS
<1>3. PICK proxy : proxy = Loop!OfKind(rows, {"planned", "open"})
  OBVIOUS
<1>4. /\ s.trades = Cardinality(all)
      /\ s.filled \in {Cardinality(filled), Cardinality(proxy)}
  BY <1>1, <1>2, <1>3, LoopCounts DEF Loop!Snapshot
<1>5. filled \subseteq all /\ proxy \subseteq all /\ all \subseteq LoopKeys
  BY <1>1, <1>2, <1>3 DEF Loop!OfKind, Loop!Kinds
<1>6. /\ IsFiniteSet(all) /\ Cardinality(all) <= Cardinality(LoopKeys)
      /\ Cardinality(LoopKeys) \in Nat
  BY <1>5, FS_Subset, FS_CardinalityType, CarriedAssumption
<1>7. /\ Cardinality(filled) <= Cardinality(all) /\ Cardinality(proxy) <= Cardinality(all)
      /\ IsFiniteSet(filled) /\ IsFiniteSet(proxy)
  BY <1>5, <1>6, FS_Subset
<1>8. /\ Cardinality(all) \in Nat /\ Cardinality(filled) \in Nat /\ Cardinality(proxy) \in Nat
  BY <1>6, <1>7, FS_CardinalityType
<1>9. s.trades = Counted(rows)
  BY <1>1, <1>4 DEF Counted
<1>q. QED BY <1>4, <1>6, <1>7, <1>8, <1>9

\* A row is one of a kind.
LEMMA RowsAreCounted ==
  ASSUME NEW file, file.rows \in RowTables
  PROVE  /\ Cardinality(Loop!Rows(file)) = Counted(file.rows)
         /\ Counted(file.rows) \in Nat
         /\ Loop!Rows(file) # {} => Counted(file.rows) > 0
<1>1. Loop!Rows(file) = Loop!OfKind(file.rows, Loop!Kinds)
  <2>1. Loop!NoRow \notin Loop!Kinds
    BY DEF Loop!NoRow, Loop!Kinds
  <2>q. QED BY <2>1 DEF Loop!Rows, Loop!OfKind, RowTables
<1>2. IsFiniteSet(Loop!Rows(file))
  <2>1. Loop!Rows(file) \subseteq LoopKeys
    BY DEF Loop!Rows
  <2>q. QED BY <2>1, FS_Subset, CarriedAssumption
<1>3. /\ Cardinality(Loop!Rows(file)) \in Nat
      /\ Cardinality(Loop!Rows(file)) = 0 <=> Loop!Rows(file) = {}
  BY <1>2, FS_CardinalityType, FS_EmptySet
<1>q. QED BY <1>1, <1>3 DEF Counted

LEMMA InitLoop == Loop!Init => LoopInv
<1> SUFFICES ASSUME Loop!Init PROVE LoopInv
  OBVIOUS
<1>1. PICK known \in SUBSET LoopKeys, counted \in SUBSET LoopKeys :
        /\ counted \subseteq known
        /\ plLoop = [rows |-> [k \in LoopKeys |-> IF k \in known THEN "planned" ELSE Loop!NoRow],
                     snapshot |-> IF counted = {} THEN Loop!NoSnapshot
                                  ELSE Loop!Snapshot([k \in LoopKeys |-> IF k \in counted THEN "planned" ELSE Loop!NoRow]),
                     notified |-> Loop!Crossed(0, Cardinality(counted)) \cap Loop!Milestones]
  BY LoopCounts DEF Loop!Init
<1>2. /\ plSent = [m \in Loop!Milestones |-> IF m \in plLoop.notified THEN 1 ELSE 0]
      /\ plStep = "idle" /\ plEntries = {} /\ plDue = {} /\ plBought = "no" /\ plTorn = 0
  BY DEF Loop!Init
<1>3. FileOk(plLoop)
  <2>1. ASSUME NEW ks \in SUBSET LoopKeys
        PROVE  [k \in LoopKeys |-> IF k \in ks THEN "planned" ELSE Loop!NoRow] \in RowTables
    BY DEF RowTables, Loop!Kinds
  <2>2. /\ plLoop.snapshot.trades \in 0..Cardinality(LoopKeys)
        /\ plLoop.snapshot.filled \in Nat /\ plLoop.snapshot.filled <= plLoop.snapshot.trades
    <3>1. CASE counted = {}
      <4>1. Cardinality(LoopKeys) \in Nat
        BY FS_CardinalityType, CarriedAssumption
      <4>2. plLoop.snapshot = Loop!NoSnapshot
        BY <1>1, <3>1
      <4>3. plLoop.snapshot.trades = 0 /\ plLoop.snapshot.filled = 0
        BY <4>2 DEF Loop!NoSnapshot
      <4>q. QED BY <4>1, <4>3
    <3>2. CASE counted # {}
      <4>1. PICK rows : rows = [k \in LoopKeys |-> IF k \in counted THEN "planned" ELSE Loop!NoRow]
        OBVIOUS
      <4>2. rows \in RowTables /\ plLoop.snapshot = Loop!Snapshot(rows)
        BY <1>1, <2>1, <3>2, <4>1
      <4>q. QED BY <4>2, SnapshotFacts
    <3>q. QED BY <3>1, <3>2
  <2>3. plLoop.rows \in RowTables /\ plLoop.notified \subseteq Loop!Milestones
    BY <1>1, <2>1
  <2>4. plLoop = [rows |-> plLoop.rows, snapshot |-> plLoop.snapshot, notified |-> plLoop.notified]
    BY <1>1
  <2>q. QED BY <2>2, <2>3, <2>4 DEF FileOk
<1>4. NoticesOk /\ plSent \in [Loop!Milestones -> Nat]
  <2>1. ASSUME NEW m \in Loop!Milestones
        PROVE  plSent[m] = IF m \in plLoop.notified THEN 1 ELSE 0
    BY <1>2
  <2>2. plSent \in [Loop!Milestones -> Nat]
    BY <1>2
  <2>3. ASSUME NEW m \in Loop!Milestones
        PROVE  plSent[m] + (IF m \in plDue THEN 1 ELSE 0) <= plTorn + (IF m \in plLoop.notified THEN 1 ELSE 0)
    <3>1. m \notin plDue
      BY <1>2
    <3>q. QED BY <1>2, <2>1, <3>1
  <2>q. QED BY <2>2, <2>3 DEF NoticesOk
<1>q. QED BY <1>2, <1>3, <1>4 DEF LoopInv

\* Between runs only rows change.
LEMMA RowsMove ==
  ASSUME LoopInv, plStep = "idle", NEW k \in LoopKeys, NEW kind \in Loop!Kinds \cup {Loop!NoRow},
         plLoop' = [plLoop EXCEPT !.rows[k] = kind],
         UNCHANGED <<plStep, plEntries, plDue, plBought, plSent, plTorn>>
  PROVE  LoopInv'
<1>1. /\ plLoop'.rows = [plLoop.rows EXCEPT ![k] = kind] /\ plLoop'.snapshot = plLoop.snapshot
      /\ plLoop'.notified = plLoop.notified
      /\ plLoop' = [rows |-> plLoop'.rows, snapshot |-> plLoop'.snapshot, notified |-> plLoop'.notified]
  BY DEF LoopInv, FileOk
<1>2. plLoop'.rows \in RowTables
  BY <1>1 DEF LoopInv, FileOk, RowTables
<1>3. FileOk(plLoop')
  BY <1>1, <1>2 DEF LoopInv, FileOk
<1>4. NoticesOk'
  BY <1>1 DEF LoopInv, NoticesOk
<1>q. QED BY <1>1, <1>3, <1>4 DEF LoopInv

\* What a run saves counts its rows.
LEMMA UpdateLoopKeeps == ASSUME LoopInv, Loop!UpdateLoop PROVE LoopInv'
<1>1. PICK payloads \in SUBSET LoopKeys, kind \in {"planned", "unchecked"} :
        /\ plLoop' = Loop!Updated(plLoop, Loop!Upserted(plLoop.rows, payloads, kind), payloads # {})
        /\ plDue' = IF Loop!NeedsSnapshot(plLoop, Loop!Upserted(plLoop.rows, payloads, kind), payloads # {})
                    THEN Loop!NewMilestones(plLoop, Loop!Upserted(plLoop.rows, payloads, kind)) ELSE {}
        /\ plEntries' = payloads
  BY Zenon DEF Loop!UpdateLoop
<1>2. /\ plStep = "idle" /\ plStep' = "submit" /\ plBought' = "no" /\ UNCHANGED <<plSent, plTorn>>
  BY DEF Loop!UpdateLoop
<1>3. PICK rows : rows = Loop!Upserted(plLoop.rows, payloads, kind)
  OBVIOUS
<1>4. /\ rows \in RowTables
      /\ payloads = {} => rows = plLoop.rows
  BY <1>3 DEF Loop!Upserted, RowTables, LoopInv, FileOk, Loop!Kinds
<1>5. CASE Loop!NeedsSnapshot(plLoop, rows, payloads # {})
  <2>1. PICK new : new = Loop!NewMilestones(plLoop, rows)
    OBVIOUS
  <2>2. /\ plLoop' = [rows |-> rows, snapshot |-> Loop!Snapshot(rows), notified |-> plLoop.notified \cup new]
        /\ plDue' = new
    BY <1>1, <1>3, <1>5, <2>1 DEF Loop!Updated
  <2>3. new \subseteq Loop!Milestones /\ new \cap plLoop.notified = {}
    BY <2>1 DEF Loop!NewMilestones
  <2>4. FileOk(plLoop') /\ plLoop'.snapshot = Loop!Snapshot(plLoop'.rows)
    BY <1>4, <2>2, <2>3, SnapshotFacts DEF FileOk, LoopInv
  <2>5. plLoop'.snapshot.trades = Counted(plLoop'.rows)
    BY <1>4, <2>2, SnapshotFacts
  <2>6. NoticesOk'
    <3> SUFFICES ASSUME NEW m \in Loop!Milestones
                 PROVE  plSent[m] + (IF m \in new THEN 1 ELSE 0)
                          <= plTorn + (IF m \in plLoop.notified \cup new THEN 1 ELSE 0)
      BY <1>2, <2>2 DEF NoticesOk
    <3>1. plSent[m] \in Nat /\ plTorn \in Nat /\ m \notin plDue
      BY <1>2 DEF LoopInv
    <3>2. plSent[m] <= plTorn + (IF m \in plLoop.notified THEN 1 ELSE 0)
      BY <3>1 DEF LoopInv, NoticesOk
    <3>3. CASE m \in new
      <4>1. m \notin plLoop.notified
        BY <2>3, <3>3
      <4>q. QED BY <3>1, <3>2, <3>3, <4>1
    <3>4. CASE m \notin new
      BY <3>1, <3>2, <3>4
    <3>q. QED BY <3>3, <3>4
  <2>7. plDue' \subseteq plLoop'.notified
    BY <2>2
  <2>8. plSent' \in [Loop!Milestones -> Nat] /\ plTorn' \in Nat /\ plEntries' \subseteq LoopKeys
    BY <1>1, <1>2 DEF LoopInv
  <2>q. QED BY <1>2, <2>4, <2>5, <2>6, <2>7, <2>8 DEF LoopInv
<1>6. CASE ~Loop!NeedsSnapshot(plLoop, rows, payloads # {})
  <2>1. plLoop' = plLoop /\ plDue' = {}
    BY <1>1, <1>3, <1>6 DEF Loop!Updated
  <2>2. payloads = {} /\ ~(Counted(rows) > 0 /\ Counted(rows) # plLoop.snapshot.trades)
    BY <1>6, LoopCounts DEF Loop!NeedsSnapshot, Counted
  <2>3. rows = plLoop.rows /\ plEntries' = {}
    BY <1>1, <1>4, <2>2
  <2>4. Loop!Rows(plLoop) # {} => plLoop.snapshot.trades = Counted(plLoop.rows)
    <3>1. plLoop.rows \in RowTables
      BY DEF LoopInv, FileOk
    <3>q. QED BY <2>2, <2>3, <3>1, RowsAreCounted
  <2>5. NoticesOk'
    BY <1>2, <2>1 DEF LoopInv, NoticesOk
  <2>6. Loop!Rows(plLoop)' # {} => plLoop'.snapshot.trades = Counted(plLoop'.rows)
    BY <2>1, <2>4 DEF Loop!Rows
  <2>q. QED BY <1>2, <2>1, <2>3, <2>5, <2>6 DEF LoopInv
<1>q. QED BY <1>5, <1>6

LEMMA SubmitKeeps == ASSUME LoopInv, Loop!Submit PROVE LoopInv'
<1>1. /\ plStep = "submit" /\ plStep' = "notify"
      /\ UNCHANGED <<plLoop, plEntries, plDue, plSent, plTorn>>
      /\ plBought' = IF plEntries # {} /\ Loop!Gate(plLoop.snapshot, Cardinality(Loop!Rows(plLoop))) = "GO"
                     THEN Loop!Gate(Loop!Snapshot(plLoop.rows), Cardinality(Loop!Rows(plLoop))) ELSE "no"
  BY LoopCounts DEF Loop!Submit
<1>2. plBought' \in {"no", "GO"}
  BY <1>1 DEF LoopInv
<1>3. NoticesOk'
  BY <1>1 DEF LoopInv, NoticesOk
<1>4. Loop!Rows(plLoop)' = Loop!Rows(plLoop)
  BY <1>1 DEF Loop!Rows
<1>q. QED BY <1>1, <1>2, <1>3, <1>4 DEF LoopInv

\* The notices go out, or the run ends without them.
LEMMA RunEnds ==
  ASSUME LoopInv, plStep' = "idle", plEntries' = {}, plDue' = {}, plBought' = "no",
         UNCHANGED <<plLoop, plTorn>>,
         \/ plSent' = plSent
         \/ plSent' = [m \in Loop!Milestones |-> IF m \in plDue THEN plSent[m] + 1 ELSE plSent[m]]
  PROVE  LoopInv'
<1>1. plSent' \in [Loop!Milestones -> Nat]
  BY DEF LoopInv
<1>2. NoticesOk'
  <2> SUFFICES ASSUME NEW m \in Loop!Milestones
               PROVE  plSent'[m] <= plTorn + (IF m \in plLoop.notified THEN 1 ELSE 0)
    <3>1. \A m \in Loop!Milestones : m \notin plDue' /\ plSent'[m] \in Nat
      BY <1>1
    <3>q. QED BY <3>1 DEF NoticesOk
  <2>1. plSent[m] \in Nat /\ plTorn \in Nat /\ plSent'[m] <= plSent[m] + (IF m \in plDue THEN 1 ELSE 0)
    BY DEF LoopInv
  <2>2. plSent[m] + (IF m \in plDue THEN 1 ELSE 0) <= plTorn + (IF m \in plLoop.notified THEN 1 ELSE 0)
    BY DEF LoopInv, NoticesOk
  <2>3. plSent'[m] \in Nat
    BY <1>1
  <2>q. QED BY <2>1, <2>2, <2>3
<1>q. QED BY <1>1, <1>2 DEF LoopInv

LEMMA TearFileKeeps == ASSUME LoopInv, Loop!TearFile PROVE LoopInv'
<1>1. /\ plStep = "idle" /\ plLoop' = Loop!Empty /\ plTorn' = plTorn + 1
      /\ UNCHANGED <<plStep, plEntries, plDue, plBought, plSent>>
  BY DEF Loop!TearFile
<1>2. FileOk(plLoop')
  <2>1. Cardinality(LoopKeys) \in Nat
    BY FS_CardinalityType, CarriedAssumption
  <2>2. [k \in LoopKeys |-> Loop!NoRow] \in RowTables
    BY DEF RowTables
  <2>q. QED BY <1>1, <2>1, <2>2 DEF FileOk, Loop!Empty, Loop!NoSnapshot
<1>3. NoticesOk'
  <2> SUFFICES ASSUME NEW m \in Loop!Milestones
               PROVE  plSent[m] + (IF m \in plDue THEN 1 ELSE 0)
                        <= plTorn + 1 + (IF m \in plLoop'.notified THEN 1 ELSE 0)
    BY <1>1 DEF NoticesOk
  <2>1. plSent[m] \in Nat /\ plTorn \in Nat
    BY DEF LoopInv
  <2>2. plSent[m] + (IF m \in plDue THEN 1 ELSE 0) <= plTorn + (IF m \in plLoop.notified THEN 1 ELSE 0)
    BY DEF LoopInv, NoticesOk
  <2>q. QED BY <2>1, <2>2
<1>4. plDue' = {} /\ plTorn' \in Nat
  BY <1>1 DEF LoopInv
<1>q. QED BY <1>1, <1>2, <1>3, <1>4 DEF LoopInv

\* The snapshot is that of the rows when a run posts entries, and a notice that is due
\* was not sent in this batch (updatePerformanceLoop).
THEOREM LoopInvariant == Loop!Spec => []LoopInv
<1>1. LoopInv /\ [Loop!Next]_(Loop!vars) => LoopInv'
  <2> SUFFICES ASSUME LoopInv, [Loop!Next]_(Loop!vars) PROVE LoopInv'
    OBVIOUS
  <2>1. CASE Loop!RecordTrade
    <3>1. PICK k \in Loop!Rows(plLoop), kind \in {"open", "openUnchecked", "won", "lost", "drift"} :
            plLoop' = [plLoop EXCEPT !.rows[k] = kind]
      BY <2>1 DEF Loop!RecordTrade
    <3>2. k \in LoopKeys /\ kind \in Loop!Kinds
      BY <3>1 DEF Loop!Rows, Loop!Kinds
    <3>q. QED BY <2>1, <3>1, <3>2, RowsMove DEF Loop!RecordTrade
  <2>2. CASE Loop!DropRow
    <3>1. PICK k \in Loop!Rows(plLoop) : plLoop' = [plLoop EXCEPT !.rows[k] = Loop!NoRow]
      BY <2>2 DEF Loop!DropRow
    <3>2. k \in LoopKeys
      BY <3>1 DEF Loop!Rows
    <3>q. QED BY <2>2, <3>1, <3>2, RowsMove DEF Loop!DropRow
  <2>3. CASE Loop!UpdateLoop
    BY <2>3, UpdateLoopKeeps
  <2>4. CASE Loop!Submit
    BY <2>4, SubmitKeeps
  <2>5. CASE Loop!SendMilestones
    BY <2>5, RunEnds DEF Loop!SendMilestones
  <2>6. CASE Loop!EndEarly
    BY <2>6, RunEnds DEF Loop!EndEarly
  <2>7. CASE Loop!TearFile
    BY <2>7, TearFileKeeps
  <2>8. CASE UNCHANGED Loop!vars
    BY <2>8 DEF Loop!vars, LoopInv, NoticesOk, Loop!Rows
  <2>q. QED BY <2>1, <2>2, <2>3, <2>4, <2>5, <2>6, <2>7, <2>8 DEF Loop!Next
<1>q. QED BY <1>1, InitLoop, PTL DEF Loop!Spec

\* For any rows, milestones and number of required trades: entries pass the gate on the
\* rows as they are, the snapshot counts every row, and a milestone is announced once per
\* batch (index.ts:12976, 13334).
THEOREM GateCounts == CarriedSpec => []GateCountsEveryRow
<1>1. LoopInv => GateCountsEveryRow
  <2> SUFFICES ASSUME LoopInv
               PROVE  Loop!TypeOK /\ Loop!EntriesNeedCurrentKpis /\ Loop!SnapshotCountsEveryRow /\ Loop!MilestonesOnce
    BY DEF GateCountsEveryRow
  <2>1. FileOk(plLoop)
    BY DEF LoopInv
  <2>2. Loop!TypeOK
    BY <2>1, LoopCounts DEF LoopInv, FileOk, RowTables, Loop!TypeOK
  <2>3. Loop!EntriesNeedCurrentKpis
    BY DEF LoopInv, Loop!EntriesNeedCurrentKpis
  <2>4. Loop!SnapshotCountsEveryRow
    <3>1. Cardinality(Loop!Rows(plLoop)) = Counted(plLoop.rows)
      BY <2>1, RowsAreCounted DEF FileOk
    <3>q. QED BY <3>1, LoopCounts DEF LoopInv, Loop!SnapshotCountsEveryRow
  <2>5. Loop!MilestonesOnce
    <3> SUFFICES ASSUME NEW m \in Loop!Milestones PROVE plSent[m] <= 1 + plTorn
      BY DEF Loop!MilestonesOnce
    <3>1. plSent[m] \in Nat /\ plTorn \in Nat
      BY DEF LoopInv
    <3>2. plSent[m] + (IF m \in plDue THEN 1 ELSE 0) <= plTorn + (IF m \in plLoop.notified THEN 1 ELSE 0)
      BY DEF LoopInv, NoticesOk
    <3>q. QED BY <3>1, <3>2
  <2>q. QED BY <2>2, <2>3, <2>4, <2>5
<1>q. QED BY <1>1, LoopInvariant, PartsAreKept, PTL

-------------------------------------------------------------------------------
(* The promotion of the HF tuning                                          *)

Statuses == {"OBSERVE", "CANDIDATE", "FROZEN", "UNFREEZE_REVIEW"}
ShadowRecords == [compared : BOOLEAN, alert : BOOLEAN]
RunRecords == [hash : Hashes \cup {"none"}, alert : BOOLEAN, compared : BOOLEAN,
               gate : Promotion!Gates, verified : BOOLEAN]

\* What a freeze has counted really happened. A baseline under review keeps the count
\* that froze it, so one stable run freezes it again.
FreezeOk(freeze, stableRuns, badRuns) ==
  /\ freeze = [status |-> freeze.status, stable |-> freeze.stable, alerts |-> freeze.alerts]
  /\ freeze.status \in Statuses /\ freeze.stable \in Nat /\ freeze.alerts \in 0..AlertStreak
  /\ stableRuns \in Nat /\ badRuns \in Nat
  /\ freeze.status \in {"OBSERVE", "CANDIDATE"} => freeze.stable <= stableRuns
  /\ freeze.status \in {"FROZEN", "UNFREEZE_REVIEW"} => freeze.stable >= StableTarget
  /\ freeze.status = "FROZEN" => badRuns <= freeze.alerts /\ freeze.alerts < AlertStreak

\* A carried verification is no younger than it says.
PathOk(path, proven) ==
  /\ path.hash \in Hashes \cup {"none"} /\ path.verified \in BOOLEAN
  /\ path.at \in Int /\ proven.at \in Int
  /\ path.verified = TRUE => path.at <= proven.at

HistoryOk(shadow) == shadow \in Seq(ShadowRecords) /\ Len(shadow) <= Window

PromotionInv ==
  /\ hfNow \in 0..LastRun /\ hfFaults \in 0..RunFaults
  /\ HistoryOk(hfShadow)
  /\ FreezeOk(hfFreeze, hfStableRuns, hfBadRuns)
  /\ PathOk(hfPath, hfProven)
  /\ hfRun \in RunRecords
  /\ hfStep \in {"idle", "freeze", "path", "done"}
  /\ hfVerdict \in {"none", "BLOCK", "HOLD", "PASS"}
  /\ hfVerdict # "none" => hfStep = "done"
  /\ hfVerdict = "PASS" => hfNow - hfProven.at <= Sticky

LEMMA NoFreezeOk == ASSUME NEW n \in Nat, NEW b \in Nat PROVE FreezeOk(Promotion!NoFreeze, n, b)
  BY CarriedAssumption DEF FreezeOk, Promotion!NoFreeze, Statuses

LEMMA NoPathOk == ASSUME NEW proven, proven.at \in Int PROVE PathOk(Promotion!NoPath, proven)
  BY DEF PathOk, Promotion!NoPath, Promotion!Never

LEMMA NoRunIsARun == Promotion!NoRun \in RunRecords
  BY DEF Promotion!NoRun, RunRecords, Promotion!Gates

LEMMA InitPromotion == Promotion!Init => PromotionInv
<1> SUFFICES ASSUME Promotion!Init PROVE PromotionInv
  OBVIOUS
<1>1. /\ hfNow = 0 /\ hfShadow = <<>> /\ hfFreeze = Promotion!NoFreeze /\ hfPath = Promotion!NoPath
      /\ hfStep = "idle" /\ hfRun = Promotion!NoRun /\ hfVerdict = "none"
      /\ hfStableRuns = 0 /\ hfBadRuns = 0 /\ hfProven = [at |-> Promotion!Never, hash |-> "none"] /\ hfFaults = 0
  BY DEF Promotion!Init
<1>2. hfProven.at \in Int
  BY <1>1 DEF Promotion!Never
<1>3. HistoryOk(hfShadow)
  BY <1>1, CarriedAssumption DEF HistoryOk
<1>4. hfNow \in 0..LastRun /\ hfFaults \in 0..RunFaults
  BY <1>1, CarriedAssumption
<1>5. FreezeOk(hfFreeze, hfStableRuns, hfBadRuns)
  BY <1>1, NoFreezeOk
<1>6. PathOk(hfPath, hfProven)
  BY <1>1, <1>2, NoPathOk
<1>q. QED BY <1>1, <1>3, <1>4, <1>5, <1>6, NoRunIsARun DEF PromotionInv

\* One more record, and the oldest one goes when the window is full.
LEMMA HistoryMoves ==
  ASSUME NEW shadow, HistoryOk(shadow), NEW r \in ShadowRecords
  PROVE  HistoryOk(IF Len(Append(shadow, r)) > Window THEN Tail(Append(shadow, r)) ELSE Append(shadow, r))
<1>1. /\ Append(shadow, r) \in Seq(ShadowRecords) /\ Len(Append(shadow, r)) = Len(shadow) + 1
      /\ Len(shadow) \in Nat /\ Window \in Nat
  BY CarriedAssumption DEF HistoryOk
<1>2. PICK longer : longer = Append(shadow, r)
  OBVIOUS
<1>3. longer \in Seq(ShadowRecords) /\ Len(longer) = Len(shadow) + 1
  BY <1>1, <1>2
<1>4. longer # <<>>
  BY <1>1, <1>3
<1>5. Tail(longer) \in Seq(ShadowRecords) /\ Len(Tail(longer)) = Len(shadow)
  BY <1>1, <1>3, <1>4
<1>q. QED BY <1>1, <1>2, <1>3, <1>5 DEF HistoryOk

\* One step of the freeze.
LEMMA FreezeMoves ==
  ASSUME PromotionInv,
         hfFreeze' = Promotion!NextFreeze(hfFreeze),
         hfStableRuns' = IF Promotion!HasProgress /\ ~Promotion!Noisy THEN hfStableRuns + 1 ELSE 0,
         hfBadRuns' = IF Promotion!HasProgress /\ Promotion!Noisy THEN hfBadRuns + 1 ELSE 0
  PROVE  FreezeOk(hfFreeze', hfStableRuns', hfBadRuns') /\ Promotion!FirstFreezeEarned
<1>1. FreezeOk(hfFreeze, hfStableRuns, hfBadRuns) /\ AlertStreak \in Nat \ {0} /\ StableTarget \in Nat \ {0}
  BY CarriedAssumption DEF PromotionInv
<1>2. CASE ~Promotion!HasProgress
  <2>1. hfFreeze' = Promotion!NoFreeze /\ hfStableRuns' = 0 /\ hfBadRuns' = 0
    BY <1>2 DEF Promotion!NextFreeze
  <2>q. QED BY <2>1, NoFreezeOk DEF Promotion!FirstFreezeEarned, Promotion!NoFreeze
<1>3. CASE Promotion!HasProgress /\ hfFreeze.status = "FROZEN"
  <2>1. hfFreeze' = Promotion!WhileFrozen(hfFreeze)
    BY <1>3 DEF Promotion!NextFreeze
  <2>2. CASE ~Promotion!Noisy
    <3>1. /\ hfFreeze' = [status |-> "FROZEN", stable |-> hfFreeze.stable, alerts |-> 0]
          /\ hfStableRuns' \in Nat /\ hfBadRuns' = 0
      BY <1>1, <1>3, <2>1, <2>2 DEF Promotion!WhileFrozen, FreezeOk
    <3>q. QED BY <1>1, <1>3, <3>1 DEF FreezeOk, Statuses, Promotion!FirstFreezeEarned
  <2>3. CASE Promotion!Noisy
    <3>1. /\ hfFreeze' = [status |-> IF hfFreeze.alerts + 1 >= AlertStreak THEN "UNFREEZE_REVIEW" ELSE "FROZEN",
                          stable |-> hfFreeze.stable, alerts |-> hfFreeze.alerts + 1]
          /\ hfStableRuns' = 0 /\ hfBadRuns' = hfBadRuns + 1
      BY <1>1, <1>3, <2>1, <2>3 DEF Promotion!WhileFrozen, FreezeOk
    <3>2. hfFreeze.alerts + 1 \in 0..AlertStreak /\ hfBadRuns + 1 <= hfFreeze.alerts + 1
      BY <1>1, <1>3 DEF FreezeOk
    <3>q. QED BY <1>1, <1>3, <3>1, <3>2 DEF FreezeOk, Statuses, Promotion!FirstFreezeEarned
  <2>q. QED BY <2>2, <2>3
<1>4. CASE Promotion!HasProgress /\ hfFreeze.status # "FROZEN"
  <2>1. hfFreeze' = Promotion!WhileNotFrozen(hfFreeze)
    BY <1>4 DEF Promotion!NextFreeze
  <2>2. CASE Promotion!Noisy
    <3>1. hfFreeze' = Promotion!NoFreeze /\ hfStableRuns' = 0 /\ hfBadRuns' \in Nat
      BY <1>1, <1>4, <2>1, <2>2 DEF Promotion!WhileNotFrozen, FreezeOk
    <3>q. QED BY <3>1, NoFreezeOk DEF Promotion!FirstFreezeEarned, Promotion!NoFreeze
  <2>3. CASE ~Promotion!Noisy
    <3>1. /\ hfFreeze' = [status |-> IF hfFreeze.stable + 1 >= StableTarget THEN "FROZEN" ELSE "CANDIDATE",
                          stable |-> hfFreeze.stable + 1, alerts |-> 0]
          /\ hfStableRuns' = hfStableRuns + 1 /\ hfBadRuns' = 0
      BY <1>1, <1>4, <2>1, <2>3 DEF Promotion!WhileNotFrozen, FreezeOk
    <3>q. QED BY <1>1, <1>4, <3>1 DEF FreezeOk, Statuses, Promotion!FirstFreezeEarned
  <2>q. QED BY <2>2, <2>3
<1>q. QED BY <1>2, <1>3, <1>4

\* A PASS asks for a verified path.
LEMMA PassNeedsPath ==
  ASSUME NEW verified \in BOOLEAN, Promotion!Verdict(verified) = "PASS" PROVE verified = TRUE
<1>1. Promotion!Verdict(FALSE) # "PASS"
  BY DEF Promotion!Verdict
<1>q. QED BY <1>1, Zenon

LEMMA VerdictIsOne == ASSUME NEW verified \in BOOLEAN PROVE Promotion!Verdict(verified) \in {"BLOCK", "HOLD", "PASS"}
  BY DEF Promotion!Verdict

LEMMA AppendShadowKeeps == ASSUME PromotionInv, Promotion!AppendShadow PROVE PromotionInv'
<1>1. PICK hash \in Hashes, alert \in BOOLEAN, compared \in BOOLEAN, verified \in BOOLEAN, gate \in Promotion!Gates :
        /\ hfRun' = [hash |-> hash, alert |-> alert, compared |-> compared, gate |-> gate, verified |-> verified]
        /\ hfShadow' = IF Len(Append(hfShadow, [compared |-> compared, alert |-> alert])) > Window
                       THEN Tail(Append(hfShadow, [compared |-> compared, alert |-> alert]))
                       ELSE Append(hfShadow, [compared |-> compared, alert |-> alert])
  BY Zenon DEF Promotion!AppendShadow
<1>2. PICK r \in ShadowRecords : r = [compared |-> compared, alert |-> alert]
  BY DEF ShadowRecords
<1>3. HistoryOk(hfShadow')
  BY <1>1, <1>2, HistoryMoves DEF PromotionInv
<1>4. hfRun' \in RunRecords
  BY <1>1 DEF RunRecords
<1>5. /\ hfNow < LastRun /\ hfNow' = hfNow + 1 /\ hfStep' = "freeze" /\ hfVerdict' = "none"
      /\ UNCHANGED <<hfFreeze, hfPath, hfStableRuns, hfBadRuns, hfProven, hfFaults>>
  BY DEF Promotion!AppendShadow, Promotion!saw
<1>q. QED BY <1>3, <1>4, <1>5, CarriedAssumption DEF PromotionInv

LEMMA UpdateFreezeKeeps ==
  ASSUME PromotionInv, Promotion!UpdateFreeze PROVE PromotionInv' /\ Promotion!FirstFreezeEarned
<1>1. /\ hfFreeze' = Promotion!NextFreeze(hfFreeze)
      /\ hfStableRuns' = IF Promotion!HasProgress /\ ~Promotion!Noisy THEN hfStableRuns + 1 ELSE 0
      /\ hfBadRuns' = IF Promotion!HasProgress /\ Promotion!Noisy THEN hfBadRuns + 1 ELSE 0
      /\ hfStep = "freeze" /\ hfStep' = "path"
      /\ UNCHANGED <<hfNow, hfShadow, hfPath, hfRun, hfVerdict, hfProven, hfFaults>>
  BY DEF Promotion!UpdateFreeze
<1>2. FreezeOk(hfFreeze', hfStableRuns', hfBadRuns') /\ Promotion!FirstFreezeEarned
  BY <1>1, FreezeMoves
<1>q. QED BY <1>1, <1>2 DEF PromotionInv

LEMMA PromoteKeeps == ASSUME PromotionInv, Promotion!Promote PROVE PromotionInv'
<1>1. /\ hfPath' = Promotion!NextPath /\ hfVerdict' = Promotion!Verdict(hfPath'.verified) /\ hfStep' = "done"
      /\ hfProven' = IF hfRun.verified THEN [at |-> hfNow, hash |-> hfRun.hash] ELSE hfProven
      /\ UNCHANGED <<hfNow, hfShadow, hfFreeze, hfRun, hfStableRuns, hfBadRuns, hfFaults>>
  BY DEF Promotion!Promote
<1>2. /\ hfRun.verified \in BOOLEAN /\ hfRun.hash \in Hashes \cup {"none"} /\ hfNow \in Int
      /\ hfPath.verified \in BOOLEAN /\ hfPath.at \in Int /\ hfProven.at \in Int /\ Sticky \in Nat
      /\ hfPath.verified = TRUE => hfPath.at <= hfProven.at
  BY CarriedAssumption DEF PromotionInv, PathOk, RunRecords
<1>3. PathOk(hfPath', hfProven') /\ (hfPath'.verified = TRUE => hfNow - hfProven'.at <= Sticky)
  <2>1. CASE hfRun.verified = TRUE
    <3>1. /\ hfPath' = [hash |-> hfRun.hash, verified |-> TRUE, at |-> hfNow]
          /\ hfProven' = [at |-> hfNow, hash |-> hfRun.hash]
      BY <1>1, <2>1 DEF Promotion!NextPath
    <3>q. QED BY <1>2, <3>1 DEF PathOk
  <2>2. CASE hfRun.verified = FALSE /\ Promotion!StickyEligible
    <3>1. /\ hfPath' = [hash |-> hfRun.hash, verified |-> TRUE, at |-> hfPath.at]
          /\ hfProven' = hfProven
      BY <1>1, <2>2 DEF Promotion!NextPath
    <3>2. hfPath.verified = TRUE /\ hfNow - hfPath.at <= Sticky
      BY <1>2, <2>2 DEF Promotion!StickyEligible
    <3>q. QED BY <1>2, <3>1, <3>2 DEF PathOk
  <2>3. CASE hfRun.verified = FALSE /\ ~Promotion!StickyEligible
    <3>1. /\ hfPath' = [hash |-> hfRun.hash, verified |-> FALSE, at |-> Promotion!Never]
          /\ hfProven' = hfProven
      BY <1>1, <2>3 DEF Promotion!NextPath
    <3>q. QED BY <1>2, <3>1 DEF PathOk, Promotion!Never
  <2>q. QED BY <1>2, <2>1, <2>2, <2>3
<1>4. hfPath'.verified \in BOOLEAN
  BY <1>3 DEF PathOk
<1>5. hfVerdict' \in {"BLOCK", "HOLD", "PASS"}
  BY <1>1, <1>4, VerdictIsOne
<1>6. hfVerdict' = "PASS" => hfPath'.verified = TRUE
  BY <1>1, <1>4, PassNeedsPath
<1>q. QED BY <1>1, <1>3, <1>5, <1>6 DEF PromotionInv

LEMMA DieKeeps == ASSUME PromotionInv, Promotion!Die PROVE PromotionInv' /\ Promotion!FirstFreezeEarned
<1>1. /\ hfFaults < RunFaults /\ hfFaults' = hfFaults + 1
      /\ hfStep' = "idle" /\ hfRun' = Promotion!NoRun /\ hfVerdict' = "none"
      /\ UNCHANGED <<hfNow, hfShadow, hfProven>>
      /\ \/ UNCHANGED <<hfFreeze, hfStableRuns, hfBadRuns>>
         \/ hfFreeze' = Promotion!NoFreeze /\ hfStableRuns' = 0 /\ hfBadRuns' = 0
      /\ hfPath' = hfPath \/ hfPath' = Promotion!NoPath
  BY DEF Promotion!Die
<1>2. FreezeOk(hfFreeze', hfStableRuns', hfBadRuns')
  BY <1>1, NoFreezeOk DEF PromotionInv
<1>3. PathOk(hfPath', hfProven')
  BY <1>1, NoPathOk DEF PromotionInv, PathOk
<1>4. Promotion!FirstFreezeEarned
  BY <1>1 DEF Promotion!FirstFreezeEarned, Promotion!NoFreeze
<1>q. QED BY <1>1, <1>2, <1>3, <1>4, NoRunIsARun, CarriedAssumption DEF PromotionInv

LEMMA TearHistoryKeeps == ASSUME PromotionInv, Promotion!TearHistory PROVE PromotionInv'
<1>1. PICK n \in 0..(Len(hfShadow) - 1) : hfShadow' = SubSeq(hfShadow, 1, n)
  BY DEF Promotion!TearHistory
<1>2. HistoryOk(hfShadow')
  <2>1. hfShadow \in Seq(ShadowRecords) /\ Len(hfShadow) <= Window /\ Len(hfShadow) \in Nat /\ Window \in Nat
    BY CarriedAssumption DEF PromotionInv, HistoryOk
  <2>2. n \in Nat /\ n <= Len(hfShadow)
    BY <2>1
  <2>3. SubSeq(hfShadow, 1, n) \in Seq(ShadowRecords) /\ Len(SubSeq(hfShadow, 1, n)) = n
    BY <2>1, <2>2
  <2>q. QED BY <1>1, <2>1, <2>2, <2>3 DEF HistoryOk
<1>3. /\ hfStep = "idle" /\ hfNow < LastRun /\ hfFaults < RunFaults
      /\ hfNow' = hfNow + 1 /\ hfFaults' = hfFaults + 1
      /\ UNCHANGED <<hfFreeze, hfPath, hfStep, hfRun, hfVerdict, hfStableRuns, hfBadRuns, hfProven>>
  BY DEF Promotion!TearHistory, Promotion!saw
<1>q. QED BY <1>2, <1>3, CarriedAssumption DEF PromotionInv

\* What the freeze and the path say of earlier runs is true, and a step of any run
\* keeps it so (updateHfFreezeSummary, resolvePayloadPathVerificationStatus).
LEMMA PromotionStep ==
  PromotionInv /\ [Promotion!Next]_(Promotion!vars) =>
    PromotionInv' /\ (Promotion!FirstFreezeEarned \/ UNCHANGED Promotion!vars)
<1> SUFFICES ASSUME PromotionInv, [Promotion!Next]_(Promotion!vars)
             PROVE  PromotionInv' /\ (Promotion!FirstFreezeEarned \/ UNCHANGED Promotion!vars)
  OBVIOUS
<1>1. hfFreeze' = hfFreeze => Promotion!FirstFreezeEarned
  BY DEF Promotion!FirstFreezeEarned
<1>2. CASE Promotion!Tick
  BY <1>1, <1>2, CarriedAssumption DEF Promotion!Tick, Promotion!saw, PromotionInv
<1>3. CASE Promotion!AppendShadow
  BY <1>1, <1>3, AppendShadowKeeps DEF Promotion!AppendShadow
<1>4. CASE Promotion!UpdateFreeze
  BY <1>4, UpdateFreezeKeeps
<1>5. CASE Promotion!Promote
  BY <1>1, <1>5, PromoteKeeps DEF Promotion!Promote
<1>6. CASE Promotion!EndRun
  BY <1>1, <1>6, NoRunIsARun DEF Promotion!EndRun, Promotion!saw, PromotionInv
<1>7. CASE Promotion!TearHistory
  BY <1>1, <1>7, TearHistoryKeeps DEF Promotion!TearHistory
<1>8. CASE Promotion!Die
  BY <1>8, DieKeeps
<1>9. CASE UNCHANGED Promotion!vars
  BY <1>9 DEF Promotion!vars, PromotionInv
<1>q. QED BY <1>2, <1>3, <1>4, <1>5, <1>6, <1>7, <1>8, <1>9 DEF Promotion!Next

\* What the files of the promotion say of earlier runs is true (updateHfFreezeSummary,
\* resolvePayloadPathVerificationStatus).
THEOREM PromotionInvariant == Promotion!Spec => []PromotionInv
BY InitPromotion, PromotionStep, PTL DEF Promotion!Spec

\* For any targets, window and clock: a PASS rests on a verification that is young
\* enough, a first freeze is earned, and noise ends it (index.ts:11245, 11361).
THEOREM PromotionProven == CarriedSpec => PromotionIsProven
<1>1. PromotionInv => Promotion!TypeOK /\ Promotion!PassIsProven /\ Promotion!NoiseEndsFreeze
  <2> SUFFICES ASSUME PromotionInv
               PROVE  Promotion!TypeOK /\ Promotion!PassIsProven /\ Promotion!NoiseEndsFreeze
    OBVIOUS
  <2>1. hfShadow \in Promotion!BoundedSeq([compared : BOOLEAN, alert : BOOLEAN], Window)
    <3>1. /\ hfShadow \in [1..Len(hfShadow) -> ShadowRecords] /\ Len(hfShadow) \in 0..Window
      BY CarriedAssumption DEF PromotionInv, HistoryOk
    <3>q. QED BY <3>1 DEF Promotion!BoundedSeq, Promotion!SeqOf, ShadowRecords
  <2>2. Promotion!TypeOK
    BY <2>1 DEF PromotionInv, FreezeOk, PathOk, Statuses, Promotion!TypeOK
  <2>3. Promotion!NoiseEndsFreeze
    BY CarriedAssumption DEF PromotionInv, FreezeOk, Promotion!NoiseEndsFreeze
  <2>q. QED BY <2>2, <2>3 DEF PromotionInv, Promotion!PassIsProven
<1>2. PromotionInv /\ PromotionInv' /\ (Promotion!FirstFreezeEarned \/ UNCHANGED Promotion!vars) =>
        [Promotion!TypeOK' /\ Promotion!PassIsProven' /\ Promotion!NoiseEndsFreeze'
         /\ Promotion!FirstFreezeEarned]_promotionVars
  <2>1. PromotionInv' => Promotion!TypeOK' /\ Promotion!PassIsProven' /\ Promotion!NoiseEndsFreeze'
    BY <1>1, PTL
  <2>q. QED BY <2>1 DEF promotionVars, Promotion!vars
<1>q. QED BY <1>2, PromotionInvariant, PromotionStep, PartsAreKept, PTL DEF PromotionIsProven, Promotion!Spec
===============================================================================
