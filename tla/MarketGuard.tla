---- MODULE MarketGuard ----
(***************************************************************************)
(* The market guard (src/market-guard.ts), a run every few minutes: it     *)
(* reads a risk level, holds it, writes the file that halts new entries,   *)
(* runs the level's actions, notifies, and only then saves its memory.     *)
(* A run works on a copy of the state directory; the workflow puts that    *)
(* copy in the cache when the job ends, also when the program failed.      *)
(* The sidecar's gate for new entries (src/index.ts) reads the file.       *)
(***************************************************************************)
EXTENDS Integers, FiniteSetsExt

CONSTANTS
  Active,        \* MARKET_GUARD_MODE active, EXEC_ENABLED and not READ_ONLY
  Raws,          \* the levels the signals may show
  Hold,          \* GUARD_DEESCALATE_HOLD_MIN, in intervals
  Base,          \* GUARD_ACTION_COOLDOWN_MIN, in intervals
  LowestL3, LowestL1, \* the least cooldowns of levels 3 and 1
  ClosedFor,     \* how long the market stays closed, at least
  MaxNow,        \* bound on the clock
  MaxOdd         \* bound on the runs with MARKET_GUARD_FORCE_SEND_ONCE and on
                 \* those whose memory is not saved, together

VARIABLES
  now,           \* the time, in intervals of the schedule
  market,        \* whether the market is open, and since when
  cache,         \* the state directory that the next job restores
  run,           \* the job in progress, with its copy of the directory
  done,          \* level -> when a run that acted on it saved its memory
  did,           \* level -> when a run last began its actions
  watch          \* what an observer of the published file and the orders saw

vars == <<now, market, cache, run, done, did, watch>>

Levels == 0..3
\* Longer ago than any hold or cooldown.
Never == 0 - (Hold + Base + LowestL3 + LowestL1)
NoSignature == <<>>
NoMemory == [level |-> 0, changedAt |-> Never, evaluatedAt |-> Never,
             cooldownUntil |-> Never, signature |-> NoSignature, forceKey |-> NoSignature]
NoControl == [level |-> 0, at |-> Never]
Idle == [pc |-> "idle"]

\* readCooldownMin
Cooldown(level) == CASE level = 3 -> Max({LowestL3, Base \div 2})
                     [] level = 2 -> Base
                     [] level = 1 -> Max({Base, LowestL1})
                     [] OTHER -> 0

\* buildDecision: a lower level has to wait until the last change is old enough.
Applied(raw, memory) ==
  IF raw < memory.level /\ now - memory.changedAt < Hold THEN memory.level ELSE raw

\* Mutation of Reason: the cooldown of one level holds back any other.
ReasonAnyLevel(level, memory, clock) ==
  CASE clock = "closed" -> "market_closed_guard"
    [] clock # "closed" /\ level = 0 -> "level_zero"
    [] clock # "closed" /\ level > 0 /\ now < memory.cooldownUntil -> "cooldown_active"
    [] OTHER -> "actions_allowed"

\* buildDecision: an unknown clock does not stop the actions, and a cooldown
\* counts only while the level stays what it was.
Reason(level, memory, clock) ==
  CASE clock = "closed" -> "market_closed_guard"
    [] clock # "closed" /\ level = 0 -> "level_zero"
    [] clock # "closed" /\ level > 0 /\ level = memory.level /\ now < memory.cooldownUntil
         -> "cooldown_active"
    [] OTHER -> "actions_allowed"

Decision(raw, memory, clock) ==
  LET level == Applied(raw, memory)
  IN  [raw |-> raw, level |-> level, clock |-> clock, at |-> now,
       reason |-> Reason(level, memory, clock)]

Runs(d) == d.reason = "actions_allowed"

\* buildSignature; whether actions run follows from the reason.
Signature(d) == <<d.raw, d.level, d.clock, d.reason>>

\* main: a forced notification passes the deduplication once per signature.
Bypass == run.force /\ run.memory.forceKey # Signature(run.decision)
IsDedupe == /\ run.memory.signature = Signature(run.decision)
            /\ ~Runs(run.decision) /\ ~Bypass

\* Mutation of NextMemory: every run counts as a change of the level.
NextMemoryAlwaysChanged ==
  LET d == run.decision
  IN  [run.memory EXCEPT !.level = d.level, !.evaluatedAt = now, !.signature = Signature(d),
       !.changedAt = now - Hold,
       !.cooldownUntil = IF Runs(d) /\ Cooldown(d.level) > 0 THEN now + Cooldown(d.level) ELSE @,
       !.forceKey = IF Bypass THEN Signature(d) ELSE @]

\* main: what the run leaves for the next one.
NextMemory ==
  LET d == run.decision
  IN  [run.memory EXCEPT !.level = d.level, !.evaluatedAt = now, !.signature = Signature(d),
       !.changedAt = IF run.memory.level = d.level /\ @ # Never THEN @ ELSE now,
       !.cooldownUntil = IF Runs(d) /\ Cooldown(d.level) > 0 THEN now + Cooldown(d.level) ELSE @,
       !.forceKey = IF Bypass THEN Signature(d) ELSE @]

Init == /\ now = 0
        /\ market = [open |-> TRUE, since |-> 0]
        /\ cache = [memory |-> NoMemory, control |-> NoControl]
        /\ run = Idle
        /\ done = [l \in Levels |-> Never]
        /\ did = [l \in Levels |-> Never]
        /\ watch = [changed |-> Never, halted |-> Never, dropped |-> 0, early |-> FALSE,
                    repeats |-> 0, forgot |-> 0, blind |-> FALSE, forced |-> 0]

\* Time passes between jobs, and within one while it acts and notifies.
Tick == /\ now < MaxNow
        /\ run.pc \in {"idle", "acted"}
        /\ now' = now + 1
        /\ UNCHANGED <<market, cache, run, done, did, watch>>

\* The market closes, and opens again after a night.
Bell == /\ run = Idle
        /\ market.open \/ now - market.since >= ClosedFor
        /\ market' = [open |-> ~market.open, since |-> now]
        /\ UNCHANGED <<now, cache, run, done, did, watch>>

\* The clock's answer: the broker may fail to give one.
Answers == {IF market.open THEN "open" ELSE "closed", "unknown"}

\* A job restores the cache, decides, and writes the file for the entry gate
\* before anything else. A job that comes within the interval of the last
\* evaluation ends at once and leaves everything as it was.
Decide(force, raw, clock) ==
  /\ run = Idle
  /\ force \/ now - cache.memory.evaluatedAt >= 1
  /\ LET d == Decision(raw, cache.memory, clock)
     IN  run' = [pc |-> "decided", force |-> force, decision |-> d,
                 memory |-> cache.memory, control |-> [level |-> d.level, at |-> now]]
  /\ force => watch.forced + watch.forgot < MaxOdd
  /\ watch' = [watch EXCEPT !.forced = IF force THEN @ + 1 ELSE @,
                            !.blind = @ \/ (clock = "unknown" /\ ~market.open)]
  /\ UNCHANGED <<now, market, cache, done, did>>

Dedupe == /\ run.pc = "decided" /\ IsDedupe
          /\ run' = [run EXCEPT !.pc = "saved"]
          /\ UNCHANGED <<now, market, cache, done, did, watch>>

\* applyActionLedger, executeAction: the actions of the level, all of them or,
\* when one throws, the first few; the run then fails without its memory. In a
\* mode that does not execute they are only put down as planned.
Act(complete) ==
  /\ run.pc = "decided" /\ ~IsDedupe
  /\ ~complete => Active /\ Runs(run.decision) /\ watch.forced + watch.forgot < MaxOdd
  /\ run' = [run EXCEPT !.pc = IF complete THEN "acted" ELSE "failed"]
  /\ LET l == run.decision.level
     IN  IF Active /\ Runs(run.decision)
         THEN /\ did' = [did EXCEPT ![l] = now]
              /\ watch' = [watch EXCEPT !.repeats =
                             IF now - did[l] < Cooldown(l) THEN @ + 1 ELSE @]
         ELSE UNCHANGED <<did, watch>>
  /\ UNCHANGED <<now, market, cache, done>>

\* The notification cannot be sent: the run fails here.
NotifyFails == /\ run.pc = "acted" /\ watch.forced + watch.forgot < MaxOdd
               /\ run' = [run EXCEPT !.pc = "failed"]
               /\ UNCHANGED <<now, market, cache, done, did, watch>>

\* The message is sent and the memory written.
Save == /\ run.pc = "acted"
        /\ run' = [run EXCEPT !.pc = "saved", !.memory = NextMemory]
        /\ done' = IF Runs(run.decision) THEN [done EXCEPT ![run.decision.level] = now] ELSE done
        /\ UNCHANGED <<now, market, cache, did, watch>>

\* What an observer of the published file notes when its level changes.
Seen == IF run.control.level = cache.control.level THEN watch
        ELSE LET drop == run.control.level < cache.control.level
                 early == drop /\ run.control.at - watch.changed < Hold
             IN  [watch EXCEPT
                   !.changed = run.control.at,
                   !.halted = IF run.control.level >= 2 THEN run.control.at ELSE @,
                   !.dropped = IF drop THEN @ + 1 ELSE @,
                   !.early = @ \/ early]

\* The workflow's last step puts the directory in the cache, whether the
\* program succeeded or not; a failed run leaves its memory out.
Publish == /\ run.pc \in {"saved", "failed"}
           /\ cache' = [memory |-> run.memory, control |-> run.control]
           /\ watch' = [Seen EXCEPT !.forgot = IF run.pc = "failed" THEN @ + 1 ELSE @]
           /\ run' = Idle
           /\ UNCHANGED <<now, market, done, did>>

\* The job is killed, or its cache step fails: nothing of it is kept.
Lose == /\ run.pc \in {"decided", "acted", "saved"}
        /\ watch.forced + watch.forgot < MaxOdd
        /\ watch' = [watch EXCEPT !.forgot = @ + 1]
        /\ run' = Idle
        /\ UNCHANGED <<now, market, cache, done, did>>

\* resolveGuardControlGate with enforcement on, in a mode that trades: a file
\* halts by its level whatever its age, a missing one halts nobody.
GateBlocks(control) == control.level >= 2

Next == \/ Tick \/ Bell \/ Dedupe \/ NotifyFails \/ Save \/ Publish \/ Lose
        \/ \E force \in BOOLEAN, raw \in Raws, clock \in Answers : Decide(force, raw, clock)
        \/ \E complete \in BOOLEAN : Act(complete)

Spec == Init /\ [][Next]_vars

----------------------------------------------------------------------------
(* Properties. *)

Clocks == {"open", "closed", "unknown"}
Reasons == {"market_closed_guard", "level_zero", "cooldown_active", "actions_allowed"}
Signatures == {NoSignature} \cup (Levels \X Levels \X Clocks \X Reasons)
Memories == [level : Levels, changedAt : Int, evaluatedAt : Int, cooldownUntil : Int,
             signature : Signatures, forceKey : Signatures]

TypeOK ==
  /\ now \in 0..MaxNow
  /\ cache.memory \in Memories /\ cache.control \in [level : Levels, at : Int]
  /\ run.pc \in {"idle", "decided", "acted", "saved", "failed"}
  /\ run # Idle => run.memory \in Memories
  /\ done \in [Levels -> Int] /\ did \in [Levels -> Int]

\* The actions of a level begin again within its cooldown only after a run
\* whose memory was lost, or after the level had gone down in between; each
\* such event accounts for one repetition (market-guard.ts:1334, 1685). The hold has
\* to outlast the cooldowns, as 20 minutes do 15: a level that may go down sooner
\* leaves others behind it whose cooldown is not over.
RepeatsAreEarned ==
  (\A l \in Levels : Cooldown(l) <= Hold) => watch.repeats <= watch.forgot + watch.dropped

\* The published level is lowered before the hold is over only after a run
\* whose memory was lost (market-guard.ts:1315).
DropsAreHeld == watch.early => watch.forgot > 0

\* A sidecar run that restores the cache at any moment within the hold of a
\* published level of 2 or more finds its entries blocked, however seldom the
\* guard runs, as long as no run's memory was lost
\* (market-guard.ts:960, index.ts:5008).
EntriesStayOut == watch.forgot = 0 /\ now - watch.halted < Hold => GateBlocks(cache.control)

\* Between jobs, the remembered level is the one that the entry gate reads,
\* as long as no run's memory was lost: the deduplicated run, which saves
\* nothing, has nothing to save (market-guard.ts:1664).
MemoryFollowsFile ==
  run = Idle /\ watch.forgot = 0 => cache.memory.level = cache.control.level

\* A run that ends in market hours with a level above zero leaves that
\* level's actions done within the level's cooldown: an escalation is never
\* held back by the cooldown of another level, nor a level that came up while
\* the market was closed by having come up then. The exception is a run whose
\* clock had no answer while the market was closed: it acts, and its cooldown
\* holds back what comes up before the bell (market-guard.ts:1330-1342).
DangerIsActedOn ==
  ~watch.blind /\ run.pc = "saved" /\ run.decision.level > 0 /\ run.decision.clock = "open"
    => run.decision.at - done[run.decision.level] < Cooldown(run.decision.level)

====
