---------------------------- MODULE PortfolioAdmission ----------------------------
(***************************************************************************)
(* The portfolio admission of entries and the recommendation ledger that   *)
(* feeds it (applyPortfolioAdmissionToDryExec, updateRecommendationLedger  *)
(* in src/index.ts), run after run against the broker.                     *)
(*                                                                         *)
(* A run reads positions, plans payloads, reads open orders for the        *)
(* monitor, then ledger, open orders and positions for the admission, and  *)
(* open orders once more before it posts. Every read describes another     *)
(* moment, and each of them but the last may fail without stopping the     *)
(* run. What the run made of each symbol it writes into the ledger at its  *)
(* end, and the next run counts those rows.                                *)
(*                                                                         *)
(* Defaults: admission enabled and enforced, lifecycle actions off, the    *)
(* open-entry guard on and its replacements off. No POST arrives after the *)
(* run that sent it.                                                       *)
(***************************************************************************)
EXTENDS Integers, SequencesExt, FiniteSetsExt

CONSTANTS
  Symbols,
  Sectors,                 \* disjoint sets of symbols; a symbol may have no sector
  MaxOpenEntryOrders, MaxNewSymbolsPerDay, MaxActiveSymbolsTotal, MaxSectorActiveSymbols,
  PendingOrderTtl,         \* PORTFOLIO_PENDING_ORDER_TTL_MINUTES, in ticks
  DayLength,               \* ticks of a New York day
  Faults,                  \* which of "monitor", "open", "held", "answer" may fail
  MaxNow                   \* bound of the model: ticks that pass

\* "watched" stands for RECOMMENDED_NEW, ADMITTED_FOR_ENTRY, ORDER_PENDING and
\* HOLD_MONITOR, which nothing in the admission tells apart.
Active == {"watched", "open", "filled"}
Terminal == {"expired", "rejected"}
NoRow == [status |-> "none", first |-> 0, seen |-> 0]

VARIABLES
  now,
  ledger,   \* state/recommendation-ledger.json
  open,     \* at the broker: symbols with an open entry order
  held,     \*                and with a position
  run       \* the run under way, or NoRun

vars == <<now, ledger, open, held, run>>

Day(t) == t \div DayLength
Sector(s) == UNION {k \in Sectors : s \in k}

\* listed: the candidates of the file (allCandidates); audit: those of the decision
\* audit; plan: payloads in rank order; shown, seenOpen: what the monitor and the
\* admission saw open; turned: rejected by the admission or before it; left: payloads
\* still to be posted; guarded: what the open-entry guard saw; said: what became of a
\* payload. For the properties: failed, the reads that did; kept, the candidates held
\* at the start and at the admission; fresh, the admitted ones nobody tracked.
NoRun ==
  [step |-> "idle", listed |-> {}, audit |-> {}, plan |-> <<>>, shown |-> {}, seenOpen |-> {},
   turned |-> {}, left |-> <<>>, guarded |-> {}, said |-> [s \in Symbols |-> "none"],
   failed |-> {}, kept |-> {}, fresh |-> {}]

Init ==
  /\ now = 0
  /\ ledger = [s \in Symbols |-> NoRow]
  /\ open = {} /\ held = {} /\ run = NoRun

-------------------------------------------------------------------------------
(* The broker and the clock *)

Tick ==
  /\ run = NoRun /\ now < MaxNow
  /\ now' = now + 1
  /\ UNCHANGED <<ledger, open, held, run>>

Fill(s) ==
  /\ s \in open
  /\ held' = held \cup {s} /\ open' = open \ {s}
  /\ UNCHANGED <<now, ledger, run>>

\* Cancelled, or expired at the end of the day.
EntryEnds(s) ==
  /\ s \in open
  /\ open' = open \ {s}
  /\ UNCHANGED <<now, ledger, held, run>>

\* The legs of the bracket, or somebody else, sell the position.
PositionEnds(s) ==
  /\ s \in held
  /\ held' = held \ {s}
  /\ UNCHANGED <<now, ledger, open, run>>

-------------------------------------------------------------------------------
(* The ledger *)

ActiveRows == {s \in Symbols : ledger[s].status \in Active}
NewToday == {s \in ActiveRows : Day(ledger[s].first) = Day(now)}

\* deriveRecommendationLifecycle
Derived(s) ==
  CASE run.said[s] = "filled" -> "filled"
    [] run.said[s] = "open" -> "open"
    [] run.said[s] \notin {"open", "filled"} /\ s \in run.shown -> "open"
    [] run.said[s] \notin {"open", "filled"} /\ s \in run.turned \ run.shown -> "rejected"
    [] OTHER -> "watched"

Stale(s) ==
  /\ ledger[s].status \in Active \ {"open", "filled"}
  /\ now - ledger[s].seen > PendingOrderTtl

\* The row of each symbol when the run saves: its own, or expired, or as it was.
Row(s) ==
  IF s \in run.audit
  THEN [status |-> Derived(s), first |-> IF ledger[s] = NoRow THEN now ELSE ledger[s].first, seen |-> now]
  ELSE IF Stale(s) THEN [ledger[s] EXCEPT !.status = "expired"] ELSE ledger[s]

-------------------------------------------------------------------------------
(* A run *)

\* buildDryExecPayloads: an executable candidate of a held symbol gets no payload.
PreBlocked(s, seen) == s \in seen

\* Positions are read and payloads planned, for any executable candidates and in any
\* order; a candidate skipped for another reason (the guards included) is only watched.
Plan ==
  /\ run = NoRun
  /\ \E audit \in SUBSET Symbols, fails \in {{}, {"plan"}} :
     \E listed \in {audit, Symbols} :
     \E executable \in SUBSET audit :
     LET seen == IF fails = {} THEN held ELSE {}
         turned == {s \in executable : PreBlocked(s, seen)}
     IN  /\ fails # {} => "held" \in Faults
         /\ \E plan \in SetToSeqs(executable \ turned) :
              run' = [NoRun EXCEPT !.step = "monitor", !.listed = listed, !.audit = audit,
                        !.plan = plan, !.turned = turned, !.failed = fails,
                        !.kept = held \cap executable]
  /\ UNCHANGED <<now, ledger, open, held>>

\* applyOpenOrderMonitorToDryExec: only rows of the audit are matched.
Monitor ==
  /\ run.step = "monitor"
  /\ \E shown \in {open \cap run.audit} \cup (IF "monitor" \in Faults THEN {{}} ELSE {}) :
       run' = [run EXCEPT !.step = "readOpen", !.shown = shown]
  /\ UNCHANGED <<now, ledger, open, held>>

\* applyPortfolioAdmissionToDryExec asks for open orders first and for positions after
\* them, so a symbol that fills in between is seen twice and not overlooked.
ReadOpen ==
  /\ run.step = "readOpen"
  /\ \/ run' = [run EXCEPT !.step = "admit", !.seenOpen = open]
     \/ "open" \in Faults /\ run' = [run EXCEPT !.step = "admit", !.failed = @ \cup {"open"}]
  /\ UNCHANGED <<now, ledger, open, held>>

Tracked(seenHeld) == ActiveRows \cup run.seenOpen \cup seenHeld
\* Sectors of open and held symbols are looked up among the file's candidates.
Counted(seenHeld) == ActiveRows \cup ((run.seenOpen \cup seenHeld) \cap run.listed)

\* Mutation of Admits: what the run has admitted already is not counted.
AdmitsUncounted(s, adm, seenHeld) ==
  /\ s \in run.seenOpen \/ Cardinality(run.seenOpen) < MaxOpenEntryOrders
  /\ s \notin seenHeld
  /\ s \in Tracked(seenHeld) \/
       /\ Cardinality(NewToday) < MaxNewSymbolsPerDay
       /\ Cardinality(Tracked(seenHeld)) < MaxActiveSymbolsTotal
       /\ Cardinality(Counted(seenHeld) \cap Sector(s)) < MaxSectorActiveSymbols
\* Whether a payload passes the counters, once the payloads in adm have passed.
Admits(s, adm, seenHeld) ==
  LET new == adm \ Tracked(seenHeld)
  IN  /\ s \in run.seenOpen \/ Cardinality(run.seenOpen \cup adm) < MaxOpenEntryOrders
      /\ s \notin seenHeld
      /\ s \in Tracked(seenHeld) \/
           /\ Cardinality(NewToday) + Cardinality(new) < MaxNewSymbolsPerDay
           /\ Cardinality(Tracked(seenHeld) \cup new) < MaxActiveSymbolsTotal
           /\ Cardinality((Counted(seenHeld) \cup new) \cap Sector(s)) < MaxSectorActiveSymbols

\* The payloads that pass, each weighed against those before it that passed; low: those
\* below the floors of fillability or reward to risk.
Pass(passed, low, seenHeld) ==
  \A i \in DOMAIN run.plan :
    LET earlier == {run.plan[j] : j \in 1..(i - 1)}
    IN  run.plan[i] \in passed <=>
          run.plan[i] \notin low /\ Admits(run.plan[i], passed \cap earlier, seenHeld)
InRank(left) ==
  \A i, j \in DOMAIN left : i < j =>
    \E a, b \in DOMAIN run.plan : a < b /\ run.plan[a] = left[i] /\ run.plan[b] = left[j]

Admit ==
  /\ run.step = "admit"
  /\ \E fails \in {{}, {"held"}}, low \in SUBSET ToSet(run.plan), passed \in SUBSET ToSet(run.plan) :
     LET seenHeld == IF fails = {} THEN held ELSE {}
     IN  /\ fails \subseteq Faults /\ Pass(passed, low, seenHeld)
         /\ \E left \in SetToSeqs(passed) :
              /\ InRank(left)
              /\ run' = [run EXCEPT !.step = "submit", !.plan = <<>>, !.seenOpen = {},
                           !.turned = @ \cup (ToSet(run.plan) \ passed), !.left = left,
                           !.failed = @ \cup fails, !.kept = @ \cap held,
                           !.fresh = passed \ Tracked(seenHeld)]
  /\ UNCHANGED <<now, ledger, open, held>>

\* submitOrdersToBroker: the send dedupe or a gate stops the run before it posts, the
\* read of open orders fails, or the guard has what it needs.
Submit ==
  /\ run.step = "submit"
  /\ \/ run' = [run EXCEPT !.step = "save", !.left = <<>>]
     \/ run' = [run EXCEPT !.step = "post", !.guarded = open]
  /\ UNCHANGED <<now, ledger, open, held>>

\* The next payload is dropped (a reserved key, no approval) or finds an open entry of
\* its symbol.
Skip ==
  /\ run.step = "post" /\ run.left # <<>>
  /\ run' = [run EXCEPT !.left = Tail(@)]
  /\ UNCHANGED <<now, ledger, open, held>>

Post ==
  /\ run.step = "post" /\ run.left # <<>> /\ Head(run.left) \notin run.guarded
  /\ LET s == Head(run.left)
         Says(said) == run' = [run EXCEPT !.left = Tail(@), !.said[s] = said,
                                          !.guarded = IF said = "failed" THEN @ ELSE @ \cup {s}]
     IN  \/ Says("open") /\ open' = open \cup {s} /\ UNCHANGED held
         \/ Says("filled") /\ held' = held \cup {s} /\ UNCHANGED open
         \/ Says("failed") /\ UNCHANGED <<open, held>>
         \/ "answer" \in Faults /\ Says("failed") /\ open' = open \cup {s} /\ UNCHANGED held
  /\ UNCHANGED <<now, ledger>>

\* saveDryExecPreview: updateRecommendationLedger
Save ==
  /\ run.step = "save" \/ (run.step = "post" /\ run.left = <<>>)
  /\ ledger' = [s \in Symbols |-> Row(s)]
  /\ run' = NoRun
  /\ UNCHANGED <<now, open, held>>

\* An error, the time limit or a killed runner.
Die ==
  /\ run # NoRun
  /\ run' = NoRun
  /\ UNCHANGED <<now, ledger, open, held>>

Next ==
  \/ Tick \/ \E s \in Symbols : Fill(s) \/ EntryEnds(s) \/ PositionEnds(s)
  \/ Plan \/ Monitor \/ ReadOpen \/ Admit \/ Submit \/ Skip \/ Post \/ Save \/ Die

Spec == Init /\ [][Next]_vars

-------------------------------------------------------------------------------
(* Properties *)

Posted == {s \in Symbols : run.said[s] # "none"}

TypeOK ==
  /\ now \in 0..MaxNow /\ open \subseteq Symbols /\ held \subseteq Symbols
  /\ ledger \in [Symbols -> [status : Active \cup Terminal, first : 0..now, seen : 0..now] \cup {NoRow}]
  /\ run.step \in {"idle", "monitor", "readOpen", "admit", "submit", "post", "save"}
  /\ ToSet(run.left) \cup ToSet(run.plan) \subseteq run.audit
  /\ run.audit \subseteq run.listed

\* Unless the admission could not read them, the open entry orders at the broker never
\* exceed the cap because of a run, however orders fill and end under it and whatever
\* the last runs left (README.md:229, index.ts:7988).
OpenEntriesStayCapped ==
  Cardinality(open) > MaxOpenEntryOrders => "open" \in Faults

\* A run that began with a position in a symbol and had it when it admitted payloads
\* has posted no entry for it, unless both its reads of the positions failed
\* (index.ts:6524, 7995).
HeldIsNotBoughtAgain ==
  Posted \cap run.kept # {} => {"plan", "held"} \subseteq run.failed

\* With its reads answered, a run that posts symbols nobody tracked keeps what is
\* tracked, what is tracked of their sectors and what is new today within the caps, at
\* the broker and not only in its counters (README.md:230-232, index.ts:8002-8027).
NewcomersStayWithinCaps ==
  LET newcomers == Posted \cap run.fresh
      exposed == open \cup held
  IN  newcomers # {} /\ run.failed \cap {"open", "held"} = {} =>
        /\ Cardinality(ActiveRows \cup exposed) <= MaxActiveSymbolsTotal
        /\ Cardinality(NewToday \cup newcomers) <= MaxNewSymbolsPerDay
        /\ \A s \in newcomers :
             Cardinality((ActiveRows \cup (exposed \cap run.listed)) \cap Sector(s))
               <= MaxSectorActiveSymbols

\* README.md:233 says that stale recommendations that are neither open nor filled leave
\* the active set: after a run, no row of a symbol without order or position that was
\* not seen within the time limit is active.
StaleLeaveTheActiveSet ==
  [][Save => \A s \in Symbols \ (open \cup held) :
               s \in ActiveRows' => now - ledger'[s].seen <= PendingOrderTtl]_vars
===================================================================================
