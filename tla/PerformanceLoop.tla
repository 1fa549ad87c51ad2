---- MODULE PerformanceLoop ----
(***************************************************************************)
(* The 20-trade performance loop of the sidecar (updatePerformanceLoop in  *)
(* src/index.ts): one row per entry payload, a KPI snapshot, the gate that *)
(* live orders need, and the notice at each milestone.  A run saves the    *)
(* file and sends the notice much later, after the broker submit and the   *)
(* summary; it can end in between.  Between runs an operator fills in what *)
(* became of the trades.                                                   *)
(***************************************************************************)
EXTENDS Integers, FiniteSetsExt

CONSTANTS
  Keys,        \* idempotency keys of entries
  Bucket,      \* rows per milestone: 10
  Required,    \* PERFORMANCE_LOOP_REQUIRED_TRADES
  MaxRuns,     \* bound on runs
  MaxFaults    \* bound on runs that end early and on files torn by that

\* A row: planned with and without the note of a passed preflight, the same two
\* bought, closed at a gain or a loss, or closed at a gain and flagged [REASON_DRIFT].
Kinds == {"planned", "unchecked", "open", "openUnchecked", "won", "lost", "drift"}
NoRow == "none"
Milestones == {Bucket, 2 * Bucket}
NoSnapshot == [trades |-> 0, filled |-> 0, closed |-> 0, sumR |-> 0, values |-> 0, drifted |-> 0]

VARIABLES
  loop,        \* state/stage6-20trade-loop.json: rows, last snapshot, notifiedMilestones
  step,        \* where the run is
  entries,     \* the entry payloads of the run
  due,         \* the milestones whose notice this run has to send
  bought,      \* the gate of the rows when the run posted entries, or "no"
  sent,        \* how often each notice was sent
  runs, faults, torn

vars == <<loop, step, entries, due, bought, sent, runs, faults, torn>>

Rows(file) == {k \in Keys : file.rows[k] # NoRow}
OfKind(rows, kinds) == {k \in Keys : rows[k] \in kinds}

\* deriveTradeMetrics, derivePlannedRMultiple: only the sign of the mean matters.
R(kind) == CASE kind = "lost" -> -1
             [] kind \in {"won", "drift"} -> 1
             [] kind \in {"planned", "open"} -> 2
             [] OTHER -> 0

SumR(rows, ks) == FoldSet(LAMBDA k, s: s + R(rows[k]), 0, ks)

\* buildPerformanceSnapshot: what the trades brought, and while none is closed, what
\* the plans of the checked rows promise.  (A closed row was bought, and has no proxy.)
Snapshot(rows) ==
  LET all == OfKind(rows, Kinds)
      filled == OfKind(rows, Kinds \ {"planned", "unchecked"})
      closed == OfKind(rows, {"won", "lost", "drift"})
      proxy == OfKind(rows, {"planned", "open"})
      drifted == Cardinality(OfKind(rows, {"drift"}))
  IN IF filled # {} /\ closed # {}
     THEN [trades |-> Cardinality(all), filled |-> Cardinality(filled), closed |-> Cardinality(closed),
           sumR |-> SumR(rows, closed), values |-> Cardinality(closed), drifted |-> drifted]
     ELSE [trades |-> Cardinality(all),
           filled |-> Cardinality(IF filled = {} THEN proxy ELSE filled), closed |-> Cardinality(proxy),
           sumR |-> 2 * Cardinality(proxy), values |-> Cardinality(proxy), drifted |-> drifted]

\* evaluatePerformanceLoopGate
Gate(snapshot, count) ==
  IF count < Required THEN "PENDING_SAMPLE"
  ELSE IF snapshot.trades <= 0 \/ snapshot.filled <= 0 \/ snapshot.closed <= 0 \/ snapshot.values = 0
  THEN "NO_DATA"
  ELSE IF snapshot.filled * 100 >= 60 * snapshot.trades /\ snapshot.sumR > 0 /\ snapshot.drifted = 0
  THEN "GO" ELSE "NO_GO"

\* updatePerformanceLoop: the boundaries between the last snapshot and the rows.
Crossed(before, after) == {b * Bucket : b \in (before \div Bucket + 1)..(after \div Bucket)}

Empty == [rows |-> [k \in Keys |-> NoRow], snapshot |-> NoSnapshot, notified |-> {}]

\* updatePerformanceLoop: a new row per new key; a row that is there keeps what
\* became of its trade, and its notes.
Upserted(rows, payloads, kind) ==
  [k \in Keys |-> IF k \in payloads /\ rows[k] = NoRow THEN kind ELSE rows[k]]

\* updatePerformanceLoop: notices are due for milestones that were never notified.
NewMilestones(before, rows) ==
  (Crossed(before.snapshot.trades, Cardinality(OfKind(rows, Kinds))) \cap Milestones) \ before.notified

\* Mutation of NeedsSnapshot: a snapshot at milestones only.
NeedsSnapshotAtMilestones(before, rows, touched) ==
  Crossed(before.snapshot.trades, Cardinality(OfKind(rows, Kinds))) # {}

\* updatePerformanceLoop: a run that touched a row always takes a snapshot, any
\* other run when the number of rows is not the snapshot's.
NeedsSnapshot(before, rows, touched) ==
  \/ touched
  \/ LET count == Cardinality(OfKind(rows, Kinds)) IN count > 0 /\ count # before.snapshot.trades

\* updatePerformanceLoop: what the run saves; without a snapshot it saves nothing.
Updated(before, rows, touched) ==
  IF NeedsSnapshot(before, rows, touched)
  THEN [rows |-> rows, snapshot |-> Snapshot(rows),
        notified |-> before.notified \cup NewMilestones(before, rows)]
  ELSE before

\* A file of a version that took its snapshots at milestones only has more rows than
\* its last snapshot counts.
Init ==
  /\ \E known \in SUBSET Keys, counted \in SUBSET Keys :
       /\ counted \subseteq known
       /\ loop = [rows |-> [k \in Keys |-> IF k \in known THEN "planned" ELSE NoRow],
                  snapshot |-> IF counted = {} THEN NoSnapshot
                               ELSE Snapshot([k \in Keys |-> IF k \in counted THEN "planned" ELSE NoRow]),
                  notified |-> Crossed(0, Cardinality(counted)) \cap Milestones]
  /\ sent = [m \in Milestones |-> IF m \in loop.notified THEN 1 ELSE 0]
  /\ step = "idle" /\ entries = {} /\ due = {} /\ bought = "no"
  /\ runs = 0 /\ faults = 0 /\ torn = 0

(***************************************************************************)
(* Between runs                                                            *)
(***************************************************************************)
\* The operator notes a purchase, then an exit, or flags the row.
RecordTrade ==
  /\ step = "idle" /\ runs < MaxRuns
  /\ \E k \in Rows(loop), kind \in {"open", "openUnchecked", "won", "lost", "drift"} :
       /\ CASE loop.rows[k] = "planned" -> kind # "openUnchecked"
            [] loop.rows[k] = "unchecked" -> kind # "open"
            [] loop.rows[k] \in {"open", "openUnchecked"} -> kind \in {"won", "lost", "drift"}
            [] OTHER -> FALSE
       /\ loop' = [loop EXCEPT !.rows[k] = kind]
  /\ UNCHANGED <<step, entries, due, bought, sent, runs, faults, torn>>

\* The operator takes a row out; the file then counts fewer rows than its snapshot.
DropRow ==
  /\ step = "idle" /\ runs < MaxRuns
  /\ \E k \in Rows(loop) : loop' = [loop EXCEPT !.rows[k] = NoRow]
  /\ UNCHANGED <<step, entries, due, bought, sent, runs, faults, torn>>

(***************************************************************************)
(* A run                                                                   *)
(***************************************************************************)
\* updatePerformanceLoop, with the note of this run's preflight on new rows
UpdateLoop ==
  /\ step = "idle" /\ runs < MaxRuns
  /\ \E payloads \in SUBSET Keys, kind \in {"planned", "unchecked"} :
       LET rows == Upserted(loop.rows, payloads, kind)
           touched == payloads # {}
       IN /\ loop' = Updated(loop, rows, touched)
          /\ due' = IF NeedsSnapshot(loop, rows, touched) THEN NewMilestones(loop, rows) ELSE {}
          /\ entries' = payloads
  /\ step' = "submit" /\ runs' = runs + 1 /\ bought' = "no"
  /\ UNCHANGED <<sent, faults, torn>>

\* submitOrdersToBroker, resolveCurrentPerfGateStatus: entries are posted only when
\* the saved loop says GO.
Submit ==
  /\ step = "submit"
  /\ bought' = IF entries # {} /\ Gate(loop.snapshot, Cardinality(Rows(loop))) = "GO"
               THEN Gate(Snapshot(loop.rows), Cardinality(Rows(loop))) ELSE "no"
  /\ step' = "notify"
  /\ UNCHANGED <<loop, entries, due, sent, runs, faults, torn>>

\* sendPerformanceLoopMilestoneAlert
SendMilestones ==
  /\ step = "notify"
  /\ sent' = [m \in Milestones |-> IF m \in due THEN sent[m] + 1 ELSE sent[m]]
  /\ step' = "idle" /\ entries' = {} /\ due' = {} /\ bought' = "no"
  /\ UNCHANGED <<loop, runs, faults, torn>>

\* The run ends early: its process dies, or the summary or the notice cannot be sent.
EndEarly ==
  /\ step # "idle" /\ faults < MaxFaults
  /\ step' = "idle" /\ entries' = {} /\ due' = {} /\ bought' = "no"
  /\ faults' = faults + 1
  /\ UNCHANGED <<loop, sent, runs, torn>>

\* savePerformanceLoopState, loadPerformanceLoopState: a process that dies while it
\* writes leaves a file that does not parse, which the next run takes for an empty batch.
TearFile ==
  /\ step = "idle" /\ runs < MaxRuns /\ faults < MaxFaults
  /\ loop' = Empty
  /\ runs' = runs + 1 /\ faults' = faults + 1 /\ torn' = torn + 1
  /\ UNCHANGED <<step, entries, due, bought, sent>>

Next == RecordTrade \/ DropRow \/ UpdateLoop \/ Submit \/ SendMilestones \/ EndEarly \/ TearFile

Spec == Init /\ [][Next]_vars

(***************************************************************************)
(* Properties                                                              *)
(***************************************************************************)
TypeOK ==
  /\ loop.rows \in [Keys -> Kinds \cup {NoRow}] /\ loop.notified \subseteq Milestones
  /\ loop.snapshot.trades \in 0..Cardinality(Keys) /\ loop.snapshot.filled <= loop.snapshot.trades
  /\ step \in {"idle", "submit", "notify"} /\ due \subseteq loop.notified /\ entries \subseteq Keys
  /\ sent \in [Milestones -> Nat]

\* Entries are bought only when the trades as they are recorded now, the run's own
\* rows among them, earn a GO: never on a snapshot that an operator's record or a new
\* row has overtaken.
EntriesNeedCurrentKpis == bought \in {"no", "GO"}

\* After every run the snapshot counts the rows the loop has, whatever file the run
\* found: the gate never counts rows whose trades it has not weighed.
SnapshotCountsEveryRow ==
  step # "idle" /\ Rows(loop) # {} => loop.snapshot.trades = Cardinality(Rows(loop))

\* A milestone is announced once per batch, although rows come and go and runs end
\* early; a torn file begins a new batch.
MilestonesOnce == \A m \in Milestones : sent[m] <= 1 + torn

====
