---------------------------- MODULE LifecycleExit ----------------------------
(***************************************************************************)
(* The exit orders (SCALE_DOWN, EXIT_PARTIAL, EXIT_FULL) of src/index.ts   *)
(* for one held symbol: what a run that plans an exit does from the        *)
(* duplicate check to the ledger, against a broker that holds the position *)
(* and its protective order. The last word before the POST is the          *)
(* pre-submit safety check, which weighs the position read at the start of *)
(* the submission, the open orders listed later, and the two state files.  *)
(*                                                                         *)
(* Every stage-6 file plans one exit of the symbol, so a key is a file. No *)
(* file is the one that bought the position: its ledger row and entry are  *)
(* filled and agree, which is the ownership the check asks for. A long     *)
(* position; approval, environment and perf gates pass or keep the run     *)
(* from submitting. Runs do not overlap and the state files are neither    *)
(* rolled back nor pruned; the daily reset is left out, since the          *)
(* preflight phase takes the payload before it (see SidecarRun).           *)
(***************************************************************************)
EXTENDS OrderLedger, Integers, FiniteSets

CONSTANTS
  Keys, Full,   \* the files that plan an exit; those that plan EXIT_FULL
  MaxQty,       \* size of the position
  Faults,       \* sets of "late", "death" and "race", of which a behaviour has one
  MaxRuns       \* bound of the model: runs started

\* The records at the broker and of the files.
NoneOr(S) == {None} \cup S
Cids == Keys \X {"base", "action"}
ExitOrders == [status : {"accepted", "partially_filled", "filled", "canceled", "rejected"}, left : 0..MaxQty]
Answers == [status : {"accepted", "submitted"}, cid : Cids, oid : NoneOr(Keys)]
Entries == [status : NoneOr(OrderLifecycleStatus), cid : Cids, oid : NoneOr(Keys)]
LedgerRows == [status : OrderLifecycleStatus, cid : Cids, oid : NoneOr(Keys), day : {0}]
BrokerRows == [attempted : BOOLEAN, submitted : NoneOr(Answers), cid : Cids]

ASSUME KeysAssumption == IsFiniteSet(Keys) /\ Full \subseteq Keys
ASSUME NoneAssumption ==
  None \notin UNION {Keys, OrderLifecycleStatus, ExitOrders, Answers, Entries, LedgerRows, BrokerRows}
ASSUME BoundsAssumption == {MaxQty, MaxRuns} \subseteq Nat \ {0}
ASSUME FaultsAssumption ==
  Faults \subseteq SUBSET {"late", "death", "race"} /\ \A f \in Faults : ~({"late", "death"} \subseteq f)

VARIABLES
  faults,             \* the faults this behaviour may have
  position, protect,  \* the broker: shares held (below zero: short); shares of the protective order
  orders,             \* the broker: the exit order of each key, or None
  late,               \* POSTs given up by their run and still on their way: [key, qty]
  idem, released,     \* order-idempotency.json: the entry of each key and its releases
  ledger,             \* order-ledger.json
  runs, pc, key,      \* runs started; where the run is; the file it works on
  held, seen, row     \* position as read; open orders as listed; the broker row of the payload

state == <<idem, released, ledger>>
broker == <<position, protect, orders, late>>
vars == <<faults, position, protect, orders, late, idem, released, ledger, runs, pc, key, held, seen, row>>

Ended == Terminal \cup {"filled"}

Record(status, cid, oid) == [status |-> status, cid |-> cid, oid |-> oid]
\* client_order_id of the payload, and the id the exit is sent under.
Base(k) == <<k, "base">>
Action(k) == <<k, "action">>
NotListed == [protective |-> FALSE, exit |-> FALSE]
NotAttempted(k) == [attempted |-> FALSE, submitted |-> None, cid |-> Base(k)]

Init ==
  /\ faults \in Faults
  /\ position = MaxQty /\ protect \in {0, MaxQty}
  /\ orders = [k \in Keys |-> None] /\ late = {}
  /\ idem = [k \in Keys |-> None] /\ released = [k \in Keys |-> <<>>]
  /\ ledger = [k \in Keys |-> None]
  /\ runs = 0 /\ pc = "idle" /\ key = None
  /\ held = 0 /\ seen = NotListed /\ row = None

OpenExit(k) == orders[k] # None /\ orders[k].status \in Open

-------------------------------------------------------------------------------
(* The broker *)

Filled(o, n) == [o EXCEPT !.left = @ - n, !.status = IF o.left = n THEN "filled" ELSE "partially_filled"]
ExitFills ==
  \E k \in Keys : \E n \in 1..MaxQty :
    /\ OpenExit(k) /\ n <= orders[k].left
    /\ orders' = [orders EXCEPT ![k] = Filled(@, n)]
    /\ position' = position - n
    /\ UNCHANGED <<faults, protect, late, state, runs, pc, key, held, seen, row>>

ExitEnds ==
  \E k \in Keys, s \in {"canceled", "rejected"} :
    /\ OpenExit(k)
    /\ orders' = [orders EXCEPT ![k].status = s]
    /\ UNCHANGED <<faults, position, protect, late, state, runs, pc, key, held, seen, row>>

\* The protective order fills, or somebody cancels it. Unless "race" is in faults
\* it does not fill between a run's look at the position and its POST.
ProtectionGoes ==
  /\ protect > 0
  /\ \/ /\ "race" \in faults \/ pc \notin {"list", "check", "post"}
        /\ position' = position - protect
     \/ UNCHANGED position
  /\ protect' = 0
  /\ UNCHANGED <<faults, orders, late, state, runs, pc, key, held, seen, row>>

NewOrder(qty, s) == [status |-> s, left |-> qty]
LatePostArrives ==
  \E p \in late :
    /\ late' = late \ {p}
    /\ orders' = IF orders[p.key] = None
                 THEN [orders EXCEPT ![p.key] = NewOrder(p.qty, "accepted")] ELSE orders
    /\ UNCHANGED <<faults, position, protect, state, runs, pc, key, held, seen, row>>

-------------------------------------------------------------------------------
(* applyOrderIdempotency: preflight, then final *)

StartRun ==
  /\ pc = "idle" /\ runs < MaxRuns
  /\ \E k \in Keys : key' = k /\ row' = NotAttempted(k)
  /\ runs' = runs + 1 /\ pc' = "preflight"
  /\ UNCHANGED <<faults, broker, state, held, seen>>

Drop == pc' = "ledger" /\ row' = None
LastIsTerminal(rel) == rel # <<>> /\ rel[Len(rel)].status \in Terminal

\* A dry run asks the broker nothing, keeps a reserved payload and reserves none.
DryRun ==
  /\ pc = "preflight"
  /\ IF idem[key] = None /\ LastIsTerminal(released[key]) THEN Drop ELSE pc' = "ledger" /\ UNCHANGED row
  /\ UNCHANGED <<faults, broker, state, runs, key, held, seen>>

\* What the lookup of an entry's client order id makes of it.
Resolved(k) ==
  LET e == idem[k] IN
  IF e.cid = Action(k) /\ orders[k] # None THEN Record(orders[k].status, e.cid, k) ELSE e
\* An entry without broker data whose id the broker does not know is released,
\* and one whose order has ended unfilled, unless its cooldown still runs.
Releases(e) ==
  IF e.status = None /\ e.oid = None THEN {TRUE}
  ELSE IF e.status \in Terminal THEN BOOLEAN ELSE {FALSE}

\* The payload goes on when its key is free and its last release is not that of
\* an order that ended unfilled. A lookup that throws keeps the entry.
Preflight ==
  /\ pc = "preflight"
  /\ UNCHANGED <<faults, broker, ledger, runs, key, held, seen>>
  /\ IF idem[key] = None
     THEN /\ IF LastIsTerminal(released[key]) THEN Drop ELSE pc' = "reserve" /\ UNCHANGED row
          /\ UNCHANGED <<idem, released>>
     ELSE \/ Drop /\ UNCHANGED <<idem, released>>
          \/ LET e == Resolved(key) IN
             \E go \in Releases(e) :
               IF go
               THEN /\ idem' = [idem EXCEPT ![key] = None]
                    /\ released' = [released EXCEPT ![key] = Append(@, e)]
                    /\ IF LastIsTerminal(released'[key]) THEN Drop ELSE pc' = "reserve" /\ UNCHANGED row
               ELSE Drop /\ idem' = [idem EXCEPT ![key] = e] /\ UNCHANGED released

Reserve ==
  /\ pc = "reserve"
  /\ idem' = [idem EXCEPT ![key] = Record(None, Base(key), None)]
  /\ pc' = "position"
  /\ UNCHANGED <<faults, broker, released, ledger, runs, key, held, seen, row>>

\* A preflight that blocks or the approval queue takes the payload away before it
\* is reserved; a gate of the submission leaves it, reserved and not attempted.
GateStops ==
  /\ \/ pc = "reserve" /\ Drop
     \/ pc = "position" /\ pc' = "ledger" /\ UNCHANGED row
  /\ UNCHANGED <<faults, broker, state, runs, key, held, seen>>

-------------------------------------------------------------------------------
(* submitOrdersToBroker and submitLifecycleExitOrder *)

\* loadHeldPositionMap, once per submission; without a position nothing is sent.
ReadHeld ==
  /\ pc = "position"
  /\ held' = position
  /\ pc' = IF position > 0 THEN "list" ELSE "ledger"
  /\ UNCHANGED <<faults, broker, state, runs, key, seen, row>>

\* classifyLifecycleExitOpenOrders; without an answer the check refuses.
ListOrders ==
  /\ pc = "list"
  /\ \/ seen' = [protective |-> protect > 0, exit |-> \E k \in Keys : OpenExit(k)]
        /\ pc' = "check"
     \/ pc' = "ledger" /\ UNCHANGED seen
  /\ UNCHANGED <<faults, broker, state, runs, key, held, row>>

\* classifyLifecycleExitStateEvidence: the record a ledger row is compared with,
\* and what the two files say against another exit.
EvidenceOf(k) == Evidence(idem[k], released[k])
StatusOf(e) == IF e = None THEN None ELSE e.status
IdsConflict(k) ==
  LET e == EvidenceOf(k) IN
  e # None /\ (e.cid # ledger[k].cid \/ (None \notin {e.oid, ledger[k].oid} /\ e.oid # ledger[k].oid))
InLedger == {k \in Keys : ledger[k] # None}
Ambiguous(k) == idem[k] = None /\ Len(released[k]) > 1
UnendedExits ==
  {k \in InLedger \ {key} : ledger[k].status \notin Ended}
    \cup {k \in Keys \ {key} : idem[k] # None /\ StatusOf(idem[k]) \notin Ended}
NeedsReconciliation(k) ==
  ledger[k].status \in Ended /\ (StatusOf(EvidenceOf(k)) # ledger[k].status \/ IdsConflict(k))

\* Mutation of OrdersForbid: a protective order does not stand in the way.
OrdersForbidNotProtected == seen.exit \/ UnendedExits # {}
\* The refusals over orders that are or may be open.
OrdersForbid == seen.protective \/ seen.exit \/ UnendedExits # {}

\* evaluateLifecycleExitPreSubmitSafety. A refusal is not an attempt.
Check ==
  /\ pc = "check"
  /\ \/ pc' = "ledger"  \* a refusal; also when the market is closed or its clock unknown
     \/ /\ ~OrdersForbid
        /\ ~\E k \in InLedger : Ambiguous(k) \/ IdsConflict(k) \/ NeedsReconciliation(k)
        /\ pc' = "post"
  /\ UNCHANGED <<faults, broker, state, runs, key, held, seen, row>>

Attempted(k) == [attempted |-> TRUE, submitted |-> None, cid |-> Base(k)]
Submitted(k, status, oid) ==
  [attempted |-> TRUE, submitted |-> Record(status, Action(k), oid), cid |-> Action(k)]
\* resolveLifecycleExitOrderIntent: a share of what was held when the run looked.
ExitQty(k) == IF k \in Full THEN {held} ELSE 1..held

\* POST /v2/orders under the action's id, never tried again. Answered (perhaps with
\* a body that is no object), created without an answer, refused or lost, or still
\* on its way when the run gives it up; an id the broker knows is refused.
Post ==
  /\ pc = "post" /\ pc' = "record"
  /\ \/ row' = Attempted(key) /\ UNCHANGED <<orders, late>>
     \/ /\ orders[key] = None
        /\ \E q \in ExitQty(key) :
             \/ /\ orders' = [orders EXCEPT ![key] = NewOrder(q, "accepted")]
                /\ row' \in {Submitted(key, "accepted", key), Submitted(key, "submitted", None), Attempted(key)}
                /\ UNCHANGED late
             \/ /\ "late" \in faults
                /\ late' = late \cup {[key |-> key, qty |-> q]}
                /\ row' = Attempted(key) /\ UNCHANGED orders
  /\ UNCHANGED <<faults, position, protect, state, runs, key, held, seen>>

-------------------------------------------------------------------------------
(* The records of the run *)

Recorded(k) == IF row.submitted = None THEN Record(None, row.cid, None) ELSE row.submitted
\* updateOrderIdempotencyBrokerSubmission; only a reserved key is updated.
RecordSubmission ==
  /\ pc = "record" /\ pc' = "ledger"
  /\ idem' = IF idem[key] = None THEN idem ELSE [idem EXCEPT ![key] = Recorded(key)]
  /\ UNCHANGED <<faults, broker, released, ledger, runs, key, held, seen, row>>

Row(k) ==
  IF k # key \/ row = None THEN ledger[k] ELSE Upserted(ledger[k], row.submitted, row.cid, 0)
\* updateOrderLedger: the payload's row, then every row against its evidence.
UpdateLedger ==
  /\ pc = "ledger" /\ pc' = "idle"
  /\ ledger' = [k \in Keys |-> Reconciled(Row(k), idem[k], released[k], 0)]
  /\ key' = None /\ row' = None /\ held' = 0 /\ seen' = NotListed
  /\ UNCHANGED <<faults, broker, idem, released, runs>>

\* The process dies; the files stay as they are.
Die ==
  /\ "death" \in faults /\ pc # "idle" /\ pc' = "idle"
  /\ key' = None /\ row' = None /\ held' = 0 /\ seen' = NotListed
  /\ UNCHANGED <<faults, broker, state, runs>>

Next ==
  \/ ExitFills \/ ExitEnds \/ ProtectionGoes \/ LatePostArrives
  \/ StartRun \/ DryRun \/ Preflight \/ Reserve \/ GateStops
  \/ ReadHeld \/ ListOrders \/ Check \/ Post
  \/ RecordSubmission \/ UpdateLedger \/ Die

Spec == Init /\ [][Next]_vars
-------------------------------------------------------------------------------
(* Properties *)


\* Every variable keeps its shape, whatever the broker answers: the records that
\* submitLifecycleExitOrder and the two state files exchange.
TypeOK ==
  /\ position \in (0 - MaxQty * Cardinality(Keys))..MaxQty /\ protect \in 0..MaxQty
  /\ orders \in [Keys -> NoneOr(ExitOrders)]
  /\ idem \in [Keys -> NoneOr(Entries)] /\ ledger \in [Keys -> NoneOr(LedgerRows)]
  /\ late \subseteq [key : Keys, qty : 1..MaxQty]
  /\ runs \in 0..MaxRuns /\ key \in NoneOr(Keys) /\ held \in (0 - MaxQty * Cardinality(Keys))..MaxQty
  /\ pc \in {"idle", "preflight", "reserve", "position", "list", "check", "post", "record", "ledger"}

MayComeAlive(k) == orders[k] = None /\ \E p \in late : p.key = k
\* At most one exit order of the symbol is open or may still become open, whichever
\* files planned them, whatever answers were lost (open_exit_order_already_present).
OneLiveExit == Cardinality({k \in Keys : OpenExit(k) \/ MayComeAlive(k)}) <= 1

\* A long position is never sold short, by exits and the protective order together
\* (exit_quantity_exceeds_current_position, protective_child_cancel_confirmation_required),
\* unless runs die, or the protective order fills while a run prepares its POST.
NeverOversells == faults \subseteq {"late"} => position >= 0

\* A ledger row ends only as its order did: an exit without a known end never
\* counts as over (terminal_reconciliation_required).
EndedRowsAreTrue ==
  \A k \in Keys : ledger[k] # None /\ ledger[k].status \in Ended =>
    orders[k] # None /\ orders[k].status = ledger[k].status
==============================================================================
