------------------------------ MODULE SidecarRun ------------------------------
(***************************************************************************)
(* The run of the sidecar (main in src/index.ts), from the choice of a     *)
(* stage-6 file to the saved run state, over and over, against the broker. *)
(* A run plans entry orders, drops those whose key is already reserved     *)
(* (twice: before and after the preflight gate), submits at most one,      *)
(* records the answer in order-idempotency.json, then in order-ledger.json *)
(* and only then remembers that it ran.                                    *)
(*                                                                         *)
(* Runs of one ref never overlap (the concurrency group of dry-run.yml).   *)
(* A run can die at every step. The state directory then travels to the    *)
(* next run in a cache whose save may fail, in which case the next run     *)
(* starts from an older copy.                                              *)
(*                                                                         *)
(* Modelled with the defaults: entry orders only, no held-position rules,  *)
(* open-entry guard on, stale-order replacement off, dry runs not enforced.*)
(* A save of one state file is atomic (OrderStateStore); releases stay     *)
(* below the 200 the file keeps.                                           *)
(***************************************************************************)
EXTENDS OrderLedger, FiniteSets

CONSTANTS
  Hashes, Symbols,   \* stage-6 files and the symbols they recommend
  Lives,             \* statuses broker orders take in this instance
  Faults,            \* sets of faults, of which a behaviour has one: what may happen
                     \* out of "cache_lost", "bad_body" and "late_post"
  Ttl, LedgerTtl,    \* ORDER_IDEMPOTENCY_TTL_DAYS, ORDER_LEDGER_TTL_DAYS
  MaxChecks,         \* ORDER_IDEMPOTENCY_BROKER_RECONCILE_MAX_CHECKS
  ReleaseOnMissing,  \* ORDER_IDEMPOTENCY_RELEASE_ON_MISSING_BROKER_ORDER
  MaxRuns,           \* bounds of the model: runs started,
  MaxDay, FaultDays  \* days that pass, without faults and with them

ASSUME FaultsAssumption == Faults \subseteq SUBSET {"cache_lost", "bad_body", "late_post"}
ASSUME LivesAssumption == Lives \subseteq OrderLifecycleStatus \ {"planned"}
ASSUME LimitsAssumption ==
  /\ {Ttl, MaxChecks, LedgerTtl} \subseteq Nat \ {0}
  /\ {MaxRuns, MaxDay, FaultDays} \subseteq Nat /\ FaultDays <= MaxDay
  /\ ReleaseOnMissing \in BOOLEAN

VARIABLES
  faults,      \* the faults this behaviour may have
  day, runs,   \* today; runs started so far
  disk,        \* the state directory: idempotency entries and releases, ledger, last run
  saved,       \* the copy of it in the last cache entry
  orders,      \* the broker's orders, a sequence; the index is the broker's order id
  late,        \* POSTs given up by the run that sent them and still on their way
  pc, job,     \* where the run is and what it works on
  row          \* the broker row of the payload that was attempted, or None

vars == <<faults, day, runs, disk, saved, orders, late, pc, job, row>>

Keys == Hashes \X Symbols
KeyOf(j, s) == <<j.hash, s>>
SymbolOf(k) == k[2]
\* client_order_id: deterministic for the first try, then with a fresh suffix.
Cid(k, nonce) == [key |-> k, nonce |-> nonce]
Entry(cid, oid, status) == [cid |-> cid, oid |-> oid, status |-> status, day |-> day]
Release(e, oid, status) == [cid |-> e.cid, oid |-> oid, status |-> status]

NoJob == [hash |-> None, exec |-> FALSE, bypass |-> FALSE, payloads |-> {}, blocked |-> FALSE]
Mode == <<job.hash, job.exec>>
EmptyDisk == [entry |-> [k \in Keys |-> None], released |-> [k \in Keys |-> <<>>],
              ledger |-> [k \in Keys |-> None], lastRun |-> None, lastForce |-> None]

Init ==
  /\ faults \in Faults
  /\ day = 0 /\ runs = 0
  /\ disk = EmptyDisk /\ saved = EmptyDisk
  /\ orders = <<>> /\ late = {}
  /\ pc = "idle" /\ job = NoJob /\ row = None

OpenOrder(o) == o.status \in Open
OpenEntries(s) == {n \in DOMAIN orders : SymbolOf(orders[n].key) = s /\ OpenOrder(orders[n])}

-------------------------------------------------------------------------------
(* The environment *)

Tick ==
  /\ pc = "idle" /\ day < IF faults = {} THEN MaxDay ELSE FaultDays
  /\ day' = day + 1
  /\ UNCHANGED <<faults, runs, disk, saved, orders, late, pc, job, row>>

StatusRank == [s \in OrderLifecycleStatus |->
  CASE s = "planned" -> 0 [] s = "submitted" -> 1 [] s = "accepted" -> 2
    [] s = "partially_filled" -> 3 [] OTHER -> 4]

OrderMoves ==
  \E n \in DOMAIN orders, s \in Lives :
    /\ StatusRank[orders[n].status] < StatusRank[s]
    /\ orders' = [orders EXCEPT ![n].status = s]
    /\ UNCHANGED <<faults, day, runs, disk, saved, late, pc, job, row>>

\* overdue: the run that sent the POST had given it up.
Created(k, cid, s, overdue) ==
  Append(orders, [key |-> k, cid |-> cid, status |-> s, day |-> day, overdue |-> overdue])
TakenCid(cid) == \E n \in DOMAIN orders : orders[n].cid = cid

LatePostArrives ==
  \E p \in late, s \in Lives :
    /\ late' = late \ {p}
    /\ orders' = IF TakenCid(p) THEN orders ELSE Created(p.key, p, s, TRUE)
    /\ UNCHANGED <<faults, day, runs, disk, saved, pc, job, row>>

\* The job ends, whatever the reason; the state directory goes into the cache.
Leave(d) ==
  /\ pc' = "idle" /\ job' = NoJob /\ row' = None
  /\ \/ disk' = d /\ saved' = IF "cache_lost" \in faults THEN d ELSE saved
     \/ "cache_lost" \in faults /\ disk' = saved /\ UNCHANGED saved

\* An error, the ten-minute limit or a killed runner.
Die ==
  /\ pc # "idle"
  /\ Leave(disk)
  /\ UNCHANGED <<faults, day, runs, orders, late>>

-------------------------------------------------------------------------------
(* Start and dedupe *)

\* A file whose run is remembered is skipped, unless FORCE_SEND_ONCE asks for it
\* and has not been used up for this file and mode.
StartRun ==
  /\ pc = "idle" /\ runs < MaxRuns
  /\ \E h \in Hashes, exec \in BOOLEAN, force \in BOOLEAN, ps \in SUBSET Symbols \ {{}} :
       LET bypass == force /\ disk.lastForce # <<h, exec>>
       IN  /\ disk.lastRun # <<h, exec>> \/ bypass
           /\ job' = [hash |-> h, exec |-> exec, bypass |-> bypass, payloads |-> ps, blocked |-> FALSE]
  /\ runs' = runs + 1 /\ pc' = "preflight"
  /\ UNCHANGED <<faults, day, disk, saved, orders, late, row>>

-------------------------------------------------------------------------------
(* applyOrderIdempotency *)

Pruned(k) == disk.entry[k] # None /\ disk.entry[k].day + Ttl < day
Expired(k) == Release(disk.entry[k], disk.entry[k].oid, disk.entry[k].status)

\* The lookup of one key by client order id: the order's index, or None. A body
\* that is not an object reads as "not found".
Lookups(cid) ==
  LET found == {n \in DOMAIN orders : orders[n].cid = cid}
  IN  (IF found = {} THEN {None} ELSE found) \cup (IF "bad_body" \in faults THEN {None} ELSE {})

\* Mutation of Resolutions: a filled order is released too.
ResolutionsNotOpen(e) ==
  UNION {LET seen == IF n = None THEN e
                     ELSE [e EXCEPT !.oid = n, !.status = orders[n].status]
             goes == IF n = None THEN {ReleaseOnMissing \/ (e.oid = None /\ e.status = None)}
                     ELSE IF seen.status \notin Open THEN BOOLEAN ELSE {FALSE}
         IN  {[entry |-> seen, release |-> g] : g \in goes} : n \in Lookups(e.cid)}
\* resolveOrderIdempotencyBrokerResolution: the entry with what the broker said and
\* whether it is released. The cooldown after a terminal status may still run.
Resolutions(e) ==
  UNION {LET seen == IF n = None THEN e
                     ELSE [e EXCEPT !.oid = n, !.status = orders[n].status]
             goes == IF n = None THEN {ReleaseOnMissing \/ (e.oid = None /\ e.status = None)}
                     ELSE IF seen.status \in Terminal THEN BOOLEAN ELSE {FALSE}
         IN  {[entry |-> seen, release |-> g] : g \in goes} : n \in Lookups(e.cid)}
\* Mutation of ReentryBlocked: the check is off.
ReentryNeverBlocked(released) == FALSE
\* shouldBlockTerminalReentrySameHash: the key names the hash, so the latest
\* release of the key is one of this hash.
ReentryBlocked(released) == released # <<>> /\ released[Len(released)].status \in Terminal
\* What one phase makes of one payload: its entry and releases, whether the
\* payload stays and whether the state changed. asked: the broker was asked and
\* gave ans; persist: the final phase of an enforced run.
Checked(k, persist, asked, ans) ==
  LET e0    == IF Pruned(k) THEN None ELSE disk.entry[k]
      rel0  == IF Pruned(k) THEN Append(disk.released[k], Expired(k)) ELSE disk.released[k]
      reset == persist /\ e0 # None /\ e0.day # day
      e1    == IF reset THEN None ELSE e0
      rel1  == IF reset THEN Append(rel0, Release(e0, e0.oid, e0.status)) ELSE rel0
      e2    == IF asked THEN (IF ans.release THEN None ELSE ans.entry) ELSE e1
      rel2  == IF asked /\ ans.release
               THEN Append(rel1, Release(ans.entry, ans.entry.oid, ans.entry.status)) ELSE rel1
      new   == e2 = None /\ ~ReentryBlocked(rel2)
  IN  [entry    |-> IF new /\ persist THEN Entry(Cid(k, 0), None, None) ELSE e2,
       released |-> rel2,
       keep     |-> new \/ (e2 # None /\ ~job.exec),
       changed  |-> reset \/ asked \/ (new /\ persist)]

\* One phase over all payloads. Lookups of different keys read different orders,
\* so they are one step. A lookup that throws leaves its entry as it was; once
\* MaxChecks lookups have answered, no further key is looked up.
Phase(persist, next) ==
  LET P == {KeyOf(job, s) : s \in job.payloads}
      Live(k) == disk.entry[k] # None /\ ~Pruned(k) /\ ~(persist /\ disk.entry[k].day # day)
      Dup == {k \in P : job.exec /\ Live(k)}
  IN  \E asked \in SUBSET Dup :
      \E threw \in SUBSET (Dup \ asked) :
      \E ans \in [asked -> UNION {Resolutions(disk.entry[k]) : k \in asked}] :
        /\ \A k \in asked : ans[k] \in Resolutions(disk.entry[k])
        /\ Cardinality(asked) <= MaxChecks
        /\ asked \cup threw # Dup => Cardinality(asked) = MaxChecks
        /\ LET R == [k \in P |-> Checked(k, persist, k \in asked, IF k \in asked THEN ans[k] ELSE None)]
               other(k) == IF k \in P THEN R[k].entry ELSE IF Pruned(k) THEN None ELSE disk.entry[k]
               otherRel(k) == IF k \in P THEN R[k].released
                              ELSE IF Pruned(k) THEN Append(disk.released[k], Expired(k))
                              ELSE disk.released[k]
               changed == \/ threw # {} \/ \E k \in P : R[k].changed
                          \/ persist /\ \E k \in Keys : Pruned(k)
           IN  /\ disk' = IF changed
                          THEN [disk EXCEPT !.entry = [k \in Keys |-> other(k)],
                                            !.released = [k \in Keys |-> otherRel(k)]]
                          ELSE disk
               /\ job' = [job EXCEPT !.payloads = {SymbolOf(k) : k \in {x \in P : R[x].keep}}]
               /\ pc' = next
        /\ UNCHANGED <<faults, day, runs, saved, orders, late, row>>

PreflightPhase == pc = "preflight" /\ Phase(FALSE, "gate")

\* runPreflightGate and the approval queue: a blocking preflight takes every
\* payload away, the queue may hold some back.
Gate ==
  /\ pc = "gate"
  /\ \/ /\ job.payloads # {}
        /\ job' = [job EXCEPT !.blocked = TRUE, !.payloads = {}]
        /\ pc' = "ledger"
     \/ \E ps \in SUBSET job.payloads :
          /\ job' = [job EXCEPT !.payloads = ps]
          /\ pc' = "final"
  /\ UNCHANGED <<faults, day, runs, disk, saved, orders, late, row>>

FinalPhase == pc = "final" /\ Phase(job.exec, "submit")

-------------------------------------------------------------------------------
(* submitOrdersToBroker *)

Payload == CHOOSE s \in job.payloads : TRUE
PayloadKey == KeyOf(job, Payload)

\* One of the gates says no, or the open orders cannot be read, or the symbol
\* already has an open entry order.
SubmitSkips ==
  /\ pc = "submit"
  /\ pc' = "ledger"
  /\ UNCHANGED <<faults, day, runs, disk, saved, orders, late, job, row>>

\* Mutation of SubmitGuard: open entry orders do not hold the payload back.
SubmitGuardOff == Cardinality(job.payloads) = 1
\* A manual approval covers exactly one payload, so at most one order is sent.
SubmitGuard == Cardinality(job.payloads) = 1 /\ OpenEntries(Payload) = {}
SubmitAllowed ==
  /\ pc = "submit" /\ job.exec
  /\ SubmitGuard
  /\ pc' = "post"
  /\ UNCHANGED <<faults, day, runs, disk, saved, orders, late, job, row>>

Failed(k) == [key |-> k, submitted |-> FALSE, cid |-> Cid(k, 0), oid |-> None, status |-> None]
Submitted(k, cid, oid, s) == [key |-> k, submitted |-> TRUE, cid |-> cid, oid |-> oid, status |-> s]

\* A POST with an id the broker does not know: answered (a body that is no object
\* is still a success, with no order id), created without an answer, never created, or still on its way when the run gives it up.
Post(k, cid) ==
  /\ pc' = "record"
  /\ \/ \E s \in Lives :
          /\ orders' = Created(k, cid, s, FALSE)
          /\ row' \in {Submitted(k, cid, Len(orders) + 1, s), Failed(k)}
                      \cup (IF "bad_body" \in faults THEN {Submitted(k, cid, None, "submitted")} ELSE {})
          /\ late' = late
     \/ row' = Failed(k) /\ orders' = orders /\ late' = late
     \/ "late_post" \in faults /\ row' = Failed(k) /\ orders' = orders /\ late' = late \cup {cid}
  /\ UNCHANGED <<faults, day, runs, disk, saved, job>>

FirstPost ==
  /\ pc = "post"
  /\ ~TakenCid(Cid(PayloadKey, 0))
  /\ Post(PayloadKey, Cid(PayloadKey, 0))

\* The broker knows the id: the code tries once more with a suffix.
DuplicateId ==
  /\ pc = "post"
  /\ TakenCid(Cid(PayloadKey, 0))
  /\ pc' = "retry"
  /\ UNCHANGED <<faults, day, runs, disk, saved, orders, late, job, row>>

RetryPost == pc = "retry" /\ Post(PayloadKey, Cid(PayloadKey, runs))

\* Mutation of Record: the entry keeps the id of the first try.
RecordFirstId ==
  /\ pc = "record"
  /\ pc' = "ledger"
  /\ disk' = IF disk.entry[row.key] = None THEN disk
             ELSE [disk EXCEPT !.entry[row.key] = Entry(Cid(row.key, 0), row.oid, row.status)]
  /\ UNCHANGED <<faults, day, runs, saved, orders, late, job, row>>
\* updateOrderIdempotencyBrokerSubmission: the entry takes the row as it is, a
\* failed one with its nulls.
Record ==
  /\ pc = "record"
  /\ pc' = "ledger"
  /\ disk' = IF disk.entry[row.key] = None THEN disk
             ELSE [disk EXCEPT !.entry[row.key] = Entry(row.cid, row.oid, row.status)]
  /\ UNCHANGED <<faults, day, runs, saved, orders, late, job, row>>

-------------------------------------------------------------------------------
(* updateOrderLedger and the end of the run *)

Submission(k) == IF row # None /\ row.key = k /\ row.submitted THEN row ELSE None
CidUsed(k) == IF row # None /\ row.key = k THEN row.cid ELSE Cid(k, 0)
Kept(rec) == IF rec # None /\ rec.day + LedgerTtl < day THEN None ELSE rec
NextLedger ==
  LET P == {KeyOf(job, s) : s \in job.payloads}
      Mid(k) == IF k \in P THEN Upserted(Kept(disk.ledger[k]), Submission(k), CidUsed(k), day)
                ELSE Kept(disk.ledger[k])
  IN  [k \in Keys |-> Reconciled(Mid(k), disk.entry[k], disk.released[k], day)]

UpdateLedger ==
  /\ pc = "ledger"
  /\ pc' = "mark"
  /\ disk' = [disk EXCEPT !.ledger = NextLedger]
  /\ UNCHANGED <<faults, day, runs, saved, orders, late, job, row>>

\* saveRunState: a live run stopped by the preflight gate is not remembered.
Mark ==
  /\ pc = "mark"
  /\ Leave(IF job.blocked /\ job.exec THEN disk
           ELSE [disk EXCEPT !.lastRun = Mode,
                             !.lastForce = IF job.bypass THEN Mode ELSE disk.lastForce])
  /\ UNCHANGED <<faults, day, runs, orders, late>>

Next ==
  \/ Tick \/ OrderMoves \/ LatePostArrives \/ Die
  \/ StartRun \/ PreflightPhase \/ Gate \/ FinalPhase
  \/ SubmitSkips \/ SubmitAllowed \/ FirstPost \/ DuplicateId \/ RetryPost \/ Record
  \/ UpdateLedger \/ Mark

Spec == Init /\ [][Next]_vars

-------------------------------------------------------------------------------
(* Properties *)

Cids == [key : Keys, nonce : 0..MaxRuns]
Ids == {None} \cup (1..MaxRuns)
Seen == {None, "submitted"} \cup Lives
EntryType == [cid : Cids, oid : Ids, status : Seen, day : 0..MaxDay]
ReleaseType == [cid : Cids, oid : Ids, status : Seen]
LedgerType == [status : {"planned", "submitted"} \cup Lives, cid : Cids, oid : Ids, day : 0..MaxDay]
RowType == [key : Keys, submitted : BOOLEAN, cid : Cids, oid : Ids, status : Seen]

\* null is none of the values it stands beside.
ASSUME NoneAssumption ==
  /\ None \notin OrderLifecycleStatus /\ None \notin Nat
  /\ None \notin EntryType /\ None \notin LedgerType /\ None \notin ReleaseType
  /\ None \notin RowType

DiskTypeOK(d) ==
  /\ \A k \in Keys : /\ d.entry[k] \in {None} \cup EntryType
                     /\ \A i \in DOMAIN d.released[k] : d.released[k][i] \in ReleaseType
                     /\ d.ledger[k] \in {None} \cup LedgerType
  /\ {d.lastRun, d.lastForce} \subseteq {None} \cup (Hashes \X BOOLEAN)

\* Type invariant; an attempted row exists exactly while it has to be recorded.
TypeOK ==
  /\ day \in 0..MaxDay /\ runs \in 0..MaxRuns
  /\ DiskTypeOK(disk) /\ DiskTypeOK(saved)
  /\ \A n \in DOMAIN orders :
       orders[n] \in [key : Keys, cid : Cids, status : Lives, day : 0..MaxDay, overdue : BOOLEAN]
  /\ late \subseteq Cids
  /\ pc \in {"idle", "preflight", "gate", "final", "submit", "post", "retry", "record",
             "ledger", "mark"}
  /\ pc = "record" => row # None
  /\ pc \in {"idle", "preflight", "gate", "final", "submit", "post", "retry"} => row = None

\* A symbol never has two open entry orders, whichever stage-6 files asked for
\* them, wherever a run died and whatever was lost (the open-entry guard of
\* submitOrdersToBroker). Only an overdue order may come on top: no check on this
\* side of the network can see a POST that is still on its way.
OneOpenEntryPerSymbol ==
  \A s \in Symbols : Cardinality({n \in OpenEntries(s) : ~orders[n].overdue}) <= 1

\* Without faults a key is ordered a second time only after its entry has outlived
\* its TTL: no death of a run, lost answer, release or forced run orders it twice.
ReorderOnlyAfterTtl ==
  faults = {} =>
    \A m, n \in DOMAIN orders :
      m < n /\ orders[m].key = orders[n].key => orders[m].day + Ttl < orders[n].day

\* Without faults an order that is open or filled keeps its key reserved until the
\* TTL is over, from the moment the broker has it: "filled orders stay protected".
\* Not so the order of a retry, whose entry a death may leave with the first id.
LiveOrdersStayReserved ==
  faults = {} =>
    \A n \in DOMAIN orders :
      orders[n].cid.nonce = 0 /\ orders[n].status \notin Terminal /\ day <= orders[n].day + Ttl
        => disk.entry[orders[n].key] # None

\* Every broker order id on disk is the id of an order of that key with that client
\* order id, and the status next to it is one the order has had.
NamesItsOrder(k, rec) ==
  rec # None /\ rec.oid # None =>
    /\ rec.oid \in DOMAIN orders
    /\ LET o == orders[rec.oid]
       IN  /\ o.key = k /\ o.cid = rec.cid
           /\ rec.status = o.status \/ StatusRank[rec.status] < StatusRank[o.status]
RecordsNameTheirOrders == \A k \in Keys : NamesItsOrder(k, disk.entry[k])

\* The ledger never runs ahead of the broker: past "planned", some order of the key
\* has got at least that far.
LedgerFollowsBroker ==
  \A k \in Keys :
    LET rec == disk.ledger[k]
    IN  rec # None => \/ rec.status = "planned"
                      \/ \E n \in DOMAIN orders :
                           /\ orders[n].key = k
                           /\ \/ orders[n].status = rec.status
                              \/ StatusRank[orders[n].status] > StatusRank[rec.status]

\* Whatever is lost, refused or late, the two files claim nothing of an order that the
\* broker has not said of it (index.ts:13810-13841, 13982-14118).
FilesFollowBroker == TypeOK /\ RecordsNameTheirOrders /\ LedgerFollowsBroker

-------------------------------------------------------------------------------
(* What the documents say and the code does not do *)

\* docs: a terminal broker status must not leave the ledger stuck in an open one;
\* after an update no row is open whose latest record says that its order is gone.
LatestEvidence(k) ==
  IF disk.entry[k] # None THEN disk.entry[k].status
  ELSE IF disk.released[k] = <<>> THEN None
  ELSE disk.released[k][Len(disk.released[k])].status
LedgerIsNotStuck ==
  pc = "mark" =>
    \A k \in Keys : disk.ledger[k] # None /\ disk.ledger[k].status \in Open =>
                      LatestEvidence(k) \notin Terminal
===============================================================================
