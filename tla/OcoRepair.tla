---- MODULE OcoRepair ----
(***************************************************************************)
(* The two scripts that post a protective OCO sell of one share for one    *)
(* symbol: run-paper-oco-canary-submit.mjs (posts, looks, cancels) and     *)
(* run-persistent-oco-repair-submit.mjs (posts, looks, leaves it open).    *)
(* Each is started by a workflow of its own, reads the broker, writes      *)
(* "submit_started" to its ledger and posts.  The ledger is a file of the  *)
(* run: the next run starts from the state of another workflow, so it has  *)
(* the file only when the operator names a run of the open-verify workflow *)
(* that copied it.                                                         *)
(***************************************************************************)
EXTENDS Integers, FiniteSets

CONSTANTS
  Hashes,        \* Stage6 files a plan may come from
  Prices,        \* pairs of stop and target
  Held0,         \* shares held at the start
  Overlap,       \* whether runs of the two workflows may overlap
  MaxRuns,       \* bound on the runs
  MaxFaults      \* bound on deaths and lost answers

VARIABLES
  held,          \* shares held
  orders,        \* the broker's OCO orders, by client order id
  run,           \* the run of each lane
  ledger,        \* the ledger file of each lane's last run
  said,          \* the last status any ledger gave to a key
  runs, faults

vars == <<held, orders, run, ledger, said, runs, faults>>

Lanes == {"canary", "persistent"}
Plans == [hash : Hashes, prices : Prices]
Idle == [pc |-> "idle"]

\* The canary's key names file and prices, its client id only the file; the
\* persistent lane's name only the prices.
PlanKeys == ({"canary"} \X Hashes \X Prices) \cup ({"persistent"} \X Prices)
Ids == ({"canary"} \X Hashes) \cup ({"persistent"} \X Prices)
Key(l, p) == IF l = "canary" THEN <<l, p.hash, p.prices>> ELSE <<l, p.prices>>
Id(l, p) == IF l = "canary" THEN <<l, p.hash>> ELSE <<l, p.prices>>

\* The client id an entry of the ledger is about.
IdOf(k) == <<k[1], k[2]>>

NoEntries == [k \in PlanKeys |-> "none"]
Live == {i \in Ids : orders[i] \in {"open", "canceling"}}

\* ledgerStatusIsActive and activeLedgerStatuses
Active == [canary |-> {"submit_started", "submitted", "visibility_pass", "cancel_started"},
           persistent |-> {"submit_started", "submitted", "persistent_visible_open"}]

\* The statuses written with terminal: true.
Terminal == {"submit_rejected", "rollback_cancelled_terminal"}

\* updateLedgerEntry, updateLedger
Write(l, status) ==
  LET k == Key(l, run[l].plan) IN
  /\ ledger' = [ledger EXCEPT ![l][k] = status]
  /\ said' = [said EXCEPT ![k] = status]

Goto(l, pc) == run' = [run EXCEPT ![l].pc = pc]
End(l) == run' = [run EXCEPT ![l] = Idle]
At(l, pc) == run[l].pc = pc

Init == /\ held = Held0
        /\ orders = [i \in Ids |-> "none"]
        /\ run = [l \in Lanes |-> Idle]
        /\ ledger = [l \in Lanes |-> NoEntries]
        /\ said = NoEntries
        /\ runs = 0 /\ faults = 0

\* What the first steps of a workflow leave in the state directory: the state
\* of a dry run, or, for a repair, that of an open-verify run with the ledger.
Downloads(l) == IF l = "canary" THEN {NoEntries} ELSE {NoEntries, ledger[l]}

\* A run starts with a plan of any age and stops at an active entry of its key.
Start(l) ==
  /\ At(l, "idle")
  /\ Overlap \/ \A m \in Lanes : At(m, "idle")
  /\ runs < MaxRuns
  /\ runs' = runs + 1
  /\ \E p \in Plans, file \in Downloads(l) :
       /\ ledger' = [ledger EXCEPT ![l] = file]
       /\ run' = [run EXCEPT ![l] =
                    IF file[Key(l, p)] \in Active[l] THEN Idle
                    ELSE [pc |-> "started", plan |-> p, answer |-> "none"]]
  /\ UNCHANGED <<held, orders, said, faults>>

\* A read that fails, or a gate of price, age or market hours, blocks the run.
Block(l) == /\ run[l].pc \in {"started", "position", "orders"}
            /\ End(l)
            /\ UNCHANGED <<held, orders, ledger, said, runs, faults>>

ReadPosition(l) == /\ At(l, "started")
                   /\ held >= 1
                   /\ Goto(l, "position")
                   /\ UNCHANGED <<held, orders, ledger, said, runs, faults>>

\* Mutation of Unprotected: an order under a cancel does not count.
UnprotectedButCanceling(l) == \A i \in Ids : orders[i] # "open"

\* no_existing_active_sell_protection: no sell of the symbol is working.
Unprotected(l) == Live = {}

ReadOrders(l) == /\ At(l, "position")
                 /\ Unprotected(l)
                 /\ Goto(l, "orders")
                 /\ UNCHANGED <<held, orders, ledger, said, runs, faults>>

\* client_order_id_not_already_used: the broker must answer 404.
ReadClientId(l) == /\ At(l, "orders")
                   /\ orders[Id(l, run[l].plan)] = "none"
                   /\ Goto(l, "ready")
                   /\ UNCHANGED <<held, orders, ledger, said, runs, faults>>

\* The ledger is written before the POST.
Reserve(l) == /\ At(l, "ready")
              /\ Write(l, "submit_started")
              /\ Goto(l, "reserved")
              /\ UNCHANGED <<held, orders, runs, faults>>

\* The broker holds back the shares of working sells and takes a client id once.
BrokerTakes(l) == /\ orders[Id(l, run[l].plan)] = "none"
                  /\ held > Cardinality(Live)

\* POST: accepted (the answer may lack an id), refused, or accepted with the
\* answer lost.
Post(l) ==
  /\ At(l, "reserved")
  /\ \/ /\ BrokerTakes(l)
        /\ orders' = [orders EXCEPT ![Id(l, run[l].plan)] = "open"]
        /\ \E answer \in {"accepted", "no_id", "failed"} :
             /\ answer = "accepted" \/ faults < MaxFaults
             /\ run' = [run EXCEPT ![l].pc = "posted", ![l].answer = answer]
             /\ faults' = IF answer = "accepted" THEN faults ELSE faults + 1
     \/ /\ run' = [run EXCEPT ![l].pc = "posted", ![l].answer = "failed"]
        /\ UNCHANGED <<orders, faults>>
  /\ UNCHANGED <<held, ledger, said, runs>>

\* An answer that is not 2xx, a network error included, is a rejection.
Rejected(l) == /\ At(l, "posted")
               /\ run[l].answer = "failed"
               /\ Write(l, "submit_rejected")
               /\ End(l)
               /\ UNCHANGED <<held, orders, runs, faults>>

Accepted(l) == /\ At(l, "posted")
               /\ run[l].answer # "failed"
               /\ Write(l, "submitted")
               /\ Goto(l, "submitted")
               /\ UNCHANGED <<held, orders, runs, faults>>

\* A status=open listing shows an order that is being cancelled, too; the
\* read may fail, and a filled order is gone from it.
Sees(l) == IF Id(l, run[l].plan) \in Live THEN {TRUE, FALSE} ELSE {FALSE}

\* verifyVisibility: the repair ends here, and its order stays open.
LookAndLeave ==
  /\ At("persistent", "submitted")
  /\ \E seen \in Sees("persistent") :
       Write("persistent", IF seen THEN "persistent_visible_open" ELSE "visibility_failed")
  /\ End("persistent")
  /\ UNCHANGED <<held, orders, runs, faults>>

\* verifyNestedVisibility: the canary goes on to cancel what it can name.
Look ==
  /\ At("canary", "submitted")
  /\ \E seen \in Sees("canary") :
       /\ Write("canary", IF seen THEN "visibility_pass" ELSE "visibility_failed")
       /\ Goto("canary", IF seen \/ run["canary"].answer = "accepted" THEN "seen" ELSE "unnamed")
  /\ UNCHANGED <<held, orders, runs, faults>>

CannotCancel == /\ At("canary", "unnamed")
                /\ Write("canary", "cancel_failed_missing_order_id")
                /\ End("canary")
                /\ UNCHANGED <<held, orders, runs, faults>>

StartCancel == /\ At("canary", "seen")
               /\ Write("canary", "cancel_started")
               /\ Goto("canary", "cancelling")
               /\ UNCHANGED <<held, orders, runs, faults>>

\* DELETE: the broker accepts the cancel of a working order; the answer may be
\* lost, or the request may fail.
Delete ==
  LET i == Id("canary", run["canary"].plan) IN
  /\ At("canary", "cancelling")
  /\ \/ /\ orders[i] = "open"
        /\ orders' = [orders EXCEPT ![i] = "canceling"]
        /\ \E ok \in BOOLEAN : /\ ok \/ faults < MaxFaults
                               /\ run' = [run EXCEPT !["canary"].pc = "deleted",
                                            !["canary"].answer = IF ok THEN "ok" ELSE "failed"]
                               /\ faults' = IF ok THEN faults ELSE faults + 1
     \/ /\ run' = [run EXCEPT !["canary"].pc = "deleted", !["canary"].answer = "failed"]
        /\ UNCHANGED <<orders, faults>>
  /\ UNCHANGED <<held, ledger, said, runs>>

\* verifyRollbackTerminal
NoLongerActive == Id("canary", run["canary"].plan) \notin Live

\* The read may fail; then the rollback counts as not terminal.
VerifyRollback ==
  /\ At("canary", "deleted")
  /\ \/ /\ run["canary"].answer = "ok" /\ NoLongerActive
        /\ Write("canary", "rollback_cancelled_terminal")
     \/ Write("canary", "rollback_cancel_not_terminal")
  /\ End("canary")
  /\ UNCHANGED <<held, orders, runs, faults>>

\* A leg fills and the broker cancels the other one.
Fill(i) == /\ i \in Live
           /\ orders' = [orders EXCEPT ![i] = "ended"]
           /\ held' = held - 1
           /\ UNCHANGED <<run, ledger, said, runs, faults>>

\* A cancel takes effect, the day of a canary ends, or the operator cancels.
Ends(i) == /\ i \in Live
           /\ orders' = [orders EXCEPT ![i] = "ended"]
           /\ UNCHANGED <<held, run, ledger, said, runs, faults>>

\* The job is cancelled or times out.
Die(l) == /\ ~At(l, "idle")
          /\ faults < MaxFaults
          /\ faults' = faults + 1
          /\ End(l)
          /\ UNCHANGED <<held, orders, ledger, said, runs>>

RunStep(l) == \/ Start(l) \/ Block(l) \/ ReadPosition(l) \/ ReadOrders(l) \/ ReadClientId(l)
              \/ Reserve(l) \/ Post(l) \/ Rejected(l) \/ Accepted(l) \/ Die(l)

Next == \/ \E l \in Lanes : RunStep(l)
        \/ LookAndLeave \/ Look \/ CannotCancel \/ StartCancel \/ Delete \/ VerifyRollback
        \/ \E i \in Ids : Fill(i) \/ Ends(i)

Spec == Init /\ [][Next]_vars

(***************************************************************************)
(* Properties                                                              *)
(***************************************************************************)
Statuses ==
  [canary |-> {"none", "submit_started", "submitted", "submit_rejected", "visibility_pass",
               "visibility_failed", "cancel_failed_missing_order_id", "cancel_started",
               "rollback_cancelled_terminal", "rollback_cancel_not_terminal"},
   persistent |-> {"none", "submit_started", "submitted", "submit_rejected",
                   "persistent_visible_open", "visibility_failed"}]

\* Types: each lane has its own statuses.
TypeOK ==
  /\ held \in 0..Held0
  /\ orders \in [Ids -> {"none", "open", "canceling", "ended"}]
  /\ \A l \in Lanes : run[l] = Idle \/ run[l].plan \in Plans
  /\ \A k \in PlanKeys : /\ said[k] \in Statuses[k[1]]
                     /\ \A l \in Lanes : ledger[l][k] \in Statuses[k[1]]

\* However runs die, lose answers and start without the ledger, the two lanes
\* leave at most one protective order of the symbol working: what one run may
\* have posted, the listing of the next one shows.
OneProtection == Cardinality(Live) <= 1

\* An order at the broker has an entry: the ledger is written before the POST,
\* so even a run that dies in the POST leaves a trace.
PostedIsWritten == \A i \in Ids : orders[i] # "none" =>
                     \E k \in PlanKeys : IdOf(k) = i /\ said[k] # "none"

\* A canary whose rollback is recorded as terminal has no order working: an
\* accepted cancel alone is not taken for the end of the order.
CancelledIsGone == \A k \in PlanKeys : said[k] = "rollback_cancelled_terminal" => IdOf(k) \notin Live

====
