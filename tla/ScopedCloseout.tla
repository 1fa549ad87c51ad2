--------------------------- MODULE ScopedCloseout ---------------------------
(***************************************************************************)
(* One scoped closeout attempt: the sale of a fixed list of positions, one *)
(* broker order each, in order. The module composes                        *)
(*   - the controller,    scripts/lib/scoped-closeout-contract.mjs,        *)
(*   - the adapter loop,  scripts/lib/scoped-paper-adapter.mjs,            *)
(*   - the two stores,    scripts/lib/scoped-closeout-storage.mjs,         *)
(*   - the transport,     scripts/lib/scoped-paper-transport.mjs, and      *)
(*   - the broker and the network, as the code uses them,                  *)
(* with the crash of the process at any point, a restart of the command,   *)
(* an answer that never comes, a POST that arrives after its timeout, and  *)
(* an operator who removes the directory lock. A save of one store file is *)
(* atomic and durable when it returns (OrderStateStore).                   *)
(***************************************************************************)
EXTENDS ScopedHandOver

CONSTANT N  \* number of targets; the code has 5

ASSUME NAssumption == N \in Nat \ {0}

VARIABLES
  idem, ledger,  \* [Target -> history]: management records on disk
  attemptDir,    \* the backup directory of an attempt exists
  wire,          \* targets whose wire-<index>.json exists
  dirLock,       \* ".scoped-closeout.lock": "free", "held" or "left"
  step,          \* what the adapter awaits
  phase,         \* state.phase of the controller
  index,         \* state.index, from 1; N + 1 when all are done
  rows,          \* state.rows
  pending,       \* state.pendingRecords, as [targets -> history]
  sticky,        \* state.stickyStop
  answer,        \* the last broker answer: NoAnswer or an observation
  used,          \* state.counts
  tstate,        \* transport: "open", "reconcile" or "stopped"
  sent,          \* transport: counts.submit
  net,           \* targets whose POST is still on its way
  order,         \* [Target -> NoAnswer or the broker's order]
  posts          \* [Target -> number of POSTs that left] (history)

stores    == <<idem, ledger, attemptDir, wire>>
control   == <<phase, index, rows, pending, sticky, used>>
transport == <<tstate, sent>>
broker    == <<net, order, posts>>
vars == <<idem, ledger, attemptDir, wire, dirLock, step, phase, index, rows, pending,
          sticky, answer, used, tstate, sent, net, order, posts>>

Target == 1..N
NoAnswer == [status |-> "null", filled |-> 0]
NoRecord == <<>>
Observation == [status : Statuses, filled : 0..Qty]
Only(t, history) == [x \in {t} |-> history]
NoPending == [x \in {} |-> NoRecord]

\* BUDGET of the contract, for N targets, and what one group of reads costs.
Budget ==
  [account |-> N + 1, positions |-> 2 * N + 1, orders |-> 2 * N + 1, clock |-> 2 * N + 1,
   calendar |-> 1, assets |-> 2 * N, lookup |-> N, quotes |-> N + 1, submit |-> N]
Group == DOMAIN Budget
Cost(p, g) ==
  CASE p = "account"   -> IF g = "account" THEN 1 ELSE 0
    [] p = "initial"   -> IF g = "assets" THEN N
                          ELSE IF g \in {"positions", "orders", "clock", "calendar", "quotes"} THEN 1 ELSE 0
    [] p = "presubmit" -> IF g \in {"account", "positions", "orders", "clock", "assets", "quotes"} THEN 1 ELSE 0
    [] p = "postcheck" -> IF g \in {"lookup", "positions", "orders", "clock"} THEN 1 ELSE 0
    [] p = "submit"    -> IF g = "submit" THEN 1 ELSE 0
After(p) == [g \in Group |-> used[g] + Cost(p, g)]

Init ==
  /\ idem = [t \in Target |-> NoRecord]
  /\ ledger = idem
  /\ attemptDir = FALSE
  /\ wire = {}
  /\ dirLock = "free"
  /\ step = "down"
  /\ phase = "CREATED"
  /\ index = 1
  /\ rows = [t \in Target |-> NoRecord]
  /\ pending = NoPending
  /\ sticky = FALSE
  /\ answer = NoAnswer
  /\ used = [g \in Group |-> 0]
  /\ tstate = "open"
  /\ sent = 0
  /\ net = {}
  /\ order = [t \in Target |-> NoAnswer]
  /\ posts = [t \in Target |-> 0]

-----------------------------------------------------------------------------
(* The end of a run                                                        *)

\* The process no longer runs: its memory is gone.
Down ==
  /\ step' = "down"
  /\ phase' = "CREATED" /\ index' = 1
  /\ rows' = [t \in Target |-> NoRecord]
  /\ pending' = NoPending
  /\ sticky' = FALSE
  /\ answer' = NoAnswer
  /\ used' = [g \in Group |-> 0]
  /\ tstate' = "open" /\ sent' = 0

\* An error leaves the task of withScopedStores: the directory lock stays.
Throw == Down /\ dirLock' = "left"

Crash ==
  /\ step # "down"
  /\ Throw
  /\ UNCHANGED <<stores, broker>>

\* Mutation of Return: only a complete attempt ends the loop.
ReturnOnlyComplete ==
  /\ step = "loop" /\ phase = "COMPLETE"
  /\ Down /\ dirLock' = "free"
  /\ UNCHANGED <<stores, broker>>

\* The task returns, with phase COMPLETE or STOPPED.
Return ==
  /\ step = "loop" /\ phase \in {"COMPLETE", "STOPPED"}
  /\ Down /\ dirLock' = "free"
  /\ UNCHANGED <<stores, broker>>

\* Removing the lock of a dead process is left to the operator.
OperatorClearsLock ==
  /\ dirLock = "left"
  /\ dirLock' = "free"
  /\ UNCHANGED <<stores, step, control, answer, transport, broker>>

-----------------------------------------------------------------------------
(* withScopedStores, up to the start of the adapter loop                   *)

EnterStores ==
  /\ step = "down" /\ dirLock = "free"
  /\ dirLock' = "held"
  /\ step' = "entering"
  /\ UNCHANGED <<stores, control, answer, transport, broker>>

\* EXISTING_MANAGEMENT_ATTEMPT: a record in either store or any attempt
\* directory ends the run before it starts.
ExistingAttempt ==
  \/ attemptDir
  \/ \E t \in Target : idem[t] # NoRecord \/ ledger[t] # NoRecord

\* HASH_DRIFT is the other reason: the stores are not the ones approved.
Refused ==
  /\ step = "entering"
  /\ Throw
  /\ UNCHANGED <<stores, broker>>

\* mkdir, copies, fsync; then the controller leaves CREATED.
Backup ==
  /\ step = "entering" /\ ~ExistingAttempt
  /\ attemptDir' = TRUE
  /\ step' = "loop"
  /\ phase' = "ACCOUNT_PREFLIGHT"
  /\ used' = After("account")
  /\ UNCHANGED <<idem, ledger, wire, dirLock, index, rows, pending, sticky, answer, transport, broker>>

\* A failed call after the mkdir.
BackupFails ==
  /\ step = "entering" /\ ~ExistingAttempt
  /\ attemptDir' = TRUE
  /\ Throw
  /\ UNCHANGED <<idem, ledger, wire, broker>>

-----------------------------------------------------------------------------
(* The controller: advanceScopedCloseout. A failed contract, an expired    *)
(* clock or an exceeded budget ends every event in STOPPED, with no effect.*)

Stop == phase' = "STOPPED" /\ sticky' = TRUE

\* Enter phase p and issue the reads (or the submit) counted under c.
Issue(p, c) ==
  /\ used' = After(c)
  /\ IF \A g \in Group : After(c)[g] <= Budget[g]
     THEN phase' = p /\ UNCHANGED sticky
     ELSE Stop

\* CLOCK_OR_ATTEMPT_EXPIRED, PREFLIGHT_BLOCKED, PRESEND_STALE or
\* POSTCHECK_START_EXPIRED: whatever was being done, STOPPED comes next.
Expire ==
  /\ \/ step = "loop" /\ phase \in {"ACCOUNT_PREFLIGHT", "INITIAL_PREFLIGHT", "REVALIDATING"}
     \/ step \in {"receipt", "answered", "looked"}
  /\ Stop
  /\ step' = "loop"
  /\ UNCHANGED <<stores, dirLock, index, rows, pending, answer, used, transport, broker>>

\* A failed or unmappable read throws in the adapter before the controller
\* hears of it.
ReadThrows ==
  /\ step = "loop" /\ phase \in {"ACCOUNT_PREFLIGHT", "INITIAL_PREFLIGHT", "REVALIDATING"}
  /\ Throw
  /\ UNCHANGED <<stores, broker>>

AccountReady ==
  /\ step = "loop" /\ phase = "ACCOUNT_PREFLIGHT"
  /\ Issue("INITIAL_PREFLIGHT", "initial")
  /\ UNCHANGED <<stores, dirLock, step, index, rows, pending, answer, transport, broker>>

Committed == 1..(index - 1)
Filled(t) == order[t].status = "filled"
Open(t) == order[t].status \in {"accepted", "partially_filled"}

\* The snapshot READY_REPORT_ONLY needs: the portfolio without the positions
\* already sold, and no open order.
SnapshotMatches ==
  \A t \in Target : ~Open(t) /\ order[t].filled = (IF t \in Committed THEN Qty ELSE 0)

InitialPreflight ==
  /\ step = "loop" /\ phase = "INITIAL_PREFLIGHT"
  /\ SnapshotMatches
  /\ rows' = [t \in Target |-> <<Reservation>>]
  /\ pending' = rows'
  /\ phase' = "RESERVING"
  /\ UNCHANGED <<stores, dirLock, step, index, sticky, answer, used, transport, broker>>

Appended(p, o) == Append(rows[index], [phase |-> p, status |-> o.status, filled |-> o.filled])
\* What the record already says of the broker, when nothing new is known.
Known(t) == [status |-> LastEntry(rows[t]).status, filled |-> LastEntry(rows[t]).filled]

Preflight ==
  /\ step = "loop" /\ phase = "REVALIDATING"
  /\ SnapshotMatches
  /\ LastEntry(rows[index]).phase = "RESERVED"
  /\ pending' = Only(index, Appended("ATTEMPTED", Known(index)))
  /\ phase' = "ATTEMPT_PERSIST"
  /\ UNCHANGED <<stores, dirLock, step, index, rows, sticky, answer, used, transport, broker>>

-----------------------------------------------------------------------------
(* commit: both stores, idempotency first                                  *)

PersistPhases == {"RESERVING", "ATTEMPT_PERSIST", "OBSERVATION_PERSIST", "FINAL_PERSIST"}
BatchStoppers == {"partially_filled", "canceled", "rejected", "expired"}

PhaseOf(history) == IF history = NoRecord THEN "none" ELSE LastEntry(history).phase

\* reserveScopedExits, recordScopedAttempt, recordScopedObservation and the
\* validator in commit, for the records the controller wants written.
StoresAccept ==
  /\ \A t \in DOMAIN pending : ValidRecord(pending[t], FALSE)
  /\ CASE phase = "RESERVING" ->
            \A t \in Target : /\ ledger[t] = NoRecord /\ idem[t] = NoRecord
                              /\ PhaseOf(pending[t]) = "RESERVED"
       [] phase = "ATTEMPT_PERSIST" ->
            /\ PhaseOf(ledger[index]) = "RESERVED"
            /\ \A t \in Target : \A i \in 1..Len(ledger[t]) :
                 ledger[t][i].phase # "STOPPED" /\ ledger[t][i].status \notin BatchStoppers
            /\ \A t \in 1..(index - 1) : PhaseOf(ledger[t]) = "FLAT_RECONCILED"
            /\ \A t \in (index + 1)..N : PhaseOf(ledger[t]) = "RESERVED"
       [] OTHER ->
            /\ PhaseOf(ledger[index]) \notin {"none", "RESERVED"}
            /\ Len(pending[index]) = Len(ledger[index]) + 1
            /\ SubSeq(pending[index], 1, Len(ledger[index])) = ledger[index]

With(store) == [t \in Target |-> IF t \in DOMAIN pending THEN pending[t] ELSE store[t]]

\* A refused record throws, before or inside commit.
BeginCommit ==
  /\ step = "loop" /\ phase \in PersistPhases
  /\ IF StoresAccept
     THEN step' = "save_idem" /\ UNCHANGED <<dirLock, control, answer, transport>>
     ELSE Throw
  /\ UNCHANGED <<stores, broker>>

SaveIdempotency ==
  /\ step = "save_idem"
  /\ idem' = With(idem)
  /\ step' = "save_ledger"
  /\ UNCHANGED <<ledger, attemptDir, wire, dirLock, control, answer, transport, broker>>

SaveLedger ==
  /\ step = "save_ledger"
  /\ ledger' = With(ledger)
  /\ step' = "reload"
  /\ UNCHANGED <<idem, attemptDir, wire, dirLock, control, answer, transport, broker>>

\* Both stores are loaded again and must be equal to what was written.
Reload ==
  /\ step = "reload"
  /\ With(idem) = idem /\ With(ledger) = ledger
  /\ step' = "receipt"
  /\ UNCHANGED <<stores, dirLock, control, answer, transport, broker>>

\* Mutation of CommitFails: a failed commit gives the stores back.
CommitFailsUnlocked ==
  /\ \/ step = "save_idem" /\ idem' \in {idem, With(idem)} /\ UNCHANGED ledger
     \/ step = "save_ledger" /\ ledger' \in {ledger, With(ledger)} /\ UNCHANGED idem
     \/ step = "reload" /\ UNCHANGED <<idem, ledger>>
  /\ Down /\ dirLock' = "free"
  /\ UNCHANGED <<attemptDir, wire, broker>>

\* COMMIT_UNCERTAIN: a failed save has replaced its file or has not.
CommitFails ==
  /\ \/ step = "save_idem" /\ idem' \in {idem, With(idem)} /\ UNCHANGED ledger
     \/ step = "save_ledger" /\ ledger' \in {ledger, With(ledger)} /\ UNCHANGED idem
     \/ step = "reload" /\ UNCHANGED <<idem, ledger>>
  /\ Throw
  /\ UNCHANGED <<attemptDir, wire, broker>>

-----------------------------------------------------------------------------
(* Events that carry a storage receipt                                     *)

Reserved ==
  /\ step = "receipt" /\ phase = "RESERVING"
  /\ step' = "loop"
  /\ Issue("REVALIDATING", "presubmit")
  /\ UNCHANGED <<stores, dirLock, index, rows, pending, answer, transport, broker>>

\* The prices are evaluated again before the order is proposed.
AttemptRecorded ==
  /\ step = "receipt" /\ phase = "ATTEMPT_PERSIST"
  /\ step' = "loop"
  /\ Issue("SUBMITTING", "submit")
  /\ rows' = [rows EXCEPT ![index] = pending[index]]
  /\ UNCHANGED <<stores, dirLock, index, pending, answer, transport, broker>>

ObservationRecorded ==
  /\ step = "receipt" /\ phase = "OBSERVATION_PERSIST"
  /\ step' = "loop"
  /\ rows' = [rows EXCEPT ![index] = pending[index]]
  /\ Issue("POSTCHECK", "postcheck")
  /\ UNCHANGED <<stores, dirLock, index, pending, answer, transport, broker>>

\* Mutation of FinalRecorded: complete one target too early.
FinalRecordedEarly ==
  /\ step = "receipt" /\ phase = "FINAL_PERSIST"
  /\ step' = "loop"
  /\ rows' = [rows EXCEPT ![index] = pending[index]]
  /\ IF sticky \/ LastEntry(pending[index]).phase # "FLAT_RECONCILED"
     THEN phase' = "STOPPED" /\ UNCHANGED <<index, sticky, used>>
     ELSE /\ index' = index + 1
          /\ IF index' = N
             THEN phase' = "COMPLETE" /\ UNCHANGED <<sticky, used>>
             ELSE Issue("REVALIDATING", "presubmit")
  /\ UNCHANGED <<stores, dirLock, pending, answer, transport, broker>>

\* FINAL_RECORDED: the next target, the end, or STOPPED.
FinalRecorded ==
  /\ step = "receipt" /\ phase = "FINAL_PERSIST"
  /\ step' = "loop"
  /\ rows' = [rows EXCEPT ![index] = pending[index]]
  /\ IF sticky \/ LastEntry(pending[index]).phase # "FLAT_RECONCILED"
     THEN phase' = "STOPPED" /\ UNCHANGED <<index, sticky, used>>
     ELSE /\ index' = index + 1
          /\ IF index = N
             THEN phase' = "COMPLETE" /\ UNCHANGED <<sticky, used>>
             ELSE Issue("REVALIDATING", "presubmit")
  /\ UNCHANGED <<stores, dirLock, pending, answer, transport, broker>>

-----------------------------------------------------------------------------
(* SUBMITTING: the gate, the POST, the answer                              *)

\* A failed submit leaves the transport open for postchecks only, once any
\* submit has left; every other failure closes it.
SubmitFails(n) ==
  tstate' = IF n > 0 /\ tstate # "stopped" THEN "reconcile" ELSE "stopped"

\* request and beforeSubmit: the transport is open, the stores hold exactly
\* what the last receipt says, and the wire file is created exclusively.
Gate ==
  /\ step = "loop" /\ phase = "SUBMITTING"
  /\ tstate = "open" /\ sent < Budget["submit"]
  /\ With(idem) = idem /\ With(ledger) = ledger
  /\ index \notin wire
  /\ wire' = wire \cup {index}
  /\ step' = "send"
  /\ UNCHANGED <<idem, ledger, attemptDir, dirLock, control, answer, transport, broker>>

\* Any check of the gate fails, before or after the wire file is written:
\* the approval expired, a pinned file changed, prices are stale.
GateFails ==
  /\ \/ step = "loop" /\ phase = "SUBMITTING"
     \/ step = "send"
  /\ answer' = NoAnswer
  /\ SubmitFails(sent)
  /\ step' = "answered"
  /\ UNCHANGED <<stores, dirLock, control, sent, broker>>

\* Mutation of Send: the order of the next target is posted.
SendNext ==
  /\ step = "send"
  /\ sent' = sent + 1
  /\ posts' = [posts EXCEPT ![(index % N) + 1] = @ + 1]
  /\ net' = net \cup {(index % N) + 1}
  /\ step' = "waiting"
  /\ UNCHANGED <<stores, dirLock, control, answer, tstate, order>>

Send ==
  /\ step = "send"
  /\ sent' = sent + 1
  /\ posts' = [posts EXCEPT ![index] = @ + 1]
  /\ net' = net \cup {index}
  /\ step' = "waiting"
  /\ UNCHANGED <<stores, dirLock, control, answer, tstate, order>>

\* A readable answer of the broker to the POST.
AnswerArrives ==
  /\ step = "waiting" /\ order[index] # NoAnswer
  /\ answer' = order[index]
  /\ step' = "answered"
  /\ UNCHANGED <<stores, dirLock, control, transport, broker>>

\* Mutation of AnswerIsLost: a timeout is retried.
AnswerLostRetries ==
  /\ step = "waiting"
  /\ answer' = NoAnswer
  /\ SubmitFails(sent)
  /\ step' = "send"
  /\ UNCHANGED <<stores, dirLock, control, sent, broker>>

\* A timeout, a refusal or an unreadable answer.
AnswerIsLost ==
  /\ step = "waiting"
  /\ answer' = NoAnswer
  /\ SubmitFails(sent)
  /\ step' = "answered"
  /\ UNCHANGED <<stores, dirLock, control, sent, broker>>

\* observationFor: what the controller takes for an observation of its order.
Acceptable(o) ==
  LET known == Known(index) IN
  /\ o.status # "null"
  /\ o.filled >= known.filled
  /\ o.status = "filled" => o.filled = Qty
  /\ o.status = "partially_filled" => o.filled \in 1..(Qty - 1)
  /\ o.status \in {"accepted", "rejected"} => o.filled = 0
  /\ known.status \in TerminalStatuses => o.status = known.status

\* Mutation of SubmitResult: an uncertain submission counts as accepted.
SubmitResultOptimistic ==
  /\ step = "answered"
  /\ LET o == IF Acceptable(answer) THEN answer ELSE [status |-> "accepted", filled |-> 0] IN
     /\ pending' = Only(index, Appended("OBSERVED", o))
     /\ sticky' = (sticky \/ o.status \notin {"accepted", "filled"})
  /\ phase' = "OBSERVATION_PERSIST"
  /\ step' = "loop"
  /\ UNCHANGED <<stores, dirLock, index, rows, answer, used, transport, broker>>

SubmitResult ==
  /\ step = "answered"
  /\ \/ /\ Acceptable(answer)
        /\ pending' = Only(index, Appended("OBSERVED", answer))
        /\ sticky' = (sticky \/ answer.status \notin {"accepted", "filled"})
     \* SUBMIT_UNCERTAIN, also for an answer that took too long
     \/ /\ pending' = Only(index, Appended("STOPPED", Known(index)))
        /\ sticky' = TRUE
  /\ phase' = "OBSERVATION_PERSIST"
  /\ step' = "loop"
  /\ UNCHANGED <<stores, dirLock, index, rows, answer, used, transport, broker>>

-----------------------------------------------------------------------------
(* POSTCHECK: lookup by client order id, then positions, orders, clock     *)

\* A failed read closes the transport, and with it the reads that follow.
Lookup ==
  /\ step = "loop" /\ phase = "POSTCHECK"
  /\ \/ /\ tstate # "stopped" /\ order[index] # NoAnswer
        /\ answer' = order[index] /\ UNCHANGED tstate
     \/ answer' = NoAnswer /\ tstate' = "stopped"
  /\ step' = "looked"
  /\ UNCHANGED <<stores, dirLock, control, sent, broker>>

\* postSnapshotValid: exactly the committed positions and this one are gone.
PostSnapshotMatches ==
  \A t \in Target : ~Open(t) /\ order[t].filled = (IF t \in 1..index THEN Qty ELSE 0)

\* Mutation of Postcheck: a partial fill at submission does not stick.
PostcheckForgetsStop ==
  /\ step = "looked"
  /\ \/ /\ Acceptable(answer) /\ answer.status = "filled"
        /\ tstate # "stopped" /\ PostSnapshotMatches
        /\ pending' = Only(index, Appended("FLAT_RECONCILED", answer))
        /\ UNCHANGED <<sticky, tstate>>
     \/ /\ pending' = Only(index, Appended("STOPPED", Known(index)))
        /\ sticky' = TRUE
        /\ tstate' \in {tstate, "stopped"}
  /\ phase' = "FINAL_PERSIST"
  /\ step' = "loop"
  /\ UNCHANGED <<stores, dirLock, index, rows, answer, used, sent, broker>>

Postcheck ==
  /\ step = "looked"
  /\ \/ /\ Acceptable(answer) /\ answer.status = "filled"
        /\ tstate # "stopped" /\ PostSnapshotMatches /\ ~sticky
        /\ pending' = Only(index, Appended("FLAT_RECONCILED", answer))
        /\ UNCHANGED <<sticky, tstate>>
     \* a verified lookup is kept although a later read fails
     \/ /\ Acceptable(answer)
        /\ pending' = Only(index, Appended("STOPPED", answer))
        /\ sticky' = TRUE
        /\ tstate' \in {tstate, "stopped"}
     \/ /\ pending' = Only(index, Appended("STOPPED", Known(index)))
        /\ sticky' = TRUE
        /\ tstate' \in {tstate, "stopped"}
  /\ phase' = "FINAL_PERSIST"
  /\ step' = "loop"
  /\ UNCHANGED <<stores, dirLock, index, rows, answer, used, sent, broker>>

-----------------------------------------------------------------------------
(* The broker, as the code uses it: one order per client order id, whose   *)
(* fill only grows and whose terminal status stays.                        *)

PostArrives ==
  /\ \E t \in net :
       /\ net' = net \ {t}
       /\ order' = [order EXCEPT ![t] =
            IF @ = NoAnswer THEN [status |-> "accepted", filled |-> 0] ELSE @]
  /\ UNCHANGED <<stores, dirLock, step, control, answer, transport, posts>>

\* The network or the broker drops the POST for good.
PostIsDropped ==
  /\ \E t \in net : net' = net \ {t}
  /\ UNCHANGED <<stores, dirLock, step, control, answer, transport, order, posts>>

OrderMoves ==
  /\ \E t \in Target, o \in Observation :
       /\ Open(t)
       /\ o.filled >= order[t].filled
       /\ \/ o.status = "partially_filled" /\ o.filled \in 1..(Qty - 1) /\ o # order[t]
          \/ o.status = "filled" /\ o.filled = Qty
          \/ o.status \in {"canceled", "expired"} /\ o.filled = order[t].filled
          \/ o.status = "rejected" /\ order[t].filled = 0 /\ o.filled = 0
       /\ order' = [order EXCEPT ![t] = o]
  /\ UNCHANGED <<stores, dirLock, step, control, answer, transport, net, posts>>

-----------------------------------------------------------------------------
RunStep ==
  \/ EnterStores \/ Refused \/ Backup \/ BackupFails
  \/ AccountReady \/ InitialPreflight \/ Preflight \/ ReadThrows \/ Expire
  \/ BeginCommit \/ SaveIdempotency \/ SaveLedger \/ Reload \/ CommitFails
  \/ Reserved \/ AttemptRecorded \/ ObservationRecorded \/ FinalRecorded
  \/ Gate \/ GateFails \/ Send \/ AnswerArrives \/ AnswerIsLost \/ SubmitResult
  \/ Lookup \/ Postcheck \/ Return

BrokerStep == PostArrives \/ PostIsDropped \/ OrderMoves

Next == RunStep \/ BrokerStep \/ Crash \/ OperatorClearsLock

Spec == Init /\ [][Next]_vars

\* Every await of the adapter ends: reads and the POST carry a timeout, and
\* the file-system calls return.
\* Nobody has to start a run.
FairSpec == Spec /\ WF_vars(step # "down" /\ RunStep)

-----------------------------------------------------------------------------
(* Properties                                                              *)

\* Every variable keeps its type; the directory lock is held exactly while a
\* run is under way, and no history grows beyond five entries.
TypeOK ==
  /\ \A t \in Target : \A h \in {idem[t], ledger[t], rows[t]} :
       Len(h) \in 0..5 /\ \A i \in 1..Len(h) : h[i] \in Entry
  /\ attemptDir \in BOOLEAN
  /\ wire \subseteq Target
  /\ dirLock \in {"free", "held", "left"}
  /\ (dirLock = "held") <=> (step # "down")
  /\ phase \in PersistPhases \cup {"CREATED", "ACCOUNT_PREFLIGHT", "INITIAL_PREFLIGHT",
       "REVALIDATING", "SUBMITTING", "POSTCHECK", "COMPLETE", "STOPPED"}
  /\ index \in 1..(N + 1)
  /\ DOMAIN pending \subseteq Target
  /\ sticky \in BOOLEAN
  /\ answer \in Observation
  /\ used \in [Group -> Nat]
  /\ tstate \in {"open", "reconcile", "stopped"}
  /\ sent \in 0..N
  /\ net \subseteq Target
  /\ order \in [Target -> Observation]
  /\ posts \in [Target -> Nat]

\* Whatever crashes and whoever restarts the command, an order can only leave
\* after its intent is in both stores and its wire file exists, so that an
\* order at the broker is always one the records know.
IntentIsDurableFirst ==
  \A t \in Target :
    posts[t] > 0 => Len(idem[t]) > 1 /\ Len(ledger[t]) > 1 /\ t \in wire

\* No position is sold twice: one POST per target over all runs, restarts and
\* lock removals.
NeverResent == \A t \in Target : posts[t] <= 1

\* One at a time: an order only leaves when the broker has filled all the
\* earlier ones and both stores say so.
OneAtATime ==
  \A t \in Target : posts[t] > 0 =>
    \A s \in 1..(t - 1) :
      Filled(s) /\ PhaseOf(idem[s]) = "FLAT_RECONCILED" /\ PhaseOf(ledger[s]) = "FLAT_RECONCILED"

\* The two saves are no transaction. After a failure or crash between them
\* the ledger is what the idempotency state was one commit ago.
LedgerTrailsByOneCommit ==
  \A t \in Target :
    /\ Len(idem[t]) - Len(ledger[t]) \in {0, 1}
    /\ SubSeq(idem[t], 1, Len(ledger[t])) = ledger[t]

\* No record says more than the broker did: a recorded fill is filled, a
\* recorded terminal status is the order's status.
RecordsFollowBroker ==
  \A t \in Target : idem[t] # NoRecord =>
    LET last == LastEntry(idem[t]) IN
      /\ last.filled <= order[t].filled
      /\ last.status # "null" => order[t] # NoAnswer
      /\ last.status \in TerminalStatuses => order[t].status = last.status

\* COMPLETE is the truth about the broker and about both stores.
CompleteMeansFlat ==
  phase = "COMPLETE" =>
    \A t \in Target : /\ order[t] = [status |-> "filled", filled |-> Qty]
                      /\ PhaseOf(idem[t]) = "FLAT_RECONCILED"
                      /\ ledger[t] = idem[t]

\* The controller never asks for a record that the storage rules or the
\* validator refuse, whatever the broker answered.
ControllerAndStoresAgree ==
  step = "loop" /\ phase \in PersistPhases => StoresAccept

\* The request budget is exact: it stops no run that nothing else stopped.
BudgetSuffices == \A g \in Group : used[g] <= Budget[g]

\* A one-sided write keeps the directory lock: a run never gives the stores
\* back while they differ.
LockKeptOnOneSidedWrite ==
  [][step # "down" /\ dirLock' = "free" => idem = ledger]_vars

\* Every run ends, whatever the broker does and however often it is refused.
EveryRunEnds == step # "down" ~> step = "down"

\* Once an intent was written, whatever a run that is over has left, killed or
\* not, is a hand-over the observation can start from.
RestIsHandedOver ==
  step = "down" /\ (\E t \in Target : Len(idem[t]) > 1) => HandedOver(idem, ledger, order)

\* The checks read these as three: each is about one hazard.

\* A position is sold once at the most, and never without a durable intent that
\* every later run would find (scoped-paper-adapter.mjs:165-210).
NothingSentTwice == IntentIsDurableFirst /\ NeverResent

\* The two files saved one after the other, the controller's phase and the broker
\* never contradict each other (scoped-closeout-storage.mjs:131-155).
StoresAreSound == LedgerTrailsByOneCommit /\ RecordsFollowBroker /\ ControllerAndStoresAgree

\* A healthy run is carried through: the exits in order, within the request budget,
\* and COMPLETE only when all are flat (scoped-closeout-contract.mjs:26, 584).
PlanIsKept == TypeOK /\ OneAtATime /\ CompleteMeansFlat /\ BudgetSuffices

\* The attempt implements an exit plan that is carried out at most once.
Plan == INSTANCE ExitOnce
          WITH intended <- {t \in Target : Len(ledger[t]) > 1},
               sentOut <- {t \in Target : posts[t] > 0},
               closed <- {t \in Target : PhaseOf(ledger[t]) = "FLAT_RECONCILED"}

PlanSpec == Plan!Spec
=============================================================================
