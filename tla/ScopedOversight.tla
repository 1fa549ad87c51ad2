-------------------------- MODULE ScopedOversight --------------------------
(***************************************************************************)
(* The observation that takes over when a scoped closeout has ended: it    *)
(* looks every attempted order up, records what the broker says in both    *)
(* stores, compares the portfolio, and ends reconciled or with a hand-off  *)
(* to the operator. It composes                                            *)
(*   - the loop,           scripts/lib/scoped-paper-oversight.mjs,         *)
(*   - the two stores,     scripts/lib/scoped-closeout-storage.mjs, and    *)
(*   - the mapping of broker answers, scripts/lib/scoped-paper-evidence.mjs*)
(* with a broker that moves between any two reads, the closeout's POST     *)
(* that may still arrive, a failure of any read or save, and a crash at    *)
(* any point. Every run needs an approval that names the bytes of both     *)
(* stores and is spent by a claim file.                                    *)
(***************************************************************************)
EXTENDS ScopedHandOver, FiniteSets

CONSTANTS
  N,          \* exits of the attempt; the code has 5
  MaxCycles,  \* policy.maxCycles
  Configs,    \* the configurations an operator approves
  MaxClaims   \* bound of the model on the runs

ASSUME OversightAssumption ==
  /\ N \in Nat \ {0}
  /\ MaxCycles \in Nat \ {0}
  /\ MaxClaims \in Nat

VARIABLES
  idem, ledger,  \* [Target -> history]: management records on disk
  dirLock,       \* ".scoped-closeout.lock": "free", "held" or "left"
  claims,        \* authorities whose observation-<hash>.json was started
  authority,     \* what the operator approved last
  step,          \* what the run awaits
  cycle, target, \* where the loop is
  rows,          \* records of the run
  next,          \* the record under commit
  held, open,    \* what the reads of this cycle said is sold, and is open
  result,        \* how the last run ended
  net,           \* exits whose POST is still on its way
  order,         \* [Target -> NoOrder or the broker's order]
  runs           \* runs that went on to read the broker (history)

stores  == <<idem, ledger>>
loop    == <<cycle, target, rows, next, held, open>>
broker  == <<net, order>>
outside == <<authority, claims, runs>>
vars == <<idem, ledger, dirLock, claims, authority, step, cycle, target, rows, next,
          held, open, result, net, order, runs>>

Target == 1..N
NoAuthority == [config |-> "none", stores |-> <<>>]
Results == {"none", "failed", "reconciled", "conflict", "closed", "residual", "budget"}

Reserved(t) == rows[t] = <<Reservation>>
Attempted == {t \in Target : ~Reserved(t)}
Last(t) == LastEntry(rows[t])
IsOpen(t) == order[t].status \in {"accepted", "partially_filled"}

Init ==
  /\ \E i \in Target, h \in OpenHistories \cup ClosedHistories, closed \in ClosedHistories :
       /\ idem = [t \in Target |-> IF t < i THEN closed ELSE IF t = i THEN h ELSE <<Reservation>>]
       /\ \E torn \in BOOLEAN :
            ledger = IF torn THEN [idem EXCEPT ![i] = SubSeq(h, 1, Len(h) - 1)] ELSE idem
       /\ \E o \in Orders :
            /\ o = NoOrder \/ ValidEntry(Entered("OBSERVED", o))
            /\ order = [t \in Target |-> IF t < i THEN [status |-> "filled", filled |-> Qty]
                                         ELSE IF t = i THEN o ELSE NoOrder]
            /\ net \in {{}, IF o = NoOrder THEN {i} ELSE {}}
  /\ HandedOver(idem, ledger, order)
  /\ dirLock \in {"free", "left"}
  /\ claims = {}
  /\ authority = NoAuthority
  /\ step = "down"
  /\ cycle = 1 /\ target = 1
  /\ rows = [t \in Target |-> <<Reservation>>]
  /\ next = <<>>
  /\ held = {} /\ open = {}
  /\ result = "none"
  /\ runs = 0

-----------------------------------------------------------------------------
(* The operator                                                            *)

\* An approval pins the bytes the stores have now.
Approve ==
  /\ step = "down" /\ Cardinality(claims) < MaxClaims
  /\ \E c \in Configs : authority' = [config |-> c, stores |-> stores]
  /\ UNCHANGED <<stores, dirLock, claims, step, loop, result, broker, runs>>

OperatorClearsLock ==
  /\ dirLock = "left"
  /\ dirLock' = "free"
  /\ UNCHANGED <<stores, outside, step, loop, result, broker>>

-----------------------------------------------------------------------------
(* The end of a run                                                        *)

Down(how) ==
  /\ step' = "down"
  /\ cycle' = 1 /\ target' = 1
  /\ rows' = [t \in Target |-> <<Reservation>>]
  /\ next' = <<>>
  /\ held' = {} /\ open' = {}
  /\ result' = how

\* An error leaves the task of withScopedObservationStores: the lock stays.
Throw == Down("failed") /\ dirLock' = "left"

Crash ==
  /\ step # "down"
  /\ Throw
  /\ UNCHANGED <<stores, outside, broker>>

-----------------------------------------------------------------------------
(* withScopedObservationStores, up to the first read                       *)

EnterStores ==
  /\ step = "down" /\ dirLock = "free" /\ authority # NoAuthority
  /\ dirLock' = "held"
  /\ step' = "entering"
  /\ result' = "none"
  /\ UNCHANGED <<stores, outside, loop, broker>>

\* Mutation of Admitted: equal records in both stores are not required.
AdmittedOneSided ==
  /\ stores = authority.stores
  /\ \E t \in Target : ledger[t] # <<Reservation>>
  /\ authority \notin claims

\* Mutation of Admitted: the claims of earlier runs are not looked at.
AdmittedAgain ==
  /\ stores = authority.stores
  /\ idem = ledger
  /\ \E t \in Target : ledger[t] # <<Reservation>>

\* HASH_DRIFT, OBSERVATION_SCOPE_INVALID, NO_ATTEMPTED_IDENTITY and
\* OBSERVATION_AUTHORITY_USED do not hold.
Admitted ==
  /\ stores = authority.stores
  /\ idem = ledger
  /\ \E t \in Target : ledger[t] # <<Reservation>>
  /\ authority \notin claims

Refused ==
  /\ step = "entering"
  /\ Throw
  /\ UNCHANGED <<stores, outside, broker>>

\* claimObservation: the claim is spent once its temporary file exists.
\* controls, the account read and its binding follow.
Claim ==
  /\ step = "entering" /\ Admitted
  /\ claims' = claims \cup {authority}
  /\ runs' = runs + 1
  /\ rows' = ledger
  /\ step' = "lookup"
  /\ UNCHANGED <<stores, dirLock, authority, cycle, target, next, held, open, result, broker>>

-----------------------------------------------------------------------------
(* A cycle: look every attempted order up and record it                    *)

\* A read that fails, an answer that cannot be mapped, a spent budget or an
\* expired window: all of them throw. A 404 of the lookup is one of them.
ReadFails ==
  /\ step \in {"lookup", "positions", "orders", "clock"}
  /\ Throw
  /\ UNCHANGED <<stores, outside, broker>>

\* To the next attempted exit, or on to the portfolio.
Advance ==
  LET rest == {t \in Attempted : t > target} IN
    IF rest = {} THEN step' = "positions" /\ target' = 1
    ELSE step' = "lookup" /\ target' = CHOOSE t \in rest : \A u \in rest : t <= u

\* mapOversightObservation: what is taken for an observation of the order.
Acceptable(o) ==
  /\ o # NoOrder
  /\ o.filled >= Last(target).filled
  /\ Last(target).status \in TerminalStatuses => o.status = Last(target).status

Same(o) == Last(target).status = o.status /\ Last(target).filled = o.filled

\* observedRecord: a new entry, and the record is stopped for good.
Observed(o) == Append(rows[target], Entered("STOPPED", o))

\* The answer says what the record says.
LookupUnchanged ==
  /\ step = "lookup" /\ Acceptable(order[target]) /\ Same(order[target])
  /\ Advance
  /\ UNCHANGED <<stores, outside, dirLock, cycle, rows, next, held, open, result, broker>>

\* The status, the fill or only a timestamp of the order is new. (A record
\* of 16 entries is refused at the commit.)
\* TERMINAL_RECORD_CONFLICT: a reconciled record takes no further entry.
LookupChanged ==
  /\ step = "lookup" /\ Acceptable(order[target])
  /\ Last(target).phase # "FLAT_RECONCILED"
  /\ next' = Observed(order[target])
  /\ step' = "save_idem"
  /\ UNCHANGED <<stores, outside, dirLock, cycle, target, rows, held, open, result, broker>>

With(store) == [store EXCEPT ![target] = next]

\* commit refuses what the validator refuses, before anything is saved.
SaveIdempotency ==
  /\ step = "save_idem" /\ ValidRecord(next, FALSE)
  /\ idem' = With(idem)
  /\ step' = "save_ledger"
  /\ UNCHANGED <<ledger, outside, dirLock, loop, result, broker>>

SaveLedger ==
  /\ step = "save_ledger"
  /\ ledger' = With(ledger)
  /\ step' = "reload"
  /\ UNCHANGED <<idem, outside, dirLock, loop, result, broker>>

\* Both stores are loaded again and must be equal to what was written.
Reload ==
  /\ step = "reload" /\ With(idem) = idem /\ With(ledger) = ledger
  /\ rows' = [rows EXCEPT ![target] = next]
  /\ next' = <<>>
  /\ Advance
  /\ UNCHANGED <<stores, outside, dirLock, cycle, held, open, result, broker>>

\* Mutation of CommitFails: a failed commit gives the stores back.
CommitFailsUnlocked ==
  /\ \/ step = "save_idem" /\ idem' \in {idem, With(idem)} /\ UNCHANGED ledger
     \/ step = "save_ledger" /\ ledger' \in {ledger, With(ledger)} /\ UNCHANGED idem
     \/ step = "reload" /\ UNCHANGED stores
  /\ Down("failed") /\ dirLock' = "free"
  /\ UNCHANGED <<outside, broker>>

\* COMMIT_UNCERTAIN: a failed save has replaced its file or has not.
CommitFails ==
  /\ \/ /\ step = "save_idem"
        /\ idem' \in {idem} \cup (IF ValidRecord(next, FALSE) THEN {With(idem)} ELSE {})
        /\ UNCHANGED ledger
     \/ step = "save_ledger" /\ ledger' \in {ledger, With(ledger)} /\ UNCHANGED idem
     \/ step = "reload" /\ UNCHANGED stores
  /\ Throw
  /\ UNCHANGED <<outside, broker>>

-----------------------------------------------------------------------------
(* The end of a cycle: positions, open orders and the clock, one by one    *)

Positions ==
  /\ step = "positions"
  /\ held' = {[exit |-> t, sold |-> order[t].filled] : t \in Target}
  /\ step' = "orders"
  /\ UNCHANGED <<stores, outside, dirLock, cycle, target, rows, next, open, result, broker>>

OpenOrders ==
  /\ step = "orders"
  /\ open' = {t \in Target : IsOpen(t)}
  /\ step' = "clock"
  /\ UNCHANGED <<stores, outside, dirLock, cycle, target, rows, next, held, result, broker>>

\* mapOversightPortfolio: the positions are those of the hand-over less what
\* the records say was sold, and every open order is a record's.
PortfolioMatches ==
  /\ held = {[exit |-> t, sold |-> Last(t).filled] : t \in Target}
  /\ \A t \in open : ~Reserved(t)

Flat ==
  {t \in Attempted : /\ Last(t).status = "filled"
                     /\ [exit |-> t, sold |-> Qty] \in held
                     /\ t \notin open}

\* Mutation of Verdict: a terminal order counts as an outcome.
VerdictTerminal(marketOpen, foreign) ==
  IF ~PortfolioMatches \/ foreign THEN "conflict"
  ELSE IF \A t \in Attempted : Last(t).status \in TerminalStatuses THEN "reconciled"
  ELSE IF ~marketOpen THEN "closed"
  ELSE IF \E t \in Attempted : Last(t).status \in {"canceled", "rejected", "expired"} THEN "residual"
  ELSE IF cycle = MaxCycles THEN "budget"
  ELSE "none"

\* What the loop concludes; "none" asks for another cycle. Positions and
\* orders of others in the account are a conflict too.
Verdict(marketOpen, foreign) ==
  IF ~PortfolioMatches \/ foreign THEN "conflict"
  ELSE IF Flat = Attempted THEN "reconciled"
  ELSE IF ~marketOpen THEN "closed"
  ELSE IF \E t \in Attempted : Last(t).status \in {"canceled", "rejected", "expired"} THEN "residual"
  ELSE IF cycle = MaxCycles THEN "budget"
  ELSE "none"

\* The first attempted exit.
First == CHOOSE t \in Attempted : \A u \in Attempted : t <= u

\* Mutation of Clock: the cycles are not counted.
ClockForever ==
  /\ step = "clock"
  /\ \E marketOpen, foreign \in BOOLEAN :
       LET verdict == Verdict(marketOpen, foreign) IN
         IF verdict = "none"
         THEN /\ target' = First /\ step' = "lookup"
              /\ held' = {} /\ open' = {}
              /\ UNCHANGED <<dirLock, cycle, rows, next, result>>
         ELSE Down(verdict) /\ dirLock' = "free"
  /\ UNCHANGED <<stores, outside, broker>>

Clock ==
  /\ step = "clock"
  /\ \E marketOpen, foreign \in BOOLEAN :
       LET verdict == Verdict(marketOpen, foreign) IN
         IF verdict = "none"
         THEN /\ cycle' = cycle + 1 /\ target' = First /\ step' = "lookup"
              /\ held' = {} /\ open' = {}
              /\ UNCHANGED <<dirLock, rows, next, result>>
         ELSE Down(verdict) /\ dirLock' = "free"
  /\ UNCHANGED <<stores, outside, broker>>

-----------------------------------------------------------------------------
(* The broker, as the code uses it                                         *)

PostArrives ==
  /\ \E t \in net :
       /\ net' = net \ {t}
       /\ order' = [order EXCEPT ![t] = [status |-> "accepted", filled |-> 0]]
  /\ UNCHANGED <<stores, outside, dirLock, step, loop, result>>

OrderMoves ==
  /\ \E t \in Target, o \in Orders :
       /\ IsOpen(t)
       /\ o.filled >= order[t].filled
       /\ \/ o.status = "partially_filled" /\ o.filled \in 1..(Qty - 1) /\ o # order[t]
          \/ o.status = "filled" /\ o.filled = Qty
          \/ o.status \in {"canceled", "expired"} /\ o.filled = order[t].filled
          \/ o.status = "rejected" /\ order[t].filled = 0 /\ o.filled = 0
       /\ order' = [order EXCEPT ![t] = o]
  /\ UNCHANGED <<stores, outside, dirLock, step, loop, result, net>>

-----------------------------------------------------------------------------
RunStep ==
  \/ Refused \/ Claim \/ ReadFails \/ LookupUnchanged \/ LookupChanged
  \/ SaveIdempotency \/ SaveLedger \/ Reload \/ CommitFails
  \/ Positions \/ OpenOrders \/ Clock

Next == Approve \/ OperatorClearsLock \/ EnterStores \/ RunStep \/ Crash \/ PostArrives \/ OrderMoves

Spec == Init /\ [][Next]_vars

\* Every await of a run ends: reads and waits carry a timeout and the
\* file-system calls return. Nobody has to start a run.
FairSpec == Spec /\ WF_vars(step # "down" /\ RunStep)

-----------------------------------------------------------------------------
(* Properties                                                              *)

\* Every variable keeps its type, and the directory lock is held exactly
\* while a run is under way.
TypeOK ==
  /\ \A t \in Target : \A h \in {idem[t], ledger[t], rows[t]} :
       Len(h) \in 1..16 /\ \A i \in 1..Len(h) : h[i] \in Entry
  /\ dirLock \in {"free", "held", "left"}
  /\ (dirLock = "held") <=> (step # "down")
  /\ step \in {"down", "entering", "lookup", "save_idem", "save_ledger", "reload",
               "positions", "orders", "clock"}
  /\ cycle \in 1..MaxCycles
  /\ target \in Target
  /\ open \subseteq Target
  /\ result \in Results
  /\ net \subseteq Target
  /\ order \in [Target -> Orders]

\* No record says more than the broker did, whichever run wrote it and
\* however the broker moved between the lookup and the two saves.
RecordsFollowBroker == \A t \in Target : Justified(idem[t], order[t])

\* The two saves are no transaction, but over all runs and crashes the stores
\* differ by one commit of one record at the most, and the ledger is behind.
LedgerTrailsByOneCommit ==
  /\ \A t \in Target : ledger[t] \in {idem[t], SubSeq(idem[t], 1, Len(idem[t]) - 1)}
  /\ Cardinality({t \in Target : ledger[t] # idem[t]}) <= 1

\* Whoever restarts the command after whatever failure, the reads one
\* approval allows are never spent twice.
OneRunPerAuthority == runs = Cardinality(claims)

\* "Reconciled" is true although positions, orders and clock were read one
\* after the other: each attempted order is filled, and both stores know it.
ReconciledMeansFlat ==
  result = "reconciled" =>
    \A t \in Target : ledger[t] # <<Reservation>> =>
      /\ order[t] = [status |-> "filled", filled |-> Qty]
      /\ LastEntry(idem[t]).status = "filled"
      /\ ledger[t] = idem[t]

\* The loop never makes a record that the storage validator refuses,
\* whatever hand-over it started from and whatever the broker says, until
\* the history is full.
RecordsAreStorable == step = "save_idem" /\ Len(next) <= 16 => ValidRecord(next, FALSE)

\* Nothing a store ever recorded is rewritten or lost, also when a hand-over
\* or an earlier run left the idempotency state ahead of the ledger that the
\* loop takes its records from; and a run gives the stores back only while they agree.
HistoriesOnlyGrow ==
  [][/\ \A t \in Target :
          /\ Len(idem[t]') >= Len(idem[t]) /\ SubSeq(idem[t]', 1, Len(idem[t])) = idem[t]
          /\ Len(ledger[t]') >= Len(ledger[t]) /\ SubSeq(ledger[t]', 1, Len(ledger[t])) = ledger[t]
     /\ step # "down" /\ dirLock' = "free" => idem = ledger]_vars

\* Every run ends, reconciled or with a hand-off.
EveryRunEnds == step # "down" ~> step = "down"

\* The checks read the invariants as two.

\* What is recorded and what a run reports is true of the broker, although lookup,
\* positions and open orders describe different moments (scoped-paper-evidence.mjs:262).
RecordsAreTrue == RecordsFollowBroker /\ ReconciledMeansFlat

\* However runs die between claim, saves and verdict, an approval pays for one run, the
\* stores stay one commit apart, and what a run writes can be stored
\* (scoped-paper-oversight.mjs:126, scoped-closeout-storage.mjs:108).
RunsAreAccounted ==
  TypeOK /\ OneRunPerAuthority /\ LedgerTrailsByOneCommit /\ RecordsAreStorable
=============================================================================
