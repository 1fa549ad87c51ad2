--------------------------- MODULE BrokerOrdersProofs ---------------------------
(***************************************************************************)
(* What holds of the four lanes that send orders after looking at the      *)
(* broker, for every value of the constants: any number of plans, shares,  *)
(* runs, symbols, prices, days and caps. Each lane is proved by itself     *)
(* from an inductive invariant of its own; LanesAreKept carries the        *)
(* results to the behaviours that the run explores.                        *)
(***************************************************************************)
EXTENDS MCBrokerOrders, SequenceTheorems, FiniteSetTheorems, WellFoundedInduction, TLAPS

-------------------------------------------------------------------------------
(* The lanes                                                               *)

\* A behaviour of the four lanes is one of each of them.
THEOREM LanesAreKept ==
  LanesSpec => Spec /\ Replacement!Spec /\ Repair!Spec /\ Admission!Spec
<1>1. LanesInit => Init /\ Replacement!Init /\ Repair!Init /\ Admission!Init
  BY DEF LanesInit
<1>2. [LanesNext]_<<lane, vars, replaceVars, repairVars, admissionVars>> =>
        /\ [Next]_vars /\ [Replacement!Next]_(Replacement!vars)
        /\ [Repair!Next]_(Repair!vars) /\ [Admission!Next]_(Admission!vars)
  BY DEF LanesNext, ExitMoves, ReplacementMoves, RepairMoves, AdmissionMoves, replaceVars, repairVars,
         admissionVars, Replacement!vars, Repair!vars, Admission!vars
<1>q. QED BY <1>1, <1>2, PTL DEF LanesSpec, Spec, Replacement!Spec, Repair!Spec, Admission!Spec

-------------------------------------------------------------------------------
(* The exits of a held position. A file that says an exit ended is right   *)
(* about its order, because a terminal record is never overwritten by one  *)
(* that is not; without a death, what was sent has a row or the run that   *)
(* sent it is still to write it. So the check that finds no other row      *)
(* unended finds no other exit that works or may come alive, and the POST  *)
(* keeps the one it lets through alone. The position is compared with what *)
(* works and with what was read, and, whatever races, no exit sells more   *)
(* than the position it read.                                              *)

Steps == {"idle", "preflight", "reserve", "position", "list", "check", "post", "record", "ledger"}

ExitTyped ==
  /\ faults \in Faults
  /\ position \in Int /\ position <= MaxQty /\ protect \in 0..MaxQty
  /\ orders \in [Keys -> NoneOr(ExitOrders)]
  /\ late \subseteq [key : Keys, qty : 1..MaxQty]
  /\ idem \in [Keys -> NoneOr(Entries)] /\ released \in [Keys -> Seq(Entries)]
  /\ ledger \in [Keys -> NoneOr(LedgerRows)]
  /\ runs \in 0..MaxRuns /\ pc \in Steps /\ key \in NoneOr(Keys)
  /\ pc # "idle" => key \in Keys
  /\ held \in Int /\ held <= MaxQty /\ (pc \in {"list", "check", "post"} => held >= 1)
  /\ row \in NoneOr(BrokerRows)
  /\ pc \notin {"idle", "ledger"} => row # None

\* A record that an exit has ended is that of an order that ended so.
EndsTrue(os, k, rec) == rec.status \in Ended => os[k] # None /\ os[k].status = rec.status
FilesTrue ==
  \A k \in Keys :
    /\ idem[k] # None => EndsTrue(orders, k, idem[k])
    /\ \A i \in 1..Len(released[k]) : EndsTrue(orders, k, released[k][i])
    /\ ledger[k] # None => EndsTrue(orders, k, ledger[k])

\* What was sent has a row, unless the run that sent it is still to write it.
Sent(k) == orders[k] # None \/ \E p \in late : p.key = k
Writing(k) == key = k /\ pc \in {"record", "ledger"} /\ row # None
SentIsWritten ==
  /\ late # {} => "late" \in faults
  /\ "death" \notin faults => \A k \in Keys : Sent(k) => ledger[k] # None \/ Writing(k)

\* One exit may work; from the check on no other but that of the run.
Alive(k) == OpenExit(k) \/ MayComeAlive(k)
OneAlive ==
  /\ \A k, l \in Keys : Alive(k) /\ Alive(l) => k = l
  /\ pc = "check" /\ ~seen.exit => \A k \in Keys : OpenExit(k) => ledger[k] # None
  /\ pc = "post" => \A k \in Keys : Alive(k) => k = key
  /\ pc = "check" /\ ~seen.protective => protect = 0
  /\ pc = "post" => protect = 0

\* The position covers what works; a position read is no larger than it is, or the
\* check refuses, or the broker does.
Unended(k) == ledger[k] # None /\ ledger[k].status \notin Ended
Covered ==
  faults \subseteq {"late"} =>
    /\ position >= protect
    /\ \A k \in Keys : OpenExit(k) => position >= orders[k].left + protect
    /\ \A p \in late : orders[p.key] = None => position >= p.qty + protect
    /\ pc \in {"list", "check"} => held <= position \/ orders[key] # None \/ \E k \in Keys \ {key} : Unended(k)
    /\ pc = "post" => held <= position \/ orders[key] # None

\* However the exits race with the protective order, each sells the position once.
Ordered == {k \in Keys : orders[k] # None}
Floor(n) == 0 - MaxQty * n
Bounded ==
  /\ position - protect >= Floor(Cardinality(Ordered))
  /\ \A k \in Keys : OpenExit(k) => position - protect - orders[k].left >= Floor(Cardinality(Ordered))
  /\ held >= Floor(Cardinality(Keys))

ExitInv == ExitTyped /\ FilesTrue /\ SentIsWritten /\ OneAlive /\ Covered /\ Bounded

-------------------------------------------------------------------------------
LEMMA StatusesApart ==
  /\ Open \cap Ended = {} /\ Ended \subseteq OrderLifecycleStatus
  /\ {"accepted", "partially_filled", "filled", "canceled", "rejected"} \subseteq Open \cup Ended
  /\ "accepted" \in Open /\ "accepted" \notin Ended /\ "submitted" \notin Ended /\ "planned" \notin Ended
      /\ None \notin Ended
  /\ "partially_filled" \in Open /\ "filled" \in Ended /\ "canceled" \in Ended /\ "rejected" \in Ended
BY KeysAssumption, NoneAssumption DEF Open, Ended, Terminal, OrderLifecycleStatus

\* An order of the broker.
LEMMA OrderIs ==
  ASSUME ExitTyped, NEW k \in Keys, orders[k] # None
  PROVE  orders[k] \in ExitOrders /\ orders[k].left \in 0..MaxQty
         /\ orders[k] = [status |-> orders[k].status, left |-> orders[k].left]
<1>1. orders[k] \in ExitOrders
  BY DEF ExitTyped, NoneOr
<1>q. QED BY <1>1 DEF ExitOrders

LEMMA FilledIs ==
  ASSUME NEW o \in ExitOrders, NEW n \in 1..MaxQty, n <= o.left
  PROVE  /\ Filled(o, n) \in ExitOrders /\ Filled(o, n).left = o.left - n
         /\ Filled(o, n).status \in {"filled", "partially_filled"}
<1> DEFINE s == IF o.left = n THEN "filled" ELSE "partially_filled"
<1>1. Filled(o, n) = [o EXCEPT !.left = o.left - n, !.status = s]
  BY DEF Filled
<1>2. o.left \in 0..MaxQty /\ s \in {"filled", "partially_filled"} /\ MaxQty \in Nat
  BY BoundsAssumption DEF ExitOrders
<1>3. o.left - n \in 0..MaxQty
  BY <1>2
<1> HIDE DEF s
<1>q. QED BY <1>1, <1>2, <1>3 DEF ExitOrders

LEMMA EndedIs ==
  ASSUME NEW o \in ExitOrders, NEW s \in {"canceled", "rejected"}
  PROVE  [o EXCEPT !.status = s] \in ExitOrders /\ [o EXCEPT !.status = s].status = s
BY DEF ExitOrders

LEMMA NewOrderIs ==
  ASSUME NEW q \in 1..MaxQty
  PROVE  /\ NewOrder(q, "accepted") \in ExitOrders /\ NewOrder(q, "accepted").left = q
         /\ NewOrder(q, "accepted").status = "accepted" /\ NewOrder(q, "accepted") # None
<1>1. NewOrder(q, "accepted") \in ExitOrders
  BY BoundsAssumption DEF NewOrder, ExitOrders
<1>q. QED BY <1>1, KeysAssumption, NoneAssumption DEF NewOrder

LEMMA QtyIs ==
  ASSUME ExitTyped, pc = "post", NEW q \in ExitQty(key)
  PROVE  q \in 1..MaxQty /\ q <= held
<1>1. held \in Int /\ held >= 1 /\ held <= MaxQty /\ MaxQty \in Nat
  BY BoundsAssumption DEF ExitTyped
<1>2. q \in 1..held
  BY <1>1 DEF ExitQty
<1>q. QED BY <1>1, <1>2

\* What a step does to the exit order of a key: nothing; it fills in part or ends, when
\* it is open; it comes, when there is none, from a POST that was late or is made now.
Fills(k) ==
  \E n \in 1..MaxQty :
    /\ OpenExit(k) /\ n <= orders[k].left /\ orders' = [orders EXCEPT ![k] = Filled(@, n)]
    /\ position' = position - n /\ late' = late
Ends(k) == /\ OpenExit(k) /\ \E s \in {"canceled", "rejected"} : orders' = [orders EXCEPT ![k].status = s]
           /\ UNCHANGED <<position, late>>
Arrives(p) == /\ orders[p.key] = None /\ late' = late \ {p} /\ UNCHANGED position
              /\ orders' = [orders EXCEPT ![p.key] = NewOrder(p.qty, "accepted")]
TooLate(p) == orders[p.key] # None /\ late' = late \ {p} /\ UNCHANGED <<orders, position>>

LEMMA BrokerOrRun ==
  ASSUME ExitTyped, Next
  PROVE  \/ \E k \in Keys : (Fills(k) \/ Ends(k))
            /\ UNCHANGED <<faults, protect, state, runs, pc, key, held, seen, row>>
         \/ \E p \in late : (Arrives(p) \/ TooLate(p))
             /\ UNCHANGED <<faults, protect, state, runs, pc, key, held, seen, row>>
         \/ ProtectionGoes
         \/ Post
         \/ UNCHANGED <<faults, broker>> /\ (StartRun \/ DryRun \/ Preflight \/ Reserve \/ GateStops \/ ReadHeld
                                    \/ ListOrders \/ Check \/ RecordSubmission \/ UpdateLedger \/ Die)
<1>1. CASE ExitFills
  BY <1>1 DEF ExitFills, Fills
<1>2. CASE ExitEnds
  BY <1>2 DEF ExitEnds, Ends
<1>3. CASE LatePostArrives
  BY <1>3 DEF LatePostArrives, Arrives, TooLate
<1>4. CASE StartRun \/ DryRun \/ Preflight \/ Reserve \/ GateStops \/ ReadHeld
           \/ ListOrders \/ Check \/ RecordSubmission \/ UpdateLedger \/ Die
  BY <1>4 DEF StartRun, DryRun, Preflight, Reserve, GateStops, ReadHeld, ListOrders, Check, RecordSubmission,
      UpdateLedger, Die
<1>q. QED BY <1>1, <1>2, <1>3, <1>4 DEF Next

\* The order of a key before and after.
LEMMA FillsIs ==
  ASSUME ExitTyped, NEW k \in Keys, Fills(k)
  PROVE  /\ orders' \in [Keys -> NoneOr(ExitOrders)] /\ \A l \in Keys \ {k} : orders'[l] = orders[l]
         /\ orders[k] # None /\ orders'[k] # None /\ OpenExit(k)
         /\ \E n \in 1..MaxQty : n <= orders[k].left /\ orders'[k].left = orders[k].left - n
             /\ position' = position - n
         /\ late' = late
<1>1. PICK n \in 1..MaxQty : /\ OpenExit(k) /\ n <= orders[k].left
                                /\ orders' = [orders EXCEPT ![k] = Filled(@, n)]
                            /\ position' = position - n /\ late' = late
  BY DEF Fills
<1>2. orders[k] # None
  BY <1>1 DEF OpenExit
<1>3. orders[k] \in ExitOrders
  BY <1>2, OrderIs
<1>4. Filled(orders[k], n) \in ExitOrders /\ Filled(orders[k], n).left = orders[k].left - n
  BY <1>1, <1>3, FilledIs
<1>5. Filled(orders[k], n) # None /\ orders' = [orders EXCEPT ![k] = Filled(orders[k], n)]
  BY <1>1, <1>4, KeysAssumption, NoneAssumption
<1>6. orders'[k] = Filled(orders[k], n) /\ orders' \in [Keys -> NoneOr(ExitOrders)]
        /\ \A l \in Keys \ {k} : orders'[l] = orders[l]
  BY <1>4, <1>5 DEF ExitTyped, NoneOr
<1>q. QED BY <1>1, <1>2, <1>4, <1>5, <1>6

LEMMA EndsIs ==
  ASSUME ExitTyped, NEW k \in Keys, Ends(k)
  PROVE  /\ orders' \in [Keys -> NoneOr(ExitOrders)] /\ \A l \in Keys \ {k} : orders'[l] = orders[l]
         /\ orders[k] # None /\ orders'[k] # None /\ OpenExit(k) /\ ~OpenExit(k)'
         /\ UNCHANGED <<position, late>>
<1>1. PICK s \in {"canceled", "rejected"} : orders' = [orders EXCEPT ![k].status = s]
  BY DEF Ends
<1>2. orders[k] # None /\ OpenExit(k) /\ UNCHANGED <<position, late>>
  BY DEF Ends, OpenExit
<1>3. orders[k] \in ExitOrders
  BY <1>2, OrderIs
<1> DEFINE o == [orders[k] EXCEPT !.status = s]
<1>4. o \in ExitOrders /\ o.status = s
  BY <1>3, EndedIs
<1>5. o # None /\ orders' = [orders EXCEPT ![k] = o]
  BY <1>1, <1>4, KeysAssumption, NoneAssumption
<1>6. s \notin Open
  BY DEF Open
<1> HIDE DEF o
<1>7. orders'[k] = o /\ orders' \in [Keys -> NoneOr(ExitOrders)] /\ \A l \in Keys \ {k} : orders'[l] = orders[l]
  BY <1>4, <1>5 DEF ExitTyped, NoneOr
<1>q. QED BY <1>2, <1>4, <1>5, <1>6, <1>7 DEF OpenExit

LEMMA ArrivesIs ==
  ASSUME ExitTyped, NEW k \in Keys, orders[k] = None, NEW q \in 1..MaxQty,
         orders' = [orders EXCEPT ![k] = NewOrder(q, "accepted")]
  PROVE  /\ orders' \in [Keys -> NoneOr(ExitOrders)] /\ \A l \in Keys \ {k} : orders'[l] = orders[l]
         /\ orders'[k] # None /\ OpenExit(k)' /\ orders'[k].left = q
<1>1. NewOrder(q, "accepted") \in ExitOrders /\ NewOrder(q, "accepted").left = q
      /\ NewOrder(q, "accepted").status = "accepted" /\ NewOrder(q, "accepted") # None
  BY NewOrderIs
<1>2. orders'[k] = NewOrder(q, "accepted") /\ orders' \in [Keys -> NoneOr(ExitOrders)]
        /\ \A l \in Keys \ {k} : orders'[l] = orders[l]
  BY <1>1 DEF ExitTyped, NoneOr
<1>q. QED BY <1>1, <1>2, StatusesApart DEF OpenExit

-------------------------------------------------------------------------------
(* Types *)

LEMMA RecordIs ==
  ASSUME NEW s \in NoneOr(OrderLifecycleStatus), NEW c \in Cids, NEW o \in NoneOr(Keys)
  PROVE  /\ Record(s, c, o) \in Entries /\ Record(s, c, o) # None /\ Record(s, c, o).status = s
         /\ s \in {"accepted", "submitted"} => Record(s, c, o) \in Answers
<1>1. Record(s, c, o) \in Entries /\ Record(s, c, o).status = s
  BY DEF Record, Entries
<1>2. s \in {"accepted", "submitted"} => Record(s, c, o) \in Answers
  BY DEF Record, Answers
<1>q. QED BY <1>1, <1>2, KeysAssumption, NoneAssumption

LEMMA CidsAre == ASSUME NEW k \in Keys PROVE Base(k) \in Cids /\ Action(k) \in Cids
BY DEF Base, Action, Cids

LEMMA RowsAre ==
  ASSUME NEW k \in Keys
  PROVE  /\ NotAttempted(k) \in BrokerRows /\ Attempted(k) \in BrokerRows
         /\ Submitted(k, "accepted", k) \in BrokerRows /\ Submitted(k, "submitted", None) \in BrokerRows
<1>1. Base(k) \in Cids /\ Action(k) \in Cids
  BY CidsAre
<1>2. Record("accepted", Action(k), k) \in Answers /\ Record("submitted", Action(k), None) \in Answers
  BY <1>1 DEF Record, Answers, NoneOr
<1>3. NotAttempted(k) \in BrokerRows /\ Attempted(k) \in BrokerRows
  BY <1>1 DEF NotAttempted, Attempted, BrokerRows, NoneOr
<1>4. Submitted(k, "accepted", k) \in BrokerRows /\ Submitted(k, "submitted", None) \in BrokerRows
  BY <1>1, <1>2 DEF Submitted, BrokerRows, NoneOr
<1>q. QED BY <1>3, <1>4

LEMMA ResolvedIs ==
  ASSUME ExitTyped, NEW k \in Keys, idem[k] # None
  PROVE  /\ Resolved(k) \in Entries /\ Resolved(k) # None
         /\ Resolved(k) = idem[k] \/ (orders[k] # None /\ Resolved(k).status = orders[k].status)
<1>1. idem[k] \in Entries
  BY DEF ExitTyped, NoneOr
<1>2. CASE idem[k].cid = Action(k) /\ orders[k] # None
  <2>1. orders[k] \in ExitOrders
    BY <1>2, OrderIs
  <2>2. orders[k].status \in NoneOr(OrderLifecycleStatus) /\ idem[k].cid \in Cids /\ k \in NoneOr(Keys)
    BY <1>1, <2>1 DEF ExitOrders, Entries, NoneOr, OrderLifecycleStatus
  <2>3. Resolved(k) = Record(orders[k].status, idem[k].cid, k)
    BY <1>2 DEF Resolved
  <2>q. QED BY <1>2, <2>2, <2>3, RecordIs
<1>3. CASE ~(idem[k].cid = Action(k) /\ orders[k] # None)
  BY <1>1, <1>3 DEF Resolved
<1>q. QED BY <1>2, <1>3

\* What the end of a run writes of a file.
LEMMA RecordedIs ==
  ASSUME ExitTyped, pc = "record"
  PROVE  key \in Keys /\ Recorded(key) \in Entries /\ Recorded(key).status \notin Ended
<1>1. row \in BrokerRows /\ key \in Keys
  BY DEF ExitTyped, NoneOr
<1>2. CASE row.submitted = None
  <2>1. row.cid \in Cids
    BY <1>1 DEF BrokerRows
  <2>q. QED BY <1>1, <1>2, <2>1, RecordIs, StatusesApart DEF Recorded, NoneOr
<1>3. CASE row.submitted # None
  <2>1. row.submitted \in Answers
    BY <1>1, <1>3 DEF BrokerRows, NoneOr
  <2>q. QED BY <1>1, <1>3, <2>1, StatusesApart DEF Recorded, Answers, Entries, NoneOr, OrderLifecycleStatus
<1>q. QED BY <1>2, <1>3

LEMMA LastIs ==
  ASSUME ExitTyped, NEW k \in Keys
  PROVE  EvidenceOf(k) = None \/ EvidenceOf(k) = idem[k]
         \/ (Len(released[k]) = 1 /\ EvidenceOf(k) = released[k][1])
BY DEF EvidenceOf, Evidence

\* A row of the ledger after the run: typed, there if it was or the run wrote it, and
\* no more ended than it was or the file on the keys says.
LEMMA RowIs ==
  ASSUME ExitTyped, pc = "ledger", NEW k \in Keys
  PROVE  /\ Row(k) \in NoneOr(LedgerRows)
         /\ Row(k) = None => ledger[k] = None /\ (k # key \/ row = None)
         /\ Row(k) # None /\ Row(k).status \in Ended => ledger[k] # None /\ Row(k).status = ledger[k].status
<1>0. ledger[k] \in NoneOr(LedgerRows)
  BY DEF ExitTyped
<1>1. CASE k # key \/ row = None
  BY <1>0, <1>1 DEF Row
<1>2. CASE k = key /\ row # None
  <2>1. row \in BrokerRows
    BY <1>2 DEF ExitTyped, NoneOr
  <2> DEFINE to == IF row.submitted = None THEN "planned" ELSE row.submitted.status
             oid == IF row.submitted = None THEN None ELSE row.submitted.oid
             moves == ledger[k] = None \/ <<ledger[k].status, to>> \in OrderTransitions
             st == IF moves THEN to ELSE ledger[k].status
  <2>2. to \in {"planned", "accepted", "submitted"} /\ oid \in NoneOr(Keys) /\ row.cid \in Cids
    <3>1. row.submitted \in NoneOr(Answers) /\ row.cid \in Cids
      BY <2>1 DEF BrokerRows
    <3>q. QED BY <3>1 DEF NoneOr, Answers
  <2>3. Row(k) = [status |-> st, cid |-> row.cid, oid |-> oid, day |-> 0]
    BY <1>2 DEF Row, Upserted
  <2>4. st \in {"planned", "accepted", "submitted"} \/ (ledger[k] # None /\ st = ledger[k].status)
    BY <2>2
  <2>5. st \in OrderLifecycleStatus
    <3>1. ledger[k] # None => ledger[k].status \in OrderLifecycleStatus
      BY <1>0 DEF NoneOr, LedgerRows
    <3>q. QED BY <2>4, <3>1 DEF OrderLifecycleStatus
  <2> HIDE DEF to, oid, moves, st
  <2>6. Row(k) \in LedgerRows /\ Row(k).status = st
    BY <2>2, <2>3, <2>5 DEF LedgerRows
  <2>7. Row(k) # None
    BY <2>6, KeysAssumption, NoneAssumption
  <2>q. QED BY <2>4, <2>6, <2>7, StatusesApart DEF NoneOr
<1>q. QED BY <1>1, <1>2

NextRow(k) == Reconciled(Row(k), idem[k], released[k], 0)
LEMMA NextRowIs ==
  ASSUME ExitTyped, pc = "ledger", NEW k \in Keys
  PROVE  /\ NextRow(k) \in NoneOr(LedgerRows)
         /\ NextRow(k) = None => ledger[k] = None /\ (k # key \/ row = None)
         /\ NextRow(k) # None /\ NextRow(k).status \in Ended =>
              \/ ledger[k] # None /\ NextRow(k).status = ledger[k].status
              \/ EvidenceOf(k) # None /\ NextRow(k).status = EvidenceOf(k).status
<1> DEFINE ev == EvidenceOf(k)
           rec == Row(k)
           cid == Known(ev.cid, rec.cid)
           oid == Known(ev.oid, rec.oid)
           moves == rec.status # ev.status /\ CanReconcile(rec.status, ev.status)
           st == IF moves THEN ev.status ELSE rec.status
<1>0. NextRow(k) = IF rec = None \/ ev = None THEN rec
                   ELSE IF ev.status = None THEN rec
                   ELSE IF moves \/ cid # rec.cid \/ oid # rec.oid
                        THEN [status |-> st, cid |-> cid, oid |-> oid, day |-> 0] ELSE rec
  BY DEF NextRow, Reconciled, EvidenceOf
<1>1. /\ rec \in NoneOr(LedgerRows) /\ (rec = None => ledger[k] = None /\ (k # key \/ row = None))
      /\ rec # None /\ rec.status \in Ended => ledger[k] # None /\ rec.status = ledger[k].status
  BY RowIs
<1>2. CASE rec # None /\ ev # None /\ ev.status # None
  <2>1. ev \in Entries
    <3>1. idem[k] \in NoneOr(Entries) /\ released[k] \in Seq(Entries)
      BY DEF ExitTyped
    <3>2. Len(released[k]) = 1 => released[k][1] \in Entries
      BY <3>1
    <3>q. QED BY <1>2, <3>1, <3>2, LastIs DEF NoneOr
  <2>2. rec \in LedgerRows
    BY <1>1, <1>2 DEF NoneOr
  <2> HIDE DEF ev, rec
  <2>3. cid \in Cids /\ oid \in NoneOr(Keys) /\ st \in OrderLifecycleStatus
    BY <1>2, <2>1, <2>2 DEF Known, Entries, LedgerRows, NoneOr
  <2>4. st = rec.status \/ st = ev.status
    OBVIOUS
  <2>5. NextRow(k) = [status |-> st, cid |-> cid, oid |-> oid, day |-> 0] \/ NextRow(k) = rec
    BY <1>0
  <2> HIDE DEF cid, oid, st
  <2>6. CASE NextRow(k) = [status |-> st, cid |-> cid, oid |-> oid, day |-> 0]
    <3>1. NextRow(k) \in LedgerRows /\ NextRow(k).status = st
      BY <2>3, <2>6 DEF LedgerRows
    <3>2. NextRow(k) # None
      BY <3>1, KeysAssumption, NoneAssumption
    <3>q. QED BY <1>1, <1>2, <2>4, <3>1, <3>2 DEF NoneOr, ev
  <2>7. CASE NextRow(k) = rec
    BY <1>1, <2>7
  <2>q. QED BY <2>5, <2>6, <2>7
<1>3. CASE rec = None \/ ev = None \/ ev.status = None
  <2>1. NextRow(k) = rec
    BY <1>0, <1>3
  <2>q. QED BY <1>1, <2>1
<1>q. QED BY <1>2, <1>3

BrokerTyped ==
  /\ position \in Int /\ position <= MaxQty /\ protect \in 0..MaxQty
  /\ orders \in [Keys -> NoneOr(ExitOrders)] /\ late \subseteq [key : Keys, qty : 1..MaxQty]
FilesTyped ==
  /\ idem \in [Keys -> NoneOr(Entries)] /\ released \in [Keys -> Seq(Entries)]
      /\ ledger \in [Keys -> NoneOr(LedgerRows)]
RunTyped ==
  /\ runs \in 0..MaxRuns /\ pc \in Steps /\ key \in NoneOr(Keys) /\ (pc # "idle" => key \in Keys)
  /\ held \in Int /\ held <= MaxQty /\ (pc \in {"list", "check", "post"} => held >= 1)
  /\ row \in NoneOr(BrokerRows) /\ (pc \notin {"idle", "ledger"} => row # None)

LEMMA TypedParts == ExitTyped => faults \in Faults /\ BrokerTyped /\ FilesTyped /\ RunTyped
BY DEF ExitTyped, BrokerTyped, FilesTyped, RunTyped

LEMMA TypedAgain ==
  ASSUME faults' \in Faults, BrokerTyped', FilesTyped', RunTyped'
  PROVE  ExitTyped'
BY DEF ExitTyped, BrokerTyped, FilesTyped, RunTyped

\* A step of the broker, or of the run, leaves the other typed.
LEMMA BrokerKeepsRun ==
  ASSUME ExitTyped, UNCHANGED <<faults, state, runs, pc, key, held, seen, row>>
  PROVE  faults' \in Faults /\ FilesTyped' /\ RunTyped'
BY TypedParts DEF FilesTyped, RunTyped, state

LEMMA RunKeepsBroker ==
  ASSUME ExitTyped, UNCHANGED <<faults, broker>>
  PROVE  faults' \in Faults /\ BrokerTyped'
BY TypedParts DEF BrokerTyped, broker

LEMMA TypedInit == Init => ExitTyped
<1> SUFFICES ASSUME Init PROVE ExitTyped
  OBVIOUS
<1>1. BrokerTyped /\ FilesTyped /\ RunTyped
  BY BoundsAssumption DEF Init, BrokerTyped, FilesTyped, RunTyped, NoneOr, Steps
<1>q. QED BY <1>1 DEF Init, ExitTyped, BrokerTyped, FilesTyped, RunTyped

LEMMA PostTyped == ExitTyped /\ Post => ExitTyped'
<1> SUFFICES ASSUME ExitTyped, Post PROVE ExitTyped'
  OBVIOUS
<1>1. pc = "post" /\ key \in Keys /\ pc' = "record" /\ UNCHANGED <<faults, position, protect, state, runs, key,
        held, seen>>
  BY DEF Post, ExitTyped
<1>2. row' \in {Submitted(key, "accepted", key), Submitted(key, "submitted", None), Attempted(key)}
  BY DEF Post
<1>3. row' \in BrokerRows
  BY <1>1, <1>2, RowsAre
<1>4. row' \in NoneOr(BrokerRows) /\ row' # None
  BY <1>3, KeysAssumption, NoneAssumption DEF NoneOr
<1>5. orders' \in [Keys -> NoneOr(ExitOrders)] /\ late' \subseteq [key : Keys, qty : 1..MaxQty]
  <2>1. CASE UNCHANGED <<orders, late>>
    BY <2>1 DEF ExitTyped
  <2>2. ASSUME NEW q \in ExitQty(key), orders[key] = None,
               orders' = [orders EXCEPT ![key] = NewOrder(q, "accepted")], late' = late
        PROVE  orders' \in [Keys -> NoneOr(ExitOrders)] /\ late' \subseteq [key : Keys, qty : 1..MaxQty]
    <3>1. q \in 1..MaxQty
      BY <1>1, QtyIs
    <3>q. QED BY <1>1, <2>2, <3>1, ArrivesIs DEF ExitTyped
  <2>3. ASSUME NEW q \in ExitQty(key), late' = late \cup {[key |-> key, qty |-> q]}, orders' = orders
        PROVE  orders' \in [Keys -> NoneOr(ExitOrders)] /\ late' \subseteq [key : Keys, qty : 1..MaxQty]
    <3>1. q \in 1..MaxQty
      BY <1>1, QtyIs
    <3>2. [key |-> key, qty |-> q] \in [key : Keys, qty : 1..MaxQty]
      BY <1>1, <3>1
    <3>q. QED BY <2>3, <3>2 DEF ExitTyped
  <2>q. QED BY <2>1, <2>2, <2>3 DEF Post
<1>6. BrokerTyped' /\ FilesTyped' /\ faults' \in Faults
  BY <1>1, <1>5 DEF ExitTyped, BrokerTyped, FilesTyped, state
<1>7. RunTyped'
  BY <1>1, <1>4 DEF ExitTyped, RunTyped, Steps
<1>q. QED BY <1>6, <1>7, TypedAgain, TypedParts

LEMMA DropTyped ==
  ASSUME ExitTyped, Drop, pc # "idle", UNCHANGED <<runs, key, held>>
  PROVE  RunTyped'
BY DEF ExitTyped, RunTyped, Drop, Steps, NoneOr

LEMMA GoesOnTyped ==
  ASSUME ExitTyped, pc \notin {"idle", "ledger"}, pc' \in Steps \ {"idle"}, UNCHANGED <<runs, key, row>>,
         \/ held' = held /\ (pc' \in {"list", "check", "post"} => pc \in {"list", "check"})
         \/ held' = position /\ (pc' \in {"list", "check", "post"} => position > 0)
  PROVE  RunTyped'
BY DEF ExitTyped, RunTyped

LEMMA PreflightTyped == ExitTyped /\ Preflight => ExitTyped'
<1> SUFFICES ASSUME ExitTyped, Preflight PROVE ExitTyped'
  OBVIOUS
<1>1. pc = "preflight" /\ key \in Keys /\ UNCHANGED <<faults, broker, ledger, runs, key, held, seen>>
  BY DEF Preflight, ExitTyped
<1>2. Drop \/ (pc' = "reserve" /\ UNCHANGED row)
  BY DEF Preflight
<1>3. RunTyped'
  <2>1. "reserve" \in Steps \ {"idle"}
    BY DEF Steps
  <2>q. QED BY <1>1, <1>2, <2>1, DropTyped, GoesOnTyped
<1>4. idem' \in [Keys -> NoneOr(Entries)] /\ released' \in [Keys -> Seq(Entries)]
  <2>1. CASE UNCHANGED <<idem, released>>
    BY <2>1 DEF ExitTyped
  <2>2. CASE idem[key] # None /\ idem' = [idem EXCEPT ![key] = None]
          /\ released' = [released EXCEPT ![key] = Append(@, Resolved(key))]
    <3>1. Resolved(key) \in Entries
      BY <1>1, <2>2, ResolvedIs
    <3>2. Append(released[key], Resolved(key)) \in Seq(Entries)
      BY <1>1, <3>1 DEF ExitTyped
    <3>q. QED BY <2>2, <3>2 DEF ExitTyped, NoneOr
  <2>3. CASE idem[key] # None /\ idem' = [idem EXCEPT ![key] = Resolved(key)] /\ UNCHANGED released
    <3>1. Resolved(key) \in Entries
      BY <1>1, <2>3, ResolvedIs
    <3>q. QED BY <2>3, <3>1 DEF ExitTyped, NoneOr
  <2>q. QED BY <2>1, <2>2, <2>3 DEF Preflight
<1>q. QED BY <1>1, <1>3, <1>4, RunKeepsBroker, TypedAgain, TypedParts DEF ExitTyped, FilesTyped

LEMMA TypedStep == ExitTyped /\ [Next]_vars => ExitTyped'
<1> SUFFICES ASSUME ExitTyped, [Next]_vars PROVE ExitTyped'
  OBVIOUS
<1>0. MaxQty \in Nat /\ position \in Int /\ position <= MaxQty /\ protect \in 0..MaxQty
  BY BoundsAssumption DEF ExitTyped
<1>1. ASSUME NEW k \in Keys, Fills(k) \/ Ends(k), UNCHANGED <<faults, protect, state, runs, pc, key, held,
             seen, row>>
      PROVE  ExitTyped'
  <2>1. orders' \in [Keys -> NoneOr(ExitOrders)] /\ late' = late
    BY <1>1, FillsIs, EndsIs
  <2>2. position' \in Int /\ position' <= MaxQty
    <3>1. CASE Fills(k)
      <4>1. PICK n \in 1..MaxQty : position' = position - n
        BY <3>1 DEF Fills
      <4>q. QED BY <1>0, <4>1
    <3>2. CASE Ends(k)
      BY <1>0, <3>2 DEF Ends
    <3>q. QED BY <1>1, <3>1, <3>2
  <2>3. BrokerTyped'
    BY <1>1, <2>1, <2>2 DEF BrokerTyped, ExitTyped
  <2>q. QED BY <1>1, <2>3, BrokerKeepsRun, TypedAgain, TypedParts
<1>2. ASSUME NEW p \in late, Arrives(p) \/ TooLate(p), UNCHANGED <<faults, protect, state, runs, pc, key, held,
             seen, row>>
      PROVE  ExitTyped'
  <2>1. p.key \in Keys /\ p.qty \in 1..MaxQty
    BY DEF ExitTyped
  <2>2. orders' \in [Keys -> NoneOr(ExitOrders)]
    BY <1>2, <2>1, ArrivesIs DEF Arrives, TooLate, ExitTyped
  <2>3. late' \subseteq late /\ position' = position
    BY <1>2 DEF Arrives, TooLate
  <2>4. BrokerTyped'
    BY <1>2, <2>2, <2>3 DEF BrokerTyped, ExitTyped
  <2>q. QED BY <1>2, <2>4, BrokerKeepsRun, TypedAgain, TypedParts
<1>3. CASE ProtectionGoes
  <2>1. (position' = position - protect \/ position' = position) /\ protect' = 0
        /\ UNCHANGED <<faults, orders, late, state, runs, pc, key, held, seen, row>>
    BY <1>3 DEF ProtectionGoes
  <2>2. position' \in Int /\ position' <= MaxQty
    BY <1>0, <2>1
  <2>3. BrokerTyped'
    BY <1>0, <2>1, <2>2 DEF BrokerTyped, ExitTyped
  <2>q. QED BY <2>1, <2>3, BrokerKeepsRun, TypedAgain, TypedParts
<1>4. CASE StartRun
  <2>1. PICK k \in Keys : key' = k /\ row' = NotAttempted(k)
    BY <1>4 DEF StartRun
  <2>2. row' \in NoneOr(BrokerRows) /\ row' # None
    BY <2>1, RowsAre, KeysAssumption, NoneAssumption DEF NoneOr
  <2>3. RunTyped'
    BY <1>4, <2>1, <2>2, BoundsAssumption DEF StartRun, RunTyped, ExitTyped, Steps, NoneOr
  <2>q. QED BY <1>4, <2>3, RunKeepsBroker, TypedAgain, TypedParts DEF StartRun, FilesTyped, state, ExitTyped
<1>5. CASE DryRun \/ GateStops \/ ListOrders \/ Check \/ ReadHeld
  <2>1. UNCHANGED <<faults, broker, state>> /\ pc # "idle"
    BY <1>5 DEF DryRun, GateStops, ListOrders, Check, ReadHeld
  <2>2. RunTyped'
    <3>1. {"ledger", "list", "check", "post"} \subseteq Steps \ {"idle"}
      BY DEF Steps
    <3>2. CASE DryRun
      BY <3>1, <3>2, DropTyped, GoesOnTyped DEF DryRun
    <3>3. CASE GateStops
      BY <3>1, <3>3, DropTyped, GoesOnTyped DEF GateStops
    <3>4. CASE ListOrders \/ Check
      BY <3>1, <3>4, GoesOnTyped DEF ListOrders, Check
    <3>5. CASE ReadHeld
      BY <3>1, <3>5, GoesOnTyped DEF ReadHeld
    <3>q. QED BY <1>5, <3>2, <3>3, <3>4, <3>5
  <2>q. QED BY <2>1, <2>2, RunKeepsBroker, TypedAgain, TypedParts DEF FilesTyped, state, ExitTyped
<1>6. CASE Reserve
  <2>1. pc = "reserve" /\ pc' = "position" /\ key \in Keys
          /\ idem' = [idem EXCEPT ![key] = Record(None, Base(key), None)]
        /\ UNCHANGED <<faults, broker, released, ledger, runs, key, held, seen, row>>
    BY <1>6 DEF Reserve, ExitTyped
  <2>2. Record(None, Base(key), None) \in Entries
    BY <2>1, RecordIs, CidsAre DEF NoneOr
  <2>3. idem' \in [Keys -> NoneOr(Entries)]
    BY <2>1, <2>2 DEF ExitTyped, NoneOr
  <2>4. RunTyped'
    BY <2>1, GoesOnTyped DEF Steps
  <2>q. QED BY <2>1, <2>3, <2>4, RunKeepsBroker, TypedAgain, TypedParts DEF FilesTyped, ExitTyped
<1>7. CASE RecordSubmission
  <2>1. pc = "record" /\ pc' = "ledger"
          /\ idem' = (IF idem[key] = None THEN idem ELSE [idem EXCEPT ![key] = Recorded(key)])
        /\ UNCHANGED <<faults, broker, released, ledger, runs, key, held, seen, row>>
    BY <1>7 DEF RecordSubmission
  <2>2. Recorded(key) \in Entries
    BY <2>1, RecordedIs
  <2>3. idem' \in [Keys -> NoneOr(Entries)]
    BY <2>1, <2>2 DEF ExitTyped, NoneOr
  <2>4. RunTyped'
    BY <2>1, GoesOnTyped DEF Steps
  <2>q. QED BY <2>1, <2>3, <2>4, RunKeepsBroker, TypedAgain, TypedParts DEF FilesTyped, ExitTyped
<1>8. CASE UpdateLedger \/ Die
  <2>1. pc' = "idle" /\ key' = None /\ row' = None /\ held' = 0 /\ UNCHANGED <<faults, broker, idem, released,
          runs>>
    BY <1>8 DEF UpdateLedger, Die, state
  <2>2. RunTyped'
    BY <1>0, <2>1 DEF RunTyped, Steps, NoneOr, ExitTyped
  <2>3. ledger' \in [Keys -> NoneOr(LedgerRows)]
    <3>1. CASE UpdateLedger
      <4>1. ledger' = [k \in Keys |-> NextRow(k)] /\ pc = "ledger"
        BY <3>1 DEF UpdateLedger, NextRow
      <4>q. QED BY <4>1, NextRowIs
    <3>2. CASE Die
      BY <3>2 DEF Die, state, ExitTyped
    <3>q. QED BY <1>8, <3>1, <3>2
  <2>q. QED BY <2>1, <2>2, <2>3, RunKeepsBroker, TypedAgain, TypedParts DEF FilesTyped, ExitTyped
<1>9. CASE UNCHANGED vars
  BY <1>9 DEF vars, broker, state, ExitTyped
<1>q. QED BY <1>1, <1>2, <1>3, <1>4, <1>5, <1>6, <1>7, <1>8, <1>9, PostTyped, PreflightTyped, BrokerOrRun

-------------------------------------------------------------------------------
(* Records *)

\* An order stays, and one that has ended stays as it is.
LEMMA Endures ==
  ASSUME ExitTyped, [Next]_vars, NEW k \in Keys, orders[k] # None
  PROVE  orders'[k] # None /\ (orders[k].status \in Ended => orders'[k] = orders[k])
<1>1. ASSUME NEW l \in Keys, Fills(l) \/ Ends(l)
      PROVE orders'[k] # None /\ (orders[k].status \in Ended => orders'[k] = orders[k])
  <2>1. /\ orders'[l] # None /\ \A m \in Keys \ {l} : orders'[m] = orders[m]
        /\ orders[l].status \in Open
    BY <1>1, FillsIs, EndsIs DEF OpenExit
  <2>q. QED BY <2>1, StatusesApart
<1>2. ASSUME NEW p \in late, Arrives(p) \/ TooLate(p) PROVE orders'[k] = orders[k]
  <2>1. p.key \in Keys /\ p.qty \in 1..MaxQty
    BY DEF ExitTyped
  <2>q. QED BY <1>2, <2>1, ArrivesIs DEF Arrives, TooLate
<1>3. CASE Post
  <2>1. pc = "post" /\ key \in Keys
    BY <1>3 DEF Post, ExitTyped
  <2>2. orders' = orders
          \/ (orders[key] = None /\ \E q \in ExitQty(key) : orders' = [orders EXCEPT ![key] = NewOrder(q, "accepted")])
    BY <1>3 DEF Post
  <2>3. ASSUME NEW q \in ExitQty(key), orders[key] = None,
               orders' = [orders EXCEPT ![key] = NewOrder(q, "accepted")]
        PROVE  orders'[k] = orders[k]
    <3>1. q \in 1..MaxQty
      BY <2>1, QtyIs
    <3>q. QED BY <2>1, <2>3, <3>1, ArrivesIs
  <2>q. QED BY <2>2, <2>3
<1>4. CASE orders' = orders
  BY <1>4
<1>q. QED BY <1>1, <1>2, <1>3, <1>4, BrokerOrRun DEF ProtectionGoes, broker, vars

LEMMA StaysTrue ==
  ASSUME ExitTyped, [Next]_vars, NEW k \in Keys, NEW rec, EndsTrue(orders, k, rec)
  PROVE  EndsTrue(orders', k, rec)
BY Endures DEF EndsTrue

LEMMA FilesStep == ExitTyped /\ FilesTrue /\ [Next]_vars => FilesTrue'
<1> SUFFICES ASSUME ExitTyped, FilesTrue, [Next]_vars PROVE FilesTrue'
  OBVIOUS
<1>0. \A k \in Keys : /\ idem[k] # None => EndsTrue(orders', k, idem[k])
                      /\ \A i \in 1..Len(released[k]) : EndsTrue(orders', k, released[k][i])
                      /\ ledger[k] # None => EndsTrue(orders', k, ledger[k])
  BY StaysTrue DEF FilesTrue
<1>1. CASE UNCHANGED state
  BY <1>0, <1>1 DEF FilesTrue, state
<1>2. CASE Preflight
  <2>1. key \in Keys /\ ledger' = ledger
    BY <1>2 DEF Preflight, ExitTyped
  <2>2. CASE UNCHANGED <<idem, released>>
    BY <1>0, <2>1, <2>2 DEF FilesTrue
  <2>3. ASSUME idem[key] # None PROVE EndsTrue(orders', key, Resolved(key))
    <3>1. CASE Resolved(key) = idem[key]
      BY <1>0, <2>1, <2>3, <3>1
    <3>2. CASE orders[key] # None /\ Resolved(key).status = orders[key].status
      <4>1. EndsTrue(orders, key, Resolved(key))
        BY <3>2 DEF EndsTrue
      <4>q. QED BY <2>1, <4>1, StaysTrue
    <3>q. QED BY <2>1, <2>3, <3>1, <3>2, ResolvedIs
  <2>4. CASE idem[key] # None /\ idem' = [idem EXCEPT ![key] = None]
          /\ released' = [released EXCEPT ![key] = Append(@, Resolved(key))]
    <3>1. released[key] \in Seq(Entries) /\ Resolved(key) \in Entries
      BY <2>1, <2>4, ResolvedIs DEF ExitTyped
    <3>2. released'[key] = Append(released[key], Resolved(key))
            /\ \A k \in Keys \ {key} : released'[k] = released[k]
      BY <2>1, <2>4 DEF ExitTyped
    <3>3. \A i \in 1..Len(released'[key]) :
            \/ i \in 1..Len(released[key]) /\ released'[key][i] = released[key][i]
            \/ released'[key][i] = Resolved(key)
      BY <3>1, <3>2
    <3>4. idem'[key] = None /\ \A k \in Keys \ {key} : idem'[k] = idem[k]
      BY <2>1, <2>4 DEF ExitTyped
    <3>5. ASSUME NEW k \in Keys PROVE \A i \in 1..Len(released'[k]) : EndsTrue(orders', k, released'[k][i])
      <4>1. CASE k = key
        BY <1>0, <2>1, <2>3, <2>4, <3>3, <4>1
      <4>2. CASE k # key
        BY <1>0, <3>2, <4>2
      <4>q. QED BY <4>1, <4>2
    <3>6. ASSUME NEW k \in Keys, idem'[k] # None PROVE EndsTrue(orders', k, idem'[k])
      BY <1>0, <3>4, <3>6
    <3>q. QED BY <1>0, <2>1, <3>5, <3>6 DEF FilesTrue
  <2>5. CASE idem[key] # None /\ idem' = [idem EXCEPT ![key] = Resolved(key)] /\ UNCHANGED released
    <3>1. idem'[key] = Resolved(key) /\ \A k \in Keys \ {key} : idem'[k] = idem[k]
      BY <2>1, <2>5 DEF ExitTyped
    <3>2. ASSUME NEW k \in Keys, idem'[k] # None PROVE EndsTrue(orders', k, idem'[k])
      BY <1>0, <2>3, <2>5, <3>1, <3>2
    <3>q. QED BY <1>0, <2>1, <2>5, <3>2 DEF FilesTrue
  <2>q. QED BY <1>2, <2>2, <2>4, <2>5 DEF Preflight
<1>3. CASE Reserve \/ RecordSubmission
  <2>1. key \in Keys /\ UNCHANGED <<released, ledger>>
    BY <1>3 DEF Reserve, RecordSubmission, ExitTyped
  <2>2. \E rec : rec.status \notin Ended /\ (idem' = idem \/ idem' = [idem EXCEPT ![key] = rec])
    <3>1. CASE Reserve
      <4>1. Record(None, Base(key), None).status \notin Ended
        BY StatusesApart DEF Record
      <4>q. QED BY <3>1, <4>1 DEF Reserve
    <3>2. CASE RecordSubmission
      BY <3>2, RecordedIs DEF RecordSubmission
    <3>q. QED BY <1>3, <3>1, <3>2
  <2>3. PICK rec : rec.status \notin Ended /\ (idem' = idem \/ idem' = [idem EXCEPT ![key] = rec])
    BY <2>2
  <2>4. \A k \in Keys : idem'[k] = idem[k] \/ idem'[k] = rec
    BY <2>1, <2>3 DEF ExitTyped
  <2>5. ASSUME NEW k \in Keys, idem'[k] # None PROVE EndsTrue(orders', k, idem'[k])
    BY <1>0, <2>3, <2>4, <2>5 DEF EndsTrue
  <2>q. QED BY <1>0, <2>1, <2>5 DEF FilesTrue
<1>4. CASE UpdateLedger
  <2>1. ledger' = [k \in Keys |-> NextRow(k)] /\ pc = "ledger" /\ UNCHANGED <<idem, released>>
    BY <1>4 DEF UpdateLedger, NextRow
  <2>2. ASSUME NEW k \in Keys, NextRow(k) # None PROVE EndsTrue(orders', k, NextRow(k))
    <3>1. CASE NextRow(k).status \in Ended /\ ledger[k] # None /\ NextRow(k).status = ledger[k].status
      BY <1>0, <3>1 DEF EndsTrue
    <3>2. CASE NextRow(k).status \in Ended /\ EvidenceOf(k) # None /\ NextRow(k).status = EvidenceOf(k).status
      <4>1. EndsTrue(orders', k, EvidenceOf(k))
        BY <1>0, <3>2, LastIs
      <4>q. QED BY <3>2, <4>1 DEF EndsTrue
    <3>q. QED BY <2>1, <2>2, <3>1, <3>2, NextRowIs DEF EndsTrue
  <2>q. QED BY <1>0, <2>1, <2>2 DEF FilesTrue
<1>q. QED BY <1>1, <1>2, <1>3, <1>4 DEF Next, vars, state, ExitFills, ExitEnds, ProtectionGoes,
             LatePostArrives, StartRun, DryRun, GateStops,
     ReadHeld, ListOrders, Check, Post, Die

\* What may come alive, and what lives, is new only by a POST.
LEMMA SentIsOld ==
  ASSUME ExitTyped, [Next]_vars, ~Post, NEW k \in Keys
  PROVE  Sent(k)' => Sent(k)
<1>1. ASSUME NEW l \in Keys, Fills(l) \/ Ends(l) PROVE Sent(k)' => Sent(k)
  BY <1>1, FillsIs, EndsIs DEF Sent
<1>2. ASSUME NEW p \in late, Arrives(p) \/ TooLate(p) PROVE Sent(k)' => Sent(k)
  <2>1. p.key \in Keys /\ p.qty \in 1..MaxQty
    BY DEF ExitTyped
  <2>2. \A l \in Keys \ {p.key} : orders'[l] = orders[l]
    BY <1>2, <2>1, ArrivesIs DEF Arrives, TooLate
  <2>q. QED BY <1>2, <2>2 DEF Arrives, TooLate, Sent
<1>3. CASE UNCHANGED <<orders, late>>
  BY <1>3 DEF Sent
<1>q. QED BY <1>1, <1>2, <1>3, BrokerOrRun DEF ProtectionGoes, broker, vars

LEMMA SentStep == ExitTyped /\ SentIsWritten /\ [Next]_vars => SentIsWritten'
<1> SUFFICES ASSUME ExitTyped, SentIsWritten, [Next]_vars PROVE SentIsWritten'
  OBVIOUS
<1>1. CASE Post
  <2>1. pc = "post" /\ key \in Keys /\ key' = key /\ pc' = "record" /\ UNCHANGED <<faults,
          state>> /\ pc \notin {"record", "ledger"}
    BY <1>1 DEF Post, ExitTyped
  <2>2. row' # None
    <3>1. row' \in {Submitted(key, "accepted", key), Submitted(key, "submitted", None), Attempted(key)}
      BY <1>1 DEF Post
    <3>2. row' \in BrokerRows
      BY <2>1, <3>1, RowsAre
    <3>q. QED BY <3>2, KeysAssumption, NoneAssumption
  <2>3. \A k \in Keys \ {key} : Sent(k)' => Sent(k)
    <3>1. CASE UNCHANGED <<orders, late>>
      BY <3>1 DEF Sent
    <3>2. ASSUME NEW q \in ExitQty(key), orders[key] = None,
                 orders' = [orders EXCEPT ![key] = NewOrder(q, "accepted")], late' = late
          PROVE  \A k \in Keys \ {key} : Sent(k)' => Sent(k)
      <4>1. q \in 1..MaxQty
        BY <2>1, QtyIs
      <4>2. \A k \in Keys \ {key} : orders'[k] = orders[k]
        BY <2>1, <3>2, <4>1, ArrivesIs
      <4>q. QED BY <3>2, <4>2 DEF Sent
    <3>3. ASSUME NEW q, late' = late \cup {[key |-> key, qty |-> q]}, orders' = orders
          PROVE  \A k \in Keys \ {key} : Sent(k)' => Sent(k)
      BY <3>3 DEF Sent
    <3>q. QED BY <1>1, <3>1, <3>2, <3>3 DEF Post
  <2>4. late' = {} \/ "late" \in faults
    BY <1>1 DEF Post, SentIsWritten
  <2>5. ASSUME "death" \notin faults, NEW k \in Keys, Sent(k)' PROVE ledger'[k] # None \/ Writing(k)'
    <3>1. CASE k = key
      BY <2>1, <2>2, <3>1 DEF Writing
    <3>2. CASE k # key
      BY <2>1, <2>3, <2>5, <3>2 DEF Writing, SentIsWritten, state
    <3>q. QED BY <3>1, <3>2
  <2>q. QED BY <2>1, <2>4, <2>5 DEF SentIsWritten
<1>2. CASE ~Post
  <2>1. faults' = faults
    BY DEF Next, vars, ExitFills, ExitEnds, ProtectionGoes, LatePostArrives, StartRun, DryRun, Preflight,
        Reserve, GateStops,
         ReadHeld, ListOrders, Check, Post, RecordSubmission, UpdateLedger, Die
  <2>2. late' # {} => late # {}
    <3>1. late' \subseteq late
      <4>1. ASSUME NEW k \in Keys, Fills(k) \/ Ends(k) PROVE late' = late
        BY <4>1 DEF Fills, Ends
      <4>q. QED BY <1>2, <4>1, BrokerOrRun DEF Arrives, TooLate, ProtectionGoes, broker, vars
    <3>q. QED BY <3>1
  <2>3. ASSUME "death" \notin faults, NEW k \in Keys, Sent(k)' PROVE ledger'[k] # None \/ Writing(k)'
    <3>1. ledger[k] # None \/ Writing(k)
      BY <1>2, <2>3, SentIsOld DEF SentIsWritten
    <3>2. CASE UpdateLedger
      <4>1. ledger'[k] = NextRow(k) /\ pc = "ledger"
        BY <3>2 DEF UpdateLedger, NextRow
      <4>2. ledger[k] # None \/ ~(k # key \/ row = None)
        BY <3>1 DEF Writing
      <4>q. QED BY <4>1, <4>2, NextRowIs
    <3>3. CASE ~UpdateLedger
      <4>1. ledger' = ledger
        BY <1>2, <3>3 DEF Next, vars, state, ExitFills, ExitEnds, ProtectionGoes, LatePostArrives, StartRun,
            DryRun, Preflight, Reserve,
             GateStops, ReadHeld, ListOrders, Check, RecordSubmission, Die
      <4>2. Writing(k) => Writing(k)'
        BY <1>2, <2>3, <3>3 DEF Writing, Next, vars, ExitFills, ExitEnds, ProtectionGoes, LatePostArrives,
            StartRun, DryRun, Preflight, Reserve,
             GateStops, ReadHeld, ListOrders, Check, RecordSubmission, Die
      <4>q. QED BY <3>1, <4>1, <4>2
    <3>q. QED BY <3>2, <3>3
  <2>q. QED BY <2>1, <2>2, <2>3 DEF SentIsWritten
<1>q. QED BY <1>1, <1>2

-------------------------------------------------------------------------------
(* What works, and what the run has seen of it *)

LEMMA AliveIsOld ==
  ASSUME ExitTyped, [Next]_vars, ~Post, NEW k \in Keys, Alive(k)'
  PROVE  Alive(k)
<1>0. late' \subseteq late
  <2>1. ASSUME NEW l \in Keys, Fills(l) \/ Ends(l) PROVE late' = late
    BY <2>1 DEF Fills, Ends
  <2>q. QED BY <2>1, BrokerOrRun DEF Arrives, TooLate, ProtectionGoes, broker, vars
<1>1. CASE MayComeAlive(k)'
  <2>1. orders[k] = None
    BY <1>1, Endures DEF MayComeAlive
  <2>q. QED BY <1>0, <1>1, <2>1 DEF MayComeAlive, Alive
<1>2. CASE OpenExit(k)'
  <2>1. ASSUME NEW l \in Keys, Fills(l) \/ Ends(l) PROVE Alive(k)
    BY <1>2, <2>1, FillsIs, EndsIs DEF OpenExit, Alive
  <2>2. ASSUME NEW p \in late, Arrives(p) \/ TooLate(p) PROVE Alive(k)
    <3>1. p.key \in Keys /\ p.qty \in 1..MaxQty
      BY DEF ExitTyped
    <3>2. CASE Arrives(p)
      BY <1>2, <3>1, <3>2, ArrivesIs DEF Arrives, OpenExit, MayComeAlive, Alive
    <3>3. CASE TooLate(p)
      BY <1>2, <3>3 DEF TooLate, OpenExit, Alive
    <3>q. QED BY <2>2, <3>2, <3>3
  <2>3. CASE orders' = orders
    BY <1>2, <2>3 DEF OpenExit, Alive
  <2>q. QED BY <2>1, <2>2, <2>3, BrokerOrRun DEF ProtectionGoes, broker, vars
<1>q. QED BY <1>1, <1>2 DEF Alive

\* The POST: what it may have sent.
LEMMA PostIs ==
  ASSUME ExitTyped, Post
  PROVE  \/ UNCHANGED <<orders, late>>
         \/ \E q \in 1..MaxQty :
              /\ q <= held /\ orders[key] = None
              /\ \/ orders' = [orders EXCEPT ![key] = NewOrder(q, "accepted")] /\ late' = late
                 \/ late' = late \cup {[key |-> key, qty |-> q]} /\ orders' = orders
<1>1. pc = "post"
  BY DEF Post
<1>2. \A q \in ExitQty(key) : q \in 1..MaxQty /\ q <= held
  BY <1>1, QtyIs
<1>q. QED BY <1>2 DEF Post

LEMMA PostedAlive ==
  ASSUME ExitTyped, Post, NEW k \in Keys, Alive(k)'
  PROVE  k = key \/ Alive(k)
<1>0. key \in Keys
  BY DEF Post, ExitTyped
<1>1. CASE UNCHANGED <<orders, late>>
  BY <1>1 DEF Alive, OpenExit, MayComeAlive
<1>2. ASSUME NEW q \in 1..MaxQty, orders[key] = None,
             orders' = [orders EXCEPT ![key] = NewOrder(q, "accepted")], late' = late
      PROVE  k = key \/ Alive(k)
  BY <1>0, <1>2, ArrivesIs DEF Alive, OpenExit, MayComeAlive
<1>3. ASSUME NEW q \in 1..MaxQty, late' = late \cup {[key |-> key, qty |-> q]}, orders' = orders
      PROVE  k = key \/ Alive(k)
  BY <1>3 DEF Alive, OpenExit, MayComeAlive
<1>q. QED BY <1>1, <1>2, <1>3, PostIs

\* Between the look at the position and the POST the run goes on, or the broker moves.
Still == UNCHANGED <<faults, state, pc, key, held, seen>>
LEMMA Waits ==
  ASSUME [Next]_vars, pc' \in {"list", "check", "post"}
  PROVE  ReadHeld \/ ListOrders \/ Check \/ (Still /\ ~Post)
BY DEF Still, Next, vars, state, ExitFills, ExitEnds, ProtectionGoes, LatePostArrives, StartRun, DryRun,
    Preflight, Reserve, GateStops, Drop,
       Post, RecordSubmission, UpdateLedger, Die

LEMMA ProtectsLess ==
  ASSUME ExitTyped, [Next]_vars
  PROVE  protect' = protect \/ protect' = 0
BY DEF Next, vars, broker, ExitFills, ExitEnds, ProtectionGoes, LatePostArrives, StartRun, DryRun, Preflight,
    Reserve, GateStops, Drop,
       ReadHeld, ListOrders, Check, Post, RecordSubmission, UpdateLedger, Die

\* What works and has a row has one that has not ended.
LEMMA AliveIsUnended ==
  ASSUME ExitTyped, FilesTrue, NEW k \in Keys, Alive(k), ledger[k] # None
  PROVE  Unended(k)
BY StatusesApart DEF FilesTrue, EndsTrue, Alive, OpenExit, MayComeAlive, Unended

LEMMA MayComeIsWritten ==
  ASSUME ExitTyped, SentIsWritten, NEW k \in Keys, MayComeAlive(k), pc \notin {"record", "ledger"}
  PROVE  ledger[k] # None
BY FaultsAssumption DEF ExitTyped, SentIsWritten, MayComeAlive, Sent, Writing

\* The check lets no run post beside an exit that works.
LEMMA CheckSees ==
  ASSUME ExitTyped, FilesTrue, SentIsWritten, OneAlive, pc = "check", ~OrdersForbid
  PROVE  /\ \A k \in Keys : Alive(k) => k = key
         /\ \A k \in Keys \ {key} : ~Unended(k)
         /\ protect = 0
<1>1. \A k \in Keys \ {key} : ~Unended(k)
  BY DEF OrdersForbid, UnendedExits, InLedger, Unended
<1>2. ~seen.exit /\ ~seen.protective
  BY DEF OrdersForbid
<1>3. ASSUME NEW k \in Keys, Alive(k), k # key PROVE FALSE
  <2>1. ledger[k] # None
    BY <1>2, <1>3, MayComeIsWritten DEF Alive, OneAlive
  <2>q. QED BY <1>1, <1>3, <2>1, AliveIsUnended
<1>q. QED BY <1>1, <1>2, <1>3 DEF OneAlive

\* What the listing leaves of the open orders.
LEMMA SeenIs ==
  ASSUME NEW s, NEW P, NEW E, s = [protective |-> P, exit |-> E]
  PROVE  s.protective = P /\ s.exit = E
OBVIOUS

LEMMA ListingIs ==
  ASSUME ListOrders, pc' = "check"
  PROVE  /\ UNCHANGED <<broker, state, key, held>>
         /\ ~seen'.exit => ~\E k \in Keys : OpenExit(k)
         /\ ~seen'.protective => ~(protect > 0)
<1> DEFINE P == protect > 0
           E == \E k \in Keys : OpenExit(k)
<1>1. UNCHANGED <<broker, state, key, held>>
  BY DEF ListOrders
<1>2. seen' = [protective |-> P, exit |-> E]
  BY DEF ListOrders
<1> HIDE DEF P, E
<1>3. seen'.protective = P /\ seen'.exit = E
  BY <1>2, SeenIs
<1>4. (~seen'.exit => ~E) /\ (~seen'.protective => ~P)
  BY <1>3, Zenon
<1>q. QED BY <1>1, <1>4 DEF P, E

LEMMA OneAliveStep == ExitTyped /\ FilesTrue /\ SentIsWritten /\ OneAlive /\ [Next]_vars => OneAlive'
<1> SUFFICES ASSUME ExitTyped, FilesTrue, SentIsWritten, OneAlive, [Next]_vars PROVE OneAlive'
  OBVIOUS
<1>1. ASSUME NEW k \in Keys, NEW l \in Keys, Alive(k)', Alive(l)' PROVE k = l
  <2>1. CASE Post
    <3>1. pc = "post"
      BY <2>1 DEF Post
    <3>q. QED BY <1>1, <2>1, <3>1, PostedAlive DEF OneAlive
  <2>2. CASE ~Post
    BY <1>1, <2>2, AliveIsOld DEF OneAlive
  <2>q. QED BY <2>1, <2>2
<1>2. ASSUME pc' = "check", ~seen'.exit, NEW k \in Keys, OpenExit(k)' PROVE ledger'[k] # None
  <2>1. CASE ListOrders
    <3>1. ~\E l \in Keys : OpenExit(l)
      BY <1>2, <2>1, ListingIs
    <3>2. OpenExit(k)
      BY <1>2, <2>1, ListingIs DEF broker, OpenExit
    <3>q. QED BY <3>1, <3>2
  <2>2. CASE Still /\ ~Post
    <3>1. pc = "check" /\ ~seen.exit /\ ledger' = ledger
      BY <1>2, <2>2 DEF Still, state
    <3>2. Alive(k)
      BY <1>2, <2>2, AliveIsOld DEF Alive
    <3>q. QED BY <3>1, <3>2, MayComeIsWritten DEF Alive, OneAlive
  <2>q. QED BY <1>2, <2>1, <2>2, Waits DEF ReadHeld, Check
<1>3. ASSUME pc' = "post", NEW k \in Keys, Alive(k)' PROVE k = key'
  <2>1. CASE Check
    <3>1. pc = "check" /\ ~OrdersForbid /\ key' = key /\ UNCHANGED <<orders, late>>
      BY <1>3, <2>1 DEF Check, broker
    <3>2. Alive(k)
      BY <1>3, <3>1 DEF Alive, OpenExit, MayComeAlive
    <3>q. QED BY <3>1, <3>2, CheckSees
  <2>2. CASE Still /\ ~Post
    BY <1>3, <2>2, AliveIsOld DEF Still, OneAlive
  <2>q. QED BY <1>3, <2>1, <2>2, Waits DEF ReadHeld, ListOrders
<1>4. ASSUME pc' = "check", ~seen'.protective PROVE protect' = 0
  <2>1. CASE ListOrders
    <3>1. ~(protect > 0) /\ protect' = protect
      BY <1>4, <2>1, ListingIs DEF broker
    <3>2. protect \in Nat
      BY BoundsAssumption DEF ExitTyped
    <3>q. QED BY <3>1, <3>2
  <2>2. CASE Still
    BY <1>4, <2>2, ProtectsLess DEF Still, OneAlive
  <2>q. QED BY <1>4, <2>1, <2>2, Waits DEF ReadHeld, Check
<1>5. ASSUME pc' = "post" PROVE protect' = 0
  <2>1. CASE Check
    <3>1. pc = "check" /\ ~OrdersForbid /\ protect' = protect
      BY <1>5, <2>1 DEF Check, broker
    <3>q. QED BY <3>1, CheckSees
  <2>2. CASE Still
    BY <1>5, <2>2, ProtectsLess DEF Still, OneAlive
  <2>q. QED BY <1>5, <2>1, <2>2, Waits DEF ReadHeld, ListOrders
<1>q. QED BY <1>1, <1>2, <1>3, <1>4, <1>5 DEF OneAlive

-------------------------------------------------------------------------------
(* The position *)

\* A step of the broker or a POST changes one order.
Untouched(k) == \A l \in Keys \ {k} : orders'[l] = orders[l]
LEMMA BrokerIs ==
  ASSUME ExitTyped, [Next]_vars
  PROVE  \/ \E k \in Keys : (Fills(k) \/ Ends(k)) /\ protect' = protect
         \/ \E p \in late : Arrives(p) /\ protect' = protect
         \/ protect' = 0 /\ UNCHANGED <<orders, late>> /\
              \/ position' = position - protect /\ ("race" \in faults \/ pc \notin {"list", "check", "post"})
              \/ position' = position
         \/ Post /\ UNCHANGED <<position, protect>>
         \/ late' \subseteq late /\ UNCHANGED <<position, orders, protect>>
<1>1. CASE Post
  BY <1>1 DEF Post
<1>2. CASE ProtectionGoes
  BY <1>2 DEF ProtectionGoes
<1>3. CASE UNCHANGED broker
  BY <1>3 DEF broker
<1>4. CASE UNCHANGED vars
  BY <1>4 DEF vars
<1>q. QED BY <1>1, <1>2, <1>3, <1>4, BrokerOrRun DEF Arrives, TooLate

LEMMA CoveredStep ==
  ASSUME ExitTyped, FilesTrue, SentIsWritten, OneAlive, Covered, [Next]_vars, faults \subseteq {"late"}
  PROVE  /\ position' >= protect'
         /\ \A k \in Keys : OpenExit(k)' => position' >= orders'[k].left + protect'
         /\ \A p \in late' : orders'[p.key] = None => position' >= p.qty + protect'
<1> DEFINE Goal == /\ position' >= protect'
                   /\ \A k \in Keys : OpenExit(k)' => position' >= orders'[k].left + protect'
                   /\ \A p \in late' : orders'[p.key] = None => position' >= p.qty + protect'
<1>0. /\ position \in Int /\ protect \in Nat /\ MaxQty \in Nat /\ held \in Int
      /\ \A p \in late : p.key \in Keys /\ p.qty \in 1..MaxQty
      /\ \A k \in Keys : OpenExit(k) => orders[k].left \in Nat
  <2>1. ASSUME NEW k \in Keys, OpenExit(k) PROVE orders[k].left \in Nat
    <3>1. orders[k] # None
      BY <2>1 DEF OpenExit
    <3>2. orders[k].left \in 0..MaxQty /\ MaxQty \in Nat
      BY <3>1, OrderIs, BoundsAssumption
    <3>q. QED BY <3>2
  <2>q. QED BY <2>1, BoundsAssumption DEF ExitTyped
<1>1. /\ position >= protect
      /\ \A k \in Keys : OpenExit(k) => position >= orders[k].left + protect
      /\ \A p \in late : orders[p.key] = None => position >= p.qty + protect
  BY DEF Covered
<1>2. ASSUME NEW k \in Keys, Fills(k), protect' = protect PROVE Goal
  <2>1. PICK n \in 1..MaxQty : n <= orders[k].left /\ orders'[k].left = orders[k].left - n
          /\ position' = position - n
    BY <1>2, FillsIs
  <2>2. OpenExit(k) /\ Untouched(k) /\ late' = late /\ orders[k] # None
    BY <1>2, FillsIs DEF Untouched
  <2>3. orders[k].left \in Nat /\ position >= orders[k].left + protect
    BY <1>0, <1>1, <2>2
  <2>4. position' >= protect /\ position' >= orders'[k].left + protect
    BY <1>0, <2>1, <2>3
  <2>5. ASSUME NEW l \in Keys, OpenExit(l)' PROVE l = k
    <3>1. l # k => OpenExit(l)
      BY <2>2, <2>5 DEF Untouched, OpenExit
    <3>q. QED BY <2>2, <3>1 DEF OneAlive, Alive
  <2>6. ASSUME NEW p \in late', orders'[p.key] = None PROVE FALSE
    <3>1. p.key \in Keys /\ orders[p.key] = None /\ MayComeAlive(p.key)
      BY <1>0, <2>2, <2>6, Endures DEF MayComeAlive
    <3>q. QED BY <2>2, <3>1 DEF OneAlive, Alive
  <2>q. QED BY <1>2, <2>4, <2>5, <2>6
<1>3. ASSUME NEW k \in Keys, Ends(k), protect' = protect PROVE Goal
  <2>1. ~OpenExit(k)' /\ Untouched(k) /\ position' = position /\ late' = late
    BY <1>3, EndsIs DEF Untouched
  <2>2. ASSUME NEW l \in Keys, OpenExit(l)' PROVE OpenExit(l) /\ orders'[l] = orders[l]
    BY <2>1, <2>2 DEF Untouched, OpenExit
  <2>3. ASSUME NEW p \in late', orders'[p.key] = None PROVE orders[p.key] = None
    BY <1>0, <2>1, <2>3, Endures
  <2>q. QED BY <1>1, <1>3, <2>1, <2>2, <2>3
<1>4. ASSUME NEW p \in late, Arrives(p), protect' = protect PROVE Goal
  <2>1. p.key \in Keys /\ p.qty \in 1..MaxQty /\ orders[p.key] = None /\ late' \subseteq late
          /\ position' = position
    BY <1>0, <1>4 DEF Arrives
  <2>2. orders'[p.key].left = p.qty /\ Untouched(p.key)
    BY <1>4, <2>1, ArrivesIs DEF Arrives, Untouched
  <2>3. ASSUME NEW l \in Keys, OpenExit(l)' PROVE position' >= orders'[l].left + protect'
    <3>1. CASE l = p.key
      BY <1>1, <1>4, <2>1, <2>2, <3>1
    <3>2. CASE l # p.key
      BY <1>1, <1>4, <2>1, <2>2, <2>3, <3>2 DEF Untouched, OpenExit
    <3>q. QED BY <3>1, <3>2
  <2>4. ASSUME NEW x \in late', orders'[x.key] = None PROVE position' >= x.qty + protect'
    <3>1. orders[x.key] = None /\ x \in late
      BY <1>0, <2>1, <2>4, Endures
    <3>q. QED BY <1>1, <1>4, <2>1, <3>1
  <2>q. QED BY <1>1, <1>4, <2>1, <2>3, <2>4
<1>5. CASE protect' = 0 /\ UNCHANGED <<orders,
        late>> /\ (position' = position - protect \/ position' = position)
  <2>1. position' \in Int /\ position' >= position - protect /\ protect' = 0
    BY <1>0, <1>5
  <2>2. position' >= protect'
    BY <1>0, <1>1, <2>1
  <2>3. ASSUME NEW k \in Keys, OpenExit(k)' PROVE position' >= orders'[k].left + protect'
    <3>1. OpenExit(k) /\ orders'[k].left = orders[k].left
      BY <1>5, <2>3 DEF OpenExit
    <3>2. orders[k].left \in Nat /\ position >= orders[k].left + protect
      BY <1>0, <1>1, <3>1
    <3>q. QED BY <1>0, <2>1, <3>1, <3>2
  <2>4. ASSUME NEW p \in late', orders'[p.key] = None PROVE position' >= p.qty + protect'
    <3>1. p \in late /\ orders[p.key] = None
      BY <1>5, <2>4
    <3>2. p.qty \in Nat /\ position >= p.qty + protect
      BY <1>0, <1>1, <3>1
    <3>q. QED BY <1>0, <2>1, <3>2
  <2>q. QED BY <2>2, <2>3, <2>4
<1>6. CASE Post /\ UNCHANGED <<position, protect>>
  <2>1. pc = "post" /\ key \in Keys
    BY <1>6 DEF Post, ExitTyped
  <2>2. protect = 0 /\ (held <= position \/ orders[key] # None)
    BY <2>1 DEF OneAlive, Covered
  <2>3. CASE UNCHANGED <<orders, late>>
    BY <1>1, <1>6, <2>3 DEF OpenExit
  <2>4. ASSUME NEW q \in 1..MaxQty, q <= held, orders[key] = None
        PROVE  position' >= q + protect'
    BY <1>0, <1>6, <2>2, <2>4
  <2>5. ASSUME NEW q \in 1..MaxQty, q <= held, orders[key] = None,
               orders' = [orders EXCEPT ![key] = NewOrder(q, "accepted")], late' = late
        PROVE  Goal
    <3>1. orders'[key].left = q /\ Untouched(key) /\ position' >= q + protect'
      BY <2>1, <2>4, <2>5, ArrivesIs DEF Untouched
    <3>2. ASSUME NEW l \in Keys, OpenExit(l)' PROVE position' >= orders'[l].left + protect'
      <4>1. CASE l = key
        BY <3>1, <4>1
      <4>2. CASE l # key
        BY <1>1, <1>6, <3>1, <3>2, <4>2 DEF Untouched, OpenExit
      <4>q. QED BY <4>1, <4>2
    <3>3. ASSUME NEW p \in late', orders'[p.key] = None PROVE position' >= p.qty + protect'
      <4>1. p \in late /\ orders[p.key] = None
        BY <1>0, <2>5, <3>3, Endures
      <4>q. QED BY <1>1, <1>6, <4>1
    <3>q. QED BY <1>1, <1>6, <3>2, <3>3
  <2>6. ASSUME NEW q \in 1..MaxQty, q <= held, orders[key] = None,
               late' = late \cup {[key |-> key, qty |-> q]}, orders' = orders
        PROVE  Goal
    <3>1. position' >= q + protect'
      BY <2>4, <2>6
    <3>2. ASSUME NEW p \in late', orders'[p.key] = None PROVE position' >= p.qty + protect'
      BY <1>1, <1>6, <2>6, <3>1, <3>2
    <3>q. QED BY <1>1, <1>6, <2>6, <3>2 DEF OpenExit
  <2>q. QED BY <1>6, <2>3, <2>5, <2>6, PostIs
<1>7. CASE late' \subseteq late /\ UNCHANGED <<position, orders, protect>>
  BY <1>1, <1>7 DEF OpenExit
<1>q. QED BY <1>2, <1>3, <1>4, <1>5, <1>6, <1>7, BrokerIs

\* A position that shrinks under the run was sold by an exit that the check sees or
\* the broker knows.
Held(k) == held <= position \/ orders[k] # None
LEMMA StillHeld ==
  ASSUME ExitTyped, FilesTrue, SentIsWritten, [Next]_vars, Still, ~Post, faults \subseteq {"late"},
         pc \in {"list", "check", "post"}, NEW k \in Keys, held <= position \/ orders[k] # None
  PROVE  held' <= position' \/ orders'[k] # None \/ \E l \in Keys \ {k} : OpenExit(l) /\ Unended(l)
         /\ Unended(l)'
<1>0. held' = held /\ ledger' = ledger /\ "race" \notin faults /\ "death" \notin faults
  BY DEF Still, state
<1>1. CASE orders[k] # None
  BY <1>1, Endures
<1>2. CASE held <= position
  <2>1. ASSUME NEW l \in Keys, Fills(l) PROVE \/ orders'[k] # None
                                              \/ OpenExit(l) /\ Unended(l) /\ Unended(l)' /\ l # k
    <3>1. OpenExit(l) /\ orders'[l] # None
      BY <2>1, FillsIs
    <3>2. Sent(l)
      BY <3>1 DEF Sent, OpenExit
    <3>3. ledger[l] # None
      BY <1>0, <3>2 DEF SentIsWritten, Writing
    <3>4. Unended(l)
      BY <3>1, <3>3, AliveIsUnended DEF Alive
    <3>q. QED BY <1>0, <3>1, <3>4 DEF Unended
  <2>2. CASE position' = position
    BY <1>0, <1>2, <2>2
  <2>q. QED BY <1>0, <2>1, <2>2, BrokerIs DEF Ends, Arrives
<1>q. QED BY <1>1, <1>2

LEMMA HeldStep ==
  ASSUME ExitTyped, FilesTrue, SentIsWritten, OneAlive, Covered, [Next]_vars, faults \subseteq {"late"}
  PROVE  /\ pc' \in {"list", "check"} => held' <= position' \/ orders'[key'] # None
            \/ \E k \in Keys \ {key'} : Unended(k)'
         /\ pc' = "post" => held' <= position' \/ orders'[key'] # None
<1>0. pc' \in {"list", "check", "post"} => ReadHeld \/ ListOrders \/ Check \/ (Still /\ ~Post)
  BY Waits
<1>1. CASE ReadHeld
  <2>1. held' = position /\ position' = position /\ position \in Int /\ pc' # "post"
    BY <1>1 DEF ReadHeld, broker, ExitTyped
  <2>q. QED BY <2>1
<1>2. CASE ListOrders
  <2>1. pc = "list" /\ pc' # "post" /\ UNCHANGED <<held, position, orders, key, ledger>>
    BY <1>2 DEF ListOrders, broker, state
  <2>q. QED BY <2>1 DEF Covered, Unended
<1>3. CASE Check
  <2>1. pc = "check" /\ UNCHANGED <<held, position, orders, key,
          ledger>> /\ (pc' = "ledger" \/ (pc' = "post" /\ ~OrdersForbid))
    BY <1>3 DEF Check, broker, state
  <2>2. ~OrdersForbid => \A k \in Keys \ {key} : ~Unended(k)
    BY <2>1, CheckSees
  <2>q. QED BY <2>1, <2>2 DEF Covered
<1>4. ASSUME Still, ~Post, pc' \in {"list", "check", "post"}
      PROVE  /\ pc' \in {"list", "check"} => held' <= position' \/ orders'[key'] # None
                \/ \E k \in Keys \ {key'} : Unended(k)'
             /\ pc' = "post" => held' <= position' \/ orders'[key'] # None
  <2>1. pc' = pc /\ key' = key /\ ledger' = ledger /\ key \in Keys
    BY <1>4 DEF Still, state, ExitTyped
  <2>2. CASE pc \in {"list", "check"}
    <3>1. CASE \E k \in Keys \ {key} : Unended(k)
      BY <2>1, <2>2, <3>1 DEF Unended
    <3>2. CASE held <= position \/ orders[key] # None
      BY <1>4, <2>1, <2>2, <3>2, StillHeld
    <3>q. QED BY <2>2, <3>1, <3>2 DEF Covered
  <2>3. CASE pc = "post"
    <3>1. \A l \in Keys \ {key} : ~OpenExit(l)
      BY <2>3 DEF OneAlive, Alive
    <3>2. held <= position \/ orders[key] # None
      BY <2>3 DEF Covered
    <3>q. QED BY <1>4, <2>1, <2>3, <3>1, <3>2, StillHeld
  <2>q. QED BY <1>4, <2>1, <2>2, <2>3
<1>q. QED BY <1>0, <1>1, <1>2, <1>3, <1>4

\* The broker's orders are counted.
LEMMA FloorIs ==
  ASSUME NEW n \in Nat, NEW m \in Nat
  PROVE  /\ Floor(n) \in Int /\ Floor(n) <= 0 /\ Floor(n + 1) = Floor(n) - MaxQty
         /\ m <= n => Floor(n) <= Floor(m)
<1>1. MaxQty \in Nat
  BY BoundsAssumption
<1>2. MaxQty * n \in Nat /\ MaxQty * (n + 1) = MaxQty * n + MaxQty
  BY <1>1
<1>3. m <= n => MaxQty * m <= MaxQty * n
  <2> SUFFICES ASSUME m <= n PROVE MaxQty * m <= MaxQty * n
    OBVIOUS
  <2> DEFINE z == n - m
  <2>1. z \in Nat /\ n = m + z
    OBVIOUS
  <2> HIDE DEF z
  <2>2. MaxQty * n = MaxQty * m + MaxQty * z /\ MaxQty * z \in Nat /\ MaxQty * m \in Int
    BY <1>1, <2>1
  <2>q. QED BY <2>2
<1>4. MaxQty * m \in Int
  BY <1>1
<1>q. QED BY <1>1, <1>2, <1>3, <1>4 DEF Floor

LEMMA OrderedIs ==
  ASSUME ExitTyped
  PROVE  IsFiniteSet(Ordered) /\ Cardinality(Ordered) \in Nat /\ Cardinality(Keys) \in Nat
         /\ Cardinality(Ordered) <= Cardinality(Keys)
         /\ Floor(Cardinality(Keys)) <= Floor(Cardinality(Ordered)) /\ Floor(Cardinality(Ordered)) \in Int
             /\ Floor(Cardinality(Keys)) \in Int
<1>1. Ordered \subseteq Keys /\ IsFiniteSet(Keys)
  BY KeysAssumption, NoneAssumption DEF Ordered
<1>2. IsFiniteSet(Ordered) /\ Cardinality(Ordered) \in Nat /\ Cardinality(Keys) \in Nat
        /\ Cardinality(Ordered) <= Cardinality(Keys)
  BY <1>1, FS_Subset, FS_CardinalityType
<1>q. QED BY <1>2, FloorIs

LEMMA OneMoreOrder ==
  ASSUME ExitTyped, NEW k \in Keys, orders[k] = None, orders'[k] # None, Untouched(k)
  PROVE  Floor(Cardinality(Ordered')) = Floor(Cardinality(Ordered)) - MaxQty
<1>1. Ordered' = Ordered \cup {k} /\ k \notin Ordered
  BY DEF Ordered, Untouched
<1>2. Cardinality(Ordered') = Cardinality(Ordered) + 1
  BY <1>1, OrderedIs, FS_AddElement
<1>q. QED BY <1>2, OrderedIs, FloorIs

LEMMA BoundedStep == ExitTyped /\ OneAlive /\ Bounded /\ [Next]_vars => Bounded'
<1> SUFFICES ASSUME ExitTyped, OneAlive, Bounded, [Next]_vars PROVE Bounded'
  OBVIOUS
<1> DEFINE c == Floor(Cardinality(Ordered))
           Goal == /\ position' - protect' >= Floor(Cardinality(Ordered'))
                   /\ \A k \in Keys : OpenExit(k)'
                       => position' - protect' - orders'[k].left >= Floor(Cardinality(Ordered'))
<1>0. /\ position \in Int /\ protect \in Nat /\ MaxQty \in Nat /\ held \in Int /\ c \in Int
      /\ \A p \in late : p.key \in Keys /\ p.qty \in 1..MaxQty
      /\ position - protect >= c
  BY BoundsAssumption, OrderedIs DEF ExitTyped, Bounded
<1>1. \A k \in Keys : OpenExit(k) => orders[k].left \in 0..MaxQty /\ position - protect - orders[k].left >= c
        /\ orders[k] # None
  BY OrderIs DEF Bounded, OpenExit
<1>2. UNCHANGED orders => Ordered' = Ordered
  BY DEF Ordered
<1> HIDE DEF c
<1>3. ASSUME NEW k \in Keys, orders[k] = None, NEW q \in 1..MaxQty,
             orders' = [orders EXCEPT ![k] = NewOrder(q, "accepted")],
             UNCHANGED <<position, protect>>
      PROVE  Goal
  <2>1. orders'[k].left = q /\ Untouched(k) /\ orders'[k] # None
    BY <1>3, ArrivesIs DEF Untouched
  <2>2. Floor(Cardinality(Ordered')) = c - MaxQty
    BY <1>3, <2>1, OneMoreOrder DEF c
  <2>3. ASSUME NEW l \in Keys, OpenExit(l)'
        PROVE position' - protect' - orders'[l].left >= Floor(Cardinality(Ordered'))
    <3>1. CASE l = k
      BY <1>0, <1>3, <2>1, <2>2, <3>1
    <3>2. CASE l # k
      <4>1. OpenExit(l) /\ orders'[l].left = orders[l].left
        BY <2>1, <2>3, <3>2 DEF Untouched, OpenExit
      <4>2. orders[l].left \in 0..MaxQty /\ position - protect - orders[l].left >= c
        BY <1>1, <4>1
      <4>q. QED BY <1>0, <1>3, <2>2, <4>1, <4>2
    <3>q. QED BY <3>1, <3>2
  <2>q. QED BY <1>0, <1>3, <2>2, <2>3
<1>4. ASSUME NEW k \in Keys, Fills(k), protect' = protect PROVE Goal
  <2>1. PICK n \in 1..MaxQty : n <= orders[k].left /\ orders'[k].left = orders[k].left - n
          /\ position' = position - n
    BY <1>4, FillsIs
  <2>2. OpenExit(k) /\ Untouched(k) /\ orders[k] # None /\ orders'[k] # None
    BY <1>4, FillsIs DEF Untouched
  <2>3. Ordered' = Ordered
    BY <2>2 DEF Untouched, Ordered
  <2>4. orders[k].left \in 0..MaxQty /\ position - protect - orders[k].left >= c
    BY <1>1, <2>2
  <2>5. position' - protect' >= c /\ position' - protect' - orders'[k].left >= c
    BY <1>0, <1>4, <2>1, <2>4
  <2>6. ASSUME NEW l \in Keys, OpenExit(l)' PROVE l = k
    <3>1. l # k => OpenExit(l)
      BY <2>2, <2>6 DEF Untouched, OpenExit
    <3>q. QED BY <2>2, <3>1 DEF OneAlive, Alive
  <2>q. QED BY <2>3, <2>5, <2>6 DEF c
<1>5. ASSUME NEW k \in Keys, Ends(k), protect' = protect PROVE Goal
  <2>1. ~OpenExit(k)' /\ Untouched(k) /\ position' = position /\ orders[k] # None /\ orders'[k] # None
    BY <1>5, EndsIs DEF Untouched
  <2>2. Ordered' = Ordered
    BY <2>1 DEF Untouched, Ordered
  <2>3. ASSUME NEW l \in Keys, OpenExit(l)' PROVE OpenExit(l) /\ orders'[l] = orders[l]
    BY <2>1, <2>3 DEF Untouched, OpenExit
  <2>q. QED BY <1>0, <1>1, <1>5, <2>1, <2>2, <2>3 DEF c
<1>6. ASSUME UNCHANGED orders, protect' \in Nat, position' \in Int, position' - protect' >= position - protect
      PROVE Goal
  <2> DEFINE x == position' - protect'
             y == position - protect
  <2>0. x \in Int /\ y \in Int /\ x >= y
    <3>1. x >= y
      BY <1>6
    <3>2. x \in Int
      BY <1>6
    <3>3. y \in Int
      BY <1>0
    <3>q. QED BY <3>1, <3>2, <3>3
  <2>1. ASSUME NEW k \in Keys, OpenExit(k)' PROVE position' - protect' - orders'[k].left >= c
    <3>1. OpenExit(k) /\ orders'[k].left = orders[k].left
      BY <1>6, <2>1 DEF OpenExit
    <3>2. orders[k].left \in 0..MaxQty /\ y - orders[k].left >= c
      BY <1>1, <3>1
    <3> DEFINE z == orders[k].left
    <3>3. z \in Int /\ y - z >= c /\ orders'[k].left = z
      BY <1>0, <3>1, <3>2
    <3> HIDE DEF x, y, z
    <3>4. x - z >= c
      BY <1>0, <2>0, <3>3
    <3>q. QED BY <3>3, <3>4 DEF x
  <2>2. position' - protect' >= c
    <3>1. y >= c
      BY <1>0
    <3> HIDE DEF x, y
    <3>2. x >= c
      BY <1>0, <2>0, <3>1
    <3>q. QED BY <3>2 DEF x
  <2>q. QED BY <1>2, <1>6, <2>1, <2>2 DEF c
<1>7. Goal
  <2>1. CASE protect' = 0 /\ UNCHANGED orders /\ (position' = position - protect \/ position' = position)
    <3>1. protect' \in Nat /\ position' \in Int /\ position' - protect' >= position - protect
      BY <1>0, <2>1
    <3>q. QED BY <1>6, <2>1, <3>1
  <2>2. CASE UNCHANGED <<position, orders, protect>>
    <3>1. protect' \in Nat /\ position' \in Int /\ position' - protect' >= position - protect
      BY <1>0, <2>2
    <3>q. QED BY <1>6, <2>2, <3>1
  <2>3. ASSUME NEW p \in late, Arrives(p), protect' = protect PROVE Goal
    BY <1>0, <1>3, <2>3 DEF Arrives
  <2>4. CASE Post /\ UNCHANGED <<position, protect>>
    <3>1. key \in Keys
      BY <2>4 DEF Post, ExitTyped
    <3>q. QED BY <1>3, <2>2, <2>4, <3>1, PostIs
  <2>q. QED BY <1>4, <1>5, <2>1, <2>2, <2>3, <2>4, BrokerIs
<1>8. held' >= Floor(Cardinality(Keys))
  <2>1. held' = held \/ held' = 0 \/ held' = position
    BY DEF Next, vars, ExitFills, ExitEnds, ProtectionGoes, LatePostArrives, StartRun, DryRun, Preflight,
        Reserve, GateStops,
         ReadHeld, ListOrders, Check, Post, RecordSubmission, UpdateLedger, Die
  <2>2. Floor(Cardinality(Keys)) <= c /\ Floor(Cardinality(Keys)) \in Int /\ Floor(Cardinality(Keys)) <= 0
    BY OrderedIs, FloorIs DEF c
  <2>3. held >= Floor(Cardinality(Keys))
    BY DEF Bounded
  <2>q. QED BY <1>0, <2>1, <2>2, <2>3
<1>q. QED BY <1>7, <1>8 DEF Bounded

-------------------------------------------------------------------------------
LEMMA ExitInit == Init => ExitInv
<1> SUFFICES ASSUME Init PROVE ExitInv
  OBVIOUS
<1>1. ExitTyped
  BY TypedInit
<1>2. /\ \A k \in Keys : orders[k] = None /\ idem[k] = None /\ ledger[k] = None /\ Len(released[k]) = 0
      /\ late = {} /\ pc = "idle" /\ position = MaxQty /\ protect \in {0, MaxQty} /\ held = 0 /\ MaxQty \in Nat
  BY BoundsAssumption DEF Init
<1>3. FilesTrue /\ SentIsWritten
  BY <1>2 DEF FilesTrue, SentIsWritten, Sent
<1>4. OneAlive
  BY <1>2 DEF OneAlive, Alive, OpenExit, MayComeAlive
<1>5. Covered
  BY <1>2 DEF Covered, OpenExit
<1>6. Ordered = {} /\ \A k \in Keys : ~OpenExit(k)
  BY <1>2 DEF Ordered, OpenExit
<1>7. Bounded
  <2>1. Floor(Cardinality(Ordered)) <= 0 /\ Floor(Cardinality(Keys)) <= 0
          /\ Floor(Cardinality(Ordered)) \in Int /\ Floor(Cardinality(Keys)) \in Int
    BY <1>1, OrderedIs, FloorIs
  <2>q. QED BY <1>2, <1>6, <2>1 DEF Bounded
<1>q. QED BY <1>1, <1>3, <1>4, <1>5, <1>7 DEF ExitInv

LEMMA ExitStep == ExitInv /\ [Next]_vars => ExitInv'
<1> SUFFICES ASSUME ExitInv, [Next]_vars PROVE ExitInv'
  OBVIOUS
<1>1. ExitTyped /\ FilesTrue /\ SentIsWritten /\ OneAlive /\ Covered /\ Bounded
  BY DEF ExitInv
<1>2. ExitTyped' /\ FilesTrue' /\ SentIsWritten' /\ OneAlive' /\ Bounded'
  BY <1>1, TypedStep, FilesStep, SentStep, OneAliveStep, BoundedStep
<1>3. faults' = faults
  BY DEF Next, vars, ExitFills, ExitEnds, ProtectionGoes, LatePostArrives, StartRun, DryRun, Preflight,
      Reserve, GateStops,
       ReadHeld, ListOrders, Check, Post, RecordSubmission, UpdateLedger, Die
<1>4. Covered'
  BY <1>1, <1>3, CoveredStep, HeldStep DEF Covered
<1>q. QED BY <1>2, <1>4 DEF ExitInv

LEMMA ExitSafe == ExitInv => TypeOK /\ OneLiveExit /\ NeverOversells /\ EndedRowsAreTrue
<1> SUFFICES ASSUME ExitInv PROVE TypeOK /\ OneLiveExit /\ NeverOversells /\ EndedRowsAreTrue
  OBVIOUS
<1>0. ExitTyped /\ FilesTrue /\ OneAlive /\ Covered /\ Bounded
  BY DEF ExitInv
<1>1. OneLiveExit
  <2> DEFINE S == {k \in Keys : OpenExit(k) \/ MayComeAlive(k)}
  <2>1. \A x, y \in S : x = y
    BY <1>0 DEF OneAlive, Alive
  <2> HIDE DEF S
  <2>2. Cardinality(S) <= 1
    <3>1. CASE S = {}
      BY <3>1, FS_EmptySet
    <3>2. CASE S # {}
      <4>1. PICK x : S = {x}
        BY <2>1, <3>2
      <4>2. Cardinality(S) = 1
        BY <4>1, FS_Singleton
      <4>q. QED BY <4>2
    <3>q. QED BY <3>1, <3>2
  <2>q. QED BY <2>2 DEF OneLiveExit, S
<1>2. NeverOversells
  <2>1. position \in Int /\ protect \in Nat
    BY <1>0, BoundsAssumption DEF ExitTyped
  <2>q. QED BY <1>0, <2>1 DEF NeverOversells, Covered
<1>3. EndedRowsAreTrue
  BY <1>0 DEF EndedRowsAreTrue, FilesTrue, EndsTrue
<1>4. TypeOK
  <2>1. position \in (0 - MaxQty * Cardinality(Keys))..MaxQty
          /\ held \in (0 - MaxQty * Cardinality(Keys))..MaxQty
    <3> DEFINE f == Floor(Cardinality(Keys))
    <3>1. f \in Int /\ f <= Floor(Cardinality(Ordered)) /\ Floor(Cardinality(Ordered)) \in Int
      BY <1>0, OrderedIs
    <3>2. position - protect >= Floor(Cardinality(Ordered)) /\ held >= f
      BY <1>0 DEF Bounded
    <3>3. position \in Int /\ position <= MaxQty /\ held \in Int /\ held <= MaxQty /\ protect \in Nat
            /\ MaxQty \in Nat
      BY <1>0, BoundsAssumption DEF ExitTyped
    <3> HIDE DEF f
    <3>4. position \in f..MaxQty /\ held \in f..MaxQty
      BY <3>1, <3>2, <3>3
    <3>q. QED BY <3>4 DEF f, Floor
  <2>q. QED BY <1>0, <2>1 DEF ExitTyped, TypeOK, Steps
<1>q. QED BY <1>1, <1>2, <1>3, <1>4

\* The exit lane keeps its inductive invariant: the files tell the truth about ended
\* exits, what was sent is written, one exit at the most is alive, and the position covers
\* what works (the reservation, the check and the POST of index.ts:9192-9336).
THEOREM ExitInvariant == Spec => []ExitInv
<1>q. QED BY ExitInit, ExitStep, PTL DEF Spec

\* At most one exit is open or may still become open, the position is not sold short
\* unless a sale raced with the protective order, and no row ends otherwise than its order.
THEOREM ExitsSafe == Spec => [](TypeOK /\ OneLiveExit /\ NeverOversells /\ EndedRowsAreTrue)
<1>q. QED BY ExitInvariant, ExitSafe, PTL

-------------------------------------------------------------------------------
(* The replacement of a stale entry. What the run has listed holds every   *)
(* live order of the symbol, so after its cancel nothing works and at most *)
(* one order is still on its way to an end. The row it keeps counts the    *)
(* cancels of the day and remembers the last one, up to as many as there   *)
(* were losses of an answer or of a file.                                  *)

\* The instance counts as the library does.
LEMMA ReplaceCounts == ASSUME NEW S PROVE Replacement!Cardinality(S) = Cardinality(S)
  BY Zenon DEF Replacement!Cardinality, Cardinality

-------------------------------------------------------------------------------
(* Days, and sets of numbered things *)

LEMMA DivIs ==
  ASSUME NEW a \in Nat, NEW D \in Nat \ {0}
  PROVE  a \div D \in Nat /\ D * (a \div D) <= a /\ a < D * (a \div D) + D
OBVIOUS

LEMMA TimesGrow ==
  ASSUME NEW x \in Nat, NEW y \in Nat, NEW D \in Nat, x + 1 <= y
  PROVE  D * x + D <= D * y
<1> DEFINE z == y - (x + 1)
<1>1. z \in Nat /\ y = x + 1 + z
  OBVIOUS
<1> HIDE DEF z
<1>2. D * y = D * x + D + D * z /\ D * z >= 0
  BY <1>1
<1>q. QED BY <1>2

LEMMA DivsGrow ==
  ASSUME NEW a \in Nat, NEW b \in Nat, a <= b, NEW D \in Nat \ {0}
  PROVE  a \div D <= b \div D
<1>1. CASE a \div D <= b \div D
  BY <1>1
<1>2. CASE ~(a \div D <= b \div D)
  <2> DEFINE x == a \div D
             y == b \div D
  <2>1. x \in Nat /\ y \in Nat /\ D * x <= a /\ b < D * y + D
    BY DivIs
  <2>2. D * y + D <= D * x
    <3>1. y + 1 <= x
      BY <1>2, <2>1
    <3> HIDE DEF x, y
    <3>q. QED BY <2>1, <3>1, TimesGrow
  <2>q. QED BY <2>1, <2>2
<1>q. QED BY <1>1, <1>2

\* Days are not run backwards.
LEMMA DaysGrow ==
  ASSUME NEW a \in Nat, NEW b \in Nat, a <= b
  PROVE  Replacement!Day(a) \in Nat /\ Replacement!Day(a) <= Replacement!Day(b)
BY DivIs, DivsGrow, ReplaceAssumption DEF Replacement!Day

\* Two or fewer.
LEMMA AtMostTwo ==
  ASSUME NEW S, \A x, y, z \in S : x = y \/ x = z \/ y = z
  PROVE  Cardinality(S) <= 2
<1>1. CASE S = {}
  BY <1>1, FS_EmptySet
<1>2. CASE S # {}
  <2>1. PICK x \in S : TRUE
    BY <1>2
  <2>2. CASE S = {x}
    <3>1. Cardinality(S) = 1
      BY <2>2, FS_Singleton
    <3>q. QED BY <3>1
  <2>3. CASE S # {x}
    <3>1. PICK y \in S : y # x
      BY <2>1, <2>3
    <3>2. S = {x} \cup {y}
      BY <2>1, <3>1
    <3>3. IsFiniteSet({x}) /\ Cardinality({x}) = 1
      BY FS_Singleton
    <3>4. Cardinality({x} \cup {y}) = 2
      BY <3>1, <3>3, FS_AddElement
    <3>q. QED BY <3>2, <3>4
  <2>q. QED BY <2>2, <2>3
<1>q. QED BY <1>1, <1>2

LEMMA AtMostOne ==
  ASSUME NEW S, \A x, y \in S : x = y
  PROVE  Cardinality(S) <= 1
<1>1. CASE S = {}
  BY <1>1, FS_EmptySet
<1>2. CASE S # {}
  <2>1. PICK x : S = {x}
    BY <1>2
  <2>q. QED BY <2>1, FS_Singleton
<1>q. QED BY <1>1, <1>2

LEMMA LargerOfTwo ==
  ASSUME NEW S \in SUBSET Int, S # {}, \A x, y, z \in S : x = y \/ x = z \/ y = z
  PROVE  \E o \in S : \A p \in S : p <= o
<1>1. PICK x : x \in S
  OBVIOUS
<1>2. CASE \A y \in S : y <= x
  BY <1>1, <1>2
<1>3. CASE ~(\A y \in S : y <= x)
  <2>1. PICK y \in S : ~(y <= x)
    BY <1>3
  <2>2. x \in Int /\ y \in Int /\ x # y
    BY <1>1, <2>1
  <2>3. \A p \in S : p = x \/ p = y
    BY <1>1, <2>1, <2>2
  <2>4. x <= y /\ y <= y
    BY <2>1, <2>2
  <2>q. QED BY <2>1, <2>3, <2>4
<1>q. QED BY <1>2, <1>3

-------------------------------------------------------------------------------
EntryOrders == [at : Nat, status : {"open", "canceling", "ended"}]
ReplaceJobs ==
  [pc : {"consider", "post", "end"}, row : Replacement!Rows, listed : SUBSET Nat, touched : BOOLEAN, age : Int]

ReplaceTyped ==
  /\ erNow \in 0..ErMaxNow
  /\ erOrders \in Seq(EntryOrders)
  /\ erFile \in Replacement!Rows
  /\ erRun = Replacement!Idle \/ erRun \in ReplaceJobs
  /\ erCancels \in Seq(Nat) /\ \A c \in 1..Len(erCancels) : erCancels[c] <= erNow
  /\ erLosses \in 0..ErMaxLost

Working == {o \in Replacement!Live : erOrders[o].status = "open"}

\* What was not listed is not live, until the POST; then nothing works, and one order
\* may still be on its way to an end.
LiveInv ==
  /\ \A o, p \in Working : o = p
  /\ \A o, p, q \in Replacement!Live : o = p \/ o = q \/ p = q
  /\ erRun.pc = "consider" => Replacement!Live \subseteq erRun.listed
      /\ erRun.listed \subseteq 1..Len(erOrders) /\ erRun.touched = FALSE
  /\ erRun.pc = "post" => Working = {} /\ \A o, p \in Replacement!Live : o = p
  /\ erRun # Replacement!Idle => erRun.listed \subseteq 1..Len(erOrders)

\* The row that counts: that of a run that has cancelled, else the file's.
OnDay(d) == {c \in 1..Len(erCancels) : Replacement!Day(erCancels[c]) = d}
Quick == {c \in 2..Len(erCancels) : erCancels[c] - erCancels[c-1] < ErCooldown}

\* Up to n losses, a row counts the cancels of the day and remembers the last one.
Today == {c \in 1..Len(erCancels) : Replacement!Day(erCancels[c]) = Replacement!Day(erNow)}
Counts(kept, n) == Cardinality(Today) <= Replacement!CountToday(kept) + n
Remembers(kept) ==
  Len(erCancels) = 0 \/ Cardinality(Quick) < erLosses
      \/ (kept.last # Replacement!Never /\ kept.last >= erCancels[Len(erCancels)])

ChurnInv ==
  /\ \A d \in Nat : Cardinality(OnDay(d)) <= ErCap + erLosses
  /\ Cardinality(Quick) <= erLosses
  /\ erRun = Replacement!Idle => Counts(erFile, erLosses) /\ Remembers(erFile)
  /\ erRun # Replacement!Idle => Counts(erRun.row, erLosses) /\ Remembers(erRun.row)
      /\ Counts(erFile, erLosses + 1)
  /\ erRun # Replacement!Idle => erRun.touched = TRUE \/ erRun.row = erFile

ReplaceInv == ReplaceTyped /\ LiveInv /\ ChurnInv

LEMMA IdleIs ==
  Replacement!Idle \notin ReplaceJobs /\ Replacement!Idle.pc = "idle" /\ \A j \in ReplaceJobs : j.pc # "idle"
      /\ j # Replacement!Idle
<1>1. Replacement!Idle.pc = "idle"
  BY DEF Replacement!Idle
<1>2. \A j \in ReplaceJobs : j.pc # "idle"
  BY DEF ReplaceJobs
<1>q. QED BY <1>1, <1>2

\* The counted sets are finite.
LEMMA Finite ==
  ASSUME ReplaceTyped
  PROVE  /\ \A d : IsFiniteSet(OnDay(d)) /\ Cardinality(OnDay(d)) \in Nat
         /\ IsFiniteSet(Quick) /\ Cardinality(Quick) \in Nat
<1>1. Len(erCancels) \in Nat /\ IsFiniteSet(1..Len(erCancels)) /\ IsFiniteSet(2..Len(erCancels))
  BY FS_Interval DEF ReplaceTyped
<1>2. \A d : OnDay(d) \subseteq 1..Len(erCancels)
  BY DEF OnDay
<1>3. Quick \subseteq 2..Len(erCancels)
  BY DEF Quick
<1>q. QED BY <1>1, <1>2, <1>3, FS_Subset, FS_CardinalityType

\* One more cancel, now.
LEMMA OneMore ==
  ASSUME ReplaceTyped, erCancels' = Append(erCancels, erNow), erNow' = erNow
  PROVE  /\ Cardinality(Today') = Cardinality(Today) + 1
         /\ \A d \in Nat : Cardinality(OnDay(d)') = Cardinality(OnDay(d)) + (IF d = Replacement!Day(erNow) THEN 1 ELSE 0)
         /\ Cardinality(Quick') <= Cardinality(Quick) + 1
         /\ (Len(erCancels) # 0 => erNow - erCancels[Len(erCancels)] >= ErCooldown)
             => Cardinality(Quick') = Cardinality(Quick)
         /\ Len(erCancels') # 0 /\ erCancels'[Len(erCancels')] = erNow
         /\ erCancels' \in Seq(Nat) /\ \A c \in 1..Len(erCancels') : erCancels'[c] <= erNow
<1> DEFINE n == Len(erCancels)
<1>0. n \in Nat /\ erNow \in Nat /\ erCancels \in Seq(Nat) /\ ErCooldown \in Nat
  BY ReplaceAssumption DEF ReplaceTyped
<1>1. /\ Len(erCancels') = n + 1 /\ erCancels'[n + 1] = erNow /\ \A c \in 1..n : erCancels'[c] = erCancels[c]
      /\ erCancels' \in Seq(Nat)
  BY <1>0
<1>2. ASSUME NEW d \in Nat
      PROVE Cardinality(OnDay(d)') = Cardinality(OnDay(d)) + (IF d = Replacement!Day(erNow) THEN 1 ELSE 0)
  <2>1. 1..(n + 1) = 1..n \cup {n + 1} /\ n + 1 \notin OnDay(d)
    BY <1>0 DEF OnDay
  <2>2. IsFiniteSet(OnDay(d)) /\ Cardinality(OnDay(d)) \in Nat
    BY Finite
  <2>3. OnDay(d)' = IF d = Replacement!Day(erNow) THEN OnDay(d) \cup {n + 1} ELSE OnDay(d)
    BY <1>1, <2>1 DEF OnDay, Replacement!Day
  <2>4. CASE d = Replacement!Day(erNow)
    <3>1. Cardinality(OnDay(d) \cup {n + 1}) = Cardinality(OnDay(d)) + 1
      BY <2>1, <2>2, FS_AddElement
    <3>q. QED BY <2>3, <2>4, <3>1
  <2>5. CASE d # Replacement!Day(erNow)
    <3>1. Cardinality(OnDay(d)') = Cardinality(OnDay(d))
      BY <2>3, <2>5
    <3>q. QED BY <2>2, <2>5, <3>1
  <2>q. QED BY <2>4, <2>5
<1>3. (n = 0 => 2..(n + 1) = {}) /\ (n # 0 => 2..(n + 1) = 2..n \cup {n + 1})
  BY <1>0
<1>4. n + 1 \notin Quick /\ IsFiniteSet(Quick) /\ Cardinality(Quick) \in Nat
  BY <1>0, Finite DEF Quick
<1>5. \A c \in 2..n : erCancels'[c] = erCancels[c] /\ erCancels'[c - 1] = erCancels[c - 1]
  BY <1>0, <1>1
<1>6. n # 0 => erCancels'[(n + 1) - 1] = erCancels[n]
  BY <1>0, <1>1
<1>7. Quick' = Quick \/ (Quick' = Quick \cup {n + 1} /\ n # 0 /\ erNow - erCancels[n] < ErCooldown)
  <2>1. CASE n = 0
    BY <1>1, <1>3, <2>1 DEF Quick
  <2>2. CASE n # 0
    <3>1. Quick' = {c \in 2..n : erCancels'[c] - erCancels'[c-1] < ErCooldown}
                     \cup {c \in {n + 1} : erCancels'[c] - erCancels'[c-1] < ErCooldown}
      BY <1>1, <1>3, <2>2 DEF Quick
    <3>2. {c \in 2..n : erCancels'[c] - erCancels'[c-1] < ErCooldown} = Quick
      BY <1>5 DEF Quick
    <3>3. {c \in {n + 1} : erCancels'[c] - erCancels'[c-1] < ErCooldown} = IF erNow - erCancels[n] < ErCooldown
            THEN {n + 1} ELSE {}
      BY <1>1, <1>6, <2>2
    <3>q. QED BY <2>2, <3>1, <3>2, <3>3
  <2>q. QED BY <2>1, <2>2
<1>8. Cardinality(Quick \cup {n + 1}) = Cardinality(Quick) + 1
  BY <1>4, FS_AddElement
<1>9. /\ Cardinality(Quick') <= Cardinality(Quick) + 1
      /\ (n # 0 => erNow - erCancels[n] >= ErCooldown) => Cardinality(Quick') = Cardinality(Quick)
  <2>1. n # 0 => erCancels[n] \in Nat
    BY <1>0
  <2>2. CASE Quick' = Quick
    BY <1>4, <2>2
  <2>3. CASE Quick' = Quick \cup {n + 1} /\ n # 0 /\ erNow - erCancels[n] < ErCooldown
    <3>1. Cardinality(Quick') = Cardinality(Quick) + 1
      BY <1>8, <2>3
    <3>2. ~(erNow - erCancels[n] >= ErCooldown)
      BY <1>0, <2>1, <2>3
    <3>q. QED BY <1>4, <2>3, <3>1, <3>2
  <2>q. QED BY <1>7, <2>2, <2>3
<1>10. \A c \in 1..Len(erCancels') : erCancels'[c] <= erNow
  BY <1>0, <1>1 DEF ReplaceTyped
<1>11. Cardinality(Today') = Cardinality(Today) + 1
  <2>1. 1..(n + 1) = 1..n \cup {n + 1} /\ n + 1 \notin Today
    BY <1>0 DEF Today
  <2>2. IsFiniteSet(Today)
    BY Finite DEF Today, OnDay
  <2>3. Today' = Today \cup {n + 1}
    BY <1>1, <2>1 DEF Today, Replacement!Day
  <2>q. QED BY <2>1, <2>2, <2>3, FS_AddElement
<1>q. QED BY <1>0, <1>1, <1>2, <1>9, <1>10, <1>11

LEMMA ReplaceInit == Replacement!Init => ReplaceInv
<1> SUFFICES ASSUME Replacement!Init PROVE ReplaceInv
  OBVIOUS
<1>1. Len(erOrders) = 0 /\ Len(erCancels) = 0 /\ Replacement!Live = {} /\ Working = {}
        /\ erRun = Replacement!Idle /\ erNow = 0 /\ erLosses = 0
  BY DEF Replacement!Init, Replacement!Live, Working
<1>2. ReplaceTyped
  <2>1. erFile \in Replacement!Rows
    BY ReplaceAssumption DEF Replacement!Init, Replacement!NoFile, Replacement!Rows
  <2>q. QED BY <2>1, ReplaceAssumption DEF Replacement!Init, ReplaceTyped
<1>3. LiveInv
  BY <1>1, IdleIs DEF LiveInv
<1>4. \A d \in Nat : OnDay(d) = {}
  BY <1>1 DEF OnDay
<1>5. Quick = {}
  BY <1>1 DEF Quick
<1>6. 0 \div ErDayLength \in Nat
  BY DivIs, ReplaceAssumption
<1>7. ChurnInv
  <2>1. Cardinality({}) = 0 /\ ErCap \in Nat /\ Replacement!Day(erNow) \in Nat
    BY <1>1, <1>6, FS_EmptySet, ReplaceAssumption DEF Replacement!Day
  <2>2. Replacement!CountToday(erFile) = 0
    BY <2>1 DEF Replacement!Init, Replacement!NoFile, Replacement!CountToday
  <2>3. Cardinality(Today) = 0 /\ Cardinality(Quick) = 0
    BY <1>4, <1>5, <2>1 DEF Today, OnDay
  <2>4. Counts(erFile, erLosses) /\ Remembers(erFile)
    BY <1>1, <2>2, <2>3 DEF Counts, Remembers
  <2>5. ASSUME NEW d \in Nat PROVE Cardinality(OnDay(d)) <= ErCap + erLosses
    <3>1. Cardinality(OnDay(d)) = 0
      BY <1>4, <2>1
    <3>q. QED BY <1>1, <2>1, <3>1
  <2>6. Cardinality(Quick) <= erLosses
    BY <1>1, <2>3
  <2>q. QED BY <1>1, <2>4, <2>5, <2>6, Zenon DEF ChurnInv
<1>q. QED BY <1>2, <1>3, <1>7 DEF ReplaceInv

\* A row that counts one cancel more stays within the cap.
LEMMA ReplaceRecordedIs ==
  ASSUME ReplaceTyped, NEW kept \in Replacement!Rows, ~Replacement!Throttled(kept)
  PROVE  /\ Replacement!Recorded(kept) \in Replacement!Rows /\ Replacement!Recorded(kept).last = erNow
            /\ Replacement!Recorded(kept).day = Replacement!Day(erNow)
         /\ Replacement!Recorded(kept).count = Replacement!CountToday(kept) + 1
             /\ Replacement!CountToday(kept) \in Nat /\ Replacement!CountToday(kept) < ErCap
         /\ Replacement!CountToday(Replacement!Recorded(kept)) = Replacement!CountToday(kept) + 1
         /\ ErCooldown > 0 /\ kept.last # Replacement!Never => erNow - kept.last >= ErCooldown
<1>0. erNow \in Nat /\ ErCap \in Nat /\ ErCooldown \in Nat /\ ErDayLength \in Nat \ {0}
  BY ReplaceAssumption DEF ReplaceTyped
<1>1. erNow \in Nat /\ Replacement!Day(erNow) \in Nat /\ ErCap \in Nat /\ ErCooldown \in Nat
  BY <1>0, DivIs DEF Replacement!Day
<1>2. Replacement!CountToday(kept) \in Nat /\ Replacement!CountToday(kept) < ErCap
  BY <1>1 DEF Replacement!CountToday, Replacement!Rows, Replacement!Throttled
<1>3. Replacement!Recorded(kept) = [last |-> erNow, day |-> Replacement!Day(erNow), count |-> Replacement!CountToday(kept) + 1]
  BY DEF Replacement!Recorded
<1>4. Replacement!Recorded(kept) \in Replacement!Rows
  BY <1>1, <1>2, <1>3 DEF Replacement!Rows
<1>5. Replacement!CountToday(Replacement!Recorded(kept)) = Replacement!CountToday(kept) + 1
  BY <1>3 DEF Replacement!CountToday
<1>6. ErCooldown > 0 /\ kept.last # Replacement!Never => erNow - kept.last >= ErCooldown
  BY <1>1 DEF Replacement!Throttled, Replacement!Rows, Replacement!Never
<1>q. QED BY <1>2, <1>3, <1>4, <1>5, <1>6

\* The jobs: what the step does to the run.
LEMMA JobIs ==
  ASSUME ReplaceTyped, erRun # Replacement!Idle
  PROVE  /\ erRun \in ReplaceJobs
         /\ \A place \in {"post", "end"} : LET j == [erRun EXCEPT !.pc = place] IN
              j \in ReplaceJobs /\ j.pc = place /\ j.row = erRun.row /\ j.listed = erRun.listed
                  /\ j.touched = erRun.touched
<1>1. erRun \in ReplaceJobs
  BY DEF ReplaceTyped
<1>q. QED BY <1>1 DEF ReplaceJobs

LEMMA AtPc ==
  ASSUME ReplaceTyped,
         erRun.pc \in {"consider", "post", "end"} PROVE erRun # Replacement!Idle /\ erRun \in ReplaceJobs
BY IdleIs DEF ReplaceTyped

\* One listed order is the newest one.
LEMMA NewestIs ==
  ASSUME ReplaceInv, erRun.pc = "consider", Replacement!MayReplace
  PROVE  /\ Replacement!Newest(erRun.listed) \in 1..Len(erOrders)
            /\ erRun.listed = {Replacement!Newest(erRun.listed)}
         /\ ~Replacement!Throttled(erRun.row) /\ erRun.row \in Replacement!Rows /\ erRun.row = erFile
             /\ erRun.touched = FALSE
<1>1. erRun \in ReplaceJobs /\ erRun # Replacement!Idle /\ erRun.listed \subseteq 1..Len(erOrders)
        /\ Len(erOrders) \in Nat /\ erRun.touched = FALSE
  BY AtPc DEF ReplaceInv, LiveInv, ReplaceTyped
<1>2. IsFiniteSet(erRun.listed)
  <2>1. IsFiniteSet(1..Len(erOrders))
    BY <1>1, FS_Interval
  <2>q. QED BY <1>1, <2>1, FS_Subset
<1>3. PICK x : erRun.listed = {x}
  BY <1>2, FS_Singleton, ReplaceCounts DEF Replacement!MayReplace
<1>4. x \in Nat /\ x \in 1..Len(erOrders)
  BY <1>1, <1>3
<1>5. Replacement!Newest(erRun.listed) = x
  <2>1. Replacement!Newest(erRun.listed) = CHOOSE o \in {x} : \A p \in {x} : p <= o
    BY <1>3 DEF Replacement!Newest
  <2>2. x <= x
    BY <1>4
  <2>q. QED BY <2>1, <2>2
<1>6. erRun.row \in Replacement!Rows /\ erRun.row = erFile
  BY <1>1 DEF ReplaceInv, ChurnInv, ReplaceJobs
<1>q. QED BY <1>1, <1>3, <1>4, <1>5, <1>6 DEF Replacement!MayReplace

\* Types, by kind of step.
LEMMA ReplaceTypes == ReplaceInv /\ [Replacement!Next]_(Replacement!vars) => ReplaceTyped'
<1> SUFFICES ASSUME ReplaceInv, [Replacement!Next]_(Replacement!vars) PROVE ReplaceTyped'
  OBVIOUS
<1>0. /\ ReplaceTyped /\ erNow \in Nat /\ ErMaxNow \in Nat /\ erLosses \in Nat /\ ErMaxLost \in Nat
      /\ erOrders \in Seq(EntryOrders) /\ Len(erOrders) \in Nat /\ erCancels \in Seq(Nat)
          /\ Len(erCancels) \in Nat
  BY ReplaceAssumption DEF ReplaceInv, ReplaceTyped
<1>1. CASE Replacement!Tick
  BY <1>0, <1>1 DEF Replacement!Tick, ReplaceTyped
<1>2. CASE Replacement!Load
  <2>1. Replacement!Live \subseteq Nat
    BY <1>0 DEF Replacement!Live
  <2>2. (IF Replacement!Live = {} THEN 0 ELSE erNow - erOrders[Replacement!Newest(Replacement!Live)].at) \in Int
    <3>1. CASE Replacement!Live # {}
      <4>1. ASSUME NEW o \in 1..Len(erOrders) PROVE erOrders[o].at \in Nat
        <5>1. erOrders[o] \in EntryOrders
          BY <1>0
        <5>q. QED BY <5>1 DEF EntryOrders
      <4>2. \E o \in Replacement!Live : \A p \in Replacement!Live : p <= o
        <5>1. Replacement!Live \in SUBSET Int /\ \A x, y, z \in Replacement!Live : x = y \/ x = z \/ y = z
          BY <1>0 DEF Replacement!Live, ReplaceInv, LiveInv
        <5>q. QED BY <3>1, <5>1, LargerOfTwo
      <4>3. Replacement!Newest(Replacement!Live) \in Replacement!Live
        BY <4>2 DEF Replacement!Newest
      <4>q. QED BY <1>0, <4>1, <4>3 DEF Replacement!Live
    <3>q. QED BY <3>1
  <2>3. erFile \in Replacement!Rows
    BY <1>0 DEF ReplaceTyped
  <2>4. erRun' \in ReplaceJobs
    BY <1>2, <2>1, <2>2, <2>3 DEF Replacement!Load, ReplaceJobs
  <2>q. QED BY <1>0, <1>2, <2>4 DEF Replacement!Load, ReplaceTyped
<1>3. CASE Replacement!NoneOpen \/ Replacement!HoldWait \/ Replacement!CancelFails \/ Replacement!PostRefused
  <2>1. erRun.pc \in {"consider", "post", "end"}
          /\ \E place \in {"post", "end"} : erRun' = [erRun EXCEPT !.pc = place]
    BY <1>3 DEF Replacement!NoneOpen, Replacement!HoldWait, Replacement!CancelFails, Replacement!PostRefused
  <2>2. erRun' \in ReplaceJobs
    BY <1>0, <2>1, AtPc, JobIs
  <2>q. QED BY <1>0, <1>3, <2>2 DEF Replacement!NoneOpen, Replacement!HoldWait, Replacement!CancelFails,
               Replacement!PostRefused, ReplaceTyped
<1>4. CASE Replacement!CancelStale \/ Replacement!CancelAnswerLost
  <2> DEFINE o == Replacement!Newest(erRun.listed)
  <2>1. erRun.pc = "consider" /\ Replacement!MayReplace
          /\ erOrders' = [erOrders EXCEPT ![o].status = "canceling"]
        /\ erCancels' = Append(erCancels, erNow) /\ UNCHANGED <<erNow, erFile>>
    BY <1>4 DEF Replacement!CancelStale, Replacement!CancelAnswerLost
  <2>2. o \in 1..Len(erOrders) /\ ~Replacement!Throttled(erRun.row) /\ erRun.row \in Replacement!Rows
          /\ erRun \in ReplaceJobs /\ erRun # Replacement!Idle
    BY <1>0, <2>1, NewestIs, AtPc
  <2>3. erOrders' \in Seq(EntryOrders)
    <3> DEFINE x == [erOrders[o] EXCEPT !.status = "canceling"]
    <3>0. erOrders[o] \in EntryOrders
      BY <1>0, <2>2
    <3>1. x \in EntryOrders
      BY <3>0 DEF EntryOrders
    <3>2. erOrders' = [erOrders EXCEPT ![o] = x]
      BY <2>1
    <3> HIDE DEF x, o
    <3>q. QED BY <1>0, <2>2, <3>1, <3>2
  <2>4. erCancels' \in Seq(Nat) /\ \A c \in 1..Len(erCancels') : erCancels'[c] <= erNow
    BY <1>0, <2>1, OneMore
  <2>5. erRun' \in ReplaceJobs
    <3>1. CASE Replacement!CancelStale
      <4>1. Replacement!Recorded(erRun.row) \in Replacement!Rows
        BY <1>0, <2>2, ReplaceRecordedIs
      <4>2. erRun' = [erRun EXCEPT !.pc = "post", !.row = Replacement!Recorded(erRun.row), !.touched = TRUE]
        BY <3>1 DEF Replacement!CancelStale
      <4>q. QED BY <2>2, <4>1, <4>2 DEF ReplaceJobs
    <3>2. CASE Replacement!CancelAnswerLost
      <4>1. erRun' = [erRun EXCEPT !.pc = "end"]
        BY <3>2 DEF Replacement!CancelAnswerLost
      <4>q. QED BY <1>0, <2>2, <4>1, JobIs
    <3>q. QED BY <1>4, <3>1, <3>2
  <2>6. erLosses' \in 0..ErMaxLost
    <3>1. erLosses' = erLosses \/ (erLosses' = erLosses + 1 /\ erLosses < ErMaxLost)
      BY <1>4 DEF Replacement!CancelStale, Replacement!CancelAnswerLost
    <3>q. QED BY <1>0, <3>1 DEF ReplaceTyped
  <2> HIDE DEF o
  <2>q. QED BY <1>0, <2>1, <2>3, <2>4, <2>5, <2>6 DEF ReplaceTyped
<1>5. CASE Replacement!Post
  <2>1. erRun' \in ReplaceJobs
    <3>1. erRun.pc = "post" /\ erRun' = [erRun EXCEPT !.pc = "end"]
      BY <1>5 DEF Replacement!Post
    <3>q. QED BY <1>0, <3>1, AtPc, JobIs
  <2>2. [at |-> erNow, status |-> "open"] \in EntryOrders
    BY <1>0 DEF EntryOrders
  <2>3. erOrders' \in Seq(EntryOrders)
    BY <1>0, <1>5, <2>2 DEF Replacement!Post
  <2>q. QED BY <1>0, <1>5, <2>1, <2>3 DEF Replacement!Post, ReplaceTyped
<1>6. CASE Replacement!Save \/ Replacement!DieUnsaved
  <2>1. erRun.pc \in {"post", "end"} /\ erRun' = Replacement!Idle /\ UNCHANGED <<erNow, erOrders, erCancels>>
    BY <1>6 DEF Replacement!Save, Replacement!DieUnsaved
  <2>2. erRun \in ReplaceJobs
    BY <1>0, <2>1, AtPc
  <2>3. erRun.row \in Replacement!Rows /\ erFile \in Replacement!Rows
    BY <1>0, <2>2 DEF ReplaceJobs, ReplaceTyped
  <2>4. erFile' \in Replacement!Rows
    BY <1>6, <2>3 DEF Replacement!Save, Replacement!DieUnsaved
  <2>5. erLosses' \in 0..ErMaxLost
    <3>1. erLosses' = erLosses \/ (erLosses' = erLosses + 1 /\ erLosses < ErMaxLost)
      BY <1>6 DEF Replacement!Save, Replacement!DieUnsaved
    <3>q. QED BY <1>0, <3>1 DEF ReplaceTyped
  <2>q. QED BY <1>0, <2>1, <2>4, <2>5 DEF ReplaceTyped
<1>7. CASE Replacement!OrderEnds
  <2>1. PICK o \in Replacement!Live : erOrders' = [erOrders EXCEPT ![o] = Replacement!Ended]
          /\ UNCHANGED <<erNow, erFile, erRun, erCancels, erLosses>>
    BY <1>7 DEF Replacement!OrderEnds
  <2>2. Replacement!Ended \in EntryOrders
    BY DEF Replacement!Ended, EntryOrders
  <2>3. o \in 1..Len(erOrders)
    BY DEF Replacement!Live
  <2>4. erOrders' \in Seq(EntryOrders)
    BY <1>0, <2>1, <2>2, <2>3
  <2>q. QED BY <1>0, <2>1, <2>4 DEF ReplaceTyped
<1>8. CASE UNCHANGED Replacement!vars
  BY <1>0, <1>8 DEF Replacement!vars, ReplaceTyped
<1>q. QED BY <1>1, <1>2, <1>3, <1>4, <1>5, <1>6, <1>7, <1>8 DEF Replacement!Next

\* What is live shrinks when no order is posted.
LEMMA Shrinks ==
  ASSUME LiveInv, Replacement!Live' \subseteq Replacement!Live, Working' \subseteq Working,
         erRun' = Replacement!Idle \/ erRun'.pc = "end",
         erRun' # Replacement!Idle => erRun'.listed \subseteq 1..Len(erOrders')
  PROVE  LiveInv'
BY IdleIs DEF LiveInv

LEMMA LiveStep == ReplaceInv /\ [Replacement!Next]_(Replacement!vars) => LiveInv'
<1> SUFFICES ASSUME ReplaceInv, [Replacement!Next]_(Replacement!vars) PROVE LiveInv'
  OBVIOUS
<1>0. /\ ReplaceTyped /\ LiveInv /\ erOrders \in Seq(EntryOrders) /\ Len(erOrders) \in Nat
  BY DEF ReplaceInv, ReplaceTyped
<1>1. CASE Replacement!Tick \/ UNCHANGED Replacement!vars
  BY <1>0, <1>1 DEF Replacement!Tick, Replacement!vars, LiveInv, Replacement!Live, Working
<1>2. CASE Replacement!Load
  <2>1. erRun'.pc = "consider" /\ erRun'.listed = Replacement!Live /\ erRun'.touched = FALSE
          /\ erOrders' = erOrders
    BY <1>2 DEF Replacement!Load
  <2>2. Replacement!Live' = Replacement!Live /\ Working' = Working
          /\ Replacement!Live \subseteq 1..Len(erOrders')
    BY <2>1 DEF Replacement!Live, Working
  <2>3. erRun'.pc # "post"
    BY <2>1
  <2>4. (\A o, p \in Working : o = p) /\ (\A o, p, q \in Replacement!Live : o = p \/ o = q \/ p = q)
    BY <1>0 DEF LiveInv
  <2>5. (\A o, p \in Working' : o = p) /\ (\A o, p, q \in Replacement!Live' : o = p \/ o = q \/ p = q)
    BY <2>2, <2>4
  <2>6. Replacement!Live' \subseteq erRun'.listed /\ erRun'.listed \subseteq 1..Len(erOrders')
    BY <2>1, <2>2
  <2>7. erRun'.pc = "post" => Working' = {} /\ \A o, p \in Replacement!Live' : o = p
    BY <2>3
  <2>q. QED BY <2>1, <2>5, <2>6, <2>7, Zenon DEF LiveInv
<1>3. CASE Replacement!NoneOpen
  <2>1. erRun.pc = "consider" /\ erRun.listed = {} /\ erRun' = [erRun EXCEPT !.pc = "post"]
          /\ erOrders' = erOrders
    BY <1>3 DEF Replacement!NoneOpen
  <2>2. erRun'.pc = "post" /\ erRun'.listed = erRun.listed
    BY <1>0, <2>1, AtPc, JobIs
  <2>3. Replacement!Live = {} /\ Replacement!Live' = Replacement!Live /\ Working' = {}
    BY <1>0, <2>1 DEF LiveInv, Replacement!Live, Working
  <2>q. QED BY <2>1, <2>2, <2>3 DEF LiveInv
<1>4. CASE Replacement!HoldWait \/ Replacement!CancelFails \/ Replacement!PostRefused
  <2>1. erRun.pc \in {"consider", "post", "end"} /\ erRun' = [erRun EXCEPT !.pc = "end"] /\ erOrders' = erOrders
    BY <1>4 DEF Replacement!HoldWait, Replacement!CancelFails, Replacement!PostRefused
  <2>2. erRun # Replacement!Idle /\ erRun'.pc = "end" /\ erRun'.listed = erRun.listed
    BY <1>0, <2>1, AtPc, JobIs
  <2>3. Replacement!Live' = Replacement!Live /\ Working' = Working /\ erRun.listed \subseteq 1..Len(erOrders)
    BY <1>0, <2>1, <2>2 DEF Replacement!Live, Working, LiveInv
  <2>q. QED BY <1>0, <2>1, <2>2, <2>3, Shrinks
<1>5. CASE Replacement!CancelStale \/ Replacement!CancelAnswerLost
  <2> DEFINE o == Replacement!Newest(erRun.listed)
  <2>1. erRun.pc = "consider" /\ Replacement!MayReplace
          /\ erOrders' = [erOrders EXCEPT ![o].status = "canceling"] /\ ~Replacement!HasEnded(o)
    BY <1>5 DEF Replacement!CancelStale, Replacement!CancelAnswerLost
  <2>2. o \in 1..Len(erOrders) /\ erRun.listed = {o} /\ erRun \in ReplaceJobs
    BY <1>0, <2>1, NewestIs, AtPc
  <2> HIDE DEF o
  <2>3. Replacement!Live \subseteq {o}
    BY <1>0, <2>1, <2>2 DEF LiveInv
  <2>4. Len(erOrders') = Len(erOrders) /\ erOrders'[o].status = "canceling"
          /\ \A p \in 1..Len(erOrders) \ {o} : erOrders'[p] = erOrders[p]
    <3>1. erOrders[o] \in EntryOrders
      BY <1>0, <2>2
    <3>q. QED BY <1>0, <2>1, <2>2, <3>1 DEF EntryOrders
  <2>5. Replacement!Live' \subseteq {o} /\ Working' = {}
    BY <1>0, <2>3, <2>4 DEF Replacement!Live, Working
  <2>6. erRun'.pc \in {"post", "end"} /\ erRun'.listed = erRun.listed /\ erRun'.pc # "consider"
    <3>1. CASE Replacement!CancelStale
      <4>1. erRun' = [erRun EXCEPT !.pc = "post", !.row = Replacement!Recorded(erRun.row), !.touched = TRUE]
        BY <3>1 DEF Replacement!CancelStale
      <4>q. QED BY <2>2, <4>1 DEF ReplaceJobs
    <3>2. CASE Replacement!CancelAnswerLost
      <4>1. erRun' = [erRun EXCEPT !.pc = "end"]
        BY <3>2 DEF Replacement!CancelAnswerLost
      <4>q. QED BY <2>2, <4>1 DEF ReplaceJobs
    <3>q. QED BY <1>5, <3>1, <3>2
  <2>q. QED BY <2>2, <2>4, <2>5, <2>6 DEF LiveInv
<1>6. CASE Replacement!Post
  <2> DEFINE n == Len(erOrders)
  <2>1. erRun.pc = "post" /\ erRun' = [erRun EXCEPT !.pc = "end"]
          /\ erOrders' = Append(erOrders, [at |-> erNow, status |-> "open"])
    BY <1>6 DEF Replacement!Post
  <2>2. erRun # Replacement!Idle /\ erRun'.pc = "end" /\ erRun'.listed = erRun.listed
    BY <1>0, <2>1, AtPc, JobIs
  <2>3. Len(erOrders') = n + 1 /\ \A p \in 1..n : erOrders'[p] = erOrders[p]
    BY <1>0, <2>1
  <2>4. 1..(n + 1) = 1..n \cup {n + 1}
    BY <1>0
  <2>5. Replacement!Live' \subseteq Replacement!Live \cup {n + 1} /\ Working' \subseteq Working \cup {n + 1}
    BY <2>3, <2>4 DEF Replacement!Live, Working
  <2>6. Working = {} /\ (\A x, y \in Replacement!Live : x = y) /\ erRun.listed \subseteq 1..n
    BY <1>0, <2>1, <2>2 DEF LiveInv
  <2> HIDE DEF n
  <2>7. /\ \A x, y \in Working' : x = y
        /\ \A x, y, z \in Replacement!Live' : x = y \/ x = z \/ y = z
    BY <2>5, <2>6
  <2>8. erRun'.listed \subseteq 1..Len(erOrders')
    BY <2>2, <2>3, <2>4, <2>6
  <2>q. QED BY <2>2, <2>7, <2>8 DEF LiveInv
<1>7. CASE Replacement!Save \/ Replacement!DieUnsaved
  <2>1. erRun' = Replacement!Idle /\ erOrders' = erOrders
    BY <1>7 DEF Replacement!Save, Replacement!DieUnsaved
  <2>2. Replacement!Live' = Replacement!Live /\ Working' = Working
    BY <2>1 DEF Replacement!Live, Working
  <2>q. QED BY <1>0, <2>1, <2>2, Shrinks
<1>8. CASE Replacement!OrderEnds
  <2>1. PICK o \in Replacement!Live : erOrders' = [erOrders EXCEPT ![o] = Replacement!Ended] /\ erRun' = erRun
    BY <1>8 DEF Replacement!OrderEnds
  <2>2. o \in 1..Len(erOrders) /\ Replacement!Ended.status = "ended"
    BY DEF Replacement!Live, Replacement!Ended
  <2>3. Len(erOrders') = Len(erOrders) /\ erOrders'[o].status = "ended"
          /\ \A p \in 1..Len(erOrders) \ {o} : erOrders'[p] = erOrders[p]
    BY <1>0, <2>1, <2>2
  <2>4. Replacement!Live' \subseteq Replacement!Live /\ Working' \subseteq Working
    BY <2>3 DEF Replacement!Live, Working
  <2>q. QED BY <1>0, <2>1, <2>3, <2>4 DEF LiveInv
<1>q. QED BY <1>1, <1>2, <1>3, <1>4, <1>5, <1>6, <1>7, <1>8 DEF Replacement!Next

\* A new day begins with no cancel, and the counts of the old one are not asked for.
LEMMA TickStep == ReplaceInv /\ Replacement!Tick => ChurnInv'
<1> SUFFICES ASSUME ReplaceInv, Replacement!Tick PROVE ChurnInv'
  OBVIOUS
<1>0. /\ ReplaceTyped /\ ChurnInv /\ erNow' = erNow + 1 /\ UNCHANGED <<erOrders, erFile, erRun, erCancels,
         erLosses>>
      /\ erNow \in Nat /\ erLosses \in Nat /\ Len(erCancels) \in Nat /\ erCancels \in Seq(Nat)
  BY DEF ReplaceInv, ReplaceTyped, Replacement!Tick
<1>1. Replacement!Day(erNow) \in Nat /\ Replacement!Day(erNow') \in Nat
  BY <1>0, DaysGrow
<1>2. Cardinality(Today) \in Nat
  <2>1. Today = OnDay(Replacement!Day(erNow))
    BY DEF Today, OnDay
  <2>q. QED BY <1>0, <2>1, Finite
<1>3. CASE Replacement!Day(erNow') = Replacement!Day(erNow)
  <2>1. Today' = Today
    BY <1>0, <1>3 DEF Today, Replacement!Day
  <2>2. \A r \in Replacement!Rows : Replacement!CountToday(r)' = Replacement!CountToday(r)
    BY <1>3 DEF Replacement!CountToday
  <2>3. (\A d \in Nat : OnDay(d)' = OnDay(d)) /\ Quick' = Quick
    BY <1>0 DEF OnDay, Quick, Replacement!Day
  <2>4. \A r \in Replacement!Rows,
          n \in Nat : Cardinality(Today) <= Replacement!CountToday(r) + n
              => Cardinality(Today') <= Replacement!CountToday(r)' + n
    BY <2>1, <2>2
  <2>q. QED BY <1>0, <1>3, <2>1, <2>3 DEF ChurnInv, Counts, Remembers, Replacement!CountToday
<1>4. CASE Replacement!Day(erNow') # Replacement!Day(erNow)
  <2>1. \A c \in 1..Len(erCancels) : Replacement!Day(erCancels[c]) # Replacement!Day(erNow')
    <3> SUFFICES ASSUME NEW c \in 1..Len(erCancels)
        PROVE Replacement!Day(erCancels[c]) # Replacement!Day(erNow')
      OBVIOUS
    <3>1. erCancels[c] \in Nat /\ erCancels[c] <= erNow
      BY <1>0 DEF ReplaceTyped
    <3>2. Replacement!Day(erCancels[c]) <= Replacement!Day(erNow) /\ Replacement!Day(erCancels[c]) \in Nat
      BY <1>0, <3>1, DaysGrow
    <3>3. Replacement!Day(erNow) < Replacement!Day(erNow')
      <4>1. erNow' \in Nat /\ erNow <= erNow'
        BY <1>0
      <4>2. Replacement!Day(erNow) <= Replacement!Day(erNow')
        BY <1>0, <4>1, DaysGrow
      <4>q. QED BY <1>1, <1>4, <4>2
    <3>q. QED BY <1>1, <3>2, <3>3
  <2>2. Today' = {}
    BY <1>0, <2>1 DEF Today, Replacement!Day
  <2>3. Cardinality(Today') = 0
    BY <2>2, FS_EmptySet
  <2>4. (\A d \in Nat : OnDay(d)' = OnDay(d)) /\ Quick' = Quick
    BY <1>0 DEF OnDay, Quick, Replacement!Day
  <2>5. erFile.count \in Nat /\ (erRun # Replacement!Idle => erRun.row.count \in Nat)
    BY <1>0 DEF ReplaceTyped, Replacement!Rows, ReplaceJobs
  <2>6. Counts(erFile, erLosses)' /\ Counts(erFile, erLosses + 1)'
          /\ (erRun # Replacement!Idle => Counts(erRun.row, erLosses)')
    BY <1>0, <2>3, <2>5 DEF Counts, Replacement!CountToday
  <2>7. Remembers(erFile)' = Remembers(erFile) /\ Remembers(erRun.row)' = Remembers(erRun.row)
    BY <1>0, <2>4 DEF Remembers
  <2>q. QED BY <1>0, <2>4, <2>6, <2>7 DEF ChurnInv
<1>q. QED BY <1>3, <1>4

\* Steps that leave the cancels, the clock and the losses.
LEMMA Steady ==
  ASSUME ReplaceInv, UNCHANGED <<erNow, erCancels, erLosses>>,
         \/ erRun' # Replacement!Idle /\ erRun # Replacement!Idle /\ erRun'.row = erRun.row
             /\ erRun'.touched = erRun.touched /\ erFile' = erFile
         \/ erRun' # Replacement!Idle /\ erRun = Replacement!Idle /\ erRun'.row = erFile /\ erFile' = erFile
         \/ erRun' = Replacement!Idle /\ erRun # Replacement!Idle /\ erFile' = erRun.row
         \/ erRun' = erRun /\ erFile' = erFile
  PROVE  ChurnInv'
<1>0. /\ ReplaceTyped /\ ChurnInv /\ erLosses \in Nat
  BY DEF ReplaceInv, ReplaceTyped
<1>1. Today' = Today /\ (\A d \in Nat : OnDay(d)' = OnDay(d)) /\ Quick' = Quick
  BY DEF Today, OnDay, Quick, Replacement!Day
<1>2. Cardinality(Today) \in Nat
  <2>1. Today = OnDay(Replacement!Day(erNow))
    BY DEF Today, OnDay
  <2>q. QED BY <1>0, <2>1, Finite
<1>3. Replacement!CountToday(erFile) \in Int
  BY <1>0 DEF Replacement!CountToday, ReplaceTyped, Replacement!Rows
<1>4. Counts(erFile, erLosses) => Counts(erFile, erLosses + 1)
  BY <1>0, <1>2, <1>3 DEF Counts
<1>6. CASE erRun' = erRun /\ erFile' = erFile
  BY <1>0, <1>1, <1>6 DEF ChurnInv, Counts, Replacement!CountToday, Replacement!Day, Remembers
<1>7. CASE erRun' # Replacement!Idle /\ erRun # Replacement!Idle /\ erRun'.row = erRun.row
        /\ erRun'.touched = erRun.touched /\ erFile' = erFile
  BY <1>0, <1>1, <1>7 DEF ChurnInv, Counts, Replacement!CountToday, Replacement!Day, Remembers
<1>8. CASE erRun' # Replacement!Idle /\ erRun = Replacement!Idle /\ erRun'.row = erFile /\ erFile' = erFile
  BY <1>0, <1>1, <1>4, <1>8 DEF ChurnInv, Counts, Replacement!CountToday, Replacement!Day, Remembers
<1>9. CASE erRun' = Replacement!Idle /\ erRun # Replacement!Idle /\ erFile' = erRun.row
  BY <1>0, <1>1, <1>9 DEF ChurnInv, Counts, Replacement!CountToday, Replacement!Day, Remembers
<1>q. QED BY <1>6, <1>7, <1>8, <1>9

\* A cancel that the row of the run allows: it is the last one, and quick only when a loss pays for it.
LEMMA CancelIs ==
  ASSUME ReplaceInv, erRun.pc = "consider", Replacement!MayReplace, erCancels' = Append(erCancels, erNow),
         erNow' = erNow
  PROVE  /\ Cardinality(Today') <= Replacement!CountToday(erFile) + 1 + erLosses
         /\ \A d \in Nat : Cardinality(OnDay(d)') <= ErCap + erLosses
         /\ Cardinality(Quick') <= erLosses
<1>0. /\ ReplaceTyped /\ ChurnInv /\ erLosses \in Nat /\ erNow \in Nat /\ ErCap \in Nat /\ ErCooldown \in Nat
         /\ erFile \in Replacement!Rows
      /\ erCancels \in Seq(Nat) /\ Len(erCancels) \in Nat /\ erRun # Replacement!Idle /\ erRun.row = erFile
          /\ ~Replacement!Throttled(erFile)
  <2>1. ReplaceTyped /\ ChurnInv
    BY DEF ReplaceInv
  <2>2. erRun # Replacement!Idle /\ erRun.row = erFile /\ ~Replacement!Throttled(erFile)
    BY <2>1, NewestIs, AtPc
  <2>q. QED BY <2>1, <2>2, ReplaceAssumption DEF ReplaceTyped
<1>1. /\ Replacement!CountToday(erFile) \in Nat /\ Replacement!CountToday(erFile) < ErCap
      /\ ErCooldown > 0 /\ erFile.last # Replacement!Never => erNow - erFile.last >= ErCooldown
  BY <1>0, ReplaceRecordedIs
<1>2. Counts(erFile, erLosses) /\ Remembers(erFile)
  BY <1>0 DEF ChurnInv
<1>3. Today = OnDay(Replacement!Day(erNow)) /\ Replacement!Day(erNow) \in Nat /\ Cardinality(Today) \in Nat
  <2>1. Today = OnDay(Replacement!Day(erNow)) /\ Replacement!Day(erNow) \in Nat
    BY <1>0, DaysGrow DEF Today, OnDay
  <2>q. QED BY <1>0, <2>1, Finite
<1>4. Cardinality(Today') = Cardinality(Today) + 1
  BY <1>0, OneMore
<1>5. Cardinality(Today) <= Replacement!CountToday(erFile) + erLosses
  BY <1>2 DEF Counts
<1>6. ASSUME NEW d \in Nat PROVE Cardinality(OnDay(d)') <= ErCap + erLosses
  <2>1. Cardinality(OnDay(d)') = Cardinality(OnDay(d)) + (IF d = Replacement!Day(erNow) THEN 1 ELSE 0)
    BY <1>0, OneMore
  <2>2. Cardinality(OnDay(d)) <= ErCap + erLosses /\ Cardinality(OnDay(d)) \in Nat
    BY <1>0, Finite DEF ChurnInv
  <2>3. CASE d = Replacement!Day(erNow)
    <3>1. Cardinality(OnDay(d)) <= Replacement!CountToday(erFile) + erLosses
      BY <1>3, <1>5, <2>3
    <3>2. Cardinality(OnDay(d)') = Cardinality(OnDay(d)) + 1
      BY <2>1, <2>3
    <3>q. QED BY <1>0, <1>1, <2>2, <3>1, <3>2
  <2>4. CASE d # Replacement!Day(erNow)
    <3>1. Cardinality(OnDay(d)') = Cardinality(OnDay(d))
      BY <2>1, <2>2, <2>4
    <3>q. QED BY <2>2, <3>1
  <2>q. QED BY <2>3, <2>4
<1>7. Cardinality(Quick') <= erLosses
  <2>1. /\ Cardinality(Quick) \in Nat /\ Cardinality(Quick) <= erLosses
        /\ Cardinality(Quick') <= Cardinality(Quick) + 1 /\ Cardinality(Quick') \in Int
        /\ (Len(erCancels) # 0 => erNow - erCancels[Len(erCancels)] >= ErCooldown)
            => Cardinality(Quick') = Cardinality(Quick)
    <3>1. ReplaceTyped
      BY <1>0
    <3>2. Cardinality(Quick') <= Cardinality(Quick) + 1
      BY <1>0, OneMore
    <3>3. Cardinality(Quick') \in Nat
      <4>1. IsFiniteSet(2..Len(erCancels'))
        BY <1>0, FS_Interval
      <4>2. Quick' \subseteq 2..Len(erCancels')
        BY DEF Quick
      <4>q. QED BY <4>1, <4>2, FS_Subset, FS_CardinalityType
    <3>4. (Len(erCancels) # 0 => erNow - erCancels[Len(erCancels)] >= ErCooldown)
            => Cardinality(Quick') = Cardinality(Quick)
      BY <1>0, OneMore
    <3>5. Cardinality(Quick) \in Nat /\ Cardinality(Quick) <= erLosses
      BY <1>0, Finite DEF ChurnInv
    <3>q. QED BY <3>2, <3>3, <3>4, <3>5
  <2>2. CASE Cardinality(Quick) < erLosses
    BY <1>0, <2>1, <2>2
  <2>3. CASE Len(erCancels) = 0
    BY <2>1, <2>3
  <2>4. CASE Len(erCancels) # 0 /\ erFile.last # Replacement!Never /\ erFile.last >= erCancels[Len(erCancels)]
    <3>1. erCancels[Len(erCancels)] \in Nat /\ erCancels[Len(erCancels)] <= erNow /\ erFile.last \in Nat
      BY <1>0, <2>4 DEF ReplaceTyped, Replacement!Rows
    <3>2. erNow - erCancels[Len(erCancels)] >= ErCooldown
      BY <1>0, <1>1, <2>4, <3>1
    <3>q. QED BY <2>1, <3>2
  <2>q. QED BY <1>2, <2>2, <2>3, <2>4 DEF Remembers
<1>8. Cardinality(Today') <= Replacement!CountToday(erFile) + 1 + erLosses
  BY <1>0, <1>1, <1>3, <1>4, <1>5
<1>q. QED BY <1>6, <1>7, <1>8

\* The record of the cancel goes with the run, or the loss of its answer pays for it.
LEMMA CancelStep == ReplaceInv /\ (Replacement!CancelStale \/ Replacement!CancelAnswerLost) => ChurnInv'
<1> SUFFICES ASSUME ReplaceInv, Replacement!CancelStale \/ Replacement!CancelAnswerLost PROVE ChurnInv'
  OBVIOUS
<1>0. /\ erRun.pc = "consider" /\ Replacement!MayReplace /\ erCancels' = Append(erCancels, erNow)
         /\ erNow' = erNow /\ erFile' = erFile
  BY DEF Replacement!CancelStale, Replacement!CancelAnswerLost
<1>1. /\ Cardinality(Today') <= Replacement!CountToday(erFile) + 1 + erLosses
      /\ \A d \in Nat : Cardinality(OnDay(d)') <= ErCap + erLosses
      /\ Cardinality(Quick') <= erLosses
  BY <1>0, CancelIs
<1>2. /\ ReplaceTyped /\ erLosses \in Nat /\ erNow \in Nat /\ ErCap \in Nat /\ erFile \in Replacement!Rows
         /\ Len(erCancels) \in Nat
      /\ erRun # Replacement!Idle /\ erRun \in ReplaceJobs /\ erRun.row = erFile
          /\ ~Replacement!Throttled(erFile) /\ erRun.touched = FALSE
  <2>1. ReplaceTyped
    BY DEF ReplaceInv
  <2>2. erRun # Replacement!Idle /\ erRun \in ReplaceJobs /\ erRun.row = erFile
          /\ ~Replacement!Throttled(erFile) /\ erRun.touched = FALSE
    BY <1>0, <2>1, NewestIs, AtPc
  <2>q. QED BY <2>1, <2>2, ReplaceAssumption DEF ReplaceTyped
<1>3. ReplaceTyped'
  BY ReplaceTypes DEF Replacement!Next
<1>4. Replacement!CountToday(erFile)' = Replacement!CountToday(erFile) /\ Replacement!CountToday(erFile) \in Nat
  BY <1>0, <1>2, ReplaceRecordedIs DEF Replacement!CountToday, Replacement!Day
<1>5. Cardinality(Today') \in Nat /\ Cardinality(Quick') \in Nat
        /\ \A d \in Nat : Cardinality(OnDay(d)') \in Nat
  <2>1. IsFiniteSet(1..Len(erCancels')) /\ IsFiniteSet(2..Len(erCancels'))
    BY <1>3, FS_Interval DEF ReplaceTyped
  <2>2. Today' \subseteq 1..Len(erCancels') /\ Quick' \subseteq 2..Len(erCancels')
          /\ \A d \in Nat : OnDay(d)' \subseteq 1..Len(erCancels')
    BY DEF Today, Quick, OnDay
  <2>q. QED BY <2>1, <2>2, FS_Subset, FS_CardinalityType
<1>6. CASE Replacement!CancelStale
  <2>1. erRun' = [erRun EXCEPT !.pc = "post", !.row = Replacement!Recorded(erRun.row), !.touched = TRUE]
          /\ erLosses' = erLosses
    BY <1>6 DEF Replacement!CancelStale
  <2>2. erRun'.row = Replacement!Recorded(erFile) /\ erRun'.touched = TRUE /\ erRun'.pc = "post"
    BY <1>2, <2>1 DEF ReplaceJobs
  <2>3. erRun' # Replacement!Idle
    BY <2>2, IdleIs
  <2>4. /\ Replacement!CountToday(Replacement!Recorded(erFile)) = Replacement!CountToday(erFile) + 1
           /\ Replacement!Recorded(erFile).last = erNow
        /\ Replacement!Recorded(erFile).day = Replacement!Day(erNow)
            /\ Replacement!Recorded(erFile).count = Replacement!CountToday(erFile) + 1
    BY <1>2, ReplaceRecordedIs
  <2>5. Replacement!CountToday(erRun.row)' = Replacement!CountToday(erFile) + 1
    BY <1>0, <2>2, <2>4 DEF Replacement!CountToday, Replacement!Day
  <2>6. Counts(erRun.row, erLosses)' /\ Counts(erFile, erLosses + 1)'
    BY <1>1, <1>2, <1>4, <1>5, <2>1, <2>5 DEF Counts
  <2>7. Remembers(erRun.row)'
    <3>1. erCancels'[Len(erCancels')] = erNow
      BY <1>0, <1>2, OneMore
    <3>2. erNow # Replacement!Never /\ erNow >= erNow
      BY <1>2 DEF Replacement!Never
    <3>3. erRun'.row.last = erNow
      BY <2>2, <2>4
    <3>q. QED BY <3>1, <3>2, <3>3 DEF Remembers
  <2>8. (\A d \in Nat : Cardinality(OnDay(d)) <= ErCap + erLosses)' /\ (Cardinality(Quick) <= erLosses)'
    BY <1>1, <2>1
  <2>q. QED BY <2>2, <2>3, <2>6, <2>7, <2>8 DEF ChurnInv
<1>7. CASE Replacement!CancelAnswerLost
  <2>1. erRun' = [erRun EXCEPT !.pc = "end"] /\ erLosses' = erLosses + 1
    BY <1>7 DEF Replacement!CancelAnswerLost
  <2>2. erRun'.row = erFile /\ erRun'.pc = "end"
    BY <1>2, <2>1 DEF ReplaceJobs
  <2>3. erRun' # Replacement!Idle
    BY <2>2, IdleIs
  <2>4. Replacement!CountToday(erRun.row)' = Replacement!CountToday(erFile)
    BY <1>0, <1>4, <2>2 DEF Replacement!CountToday
  <2>5. Counts(erRun.row, erLosses)' /\ Counts(erFile, erLosses + 1)'
    <3>1. Cardinality(Today') <= Replacement!CountToday(erFile) + (erLosses + 1)
      BY <1>1, <1>2, <1>4, <1>5
    <3>2. Cardinality(Today') <= Replacement!CountToday(erFile) + (erLosses + 1 + 1)
      BY <1>1, <1>2, <1>4, <1>5
    <3>q. QED BY <1>4, <2>1, <2>4, <3>1, <3>2 DEF Counts
  <2>6. Remembers(erRun.row)'
    BY <1>1, <1>2, <1>5, <2>1 DEF Remembers
  <2>7. (\A d \in Nat : Cardinality(OnDay(d)) <= ErCap + erLosses)'
    <3> SUFFICES ASSUME NEW d \in Nat PROVE Cardinality(OnDay(d)') <= ErCap + erLosses'
      OBVIOUS
    <3>1. Cardinality(OnDay(d)') <= ErCap + erLosses /\ Cardinality(OnDay(d)') \in Nat
      BY <1>1, <1>5
    <3>q. QED BY <1>2, <2>1, <3>1
  <2>8. (Cardinality(Quick) <= erLosses)'
    BY <1>1, <1>2, <1>5, <2>1
  <2>9. (erRun # Replacement!Idle => erRun.touched = TRUE \/ erRun.row = erFile)'
    BY <1>0, <2>2
  <2>q. QED BY <2>3, <2>5, <2>6, <2>7, <2>8, <2>9 DEF ChurnInv
<1>q. QED BY <1>6, <1>7

\* A record that is lost with its run: the loss pays for the cancel that the file forgets.
LEMMA DieStep == ReplaceInv /\ Replacement!DieUnsaved => ChurnInv'
<1> SUFFICES ASSUME ReplaceInv, Replacement!DieUnsaved PROVE ChurnInv'
  OBVIOUS
<1>0. /\ erRun.pc \in {"post", "end"} /\ erLosses' = erLosses + 1 /\ erRun' = Replacement!Idle
         /\ UNCHANGED <<erNow, erFile, erCancels>>
      /\ ReplaceTyped /\ ChurnInv /\ erLosses \in Nat /\ ErCap \in Nat
  BY ReplaceAssumption DEF Replacement!DieUnsaved, ReplaceInv, ReplaceTyped
<1>1. erRun # Replacement!Idle
  BY <1>0, AtPc
<1>2. Today' = Today /\ (\A d \in Nat : OnDay(d)' = OnDay(d)) /\ Quick' = Quick
        /\ Replacement!CountToday(erFile)' = Replacement!CountToday(erFile)
  BY <1>0 DEF Today, OnDay, Quick, Replacement!Day, Replacement!CountToday
<1>3. Cardinality(Quick) \in Nat /\ \A d \in Nat : Cardinality(OnDay(d)) \in Nat
  BY <1>0, Finite
<1>4. Counts(erFile, erLosses)'
  <2>1. Counts(erFile, erLosses + 1)
    BY <1>0, <1>1 DEF ChurnInv
  <2>q. QED BY <1>0, <1>2, <2>1 DEF Counts
<1>5. Cardinality(Quick') < erLosses'
  <2>1. Cardinality(Quick) <= erLosses
    BY <1>0 DEF ChurnInv
  <2>q. QED BY <1>0, <1>2, <1>3, <2>1
<1>6. (\A d \in Nat : Cardinality(OnDay(d)) <= ErCap + erLosses)'
  <2> SUFFICES ASSUME NEW d \in Nat PROVE Cardinality(OnDay(d)') <= ErCap + erLosses'
    OBVIOUS
  <2>1. Cardinality(OnDay(d)) <= ErCap + erLosses
    BY <1>0 DEF ChurnInv
  <2>q. QED BY <1>0, <1>2, <1>3, <2>1
<1>7. (Cardinality(Quick) <= erLosses)'
  BY <1>0, <1>2, <1>3, <1>5
<1>8. Remembers(erFile)'
  BY <1>5 DEF Remembers
<1>q. QED BY <1>0, <1>4, <1>6, <1>7, <1>8 DEF ChurnInv

LEMMA ChurnStep == ReplaceInv /\ [Replacement!Next]_(Replacement!vars) => ChurnInv'
<1> SUFFICES ASSUME ReplaceInv, [Replacement!Next]_(Replacement!vars) PROVE ChurnInv'
  OBVIOUS
<1>0. ReplaceTyped /\ ChurnInv
  BY DEF ReplaceInv
<1>1. CASE Replacement!Load
  <2>1. erRun = Replacement!Idle /\ erRun'.pc = "consider" /\ erRun'.row = erFile /\ UNCHANGED <<erNow, erFile,
          erCancels, erLosses>>
    BY <1>1 DEF Replacement!Load
  <2>2. erRun' # Replacement!Idle
    BY <2>1, IdleIs
  <2>q. QED BY <2>1, <2>2, Steady
<1>2. CASE Replacement!NoneOpen \/ Replacement!HoldWait \/ Replacement!CancelFails \/ Replacement!Post
        \/ Replacement!PostRefused
  <2>1. /\ erRun.pc \in {"consider", "post", "end"}
           /\ \E place \in {"post", "end"} : erRun' = [erRun EXCEPT !.pc = place]
        /\ UNCHANGED <<erNow, erFile, erCancels, erLosses>>
    BY <1>2 DEF Replacement!NoneOpen, Replacement!HoldWait, Replacement!CancelFails, Replacement!Post,
        Replacement!PostRefused
  <2>2. erRun # Replacement!Idle /\ erRun' \in ReplaceJobs /\ erRun'.row = erRun.row
          /\ erRun'.touched = erRun.touched
    BY <1>0, <2>1, AtPc, JobIs
  <2>3. erRun' # Replacement!Idle
    BY <2>2, IdleIs
  <2>q. QED BY <2>1, <2>2, <2>3, Steady
<1>3. CASE Replacement!Save
  <2>1. erRun.pc = "end" /\ erFile' = (IF erRun.touched THEN erRun.row ELSE erFile)
          /\ erRun' = Replacement!Idle /\ UNCHANGED <<erNow, erCancels, erLosses>>
    BY <1>3 DEF Replacement!Save
  <2>2. erRun # Replacement!Idle
    BY <1>0, <2>1, AtPc
  <2>3. erFile' = erRun.row
    BY <1>0, <2>1, <2>2 DEF ChurnInv
  <2>q. QED BY <2>1, <2>2, <2>3, Steady
<1>4. CASE Replacement!OrderEnds \/ UNCHANGED Replacement!vars
  <2>1. UNCHANGED <<erNow, erFile, erRun, erCancels, erLosses>>
    BY <1>4 DEF Replacement!OrderEnds, Replacement!vars
  <2>q. QED BY <2>1, Steady
<1>q. QED BY <1>1, <1>2, <1>3, <1>4, TickStep, CancelStep, DieStep DEF Replacement!Next

\* What one entry and one day may cost, from the inductive invariant.
LEMMA ReplaceSafe ==
  ReplaceInv => Replacement!TypeOK /\ Replacement!OneWorkingEntry /\ Replacement!AtMostTwoLive
      /\ Replacement!ChurnIsBounded
<1> SUFFICES ASSUME ReplaceInv
    PROVE Replacement!TypeOK /\ Replacement!OneWorkingEntry /\ Replacement!AtMostTwoLive
          /\ Replacement!ChurnIsBounded
  OBVIOUS
<1>0. ReplaceTyped /\ LiveInv /\ ChurnInv
  BY DEF ReplaceInv
<1>1. Replacement!TypeOK
  <2>1. ASSUME NEW o \in 1..Len(erOrders)
        PROVE erOrders[o].at \in Nat /\ erOrders[o].status \in {"open", "canceling", "ended"}
    <3>1. erOrders[o] \in EntryOrders
      BY <1>0 DEF ReplaceTyped
    <3>q. QED BY <3>1 DEF EntryOrders
  <2>2. erRun = Replacement!Idle \/ /\ erRun.pc \in {"consider", "post", "end"}
                                       /\ erRun.row \in Replacement!Rows
                                    /\ erRun.listed \subseteq 1..Len(erOrders) /\ erRun.touched \in BOOLEAN
    <3>1. CASE erRun # Replacement!Idle
      <4>1. erRun \in ReplaceJobs /\ erRun.listed \subseteq 1..Len(erOrders)
        BY <1>0, <3>1 DEF ReplaceTyped, LiveInv
      <4>q. QED BY <4>1, Zenon DEF ReplaceJobs
    <3>q. QED BY <3>1
  <2>3. \A c \in 1..Len(erCancels) : erCancels[c] \in 0..erNow
    BY <1>0 DEF ReplaceTyped
  <2>q. QED BY <1>0, <2>1, <2>2, <2>3 DEF Replacement!TypeOK, ReplaceTyped
<1>2. Replacement!OneWorkingEntry
  BY <1>0, AtMostOne, ReplaceCounts DEF LiveInv, Replacement!OneWorkingEntry, Working
<1>3. Replacement!AtMostTwoLive
  BY <1>0, AtMostTwo, ReplaceCounts DEF LiveInv, Replacement!AtMostTwoLive
<1>4. Replacement!ChurnIsBounded
  <2>1. Replacement!Day(ErMaxNow) \in Nat
    BY DivIs, ReplaceAssumption DEF Replacement!Day
  <2>2. 0..Replacement!Day(ErMaxNow) \subseteq Nat
    BY <2>1
  <2>q. QED BY <1>0, <2>2, ReplaceCounts DEF Replacement!ChurnIsBounded, ChurnInv, OnDay, Quick
<1>q. QED BY <1>1, <1>2, <1>3, <1>4

\* The replacement keeps its inductive invariant: a run knows every live order of the
\* symbol, and its row counts and remembers the cancels, up to the losses.
THEOREM ReplaceInvariant == Replacement!Spec => []ReplaceInv
<1>1. Replacement!Init => ReplaceInv
  BY ReplaceInit
<1>2. ReplaceInv /\ [Replacement!Next]_(Replacement!vars) => ReplaceInv'
  BY ReplaceTypes, LiveStep, ChurnStep DEF ReplaceInv
<1>q. QED BY <1>1, <1>2, PTL DEF Replacement!Spec

\* One entry order of the symbol works, two live at the most while a cancel is slow, and
\* a day sees no more cancels than the cap and the losses (index.ts:10385, 10531).
THEOREM ReplacesAreBounded ==
  Replacement!Spec
      => [](Replacement!TypeOK /\ Replacement!OneWorkingEntry /\ Replacement!AtMostTwoLive /\ Replacement!ChurnIsBounded)
<1>q. QED BY ReplaceInvariant, ReplaceSafe, PTL

-------------------------------------------------------------------------------
(* The repair of a missing protective order. From the listing to the POST  *)
(* no order works; a run that was not refused has its order at the broker; *)
(* and the entry of a run is written before its POST.                      *)

\* The instance counts as the library does.
LEMMA RepairCounts == ASSUME NEW S PROVE Repair!Cardinality(S) = Cardinality(S)
  BY Zenon DEF Repair!Cardinality, Cardinality

\* Where a job is, and what it was answered.
RunPcs == {"started", "position", "orders", "ready", "reserved", "posted", "submitted", "seen",
           "unnamed", "cancelling", "deleted"}
RunAnswers == {"none", "accepted", "no_id", "failed", "ok"}
RepairJobs == [pc : RunPcs, plan : Repair!Plans, answer : RunAnswers]

\* What the entry of a job's order is about.
LEMMA KeyIs ==
  ASSUME NEW l \in Repair!Lanes, NEW p \in Repair!Plans
  PROVE  Repair!Key(l, p) \in Repair!PlanKeys /\ Repair!Key(l, p)[1] = l
         /\ Repair!IdOf(Repair!Key(l, p)) = Repair!Id(l, p) /\ Repair!Id(l, p) \in Repair!Ids
<1>1. p.hash \in OrHashes /\ p.prices \in OrPrices
  BY DEF Repair!Plans
<1>2. CASE l = "canary"
  BY <1>1, <1>2 DEF Repair!Key, Repair!PlanKeys, Repair!IdOf, Repair!Id, Repair!Ids
<1>3. CASE l = "persistent"
  BY <1>1, <1>3 DEF Repair!Key, Repair!PlanKeys, Repair!IdOf, Repair!Id, Repair!Ids
<1>q. QED BY <1>2, <1>3 DEF Repair!Lanes

LEMMA KeyLane ==
  ASSUME NEW k \in Repair!PlanKeys
  PROVE  k[1] \in Repair!Lanes /\ Repair!IdOf(k) \in Repair!Ids
BY DEF Repair!PlanKeys, Repair!Lanes, Repair!IdOf, Repair!Ids

CanaryStatuses == {"none", "submit_started", "submitted", "submit_rejected", "visibility_pass",
               "visibility_failed", "cancel_failed_missing_order_id", "cancel_started",
               "rollback_cancelled_terminal", "rollback_cancel_not_terminal"}
PersistentStatuses == {"none", "submit_started", "submitted", "submit_rejected",
                   "persistent_visible_open", "visibility_failed"}

LEMMA StatusesAre ==
  Repair!Statuses["canary"] = CanaryStatuses /\ Repair!Statuses["persistent"] = PersistentStatuses
BY DEF Repair!Statuses, CanaryStatuses, PersistentStatuses

RepairTyped ==
  /\ orHeld \in 0..OrHeld0
  /\ orOrders \in [Repair!Ids -> {"none", "open", "canceling", "ended"}]
  /\ orRun \in [Repair!Lanes -> {Repair!Idle} \cup RepairJobs]
  /\ orSaid \in [Repair!PlanKeys -> CanaryStatuses \cup PersistentStatuses]
  /\ orLedger \in [Repair!Lanes -> [Repair!PlanKeys -> CanaryStatuses \cup PersistentStatuses]]
  /\ \A k \in Repair!PlanKeys : /\ orSaid[k] \in Repair!Statuses[k[1]]
                                /\ \A l \in Repair!Lanes : orLedger[l][k] \in Repair!Statuses[k[1]]

\* Runs do not overlap.
OneRun == \A l, m \in Repair!Lanes : orRun[l] # Repair!Idle /\ orRun[m] # Repair!Idle => l = m

\* From the listing to the POST no order works; before the POST the entry is written,
\* and a run that was not refused has its order at the broker.
Knows(l) ==
  /\ orRun[l].pc \in {"orders", "ready", "reserved"} => Repair!Live = {}
  /\ orRun[l] # Repair!Idle /\ orRun[l].pc \notin {"started", "position", "orders", "ready"} =>
       orSaid[Repair!Key(l, orRun[l].plan)] # "none"
  /\ \/ orRun[l].pc \in {"submitted", "seen", "unnamed", "cancelling", "deleted"}
     \/ orRun[l].pc = "posted" /\ orRun[l].answer # "failed"
     => orOrders[Repair!Id(l, orRun[l].plan)] # "none"
RunKnows == \A l \in Repair!Lanes : Knows(l)

OneLive == (\A i, j \in Repair!Live : i = j) /\ (Repair!Live # {} => orHeld # 0)

\* The entry of an ended canary is final, since its id is taken.
CancelledHasEnded ==
  \A k \in Repair!PlanKeys : orSaid[k] = "rollback_cancelled_terminal" => orOrders[Repair!IdOf(k)] = "ended"

RepairInv == RepairTyped /\ OneRun /\ RunKnows /\ OneLive /\ Repair!PostedIsWritten /\ CancelledHasEnded

LEMMA IdleRun == Repair!Idle \notin RepairJobs /\ Repair!Idle.pc = "idle" /\ \A j \in RepairJobs : j.pc # "idle"
<1>1. Repair!Idle.pc = "idle"
  BY DEF Repair!Idle
<1>2. \A j \in RepairJobs : j.pc # "idle"
  BY DEF RepairJobs, RunPcs
<1>q. QED BY <1>1, <1>2

LEMMA RepairInit == Repair!Init => RepairInv
<1> SUFFICES ASSUME Repair!Init PROVE RepairInv
  OBVIOUS
<1>1. \A k \in Repair!PlanKeys : Repair!NoEntries[k] = "none" /\ "none" \in Repair!Statuses[k[1]]
  BY StatusesAre, KeyLane DEF Repair!NoEntries, Repair!Lanes, CanaryStatuses, PersistentStatuses
<1>2. Repair!NoEntries \in [Repair!PlanKeys -> CanaryStatuses \cup PersistentStatuses]
  BY DEF Repair!NoEntries, CanaryStatuses
<1>3. RepairTyped
  BY <1>1, <1>2, RepairAssumption DEF Repair!Init, RepairTyped
<1>4. Repair!Live = {}
  BY DEF Repair!Init, Repair!Live
<1>q. QED BY <1>1, <1>3, <1>4, IdleRun, KeyLane DEF Repair!Init, RepairInv, OneRun, RunKnows, Knows, OneLive,
             Repair!PostedIsWritten, CancelledHasEnded

\* A job that writes its entry.
LEMMA RepairWriting ==
  ASSUME RepairTyped, NEW l \in Repair!Lanes, orRun[l] \in RepairJobs, NEW s \in Repair!Statuses[l],
         Repair!Write(l, s)
  PROVE  LET k == Repair!Key(l, orRun[l].plan) IN
         /\ k \in Repair!PlanKeys /\ k[1] = l /\ Repair!IdOf(k) = Repair!Id(l, orRun[l].plan)
         /\ orSaid' \in [Repair!PlanKeys -> CanaryStatuses \cup PersistentStatuses]
         /\ orLedger' \in [Repair!Lanes -> [Repair!PlanKeys -> CanaryStatuses \cup PersistentStatuses]]
         /\ orSaid'[k] = s /\ \A j \in Repair!PlanKeys \ {k} : orSaid'[j] = orSaid[j]
         /\ \A j \in Repair!PlanKeys : /\ orSaid'[j] \in Repair!Statuses[j[1]]
                                       /\ \A m \in Repair!Lanes : orLedger'[m][j] \in Repair!Statuses[j[1]]
<1> DEFINE k == Repair!Key(l, orRun[l].plan)
<1>1. k \in Repair!PlanKeys /\ k[1] = l /\ Repair!IdOf(k) = Repair!Id(l, orRun[l].plan)
  BY KeyIs DEF RepairJobs
<1>2. s \in CanaryStatuses \cup PersistentStatuses
  BY StatusesAre DEF Repair!Lanes
<1>3. orLedger' = [orLedger EXCEPT ![l][k] = s] /\ orSaid' = [orSaid EXCEPT ![k] = s]
  BY DEF Repair!Write
<1> HIDE DEF k
<1>4. orSaid' \in [Repair!PlanKeys -> CanaryStatuses \cup PersistentStatuses] /\ orSaid'[k] = s
      /\ \A j \in Repair!PlanKeys \ {k} : orSaid'[j] = orSaid[j]
  BY <1>1, <1>2, <1>3 DEF RepairTyped
<1>5. orLedger' \in [Repair!Lanes -> [Repair!PlanKeys -> CanaryStatuses \cup PersistentStatuses]]
      /\ \A m \in Repair!Lanes, j \in Repair!PlanKeys : orLedger'[m][j] = IF m = l
          /\ j = k THEN s ELSE orLedger[m][j]
  BY <1>1, <1>2, <1>3 DEF RepairTyped
<1>6. \A j \in Repair!PlanKeys : /\ orSaid'[j] \in Repair!Statuses[j[1]]
                                 /\ \A m \in Repair!Lanes : orLedger'[m][j] \in Repair!Statuses[j[1]]
  BY <1>1, <1>4, <1>5 DEF RepairTyped
<1>q. QED BY <1>1, <1>4, <1>5, <1>6 DEF k

\* Only one run is not idle.
LEMMA Alone ==
  ASSUME NEW l \in Repair!Lanes, \A m \in Repair!Lanes \ {l} : orRun'[m] = Repair!Idle, Knows(l)'
  PROVE  OneRun' /\ RunKnows'
<1>1. \A m \in Repair!Lanes \ {l} : Knows(m)'
  BY IdleRun DEF Knows
<1>q. QED BY <1>1 DEF OneRun, RunKnows

\* A job that only looks: files and orders stay.
LEMMA Looks ==
  ASSUME RepairInv, NEW l \in Repair!Lanes, orRun[l] \in RepairJobs, NEW j \in {Repair!Idle} \cup RepairJobs,
         orRun' = [orRun EXCEPT ![l] = j], Knows(l)', UNCHANGED <<orHeld, orOrders, orLedger, orSaid>>
  PROVE  RepairInv'
<1>1. orRun[l] # Repair!Idle
  BY IdleRun
<1>2. orRun' \in [Repair!Lanes -> {Repair!Idle} \cup RepairJobs]
        /\ \A m \in Repair!Lanes \ {l} : orRun'[m] = Repair!Idle
  BY <1>1 DEF RepairInv, RepairTyped, OneRun
<1>3. OneRun' /\ RunKnows'
  BY <1>2, Alone
<1>4. RepairTyped' /\ OneLive' /\ Repair!PostedIsWritten' /\ CancelledHasEnded'
  BY <1>2 DEF RepairInv, RepairTyped, OneLive, Repair!Live, Repair!PostedIsWritten, CancelledHasEnded
<1>q. QED BY <1>3, <1>4 DEF RepairInv

\* A job that writes its entry; orders stay. Its order has ended when it says so.
LEMMA Writes ==
  ASSUME RepairInv, NEW l \in Repair!Lanes, orRun[l] \in RepairJobs, NEW s \in Repair!Statuses[l] \ {"none"},
         Repair!Write(l, s),
         NEW j \in {Repair!Idle} \cup RepairJobs, orRun' = [orRun EXCEPT ![l] = j], UNCHANGED <<orHeld,
             orOrders>>,
         Knows(l)',
         s = "rollback_cancelled_terminal" => orOrders[Repair!Id(l, orRun[l].plan)] = "ended"
  PROVE  RepairInv'
<1> DEFINE k == Repair!Key(l, orRun[l].plan)
<1>0. RepairTyped
  BY DEF RepairInv
<1>1. orRun[l] # Repair!Idle
  BY IdleRun
<1>2. orRun' \in [Repair!Lanes -> {Repair!Idle} \cup RepairJobs]
        /\ \A m \in Repair!Lanes \ {l} : orRun'[m] = Repair!Idle
  BY <1>1 DEF RepairInv, RepairTyped, OneRun
<1>3. OneRun' /\ RunKnows'
  BY <1>2, Alone
<1>4. /\ k \in Repair!PlanKeys /\ k[1] = l /\ Repair!IdOf(k) = Repair!Id(l, orRun[l].plan)
      /\ orSaid' \in [Repair!PlanKeys -> CanaryStatuses \cup PersistentStatuses]
      /\ orLedger' \in [Repair!Lanes -> [Repair!PlanKeys -> CanaryStatuses \cup PersistentStatuses]]
      /\ orSaid'[k] = s /\ \A i \in Repair!PlanKeys \ {k} : orSaid'[i] = orSaid[i]
      /\ \A i \in Repair!PlanKeys : /\ orSaid'[i] \in Repair!Statuses[i[1]]
                                    /\ \A m \in Repair!Lanes : orLedger'[m][i] \in Repair!Statuses[i[1]]
  BY <1>0, RepairWriting
<1> HIDE DEF k
<1>5. RepairTyped'
  BY <1>2, <1>4 DEF RepairInv, RepairTyped
<1>6. OneLive' /\ Repair!PostedIsWritten' /\ CancelledHasEnded'
  <2>1. OneLive'
    BY DEF RepairInv, OneLive, Repair!Live
  <2>2. Repair!PostedIsWritten'
    BY <1>4 DEF RepairInv, Repair!PostedIsWritten
  <2>3. CancelledHasEnded'
    BY <1>4 DEF RepairInv, CancelledHasEnded
  <2>q. QED BY <2>1, <2>2, <2>3
<1>q. QED BY <1>3, <1>5, <1>6 DEF RepairInv

\* Moving keeps the plan of the job.
LEMMA Going ==
  ASSUME RepairTyped, NEW l \in Repair!Lanes, orRun[l] # Repair!Idle
  PROVE  /\ orRun[l] \in RepairJobs
         /\ \A place \in RunPcs : LET j == [orRun[l] EXCEPT !.pc = place] IN
              j \in RepairJobs /\ j.pc = place /\ j.plan = orRun[l].plan /\ j.answer = orRun[l].answer
         /\ \A place \in RunPcs, a \in RunAnswers : LET j == [orRun[l] EXCEPT !.pc = place, !.answer = a] IN
              j \in RepairJobs /\ j.pc = place /\ j.plan = orRun[l].plan /\ j.answer = a
BY DEF RepairTyped, RepairJobs

LEMMA IdleKnows == ASSUME NEW l \in Repair!Lanes, orRun'[l] = Repair!Idle PROVE Knows(l)'
BY IdleRun DEF Knows

LEMMA AtIs ==
  ASSUME RepairTyped, NEW l \in Repair!Lanes
  PROVE  /\ Repair!At(l, "idle") <=> orRun[l] = Repair!Idle
         /\ \A place \in RunPcs : Repair!At(l, place) => orRun[l] \in RepairJobs /\ orRun[l].pc = place
         /\ orRun[l] \in RepairJobs => Repair!Id(l, orRun[l].plan) \in Repair!Ids
<1>1. orRun[l] = Repair!Idle \/ orRun[l] \in RepairJobs
  BY DEF RepairTyped
<1>2. "idle" \notin RunPcs
  BY DEF RunPcs
<1>3. orRun[l] \in RepairJobs => orRun[l].plan \in Repair!Plans
  BY DEF RepairJobs
<1>q. QED BY <1>1, <1>2, <1>3, IdleRun, KeyIs DEF Repair!At

LEMMA StartStep == ASSUME RepairInv, NEW l \in Repair!Lanes, Repair!Start(l) PROVE RepairInv'
<1>0. RepairTyped
  BY DEF RepairInv
<1>1. PICK p \in Repair!Plans, file \in Repair!Downloads(l) :
        /\ orLedger' = [orLedger EXCEPT ![l] = file]
        /\ orRun' = [orRun EXCEPT ![l] = IF file[Repair!Key(l, p)] \in Repair!Active[l] THEN Repair!Idle
                                         ELSE [pc |-> "started", plan |-> p, answer |-> "none"]]
  BY DEF Repair!Start
<1>2. /\ \A m \in Repair!Lanes : orRun[m] = Repair!Idle
      /\ UNCHANGED <<orHeld, orOrders, orSaid>>
  BY <1>0, AtIs, RepairAssumption DEF Repair!Start
<1> DEFINE j == IF file[Repair!Key(l, p)] \in Repair!Active[l] THEN Repair!Idle
                ELSE [pc |-> "started", plan |-> p, answer |-> "none"]
<1>3. j = Repair!Idle \/ (j \in RepairJobs /\ j.pc = "started")
  BY DEF RepairJobs, RunPcs, RunAnswers
<1> HIDE DEF j
<1>4. orRun' \in [Repair!Lanes -> {Repair!Idle} \cup RepairJobs] /\ orRun'[l] = j
        /\ \A m \in Repair!Lanes \ {l} : orRun'[m] = Repair!Idle
  BY <1>0, <1>1, <1>2, <1>3 DEF RepairTyped, j
<1>5. Knows(l)'
  BY <1>3, <1>4, IdleRun DEF Knows
<1>6. OneRun' /\ RunKnows'
  BY <1>4, <1>5, Alone
<1>7. /\ file \in [Repair!PlanKeys -> CanaryStatuses \cup PersistentStatuses]
      /\ \A k \in Repair!PlanKeys : file[k] \in Repair!Statuses[k[1]]
  <2>1. CASE file = Repair!NoEntries
    BY <2>1, StatusesAre, KeyLane DEF Repair!NoEntries, Repair!Lanes, CanaryStatuses, PersistentStatuses
  <2>2. CASE file = orLedger[l]
    BY <1>0, <2>2 DEF RepairTyped
  <2>q. QED BY <2>1, <2>2 DEF Repair!Downloads
<1>8. RepairTyped'
  BY <1>0, <1>1, <1>2, <1>4, <1>7 DEF RepairTyped
<1>9. OneLive' /\ Repair!PostedIsWritten' /\ CancelledHasEnded'
  BY <1>2 DEF RepairInv, OneLive, Repair!Live, Repair!PostedIsWritten, CancelledHasEnded
<1>q. QED BY <1>6, <1>8, <1>9 DEF RepairInv

\* The readings of a job, and its end.
LEMMA ReadStep ==
  ASSUME RepairInv, NEW l \in Repair!Lanes,
         Repair!Block(l) \/ Repair!ReadPosition(l) \/ Repair!ReadOrders(l) \/ Repair!ReadClientId(l)
             \/ Repair!Die(l)
  PROVE  RepairInv'
<1>0. RepairTyped /\ RunKnows
  BY DEF RepairInv
<1>1. CASE Repair!Block(l) \/ Repair!Die(l)
  <2>1. orRun[l] # Repair!Idle /\ orRun' = [orRun EXCEPT ![l] = Repair!Idle] /\ UNCHANGED <<orHeld, orOrders,
          orLedger, orSaid>>
    BY <1>0, <1>1, IdleRun, AtIs DEF Repair!Block, Repair!Die, Repair!End
  <2>2. orRun[l] \in RepairJobs /\ orRun'[l] = Repair!Idle
    BY <1>0, <2>1 DEF RepairTyped
  <2>q. QED BY <2>1, <2>2, IdleKnows, Looks
<1>2. ASSUME NEW from \in RunPcs, NEW to \in RunPcs, Repair!At(l, from), Repair!Goto(l, to),
             UNCHANGED <<orHeld, orOrders, orLedger, orSaid>>,
             to \in {"position", "orders", "ready"}, to # "position" => Repair!Live = {}
      PROVE  RepairInv'
  <2> DEFINE j == [orRun[l] EXCEPT !.pc = to]
  <2>1. orRun[l] \in RepairJobs /\ orRun[l] # Repair!Idle
    BY <1>0, <1>2, AtIs, IdleRun
  <2>2. j \in RepairJobs /\ j.pc = to
    BY <1>0, <2>1, Going
  <2>3. orRun' = [orRun EXCEPT ![l] = j]
    BY <1>2, <1>0 DEF Repair!Goto, RepairTyped
  <2> HIDE DEF j
  <2>4. orRun'[l] = j
    BY <1>0, <2>3 DEF RepairTyped
  <2>5. Repair!Live' = Repair!Live
    BY <1>2 DEF Repair!Live
  <2>6. Knows(l)'
    BY <1>2, <2>2, <2>4, <2>5 DEF Knows
  <2>q. QED BY <1>2, <2>1, <2>2, <2>3, <2>6, Looks
<1>3. {"started", "position", "orders", "ready"} \subseteq RunPcs
  BY DEF RunPcs
<1>4. CASE Repair!ReadPosition(l)
  BY <1>2, <1>3, <1>4 DEF Repair!ReadPosition
<1>5. CASE Repair!ReadOrders(l)
  BY <1>2, <1>3, <1>5 DEF Repair!ReadOrders, Repair!Unprotected
<1>6. CASE Repair!ReadClientId(l)
  BY <1>0, <1>2, <1>3, <1>6 DEF Repair!ReadClientId, RunKnows, Knows, Repair!At
<1>q. QED BY <1>1, <1>4, <1>5, <1>6

\* A write that goes on, and one that ends the run.
LEMMA WriteOn ==
  ASSUME RepairInv, NEW l \in Repair!Lanes, NEW from \in RunPcs, NEW to \in RunPcs, Repair!At(l, from),
         Repair!Goto(l, to),
         NEW s \in Repair!Statuses[l] \ {"none"}, s # "rollback_cancelled_terminal", Repair!Write(l, s),
         UNCHANGED <<orHeld, orOrders>>,
         \/ to = "reserved" /\ Repair!Live = {}
         \/ to \in {"submitted", "seen", "unnamed", "cancelling"}
             /\ orOrders[Repair!Id(l, orRun[l].plan)] # "none"
  PROVE  RepairInv'
<1>0. RepairTyped
  BY DEF RepairInv
<1> DEFINE j == [orRun[l] EXCEPT !.pc = to]
<1>1. orRun[l] \in RepairJobs /\ orRun[l] # Repair!Idle
  BY <1>0, AtIs, IdleRun
<1>2. j \in RepairJobs /\ j.pc = to /\ j.plan = orRun[l].plan
  BY <1>1 DEF RepairJobs
<1>3. orRun' = [orRun EXCEPT ![l] = j]
  BY <1>0 DEF Repair!Goto, RepairTyped
<1> HIDE DEF j
<1>4. orRun'[l] = j
  BY <1>0, <1>3 DEF RepairTyped
<1>5. Repair!Live' = Repair!Live
  BY DEF Repair!Live
<1>6. orSaid'[Repair!Key(l, orRun[l].plan)] # "none"
  BY <1>0, <1>1, RepairWriting
<1>8. Knows(l)'
  <2>1. orSaid'[Repair!Key(l, orRun'[l].plan)] # "none"
    BY <1>2, <1>4, <1>6
  <2>2. to # "reserved" => orOrders'[Repair!Id(l, orRun'[l].plan)] # "none"
    BY <1>2, <1>4
  <2>3. to = "reserved" => Repair!Live' = {}
    BY <1>5
  <2>q. QED BY <1>2, <1>4, <2>1, <2>2, <2>3 DEF Knows
<1>q. QED BY <1>1, <1>2, <1>3, <1>8, Writes

LEMMA WriteEnds ==
  ASSUME RepairInv, NEW l \in Repair!Lanes, NEW from \in RunPcs, Repair!At(l, from), Repair!End(l),
         NEW s \in Repair!Statuses[l] \ {"none"}, Repair!Write(l, s), UNCHANGED <<orHeld, orOrders>>,
         s = "rollback_cancelled_terminal" => orOrders[Repair!Id(l, orRun[l].plan)] = "ended"
  PROVE  RepairInv'
<1>0. RepairTyped
  BY DEF RepairInv
<1>1. orRun[l] \in RepairJobs /\ orRun' = [orRun EXCEPT ![l] = Repair!Idle]
  BY <1>0, AtIs DEF Repair!End
<1>2. orRun'[l] = Repair!Idle
  BY <1>0, <1>1 DEF RepairTyped
<1>q. QED BY <1>1, <1>2, IdleKnows, Writes

LEMMA FileStep ==
  ASSUME RepairInv,
         \/ \E l \in Repair!Lanes : Repair!Reserve(l) \/ Repair!Rejected(l) \/ Repair!Accepted(l)
         \/ Repair!LookAndLeave \/ Repair!Look \/ Repair!CannotCancel \/ Repair!StartCancel
             \/ Repair!VerifyRollback
  PROVE  RepairInv'
<1>0. /\ {"ready", "reserved", "posted", "submitted", "seen", "unnamed", "cancelling", "deleted"}
         \subseteq RunPcs
      /\ "canary" \in Repair!Lanes /\ "persistent" \in Repair!Lanes /\ RepairTyped /\ RunKnows
  BY DEF RunPcs, Repair!Lanes, RepairInv
<1>s. \A l \in Repair!Lanes : {"submit_started", "submitted", "submit_rejected", "visibility_failed"}
        \subseteq Repair!Statuses[l] \ {"none"}
  BY StatusesAre DEF Repair!Lanes, CanaryStatuses, PersistentStatuses
<1>c. {"visibility_pass", "cancel_failed_missing_order_id", "cancel_started",
       "rollback_cancelled_terminal", "rollback_cancel_not_terminal"}
           \subseteq Repair!Statuses["canary"] \ {"none"}
  BY StatusesAre DEF CanaryStatuses
<1>p. "persistent_visible_open" \in Repair!Statuses["persistent"] \ {"none"}
  BY StatusesAre DEF PersistentStatuses
<1>1. ASSUME NEW l \in Repair!Lanes, Repair!Reserve(l) PROVE RepairInv'
  <2>1. Repair!Live = {}
    BY <1>0, <1>1 DEF Repair!Reserve, RunKnows, Knows, Repair!At
  <2>q. QED BY <1>0, <1>1, <1>s, <2>1, WriteOn DEF Repair!Reserve
<1>2. ASSUME NEW l \in Repair!Lanes, Repair!Rejected(l) PROVE RepairInv'
  BY <1>0, <1>2, <1>s, WriteEnds DEF Repair!Rejected
<1>3. ASSUME NEW l \in Repair!Lanes, Repair!Accepted(l) PROVE RepairInv'
  <2>1. orOrders[Repair!Id(l, orRun[l].plan)] # "none"
    BY <1>0, <1>3 DEF Repair!Accepted, RunKnows, Knows, Repair!At
  <2>q. QED BY <1>0, <1>3, <1>s, <2>1, WriteOn DEF Repair!Accepted
<1>4. CASE Repair!LookAndLeave
  <2>1. PICK found \in Repair!Sees("persistent") :
          Repair!Write("persistent", IF found THEN "persistent_visible_open" ELSE "visibility_failed")
    BY <1>4 DEF Repair!LookAndLeave
  <2>2. CASE found
    BY <1>0, <1>4, <1>p, <2>1, <2>2, WriteEnds DEF Repair!LookAndLeave
  <2>3. CASE ~found
    BY <1>0, <1>4, <1>s, <2>1, <2>3, WriteEnds DEF Repair!LookAndLeave
  <2>q. QED BY <2>2, <2>3
<1>5. CASE Repair!Look
  <2>1. PICK found \in Repair!Sees("canary") :
          /\ Repair!Write("canary", IF found THEN "visibility_pass" ELSE "visibility_failed")
          /\ Repair!Goto("canary", IF found \/ orRun["canary"].answer = "accepted" THEN "seen" ELSE "unnamed")
    BY <1>5 DEF Repair!Look
  <2>2. orOrders[Repair!Id("canary", orRun["canary"].plan)] # "none" /\ Repair!At("canary", "submitted")
          /\ UNCHANGED <<orHeld, orOrders>>
    BY <1>0, <1>5 DEF Repair!Look, RunKnows, Knows, Repair!At
  <2>3. \E s \in Repair!Statuses["canary"] \ {"none"} : s # "rollback_cancelled_terminal"
          /\ Repair!Write("canary", s)
    <3>1. CASE found
      BY <1>c, <2>1, <3>1
    <3>2. CASE ~found
      BY <1>0, <1>s, <2>1, <3>2
    <3>q. QED BY <3>1, <3>2
  <2>4. \E to \in {"seen", "unnamed"} : Repair!Goto("canary", to)
    BY <2>1
  <2>q. QED BY <1>0, <2>2, <2>3, <2>4, WriteOn
<1>6. CASE Repair!CannotCancel
  BY <1>0, <1>6, <1>c, WriteEnds DEF Repair!CannotCancel
<1>7. CASE Repair!StartCancel
  <2>1. orOrders[Repair!Id("canary", orRun["canary"].plan)] # "none"
    BY <1>0, <1>7 DEF Repair!StartCancel, RunKnows, Knows, Repair!At
  <2>q. QED BY <1>0, <1>7, <1>c, <2>1, WriteOn DEF Repair!StartCancel
<1>8. CASE Repair!VerifyRollback
  <2> DEFINE i == Repair!Id("canary", orRun["canary"].plan)
  <2>1. orOrders[i] # "none"
    BY <1>0, <1>8 DEF Repair!VerifyRollback, RunKnows, Knows, Repair!At
  <2>2. Repair!NoLongerActive => orOrders[i] = "ended"
    <3>1. i \in Repair!Ids
      BY <1>0, <1>8, AtIs DEF Repair!VerifyRollback
    <3>2. orOrders[i] \in {"none", "open", "canceling", "ended"}
      BY <1>0, <3>1 DEF RepairTyped
    <3>q. QED BY <2>1, <3>1, <3>2 DEF Repair!NoLongerActive, Repair!Live
  <2>3. CASE Repair!NoLongerActive /\ Repair!Write("canary", "rollback_cancelled_terminal")
    BY <1>0, <1>8, <1>c, <2>2, <2>3, WriteEnds DEF Repair!VerifyRollback
  <2>4. CASE Repair!Write("canary", "rollback_cancel_not_terminal")
    BY <1>0, <1>8, <1>c, <2>4, WriteEnds DEF Repair!VerifyRollback
  <2>q. QED BY <1>8, <2>3, <2>4 DEF Repair!VerifyRollback
<1>q. QED BY <1>1, <1>2, <1>3, <1>4, <1>5, <1>6, <1>7, <1>8

LEMMA PostStep == ASSUME RepairInv, NEW l \in Repair!Lanes, Repair!Post(l) PROVE RepairInv'
<1>0. RepairTyped /\ RunKnows /\ "reserved" \in RunPcs /\ "posted" \in RunPcs
  BY DEF RepairInv, RunPcs
<1>1. orRun[l] \in RepairJobs /\ orRun[l].pc = "reserved" /\ orRun[l] # Repair!Idle
  BY <1>0, AtIs, IdleRun DEF Repair!Post
<1> DEFINE i == Repair!Id(l, orRun[l].plan)
           k == Repair!Key(l, orRun[l].plan)
<1>2. /\ i \in Repair!Ids /\ k \in Repair!PlanKeys /\ Repair!IdOf(k) = i /\ orSaid[k] # "none"
         /\ Repair!Live = {}
      /\ orRun[l].plan \in Repair!Plans
  <2>1. orRun[l].plan \in Repair!Plans
    BY <1>1 DEF RepairJobs
  <2>q. QED BY <1>0, <1>1, <2>1, KeyIs DEF RunKnows, Knows
<1>3. UNCHANGED <<orHeld, orLedger, orSaid>>
  BY DEF Repair!Post
<1>4. ASSUME NEW a \in RunAnswers, orRun' = [orRun EXCEPT ![l].pc = "posted", ![l].answer = a],
             \/ orOrders' = orOrders /\ a = "failed"
             \/ orOrders' = [orOrders EXCEPT ![i] = "open"] /\ orHeld > Cardinality(Repair!Live)
                 /\ orOrders[i] = "none"
      PROVE  RepairInv'
  <2> DEFINE j == [orRun[l] EXCEPT !.pc = "posted", !.answer = a]
  <2>1. j \in RepairJobs /\ j.pc = "posted" /\ j.plan = orRun[l].plan /\ j.answer = a
    BY <1>0, <1>1 DEF RepairJobs
  <2>2. orRun' = [orRun EXCEPT ![l] = j]
    BY <1>0, <1>4 DEF RepairTyped
  <2> HIDE DEF j, i, k
  <2>3. orRun' \in [Repair!Lanes -> {Repair!Idle} \cup RepairJobs] /\ orRun'[l] = j
          /\ \A m \in Repair!Lanes \ {l} : orRun'[m] = Repair!Idle
    BY <1>0, <1>1, <2>1, <2>2 DEF RepairInv, RepairTyped, OneRun
  <2>4. /\ orOrders' \in [Repair!Ids -> {"none", "open", "canceling", "ended"}]
        /\ a # "failed" => orOrders'[i] # "none"
        /\ \A x \in Repair!Ids \ {i} : orOrders'[x] = orOrders[x]
    BY <1>0, <1>2, <1>4 DEF RepairTyped
  <2>5. Knows(l)'
    BY <1>2, <1>3, <2>1, <2>3, <2>4 DEF Knows, i, k
  <2>6. OneRun' /\ RunKnows'
    BY <2>3, <2>5, Alone
  <2>7. RepairTyped'
    BY <1>0, <1>3, <2>3, <2>4 DEF RepairTyped
  <2>8. OneLive'
    <3>1. CASE orOrders' = orOrders
      BY <1>3, <3>1 DEF RepairInv, OneLive, Repair!Live
    <3>2. CASE orOrders' = [orOrders EXCEPT ![i] = "open"] /\ orHeld > Cardinality(Repair!Live)
      <4>1. Cardinality(Repair!Live) = 0 /\ orHeld \in Nat
        BY <1>0, <1>2, RepairAssumption, FS_EmptySet DEF RepairTyped
      <4>2. orHeld' # 0
        BY <1>3, <3>2, <4>1
      <4>3. \A x \in Repair!Live' : x = i
        BY <1>2, <2>4 DEF Repair!Live
      <4>q. QED BY <4>2, <4>3 DEF OneLive
    <3>q. QED BY <1>4, <3>1, <3>2
  <2>9. Repair!PostedIsWritten' /\ CancelledHasEnded'
    <3>1. Repair!PostedIsWritten'
      BY <1>2, <1>3, <2>4 DEF RepairInv, Repair!PostedIsWritten
    <3>2. \A x \in Repair!Ids : orOrders[x] = "ended" => orOrders'[x] = "ended"
      BY <1>0, <1>4, <2>4
    <3>3. CancelledHasEnded'
      BY <1>3, <3>2, KeyLane DEF RepairInv, CancelledHasEnded
    <3>q. QED BY <3>1, <3>3
  <2>q. QED BY <2>6, <2>7, <2>8, <2>9 DEF RepairInv
<1>5. CASE /\ Repair!BrokerTakes(l) /\ orOrders' = [orOrders EXCEPT ![Repair!Id(l, orRun[l].plan)] = "open"]
           /\ \E answer \in {"accepted", "no_id", "failed"} :
                 orRun' = [orRun EXCEPT ![l].pc = "posted", ![l].answer = answer]
  <2>1. {"accepted", "no_id", "failed"} \subseteq RunAnswers
    BY DEF RunAnswers
  <2>q. QED BY <1>4, <1>5, <2>1, RepairCounts DEF Repair!BrokerTakes
<1>6. CASE orRun' = [orRun EXCEPT ![l].pc = "posted", ![l].answer = "failed"] /\ orOrders' = orOrders
  BY <1>4, <1>6 DEF RunAnswers
<1>q. QED BY <1>5, <1>6 DEF Repair!Post

LEMMA DeleteStep == ASSUME RepairInv, Repair!Delete PROVE RepairInv'
<1> DEFINE l == "canary"
           i == Repair!Id(l, orRun[l].plan)
<1>0. RepairTyped /\ RunKnows /\ "cancelling" \in RunPcs /\ "deleted" \in RunPcs /\ l \in Repair!Lanes
  BY DEF RepairInv, RunPcs, Repair!Lanes
<1>1. orRun[l] \in RepairJobs /\ orRun[l].pc = "cancelling" /\ orRun[l] # Repair!Idle
  BY <1>0, AtIs, IdleRun DEF Repair!Delete
<1>2. /\ i \in Repair!Ids /\ orSaid[Repair!Key(l, orRun[l].plan)] # "none" /\ orOrders[i] # "none"
      /\ UNCHANGED <<orHeld, orLedger, orSaid>>
  BY <1>0, <1>1, AtIs DEF RunKnows, Knows, Repair!Delete
<1>3. PICK a \in {"ok", "failed"} : orRun' = [orRun EXCEPT !["canary"].pc = "deleted", !["canary"].answer = a]
  BY DEF Repair!Delete
<1>4. /\ orOrders' \in [Repair!Ids -> {"none", "open", "canceling", "ended"}]
      /\ \A x \in Repair!Ids : (orOrders[x] = "none" <=> orOrders'[x] = "none")
          /\ (orOrders[x] = "ended" => orOrders'[x] = "ended")
      /\ Repair!Live' = Repair!Live
  <2>1. CASE orOrders' = orOrders
    BY <1>0, <2>1 DEF RepairTyped, Repair!Live
  <2>2. CASE orOrders[i] = "open" /\ orOrders' = [orOrders EXCEPT ![i] = "canceling"]
    BY <1>0, <1>2, <2>2 DEF RepairTyped, Repair!Live
  <2>q. QED BY <2>1, <2>2 DEF Repair!Delete
<1> DEFINE j == [orRun[l] EXCEPT !.pc = "deleted", !.answer = a]
<1>5. j \in RepairJobs /\ j.pc = "deleted" /\ j.plan = orRun[l].plan
  BY <1>0, <1>1 DEF RepairJobs, RunAnswers
<1>6. orRun' = [orRun EXCEPT ![l] = j]
  BY <1>0, <1>3 DEF RepairTyped
<1> HIDE DEF j, i, l
<1>7. orRun' \in [Repair!Lanes -> {Repair!Idle} \cup RepairJobs] /\ orRun'[l] = j
        /\ \A m \in Repair!Lanes \ {l} : orRun'[m] = Repair!Idle
  BY <1>0, <1>1, <1>5, <1>6 DEF RepairInv, RepairTyped, OneRun
<1>8. Knows(l)'
  BY <1>2, <1>4, <1>5, <1>7 DEF Knows, i
<1>9. OneRun' /\ RunKnows'
  BY <1>0, <1>7, <1>8, Alone
<1>10. RepairTyped' /\ OneLive' /\ Repair!PostedIsWritten' /\ CancelledHasEnded'
  <2>1. RepairTyped'
    BY <1>0, <1>2, <1>4, <1>7 DEF RepairTyped
  <2>2. OneLive'
    BY <1>2, <1>4 DEF RepairInv, OneLive
  <2>3. Repair!PostedIsWritten'
    BY <1>2, <1>4 DEF RepairInv, Repair!PostedIsWritten
  <2>4. CancelledHasEnded'
    BY <1>2, <1>4, KeyLane DEF RepairInv, CancelledHasEnded
  <2>q. QED BY <2>1, <2>2, <2>3, <2>4
<1>q. QED BY <1>9, <1>10 DEF RepairInv

LEMMA BrokerStep == ASSUME RepairInv, NEW i \in Repair!Ids, Repair!Fill(i) \/ Repair!Ends(i) PROVE RepairInv'
<1>0. /\ RepairTyped /\ RunKnows /\ i \in Repair!Live
      /\ orOrders' = [orOrders EXCEPT ![i] = "ended"] /\ UNCHANGED <<orRun, orLedger, orSaid>>
      /\ orHeld' = orHeld \/ orHeld' = orHeld - 1
  BY DEF RepairInv, Repair!Fill, Repair!Ends
<1>1. Repair!Live = {i} /\ orHeld # 0 /\ orHeld \in Nat
  BY <1>0, RepairAssumption DEF RepairInv, OneLive, RepairTyped
<1>2. /\ orOrders' \in [Repair!Ids -> {"none", "open", "canceling", "ended"}] /\ orOrders'[i] = "ended"
      /\ \A x \in Repair!Ids \ {i} : orOrders'[x] = orOrders[x]
  BY <1>0 DEF RepairTyped
<1>3. Repair!Live' = {}
  BY <1>1, <1>2 DEF Repair!Live
<1>4. orHeld' \in 0..OrHeld0
  <2>1. orHeld \in Nat /\ orHeld >= 1 /\ orHeld <= OrHeld0 /\ OrHeld0 \in Nat
    BY <1>0, <1>1, RepairAssumption DEF RepairTyped
  <2>2. orHeld - 1 \in 0..OrHeld0 /\ orHeld \in 0..OrHeld0
    BY <2>1
  <2>q. QED BY <1>0, <2>2
<1>5. RepairTyped' /\ OneRun' /\ OneLive'
  BY <1>0, <1>2, <1>3, <1>4 DEF RepairInv, RepairTyped, OneRun, OneLive
<1>6. \A x \in Repair!Ids : (orOrders[x] # "none" => orOrders'[x] # "none")
        /\ (orOrders[x] = "ended" => orOrders'[x] = "ended")
                            /\ (orOrders'[x] # "none" => orOrders[x] # "none")
  BY <1>0, <1>2 DEF Repair!Live
<1>7. Repair!PostedIsWritten' /\ CancelledHasEnded'
  BY <1>0, <1>6, KeyLane DEF RepairInv, Repair!PostedIsWritten, CancelledHasEnded
<1>8. RunKnows'
  <2> SUFFICES ASSUME NEW l \in Repair!Lanes PROVE Knows(l)'
    BY DEF RunKnows
  <2>1. CASE orRun[l] = Repair!Idle
    BY <1>0, <2>1, IdleKnows
  <2>2. CASE orRun[l] # Repair!Idle
    <3>1. Knows(l) /\ Repair!Id(l, orRun[l].plan) \in Repair!Ids
      BY <1>0, <2>2, AtIs DEF RunKnows, RepairTyped
    <3>q. QED BY <1>0, <1>3, <1>6, <3>1 DEF Knows
  <2>q. QED BY <2>1, <2>2
<1>q. QED BY <1>5, <1>7, <1>8 DEF RepairInv

\* The repair keeps its inductive invariant: its runs do not overlap, from the listing to
\* the POST no protective order works, and an entry is written before its POST.
THEOREM RepairInvariant == Repair!Spec => []RepairInv
<1>1. RepairInv /\ [Repair!Next]_(Repair!vars) => RepairInv'
  <2> SUFFICES ASSUME RepairInv, [Repair!Next]_(Repair!vars) PROVE RepairInv'
    OBVIOUS
  <2>1. CASE UNCHANGED Repair!vars
    BY <2>1 DEF Repair!vars, RepairInv, RepairTyped, OneRun, RunKnows, Knows, OneLive, Repair!Live,
        Repair!PostedIsWritten, CancelledHasEnded
  <2>2. CASE \E l \in Repair!Lanes : Repair!RunStep(l)
    BY <2>2, StartStep, ReadStep, FileStep, PostStep DEF Repair!RunStep
  <2>3. CASE Repair!LookAndLeave \/ Repair!Look \/ Repair!CannotCancel \/ Repair!StartCancel
          \/ Repair!VerifyRollback
    BY <2>3, FileStep
  <2>4. CASE Repair!Delete
    BY <2>4, DeleteStep
  <2>5. CASE \E i \in Repair!Ids : Repair!Fill(i) \/ Repair!Ends(i)
    BY <2>5, BrokerStep
  <2>q. QED BY <2>1, <2>2, <2>3, <2>4, <2>5 DEF Repair!Next
<1>q. QED BY <1>1, RepairInit, PTL DEF Repair!Spec

\* One protective order works at the most, each order at the broker has an entry in a
\* ledger, and a rollback recorded as terminal has ended its order.
THEOREM ProtectionIsOne ==
  Repair!Spec => [](Repair!TypeOK /\ Repair!OneProtection /\ Repair!PostedIsWritten /\ Repair!CancelledIsGone)
<1>1. RepairInv => Repair!TypeOK
  <2> SUFFICES ASSUME RepairInv PROVE Repair!TypeOK
    OBVIOUS
  <2>1. \A l \in Repair!Lanes : orRun[l] = Repair!Idle \/ orRun[l].plan \in Repair!Plans
    BY DEF RepairInv, RepairTyped, RepairJobs
  <2>q. QED BY <2>1 DEF RepairInv, RepairTyped, Repair!TypeOK
<1>2. RepairInv => Repair!OneProtection
  <2> SUFFICES ASSUME RepairInv PROVE Cardinality(Repair!Live) <= 1
    BY RepairCounts DEF Repair!OneProtection
  <2>1. CASE Repair!Live = {}
    BY <2>1, FS_EmptySet
  <2>2. CASE Repair!Live # {}
    <3>1. PICK i : Repair!Live = {i}
      BY <2>2 DEF RepairInv, OneLive
    <3>q. QED BY <3>1, FS_Singleton
  <2>q. QED BY <2>1, <2>2
<1>3. RepairInv => Repair!CancelledIsGone
  BY DEF RepairInv, CancelledHasEnded, Repair!CancelledIsGone, Repair!Live
<1>q. QED BY <1>1, <1>2, <1>3, RepairInvariant, PTL DEF RepairInv

-------------------------------------------------------------------------------
(* The admission of new entries. A payload is passed only if it keeps the  *)
(* caps together with what passed before it in the order; the last one     *)
(* that passes bounds them all (PassKeepsCaps). What fills, ends or is     *)
(* recorded between the reads moves symbols among the rows, the open       *)
(* orders, the holdings and the run, and adds none to their union.         *)

\* The instance counts as the library does.
LEMMA AdmissionCounts == ASSUME NEW S PROVE Admission!Cardinality(S) = Cardinality(S)
  BY Zenon DEF Admission!Cardinality, Cardinality

AdmissionSteps == {"idle", "monitor", "readOpen", "admit", "submit", "post", "save"}
AdmissionRuns ==
  [step : AdmissionSteps, listed : SUBSET EntrySymbols, audit : SUBSET EntrySymbols, plan : Seq(EntrySymbols),
      shown : SUBSET EntrySymbols,
   seenOpen : SUBSET EntrySymbols, turned : SUBSET EntrySymbols, left : Seq(EntrySymbols),
       guarded : SUBSET EntrySymbols,
   said : [EntrySymbols -> {"none", "open", "filled", "failed"}], failed : SUBSET {"plan", "open", "held"},
   kept : SUBSET EntrySymbols, fresh : SUBSET EntrySymbols]
RowsTo(t) ==
  [status : Admission!Active \cup Admission!Terminal, first : 0..t, seen : 0..t] \cup {Admission!NoRow}

AdmissionTyped ==
  /\ paNow \in 0..PaMaxNow /\ paOpen \subseteq EntrySymbols /\ paHeld \subseteq EntrySymbols
  /\ paLedger \in [EntrySymbols -> RowsTo(paNow)]
  /\ paRun \in AdmissionRuns
  /\ Admission!ToSet(paRun.plan) \subseteq paRun.audit /\ Admission!ToSet(paRun.left) \subseteq paRun.audit
      /\ paRun.audit \subseteq paRun.listed
  /\ paRun.step \in {"idle", "monitor", "readOpen", "admit"} => paRun.left = <<>> /\ paRun.fresh = {}
      /\ Admission!Posted = {}

\* What the run has let through and not posted yet belongs to the open entries.
OpenInv ==
  /\ paRun.step = "admit" /\ "open" \notin paRun.failed => paOpen \subseteq paRun.seenOpen
  /\ "open" \notin PaFaults =>
       /\ "open" \notin paRun.failed
       /\ Cardinality(paOpen \cup Admission!ToSet(paRun.left)) <= PaMaxOpenEntryOrders
       /\ paRun.step = "admit" => Cardinality(paRun.seenOpen) <= PaMaxOpenEntryOrders

KeptInv ==
  /\ "plan" \notin paRun.failed => Admission!ToSet(paRun.plan) \cap paRun.kept = {}
  /\ ~({"plan", "held"} \subseteq paRun.failed)
      => (Admission!ToSet(paRun.left) \cup Admission!Posted) \cap paRun.kept = {}

\* What may be exposed before the run ends.
Exposed == paOpen \cup paHeld \cup Admission!ToSet(paRun.left) \cup paRun.fresh
FreshInv ==
  paRun.fresh # {} /\ paRun.failed \cap {"open", "held"} = {} =>
    /\ Cardinality(Admission!ActiveRows \cup Exposed) <= PaMaxActiveSymbolsTotal
    /\ Cardinality(Admission!NewToday \cup paRun.fresh) <= PaMaxNewSymbolsPerDay
    /\ \A s \in paRun.fresh :
         Cardinality((Admission!ActiveRows \cup (Exposed \cap paRun.listed)) \cap Admission!Sector(s))
             <= PaMaxSectorActiveSymbols

AdmissionInv == AdmissionTyped /\ OpenInv /\ KeptInv /\ FreshInv

-------------------------------------------------------------------------------
(* Sets of symbols, and payloads in their order *)

LEMMA SymbolSets ==
  ASSUME NEW S \in SUBSET EntrySymbols
  PROVE  IsFiniteSet(S) /\ Cardinality(S) \in Nat /\ \A T \in SUBSET S : Cardinality(T) <= Cardinality(S)
BY FS_Subset, FS_CardinalityType, AdmissionAssumption

LEMMA ToSetIs ==
  ASSUME NEW S, NEW q \in Seq(S)
  PROVE  Admission!ToSet(q) = {q[i] : i \in 1..Len(q)} /\ Admission!ToSet(q) \subseteq S
BY DEF Admission!ToSet

LEMMA EmptyToSet == Admission!ToSet(<<>>) = {} /\ \A S : <<>> \in Seq(S)
BY DEF Admission!ToSet

LEMMA TailToSet ==
  ASSUME NEW S, NEW q \in Seq(S), q # <<>>
  PROVE  /\ Tail(q) \in Seq(S) /\ Admission!ToSet(Tail(q)) \subseteq Admission!ToSet(q)
            /\ Head(q) \in Admission!ToSet(q) /\ Head(q) \in S
         /\ Admission!ToSet(q) = {Head(q)} \cup Admission!ToSet(Tail(q))
<1>1. Tail(q) \in Seq(S) /\ Len(q) \in Nat /\ Len(q) >= 1 /\ Len(Tail(q)) = Len(q) - 1 /\ Head(q) = q[1]
      /\ \A i \in 1..Len(Tail(q)) : Tail(q)[i] = q[i + 1]
  OBVIOUS
<1>2. Admission!ToSet(q) = {q[i] : i \in 1..Len(q)}
        /\ Admission!ToSet(Tail(q)) = {Tail(q)[i] : i \in 1..Len(Tail(q))}
  BY <1>1, ToSetIs
<1>3. Admission!ToSet(Tail(q)) \subseteq Admission!ToSet(q)
  BY <1>1, <1>2
<1>4. Head(q) \in Admission!ToSet(q) /\ Head(q) \in S
  BY <1>1, <1>2
<1>5. ASSUME NEW x \in Admission!ToSet(q), x # Head(q) PROVE x \in Admission!ToSet(Tail(q))
  <2>1. PICK i \in 1..Len(q) : x = q[i]
    BY <1>2
  <2>2. i - 1 \in 1..Len(Tail(q)) /\ Tail(q)[i - 1] = q[i]
    BY <1>1, <1>5, <2>1
  <2>q. QED BY <1>2, <2>1, <2>2
<1>q. QED BY <1>1, <1>3, <1>4, <1>5

LEMMA OrderingIs ==
  ASSUME NEW S \in SUBSET EntrySymbols, NEW q \in Admission!SetToSeqs(S)
  PROVE  q \in Seq(S) /\ q \in Seq(EntrySymbols) /\ Admission!ToSet(q) \subseteq S
<1>1. Cardinality(S) \in Nat
  BY SymbolSets
<1>2. q \in [1..Cardinality(S) -> S]
  BY AdmissionCounts DEF Admission!SetToSeqs
<1>3. q \in Seq(S)
  BY <1>1, <1>2
<1>q. QED BY <1>3, ToSetIs

\* Among finitely many numbers there is a largest.
LEMMA LargestIs ==
  ASSUME NEW S \in SUBSET Nat, IsFiniteSet(S), S # {}
  PROVE  \E x \in S : \A y \in S : y <= x
<1> DEFINE Up(x) == {y \in S : y > x}
           T == {Up(x) : x \in S}
<1>0. \A z \in S : z \in Nat
  OBVIOUS
<1>1. T \subseteq FiniteSubsetsOf(S) /\ T # {}
  <2>1. \A x \in S : Up(x) \subseteq S /\ IsFiniteSet(Up(x))
    BY FS_Subset
  <2> HIDE DEF Up
  <2>q. QED BY <2>1 DEF FiniteSubsetsOf
<1>2. IsWellFoundedOn(StrictSubsetOrdering(S), FiniteSubsetsOf(S))
  BY FS_StrictSubsetOrderingWellFounded
<1>3. PICK t \in T : \A u \in T : ~(<<u, t>> \in StrictSubsetOrdering(S))
  <2> HIDE DEF T
  <2>q. QED BY <1>1, <1>2, WFMin
<1>4. PICK x \in S : t = Up(x)
  OBVIOUS
<1>5. ASSUME NEW y \in S, ~(y <= x) PROVE FALSE
  <2>1. y > x
    BY <1>0, <1>5
  <2>0. x \in Nat /\ y \in Nat
    BY <1>0
  <2>4. \A z \in S : z > y => z > x
    BY <1>0, <2>0, <2>1
  <2>5. ~(y > y)
    BY <2>0
  <2>2. Up(y) \subseteq Up(x) /\ y \in Up(x) /\ y \notin Up(y)
    BY <2>1, <2>4, <2>5
  <2>3. <<Up(y), t>> \in StrictSubsetOrdering(S)
    BY <1>4, <2>2 DEF StrictSubsetOrdering
  <2>q. QED BY <1>3, <2>3
<1>q. QED BY <1>5

\* Of the payloads of a set there is a last one; the others come before it.
LEMMA LastPayload ==
  ASSUME NEW q \in Seq(EntrySymbols), NEW X \in SUBSET Admission!ToSet(q), X # {}
  PROVE  \E i \in DOMAIN q : q[i] \in X /\ \A x \in X \ {q[i]} : x \in {q[j] : j \in 1..(i - 1)}
<1> DEFINE I == {i \in 1..Len(q) : q[i] \in X}
<1>1. Len(q) \in Nat /\ DOMAIN q = 1..Len(q) /\ Admission!ToSet(q) = {q[i] : i \in 1..Len(q)}
  BY ToSetIs
<1>2. I \in SUBSET Nat /\ I # {}
  BY <1>1
<1>3. IsFiniteSet(I)
  <2>1. IsFiniteSet(1..Len(q)) /\ I \subseteq 1..Len(q)
    BY <1>1, FS_Interval
  <2>q. QED BY <2>1, FS_Subset
<1>4. PICK i \in I : \A j \in I : j <= i
  <2> HIDE DEF I
  <2>q. QED BY <1>2, <1>3, LargestIs
<1>5. ASSUME NEW x \in X \ {q[i]} PROVE x \in {q[j] : j \in 1..(i - 1)}
  <2>1. PICK j \in 1..Len(q) : x = q[j]
    BY <1>1
  <2>2. j \in I /\ j <= i /\ j # i /\ i \in Nat /\ j \in Nat /\ j >= 1
    BY <1>1, <1>4, <2>1
  <2>3. j \in 1..(i - 1)
    BY <2>2
  <2>q. QED BY <2>1, <2>3
<1>q. QED BY <1>1, <1>4, <1>5

LEMMA OneMoreSymbol ==
  ASSUME NEW S \in SUBSET EntrySymbols, NEW T \in SUBSET EntrySymbols, NEW x \in EntrySymbols, NEW n \in Nat,
         T \subseteq S \cup {x}, Cardinality(S) < n
  PROVE  Cardinality(T) <= n
<1>1. IsFiniteSet(S) /\ Cardinality(S) \in Nat
  BY SymbolSets
<1>2. S \cup {x} \in SUBSET EntrySymbols
  OBVIOUS
<1>3. Cardinality(S \cup {x}) <= Cardinality(S) + 1
  <2>1. CASE x \in S
    <3>1. S \cup {x} = S
      BY <2>1
    <3>q. QED BY <1>1, <3>1
  <2>2. CASE x \notin S
    <3>1. Cardinality(S \cup {x}) = Cardinality(S) + 1
      BY <1>1, <2>2, FS_AddElement
    <3>q. QED BY <1>1, <3>1
  <2>q. QED BY <2>1, <2>2
<1>4. Cardinality(T) <= Cardinality(S \cup {x}) /\ Cardinality(T) \in Nat /\ Cardinality(S \cup {x}) \in Nat
  BY <1>2, SymbolSets
<1>q. QED BY <1>1, <1>3, <1>4

\* A symbol's sector is that of every symbol in it.
LEMMA SectorIs ==
  ASSUME NEW s, NEW t \in Admission!Sector(s)
  PROVE  Admission!Sector(t) = Admission!Sector(s) /\ Admission!Sector(s) \subseteq EntrySymbols
<1>1. PICK k \in PaSectors : s \in k /\ t \in k
  BY DEF Admission!Sector
<1>2. \A l \in PaSectors : s \in l \/ t \in l => l = k
  BY <1>1, AdmissionAssumption
<1>3. Admission!Sector(s) = k /\ Admission!Sector(t) = k
  BY <1>1, <1>2 DEF Admission!Sector
<1>q. QED BY <1>1, <1>3, AdmissionAssumption

-------------------------------------------------------------------------------
(* The admission *)

\* What the payloads that pass leave of the caps, last payload by last payload.
LEMMA PassKeepsCaps ==
  ASSUME AdmissionTyped, NEW passed \in SUBSET Admission!ToSet(paRun.plan), NEW low,
         NEW seenHeld \in SUBSET EntrySymbols,
         Admission!Pass(passed, low, seenHeld), NEW fresh, passed \ Admission!Tracked(seenHeld) = fresh
  PROVE  /\ passed \cap seenHeld = {}
         /\ Cardinality(paRun.seenOpen) <= PaMaxOpenEntryOrders =>
              Cardinality(paRun.seenOpen \cup passed) <= PaMaxOpenEntryOrders
         /\ fresh # {} =>
              /\ Cardinality(Admission!Tracked(seenHeld) \cup fresh) <= PaMaxActiveSymbolsTotal
              /\ Cardinality(Admission!NewToday \cup fresh) <= PaMaxNewSymbolsPerDay
         /\ \A s \in fresh :
              Cardinality((Admission!Counted(seenHeld) \cup fresh) \cap Admission!Sector(s))
                  <= PaMaxSectorActiveSymbols
<1> DEFINE plan == paRun.plan
           Earlier(i) == {plan[j] : j \in 1..(i - 1)}
           New(i) == (passed \cap Earlier(i)) \ Admission!Tracked(seenHeld)
<1>1. plan \in Seq(EntrySymbols) /\ Admission!ToSet(plan) = {plan[i] : i \in DOMAIN plan}
        /\ Admission!ToSet(plan) \subseteq EntrySymbols
  <2>1. plan \in Seq(EntrySymbols)
    BY DEF AdmissionTyped, AdmissionRuns
  <2>q. QED BY <2>1, ToSetIs DEF Admission!ToSet
<1>2. /\ paRun.seenOpen \in SUBSET EntrySymbols /\ passed \in SUBSET EntrySymbols
         /\ Admission!NewToday \in SUBSET EntrySymbols
      /\ Admission!Tracked(seenHeld) \in SUBSET EntrySymbols
          /\ Admission!Counted(seenHeld) \in SUBSET EntrySymbols /\ fresh \in SUBSET passed
  BY <1>1 DEF AdmissionTyped, AdmissionRuns, Admission!NewToday, Admission!ActiveRows, Admission!Tracked,
      Admission!Counted
<1>3. \A i \in DOMAIN plan : plan[i] \in passed => Admission!Admits(plan[i], passed \cap Earlier(i), seenHeld)
  BY DEF Admission!Pass
<1>c. {PaMaxOpenEntryOrders, PaMaxNewSymbolsPerDay, PaMaxActiveSymbolsTotal, PaMaxSectorActiveSymbols}
        \subseteq Nat
  BY AdmissionAssumption
<1>d. \A i \in DOMAIN plan : New(i) \in SUBSET EntrySymbols /\ plan[i] \in EntrySymbols
  BY <1>1, <1>2
<1> HIDE DEF plan
<1>4. passed \cap seenHeld = {}
  <2>1. \A x \in passed : \E i \in DOMAIN plan : x = plan[i]
    BY <1>1 DEF plan
  <2>2. \A x \in passed : x \notin seenHeld
    BY <1>3, <2>1 DEF Admission!Admits
  <2>q. QED BY <2>2
<1>5. ASSUME Cardinality(paRun.seenOpen) <= PaMaxOpenEntryOrders
      PROVE  Cardinality(paRun.seenOpen \cup passed) <= PaMaxOpenEntryOrders
  <2> DEFINE X == passed \ paRun.seenOpen
  <2>1. CASE X = {}
    <3>1. paRun.seenOpen \cup passed = paRun.seenOpen
      BY <2>1
    <3>q. QED BY <1>5, <3>1
  <2>2. CASE X # {}
    <3>0. X \in SUBSET Admission!ToSet(plan)
      BY DEF plan
    <3>1. PICK i \in DOMAIN plan : plan[i] \in X /\ \A x \in X \ {plan[i]} : x \in Earlier(i)
      BY <1>1, <2>2, <3>0, LastPayload
    <3>2. Cardinality(paRun.seenOpen \cup (passed \cap Earlier(i))) < PaMaxOpenEntryOrders
      BY <1>3, <3>1, AdmissionCounts DEF Admission!Admits
    <3>3. paRun.seenOpen \cup passed \subseteq (paRun.seenOpen \cup (passed \cap Earlier(i))) \cup {plan[i]}
      BY <3>1
    <3>4. paRun.seenOpen \cup passed \in SUBSET EntrySymbols
            /\ paRun.seenOpen \cup (passed \cap Earlier(i)) \in SUBSET EntrySymbols
      BY <1>2
    <3> HIDE DEF Earlier
    <3>q. QED BY <1>c, <1>d, <3>2, <3>3, <3>4, OneMoreSymbol
  <2>q. QED BY <2>1, <2>2
<1>6. ASSUME NEW Z, fresh \cap Z # {}
      PROVE  \E i \in DOMAIN plan :
               /\ plan[i] \in fresh \cap Z /\ fresh \cap Z \subseteq New(i) \cup {plan[i]}
               /\ Admission!Admits(plan[i], passed \cap Earlier(i), seenHeld)
  <2>0. fresh \cap Z \in SUBSET Admission!ToSet(plan)
    BY DEF plan
  <2>1. PICK i \in DOMAIN plan : plan[i] \in fresh \cap Z
          /\ \A x \in (fresh \cap Z) \ {plan[i]} : x \in Earlier(i)
    BY <1>1, <1>6, <2>0, LastPayload
  <2>2. fresh \cap Z \subseteq New(i) \cup {plan[i]}
    BY <2>1
  <2>3. Admission!Admits(plan[i], passed \cap Earlier(i), seenHeld)
    BY <1>3, <2>1
  <2>q. QED BY <2>1, <2>2, <2>3
<1>7. ASSUME fresh # {}
      PROVE  /\ Cardinality(Admission!Tracked(seenHeld) \cup fresh) <= PaMaxActiveSymbolsTotal
             /\ Cardinality(Admission!NewToday \cup fresh) <= PaMaxNewSymbolsPerDay
  <2>1. PICK i \in DOMAIN plan : /\ plan[i] \in fresh /\ fresh \subseteq New(i) \cup {plan[i]}
                                /\ Admission!Admits(plan[i], passed \cap Earlier(i), seenHeld)
    <3>1. fresh \cap fresh = fresh
      OBVIOUS
    <3> HIDE DEF New, Earlier
    <3>q. QED BY <1>6, <1>7, <3>1
  <2>2. plan[i] \notin Admission!Tracked(seenHeld)
    BY <2>1
  <2>3. /\ Cardinality(Admission!NewToday) + Cardinality(New(i)) < PaMaxNewSymbolsPerDay
        /\ Cardinality(Admission!Tracked(seenHeld) \cup New(i)) < PaMaxActiveSymbolsTotal
    BY <2>1, <2>2, AdmissionCounts DEF Admission!Admits
  <2>4. Cardinality(Admission!NewToday \cup New(i)) <= Cardinality(Admission!NewToday) + Cardinality(New(i))
    <3>1. /\ IsFiniteSet(Admission!NewToday) /\ IsFiniteSet(New(i)) /\ Cardinality(Admission!NewToday) \in Nat
          /\ Cardinality(New(i)) \in Nat /\ Cardinality(Admission!NewToday \cap New(i)) \in Nat
      <4>1. Admission!NewToday \cap New(i) \in SUBSET EntrySymbols
        BY <1>2
      <4> HIDE DEF New
      <4>q. QED BY <1>2, <1>d, <4>1, SymbolSets
    <3> HIDE DEF New
    <3>2. Cardinality(Admission!NewToday \cup New(i)) = Cardinality(Admission!NewToday) + Cardinality(New(i)) - Cardinality(Admission!NewToday \cap New(i))
      BY <3>1, FS_Union
    <3>q. QED BY <3>1, <3>2
  <2> HIDE DEF New
  <2>5. Admission!NewToday \cup New(i) \in SUBSET EntrySymbols
          /\ Admission!Tracked(seenHeld) \cup New(i) \in SUBSET EntrySymbols
        /\ Admission!NewToday \cup fresh \in SUBSET EntrySymbols
            /\ Admission!Tracked(seenHeld) \cup fresh \in SUBSET EntrySymbols
    BY <1>2, <1>d
  <2>6. Cardinality(Admission!NewToday \cup New(i)) < PaMaxNewSymbolsPerDay
    <3>1. /\ Cardinality(Admission!NewToday) \in Nat /\ Cardinality(New(i)) \in Nat
             /\ Cardinality(Admission!NewToday \cup New(i)) \in Nat
      BY <1>2, <1>d, <2>5, SymbolSets
    <3>q. QED BY <1>c, <2>3, <2>4, <3>1
  <2>7. Admission!NewToday \cup fresh \subseteq (Admission!NewToday \cup New(i)) \cup {plan[i]}
    BY <2>1
  <2>8. Admission!Tracked(seenHeld) \cup fresh \subseteq (Admission!Tracked(seenHeld) \cup New(i))
          \cup {plan[i]}
    BY <2>1
  <2>9. Cardinality(Admission!NewToday \cup fresh) <= PaMaxNewSymbolsPerDay
    BY <1>c, <1>d, <2>5, <2>6, <2>7, OneMoreSymbol
  <2>10. Cardinality(Admission!Tracked(seenHeld) \cup fresh) <= PaMaxActiveSymbolsTotal
    BY <1>c, <1>d, <2>3, <2>5, <2>8, OneMoreSymbol
  <2>q. QED BY <2>9, <2>10
<1>8. ASSUME NEW s \in fresh
      PROVE  Cardinality((Admission!Counted(seenHeld) \cup fresh) \cap Admission!Sector(s))
             <= PaMaxSectorActiveSymbols
  <2>0. (Admission!Counted(seenHeld) \cup fresh) \cap Admission!Sector(s) \in SUBSET EntrySymbols
    BY <1>2
  <2>1. CASE fresh \cap Admission!Sector(s) # {}
    <3>1. PICK i \in DOMAIN plan :
             /\ plan[i] \in fresh \cap Admission!Sector(s)
                 /\ fresh \cap Admission!Sector(s) \subseteq New(i) \cup {plan[i]}
             /\ Admission!Admits(plan[i], passed \cap Earlier(i), seenHeld)
      <4> HIDE DEF New, Earlier
      <4>q. QED BY <1>6, <2>1
    <3>2. plan[i] \notin Admission!Tracked(seenHeld) /\ Admission!Sector(plan[i]) = Admission!Sector(s)
      <4>1. plan[i] \notin Admission!Tracked(seenHeld)
        BY <3>1
      <4>2. plan[i] \in Admission!Sector(s)
        BY <3>1
      <4>q. QED BY <4>1, <4>2, SectorIs
    <3>3. Cardinality((Admission!Counted(seenHeld) \cup New(i)) \cap Admission!Sector(s)) < PaMaxSectorActiveSymbols
      BY <3>1, <3>2, AdmissionCounts DEF Admission!Admits
    <3>4. (Admission!Counted(seenHeld) \cup fresh) \cap Admission!Sector(s)
            \subseteq ((Admission!Counted(seenHeld) \cup New(i)) \cap Admission!Sector(s)) \cup {plan[i]}
      BY <3>1
    <3>5. (Admission!Counted(seenHeld) \cup New(i)) \cap Admission!Sector(s) \in SUBSET EntrySymbols
      BY <1>2, <1>d
    <3> HIDE DEF New, Earlier
    <3>q. QED BY <1>c, <1>d, <2>0, <3>3, <3>4, <3>5, OneMoreSymbol
  <2>2. CASE fresh \cap Admission!Sector(s) = {}
    <3>1. Admission!Sector(s) = {}
      BY <2>2 DEF Admission!Sector
    <3>2. (Admission!Counted(seenHeld) \cup fresh) \cap Admission!Sector(s) = {}
      BY <3>1
    <3>3. Cardinality({}) = 0
      BY FS_EmptySet
    <3>q. QED BY <1>c, <3>2, <3>3
  <2>q. QED BY <2>1, <2>2
<1>q. QED BY <1>4, <1>5, <1>7, <1>8

-------------------------------------------------------------------------------
(* The invariant *)

LEMMA NoRunIs ==
  Admission!NoRun \in AdmissionRuns /\ Admission!NoRun.step = "idle" /\ Admission!NoRun.left = <<>>
      /\ Admission!NoRun.fresh = {} /\ Admission!NoRun.plan = <<>>
  /\ Admission!NoRun.failed = {} /\ Admission!NoRun.audit = {} /\ Admission!NoRun.listed = {}
      /\ \A s \in EntrySymbols : Admission!NoRun.said[s] = "none"
<1>1. <<>> \in Seq(EntrySymbols)
  OBVIOUS
<1>q. QED BY <1>1 DEF Admission!NoRun, AdmissionRuns, AdmissionSteps

\* Without a run there is nothing to keep but the cap on the orders that rest.
LEMMA IdleKeeps ==
  ASSUME NEW cap, cap <=> ("open" \notin PaFaults => Cardinality(paOpen') <= PaMaxOpenEntryOrders),
         paNow' \in 0..PaMaxNow, paOpen' \subseteq EntrySymbols, paHeld' \subseteq EntrySymbols,
         paLedger' \in [EntrySymbols -> RowsTo(paNow)'], paRun' = Admission!NoRun, cap
  PROVE  AdmissionInv'
<1>1. AdmissionTyped'
  BY NoRunIs, EmptyToSet DEF AdmissionTyped, Admission!Posted, AdmissionRuns, AdmissionSteps
<1>2. OpenInv'
  <2>1. paOpen' \cup Admission!ToSet(<<>>) = paOpen'
    BY EmptyToSet
  <2>q. QED BY <2>1, NoRunIs DEF OpenInv
<1>3. KeptInv' /\ FreshInv'
  BY NoRunIs, EmptyToSet DEF KeptInv, FreshInv, Admission!Posted
<1>q. QED BY <1>1, <1>2, <1>3 DEF AdmissionInv

\* A run past the admission that only posts what it let through, or less, keeps the caps.
LEMMA ShrinkingKeeps ==
  ASSUME AdmissionInv, UNCHANGED <<paNow, paLedger>>, paOpen' \subseteq EntrySymbols,
         paHeld' \subseteq EntrySymbols, paRun' \in AdmissionRuns,
         paRun'.audit = paRun.audit, paRun'.listed = paRun.listed, paRun'.fresh = paRun.fresh,
             paRun'.failed = paRun.failed,
         paRun'.kept = paRun.kept, Admission!ToSet(paRun'.plan) \subseteq Admission!ToSet(paRun.plan),
             Admission!ToSet(paRun'.left) \subseteq Admission!ToSet(paRun.left),
         paOpen' \subseteq paOpen \cup Admission!ToSet(paRun.left),
             paHeld' \subseteq paHeld \cup paOpen \cup Admission!ToSet(paRun.left),
         Admission!Posted' \subseteq Admission!Posted \cup Admission!ToSet(paRun.left),
         paRun'.step = "admit" => paRun'.seenOpen = paRun.seenOpen /\ paRun.step = "admit"
             /\ paOpen' \subseteq paOpen,
         paRun'.step \in {"idle", "monitor", "readOpen", "admit"} => paRun'.left = <<>> /\ paRun'.fresh = {}
             /\ Admission!Posted' = {}
  PROVE  AdmissionInv'
<1>1. AdmissionTyped'
  BY DEF AdmissionInv, AdmissionTyped, RowsTo
<1> DEFINE L == Admission!ToSet(paRun.left)
           M == Admission!ToSet(paRun'.left)
<1>0. L \in SUBSET EntrySymbols /\ M \in SUBSET EntrySymbols /\ M \subseteq L
  <2>1. paRun.left \in Seq(EntrySymbols) /\ paRun'.left \in Seq(EntrySymbols)
    BY DEF AdmissionInv, AdmissionTyped, AdmissionRuns
  <2>q. QED BY <2>1, ToSetIs
<1>2. OpenInv'
  <2>1. "open" \notin PaFaults => Cardinality(paOpen' \cup M) <= PaMaxOpenEntryOrders
    <3>1. paOpen' \cup M \subseteq paOpen \cup L /\ paOpen \cup L \in SUBSET EntrySymbols
            /\ paOpen' \cup M \in SUBSET EntrySymbols
      BY <1>0 DEF AdmissionInv, AdmissionTyped
    <3>2. Cardinality(paOpen' \cup M) <= Cardinality(paOpen \cup L) /\ Cardinality(paOpen' \cup M) \in Nat
            /\ Cardinality(paOpen \cup L) \in Nat
      BY <3>1, SymbolSets
    <3>3. "open" \notin PaFaults => Cardinality(paOpen \cup L) <= PaMaxOpenEntryOrders
      BY DEF AdmissionInv, OpenInv
    <3>q. QED BY <3>2, <3>3, AdmissionAssumption
  <2>2. "open" \notin PaFaults => "open" \notin paRun.failed
          /\ (paRun.step = "admit" => Cardinality(paRun.seenOpen) <= PaMaxOpenEntryOrders)
    BY DEF AdmissionInv, OpenInv
  <2>3. paRun.step = "admit" /\ "open" \notin paRun.failed => paOpen \subseteq paRun.seenOpen
    BY DEF AdmissionInv, OpenInv
  <2> HIDE DEF L
  <2>q. QED BY <2>1, <2>2, <2>3 DEF OpenInv
<1>3. KeptInv'
  BY DEF AdmissionInv, KeptInv
<1>4. FreshInv'
  <2>0. Admission!ActiveRows' = Admission!ActiveRows /\ Admission!NewToday' = Admission!NewToday
    BY DEF Admission!ActiveRows, Admission!NewToday, Admission!Day
  <2>1. Admission!ActiveRows \in SUBSET EntrySymbols /\ Exposed \in SUBSET EntrySymbols
          /\ Exposed' \in SUBSET EntrySymbols /\ Exposed' \subseteq Exposed
    <3>1. paRun.fresh \in SUBSET EntrySymbols
      BY DEF AdmissionInv, AdmissionTyped, AdmissionRuns
    <3>q. QED BY <1>0, <3>1 DEF AdmissionInv, AdmissionTyped, Exposed, Admission!ActiveRows
  <2>2. Cardinality(Admission!ActiveRows \cup Exposed') <= Cardinality(Admission!ActiveRows \cup Exposed)
        /\ Cardinality(Admission!ActiveRows \cup Exposed') \in Nat
            /\ Cardinality(Admission!ActiveRows \cup Exposed) \in Nat
    <3>1. Admission!ActiveRows \cup Exposed' \subseteq Admission!ActiveRows \cup Exposed
            /\ Admission!ActiveRows \cup Exposed \in SUBSET EntrySymbols
          /\ Admission!ActiveRows \cup Exposed' \in SUBSET EntrySymbols
      BY <2>1
    <3>q. QED BY <3>1, SymbolSets
  <2>3. \A s \in paRun.fresh :
          /\ Cardinality((Admission!ActiveRows \cup (Exposed' \cap paRun.listed)) \cap Admission!Sector(s))
               <= Cardinality((Admission!ActiveRows \cup (Exposed \cap paRun.listed)) \cap Admission!Sector(s))
          /\ Cardinality((Admission!ActiveRows \cup (Exposed' \cap paRun.listed)) \cap Admission!Sector(s)) \in Nat
          /\ Cardinality((Admission!ActiveRows \cup (Exposed \cap paRun.listed)) \cap Admission!Sector(s)) \in Nat
    <3> TAKE s \in paRun.fresh
    <3> DEFINE A == (Admission!ActiveRows \cup (Exposed' \cap paRun.listed)) \cap Admission!Sector(s)
               B == (Admission!ActiveRows \cup (Exposed \cap paRun.listed)) \cap Admission!Sector(s)
    <3>1. A \in SUBSET EntrySymbols /\ B \in SUBSET EntrySymbols /\ A \subseteq B
      BY <2>1
    <3> HIDE DEF A, B
    <3>2. Cardinality(A) <= Cardinality(B) /\ Cardinality(A) \in Nat /\ Cardinality(B) \in Nat
      BY <3>1, SymbolSets
    <3>q. QED BY <3>2 DEF A, B
  <2>4. SUFFICES ASSUME paRun.fresh # {}, paRun.failed \cap {"open", "held"} = {}
                 PROVE  /\ Cardinality(Admission!ActiveRows \cup Exposed') <= PaMaxActiveSymbolsTotal
                        /\ Cardinality(Admission!NewToday \cup paRun.fresh) <= PaMaxNewSymbolsPerDay
                        /\ \A s \in paRun.fresh :
                             Cardinality((Admission!ActiveRows \cup (Exposed' \cap paRun.listed)) \cap Admission!Sector(s)) <= PaMaxSectorActiveSymbols
    <3>1. \A s : Admission!Sector(s)' = Admission!Sector(s)
      BY DEF Admission!Sector
    <3>q. QED BY <2>0, <2>4, <3>1 DEF FreshInv
  <2>5. /\ Cardinality(Admission!ActiveRows \cup Exposed) <= PaMaxActiveSymbolsTotal
        /\ Cardinality(Admission!NewToday \cup paRun.fresh) <= PaMaxNewSymbolsPerDay
        /\ \A s \in paRun.fresh :
             Cardinality((Admission!ActiveRows \cup (Exposed \cap paRun.listed)) \cap Admission!Sector(s))
                 <= PaMaxSectorActiveSymbols
    BY <2>4 DEF AdmissionInv, FreshInv
  <2>c. PaMaxActiveSymbolsTotal \in Nat /\ PaMaxSectorActiveSymbols \in Nat
    BY AdmissionAssumption
  <2>6. Cardinality(Admission!ActiveRows \cup Exposed') <= PaMaxActiveSymbolsTotal
    BY <2>2, <2>5, <2>c
  <2>7. \A s \in paRun.fresh : Cardinality((Admission!ActiveRows \cup (Exposed' \cap paRun.listed)) \cap Admission!Sector(s)) <= PaMaxSectorActiveSymbols
    <3> TAKE s \in paRun.fresh
    <3> DEFINE a == Cardinality((Admission!ActiveRows \cup (Exposed' \cap paRun.listed)) \cap Admission!Sector(s))
               b == Cardinality((Admission!ActiveRows \cup (Exposed \cap paRun.listed)) \cap Admission!Sector(s))
    <3>1. a <= b /\ a \in Nat /\ b \in Nat /\ b <= PaMaxSectorActiveSymbols
      BY <2>3, <2>5
    <3> HIDE DEF a, b
    <3>2. a <= PaMaxSectorActiveSymbols
      BY <2>c, <3>1
    <3>q. QED BY <3>2 DEF a
  <2>q. QED BY <2>5, <2>6, <2>7
<1>q. QED BY <1>1, <1>2, <1>3, <1>4 DEF AdmissionInv

-------------------------------------------------------------------------------
(* The steps *)

LEMMA OpenIsCapped ==
  ASSUME AdmissionInv, NEW S \in SUBSET paOpen, "open" \notin PaFaults
  PROVE  Cardinality(S) <= PaMaxOpenEntryOrders
<1> DEFINE L == Admission!ToSet(paRun.left)
<1>1. L \subseteq EntrySymbols
  <2>1. paRun.left \in Seq(EntrySymbols)
    BY DEF AdmissionInv, AdmissionTyped, AdmissionRuns
  <2>q. QED BY <2>1, ToSetIs
<1>2. S \subseteq paOpen \cup L /\ paOpen \cup L \in SUBSET EntrySymbols /\ S \in SUBSET EntrySymbols
  BY <1>1 DEF AdmissionInv, AdmissionTyped
<1>3. Cardinality(paOpen \cup L) <= PaMaxOpenEntryOrders
  BY DEF AdmissionInv, OpenInv
<1>4. Cardinality(S) <= Cardinality(paOpen \cup L) /\ Cardinality(S) \in Nat
        /\ Cardinality(paOpen \cup L) \in Nat
  BY <1>2, SymbolSets
<1>q. QED BY <1>3, <1>4, AdmissionAssumption

LEMMA TickKept ==
  ASSUME AdmissionInv, Admission!Tick
  PROVE  AdmissionInv'
<1>1. paNow' \in 0..PaMaxNow
  BY AdmissionAssumption DEF AdmissionInv, AdmissionTyped, Admission!Tick
<1>2. RowsTo(paNow) \subseteq RowsTo(paNow')
  BY <1>1, AdmissionAssumption DEF RowsTo, AdmissionInv, AdmissionTyped, Admission!Tick
<1>3. paLedger' \in [EntrySymbols -> RowsTo(paNow)'] /\ paOpen' \subseteq EntrySymbols
        /\ paHeld' \subseteq EntrySymbols /\ paRun' = Admission!NoRun
  BY <1>2 DEF AdmissionInv, AdmissionTyped, Admission!Tick, RowsTo
<1>4. "open" \notin PaFaults => Cardinality(paOpen') <= PaMaxOpenEntryOrders
  BY OpenIsCapped DEF Admission!Tick
<1>q. QED BY <1>1, <1>3, <1>4, IdleKeeps

LEMMA BrokerKept ==
  ASSUME AdmissionInv, NEW s \in EntrySymbols,
         Admission!Fill(s) \/ Admission!EntryEnds(s) \/ Admission!PositionEnds(s)
  PROVE  AdmissionInv'
<1>1. UNCHANGED <<paNow, paLedger, paRun>> /\ paOpen' \subseteq paOpen /\ paHeld' \subseteq paHeld \cup paOpen
  BY DEF Admission!Fill, Admission!EntryEnds, Admission!PositionEnds
<1>2. Admission!Posted' = Admission!Posted
  BY <1>1 DEF Admission!Posted
<1>3. AdmissionTyped
  BY DEF AdmissionInv
<1>4. paOpen' \subseteq EntrySymbols /\ paHeld' \subseteq EntrySymbols /\ paRun' \in AdmissionRuns
  BY <1>1, <1>3 DEF AdmissionTyped
<1>5. paRun'.step \in {"idle", "monitor", "readOpen", "admit"} => paRun'.left = <<>> /\ paRun'.fresh = {}
        /\ Admission!Posted' = {}
  BY <1>1, <1>2, <1>3 DEF AdmissionTyped
<1>6. Admission!ToSet(paRun'.plan) = Admission!ToSet(paRun.plan)
        /\ Admission!ToSet(paRun'.left) = Admission!ToSet(paRun.left)
  BY <1>1
<1>7. /\ paRun'.audit = paRun.audit /\ paRun'.listed = paRun.listed /\ paRun'.fresh = paRun.fresh
         /\ paRun'.failed = paRun.failed
      /\ paRun'.kept = paRun.kept /\ paRun'.step = paRun.step /\ paRun'.seenOpen = paRun.seenOpen
  BY <1>1
<1>q. QED BY <1>1, <1>2, <1>4, <1>5, <1>6, <1>7, ShrinkingKeeps

LEMMA PlanKept ==
  ASSUME AdmissionInv, Admission!Plan
  PROVE  AdmissionInv'
<1>1. PICK audit \in SUBSET EntrySymbols,
        fails \in {{}, {"plan"}} : \E listed \in {audit, EntrySymbols} : \E executable \in SUBSET audit :
        LET shownHeld == IF fails = {} THEN paHeld ELSE {}
            turned == {s \in executable : Admission!PreBlocked(s, shownHeld)}
        IN  \E plan \in Admission!SetToSeqs(executable \ turned) :
              paRun' = [Admission!NoRun EXCEPT !.step = "monitor", !.listed = listed, !.audit = audit,
                          !.plan = plan, !.turned = turned, !.failed = fails, !.kept = paHeld \cap executable]
  BY DEF Admission!Plan
<1>2. PICK listed \in {audit, EntrySymbols} : \E executable \in SUBSET audit :
        LET shownHeld == IF fails = {} THEN paHeld ELSE {}
            turned == {s \in executable : Admission!PreBlocked(s, shownHeld)}
        IN  \E plan \in Admission!SetToSeqs(executable \ turned) :
              paRun' = [Admission!NoRun EXCEPT !.step = "monitor", !.listed = listed, !.audit = audit,
                          !.plan = plan, !.turned = turned, !.failed = fails, !.kept = paHeld \cap executable]
  BY <1>1
<1>3. PICK executable \in SUBSET audit :
        LET shownHeld == IF fails = {} THEN paHeld ELSE {}
            turned == {s \in executable : Admission!PreBlocked(s, shownHeld)}
        IN  \E plan \in Admission!SetToSeqs(executable \ turned) :
              paRun' = [Admission!NoRun EXCEPT !.step = "monitor", !.listed = listed, !.audit = audit,
                          !.plan = plan, !.turned = turned, !.failed = fails, !.kept = paHeld \cap executable]
  BY <1>2
<1> DEFINE shownHeld == IF fails = {} THEN paHeld ELSE {}
           turned == {s \in executable : Admission!PreBlocked(s, shownHeld)}
<1>4. PICK plan \in Admission!SetToSeqs(executable \ turned) :
        paRun' = [Admission!NoRun EXCEPT !.step = "monitor", !.listed = listed, !.audit = audit,
                    !.plan = plan, !.turned = turned, !.failed = fails, !.kept = paHeld \cap executable]
  BY <1>3
<1>5. turned \in SUBSET EntrySymbols /\ executable \in SUBSET EntrySymbols /\ listed \in SUBSET EntrySymbols
        /\ paHeld \cap executable \in SUBSET EntrySymbols
  OBVIOUS
<1>6. plan \in Seq(EntrySymbols) /\ Admission!ToSet(plan) \subseteq executable \ turned
  BY <1>5, OrderingIs
<1>7. fails = {} => turned = executable \cap paHeld
  BY DEF Admission!PreBlocked
<1> HIDE DEF turned
<1>8. paRun' \in AdmissionRuns
  BY <1>4, <1>5, <1>6, NoRunIs DEF AdmissionRuns, AdmissionSteps
<1>9. /\ paRun'.step = "monitor" /\ paRun'.plan = plan /\ paRun'.left = <<>> /\ paRun'.fresh = {}
         /\ paRun'.audit = audit
      /\ paRun'.listed = listed /\ paRun'.failed = fails /\ paRun'.kept = paHeld \cap executable
          /\ paRun'.said = Admission!NoRun.said
  BY <1>4, NoRunIs DEF AdmissionRuns
<1>10. Admission!Posted' = {}
  BY <1>9, NoRunIs DEF Admission!Posted
<1>11. UNCHANGED <<paNow, paLedger, paOpen, paHeld>>
  BY DEF Admission!Plan
<1>12. AdmissionTyped'
  <2>1. Admission!ToSet(paRun'.plan) \subseteq paRun'.audit
          /\ Admission!ToSet(paRun'.left) \subseteq paRun'.audit /\ paRun'.audit \subseteq paRun'.listed
    BY <1>6, <1>9, EmptyToSet
  <2>q. QED BY <1>8, <1>9, <1>10, <1>11, <2>1 DEF AdmissionInv, AdmissionTyped, RowsTo
<1>13. OpenInv'
  <2>1. "open" \notin PaFaults => Cardinality(paOpen) <= PaMaxOpenEntryOrders
    BY OpenIsCapped
  <2>2. paOpen' \cup Admission!ToSet(paRun'.left) = paOpen
    BY <1>9, <1>11, EmptyToSet
  <2>q. QED BY <1>9, <1>11, <2>1, <2>2 DEF OpenInv
<1>14. KeptInv'
  BY <1>6, <1>7, <1>9, <1>10, EmptyToSet DEF KeptInv
<1>15. FreshInv'
  BY <1>9 DEF FreshInv
<1>q. QED BY <1>12, <1>13, <1>14, <1>15 DEF AdmissionInv

LEMMA MonitorKept ==
  ASSUME AdmissionInv, Admission!Monitor
  PROVE  AdmissionInv'
<1>1. PICK shown \in SUBSET paOpen : paRun' = [paRun EXCEPT !.step = "readOpen", !.shown = shown]
  BY DEF Admission!Monitor
<1>2. paRun \in AdmissionRuns /\ shown \in SUBSET EntrySymbols
  BY DEF AdmissionInv, AdmissionTyped
<1>3. paRun' \in AdmissionRuns
  BY <1>1, <1>2 DEF AdmissionRuns, AdmissionSteps
<1>4. /\ paRun'.audit = paRun.audit /\ paRun'.listed = paRun.listed /\ paRun'.fresh = paRun.fresh
         /\ paRun'.failed = paRun.failed
      /\ paRun'.kept = paRun.kept /\ paRun'.step = "readOpen" /\ paRun'.plan = paRun.plan
          /\ paRun'.left = paRun.left /\ paRun'.said = paRun.said
  BY <1>1, <1>2 DEF AdmissionRuns
<1>5. UNCHANGED <<paNow, paLedger, paOpen, paHeld>> /\ paRun.step = "monitor"
  BY DEF Admission!Monitor
<1>6. Admission!Posted' = Admission!Posted
  BY <1>4 DEF Admission!Posted
<1>7. paOpen' \subseteq EntrySymbols /\ paHeld' \subseteq EntrySymbols
  BY <1>5 DEF AdmissionInv, AdmissionTyped
<1>8. paRun.left = <<>> /\ paRun.fresh = {} /\ Admission!Posted = {}
  BY <1>5 DEF AdmissionInv, AdmissionTyped
<1>q. QED BY <1>3, <1>4, <1>5, <1>6, <1>7, <1>8, ShrinkingKeeps

LEMMA ReadOpenKept ==
  ASSUME AdmissionInv, Admission!ReadOpen
  PROVE  AdmissionInv'
<1>1. /\ paRun.step = "readOpen" /\ UNCHANGED <<paNow, paLedger, paOpen, paHeld>>
      /\ \/ paRun' = [paRun EXCEPT !.step = "admit", !.seenOpen = paOpen]
         \/ "open" \in PaFaults /\ paRun' = [paRun EXCEPT !.step = "admit", !.failed = @ \cup {"open"}]
  BY DEF Admission!ReadOpen
<1>2. paRun \in AdmissionRuns /\ paOpen \in SUBSET EntrySymbols
  BY DEF AdmissionInv, AdmissionTyped
<1> DEFINE more == paRun.failed \cup {"open"}
<1>m. more \in SUBSET {"plan", "open", "held"} /\ paRun.failed \subseteq more /\ "open" \in more
  BY <1>2 DEF AdmissionRuns
<1> HIDE DEF more
<1> DEFINE Same == /\ paRun' \in AdmissionRuns
                   /\ paRun'.audit = paRun.audit /\ paRun'.listed = paRun.listed /\ paRun'.fresh = paRun.fresh
                       /\ paRun'.said = paRun.said
                   /\ paRun'.kept = paRun.kept /\ paRun'.step = "admit" /\ paRun'.plan = paRun.plan
                       /\ paRun'.left = paRun.left
           Seen == \/ paRun'.failed = paRun.failed /\ paRun'.seenOpen = paOpen
                   \/ "open" \in PaFaults /\ "open" \in paRun'.failed /\ paRun'.failed = more
<1>4. Same /\ Seen
  <2>e. CASE paRun' = [paRun EXCEPT !.step = "admit", !.seenOpen = paOpen]
    <3>1. paRun' \in AdmissionRuns
      BY <1>2, <2>e DEF AdmissionRuns, AdmissionSteps
    <3>2. /\ paRun'.audit = paRun.audit /\ paRun'.listed = paRun.listed /\ paRun'.fresh = paRun.fresh
          /\ paRun'.kept = paRun.kept /\ paRun'.step = "admit" /\ paRun'.plan = paRun.plan
              /\ paRun'.left = paRun.left /\ paRun'.said = paRun.said
          /\ paRun'.failed = paRun.failed /\ paRun'.seenOpen = paOpen
      BY <1>2, <2>e DEF AdmissionRuns
    <3>q. QED BY <3>1, <3>2
  <2>f. CASE "open" \in PaFaults /\ paRun' = [paRun EXCEPT !.step = "admit", !.failed = @ \cup {"open"}]
    <3>0. paRun' = [paRun EXCEPT !.step = "admit", !.failed = more]
      BY <2>f DEF more
    <3>1. paRun' \in AdmissionRuns
      BY <1>2, <1>m, <3>0 DEF AdmissionRuns, AdmissionSteps
    <3>2. /\ paRun'.audit = paRun.audit /\ paRun'.listed = paRun.listed /\ paRun'.fresh = paRun.fresh
          /\ paRun'.kept = paRun.kept /\ paRun'.step = "admit" /\ paRun'.plan = paRun.plan
              /\ paRun'.left = paRun.left /\ paRun'.said = paRun.said
          /\ paRun'.failed = more
      BY <1>2, <3>0 DEF AdmissionRuns
    <3>q. QED BY <2>f, <3>1, <3>2
  <2>q. QED BY <1>1, <2>e, <2>f
<1>3. paRun' \in AdmissionRuns /\ paRun.failed \subseteq paRun'.failed
  BY <1>4, <1>m
<1>5. paRun.left = <<>> /\ paRun.fresh = {} /\ Admission!Posted = {} /\ Admission!Posted' = {}
  BY <1>1, <1>4 DEF AdmissionInv, AdmissionTyped, Admission!Posted
<1>6. AdmissionTyped'
  BY <1>1, <1>3, <1>4, <1>5 DEF AdmissionInv, AdmissionTyped, RowsTo
<1>7. OpenInv'
  <2>1. paOpen' \cup Admission!ToSet(paRun'.left) = paOpen
    BY <1>1, <1>4, <1>5, EmptyToSet
  <2>2. "open" \notin PaFaults => Cardinality(paOpen) <= PaMaxOpenEntryOrders /\ "open" \notin paRun.failed
    BY OpenIsCapped DEF AdmissionInv, OpenInv
  <2>q. QED BY <1>1, <1>4, <2>1, <2>2 DEF OpenInv
<1>8. KeptInv'
  BY <1>3, <1>4, <1>5, EmptyToSet DEF AdmissionInv, KeptInv
<1>9. FreshInv'
  BY <1>4, <1>5 DEF FreshInv
<1>q. QED BY <1>6, <1>7, <1>8, <1>9 DEF AdmissionInv

LEMMA AdmitKept ==
  ASSUME AdmissionInv, Admission!Admit
  PROVE  AdmissionInv'
<1>1. PICK fails \in {{}, {"held"}}, low \in SUBSET Admission!ToSet(paRun.plan),
        passed \in SUBSET Admission!ToSet(paRun.plan) :
        LET seenHeld == IF fails = {} THEN paHeld ELSE {}
        IN  /\ fails \subseteq PaFaults /\ Admission!Pass(passed, low, seenHeld)
            /\ \E left \in Admission!SetToSeqs(passed) :
                 paRun' = [paRun EXCEPT !.step = "submit", !.plan = <<>>, !.seenOpen = {},
                             !.turned = @ \cup (Admission!ToSet(paRun.plan) \ passed), !.left = left,
                             !.failed = @ \cup fails, !.kept = @ \cap paHeld,
                             !.fresh = passed \ Admission!Tracked(seenHeld)]
  BY DEF Admission!Admit
<1> DEFINE seenHeld == IF fails = {} THEN paHeld ELSE {}
           fresh == passed \ Admission!Tracked(seenHeld)
           turned == paRun.turned \cup (Admission!ToSet(paRun.plan) \ passed)
           failed == paRun.failed \cup fails
           kept == paRun.kept \cap paHeld
<1>2. PICK left \in Admission!SetToSeqs(passed) :
        paRun' = [paRun EXCEPT !.step = "submit", !.plan = <<>>, !.seenOpen = {}, !.turned = turned,
            !.left = left,
                    !.failed = failed, !.kept = kept, !.fresh = fresh]
  BY <1>1
<1>3. paRun \in AdmissionRuns /\ paOpen \in SUBSET EntrySymbols /\ paHeld \in SUBSET EntrySymbols
        /\ Admission!ToSet(paRun.plan) \subseteq paRun.audit
  BY DEF AdmissionInv, AdmissionTyped
<1>4. Admission!ToSet(paRun.plan) \subseteq EntrySymbols
  <2>1. paRun.plan \in Seq(EntrySymbols)
    BY <1>3 DEF AdmissionRuns
  <2>q. QED BY <2>1, ToSetIs
<1>5. /\ passed \in SUBSET EntrySymbols /\ seenHeld \in SUBSET EntrySymbols /\ fresh \in SUBSET EntrySymbols
      /\ turned \in SUBSET EntrySymbols /\ failed \in SUBSET {"plan", "open", "held"}
          /\ kept \in SUBSET EntrySymbols
  BY <1>3, <1>4 DEF AdmissionRuns
<1>6. left \in Seq(EntrySymbols) /\ Admission!ToSet(left) \subseteq passed
  BY <1>5, OrderingIs
<1>7. <<>> \in Seq(EntrySymbols)
  OBVIOUS
<1>8. Admission!Pass(passed, low, seenHeld) /\ fails \subseteq PaFaults
  BY <1>1
<1>9. UNCHANGED <<paNow, paLedger, paOpen, paHeld>> /\ paRun.step = "admit"
  BY DEF Admission!Admit
<1>10. /\ fails = {} => seenHeld = paHeld
       /\ "held" \notin failed => fails = {}
       /\ paRun.failed \subseteq failed /\ ("open" \in failed => "open" \in paRun.failed)
           /\ ("plan" \in failed <=> "plan" \in paRun.failed)
       /\ kept = paRun.kept \cap paHeld /\ fresh = passed \ Admission!Tracked(seenHeld)
  OBVIOUS
<1> HIDE DEF turned, failed, kept, fresh, seenHeld
<1>11. paRun' \in AdmissionRuns
  BY <1>2, <1>3, <1>5, <1>6, <1>7 DEF AdmissionRuns, AdmissionSteps
<1>12. /\ paRun'.step = "submit" /\ paRun'.plan = <<>> /\ paRun'.left = left /\ paRun'.failed = failed
          /\ paRun'.kept = kept
       /\ paRun'.fresh = fresh /\ paRun'.audit = paRun.audit /\ paRun'.listed = paRun.listed
           /\ paRun'.said = paRun.said
  BY <1>2, <1>3 DEF AdmissionRuns
<1>13. Admission!Posted' = {}
  BY <1>9, <1>12 DEF AdmissionInv, AdmissionTyped, Admission!Posted
<1>14. AdmissionTyped'
  <2>1. Admission!ToSet(paRun'.plan) \subseteq paRun'.audit
          /\ Admission!ToSet(paRun'.left) \subseteq paRun'.audit
    BY <1>3, <1>6, <1>12, EmptyToSet
  <2>q. QED BY <1>9, <1>11, <1>12, <2>1 DEF AdmissionInv, AdmissionTyped, RowsTo
<1>15. AdmissionTyped
  BY DEF AdmissionInv
<1>16. /\ passed \cap seenHeld = {}
       /\ Cardinality(paRun.seenOpen) <= PaMaxOpenEntryOrders
           => Cardinality(paRun.seenOpen \cup passed) <= PaMaxOpenEntryOrders
       /\ fresh # {} => /\ Cardinality(Admission!Tracked(seenHeld) \cup fresh) <= PaMaxActiveSymbolsTotal
                        /\ Cardinality(Admission!NewToday \cup fresh) <= PaMaxNewSymbolsPerDay
       /\ \A s \in fresh : Cardinality((Admission!Counted(seenHeld) \cup fresh) \cap Admission!Sector(s))
           <= PaMaxSectorActiveSymbols
  <2>1. seenHeld \in SUBSET EntrySymbols
    BY <1>5
  <2>2. fresh = passed \ Admission!Tracked(seenHeld)
    BY <1>10
  <2>3. Admission!Pass(passed, low, seenHeld)
    BY <1>8
  <2>4. \A F : F = passed \ Admission!Tracked(seenHeld) =>
          /\ passed \cap seenHeld = {}
          /\ Cardinality(paRun.seenOpen) <= PaMaxOpenEntryOrders
              => Cardinality(paRun.seenOpen \cup passed) <= PaMaxOpenEntryOrders
          /\ F # {} => /\ Cardinality(Admission!Tracked(seenHeld) \cup F) <= PaMaxActiveSymbolsTotal
                       /\ Cardinality(Admission!NewToday \cup F) <= PaMaxNewSymbolsPerDay
          /\ \A s \in F : Cardinality((Admission!Counted(seenHeld) \cup F) \cap Admission!Sector(s))
              <= PaMaxSectorActiveSymbols
    BY <1>15, <2>1, <2>3, PassKeepsCaps
  <2>q. QED BY <2>2, <2>4
<1>17. "open" \notin paRun.failed => paOpen \subseteq paRun.seenOpen
  BY <1>9 DEF AdmissionInv, OpenInv
<1>18. OpenInv'
  <2>1. ASSUME "open" \notin PaFaults
        PROVE  "open" \notin failed /\ Cardinality(paOpen \cup Admission!ToSet(left)) <= PaMaxOpenEntryOrders
    <3>1. "open" \notin paRun.failed /\ Cardinality(paRun.seenOpen) <= PaMaxOpenEntryOrders
      BY <1>9, <2>1 DEF AdmissionInv, OpenInv
    <3>2. paOpen \cup Admission!ToSet(left) \subseteq paRun.seenOpen \cup passed
      BY <1>6, <1>17, <3>1
    <3>3. paRun.seenOpen \cup passed \in SUBSET EntrySymbols
            /\ paOpen \cup Admission!ToSet(left) \in SUBSET EntrySymbols
      BY <1>3, <1>5, <3>2 DEF AdmissionRuns
    <3>4. /\ Cardinality(paOpen \cup Admission!ToSet(left)) <= Cardinality(paRun.seenOpen \cup passed)
          /\ Cardinality(paOpen \cup Admission!ToSet(left)) \in Nat
              /\ Cardinality(paRun.seenOpen \cup passed) \in Nat
      BY <3>2, <3>3, SymbolSets
    <3>5. Cardinality(paOpen \cup Admission!ToSet(left)) <= PaMaxOpenEntryOrders
      BY <1>16, <3>1, <3>4, AdmissionAssumption
    <3>q. QED BY <1>10, <3>1, <3>5
  <2>q. QED BY <1>9, <1>12, <2>1 DEF OpenInv
<1>19. KeptInv'
  <2>1. "plan" \notin paRun.failed => passed \cap paRun.kept = {}
    BY DEF AdmissionInv, KeptInv
  <2>2. "held" \notin failed => passed \cap paHeld = {}
    BY <1>10, <1>16
  <2>3. ~({"plan", "held"} \subseteq failed) => Admission!ToSet(left) \cap kept = {}
    BY <1>6, <1>10, <2>1, <2>2
  <2>q. QED BY <1>12, <1>13, <2>3, EmptyToSet DEF KeptInv
<1>20. FreshInv'
  <2>1. ASSUME fresh # {}, failed \cap {"open", "held"} = {}
        PROVE  LET exposed == paOpen \cup paHeld \cup Admission!ToSet(left) \cup fresh
               IN  /\ Cardinality(Admission!ActiveRows \cup exposed) <= PaMaxActiveSymbolsTotal
                   /\ Cardinality(Admission!NewToday \cup fresh) <= PaMaxNewSymbolsPerDay
                   /\ \A s \in fresh :
                        Cardinality((Admission!ActiveRows \cup (exposed \cap paRun.listed)) \cap Admission!Sector(s)) <= PaMaxSectorActiveSymbols
    <3> DEFINE exposed == paOpen \cup paHeld \cup Admission!ToSet(left) \cup fresh
    <3>1. seenHeld = paHeld /\ paOpen \subseteq paRun.seenOpen
      BY <1>10, <1>17, <2>1
    <3>2. exposed \subseteq paRun.seenOpen \cup paHeld \cup passed /\ fresh \subseteq passed
      BY <1>6, <1>10, <3>1
    <3>3. Admission!ActiveRows \subseteq EntrySymbols /\ paRun.seenOpen \subseteq EntrySymbols
            /\ paRun.listed \subseteq EntrySymbols
      BY <1>3 DEF Admission!ActiveRows, AdmissionRuns
    <3>4. Admission!Tracked(seenHeld) = Admission!ActiveRows \cup paRun.seenOpen \cup paHeld
          /\ Admission!Counted(seenHeld) = Admission!ActiveRows
              \cup ((paRun.seenOpen \cup paHeld) \cap paRun.listed)
      BY <3>1 DEF Admission!Tracked, Admission!Counted
    <3>5. passed \subseteq Admission!ActiveRows \cup paRun.seenOpen \cup paHeld \cup fresh
      BY <1>10, <3>4
    <3> HIDE DEF exposed
    <3>6. Admission!ActiveRows \cup exposed \subseteq Admission!Tracked(seenHeld) \cup fresh
            /\ Admission!Tracked(seenHeld) \cup fresh \in SUBSET EntrySymbols
      BY <1>3, <1>5, <3>2, <3>3, <3>4, <3>5
    <3>7. Cardinality(Admission!ActiveRows \cup exposed) <= PaMaxActiveSymbolsTotal
      <4>1. Admission!ActiveRows \cup exposed \in SUBSET EntrySymbols
        BY <3>6
      <4>2. /\ Cardinality(Admission!ActiveRows \cup exposed)
               <= Cardinality(Admission!Tracked(seenHeld) \cup fresh)
            /\ Cardinality(Admission!ActiveRows \cup exposed) \in Nat
                /\ Cardinality(Admission!Tracked(seenHeld) \cup fresh) \in Nat
        BY <3>6, <4>1, SymbolSets
      <4>q. QED BY <1>16, <2>1, <4>2, AdmissionAssumption
    <3>8. ASSUME NEW s \in fresh
          PROVE  Cardinality((Admission!ActiveRows \cup (exposed \cap paRun.listed)) \cap Admission!Sector(s))
                 <= PaMaxSectorActiveSymbols
      <4> DEFINE A == (Admission!ActiveRows \cup (exposed \cap paRun.listed)) \cap Admission!Sector(s)
                 B == (Admission!Counted(seenHeld) \cup fresh) \cap Admission!Sector(s)
      <4>1. A \subseteq B
        BY <3>2, <3>4, <3>5
      <4>2. B \in SUBSET EntrySymbols
        BY <1>3, <1>5, <3>3, <3>4
      <4>3. Cardinality(B) <= PaMaxSectorActiveSymbols
        BY <1>16
      <4> HIDE DEF A, B
      <4>4. Cardinality(A) <= Cardinality(B) /\ Cardinality(A) \in Nat /\ Cardinality(B) \in Nat
        BY <4>1, <4>2, SymbolSets
      <4>5. Cardinality(A) <= PaMaxSectorActiveSymbols
        BY <4>3, <4>4, AdmissionAssumption
      <4>q. QED BY <4>5 DEF A
    <3>q. QED BY <1>16, <2>1, <3>7, <3>8 DEF exposed
  <2>2. Admission!ActiveRows' = Admission!ActiveRows /\ Admission!NewToday' = Admission!NewToday
          /\ \A s : Admission!Sector(s)' = Admission!Sector(s)
    BY <1>9 DEF Admission!ActiveRows, Admission!NewToday, Admission!Day, Admission!Sector
  <2>3. Exposed' = paOpen \cup paHeld \cup Admission!ToSet(left) \cup fresh
    BY <1>9, <1>12 DEF Exposed
  <2>q. QED BY <1>12, <2>1, <2>2, <2>3 DEF FreshInv
<1>q. QED BY <1>14, <1>18, <1>19, <1>20 DEF AdmissionInv

LEMMA SubmitKept ==
  ASSUME AdmissionInv, Admission!Submit
  PROVE  AdmissionInv'
<1>1. /\ UNCHANGED <<paNow, paLedger, paOpen, paHeld>>
      /\ \/ paRun' = [paRun EXCEPT !.step = "save", !.left = <<>>]
         \/ paRun' = [paRun EXCEPT !.step = "post", !.guarded = paOpen]
  BY DEF Admission!Submit
<1>2. paRun \in AdmissionRuns /\ <<>> \in Seq(EntrySymbols) /\ paOpen \in SUBSET EntrySymbols
        /\ paHeld \in SUBSET EntrySymbols
  BY DEF AdmissionInv, AdmissionTyped
<1>3. paRun' \in AdmissionRuns
  BY <1>1, <1>2 DEF AdmissionRuns, AdmissionSteps
<1>4. /\ paRun'.audit = paRun.audit /\ paRun'.listed = paRun.listed /\ paRun'.fresh = paRun.fresh
         /\ paRun'.failed = paRun.failed
      /\ paRun'.kept = paRun.kept /\ paRun'.step \in {"save", "post"} /\ paRun'.plan = paRun.plan
          /\ paRun'.said = paRun.said
      /\ paRun'.left \in {<<>>, paRun.left}
  BY <1>1, <1>2 DEF AdmissionRuns
<1>5. Admission!ToSet(paRun'.left) \subseteq Admission!ToSet(paRun.left)
  BY <1>4, EmptyToSet
<1>6. Admission!Posted' = Admission!Posted
  BY <1>4 DEF Admission!Posted
<1>q. QED BY <1>1, <1>2, <1>3, <1>4, <1>5, <1>6, ShrinkingKeeps

LEMMA SkipKept ==
  ASSUME AdmissionInv, Admission!Skip
  PROVE  AdmissionInv'
<1>1. paRun.step = "post" /\ paRun.left # <<>> /\ paRun' = [paRun EXCEPT !.left = Tail(paRun.left)]
        /\ UNCHANGED <<paNow, paLedger, paOpen, paHeld>>
  BY DEF Admission!Skip
<1>2. paRun \in AdmissionRuns /\ paRun.left \in Seq(EntrySymbols) /\ paOpen \in SUBSET EntrySymbols
        /\ paHeld \in SUBSET EntrySymbols
  BY DEF AdmissionInv, AdmissionTyped, AdmissionRuns
<1>3. Tail(paRun.left) \in Seq(EntrySymbols)
        /\ Admission!ToSet(Tail(paRun.left)) \subseteq Admission!ToSet(paRun.left)
  BY <1>1, <1>2, TailToSet
<1> DEFINE left == Tail(paRun.left)
<1> HIDE DEF left
<1>4. paRun' = [paRun EXCEPT !.left = left] /\ left \in Seq(EntrySymbols)
        /\ Admission!ToSet(left) \subseteq Admission!ToSet(paRun.left)
  BY <1>1, <1>3 DEF left
<1>5. paRun' \in AdmissionRuns
  BY <1>2, <1>4 DEF AdmissionRuns
<1>6. /\ paRun'.audit = paRun.audit /\ paRun'.listed = paRun.listed /\ paRun'.fresh = paRun.fresh
         /\ paRun'.failed = paRun.failed
      /\ paRun'.kept = paRun.kept /\ paRun'.step = "post" /\ paRun'.plan = paRun.plan
          /\ paRun'.said = paRun.said /\ paRun'.left = left
  BY <1>1, <1>2, <1>4 DEF AdmissionRuns
<1>7. Admission!Posted' = Admission!Posted
  BY <1>6 DEF Admission!Posted
<1>q. QED BY <1>1, <1>2, <1>4, <1>5, <1>6, <1>7, ShrinkingKeeps

LEMMA PostKept ==
  ASSUME AdmissionInv, Admission!Post
  PROVE  AdmissionInv'
<1> DEFINE s == Head(paRun.left)
           left == Tail(paRun.left)
<1>2. paRun \in AdmissionRuns /\ paRun.left \in Seq(EntrySymbols) /\ paOpen \in SUBSET EntrySymbols
        /\ paHeld \in SUBSET EntrySymbols
  BY DEF AdmissionInv, AdmissionTyped, AdmissionRuns
<1>3. left \in Seq(EntrySymbols) /\ Admission!ToSet(left) \subseteq Admission!ToSet(paRun.left)
        /\ s \in Admission!ToSet(paRun.left) /\ s \in EntrySymbols
  BY <1>2, TailToSet DEF Admission!Post
<1>4. PICK said \in {"open", "filled", "failed"} :
        paRun' = [paRun EXCEPT !.left = left, !.said[s] = said, !.guarded = IF said = "failed" THEN @ ELSE @ \cup {s}]
  BY DEF Admission!Post
<1>5. UNCHANGED <<paNow,
        paLedger>> /\ paRun.step = "post" /\ paOpen' \subseteq paOpen \cup {s}
            /\ paHeld' \subseteq paHeld \cup {s}
  BY DEF Admission!Post
<1> DEFINE guarded == IF said = "failed" THEN paRun.guarded ELSE paRun.guarded \cup {s}
           saids == [paRun.said EXCEPT ![s] = said]
<1>6. paRun' = [paRun EXCEPT !.left = left, !.said = saids, !.guarded = guarded]
  BY <1>4
<1>7. guarded \in SUBSET EntrySymbols /\ saids \in [EntrySymbols -> {"none", "open", "filled", "failed"}]
      /\ \A t \in EntrySymbols \ {s} : saids[t] = paRun.said[t]
  BY <1>2, <1>3 DEF AdmissionRuns
<1> HIDE DEF s, left, guarded, saids
<1>8. paRun' \in AdmissionRuns
  BY <1>2, <1>3, <1>6, <1>7 DEF AdmissionRuns
<1>9. /\ paRun'.audit = paRun.audit /\ paRun'.listed = paRun.listed /\ paRun'.fresh = paRun.fresh
         /\ paRun'.failed = paRun.failed
      /\ paRun'.kept = paRun.kept /\ paRun'.step = "post" /\ paRun'.plan = paRun.plan /\ paRun'.said = saids
          /\ paRun'.left = left
  BY <1>2, <1>5, <1>6 DEF AdmissionRuns
<1>10. Admission!Posted' \subseteq Admission!Posted \cup Admission!ToSet(paRun.left)
  BY <1>3, <1>7, <1>9 DEF Admission!Posted
<1>11. paOpen' \subseteq paOpen \cup Admission!ToSet(paRun.left)
         /\ paHeld' \subseteq paHeld \cup paOpen \cup Admission!ToSet(paRun.left)
  BY <1>3, <1>5
<1>12. paOpen' \subseteq EntrySymbols /\ paHeld' \subseteq EntrySymbols
  BY <1>2, <1>3, <1>5
<1>q. QED BY <1>3, <1>5, <1>8, <1>9, <1>10, <1>11, <1>12, ShrinkingKeeps

LEMMA SaveKept ==
  ASSUME AdmissionInv, Admission!Save
  PROVE  AdmissionInv'
<1>1. paNow' = paNow /\ paOpen' = paOpen /\ paHeld' = paHeld /\ paRun' = Admission!NoRun
        /\ paLedger' = [s \in EntrySymbols |-> Admission!Row(s)]
  BY DEF Admission!Save
<1>2. paNow \in 0..PaMaxNow /\ paOpen \subseteq EntrySymbols /\ paHeld \subseteq EntrySymbols
        /\ paLedger \in [EntrySymbols -> RowsTo(paNow)]
  BY DEF AdmissionInv, AdmissionTyped
<1>3. ASSUME NEW s \in EntrySymbols PROVE Admission!Row(s) \in RowsTo(paNow)
  <2>1. paLedger[s] \in RowsTo(paNow)
    BY <1>2
  <2>2. CASE s \in paRun.audit
    <3>1. Admission!Derived(s) \in Admission!Active \cup Admission!Terminal
      <4>1. Admission!Derived(s) \in {"filled", "open", "rejected", "watched"}
        BY DEF Admission!Derived
      <4>q. QED BY <4>1 DEF Admission!Active, Admission!Terminal
    <3> DEFINE f == IF paLedger[s] = Admission!NoRow THEN paNow ELSE paLedger[s].first
    <3>2. f \in 0..paNow /\ paNow \in 0..paNow
      BY <1>2, <2>1, AdmissionAssumption DEF RowsTo
    <3>3. Admission!Row(s) = [status |-> Admission!Derived(s), first |-> f, seen |-> paNow]
      BY <2>2 DEF Admission!Row
    <3> HIDE DEF f
    <3>q. QED BY <3>1, <3>2, <3>3 DEF RowsTo
  <2>3. CASE s \notin paRun.audit /\ Admission!Stale(s)
    <3>1. paLedger[s].status \in Admission!Active
      BY <2>3 DEF Admission!Stale
    <3>2. paLedger[s] # Admission!NoRow
      BY <3>1 DEF Admission!NoRow, Admission!Active
    <3>3. Admission!Row(s) = [paLedger[s] EXCEPT !.status = "expired"]
      BY <2>3 DEF Admission!Row
    <3>q. QED BY <2>1, <3>2, <3>3 DEF RowsTo, Admission!Terminal
  <2>4. CASE s \notin paRun.audit /\ ~Admission!Stale(s)
    BY <2>1, <2>4 DEF Admission!Row
  <2>q. QED BY <2>2, <2>3, <2>4
<1>4. paLedger' \in [EntrySymbols -> RowsTo(paNow)]
  BY <1>1, <1>3
<1>5. paLedger' \in [EntrySymbols -> RowsTo(paNow)']
  BY <1>1, <1>4 DEF RowsTo
<1>6. "open" \notin PaFaults => Cardinality(paOpen') <= PaMaxOpenEntryOrders
  BY <1>1, OpenIsCapped
<1>q. QED BY <1>1, <1>2, <1>5, <1>6, IdleKeeps

LEMMA DieKept ==
  ASSUME AdmissionInv, Admission!Die
  PROVE  AdmissionInv'
<1>1. paNow' = paNow /\ paOpen' = paOpen /\ paHeld' = paHeld /\ paLedger' = paLedger /\ paRun' = Admission!NoRun
  BY DEF Admission!Die
<1>2. paNow' \in 0..PaMaxNow /\ paOpen' \subseteq EntrySymbols /\ paHeld' \subseteq EntrySymbols
        /\ paLedger' \in [EntrySymbols -> RowsTo(paNow)']
  BY <1>1 DEF AdmissionInv, AdmissionTyped, RowsTo
<1>3. "open" \notin PaFaults => Cardinality(paOpen') <= PaMaxOpenEntryOrders
  BY <1>1, OpenIsCapped
<1>q. QED BY <1>1, <1>2, <1>3, IdleKeeps

LEMMA AdmissionStarts == Admission!Init => AdmissionInv
<1> SUFFICES ASSUME Admission!Init PROVE AdmissionInv
  OBVIOUS
<1>1. AdmissionTyped
  <2>1. 0 \in 0..PaMaxNow
    BY AdmissionAssumption
  <2>2. Admission!Posted = {}
    BY NoRunIs DEF Admission!Init, Admission!Posted
  <2>3. Admission!ToSet(paRun.plan) \subseteq paRun.audit /\ Admission!ToSet(paRun.left) \subseteq paRun.audit
          /\ paRun.audit \subseteq paRun.listed
    BY NoRunIs, EmptyToSet DEF Admission!Init
  <2>4. paLedger \in [EntrySymbols -> RowsTo(paNow)]
    BY DEF Admission!Init, RowsTo
  <2>5. paNow \in 0..PaMaxNow /\ paOpen \subseteq EntrySymbols /\ paHeld \subseteq EntrySymbols
    BY <2>1 DEF Admission!Init
  <2>6. paRun \in AdmissionRuns /\ paRun.left = <<>> /\ paRun.fresh = {}
    BY NoRunIs DEF Admission!Init
  <2>q. QED BY <2>2, <2>3, <2>4, <2>5, <2>6 DEF AdmissionTyped
<1>2. OpenInv
  <2>1. paOpen \cup Admission!ToSet(paRun.left) = {}
    BY NoRunIs, EmptyToSet DEF Admission!Init
  <2>2. Cardinality({}) = 0
    BY FS_EmptySet
  <2>3. PaMaxOpenEntryOrders \in Nat /\ paRun.step = "idle" /\ paRun.failed = {}
    BY NoRunIs, AdmissionAssumption DEF Admission!Init
  <2>q. QED BY <2>1, <2>2, <2>3 DEF OpenInv
<1>3. KeptInv /\ FreshInv
  BY NoRunIs, EmptyToSet DEF Admission!Init, KeptInv, FreshInv, Admission!Posted
<1>q. QED BY <1>1, <1>2, <1>3 DEF AdmissionInv

LEMMA AdmissionStep == AdmissionInv /\ [Admission!Next]_(Admission!vars) => AdmissionInv'
<1> SUFFICES ASSUME AdmissionInv, [Admission!Next]_(Admission!vars) PROVE AdmissionInv'
  OBVIOUS
<1>1. CASE UNCHANGED Admission!vars
  BY <1>1 DEF Admission!vars, AdmissionInv, AdmissionTyped, OpenInv, KeptInv, FreshInv, Exposed,
      Admission!ActiveRows, Admission!NewToday, Admission!Day, Admission!Posted, RowsTo, Admission!Sector
<1>2. CASE Admission!Next
  BY <1>2, TickKept, BrokerKept, PlanKept, MonitorKept, ReadOpenKept, AdmitKept, SubmitKept, SkipKept,
      PostKept, SaveKept, DieKept
    DEF Admission!Next
<1>q. QED BY <1>1, <1>2

\* The admission keeps its inductive invariant: the open orders with what is still to be
\* posted, and the rows with all that may be exposed before the run ends, stay within caps.
THEOREM AdmissionInvariant == Admission!Spec => []AdmissionInv
<1>1. Admission!Init => AdmissionInv
  BY AdmissionStarts
<1>2. AdmissionInv /\ [Admission!Next]_(Admission!vars) => AdmissionInv'
  BY AdmissionStep
<1>q. QED BY <1>1, <1>2, PTL DEF Admission!Spec

\* The caps, from the inductive invariant.
LEMMA AdmissionIsSafe ==
  ASSUME AdmissionInv
  PROVE  Admission!TypeOK /\ Admission!OpenEntriesStayCapped /\ Admission!HeldIsNotBoughtAgain
         /\ Admission!NewcomersStayWithinCaps
<1>1. Admission!TypeOK
  BY DEF AdmissionInv, AdmissionTyped, AdmissionRuns, AdmissionSteps, Admission!TypeOK, RowsTo
<1>2. Admission!OpenEntriesStayCapped
  <2>1. paOpen \in SUBSET paOpen /\ paOpen \in SUBSET EntrySymbols
    BY DEF AdmissionInv, AdmissionTyped
  <2>2. "open" \notin PaFaults => Cardinality(paOpen) <= PaMaxOpenEntryOrders
    BY <2>1, OpenIsCapped
  <2>3. Cardinality(paOpen) \in Nat /\ PaMaxOpenEntryOrders \in Nat
    BY <2>1, SymbolSets, AdmissionAssumption
  <2>q. QED BY <2>2, <2>3, AdmissionCounts DEF Admission!OpenEntriesStayCapped
<1>3. Admission!HeldIsNotBoughtAgain
  BY DEF AdmissionInv, KeptInv, Admission!HeldIsNotBoughtAgain
<1>4. Admission!NewcomersStayWithinCaps
  <2> DEFINE newcomers == Admission!Posted \cap paRun.fresh
             exposed == paOpen \cup paHeld
  <2>1. SUFFICES ASSUME newcomers # {}, paRun.failed \cap {"open", "held"} = {}
                 PROVE  /\ Cardinality(Admission!ActiveRows \cup exposed) <= PaMaxActiveSymbolsTotal
                        /\ Cardinality(Admission!NewToday \cup newcomers) <= PaMaxNewSymbolsPerDay
                        /\ \A s \in newcomers :
                             Cardinality((Admission!ActiveRows \cup (exposed \cap paRun.listed)) \cap Admission!Sector(s)) <= PaMaxSectorActiveSymbols
    BY AdmissionCounts DEF Admission!NewcomersStayWithinCaps
  <2>2. /\ Cardinality(Admission!ActiveRows \cup Exposed) <= PaMaxActiveSymbolsTotal
        /\ Cardinality(Admission!NewToday \cup paRun.fresh) <= PaMaxNewSymbolsPerDay
        /\ \A s \in paRun.fresh :
             Cardinality((Admission!ActiveRows \cup (Exposed \cap paRun.listed)) \cap Admission!Sector(s))
                 <= PaMaxSectorActiveSymbols
    BY <2>1 DEF AdmissionInv, FreshInv
  <2>3. paRun.left \in Seq(EntrySymbols) /\ paRun.fresh \subseteq EntrySymbols
          /\ paRun.listed \subseteq EntrySymbols /\ exposed \subseteq EntrySymbols
    BY DEF AdmissionInv, AdmissionTyped, AdmissionRuns
  <2>4. Admission!ToSet(paRun.left) \subseteq EntrySymbols
    BY <2>3, ToSetIs
  <2>5. /\ Admission!ActiveRows \subseteq EntrySymbols /\ Admission!NewToday \subseteq EntrySymbols
           /\ newcomers \subseteq paRun.fresh
        /\ exposed \subseteq Exposed /\ Exposed \subseteq EntrySymbols
    BY <2>3, <2>4 DEF Admission!ActiveRows, Admission!NewToday, Exposed
  <2> HIDE DEF newcomers, exposed
  <2>c. {PaMaxNewSymbolsPerDay, PaMaxActiveSymbolsTotal, PaMaxSectorActiveSymbols} \subseteq Nat
    BY AdmissionAssumption
  <2>s. ASSUME NEW T \in SUBSET EntrySymbols, NEW S \in SUBSET T, NEW n \in Nat, Cardinality(T) <= n
        PROVE  Cardinality(S) <= n
    <3>1. Cardinality(S) <= Cardinality(T) /\ Cardinality(S) \in Nat /\ Cardinality(T) \in Nat
      BY SymbolSets
    <3>q. QED BY <2>s, <3>1
  <2>6. Cardinality(Admission!ActiveRows \cup exposed) <= PaMaxActiveSymbolsTotal
    <3>1. Admission!ActiveRows \cup Exposed \in SUBSET EntrySymbols
            /\ Admission!ActiveRows \cup exposed \in SUBSET (Admission!ActiveRows \cup Exposed)
      BY <2>5
    <3>q. QED BY <2>2, <2>c, <2>s, <3>1
  <2>7. Cardinality(Admission!NewToday \cup newcomers) <= PaMaxNewSymbolsPerDay
    <3>1. Admission!NewToday \cup paRun.fresh \in SUBSET EntrySymbols
            /\ Admission!NewToday \cup newcomers \in SUBSET (Admission!NewToday \cup paRun.fresh)
      BY <2>3, <2>5
    <3>q. QED BY <2>2, <2>c, <2>s, <3>1
  <2>8. ASSUME NEW s \in newcomers
        PROVE  Cardinality((Admission!ActiveRows \cup (exposed \cap paRun.listed)) \cap Admission!Sector(s))
               <= PaMaxSectorActiveSymbols
    <3> DEFINE A == (Admission!ActiveRows \cup (exposed \cap paRun.listed)) \cap Admission!Sector(s)
               B == (Admission!ActiveRows \cup (Exposed \cap paRun.listed)) \cap Admission!Sector(s)
    <3>1. B \in SUBSET EntrySymbols /\ A \in SUBSET B
      BY <2>5
    <3>2. Cardinality(B) <= PaMaxSectorActiveSymbols
      BY <2>2, <2>5
    <3> HIDE DEF A, B
    <3>3. Cardinality(A) <= PaMaxSectorActiveSymbols
      BY <2>c, <2>s, <3>1, <3>2
    <3>q. QED BY <3>3 DEF A
  <2>q. QED BY <2>6, <2>7, <2>8
<1>q. QED BY <1>1, <1>2, <1>3, <1>4

\* The open entries, the symbols tracked, a sector's share and the day's newcomers stay
\* within their caps, and nothing is bought that was held (index.ts:7988-8027).
THEOREM AdmissionKept ==
  Admission!Spec
      => [](Admission!TypeOK /\ Admission!OpenEntriesStayCapped /\ Admission!HeldIsNotBoughtAgain /\ Admission!NewcomersStayWithinCaps)
BY AdmissionInvariant, AdmissionIsSafe, PTL

-------------------------------------------------------------------------------
(* What the run checks of the four lanes                                   *)

\* However answers are lost and runs die, at most one exit of the position is open or may
\* still become open, the position is not sold short, and the ledger ends no row otherwise
\* than its order ended (the exit lane of index.ts), whatever the plans and the shares.
THEOREM LanesExitSafely == LanesSpec => []ExitsAreSafe
<1>1. TypeOK /\ OneLiveExit /\ NeverOversells /\ EndedRowsAreTrue => ExitsAreSafe
  BY DEF ExitsAreSafe
<1>q. QED BY <1>1, ExitsSafe, LanesAreKept, PTL

\* The replacement of index.ts leaves one entry order of a symbol that was not asked to be
\* cancelled, two that live, and a day's cancels within the cap and the losses, whatever
\* the ages, the cooldown and the cap.
THEOREM LanesReplaceWithinBounds == LanesSpec => []ReplacementsAreBounded
<1>1. Replacement!TypeOK /\ Replacement!OneWorkingEntry /\ Replacement!AtMostTwoLive
        /\ Replacement!ChurnIsBounded
      => ReplacementsAreBounded
  BY DEF ReplacementsAreBounded
<1>q. QED BY <1>1, ReplacesAreBounded, LanesAreKept, PTL

\* The two workflows of the repair, when they do not overlap, leave one protective order
\* working, an entry for each order, and no order behind a rollback recorded as terminal,
\* whatever the files, the prices and the runs.
THEOREM LanesRepairSafely == LanesSpec => []RepairIsSafe
<1>1. Repair!TypeOK /\ Repair!OneProtection /\ Repair!PostedIsWritten /\ Repair!CancelledIsGone => RepairIsSafe
  BY DEF RepairIsSafe
<1>q. QED BY <1>1, ProtectionIsOne, LanesAreKept, PTL

\* The admission of index.ts keeps its four caps and buys nothing that was held, whatever
\* the symbols, the sectors, the caps and the days.
THEOREM LanesAdmitWithinCaps == LanesSpec => []AdmissionKeepsCaps
<1>1. Admission!TypeOK /\ Admission!OpenEntriesStayCapped /\ Admission!HeldIsNotBoughtAgain
        /\ Admission!NewcomersStayWithinCaps => AdmissionKeepsCaps
  BY DEF AdmissionKeepsCaps
<1>q. QED BY <1>1, AdmissionKept, LanesAreKept, PTL
===============================================================================
