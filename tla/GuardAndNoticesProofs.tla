------------------------- MODULE GuardAndNoticesProofs -------------------------
(***************************************************************************)
(* Theorems about the two programs of MCGuardAndNotices. The notifier, for *)
(* any number of processes, events and lost saves; the market guard, for   *)
(* any hold, cooldowns, signals and time, with any number of forced runs   *)
(* and memories that are not saved; then the two side by side.             *)
(***************************************************************************)
EXTENDS MCGuardAndNotices, SequenceTheorems, TLAPS

-------------------------------------------------------------------------------
(* The notifier.                                                           *)

\* A new row leaves the others alone.
LEMMA ReservationRows ==
  ASSUME TypeOK, NEW p \in Process
  PROVE  /\ Reservation(p) \in ReceiptType
         /\ Len(Reservation(p).rows) = Len(receipt.rows) + 1
         /\ Reservation(p).rows[Len(receipt.rows) + 1] = Row(Unseen(p), "RESERVED")
         /\ \A n \in 1..Len(receipt.rows) : Reservation(p).rows[n] = receipt.rows[n]
         /\ Reservation(p).seen = receipt.seen \cup batch[p] /\ Reservation(p).exists
<1>1. receipt.rows \in Seq(RowType) /\ receipt.seen \subseteq Event /\ batch[p] \subseteq Event
  BY DEF TypeOK, ReceiptType
<1>2. Row(Unseen(p), "RESERVED") \in RowType
  BY <1>1 DEF Row, RowType, Unseen
<1>q. QED BY <1>1, <1>2 DEF Reservation, ReceiptType

\* Settling the last row changes its status only.
LEMMA SettledRows ==
  ASSUME TypeOK, NEW p \in Process, Record(p)
  PROVE  /\ receipt' \in ReceiptType /\ receipt'.seen = receipt.seen /\ receipt'.exists = receipt.exists
         /\ Len(receipt'.rows) = Len(receipt.rows) /\ Len(receipt.rows) > 0
         /\ \A n \in 1..Len(receipt.rows) :
              /\ receipt'.rows[n].events = receipt.rows[n].events
              /\ receipt'.rows[n].status =
                   IF n = Len(receipt.rows) THEN Outcome(p) ELSE receipt.rows[n].status
<1> DEFINE k == Len(receipt.rows)
           row == [receipt.rows[k] EXCEPT !.status = Outcome(p)]
           rows == [receipt.rows EXCEPT ![k] = row]
<1>1. /\ receipt \in ReceiptType /\ receipt.rows \in Seq(RowType) /\ k > 0
  BY DEF TypeOK, ReceiptType, Record, Sending
<1>2. receipt' = [receipt EXCEPT !.rows = rows]
  BY <1>1 DEF Record, ReceiptType
<1>3. Outcome(p) \in {"RESERVED", "DELIVERED", "UNCERTAIN"}
  BY DEF Outcome
<1>4. row \in RowType /\ row.events = receipt.rows[k].events /\ row.status = Outcome(p)
  <2>1. receipt.rows[k] \in RowType
    BY <1>1
  <2>q. QED BY <1>3, <2>1 DEF RowType
<1> HIDE DEF row
<1>5. /\ rows \in Seq(RowType) /\ Len(rows) = k
      /\ \A n \in 1..k : rows[n] = IF n = k THEN row ELSE receipt.rows[n]
  BY <1>1, <1>4, ExceptSeq
<1> HIDE DEF rows
<1>6. /\ receipt'.rows = rows /\ receipt' \in ReceiptType
      /\ receipt'.seen = receipt.seen /\ receipt'.exists = receipt.exists
  BY <1>1, <1>2, <1>5 DEF ReceiptType
<1>q. QED BY <1>1, <1>4, <1>5, <1>6

\* Only one process is not idle, so a step of p decides for all.
LEMMA TypeStep == TypeOK /\ OneDeliverer /\ [Next]_vars => TypeOK'
<1> SUFFICES ASSUME TypeOK, OneDeliverer, [Next]_vars PROVE TypeOK'
  OBVIOUS
<1> USE NotificationsAssumption
<1>1. CASE EventHappens
  BY <1>1 DEF EventHappens, TypeOK, runner, history, Sending
<1>2. ASSUME NEW p \in Process, TakeLock(p) PROVE TypeOK'
  BY <1>2 DEF TakeLock, Snapshots, TypeOK, runner, history, Sending, Goto
<1>3. ASSUME NEW p \in Process, Baseline(p) PROVE TypeOK'
  <2>1. [exists |-> TRUE, seen |-> batch[p], rows |-> <<>>] \in ReceiptType
    BY DEF TypeOK, ReceiptType
  <2>2. \A q \in Process \ {p} : pc[q] = "idle"
    BY <1>3 DEF Baseline, OneDeliverer
  <2>q. QED BY <1>3, <2>1, <2>2 DEF Baseline, TypeOK, runner, Sending, Goto, Return
<1>4. ASSUME NEW p \in Process, Nothing(p) PROVE TypeOK'
  BY <1>4 DEF Nothing, TypeOK, runner, history, Sending, Goto, Return
<1>5. ASSUME NEW p \in Process, Reserve(p) PROVE TypeOK'
  <2>1. \A q \in Process \ {p} : pc[q] = "idle"
    BY <1>5 DEF Reserve, OneDeliverer
  <2>2. Unseen(p) \subseteq Event /\ Len(receipt.rows) \in Nat
    BY DEF TypeOK, Unseen, ReceiptType
  <2>q. QED BY <1>5, <2>1, <2>2, ReservationRows DEF Reserve, TypeOK, runner, history, Sending, Goto
<1>6. ASSUME NEW p \in Process, Send(p) PROVE TypeOK'
  BY <1>6 DEF Send, TypeOK, runner, Sending, Goto
<1>7. ASSUME NEW p \in Process, Record(p) PROVE TypeOK'
  <2>1. /\ pc' = [pc EXCEPT ![p] = "idle"] /\ lock' = FALSE /\ batch' = [batch EXCEPT ![p] = {}]
        /\ UNCHANGED <<happened, cache, lost, told, sentRows, arrived, baseline>>
    BY <1>7 DEF Record, Goto, Return, runner, history
  <2>q. QED BY <1>7, <2>1, SettledRows DEF TypeOK, Sending
<1>8. ASSUME NEW p \in Process, WriteFails(p) PROVE TypeOK'
  <2>1. /\ pc' = [pc EXCEPT ![p] = "idle"] /\ lock' = FALSE /\ batch' = [batch EXCEPT ![p] = {}]
        /\ UNCHANGED <<happened, cache, lost, told, sentRows, arrived, baseline>>
        /\ receipt' \in {receipt, Reservation(p)}
    BY <1>8 DEF WriteFails, Goto, Return, runner, history
  <2>2. receipt' \in ReceiptType /\ (Len(receipt.rows) > 0 => Len(receipt'.rows) > 0)
    <3>1. Len(receipt.rows) \in Nat /\ receipt \in ReceiptType
      BY DEF TypeOK, ReceiptType
    <3>q. QED BY <2>1, <3>1, ReservationRows
  <2> HIDE DEF Reservation
  <2>q. QED BY <2>1, <2>2 DEF TypeOK, Sending
<1>9. ASSUME NEW p \in Process, Crash(p) PROVE TypeOK'
  BY <1>9 DEF Crash, TypeOK, runner, history, Sending, Goto
<1>10. CASE SaveCache
  BY <1>10 DEF SaveCache, TypeOK, history, Sending
<1>11. CASE LoseCache
  BY <1>11 DEF LoseCache, TypeOK, history, Sending
<1>12. CASE UNCHANGED vars
  BY <1>12 DEF vars, TypeOK, Sending
<1>q. QED
  BY <1>1, <1>2, <1>3, <1>4, <1>5, <1>6, <1>7, <1>8, <1>9, <1>10, <1>11, <1>12 DEF Next

\* The lock file makes way for one process at a time.
LEMMA OneDelivererStep == DeliveryInv /\ [Next]_vars => (OneDeliverer)'
<1> SUFFICES ASSUME DeliveryInv, [Next]_vars PROVE (OneDeliverer)'
  OBVIOUS
<1> USE DEF DeliveryInv, TypeOK, OneDeliverer
<1>1. CASE EventHappens
  BY <1>1 DEF EventHappens, Goto, Return, runner, history
<1>2. ASSUME NEW p \in Process, TakeLock(p) PROVE (OneDeliverer)'
  BY <1>2 DEF TakeLock, Goto, Return, runner, history
<1>3. ASSUME NEW p \in Process, Baseline(p) PROVE (OneDeliverer)'
  BY <1>3 DEF Baseline, Goto, Return, runner, history
<1>4. ASSUME NEW p \in Process, Nothing(p) PROVE (OneDeliverer)'
  BY <1>4 DEF Nothing, Goto, Return, runner, history
<1>5. ASSUME NEW p \in Process, Reserve(p) PROVE (OneDeliverer)'
  BY <1>5 DEF Reserve, Goto, Return, runner, history
<1>6. ASSUME NEW p \in Process, Send(p) PROVE (OneDeliverer)'
  BY <1>6 DEF Send, Goto, Return, runner, history
<1>7. ASSUME NEW p \in Process, Record(p) PROVE (OneDeliverer)'
  BY <1>7 DEF Record, Goto, Return, runner, history
<1>8. ASSUME NEW p \in Process, WriteFails(p) PROVE (OneDeliverer)'
  BY <1>8 DEF WriteFails, Goto, Return, runner, history
<1>9. ASSUME NEW p \in Process, Crash(p) PROVE (OneDeliverer)'
  BY <1>9 DEF Crash, Goto, Return, runner, history
<1>10. CASE SaveCache
  BY <1>10 DEF SaveCache, Goto, Return, runner, history
<1>11. CASE LoseCache
  BY <1>11 DEF LoseCache, Goto, Return, runner, history
<1>12. CASE UNCHANGED vars
  BY <1>12 DEF vars, Goto, Return, runner, history
<1>q. QED
  BY <1>1, <1>2, <1>3, <1>4, <1>5, <1>6, <1>7, <1>8, <1>9, <1>10, <1>11, <1>12 DEF Next

\* What is not seen has not been told, up to the lost saves.
LEMMA CountsStep == DeliveryInv /\ [Next]_vars => (ToldOncePerCache /\ UnseenIsUntold)'
<1> SUFFICES ASSUME DeliveryInv, [Next]_vars PROVE (ToldOncePerCache /\ UnseenIsUntold)'
  OBVIOUS
<1> USE DEF DeliveryInv, TypeOK, OneDeliverer, ToldOncePerCache, UnseenIsUntold
<1>1. CASE EventHappens
  BY <1>1 DEF EventHappens, Goto, Return, runner, history
<1>2. ASSUME NEW p \in Process, TakeLock(p) PROVE (ToldOncePerCache /\ UnseenIsUntold)'
  BY <1>2 DEF TakeLock, Goto, Return, runner, history
<1>3. ASSUME NEW p \in Process, Baseline(p) PROVE (ToldOncePerCache /\ UnseenIsUntold)'
  BY <1>3 DEF NothingYet, Baseline, Goto, Return, runner, history
<1>4. ASSUME NEW p \in Process, Nothing(p) PROVE (ToldOncePerCache /\ UnseenIsUntold)'
  BY <1>4 DEF Nothing, Goto, Return, runner, history
<1>5. ASSUME NEW p \in Process, Reserve(p) PROVE (ToldOncePerCache /\ UnseenIsUntold)'
  <2>1. receipt'.seen = receipt.seen \cup batch[p] /\ batch'[p] = Unseen(p)
        /\ pc' = [pc EXCEPT ![p] = "reserved"] /\ told' = told /\ lost' = lost
    BY <1>5, ReservationRows DEF Reserve, Goto, runner, history
  <2>2. \A q \in Process \ {p} : pc[q] = "idle"
    BY <1>5 DEF Reserve
  <2>q. QED BY <2>1, <2>2 DEF Unseen
<1>6. ASSUME NEW p \in Process, Send(p) PROVE (ToldOncePerCache /\ UnseenIsUntold)'
  <2>1. \A q \in Process \ {p} : pc[q] = "idle"
    BY <1>6 DEF Send
  <2>2. \A e \in Event : e \in batch[p] => told[e] <= lost
    BY <1>6 DEF Send
  <2>3. /\ pc'[p] \in {"delivered", "uncertain"} /\ \A q \in Process \ {p} : pc'[q] = pc[q]
        /\ told' = [e \in Event |-> told[e] + IF e \in batch[p] THEN 1 ELSE 0]
        /\ UNCHANGED <<receipt, lost, batch>>
    BY <1>6 DEF Send, Goto, runner
  <2>4. \A e \in Event : e \in batch[p] => e \in receipt.seen
    BY <1>6 DEF Send, ReservedIsSeen, Sending
  <2>5. \A e \in Event : told'[e] = (IF e \in batch[p] THEN told[e] + 1 ELSE told[e]) /\ told[e] \in Nat
    BY <2>3
  <2>6. ToldOncePerCache'
    BY <2>2, <2>3, <2>5
  <2>7. UnseenIsUntold'
    <3>1. \A q \in Process : pc'[q] # "reserved"
      BY <2>1, <2>3
    <3>2. \A e \in Event : e \notin receipt'.seen => told'[e] <= lost'
      BY <2>3, <2>4, <2>5
    <3>q. QED BY <3>1, <3>2
  <2>q. QED BY <2>6, <2>7
<1>7. ASSUME NEW p \in Process, Record(p) PROVE (ToldOncePerCache /\ UnseenIsUntold)'
  <2>1. receipt'.seen = receipt.seen
    BY <1>7, SettledRows
  <2>q. QED BY <1>7, <2>1 DEF Record, Goto, Return, runner, history
<1>8. ASSUME NEW p \in Process, WriteFails(p) PROVE (ToldOncePerCache /\ UnseenIsUntold)'
  <2>1. receipt.seen \subseteq receipt'.seen
    BY <1>8, ReservationRows DEF WriteFails
  <2>q. QED BY <1>8, <2>1 DEF WriteFails, Goto, Return, runner, history
<1>9. ASSUME NEW p \in Process, Crash(p) PROVE (ToldOncePerCache /\ UnseenIsUntold)'
  BY <1>9 DEF Crash, Goto, Return, runner, history
<1>10. CASE SaveCache
  BY <1>10 DEF SaveCache, Goto, Return, runner, history
<1>11. CASE LoseCache
  BY <1>11 DEF LoseCache, Goto, Return, runner, history
<1>12. CASE UNCHANGED vars
  BY <1>12 DEF vars, Goto, Return, runner, history
<1>q. QED
  BY <1>1, <1>2, <1>3, <1>4, <1>5, <1>6, <1>7, <1>8, <1>9, <1>10, <1>11, <1>12 DEF Next

\* What is being sent has been seen; a receipt that does not exist has seen nothing.
SeenSound == ReservedIsSeen /\ NothingYet(receipt) /\ NothingYet(cache.receipt)

\* It is kept.
LEMMA SeenStep == DeliveryInv /\ [Next]_vars => SeenSound'
<1> SUFFICES ASSUME DeliveryInv, [Next]_vars PROVE SeenSound'
  OBVIOUS
<1> USE DEF DeliveryInv, SeenSound, TypeOK, OneDeliverer, ReservedIsSeen, NothingYet, Sending
<1>1. CASE EventHappens
  BY <1>1 DEF EventHappens, Goto, Return, runner, history
<1>2. ASSUME NEW p \in Process, TakeLock(p) PROVE SeenSound'
  BY <1>2 DEF TakeLock, Goto, Return, runner, history
<1>3. ASSUME NEW p \in Process, Baseline(p) PROVE SeenSound'
  BY <1>3 DEF Baseline, Goto, Return, runner, history
<1>4. ASSUME NEW p \in Process, Nothing(p) PROVE SeenSound'
  BY <1>4 DEF Nothing, Goto, Return, runner, history
<1>5. ASSUME NEW p \in Process, Reserve(p) PROVE SeenSound'
  <2>1. receipt'.seen = receipt.seen \cup batch[p] /\ receipt'.exists
    BY <1>5, ReservationRows DEF Reserve
  <2>q. QED BY <1>5, <2>1 DEF Reserve, Goto, Unseen, runner, history
<1>6. ASSUME NEW p \in Process, Send(p) PROVE SeenSound'
  BY <1>6 DEF Send, Goto, Return, runner, history
<1>7. ASSUME NEW p \in Process, Record(p) PROVE SeenSound'
  <2>1. receipt'.seen = receipt.seen /\ receipt'.exists = receipt.exists
    BY <1>7, SettledRows
  <2>q. QED BY <1>7, <2>1 DEF Record, Goto, Return, runner, history
<1>8. ASSUME NEW p \in Process, WriteFails(p) PROVE SeenSound'
  <2>1. receipt' = receipt \/ receipt'.exists
    BY <1>8, ReservationRows DEF WriteFails
  <2>q. QED BY <1>8, <2>1 DEF WriteFails, Goto, Return, runner, history
<1>9. ASSUME NEW p \in Process, Crash(p) PROVE SeenSound'
  BY <1>9 DEF Crash, Goto, Return, runner, history
<1>10. CASE SaveCache
  BY <1>10 DEF SaveCache, Goto, Return, runner, history
<1>11. CASE LoseCache
  BY <1>11 DEF LoseCache, Goto, Return, runner, history
<1>12. CASE UNCHANGED vars
  BY <1>12 DEF vars, Goto, Return, runner, history
<1>q. QED
  BY <1>1, <1>2, <1>3, <1>4, <1>5, <1>6, <1>7, <1>8, <1>9, <1>10, <1>11, <1>12 DEF Next

\* Rows say what was sent and what arrived.
RowsHonest == SendsAreOnRecord /\ DeliveredHasArrived /\ RowIsMine /\ HonestRows(cache.receipt.rows)

\* They stay honest.
LEMMA RowsStep == DeliveryInv /\ [Next]_vars => RowsHonest'
<1> SUFFICES ASSUME DeliveryInv, [Next]_vars PROVE RowsHonest'
  OBVIOUS
<1> USE DEF DeliveryInv, RowsHonest, OneDeliverer, SendsAreOnRecord, DeliveredHasArrived, RowIsMine, HonestRows, Sending
<1>1. CASE EventHappens
  BY <1>1 DEF EventHappens, Goto, Return, runner, history
<1>2. ASSUME NEW p \in Process, TakeLock(p) PROVE RowsHonest'
  BY <1>2 DEF TakeLock, Goto, Return, runner, history
<1>3. ASSUME NEW p \in Process, Baseline(p) PROVE RowsHonest'
  <2>1. \A q \in Process \ {p} : pc[q] = "idle"
    BY <1>3 DEF Baseline
  <2>2. lost = 0 => sentRows = {}
    BY <1>3 DEF Baseline, BaselineIsSeen
  <2>q. QED BY <1>3, <2>1, <2>2 DEF Baseline, Goto, Return, runner, history, TypeOK
<1>4. ASSUME NEW p \in Process, Nothing(p) PROVE RowsHonest'
  BY <1>4 DEF Nothing, Goto, Return, runner, history
<1>5. ASSUME NEW p \in Process, Reserve(p) PROVE RowsHonest'
  <2>1. \A q \in Process \ {p} : pc[q] = "idle"
    BY <1>5 DEF Reserve
  <2>2. /\ Len(receipt'.rows) = Len(receipt.rows) + 1 /\ Len(receipt.rows) \in Nat
        /\ receipt'.rows[Len(receipt.rows) + 1] = Row(Unseen(p), "RESERVED")
        /\ \A n \in 1..Len(receipt.rows) : receipt'.rows[n] = receipt.rows[n]
    BY <1>5, ReservationRows DEF Reserve, TypeOK, ReceiptType
  <2>3. /\ pc'[p] = "reserved" /\ batch'[p] = Unseen(p) /\ \A q \in Process \ {p} : pc'[q] = "idle"
        /\ UNCHANGED <<cache, lost, sentRows, arrived>>
    BY <1>5, <2>1 DEF Reserve, Goto, runner, history, TypeOK
  <2> DEFINE k == Len(receipt.rows)
  <2>4. \A n \in 1..(k + 1) : n \in 1..k \/ n = k + 1
    BY <2>2
  <2>5. DeliveredHasArrived'
    <3> SUFFICES ASSUME NEW n \in 1..(k + 1), receipt'.rows[n].status = "DELIVERED"
                 PROVE  receipt'.rows[n].events \in arrived
      BY <2>2, <2>3
    <3>1. n # k + 1
      BY <2>2 DEF Row
    <3>2. n \in 1..k /\ receipt'.rows[n] = receipt.rows[n]
      BY <2>2, <2>4, <3>1
    <3>q. QED BY <3>2
  <2>6. SendsAreOnRecord'
    <3>1. 1..k \subseteq 1..(k + 1)
      BY <2>2
    <3>q. QED BY <2>2, <2>3, <3>1
  <2>q. QED BY <2>2, <2>3, <2>5, <2>6 DEF Row
<1>6. ASSUME NEW p \in Process, Send(p) PROVE RowsHonest'
  <2>1. \A q \in Process \ {p} : pc[q] = "idle"
    BY <1>6 DEF Send
  <2>2. /\ pc'[p] \in {"delivered", "uncertain"} /\ \A q \in Process \ {p} : pc'[q] = "idle"
        /\ sentRows' = sentRows \cup {batch[p]} /\ arrived \subseteq arrived'
        /\ pc'[p] = "delivered" => batch[p] \in arrived'
        /\ UNCHANGED <<receipt, cache, lost, batch>>
    BY <1>6, <2>1 DEF Send, Goto, runner, TypeOK
  <2>3. Len(receipt.rows) \in 1..Len(receipt.rows) /\ receipt.rows[Len(receipt.rows)].events = batch[p]
    BY <1>6 DEF Send, TypeOK, ReceiptType
  <2>4. SendsAreOnRecord'
    BY <2>2, <2>3
  <2>5. DeliveredHasArrived'
    BY <2>2
  <2>q. QED BY <2>2, <2>3, <2>4, <2>5
<1>7. ASSUME NEW p \in Process, Record(p) PROVE RowsHonest'
  <2>1. /\ Len(receipt'.rows) = Len(receipt.rows) /\ Len(receipt.rows) > 0
        /\ \A n \in 1..Len(receipt.rows) :
             /\ receipt'.rows[n].events = receipt.rows[n].events
             /\ receipt'.rows[n].status =
                  IF n = Len(receipt.rows) THEN Outcome(p) ELSE receipt.rows[n].status
    BY <1>7, SettledRows
  <2>2. /\ \A q \in Process : pc'[q] = "idle"
        /\ UNCHANGED <<cache, lost, sentRows, arrived>>
    BY <1>7 DEF Record, Goto, Return, runner, history, TypeOK
  <2>3. Outcome(p) = "DELIVERED" => receipt.rows[Len(receipt.rows)].events \in arrived
    BY <1>7 DEF Record, Outcome
  <2>4. SendsAreOnRecord'
    BY <2>1, <2>2
  <2>5. DeliveredHasArrived'
    BY <2>1, <2>2, <2>3
  <2>q. QED BY <2>2, <2>4, <2>5
<1>8. ASSUME NEW p \in Process, WriteFails(p) PROVE RowsHonest'
  <2>1. /\ \A q \in Process : pc'[q] = "idle"
        /\ UNCHANGED <<cache, lost, sentRows, arrived>>
        /\ receipt' \in {receipt, Reservation(p)}
    BY <1>8 DEF WriteFails, Goto, Return, runner, history, TypeOK
  <2>2. CASE receipt' = Reservation(p)
    <3>1. /\ Len(receipt'.rows) = Len(receipt.rows) + 1 /\ Len(receipt.rows) \in Nat
          /\ receipt'.rows[Len(receipt.rows) + 1] = Row(Unseen(p), "RESERVED")
          /\ \A n \in 1..Len(receipt.rows) : receipt'.rows[n] = receipt.rows[n]
      BY <2>2, ReservationRows DEF TypeOK, ReceiptType
    <3> DEFINE k == Len(receipt.rows)
    <3>2. \A n \in 1..(k + 1) : n \in 1..k \/ n = k + 1
      BY <3>1
    <3>3. DeliveredHasArrived'
      <4> SUFFICES ASSUME NEW n \in 1..(k + 1), receipt'.rows[n].status = "DELIVERED"
                   PROVE  receipt'.rows[n].events \in arrived
        BY <2>1, <3>1
      <4>1. n # k + 1
        BY <3>1 DEF Row
      <4>2. n \in 1..k /\ receipt'.rows[n] = receipt.rows[n]
        BY <3>1, <3>2, <4>1
      <4>q. QED BY <4>2
    <3>4. SendsAreOnRecord'
      <4>1. 1..k \subseteq 1..(k + 1)
        BY <3>1
      <4>q. QED BY <2>1, <3>1, <4>1
    <3>q. QED BY <2>1, <3>3, <3>4
  <2>3. CASE receipt' = receipt
    BY <2>1, <2>3
  <2>q. QED BY <2>1, <2>2, <2>3
<1>9. ASSUME NEW p \in Process, Crash(p) PROVE RowsHonest'
  BY <1>9 DEF TypeOK, Crash, Goto, Return, runner, history
<1>10. CASE SaveCache
  BY <1>10 DEF SaveCache, Goto, Return, runner, history
<1>11. CASE LoseCache
  <2>1. lost' # 0
    BY <1>11 DEF LoseCache, TypeOK
  <2>q. QED BY <1>11, <2>1 DEF LoseCache, history
<1>12. CASE UNCHANGED vars
  BY <1>12 DEF vars, Goto, Return, runner, history
<1>q. QED
  BY <1>1, <1>2, <1>3, <1>4, <1>5, <1>6, <1>7, <1>8, <1>9, <1>10, <1>11, <1>12 DEF Next

\* The first snapshot is not news.
LEMMA BaselineStep == DeliveryInv /\ [Next]_vars => (BaselineIsNotNews /\ BaselineIsSeen)'
<1> SUFFICES ASSUME DeliveryInv, [Next]_vars PROVE (BaselineIsNotNews /\ BaselineIsSeen)'
  OBVIOUS
<1> USE DEF DeliveryInv, OneDeliverer, BaselineIsNotNews, BaselineIsSeen
<1>1. CASE EventHappens
  BY <1>1 DEF EventHappens, Goto, Return, runner, history
<1>2. ASSUME NEW p \in Process, TakeLock(p) PROVE (BaselineIsNotNews /\ BaselineIsSeen)'
  BY <1>2 DEF TakeLock, Goto, Return, runner, history
<1>3. ASSUME NEW p \in Process, Baseline(p) PROVE (BaselineIsNotNews /\ BaselineIsSeen)'
  <2>1. \A q \in Process : pc'[q] = "idle"
    BY <1>3 DEF Baseline, Goto, Return, TypeOK
  <2>2. receipt'.seen = batch[p] /\ receipt'.exists /\ baseline' = batch[p] /\ told' = told /\ lost' = lost
        /\ batch[p] \subseteq Event
    BY <1>3 DEF Baseline, runner, TypeOK
  <2>3. lost = 0 => \A e \in Event : told[e] = 0
    BY <1>3 DEF Baseline
  <2>q. QED BY <2>1, <2>2, <2>3
<1>4. ASSUME NEW p \in Process, Nothing(p) PROVE (BaselineIsNotNews /\ BaselineIsSeen)'
  BY <1>4 DEF Nothing, Goto, Return, runner, history
<1>5. ASSUME NEW p \in Process, Reserve(p) PROVE (BaselineIsNotNews /\ BaselineIsSeen)'
  <2>1. \A q \in Process \ {p} : pc[q] = "idle"
    BY <1>5 DEF Reserve
  <2>2. receipt'.seen = receipt.seen \cup batch[p] /\ receipt'.exists
    BY <1>5, ReservationRows DEF Reserve
  <2>q. QED BY <1>5, <2>1, <2>2 DEF Reserve, Goto, Unseen, runner, history, TypeOK
<1>6. ASSUME NEW p \in Process, Send(p) PROVE (BaselineIsNotNews /\ BaselineIsSeen)'
  <2>1. \A q \in Process : pc'[q] # "reserved"
    BY <1>6 DEF Send, Goto, TypeOK
  <2>2. lost = 0 => /\ \A e \in baseline : told'[e] = 0
                    /\ receipt.exists
    <3>1. lost = 0 => baseline \subseteq Event /\ baseline \cap batch[p] = {}
      BY <1>6 DEF Send, TypeOK
    <3>2. \A e \in Event : e \notin batch[p] => told'[e] = told[e]
      BY <1>6 DEF Send, TypeOK
    <3>3. lost = 0 => receipt.exists
      BY <1>6 DEF Send, Sending, ReservedIsSeen
    <3>q. QED BY <3>1, <3>2, <3>3
  <2>q. QED BY <1>6, <2>1, <2>2 DEF Send, runner
<1>7. ASSUME NEW p \in Process, Record(p) PROVE (BaselineIsNotNews /\ BaselineIsSeen)'
  <2>1. receipt'.seen = receipt.seen /\ receipt'.exists = receipt.exists
    BY <1>7, SettledRows
  <2>q. QED BY <1>7, <2>1 DEF Record, Goto, Return, runner, history, TypeOK
<1>8. ASSUME NEW p \in Process, WriteFails(p) PROVE (BaselineIsNotNews /\ BaselineIsSeen)'
  <2>1. receipt.seen \subseteq receipt'.seen /\ (receipt' = receipt \/ receipt'.exists)
    BY <1>8, ReservationRows DEF WriteFails
  <2>q. QED BY <1>8, <2>1 DEF WriteFails, Goto, Return, runner, history, TypeOK
<1>9. ASSUME NEW p \in Process, Crash(p) PROVE (BaselineIsNotNews /\ BaselineIsSeen)'
  BY <1>9 DEF Crash, Goto, Return, runner, history
<1>10. CASE SaveCache
  BY <1>10 DEF SaveCache, Goto, Return, runner, history
<1>11. CASE LoseCache
  <2>1. lost' # 0
    BY <1>11 DEF LoseCache, TypeOK
  <2>q. QED BY <2>1
<1>12. CASE UNCHANGED vars
  BY <1>12 DEF vars, Goto, Return, runner, history
<1>q. QED
  BY <1>1, <1>2, <1>3, <1>4, <1>5, <1>6, <1>7, <1>8, <1>9, <1>10, <1>11, <1>12 DEF Next

-----------------------------------------------------------------------------
(* Theorems                                                                *)

LEMMA DeliveryInit == Init => DeliveryInv
<1> SUFFICES ASSUME Init PROVE DeliveryInv
  OBVIOUS
<1>1. NoReceipt \in ReceiptType /\ ~NoReceipt.exists /\ NoReceipt.seen = {} /\ Len(NoReceipt.rows) = 0
  BY DEF NoReceipt, ReceiptType
<1>2. /\ receipt = NoReceipt /\ cache.receipt = NoReceipt /\ lock = FALSE /\ lost = 0
      /\ cache = [receipt |-> NoReceipt, lock |-> FALSE]
      /\ \A p \in Process : pc[p] = "idle" /\ batch[p] = {}
      /\ \A e \in Event : told[e] = 0
      /\ happened = {} /\ sentRows = {} /\ arrived = {} /\ baseline = {}
  BY DEF Init
<1>3. TypeOK
  <2>1. /\ pc \in [Process -> {"idle", "locked", "reserved", "delivered", "uncertain"}]
        /\ batch \in [Process -> SUBSET Event] /\ told \in [Event -> Nat]
    BY DEF Init
  <2>2. lock \in BOOLEAN /\ lost \in Nat /\ cache \in [receipt : ReceiptType, lock : BOOLEAN]
    <3>1. lock \in BOOLEAN /\ lost \in Nat
      BY <1>2
    <3>2. [receipt |-> NoReceipt, lock |-> FALSE] \in [receipt : ReceiptType, lock : BOOLEAN]
      BY <1>1
    <3>q. QED BY <1>2, <3>1, <3>2
  <2>q. QED BY <1>1, <1>2, <2>1, <2>2 DEF TypeOK, Sending
<1>4. SendsAreOnRecord /\ DeliveredHasArrived /\ OneDeliverer /\ ReservedIsSeen /\ RowIsMine /\ HonestRows(cache.receipt.rows)
  BY <1>1, <1>2 DEF SendsAreOnRecord, DeliveredHasArrived, OneDeliverer, ReservedIsSeen, RowIsMine, HonestRows, Sending
<1>5. ToldOncePerCache /\ UnseenIsUntold /\ BaselineIsNotNews
  BY <1>2 DEF ToldOncePerCache, UnseenIsUntold, BaselineIsNotNews
<1>6. BaselineIsSeen /\ NothingYet(receipt) /\ NothingYet(cache.receipt)
  BY <1>1, <1>2 DEF BaselineIsSeen, NothingYet
<1>q. QED BY <1>3, <1>4, <1>5, <1>6 DEF DeliveryInv

\* The invariant that carries the rest.
THEOREM DeliveryInvariant == Spec => []DeliveryInv
<1>1. DeliveryInv /\ [Next]_vars => DeliveryInv'
  BY TypeStep, OneDelivererStep, CountsStep, SeenStep, RowsStep, BaselineStep DEF DeliveryInv, SeenSound, RowsHonest
<1>q. QED BY <1>1, DeliveryInit, PTL DEF Spec

\* An event is told at most once, and once more for every save of the cache that was lost.
THEOREM EventsAreToldOnce == Spec => []ToldOncePerCache
<1>1. DeliveryInv => ToldOncePerCache
  BY DEF DeliveryInv
<1>q. QED BY <1>1, DeliveryInvariant, PTL

\* Nothing is sent that the receipt does not name, and DELIVERED is never a guess.
THEOREM ReceiptIsHonest == Spec => [](SendsAreOnRecord /\ DeliveredHasArrived)
<1>1. DeliveryInv => SendsAreOnRecord /\ DeliveredHasArrived
  BY DEF DeliveryInv
<1>q. QED BY <1>1, DeliveryInvariant, PTL

\* The events of the first snapshot are never told.
THEOREM BaselineIsSilent == Spec => []BaselineIsNotNews
<1>1. DeliveryInv => BaselineIsNotNews
  BY DEF DeliveryInv
<1>q. QED BY <1>1, DeliveryInvariant, PTL

-------------------------------------------------------------------------------
(* The market guard.                                                       *)

\* The larger of two cooldowns.
LEMMA MaxOfTwo == ASSUME NEW a \in Nat, NEW b \in Nat PROVE Market!Max({a, b}) = IF a >= b THEN a ELSE b
<1> DEFINE m == IF a >= b THEN a ELSE b
<1>1. m \in {a, b} /\ \A y \in {a, b} : m >= y
  OBVIOUS
<1>2. \A x \in {a, b} : (\A y \in {a, b} : x >= y) => x = m
  OBVIOUS
<1> HIDE DEF m
<1>3. Market!Max({a, b}) = CHOOSE x \in {a, b} : \A y \in {a, b} : x >= y
  BY DEF Market!Max
<1>4. Market!Max({a, b}) = m
  BY <1>1, <1>2, <1>3
<1>q. QED BY <1>4 DEF m

\* A cooldown is a number, none for level 0; Never is longer ago than all of them.
LEMMA CooldownFacts ==
  /\ Market!Cooldown(0) = 0 /\ \A l \in Market!Levels : Market!Cooldown(l) \in Nat /\ (l # 0 => Market!Cooldown(l) >= 1)
  /\ Market!Never \in Int /\ Market!Never < 0 /\ Market!Never + Hold <= 0 /\ \A l \in Market!Levels : Market!Never + Market!Cooldown(l) <= 0
<1>1. /\ Hold \in Nat /\ Base \in Nat /\ LowestL3 \in Nat /\ LowestL1 \in Nat
      /\ Base >= 1 /\ LowestL3 >= 1
  BY MarketAssumption
<1>2. Base \div 2 \in Nat /\ Base \div 2 <= Base
  BY <1>1
<1>3. /\ Market!Cooldown(3) = IF LowestL3 >= Base \div 2 THEN LowestL3 ELSE Base \div 2
      /\ Market!Cooldown(2) = Base
      /\ Market!Cooldown(1) = IF Base >= LowestL1 THEN Base ELSE LowestL1
      /\ Market!Cooldown(0) = 0
  BY <1>1, <1>2, MaxOfTwo DEF Market!Cooldown
<1>4. Market!Levels = {0, 1, 2, 3}
  BY DEF Market!Levels
<1>q. QED BY <1>1, <1>2, <1>3, <1>4 DEF Market!Never

-------------------------------------------------------------------------------
Controls == [level : Market!Levels, at : Int]
Decisions == [raw : Market!Levels, level : Market!Levels, clock : Market!Clocks, at : Int, reason : Market!Reasons]
Jobs == [pc : {"decided", "acted", "saved", "failed"}, force : BOOLEAN, decision : Decisions,
         memory : Market!Memories, control : Controls]

\* Times are not ahead of the clock.
Typed ==
  /\ mgNow \in 0..MaxNow
  /\ mgMarket \in [open : BOOLEAN, since : Int] /\ mgMarket.since <= mgNow
  /\ mgCache \in [memory : Market!Memories, control : Controls]
  /\ mgRun = Market!Idle \/ mgRun \in Jobs
  /\ mgDone \in [Market!Levels -> Int] /\ mgDid \in [Market!Levels -> Int]
  /\ \A l \in Market!Levels : mgDone[l] <= mgNow /\ mgDid[l] <= mgNow
  /\ mgWatch \in [changed : Int, halted : Int, dropped : Nat, early : BOOLEAN, repeats : Nat,
                  forgot : Nat, blind : BOOLEAN, forced : Nat]

LEMMA SignatureIs == ASSUME NEW d \in Decisions
                     PROVE  Market!Signature(d) \in Market!Signatures /\ Market!Signature(d) # Market!NoSignature /\ Market!Signature(d)[2] = d.level
<1>1. /\ d.raw \in Market!Levels /\ d.level \in Market!Levels /\ d.clock \in Market!Clocks /\ d.reason \in Market!Reasons
  BY DEF Decisions
<1>2. Market!Signature(d) \in Market!Signatures
  BY <1>1 DEF Market!Signature, Market!Signatures
<1>3. Market!Signature(d) # Market!NoSignature
  BY DEF Market!Signature, Market!NoSignature
<1>4. Market!Signature(d)[2] = d.level
  BY DEF Market!Signature
<1>q. QED BY <1>2, <1>3, <1>4

\* A decision: the level is lowered after the hold only, and the actions wait for the
\* cooldown of the level that is remembered.
LEMMA DecisionIs ==
  ASSUME Typed, NEW raw \in Raws, NEW clock \in Market!Answers
  PROVE  LET d == Market!Decision(raw, mgCache.memory, clock) IN
         /\ d \in Decisions /\ d.at = mgNow /\ d.clock = clock
         /\ d.level < mgCache.memory.level => mgNow - mgCache.memory.changedAt >= Hold
         /\ Market!Runs(d) => /\ d.level # 0 /\ clock # "closed"
                              /\ d.level = mgCache.memory.level => mgNow >= mgCache.memory.cooldownUntil
         /\ d.reason = "cooldown_active" =>
              d.level # 0 /\ d.level = mgCache.memory.level /\ mgNow < mgCache.memory.cooldownUntil
         /\ clock # "closed" /\ d.level # 0 => Market!Runs(d) \/ d.reason = "cooldown_active"
<1> DEFINE m == mgCache.memory
           l == Market!Applied(raw, m)
<1>1. m \in Market!Memories /\ m.level \in Market!Levels /\ m.changedAt \in Int /\ m.cooldownUntil \in Int /\ mgNow \in Int
  BY DEF Typed, Market!Memories
<1>2. raw \in Market!Levels /\ Hold \in Nat
  BY MarketAssumption
<1>3. l \in Market!Levels /\ (l < m.level => mgNow - m.changedAt >= Hold)
  BY <1>1, <1>2 DEF Market!Applied, Market!Levels
<1>4. clock \in Market!Clocks
  BY DEF Market!Answers, Market!Clocks
<1> HIDE DEF l
<1>5. /\ Market!Reason(l, m, clock) \in Market!Reasons
      /\ Market!Reason(l, m, clock) = "actions_allowed" =>
           l # 0 /\ clock # "closed" /\ (l = m.level => mgNow >= m.cooldownUntil)
      /\ Market!Reason(l, m, clock) = "cooldown_active" => l # 0 /\ l = m.level /\ mgNow < m.cooldownUntil
      /\ clock # "closed" /\ l # 0 => Market!Reason(l, m, clock) \in {"actions_allowed", "cooldown_active"}
  <2>1. l \in Nat
    BY <1>3 DEF Market!Levels
  <2>2. CASE clock = "closed"
    BY <2>2 DEF Market!Reason, Market!Reasons
  <2>3. CASE clock # "closed" /\ l = 0
    BY <2>1, <2>3 DEF Market!Reason, Market!Reasons
  <2>4. CASE clock # "closed" /\ l # 0
    BY <2>1, <2>4, <1>1 DEF Market!Reason, Market!Reasons
  <2>q. QED BY <2>2, <2>3, <2>4
<1>6. Market!Decision(raw, m, clock) = [raw |-> raw, level |-> l, clock |-> clock, at |-> mgNow, reason |-> Market!Reason(l, m, clock)]
  BY DEF Market!Decision, l
<1>7. Market!Decision(raw, m, clock) \in Decisions
  BY <1>1, <1>2, <1>3, <1>4, <1>5, <1>6 DEF Decisions
<1>q. QED BY <1>3, <1>5, <1>6, <1>7 DEF Market!Runs

-------------------------------------------------------------------------------
(* What each step does to the run, as the later lemmas use it. *)

\* A run begins with what the cache remembers.
LEMMA DecideIs ==
  ASSUME Typed, NEW force \in BOOLEAN, NEW raw \in Raws, NEW clock \in Market!Answers, Market!Decide(force, raw, clock)
  PROVE  /\ mgRun = Market!Idle /\ mgRun'.pc = "decided" /\ mgRun' \in Jobs
         /\ mgRun'.decision = Market!Decision(raw, mgCache.memory, clock) /\ mgRun'.decision \in Decisions
         /\ mgRun'.memory = mgCache.memory
         /\ mgRun'.control = [level |-> mgRun'.decision.level, at |-> mgNow]
         /\ UNCHANGED <<mgNow, mgMarket, mgCache, mgDone, mgDid>>
<1> DEFINE d == Market!Decision(raw, mgCache.memory, clock)
<1>1. d \in Decisions
  BY DecisionIs
<1> HIDE DEF d
<1>2. mgRun' = [pc |-> "decided", force |-> force, decision |-> d,
                memory |-> mgCache.memory, control |-> [level |-> d.level, at |-> mgNow]]
  BY DEF Market!Decide, d
<1>3. mgCache.memory \in Market!Memories /\ mgNow \in Int /\ d.level \in Market!Levels
  BY <1>1 DEF Typed, Decisions
<1>4. mgRun' \in Jobs
  BY <1>1, <1>2, <1>3 DEF Jobs, Controls
<1>5. mgRun = Market!Idle /\ UNCHANGED <<mgNow, mgMarket, mgCache, mgDone, mgDid>>
  BY DEF Market!Decide
<1>q. QED BY <1>1, <1>2, <1>4, <1>5 DEF d

\* What a run leaves has the types of a memory.
LEMMA MemoryIs ==
  ASSUME Typed, mgRun \in Jobs
  PROVE  LET d == mgRun.decision
             m == mgRun.memory
         IN  /\ Market!NextMemory \in Market!Memories /\ Market!NextMemory.level = d.level
             /\ Market!NextMemory.signature = Market!Signature(d)
             /\ Market!NextMemory.changedAt = IF m.level = d.level /\ m.changedAt # Market!Never THEN m.changedAt ELSE mgNow
             /\ Market!NextMemory.cooldownUntil =
                  IF Market!Runs(d) /\ Market!Cooldown(d.level) > 0 THEN mgNow + Market!Cooldown(d.level) ELSE m.cooldownUntil
<1> DEFINE d == mgRun.decision
           m == mgRun.memory
           sig == Market!Signature(d)
           byp == Market!Bypass
           rest == Market!Runs(d) /\ Market!Cooldown(d.level) > 0
           until == mgNow + Market!Cooldown(d.level)
<1>1. d \in Decisions /\ d.level \in Market!Levels /\ m \in Market!Memories /\ mgNow \in Int
  BY DEF Jobs, Decisions, Typed
<1>2. sig \in Market!Signatures
  BY <1>1, SignatureIs
<1>3. until \in Int
  BY <1>1, CooldownFacts
<1> HIDE DEF sig, byp, rest, until
<1>4. Market!NextMemory = [m EXCEPT !.level = d.level, !.evaluatedAt = mgNow, !.signature = sig,
                                    !.changedAt = IF m.level = d.level /\ @ # Market!Never THEN @ ELSE mgNow,
                                    !.cooldownUntil = IF rest THEN until ELSE @,
                                    !.forceKey = IF byp THEN sig ELSE @]
  BY DEF Market!NextMemory, sig, byp, rest, until
<1>5. m = [level |-> m.level, changedAt |-> m.changedAt, evaluatedAt |-> m.evaluatedAt,
           cooldownUntil |-> m.cooldownUntil, signature |-> m.signature, forceKey |-> m.forceKey]
      /\ m.level \in Market!Levels /\ m.changedAt \in Int /\ m.evaluatedAt \in Int /\ m.cooldownUntil \in Int
      /\ m.signature \in Market!Signatures /\ m.forceKey \in Market!Signatures
  BY <1>1 DEF Market!Memories
<1>6. Market!NextMemory = [level |-> d.level, changedAt |-> IF m.level = d.level /\ m.changedAt # Market!Never THEN m.changedAt ELSE mgNow,
                           evaluatedAt |-> mgNow, cooldownUntil |-> IF rest THEN until ELSE m.cooldownUntil,
                           signature |-> sig, forceKey |-> IF byp THEN sig ELSE m.forceKey]
  BY <1>4, <1>5
<1>7. Market!NextMemory \in Market!Memories
  BY <1>1, <1>2, <1>3, <1>5, <1>6 DEF Market!Memories
<1>q. QED BY <1>6, <1>7 DEF sig, rest, until

\* The actions of a level begin.
LEMMA ActIs ==
  ASSUME Typed, NEW complete \in BOOLEAN, Market!Act(complete)
  PROVE  LET d == mgRun.decision
             l == d.level
         IN  /\ mgRun.pc = "decided" /\ mgRun \in Jobs /\ l \in Market!Levels /\ mgRun' \in Jobs
             /\ mgRun'.pc \in {"acted", "failed"}
             /\ mgRun'.decision = d /\ mgRun'.memory = mgRun.memory /\ mgRun'.control = mgRun.control
             /\ UNCHANGED <<mgNow, mgMarket, mgCache, mgDone>>
             /\ \/ /\ Active /\ Market!Runs(d)
                   /\ mgDid' = [mgDid EXCEPT ![l] = mgNow]
                   /\ mgWatch' = [mgWatch EXCEPT !.repeats = IF mgNow - mgDid[l] < Market!Cooldown(l) THEN @ + 1 ELSE @]
                \/ ~(Active /\ Market!Runs(d)) /\ UNCHANGED <<mgDid, mgWatch>>
<1>1. mgRun.pc = "decided" /\ UNCHANGED <<mgNow, mgMarket, mgCache, mgDone>>
  BY DEF Market!Act
<1>2. mgRun \in Jobs /\ mgRun.decision.level \in Market!Levels
  BY <1>1 DEF Typed, Market!Idle, Jobs, Decisions
<1>3. mgRun' = [mgRun EXCEPT !.pc = IF complete THEN "acted" ELSE "failed"]
  BY DEF Market!Act
<1>4. /\ mgRun' \in Jobs /\ mgRun'.pc \in {"acted", "failed"}
      /\ mgRun'.decision = mgRun.decision /\ mgRun'.memory = mgRun.memory /\ mgRun'.control = mgRun.control
  BY <1>2, <1>3 DEF Jobs
<1>5. \/ /\ Active /\ Market!Runs(mgRun.decision)
         /\ mgDid' = [mgDid EXCEPT ![mgRun.decision.level] = mgNow]
         /\ mgWatch' = [mgWatch EXCEPT !.repeats =
                          IF mgNow - mgDid[mgRun.decision.level] < Market!Cooldown(mgRun.decision.level) THEN @ + 1 ELSE @]
      \/ ~(Active /\ Market!Runs(mgRun.decision)) /\ UNCHANGED <<mgDid, mgWatch>>
  BY DEF Market!Act
<1>q. QED BY <1>1, <1>2, <1>4, <1>5

LEMMA SaveIs ==
  ASSUME Typed, Market!Save
  PROVE  /\ mgRun.pc = "acted" /\ mgRun \in Jobs /\ mgRun' \in Jobs /\ mgRun'.pc = "saved"
         /\ mgRun'.decision = mgRun.decision /\ mgRun'.memory = Market!NextMemory /\ mgRun'.control = mgRun.control
         /\ mgDone' = IF Market!Runs(mgRun.decision) THEN [mgDone EXCEPT ![mgRun.decision.level] = mgNow] ELSE mgDone
         /\ UNCHANGED <<mgNow, mgMarket, mgCache, mgDid, mgWatch>>
<1>1. mgRun.pc = "acted" /\ UNCHANGED <<mgNow, mgMarket, mgCache, mgDid, mgWatch>>
  BY DEF Market!Save
<1>2. mgRun \in Jobs
  BY <1>1 DEF Typed, Market!Idle
<1>3. Market!NextMemory \in Market!Memories
  BY <1>2, MemoryIs
<1>4. mgRun' = [mgRun EXCEPT !.pc = "saved", !.memory = Market!NextMemory]
  BY DEF Market!Save
<1>5. /\ mgRun' \in Jobs /\ mgRun'.pc = "saved"
      /\ mgRun'.decision = mgRun.decision /\ mgRun'.memory = Market!NextMemory /\ mgRun'.control = mgRun.control
  BY <1>2, <1>3, <1>4 DEF Jobs
<1>6. mgDone' = IF Market!Runs(mgRun.decision) THEN [mgDone EXCEPT ![mgRun.decision.level] = mgNow] ELSE mgDone
  BY DEF Market!Save
<1>q. QED BY <1>1, <1>2, <1>5, <1>6

\* The directory of a run is put in the cache.
LEMMA PublishIs ==
  ASSUME Typed, Market!Publish
  PROVE  /\ mgRun.pc \in {"saved", "failed"} /\ mgRun \in Jobs /\ mgRun' = Market!Idle
         /\ mgCache'.memory = mgRun.memory /\ mgCache'.control = mgRun.control
         /\ mgCache' \in [memory : Market!Memories, control : Controls]
         /\ mgWatch' = [Market!Seen EXCEPT !.forgot = IF mgRun.pc = "failed" THEN @ + 1 ELSE @]
         /\ UNCHANGED <<mgNow, mgMarket, mgDone, mgDid>>
<1>1. /\ mgRun.pc \in {"saved", "failed"} /\ mgRun' = Market!Idle
      /\ mgCache' = [memory |-> mgRun.memory, control |-> mgRun.control]
      /\ mgWatch' = [Market!Seen EXCEPT !.forgot = IF mgRun.pc = "failed" THEN @ + 1 ELSE @]
      /\ UNCHANGED <<mgNow, mgMarket, mgDone, mgDid>>
  BY DEF Market!Publish
<1>2. mgRun \in Jobs
  BY <1>1 DEF Typed, Market!Idle
<1>3. mgRun.memory \in Market!Memories /\ mgRun.control \in Controls
  BY <1>2 DEF Jobs
<1>q. QED BY <1>1, <1>2, <1>3

\* The observer's notes after a publication, in the terms of the two levels.
Watches == [changed : Int, halted : Int, dropped : Nat, early : BOOLEAN, repeats : Nat,
            forgot : Nat, blind : BOOLEAN, forced : Nat]
LEMMA SeenIs ==
  ASSUME Typed, mgRun \in Jobs
  PROVE  LET old == mgCache.control.level
             new == mgRun.control.level
         IN  /\ Market!Seen \in Watches
             /\ Market!Seen.repeats = mgWatch.repeats /\ Market!Seen.forgot = mgWatch.forgot /\ Market!Seen.blind = mgWatch.blind
             /\ Market!Seen.forced = mgWatch.forced
             /\ old = new => Market!Seen = mgWatch
             /\ old # new => Market!Seen.changed = mgRun.control.at
             /\ Market!Seen.dropped = IF new < old THEN mgWatch.dropped + 1 ELSE mgWatch.dropped
             /\ Market!Seen.halted = IF new # old /\ new >= 2 THEN mgRun.control.at ELSE mgWatch.halted
             /\ Market!Seen.early <=> mgWatch.early \/ (new < old /\ mgRun.control.at - mgWatch.changed < Hold)
<1> DEFINE old == mgCache.control.level
           new == mgRun.control.level
           at == mgRun.control.at
<1>1. old \in Market!Levels /\ new \in Market!Levels /\ at \in Int /\ mgWatch \in Watches
  BY DEF Typed, Jobs, Controls, Watches
<1>2. old \in Nat /\ new \in Nat
  BY <1>1 DEF Market!Levels
<1> HIDE DEF old, new, at
<1>3. CASE old = new
  <2>1. Market!Seen = mgWatch
    BY <1>3 DEF Market!Seen, old, new
  <2>q. QED BY <1>1, <1>2, <1>3, <2>1 DEF old, new, at, Watches
<1>4. CASE old # new
  <2> DEFINE soon == at - mgWatch.changed < Hold
  <2>1. Market!Seen = [mgWatch EXCEPT !.changed = at,
                                      !.halted = IF new >= 2 THEN at ELSE @,
                                      !.dropped = IF new < old THEN @ + 1 ELSE @,
                                      !.early = @ \/ (new < old /\ soon)]
    BY <1>4 DEF Market!Seen, old, new, at
  <2> HIDE DEF soon
  <2>2. /\ Market!Seen.changed = at /\ Market!Seen.halted = IF new >= 2 THEN at ELSE mgWatch.halted
        /\ Market!Seen.dropped = IF new < old THEN mgWatch.dropped + 1 ELSE mgWatch.dropped
        /\ Market!Seen.early = (mgWatch.early \/ (new < old /\ soon))
        /\ Market!Seen.repeats = mgWatch.repeats /\ Market!Seen.forgot = mgWatch.forgot /\ Market!Seen.blind = mgWatch.blind
        /\ Market!Seen.forced = mgWatch.forced
    BY <1>1, <2>1 DEF Watches
  <2>3. Market!Seen \in Watches
    <3> DEFINE e == mgWatch.early \/ (new < old /\ soon)
               h == IF new >= 2 THEN at ELSE mgWatch.halted
               n == IF new < old THEN mgWatch.dropped + 1 ELSE mgWatch.dropped
    <3>1. e \in BOOLEAN /\ h \in Int /\ n \in Nat
      BY <1>1 DEF Watches
    <3>2. Market!Seen = [mgWatch EXCEPT !.changed = at, !.halted = h, !.dropped = n, !.early = e]
      BY <1>1, <2>1 DEF Watches
    <3> HIDE DEF e, h, n
    <3>q. QED BY <1>1, <3>1, <3>2 DEF Watches
  <2>q. QED BY <1>4, <2>2, <2>3 DEF soon, old, new, at
<1>q. QED BY <1>3, <1>4

-------------------------------------------------------------------------------
(* Types *)

LEMMA IdleIs == Market!Idle.pc = "idle" /\ \A j \in Jobs : j # Market!Idle /\ j.pc # "idle"
BY DEF Market!Idle, Jobs

LEMMA WatchesAre ==
  ASSUME NEW w \in Watches
  PROVE  /\ \A n \in Nat : [w EXCEPT !.forgot = n] \in Watches /\ [w EXCEPT !.repeats = n] \in Watches
         /\ w.forgot \in Nat /\ w.repeats \in Nat
BY DEF Watches

LEMMA InitTyped == Market!Init => Typed
<1> SUFFICES ASSUME Market!Init PROVE Typed
  OBVIOUS
<1>1. 0 \in 0..MaxNow /\ Market!Never \in Int /\ Market!Never <= 0 /\ Hold \in Nat
  BY MarketAssumption, CooldownFacts
<1>2. Market!NoMemory \in Market!Memories /\ Market!NoControl \in Controls
  <2>1. 0 \in Market!Levels /\ Market!NoSignature \in Market!Signatures
    BY DEF Market!Levels, Market!Signatures
  <2>q. QED BY <1>1, <2>1 DEF Market!NoMemory, Market!NoControl, Market!Memories, Controls
<1>3. mgWatch \in Watches
  BY <1>1 DEF Market!Init, Watches
<1>4. mgMarket \in [open : BOOLEAN, since : Int] /\ mgMarket.since <= mgNow
  BY DEF Market!Init
<1>5. /\ mgDone \in [Market!Levels -> Int] /\ mgDid \in [Market!Levels -> Int]
      /\ \A l \in Market!Levels : mgDone[l] <= mgNow /\ mgDid[l] <= mgNow
  BY <1>1 DEF Market!Init
<1>6. mgCache \in [memory : Market!Memories, control : Controls] /\ mgRun = Market!Idle /\ mgNow \in 0..MaxNow
  BY <1>1, <1>2 DEF Market!Init
<1>q. QED BY <1>3, <1>4, <1>5, <1>6 DEF Typed, Watches

LEMMA TypedStep == Typed /\ [Market!Next]_(Market!vars) => Typed'
<1> SUFFICES ASSUME Typed, [Market!Next]_(Market!vars) PROVE Typed'
  OBVIOUS
<1>0. mgWatch \in Watches /\ mgNow \in Nat /\ MaxNow \in Nat
  BY MarketAssumption DEF Typed, Watches
<1>1. CASE Market!Tick
  <2>1. mgNow' \in 0..MaxNow /\ mgNow' = mgNow + 1
    BY <1>0, <1>1 DEF Market!Tick
  <2>q. QED BY <1>0, <1>1, <2>1 DEF Market!Tick, Typed
<1>2. CASE Market!Bell
  <2>1. mgMarket' \in [open : BOOLEAN, since : Int] /\ mgMarket'.since = mgNow
    BY <1>0, <1>2 DEF Market!Bell
  <2>q. QED BY <1>0, <1>2, <2>1 DEF Market!Bell, Typed
<1>3. ASSUME NEW force \in BOOLEAN, NEW raw \in Raws, NEW clock \in Market!Answers, Market!Decide(force, raw, clock)
      PROVE  Typed'
  <2>1. mgWatch' \in Watches
    <3> DEFINE n == IF force THEN mgWatch.forced + 1 ELSE mgWatch.forced
               b == mgWatch.blind \/ (clock = "unknown" /\ ~mgMarket.open)
    <3>1. n \in Nat /\ b \in BOOLEAN
      BY <1>0 DEF Watches
    <3>2. mgWatch' = [mgWatch EXCEPT !.forced = n, !.blind = b]
      BY <1>0, <1>3 DEF Market!Decide, Watches
    <3> HIDE DEF n, b
    <3>q. QED BY <1>0, <3>1, <3>2 DEF Watches
  <2>2. mgRun' \in Jobs /\ UNCHANGED <<mgNow, mgMarket, mgCache, mgDone, mgDid>>
    BY <1>3, DecideIs
  <2>q. QED BY <2>1, <2>2 DEF Typed, Watches
<1>4. CASE Market!Dedupe
  <2>1. mgRun \in Jobs
    BY <1>4, IdleIs DEF Market!Dedupe, Typed
  <2>2. mgRun' \in Jobs
    BY <1>4, <2>1 DEF Market!Dedupe, Jobs
  <2>q. QED BY <1>4, <2>2 DEF Market!Dedupe, Typed
<1>5. ASSUME NEW complete \in BOOLEAN, Market!Act(complete) PROVE Typed'
  <2> DEFINE l == mgRun.decision.level
  <2>1. l \in Market!Levels /\ mgRun' \in Jobs /\ UNCHANGED <<mgNow, mgMarket, mgCache, mgDone>>
    BY <1>5, ActIs
  <2>2. CASE /\ mgDid' = [mgDid EXCEPT ![l] = mgNow]
             /\ mgWatch' = [mgWatch EXCEPT !.repeats = IF mgNow - mgDid[l] < Market!Cooldown(l) THEN @ + 1 ELSE @]
    <3> DEFINE n == IF mgNow - mgDid[l] < Market!Cooldown(l) THEN mgWatch.repeats + 1 ELSE mgWatch.repeats
    <3>1. n \in Nat
      BY <1>0, WatchesAre
    <3>2. mgWatch' = [mgWatch EXCEPT !.repeats = n]
      BY <2>2
    <3>3. mgWatch' \in Watches
      BY <1>0, <3>1, <3>2, WatchesAre
    <3>4. mgDid' \in [Market!Levels -> Int] /\ \A k \in Market!Levels : mgDid'[k] <= mgNow
      BY <1>0, <2>1, <2>2 DEF Typed
    <3>q. QED BY <2>1, <3>3, <3>4 DEF Typed, Watches
  <2>3. CASE UNCHANGED <<mgDid, mgWatch>>
    BY <2>1, <2>3 DEF Typed
  <2>q. QED BY <1>5, <2>2, <2>3, ActIs
<1>6. CASE Market!NotifyFails
  <2>1. mgRun \in Jobs
    BY <1>6, IdleIs DEF Market!NotifyFails, Typed
  <2>2. mgRun' \in Jobs
    BY <1>6, <2>1 DEF Market!NotifyFails, Jobs
  <2>q. QED BY <1>6, <2>2 DEF Market!NotifyFails, Typed
<1>7. CASE Market!Save
  <2>1. /\ mgRun \in Jobs /\ mgRun' \in Jobs
        /\ mgDone' = IF Market!Runs(mgRun.decision) THEN [mgDone EXCEPT ![mgRun.decision.level] = mgNow] ELSE mgDone
        /\ UNCHANGED <<mgNow, mgMarket, mgCache, mgDid, mgWatch>>
    BY <1>7, SaveIs
  <2>2. mgRun.decision.level \in Market!Levels
    BY <2>1 DEF Jobs, Decisions
  <2>3. mgDone' \in [Market!Levels -> Int] /\ \A k \in Market!Levels : mgDone'[k] <= mgNow
    BY <1>0, <2>1, <2>2 DEF Typed
  <2>q. QED BY <2>1, <2>3 DEF Typed
<1>8. CASE Market!Publish
  <2>1. /\ mgRun \in Jobs /\ mgRun' = Market!Idle /\ mgCache' \in [memory : Market!Memories, control : Controls]
        /\ mgWatch' = [Market!Seen EXCEPT !.forgot = IF mgRun.pc = "failed" THEN @ + 1 ELSE @]
        /\ UNCHANGED <<mgNow, mgMarket, mgDone, mgDid>>
    BY <1>8, PublishIs
  <2>2. Market!Seen \in Watches /\ Market!Seen.forgot \in Nat
    BY <2>1, SeenIs, WatchesAre
  <2>3. mgWatch' \in Watches
    <3> DEFINE n == IF mgRun.pc = "failed" THEN Market!Seen.forgot + 1 ELSE Market!Seen.forgot
    <3>1. n \in Nat /\ mgWatch' = [Market!Seen EXCEPT !.forgot = n]
      BY <2>1, <2>2
    <3> HIDE DEF n
    <3>q. QED BY <2>2, <3>1, WatchesAre
  <2>q. QED BY <2>1, <2>3 DEF Typed, Watches
<1>9. CASE Market!Lose
  <2>1. mgWatch' = [mgWatch EXCEPT !.forgot = @ + 1] /\ mgRun' = Market!Idle /\ UNCHANGED <<mgNow, mgMarket, mgCache, mgDone, mgDid>>
    BY <1>9 DEF Market!Lose
  <2>2. mgWatch' \in Watches
    <3> DEFINE n == mgWatch.forgot + 1
    <3>1. n \in Nat /\ mgWatch' = [mgWatch EXCEPT !.forgot = n]
      BY <1>0, <2>1, WatchesAre
    <3> HIDE DEF n
    <3>q. QED BY <1>0, <3>1, WatchesAre
  <2>q. QED BY <2>1, <2>2 DEF Typed, Watches
<1>10. CASE UNCHANGED Market!vars
  BY <1>10 DEF Market!vars, Typed
<1>q. QED BY <1>1, <1>2, <1>3, <1>4, <1>5, <1>6, <1>7, <1>8, <1>9, <1>10 DEF Market!Next

-------------------------------------------------------------------------------
(* The job in progress *)

\* A memory knows the level of its signature, so a run that is not told anew has the
\* level that is remembered.
Remembered(m) == m.signature # Market!NoSignature => m.signature[2] = m.level

\* What a job knows: its decision, made from what the cache still holds, and once it has
\* saved, a memory of that decision.
JobOk(d, m) ==
  /\ d.at <= mgNow /\ (mgRun.pc = "decided" => d.at = mgNow)
  /\ mgRun.control = [level |-> d.level, at |-> d.at]
  /\ d.level < m.level => d.at - m.changedAt >= Hold
  /\ Market!Runs(d) => d.level # 0 /\ d.clock # "closed" /\ (d.level = m.level => d.at >= m.cooldownUntil)
  /\ d.reason = "cooldown_active" => d.level = m.level /\ d.at < m.cooldownUntil
  /\ d.clock # "closed" /\ d.level # 0 => Market!Runs(d) \/ d.reason = "cooldown_active"
Kept(d, m) == mgRun.memory = m /\ m.signature = Market!Signature(d) /\ ~Market!Runs(d)
Renewed(d, m) ==
  /\ mgRun.memory.level = d.level /\ mgRun.memory.signature = Market!Signature(d)
  /\ mgRun.memory.changedAt = IF m.level = d.level /\ m.changedAt # Market!Never THEN m.changedAt ELSE mgNow
  /\ mgRun.memory.cooldownUntil =
       IF Market!Runs(d) /\ Market!Cooldown(d.level) > 0 THEN mgNow + Market!Cooldown(d.level) ELSE m.cooldownUntil
JobInv ==
  /\ Remembered(mgCache.memory)
  /\ mgRun.pc # "idle" => JobOk(mgRun.decision, mgCache.memory)
  /\ mgRun.pc \in {"decided", "acted", "failed"} => mgRun.memory = mgCache.memory
  /\ mgRun.pc = "saved" => Kept(mgRun.decision, mgCache.memory) \/ Renewed(mgRun.decision, mgCache.memory)

LEMMA InitJob == Market!Init => JobInv
BY IdleIs DEF Market!Init, Market!NoMemory, JobInv, Remembered

\* What a saved run leaves: the level it decided, with its signature.
LEMMA SavedIs ==
  ASSUME Typed, JobInv, mgRun.pc = "saved"
  PROVE  /\ mgRun \in Jobs /\ mgRun.memory.level = mgRun.decision.level /\ Remembered(mgRun.memory)
         /\ mgRun.control.level = mgRun.decision.level /\ mgRun.control.at = mgRun.decision.at
<1>1. mgRun \in Jobs /\ mgRun.decision \in Decisions
  BY IdleIs DEF Typed, Jobs
<1>2. mgRun.control.level = mgRun.decision.level /\ mgRun.control.at = mgRun.decision.at
  BY DEF JobInv, JobOk
<1>3. Market!Signature(mgRun.decision) # Market!NoSignature /\ Market!Signature(mgRun.decision)[2] = mgRun.decision.level
  BY <1>1, SignatureIs
<1>4. Remembered(mgRun.memory) /\ mgRun.memory.level = mgRun.decision.level
  BY <1>3 DEF JobInv, Kept, Renewed, Remembered
<1>q. QED BY <1>1, <1>2, <1>4

LEMMA JobStep == Typed /\ JobInv /\ [Market!Next]_(Market!vars) => JobInv'
<1> SUFFICES ASSUME Typed, JobInv, [Market!Next]_(Market!vars) PROVE JobInv'
  OBVIOUS
<1>0. mgNow \in Int /\ (mgRun.pc # "idle" => mgRun \in Jobs /\ mgRun.decision.at \in Int)
  BY IdleIs DEF Typed, Jobs, Decisions
<1>1. CASE Market!Tick
  <2>1. mgRun.pc \in {"idle", "acted"} /\ mgNow' = mgNow + 1 /\ UNCHANGED <<mgMarket, mgCache, mgRun, mgDone, mgDid, mgWatch>>
    BY <1>1 DEF Market!Tick
  <2>2. mgRun.pc # "idle" => mgRun.decision.at <= mgNow'
    BY <1>0, <2>1 DEF JobInv, JobOk, Typed
  <2>q. QED BY <2>1, <2>2 DEF JobInv, JobOk
<1>2. CASE Market!Bell
  BY <1>2, IdleIs DEF Market!Bell, JobInv
<1>3. ASSUME NEW force \in BOOLEAN, NEW raw \in Raws, NEW clock \in Market!Answers, Market!Decide(force, raw, clock)
      PROVE  JobInv'
  <2> DEFINE d == Market!Decision(raw, mgCache.memory, clock)
  <2>1. /\ mgRun'.pc = "decided" /\ mgRun'.decision = d /\ mgRun'.memory = mgCache.memory
        /\ mgRun'.control = [level |-> d.level, at |-> mgNow] /\ UNCHANGED <<mgNow, mgCache>>
    BY <1>3, DecideIs
  <2>2. /\ d.at = mgNow
        /\ d.level < mgCache.memory.level => mgNow - mgCache.memory.changedAt >= Hold
        /\ Market!Runs(d) => /\ d.level # 0 /\ clock # "closed"
                             /\ d.level = mgCache.memory.level => mgNow >= mgCache.memory.cooldownUntil
        /\ d.reason = "cooldown_active" => d.level = mgCache.memory.level /\ mgNow < mgCache.memory.cooldownUntil
        /\ d.clock = clock /\ clock # "closed" /\ d.level # 0 => Market!Runs(d) \/ d.reason = "cooldown_active"
        /\ d.clock = clock
    BY DecisionIs
  <2> HIDE DEF d
  <2>q. QED BY <1>0, <2>1, <2>2 DEF JobInv, JobOk, Typed, Market!Runs
<1>4. CASE Market!Dedupe
  <2>1. mgRun.pc = "decided" /\ mgRun \in Jobs /\ Market!IsDedupe /\ mgRun' = [mgRun EXCEPT !.pc = "saved"] /\ UNCHANGED <<mgNow, mgCache>>
    BY <1>0, <1>4 DEF Market!Dedupe
  <2>2. /\ mgRun'.pc = "saved" /\ mgRun'.decision = mgRun.decision /\ mgRun'.memory = mgRun.memory
        /\ mgRun'.control = mgRun.control
    BY <2>1 DEF Jobs
  <2>3. Kept(mgRun.decision, mgCache.memory)'
    BY <2>1, <2>2 DEF Market!IsDedupe, Kept, JobInv, Market!Signature, Market!Runs
  <2>4. JobOk(mgRun.decision, mgCache.memory)'
    BY <2>1, <2>2 DEF JobInv, JobOk, Market!Runs
  <2>q. QED BY <2>1, <2>2, <2>3, <2>4 DEF JobInv
<1>5. ASSUME NEW complete \in BOOLEAN, Market!Act(complete) PROVE JobInv'
  <2>1. /\ mgRun.pc = "decided" /\ mgRun'.pc \in {"acted", "failed"} /\ mgRun'.decision = mgRun.decision
        /\ mgRun'.memory = mgRun.memory /\ mgRun'.control = mgRun.control /\ UNCHANGED <<mgNow, mgCache>>
    BY <1>5, ActIs
  <2>q. QED BY <2>1 DEF JobInv, JobOk, Market!Runs
<1>6. CASE Market!NotifyFails
  <2>1. mgRun.pc = "acted" /\ mgRun \in Jobs /\ mgRun' = [mgRun EXCEPT !.pc = "failed"] /\ UNCHANGED <<mgNow, mgCache>>
    BY <1>0, <1>6 DEF Market!NotifyFails
  <2>2. /\ mgRun'.pc = "failed" /\ mgRun'.decision = mgRun.decision /\ mgRun'.memory = mgRun.memory
        /\ mgRun'.control = mgRun.control
    BY <2>1 DEF Jobs
  <2>q. QED BY <2>1, <2>2 DEF JobInv, JobOk, Market!Runs
<1>7. CASE Market!Save
  <2>1. /\ mgRun.pc = "acted" /\ mgRun \in Jobs /\ mgRun'.pc = "saved" /\ mgRun'.decision = mgRun.decision
        /\ mgRun'.memory = Market!NextMemory /\ mgRun'.control = mgRun.control /\ UNCHANGED <<mgNow, mgCache>>
    BY <1>7, SaveIs
  <2>2. /\ Market!NextMemory.level = mgRun.decision.level /\ Market!NextMemory.signature = Market!Signature(mgRun.decision)
        /\ Market!NextMemory.changedAt = IF mgRun.memory.level = mgRun.decision.level /\ mgRun.memory.changedAt # Market!Never
                                         THEN mgRun.memory.changedAt ELSE mgNow
        /\ Market!NextMemory.cooldownUntil = IF Market!Runs(mgRun.decision) /\ Market!Cooldown(mgRun.decision.level) > 0
                                             THEN mgNow + Market!Cooldown(mgRun.decision.level) ELSE mgRun.memory.cooldownUntil
    BY <2>1, MemoryIs
  <2>3. mgRun.memory = mgCache.memory
    BY <2>1 DEF JobInv
  <2>4. Renewed(mgRun.decision, mgCache.memory)'
    BY <2>1, <2>2, <2>3 DEF Renewed, Market!Signature, Market!Runs
  <2>5. JobOk(mgRun.decision, mgCache.memory)'
    BY <2>1 DEF JobInv, JobOk, Market!Runs
  <2>q. QED BY <2>1, <2>4, <2>5 DEF JobInv
<1>8. CASE Market!Publish
  <2>1. mgRun.pc \in {"saved", "failed"} /\ mgRun' = Market!Idle /\ mgCache'.memory = mgRun.memory
    BY <1>8, PublishIs
  <2>2. Remembered(mgCache'.memory)
    BY <2>1, SavedIs DEF JobInv
  <2>q. QED BY <2>1, <2>2, IdleIs DEF JobInv, Remembered
<1>9. CASE Market!Lose
  BY <1>9, IdleIs DEF Market!Lose, JobInv
<1>10. CASE UNCHANGED Market!vars
  BY <1>10 DEF Market!vars, JobInv, JobOk, Kept, Renewed, Market!Runs, Market!Signature
<1>q. QED BY <1>1, <1>2, <1>3, <1>4, <1>5, <1>6, <1>7, <1>8, <1>9, <1>10 DEF Market!Next

-------------------------------------------------------------------------------
(* Halts *)

\* Unless a memory was lost, the remembered change of the level is no earlier than the
\* published one, so a hold measured from the memory is a hold for who reads the file.
HeldInv ==
  /\ mgWatch.halted <= mgWatch.changed /\ mgWatch.changed <= mgNow
  /\ mgRun.pc # "idle" => mgWatch.changed <= mgRun.decision.at
  /\ mgWatch.early = TRUE => mgWatch.forgot # 0
  /\ mgWatch.forgot = 0 =>
       /\ mgCache.control.level = mgCache.memory.level
       /\ mgWatch.changed <= mgCache.memory.changedAt
       /\ mgNow - mgWatch.halted < Hold => mgCache.control.level >= 2

LEMMA InitHeld == Market!Init => HeldInv
<1> SUFFICES ASSUME Market!Init PROVE HeldInv
  OBVIOUS
<1>1. /\ mgNow = 0 /\ mgWatch.halted = Market!Never /\ mgWatch.changed = Market!Never /\ mgWatch.early = FALSE
      /\ mgCache.control.level = 0 /\ mgCache.memory.level = 0 /\ mgCache.memory.changedAt = Market!Never
      /\ mgRun.pc = "idle"
  BY DEF Market!Init, Market!NoMemory, Market!NoControl, Market!Idle
<1>q. QED BY <1>1, CooldownFacts, MarketAssumption DEF HeldInv

LEMMA PublishHeld == ASSUME Typed, JobInv, HeldInv, Market!Publish PROVE HeldInv'
<1> DEFINE d == mgRun.decision
           old == mgCache.control.level
           new == mgRun.control.level
           m == mgCache.memory
<1>1. /\ mgRun.pc \in {"saved", "failed"} /\ mgRun \in Jobs /\ mgRun' = Market!Idle
      /\ mgCache'.memory = mgRun.memory /\ mgCache'.control = mgRun.control
      /\ mgWatch' = [Market!Seen EXCEPT !.forgot = IF mgRun.pc = "failed" THEN @ + 1 ELSE @]
      /\ mgNow' = mgNow
  BY PublishIs
<1>2. /\ Market!Seen \in Watches /\ Market!Seen.forgot = mgWatch.forgot
      /\ old = new => Market!Seen = mgWatch
      /\ old # new => Market!Seen.changed = mgRun.control.at
      /\ Market!Seen.halted = IF new # old /\ new >= 2 THEN mgRun.control.at ELSE mgWatch.halted
      /\ Market!Seen.early <=> mgWatch.early \/ (new < old /\ mgRun.control.at - mgWatch.changed < Hold)
  BY <1>1, SeenIs
<1>3. /\ mgWatch'.changed = Market!Seen.changed /\ mgWatch'.halted = Market!Seen.halted /\ mgWatch'.early = Market!Seen.early
      /\ mgWatch'.forgot = IF mgRun.pc = "failed" THEN mgWatch.forgot + 1 ELSE mgWatch.forgot
  BY <1>1, <1>2 DEF Watches
<1>4. /\ mgWatch.changed \in Int /\ mgWatch.halted \in Int /\ mgWatch.forgot \in Nat /\ mgNow \in Int
      /\ old \in Nat /\ new \in Nat /\ m.level \in Nat /\ m.changedAt \in Int /\ d.at \in Int
      /\ mgRun.memory.changedAt \in Int /\ Hold \in Nat
  BY <1>1, MarketAssumption DEF Typed, Jobs, Decisions, Market!Memories, Controls, Market!Levels
<1>5. /\ mgRun.control.level = d.level /\ mgRun.control.at = d.at /\ d.at <= mgNow
      /\ d.level < m.level => d.at - m.changedAt >= Hold
  BY <1>1, IdleIs DEF JobInv, JobOk
<1>6. /\ mgWatch.halted <= mgWatch.changed /\ mgWatch.changed <= d.at
      /\ mgWatch.early = TRUE => mgWatch.forgot # 0
      /\ mgWatch.forgot = 0 => old = m.level /\ mgWatch.changed <= m.changedAt
                               /\ (mgNow - mgWatch.halted < Hold => old >= 2)
  BY <1>1 DEF HeldInv
<1>7. mgWatch'.halted <= mgWatch'.changed /\ mgWatch'.changed <= mgNow
  <2>1. CASE old = new
    BY <1>2, <1>3, <1>4, <1>5, <1>6, <2>1
  <2>2. CASE old # new
    BY <1>2, <1>3, <1>4, <1>5, <1>6, <2>2
  <2>q. QED BY <2>1, <2>2
<1>8. mgRun.pc = "saved" /\ mgWatch.forgot = 0 /\ new < old => d.at - mgWatch.changed >= Hold
  BY <1>4, <1>5, <1>6
<1>9. mgWatch'.early = TRUE => mgWatch'.forgot # 0
  <2> SUFFICES ASSUME mgWatch'.early = TRUE, mgWatch'.forgot = 0 PROVE FALSE
    OBVIOUS
  <2>1. mgRun.pc = "saved" /\ mgWatch.forgot = 0
    BY <1>1, <1>3, <1>4
  <2>2. mgWatch.early \/ (new < old /\ d.at - mgWatch.changed < Hold)
    BY <1>2, <1>3, <1>5 DEF Watches
  <2>3. mgWatch.early \in BOOLEAN
    BY DEF Typed
  <2>4. mgWatch.early # TRUE
    BY <1>6, <2>1
  <2>5. d.at - mgWatch.changed >= Hold /\ d.at - mgWatch.changed < Hold
    BY <1>8, <2>1, <2>2, <2>3, <2>4
  <2>q. QED BY <1>4, <2>5
<1>10. ASSUME mgWatch'.forgot = 0
       PROVE  /\ mgCache'.control.level = mgCache'.memory.level
              /\ mgWatch'.changed <= mgCache'.memory.changedAt
              /\ mgNow - mgWatch'.halted < Hold => mgCache'.control.level >= 2
  <2>1. mgRun.pc = "saved" /\ mgWatch.forgot = 0
    BY <1>1, <1>3, <1>4, <1>10
  <2>2. mgRun.memory.level = d.level
    BY <2>1, SavedIs
  <2>3. \/ mgRun.memory = m
        \/ mgRun.memory.changedAt = IF m.level = d.level /\ m.changedAt # Market!Never THEN m.changedAt ELSE mgNow
    BY <2>1 DEF JobInv, Kept, Renewed
  <2>4. mgWatch'.changed <= mgRun.memory.changedAt
    <3>1. CASE old = new
      BY <1>2, <1>3, <1>4, <1>5, <1>6, <2>1, <2>3, <3>1
    <3>2. CASE old # new
      BY <1>2, <1>3, <1>4, <1>5, <1>6, <2>1, <2>2, <2>3, <3>2
    <3>q. QED BY <3>1, <3>2
  <2>5. ASSUME mgNow - mgWatch'.halted < Hold, new < 2 PROVE FALSE
    <3>1. mgWatch'.halted = mgWatch.halted
      BY <1>2, <1>3, <1>4, <2>5
    <3>2. old >= 2
      BY <1>6, <2>1, <2>5, <3>1
    <3>3. d.at - mgWatch.changed >= Hold
      BY <1>4, <1>8, <2>1, <2>5, <3>2
    <3>q. QED BY <1>4, <1>5, <1>6, <2>5, <3>1, <3>3
  <2>q. QED BY <1>1, <1>4, <1>5, <2>2, <2>4, <2>5
<1>q. QED BY <1>1, <1>7, <1>9, <1>10, IdleIs DEF HeldInv

LEMMA HeldStep == Typed /\ JobInv /\ HeldInv /\ [Market!Next]_(Market!vars) => HeldInv'
<1> SUFFICES ASSUME Typed, JobInv, HeldInv, [Market!Next]_(Market!vars) PROVE HeldInv'
  OBVIOUS
<1>0. /\ mgNow \in Int /\ Hold \in Nat /\ mgWatch \in Watches /\ mgWatch.halted \in Int /\ mgWatch.changed \in Int
      /\ mgWatch.forgot \in Nat
  BY MarketAssumption DEF Typed, Watches
<1>1. CASE Market!Tick
  <2>1. mgNow' = mgNow + 1 /\ UNCHANGED <<mgMarket, mgCache, mgRun, mgDone, mgDid, mgWatch>>
    BY <1>1 DEF Market!Tick
  <2>q. QED BY <1>0, <2>1 DEF HeldInv
<1>2. CASE Market!Bell
  BY <1>2 DEF Market!Bell, HeldInv
<1>3. ASSUME NEW force \in BOOLEAN, NEW raw \in Raws, NEW clock \in Market!Answers, Market!Decide(force, raw, clock)
      PROVE  HeldInv'
  <2>1. /\ mgRun'.decision = Market!Decision(raw, mgCache.memory, clock) /\ UNCHANGED <<mgNow, mgCache>>
    BY <1>3, DecideIs
  <2>2. mgRun'.decision.at = mgNow
    BY <2>1, DecisionIs
  <2>3. /\ mgWatch'.halted = mgWatch.halted /\ mgWatch'.changed = mgWatch.changed
        /\ mgWatch'.early = mgWatch.early /\ mgWatch'.forgot = mgWatch.forgot
    BY <1>0, <1>3 DEF Market!Decide, Watches
  <2>q. QED BY <2>1, <2>2, <2>3 DEF HeldInv
<1>4. CASE Market!Dedupe
  <2>1. mgRun.pc = "decided" /\ mgRun \in Jobs /\ mgRun' = [mgRun EXCEPT !.pc = "saved"] /\ UNCHANGED <<mgNow, mgCache, mgWatch>>
    BY <1>4, IdleIs DEF Market!Dedupe, Typed
  <2>2. mgRun'.decision = mgRun.decision
    BY <2>1 DEF Jobs
  <2>q. QED BY <2>1, <2>2 DEF HeldInv
<1>5. ASSUME NEW complete \in BOOLEAN, Market!Act(complete) PROVE HeldInv'
  <2>1. mgRun.pc = "decided" /\ mgRun'.decision = mgRun.decision /\ UNCHANGED <<mgNow, mgCache>>
    BY <1>5, ActIs
  <2>2. /\ mgWatch'.halted = mgWatch.halted /\ mgWatch'.changed = mgWatch.changed
        /\ mgWatch'.early = mgWatch.early /\ mgWatch'.forgot = mgWatch.forgot
    <3>1. \/ mgWatch' = [mgWatch EXCEPT !.repeats =
                           IF mgNow - mgDid[mgRun.decision.level] < Market!Cooldown(mgRun.decision.level) THEN @ + 1 ELSE @]
          \/ mgWatch' = mgWatch
      BY <1>5, ActIs
    <3>q. QED BY <1>0, <3>1 DEF Watches
  <2>q. QED BY <2>1, <2>2 DEF HeldInv
<1>6. CASE Market!NotifyFails
  <2>1. mgRun.pc = "acted" /\ mgRun \in Jobs /\ mgRun' = [mgRun EXCEPT !.pc = "failed"] /\ UNCHANGED <<mgNow, mgCache, mgWatch>>
    BY <1>6, IdleIs DEF Market!NotifyFails, Typed
  <2>2. mgRun'.decision = mgRun.decision
    BY <2>1 DEF Jobs
  <2>q. QED BY <2>1, <2>2 DEF HeldInv
<1>7. CASE Market!Save
  <2>1. mgRun.pc = "acted" /\ mgRun'.decision = mgRun.decision /\ UNCHANGED <<mgNow, mgCache, mgWatch>>
    BY <1>7, SaveIs
  <2>q. QED BY <2>1 DEF HeldInv
<1>8. CASE Market!Publish
  BY <1>8, PublishHeld
<1>9. CASE Market!Lose
  <2>1. mgRun' = Market!Idle /\ UNCHANGED <<mgNow, mgCache>> /\ mgWatch' = [mgWatch EXCEPT !.forgot = @ + 1]
    BY <1>9 DEF Market!Lose
  <2>2. /\ mgWatch'.halted = mgWatch.halted /\ mgWatch'.changed = mgWatch.changed /\ mgWatch'.early = mgWatch.early
        /\ mgWatch'.forgot = mgWatch.forgot + 1
    BY <1>0, <2>1 DEF Watches
  <2>q. QED BY <1>0, <2>1, <2>2, IdleIs DEF HeldInv
<1>10. CASE UNCHANGED Market!vars
  BY <1>10 DEF Market!vars, HeldInv
<1>q. QED BY <1>1, <1>2, <1>3, <1>4, <1>5, <1>6, <1>7, <1>8, <1>9, <1>10 DEF Market!Next

-------------------------------------------------------------------------------
(* Actions *)

\* A cooldown that is not over was earned by the level that is remembered, or it will
\* be over when the market opens.
CooldownOk(m) ==
  /\ m.cooldownUntil <= mgNow + ClosedFor
  /\ mgWatch.blind = FALSE =>
       /\ mgMarket.open = FALSE => m.cooldownUntil <= mgMarket.since + ClosedFor
       /\ mgMarket.open = TRUE => \/ m.level = 0 \/ m.cooldownUntil <= mgNow
                                 \/ m.cooldownUntil <= mgDone[m.level] + Market!Cooldown(m.level)
\* The clock was right, and a level that rests was acted on.
ClockOk(d) ==
  /\ d.clock = "closed" => mgMarket.open = FALSE
  /\ d.clock = "open" => mgMarket.open = TRUE
  /\ mgWatch.blind = FALSE /\ mgMarket.open = FALSE => d.clock = "closed"
  /\ mgWatch.blind = FALSE /\ d.reason = "cooldown_active" /\ d.clock = "open" =>
       d.at - mgDone[d.level] < Market!Cooldown(d.level)
  /\ mgRun.pc = "saved" /\ Market!Runs(d) => mgDone[d.level] = mgNow
DangerInv ==
  /\ CooldownOk(mgCache.memory)
  /\ mgRun.pc # "idle" => CooldownOk(mgRun.memory) /\ ClockOk(mgRun.decision)

LEMMA InitDanger == Market!Init => DangerInv
<1> SUFFICES ASSUME Market!Init PROVE DangerInv
  OBVIOUS
<1>1. /\ mgNow = 0 /\ mgMarket.open = TRUE /\ mgRun.pc = "idle"
      /\ mgCache.memory.level = 0 /\ mgCache.memory.cooldownUntil = Market!Never
  BY DEF Market!Init, Market!NoMemory, Market!Idle
<1>q. QED BY <1>1, CooldownFacts, MarketAssumption DEF DangerInv, CooldownOk

LEMMA DangerStep == Typed /\ JobInv /\ DangerInv /\ [Market!Next]_(Market!vars) => DangerInv'
<1> SUFFICES ASSUME Typed, JobInv, DangerInv, [Market!Next]_(Market!vars) PROVE DangerInv'
  OBVIOUS
<1>0. /\ mgNow \in Int /\ ClosedFor \in Nat /\ mgWatch \in Watches /\ mgWatch.blind \in BOOLEAN
      /\ mgMarket.open \in BOOLEAN /\ mgMarket.since \in Int
      /\ mgCache.memory \in Market!Memories /\ mgDone \in [Market!Levels -> Int]
  BY MarketAssumption DEF Typed, Watches
<1>m. /\ \A m \in Market!Memories : m.level \in Market!Levels /\ m.cooldownUntil \in Int
      /\ \A l \in Market!Levels : Market!Cooldown(l) \in Nat /\ Market!Cooldown(l) <= ClosedFor /\ mgDone[l] \in Int
  BY <1>0, CooldownFacts, MarketAssumption DEF Market!Memories
<1>r. mgRun.pc # "idle" => /\ mgRun \in Jobs /\ mgRun.memory \in Market!Memories /\ mgRun.decision.at \in Int
                           /\ mgRun.decision.level \in Market!Levels
  BY IdleIs DEF Typed, Jobs, Decisions
<1>1. CASE Market!Tick
  <2>1. mgRun.pc \in {"idle", "acted"} /\ mgNow' = mgNow + 1 /\ UNCHANGED <<mgMarket, mgCache, mgRun, mgDone, mgDid, mgWatch>>
    BY <1>1 DEF Market!Tick
  <2>2. ASSUME NEW m \in Market!Memories, CooldownOk(m) PROVE CooldownOk(m)'
    BY <1>0, <1>m, <2>1, <2>2 DEF CooldownOk
  <2>3. mgRun.pc # "idle" => CooldownOk(mgRun.memory)' /\ ClockOk(mgRun.decision)'
    BY <1>r, <2>1, <2>2 DEF DangerInv, ClockOk
  <2>4. CooldownOk(mgCache.memory)'
    BY <1>0, <2>1, <2>2 DEF DangerInv
  <2>q. QED BY <2>1, <2>3, <2>4 DEF DangerInv
<1>2. CASE Market!Bell
  <2>1. /\ mgRun = Market!Idle /\ UNCHANGED <<mgNow, mgCache, mgRun, mgDone, mgWatch>>
        /\ mgMarket.open = FALSE => mgNow - mgMarket.since >= ClosedFor
        /\ mgMarket' = [open |-> ~mgMarket.open, since |-> mgNow]
    BY <1>2 DEF Market!Bell
  <2>2. mgMarket'.since = mgNow /\ mgMarket'.open = ~mgMarket.open
    BY <2>1
  <2>3. CASE mgMarket.open = TRUE
    <3>1. mgMarket'.open = FALSE
      BY <2>2, <2>3
    <3>q. QED BY <1>0, <1>m, <2>1, <2>2, <3>1, IdleIs DEF DangerInv, CooldownOk
  <2>4. CASE mgMarket.open = FALSE
    <3>1. mgMarket'.open = TRUE
      BY <2>2, <2>4
    <3>2. mgWatch.blind = FALSE => mgCache.memory.cooldownUntil <= mgNow
      BY <1>0, <1>m, <2>1, <2>4 DEF DangerInv, CooldownOk
    <3>q. QED BY <1>0, <1>m, <2>1, <2>2, <3>1, <3>2, IdleIs DEF DangerInv, CooldownOk
  <2>q. QED BY <1>0, <2>3, <2>4
<1>3. ASSUME NEW force \in BOOLEAN, NEW raw \in Raws, NEW clock \in Market!Answers, Market!Decide(force, raw, clock)
      PROVE  DangerInv'
  <2> DEFINE d == Market!Decision(raw, mgCache.memory, clock)
             m == mgCache.memory
  <2>1. /\ mgRun'.pc = "decided" /\ mgRun'.decision = d /\ mgRun'.memory = m
        /\ UNCHANGED <<mgNow, mgMarket, mgCache, mgDone, mgDid>>
    BY <1>3, DecideIs
  <2>2. /\ d.at = mgNow /\ d.clock = clock
        /\ d.reason = "cooldown_active" => d.level # 0 /\ d.level = m.level /\ mgNow < m.cooldownUntil
    BY DecisionIs
  <2> HIDE DEF d
  <2>3. mgWatch'.blind = (mgWatch.blind \/ (clock = "unknown" /\ ~mgMarket.open))
    BY <1>0, <1>3 DEF Market!Decide, Watches
  <2>4. mgWatch'.blind = FALSE => mgWatch.blind = FALSE /\ (mgMarket.open = FALSE => clock # "unknown")
    BY <1>0, <2>3
  <2>5. /\ clock = "closed" => mgMarket.open = FALSE
        /\ clock = "open" => mgMarket.open = TRUE
        /\ clock \in {"open", "closed", "unknown"}
    BY <1>0 DEF Market!Answers
  <2>6. CooldownOk(mgCache.memory)' /\ CooldownOk(mgRun.memory)'
    BY <2>1, <2>4 DEF DangerInv, CooldownOk
  <2>7. mgWatch'.blind = FALSE /\ d.reason = "cooldown_active" /\ clock = "open" =>
          mgNow - mgDone[d.level] < Market!Cooldown(d.level)
    <3> SUFFICES ASSUME mgWatch.blind = FALSE, d.reason = "cooldown_active", mgMarket.open = TRUE
                 PROVE  mgNow - mgDone[d.level] < Market!Cooldown(d.level)
      BY <2>4, <2>5
    <3>1. d.level = m.level /\ mgNow < m.cooldownUntil /\ m.level # 0 /\ m.level \in Market!Levels
      BY <1>0, <1>m, <2>2
    <3>2. m.cooldownUntil <= mgNow \/ m.cooldownUntil <= mgDone[m.level] + Market!Cooldown(m.level)
      BY <3>1 DEF DangerInv, CooldownOk
    <3>q. QED BY <1>0, <1>m, <3>1, <3>2
  <2>8. ClockOk(mgRun.decision)'
    BY <2>1, <2>2, <2>4, <2>5, <2>7 DEF ClockOk
  <2>q. QED BY <2>1, <2>6, <2>8 DEF DangerInv
<1>4. CASE Market!Dedupe
  <2>1. mgRun.pc = "decided" /\ mgRun \in Jobs /\ Market!IsDedupe /\ mgRun' = [mgRun EXCEPT !.pc = "saved"]
        /\ UNCHANGED <<mgNow, mgMarket, mgCache, mgDone, mgDid, mgWatch>>
    BY <1>4, <1>r DEF Market!Dedupe
  <2>2. mgRun'.decision = mgRun.decision /\ mgRun'.memory = mgRun.memory /\ ~Market!Runs(mgRun.decision)
    BY <2>1 DEF Jobs, Market!IsDedupe
  <2>q. QED BY <2>1, <2>2 DEF DangerInv, CooldownOk, ClockOk, Market!Runs
<1>5. ASSUME NEW complete \in BOOLEAN, Market!Act(complete) PROVE DangerInv'
  <2>1. /\ mgRun.pc = "decided" /\ mgRun'.pc \in {"acted", "failed"} /\ mgRun'.decision = mgRun.decision
        /\ mgRun'.memory = mgRun.memory /\ UNCHANGED <<mgNow, mgMarket, mgCache, mgDone>>
    BY <1>5, ActIs
  <2>2. mgWatch'.blind = mgWatch.blind
    <3>1. \/ mgWatch' = [mgWatch EXCEPT !.repeats =
                           IF mgNow - mgDid[mgRun.decision.level] < Market!Cooldown(mgRun.decision.level) THEN @ + 1 ELSE @]
          \/ mgWatch' = mgWatch
      BY <1>5, ActIs
    <3>q. QED BY <1>0, <3>1 DEF Watches
  <2>q. QED BY <2>1, <2>2 DEF DangerInv, CooldownOk, ClockOk
<1>6. CASE Market!NotifyFails
  <2>1. mgRun.pc = "acted" /\ mgRun \in Jobs /\ mgRun' = [mgRun EXCEPT !.pc = "failed"]
        /\ UNCHANGED <<mgNow, mgMarket, mgCache, mgDone, mgDid, mgWatch>>
    BY <1>6, <1>r DEF Market!NotifyFails
  <2>2. mgRun'.decision = mgRun.decision /\ mgRun'.memory = mgRun.memory /\ mgRun'.pc = "failed"
    BY <2>1 DEF Jobs
  <2>q. QED BY <2>1, <2>2 DEF DangerInv, CooldownOk, ClockOk
<1>7. CASE Market!Save
  <2> DEFINE d == mgRun.decision
             m == mgRun.memory
             l == d.level
  <2>1. /\ mgRun.pc = "acted" /\ mgRun \in Jobs /\ mgRun'.pc = "saved" /\ mgRun'.decision = d
        /\ mgRun'.memory = Market!NextMemory
        /\ mgDone' = IF Market!Runs(d) THEN [mgDone EXCEPT ![l] = mgNow] ELSE mgDone
        /\ UNCHANGED <<mgNow, mgMarket, mgCache, mgDid, mgWatch>>
    BY <1>7, SaveIs
  <2>2. /\ Market!NextMemory.level = l
        /\ Market!NextMemory.cooldownUntil =
             IF Market!Runs(d) /\ Market!Cooldown(l) > 0 THEN mgNow + Market!Cooldown(l) ELSE m.cooldownUntil
        /\ Market!NextMemory \in Market!Memories
    BY <2>1, MemoryIs
  <2>3. /\ l \in Market!Levels /\ m \in Market!Memories /\ m = mgCache.memory /\ d.at \in Int /\ d.at <= mgNow
        /\ Market!Runs(d) => l # 0 /\ d.clock # "closed"
        /\ d.reason = "cooldown_active" => l = m.level
        /\ d.clock # "closed" /\ l # 0 => Market!Runs(d) \/ d.reason = "cooldown_active"
    BY <1>r, <2>1 DEF JobInv, JobOk
  <2>4. /\ CooldownOk(m) /\ ClockOk(d)
    BY <2>1 DEF DangerInv
  <2>5. l # 0 => Market!Cooldown(l) > 0 /\ Market!Cooldown(l) \in Nat /\ Market!Cooldown(l) <= ClosedFor
    BY <1>m, <2>3, CooldownFacts
  <2>6. CASE Market!Runs(d)
    <3>1. /\ Market!NextMemory.cooldownUntil = mgNow + Market!Cooldown(l) /\ l # 0
          /\ mgDone' = [mgDone EXCEPT ![l] = mgNow]
      BY <2>1, <2>2, <2>3, <2>5, <2>6
    <3>2. mgDone'[l] = mgNow /\ \A k \in Market!Levels : mgDone'[k] = mgDone[k] \/ mgDone'[k] = mgNow
      BY <1>0, <2>3, <3>1
    <3>3. mgWatch.blind = FALSE => mgMarket.open = TRUE
      BY <1>0, <2>3, <2>4, <2>6 DEF ClockOk
    <3>4. CooldownOk(mgRun.memory)'
      BY <1>0, <2>1, <2>2, <2>5, <3>1, <3>2, <3>3 DEF CooldownOk
    <3>5. CooldownOk(mgCache.memory)'
      <4>1. mgDone'[m.level] >= mgDone[m.level] /\ mgDone'[m.level] \in Int /\ mgDone[m.level] \in Int
        BY <1>0, <1>m, <2>3, <3>2 DEF Typed
      <4>q. QED BY <1>0, <1>m, <2>1, <2>3, <2>4, <4>1 DEF CooldownOk
    <3>6. ClockOk(d)'
      <4>1. d.at - mgNow < Market!Cooldown(l)
        BY <1>0, <2>3, <2>5, <3>1
      <4>q. QED BY <2>1, <2>4, <3>2, <4>1 DEF ClockOk
    <3>q. QED BY <2>1, <3>4, <3>5, <3>6 DEF DangerInv
  <2>7. CASE ~Market!Runs(d)
    <3>1. Market!NextMemory.cooldownUntil = m.cooldownUntil /\ mgDone' = mgDone
      BY <2>1, <2>2, <2>7
    <3>2. mgMarket.open = TRUE /\ l # 0 => l = m.level
      BY <2>3, <2>4, <2>7 DEF ClockOk
    <3>3. CooldownOk(mgRun.memory)'
      BY <2>1, <2>2, <2>4, <3>1, <3>2 DEF CooldownOk
    <3>4. CooldownOk(mgCache.memory)'
      BY <2>1, <2>3, <2>4, <3>1 DEF CooldownOk
    <3>5. ClockOk(d)'
      BY <2>1, <2>4, <2>7, <3>1 DEF ClockOk, Market!Runs
    <3>q. QED BY <2>1, <3>3, <3>4, <3>5 DEF DangerInv
  <2>q. QED BY <2>6, <2>7
<1>8. CASE Market!Publish
  <2>1. /\ mgRun.pc # "idle" /\ mgRun \in Jobs /\ mgRun' = Market!Idle /\ mgCache'.memory = mgRun.memory
        /\ mgWatch' = [Market!Seen EXCEPT !.forgot = IF mgRun.pc = "failed" THEN @ + 1 ELSE @]
        /\ UNCHANGED <<mgNow, mgMarket, mgDone, mgDid>>
    BY <1>8, PublishIs
  <2>2. mgWatch'.blind = mgWatch.blind
    BY <2>1, SeenIs DEF Watches
  <2>q. QED BY <2>1, <2>2, IdleIs DEF DangerInv, CooldownOk
<1>9. CASE Market!Lose
  <2>1. mgRun' = Market!Idle /\ UNCHANGED <<mgNow, mgMarket, mgCache, mgDone>> /\ mgWatch' = [mgWatch EXCEPT !.forgot = @ + 1]
    BY <1>9 DEF Market!Lose
  <2>2. mgWatch'.blind = mgWatch.blind
    BY <1>0, <2>1 DEF Watches
  <2>q. QED BY <2>1, <2>2, IdleIs DEF DangerInv, CooldownOk
<1>10. CASE UNCHANGED Market!vars
  BY <1>10 DEF Market!vars, DangerInv, CooldownOk, ClockOk, Market!Runs
<1>q. QED BY <1>1, <1>2, <1>3, <1>4, <1>5, <1>6, <1>7, <1>8, <1>9, <1>10 DEF Market!Next

-------------------------------------------------------------------------------
(* Repetitions *)

HoldOutlasts == \A l \in Market!Levels : Market!Cooldown(l) <= Hold

\* A level whose actions a run could begin again within the cooldown, without another
\* memory being lost or the level going down: it is above the remembered one, or the
\* memory of its actions was lost.
Hot(l) == mgNow - mgDid[l] < Market!Cooldown(l)
Owed(m, l) ==
  /\ Hot(l)
  /\ \/ l > m.level
     \/ l = m.level /\ m.cooldownUntil < mgDid[l] + Market!Cooldown(l)
     \/ l < m.level /\ mgDid[l] > m.changedAt
Owes(m, l) == IF Owed(m, l) THEN 1 ELSE 0
OwesBut(m, x, l) == IF l # x /\ Owed(m, l) THEN 1 ELSE 0
Debt(m) == Owes(m, 1) + Owes(m, 2) + Owes(m, 3)
DebtBut(m, x) == OwesBut(m, x, 1) + OwesBut(m, x, 2) + OwesBut(m, x, 3)

Below(a, b) == IF a < b THEN 1 ELSE 0
\* The level whose actions the job has begun, or 0.
Own == IF Active = TRUE /\ Market!Runs(mgRun.decision) THEN mgRun.decision.level ELSE 0
Spare == Below(mgCache.control.level, mgCache.memory.level)
Credit == mgWatch.forgot + mgWatch.dropped

\* Every repetition, and every one that could come, is paid for by a lost memory or a
\* level that went down. A drop that was published by a job without its memory pays for
\* the drop of the memory that is still to come.
RepeatInv ==
  /\ mgRun.pc \in {"idle", "decided"} => mgWatch.repeats + Debt(mgCache.memory) + Spare <= Credit
  /\ mgRun.pc \in {"acted", "failed", "saved"} =>
       mgWatch.repeats + DebtBut(mgCache.memory, Own) + Spare <= Credit
  /\ mgRun.pc = "saved" =>
       mgWatch.repeats + Debt(mgRun.memory) <= Credit + Below(mgRun.decision.level, mgCache.control.level)

LEMMA OneEach ==
  /\ \A m, l : Owes(m, l) \in {0, 1}
  /\ \A m, x, l : OwesBut(m, x, l) \in {0, 1}
  /\ \A m, x, l : OwesBut(m, x, l) <= Owes(m, l)
  /\ \A a, b : Below(a, b) \in {0, 1}
  /\ \A m, x, l : l # x => OwesBut(m, x, l) = Owes(m, l)
BY DEF Owes, OwesBut, Below

LEMMA Debts ==
  ASSUME NEW m, NEW x
  PROVE  /\ Debt(m) \in Nat /\ DebtBut(m, x) \in Nat
         /\ DebtBut(m, x) <= Debt(m) /\ Debt(m) <= DebtBut(m, x) + 1
         /\ x \notin {1, 2, 3} => DebtBut(m, x) = Debt(m)
         /\ x \in {1, 2, 3} => DebtBut(m, x) + Owes(m, x) = Debt(m)
<1>1. \A l \in {1, 2, 3} : /\ Owes(m, l) \in {0, 1} /\ OwesBut(m, x, l) \in {0, 1}
                           /\ l # x => OwesBut(m, x, l) = Owes(m, l)
  BY OneEach
<1>2. OwesBut(m, x, x) = 0
  BY DEF OwesBut
<1>q. QED BY <1>1, <1>2 DEF Debt, DebtBut

\* What a run finds hot has been paid for: it was lost, or is above what is remembered.
LEMMA HotIsOwed ==
  ASSUME Typed, HoldOutlasts, NEW m \in Market!Memories, NEW d \in Decisions, NEW l \in Market!Levels, Hot(l),
         d.at <= mgNow, d.level < m.level => d.at - m.changedAt >= Hold, d.level <= l,
         l = m.level => m.cooldownUntil < mgDid[l] + Market!Cooldown(l)
  PROVE  Owed(m, l)
<1>1. /\ mgNow \in Int /\ mgDid[l] \in Int /\ Market!Cooldown(l) \in Nat /\ Market!Cooldown(l) <= Hold /\ Hold \in Nat
      /\ m.level \in Nat /\ m.changedAt \in Int /\ d.at \in Int /\ d.level \in Nat /\ l \in Nat
  BY CooldownFacts, MarketAssumption DEF Typed, HoldOutlasts, Market!Memories, Decisions, Market!Levels
<1>2. CASE l >= m.level
  BY <1>1, <1>2 DEF Owed
<1>3. CASE l < m.level
  <2>1. d.at - m.changedAt >= Hold
    BY <1>1, <1>3
  <2>2. mgDid[l] > m.changedAt
    BY <1>1, <2>1 DEF Hot
  <2>q. QED BY <1>3, <2>2 DEF Owed
<1>q. QED BY <1>1, <1>2, <1>3

LEMMA InitRepeat == Market!Init => RepeatInv
<1> SUFFICES ASSUME Market!Init PROVE RepeatInv
  OBVIOUS
<1>1. /\ mgNow = 0 /\ mgRun.pc = "idle" /\ mgCache.control.level = 0 /\ mgCache.memory.level = 0
      /\ mgWatch.repeats = 0 /\ mgWatch.forgot = 0 /\ mgWatch.dropped = 0
      /\ \A l \in Market!Levels : mgDid[l] = Market!Never
  BY DEF Market!Init, Market!NoMemory, Market!NoControl, Market!Idle
<1>2. \A l \in {1, 2, 3} : Owes(mgCache.memory, l) = 0
  <2> SUFFICES ASSUME NEW l \in {1, 2, 3} PROVE ~Hot(l)
    BY DEF Owes, Owed
  <2>1. l \in Market!Levels
    BY DEF Market!Levels
  <2>q. QED BY <1>1, <2>1, CooldownFacts DEF Hot
<1>3. Spare = 0
  BY <1>1 DEF Spare, Below
<1>q. QED BY <1>1, <1>2, <1>3 DEF RepeatInv, Debt, Credit

\* Time cools the levels down.
LEMMA TickRepeat == ASSUME Typed, RepeatInv, Market!Tick PROVE RepeatInv'
<1>1. mgRun.pc \in {"idle", "acted"} /\ mgNow' = mgNow + 1 /\ UNCHANGED <<mgMarket, mgCache, mgRun, mgDone, mgDid, mgWatch>>
  BY DEF Market!Tick
<1>2. ASSUME NEW l \in {1, 2, 3}
      PROVE  /\ Owes(mgCache.memory, l)' <= Owes(mgCache.memory, l)
             /\ OwesBut(mgCache.memory, Own, l)' <= OwesBut(mgCache.memory, Own, l)
  <2>1. mgNow \in Int /\ mgDid[l] \in Int /\ Market!Cooldown(l) \in Nat
    BY CooldownFacts DEF Typed, Market!Levels
  <2>2. Hot(l)' => Hot(l)
    BY <1>1, <2>1 DEF Hot
  <2>3. Own' = Own
    BY <1>1 DEF Own, Market!Runs
  <2>q. QED BY <1>1, <2>2, <2>3 DEF Owes, OwesBut, Owed
<1>3. Debt(mgCache.memory)' <= Debt(mgCache.memory) /\ DebtBut(mgCache.memory, Own)' <= DebtBut(mgCache.memory, Own)
  <2>1. \A l \in {1, 2, 3} : /\ Owes(mgCache.memory, l) \in Int /\ Owes(mgCache.memory, l)' \in Int
                             /\ OwesBut(mgCache.memory, Own, l) \in Int /\ OwesBut(mgCache.memory, Own, l)' \in Int
    BY DEF Owes, OwesBut
  <2>q. QED BY <1>2, <2>1 DEF Debt, DebtBut
<1>4. /\ Spare' = Spare /\ Credit' = Credit /\ mgWatch'.repeats = mgWatch.repeats
      /\ Spare \in Int /\ Credit \in Int /\ mgWatch.repeats \in Int
  BY <1>1 DEF Spare, Credit, Below, Typed
<1>5. /\ Debt(mgCache.memory) \in Int /\ Debt(mgCache.memory)' \in Int
      /\ DebtBut(mgCache.memory, Own) \in Int /\ DebtBut(mgCache.memory, Own)' \in Int
  BY DEF Debt, DebtBut, Owes, OwesBut
<1>q. QED BY <1>1, <1>3, <1>4, <1>5 DEF RepeatInv

\* The actions begin: a repetition was owed.
LEMMA ActRepeat ==
  ASSUME Typed, JobInv, HoldOutlasts, RepeatInv, NEW complete \in BOOLEAN, Market!Act(complete)
  PROVE  RepeatInv'
<1> DEFINE d == mgRun.decision
           x == d.level
           m == mgCache.memory
<1>1. /\ mgRun.pc = "decided" /\ mgRun \in Jobs /\ x \in Market!Levels /\ mgRun'.pc \in {"acted", "failed"}
      /\ mgRun'.decision = d /\ UNCHANGED <<mgNow, mgMarket, mgCache, mgDone>>
      /\ \/ /\ Active /\ Market!Runs(d)
            /\ mgDid' = [mgDid EXCEPT ![x] = mgNow]
            /\ mgWatch' = [mgWatch EXCEPT !.repeats = IF mgNow - mgDid[x] < Market!Cooldown(x) THEN @ + 1 ELSE @]
         \/ ~(Active /\ Market!Runs(d)) /\ UNCHANGED <<mgDid, mgWatch>>
  BY ActIs
<1>2. /\ d \in Decisions /\ m \in Market!Memories /\ mgWatch \in Watches /\ mgDid \in [Market!Levels -> Int]
      /\ mgWatch.repeats \in Nat /\ Credit \in Int /\ Spare \in Int
  BY <1>1 DEF Jobs, Typed, Watches, Credit, Spare, Below
<1>3. mgWatch.repeats + Debt(m) + Spare <= Credit
  BY <1>1 DEF RepeatInv
<1>4. Spare' = Spare
  BY <1>1 DEF Spare
<1>5. CASE Active /\ Market!Runs(d)
  <2>1. /\ mgDid' = [mgDid EXCEPT ![x] = mgNow]
        /\ mgWatch' = [mgWatch EXCEPT !.repeats = IF mgNow - mgDid[x] < Market!Cooldown(x) THEN @ + 1 ELSE @]
    BY <1>1, <1>5
  <2>2. /\ d.at = mgNow /\ x # 0 /\ (x = m.level => d.at >= m.cooldownUntil)
        /\ d.level < m.level => d.at - m.changedAt >= Hold
    BY <1>1, <1>5 DEF JobInv, JobOk
  <2>3. x \in {1, 2, 3}
    BY <1>1, <2>2 DEF Market!Levels
  <2>4. Hot(x) => Owed(m, x)
    <3> SUFFICES ASSUME Hot(x) PROVE Owed(m, x)
      OBVIOUS
    <3>1. mgNow \in Int /\ mgDid[x] \in Int /\ Market!Cooldown(x) \in Nat /\ m.cooldownUntil \in Int /\ x \in Int
      BY <1>1, <1>2, CooldownFacts DEF Typed, Market!Memories, Market!Levels
    <3>2. x = m.level => m.cooldownUntil < mgDid[x] + Market!Cooldown(x)
      BY <2>2, <3>1 DEF Hot
    <3>3. d.at <= mgNow /\ d.level <= x
      BY <2>2, <3>1
    <3>q. QED BY <1>1, <1>2, <2>2, <3>2, <3>3, HotIsOwed
  <2>5. mgWatch'.repeats = mgWatch.repeats + (IF Hot(x) THEN 1 ELSE 0) /\ Credit' = Credit
    BY <1>2, <2>1 DEF Hot, Credit, Watches
  <2>6. Own' = x
    BY <1>1, <1>5, MarketAssumption DEF Own, Market!Runs
  <2>7. DebtBut(mgCache.memory, Own)' = DebtBut(m, x)
    <3>1. \A l \in Market!Levels : l # x => mgDid'[l] = mgDid[l]
      BY <1>2, <2>1
    <3>2. ASSUME NEW l \in {1, 2, 3} PROVE OwesBut(mgCache.memory, Own, l)' = OwesBut(m, x, l)
      <4>1. l \in Market!Levels
        BY DEF Market!Levels
      <4>q. QED BY <1>1, <2>6, <3>1, <4>1 DEF OwesBut, Owed, Hot
    <3>q. QED BY <3>2 DEF DebtBut
  <2>8. DebtBut(m, x) + Owes(m, x) = Debt(m) /\ DebtBut(m, x) \in Nat
    BY <2>3, Debts
  <2>9. (IF Hot(x) THEN 1 ELSE 0) <= Owes(m, x) /\ Owes(m, x) \in {0, 1}
    BY <2>4 DEF Owes
  <2>10. mgWatch'.repeats + DebtBut(mgCache.memory, Own)' + Spare' <= Credit'
    BY <1>2, <1>3, <1>4, <2>5, <2>7, <2>8, <2>9
  <2>q. QED BY <1>1, <2>10 DEF RepeatInv
<1>6. CASE ~(Active /\ Market!Runs(d))
  <2>1. UNCHANGED <<mgDid, mgWatch>>
    BY <1>1, <1>6
  <2>2. Own' = 0
    BY <1>1, <1>6 DEF Own, Market!Runs
  <2>3. DebtBut(mgCache.memory, Own)' = Debt(m)
    <3>1. \A l \in {1, 2, 3} : OwesBut(mgCache.memory, Own, l)' = Owes(m, l)
      BY <1>1, <2>1, <2>2 DEF OwesBut, Owes, Owed, Hot
    <3>q. QED BY <3>1 DEF DebtBut, Debt
  <2>4. mgWatch'.repeats = mgWatch.repeats /\ Credit' = Credit
    BY <2>1 DEF Credit
  <2>q. QED BY <1>1, <1>3, <1>4, <2>3, <2>4 DEF RepeatInv
<1>q. QED BY <1>5, <1>6

\* The new memory owes what the old one did without the level that acted, and the level
\* that it comes down from.
LEMMA SaveOwes ==
  ASSUME Typed, JobInv, HoldOutlasts, Market!Save, NEW l \in {1, 2, 3}
  PROVE  Owes(mgRun.memory, l)' <=
           OwesBut(mgCache.memory, Own, l)
             + (IF l = mgCache.memory.level THEN Below(mgRun.decision.level, mgCache.memory.level) ELSE 0)
<1> DEFINE d == mgRun.decision
           x == d.level
           m == mgCache.memory
           n == Market!NextMemory
<1>1. /\ mgRun.pc = "acted" /\ mgRun \in Jobs /\ mgRun'.memory = n /\ mgRun'.decision = d
      /\ UNCHANGED <<mgNow, mgMarket, mgCache, mgDid, mgWatch>>
  BY SaveIs
<1>2. mgRun.memory = m
  BY <1>1 DEF JobInv
<1>3. /\ n.level = x
      /\ n.changedAt = IF m.level = x /\ m.changedAt # Market!Never THEN m.changedAt ELSE mgNow
      /\ n.cooldownUntil = IF Market!Runs(d) /\ Market!Cooldown(x) > 0 THEN mgNow + Market!Cooldown(x) ELSE m.cooldownUntil
  BY <1>1, <1>2, MemoryIs
<1>4. /\ d \in Decisions /\ m \in Market!Memories /\ l \in Market!Levels
      /\ x \in Market!Levels /\ x \in Int /\ l \in Int /\ m.level \in Int /\ mgNow \in Int /\ mgDid[l] \in Int /\ mgDid[l] <= mgNow
      /\ Market!Cooldown(l) \in Nat /\ Market!Cooldown(x) \in Nat /\ m.changedAt \in Int /\ m.cooldownUntil \in Int
  BY <1>1, CooldownFacts DEF Jobs, Decisions, Typed, Market!Memories, Market!Levels
<1>5. /\ d.at <= mgNow /\ (x < m.level => d.at - m.changedAt >= Hold)
      /\ Market!Runs(d) => x # 0
  BY <1>1 DEF JobInv, JobOk
<1> HIDE DEF n, d, m
<1>6. SUFFICES ASSUME Owed(n, l), ~(l = m.level /\ x < m.level) PROVE l # Own /\ Owed(m, l)
  <2>1. Owes(mgRun.memory, l)' = Owes(n, l)
    BY <1>1 DEF Owes, Owed, Hot
  <2>2. /\ Owes(n, l) \in {0, 1} /\ OwesBut(m, Own, l) \in {0, 1}
        /\ (IF l = m.level THEN Below(x, m.level) ELSE 0) \in {0, 1}
        /\ l = m.level /\ x < m.level => (IF l = m.level THEN Below(x, m.level) ELSE 0) = 1
    BY DEF Owes, OwesBut, Below
  <2>3. Owes(n, l) = 1 => Owed(n, l)
    BY DEF Owes
  <2>4. l # Own /\ Owed(m, l) => OwesBut(m, Own, l) = 1
    BY DEF OwesBut
  <2>5. Owes(n, l) <= OwesBut(m, Own, l) + (IF l = m.level THEN Below(x, m.level) ELSE 0)
    BY <1>6, <2>2, <2>3, <2>4
  <2>q. QED BY <2>1, <2>5 DEF m, d
<1>7. Hot(l)
  BY <1>6 DEF Owed
<1>8. CASE l < x
  <2>1. mgDid[l] > n.changedAt /\ ~(l = n.level)
    BY <1>3, <1>4, <1>6, <1>8 DEF Owed
  <2>2. m.level = x /\ n.changedAt = m.changedAt
    BY <1>3, <1>4, <2>1
  <2>3. Owed(m, l)
    BY <1>4, <1>7, <1>8, <2>1, <2>2 DEF Owed
  <2>4. l # Own
    BY <1>4, <1>8 DEF Own, d
  <2>q. QED BY <2>3, <2>4
<1>9. CASE l = x
  <2>1. n.cooldownUntil < mgDid[l] + Market!Cooldown(l)
    BY <1>3, <1>4, <1>6, <1>9 DEF Owed
  <2>2. ~Market!Runs(d)
    <3>1. x # 0 => Market!Cooldown(x) > 0
      BY <1>4, CooldownFacts
    <3>q. QED BY <1>3, <1>4, <1>5, <1>9, <2>1, <3>1
  <2>3. n.cooldownUntil = m.cooldownUntil
    BY <1>3, <2>2
  <2>4. Owed(m, l)
    BY <1>4, <1>5, <1>7, <1>9, <2>1, <2>3, HotIsOwed
  <2>5. l # Own
    BY <1>4, <2>2 DEF Own, d
  <2>q. QED BY <2>4, <2>5
<1>10. CASE l > x
  <2>1. l # m.level
    BY <1>4, <1>6, <1>10
  <2>2. Owed(m, l)
    BY <1>4, <1>5, <1>7, <1>10, <2>1, HotIsOwed
  <2>3. l # Own
    BY <1>4, <1>10 DEF Own, d
  <2>q. QED BY <2>2, <2>3
<1>q. QED BY <1>4, <1>8, <1>9, <1>10

LEMMA SaveRepeat == ASSUME Typed, JobInv, HoldOutlasts, RepeatInv, Market!Save PROVE RepeatInv'
<1> DEFINE x == mgRun.decision.level
           m == mgCache.memory
           c == mgCache.control.level
           D == DebtBut(m, Own)
<1>1. /\ mgRun.pc = "acted" /\ mgRun'.pc = "saved" /\ mgRun \in Jobs /\ mgRun'.decision = mgRun.decision
      /\ UNCHANGED <<mgNow, mgMarket, mgCache, mgDid, mgWatch>>
  BY SaveIs
<1>2. /\ x \in Int /\ m.level \in {0, 1, 2, 3} /\ c \in Int /\ mgWatch.repeats \in Int /\ Credit \in Int
  BY <1>1 DEF Jobs, Decisions, Typed, Market!Memories, Controls, Market!Levels, Credit
<1>3. mgWatch.repeats + D + Spare <= Credit
  BY <1>1 DEF RepeatInv
<1>4. /\ Own' = Own /\ D' = D /\ Spare' = Spare /\ Credit' = Credit
  BY <1>1 DEF Own, Market!Runs, DebtBut, OwesBut, Owed, Hot, Spare, Credit
<1>5. Debt(mgRun.memory)' <= D + Below(x, m.level)
  <2> DEFINE a(l) == Owes(mgRun.memory, l)'
             b(l) == OwesBut(m, Own, l)
             e(l) == IF l = m.level THEN Below(x, m.level) ELSE 0
  <2>1. a(1) <= b(1) + e(1) /\ a(2) <= b(2) + e(2) /\ a(3) <= b(3) + e(3)
    BY SaveOwes
  <2>2. /\ a(1) \in Int /\ a(2) \in Int /\ a(3) \in Int /\ b(1) \in Int /\ b(2) \in Int /\ b(3) \in Int
    BY DEF Owes, OwesBut
  <2>3. e(1) + e(2) + e(3) <= Below(x, m.level) /\ e(1) \in Int /\ e(2) \in Int /\ e(3) \in Int
    BY <1>2 DEF Below
  <2>4. Debt(mgRun.memory)' = a(1) + a(2) + a(3) /\ D = b(1) + b(2) + b(3)
    BY DEF Debt, DebtBut
  <2>5. Below(x, m.level) \in Int
    BY DEF Below
  <2> HIDE DEF a, b, e, D
  <2>q. QED BY <2>1, <2>2, <2>3, <2>4, <2>5
<1>6. Below(x, m.level) <= Spare + Below(x, c) /\ Below(x, m.level) \in Int /\ Spare \in Int /\ Below(x, c) \in Int
  BY <1>2 DEF Below, Spare
<1>7. D \in Int /\ Debt(mgRun.memory)' \in Int
  BY DEF DebtBut, OwesBut, Debt, Owes
<1>8. mgWatch.repeats + Debt(mgRun.memory)' <= Credit + Below(x, c)
  BY <1>2, <1>3, <1>5, <1>6, <1>7
<1>q. QED BY <1>1, <1>3, <1>4, <1>8 DEF RepeatInv

LEMMA PublishRepeat == ASSUME Typed, JobInv, HoldOutlasts, RepeatInv, Market!Publish PROVE RepeatInv'
<1> DEFINE x == mgRun.decision.level
           m == mgCache.memory
           c == mgCache.control.level
<1>1. /\ mgRun.pc \in {"saved", "failed"} /\ mgRun \in Jobs /\ mgRun' = Market!Idle
      /\ mgCache'.memory = mgRun.memory /\ mgCache'.control = mgRun.control
      /\ mgWatch' = [Market!Seen EXCEPT !.forgot = IF mgRun.pc = "failed" THEN @ + 1 ELSE @]
      /\ UNCHANGED <<mgNow, mgMarket, mgDone, mgDid>>
  BY PublishIs
<1>2. mgRun.control.level = x
  BY <1>1 DEF JobInv, JobOk
<1>3. /\ Market!Seen \in Watches /\ Market!Seen.repeats = mgWatch.repeats /\ Market!Seen.forgot = mgWatch.forgot
      /\ Market!Seen.dropped = IF x < c THEN mgWatch.dropped + 1 ELSE mgWatch.dropped
  BY <1>1, <1>2, SeenIs
<1>4. /\ mgWatch'.repeats = mgWatch.repeats
      /\ Credit' = mgWatch.forgot + (IF mgRun.pc = "failed" THEN 1 ELSE 0) + mgWatch.dropped + Below(x, c)
      /\ mgWatch.forgot \in Int /\ mgWatch.dropped \in Int /\ mgWatch.repeats \in Int
  <2>1. mgWatch'.repeats = Market!Seen.repeats /\ mgWatch'.dropped = Market!Seen.dropped
        /\ mgWatch'.forgot = Market!Seen.forgot + (IF mgRun.pc = "failed" THEN 1 ELSE 0) /\ Market!Seen.dropped \in Int /\ Market!Seen.forgot \in Int
    BY <1>1, <1>3 DEF Watches
  <2>2. mgWatch.forgot \in Int /\ mgWatch.dropped \in Int /\ mgWatch.repeats \in Int
    BY DEF Typed
  <2>q. QED BY <1>3, <2>1, <2>2 DEF Credit, Below
<1>5. /\ x \in Int /\ m.level \in Int /\ c \in Int
  BY <1>1 DEF Jobs, Decisions, Typed, Market!Memories, Controls, Market!Levels
<1>6. Debt(mgCache.memory)' = Debt(mgRun.memory)
  BY <1>1 DEF Debt, Owes, Owed, Hot
<1>7. CASE mgRun.pc = "saved"
  <2>1. mgWatch.repeats + Debt(mgRun.memory) <= Credit + Below(x, c)
    BY <1>7 DEF RepeatInv
  <2>2. Spare' = 0
    <3>1. mgRun.memory.level = x
      BY <1>7, SavedIs
    <3>q. QED BY <1>1, <1>2, <1>5, <3>1 DEF Spare, Below
  <2>3. Debt(mgRun.memory) \in Int /\ Below(x, c) \in Int
    BY DEF Debt, Owes, Below
  <2>4. mgWatch'.repeats + Debt(mgCache.memory)' + Spare' <= Credit'
    BY <1>4, <1>6, <1>7, <2>1, <2>2, <2>3 DEF Credit
  <2>q. QED BY <1>1, <2>4, IdleIs DEF RepeatInv
<1>8. CASE mgRun.pc = "failed"
  <2>1. mgWatch.repeats + DebtBut(m, Own) + Spare <= Credit /\ mgRun.memory = m
    BY <1>8 DEF RepeatInv, JobInv
  <2>2. Debt(m) <= DebtBut(m, Own) + 1 /\ Debt(m) \in Int /\ DebtBut(m, Own) \in Int
    BY Debts
  <2>3. Spare' <= Spare + Below(x, c) /\ Spare \in Int /\ Spare' \in Int /\ Below(x, c) \in Int
    BY <1>1, <1>2, <1>5, <2>1 DEF Spare, Below
  <2>4. mgWatch'.repeats + Debt(mgCache.memory)' + Spare' <= Credit'
    BY <1>4, <1>6, <1>8, <2>1, <2>2, <2>3 DEF Credit
  <2>q. QED BY <1>1, <2>4, IdleIs DEF RepeatInv
<1>q. QED BY <1>1, <1>7, <1>8

LEMMA LoseRepeat == ASSUME Typed, RepeatInv, Market!Lose PROVE RepeatInv'
<1>1. /\ mgRun.pc \in {"decided", "acted", "saved"} /\ mgRun' = Market!Idle
      /\ mgWatch' = [mgWatch EXCEPT !.forgot = @ + 1] /\ UNCHANGED <<mgNow, mgMarket, mgCache, mgDone, mgDid>>
  BY DEF Market!Lose
<1>2. mgWatch'.repeats = mgWatch.repeats /\ Credit' = Credit + 1 /\ Spare' = Spare
      /\ mgWatch.repeats \in Int /\ Credit \in Int /\ Spare \in Int
  BY <1>1 DEF Typed, Credit, Spare, Below
<1>3. Debt(mgCache.memory)' = Debt(mgCache.memory)
  BY <1>1 DEF Debt, Owes, Owed, Hot
<1>4. /\ Debt(mgCache.memory) <= DebtBut(mgCache.memory, Own) + 1
      /\ Debt(mgCache.memory) \in Int /\ DebtBut(mgCache.memory, Own) \in Int
  BY Debts
<1>5. mgWatch'.repeats + Debt(mgCache.memory)' + Spare' <= Credit'
  <2>1. CASE mgRun.pc = "decided"
    <3>1. mgWatch.repeats + Debt(mgCache.memory) + Spare <= Credit
      BY <2>1 DEF RepeatInv
    <3>q. QED BY <1>2, <1>3, <1>4, <3>1
  <2>2. CASE mgRun.pc \in {"acted", "saved"}
    <3>1. mgWatch.repeats + DebtBut(mgCache.memory, Own) + Spare <= Credit
      BY <2>2 DEF RepeatInv
    <3>q. QED BY <1>2, <1>3, <1>4, <3>1
  <2>q. QED BY <1>1, <2>1, <2>2
<1>q. QED BY <1>1, <1>5, IdleIs DEF RepeatInv

LEMMA RepeatStep == Typed /\ JobInv /\ HoldOutlasts /\ RepeatInv /\ [Market!Next]_(Market!vars) => RepeatInv'
<1> SUFFICES ASSUME Typed, JobInv, HoldOutlasts, RepeatInv, [Market!Next]_(Market!vars) PROVE RepeatInv'
  OBVIOUS
<1>0. mgRun.pc # "idle" => mgRun \in Jobs
  BY IdleIs DEF Typed
<1>1. CASE Market!Tick
  BY <1>1, TickRepeat
<1>2. CASE Market!Bell
  <2>1. mgRun.pc = "idle" /\ UNCHANGED <<mgNow, mgCache, mgRun, mgDone, mgDid, mgWatch>>
    BY <1>2, IdleIs DEF Market!Bell
  <2>2. Debt(mgCache.memory)' = Debt(mgCache.memory) /\ Spare' = Spare /\ Credit' = Credit
    BY <2>1 DEF Debt, Owes, Owed, Hot, Spare, Credit
  <2>q. QED BY <2>1, <2>2 DEF RepeatInv
<1>3. ASSUME NEW force \in BOOLEAN, NEW raw \in Raws, NEW clock \in Market!Answers, Market!Decide(force, raw, clock)
      PROVE  RepeatInv'
  <2>1. mgRun = Market!Idle /\ mgRun'.pc = "decided" /\ UNCHANGED <<mgNow, mgMarket, mgCache, mgDone, mgDid>>
    BY <1>3, DecideIs
  <2>2. mgWatch'.repeats = mgWatch.repeats /\ mgWatch'.forgot = mgWatch.forgot /\ mgWatch'.dropped = mgWatch.dropped
    BY <1>3 DEF Market!Decide, Typed
  <2>3. Debt(mgCache.memory)' = Debt(mgCache.memory) /\ Spare' = Spare /\ Credit' = Credit
    BY <2>1, <2>2 DEF Debt, Owes, Owed, Hot, Spare, Credit
  <2>q. QED BY <2>1, <2>2, <2>3, IdleIs DEF RepeatInv
<1>4. CASE Market!Dedupe
  <2> DEFINE x == mgRun.decision.level
             m == mgCache.memory
             c == mgCache.control.level
  <2>1. mgRun.pc = "decided" /\ mgRun \in Jobs /\ mgRun' = [mgRun EXCEPT !.pc = "saved"] /\ Market!IsDedupe
        /\ UNCHANGED <<mgNow, mgMarket, mgCache, mgDone, mgDid, mgWatch>>
    BY <1>0, <1>4 DEF Market!Dedupe
  <2>2. mgRun'.decision = mgRun.decision /\ mgRun'.memory = mgRun.memory /\ mgRun'.pc = "saved" /\ mgRun.memory = m
        /\ ~Market!Runs(mgRun.decision)
    BY <2>1 DEF Jobs, Market!IsDedupe, JobInv
  <2>3. mgWatch.repeats + Debt(m) + Spare <= Credit
    BY <2>1 DEF RepeatInv
  <2>4. Own' = 0
    BY <2>2 DEF Own, Market!Runs
  <2>5. DebtBut(mgCache.memory, Own)' = DebtBut(m, 0) /\ DebtBut(m, 0) = Debt(m)
    <3>1. DebtBut(mgCache.memory, Own)' = DebtBut(m, 0)
      BY <2>1, <2>4 DEF DebtBut, OwesBut, Owed, Hot
    <3>q. QED BY <3>1, Debts
  <2>6. Debt(mgRun.memory)' = Debt(m)
    BY <2>1, <2>2 DEF Debt, Owes, Owed, Hot
  <2>7. Spare' = Spare /\ Credit' = Credit /\ mgWatch'.repeats = mgWatch.repeats /\ Spare \in Nat
        /\ Below(x, c) \in Nat /\ Credit \in Int /\ mgWatch.repeats \in Int /\ Debt(m) \in Int
    BY <2>1, Debts DEF Spare, Credit, Below, Typed
  <2>8. mgWatch.repeats + Debt(m) <= Credit + Below(x, c)
    BY <2>3, <2>7
  <2>q. QED BY <2>1, <2>2, <2>3, <2>5, <2>6, <2>7, <2>8 DEF RepeatInv
<1>5. ASSUME NEW complete \in BOOLEAN, Market!Act(complete) PROVE RepeatInv'
  BY <1>5, ActRepeat
<1>6. CASE Market!NotifyFails
  <2>1. mgRun.pc = "acted" /\ mgRun \in Jobs /\ mgRun' = [mgRun EXCEPT !.pc = "failed"]
        /\ UNCHANGED <<mgNow, mgMarket, mgCache, mgDone, mgDid, mgWatch>>
    BY <1>0, <1>6 DEF Market!NotifyFails
  <2>2. mgRun'.decision = mgRun.decision /\ mgRun'.pc = "failed"
    BY <2>1 DEF Jobs
  <2>3. DebtBut(mgCache.memory, Own)' = DebtBut(mgCache.memory, Own) /\ Spare' = Spare /\ Credit' = Credit
    BY <2>1, <2>2 DEF Own, Market!Runs, DebtBut, OwesBut, Owed, Hot, Spare, Credit
  <2>q. QED BY <2>1, <2>2, <2>3 DEF RepeatInv
<1>7. CASE Market!Save
  BY <1>7, SaveRepeat
<1>8. CASE Market!Publish
  BY <1>8, PublishRepeat
<1>9. CASE Market!Lose
  BY <1>9, LoseRepeat
<1>10. CASE UNCHANGED Market!vars
  <2>1. UNCHANGED <<mgNow, mgCache, mgRun, mgDid, mgWatch>>
    BY <1>10 DEF Market!vars
  <2>2. Debt(mgCache.memory)' = Debt(mgCache.memory) /\ Debt(mgRun.memory)' = Debt(mgRun.memory)
        /\ DebtBut(mgCache.memory, Own)' = DebtBut(mgCache.memory, Own) /\ Spare' = Spare /\ Credit' = Credit
    BY <2>1 DEF Own, Market!Runs, Debt, Owes, DebtBut, OwesBut, Owed, Hot, Spare, Credit
  <2>q. QED BY <2>1, <2>2 DEF RepeatInv
<1>q. QED BY <1>1, <1>2, <1>3, <1>4, <1>5, <1>6, <1>7, <1>8, <1>9, <1>10 DEF Market!Next

-------------------------------------------------------------------------------
(* Theorems *)

GuardInv == Typed /\ JobInv /\ HeldInv /\ DangerInv /\ (HoldOutlasts => RepeatInv)

\* The inductive invariant of the market guard: what a job knows, when a published
\* level was remembered, which cooldown counts, and what every repetition was paid by.
THEOREM GuardInvariant == Market!Spec => []GuardInv
<1>1. Market!Init => GuardInv
  BY InitTyped, InitJob, InitHeld, InitDanger, InitRepeat DEF GuardInv
<1>2. GuardInv /\ [Market!Next]_(Market!vars) => GuardInv'
  BY TypedStep, JobStep, HeldStep, DangerStep, RepeatStep DEF GuardInv, HoldOutlasts
<1>q. QED BY <1>1, <1>2, PTL DEF Market!Spec

\* A halting level keeps entries out and is lowered after the hold only, unless a
\* memory was lost; the memory that the next job restores follows the published file.
THEOREM MarketHaltsHold ==
  Market!Spec => []( /\ Market!TypeOK /\ Market!EntriesStayOut
                     /\ Market!DropsAreHeld /\ Market!MemoryFollowsFile )
<1>1. GuardInv => Market!TypeOK
  <2> SUFFICES ASSUME Typed PROVE Market!TypeOK
    BY DEF GuardInv
  <2>1. mgRun.pc \in {"idle", "decided", "acted", "saved", "failed"} /\ (mgRun # Market!Idle => mgRun.memory \in Market!Memories)
    BY IdleIs DEF Typed, Jobs
  <2>q. QED BY <2>1 DEF Typed, Market!TypeOK, Controls
<1>2. GuardInv => Market!EntriesStayOut
  BY DEF GuardInv, HeldInv, Market!EntriesStayOut, Market!GateBlocks
<1>3. GuardInv => Market!DropsAreHeld
  <2> SUFFICES ASSUME Typed, HeldInv, mgWatch.early PROVE mgWatch.forgot > 0
    BY DEF GuardInv, Market!DropsAreHeld
  <2>1. mgWatch.early \in BOOLEAN /\ mgWatch.forgot \in Nat
    BY DEF Typed
  <2>2. mgWatch.forgot # 0
    BY <2>1, Zenon DEF HeldInv
  <2>q. QED BY <2>1, <2>2
<1>4. GuardInv => Market!MemoryFollowsFile
  BY DEF GuardInv, HeldInv, Market!MemoryFollowsFile
<1>q. QED BY <1>1, <1>2, <1>3, <1>4, GuardInvariant, PTL

\* A danger that a job sees while the market is open has been acted on within its
\* cooldown; repeated actions are paid for by lost memories and levels that went down.
THEOREM MarketActionsTimely == Market!Spec => [](Market!DangerIsActedOn /\ Market!RepeatsAreEarned)
<1>1. GuardInv => Market!DangerIsActedOn
  <2> SUFFICES ASSUME GuardInv, ~mgWatch.blind, mgRun.pc = "saved", mgRun.decision.level > 0, mgRun.decision.clock = "open"
               PROVE  mgRun.decision.at - mgDone[mgRun.decision.level] < Market!Cooldown(mgRun.decision.level)
    BY DEF Market!DangerIsActedOn
  <2> DEFINE d == mgRun.decision
  <2>1. /\ mgRun \in Jobs /\ d.level \in Market!Levels /\ d.at \in Int /\ mgNow \in Int /\ mgWatch.blind = FALSE
        /\ d.level # 0
    BY IdleIs DEF GuardInv, Typed, Jobs, Decisions
  <2>2. /\ d.at <= mgNow /\ (Market!Runs(d) \/ d.reason = "cooldown_active")
    BY <2>1 DEF GuardInv, JobInv, JobOk
  <2>3. CASE Market!Runs(d)
    <3>1. mgDone[d.level] = mgNow
      BY <2>3 DEF GuardInv, DangerInv, ClockOk
    <3>2. Market!Cooldown(d.level) \in Nat /\ Market!Cooldown(d.level) >= 1
      BY <2>1, CooldownFacts
    <3>q. QED BY <2>1, <2>2, <3>1, <3>2
  <2>4. CASE d.reason = "cooldown_active"
    BY <2>1, <2>4 DEF GuardInv, DangerInv, ClockOk
  <2>q. QED BY <2>2, <2>3, <2>4
<1>2. GuardInv => Market!RepeatsAreEarned
  <2> SUFFICES ASSUME GuardInv, HoldOutlasts PROVE mgWatch.repeats <= mgWatch.forgot + mgWatch.dropped
    BY DEF Market!RepeatsAreEarned, HoldOutlasts
  <2>1. /\ mgWatch.repeats \in Int /\ Credit \in Int /\ Spare \in Nat
        /\ Debt(mgCache.memory) \in Nat /\ DebtBut(mgCache.memory, Own) \in Nat
    BY Debts DEF GuardInv, Typed, Credit, Spare, Below
  <2>2. mgRun.pc \in {"idle", "decided", "acted", "failed", "saved"}
    BY IdleIs DEF GuardInv, Typed, Jobs
  <2>3. mgWatch.repeats + Debt(mgCache.memory) + Spare <= Credit \/ mgWatch.repeats + DebtBut(mgCache.memory, Own) + Spare <= Credit
    BY <2>2 DEF GuardInv, RepeatInv
  <2>4. mgWatch.repeats <= Credit
    BY <2>1, <2>3
  <2>q. QED BY <2>4 DEF Credit
<1>q. QED BY <1>1, <1>2, GuardInvariant, PTL

-------------------------------------------------------------------------------
(* Both programs.                                                          *)

\* A behaviour that moves one program and leaves the other at its start is a
\* behaviour of each of the two specifications.
THEOREM ProgramsAreKept == BesideSpec => Spec /\ Market!Spec
<1>1. BesideInit => Init /\ Market!Init
  BY DEF BesideInit
<1>2. [BesideNext]_<<program, vars, marketVars>> => [Next]_vars
  BY DEF BesideNext, NotifierMoves, GuardMoves
<1>3. [BesideNext]_<<program, vars, marketVars>> => [Market!Next]_(Market!vars)
  BY DEF BesideNext, NotifierMoves, GuardMoves, marketVars, Market!vars
<1>q. QED BY <1>1, <1>2, <1>3, PTL DEF BesideSpec, Spec, Market!Spec

\* Beside the notifier the guard's halts hold: entries stay out, a level is lowered
\* after the hold only, and the memory follows the published file.
THEOREM HaltsHoldBeside == BesideSpec => []HaltsHold
<1>1. Market!TypeOK /\ Market!EntriesStayOut /\ Market!DropsAreHeld /\ Market!MemoryFollowsFile => HaltsHold
  BY DEF HaltsHold
<1>q. QED BY <1>1, ProgramsAreKept, MarketHaltsHold, PTL

\* Beside the notifier the guard's actions are done in time and repeated only for a
\* reason.
THEOREM ActionsTimelyBeside == BesideSpec => []ActionsAreTimely
<1>1. Market!DangerIsActedOn /\ Market!RepeatsAreEarned => ActionsAreTimely
  BY DEF ActionsAreTimely
<1>q. QED BY <1>1, ProgramsAreKept, MarketActionsTimely, PTL
===============================================================================
