---------------------------- MODULE Notifications ----------------------------
(***************************************************************************)
(* Messages about observed order events, deliverNotifications of           *)
(* scripts/paper-order-notifications.mjs, and what the workflow does with  *)
(* its receipt. Processes share a directory with the receipt and a lock    *)
(* file. The first observation is a baseline and is not told. Later, what  *)
(* the receipt has not seen is written to it, sent as one message, and its *)
(* outcome is written. The directory itself comes from a cache that is     *)
(* saved at the end of a run, or not.                                      *)
(*                                                                         *)
(* An event stands for its key; hashes, formats and the account check are  *)
(* left out.                                                               *)
(***************************************************************************)
EXTENDS Naturals, Sequences, FiniteSets

CONSTANTS
  Process,   \* processes that deliver from one directory
  Event,     \* order events
  Capacity,  \* the receipt's limit on events (50000 keys, 4 MB)
  MaxLost    \* bound of the model: cache saves that are lost

ASSUME NotificationsAssumption ==
  /\ Capacity \in Nat /\ MaxLost \in Nat

VARIABLES
  happened,  \* events the broker shows
  receipt,   \* [exists, seen, rows] of paper-order-notification-receipts.json
  lock,      \* the lock file exists
  cache,     \* the receipt and the lock of the last saved cache
  lost,      \* saves of the cache that were lost (history)
  pc,        \* pc[p]
  batch,     \* batch[p]: the events p is about to tell
  told,      \* told[e]: messages sent that name e (history)
  sentRows,  \* the batches sent (history)
  arrived,   \* the batches Telegram has accepted (history)
  baseline   \* the events of the first snapshot (history)

vars == <<happened, receipt, lock, cache, lost, pc, batch, told, sentRows, arrived, baseline>>
history == <<told, sentRows, arrived, baseline>>
runner == <<cache, lost>>

Row(events, status) == [events |-> events, status |-> status]
NoReceipt == [exists |-> FALSE, seen |-> {}, rows |-> <<>>]

Init ==
  /\ happened = {} /\ receipt = NoReceipt /\ lock = FALSE
  /\ cache = [receipt |-> NoReceipt, lock |-> FALSE] /\ lost = 0
  /\ pc = [p \in Process |-> "idle"] /\ batch = [p \in Process |-> {}]
  /\ told = [e \in Event |-> 0] /\ sentRows = {} /\ arrived = {} /\ baseline = {}

Goto(p, to) == pc' = [pc EXCEPT ![p] = to]
\* finally: the lock is released and the function returns.
Return(p) == Goto(p, "idle") /\ lock' = FALSE /\ batch' = [batch EXCEPT ![p] = {}]

\* What a snapshot may show of the events: rows may be malformed, old or overtaken.
Snapshots == SUBSET happened

EventHappens ==
  /\ \E e \in Event \ happened : happened' = happened \cup {e}
  /\ UNCHANGED <<receipt, lock, runner, pc, batch, history>>

\* The lock file is created, or the call returns RECEIPT_LOCKED.
TakeLock(p) ==
  /\ pc[p] = "idle"
  /\ ~lock /\ lock' = TRUE
  /\ \E S \in Snapshots : batch' = [batch EXCEPT ![p] = S]
  /\ Goto(p, "locked")
  /\ UNCHANGED <<happened, receipt, runner, history>>

\* Mutation of Baseline: the first snapshot is not remembered.
BaselineEmpty(p) ==
  /\ pc[p] = "locked" /\ ~receipt.exists
  /\ receipt' = [exists |-> TRUE, seen |-> {}, rows |-> <<>>]
  /\ baseline' = batch[p]
  /\ Return(p)
  /\ UNCHANGED <<happened, runner, told, sentRows, arrived>>
\* No receipt: BASELINE_RECORDED.
Baseline(p) ==
  /\ pc[p] = "locked" /\ ~receipt.exists
  /\ receipt' = [exists |-> TRUE, seen |-> batch[p], rows |-> <<>>]
  /\ baseline' = batch[p]
  /\ Return(p)
  /\ UNCHANGED <<happened, runner, told, sentRows, arrived>>

Unseen(p) == batch[p] \ receipt.seen
\* NO_CHANGE, or RECEIPT_CAPACITY_REACHED.
Nothing(p) ==
  /\ pc[p] = "locked" /\ receipt.exists
  /\ Unseen(p) = {} \/ Cardinality(receipt.seen \cup batch[p]) > Capacity
  /\ Return(p)
  /\ UNCHANGED <<happened, receipt, runner, history>>

Reservation(p) ==
  [exists |-> TRUE, seen |-> receipt.seen \cup batch[p], rows |-> Append(receipt.rows, Row(Unseen(p), "RESERVED"))]
\* Mutation of Reserve: the receipt is written after the send only.
ReserveNothing(p) ==
  /\ pc[p] = "locked" /\ receipt.exists
  /\ Unseen(p) # {} /\ Cardinality(receipt.seen \cup batch[p]) <= Capacity
  /\ batch' = [batch EXCEPT ![p] = Unseen(p)]
  /\ Goto(p, "reserved")
  /\ UNCHANGED <<happened, receipt, lock, runner, history>>
\* The new events and an attempt are on disk before anything is sent.
Reserve(p) ==
  /\ pc[p] = "locked" /\ receipt.exists
  /\ Unseen(p) # {} /\ Cardinality(receipt.seen \cup batch[p]) <= Capacity
  /\ receipt' = Reservation(p)
  /\ batch' = [batch EXCEPT ![p] = Unseen(p)]
  /\ Goto(p, "reserved")
  /\ UNCHANGED <<happened, lock, runner, history>>

\* One POST: accepted and answered, or anything else, in which case it may have arrived.
Send(p) ==
  /\ pc[p] = "reserved"
  /\ told' = [e \in Event |-> told[e] + IF e \in batch[p] THEN 1 ELSE 0]
  /\ sentRows' = sentRows \cup {batch[p]}
  /\ \/ arrived' = arrived \cup {batch[p]} /\ Goto(p, "delivered")
     \/ arrived' \in {arrived, arrived \cup {batch[p]}} /\ Goto(p, "uncertain")
  /\ UNCHANGED <<happened, receipt, lock, runner, batch, baseline>>

Outcome(p) == IF pc[p] = "delivered" THEN "DELIVERED" ELSE "UNCERTAIN"
\* Mutation of Record: an uncertain batch is taken back, to be sent again.
RecordTakesBack(p) ==
  /\ pc[p] \in {"delivered", "uncertain"}
  /\ receipt' = [receipt EXCEPT !.rows[Len(receipt.rows)].status = Outcome(p),
                                !.seen = IF pc[p] = "uncertain" THEN @ \ batch[p] ELSE @]
  /\ Return(p)
  /\ UNCHANGED <<happened, runner, history>>
\* The attempt's outcome is written: the receipt p reserved, with its last row settled.
Record(p) ==
  /\ pc[p] \in {"delivered", "uncertain"}
  /\ receipt' = [receipt EXCEPT !.rows[Len(receipt.rows)].status = Outcome(p)]
  /\ Return(p)
  /\ UNCHANGED <<happened, runner, history>>

\* RECEIPT_WRITE_FAILED: a write of the receipt fails before or after its rename.
WriteFails(p) ==
  /\ \/ /\ pc[p] = "locked" /\ receipt.exists
        /\ Unseen(p) # {} /\ Cardinality(receipt.seen \cup batch[p]) <= Capacity
        /\ receipt' \in {receipt, Reservation(p)}
     \/ pc[p] \in {"delivered", "uncertain"} /\ UNCHANGED receipt
  /\ Return(p)
  /\ UNCHANGED <<happened, runner, history>>

\* A process dies. Its lock file stays.
Crash(p) ==
  /\ pc[p] # "idle"
  /\ Goto(p, "idle") /\ batch' = [batch EXCEPT ![p] = {}]
  /\ UNCHANGED <<happened, receipt, lock, runner, history>>

\* The run ends, its directory is saved and restored by the next run.
SaveCache ==
  /\ \A p \in Process : pc[p] = "idle"
  /\ cache # [receipt |-> receipt, lock |-> lock]
  /\ cache' = [receipt |-> receipt, lock |-> lock]
  /\ UNCHANGED <<happened, receipt, lock, lost, pc, batch, history>>
\* The save fails (continue-on-error): the next run starts from the last one.
LoseCache ==
  /\ \A p \in Process : pc[p] = "idle"
  /\ lost < MaxLost /\ cache # [receipt |-> receipt, lock |-> lock]
  /\ lost' = lost + 1 /\ receipt' = cache.receipt /\ lock' = cache.lock
  /\ UNCHANGED <<happened, cache, pc, batch, history>>

Next ==
  \/ EventHappens
  \/ \E p \in Process :
       \/ TakeLock(p) \/ Baseline(p) \/ Nothing(p) \/ Reserve(p) \/ Send(p) \/ Record(p)
       \/ WriteFails(p) \/ Crash(p)
  \/ SaveCache \/ LoseCache

Spec == Init /\ [][Next]_vars

-----------------------------------------------------------------------------
(* Properties *)

RowType == [events : SUBSET Event, status : {"RESERVED", "DELIVERED", "UNCERTAIN"}]
ReceiptType == [exists : BOOLEAN, seen : SUBSET Event, rows : Seq(RowType)]
Sending(p) == pc[p] \in {"reserved", "delivered", "uncertain"}
\* Type invariant; who has reserved a batch has a row to settle.
TypeOK ==
  /\ happened \subseteq Event /\ receipt \in ReceiptType /\ lock \in BOOLEAN
  /\ cache \in [receipt : ReceiptType, lock : BOOLEAN] /\ lost \in Nat
  /\ pc \in [Process -> {"idle", "locked", "reserved", "delivered", "uncertain"}]
  /\ batch \in [Process -> SUBSET Event]
  /\ told \in [Event -> Nat] /\ sentRows \subseteq SUBSET Event /\ arrived \subseteq SUBSET Event
  /\ baseline \subseteq Event
  /\ \A p \in Process : Sending(p) => Len(receipt.rows) > 0

\* An event is told once; a message is repeated only for a save of the cache that was
\* lost, and at most once for each.
ToldOncePerCache == \A e \in Event : told[e] <= 1 + lost

\* Nothing is sent without a row in the receipt that says so.
SendsAreOnRecord ==
  lost = 0 => \A b \in sentRows : \E n \in 1..Len(receipt.rows) : receipt.rows[n].events = b

\* A row that says DELIVERED is a message that Telegram has accepted; the row that a
\* process settles is its own.
DeliveredHasArrived ==
  \A n \in 1..Len(receipt.rows) :
    receipt.rows[n].status = "DELIVERED" => receipt.rows[n].events \in arrived

\* Of all processes one works on the receipt, and only under the lock.
OneDeliverer ==
  \A p, q \in Process : pc[p] # "idle" /\ pc[q] # "idle" => p = q /\ lock

\* The first snapshot is not news: what it shows is never told while the cache lives.
BaselineIsNotNews == lost = 0 => \A e \in baseline : told[e] = 0

-----------------------------------------------------------------------------
(* The inductive invariant of NotificationsProofs *)

\* What the receipt has not seen, and what is about to be sent, has been told for a lost
\* cache only.
UnseenIsUntold ==
  \A e \in Event :
    /\ e \notin receipt.seen => told[e] <= lost
    /\ \A p \in Process : pc[p] = "reserved" /\ e \in batch[p] => told[e] <= lost
ReservedIsSeen == \A p \in Process : Sending(p) => receipt.exists /\ batch[p] \subseteq receipt.seen
\* The last row is the sender's own, and DELIVERED is true of the cache as well.
RowIsMine ==
  \A p \in Process :
    /\ Sending(p) => receipt.rows[Len(receipt.rows)].events = batch[p]
    /\ pc[p] = "delivered" => batch[p] \in arrived
HonestRows(rows) == \A n \in 1..Len(rows) : rows[n].status = "DELIVERED" => rows[n].events \in arrived
NothingYet(r) == ~r.exists => r.seen = {}
BaselineIsSeen ==
  lost = 0 => /\ baseline \subseteq receipt.seen
              /\ (~receipt.exists => sentRows = {} /\ \A e \in Event : told[e] = 0)
              /\ \A p \in Process : pc[p] = "reserved" => baseline \cap batch[p] = {}

DeliveryInv ==
  /\ TypeOK /\ ToldOncePerCache /\ SendsAreOnRecord /\ DeliveredHasArrived /\ OneDeliverer
  /\ BaselineIsNotNews
  /\ UnseenIsUntold /\ ReservedIsSeen /\ RowIsMine /\ HonestRows(cache.receipt.rows) /\ BaselineIsSeen
  /\ NothingYet(receipt) /\ NothingYet(cache.receipt)
=============================================================================
