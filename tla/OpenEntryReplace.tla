---- MODULE OpenEntryReplace ----
(***************************************************************************)
(* The entry orders of one symbol in submitOrdersToBroker (src/index.ts)   *)
(* with ENTRY_OPEN_ORDER_STALE_CANCEL_ENABLED: a run lists the open        *)
(* orders, holds back while there is one, or cancels the one that is old   *)
(* and posts a refreshed order.  What throttles this is remembered in      *)
(* state/open-entry-replace-guard.json, written once, after the last       *)
(* payload.  The broker ends a cancelled order when it gets to it.         *)
(***************************************************************************)
EXTENDS Integers, Sequences, FiniteSets, SequencesExt

CONSTANTS
  Stale,         \* ENTRY_OPEN_ORDER_STALE_MINUTES, in ticks
  Cooldown,      \* ENTRY_OPEN_ORDER_REPLACE_COOLDOWN_MINUTES, in ticks
  Cap,           \* ENTRY_OPEN_ORDER_REPLACE_MAX_PER_SYMBOL_PER_DAY
  DayLength,     \* ticks of a UTC day
  MaxNow,        \* bound on the clock
  MaxOrders,     \* bound on the orders
  MaxLost        \* bound on lost saves and lost answers

VARIABLES
  now,           \* the time
  orders,        \* the broker's entry orders of the symbol, in the order of their POSTs
  file,          \* state/open-entry-replace-guard.json, the row of the symbol
  run,           \* the run in progress
  cancels,       \* when the program's cancels took effect
  losses         \* saves and answers of cancels that were lost

vars == <<now, orders, file, run, cancels, losses>>

Never == -100
NoFile == [last |-> Never, day |-> Never, count |-> 0]
Idle == [pc |-> "idle"]
Ended == [at |-> 0, status |-> "ended"]
Day(t) == t \div DayLength

\* loadOpenEntryOrderIndex: an order that is being cancelled is still listed.
Live == {o \in 1..Len(orders) : orders[o].status # "ended"}

\* The newest of the listed orders stands for the symbol.
Newest(listed) == CHOOSE o \in listed : \A p \in listed : p <= o

\* resolveOpenEntryReplaceThrottle
CountToday(row) == IF row.day = Day(now) THEN row.count ELSE 0

\* evaluateOpenEntryReplacePolicy: the cooldown, then the cap.
Throttled(row) ==
  \/ Cooldown > 0 /\ row.last # Never /\ now - row.last < Cooldown
  \/ CountToday(row) >= Cap

\* recordOpenEntryReplace
Recorded(row) == [last |-> now, day |-> Day(now), count |-> CountToday(row) + 1]

Init == /\ now = 0 /\ orders = <<>> /\ file = NoFile
        /\ run = Idle /\ cancels = <<>> /\ losses = 0

Tick == /\ now < MaxNow
        /\ now' = now + 1
        /\ UNCHANGED <<orders, file, run, cancels, losses>>

\* The start of the submission: a listing that fails ends it without effect.
\* The age of an order is taken here.
Load == /\ run = Idle
        /\ run' = [pc |-> "consider", row |-> file, listed |-> Live, touched |-> FALSE,
                   age |-> IF Live = {} THEN 0 ELSE now - orders[Newest(Live)].at]
        /\ UNCHANGED <<now, orders, file, cancels, losses>>

\* An entry is posted when the listing shows no open order of the symbol.
NoneOpen == /\ run.pc = "consider"
            /\ run.listed = {}
            /\ run' = [run EXCEPT !.pc = "post"]
            /\ UNCHANGED <<now, orders, file, cancels, losses>>

\* One open order, old enough, and the throttle allows its replacement.
MayReplace ==
  /\ Cardinality(run.listed) = 1
  /\ run.age >= Stale
  /\ ~Throttled(run.row)

\* HOLD_WAIT: more than one open order, a young one, a throttled replacement,
\* or a price that moved too little or too far.
HoldWait == /\ run.pc = "consider"
            /\ run.listed # {}
            /\ run' = [run EXCEPT !.pc = "end"]
            /\ UNCHANGED <<now, orders, file, cancels, losses>>

\* An order that ended since it was listed cannot be cancelled any more.
HasEnded(o) == orders[o].status = "ended"


\* cancelOpenEntryOrder: the broker accepts the cancel, and ends the order at
\* once or later (OrderEnds); only an accepted cancel is recorded.
CancelStale ==
  /\ run.pc = "consider"
  /\ MayReplace
  /\ LET o == Newest(run.listed)
     IN  /\ ~HasEnded(o)
         /\ orders' = [orders EXCEPT ![o].status = "canceling"]
  /\ cancels' = Append(cancels, now)
  /\ run' = [run EXCEPT !.pc = "post", !.row = Recorded(@), !.touched = TRUE]
  /\ UNCHANGED <<now, file, losses>>

\* Mutation of CancelFails: a refused cancel is followed by the new order.
CancelFailsAndPosts ==
  /\ run.pc = "consider"
  /\ MayReplace
  /\ run' = [run EXCEPT !.pc = "post"]
  /\ UNCHANGED <<now, orders, file, cancels, losses>>

\* The cancel is refused, or never arrives: HOLD_WAIT.
CancelFails ==
  /\ run.pc = "consider"
  /\ MayReplace
  /\ run' = [run EXCEPT !.pc = "end"]
  /\ UNCHANGED <<now, orders, file, cancels, losses>>

\* The cancel is accepted and its answer lost: HOLD_WAIT, and nothing recorded.
CancelAnswerLost ==
  /\ run.pc = "consider"
  /\ MayReplace
  /\ losses < MaxLost
  /\ LET o == Newest(run.listed)
     IN  /\ ~HasEnded(o)
         /\ orders' = [orders EXCEPT ![o].status = "canceling"]
  /\ cancels' = Append(cancels, now)
  /\ losses' = losses + 1
  /\ run' = [run EXCEPT !.pc = "end"]
  /\ UNCHANGED <<now, file>>

\* The POST of the entry; a lost answer changes nothing the program keeps.
Post == /\ run.pc = "post"
        /\ Len(orders) < MaxOrders
        /\ orders' = Append(orders, [at |-> now, status |-> "open"])
        /\ run' = [run EXCEPT !.pc = "end"]
        /\ UNCHANGED <<now, file, cancels, losses>>

\* The broker refuses the POST.
PostRefused == /\ run.pc = "post"
               /\ run' = [run EXCEPT !.pc = "end"]
               /\ UNCHANGED <<now, orders, file, cancels, losses>>

\* The end of the submission: the file is written when a row was touched.
Save == /\ run.pc = "end"
        /\ file' = IF run.touched THEN run.row ELSE file
        /\ run' = Idle
        /\ UNCHANGED <<now, orders, cancels, losses>>

\* The job dies, a later payload throws past the save, or the save fails.
DieUnsaved == /\ run.pc \in {"post", "end"}
              /\ run.touched
              /\ losses < MaxLost
              /\ losses' = losses + 1
              /\ run' = Idle
              /\ UNCHANGED <<now, orders, file, cancels>>

\* The broker: an order that is being cancelled, or was filled or expired, ends.
OrderEnds == \E o \in Live :
               /\ orders' = [orders EXCEPT ![o] = Ended]
               /\ UNCHANGED <<now, file, run, cancels, losses>>

Next == \/ Tick \/ Load \/ NoneOpen \/ HoldWait \/ CancelStale \/ CancelFails
        \/ CancelAnswerLost \/ Post \/ PostRefused \/ Save \/ DieUnsaved \/ OrderEnds

Spec == Init /\ [][Next]_vars

Rows == [last : Nat \union {Never}, day : Nat \union {Never}, count : 0..Cap]

TypeOK ==
  /\ now \in 0..MaxNow
  /\ \A o \in 1..Len(orders) :
       orders[o].at \in Nat /\ orders[o].status \in {"open", "canceling", "ended"}
  /\ file \in Rows
  /\ run = Idle \/ /\ run.pc \in {"consider", "post", "end"} /\ run.row \in Rows
                   /\ run.listed \subseteq 1..Len(orders) /\ run.touched \in BOOLEAN
  /\ \A c \in 1..Len(cancels) : cancels[c] \in 0..now
  /\ losses \in 0..MaxLost

\* README.md:28, one open entry per symbol, as far as the program decides it:
\* the orders it has not asked to cancel are never two, also when a cancel is
\* refused, an answer is lost or a run dies.
OneWorkingEntry == Cardinality({o \in Live : orders[o].status = "open"}) <= 1

\* A slow cancel stands beside one replacement and no more.
AtMostTwoLive == Cardinality(Live) <= 2

\* README.md:323-324, the cap of a day and the cooldown across runs: each lost
\* save or lost answer allows at most one cancel more.
ChurnIsBounded ==
  /\ \A d \in 0..Day(MaxNow) :
       Cardinality({c \in 1..Len(cancels) : Day(cancels[c]) = d}) <= Cap + losses
  /\ Cardinality({c \in 2..Len(cancels) : cancels[c] - cancels[c-1] < Cooldown}) <= losses

====
