----------------------- MODULE ScopedOversightProofs -----------------------
(***************************************************************************)
(* Why the observation tells the truth and loses nothing, for every number *)
(* of exits, cycles and approvals and every quantity: RecordsAreTrue,      *)
(* RunsAreAccounted and HistoriesOnlyGrow, from an inductive invariant     *)
(* that ties the records of the run to the two stores and to the broker at *)
(* each step of the loop.                                                  *)
(***************************************************************************)
EXTENDS ScopedOversight, FiniteSetTheorems, SequenceTheorems, TLAPS

-----------------------------------------------------------------------------
(* Histories                                                               *)

Histories == [Target -> Seq(Entry)]
OnlyReserved == [t \in Target |-> <<Reservation>>]
Attempt == Entered("ATTEMPTED", NoOrder)
FilledOrder == [status |-> "filled", filled |-> Qty]
IsValid(h) == ValidRecord(h, FALSE)
Succeeds(p, e) == ValidSuccessor(p, e, FALSE)
Cut(h) == SubSeq(h, 1, Len(h) - 1)

\* What an entry says of an order, the order has done.
Follows(e, o) ==
  /\ e.filled <= o.filled
  /\ e.status # "null" => o # NoOrder
  /\ e.status \in TerminalStatuses => o.status = e.status

\* An order the broker has; what it says of it can be recorded.
IsOrder(o) == o \in Orders /\ o # NoOrder /\ ValidEntry(Entered("OBSERVED", o))

LEMMA IntentFacts ==
  /\ Attempt \in Entry /\ Reservation \in Entry /\ Intent \in Seq(Entry) /\ Len(Intent) = 2
  /\ Intent[1] = Reservation /\ Intent[2] = Attempt
  /\ ValidEntry(Reservation) /\ ValidEntry(Attempt) /\ Succeeds(Reservation, Attempt)
<1>1. Attempt \in Entry /\ Reservation \in Entry
  BY QtyAssumption DEF Attempt, Entered, NoOrder, Reservation, Entry, Phases, Statuses
<1>2. Intent = <<Reservation, Attempt>>
  BY DEF Intent, Attempt
<1>3. ValidEntry(Reservation) /\ ValidEntry(Attempt)
  BY DEF ValidEntry, Reservation, Attempt, Entered, NoOrder
<1>4. Succeeds(Reservation, Attempt)
  BY DEF Succeeds, ValidSuccessor, Edges, Reservation, Attempt, Entered, NoOrder, TerminalStatuses
<1>q. QED BY <1>1, <1>2, <1>3, <1>4

\* One entry and two entries behind an intent.
LEMMA OneBehindIntent ==
  ASSUME NEW e \in Entry
  PROVE  Intent \o <<e>> \in Seq(Entry) /\ Len(Intent \o <<e>>) = 3
<1>1. PICK g : g = <<e>>
  OBVIOUS
<1>2. g \in Seq(Entry) /\ Len(g) = 1
  BY <1>1
<1>3. Intent \o g \in Seq(Entry) /\ Len(Intent \o g) = Len(Intent) + Len(g)
  BY <1>2, IntentFacts, ConcatProperties
<1>q. QED BY <1>1, <1>2, <1>3, IntentFacts

LEMMA TwoBehindIntent ==
  ASSUME NEW e \in Entry, NEW g \in Entry
  PROVE  /\ Intent \o <<e, g>> \in Seq(Entry) /\ Len(Intent \o <<e, g>>) = 4
         /\ (Intent \o <<e, g>>)[1] = Reservation /\ (Intent \o <<e, g>>)[2] = Attempt
         /\ (Intent \o <<e, g>>)[3] = e /\ (Intent \o <<e, g>>)[4] = g
<1>1. PICK s : s = <<e, g>>
  OBVIOUS
<1>2. s \in Seq(Entry) /\ Len(s) = 2 /\ s[1] = e /\ s[2] = g
  BY <1>1
<1>3. PICK h : h = Intent \o s
  OBVIOUS
<1>4. /\ h \in Seq(Entry) /\ Len(h) = Len(Intent) + Len(s)
      /\ \A i \in 1..(Len(Intent) + Len(s)) :
           h[i] = IF i <= Len(Intent) THEN Intent[i] ELSE s[i - Len(Intent)]
  BY <1>2, <1>3, IntentFacts, ConcatProperties
<1>5. Len(h) = 4 /\ h[1] = Reservation /\ h[2] = Attempt /\ h[3] = e /\ h[4] = g
  BY <1>2, <1>4, IntentFacts
<1>q. QED BY <1>1, <1>3, <1>4, <1>5

\* What a hand-over may contain.
LEMMA ClosedFacts ==
  ASSUME NEW h \in ClosedHistories
  PROVE  /\ h \in Seq(Entry) /\ Len(h) = 4 /\ IsValid(h) /\ LastEntry(h) = Entered("FLAT_RECONCILED", FilledOrder)
<1>1. PICK o \in Orders : /\ o.status \in {"accepted", "filled"} /\ ValidEntry(Entered("OBSERVED", o))
                          /\ h = Intent \o <<Entered("OBSERVED", o), Entered("FLAT_RECONCILED", FilledOrder)>>
  BY DEF ClosedHistories, FilledOrder
<1>a. PICK e : e = Entered("OBSERVED", o)
  OBVIOUS
<1>b. PICK g : g = Entered("FLAT_RECONCILED", FilledOrder)
  OBVIOUS
<1>2. /\ e \in Entry /\ e.phase = "OBSERVED" /\ e.status = o.status /\ e.filled = o.filled
      /\ g \in Entry /\ g.phase = "FLAT_RECONCILED" /\ g.status = "filled" /\ g.filled = Qty
  BY <1>a, <1>b, QtyAssumption DEF Entered, Orders, Entry, Phases, Statuses, FilledOrder
<1>3. ValidEntry(e) /\ ValidEntry(g)
  BY <1>1, <1>2, <1>a DEF ValidEntry
<1>4. Succeeds(Attempt, e) /\ Succeeds(e, g)
  <2>1. Attempt.phase = "ATTEMPTED" /\ Attempt.status = "null" /\ Attempt.filled = 0
    BY DEF Attempt, Entered, NoOrder
  <2>2. e.filled \in Nat /\ Qty \in Nat /\ e.filled <= Qty
    BY <1>2, QtyAssumption DEF Entry
  <2>q. QED BY <1>1, <1>2, <2>1, <2>2 DEF Succeeds, ValidSuccessor, Edges, TerminalStatuses
<1>5. h = Intent \o <<e, g>>
  BY <1>1, <1>a, <1>b
<1>6. /\ h \in Seq(Entry) /\ Len(h) = 4 /\ h[1] = Reservation /\ h[2] = Attempt /\ h[3] = e /\ h[4] = g
  <2>1. e \in Entry
    BY <1>2
  <2>2. g \in Entry
    BY <1>2
  <2>3. /\ Intent \o <<e, g>> \in Seq(Entry) /\ Len(Intent \o <<e, g>>) = 4
        /\ (Intent \o <<e, g>>)[1] = Reservation /\ (Intent \o <<e, g>>)[2] = Attempt
        /\ (Intent \o <<e, g>>)[3] = e /\ (Intent \o <<e, g>>)[4] = g
    BY <2>1, <2>2, TwoBehindIntent
  <2>q. QED BY <1>5, <2>1, <2>2, <2>3
<1>7. /\ \A i \in 1..4 : i = 1 \/ i = 2 \/ i = 3 \/ i = 4
      /\ \A i \in 1..(4 - 1) : (i = 1 /\ i + 1 = 2) \/ (i = 2 /\ i + 1 = 3) \/ (i = 3 /\ i + 1 = 4)
      /\ 4 \in 1..16
  OBVIOUS
<1>8. \A i \in 1..4 : ValidEntry(h[i])
  BY <1>3, <1>6, <1>7, IntentFacts
<1>9. \A i \in 1..(4 - 1) : Succeeds(h[i], h[i + 1])
  BY <1>4, <1>6, <1>7, IntentFacts
<1>10. IsValid(h)
  BY <1>6, <1>7, <1>8, <1>9 DEF IsValid, ValidRecord, Succeeds
<1>q. QED BY <1>6, <1>10, <1>b DEF LastEntry

\* OpenHistories, taken apart.
OpenShapes ==
  {Intent} \cup {Intent \o <<Entered(p, o)>> : p \in {"OBSERVED", "STOPPED"}, o \in Orders}
    \cup {Intent \o <<Entered(p, o), Entered("STOPPED", r)>> :
            p \in {"OBSERVED", "STOPPED"}, o \in Orders, r \in Orders}

LEMMA OpenFacts ==
  ASSUME NEW h \in OpenHistories
  PROVE  h \in Seq(Entry) /\ Len(h) \in 2..4 /\ IsValid(h)
<1>1. OpenHistories = {f \in OpenShapes : IsValid(f)}
  BY DEF OpenHistories, OpenShapes, IsValid
<1>2. IsValid(h) /\ h \in OpenShapes
  BY <1>1
<1>3. \A f : f \in OpenShapes <=>
         \/ f = Intent
         \/ \E p \in {"OBSERVED", "STOPPED"}, o \in Orders : f = Intent \o <<Entered(p, o)>>
         \/ \E p \in {"OBSERVED", "STOPPED"}, o \in Orders, r \in Orders :
              f = Intent \o <<Entered(p, o), Entered("STOPPED", r)>>
  BY DEF OpenShapes
<1>4. \A p \in {"OBSERVED", "STOPPED"}, o \in Orders : Entered(p, o) \in Entry
  BY DEF Entered, Orders, Entry, Phases
<1>5. CASE h = Intent
  BY <1>2, <1>5, IntentFacts
<1>6. CASE \E p \in {"OBSERVED", "STOPPED"}, o \in Orders : h = Intent \o <<Entered(p, o)>>
  <2>1. PICK e \in Entry : h = Intent \o <<e>>
    BY <1>4, <1>6
  <2>2. 3 \in 2..4
    OBVIOUS
  <2>q. QED BY <1>2, <2>1, <2>2, OneBehindIntent
<1>7. CASE \E p \in {"OBSERVED", "STOPPED"}, o \in Orders, r \in Orders :
             h = Intent \o <<Entered(p, o), Entered("STOPPED", r)>>
  <2>1. PICK e \in Entry, g \in Entry : h = Intent \o <<e, g>>
    BY <1>4, <1>7
  <2>2. 4 \in 2..4
    OBVIOUS
  <2>q. QED BY <1>2, <2>1, <2>2, TwoBehindIntent
<1>q. QED BY <1>2, <1>3, <1>5, <1>6, <1>7

LEMMA ReservationFacts ==
  /\ <<Reservation>> \in Seq(Entry) /\ Len(<<Reservation>>) = 1 /\ IsValid(<<Reservation>>)
  /\ LastEntry(<<Reservation>>) = Reservation
  /\ \A o \in Orders : Follows(Reservation, o)
<1>1. <<Reservation>> \in Seq(Entry) /\ Len(<<Reservation>>) = 1 /\ <<Reservation>>[1] = Reservation
  BY IntentFacts
<1>2. /\ 1 \in 1..16 /\ 1..(1 - 1) = {} /\ \A i \in 1..1 : i = 1
  OBVIOUS
<1>3. IsValid(<<Reservation>>)
  BY <1>1, <1>2, IntentFacts DEF IsValid, ValidRecord
<1>4. \A o \in Orders : Follows(Reservation, o)
  BY QtyAssumption DEF Follows, Reservation, Orders, TerminalStatuses
<1>q. QED BY <1>1, <1>3, <1>4 DEF LastEntry

\* A valid history has a last entry, which is valid by itself.
LEMMA LastIsValid ==
  ASSUME NEW h \in Seq(Entry), IsValid(h)
  PROVE  /\ LastEntry(h) \in Entry /\ ValidEntry(LastEntry(h)) /\ Len(h) \in 1..16
<1>1. Len(h) \in 1..16 /\ \A i \in 1..Len(h) : ValidEntry(h[i])
  BY DEF IsValid, ValidRecord
<1>2. PICK n \in 1..16 : n = Len(h)
  BY <1>1
<1>3. n \in 1..n
  OBVIOUS
<1>4. Len(h) \in 1..Len(h)
  BY <1>2, <1>3
<1>q. QED BY <1>1, <1>4 DEF LastEntry

\* A history one entry longer.
LEMMA Lengthened ==
  ASSUME NEW h \in Seq(Entry), NEW e \in Entry
  PROVE  /\ Append(h, e) \in Seq(Entry) /\ Len(Append(h, e)) = Len(h) + 1
         /\ LastEntry(Append(h, e)) = e /\ SubSeq(Append(h, e), 1, Len(h)) = h
         /\ \A i \in 1..Len(h) : Append(h, e)[i] = h[i]
<1> DEFINE a == Append(h, e)
<1>1. /\ a \in Seq(Entry) /\ Len(a) = Len(h) + 1 /\ Len(h) \in Nat
      /\ a[Len(h) + 1] = e /\ \A i \in 1..Len(h) : a[i] = h[i]
  OBVIOUS
<1> HIDE DEF a
<1>2. /\ SubSeq(a, 1, Len(h)) \in Seq(Entry)
      /\ Len(SubSeq(a, 1, Len(h))) = IF 1 <= Len(h) THEN Len(h) - 1 + 1 ELSE 0
      /\ \A i \in 1..(Len(h) - 1 + 1) : SubSeq(a, 1, Len(h))[i] = a[1 + i - 1]
  <2>1. \A i \in 1..Len(h) : a[i] \in Entry
    BY <1>1
  <2>q. QED BY <1>1, <2>1, SubSeqProperties
<1>3. SubSeq(a, 1, Len(h)) = h
  BY <1>1, <1>2, SeqEqual
<1>q. QED BY <1>1, <1>3 DEF LastEntry, a

\* One that is valid is valid with a valid successor, until it is full.
LEMMA LengthenedIsValid ==
  ASSUME NEW h \in Seq(Entry), NEW e \in Entry, IsValid(h), ValidEntry(e), Succeeds(LastEntry(h), e),
         Len(Append(h, e)) <= 16
  PROVE  IsValid(Append(h, e))
<1> DEFINE a == Append(h, e)
<1>1. /\ Len(h) \in 1..16 /\ h[1] = Reservation /\ \A i \in 1..Len(h) : ValidEntry(h[i])
      /\ \A i \in 1..(Len(h) - 1) : Succeeds(h[i], h[i + 1])
  BY DEF IsValid, ValidRecord, Succeeds
<1>2. /\ Len(a) = Len(h) + 1 /\ a[Len(h) + 1] = e /\ \A i \in 1..Len(h) : a[i] = h[i]
  BY <1>1
<1> HIDE DEF a
<1>3. Len(a) \in 1..16 /\ a[1] = Reservation
  <2>1. 1 \in 1..Len(h)
    BY <1>1
  <2>2. Len(a) <= 16
    BY DEF a
  <2>q. QED BY <1>1, <1>2, <2>1, <2>2
<1>4. \A i \in 1..Len(a) : ValidEntry(a[i])
  <2> SUFFICES ASSUME NEW i \in 1..Len(a) PROVE ValidEntry(a[i])
    OBVIOUS
  <2>1. i \in 1..Len(h) \/ i = Len(h) + 1
    BY <1>1, <1>2
  <2>q. QED BY <1>1, <1>2, <2>1
<1>5. \A i \in 1..(Len(a) - 1) : Succeeds(a[i], a[i + 1])
  <2> SUFFICES ASSUME NEW i \in 1..(Len(a) - 1) PROVE Succeeds(a[i], a[i + 1])
    OBVIOUS
  <2>1. \/ i \in 1..(Len(h) - 1) /\ i \in 1..Len(h) /\ i + 1 \in 1..Len(h)
        \/ i = Len(h) /\ i \in 1..Len(h)
    BY <1>1, <1>2
  <2>2. CASE i = Len(h) /\ i \in 1..Len(h)
    BY <1>2, <2>2 DEF LastEntry
  <2>q. QED BY <1>1, <1>2, <2>1, <2>2
<1>6. IsValid(a)
  BY <1>3, <1>4, <1>5 DEF IsValid, ValidRecord, Succeeds
<1>q. QED BY <1>6 DEF a

\* A history that was lengthened is no longer a reservation.
LEMMA AttemptIsNotReserved ==
  ASSUME NEW h \in Seq(Entry), IsValid(h), Len(h) > 1
  PROVE  LastEntry(h).phase # "RESERVED" /\ h # <<Reservation>>
<1>1. PICK n \in 2..16 : n = Len(h)
  BY DEF IsValid, ValidRecord
<1>2. n - 1 \in 1..(n - 1) /\ (n - 1) + 1 = n /\ n - 1 \in 1..n /\ n \in 1..n
  BY <1>1
<1>3. Succeeds(h[n - 1], h[n])
  <2>1. \A i \in 1..(n - 1) : Succeeds(h[i], h[i + 1])
    BY <1>1 DEF IsValid, ValidRecord, Succeeds
  <2>q. QED BY <1>2, <2>1
<1>4. h[n - 1] \in Entry /\ LastEntry(h) = h[n]
  BY <1>1, <1>2 DEF LastEntry
<1>5. h[n].phase # "RESERVED"
  BY <1>3, <1>4 DEF Succeeds, ValidSuccessor, Edges, Entry, Phases
<1>6. h # <<Reservation>>
  <2>1. n # 1
    BY <1>1
  <2>q. QED BY <1>1, <2>1, ReservationFacts
<1>q. QED BY <1>4, <1>5, <1>6

-----------------------------------------------------------------------------
(* The invariant                                                           *)

LookupSteps == {"lookup", "save_idem", "save_ledger", "reload"}
PortfolioSteps == {"positions", "orders", "clock"}
Running == step \in LookupSteps \cup PortfolioSteps

Typed ==
  /\ idem \in Histories /\ ledger \in Histories /\ rows \in Histories
  /\ step \in {"down", "entering"} \cup LookupSteps \cup PortfolioSteps
  /\ cycle \in 1..MaxCycles /\ target \in Target
  /\ open \subseteq Target /\ result \in Results /\ net \subseteq Target
  /\ order \in [Target -> Orders]

\* The lock is held while a run is under way; each run has spent a claim of its own.
RunsAreClaimed ==
  /\ dirLock \in {"free", "held", "left"}
  /\ dirLock = "held" <=> step # "down"
  /\ IsFiniteSet(claims) /\ runs = Cardinality(claims)

\* What the broker has can be recorded, and an order is there once.
OrdersAreReal ==
  \A t \in Target : /\ order[t] = NoOrder \/ IsOrder(order[t])
                    /\ t \in net => order[t] = NoOrder

\* What an attempt says of a target: the first i were attempted, the others not.
AttemptedTo(f, i) ==
  \A t \in Target : /\ t <= i => Len(f[t]) > 1
                    /\ t > i => f[t] = <<Reservation>>

\* Records that the broker justifies and the validator accepts.
RecordsAreGood(f, o) == \A t \in Target : IsValid(f[t]) /\ Follows(LastEntry(f[t]), o[t])

\* One commit at the most has reached the first file and not the second.
TrailsAt(f, l, j) ==
  /\ \A t \in Target : t # j => l[t] = f[t]
  /\ l[j] = f[j] \/ (l[j] = Cut(f[j]) /\ Len(f[j]) > 1)
FilesTrail(f, l) == \E j \in Target : TrailsAt(f, l, j)

DiskOk(f, l, o) ==
  /\ \E i \in Target : AttemptedTo(f, i)
  /\ RecordsAreGood(f, o)
  /\ FilesTrail(f, l)
DiskInv == DiskOk(idem, ledger, order)

\* The records of the run are what the files hold, but for the one under commit.
RowsInv ==
  /\ RecordsAreGood(rows, order)
  /\ ~Running => rows = OnlyReserved /\ cycle = 1 /\ target = 1
  /\ Running =>
       /\ idem = IF step \in {"save_ledger", "reload"} THEN With(rows) ELSE rows
       /\ ledger = IF step = "reload" THEN With(rows) ELSE rows
       /\ \E i \in Target : AttemptedTo(rows, i) /\ (step \in LookupSteps => target <= i)

\* The record under commit is the target's, with what the broker answered at its end.
NextInv ==
  step \in LookupSteps \ {"lookup"} =>
    \E e \in Entry : /\ next = Append(rows[target], e)
                     /\ ValidEntry(e) /\ Succeeds(Last(target), e) /\ Follows(e, order[target])
                     /\ step \in {"save_ledger", "reload"} => IsValid(next)

\* What was reported as reconciled still is.
ReportInv ==
  /\ step # "down" => result # "reconciled"
  /\ ReconciledMeansFlat

OversightInv ==
  Typed /\ RunsAreClaimed /\ OrdersAreReal /\ DiskInv /\ RowsInv /\ NextInv /\ ReportInv

LEMMA OnlyReservedIsGood ==
  /\ OnlyReserved \in Histories
  /\ \A o \in [Target -> Orders] : RecordsAreGood(OnlyReserved, o)
BY ReservationFacts DEF OnlyReserved, Histories, RecordsAreGood

LEMMA InitOversight == Init => OversightInv
<1> SUFFICES ASSUME Init PROVE OversightInv
  OBVIOUS
<1>1. PICK i \in Target, h \in OpenHistories \cup ClosedHistories, closed \in ClosedHistories :
        /\ idem = [t \in Target |-> IF t < i THEN closed ELSE IF t = i THEN h ELSE <<Reservation>>]
        /\ \E torn \in BOOLEAN :
             ledger = IF torn THEN [idem EXCEPT ![i] = SubSeq(h, 1, Len(h) - 1)] ELSE idem
        /\ \E o \in Orders :
             /\ o = NoOrder \/ ValidEntry(Entered("OBSERVED", o))
             /\ order = [t \in Target |-> IF t < i THEN [status |-> "filled", filled |-> Qty]
                                          ELSE IF t = i THEN o ELSE NoOrder]
             /\ net \in {{}, IF o = NoOrder THEN {i} ELSE {}}
  BY Zenon DEF Init
<1>2. PICK o \in Orders :
             /\ o = NoOrder \/ ValidEntry(Entered("OBSERVED", o))
             /\ order = [t \in Target |-> IF t < i THEN FilledOrder
                                          ELSE IF t = i THEN o ELSE NoOrder]
             /\ net \in {{}, IF o = NoOrder THEN {i} ELSE {}}
  BY <1>1 DEF FilledOrder
<1>3. /\ h \in Seq(Entry) /\ Len(h) \in 2..4 /\ IsValid(h)
      /\ closed \in Seq(Entry) /\ Len(closed) \in 2..4 /\ IsValid(closed)
      /\ LastEntry(closed) = Entered("FLAT_RECONCILED", FilledOrder)
  <2>1. 4 \in 2..4
    OBVIOUS
  <2>q. QED BY <2>1, ClosedFacts, OpenFacts
<1>4. NoOrder \in Orders /\ FilledOrder \in Orders /\ IsOrder(FilledOrder)
  BY QtyAssumption DEF NoOrder, FilledOrder, Orders, Statuses, IsOrder, ValidEntry, Entered
<1>5. order \in [Target -> Orders] /\ net \subseteq Target
  BY <1>2, <1>4
<1>6. OrdersAreReal
  <2>1. \A t \in Target : order[t] = NoOrder \/ IsOrder(order[t])
    BY <1>2, <1>4 DEF IsOrder
  <2>2. \A t \in Target : t \in net => t = i /\ order[t] = NoOrder
    <3>1. i < i => FALSE
      BY OversightAssumption DEF Target
    <3>q. QED BY <1>2, <3>1
  <2>q. QED BY <2>1, <2>2 DEF OrdersAreReal
<1>7. idem \in Histories /\ ledger \in Histories /\ rows = OnlyReserved
  <2>1. idem \in Histories
    BY <1>1, <1>3, ReservationFacts DEF Histories
  <2>2. PICK torn \in BOOLEAN : ledger = IF torn THEN [idem EXCEPT ![i] = SubSeq(h, 1, Len(h) - 1)] ELSE idem
    BY <1>1
  <2>3. PICK n \in 2..4 : n = Len(h)
    BY <1>3
  <2>4. n - 1 \in 1..n /\ 1..(n - 1) \subseteq 1..n
    BY <2>3
  <2>5. SubSeq(h, 1, Len(h) - 1) \in Seq(Entry)
    <3>1. \A k \in 1..(n - 1) : h[k] \in Entry
      BY <1>3, <2>3, <2>4
    <3>q. QED BY <2>3, <2>4, <3>1, SubSeqProperties
  <2>6. ledger \in Histories
    BY <2>1, <2>2, <2>5 DEF Histories
  <2>q. QED BY <2>1, <2>6 DEF Init, OnlyReserved
<1>8. Typed
  <2>1. 1 \in 1..MaxCycles /\ 1 \in Target
    BY OversightAssumption DEF Target
  <2>2. rows \in Histories
    BY <1>7, OnlyReservedIsGood
  <2>3. /\ step = "down" /\ cycle = 1 /\ target = 1 /\ open = {} /\ result = "none"
    BY DEF Init
  <2>q. QED BY <1>5, <1>7, <2>1, <2>2, <2>3 DEF Typed, Results
<1>9. RunsAreClaimed
  <2>1. claims = {} /\ runs = 0 /\ step = "down" /\ dirLock \in {"free", "left"}
    BY DEF Init
  <2>q. QED BY <2>1, FS_EmptySet DEF RunsAreClaimed
<1>10. DiskInv
  <2>1. AttemptedTo(idem, i)
    <3>1. \A t \in Target : /\ t <= i => idem[t] = closed \/ idem[t] = h
                            /\ t > i => idem[t] = <<Reservation>>
      <4>1. \A t \in Target : /\ t <= i => t < i \/ t = i
                              /\ t > i => ~(t < i) /\ t # i
        BY OversightAssumption DEF Target
      <4>q. QED BY <1>1, <4>1
    <3>2. Len(h) > 1 /\ Len(closed) > 1
      <4>1. \A n \in 2..4 : n > 1
        OBVIOUS
      <4>q. QED BY <1>3, <4>1
    <3>3. ASSUME NEW t \in Target, t <= i PROVE Len(idem[t]) > 1
      <4>1. CASE idem[t] = closed
        BY <3>2, <4>1
      <4>2. CASE idem[t] = h
        BY <3>2, <4>2
      <4>q. QED BY <3>1, <3>3, <4>1, <4>2
    <3>q. QED BY <3>1, <3>3 DEF AttemptedTo
  <2>2. RecordsAreGood(idem, order)
    <3>1. PICK k \in DOMAIN idem :
            /\ \A t \in DOMAIN idem : t < k => idem[t] \in ClosedHistories /\ order[t] = FilledOrder
            /\ Justified(idem[k], order[k])
            /\ \A t \in DOMAIN idem : t > k => idem[t] = <<Reservation>>
      BY Zenon DEF Init, HandedOver, FilledOrder
    <3>2. DOMAIN idem = Target
      BY <1>1
    <3>3. ASSUME NEW t \in Target PROVE IsValid(idem[t])
      BY <1>1, <1>3, ReservationFacts
    <3>4. ASSUME NEW t \in Target PROVE Follows(LastEntry(idem[t]), order[t])
      <4>1. t < k \/ t = k \/ t > k
        BY <3>2, OversightAssumption DEF Target
      <4>2. CASE t < k
        <5>1. LastEntry(idem[t]) = Entered("FLAT_RECONCILED", FilledOrder) /\ order[t] = FilledOrder
          BY <3>1, <3>2, <4>2, ClosedFacts
        <5>q. QED BY <5>1, QtyAssumption DEF Follows, Entered, FilledOrder, NoOrder, TerminalStatuses
      <4>3. CASE t = k
        BY <3>1, <4>3 DEF Justified, Follows
      <4>4. CASE t > k
        BY <1>5, <3>1, <3>2, <4>4, ReservationFacts
      <4>q. QED BY <4>1, <4>2, <4>3, <4>4
    <3>q. QED BY <3>3, <3>4 DEF RecordsAreGood
  <2>3. TrailsAt(idem, ledger, i)
    <3>1. PICK torn \in BOOLEAN : ledger = IF torn THEN [idem EXCEPT ![i] = SubSeq(h, 1, Len(h) - 1)] ELSE idem
      BY <1>1
    <3>2. idem[i] = h /\ i \in DOMAIN idem
      <4>1. ~(i < i)
        BY OversightAssumption DEF Target
      <4>q. QED BY <1>1, <4>1
    <3>3. Len(h) > 1
      <4>1. \A n \in 2..4 : n > 1
        OBVIOUS
      <4>q. QED BY <1>3, <4>1
    <3>4. CASE torn = TRUE
      BY <1>1, <3>1, <3>2, <3>3, <3>4 DEF TrailsAt, Cut
    <3>5. CASE torn = FALSE
      BY <3>1, <3>5 DEF TrailsAt
    <3>q. QED BY <3>4, <3>5
  <2>q. QED BY <2>1, <2>2, <2>3 DEF DiskInv, DiskOk, FilesTrail
<1>11. RowsInv /\ NextInv
  <2>1. ~Running /\ step \notin LookupSteps
    BY DEF Init, Running, LookupSteps, PortfolioSteps
  <2>2. RecordsAreGood(rows, order)
    BY <1>5, <1>7, OnlyReservedIsGood
  <2>3. cycle = 1 /\ target = 1
    BY DEF Init
  <2>q. QED BY <1>7, <2>1, <2>2, <2>3 DEF RowsInv, NextInv
<1>12. ReportInv
  BY DEF Init, ReportInv, ReconciledMeansFlat
<1>q. QED BY <1>6, <1>8, <1>9, <1>10, <1>11, <1>12 DEF OversightInv

-----------------------------------------------------------------------------
(* The steps that leave the broker alone                                   *)

LEMMA OversightKept ==
  ASSUME OversightInv,
         UNCHANGED <<idem, ledger, dirLock, claims, step, cycle, target, rows, next, open,
                     result, net, order, runs>>
  PROVE  OversightInv'
<1>1. Typed' /\ RunsAreClaimed' /\ OrdersAreReal'
  BY DEF OversightInv, Typed, RunsAreClaimed, OrdersAreReal, Histories, LookupSteps, PortfolioSteps
<1>2. DiskInv' /\ ReportInv'
  BY DEF OversightInv, DiskInv, ReportInv, ReconciledMeansFlat
<1>3. RowsInv'
  BY DEF OversightInv, RowsInv, Running, With, LookupSteps, PortfolioSteps
<1>4. NextInv'
  BY DEF OversightInv, NextInv, Last, LookupSteps
<1>q. QED BY <1>1, <1>2, <1>3, <1>4 DEF OversightInv

\* The end of a run, whatever it did to the files.
LEMMA EndKeeps ==
  ASSUME OversightInv, NEW how \in Results, Down(how), dirLock' \in {"free", "left"},
         UNCHANGED <<claims, runs, net, order>>,
         idem' \in Histories, ledger' \in Histories, DiskInv',
         how = "reconciled" => ReconciledMeansFlat'
  PROVE  OversightInv'
<1>1. /\ step' = "down" /\ cycle' = 1 /\ target' = 1 /\ open' = {} /\ result' = how
      /\ rows' = OnlyReserved
  BY DEF Down, OnlyReserved
<1>2. Typed /\ RunsAreClaimed /\ OrdersAreReal
  BY DEF OversightInv
<1>3. 1 \in 1..MaxCycles /\ 1 \in Target
  BY OversightAssumption DEF Target
<1>4. Typed'
  BY <1>1, <1>2, <1>3, OnlyReservedIsGood DEF Typed
<1>5. RunsAreClaimed'
  BY <1>1, <1>2 DEF RunsAreClaimed
<1>6. OrdersAreReal'
  BY <1>2 DEF OrdersAreReal
<1>7. RowsInv' /\ NextInv'
  <2>1. RecordsAreGood(OnlyReserved, order')
    BY <1>4, OnlyReservedIsGood DEF Typed
  <2>2. ~Running' /\ step' \notin LookupSteps
    BY <1>1 DEF Running, LookupSteps, PortfolioSteps
  <2>q. QED BY <1>1, <2>1, <2>2 DEF RowsInv, NextInv
<1>8. ReportInv'
  <2>1. CASE how = "reconciled"
    BY <1>1, <2>1 DEF ReportInv
  <2>2. CASE how # "reconciled"
    BY <1>1, <2>2 DEF ReportInv, ReconciledMeansFlat
  <2>q. QED BY <2>1, <2>2
<1>q. QED BY <1>4, <1>5, <1>6, <1>7, <1>8 DEF OversightInv

\* Every way to stop that leaves the files alone.
LEMMA ThrowKeeps ==
  ASSUME OversightInv, Throw, UNCHANGED <<stores, outside, broker>>
  PROVE  OversightInv'
<1>1. Down("failed") /\ dirLock' \in {"free", "left"} /\ "failed" \in Results
  BY DEF Throw, Results
<1>2. idem' \in Histories /\ ledger' \in Histories /\ DiskInv'
  BY DEF OversightInv, Typed, DiskInv, Histories, stores, broker
<1>3. UNCHANGED <<claims, runs, net, order>>
  BY DEF outside, broker
<1>q. QED BY <1>1, <1>2, <1>3, EndKeeps

LEMMA EnterStoresKeeps ==
  ASSUME OversightInv, EnterStores
  PROVE  OversightInv'
<1>1. /\ step = "down" /\ dirLock' = "held" /\ step' = "entering" /\ result' = "none"
      /\ UNCHANGED <<idem, ledger, claims, runs, cycle, target, rows, next, open, net, order>>
  BY DEF EnterStores, stores, outside, loop, broker
<1>2. Typed' /\ RunsAreClaimed' /\ OrdersAreReal'
  BY <1>1 DEF OversightInv, Typed, RunsAreClaimed, OrdersAreReal, Histories, Results
<1>3. DiskInv'
  BY <1>1 DEF OversightInv, DiskInv
<1>4. RowsInv' /\ NextInv'
  <2>1. /\ ~Running /\ ~Running'
        /\ step' \notin LookupSteps
    BY <1>1 DEF Running, LookupSteps, PortfolioSteps
  <2>q. QED BY <1>1, <2>1 DEF OversightInv, RowsInv, NextInv
<1>5. ReportInv'
  BY <1>1 DEF ReportInv, ReconciledMeansFlat
<1>q. QED BY <1>2, <1>3, <1>4, <1>5 DEF OversightInv

LEMMA ClearedLockKeeps ==
  ASSUME OversightInv, OperatorClearsLock
  PROVE  OversightInv'
<1>1. /\ dirLock = "left" /\ dirLock' = "free"
      /\ UNCHANGED <<idem, ledger, claims, step, cycle, target, rows, next, open, result, net, order, runs>>
  BY DEF OperatorClearsLock, stores, outside, loop, broker
<1>2. Typed' /\ RunsAreClaimed' /\ OrdersAreReal'
  BY <1>1 DEF OversightInv, Typed, RunsAreClaimed, OrdersAreReal, Histories, LookupSteps, PortfolioSteps
<1>3. DiskInv' /\ ReportInv'
  BY <1>1 DEF OversightInv, DiskInv, ReportInv, ReconciledMeansFlat
<1>4. RowsInv'
  BY <1>1 DEF OversightInv, RowsInv, Running, With, LookupSteps, PortfolioSteps
<1>5. NextInv'
  BY <1>1 DEF OversightInv, NextInv, Last, LookupSteps
<1>q. QED BY <1>2, <1>3, <1>4, <1>5 DEF OversightInv

LEMMA ClaimKeeps ==
  ASSUME OversightInv, Claim
  PROVE  OversightInv'
<1>1. /\ step = "entering" /\ idem = ledger /\ authority \notin claims
      /\ claims' = claims \cup {authority} /\ runs' = runs + 1 /\ rows' = ledger /\ step' = "lookup"
      /\ UNCHANGED <<idem, ledger, dirLock, cycle, target, next, open, result, net, order>>
  BY DEF Claim, Admitted, stores, broker
<1>2. Typed'
  BY <1>1 DEF OversightInv, Typed, Histories, LookupSteps
<1>3. RunsAreClaimed'
  <2>1. /\ dirLock = "held" /\ IsFiniteSet(claims) /\ runs = Cardinality(claims)
    BY <1>1 DEF OversightInv, RunsAreClaimed
  <2>2. IsFiniteSet(claims') /\ Cardinality(claims') = Cardinality(claims) + 1
    BY <1>1, <2>1, FS_AddElement
  <2>q. QED BY <1>1, <2>1, <2>2 DEF RunsAreClaimed
<1>4. OrdersAreReal' /\ DiskInv' /\ NextInv'
  BY <1>1 DEF OversightInv, OrdersAreReal, DiskInv, NextInv, LookupSteps
<1>5. ReportInv'
  <2>1. result' # "reconciled"
    BY <1>1 DEF OversightInv, ReportInv
  <2>q. QED BY <2>1 DEF ReportInv, ReconciledMeansFlat
<1>6. RowsInv'
  <2>1. ~Running /\ Running' /\ step' \in LookupSteps
    BY <1>1 DEF Running, LookupSteps, PortfolioSteps
  <2>2. target' = 1
    BY <1>1, <2>1 DEF OversightInv, RowsInv
  <2>3. RecordsAreGood(rows', order')
    BY <1>1 DEF OversightInv, DiskInv, DiskOk
  <2>4. PICK i \in Target : AttemptedTo(rows', i)
    BY <1>1 DEF OversightInv, DiskInv, DiskOk
  <2>5. target' <= i
    BY <2>2, OversightAssumption DEF Target
  <2>6. idem' = rows' /\ ledger' = rows'
    BY <1>1
  <2>q. QED BY <1>1, <2>1, <2>3, <2>4, <2>5, <2>6 DEF RowsInv
<1>q. QED BY <1>2, <1>3, <1>4, <1>5, <1>6 DEF OversightInv

-----------------------------------------------------------------------------
(* The loop over the attempted exits                                       *)

\* The attempted exits of a run are the first ones.
LEMMA AttemptedAreFirst ==
  ASSUME NEW i \in Target, AttemptedTo(rows, i), rows \in Histories
  PROVE  Attempted = {t \in Target : t <= i}
<1>1. ASSUME NEW t \in Target PROVE t <= i <=> rows[t] # <<Reservation>>
  <2>1. t <= i \/ t > i
    BY OversightAssumption DEF Target
  <2>2. ~(1 > 1)
    OBVIOUS
  <2>3. Len(<<Reservation>>) = 1
    BY ReservationFacts
  <2>4. ~(t <= i /\ t > i)
    BY OversightAssumption DEF Target
  <2>q. QED BY <2>1, <2>2, <2>3, <2>4 DEF AttemptedTo
<1>q. QED BY <1>1 DEF Attempted, Reserved

LEMMA AdvanceStays ==
  ASSUME Advance, NEW i \in Target, AttemptedTo(rows, i), rows \in Histories, target \in Target
  PROVE  \/ step' = "positions" /\ target' = 1
         \/ step' = "lookup" /\ target' \in Target /\ target' <= i
<1> DEFINE rest == {t \in Attempted : t > target}
<1>1. CASE rest = {}
  BY <1>1 DEF Advance
<1>2. CASE rest # {}
  <2>1. \A t : t \in rest <=> t \in Target /\ t <= i /\ t > target
    BY AttemptedAreFirst
  <2>2. PICK t \in Target : t <= i /\ t > target
    BY <1>2, <2>1
  <2>3. PICK n : n = target + 1
    OBVIOUS
  <2>4. n \in Target /\ n <= i /\ n > target /\ \A u \in Target : u > target => n <= u
    BY <2>2, <2>3, OversightAssumption DEF Target
  <2>5. n \in rest /\ \A u \in rest : n <= u
    BY <2>1, <2>4
  <2>6. PICK m : m = CHOOSE x \in rest : \A u \in rest : x <= u
    OBVIOUS
  <2>7. m \in rest
    BY <2>5, <2>6
  <2>8. step' = "lookup" /\ target' = m
    BY <1>2, <2>6 DEF Advance
  <2>q. QED BY <2>1, <2>7, <2>8
<1>q. QED BY <1>1, <1>2

LEMMA FirstIsAttempted ==
  ASSUME NEW i \in Target, AttemptedTo(rows, i), rows \in Histories
  PROVE  First \in Target /\ First <= i
<1>1. \A t : t \in Attempted <=> t \in Target /\ t <= i
  BY AttemptedAreFirst
<1>2. 1 \in Target /\ 1 <= i /\ \A u \in Target : 1 <= u
  BY OversightAssumption DEF Target
<1>3. 1 \in Attempted /\ \A u \in Attempted : 1 <= u
  BY <1>1, <1>2
<1>4. First \in Attempted
  BY <1>3 DEF First
<1>q. QED BY <1>1, <1>4

\* What holds of the run while the loop is between two commits.
LEMMA BetweenCommits ==
  ASSUME OversightInv, step \in {"lookup"} \cup PortfolioSteps
  PROVE  /\ idem = rows /\ ledger = rows
         /\ \E i \in Target : AttemptedTo(rows, i) /\ (step = "lookup" => target <= i)
<1>1. Running /\ step \notin {"save_ledger", "reload"} /\ (step = "lookup" => step \in LookupSteps)
  BY DEF Running, LookupSteps, PortfolioSteps
<1>2. RowsInv
  BY DEF OversightInv
<1>q. QED BY <1>1, <1>2 DEF RowsInv

LEMMA LookupUnchangedKeeps ==
  ASSUME OversightInv, LookupUnchanged
  PROVE  OversightInv'
<1>1. /\ step = "lookup" /\ Advance
      /\ UNCHANGED <<idem, ledger, dirLock, claims, runs, cycle, rows, next, open, result, net, order>>
  BY DEF LookupUnchanged, stores, outside, broker
<1>2. Typed /\ RowsInv
  BY DEF OversightInv
<1>3. PICK i \in Target : AttemptedTo(rows, i)
  BY <1>1, BetweenCommits
<1>4. \/ step' = "positions" /\ target' = 1
      \/ step' = "lookup" /\ target' \in Target /\ target' <= i
  BY <1>1, <1>2, <1>3, AdvanceStays DEF Typed
<1>5. 1 \in Target
  BY OversightAssumption DEF Target
<1>6. Typed' /\ RunsAreClaimed' /\ OrdersAreReal'
  BY <1>1, <1>4, <1>5
     DEF OversightInv, Typed, RunsAreClaimed, OrdersAreReal, Histories, LookupSteps, PortfolioSteps
<1>7. DiskInv' /\ ReportInv'
  BY <1>1, <1>4 DEF OversightInv, DiskInv, ReportInv, ReconciledMeansFlat
<1>8. RowsInv'
  <2>1. Running' /\ step' \notin {"save_ledger", "reload"} /\ (step' \in LookupSteps => step' = "lookup")
    BY <1>4 DEF Running, LookupSteps, PortfolioSteps
  <2>2. idem' = rows' /\ ledger' = rows'
    BY <1>1, BetweenCommits
  <2>3. RecordsAreGood(rows', order')
    BY <1>1, <1>2 DEF RowsInv
  <2>4. AttemptedTo(rows', i) /\ (step' \in LookupSteps => target' <= i)
    BY <1>1, <1>3, <1>4, <2>1
  <2>q. QED BY <2>1, <2>2, <2>3, <2>4 DEF RowsInv
<1>9. NextInv'
  BY <1>4 DEF NextInv, LookupSteps
<1>q. QED BY <1>6, <1>7, <1>8, <1>9 DEF OversightInv

LEMMA LookupChangedKeeps ==
  ASSUME OversightInv, LookupChanged
  PROVE  OversightInv'
<1>1. /\ step = "lookup" /\ Acceptable(order[target]) /\ Last(target).phase # "FLAT_RECONCILED"
      /\ next' = Append(rows[target], Entered("STOPPED", order[target])) /\ step' = "save_idem"
      /\ UNCHANGED <<idem, ledger, dirLock, claims, runs, cycle, target, rows, open, result, net, order>>
  BY DEF LookupChanged, Observed, stores, outside, broker
<1>2. Typed /\ RowsInv /\ OrdersAreReal
  BY DEF OversightInv
<1>3. PICK i \in Target : AttemptedTo(rows, i) /\ target <= i
  BY <1>1, BetweenCommits
<1>4. Typed' /\ RunsAreClaimed' /\ OrdersAreReal'
  BY <1>1 DEF OversightInv, Typed, RunsAreClaimed, OrdersAreReal, Histories, LookupSteps
<1>5. DiskInv' /\ ReportInv'
  BY <1>1 DEF OversightInv, DiskInv, ReportInv, ReconciledMeansFlat
<1>6. RowsInv'
  <2>1. Running' /\ step' \notin {"save_ledger", "reload"}
    BY <1>1 DEF Running, LookupSteps
  <2>2. idem' = rows' /\ ledger' = rows'
    BY <1>1, BetweenCommits
  <2>3. RecordsAreGood(rows', order')
    BY <1>1, <1>2 DEF RowsInv
  <2>4. AttemptedTo(rows', i) /\ target' <= i
    BY <1>1, <1>3
  <2>q. QED BY <2>1, <2>2, <2>3, <2>4 DEF RowsInv
<1>7. NextInv'
  <2>1. PICK o : o = order[target]
    OBVIOUS
  <2>2. IsOrder(o)
    BY <1>1, <1>2, <2>1 DEF Acceptable, OrdersAreReal, Typed
  <2>3. PICK e : e = Entered("STOPPED", o)
    OBVIOUS
  <2>4. /\ e \in Entry /\ e.phase = "STOPPED" /\ e.status = o.status /\ e.filled = o.filled
    BY <2>2, <2>3 DEF Entered, IsOrder, Orders, Entry, Phases
  <2>5. ValidEntry(e)
    BY <2>2, <2>4 DEF IsOrder, ValidEntry, Entered
  <2>6. Follows(e, o)
    <3>1. o.filled \in Nat
      BY <2>2, QtyAssumption DEF IsOrder, Orders
    <3>q. QED BY <2>2, <2>4, <3>1 DEF Follows, IsOrder
  <2>7. PICK p : p = Last(target)
    OBVIOUS
  <2>8. p \in Entry /\ p.phase # "RESERVED" /\ p.phase # "FLAT_RECONCILED"
    <3>1. rows[target] \in Seq(Entry) /\ IsValid(rows[target]) /\ Len(rows[target]) > 1
      BY <1>2, <1>3 DEF Typed, Histories, RowsInv, RecordsAreGood, AttemptedTo
    <3>q. QED BY <1>1, <2>7, <3>1, LastIsValid, AttemptIsNotReserved DEF Last
  <2>9. Succeeds(p, e)
    <3>1. "STOPPED" \in Edges[p.phase]
      BY <2>8 DEF Edges, Entry, Phases
    <3>2. e.filled >= p.filled /\ (p.status \in TerminalStatuses => e.status = p.status)
      BY <1>1, <2>1, <2>4, <2>7 DEF Acceptable
    <3>q. QED BY <2>4, <3>1, <3>2 DEF Succeeds, ValidSuccessor
  <2>10. next' = Append(rows[target], e)
    BY <1>1, <2>1, <2>3
  <2>11. Last(target)' = p
    BY <1>1, <2>7 DEF Last
  <2>12. step' \notin {"save_ledger", "reload"}
    BY <1>1
  <2>q. QED
    <3>1. next' = Append(rows[target]', e) /\ order[target]' = o
      BY <1>1, <2>1, <2>10
    <3>q. QED BY <2>4, <2>5, <2>6, <2>9, <2>11, <2>12, <3>1 DEF NextInv
<1>q. QED BY <1>4, <1>5, <1>6, <1>7 DEF OversightInv

-----------------------------------------------------------------------------
(* The commit of one record to two files                                   *)

\* The stores with the record under commit are as good as those without it.
LEMMA CommitFacts ==
  ASSUME OversightInv, step \in LookupSteps \ {"lookup"}, IsValid(next), NEW W, W = With(rows)
  PROVE  /\ W \in Histories /\ W[target] = next /\ next \in Seq(Entry) /\ With(W) = W
         /\ RecordsAreGood(W, order)
         /\ \A i \in Target : target <= i /\ AttemptedTo(rows, i) => AttemptedTo(W, i)
         /\ DiskOk(W, rows, order) /\ DiskOk(W, W, order) /\ DiskOk(rows, rows, order)
<1>1. Typed /\ RowsInv /\ NextInv
  BY DEF OversightInv
<1>2. rows \in Histories /\ target \in Target
  BY <1>1 DEF Typed
<1>3. PICK e \in Entry : /\ next = Append(rows[target], e) /\ Follows(e, order[target])
  BY <1>1 DEF NextInv
<1>4. PICK h \in Seq(Entry) : h = rows[target]
  BY <1>2 DEF Histories
<1>5. /\ next \in Seq(Entry) /\ Len(next) = Len(h) + 1 /\ LastEntry(next) = e
      /\ SubSeq(next, 1, Len(h)) = h
  BY <1>3, <1>4, Lengthened
<1>6. W \in Histories /\ W[target] = next /\ \A t \in Target : t # target => W[t] = rows[t]
  BY <1>2, <1>5 DEF With, Histories
<1>7. With(W) = W
  BY <1>2, <1>6 DEF With, Histories
<1>8. RecordsAreGood(rows, order)
  BY <1>1 DEF RowsInv
<1>9. RecordsAreGood(W, order)
  BY <1>3, <1>5, <1>6, <1>8 DEF RecordsAreGood
<1>10. Len(h) \in 1..16 /\ Len(next) > 1 /\ Cut(next) = h
  <2>1. Len(h) \in 1..16
    BY <1>2, <1>4, <1>8 DEF RecordsAreGood, IsValid, ValidRecord
  <2>2. PICK n \in 1..16 : n = Len(h)
    BY <2>1
  <2>3. n + 1 > 1 /\ n + 1 - 1 = n
    BY <2>2
  <2>4. Len(next) = n + 1
    BY <1>5, <2>2
  <2>5. Len(next) - 1 = Len(h) /\ Len(next) > 1
    BY <2>2, <2>3, <2>4
  <2>6. Cut(next) = h
    BY <1>5, <2>5 DEF Cut
  <2>q. QED BY <2>1, <2>5, <2>6
<1>11. ASSUME NEW i \in Target, target <= i, AttemptedTo(rows, i) PROVE AttemptedTo(W, i)
  <2>1. ~(target > i)
    BY <1>2, <1>11, OversightAssumption DEF Target
  <2>q. QED BY <1>6, <1>10, <1>11, <2>1 DEF AttemptedTo
<1>12. PICK i \in Target : AttemptedTo(rows, i) /\ target <= i
  <2>1. Running
    BY DEF Running
  <2>q. QED BY <1>1, <2>1 DEF RowsInv
<1>13. FilesTrail(W, rows) /\ FilesTrail(W, W) /\ FilesTrail(rows, rows)
  <2>1. TrailsAt(W, rows, target)
    BY <1>4, <1>6, <1>10 DEF TrailsAt
  <2>2. TrailsAt(W, W, target) /\ TrailsAt(rows, rows, target)
    BY DEF TrailsAt
  <2>q. QED BY <1>2, <2>1, <2>2 DEF FilesTrail
<1>q. QED BY <1>5, <1>6, <1>7, <1>8, <1>9, <1>11, <1>12, <1>13 DEF DiskOk

LEMMA SaveIdempotencyKeeps ==
  ASSUME OversightInv, SaveIdempotency
  PROVE  OversightInv'
<1>1. /\ step = "save_idem" /\ IsValid(next) /\ idem' = With(idem) /\ step' = "save_ledger"
      /\ UNCHANGED <<ledger, dirLock, claims, runs, cycle, target, rows, next, open, result, net, order>>
  BY DEF SaveIdempotency, IsValid, outside, loop, broker
<1>2. Typed /\ RowsInv /\ NextInv
  BY DEF OversightInv
<1>3. step \in LookupSteps \ {"lookup"} /\ Running /\ Running' /\ step' \in LookupSteps
  BY <1>1 DEF LookupSteps, Running
<1>4. idem = rows /\ ledger = rows
  BY <1>1, <1>2, <1>3 DEF RowsInv
<1>5. PICK W : W = With(rows)
  OBVIOUS
<1>6. W \in Histories /\ DiskOk(W, rows, order) /\ W = idem'
  BY <1>1, <1>3, <1>4, <1>5, CommitFacts
<1>7. Typed' /\ RunsAreClaimed' /\ OrdersAreReal'
  BY <1>1, <1>6 DEF OversightInv, Typed, RunsAreClaimed, OrdersAreReal, LookupSteps
<1>8. DiskInv'
  BY <1>1, <1>4, <1>6 DEF DiskInv
<1>9. ReportInv'
  <2>1. result # "reconciled"
    BY <1>1 DEF OversightInv, ReportInv
  <2>q. QED BY <1>1, <2>1 DEF ReportInv, ReconciledMeansFlat
<1>10. RowsInv'
  <2>1. With(rows)' = W
    BY <1>1, <1>5 DEF With
  <2>2. idem' = With(rows)' /\ ledger' = rows' /\ step' = "save_ledger"
    BY <1>1, <1>4, <1>6, <2>1
  <2>3. RecordsAreGood(rows', order')
    BY <1>1, <1>2 DEF RowsInv
  <2>4. \E i \in Target : AttemptedTo(rows', i) /\ target' <= i
    BY <1>1, <1>2, <1>3 DEF RowsInv
  <2>q. QED BY <1>3, <2>2, <2>3, <2>4 DEF RowsInv
<1>11. NextInv'
  BY <1>1, <1>2, <1>3 DEF NextInv, Last
<1>q. QED BY <1>7, <1>8, <1>9, <1>10, <1>11 DEF OversightInv

LEMMA SaveLedgerKeeps ==
  ASSUME OversightInv, SaveLedger
  PROVE  OversightInv'
<1>1. /\ step = "save_ledger" /\ ledger' = With(ledger) /\ step' = "reload"
      /\ UNCHANGED <<idem, dirLock, claims, runs, cycle, target, rows, next, open, result, net, order>>
  BY DEF SaveLedger, outside, loop, broker
<1>2. Typed /\ RowsInv /\ NextInv
  BY DEF OversightInv
<1>3. step \in LookupSteps \ {"lookup"} /\ Running /\ Running' /\ step' \in LookupSteps
  BY <1>1 DEF LookupSteps, Running
<1>4. PICK W : W = With(rows)
  OBVIOUS
<1>5. idem = W /\ ledger = rows /\ IsValid(next)
  BY <1>1, <1>2, <1>3, <1>4 DEF RowsInv, NextInv
<1>6. W \in Histories /\ DiskOk(W, W, order) /\ W = ledger'
  BY <1>1, <1>3, <1>4, <1>5, CommitFacts
<1>7. Typed' /\ RunsAreClaimed' /\ OrdersAreReal'
  BY <1>1, <1>6 DEF OversightInv, Typed, RunsAreClaimed, OrdersAreReal, LookupSteps
<1>8. DiskInv'
  BY <1>1, <1>5, <1>6 DEF DiskInv
<1>9. ReportInv'
  <2>1. result # "reconciled"
    BY <1>1 DEF OversightInv, ReportInv
  <2>q. QED BY <1>1, <2>1 DEF ReportInv, ReconciledMeansFlat
<1>10. RowsInv'
  <2>1. With(rows)' = W
    BY <1>1, <1>4 DEF With
  <2>2. idem' = With(rows)' /\ ledger' = With(rows)' /\ step' = "reload"
    BY <1>1, <1>5, <1>6, <2>1
  <2>3. RecordsAreGood(rows', order')
    BY <1>1, <1>2 DEF RowsInv
  <2>4. \E i \in Target : AttemptedTo(rows', i) /\ target' <= i
    BY <1>1, <1>2, <1>3 DEF RowsInv
  <2>q. QED BY <1>3, <2>2, <2>3, <2>4 DEF RowsInv
<1>11. NextInv'
  BY <1>1, <1>2, <1>3 DEF NextInv, Last
<1>q. QED BY <1>7, <1>8, <1>9, <1>10, <1>11 DEF OversightInv

LEMMA ReloadKeeps ==
  ASSUME OversightInv, Reload
  PROVE  OversightInv'
<1>1. /\ step = "reload" /\ rows' = [rows EXCEPT ![target] = next] /\ next' = <<>> /\ Advance
      /\ UNCHANGED <<idem, ledger, dirLock, claims, runs, cycle, open, result, net, order>>
  BY DEF Reload, stores, outside, broker
<1>2. Typed /\ RowsInv /\ NextInv
  BY DEF OversightInv
<1>3. step \in LookupSteps \ {"lookup"} /\ Running /\ IsValid(next)
  BY <1>1, <1>2 DEF LookupSteps, Running, NextInv
<1>4. PICK W : W = With(rows)
  OBVIOUS
<1>5. idem = W /\ ledger = W /\ rows' = W
  BY <1>1, <1>2, <1>3, <1>4 DEF RowsInv, With
<1>6. PICK i \in Target : AttemptedTo(rows, i) /\ target <= i
  BY <1>2, <1>3 DEF RowsInv
<1>7. W \in Histories /\ RecordsAreGood(W, order) /\ AttemptedTo(W, i)
  BY <1>3, <1>4, <1>6, CommitFacts
<1>8. \/ step' = "positions" /\ target' = 1
      \/ step' = "lookup" /\ target' \in Target /\ target' <= i
  BY <1>1, <1>2, <1>6, AdvanceStays DEF Typed
<1>9. 1 \in Target
  BY OversightAssumption DEF Target
<1>10. Typed' /\ RunsAreClaimed' /\ OrdersAreReal'
  BY <1>1, <1>5, <1>7, <1>8, <1>9
     DEF OversightInv, Typed, RunsAreClaimed, OrdersAreReal, LookupSteps, PortfolioSteps
<1>11. DiskInv' /\ ReportInv'
  BY <1>1, <1>8 DEF OversightInv, DiskInv, ReportInv, ReconciledMeansFlat
<1>12. RowsInv'
  <2>1. Running' /\ step' \notin {"save_ledger", "reload"} /\ (step' \in LookupSteps => step' = "lookup")
    BY <1>8 DEF Running, LookupSteps, PortfolioSteps
  <2>2. idem' = rows' /\ ledger' = rows'
    BY <1>1, <1>5
  <2>3. RecordsAreGood(rows', order')
    BY <1>1, <1>5, <1>7
  <2>4. AttemptedTo(rows', i) /\ (step' \in LookupSteps => target' <= i)
    BY <1>5, <1>7, <1>8, <2>1
  <2>q. QED BY <2>1, <2>2, <2>3, <2>4 DEF RowsInv
<1>13. NextInv'
  BY <1>8 DEF NextInv, LookupSteps
<1>q. QED BY <1>10, <1>11, <1>12, <1>13 DEF OversightInv

\* Wherever a commit fails, the files are one commit apart at the most.
LEMMA CommitFailsKeeps ==
  ASSUME OversightInv, CommitFails
  PROVE  OversightInv'
<1>1. /\ \/ /\ step = "save_idem"
            /\ idem' \in {idem} \cup (IF ValidRecord(next, FALSE) THEN {With(idem)} ELSE {})
            /\ ledger' = ledger
         \/ step = "save_ledger" /\ ledger' \in {ledger, With(ledger)} /\ idem' = idem
         \/ step = "reload" /\ idem' = idem /\ ledger' = ledger
      /\ Down("failed") /\ dirLock' \in {"free", "left"}
      /\ UNCHANGED <<claims, runs, net, order>>
  BY Zenon DEF CommitFails, Throw, outside, broker, stores
<1>2. Typed /\ RowsInv /\ NextInv /\ DiskInv
  BY DEF OversightInv
<1>3. step \in LookupSteps \ {"lookup"} /\ Running
  BY <1>1 DEF LookupSteps, Running
<1>4. PICK W : W = With(rows)
  OBVIOUS
<1>5. ASSUME idem' = idem, ledger' = ledger
      PROVE  idem' \in Histories /\ ledger' \in Histories /\ DiskInv'
  BY <1>1, <1>2, <1>5 DEF Typed, DiskInv, Histories
<1>6. CASE step = "save_idem"
  <2>1. idem = rows /\ ledger = rows
    BY <1>2, <1>3, <1>6 DEF RowsInv
  <2>2. idem' = idem \/ (IsValid(next) /\ idem' = With(idem))
    BY <1>1, <1>6 DEF IsValid
  <2>3. ledger' = ledger
    BY <1>1, <1>6
  <2>4. ASSUME IsValid(next), idem' = With(idem)
        PROVE  idem' \in Histories /\ ledger' \in Histories /\ DiskInv'
    <3>1. W \in Histories /\ DiskOk(W, rows, order) /\ idem' = W
      BY <1>3, <1>4, <2>1, <2>4, CommitFacts
    <3>q. QED BY <1>1, <1>2, <2>1, <2>3, <3>1 DEF DiskInv, Typed
  <2>q. QED
    <3>1. idem' \in Histories /\ ledger' \in Histories /\ DiskInv'
      BY <1>5, <2>2, <2>3, <2>4
    <3>q. QED BY <1>1, <3>1, EndKeeps DEF Results
<1>7. CASE step = "save_ledger"
  <2>1. idem = W /\ ledger = rows /\ IsValid(next)
    BY <1>2, <1>3, <1>4, <1>7 DEF RowsInv, NextInv
  <2>2. idem' = idem /\ (ledger' = ledger \/ ledger' = With(ledger))
    BY <1>1, <1>7
  <2>3. ASSUME ledger' = With(ledger)
        PROVE  idem' \in Histories /\ ledger' \in Histories /\ DiskInv'
    <3>1. W \in Histories /\ DiskOk(W, W, order) /\ ledger' = W
      BY <1>3, <1>4, <2>1, <2>3, CommitFacts
    <3>q. QED BY <1>1, <1>2, <2>1, <2>2, <3>1 DEF DiskInv, Typed
  <2>q. QED
    <3>1. idem' \in Histories /\ ledger' \in Histories /\ DiskInv'
      BY <1>5, <2>2, <2>3
    <3>q. QED BY <1>1, <3>1, EndKeeps DEF Results
<1>8. CASE step = "reload"
  <2>1. idem' \in Histories /\ ledger' \in Histories /\ DiskInv'
    BY <1>1, <1>5, <1>8
  <2>q. QED BY <1>1, <2>1, EndKeeps DEF Results
<1>q. QED BY <1>1, <1>6, <1>7, <1>8

-----------------------------------------------------------------------------
(* The end of a cycle                                                      *)

LEMMA PortfolioReadKeeps ==
  ASSUME OversightInv, step \in PortfolioSteps, step' \in PortfolioSteps, open' \subseteq Target,
         UNCHANGED <<idem, ledger, dirLock, claims, runs, cycle, target, rows, next, result, net, order>>
  PROVE  OversightInv'
<1>1. Typed' /\ RunsAreClaimed' /\ OrdersAreReal'
  BY DEF OversightInv, Typed, RunsAreClaimed, OrdersAreReal, Histories, PortfolioSteps
<1>2. DiskInv' /\ ReportInv'
  BY DEF OversightInv, DiskInv, ReportInv, ReconciledMeansFlat, PortfolioSteps
<1>3. /\ Running /\ Running' /\ step \notin LookupSteps /\ step' \notin LookupSteps
      /\ step' \notin {"save_ledger", "reload"}
  BY DEF Running, LookupSteps, PortfolioSteps
<1>4. RowsInv'
  <2>1. idem = rows /\ ledger = rows /\ \E i \in Target : AttemptedTo(rows, i)
    BY BetweenCommits
  <2>q. QED BY <1>3, <2>1 DEF OversightInv, RowsInv
<1>5. NextInv'
  BY <1>3 DEF NextInv
<1>q. QED BY <1>1, <1>2, <1>4, <1>5 DEF OversightInv

LEMMA PositionsKeeps ==
  ASSUME OversightInv, Positions \/ OpenOrders
  PROVE  OversightInv'
<1>1. CASE Positions
  <2>1. /\ step \in PortfolioSteps /\ step' \in PortfolioSteps
        /\ UNCHANGED <<idem, ledger, dirLock, claims, runs, cycle, target, rows, next, open, result, net, order>>
    BY <1>1 DEF Positions, PortfolioSteps, stores, outside, broker
  <2>2. open' \subseteq Target
    BY <2>1 DEF OversightInv, Typed
  <2>q. QED BY <2>1, <2>2, PortfolioReadKeeps
<1>2. CASE OpenOrders
  <2>1. /\ step \in PortfolioSteps /\ step' \in PortfolioSteps /\ open' \subseteq Target
        /\ UNCHANGED <<idem, ledger, dirLock, claims, runs, cycle, target, rows, next, result, net, order>>
    BY <1>2 DEF OpenOrders, PortfolioSteps, stores, outside, broker
  <2>q. QED BY <2>1, PortfolioReadKeeps
<1>q. QED BY <1>1, <1>2

\* A fill that the broker reports is the whole order.
LEMMA FilledIsWhole ==
  ASSUME NEW o, IsOrder(o), o.status = "filled"
  PROVE  o = FilledOrder
<1>1. o \in [status : Statuses, filled : 0..Qty]
  BY DEF IsOrder, Orders
<1>2. o = [status |-> o.status, filled |-> o.filled]
  BY <1>1
<1>3. o.filled = Qty
  BY DEF IsOrder, ValidEntry, Entered
<1>q. QED BY <1>2, <1>3 DEF FilledOrder

\* Whatever the three reads saw of the broker, a record that says "filled"
\* is enough for the order to be filled for good.
LEMMA ClockKeeps ==
  ASSUME OversightInv, Clock
  PROVE  OversightInv'
<1>1. step = "clock" /\ UNCHANGED <<idem, ledger, claims, runs, net, order>>
  BY DEF Clock, stores, outside, broker
<1>2. PICK marketOpen \in BOOLEAN, foreign \in BOOLEAN :
        IF Verdict(marketOpen, foreign) = "none"
        THEN /\ cycle' = cycle + 1 /\ target' = First /\ step' = "lookup"
             /\ held' = {} /\ open' = {}
             /\ UNCHANGED <<dirLock, rows, next, result>>
        ELSE Down(Verdict(marketOpen, foreign)) /\ dirLock' = "free"
  BY Zenon DEF Clock
<1>3. PICK verdict : verdict = Verdict(marketOpen, foreign)
  OBVIOUS
<1>4. /\ verdict \in {"conflict", "reconciled", "closed", "residual", "budget", "none"}
      /\ verdict = "reconciled" => Flat = Attempted
      /\ verdict = "none" => cycle # MaxCycles
  BY <1>3, Zenon DEF Verdict
<1>5. Typed /\ RowsInv /\ OrdersAreReal
  BY DEF OversightInv
<1>6. idem = rows /\ ledger = rows
  BY <1>1, BetweenCommits DEF PortfolioSteps
<1>7. PICK i \in Target : AttemptedTo(rows, i)
  BY <1>1, BetweenCommits DEF PortfolioSteps
<1>8. CASE verdict = "none"
  <2>1. /\ cycle' = cycle + 1 /\ target' = First /\ step' = "lookup" /\ open' = {}
        /\ UNCHANGED <<dirLock, rows, next, result>>
    BY <1>2, <1>3, <1>8
  <2>2. cycle' \in 1..MaxCycles
    BY <1>4, <1>5, <1>8, <2>1, OversightAssumption DEF Typed
  <2>3. target' \in Target /\ target' <= i
    BY <1>5, <1>7, <2>1, FirstIsAttempted DEF Typed
  <2>4. Typed' /\ RunsAreClaimed' /\ OrdersAreReal'
    BY <1>1, <2>1, <2>2, <2>3
       DEF OversightInv, Typed, RunsAreClaimed, OrdersAreReal, Histories, LookupSteps
  <2>5. DiskInv' /\ ReportInv'
    BY <1>1, <2>1 DEF OversightInv, DiskInv, ReportInv, ReconciledMeansFlat
  <2>6. RowsInv'
    <3>1. Running' /\ step' \notin {"save_ledger", "reload"}
      BY <2>1 DEF Running, LookupSteps
    <3>2. idem' = rows' /\ ledger' = rows'
      BY <1>1, <1>6, <2>1
    <3>3. RecordsAreGood(rows', order')
      BY <1>1, <1>5, <2>1 DEF RowsInv
    <3>4. AttemptedTo(rows', i) /\ target' <= i
      BY <1>7, <2>1, <2>3
    <3>q. QED BY <3>1, <3>2, <3>3, <3>4 DEF RowsInv
  <2>7. NextInv'
    BY <2>1 DEF NextInv, LookupSteps
  <2>q. QED BY <2>4, <2>5, <2>6, <2>7 DEF OversightInv
<1>9. CASE verdict # "none"
  <2>1. Down(verdict) /\ dirLock' \in {"free", "left"}
    BY <1>2, <1>3, <1>9
  <2>2. verdict \in Results
    BY <1>4, <1>9 DEF Results
  <2>3. idem' \in Histories /\ ledger' \in Histories /\ DiskInv'
    BY <1>1 DEF OversightInv, Typed, Histories, DiskInv
  <2>4. ASSUME verdict = "reconciled", NEW t \in Target, ledger[t] # <<Reservation>>
        PROVE  /\ order[t] = FilledOrder /\ LastEntry(idem[t]).status = "filled" /\ ledger[t] = idem[t]
    <3>1. t \in Flat
      BY <1>4, <1>6, <2>4 DEF Attempted, Reserved
    <3>2. Last(t).status = "filled"
      BY <3>1 DEF Flat
    <3>3. Follows(Last(t), order[t])
      BY <1>5 DEF RowsInv, RecordsAreGood, Last
    <3>4. order[t].status = "filled" /\ order[t] # NoOrder
      BY <3>2, <3>3 DEF Follows, TerminalStatuses
    <3>5. order[t] = FilledOrder
      BY <1>5, <3>4, FilledIsWhole DEF OrdersAreReal
    <3>q. QED BY <1>6, <3>2, <3>5 DEF Last
  <2>5. verdict = "reconciled" => ReconciledMeansFlat'
    BY <1>1, <2>4 DEF ReconciledMeansFlat, FilledOrder
  <2>6. UNCHANGED <<claims, runs, net, order>>
    BY <1>1
  <2>q. QED BY <2>1, <2>2, <2>3, <2>5, <2>6, EndKeeps
<1>q. QED BY <1>8, <1>9

-----------------------------------------------------------------------------
(* The broker                                                              *)

\* An order that is not at its end moves forward, or one that was on its way arrives.
LEMMA BrokerKeeps ==
  ASSUME OversightInv, NEW t \in Target, NEW o, IsOrder(o), order' = [order EXCEPT ![t] = o],
         order[t].status \notin TerminalStatuses, order[t].filled <= o.filled,
         net' \subseteq net, t \notin net',
         UNCHANGED <<idem, ledger, dirLock, claims, runs, step, cycle, target, rows, next, open, result>>
  PROVE  OversightInv'
<1>1. Typed /\ OrdersAreReal /\ DiskInv /\ RowsInv /\ NextInv /\ ReportInv /\ RunsAreClaimed
  BY DEF OversightInv
<1>2. /\ order' \in [Target -> Orders] /\ order'[t] = o /\ order[t] \in Orders /\ o \in Orders
      /\ \A u \in Target : u # t => order'[u] = order[u]
  BY <1>1 DEF Typed, IsOrder
<1>3. ASSUME NEW u \in Target, NEW e \in Entry, Follows(e, order[u])
      PROVE  Follows(e, order'[u])
  <2>1. CASE u # t
    BY <1>2, <1>3, <2>1
  <2>2. CASE u = t
    <3>1. e.filled <= order[t].filled /\ e.status \notin TerminalStatuses
      BY <1>3, <2>2 DEF Follows
    <3>2. e.filled <= o.filled
      <4>1. e.filled \in Int /\ order[t].filled \in Int /\ o.filled \in Int
        BY <1>2, QtyAssumption DEF Entry, Orders
      <4>q. QED BY <3>1, <4>1
    <3>3. o # NoOrder
      BY DEF IsOrder
    <3>q. QED BY <1>2, <2>2, <3>1, <3>2, <3>3 DEF Follows
  <2>q. QED BY <2>1, <2>2
<1>4. ASSUME NEW f \in Histories, RecordsAreGood(f, order)
      PROVE  RecordsAreGood(f, order')
  <2>1. ASSUME NEW u \in Target PROVE IsValid(f[u]) /\ Follows(LastEntry(f[u]), order'[u])
    <3>1. f[u] \in Seq(Entry)
      BY DEF Histories
    <3>2. IsValid(f[u]) /\ Follows(LastEntry(f[u]), order[u])
      BY <1>4 DEF RecordsAreGood
    <3>3. LastEntry(f[u]) \in Entry
      BY <3>1, <3>2, LastIsValid
    <3>q. QED BY <1>3, <3>2, <3>3
  <2>q. QED BY <2>1 DEF RecordsAreGood
<1>5. Typed'
  BY <1>1, <1>2 DEF Typed, Histories
<1>6. RunsAreClaimed'
  BY <1>1 DEF RunsAreClaimed
<1>7. OrdersAreReal'
  BY <1>1, <1>2 DEF OrdersAreReal
<1>8. DiskInv'
  <2>1. RecordsAreGood(idem, order')
    BY <1>1, <1>4 DEF DiskInv, DiskOk, Typed
  <2>q. QED BY <1>1, <2>1 DEF DiskInv, DiskOk
<1>9. RowsInv'
  <2>1. RecordsAreGood(rows', order')
    BY <1>1, <1>4 DEF RowsInv, Typed
  <2>2. With(rows)' = With(rows) /\ (Running' <=> Running)
    BY DEF With, Running
  <2>q. QED BY <1>1, <2>1, <2>2 DEF RowsInv
<1>10. NextInv'
  <2>1. Last(target)' = Last(target)
    BY DEF Last
  <2>2. target \in Target
    BY <1>1 DEF Typed
  <2>3. ASSUME step \in LookupSteps \ {"lookup"}
        PROVE  \E e \in Entry : /\ next' = Append(rows[target]', e)
                                /\ ValidEntry(e) /\ Succeeds(Last(target)', e) /\ Follows(e, order[target]')
                                /\ step' \in {"save_ledger", "reload"} => IsValid(next')
    <3>1. PICK e \in Entry :
            /\ next = Append(rows[target], e)
            /\ ValidEntry(e) /\ Succeeds(Last(target), e) /\ Follows(e, order[target])
            /\ step \in {"save_ledger", "reload"} => IsValid(next)
      BY <1>1, <2>3 DEF NextInv
    <3>2. Follows(e, order'[target])
      BY <1>3, <2>2, <3>1
    <3>q. QED BY <2>1, <3>1, <3>2
  <2>q. QED BY <2>3 DEF NextInv
<1>11. ReportInv'
  <2>1. ASSUME result = "reconciled", NEW u \in Target, ledger[u] # <<Reservation>>
        PROVE  /\ order'[u] = FilledOrder /\ LastEntry(idem[u]).status = "filled" /\ ledger[u] = idem[u]
    <3>1. order[u] = FilledOrder /\ LastEntry(idem[u]).status = "filled" /\ ledger[u] = idem[u]
      BY <1>1, <2>1 DEF ReportInv, ReconciledMeansFlat, FilledOrder
    <3>2. u # t
      BY <3>1 DEF FilledOrder, TerminalStatuses
    <3>q. QED BY <1>2, <3>1, <3>2
  <2>2. ReconciledMeansFlat'
    BY <2>1 DEF ReconciledMeansFlat, FilledOrder
  <2>q. QED BY <1>1, <2>2 DEF ReportInv
<1>q. QED BY <1>5, <1>6, <1>7, <1>8, <1>9, <1>10, <1>11 DEF OversightInv

LEMMA PostArrivesKeeps ==
  ASSUME OversightInv, PostArrives
  PROVE  OversightInv'
<1>1. PICK t \in net : /\ net' = net \ {t}
                       /\ order' = [order EXCEPT ![t] = [status |-> "accepted", filled |-> 0]]
  BY DEF PostArrives
<1>2. UNCHANGED <<idem, ledger, dirLock, claims, runs, step, cycle, target, rows, next, open, result>>
  BY DEF PostArrives, stores, outside, loop
<1>3. t \in Target /\ order[t] = NoOrder
  BY <1>1 DEF OversightInv, Typed, OrdersAreReal
<1>4. PICK o : o = [status |-> "accepted", filled |-> 0]
  OBVIOUS
<1>5. IsOrder(o)
  BY <1>4, QtyAssumption DEF IsOrder, Orders, Statuses, NoOrder, ValidEntry, Entered
<1>6. order[t].status \notin TerminalStatuses /\ order[t].filled <= o.filled
  BY <1>3, <1>4 DEF NoOrder, TerminalStatuses
<1>7. order' = [order EXCEPT ![t] = o] /\ net' \subseteq net /\ t \notin net'
  BY <1>1, <1>4
<1>q. QED BY <1>2, <1>3, <1>5, <1>6, <1>7, BrokerKeeps

LEMMA OrderMovesKeeps ==
  ASSUME OversightInv, OrderMoves
  PROVE  OversightInv'
<1>1. PICK t \in Target, o \in Orders :
        /\ IsOpen(t) /\ o.filled >= order[t].filled
        /\ \/ o.status = "partially_filled" /\ o.filled \in 1..(Qty - 1) /\ o # order[t]
           \/ o.status = "filled" /\ o.filled = Qty
           \/ o.status \in {"canceled", "expired"} /\ o.filled = order[t].filled
           \/ o.status = "rejected" /\ order[t].filled = 0 /\ o.filled = 0
        /\ order' = [order EXCEPT ![t] = o]
  BY DEF OrderMoves
<1>2. UNCHANGED <<idem, ledger, dirLock, claims, runs, step, cycle, target, rows, next, open, result, net>>
  BY DEF OrderMoves, stores, outside, loop
<1>3. order[t].status \notin TerminalStatuses /\ order[t].status # "null"
  BY <1>1 DEF IsOpen, TerminalStatuses
<1>4. t \notin net
  BY <1>3 DEF OversightInv, OrdersAreReal, NoOrder
<1>5. IsOrder(o)
  <2>1. /\ o.status \in {"partially_filled", "filled", "canceled", "expired", "rejected"}
        /\ o.status = "filled" => o.filled = Qty
        /\ o.status = "partially_filled" => o.filled \in 1..(Qty - 1)
        /\ o.status = "rejected" => o.filled = 0
    BY <1>1
  <2>2. o # NoOrder
    BY <2>1 DEF NoOrder
  <2>q. QED BY <2>1, <2>2 DEF IsOrder, ValidEntry, Entered
<1>6. order[t].filled <= o.filled
  BY <1>1
<1>7. order' = [order EXCEPT ![t] = o] /\ net' \subseteq net /\ t \notin net'
  BY <1>1, <1>2, <1>4
<1>q. QED BY <1>2, <1>3, <1>5, <1>6, <1>7, BrokerKeeps

-----------------------------------------------------------------------------
(* The invariant is kept, and what follows from it                         *)

LEMMA NextKeeps == OversightInv /\ [Next]_vars => OversightInv'
<1> SUFFICES ASSUME OversightInv, [Next]_vars PROVE OversightInv'
  OBVIOUS
<1>1. CASE UNCHANGED vars
  BY <1>1, OversightKept DEF vars
<1>2. CASE Approve
  BY <1>2, OversightKept DEF Approve, stores, loop, broker
<1>3. CASE OperatorClearsLock \/ EnterStores \/ Claim
  BY <1>3, ClearedLockKeeps, EnterStoresKeeps, ClaimKeeps
<1>4. CASE Refused \/ ReadFails \/ Crash
  BY <1>4, ThrowKeeps DEF Refused, ReadFails, Crash
<1>5. CASE LookupUnchanged \/ LookupChanged
  BY <1>5, LookupUnchangedKeeps, LookupChangedKeeps
<1>6. CASE SaveIdempotency \/ SaveLedger \/ Reload \/ CommitFails
  BY <1>6, SaveIdempotencyKeeps, SaveLedgerKeeps, ReloadKeeps, CommitFailsKeeps
<1>7. CASE Positions \/ OpenOrders \/ Clock
  BY <1>7, PositionsKeeps, ClockKeeps
<1>8. CASE PostArrives \/ OrderMoves
  BY <1>8, PostArrivesKeeps, OrderMovesKeeps
<1>q. QED BY <1>1, <1>2, <1>3, <1>4, <1>5, <1>6, <1>7, <1>8 DEF Next, RunStep

\* At every step of the loop the records of the run are tied to the two stores and to
\* the broker, whatever crashed before (runScopedPaperOversight, commitScopedPaperManagement).
THEOREM OversightInvariant == Spec => []OversightInv
<1>1. OversightInv /\ UNCHANGED vars => OversightInv'
  BY NextKeeps
<1>q. QED BY InitOversight, NextKeeps, PTL DEF Spec

\* For every number of exits, cycles and approvals: no record says more than the broker
\* did, and an outcome "reconciled" is true and stays true (scoped-paper-evidence.mjs:262).
THEOREM RecordsTrue == Spec => []RecordsAreTrue
<1>1. OversightInv => RecordsAreTrue
  <2> SUFFICES ASSUME OversightInv PROVE RecordsAreTrue
    OBVIOUS
  <2>1. \A t \in Target : Follows(LastEntry(idem[t]), order[t])
    BY DEF OversightInv, DiskInv, DiskOk, RecordsAreGood
  <2>2. RecordsFollowBroker
    BY <2>1 DEF RecordsFollowBroker, Justified, Follows
  <2>q. QED BY <2>2 DEF RecordsAreTrue, OversightInv, ReportInv
<1>q. QED BY <1>1, OversightInvariant, PTL

\* For every number of exits, cycles and approvals: however runs die, one approval pays for
\* one run, the ledger trails the idempotency state by one commit of one record at the
\* most, and what a run is about to write can be stored until its history is full.
THEOREM RunsAccounted == Spec => []RunsAreAccounted
<1>1. OversightInv => RunsAreAccounted
  <2> SUFFICES ASSUME OversightInv PROVE RunsAreAccounted
    OBVIOUS
  <2>1. Typed /\ RunsAreClaimed /\ DiskInv /\ RowsInv /\ NextInv
    BY DEF OversightInv
  <2>2. PICK j \in Target : TrailsAt(idem, ledger, j)
    BY <2>1 DEF DiskInv, DiskOk, FilesTrail
  <2>3. ASSUME NEW h \in Seq(Entry), IsValid(h)
        PROVE  Len(h) \in 1..16 /\ \A i \in 1..Len(h) : h[i] \in Entry
    BY <2>3 DEF IsValid, ValidRecord
  <2>4. ASSUME NEW t \in Target
        PROVE  /\ Len(idem[t]) \in 1..16 /\ idem[t] \in Seq(Entry)
               /\ Len(rows[t]) \in 1..16 /\ rows[t] \in Seq(Entry)
               /\ Len(ledger[t]) \in 1..16 /\ ledger[t] \in Seq(Entry)
    <3>1. /\ idem[t] \in Seq(Entry) /\ rows[t] \in Seq(Entry) /\ ledger[t] \in Seq(Entry)
      BY <2>1 DEF Typed, Histories
    <3>2. IsValid(idem[t]) /\ IsValid(rows[t])
      BY <2>1 DEF DiskInv, DiskOk, RowsInv, RecordsAreGood
    <3>3. Len(idem[t]) \in 1..16 /\ Len(rows[t]) \in 1..16
      BY <2>3, <3>1, <3>2
    <3>4. Len(ledger[t]) \in 1..16
      <4>1. PICK h \in Seq(Entry) : h = idem[t]
        BY <3>1
      <4>2. PICK n \in 1..16 : n = Len(h)
        BY <3>3, <4>1
      <4>3. ASSUME Len(h) > 1 PROVE Len(Cut(h)) \in 1..16
        <5>0. n > 1
          BY <4>2, <4>3
        <5>1. n - 1 \in 1..15 /\ 1 <= n - 1 /\ n - 1 - 1 + 1 = n - 1 /\ \A k \in 1..(n - 1) : k \in 1..n
          BY <5>0
        <5>2. \A k \in 1..(n - 1) : h[k] \in Entry
          BY <4>2, <5>1
        <5>3. Len(SubSeq(h, 1, n - 1)) = n - 1
          BY <5>1, <5>2, SubSeqProperties
        <5>4. n - 1 \in 1..16
          BY <5>1
        <5>q. QED BY <4>2, <5>3, <5>4 DEF Cut
      <4>q. QED BY <2>2, <3>3, <4>1, <4>3 DEF TrailsAt
    <3>q. QED BY <3>1, <3>3, <3>4
  <2>5. TypeOK
    <3>1. ASSUME NEW t \in Target, NEW h \in {idem[t], ledger[t], rows[t]}
          PROVE  Len(h) \in 1..16 /\ \A i \in 1..Len(h) : h[i] \in Entry
      <4>1. h \in Seq(Entry) /\ Len(h) \in 1..16
        BY <2>4
      <4>q. QED BY <4>1
    <3>q. QED BY <2>1, <3>1 DEF TypeOK, Typed, RunsAreClaimed, LookupSteps, PortfolioSteps
  <2>6. OneRunPerAuthority
    BY <2>1 DEF OneRunPerAuthority, RunsAreClaimed
  <2>7. LedgerTrailsByOneCommit
    <3>1. \A t \in Target : ledger[t] \in {idem[t], SubSeq(idem[t], 1, Len(idem[t]) - 1)}
      BY <2>2 DEF TrailsAt, Cut
    <3>2. PICK behind : behind = {t \in Target : ledger[t] # idem[t]}
      OBVIOUS
    <3>3. behind \subseteq {j}
      BY <2>2, <3>2 DEF TrailsAt
    <3>4. IsFiniteSet({j}) /\ Cardinality({j}) = 1
      BY FS_Singleton
    <3>5. Cardinality(behind) <= 1
      BY <3>3, <3>4, FS_Subset
    <3>q. QED BY <3>1, <3>2, <3>5 DEF LedgerTrailsByOneCommit
  <2>8. RecordsAreStorable
    <3> SUFFICES ASSUME step = "save_idem", Len(next) <= 16 PROVE IsValid(next)
      BY DEF RecordsAreStorable, IsValid
    <3>1. PICK e \in Entry :
            next = Append(rows[target], e) /\ ValidEntry(e) /\ Succeeds(Last(target), e)
      BY <2>1 DEF NextInv, LookupSteps
    <3>2. rows[target] \in Seq(Entry) /\ IsValid(rows[target])
      BY <2>1 DEF Typed, Histories, RowsInv, RecordsAreGood
    <3>q. QED BY <3>1, <3>2, LengthenedIsValid DEF Last
  <2>q. QED BY <2>5, <2>6, <2>7, <2>8 DEF RunsAreAccounted
<1>q. QED BY <1>1, OversightInvariant, PTL

LEMMA WholeSubSeq ==
  ASSUME NEW h \in Seq(Entry)
  PROVE  Len(h) >= Len(h) /\ SubSeq(h, 1, Len(h)) = h
<1>1. PICK n \in Nat : n = Len(h)
  OBVIOUS
<1>2. n >= n /\ n - 1 + 1 = n /\ \A k \in 1..n : 1 + k - 1 = k
  OBVIOUS
<1>3. /\ SubSeq(h, 1, n) \in Seq(Entry)
      /\ Len(SubSeq(h, 1, n)) = IF 1 <= n THEN n - 1 + 1 ELSE 0
      /\ \A k \in 1..(n - 1 + 1) : SubSeq(h, 1, n)[k] = h[1 + k - 1]
  <2>1. \A k \in 1..n : h[k] \in Entry
    BY <1>1
  <2>q. QED BY <1>1, <2>1, SubSeqProperties
<1>q. QED BY <1>1, <1>2, <1>3, SeqEqual

\* For every number of exits, cycles and approvals: nothing a store recorded is rewritten or
\* lost, although the records of a run come from the ledger and are written over the
\* idempotency state; and the stores are given back only while they agree.
THEOREM HistoriesGrow == Spec => HistoriesOnlyGrow
<1> DEFINE Grows(f, g) == \A t \in Target : Len(g[t]) >= Len(f[t]) /\ SubSeq(g[t], 1, Len(f[t])) = f[t]
<1>1. ASSUME OversightInv, [Next]_vars
      PROVE  /\ Grows(idem, idem') /\ Grows(ledger, ledger')
             /\ (step # "down" /\ dirLock' = "free" => idem = ledger)
  <2>1. Typed /\ RowsInv /\ NextInv /\ RunsAreClaimed
    BY <1>1 DEF OversightInv
  <2>2. Grows(idem, idem) /\ Grows(ledger, ledger)
    BY <2>1, WholeSubSeq DEF Typed, Histories
  <2>3. ASSUME step \in LookupSteps \ {"lookup"}, NEW f, f = rows PROVE Grows(f, With(f))
    <3>1. PICK e \in Entry : next = Append(rows[target], e)
      BY <2>1, <2>3 DEF NextInv
    <3>2. f \in Histories /\ target \in Target
      BY <2>1, <2>3 DEF Typed
    <3>3. ASSUME NEW t \in Target
          PROVE  Len(With(f)[t]) >= Len(f[t]) /\ SubSeq(With(f)[t], 1, Len(f[t])) = f[t]
      <4>1. PICK h \in Seq(Entry) : h = f[t]
        BY <3>2 DEF Histories
      <4>2. CASE t = target
        <5>1. With(f)[t] = Append(h, e)
          BY <2>3, <3>1, <3>2, <4>1, <4>2 DEF With, Histories
        <5>2. Len(Append(h, e)) = Len(h) + 1 /\ SubSeq(Append(h, e), 1, Len(h)) = h
          BY Lengthened
        <5>3. Len(h) + 1 >= Len(h)
          OBVIOUS
        <5>q. QED BY <4>1, <5>1, <5>2, <5>3
      <4>3. CASE t # target
        <5>1. With(f)[t] = h
          BY <3>2, <4>1, <4>3 DEF With, Histories
        <5>q. QED BY <4>1, <5>1, WholeSubSeq
      <4>q. QED BY <4>2, <4>3
    <3>q. QED BY <3>3
  <2>4. ASSUME step \in LookupSteps \ {"lookup"}
        PROVE  Running /\ (step = "save_idem" => idem = rows /\ ledger = rows)
                       /\ (step = "save_ledger" => ledger = rows)
    <3>1. Running
      BY <2>4 DEF Running
    <3>q. QED BY <2>1, <3>1 DEF RowsInv
  <2>5. \/ idem' = idem
        \/ step = "save_idem" /\ idem' = With(idem)
    BY <1>1, Zenon DEF Next, RunStep, Approve, OperatorClearsLock, EnterStores, Refused, Claim, ReadFails,
         LookupUnchanged, LookupChanged, SaveIdempotency, SaveLedger, Reload, CommitFails, Positions,
         OpenOrders, Clock, Crash, PostArrives, OrderMoves, stores, vars
  <2>6. \/ ledger' = ledger
        \/ step = "save_ledger" /\ ledger' = With(ledger)
    BY <1>1, Zenon DEF Next, RunStep, Approve, OperatorClearsLock, EnterStores, Refused, Claim, ReadFails,
         LookupUnchanged, LookupChanged, SaveIdempotency, SaveLedger, Reload, CommitFails, Positions,
         OpenOrders, Clock, Crash, PostArrives, OrderMoves, stores, vars
  <2>7. Grows(idem, idem') /\ Grows(ledger, ledger')
    BY <2>2, <2>3, <2>4, <2>5, <2>6 DEF LookupSteps
  <2>8. ASSUME step # "down", dirLock' = "free" PROVE idem = ledger
    <3>1. dirLock = "held"
      BY <2>1, <2>8 DEF RunsAreClaimed
    <3>2. step = "clock"
      BY <1>1, <2>8, <3>1, Zenon DEF Next, RunStep, Approve, OperatorClearsLock, EnterStores, Refused, Claim,
         ReadFails, LookupUnchanged, LookupChanged, SaveIdempotency, SaveLedger, Reload, CommitFails,
         Positions, OpenOrders, Clock, Crash, PostArrives, OrderMoves, Throw, stores, loop, broker, outside, vars
    <3>3. idem = rows /\ ledger = rows
      BY <1>1, <3>2, BetweenCommits DEF PortfolioSteps
    <3>q. QED BY <3>3
  <2>q. QED BY <2>7, <2>8
<1>2. ASSUME OversightInv, [Next]_vars
      PROVE  [/\ \A t \in Target :
                   /\ Len(idem[t]') >= Len(idem[t]) /\ SubSeq(idem[t]', 1, Len(idem[t])) = idem[t]
                   /\ Len(ledger[t]') >= Len(ledger[t]) /\ SubSeq(ledger[t]', 1, Len(ledger[t])) = ledger[t]
              /\ step # "down" /\ dirLock' = "free" => idem = ledger]_vars
  BY <1>1, <1>2
<1>q. QED BY <1>2, OversightInvariant, PTL DEF Spec, HistoriesOnlyGrow
=============================================================================
