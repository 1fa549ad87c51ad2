------------------------ MODULE ScopedCloseoutProofs ------------------------
(***************************************************************************)
(* Why a scoped closeout sells nothing twice and keeps to its plan, for    *)
(* every number of targets and every quantity: NothingSentTwice and the    *)
(* refinement of ExitOnce, from an inductive invariant (CloseoutInv) that  *)
(* says what the two stores, the wire files and the POSTs that have left   *)
(* can be at each step of the adapter; what the stores hold, compared with *)
(* the broker (RecordInv): StoresAreSound, RestIsHandedOver; and the plan  *)
(* of a run (PlanInv, with the lock and the request counts): PlanIsKept.   *)
(***************************************************************************)
EXTENDS ScopedCloseout, SequenceTheorems, TLAPS

Histories == [Target -> Seq(Entry)]
Nothing == [t \in Target |-> NoRecord]

\* The variables the argument reads have their types.
Typed ==
  /\ idem \in Histories /\ ledger \in Histories /\ rows \in Histories
  /\ attemptDir \in BOOLEAN /\ wire \subseteq Target
  /\ index \in 1..(N + 1)
  /\ DOMAIN pending \subseteq Target
  /\ \A t \in DOMAIN pending : pending[t] \in Seq(Entry)
  /\ answer \in Observation /\ order \in [Target -> Observation]
  /\ net \subseteq Target
  /\ posts \in [Target -> {0, 1}]

CommitSteps == {"save_idem", "save_ledger", "reload", "receipt"}
SubmitSteps == {"send", "waiting", "answered"}

\* What the adapter awaits belongs to the controller's phase.
InStep ==
  /\ step \in {"down", "entering"} <=> phase = "CREATED"
  /\ step \in CommitSteps => phase \in PersistPhases
  /\ step \in SubmitSteps => phase = "SUBMITTING"
  /\ step = "looked" => phase = "POSTCHECK"

\* A POST that has left is known to the wire file and to both stores, whoever
\* runs now; before there is a backup directory nothing has been written.
SentIsKnown ==
  /\ \A t \in Target : posts[t] = 1 => t \in wire /\ Len(idem[t]) > 1 /\ Len(ledger[t]) > 1
  /\ \A t \in Target : t \in net \/ order[t] # NoAnswer => posts[t] = 1
  /\ ~attemptDir => idem = Nothing /\ ledger = Nothing /\ \A t \in Target : posts[t] = 0
  /\ phase # "CREATED" => attemptDir

\* What the stores hold before the commit that is under way, and after it.
Base == IF phase = "RESERVING" THEN Nothing ELSE rows
Running == phase \notin {"CREATED", "STOPPED", "COMPLETE"}

\* A commit writes the idempotency state first; at every other step of a run that has
\* not stopped the stores are what the controller believes.
StoresFollowRows ==
  Running =>
    /\ idem = IF step \in {"save_ledger", "reload", "receipt"} THEN With(Base) ELSE Base
    /\ ledger = IF step \in {"reload", "receipt"} THEN With(Base) ELSE Base

\* Targets before the current one are flat, those after it only reserved.
RowsFollowIndex ==
  /\ phase = "CREATED" => rows = Nothing /\ index = 1
  /\ phase \in {"ACCOUNT_PREFLIGHT", "INITIAL_PREFLIGHT"} =>
       rows = Nothing /\ index = 1 /\ \A t \in Target : posts[t] = 0
  /\ phase = "RESERVING" =>
       /\ rows = [t \in Target |-> <<Reservation>>] /\ pending = rows /\ index = 1
       /\ \A t \in Target : posts[t] = 0
  /\ Running => index \in Target
  /\ Running /\ phase \notin {"ACCOUNT_PREFLIGHT", "INITIAL_PREFLIGHT"} =>
       /\ \A t \in Target : t < index => PhaseOf(rows[t]) = "FLAT_RECONCILED"
       /\ \A t \in Target : t > index => rows[t] = <<Reservation>>
       /\ phase \in {"RESERVING", "REVALIDATING", "ATTEMPT_PERSIST"} => rows[index] = <<Reservation>>
       /\ phase \in {"SUBMITTING", "OBSERVATION_PERSIST", "POSTCHECK", "FINAL_PERSIST"} =>
            Len(rows[index]) > 1 /\ PhaseOf(rows[index]) # "FLAT_RECONCILED"

\* The record that is being committed lengthens the target's history by one entry, and
\* only a target whose order has left is recorded as flat.
PendingIsNext ==
  phase \in PersistPhases \ {"RESERVING"} =>
    /\ DOMAIN pending = {index}
    /\ \E e \in Entry :
         /\ pending[index] = Append(rows[index], e)
         /\ phase = "ATTEMPT_PERSIST" => e.phase = "ATTEMPTED"
         /\ phase = "OBSERVATION_PERSIST" => e.phase # "FLAT_RECONCILED"
         /\ phase = "FINAL_PERSIST" /\ e.phase = "FLAT_RECONCILED" => posts[index] = 1

\* A POST is about to leave for a target that has a wire file and no POST yet; an order
\* that was looked up has one.
SendIsFirst ==
  /\ step = "send" => index \in wire /\ posts[index] = 0
  /\ step = "looked" /\ answer # NoAnswer => posts[index] = 1

CloseoutInv ==
  Typed /\ InStep /\ SentIsKnown /\ StoresFollowRows /\ RowsFollowIndex /\ PendingIsNext /\ SendIsFirst

-----------------------------------------------------------------------------
(* Histories                                                               *)

\* The last entry of a history that is not empty is an entry.
LEMMA LastIsEntry == \A h \in Seq(Entry) : Len(h) > 0 => LastEntry(h) \in Entry /\ h # NoRecord
BY DEF LastEntry, NoRecord

\* A history that is one entry longer, and the phase it is in.
LEMMA Lengthened ==
  \A h \in Seq(Entry), e \in Entry :
    /\ Append(h, e) \in Seq(Entry) /\ Len(Append(h, e)) = Len(h) + 1
    /\ PhaseOf(Append(h, e)) = e.phase
<1> SUFFICES ASSUME NEW h \in Seq(Entry), NEW e \in Entry
             PROVE  /\ Append(h, e) \in Seq(Entry) /\ Len(Append(h, e)) = Len(h) + 1
                    /\ PhaseOf(Append(h, e)) = e.phase
  OBVIOUS
<1>1. Append(h, e) \in Seq(Entry) /\ Len(Append(h, e)) = Len(h) + 1
  OBVIOUS
<1>2. Append(h, e)[Len(h) + 1] = e
  OBVIOUS
<1>3. Append(h, e) # <<>>
  <2>1. Len(h) \in Nat /\ Len(<<>>) = 0
    OBVIOUS
  <2>q. QED BY <1>1, <2>1
<1>q. QED BY <1>1, <1>2, <1>3 DEF PhaseOf, LastEntry, NoRecord

\* A reservation is an entry, and a history that holds only one is not yet flat.
LEMMA ReservationIsEntry ==
  /\ Reservation \in Entry /\ <<Reservation>> \in Seq(Entry) /\ Len(<<Reservation>>) = 1
  /\ PhaseOf(<<Reservation>>) = "RESERVED" /\ PhaseOf(NoRecord) = "none"
<1>1. Reservation \in Entry
  BY QtyAssumption DEF Reservation, Entry, Phases, Statuses
<1>2. <<Reservation>> \in Seq(Entry) /\ Len(<<Reservation>>) = 1 /\ <<Reservation>> # <<>>
  BY <1>1
<1>3. <<Reservation>>[1] = Reservation
  OBVIOUS
<1>q. QED BY <1>1, <1>2, <1>3 DEF PhaseOf, LastEntry, NoRecord, Reservation

\* What a commit that is not the reservation writes: one entry more for the current
\* target, and nothing for the others.
LEMMA CommitWritesOne ==
  ASSUME Typed, RowsFollowIndex, PendingIsNext, phase \in PersistPhases \ {"RESERVING"},
         NEW f \in Histories
  PROVE  /\ With(f) \in Histories /\ With(f) = [f EXCEPT ![index] = pending[index]]
         /\ index \in Target /\ Len(pending[index]) > 1 /\ pending[index] \in Seq(Entry)
<1>1. index \in Target /\ DOMAIN pending = {index}
  BY DEF RowsFollowIndex, PendingIsNext, Running, PersistPhases
<1>2. PICK e \in Entry : pending[index] = Append(rows[index], e)
  BY DEF PendingIsNext
<1>3. rows[index] \in Seq(Entry) /\ Len(rows[index]) > 0
  <2>1. rows[index] \in Seq(Entry)
    BY <1>1 DEF Typed, Histories
  <2>2. rows[index] = <<Reservation>> \/ Len(rows[index]) > 1
    BY DEF RowsFollowIndex, Running, PersistPhases
  <2>q. QED BY <2>1, <2>2, ReservationIsEntry
<1>4. pending[index] \in Seq(Entry) /\ Len(pending[index]) = Len(rows[index]) + 1
  BY <1>2, <1>3, Lengthened
<1>5. With(f) = [f EXCEPT ![index] = pending[index]]
  BY <1>1 DEF With, Histories
<1>6. Len(pending[index]) > 1
  BY <1>3, <1>4
<1>7. With(f) \in Histories
  BY <1>1, <1>4, <1>5 DEF Histories
<1>q. QED BY <1>1, <1>4, <1>5, <1>6, <1>7

\* A commit keeps every history a history, makes none of a target whose order has left
\* shorter than two entries, and writing it twice is writing it once.
LEMMA CommitKeepsIntents ==
  ASSUME Typed, RowsFollowIndex, PendingIsNext, phase \in PersistPhases, NEW f \in Histories
  PROVE  /\ With(f) \in Histories /\ With(With(f)) = With(f)
         /\ \A t \in Target : posts[t] = 1 /\ Len(f[t]) > 1 => Len(With(f)[t]) > 1
<1>1. CASE phase = "RESERVING"
  <2>1. pending = [t \in Target |-> <<Reservation>>] /\ \A t \in Target : posts[t] = 0
    BY <1>1 DEF RowsFollowIndex
  <2>2. With(f) = pending
    BY <2>1 DEF With
  <2>3. With(pending) = pending
    BY <2>1 DEF With
  <2>4. pending \in Histories
    BY <2>1, ReservationIsEntry DEF Histories
  <2>q. QED BY <2>1, <2>2, <2>3, <2>4
<1>2. CASE phase # "RESERVING"
  <2>1. /\ With(f) \in Histories /\ With(f) = [f EXCEPT ![index] = pending[index]]
        /\ index \in Target /\ Len(pending[index]) > 1
    BY <1>2, CommitWritesOne
  <2>2. With(With(f)) = [With(f) EXCEPT ![index] = pending[index]]
    BY <1>2, <2>1, CommitWritesOne
  <2>3. With(With(f)) = With(f)
    BY <2>1, <2>2 DEF Histories
  <2>4. \A t \in Target : posts[t] = 1 /\ Len(f[t]) > 1 => Len(With(f)[t]) > 1
    BY <2>1 DEF Histories
  <2>q. QED BY <2>1, <2>3, <2>4
<1>q. QED BY <1>1, <1>2
-----------------------------------------------------------------------------
(* The invariant                                                           *)

LEMMA InitCloseout == Init => CloseoutInv
<1> SUFFICES ASSUME Init PROVE CloseoutInv
  OBVIOUS
<1> USE DEF Init
<1>1. idem = Nothing /\ ledger = Nothing /\ rows = Nothing /\ Nothing \in Histories
  BY DEF Nothing, Histories, NoRecord
<1>2. NoAnswer \in Observation
  BY QtyAssumption DEF NoAnswer, Observation, Statuses
<1>3. Typed
  <2>1. index \in 1..(N + 1) /\ DOMAIN pending = {}
    BY NAssumption DEF NoPending
  <2>q. QED BY <1>1, <1>2, <2>1 DEF Typed
<1>4. InStep
  BY DEF InStep, CommitSteps, SubmitSteps
<1>5. SentIsKnown
  BY <1>1 DEF SentIsKnown
<1>6. StoresFollowRows /\ RowsFollowIndex /\ PendingIsNext /\ SendIsFirst
  BY <1>1 DEF StoresFollowRows, RowsFollowIndex, PendingIsNext, SendIsFirst, Running, PersistPhases
<1>q. QED BY <1>3, <1>4, <1>5, <1>6 DEF CloseoutInv

\* A run that ends, by itself or not, loses its memory; what it leaves is all right when
\* no history of a target whose order has left became shorter than two entries.
LEMMA EndIsSafe ==
  ASSUME CloseoutInv, Down, UNCHANGED <<wire, broker>>,
         idem' \in Histories, ledger' \in Histories,
         \A t \in Target : posts[t] = 1 => Len(idem'[t]) > 1 /\ Len(ledger'[t]) > 1,
         attemptDir' \in BOOLEAN, attemptDir => attemptDir',
         ~attemptDir' => idem' = idem /\ ledger' = ledger
  PROVE  CloseoutInv'
<1> USE DEF CloseoutInv, Down
<1>1. rows' = Nothing /\ Nothing \in Histories
  BY DEF Nothing, Histories, NoRecord
<1>2. NoAnswer \in Observation
  BY QtyAssumption DEF NoAnswer, Observation, Statuses
<1>3. Typed'
  <2>1. index' \in 1..(N + 1) /\ DOMAIN pending' = {}
    BY NAssumption DEF NoPending
  <2>q. QED BY <1>1, <1>2, <2>1 DEF Typed, broker
<1>4. InStep'
  BY DEF InStep, CommitSteps, SubmitSteps
<1>5. SentIsKnown'
  BY DEF SentIsKnown, broker
<1>6. StoresFollowRows' /\ RowsFollowIndex' /\ PendingIsNext' /\ SendIsFirst'
  BY <1>1 DEF StoresFollowRows, RowsFollowIndex, PendingIsNext, SendIsFirst, Running, PersistPhases
<1>q. QED BY <1>3, <1>4, <1>5, <1>6

\* A run that leaves the stores alone may end at any step, after a mkdir or not.
LEMMA LeaveIsSafe ==
  ASSUME CloseoutInv, Down, UNCHANGED <<idem, ledger, wire, broker>>, attemptDir' \in {attemptDir, TRUE}
  PROVE  CloseoutInv'
<1>1. /\ idem' \in Histories /\ ledger' \in Histories /\ attemptDir \in BOOLEAN
      /\ \A t \in Target : posts[t] = 1 => Len(idem[t]) > 1 /\ Len(ledger[t]) > 1
  BY DEF CloseoutInv, Typed, SentIsKnown
<1>q. QED BY <1>1, EndIsSafe

\* So it may when a save has failed, whether it had replaced its file or not.
LEMMA CommitFailsSafely == CloseoutInv /\ CommitFails => CloseoutInv'
<1> SUFFICES ASSUME CloseoutInv, CommitFails PROVE CloseoutInv'
  OBVIOUS
<1>1. /\ Typed /\ RowsFollowIndex /\ PendingIsNext /\ SentIsKnown /\ InStep
  BY DEF CloseoutInv
<1>2. phase \in PersistPhases /\ attemptDir
  BY <1>1 DEF CommitFails, InStep, CommitSteps, PersistPhases, SentIsKnown
<1>3. idem \in Histories /\ ledger \in Histories /\ attemptDir \in BOOLEAN
  BY <1>1 DEF Typed
<1>4. \A f \in {idem, ledger} :
        /\ With(f) \in Histories
        /\ \A t \in Target : posts[t] = 1 /\ Len(f[t]) > 1 => Len(With(f)[t]) > 1
  BY <1>1, <1>2, <1>3, CommitKeepsIntents
<1>5. /\ idem' \in {idem, With(idem)} /\ ledger' \in {ledger, With(ledger)}
      /\ Down /\ UNCHANGED <<attemptDir, wire, broker>>
  BY DEF CommitFails, Throw
<1>6. \A t \in Target : posts[t] = 1 => Len(idem[t]) > 1 /\ Len(ledger[t]) > 1
  BY <1>1 DEF SentIsKnown
<1>7. \A t \in Target : posts[t] = 1 => Len(idem'[t]) > 1 /\ Len(ledger'[t]) > 1
  BY <1>4, <1>5, <1>6
<1>8. idem' \in Histories /\ ledger' \in Histories
  BY <1>3, <1>4, <1>5
<1>q. QED BY <1>2, <1>3, <1>5, <1>7, <1>8, EndIsSafe

LEMMA EndsSafely ==
  CloseoutInv /\ (Crash \/ Return \/ Refused \/ BackupFails \/ ReadThrows) => CloseoutInv'
<1> SUFFICES ASSUME CloseoutInv, Crash \/ Return \/ Refused \/ BackupFails \/ ReadThrows
             PROVE  CloseoutInv'
  OBVIOUS
<1>1. Down /\ UNCHANGED <<idem, ledger, wire, broker>> /\ attemptDir' \in {attemptDir, TRUE}
  BY DEF Crash, Return, Refused, BackupFails, ReadThrows, Throw, stores
<1>q. QED BY <1>1, LeaveIsSafe

\* A run that stops keeps what is on disk and asks for nothing more.
LEMMA StopIsSafe ==
  ASSUME CloseoutInv, phase # "CREATED", phase' = "STOPPED", step' = "loop",
         UNCHANGED <<stores, broker>>, index' \in 1..(N + 1), rows' \in Histories,
         UNCHANGED <<pending, answer>>
  PROVE  CloseoutInv'
<1>1. Typed'
  BY DEF CloseoutInv, Typed, stores, broker
<1>2. InStep' /\ SendIsFirst'
  BY DEF InStep, SendIsFirst, CommitSteps, SubmitSteps
<1>3. SentIsKnown'
  BY DEF CloseoutInv, SentIsKnown, stores, broker
<1>4. StoresFollowRows' /\ RowsFollowIndex' /\ PendingIsNext'
  BY DEF StoresFollowRows, RowsFollowIndex, PendingIsNext, Running, PersistPhases
<1>q. QED BY <1>1, <1>2, <1>3, <1>4 DEF CloseoutInv

\* A run that has not read anything yet: the stores as it finds them.
LEMMA StartsSafely ==
  CloseoutInv /\ (EnterStores \/ OperatorClearsLock \/ Backup) => CloseoutInv'
<1> SUFFICES ASSUME CloseoutInv, EnterStores \/ OperatorClearsLock \/ Backup PROVE CloseoutInv'
  OBVIOUS
<1> USE DEF CloseoutInv
<1>1. CASE EnterStores \/ OperatorClearsLock
  <2>1. UNCHANGED <<stores, control, answer, transport, broker>>
    BY <1>1 DEF EnterStores, OperatorClearsLock
  <2>2. UNCHANGED <<idem, ledger, attemptDir, wire, phase, index, rows, pending, answer, net, order, posts>>
    BY <2>1 DEF stores, control, broker
  <2>3. step' = step \/ (step = "down" /\ step' = "entering")
    BY <1>1 DEF EnterStores, OperatorClearsLock
  <2>4. Typed' /\ SentIsKnown' /\ RowsFollowIndex' /\ PendingIsNext'
    BY <2>2 DEF Typed, SentIsKnown, RowsFollowIndex, PendingIsNext, Running
  <2>5. InStep' /\ SendIsFirst'
    BY <2>2, <2>3 DEF InStep, SendIsFirst, CommitSteps, SubmitSteps
  <2>6. step' \in CommitSteps => step' = step
    BY <2>3 DEF CommitSteps
  <2>7. Base' = Base /\ With(Base)' = With(Base)
    BY <2>2 DEF Base, With
  <2>8. StoresFollowRows'
    BY <2>2, <2>3, <2>7 DEF StoresFollowRows, Running
  <2>q. QED BY <2>4, <2>5, <2>8
<1>2. CASE Backup
  <2>1. /\ phase = "CREATED" /\ rows = Nothing /\ index = 1
        /\ idem = Nothing /\ ledger = Nothing /\ \A t \in Target : posts[t] = 0
    <3>1. ~attemptDir /\ step = "entering"
      BY <1>2 DEF Backup, ExistingAttempt
    <3>q. QED BY <3>1 DEF SentIsKnown, InStep, RowsFollowIndex
  <2>2. /\ phase' = "ACCOUNT_PREFLIGHT" /\ step' = "loop" /\ attemptDir'
        /\ UNCHANGED <<idem, ledger, wire, index, rows, pending, answer, net, order, posts>>
    BY <1>2 DEF Backup, broker
  <2>3. Typed' /\ SentIsKnown'
    BY <1>2, <2>1, <2>2 DEF Typed, SentIsKnown, Backup
  <2>4. InStep' /\ SendIsFirst' /\ PendingIsNext'
    BY <2>2 DEF InStep, SendIsFirst, CommitSteps, SubmitSteps, PendingIsNext, PersistPhases
  <2>5. RowsFollowIndex' /\ StoresFollowRows'
    BY <2>1, <2>2, NAssumption DEF RowsFollowIndex, StoresFollowRows, Base, Running, Target
  <2>q. QED BY <2>3, <2>4, <2>5
<1>q. QED BY <1>1, <1>2

\* Network and broker: an order exists only where a POST has left.
LEMMA BrokerIsSafe == CloseoutInv /\ BrokerStep => CloseoutInv'
<1> SUFFICES ASSUME CloseoutInv, BrokerStep PROVE CloseoutInv'
  OBVIOUS
<1> USE DEF CloseoutInv
<1>1. UNCHANGED <<idem, ledger, attemptDir, wire, step, phase, index, rows, pending, answer, posts>>
  BY DEF BrokerStep, PostArrives, PostIsDropped, OrderMoves, stores, control
<1>2. /\ net' \subseteq net /\ order' \in [Target -> Observation]
      /\ \A t \in Target : order'[t] # NoAnswer => order[t] # NoAnswer \/ t \in net
  <2>1. CASE PostArrives
    <3>1. [status |-> "accepted", filled |-> 0] \in Observation
      BY QtyAssumption DEF Observation, Statuses
    <3>q. QED BY <2>1, <3>1 DEF PostArrives, Typed
  <2>2. CASE PostIsDropped
    BY <2>2 DEF PostIsDropped, Typed
  <2>3. CASE OrderMoves
    <3>1. \A t \in Target : Open(t) => order[t] # NoAnswer
      BY DEF Open, NoAnswer
    <3>q. QED BY <2>3, <3>1 DEF OrderMoves, Typed
  <2>q. QED BY <2>1, <2>2, <2>3 DEF BrokerStep
<1>3. Typed'
  BY <1>1, <1>2 DEF Typed
<1>4. SentIsKnown'
  BY <1>1, <1>2 DEF SentIsKnown
<1>5. InStep' /\ RowsFollowIndex' /\ PendingIsNext' /\ SendIsFirst'
  BY <1>1 DEF InStep, RowsFollowIndex, PendingIsNext, SendIsFirst, Running
<1>6. StoresFollowRows'
  BY <1>1 DEF StoresFollowRows, Running, Base, With
<1>q. QED BY <1>3, <1>4, <1>5, <1>6

\* What the controller reads before it writes.
LEMMA PreparesSafely ==
  CloseoutInv /\ (AccountReady \/ InitialPreflight \/ Preflight \/ Expire) => CloseoutInv'
<1> SUFFICES ASSUME CloseoutInv, AccountReady \/ InitialPreflight \/ Preflight \/ Expire
             PROVE  CloseoutInv'
  OBVIOUS
<1> USE DEF CloseoutInv
<1>1. CASE phase' = "STOPPED"
  <2>1. UNCHANGED <<stores, broker, index, rows, pending, answer>> /\ step' = "loop" /\ phase # "CREATED"
    BY <1>1 DEF AccountReady, InitialPreflight, Preflight, Expire, InStep
  <2>2. index \in 1..(N + 1) /\ rows \in Histories
    BY DEF Typed
  <2>q. QED BY <1>1, <2>1, <2>2, StopIsSafe
<1>2. CASE AccountReady /\ phase' # "STOPPED"
  <2>1. /\ phase = "ACCOUNT_PREFLIGHT" /\ phase' = "INITIAL_PREFLIGHT" /\ step = "loop" /\ step' = "loop"
        /\ UNCHANGED <<idem, ledger, attemptDir, wire, index, rows, pending, answer, net, order, posts>>
    BY <1>2 DEF AccountReady, Issue, Stop, stores, broker
  <2>2. Typed' /\ SentIsKnown' /\ InStep' /\ SendIsFirst' /\ PendingIsNext'
    BY <2>1 DEF Typed, SentIsKnown, InStep, SendIsFirst, PendingIsNext, PersistPhases, CommitSteps, SubmitSteps
  <2>3. RowsFollowIndex' /\ StoresFollowRows'
    BY <2>1 DEF RowsFollowIndex, StoresFollowRows, Base, Running
  <2>q. QED BY <2>2, <2>3
<1>3. CASE InitialPreflight
  <2>1. /\ phase = "INITIAL_PREFLIGHT" /\ phase' = "RESERVING" /\ step = "loop" /\ step' = "loop"
        /\ rows' = [t \in Target |-> <<Reservation>>] /\ pending' = rows'
        /\ UNCHANGED <<idem, ledger, attemptDir, wire, index, answer, net, order, posts>>
    BY <1>3 DEF InitialPreflight, stores, broker
  <2>2. /\ rows = Nothing /\ index = 1 /\ idem = Nothing /\ ledger = Nothing
        /\ \A t \in Target : posts[t] = 0
    BY <2>1 DEF RowsFollowIndex, StoresFollowRows, Base, Running
  <2>3. rows' \in Histories
    BY <2>1, ReservationIsEntry DEF Histories
  <2>4. Typed'
    BY <2>1, <2>3 DEF Typed, Histories
  <2>5. SentIsKnown' /\ InStep' /\ SendIsFirst' /\ PendingIsNext'
    BY <2>1 DEF SentIsKnown, InStep, SendIsFirst, PendingIsNext, PersistPhases, CommitSteps, SubmitSteps
  <2>6. StoresFollowRows'
    BY <2>1, <2>2 DEF StoresFollowRows, Base
  <2>7. RowsFollowIndex'
    BY <2>1, <2>2, NAssumption DEF RowsFollowIndex, Running, Target
  <2>q. QED BY <2>4, <2>5, <2>6, <2>7
<1>4. CASE Preflight
  <2>1. /\ phase = "REVALIDATING" /\ phase' = "ATTEMPT_PERSIST" /\ step = "loop" /\ step' = "loop"
        /\ pending' = Only(index, Appended("ATTEMPTED", Known(index)))
        /\ UNCHANGED <<idem, ledger, attemptDir, wire, index, rows, answer, net, order, posts>>
    BY <1>4 DEF Preflight, stores, broker
  <2>2. index \in Target /\ rows[index] = <<Reservation>>
    BY <2>1 DEF RowsFollowIndex, Running
  <2> DEFINE e == [phase |-> "ATTEMPTED", status |-> Known(index).status, filled |-> Known(index).filled]
  <2>3. e \in Entry /\ e.phase = "ATTEMPTED" /\ rows[index] \in Seq(Entry)
    <3>1. rows[index] \in Seq(Entry) /\ Len(rows[index]) > 0
      BY <2>2, ReservationIsEntry
    <3>2. LastEntry(rows[index]) \in Entry
      BY <3>1, LastIsEntry
    <3>q. QED BY <3>1, <3>2 DEF Entry, Known, Phases
  <2>4. DOMAIN pending' = {index} /\ pending'[index] = Append(rows[index], e)
    BY <2>1 DEF Only, Appended
  <2>5. pending'[index] \in Seq(Entry)
    BY <2>3, <2>4, Lengthened
  <2> HIDE DEF e
  <2>6. Typed'
    BY <2>1, <2>2, <2>4, <2>5 DEF Typed
  <2>7. SentIsKnown' /\ InStep' /\ SendIsFirst'
    BY <2>1 DEF SentIsKnown, InStep, SendIsFirst, PersistPhases, CommitSteps, SubmitSteps
  <2>8. PendingIsNext'
    BY <2>1, <2>3, <2>4 DEF PendingIsNext
  <2>9. StoresFollowRows' /\ RowsFollowIndex'
    BY <2>1, <2>2 DEF StoresFollowRows, RowsFollowIndex, Base, Running
  <2>q. QED BY <2>6, <2>7, <2>8, <2>9
<1>5. Expire => phase' = "STOPPED"
  BY DEF Expire, Stop
<1>q. QED BY <1>1, <1>2, <1>3, <1>4, <1>5

\* A commit under way: the idempotency state first, then the ledger, then both again.
LEMMA CommitsSafely ==
  CloseoutInv /\ (BeginCommit \/ SaveIdempotency \/ SaveLedger \/ Reload) => CloseoutInv'
<1> SUFFICES ASSUME CloseoutInv, BeginCommit \/ SaveIdempotency \/ SaveLedger \/ Reload
             PROVE  CloseoutInv'
  OBVIOUS
<1>a. /\ Typed /\ InStep /\ SentIsKnown /\ StoresFollowRows /\ RowsFollowIndex
      /\ PendingIsNext /\ SendIsFirst
  BY DEF CloseoutInv
<1>1. CASE BeginCommit /\ ~StoresAccept
  <2>1. Down /\ UNCHANGED <<idem, ledger, wire, broker>> /\ attemptDir' = attemptDir
    BY <1>1 DEF BeginCommit, Throw, stores
  <2>q. QED BY <2>1, LeaveIsSafe
<1>2. CASE ~(BeginCommit /\ ~StoresAccept)
  <2>1. /\ UNCHANGED <<attemptDir, wire, phase, index, rows, pending, answer, net, order, posts>>
        /\ phase \in PersistPhases
        /\ step \in {"loop", "save_idem", "save_ledger", "reload"}
        /\ step' \in CommitSteps
    BY <1>a, <1>2 DEF BeginCommit, SaveIdempotency, SaveLedger, Reload, stores, control, broker,
       InStep, CommitSteps
  <2>2. Base \in Histories /\ With(Base) \in Histories /\ Base' = Base /\ With(Base)' = With(Base)
    <3>1. Base \in Histories
      BY <1>a DEF Base, Typed, Nothing, Histories, NoRecord
    <3>2. With(Base) \in Histories
      BY <1>a, <2>1, <3>1, CommitKeepsIntents
    <3>q. QED BY <2>1, <3>1, <3>2 DEF Base, With
  <2>3. Running
    BY <2>1 DEF Running, PersistPhases
  <2>4. /\ idem' = IF step' \in {"save_ledger", "reload", "receipt"} THEN With(Base) ELSE Base
        /\ ledger' = IF step' \in {"reload", "receipt"} THEN With(Base) ELSE Base
    <3>1. /\ idem = IF step \in {"save_ledger", "reload", "receipt"} THEN With(Base) ELSE Base
          /\ ledger = IF step \in {"reload", "receipt"} THEN With(Base) ELSE Base
      BY <1>a, <2>3 DEF StoresFollowRows
    <3>2. CASE BeginCommit
      BY <1>2, <3>1, <3>2 DEF BeginCommit, stores
    <3>3. CASE SaveIdempotency
      <4>1. idem = Base /\ ledger = Base
        BY <3>1, <3>3 DEF SaveIdempotency
      <4>q. QED BY <3>3, <4>1 DEF SaveIdempotency
    <3>4. CASE SaveLedger
      <4>1. idem = With(Base) /\ ledger = Base
        BY <3>1, <3>4 DEF SaveLedger
      <4>q. QED BY <3>4, <4>1 DEF SaveLedger
    <3>5. CASE Reload
      BY <3>1, <3>5 DEF Reload, stores
    <3>q. QED BY <3>2, <3>3, <3>4, <3>5
  <2>5. idem' \in {Base, With(Base)} /\ ledger' \in {Base, With(Base)}
    BY <2>4
  <2>6. Typed'
    BY <1>a, <2>1, <2>2, <2>5 DEF Typed
  <2>7. SentIsKnown'
    <3>1. idem' \in {idem, With(idem)} /\ ledger' \in {ledger, With(ledger)}
      BY <1>2 DEF BeginCommit, SaveIdempotency, SaveLedger, Reload, stores
    <3>2. \A f \in {idem, ledger} : \A t \in Target :
            posts[t] = 1 /\ Len(f[t]) > 1 => Len(With(f)[t]) > 1
      BY <1>a, <2>1, CommitKeepsIntents DEF Typed
    <3>3. \A t \in Target : posts[t] = 1 => t \in wire /\ Len(idem[t]) > 1 /\ Len(ledger[t]) > 1
      BY <1>a DEF SentIsKnown
    <3>4. \A t \in Target : posts[t] = 1 => Len(idem'[t]) > 1 /\ Len(ledger'[t]) > 1
      BY <3>1, <3>2, <3>3
    <3>5. phase # "CREATED"
      BY <2>1 DEF PersistPhases
    <3>q. QED BY <1>a, <2>1, <3>3, <3>4, <3>5 DEF SentIsKnown
  <2>8. InStep' /\ SendIsFirst'
    BY <2>1 DEF InStep, SendIsFirst, CommitSteps, SubmitSteps, PersistPhases
  <2>9. RowsFollowIndex' /\ PendingIsNext'
    BY <1>a, <2>1 DEF RowsFollowIndex, PendingIsNext, Running
  <2>10. StoresFollowRows'
    BY <2>2, <2>4 DEF StoresFollowRows
  <2>q. QED BY <2>6, <2>7, <2>8, <2>9, <2>10 DEF CloseoutInv
<1>q. QED BY <1>1, <1>2

\* With the receipt of the stores the controller takes over what they hold.
LEMMA ReceiptsAreSafe ==
  CloseoutInv /\ (Reserved \/ AttemptRecorded \/ ObservationRecorded \/ FinalRecorded) => CloseoutInv'
<1> SUFFICES ASSUME CloseoutInv, Reserved \/ AttemptRecorded \/ ObservationRecorded \/ FinalRecorded
             PROVE  CloseoutInv'
  OBVIOUS
<1>a. /\ Typed /\ InStep /\ SentIsKnown /\ StoresFollowRows /\ RowsFollowIndex
      /\ PendingIsNext /\ SendIsFirst
  BY DEF CloseoutInv
<1>b. /\ step = "receipt" /\ step' = "loop"
      /\ UNCHANGED <<idem, ledger, attemptDir, wire, pending, answer, net, order, posts>>
  BY DEF Reserved, AttemptRecorded, ObservationRecorded, FinalRecorded, stores, broker
<1>c. /\ phase \in PersistPhases /\ Running /\ index \in Target
  BY <1>a, <1>b DEF InStep, CommitSteps, Running, PersistPhases, RowsFollowIndex
<1>d. idem = With(Base) /\ ledger = With(Base)
  BY <1>a, <1>b, <1>c DEF StoresFollowRows
<1>1. CASE Reserved
  <2>1. phase = "RESERVING" /\ phase' \in {"REVALIDATING", "STOPPED"} /\ UNCHANGED <<index, rows>>
    BY <1>1 DEF Reserved, Issue, Stop
  <2>2. CASE phase' = "STOPPED"
    <3>1. index' \in 1..(N + 1) /\ rows' \in Histories
      BY <1>a, <2>1 DEF Typed
    <3>q. QED BY <1>b, <2>1, <2>2, <3>1, StopIsSafe DEF stores, broker
  <2>3. CASE phase' = "REVALIDATING"
    <3>1. /\ rows = [t \in Target |-> <<Reservation>>] /\ pending = rows /\ index = 1
      BY <1>a, <2>1 DEF RowsFollowIndex
    <3>2. With(Base) = rows
      BY <3>1 DEF With
    <3>3. Typed' /\ SentIsKnown'
      BY <1>a, <1>b, <2>1 DEF Typed, SentIsKnown
    <3>4. InStep' /\ SendIsFirst' /\ PendingIsNext'
      BY <1>b, <2>3 DEF InStep, SendIsFirst, PendingIsNext, CommitSteps, SubmitSteps, PersistPhases
    <3>5. StoresFollowRows'
      BY <1>b, <1>d, <2>1, <2>3, <3>2 DEF StoresFollowRows, Base
    <3>6. RowsFollowIndex'
      BY <1>c, <2>1, <2>3, <3>1 DEF RowsFollowIndex, Running, Target
    <3>q. QED BY <3>3, <3>4, <3>5, <3>6 DEF CloseoutInv
  <2>q. QED BY <2>1, <2>2, <2>3
<1>2. CASE AttemptRecorded \/ ObservationRecorded \/ FinalRecorded
  <2>1. /\ phase \in PersistPhases \ {"RESERVING"} /\ rows' = [rows EXCEPT ![index] = pending[index]]
    BY <1>2 DEF AttemptRecorded, ObservationRecorded, FinalRecorded, PersistPhases
  <2>2. Base = rows /\ rows \in Histories
    BY <1>a, <2>1 DEF Base, Typed
  <2>3. /\ With(rows) = rows' /\ rows' \in Histories
        /\ rows'[index] = pending[index] /\ Len(rows'[index]) > 1
        /\ \A t \in Target \ {index} : rows'[t] = rows[t]
    <3>1. /\ With(rows) \in Histories /\ With(rows) = [rows EXCEPT ![index] = pending[index]]
          /\ index \in Target /\ Len(pending[index]) > 1
      BY <1>a, <2>1, <2>2, CommitWritesOne
    <3>q. QED BY <2>1, <2>2, <3>1 DEF Histories
  <2>4. idem = rows' /\ ledger = rows'
    BY <1>d, <2>2, <2>3
  <2>5. PICK e \in Entry :
          /\ pending[index] = Append(rows[index], e)
          /\ phase = "ATTEMPT_PERSIST" => e.phase = "ATTEMPTED"
          /\ phase = "OBSERVATION_PERSIST" => e.phase # "FLAT_RECONCILED"
    BY <1>a, <2>1 DEF PendingIsNext
  <2>6. PhaseOf(rows'[index]) = e.phase
    <3>1. rows[index] \in Seq(Entry)
      BY <1>c, <2>2 DEF Histories
    <3>q. QED BY <2>3, <2>5, <3>1, Lengthened
  <2>7. /\ \A t \in Target : t < index => PhaseOf(rows[t]) = "FLAT_RECONCILED"
        /\ \A t \in Target : t > index => rows[t] = <<Reservation>>
    BY <1>a, <1>c, <2>1 DEF RowsFollowIndex, PersistPhases
  <2>8. CASE phase' = "STOPPED"
    <3>1. index' \in {index, index + 1} /\ index \in Target
      BY <1>2, <1>c DEF AttemptRecorded, ObservationRecorded, FinalRecorded
    <3>2. index' \in 1..(N + 1) /\ rows' \in Histories
      BY <2>3, <3>1, NAssumption DEF Target
    <3>3. phase # "CREATED"
      BY <1>c DEF Running
    <3>q. QED BY <1>b, <2>8, <3>2, <3>3, StopIsSafe DEF stores, broker
  <2>9. CASE phase' # "STOPPED" /\ (AttemptRecorded \/ ObservationRecorded)
    <3>1. /\ index' = index
          /\ \/ phase = "ATTEMPT_PERSIST" /\ phase' = "SUBMITTING"
             \/ phase = "OBSERVATION_PERSIST" /\ phase' = "POSTCHECK"
      BY <2>9 DEF AttemptRecorded, ObservationRecorded, Issue, Stop
    <3>2. PhaseOf(rows'[index]) # "FLAT_RECONCILED"
      BY <2>5, <2>6, <3>1
    <3>3. Typed'
      BY <1>a, <1>b, <2>3, <3>1 DEF Typed
    <3>4. SentIsKnown' /\ InStep' /\ SendIsFirst' /\ PendingIsNext'
      BY <1>a, <1>b, <1>c, <3>1 DEF SentIsKnown, InStep, SendIsFirst, PendingIsNext, CommitSteps, SubmitSteps,
         PersistPhases, Running
    <3>5. StoresFollowRows'
      BY <1>b, <2>4, <3>1 DEF StoresFollowRows, Base
    <3>6. RowsFollowIndex'
      BY <1>c, <2>3, <2>7, <3>1, <3>2 DEF RowsFollowIndex, Running, Target
    <3>q. QED BY <3>3, <3>4, <3>5, <3>6 DEF CloseoutInv
  <2>10. CASE phase' # "STOPPED" /\ FinalRecorded
    <3>1. /\ index' = index + 1 /\ PhaseOf(rows'[index]) = "FLAT_RECONCILED"
          /\ \/ index = N /\ phase' = "COMPLETE"
             \/ index # N /\ phase' = "REVALIDATING"
      <4>1. LastEntry(pending[index]).phase = "FLAT_RECONCILED"
        BY <2>10 DEF FinalRecorded
      <4>2. pending[index] # NoRecord
        <5>1. Len(NoRecord) = 0
          BY DEF NoRecord
        <5>q. QED BY <2>3, <5>1
      <4>q. QED BY <2>3, <2>10, <4>1, <4>2 DEF FinalRecorded, Issue, Stop, PhaseOf
    <3>2. index' \in 1..(N + 1) /\ (index # N => index' \in Target)
      BY <1>c, <3>1, NAssumption DEF Target
    <3>3. Typed'
      BY <1>a, <1>b, <2>3, <3>2 DEF Typed
    <3>4. SentIsKnown' /\ InStep' /\ SendIsFirst' /\ PendingIsNext'
      BY <1>a, <1>b, <1>c, <3>1 DEF SentIsKnown, InStep, SendIsFirst, PendingIsNext, CommitSteps, SubmitSteps,
         PersistPhases, Running
    <3>5. StoresFollowRows'
      BY <1>b, <2>4, <3>1 DEF StoresFollowRows, Base
    <3>6. phase' = "REVALIDATING" =>
            /\ \A t \in Target : t < index' => PhaseOf(rows'[t]) = "FLAT_RECONCILED"
            /\ \A t \in Target : t > index' => rows'[t] = <<Reservation>>
            /\ rows'[index'] = <<Reservation>>
      <4>1. \A t \in Target : t < index' => t < index \/ t = index
        BY <1>c, <3>1, NAssumption DEF Target
      <4>2. \A t \in Target : t > index' \/ t = index' => t > index /\ t # index
        BY <1>c, <3>1, NAssumption DEF Target
      <4>3. \A t \in Target : t < index => t # index
        BY <1>c, NAssumption DEF Target
      <4>q. QED BY <2>3, <2>7, <3>1, <3>2, <4>1, <4>2, <4>3
    <3>7. RowsFollowIndex'
      BY <3>1, <3>2, <3>6 DEF RowsFollowIndex, Running
    <3>q. QED BY <3>3, <3>4, <3>5, <3>7 DEF CloseoutInv
  <2>q. QED BY <1>2, <2>8, <2>9, <2>10
<1>q. QED BY <1>1, <1>2

\* The POST leaves once: the wire file that Gate creates is new, and a target whose
\* POST has left has one.
LEMMA SubmitsSafely ==
  CloseoutInv /\ (Gate \/ GateFails \/ Send \/ AnswerArrives \/ AnswerIsLost) => CloseoutInv'
<1> SUFFICES ASSUME CloseoutInv, Gate \/ GateFails \/ Send \/ AnswerArrives \/ AnswerIsLost
             PROVE  CloseoutInv'
  OBVIOUS
<1>a. /\ Typed /\ InStep /\ SentIsKnown /\ StoresFollowRows /\ RowsFollowIndex
      /\ PendingIsNext /\ SendIsFirst
  BY DEF CloseoutInv
<1>b. /\ phase = "SUBMITTING" /\ step \in {"loop", "send", "waiting"}
      /\ step' \in {"send", "waiting", "answered"}
      /\ UNCHANGED <<idem, ledger, attemptDir, phase, index, rows, pending, order>>
  BY <1>a DEF Gate, GateFails, Send, AnswerArrives, AnswerIsLost, stores, control, broker, InStep, SubmitSteps
<1>c. /\ index \in Target /\ idem = rows /\ ledger = rows /\ Len(rows[index]) > 1
  BY <1>a, <1>b DEF RowsFollowIndex, StoresFollowRows, Base, Running
<1>d. StoresFollowRows' /\ PendingIsNext'
  BY <1>b, <1>c DEF StoresFollowRows, Base, PendingIsNext, PersistPhases
<1>e. InStep'
  BY <1>b DEF InStep, CommitSteps, SubmitSteps
<1>f. RowsFollowIndex'
  BY <1>a, <1>b DEF RowsFollowIndex, Running
<1>1. CASE Gate
  <2>1. /\ index \notin wire /\ wire' = wire \cup {index} /\ step' = "send"
        /\ UNCHANGED <<answer, net, posts>>
    BY <1>1 DEF Gate, broker
  <2>2. posts[index] = 0
    BY <1>a, <1>c, <2>1 DEF SentIsKnown, Typed
  <2>3. Typed'
    BY <1>a, <1>b, <1>c, <2>1 DEF Typed
  <2>4. SentIsKnown' /\ SendIsFirst'
    BY <1>a, <1>b, <2>1, <2>2 DEF SentIsKnown, SendIsFirst
  <2>q. QED BY <1>d, <1>e, <1>f, <2>3, <2>4 DEF CloseoutInv
<1>2. CASE Send
  <2>1. /\ step = "send" /\ step' = "waiting" /\ posts' = [posts EXCEPT ![index] = @ + 1]
        /\ net' = net \cup {index} /\ UNCHANGED <<wire, answer>>
    BY <1>2 DEF Send, stores
  <2>2. index \in wire /\ posts[index] = 0
    BY <1>a, <2>1 DEF SendIsFirst
  <2>3. posts' = [posts EXCEPT ![index] = 1]
    BY <1>a, <1>c, <2>1, <2>2 DEF Typed
  <2>4. Typed'
    BY <1>a, <1>b, <1>c, <2>1, <2>3 DEF Typed
  <2>5. SendIsFirst'
    BY <2>1 DEF SendIsFirst
  <2>6. SentIsKnown'
    <3>1. attemptDir
      BY <1>a, <1>b DEF SentIsKnown
    <3>2. \A t \in Target : posts'[t] = (IF t = index THEN 1 ELSE posts[t])
      BY <1>a, <1>c, <2>3 DEF Typed
    <3>q. QED BY <1>a, <1>b, <1>c, <2>1, <2>2, <3>1, <3>2 DEF SentIsKnown
  <2>q. QED BY <1>d, <1>e, <1>f, <2>4, <2>5, <2>6 DEF CloseoutInv
<1>3. CASE GateFails \/ AnswerArrives \/ AnswerIsLost
  <2>1. step' = "answered" /\ answer' \in {NoAnswer, order[index]} /\ UNCHANGED <<wire, net, posts>>
    BY <1>3 DEF GateFails, AnswerArrives, AnswerIsLost, stores, broker
  <2>2. answer' \in Observation
    <3>1. NoAnswer \in Observation
      BY QtyAssumption DEF NoAnswer, Observation, Statuses
    <3>q. QED BY <1>a, <1>c, <2>1, <3>1 DEF Typed
  <2>3. Typed'
    BY <1>a, <1>b, <2>1, <2>2 DEF Typed
  <2>4. SentIsKnown' /\ SendIsFirst'
    BY <1>a, <1>b, <2>1 DEF SentIsKnown, SendIsFirst
  <2>q. QED BY <1>d, <1>e, <1>f, <2>3, <2>4 DEF CloseoutInv
<1>q. QED BY <1>1, <1>2, <1>3

\* A record for the current target that says p of an observation o.
LEMMA NextRecord ==
  ASSUME Typed, index \in Target, Len(rows[index]) > 1,
         NEW p \in Phases, NEW o \in {answer, Known(index)},
         pending' = Only(index, Appended(p, o))
  PROVE  /\ DOMAIN pending' = {index} /\ pending'[index] \in Seq(Entry)
         /\ \E e \in Entry : pending'[index] = Append(rows[index], e) /\ e.phase = p
<1>1. rows[index] \in Seq(Entry) /\ Len(rows[index]) > 0
  BY DEF Typed, Histories
<1>2. LastEntry(rows[index]) \in Entry
  BY <1>1, LastIsEntry
<1> DEFINE e == [phase |-> p, status |-> o.status, filled |-> o.filled]
<1>3. e \in Entry /\ e.phase = p
  BY <1>2 DEF Typed, Observation, Known, Entry
<1>4. DOMAIN pending' = {index} /\ pending'[index] = Append(rows[index], e)
  BY DEF Only, Appended
<1>q. QED BY <1>1, <1>3, <1>4, Lengthened

\* What was observed of an order becomes the next record; FLAT_RECONCILED needs an
\* order, and an order a POST that has left.
LEMMA ObservesSafely == CloseoutInv /\ (SubmitResult \/ Lookup \/ Postcheck) => CloseoutInv'
<1> SUFFICES ASSUME CloseoutInv, SubmitResult \/ Lookup \/ Postcheck PROVE CloseoutInv'
  OBVIOUS
<1>a. /\ Typed /\ InStep /\ SentIsKnown /\ StoresFollowRows /\ RowsFollowIndex
      /\ PendingIsNext /\ SendIsFirst
  BY DEF CloseoutInv
<1>b. /\ phase \in {"SUBMITTING", "POSTCHECK"} /\ step \in {"answered", "loop", "looked"}
      /\ UNCHANGED <<idem, ledger, attemptDir, wire, index, rows, net, order, posts>>
  BY <1>a DEF SubmitResult, Lookup, Postcheck, stores, control, broker, InStep, SubmitSteps
<1>c. /\ index \in Target /\ idem = rows /\ ledger = rows
      /\ Len(rows[index]) > 1 /\ PhaseOf(rows[index]) # "FLAT_RECONCILED"
  BY <1>a, <1>b DEF RowsFollowIndex, StoresFollowRows, Base, Running
<1>d. SentIsKnown'
  BY <1>a, <1>b DEF SentIsKnown
<1>1. CASE Lookup
  <2>1. /\ phase = "POSTCHECK" /\ phase' = phase /\ pending' = pending /\ step' = "looked"
        /\ answer' \in {NoAnswer, order[index]}
    BY <1>1 DEF Lookup, control
  <2>2. answer' \in Observation
    <3>1. NoAnswer \in Observation
      BY QtyAssumption DEF NoAnswer, Observation, Statuses
    <3>q. QED BY <1>a, <1>c, <2>1, <3>1 DEF Typed
  <2>3. Typed' /\ InStep'
    BY <1>a, <1>b, <2>1, <2>2 DEF Typed, InStep, CommitSteps, SubmitSteps
  <2>4. SendIsFirst'
    BY <1>a, <1>b, <1>c, <2>1 DEF SendIsFirst, SentIsKnown
  <2>5. StoresFollowRows' /\ RowsFollowIndex' /\ PendingIsNext'
    BY <1>a, <1>b, <1>c, <2>1 DEF StoresFollowRows, Base, RowsFollowIndex, PendingIsNext, PersistPhases, Running
  <2>q. QED BY <1>d, <2>3, <2>4, <2>5 DEF CloseoutInv
<1>2. CASE SubmitResult \/ Postcheck
  <2>1. /\ answer' = answer /\ step' = "loop" /\ phase' \in {"OBSERVATION_PERSIST", "FINAL_PERSIST"}
        /\ SubmitResult => phase' = "OBSERVATION_PERSIST"
        /\ Postcheck => phase' = "FINAL_PERSIST"
    BY <1>2 DEF SubmitResult, Postcheck
  <2>2. PICK p \in {"OBSERVED", "STOPPED", "FLAT_RECONCILED"}, o \in {answer, Known(index)} :
          /\ pending' = Only(index, Appended(p, o))
          /\ SubmitResult => p # "FLAT_RECONCILED"
          /\ p = "FLAT_RECONCILED" => step = "looked" /\ answer # NoAnswer
    <3>1. CASE SubmitResult
      <4>1. step = "answered"
        BY <3>1 DEF SubmitResult
      <4>2. \/ pending' = Only(index, Appended("OBSERVED", answer))
            \/ pending' = Only(index, Appended("STOPPED", Known(index)))
        BY <3>1 DEF SubmitResult
      <4>q. QED BY <4>1, <4>2
    <3>2. CASE Postcheck
      <4>1. step = "looked" /\ ~SubmitResult
        BY <3>2 DEF Postcheck, SubmitResult
      <4>2. \/ pending' = Only(index, Appended("FLAT_RECONCILED", answer)) /\ answer.status = "filled"
            \/ pending' = Only(index, Appended("STOPPED", answer))
            \/ pending' = Only(index, Appended("STOPPED", Known(index)))
        BY <3>2 DEF Postcheck
      <4>3. answer.status = "filled" => answer # NoAnswer
        BY DEF NoAnswer
      <4>q. QED BY <4>1, <4>2, <4>3
    <3>q. QED BY <1>2, <3>1, <3>2
  <2>3. /\ DOMAIN pending' = {index} /\ pending'[index] \in Seq(Entry)
        /\ \E e \in Entry : pending'[index] = Append(rows[index], e) /\ e.phase = p
    <3>1. p \in Phases
      BY DEF Phases
    <3>q. QED BY <1>a, <1>c, <2>2, <3>1, NextRecord
  <2>4. p = "FLAT_RECONCILED" => posts[index] = 1 /\ phase' = "FINAL_PERSIST"
    BY <1>2, <1>a, <2>1, <2>2 DEF SendIsFirst
  <2>5. PendingIsNext'
    <3>1. PICK e \in Entry : pending'[index] = Append(rows[index], e) /\ e.phase = p
      BY <2>3
    <3>q. QED BY <1>b, <2>1, <2>3, <2>4, <3>1 DEF PendingIsNext
  <2>6. Typed' /\ InStep' /\ SendIsFirst'
    BY <1>a, <1>b, <1>c, <2>1, <2>3 DEF Typed, InStep, SendIsFirst, CommitSteps, SubmitSteps, PersistPhases
  <2>7. StoresFollowRows' /\ RowsFollowIndex'
    BY <1>a, <1>b, <1>c, <2>1 DEF StoresFollowRows, Base, RowsFollowIndex, Running
  <2>q. QED BY <1>d, <2>5, <2>6, <2>7 DEF CloseoutInv
<1>q. QED BY <1>1, <1>2

LEMMA CloseoutStep == CloseoutInv /\ [Next]_vars => CloseoutInv'
<1> SUFFICES ASSUME CloseoutInv, [Next]_vars PROVE CloseoutInv'
  OBVIOUS
<1>1. CASE UNCHANGED vars
  <2>1. UNCHANGED <<idem, ledger, attemptDir, wire, step, phase, index, rows, pending, answer, net, order, posts>>
    BY <1>1 DEF vars
  <2>2. Typed' /\ InStep' /\ SentIsKnown' /\ RowsFollowIndex' /\ PendingIsNext' /\ SendIsFirst'
    BY <2>1 DEF CloseoutInv, Typed, InStep, SentIsKnown, RowsFollowIndex, PendingIsNext, SendIsFirst, Running
  <2>3. StoresFollowRows'
    BY <2>1 DEF CloseoutInv, StoresFollowRows, Running, Base, With
  <2>q. QED BY <2>2, <2>3 DEF CloseoutInv
<1>2. CASE BrokerStep \/ Crash \/ OperatorClearsLock
  BY <1>2, BrokerIsSafe, EndsSafely, StartsSafely
<1>3. CASE EnterStores \/ Refused \/ Backup \/ BackupFails \/ ReadThrows \/ Return
  BY <1>3, EndsSafely, StartsSafely
<1>4. CASE AccountReady \/ InitialPreflight \/ Preflight \/ Expire
  BY <1>4, PreparesSafely
<1>5. CASE BeginCommit \/ SaveIdempotency \/ SaveLedger \/ Reload \/ CommitFails
  BY <1>5, CommitsSafely, CommitFailsSafely
<1>6. CASE Reserved \/ AttemptRecorded \/ ObservationRecorded \/ FinalRecorded
  BY <1>6, ReceiptsAreSafe
<1>7. CASE Gate \/ GateFails \/ Send \/ AnswerArrives \/ AnswerIsLost
  BY <1>7, SubmitsSafely
<1>8. CASE SubmitResult \/ Lookup \/ Postcheck
  BY <1>8, ObservesSafely
<1>q. QED BY <1>1, <1>2, <1>3, <1>4, <1>5, <1>6, <1>7, <1>8 DEF Next, RunStep

\* The invariant holds in every reachable state, for every number of targets, whatever
\* fails, dies, is lost or is restarted.
THEOREM CloseoutInvariant == Spec => []CloseoutInv
BY InitCloseout, CloseoutStep, PTL DEF Spec

\* No position is sold twice, and none without a wire file and an intent in both stores
\* that every later run finds (scoped-paper-adapter.mjs:165-210).
THEOREM NothingIsSentTwice == Spec => []NothingSentTwice
<1>1. CloseoutInv => NothingSentTwice
  BY DEF CloseoutInv, Typed, SentIsKnown, NothingSentTwice, IntentIsDurableFirst, NeverResent
<1>q. QED BY <1>1, CloseoutInvariant, PTL

-----------------------------------------------------------------------------
(* The plan                                                                *)

Intended == {t \in Target : Len(ledger[t]) > 1}
SentOut == {t \in Target : posts[t] > 0}
Closed == {t \in Target : PhaseOf(ledger[t]) = "FLAT_RECONCILED"}

\* A ledger that stays as it is, with no POST, is a stutter of the plan.
LEMMA QuietLedger ==
  UNCHANGED <<ledger, posts>> => Intended' = Intended /\ SentOut' = SentOut /\ Closed' = Closed
BY DEF Intended, SentOut, Closed

\* The second save of a commit is the plan's step: it makes an intent durable, or closes
\* the target, or is none of the plan's business.
LEMMA LedgerSaveIsPlanned ==
  ASSUME CloseoutInv, step = "save_ledger", ledger' = With(ledger), UNCHANGED posts
  PROVE  \/ Intended' = Intended /\ SentOut' = SentOut /\ Closed' = Closed
         \/ \E t \in Target : Plan!Intend(t) \/ Plan!Close(t)
<1>a. /\ Typed /\ InStep /\ SentIsKnown /\ StoresFollowRows /\ RowsFollowIndex /\ PendingIsNext
  BY DEF CloseoutInv
<1>b. /\ phase \in PersistPhases /\ Running /\ index \in Target /\ ledger = Base
  BY <1>a DEF InStep, CommitSteps, Running, PersistPhases, RowsFollowIndex, StoresFollowRows
<1>c. SentOut' = SentOut
  BY DEF SentOut
<1>1. CASE phase = "RESERVING"
  <2>1. /\ ledger = Nothing /\ ledger' = [t \in Target |-> <<Reservation>>]
    <3>1. pending = [t \in Target |-> <<Reservation>>]
      BY <1>a, <1>1 DEF RowsFollowIndex
    <3>q. QED BY <1>b, <1>1, <3>1 DEF Base, With
  <2>2. \A t \in Target : /\ Len(ledger[t]) = 0 /\ Len(ledger'[t]) = 1
                          /\ PhaseOf(ledger[t]) = "none" /\ PhaseOf(ledger'[t]) = "RESERVED"
    <3>1. Len(NoRecord) = 0
      BY DEF NoRecord
    <3>q. QED BY <2>1, <3>1, ReservationIsEntry DEF Nothing
  <2>3. Intended = {} /\ Intended' = {}
    <3>1. ~(0 > 1) /\ ~(1 > 1)
      OBVIOUS
    <3>2. \A t \in Target : ~(Len(ledger[t]) > 1) /\ ~(Len(ledger'[t]) > 1)
      BY <2>2, <3>1, Zenon
    <3>q. QED BY <3>2, Zenon DEF Intended
  <2>4. Closed = {} /\ Closed' = {}
    BY <2>2 DEF Closed
  <2>q. QED BY <1>c, <2>3, <2>4
<1>2. CASE phase # "RESERVING"
  <2>1. ledger = rows /\ rows \in Histories
    BY <1>a, <1>b, <1>2 DEF Base, Typed
  <2>2. /\ ledger' = [ledger EXCEPT ![index] = pending[index]] /\ Len(pending[index]) > 1
    BY <1>a, <1>b, <1>2, <2>1, CommitWritesOne
  <2>3. PICK e \in Entry :
          /\ pending[index] = Append(rows[index], e)
          /\ phase = "ATTEMPT_PERSIST" => e.phase = "ATTEMPTED"
          /\ phase = "OBSERVATION_PERSIST" => e.phase # "FLAT_RECONCILED"
          /\ phase = "FINAL_PERSIST" /\ e.phase = "FLAT_RECONCILED" => posts[index] = 1
    BY <1>a, <1>b, <1>2 DEF PendingIsNext
  <2>4. /\ \A t \in Target \ {index} : ledger'[t] = ledger[t]
        /\ Len(ledger'[index]) > 1 /\ PhaseOf(ledger'[index]) = e.phase
    <3>1. rows[index] \in Seq(Entry)
      BY <1>b, <2>1 DEF Histories
    <3>2. ledger'[index] = pending[index] /\ \A t \in Target \ {index} : ledger'[t] = ledger[t]
      BY <1>b, <2>1, <2>2 DEF Histories
    <3>q. QED BY <2>2, <2>3, <3>1, <3>2, Lengthened
  <2>5. CASE phase = "ATTEMPT_PERSIST"
    <3>1. ledger[index] = <<Reservation>> /\ e.phase = "ATTEMPTED"
      BY <1>a, <1>b, <2>1, <2>3, <2>5 DEF RowsFollowIndex
    <3>2. index \notin Intended /\ index \notin Closed
      <4>1. Len(ledger[index]) = 1 /\ PhaseOf(ledger[index]) = "RESERVED"
        BY <3>1, ReservationIsEntry
      <4>2. ~(1 > 1)
        OBVIOUS
      <4>3. ~(Len(ledger[index]) > 1)
        BY <4>1, <4>2, Zenon
      <4>q. QED BY <4>1, <4>3, Zenon DEF Intended, Closed
    <3>3. Intended' = Intended \cup {index} /\ Closed' = Closed
      BY <1>b, <2>4, <3>1, <3>2 DEF Intended, Closed
    <3>4. 1..(index - 1) \subseteq Closed
      <4>1. \A t \in Target : t < index => PhaseOf(rows[t]) = "FLAT_RECONCILED"
        BY <1>a, <1>b, <2>5 DEF RowsFollowIndex
      <4>2. \A t \in 1..(index - 1) : t \in Target /\ t < index
        BY <1>b, NAssumption DEF Target
      <4>q. QED BY <2>1, <4>1, <4>2 DEF Closed
    <3>5. Plan!Intend(index)
      BY <1>c, <3>2, <3>3, <3>4 DEF Plan!Intend, Intended, SentOut, Closed
    <3>q. QED BY <1>b, <3>5 DEF Plan!Intend
  <2>6. CASE phase # "ATTEMPT_PERSIST"
    <3>1. Len(ledger[index]) > 1 /\ index \notin Closed
      BY <1>a, <1>b, <1>2, <2>1, <2>6 DEF RowsFollowIndex, PersistPhases, Closed
    <3>2. Intended' = Intended
      BY <1>b, <2>4, <3>1 DEF Intended
    <3>3. CASE e.phase # "FLAT_RECONCILED"
      <4>1. Closed' = Closed
        BY <1>b, <2>4, <3>1, <3>3 DEF Closed
      <4>q. QED BY <1>c, <3>2, <4>1
    <3>4. CASE e.phase = "FLAT_RECONCILED"
      <4>1. posts[index] = 1
        BY <1>b, <1>2, <2>3, <2>6, <3>4 DEF PersistPhases
      <4>2. index \in SentOut
        BY <1>b, <4>1 DEF SentOut
      <4>3. Closed' = Closed \cup {index}
        BY <1>b, <2>4, <3>4 DEF Closed
      <4>4. Plan!Close(index)
        BY <1>c, <3>1, <3>2, <4>2, <4>3 DEF Plan!Close, Intended, SentOut, Closed
      <4>q. QED BY <1>b, <4>4
    <3>q. QED BY <3>3, <3>4
  <2>q. QED BY <2>5, <2>6
<1>q. QED BY <1>1, <1>2

\* The POST is the plan's SendOut: its intent is in the ledger, and it is the first.
LEMMA SendIsPlanned == CloseoutInv /\ Send => Plan!SendOut(index) /\ index \in Target
<1> SUFFICES ASSUME CloseoutInv, Send PROVE Plan!SendOut(index) /\ index \in Target
  OBVIOUS
<1>1. /\ Typed /\ InStep /\ StoresFollowRows /\ RowsFollowIndex /\ SendIsFirst
  BY DEF CloseoutInv
<1>2. /\ step = "send" /\ posts' = [posts EXCEPT ![index] = @ + 1] /\ UNCHANGED ledger
  BY DEF Send, stores
<1>3. /\ phase = "SUBMITTING" /\ posts[index] = 0
  BY <1>1, <1>2 DEF InStep, SubmitSteps, SendIsFirst
<1>4. index \in Target /\ ledger = rows /\ Len(rows[index]) > 1
  BY <1>1, <1>2, <1>3 DEF RowsFollowIndex, StoresFollowRows, Base, Running
<1>5. \A t \in Target : posts'[t] = (IF t = index THEN 1 ELSE posts[t])
  BY <1>1, <1>2, <1>3, <1>4 DEF Typed
<1>6. index \in Intended /\ index \notin SentOut /\ SentOut' = SentOut \cup {index}
  BY <1>3, <1>4, <1>5 DEF Intended, SentOut
<1>7. Intended' = Intended /\ Closed' = Closed
  BY <1>2 DEF Intended, Closed
<1>q. QED BY <1>4, <1>6, <1>7 DEF Plan!SendOut, Intended, SentOut, Closed

LEMMA PlanStep == CloseoutInv /\ [Next]_vars => [Plan!Next]_Plan!vars
<1> SUFFICES ASSUME CloseoutInv, [Next]_vars PROVE [Plan!Next]_Plan!vars
  OBVIOUS
<1>1. CASE UNCHANGED <<ledger, posts>>
  BY <1>1, QuietLedger DEF Plan!vars, Intended, SentOut, Closed
<1>2. CASE Send
  <2>1. index \in Target /\ Plan!SendOut(index)
    BY <1>2, SendIsPlanned
  <2>q. QED BY <2>1 DEF Plan!Next, Plan!SendOut, Target
<1>3. CASE step = "save_ledger" /\ ledger' = With(ledger) /\ UNCHANGED posts
  BY <1>3, LedgerSaveIsPlanned DEF Plan!Next, Plan!vars, Target, Intended, SentOut, Closed
<1>4. Next => \/ UNCHANGED <<ledger, posts>> \/ Send
              \/ step = "save_ledger" /\ ledger' = With(ledger) /\ UNCHANGED posts
  <2>1. SaveLedger => step = "save_ledger" /\ ledger' = With(ledger) /\ UNCHANGED posts
    BY DEF SaveLedger, broker
  <2>2. CommitFails => \/ UNCHANGED <<ledger, posts>>
                       \/ step = "save_ledger" /\ ledger' = With(ledger) /\ UNCHANGED posts
    BY DEF CommitFails, broker
  <2>3. EnterStores \/ Refused \/ Backup \/ BackupFails \/ ReadThrows \/ Return \/ Crash
          \/ OperatorClearsLock => UNCHANGED <<ledger, posts>>
    BY DEF EnterStores, Refused, Backup, BackupFails, ReadThrows, Return, Crash, OperatorClearsLock,
       stores, broker
  <2>4. AccountReady \/ InitialPreflight \/ Preflight \/ Expire \/ BeginCommit \/ SaveIdempotency
          \/ Reload => UNCHANGED <<ledger, posts>>
    BY DEF AccountReady, InitialPreflight, Preflight, Expire, BeginCommit, SaveIdempotency, Reload,
       stores, broker
  <2>5. Reserved \/ AttemptRecorded \/ ObservationRecorded \/ FinalRecorded => UNCHANGED <<ledger, posts>>
    BY DEF Reserved, AttemptRecorded, ObservationRecorded, FinalRecorded, stores, broker
  <2>6. Gate \/ GateFails \/ AnswerArrives \/ AnswerIsLost \/ SubmitResult \/ Lookup \/ Postcheck
          => UNCHANGED <<ledger, posts>>
    BY DEF Gate, GateFails, AnswerArrives, AnswerIsLost, SubmitResult, Lookup, Postcheck, stores, broker
  <2>7. BrokerStep => UNCHANGED <<ledger, posts>>
    BY DEF BrokerStep, PostArrives, PostIsDropped, OrderMoves, stores
  <2>q. QED BY <2>1, <2>2, <2>3, <2>4, <2>5, <2>6, <2>7 DEF Next, RunStep
<1>5. CASE UNCHANGED vars
  <2>1. UNCHANGED <<ledger, posts>>
    BY <1>5 DEF vars
  <2>q. QED BY <1>1, <2>1
<1>q. QED BY <1>1, <1>2, <1>3, <1>4, <1>5

\* A closeout, with every crash, loss and restart, is an exit plan that is carried out
\* in order and at most once.
THEOREM CloseoutImplementsPlan == Spec => PlanSpec
<1>1. Init => Plan!Init
  <2> SUFFICES ASSUME Init PROVE Plan!Init
    OBVIOUS
  <2>1. \A t \in Target : ledger[t] = NoRecord /\ posts[t] = 0
    BY DEF Init
  <2>2. Len(NoRecord) = 0 /\ PhaseOf(NoRecord) = "none"
    BY ReservationIsEntry DEF NoRecord
  <2>q. QED BY <2>1, <2>2 DEF Plan!Init
<1>q. QED BY <1>1, CloseoutInvariant, PlanStep, PTL DEF Spec, PlanSpec, Plan!Spec

-----------------------------------------------------------------------------
(* The directory lock                                                      *)

\* The lock is held while a run is under way, and a run that has stopped or is complete
\* stands before the stores with both files saved.
LockInv ==
  /\ dirLock = "held" <=> step # "down"
  /\ phase \in {"STOPPED", "COMPLETE"} => idem = ledger

\* At every step but the one between the two saves the stores agree.
LEMMA StoresAgree == CloseoutInv /\ Running /\ step # "save_ledger" => idem = ledger
<1>1. ASSUME CloseoutInv, Running, step # "save_ledger" PROVE idem = ledger
  BY <1>1 DEF CloseoutInv, StoresFollowRows
<1>q. QED BY <1>1

LEMMA LockStep == CloseoutInv /\ LockInv /\ [Next]_vars => LockInv'
<1> SUFFICES ASSUME CloseoutInv, LockInv, [Next]_vars PROVE LockInv'
  OBVIOUS
<1>1. CASE Down /\ dirLock' \in {"free", "left"}
  BY <1>1 DEF LockInv, Down
<1>2. CASE EnterStores \/ OperatorClearsLock \/ BrokerStep \/ UNCHANGED vars
  <2>1. UNCHANGED <<phase, idem, ledger>>
    BY <1>2 DEF EnterStores, OperatorClearsLock, BrokerStep, PostArrives, PostIsDropped, OrderMoves, vars,
       control, stores
  <2>2. (dirLock' = "held") <=> (step' # "down")
    BY <1>2 DEF EnterStores, OperatorClearsLock, BrokerStep, PostArrives, PostIsDropped, OrderMoves, vars,
       LockInv
  <2>q. QED BY <2>1, <2>2 DEF LockInv
<1>3. CASE Backup \/ SaveIdempotency \/ SaveLedger \/ Reload \/ (BeginCommit /\ StoresAccept)
  <2>1. /\ dirLock' = dirLock /\ step # "down" /\ step' # "down"
    BY <1>3 DEF Backup, SaveIdempotency, SaveLedger, Reload, BeginCommit
  <2>2. phase' \notin {"STOPPED", "COMPLETE"}
    BY <1>3 DEF Backup, SaveIdempotency, SaveLedger, Reload, BeginCommit, control, CloseoutInv, InStep,
       CommitSteps, PersistPhases
  <2>q. QED BY <2>1, <2>2 DEF LockInv
<1>4. CASE \/ AccountReady \/ InitialPreflight \/ Preflight \/ Expire
           \/ Reserved \/ AttemptRecorded \/ ObservationRecorded \/ FinalRecorded
           \/ Gate \/ GateFails \/ Send \/ AnswerArrives \/ AnswerIsLost \/ SubmitResult
           \/ Lookup \/ Postcheck
  <2>1. /\ dirLock' = dirLock /\ step # "down" /\ step' # "down" /\ UNCHANGED <<idem, ledger>>
    <3>1. CASE AccountReady \/ InitialPreflight \/ Preflight \/ Expire
      BY <3>1 DEF AccountReady, InitialPreflight, Preflight, Expire, stores
    <3>2. CASE Reserved \/ AttemptRecorded \/ ObservationRecorded \/ FinalRecorded
      BY <3>2 DEF Reserved, AttemptRecorded, ObservationRecorded, FinalRecorded, stores
    <3>3. CASE Gate \/ GateFails \/ Send \/ AnswerArrives \/ AnswerIsLost
      BY <3>3 DEF Gate, GateFails, Send, AnswerArrives, AnswerIsLost, stores
    <3>4. CASE SubmitResult \/ Lookup \/ Postcheck
      BY <3>4 DEF SubmitResult, Lookup, Postcheck, stores
    <3>q. QED BY <1>4, <3>1, <3>2, <3>3, <3>4
  <2>2. Running /\ step # "save_ledger"
    <3>1. /\ step # "entering"
          /\ \/ phase \in {"ACCOUNT_PREFLIGHT", "INITIAL_PREFLIGHT", "REVALIDATING", "RESERVING",
                           "ATTEMPT_PERSIST", "OBSERVATION_PERSIST", "FINAL_PERSIST", "SUBMITTING", "POSTCHECK"}
             \/ step \in {"send", "waiting", "answered", "looked", "receipt"}
          /\ step # "save_ledger"
      BY <1>4 DEF AccountReady, InitialPreflight, Preflight, Expire, Reserved, AttemptRecorded,
         ObservationRecorded, FinalRecorded, Gate, GateFails, Send, AnswerArrives, AnswerIsLost, SubmitResult,
         Lookup, Postcheck
    <3>2. InStep
      BY DEF CloseoutInv
    <3>q. QED BY <3>1, <3>2 DEF InStep, SubmitSteps, CommitSteps, PersistPhases, Running
  <2>3. idem = ledger
    BY <2>2, StoresAgree
  <2>q. QED BY <2>1, <2>3 DEF LockInv
<1>5. (Crash \/ Return \/ Refused \/ BackupFails \/ ReadThrows \/ CommitFails
        \/ (BeginCommit /\ ~StoresAccept)) => Down /\ dirLock' \in {"free", "left"}
  BY DEF Crash, Return, Refused, BackupFails, ReadThrows, CommitFails, BeginCommit, Throw
<1>q. QED BY <1>1, <1>2, <1>3, <1>4, <1>5 DEF Next, RunStep

\* A run that gives the stores back leaves them equal: a one-sided write keeps the lock
\* (scoped-closeout-storage.mjs:131-155).
THEOREM LockIsKept == Spec => LockKeptOnOneSidedWrite
<1>1. Init => LockInv
  BY DEF Init, LockInv
<1>2. CloseoutInv /\ LockInv /\ [Next]_vars => [step # "down" /\ dirLock' = "free" => idem = ledger]_vars
  <2> SUFFICES ASSUME CloseoutInv, LockInv, Next, step # "down", dirLock' = "free" PROVE idem = ledger
    OBVIOUS
  <2>1. dirLock = "held"
    BY DEF LockInv
  <2>2. Return
    <3>1. dirLock' # dirLock
      BY <2>1
    <3>2. ~(Crash \/ Refused \/ BackupFails \/ ReadThrows \/ CommitFails \/ BeginCommit)
      BY <3>1 DEF Crash, Refused, BackupFails, ReadThrows, CommitFails, BeginCommit, Throw
    <3>3. ~(EnterStores \/ OperatorClearsLock \/ BrokerStep \/ Backup)
      BY <2>1, <3>1 DEF EnterStores, OperatorClearsLock, BrokerStep, PostArrives, PostIsDropped, OrderMoves, Backup
    <3>4. ~(AccountReady \/ InitialPreflight \/ Preflight \/ Expire \/ SaveIdempotency \/ SaveLedger \/ Reload)
      BY <3>1 DEF AccountReady, InitialPreflight, Preflight, Expire, SaveIdempotency, SaveLedger, Reload
    <3>5. ~(Reserved \/ AttemptRecorded \/ ObservationRecorded \/ FinalRecorded)
      BY <3>1 DEF Reserved, AttemptRecorded, ObservationRecorded, FinalRecorded
    <3>6. ~(Gate \/ GateFails \/ Send \/ AnswerArrives \/ AnswerIsLost \/ SubmitResult \/ Lookup \/ Postcheck)
      BY <3>1 DEF Gate, GateFails, Send, AnswerArrives, AnswerIsLost, SubmitResult, Lookup, Postcheck
    <3>q. QED BY <3>2, <3>3, <3>4, <3>5, <3>6 DEF Next, RunStep
  <2>q. QED BY <2>2 DEF Return, LockInv
<1>q. QED BY <1>1, <1>2, LockStep, CloseoutInvariant, PTL DEF Spec, LockKeptOnOneSidedWrite

-----------------------------------------------------------------------------
(* Histories of a closeout                                                 *)

Attempt == Entered("ATTEMPTED", NoOrder)
Flat == [status |-> "filled", filled |-> Qty]
AttemptedHistories == OpenHistories \cup ClosedHistories
StoredHistories == {NoRecord, <<Reservation>>} \cup AttemptedHistories

\* OpenHistories, taken apart.
OpenShapes ==
  {Intent} \cup {Intent \o <<Entered(p, o)>> : p \in {"OBSERVED", "STOPPED"}, o \in Orders}
    \cup {Intent \o <<Entered(p, o), Entered("STOPPED", r)>> :
            p \in {"OBSERVED", "STOPPED"}, o \in Orders, r \in Orders}
IsValid(h) == ValidRecord(h, FALSE)
Succeeds(p, e) == ValidSuccessor(p, e, FALSE)

LEMMA OpenIs ==
  \A h : h \in OpenHistories <=>
    /\ \/ h = Intent
       \/ \E p \in {"OBSERVED", "STOPPED"}, o \in Orders : h = Intent \o <<Entered(p, o)>>
       \/ \E p \in {"OBSERVED", "STOPPED"}, o \in Orders, r \in Orders :
            h = Intent \o <<Entered(p, o), Entered("STOPPED", r)>>
    /\ IsValid(h)
<1>1. OpenHistories = {h \in OpenShapes : IsValid(h)}
  BY DEF OpenHistories, OpenShapes, IsValid
<1>2. \A h : h \in OpenShapes <=>
         \/ h = Intent
         \/ \E p \in {"OBSERVED", "STOPPED"}, o \in Orders : h = Intent \o <<Entered(p, o)>>
         \/ \E p \in {"OBSERVED", "STOPPED"}, o \in Orders, r \in Orders :
              h = Intent \o <<Entered(p, o), Entered("STOPPED", r)>>
  BY DEF OpenShapes
<1>q. QED BY <1>1, <1>2

\* A record of a first answer, before it is stored.
FirstEntry(e) == e.phase \in {"OBSERVED", "STOPPED"} /\ ValidEntry(e)

\* An entry is what was entered with its phase, status and quantity.
LEMMA EntryIsEntered ==
  \A e \in Entry : /\ e = Entered(e.phase, [status |-> e.status, filled |-> e.filled])
                   /\ [status |-> e.status, filled |-> e.filled] \in Orders
BY DEF Entry, Entered, Orders

LEMMA PairIsAppended == \A e \in Entry, g \in Entry : Append(<<e>>, g) = <<e, g>>
<1> SUFFICES ASSUME NEW e \in Entry, NEW g \in Entry PROVE Append(<<e>>, g) = <<e, g>>
  OBVIOUS
<1>1. <<e>> \in Seq(Entry) /\ Len(<<e>>) = 1 /\ <<e>>[1] = e
  OBVIOUS
<1>2. /\ Append(<<e>>, g) \in Seq(Entry) /\ Len(Append(<<e>>, g)) = 2
      /\ Append(<<e>>, g)[1] = e /\ Append(<<e>>, g)[2] = g
  BY <1>1
<1>3. <<e, g>> \in Seq(Entry) /\ Len(<<e, g>>) = 2 /\ <<e, g>>[1] = e /\ <<e, g>>[2] = g
  OBVIOUS
<1>4. \A i \in 1..2 : i = 1 \/ i = 2
  OBVIOUS
<1>5. \A i \in 1..Len(<<e, g>>) : Append(<<e>>, g)[i] = <<e, g>>[i]
  BY <1>2, <1>3, <1>4
<1>q. QED BY <1>2, <1>3, <1>5, SeqEqual

LEMMA IntentFacts ==
  /\ Attempt \in Entry /\ Intent \in Seq(Entry) /\ Len(Intent) = 2
  /\ Intent[1] = Reservation /\ Intent[2] = Attempt
  /\ Intent = Append(<<Reservation>>, Attempt)
  /\ ValidEntry(Reservation) /\ ValidEntry(Attempt) /\ Succeeds(Reservation, Attempt)
<1>1. Attempt \in Entry /\ Reservation \in Entry
  BY QtyAssumption DEF Attempt, Entered, NoOrder, Reservation, Entry, Phases, Statuses
<1>2. Intent = <<Reservation, Attempt>>
  BY DEF Intent, Attempt
<1>5. Append(<<Reservation>>, Attempt) = <<Reservation, Attempt>>
  BY <1>1, PairIsAppended
<1>3. ValidEntry(Reservation) /\ ValidEntry(Attempt)
  BY DEF ValidEntry, Reservation, Attempt, Entered, NoOrder
<1>4. Succeeds(Reservation, Attempt)
  BY DEF Succeeds, ValidSuccessor, Edges, Reservation, Attempt, Entered, NoOrder, TerminalStatuses
<1>q. QED BY <1>1, <1>2, <1>3, <1>4, <1>5

\* Histories of two, three and four entries, and what makes them valid.
LEMMA AppendedIsConcat == \A h \in Seq(Entry), e \in Entry : Append(h, e) = h \o <<e>>
<1> SUFFICES ASSUME NEW h \in Seq(Entry), NEW e \in Entry PROVE Append(h, e) = h \o <<e>>
  OBVIOUS
<1>1. <<e>> \in Seq(Entry) /\ Len(<<e>>) = 1 /\ <<e>>[1] = e
  OBVIOUS
<1>2. /\ h \o <<e>> \in Seq(Entry) /\ Len(h \o <<e>>) = Len(h) + 1
      /\ \A i \in 1..(Len(h) + 1) : (h \o <<e>>)[i] = IF i <= Len(h) THEN h[i] ELSE <<e>>[i - Len(h)]
  BY <1>1, ConcatProperties
<1>3. /\ Append(h, e) \in Seq(Entry) /\ Len(Append(h, e)) = Len(h) + 1
      /\ \A i \in 1..(Len(h) + 1) : Append(h, e)[i] = IF i <= Len(h) THEN h[i] ELSE e
  OBVIOUS
<1>4. \A i \in 1..(Len(h) + 1) : Append(h, e)[i] = (h \o <<e>>)[i]
  <2> SUFFICES ASSUME NEW i \in 1..(Len(h) + 1) PROVE Append(h, e)[i] = (h \o <<e>>)[i]
    OBVIOUS
  <2>1. Len(h) \in Nat
    OBVIOUS
  <2>2. i <= Len(h) \/ i - Len(h) = 1
    BY <2>1
  <2>q. QED BY <1>1, <1>2, <1>3, <2>2
<1>q. QED BY <1>2, <1>3, <1>4, SeqEqual

LEMMA ThirdEntry ==
  ASSUME NEW e \in Entry
  PROVE  /\ Append(Intent, e) = Intent \o <<e>> /\ Append(Intent, e) \in Seq(Entry)
         /\ Len(Append(Intent, e)) = 3
         /\ Append(Intent, e)[1] = Reservation /\ Append(Intent, e)[2] = Attempt
         /\ Append(Intent, e)[3] = e
BY IntentFacts, AppendedIsConcat

LEMMA FourthEntry ==
  ASSUME NEW e \in Entry, NEW g \in Entry
  PROVE  LET h == Append(Append(Intent, e), g) IN
           /\ h = Intent \o <<e, g>> /\ h \in Seq(Entry) /\ Len(h) = 4
           /\ h[1] = Reservation /\ h[2] = Attempt /\ h[3] = e /\ h[4] = g
<1>1. Append(Append(Intent, e), g) = (Intent \o <<e>>) \o <<g>>
  <2>1. Append(Intent, e) \in Seq(Entry) /\ Append(Intent, e) = Intent \o <<e>>
    BY ThirdEntry
  <2>2. Append(Append(Intent, e), g) = Append(Intent, e) \o <<g>>
    BY <2>1, AppendedIsConcat
  <2>q. QED BY <2>1, <2>2
<1>2. <<e>> \o <<g>> = <<e, g>>
  <2>1. Append(<<e>>, g) = <<e, g>> /\ <<e>> \in Seq(Entry)
    BY PairIsAppended
  <2>q. QED BY <2>1, AppendedIsConcat
<1>3. (Intent \o <<e>>) \o <<g>> = Intent \o <<e, g>>
  <2>1. <<e>> \in Seq(Entry) /\ <<g>> \in Seq(Entry) /\ Intent \in Seq(Entry)
    BY IntentFacts
  <2>2. (Intent \o <<e>>) \o <<g>> = Intent \o (<<e>> \o <<g>>)
    BY <2>1, ConcatAssociative
  <2>q. QED BY <1>2, <2>2
<1>q. QED BY <1>1, <1>3, ThirdEntry

LEMMA IntentIsValid == IsValid(Intent)
<1>1. Len(Intent) = 2 /\ Len(Intent) \in 1..16
  BY IntentFacts
<1>2. \A i \in 1..2 : i = 1 \/ i = 2
  OBVIOUS
<1>3. \A i \in 1..(2 - 1) : i = 1 /\ i + 1 = 2
  OBVIOUS
<1>q. QED BY <1>1, <1>2, <1>3, IntentFacts DEF IsValid, ValidRecord, Succeeds

LEMMA ThirdIsValid ==
  ASSUME NEW e \in Entry, FirstEntry(e)
  PROVE  IsValid(Append(Intent, e))
<1> DEFINE h == Append(Intent, e)
<1>1. h[1] = Reservation /\ h[2] = Attempt /\ h[3] = e /\ Len(h) = 3
  BY ThirdEntry
<1>2. Succeeds(Attempt, e)
  BY DEF Succeeds, ValidSuccessor, Attempt, Entered, NoOrder, Edges, FirstEntry, TerminalStatuses, Entry
<1> HIDE DEF h
<1>3. \A i \in 1..3 : i = 1 \/ i = 2 \/ i = 3
  OBVIOUS
<1>4. \A i \in 1..(3 - 1) : (i = 1 /\ i + 1 = 2) \/ (i = 2 /\ i + 1 = 3)
  OBVIOUS
<1>5. 3 \in 1..16
  OBVIOUS
<1>6. \A i \in 1..3 : ValidEntry(h[i])
  BY <1>1, <1>3, IntentFacts DEF FirstEntry
<1>7. \A i \in 1..(3 - 1) : Succeeds(h[i], h[i + 1])
  BY <1>1, <1>2, <1>4, IntentFacts
<1>8. IsValid(h)
  BY <1>1, <1>5, <1>6, <1>7 DEF IsValid, ValidRecord, Succeeds
<1>q. QED BY <1>8 DEF h

LEMMA FourthIsValid ==
  ASSUME NEW e \in Entry, NEW g \in Entry, FirstEntry(e), ValidEntry(g), Succeeds(e, g)
  PROVE  IsValid(Append(Append(Intent, e), g))
<1> DEFINE h == Append(Append(Intent, e), g)
<1>1. h[1] = Reservation /\ h[2] = Attempt /\ h[3] = e /\ h[4] = g /\ Len(h) = 4
  BY FourthEntry
<1>2. Succeeds(Attempt, e)
  BY DEF Succeeds, ValidSuccessor, Attempt, Entered, NoOrder, Edges, FirstEntry, TerminalStatuses, Entry
<1> HIDE DEF h
<1>3. \A i \in 1..4 : i = 1 \/ i = 2 \/ i = 3 \/ i = 4
  OBVIOUS
<1>4. \A i \in 1..(4 - 1) : (i = 1 /\ i + 1 = 2) \/ (i = 2 /\ i + 1 = 3) \/ (i = 3 /\ i + 1 = 4)
  OBVIOUS
<1>5. 4 \in 1..16
  OBVIOUS
<1>6. \A i \in 1..4 : ValidEntry(h[i])
  BY <1>1, <1>3, IntentFacts DEF FirstEntry
<1>7. \A i \in 1..(4 - 1) : Succeeds(h[i], h[i + 1])
  BY <1>1, <1>2, <1>4, IntentFacts
<1>8. IsValid(h)
  BY <1>1, <1>5, <1>6, <1>7 DEF IsValid, ValidRecord, Succeeds
<1>q. QED BY <1>8 DEF h

\* An attempt, its first answer, and the answer after that are histories that an
\* attempt leaves open; a flat one after an accepted or filled one closes it.
LEMMA IntentIsOpen == Intent \in OpenHistories
BY IntentIsValid, OpenIs

LEMMA FirstIsOpen ==
  ASSUME NEW e \in Entry, FirstEntry(e)
  PROVE  Append(Intent, e) \in OpenHistories
<1>1. Append(Intent, e) = Intent \o <<Entered(e.phase, [status |-> e.status, filled |-> e.filled])>>
  BY ThirdEntry, EntryIsEntered
<1>2. e.phase \in {"OBSERVED", "STOPPED"} /\ [status |-> e.status, filled |-> e.filled] \in Orders
  BY EntryIsEntered DEF FirstEntry
<1>3. IsValid(Append(Intent, e))
  BY ThirdIsValid
<1>q. QED BY <1>1, <1>2, <1>3, OpenIs

LEMMA StopIsOpen ==
  ASSUME NEW e \in Entry, NEW g \in Entry, FirstEntry(e), ValidEntry(g), Succeeds(e, g),
         g.phase = "STOPPED"
  PROVE  Append(Append(Intent, e), g) \in OpenHistories
<1> DEFINE eo == [status |-> e.status, filled |-> e.filled]
           go == [status |-> g.status, filled |-> g.filled]
<1>1. e = Entered(e.phase, eo) /\ g = Entered("STOPPED", go) /\ eo \in Orders /\ go \in Orders
  BY EntryIsEntered
<1>2. e.phase \in {"OBSERVED", "STOPPED"}
  BY DEF FirstEntry
<1>3. Append(Append(Intent, e), g) = Intent \o <<e, g>>
  BY FourthEntry
<1> HIDE DEF eo, go
<1>4. Append(Append(Intent, e), g) = Intent \o <<Entered(e.phase, eo), Entered("STOPPED", go)>>
  BY <1>1, <1>3
<1>5. IsValid(Append(Append(Intent, e), g))
  BY FourthIsValid
<1>q. QED BY <1>1, <1>2, <1>4, <1>5, OpenIs

LEMMA FlatIsClosed ==
  ASSUME NEW e \in Entry, NEW g \in Entry, FirstEntry(e), e.phase = "OBSERVED",
         e.status \in {"accepted", "filled"}, g = Entered("FLAT_RECONCILED", Flat)
  PROVE  Append(Append(Intent, e), g) \in ClosedHistories
<1> DEFINE eo == [status |-> e.status, filled |-> e.filled]
<1>1. e = Entered("OBSERVED", eo) /\ eo \in Orders
  BY EntryIsEntered
<1>2. eo \in {r \in Orders : r.status \in {"accepted", "filled"} /\ ValidEntry(Entered("OBSERVED", r))}
  BY <1>1 DEF FirstEntry
<1>3. Append(Append(Intent, e), g) = Intent \o <<e, g>>
  BY FourthEntry
<1> HIDE DEF eo
<1>4. Append(Append(Intent, e), g) = Intent \o <<Entered("OBSERVED", eo), Entered("FLAT_RECONCILED", Flat)>>
  BY <1>1, <1>3
<1>q. QED BY <1>2, <1>4 DEF ClosedHistories, Flat

\* What histories of the two kinds are, seen from the outside.
LEMMA EnteredIsEntry ==
  \A p \in Phases, o \in Orders : Entered(p, o) \in Entry /\ Entered(p, o).phase = p
BY DEF Entered, Orders, Entry

LEMMA ClosedFacts ==
  ASSUME NEW h \in ClosedHistories
  PROVE  /\ h \in Seq(Entry) /\ Len(h) = 4 /\ LastEntry(h) = Entered("FLAT_RECONCILED", Flat)
         /\ PhaseOf(h) = "FLAT_RECONCILED" /\ IsValid(h)
         /\ \A i \in 1..4 : h[i].phase # "STOPPED" /\ h[i].status \notin BatchStoppers
<1>1. PICK o \in Orders : /\ o.status \in {"accepted", "filled"} /\ ValidEntry(Entered("OBSERVED", o))
                          /\ h = Intent \o <<Entered("OBSERVED", o), Entered("FLAT_RECONCILED", Flat)>>
  BY DEF ClosedHistories, Flat
<1> DEFINE e == Entered("OBSERVED", o)
           g == Entered("FLAT_RECONCILED", Flat)
<1>2. Flat \in Orders
  BY QtyAssumption DEF Flat, Orders, Statuses
<1>3. /\ e \in Entry /\ e.phase = "OBSERVED" /\ e.status = o.status /\ e.filled = o.filled
      /\ g \in Entry /\ g.phase = "FLAT_RECONCILED" /\ g.status = "filled" /\ g.filled = Qty
  BY <1>2 DEF Entered, Orders, Entry, Phases, Flat
<1>4. FirstEntry(e)
  BY <1>1, <1>3 DEF FirstEntry
<1>5. h = Intent \o <<e, g>>
  BY <1>1
<1>6. ValidEntry(g) /\ Succeeds(e, g)
  BY <1>1, <1>3 DEF ValidEntry, Succeeds, ValidSuccessor, Edges, TerminalStatuses, Entry
<1> HIDE DEF e, g
<1>7. /\ h = Append(Append(Intent, e), g) /\ h \in Seq(Entry) /\ Len(h) = 4
      /\ h[1] = Reservation /\ h[2] = Attempt /\ h[3] = e /\ h[4] = g
  BY <1>3, <1>5, FourthEntry
<1>8. IsValid(h)
  BY <1>3, <1>4, <1>6, <1>7, FourthIsValid
<1>9. LastEntry(h) = g /\ h # NoRecord
  BY <1>7 DEF LastEntry, NoRecord
<1>10. \A i \in 1..4 : h[i].phase # "STOPPED" /\ h[i].status \notin BatchStoppers
  <2>1. \A i \in 1..4 : i = 1 \/ i = 2 \/ i = 3 \/ i = 4
    OBVIOUS
  <2>2. \A x \in {Reservation, Attempt, e, g} : x.phase # "STOPPED" /\ x.status \notin BatchStoppers
    BY <1>1, <1>3 DEF Reservation, Attempt, Entered, NoOrder, BatchStoppers
  <2>q. QED BY <1>7, <2>1, <2>2
<1>q. QED BY <1>3, <1>7, <1>8, <1>9, <1>10 DEF PhaseOf, g

LEMMA OpenFacts ==
  ASSUME NEW h \in OpenHistories
  PROVE  /\ h \in Seq(Entry) /\ Len(h) \in 2..4 /\ PhaseOf(h) \in {"ATTEMPTED", "OBSERVED", "STOPPED"}
         /\ IsValid(h)
<1>1. IsValid(h)
  BY OpenIs
<1>2. CASE h = Intent
  <2>1. LastEntry(h) = Attempt /\ h # NoRecord
    BY <1>2, IntentFacts DEF LastEntry, NoRecord
  <2>q. QED BY <1>1, <1>2, <2>1, IntentFacts DEF PhaseOf, Attempt, Entered
<1>3. ASSUME NEW p \in {"OBSERVED", "STOPPED"}, NEW o \in Orders, h = Intent \o <<Entered(p, o)>>
      PROVE  h \in Seq(Entry) /\ Len(h) = 3 /\ PhaseOf(h) = p
  <2>1. Entered(p, o) \in Entry /\ Entered(p, o).phase = p
    BY EnteredIsEntry DEF Phases
  <2>2. h = Append(Intent, Entered(p, o))
    BY <1>3, <2>1, ThirdEntry
  <2>q. QED BY <2>1, <2>2, ThirdEntry, IntentFacts, Lengthened
<1>4. ASSUME NEW p \in {"OBSERVED", "STOPPED"}, NEW o \in Orders, NEW r \in Orders,
             h = Intent \o <<Entered(p, o), Entered("STOPPED", r)>>
      PROVE  h \in Seq(Entry) /\ Len(h) = 4 /\ PhaseOf(h) = "STOPPED"
  <2>1. Entered(p, o) \in Entry /\ Entered("STOPPED", r) \in Entry /\ Entered("STOPPED", r).phase = "STOPPED"
    BY EnteredIsEntry DEF Phases
  <2>2. h = Append(Append(Intent, Entered(p, o)), Entered("STOPPED", r))
    BY <1>4, <2>1, FourthEntry
  <2>3. Append(Intent, Entered(p, o)) \in Seq(Entry)
    BY <2>1, ThirdEntry
  <2>4. PhaseOf(h) = "STOPPED"
    BY <2>1, <2>2, <2>3, Lengthened
  <2>5. h \in Seq(Entry) /\ Len(h) = 4
    BY <2>1, <2>2, FourthEntry
  <2>q. QED BY <2>4, <2>5
<1>5. \/ h = Intent
      \/ \E p \in {"OBSERVED", "STOPPED"}, o \in Orders : h = Intent \o <<Entered(p, o)>>
      \/ \E p \in {"OBSERVED", "STOPPED"}, o \in Orders, r \in Orders :
           h = Intent \o <<Entered(p, o), Entered("STOPPED", r)>>
  BY OpenIs
<1>6. CASE \E p \in {"OBSERVED", "STOPPED"}, o \in Orders : h = Intent \o <<Entered(p, o)>>
  BY <1>1, <1>3, <1>6
<1>7. CASE \E p \in {"OBSERVED", "STOPPED"}, o \in Orders, r \in Orders :
             h = Intent \o <<Entered(p, o), Entered("STOPPED", r)>>
  <2>1. h \in Seq(Entry) /\ Len(h) = 4 /\ PhaseOf(h) = "STOPPED"
    BY <1>4, <1>7
  <2>q. QED BY <1>1, <2>1
<1>q. QED BY <1>2, <1>5, <1>6, <1>7

-----------------------------------------------------------------------------
(* What the stores, the broker and the controller's rows say of each other *)

\* What an entry says of an order, the order has done.
Follows(e, o) ==
  /\ e.filled <= o.filled
  /\ e.status # "null" => o # NoOrder
  /\ e.status \in TerminalStatuses => o.status = e.status

OnlyReserved == [t \in Target |-> <<Reservation>>]

\* The two files: before the first commit, within it or behind it, and from the first
\* intent on always what a hand-over is.
DiskShape(f, l, o) ==
  \/ f = Nothing /\ l = Nothing
  \/ f = OnlyReserved /\ l \in {Nothing, OnlyReserved}
  \/ HandedOver(f, l, o)
DiskIsShaped == DiskShape(idem, ledger, order)

RowsAreStored == \A t \in Target : rows[t] \in StoredHistories

\* The targets before the current one are sold, at the broker and in the rows.
SoldBefore(i, r, o) == \A t \in Target : t < i => r[t] \in ClosedHistories /\ o[t] = Flat
Past == Running /\ phase \notin {"ACCOUNT_PREFLIGHT", "INITIAL_PREFLIGHT"}
RowsAreFlat == Past => SoldBefore(index, rows, order)

\* The first answer that was written down: while nothing has gone wrong it is good news.
FirstAnswer(e) ==
  /\ FirstEntry(e)
  /\ sticky \/ (e.phase = "OBSERVED" /\ e.status \in {"accepted", "filled"})
  /\ Follows(e, order[index])
AnsweredWith(h) == \E e \in Entry : h = Append(Intent, e) /\ FirstAnswer(e)

RowFits ==
  /\ phase \in {"SUBMITTING", "OBSERVATION_PERSIST"} => rows[index] = Intent
  /\ phase \in {"POSTCHECK", "FINAL_PERSIST"} => AnsweredWith(rows[index])

\* A record that is to be committed is one a hand-over may contain.
PendingFits ==
  /\ phase = "ATTEMPT_PERSIST" => pending[index] = Intent
  /\ phase = "OBSERVATION_PERSIST" => AnsweredWith(pending[index])
  /\ phase = "FINAL_PERSIST" => /\ pending[index] \in AttemptedHistories
                                /\ Follows(LastEntry(pending[index]), order[index])

AnswerIsTrue == step \in {"answered", "looked"} => Follows(answer, order[index])
CompleteIsFlat == phase = "COMPLETE" => \A t \in Target : PhaseOf(idem[t]) = "FLAT_RECONCILED"

RecordInv ==
  /\ DiskIsShaped /\ RowsAreStored /\ RowsAreFlat /\ RowFits /\ PendingFits
  /\ AnswerIsTrue /\ CompleteIsFlat

-----------------------------------------------------------------------------
(* Orders only move forward                                                *)

\* How the broker changes an order.
Forward(o, n) ==
  /\ n.filled >= o.filled
  /\ o # NoOrder => n # NoOrder
  /\ o.status \in TerminalStatuses => n = o

LEMMA FollowsForward ==
  ASSUME NEW e \in Entry \cup Observation, NEW o \in Observation, NEW n \in Observation,
         Follows(e, o), Forward(o, n)
  PROVE  Follows(e, n)
<1>1. e.filled \in Nat /\ o.filled \in Nat /\ n.filled \in Nat
  BY QtyAssumption DEF Entry, Observation
<1>q. QED BY <1>1 DEF Follows, Forward

LEMMA BrokerMovesForward ==
  ASSUME Typed, BrokerStep
  PROVE  \A t \in Target : /\ order[t] \in Observation /\ order'[t] \in Observation
                           /\ Forward(order[t], order'[t])
                           /\ order'[t] # NoOrder => order[t] # NoOrder \/ t \in net
<1> SUFFICES ASSUME NEW t \in Target
             PROVE  /\ order[t] \in Observation /\ order'[t] \in Observation
                    /\ Forward(order[t], order'[t])
                    /\ order'[t] # NoOrder => order[t] # NoOrder \/ t \in net
  OBVIOUS
<1>1. order[t] \in Observation /\ order[t].filled \in Nat
  BY QtyAssumption DEF Typed, Observation
<1>2. CASE order'[t] = order[t]
  BY <1>1, <1>2 DEF Forward
<1>3. CASE PostArrives /\ order'[t] # order[t]
  <2>1. order[t] = NoAnswer /\ t \in net /\ order'[t] = [status |-> "accepted", filled |-> 0]
    BY <1>3 DEF PostArrives, Typed
  <2>2. order'[t] \in Observation /\ order'[t].filled = 0 /\ order[t].filled = 0
        /\ order'[t] # NoOrder /\ order[t].status = "null"
    BY <2>1, QtyAssumption DEF Observation, Statuses, NoAnswer, NoOrder
  <2>q. QED BY <1>1, <2>1, <2>2 DEF Forward, TerminalStatuses
<1>4. CASE OrderMoves /\ order'[t] # order[t]
  <2>1. PICK s \in Target : \E o \in Observation :
          /\ Open(s) /\ o.filled >= order[s].filled
          /\ o.status \in {"partially_filled", "filled", "canceled", "expired", "rejected"}
          /\ order' = [order EXCEPT ![s] = o]
    BY <1>4 DEF OrderMoves
  <2>2. PICK o \in Observation :
          /\ Open(s) /\ o.filled >= order[s].filled
          /\ o.status \in {"partially_filled", "filled", "canceled", "expired", "rejected"}
          /\ order' = [order EXCEPT ![s] = o]
    BY <2>1
  <2>3. s = t /\ order'[t] = o
    BY <1>4, <2>2 DEF Typed
  <2>4. o # NoOrder /\ order[t] # NoOrder /\ order[t].status \notin TerminalStatuses
    BY <2>2, <2>3 DEF NoOrder, Open, TerminalStatuses
  <2>q. QED BY <1>1, <2>2, <2>3, <2>4 DEF Forward
<1>5. CASE PostIsDropped
  BY <1>1, <1>2, <1>5 DEF PostIsDropped
<1>q. QED BY <1>2, <1>3, <1>4, <1>5 DEF BrokerStep

-----------------------------------------------------------------------------
(* The files                                                               *)

\* The hand-over at a given target.
HandOverAt(f, l, o, i) ==
  /\ \A t \in Target : t < i => f[t] \in ClosedHistories /\ l[t] = f[t] /\ o[t] = Flat
  /\ f[i] \in AttemptedHistories
  /\ l[i] \in {f[i], SubSeq(f[i], 1, Len(f[i]) - 1)}
  /\ Follows(LastEntry(f[i]), o[i])
  /\ \A t \in Target : t > i => f[t] = <<Reservation>> /\ l[t] = f[t] /\ o[t] = NoOrder

LEMMA HandOverIs ==
  ASSUME NEW f, DOMAIN f = Target, NEW l, NEW o
  PROVE  HandedOver(f, l, o) <=> \E i \in Target : HandOverAt(f, l, o, i)
BY DEF HandedOver, HandOverAt, Follows, Justified, Flat, AttemptedHistories

\* The broker's steps leave the files what they are.
LEMMA BrokerKeepsShape == CloseoutInv /\ DiskIsShaped /\ BrokerStep => DiskIsShaped'
<1> SUFFICES ASSUME CloseoutInv, DiskIsShaped, BrokerStep PROVE DiskIsShaped'
  OBVIOUS
<1>1. Typed /\ SentIsKnown
  BY DEF CloseoutInv
<1>2. UNCHANGED <<idem, ledger>>
  BY DEF BrokerStep, PostArrives, PostIsDropped, OrderMoves, stores
<1>3. DOMAIN idem = Target
  BY <1>1 DEF Typed, Histories
<1>4. CASE ~HandedOver(idem, ledger, order)
  BY <1>2, <1>4 DEF DiskIsShaped, DiskShape
<1>5. CASE HandedOver(idem, ledger, order)
  <2>1. PICK i \in Target : HandOverAt(idem, ledger, order, i)
    BY <1>3, <1>5, HandOverIs
  <2>2. HandOverAt(idem, ledger, order', i)
    <3>1. \A t \in Target : t < i => order'[t] = Flat
      <4>1. Flat.status \in TerminalStatuses
        BY DEF Flat, TerminalStatuses
      <4>q. QED BY <1>1, <2>1, <4>1, BrokerMovesForward DEF HandOverAt, Forward
    <3>2. Follows(LastEntry(idem[i]), order'[i])
      <4>1. idem[i] \in Seq(Entry) /\ Len(idem[i]) > 0
        <5>1. Len(idem[i]) \in 2..4
          BY <2>1, ClosedFacts, OpenFacts DEF HandOverAt, AttemptedHistories
        <5>2. \A n \in 2..4 : n > 0
          OBVIOUS
        <5>3. Len(idem[i]) > 0
          BY <5>1, <5>2
        <5>q. QED BY <1>1, <5>3 DEF Typed, Histories
      <4>2. LastEntry(idem[i]) \in Entry
        BY <4>1, LastIsEntry
      <4>q. QED BY <1>1, <2>1, <4>2, BrokerMovesForward, FollowsForward DEF HandOverAt
    <3>3. \A t \in Target : t > i => order'[t] = NoOrder
      <4> SUFFICES ASSUME NEW t \in Target, t > i PROVE order'[t] = NoOrder
        OBVIOUS
      <4>1. idem[t] = <<Reservation>> /\ order[t] = NoOrder
        BY <2>1 DEF HandOverAt
      <4>2. t \notin net
        <5>1. Len(idem[t]) = 1
          BY <4>1, ReservationIsEntry
        <5>2. t \in net => Len(idem[t]) > 1
          BY <1>1 DEF SentIsKnown
        <5>q. QED BY <5>1, <5>2
      <4>q. QED BY <1>1, <4>1, <4>2, BrokerMovesForward
    <3>q. QED BY <2>1, <3>1, <3>2, <3>3 DEF HandOverAt
  <2>3. HandedOver(idem, ledger, order')
    BY <1>3, <2>2, HandOverIs
  <2>q. QED BY <1>2, <2>3 DEF DiskIsShaped, DiskShape
<1>q. QED BY <1>4, <1>5

\* The last entry of a history that was lengthened.
LEMMA LastOfAppend ==
  \A h \in Seq(Entry), e \in Entry :
    LastEntry(Append(h, e)) = e /\ SubSeq(Append(h, e), 1, Len(Append(h, e)) - 1) = h
<1> SUFFICES ASSUME NEW h \in Seq(Entry), NEW e \in Entry
             PROVE  LastEntry(Append(h, e)) = e /\ SubSeq(Append(h, e), 1, Len(Append(h, e)) - 1) = h
  OBVIOUS
<1>1. /\ Append(h, e) \in Seq(Entry) /\ Len(Append(h, e)) = Len(h) + 1 /\ Len(h) \in Nat
      /\ Append(h, e)[Len(h) + 1] = e /\ \A i \in 1..Len(h) : Append(h, e)[i] = h[i]
  OBVIOUS
<1> DEFINE a == Append(h, e)
<1>2. Len(a) - 1 = Len(h)
  BY <1>1
<1>3. /\ SubSeq(a, 1, Len(h)) \in Seq(Entry) /\ Len(SubSeq(a, 1, Len(h))) = Len(h)
      /\ \A i \in 1..Len(h) : SubSeq(a, 1, Len(h))[i] = a[i]
  <2> HIDE DEF a
  <2>1. \A i \in 1..Len(h) : a[i] \in Entry
    BY <1>1 DEF a
  <2>2. /\ SubSeq(a, 1, Len(h)) \in Seq(Entry)
        /\ Len(SubSeq(a, 1, Len(h))) = IF 1 <= Len(h) THEN Len(h) - 1 + 1 ELSE 0
        /\ \A i \in 1..(Len(h) - 1 + 1) : SubSeq(a, 1, Len(h))[i] = a[1 + i - 1]
    BY <1>1, <2>1, SubSeqProperties
  <2>q. QED BY <1>1, <2>2
<1>4. SubSeq(a, 1, Len(h)) = h
  BY <1>1, <1>3, SeqEqual
<1>q. QED BY <1>1, <1>2, <1>4 DEF LastEntry

\* What a commit that is not the reservation writes can be handed over.
LEMMA PendingIsStorable ==
  ASSUME CloseoutInv, PendingFits, phase \in PersistPhases \ {"RESERVING"}
  PROVE  /\ pending[index] \in AttemptedHistories
         /\ Follows(LastEntry(pending[index]), order[index])
         /\ SubSeq(pending[index], 1, Len(pending[index]) - 1) = rows[index]
         /\ index \in Target
<1>1. /\ Typed /\ RowsFollowIndex /\ PendingIsNext
  BY DEF CloseoutInv
<1>2. index \in Target
  BY <1>1 DEF RowsFollowIndex, Running, PersistPhases
<1>3. PICK e \in Entry : pending[index] = Append(rows[index], e)
  BY <1>1 DEF PendingIsNext
<1>4. rows[index] \in Seq(Entry)
  BY <1>1, <1>2 DEF Typed, Histories
<1>5. SubSeq(pending[index], 1, Len(pending[index]) - 1) = rows[index]
  BY <1>3, <1>4, LastOfAppend
<1>6. order[index] \in Observation /\ order[index].filled \in Nat
  BY <1>1, <1>2, QtyAssumption DEF Typed, Observation
<1>7. CASE phase = "ATTEMPT_PERSIST"
  <2>1. LastEntry(Intent) = Attempt
    BY IntentFacts DEF LastEntry
  <2>2. Follows(Attempt, order[index])
    BY <1>6 DEF Follows, Attempt, Entered, NoOrder, TerminalStatuses
  <2>q. QED BY <1>2, <1>5, <1>7, <2>1, <2>2, IntentIsOpen DEF PendingFits, AttemptedHistories
<1>8. CASE phase = "OBSERVATION_PERSIST"
  <2>1. PICK g \in Entry : pending[index] = Append(Intent, g) /\ FirstAnswer(g)
    BY <1>8 DEF PendingFits, AnsweredWith
  <2>2. LastEntry(pending[index]) = g
    BY <2>1, IntentFacts, LastOfAppend
  <2>3. pending[index] \in OpenHistories
    BY <2>1, FirstIsOpen DEF FirstAnswer
  <2>q. QED BY <1>2, <1>5, <2>1, <2>2, <2>3 DEF FirstAnswer, AttemptedHistories
<1>9. CASE phase = "FINAL_PERSIST"
  BY <1>2, <1>5, <1>9 DEF PendingFits
<1>q. QED BY <1>7, <1>8, <1>9 DEF PersistPhases

\* A commit leaves the files in shape, with one of them saved or with both.
LEMMA CommitIsShaped ==
  ASSUME CloseoutInv, RecordInv, phase \in PersistPhases
  PROVE  \A l \in {Base, With(Base)} : DiskShape(With(Base), l, order)
<1>1. /\ Typed /\ SentIsKnown /\ StoresFollowRows /\ RowsFollowIndex /\ PendingIsNext
  BY DEF CloseoutInv
<1>2. CASE phase = "RESERVING"
  <2>1. pending = OnlyReserved /\ Base = Nothing
    BY <1>1, <1>2 DEF RowsFollowIndex, OnlyReserved, Base
  <2>2. With(Base) = OnlyReserved
    BY <2>1 DEF With, OnlyReserved
  <2>q. QED BY <2>1, <2>2 DEF DiskShape
<1>3. CASE phase # "RESERVING"
  <2>1. Base = rows /\ rows \in Histories /\ Running /\ Past
    BY <1>1, <1>3 DEF Base, Typed, Running, Past, PersistPhases
  <2>2. /\ With(rows) = [rows EXCEPT ![index] = pending[index]] /\ With(rows) \in Histories
    BY <1>1, <1>3, <2>1, CommitWritesOne
  <2>3. /\ pending[index] \in AttemptedHistories
        /\ Follows(LastEntry(pending[index]), order[index])
        /\ SubSeq(pending[index], 1, Len(pending[index]) - 1) = rows[index]
        /\ index \in Target
    BY <1>3, PendingIsStorable DEF RecordInv
  <2>4. /\ With(rows)[index] = pending[index]
        /\ \A t \in Target \ {index} : With(rows)[t] = rows[t]
        /\ DOMAIN With(rows) = Target
    BY <2>1, <2>2, <2>3 DEF Histories
  <2>5. SoldBefore(index, rows, order)
    BY <2>1 DEF RecordInv, RowsAreFlat
  <2>6. \A t \in Target : t > index => rows[t] = <<Reservation>> /\ order[t] = NoOrder
    <3> SUFFICES ASSUME NEW t \in Target, t > index PROVE rows[t] = <<Reservation>> /\ order[t] = NoOrder
      OBVIOUS
    <3>1. rows[t] = <<Reservation>>
      BY <1>1, <2>1 DEF RowsFollowIndex, Past
    <3>2. t # index
      BY <2>3, NAssumption DEF Target
    <3>3. ledger \in {rows, With(rows)}
      BY <1>1, <2>1 DEF StoresFollowRows
    <3>4. Len(ledger[t]) = 1
      BY <2>4, <3>1, <3>2, <3>3, ReservationIsEntry
    <3>5. posts[t] = 1 => Len(ledger[t]) > 1
      BY <1>1 DEF SentIsKnown
    <3>6. posts[t] # 1
      BY <3>4, <3>5
    <3>7. order[t] = NoAnswer
      BY <1>1, <3>6 DEF SentIsKnown
    <3>q. QED BY <3>1, <3>7 DEF NoAnswer, NoOrder
  <2>7. \A t \in Target : t < index \/ t > index => t # index
    BY NAssumption, <2>3 DEF Target
  <2>8. \A l \in {rows, With(rows)} : HandOverAt(With(rows), l, order, index)
    BY <2>3, <2>4, <2>5, <2>6, <2>7 DEF HandOverAt, SoldBefore
  <2>9. \A l \in {rows, With(rows)} : HandedOver(With(rows), l, order)
    BY <2>3, <2>4, <2>8, HandOverIs
  <2>q. QED BY <2>1, <2>9 DEF DiskShape
<1>q. QED BY <1>2, <1>3

\* Every step leaves the files in shape.
LEMMA ShapeStep == CloseoutInv /\ RecordInv /\ [Next]_vars => DiskIsShaped'
<1> SUFFICES ASSUME CloseoutInv, RecordInv, [Next]_vars PROVE DiskIsShaped'
  OBVIOUS
<1>1. CASE UNCHANGED <<idem, ledger, order>>
  BY <1>1 DEF RecordInv, DiskIsShaped
<1>2. CASE BrokerStep
  BY <1>2, BrokerKeepsShape DEF RecordInv
<1>3. CASE SaveIdempotency \/ SaveLedger \/ CommitFails
  <2>1. /\ Typed /\ InStep /\ StoresFollowRows /\ RowsFollowIndex /\ PendingIsNext
    BY DEF CloseoutInv
  <2>2. /\ step \in {"save_idem", "save_ledger", "reload"} /\ order' = order
    BY <1>3 DEF SaveIdempotency, SaveLedger, CommitFails, broker
  <2>3. phase \in PersistPhases /\ Running
    BY <2>1, <2>2 DEF InStep, CommitSteps, PersistPhases, Running
  <2>4. /\ step = "save_idem" => idem = Base /\ ledger = Base
        /\ step = "save_ledger" => idem = With(Base) /\ ledger = Base
    BY <2>1, <2>3 DEF StoresFollowRows
  <2>5. \/ UNCHANGED <<idem, ledger>>
        \/ step = "save_idem" /\ idem' = With(Base) /\ ledger' = Base
        \/ step = "save_ledger" /\ idem' = With(Base) /\ ledger' = With(Base)
    <3>1. CASE SaveIdempotency
      BY <2>4, <3>1 DEF SaveIdempotency
    <3>2. CASE SaveLedger
      BY <2>4, <3>2 DEF SaveLedger
    <3>3. CASE CommitFails /\ step = "save_idem"
      BY <2>4, <3>3 DEF CommitFails
    <3>4. CASE CommitFails /\ step = "save_ledger"
      BY <2>4, <3>4 DEF CommitFails
    <3>5. CASE CommitFails /\ step = "reload"
      BY <3>5 DEF CommitFails
    <3>q. QED BY <1>3, <2>2, <3>1, <3>2, <3>3, <3>4, <3>5
  <2>6. CASE UNCHANGED <<idem, ledger>>
    BY <1>1, <2>2, <2>6
  <2>7. CASE idem' = With(Base) /\ ledger' \in {Base, With(Base)}
    <3>1. DiskShape(idem', ledger', order')
      BY <2>2, <2>3, <2>7, CommitIsShaped
    <3>q. QED BY <3>1 DEF DiskIsShaped
  <2>q. QED BY <2>5, <2>6, <2>7
<1>4. Next => BrokerStep \/ SaveIdempotency \/ SaveLedger \/ CommitFails \/ UNCHANGED <<idem, ledger, order>>
  <2>1. EnterStores \/ Refused \/ Backup \/ BackupFails \/ ReadThrows \/ Return \/ Crash
          \/ OperatorClearsLock => UNCHANGED <<idem, ledger, order>>
    BY DEF EnterStores, Refused, Backup, BackupFails, ReadThrows, Return, Crash, OperatorClearsLock,
       stores, broker
  <2>2. AccountReady \/ InitialPreflight \/ Preflight \/ Expire \/ BeginCommit \/ Reload
          => UNCHANGED <<idem, ledger, order>>
    BY DEF AccountReady, InitialPreflight, Preflight, Expire, BeginCommit, Reload, stores, broker
  <2>3. Reserved \/ AttemptRecorded \/ ObservationRecorded \/ FinalRecorded
          => UNCHANGED <<idem, ledger, order>>
    BY DEF Reserved, AttemptRecorded, ObservationRecorded, FinalRecorded, stores, broker
  <2>4. Gate \/ GateFails \/ Send \/ AnswerArrives \/ AnswerIsLost \/ SubmitResult \/ Lookup \/ Postcheck
          => UNCHANGED <<idem, ledger, order>>
    BY DEF Gate, GateFails, Send, AnswerArrives, AnswerIsLost, SubmitResult, Lookup, Postcheck, stores, broker
  <2>q. QED BY <2>1, <2>2, <2>3, <2>4 DEF Next, RunStep
<1>5. CASE UNCHANGED vars
  BY <1>1, <1>5 DEF vars
<1>q. QED BY <1>1, <1>2, <1>3, <1>4, <1>5

-----------------------------------------------------------------------------
(* The controller's part of the invariant                                  *)

MemoryInv ==
  RowsAreStored /\ RowsAreFlat /\ RowFits /\ PendingFits /\ AnswerIsTrue /\ CompleteIsFlat

\* A run that is not under way, or only reads or has stopped, has nothing to answer for.
LEMMA IdleKeepsMemory ==
  ASSUME phase' \in {"CREATED", "ACCOUNT_PREFLIGHT", "INITIAL_PREFLIGHT", "STOPPED"},
         step' \notin {"answered", "looked"}, RowsAreStored'
  PROVE  MemoryInv'
BY DEF MemoryInv, RowsAreFlat, RowFits, PendingFits, AnswerIsTrue, CompleteIsFlat, Past, Running

LEMMA NothingIsStored == \A t \in Target : Nothing[t] \in StoredHistories
BY DEF Nothing, StoredHistories

LEMMA DownKeepsMemory == Down => MemoryInv'
<1> SUFFICES ASSUME Down PROVE MemoryInv'
  OBVIOUS
<1>1. rows' = Nothing /\ phase' = "CREATED" /\ step' = "down"
  BY DEF Down, Nothing
<1>q. QED BY <1>1, NothingIsStored, IdleKeepsMemory DEF RowsAreStored

\* Commits change nothing that the controller remembers.
LEMMA SameMemory ==
  ASSUME RecordInv, UNCHANGED <<phase, index, rows, pending, sticky, answer, order>>,
         step' \in {"answered", "looked"} => step' = step, phase = "COMPLETE" => idem' = idem
  PROVE  MemoryInv'
<1>1. RowsAreStored' /\ RowsAreFlat'
  BY DEF RecordInv, RowsAreStored, RowsAreFlat, SoldBefore, Past, Running
<1>2. \A h : AnsweredWith(h) => AnsweredWith(h)'
  BY DEF AnsweredWith, FirstAnswer, Follows
<1>3. RowFits' /\ PendingFits'
  <2>1. AnsweredWith(rows[index]) => AnsweredWith(rows[index])'
    BY <1>2
  <2>2. AnsweredWith(pending[index]) => AnsweredWith(pending[index])'
    BY <1>2
  <2>q. QED BY <2>1, <2>2 DEF RecordInv, RowFits, PendingFits, Follows
<1>4. AnswerIsTrue' /\ CompleteIsFlat'
  BY DEF RecordInv, AnswerIsTrue, CompleteIsFlat, Follows
<1>q. QED BY <1>1, <1>3, <1>4 DEF MemoryInv

LEMMA BrokerKeepsMemory == CloseoutInv /\ RecordInv /\ BrokerStep => MemoryInv'
<1> SUFFICES ASSUME CloseoutInv, RecordInv, BrokerStep PROVE MemoryInv'
  OBVIOUS
<1>1. UNCHANGED <<idem, step, phase, index, rows, pending, sticky, answer>>
  BY DEF BrokerStep, PostArrives, PostIsDropped, OrderMoves, stores, control
<1>2. Typed /\ RowsFollowIndex /\ InStep /\ PendingIsNext
  BY DEF CloseoutInv
<1>3. \A t \in Target : /\ order[t] \in Observation /\ order'[t] \in Observation
                         /\ Forward(order[t], order'[t])
  BY <1>2, BrokerMovesForward
<1>4. RowsAreStored' /\ CompleteIsFlat'
  BY <1>1 DEF RecordInv, RowsAreStored, CompleteIsFlat
<1>5. RowsAreFlat'
  <2>1. Flat.status \in TerminalStatuses
    BY DEF Flat, TerminalStatuses
  <2>2. SoldBefore(index, rows, order) => SoldBefore(index, rows, order')
    BY <1>3, <2>1 DEF SoldBefore, Forward
  <2>q. QED BY <1>1, <2>2 DEF RecordInv, RowsAreFlat, Past, Running
<1>6. ASSUME phase \notin {"CREATED", "STOPPED", "COMPLETE"} PROVE index \in Target
  BY <1>2, <1>6 DEF RowsFollowIndex, Running
<1>7. ASSUME index \in Target, NEW h, AnsweredWith(h) PROVE AnsweredWith(h)'
  <2>1. PICK e \in Entry : h = Append(Intent, e) /\ FirstAnswer(e)
    BY <1>7 DEF AnsweredWith
  <2>2. Follows(e, order'[index])
    BY <1>3, <1>7, <2>1, FollowsForward DEF FirstAnswer
  <2>3. FirstAnswer(e)'
    BY <1>1, <2>1, <2>2 DEF FirstAnswer
  <2>q. QED BY <2>1, <2>3 DEF AnsweredWith
<1>8. RowFits'
  BY <1>1, <1>6, <1>7 DEF RecordInv, RowFits
<1>9. PendingFits'
  <2>1. ASSUME phase = "FINAL_PERSIST"
        PROVE  Follows(LastEntry(pending[index]), order'[index])
    <3>1. index \in Target
      BY <1>6, <2>1
    <3>2. pending[index] \in AttemptedHistories /\ Follows(LastEntry(pending[index]), order[index])
      BY <2>1 DEF RecordInv, PendingFits
    <3>3. LastEntry(pending[index]) \in Entry
      <4>1. PICK e \in Entry : pending[index] = Append(rows[index], e)
        BY <1>2, <2>1 DEF PendingIsNext, PersistPhases
      <4>q. QED BY <1>2, <3>1, <4>1, LastOfAppend DEF Typed, Histories
    <3>q. QED BY <1>3, <3>1, <3>2, <3>3, FollowsForward
  <2>q. QED BY <1>1, <1>6, <1>7, <2>1 DEF RecordInv, PendingFits
<1>10. AnswerIsTrue'
  <2>1. step \in {"answered", "looked"} => index \in Target
    BY <1>2, <1>6 DEF InStep, SubmitSteps
  <2>q. QED BY <1>1, <1>2, <1>3, <2>1, FollowsForward DEF RecordInv, AnswerIsTrue, Typed
<1>q. QED BY <1>4, <1>5, <1>8, <1>9, <1>10 DEF MemoryInv

\* Up to the first commit, and the intent of every target.
LEMMA PreparesMemory ==
  CloseoutInv /\ RecordInv /\ (EnterStores \/ OperatorClearsLock \/ Backup \/ AccountReady
    \/ InitialPreflight \/ Preflight \/ Expire) => MemoryInv'
<1> SUFFICES ASSUME CloseoutInv, RecordInv,
                    EnterStores \/ OperatorClearsLock \/ Backup \/ AccountReady \/ InitialPreflight
                      \/ Preflight \/ Expire
             PROVE  MemoryInv'
  OBVIOUS
<1>a. Typed /\ InStep /\ RowsFollowIndex
  BY DEF CloseoutInv
<1>b. RowsAreStored
  BY DEF RecordInv
<1>1. CASE OperatorClearsLock
  BY <1>1, SameMemory DEF OperatorClearsLock, stores, control, broker
<1>2. CASE EnterStores \/ Backup \/ AccountReady \/ Expire
  <2>1. /\ rows' = rows /\ step' \notin {"answered", "looked"}
    BY <1>2 DEF EnterStores, Backup, AccountReady, Expire, control
  <2>2. phase' \in {"CREATED", "ACCOUNT_PREFLIGHT", "INITIAL_PREFLIGHT", "STOPPED"}
    BY <1>a, <1>2 DEF EnterStores, Backup, AccountReady, Expire, control, Issue, Stop, InStep
  <2>3. RowsAreStored'
    BY <1>b, <2>1 DEF RowsAreStored
  <2>q. QED BY <2>1, <2>2, <2>3, IdleKeepsMemory
<1>3. CASE InitialPreflight
  <2>1. /\ phase = "INITIAL_PREFLIGHT" /\ phase' = "RESERVING" /\ step' = "loop"
        /\ rows' = OnlyReserved /\ index' = index
    BY <1>3 DEF InitialPreflight, OnlyReserved
  <2>2. index' = 1
    BY <1>a, <2>1 DEF RowsFollowIndex
  <2>3. RowsAreStored'
    BY <2>1 DEF RowsAreStored, OnlyReserved, StoredHistories
  <2>4. SoldBefore(index, rows, order)'
    <3>1. \A t \in Target : ~(t < 1)
      BY NAssumption DEF Target
    <3>q. QED BY <2>2, <3>1 DEF SoldBefore
  <2>q. QED BY <2>1, <2>3, <2>4 DEF MemoryInv, RowsAreFlat, RowFits, PendingFits, AnswerIsTrue, CompleteIsFlat
<1>4. CASE Preflight
  <2>1. /\ phase = "REVALIDATING" /\ phase' = "ATTEMPT_PERSIST" /\ step = "loop" /\ step' = "loop"
        /\ pending' = Only(index, Appended("ATTEMPTED", Known(index)))
        /\ UNCHANGED <<index, rows, order>>
    BY <1>4 DEF Preflight, broker
  <2>2. index \in Target /\ rows[index] = <<Reservation>>
    BY <1>a, <2>1 DEF RowsFollowIndex, Running
  <2>3. LastEntry(<<Reservation>>) = Reservation
    BY ReservationIsEntry DEF LastEntry
  <2>4. Known(index) = NoOrder
    BY <2>2, <2>3 DEF Known, Reservation, NoOrder
  <2>5. Appended("ATTEMPTED", Known(index)) = Intent
    <3>1. Appended("ATTEMPTED", NoOrder) = Append(rows[index], Attempt)
      BY DEF Appended, Attempt, Entered
    <3>q. QED BY <2>2, <2>4, <3>1, IntentFacts
  <2>6. pending'[index] = Intent
    BY <2>1, <2>5 DEF Only
  <2>7. RowsAreStored' /\ RowsAreFlat'
    BY <1>b, <2>1 DEF RecordInv, RowsAreStored, RowsAreFlat, SoldBefore, Past, Running
  <2>q. QED BY <2>1, <2>6, <2>7 DEF MemoryInv, RowFits, PendingFits, AnswerIsTrue, CompleteIsFlat
<1>q. QED BY <1>1, <1>2, <1>3, <1>4

LEMMA CommitsKeepMemory ==
  CloseoutInv /\ RecordInv /\ (BeginCommit \/ SaveIdempotency \/ SaveLedger \/ Reload) => MemoryInv'
<1> SUFFICES ASSUME CloseoutInv, RecordInv, BeginCommit \/ SaveIdempotency \/ SaveLedger \/ Reload
             PROVE  MemoryInv'
  OBVIOUS
<1>1. CASE BeginCommit /\ ~StoresAccept
  BY <1>1, DownKeepsMemory DEF BeginCommit, Throw
<1>2. CASE ~(BeginCommit /\ ~StoresAccept)
  <2>1. /\ UNCHANGED <<phase, index, rows, pending, sticky, answer, order>>
        /\ step' \in CommitSteps /\ (BeginCommit => phase \in PersistPhases)
    BY <1>2 DEF BeginCommit, SaveIdempotency, SaveLedger, Reload, control, broker, CommitSteps
  <2>2. phase # "COMPLETE"
    BY <2>1 DEF BeginCommit, SaveIdempotency, SaveLedger, Reload, CloseoutInv, InStep, CommitSteps, PersistPhases
  <2>q. QED BY <2>1, <2>2, SameMemory DEF CommitSteps
<1>q. QED BY <1>1, <1>2

\* With the receipt the pending record is one of the rows.
LEMMA ReceiptsKeepMemory ==
  CloseoutInv /\ RecordInv /\ (Reserved \/ AttemptRecorded \/ ObservationRecorded \/ FinalRecorded)
    => MemoryInv'
<1> SUFFICES ASSUME CloseoutInv, RecordInv,
                    Reserved \/ AttemptRecorded \/ ObservationRecorded \/ FinalRecorded
             PROVE  MemoryInv'
  OBVIOUS
<1>a. /\ Typed /\ InStep /\ StoresFollowRows /\ RowsFollowIndex /\ PendingIsNext
  BY DEF CloseoutInv
<1>b. /\ step = "receipt" /\ step' = "loop" /\ UNCHANGED <<idem, pending, answer, order>>
  BY DEF Reserved, AttemptRecorded, ObservationRecorded, FinalRecorded, stores, broker
<1>c. phase \in PersistPhases /\ Past /\ Running /\ index \in Target /\ rows \in Histories
  BY <1>a, <1>b DEF InStep, CommitSteps, Past, Running, PersistPhases, RowsFollowIndex, Typed
<1>d. SoldBefore(index, rows, order) /\ RowsAreStored
  BY <1>c DEF RecordInv, RowsAreFlat
<1>e. AnswerIsTrue'
  BY <1>b DEF AnswerIsTrue
<1>1. CASE Reserved
  <2>1. phase' \in {"REVALIDATING", "STOPPED"} /\ UNCHANGED <<index, rows>>
    BY <1>1 DEF Reserved, Issue, Stop
  <2>2. RowsAreStored' /\ RowsAreFlat'
    BY <1>b, <1>d, <2>1 DEF RowsAreStored, RowsAreFlat, SoldBefore
  <2>q. QED BY <1>e, <2>1, <2>2 DEF MemoryInv, RowFits, PendingFits, CompleteIsFlat
<1>2. CASE AttemptRecorded \/ ObservationRecorded \/ FinalRecorded
  <2>1. phase \in PersistPhases \ {"RESERVING"} /\ rows' = [rows EXCEPT ![index] = pending[index]]
    BY <1>2 DEF AttemptRecorded, ObservationRecorded, FinalRecorded, PersistPhases
  <2>2. /\ pending[index] \in AttemptedHistories
        /\ Follows(LastEntry(pending[index]), order[index])
    BY <2>1, PendingIsStorable DEF RecordInv
  <2>3. /\ rows'[index] = pending[index] /\ \A t \in Target \ {index} : rows'[t] = rows[t]
    BY <1>c, <2>1 DEF Histories
  <2>4. RowsAreStored'
    BY <1>d, <2>2, <2>3 DEF RowsAreStored, StoredHistories
  <2>5. SoldBefore(index, rows', order)
    <3>1. \A t \in Target : t < index => t # index
      BY <1>c, NAssumption DEF Target
    <3>q. QED BY <1>d, <2>3, <3>1 DEF SoldBefore
  <2>6. CASE phase' = "STOPPED"
    BY <1>b, <2>4, <2>6, IdleKeepsMemory
  <2>7. CASE phase' # "STOPPED" /\ AttemptRecorded
    <3>1. phase = "ATTEMPT_PERSIST" /\ phase' = "SUBMITTING" /\ index' = index
      BY <2>7 DEF AttemptRecorded, Issue, Stop
    <3>2. rows'[index] = Intent
      BY <2>3, <3>1 DEF RecordInv, PendingFits
    <3>q. QED BY <1>b, <1>e, <2>4, <2>5, <3>1, <3>2
      DEF MemoryInv, RowsAreFlat, RowFits, PendingFits, CompleteIsFlat
  <2>8. CASE phase' # "STOPPED" /\ ObservationRecorded
    <3>1. phase = "OBSERVATION_PERSIST" /\ phase' = "POSTCHECK" /\ index' = index /\ sticky' = sticky
      BY <2>8 DEF ObservationRecorded, Issue, Stop
    <3>2. AnsweredWith(pending[index])
      BY <3>1 DEF RecordInv, PendingFits
    <3>3. AnsweredWith(rows[index])'
      BY <1>b, <2>3, <3>1, <3>2 DEF AnsweredWith, FirstAnswer, Follows
    <3>q. QED BY <1>b, <1>e, <2>4, <2>5, <3>1, <3>3
      DEF MemoryInv, RowsAreFlat, RowFits, PendingFits, CompleteIsFlat
  <2>9. CASE phase' # "STOPPED" /\ FinalRecorded
    <3>1. /\ phase = "FINAL_PERSIST" /\ index' = index + 1
          /\ LastEntry(pending[index]).phase = "FLAT_RECONCILED"
          /\ phase' \in {"COMPLETE", "REVALIDATING"} /\ (phase' = "COMPLETE" => index = N)
      BY <2>9 DEF FinalRecorded, Issue, Stop
    <3>2. pending[index] \in ClosedHistories
      <4>1. Len(pending[index]) > 1
        BY <1>a, <1>c, <2>1, CommitWritesOne
      <4>2. pending[index] # NoRecord
        <5>1. Len(NoRecord) = 0
          BY DEF NoRecord
        <5>q. QED BY <4>1, <5>1
      <4>3. PhaseOf(pending[index]) = "FLAT_RECONCILED"
        BY <3>1, <4>2 DEF PhaseOf
      <4>q. QED BY <2>2, <4>3, OpenFacts DEF AttemptedHistories
    <3>3. order[index] = Flat
      <4>1. LastEntry(pending[index]) = Entered("FLAT_RECONCILED", Flat)
        BY <3>2, ClosedFacts
      <4>2. Follows(Entered("FLAT_RECONCILED", Flat), order[index])
        BY <2>2, <4>1
      <4>3. Qty <= order[index].filled /\ order[index].status = "filled"
        BY <4>2 DEF Follows, Entered, Flat, TerminalStatuses
      <4>4. order[index] \in Observation
        BY <1>a, <1>c DEF Typed
      <4>5. order[index].filled = Qty
        BY <4>3, <4>4, QtyAssumption DEF Observation
      <4>q. QED BY <4>3, <4>4, <4>5 DEF Observation, Flat
    <3>4. SoldBefore(index + 1, rows', order)
      <4>1. \A t \in Target : t < index + 1 => t < index \/ t = index
        BY <1>c, NAssumption DEF Target
      <4>q. QED BY <2>3, <2>5, <3>2, <3>3, <4>1 DEF SoldBefore
    <3>5. RowsAreFlat'
      BY <1>b, <3>1, <3>4 DEF RowsAreFlat
    <3>6. CompleteIsFlat'
      <4> SUFFICES ASSUME phase' = "COMPLETE", NEW t \in Target
                   PROVE  PhaseOf(idem'[t]) = "FLAT_RECONCILED"
        BY DEF CompleteIsFlat
      <4>1. t < index + 1
        BY <1>c, <3>1, NAssumption DEF Target
      <4>2. rows'[t] \in ClosedHistories
        BY <3>4, <4>1 DEF SoldBefore
      <4>3. idem = With(rows)
        BY <1>a, <1>b, <1>c, <3>1 DEF StoresFollowRows, Base
      <4>4. With(rows) = [rows EXCEPT ![index] = pending[index]]
        BY <1>a, <1>c, <2>1, CommitWritesOne
      <4>5. idem' = rows'
        BY <1>b, <2>1, <4>3, <4>4
      <4>q. QED BY <4>2, <4>5, ClosedFacts
    <3>q. QED BY <1>e, <2>4, <3>1, <3>5, <3>6 DEF MemoryInv, RowFits, PendingFits
  <2>q. QED BY <1>2, <2>6, <2>7, <2>8, <2>9
<1>q. QED BY <1>1, <1>2

\* The POST and its answer: what the broker answers is what its order is.
LEMMA SubmitsKeepMemory ==
  CloseoutInv /\ RecordInv /\ (Gate \/ GateFails \/ Send \/ AnswerArrives \/ AnswerIsLost) => MemoryInv'
<1> SUFFICES ASSUME CloseoutInv, RecordInv, Gate \/ GateFails \/ Send \/ AnswerArrives \/ AnswerIsLost
             PROVE  MemoryInv'
  OBVIOUS
<1>a. Typed /\ InStep /\ RowsFollowIndex
  BY DEF CloseoutInv
<1>1. /\ phase = "SUBMITTING" /\ UNCHANGED <<phase, index, rows, pending, sticky, order>>
      /\ step' \in {"send", "waiting", "answered"}
  BY <1>a DEF Gate, GateFails, Send, AnswerArrives, AnswerIsLost, control, broker, InStep, SubmitSteps
<1>2. index \in Target
  BY <1>a, <1>1 DEF RowsFollowIndex, Running
<1>3. step' = "answered" => answer' \in {NoAnswer, order[index]}
  BY <1>1 DEF Gate, GateFails, Send, AnswerArrives, AnswerIsLost
<1>4. AnswerIsTrue'
  <2>1. order[index] \in Observation /\ order[index].filled \in Nat
    BY <1>a, <1>2, QtyAssumption DEF Typed, Observation
  <2>2. Follows(NoAnswer, order[index])
    BY <2>1 DEF Follows, NoAnswer, TerminalStatuses
  <2>3. Follows(order[index], order[index])
    BY <2>1 DEF Follows, NoOrder
  <2>q. QED BY <1>1, <1>3, <2>2, <2>3 DEF AnswerIsTrue
<1>5. RowsAreStored' /\ RowsAreFlat' /\ RowFits' /\ PendingFits' /\ CompleteIsFlat'
  BY <1>1 DEF RecordInv, RowsAreStored, RowsAreFlat, SoldBefore, Past, Running, RowFits, PendingFits, CompleteIsFlat
<1>q. QED BY <1>4, <1>5 DEF MemoryInv

\* A record that follows another one.
LEMMA SubmitResultIsRecorded ==
  ASSUME CloseoutInv, RecordInv, SubmitResult
  PROVE  AnsweredWith(pending[index])'
<1>1. Typed /\ InStep /\ RowsFollowIndex
  BY DEF CloseoutInv
<1>2. step = "answered" /\ phase = "SUBMITTING" /\ UNCHANGED <<index, rows, order>>
  BY <1>1 DEF SubmitResult, broker, InStep, SubmitSteps
<1>3. index \in Target /\ rows[index] = Intent
  BY <1>1, <1>2 DEF RowsFollowIndex, Running, RecordInv, RowFits
<1>4. Known(index) = NoOrder
  <2>1. LastEntry(Intent) = Attempt
    BY IntentFacts DEF LastEntry
  <2>q. QED BY <1>3, <2>1 DEF Known, Attempt, Entered, NoOrder
<1>5. Follows(answer, order[index]) /\ answer \in Observation
      /\ order[index] \in Observation /\ order[index].filled \in Nat
  BY <1>1, <1>2, <1>3, QtyAssumption DEF RecordInv, AnswerIsTrue, Typed, Observation
<1>6. CASE /\ Acceptable(answer)
           /\ pending' = Only(index, Appended("OBSERVED", answer))
           /\ sticky' = (sticky \/ answer.status \notin {"accepted", "filled"})
  <2>1. PICK e \in Entry : e = [phase |-> "OBSERVED", status |-> answer.status, filled |-> answer.filled]
    BY <1>5 DEF Observation, Entry, Phases
  <2>2. pending'[index] = Append(Intent, e)
    BY <1>3, <1>6, <2>1 DEF Only, Appended
  <2>3. FirstEntry(e)
    BY <1>5, <1>6, <2>1 DEF FirstEntry, ValidEntry, Acceptable, Observation
  <2>4. Follows(e, order[index])
    BY <1>5, <2>1 DEF Follows
  <2>5. FirstAnswer(e)'
    BY <1>2, <1>6, <2>1, <2>3, <2>4 DEF FirstAnswer
  <2>q. QED BY <1>2, <2>1, <2>2, <2>5 DEF AnsweredWith
<1>7. CASE pending' = Only(index, Appended("STOPPED", Known(index))) /\ sticky' = TRUE
  <2> DEFINE e == [phase |-> "STOPPED", status |-> "null", filled |-> 0]
  <2>1. e \in Entry
    BY QtyAssumption DEF Entry, Phases, Statuses
  <2>2. pending'[index] = Append(Intent, e)
    BY <1>3, <1>4, <1>7 DEF Only, Appended, NoOrder
  <2>3. FirstEntry(e)
    BY DEF FirstEntry, ValidEntry
  <2>4. Follows(e, order[index])
    BY <1>5 DEF Follows, TerminalStatuses
  <2>5. FirstAnswer(e)'
    BY <1>2, <1>7, <2>3, <2>4 DEF FirstAnswer
  <2> HIDE DEF e
  <2>q. QED BY <1>2, <2>1, <2>2, <2>5 DEF AnsweredWith
<1>q. QED BY <1>6, <1>7 DEF SubmitResult

LEMMA PostcheckIsRecorded ==
  ASSUME CloseoutInv, RecordInv, Postcheck
  PROVE  /\ pending'[index] \in AttemptedHistories
         /\ Follows(LastEntry(pending'[index]), order[index])
<1>1. Typed /\ InStep /\ RowsFollowIndex
  BY DEF CloseoutInv
<1>2. step = "looked" /\ phase = "POSTCHECK" /\ UNCHANGED <<index, rows, order>>
  BY <1>1 DEF Postcheck, broker, InStep
<1>3. index \in Target /\ AnsweredWith(rows[index])
  BY <1>1, <1>2 DEF RowsFollowIndex, Running, RecordInv, RowFits
<1>4. PICK e \in Entry : rows[index] = Append(Intent, e) /\ FirstAnswer(e)
  BY <1>3 DEF AnsweredWith
<1>5. LastEntry(rows[index]) = e /\ rows[index] \in Seq(Entry)
  BY <1>4, IntentFacts, LastOfAppend, ThirdEntry
<1>6. Known(index) = [status |-> e.status, filled |-> e.filled]
  BY <1>5 DEF Known
<1>7. Follows(answer, order[index]) /\ answer \in Observation
  BY <1>1, <1>2 DEF RecordInv, AnswerIsTrue, Typed
<1>8. FirstEntry(e) /\ Follows(e, order[index]) /\ e.filled \in Nat
      /\ e.phase \in {"OBSERVED", "STOPPED"}
  BY <1>4, QtyAssumption DEF FirstAnswer, FirstEntry, Entry
<1>9. ASSUME NEW p \in {"STOPPED", "FLAT_RECONCILED"}, NEW o \in Observation,
             pending' = Only(index, Appended(p, o))
      PROVE  /\ Entered(p, o) \in Entry /\ pending'[index] = Append(Append(Intent, e), Entered(p, o))
             /\ LastEntry(pending'[index]) = Entered(p, o)
  <2>1. Entered(p, o) \in Entry
    BY DEF Entered, Observation, Entry, Phases
  <2>2. pending'[index] = Append(rows[index], Entered(p, o))
    BY <1>9 DEF Only, Appended, Entered
  <2>q. QED BY <1>4, <1>5, <2>1, <2>2, LastOfAppend
<1>10. CASE /\ Acceptable(answer) /\ answer.status = "filled" /\ ~sticky
            /\ pending' = Only(index, Appended("FLAT_RECONCILED", answer))
  <2>1. answer = Flat
    BY <1>7, <1>10 DEF Acceptable, Flat, Observation
  <2>2. e.phase = "OBSERVED" /\ e.status \in {"accepted", "filled"}
    BY <1>4, <1>10 DEF FirstAnswer
  <2>3. /\ pending'[index] = Append(Append(Intent, e), Entered("FLAT_RECONCILED", answer))
        /\ LastEntry(pending'[index]) = Entered("FLAT_RECONCILED", answer)
        /\ Entered("FLAT_RECONCILED", answer) \in Entry
    BY <1>7, <1>9, <1>10
  <2>4. pending'[index] \in ClosedHistories
    BY <1>8, <2>1, <2>2, <2>3, FlatIsClosed
  <2>5. Follows(Entered("FLAT_RECONCILED", answer), order[index])
    BY <1>7 DEF Follows, Entered
  <2>q. QED BY <2>3, <2>4, <2>5 DEF AttemptedHistories
<1>11. CASE Acceptable(answer) /\ pending' = Only(index, Appended("STOPPED", answer))
  <2> DEFINE g == Entered("STOPPED", answer)
  <2>1. /\ pending'[index] = Append(Append(Intent, e), g) /\ LastEntry(pending'[index]) = g
        /\ g \in Entry
    BY <1>7, <1>9, <1>11
  <2>2. g.phase = "STOPPED" /\ g.status = answer.status /\ g.filled = answer.filled
    BY DEF Entered
  <2>3. ValidEntry(g)
    BY <1>7, <1>11, <2>2 DEF ValidEntry, Acceptable, Observation
  <2>4. Succeeds(e, g)
    <3>1. /\ answer.filled >= e.filled
          /\ e.status \in TerminalStatuses => answer.status = e.status
      BY <1>6, <1>11 DEF Acceptable
    <3>q. QED BY <1>8, <2>2, <3>1 DEF Succeeds, ValidSuccessor, Edges
  <2>5. Follows(g, order[index])
    BY <1>7, <2>2 DEF Follows
  <2> HIDE DEF g
  <2>q. QED BY <1>8, <2>1, <2>2, <2>3, <2>4, <2>5, StopIsOpen DEF AttemptedHistories
<1>12. CASE pending' = Only(index, Appended("STOPPED", Known(index)))
  <2> DEFINE g == Entered("STOPPED", Known(index))
  <2>1. Known(index) \in Observation
    BY <1>6 DEF Entry, Observation
  <2>2. /\ pending'[index] = Append(Append(Intent, e), g) /\ LastEntry(pending'[index]) = g
        /\ g \in Entry
    BY <1>9, <1>12, <2>1
  <2>3. g.phase = "STOPPED" /\ g.status = e.status /\ g.filled = e.filled
    BY <1>6 DEF Entered
  <2>4. ValidEntry(g)
    BY <1>8, <2>3 DEF ValidEntry, FirstEntry
  <2>5. Succeeds(e, g)
    BY <1>8, <2>3 DEF Succeeds, ValidSuccessor, Edges
  <2>6. Follows(g, order[index])
    BY <1>8, <2>3 DEF Follows
  <2> HIDE DEF g
  <2>q. QED BY <1>8, <2>2, <2>3, <2>4, <2>5, <2>6, StopIsOpen DEF AttemptedHistories
<1>q. QED BY <1>10, <1>11, <1>12 DEF Postcheck

LEMMA ObservesKeepMemory ==
  CloseoutInv /\ RecordInv /\ (SubmitResult \/ Lookup \/ Postcheck) => MemoryInv'
<1> SUFFICES ASSUME CloseoutInv, RecordInv, SubmitResult \/ Lookup \/ Postcheck PROVE MemoryInv'
  OBVIOUS
<1>a. Typed /\ InStep /\ RowsFollowIndex
  BY DEF CloseoutInv
<1>b. /\ phase \in {"SUBMITTING", "POSTCHECK"} /\ UNCHANGED <<index, rows, order>>
  BY <1>a DEF SubmitResult, Lookup, Postcheck, control, broker, InStep, SubmitSteps
<1>c. /\ phase' \in {"OBSERVATION_PERSIST", "POSTCHECK", "FINAL_PERSIST"}
      /\ Lookup => phase' = "POSTCHECK" /\ phase = "POSTCHECK" /\ sticky' = sticky
      /\ SubmitResult => phase' = "OBSERVATION_PERSIST" /\ phase = "SUBMITTING"
      /\ Postcheck => phase' = "FINAL_PERSIST" /\ phase = "POSTCHECK" /\ (sticky' = sticky \/ sticky' = TRUE)
  BY <1>a DEF SubmitResult, Lookup, Postcheck, control, InStep, SubmitSteps
<1>d. RowsAreStored' /\ RowsAreFlat' /\ CompleteIsFlat'
  BY <1>b, <1>c DEF RecordInv, RowsAreStored, RowsAreFlat, SoldBefore, Past, Running, CompleteIsFlat
<1>1. AnswerIsTrue'
  <2>1. CASE Lookup
    <3>1. answer' \in {NoAnswer, order[index]} /\ index \in Target
      BY <1>a, <1>b, <2>1 DEF Lookup, RowsFollowIndex, Running
    <3>2. order[index] \in Observation /\ order[index].filled \in Nat
      BY <1>a, <3>1, QtyAssumption DEF Typed, Observation
    <3>3. Follows(NoAnswer, order[index]) /\ Follows(order[index], order[index])
      BY <3>2 DEF Follows, NoAnswer, NoOrder, TerminalStatuses
    <3>q. QED BY <1>b, <3>1, <3>3 DEF AnswerIsTrue
  <2>2. CASE SubmitResult \/ Postcheck
    BY <2>2 DEF SubmitResult, Postcheck, AnswerIsTrue
  <2>q. QED BY <2>1, <2>2
<1>2. RowFits'
  <2>1. CASE SubmitResult
    BY <1>b, <1>c, <2>1 DEF RecordInv, RowFits
  <2>2. CASE Lookup \/ Postcheck
    <3>1. AnsweredWith(rows[index]) /\ phase' \in {"POSTCHECK", "FINAL_PERSIST"}
      BY <1>c, <2>2 DEF RecordInv, RowFits
    <3>2. AnsweredWith(rows[index])'
      BY <1>b, <1>c, <2>2, <3>1 DEF AnsweredWith, FirstAnswer, Follows
    <3>q. QED BY <3>1, <3>2 DEF RowFits
  <2>q. QED BY <2>1, <2>2
<1>3. PendingFits'
  <2>1. CASE SubmitResult
    BY <1>c, <2>1, SubmitResultIsRecorded DEF PendingFits
  <2>2. CASE Postcheck
    BY <1>b, <1>c, <2>2, PostcheckIsRecorded DEF PendingFits
  <2>3. CASE Lookup
    BY <1>c, <2>3 DEF PendingFits
  <2>q. QED BY <2>1, <2>2, <2>3
<1>q. QED BY <1>d, <1>1, <1>2, <1>3 DEF MemoryInv

LEMMA RecordStep == CloseoutInv /\ RecordInv /\ [Next]_vars => RecordInv'
<1> SUFFICES ASSUME CloseoutInv, RecordInv, [Next]_vars PROVE RecordInv'
  OBVIOUS
<1>1. DiskIsShaped'
  BY ShapeStep
<1>2. MemoryInv'
  <2>1. CASE UNCHANGED vars
    BY <2>1, SameMemory DEF vars
  <2>2. CASE Crash \/ Return \/ Refused \/ BackupFails \/ ReadThrows \/ CommitFails
    BY <2>2, DownKeepsMemory DEF Crash, Return, Refused, BackupFails, ReadThrows, CommitFails, Throw
  <2>3. CASE BrokerStep \/ EnterStores \/ OperatorClearsLock \/ Backup \/ AccountReady
          \/ InitialPreflight \/ Preflight \/ Expire
    BY <2>3, BrokerKeepsMemory, PreparesMemory
  <2>4. CASE BeginCommit \/ SaveIdempotency \/ SaveLedger \/ Reload
          \/ Reserved \/ AttemptRecorded \/ ObservationRecorded \/ FinalRecorded
    BY <2>4, CommitsKeepMemory, ReceiptsKeepMemory
  <2>5. CASE Gate \/ GateFails \/ Send \/ AnswerArrives \/ AnswerIsLost
          \/ SubmitResult \/ Lookup \/ Postcheck
    BY <2>5, SubmitsKeepMemory, ObservesKeepMemory
  <2>q. QED BY <2>1, <2>2, <2>3, <2>4, <2>5 DEF Next, RunStep
<1>q. QED BY <1>1, <1>2 DEF RecordInv, MemoryInv

LEMMA InitRecords == Init => RecordInv
<1> SUFFICES ASSUME Init PROVE RecordInv
  OBVIOUS
<1>1. idem = Nothing /\ ledger = Nothing /\ rows = Nothing /\ phase = "CREATED" /\ step = "down"
  BY DEF Init, Nothing
<1>2. DiskIsShaped /\ RowsAreStored
  BY <1>1, NothingIsStored DEF DiskIsShaped, DiskShape, RowsAreStored
<1>q. QED BY <1>1, <1>2 DEF RecordInv, RowsAreFlat, Past, Running, RowFits, PendingFits, AnswerIsTrue, CompleteIsFlat

\* What the stores, the broker and the controller's rows say of each other, in every
\* reachable state.
THEOREM RecordInvariant == Spec => [](CloseoutInv /\ RecordInv)
<1>1. Init => CloseoutInv /\ RecordInv
  BY InitCloseout, InitRecords
<1>2. (CloseoutInv /\ RecordInv) /\ [Next]_vars => (CloseoutInv /\ RecordInv)'
  BY CloseoutStep, RecordStep
<1>q. QED BY <1>1, <1>2, PTL DEF Spec

\* Once an intent was written, whatever a run that is over has left, killed or not, is
\* what the observation starts from.
THEOREM RestsAreHandedOver == Spec => []RestIsHandedOver
<1>1. RecordInv => RestIsHandedOver
  <2> SUFFICES ASSUME RecordInv, NEW t \in Target, Len(idem[t]) > 1 PROVE HandedOver(idem, ledger, order)
    BY DEF RestIsHandedOver
  <2>1. idem # Nothing
    <3>1. Len(NoRecord) = 0
      BY DEF NoRecord
    <3>q. QED BY <3>1 DEF Nothing
  <2>2. idem # OnlyReserved
    <3>1. ~(1 > 1)
      OBVIOUS
    <3>2. Len(idem[t]) # 1
      BY <3>1
    <3>3. OnlyReserved[t] = <<Reservation>>
      BY DEF OnlyReserved
    <3>q. QED BY <3>2, <3>3, ReservationIsEntry
  <2>q. QED BY <2>1, <2>2 DEF RecordInv, DiskIsShaped, DiskShape
<1>q. QED BY <1>1, RecordInvariant, PTL

-----------------------------------------------------------------------------
(* The stores, one after the other                                         *)

\* A file that trails by an entry is the other one, cut.
LEMMA CutTrails ==
  ASSUME NEW h \in Seq(Entry), Len(h) > 0, NEW g \in {h, SubSeq(h, 1, Len(h) - 1)}
  PROVE  Len(h) - Len(g) \in {0, 1} /\ SubSeq(h, 1, Len(g)) = g
<1>1. Len(h) \in Nat /\ \A i \in 1..(Len(h) - 1) : h[i] \in Entry
  OBVIOUS
<1>2. SubSeq(h, 1, Len(h)) = h
  BY SubSeqFull
<1>3. Len(SubSeq(h, 1, Len(h) - 1)) = Len(h) - 1
  <2> DEFINE m == Len(h) - 1
  <2>1. m \in Int /\ 1 \in Int
    BY <1>1
  <2>2. Len(SubSeq(h, 1, m)) = IF 1 <= m THEN m - 1 + 1 ELSE 0
    <3> HIDE DEF m
    <3>1. \A i \in 1..m : h[i] \in Entry
      BY <1>1 DEF m
    <3>q. QED BY <2>1, <3>1, SubSeqProperties
  <2>3. m >= 0
    BY <1>1
  <2> HIDE DEF m
  <2>4. (IF 1 <= m THEN m - 1 + 1 ELSE 0) = m
    BY <2>1, <2>3
  <2>q. QED BY <2>2, <2>4 DEF m
<1>4. CASE g = h
  <2>1. Len(h) - Len(h) = 0
    BY <1>1
  <2>q. QED BY <1>2, <1>4, <2>1
<1>5. CASE g = SubSeq(h, 1, Len(h) - 1)
  <2>1. Len(h) - (Len(h) - 1) = 1
    BY <1>1
  <2>q. QED BY <1>3, <1>5, <2>1
<1>q. QED BY <1>4, <1>5

LEMMA FilesTrail == CloseoutInv /\ RecordInv => LedgerTrailsByOneCommit
<1> SUFFICES ASSUME CloseoutInv, RecordInv, NEW t \in Target
             PROVE  /\ Len(idem[t]) - Len(ledger[t]) \in {0, 1}
                    /\ SubSeq(idem[t], 1, Len(ledger[t])) = ledger[t]
  BY DEF LedgerTrailsByOneCommit
<1>1. idem \in Histories /\ ledger \in Histories
  BY DEF CloseoutInv, Typed
<1>2. idem[t] \in Seq(Entry) /\ ledger[t] \in Seq(Entry) /\ Len(NoRecord) = 0 /\ NoRecord \in Seq(Entry)
  BY <1>1 DEF Histories, NoRecord
<1>3. ASSUME ledger[t] = NoRecord, Len(idem[t]) \in {0, 1}
      PROVE  /\ Len(idem[t]) - Len(ledger[t]) \in {0, 1}
             /\ SubSeq(idem[t], 1, Len(ledger[t])) = ledger[t]
  <2>1. SubSeq(idem[t], 1, 0) = <<>>
    BY SubSeqEmpty
  <2>q. QED BY <1>2, <1>3, <2>1 DEF NoRecord
<1>4. ASSUME ledger[t] = idem[t]
      PROVE  /\ Len(idem[t]) - Len(ledger[t]) \in {0, 1}
             /\ SubSeq(idem[t], 1, Len(ledger[t])) = ledger[t]
  BY <1>2, <1>4, SubSeqFull
<1>5. CASE idem = Nothing /\ ledger = Nothing
  BY <1>4, <1>5
<1>6. CASE idem = OnlyReserved /\ ledger \in {Nothing, OnlyReserved}
  BY <1>3, <1>4, <1>6, ReservationIsEntry DEF Nothing, OnlyReserved
<1>7. CASE HandedOver(idem, ledger, order)
  <2>1. PICK i \in Target : HandOverAt(idem, ledger, order, i)
    BY <1>1, <1>7, HandOverIs DEF Histories
  <2>2. CASE t # i
    <3>1. t < i \/ t > i
      BY <2>2, NAssumption DEF Target
    <3>q. QED BY <1>4, <2>1, <3>1 DEF HandOverAt
  <2>3. CASE t = i
    <3>1. Len(idem[i]) \in 2..4
      BY <2>1, ClosedFacts, OpenFacts DEF HandOverAt, AttemptedHistories
    <3>2. \A n \in 2..4 : n > 0
      OBVIOUS
    <3>3. Len(idem[i]) > 0
      BY <3>1, <3>2
    <3>q. QED BY <1>2, <2>1, <2>3, <3>3, CutTrails DEF HandOverAt
  <2>q. QED BY <2>2, <2>3
<1>q. QED BY <1>5, <1>6, <1>7 DEF RecordInv, DiskIsShaped, DiskShape

\* No record says more than the broker did.
LEMMA RecordsAreJustified == CloseoutInv /\ RecordInv => RecordsFollowBroker
<1> SUFFICES ASSUME CloseoutInv, RecordInv, NEW t \in Target, idem[t] # NoRecord
             PROVE  Follows(LastEntry(idem[t]), order[t])
  BY DEF RecordsFollowBroker, Follows, NoAnswer, NoOrder
<1>1. idem \in Histories /\ order[t] \in Observation /\ order[t].filled \in Nat
  BY QtyAssumption DEF CloseoutInv, Typed, Observation
<1>2. idem[t] = <<Reservation>> => Follows(LastEntry(idem[t]), order[t])
  <2>1. LastEntry(<<Reservation>>) = Reservation
    BY ReservationIsEntry DEF LastEntry
  <2>2. Follows(Reservation, order[t])
    BY <1>1 DEF Follows, Reservation, TerminalStatuses
  <2>q. QED BY <2>1, <2>2
<1>3. CASE idem \in {Nothing, OnlyReserved}
  BY <1>2, <1>3 DEF Nothing, OnlyReserved
<1>4. CASE HandedOver(idem, ledger, order)
  <2>1. PICK i \in Target : HandOverAt(idem, ledger, order, i)
    BY <1>1, <1>4, HandOverIs DEF Histories
  <2>2. CASE t < i
    <3>1. LastEntry(idem[t]) = Entered("FLAT_RECONCILED", Flat) /\ order[t] = Flat
      BY <2>1, <2>2, ClosedFacts DEF HandOverAt
    <3>2. Follows(Entered("FLAT_RECONCILED", Flat), Flat)
      BY QtyAssumption DEF Follows, Entered, Flat, NoOrder
    <3>q. QED BY <3>1, <3>2
  <2>3. CASE t = i
    BY <2>1, <2>3 DEF HandOverAt
  <2>4. CASE t > i
    BY <1>2, <2>1, <2>4 DEF HandOverAt
  <2>q. QED BY <2>2, <2>3, <2>4, NAssumption DEF Target
<1>q. QED BY <1>3, <1>4 DEF RecordInv, DiskIsShaped, DiskShape

\* What the controller asks for, the storage rules accept.
LEMMA RulesAccept == CloseoutInv /\ RecordInv => ControllerAndStoresAgree
<1> SUFFICES ASSUME CloseoutInv, RecordInv, step = "loop", phase \in PersistPhases PROVE StoresAccept
  BY DEF ControllerAndStoresAgree
<1>1. Typed /\ StoresFollowRows /\ RowsFollowIndex /\ PendingIsNext
  BY DEF CloseoutInv
<1>2. Running /\ Past /\ index \in Target
  BY <1>1 DEF Running, Past, PersistPhases, RowsFollowIndex
<1>3. idem = Base /\ ledger = Base
  BY <1>1, <1>2 DEF StoresFollowRows
<1>4. CASE phase = "RESERVING"
  <2>1. pending = OnlyReserved /\ ledger = Nothing /\ idem = Nothing
    BY <1>1, <1>3, <1>4 DEF RowsFollowIndex, OnlyReserved, Base
  <2>2. IsValid(<<Reservation>>)
    <3>1. Len(<<Reservation>>) = 1 /\ <<Reservation>>[1] = Reservation /\ 1 \in 1..16
      BY ReservationIsEntry
    <3>2. \A i \in 1..1 : i = 1
      OBVIOUS
    <3>3. 1..(1 - 1) = {}
      OBVIOUS
    <3>q. QED BY <3>1, <3>2, <3>3, IntentFacts DEF IsValid, ValidRecord
  <2>3. \A t \in DOMAIN pending : ValidRecord(pending[t], FALSE)
    <3>1. \A t \in DOMAIN pending : IsValid(pending[t])
      BY <2>1, <2>2 DEF OnlyReserved
    <3>q. QED BY <3>1 DEF IsValid
  <2>4. \A t \in Target : ledger[t] = NoRecord /\ idem[t] = NoRecord /\ PhaseOf(pending[t]) = "RESERVED"
    BY <2>1, ReservationIsEntry DEF OnlyReserved, Nothing
  <2>q. QED BY <1>4, <2>3, <2>4, Zenon DEF StoresAccept
<1>5. CASE phase # "RESERVING"
  <2>1. ledger = rows /\ rows \in Histories /\ rows[index] \in Seq(Entry) /\ DOMAIN pending = {index}
    BY <1>1, <1>2, <1>3, <1>5 DEF Base, Typed, Histories, PendingIsNext
  <2>2. IsValid(pending[index])
    BY <1>5, PendingIsStorable, ClosedFacts, OpenFacts DEF RecordInv, AttemptedHistories
  <2>3. \A t \in DOMAIN pending : ValidRecord(pending[t], FALSE)
    <3>1. \A t \in DOMAIN pending : IsValid(pending[t])
      BY <2>1, <2>2
    <3>q. QED BY <3>1 DEF IsValid
  <2>4. CASE phase = "ATTEMPT_PERSIST"
    <3>1. rows[index] = <<Reservation>>
      BY <1>1, <1>2, <2>4 DEF RowsFollowIndex, Past
    <3>2. \A t \in Target : t < index => rows[t] \in ClosedHistories
      BY <1>2 DEF RecordInv, RowsAreFlat, SoldBefore
    <3>3. \A t \in Target : t > index => rows[t] = <<Reservation>>
      BY <1>1, <1>2 DEF RowsFollowIndex, Past
    <3>4. \A t \in Target : \A i \in 1..Len(rows[t]) :
            rows[t][i].phase # "STOPPED" /\ rows[t][i].status \notin BatchStoppers
      <4> SUFFICES ASSUME NEW t \in Target, NEW i \in 1..Len(rows[t])
                   PROVE  rows[t][i].phase # "STOPPED" /\ rows[t][i].status \notin BatchStoppers
        OBVIOUS
      <4>1. CASE rows[t] = <<Reservation>>
        <5>1. Len(rows[t]) = 1 /\ \A j \in 1..1 : j = 1
          BY <4>1, ReservationIsEntry
        <5>2. rows[t][i] = Reservation
          BY <4>1, <5>1
        <5>q. QED BY <5>2 DEF Reservation, BatchStoppers
      <4>2. CASE t < index
        <5>1. rows[t] \in ClosedHistories
          BY <3>2, <4>2
        <5>q. QED BY <5>1, ClosedFacts
      <4>3. t < index \/ t = index \/ t > index
        BY <1>2, NAssumption DEF Target
      <4>q. QED BY <3>1, <3>3, <4>1, <4>2, <4>3
    <3>5. \A t \in 1..(index - 1) : PhaseOf(rows[t]) = "FLAT_RECONCILED"
      <4>1. \A t \in 1..(index - 1) : t \in Target /\ t < index
        BY <1>2, NAssumption DEF Target
      <4>q. QED BY <3>2, <4>1, ClosedFacts
    <3>6. \A t \in (index + 1)..N : PhaseOf(rows[t]) = "RESERVED"
      <4>1. \A t \in (index + 1)..N : t \in Target /\ t > index
        BY <1>2, NAssumption DEF Target
      <4>q. QED BY <3>3, <4>1, ReservationIsEntry
    <3>7. PhaseOf(rows[index]) = "RESERVED"
      BY <3>1, ReservationIsEntry
    <3>q. QED BY <2>1, <2>3, <2>4, <3>4, <3>5, <3>6, <3>7, Zenon DEF StoresAccept
  <2>5. CASE phase \in {"OBSERVATION_PERSIST", "FINAL_PERSIST"}
    <3>1. PICK e \in Entry : pending[index] = Append(rows[index], e)
      BY <1>1, <1>5 DEF PendingIsNext
    <3>2. Len(pending[index]) = Len(rows[index]) + 1
      BY <2>1, <3>1
    <3>3. SubSeq(pending[index], 1, Len(rows[index])) = rows[index]
      <4>1. Len(pending[index]) - 1 = Len(rows[index])
        BY <2>1, <3>2
      <4>q. QED BY <4>1, <1>5, PendingIsStorable DEF RecordInv
    <3>4. PhaseOf(rows[index]) \notin {"none", "RESERVED"}
      <4>1. rows[index] = Intent \/ AnsweredWith(rows[index])
        BY <2>5 DEF RecordInv, RowFits
      <4>2. rows[index] \in OpenHistories
        BY <4>1, IntentIsOpen, FirstIsOpen DEF AnsweredWith, FirstAnswer
      <4>q. QED BY <4>2, OpenFacts
    <3>5. phase # "RESERVING" /\ phase # "ATTEMPT_PERSIST"
      BY <2>5
    <3>6. /\ PhaseOf(ledger[index]) \notin {"none", "RESERVED"}
          /\ Len(pending[index]) = Len(ledger[index]) + 1
          /\ SubSeq(pending[index], 1, Len(ledger[index])) = ledger[index]
      BY <2>1, <3>2, <3>3, <3>4
    <3>q. QED BY <2>3, <3>5, <3>6, Zenon DEF StoresAccept
  <2>q. QED BY <1>5, <2>4, <2>5 DEF PersistPhases
<1>q. QED BY <1>4, <1>5

\* The two files saved one after the other, the controller's phase and the broker never
\* contradict each other (scoped-closeout-storage.mjs:131-155).
THEOREM StoresSound == Spec => []StoresAreSound
<1>1. CloseoutInv /\ RecordInv => StoresAreSound
  BY FilesTrail, RecordsAreJustified, RulesAccept DEF StoresAreSound
<1>q. QED BY <1>1, RecordInvariant, PTL

-----------------------------------------------------------------------------
(* The request budget                                                      *)

\* Requests so far: a for the account, i for the initial preflight, then p reads before a
\* submission, s submissions and q reads behind one.
UsedIs(u, a, i, p, s, q) ==
  /\ u["account"] = a + p /\ u["positions"] = i + p + q /\ u["orders"] = i + p + q
  /\ u["clock"] = i + p + q /\ u["calendar"] = i /\ u["quotes"] = i + p
  /\ u["assets"] = (IF i = 0 THEN 0 ELSE N + p) /\ u["lookup"] = q /\ u["submit"] = s

CountedIn(ph, x, u) ==
  /\ ph = "CREATED" => UsedIs(u, 0, 0, 0, 0, 0)
  /\ ph = "ACCOUNT_PREFLIGHT" => UsedIs(u, 1, 0, 0, 0, 0)
  /\ ph \in {"INITIAL_PREFLIGHT", "RESERVING"} => UsedIs(u, 1, 1, 0, 0, 0)
  /\ ph \in {"REVALIDATING", "ATTEMPT_PERSIST"} => UsedIs(u, 1, 1, x, x - 1, x - 1)
  /\ ph \in {"SUBMITTING", "OBSERVATION_PERSIST"} => UsedIs(u, 1, 1, x, x, x - 1)
  /\ ph \in {"POSTCHECK", "FINAL_PERSIST"} => UsedIs(u, 1, 1, x, x, x)

RunPhases ==
  PersistPhases \cup {"CREATED", "ACCOUNT_PREFLIGHT", "INITIAL_PREFLIGHT", "REVALIDATING", "SUBMITTING",
    "POSTCHECK", "COMPLETE", "STOPPED"}

BudgetInv ==
  /\ phase \in RunPhases /\ used \in [Group -> Nat]
  /\ CountedIn(phase, index, used)
  /\ BudgetSuffices

LEMMA GroupIs ==
  /\ Group = {"account", "positions", "orders", "clock", "calendar", "assets", "lookup", "quotes", "submit"}
  /\ Budget["account"] = N + 1 /\ Budget["positions"] = 2 * N + 1 /\ Budget["orders"] = 2 * N + 1
  /\ Budget["clock"] = 2 * N + 1 /\ Budget["calendar"] = 1 /\ Budget["assets"] = 2 * N
  /\ Budget["lookup"] = N /\ Budget["quotes"] = N + 1 /\ Budget["submit"] = N
BY DEF Group, Budget

LEMMA CostIs ==
  /\ \A g : Cost("account", g) = IF g = "account" THEN 1 ELSE 0
  /\ \A g : Cost("initial", g) =
       IF g = "assets" THEN N
       ELSE IF g \in {"positions", "orders", "clock", "calendar", "quotes"} THEN 1 ELSE 0
  /\ \A g : Cost("presubmit", g) =
       IF g \in {"account", "positions", "orders", "clock", "assets", "quotes"} THEN 1 ELSE 0
  /\ \A g : Cost("postcheck", g) = IF g \in {"lookup", "positions", "orders", "clock"} THEN 1 ELSE 0
  /\ \A g : Cost("submit", g) = IF g = "submit" THEN 1 ELSE 0
<1>1. \A g : Cost("account", g) = IF g = "account" THEN 1 ELSE 0
  BY DEF Cost
<1>2. \A g : Cost("initial", g) =
        IF g = "assets" THEN N
        ELSE IF g \in {"positions", "orders", "clock", "calendar", "quotes"} THEN 1 ELSE 0
  BY DEF Cost
<1>3. \A g : Cost("presubmit", g) =
        IF g \in {"account", "positions", "orders", "clock", "assets", "quotes"} THEN 1 ELSE 0
  BY DEF Cost
<1>4. \A g : Cost("postcheck", g) = IF g \in {"lookup", "positions", "orders", "clock"} THEN 1 ELSE 0
  BY DEF Cost
<1>5. \A g : Cost("submit", g) = IF g = "submit" THEN 1 ELSE 0
  BY DEF Cost
<1>q. QED BY <1>1, <1>2, <1>3, <1>4, <1>5

\* What one group of reads adds.
LEMMA CostsAdd ==
  ASSUME used \in [Group -> Nat], NEW p \in Nat, NEW s \in Nat, NEW q \in Nat
  PROVE  /\ \A c \in {"account", "initial", "presubmit", "postcheck", "submit"} : After(c) \in [Group -> Nat]
         /\ UsedIs(used, 0, 0, 0, 0, 0) => UsedIs(After("account"), 1, 0, 0, 0, 0)
         /\ UsedIs(used, 1, 0, 0, 0, 0) => UsedIs(After("initial"), 1, 1, 0, 0, 0)
         /\ UsedIs(used, 1, 1, p, s, q) => UsedIs(After("presubmit"), 1, 1, p + 1, s, q)
         /\ UsedIs(used, 1, 1, p, s, q) => UsedIs(After("submit"), 1, 1, p, s + 1, q)
         /\ UsedIs(used, 1, 1, p, s, q) => UsedIs(After("postcheck"), 1, 1, p, s, q + 1)
<1>1. \A g \in Group : used[g] \in Nat
  OBVIOUS
<1>2. \A c \in {"account", "initial", "presubmit", "postcheck", "submit"}, g \in Group : Cost(c, g) \in Nat
  BY NAssumption DEF Cost
<1>3. \A c \in {"account", "initial", "presubmit", "postcheck", "submit"} : After(c) \in [Group -> Nat]
  BY <1>1, <1>2 DEF After
<1>4. \A c : \A g \in Group : After(c)[g] = used[g] + Cost(c, g)
  BY DEF After
<1>5. UsedIs(used, 0, 0, 0, 0, 0) => UsedIs(After("account"), 1, 0, 0, 0, 0)
  <2> DEFINE u == After("account")
  <2>1. \A g \in {"account"} : u[g] = used[g] + 1
    BY <1>1, <1>4, GroupIs, CostIs
  <2>2. \A g \in {"positions", "orders", "clock", "calendar", "assets", "lookup", "quotes", "submit"} : u[g] = used[g]
    BY <1>1, <1>4, GroupIs, CostIs
  <2> HIDE DEF u
  <2>q. QED BY <1>1, <2>1, <2>2, GroupIs, NAssumption DEF UsedIs, u
<1>6. UsedIs(used, 1, 0, 0, 0, 0) => UsedIs(After("initial"), 1, 1, 0, 0, 0)
  <2> DEFINE u == After("initial")
  <2>1. \A g \in {"account", "lookup", "submit"} : u[g] = used[g]
    BY <1>1, <1>4, GroupIs, CostIs
  <2>2. \A g \in {"positions", "orders", "clock", "calendar", "quotes"} : u[g] = used[g] + 1
    BY <1>1, <1>4, GroupIs, CostIs
  <2>3. \A g \in {"assets"} : u[g] = used[g] + N
    BY <1>1, <1>4, GroupIs, CostIs
  <2> HIDE DEF u
  <2>q. QED BY <1>1, <2>1, <2>2, <2>3, GroupIs, NAssumption DEF UsedIs, u
<1>7. UsedIs(used, 1, 1, p, s, q) => UsedIs(After("presubmit"), 1, 1, p + 1, s, q)
  <2> DEFINE u == After("presubmit")
  <2>1. \A g \in {"account", "positions", "orders", "clock", "assets", "quotes"} : u[g] = used[g] + 1
    BY <1>1, <1>4, GroupIs, CostIs
  <2>2. \A g \in {"calendar", "lookup", "submit"} : u[g] = used[g]
    BY <1>1, <1>4, GroupIs, CostIs
  <2> HIDE DEF u
  <2>q. QED BY <1>1, <2>1, <2>2, GroupIs, NAssumption DEF UsedIs, u
<1>8. UsedIs(used, 1, 1, p, s, q) => UsedIs(After("submit"), 1, 1, p, s + 1, q)
  <2> DEFINE u == After("submit")
  <2>1. \A g \in {"account", "positions", "orders", "clock", "calendar", "assets", "lookup", "quotes"} : u[g] = used[g]
    BY <1>1, <1>4, GroupIs, CostIs
  <2>2. \A g \in {"submit"} : u[g] = used[g] + 1
    BY <1>1, <1>4, GroupIs, CostIs
  <2> HIDE DEF u
  <2>q. QED BY <1>1, <2>1, <2>2, GroupIs, NAssumption DEF UsedIs, u
<1>9. UsedIs(used, 1, 1, p, s, q) => UsedIs(After("postcheck"), 1, 1, p, s, q + 1)
  <2> DEFINE u == After("postcheck")
  <2>1. \A g \in {"account", "calendar", "assets", "quotes", "submit"} : u[g] = used[g]
    BY <1>1, <1>4, GroupIs, CostIs
  <2>2. \A g \in {"positions", "orders", "clock", "lookup"} : u[g] = used[g] + 1
    BY <1>1, <1>4, GroupIs, CostIs
  <2> HIDE DEF u
  <2>q. QED BY <1>1, <2>1, <2>2, GroupIs, NAssumption DEF UsedIs, u
<1>q. QED BY <1>3, <1>5, <1>6, <1>7, <1>8, <1>9

\* The budget is what all targets need.
LEMMA CountFits ==
  ASSUME NEW u \in [Group -> Nat], NEW a \in 0..1, NEW i \in 0..1,
         NEW p \in 0..N, NEW s \in 0..N, NEW q \in 0..N, UsedIs(u, a, i, p, s, q)
  PROVE  \A g \in Group : u[g] <= Budget[g]
<1>1. N \in Nat /\ N >= 1
  BY NAssumption
<1>q. QED BY <1>1, GroupIs DEF UsedIs

\* Reads that are issued are within the budget, so that none of them stops the run.
LEMMA IssueCounts ==
  ASSUME BudgetInv, used' \in [Group -> Nat], phase' \in RunPhases \ {"COMPLETE", "STOPPED"},
         index' \in Target, CountedIn(phase', index', used')
  PROVE  BudgetInv'
<1>1. N \in Nat /\ N >= 1 /\ index' \in 1..N
  BY NAssumption DEF Target
<1>2. PICK a \in 0..1, i \in 0..1, p \in 0..N, s \in 0..N, q \in 0..N : UsedIs(used', a, i, p, s, q)
  <2>1. PICK x \in 1..N : x = index'
    BY <1>1
  <2>2. 0 \in 0..1 /\ 1 \in 0..1 /\ 0 \in 0..N /\ x \in 0..N /\ x - 1 \in 0..N
    BY <1>1
  <2>q. QED BY <2>1, <2>2 DEF CountedIn, RunPhases, PersistPhases
<1>3. \A g \in Group : used'[g] <= Budget[g]
  BY <1>2, CountFits
<1>q. QED BY <1>3 DEF BudgetInv, BudgetSuffices

\* A step that issues nothing: the count stays, and so does what it is a count of.
LEMMA QuietCounts ==
  ASSUME BudgetInv, used' = used, phase' \in RunPhases,
         phase' \in {"STOPPED", "COMPLETE"} \/ CountedIn(phase', index', used)
  PROVE  BudgetInv'
BY DEF BudgetInv, BudgetSuffices, CountedIn

LEMMA DownCounts == Down => BudgetInv'
<1> SUFFICES ASSUME Down PROVE BudgetInv'
  OBVIOUS
<1>1. phase' = "CREATED" /\ used' = [g \in Group |-> 0]
  BY DEF Down
<1>2. used' \in [Group -> Nat] /\ \A g \in Group : used'[g] = 0
  BY <1>1
<1>3. UsedIs(used', 0, 0, 0, 0, 0)
  BY <1>2, GroupIs DEF UsedIs
<1>4. \A g \in Group : used'[g] <= Budget[g]
  <2>1. 0 \in 0..1 /\ 0 \in 0..N
    BY NAssumption
  <2>q. QED BY <1>2, <1>3, <2>1, CountFits
<1>q. QED BY <1>1, <1>2, <1>3, <1>4 DEF BudgetInv, BudgetSuffices, CountedIn, RunPhases

LEMMA CountsStep == CloseoutInv /\ BudgetInv /\ [Next]_vars => BudgetInv'
<1> SUFFICES ASSUME CloseoutInv, BudgetInv, [Next]_vars PROVE BudgetInv'
  OBVIOUS
<1>a. /\ phase \in RunPhases /\ used \in [Group -> Nat] /\ CountedIn(phase, index, used)
  BY DEF BudgetInv
<1>b. /\ Typed /\ InStep /\ RowsFollowIndex
  BY DEF CloseoutInv
<1>c. 1 \in Target /\ 0 \in Nat /\ \A x \in Target : x \in Nat /\ x - 1 \in Nat /\ (x - 1) + 1 = x
  BY NAssumption DEF Target
<1>d. \A c \in {"account", "initial", "presubmit", "postcheck", "submit"} : After(c) \in [Group -> Nat]
  BY <1>a, <1>c, CostsAdd
<1>1. CASE UNCHANGED <<phase, index, used>>
  BY <1>1, <1>a, QuietCounts
<1>2. CASE Crash \/ Return \/ Refused \/ BackupFails \/ ReadThrows \/ CommitFails
        \/ (BeginCommit /\ ~StoresAccept)
  BY <1>2, DownCounts DEF Crash, Return, Refused, BackupFails, ReadThrows, CommitFails, BeginCommit, Throw
<1>3. CASE Expire
  BY <1>3, QuietCounts DEF Expire, Stop, RunPhases
<1>4. CASE Backup
  <2>1. phase = "CREATED" /\ index = 1 /\ index' = index /\ phase' = "ACCOUNT_PREFLIGHT" /\ used' = After("account")
    BY <1>b, <1>4 DEF Backup, InStep, RowsFollowIndex
  <2>2. UsedIs(After("account"), 1, 0, 0, 0, 0)
    BY <1>a, <1>c, <2>1, CostsAdd DEF CountedIn
  <2>3. CountedIn(phase', index', used')
    BY <2>1, <2>2 DEF CountedIn
  <2>q. QED BY <1>c, <1>d, <2>1, <2>3, IssueCounts DEF RunPhases
<1>5. ASSUME NEW p \in {"INITIAL_PREFLIGHT", "REVALIDATING", "SUBMITTING", "POSTCHECK"},
             NEW c \in {"initial", "presubmit", "submit", "postcheck"},
             Issue(p, c), index' \in Target, CountedIn(p, index', After(c))
      PROVE  BudgetInv'
  <2>1. used' = After(c) /\ After(c) \in [Group -> Nat]
    BY <1>d, <1>5 DEF Issue
  <2>2. \A g \in Group : After(c)[g] <= Budget[g]
    <3>1. PICK x \in 1..N : x = index'
      BY <1>5 DEF Target
    <3>2. 0 \in 0..1 /\ 1 \in 0..1 /\ 0 \in 0..N /\ x \in 0..N /\ x - 1 \in 0..N
      BY NAssumption
    <3>3. PICK a \in 0..1, i \in 0..1, m \in 0..N, s \in 0..N, q \in 0..N : UsedIs(After(c), a, i, m, s, q)
      BY <1>5, <3>1, <3>2 DEF CountedIn
    <3>q. QED BY <2>1, <3>3, CountFits
  <2>3. phase' = p
    BY <1>5, <2>2 DEF Issue
  <2>q. QED BY <1>5, <2>1, <2>3, IssueCounts DEF RunPhases
<1>6. CASE AccountReady
  <2>1. phase = "ACCOUNT_PREFLIGHT" /\ index' = 1 /\ Issue("INITIAL_PREFLIGHT", "initial")
    BY <1>b, <1>6 DEF AccountReady, RowsFollowIndex
  <2>2. UsedIs(After("initial"), 1, 1, 0, 0, 0)
    BY <1>a, <1>c, <2>1, CostsAdd DEF CountedIn
  <2>3. CountedIn("INITIAL_PREFLIGHT", index', After("initial"))
    BY <2>2 DEF CountedIn
  <2>q. QED BY <1>5, <1>c, <2>1, <2>3
<1>7. CASE InitialPreflight \/ Preflight \/ SubmitResult \/ Lookup \/ Postcheck
  <2>1. /\ index' = index /\ used' = used /\ phase' \in RunPhases
        /\ <<phase, phase'>> \in {<<"INITIAL_PREFLIGHT", "RESERVING">>, <<"REVALIDATING", "ATTEMPT_PERSIST">>,
             <<"SUBMITTING", "OBSERVATION_PERSIST">>, <<"POSTCHECK", "POSTCHECK">>, <<"POSTCHECK", "FINAL_PERSIST">>}
    BY <1>b, <1>7 DEF InitialPreflight, Preflight, SubmitResult, Lookup, Postcheck, control, InStep, SubmitSteps,
       RunPhases, PersistPhases
  <2>2. CountedIn(phase', index', used)
    BY <1>a, <2>1 DEF CountedIn
  <2>q. QED BY <2>1, <2>2, QuietCounts
<1>8. CASE Reserved
  <2>1. phase = "RESERVING" /\ index = 1 /\ index' = 1 /\ Issue("REVALIDATING", "presubmit")
    BY <1>b, <1>8 DEF Reserved, RowsFollowIndex
  <2>2. UsedIs(After("presubmit"), 1, 1, 0 + 1, 0, 0)
    BY <1>a, <1>c, <2>1, CostsAdd DEF CountedIn
  <2>3. CountedIn("REVALIDATING", index', After("presubmit"))
    BY <2>1, <2>2 DEF CountedIn
  <2>q. QED BY <1>5, <1>c, <2>1, <2>3
<1>9. CASE AttemptRecorded
  <2>1. phase = "ATTEMPT_PERSIST" /\ index \in Target /\ index' = index /\ Issue("SUBMITTING", "submit")
    BY <1>b, <1>9 DEF AttemptRecorded, RowsFollowIndex, Running
  <2>2. UsedIs(After("submit"), 1, 1, index, (index - 1) + 1, index - 1)
    BY <1>a, <1>c, <2>1, CostsAdd DEF CountedIn
  <2>3. CountedIn("SUBMITTING", index', After("submit"))
    BY <1>c, <2>1, <2>2 DEF CountedIn
  <2>q. QED BY <1>5, <2>1, <2>3
<1>10. CASE ObservationRecorded
  <2>1. phase = "OBSERVATION_PERSIST" /\ index \in Target /\ index' = index /\ Issue("POSTCHECK", "postcheck")
    BY <1>b, <1>10 DEF ObservationRecorded, RowsFollowIndex, Running
  <2>2. UsedIs(After("postcheck"), 1, 1, index, index, (index - 1) + 1)
    BY <1>a, <1>c, <2>1, CostsAdd DEF CountedIn
  <2>3. CountedIn("POSTCHECK", index', After("postcheck"))
    BY <1>c, <2>1, <2>2 DEF CountedIn
  <2>q. QED BY <1>5, <2>1, <2>3
<1>11. CASE FinalRecorded
  <2>1. phase = "FINAL_PERSIST" /\ index \in Target
    BY <1>b, <1>11 DEF FinalRecorded, RowsFollowIndex, Running
  <2>2. CASE used' = used /\ phase' \in {"STOPPED", "COMPLETE"}
    BY <2>2, QuietCounts DEF RunPhases
  <2>3. CASE index # N /\ index' = index + 1 /\ Issue("REVALIDATING", "presubmit")
    <3>1. index' \in Target
      BY <2>1, <2>3, NAssumption DEF Target
    <3>2. UsedIs(After("presubmit"), 1, 1, index + 1, index, index)
      BY <1>a, <1>c, <2>1, CostsAdd DEF CountedIn
    <3>3. index' - 1 = index
      BY <1>c, <2>1, <2>3
    <3>4. CountedIn("REVALIDATING", index', After("presubmit"))
      BY <2>3, <3>2, <3>3 DEF CountedIn
    <3>q. QED BY <1>5, <2>3, <3>1, <3>4
  <2>q. QED BY <1>11, <2>2, <2>3 DEF FinalRecorded
<1>12. CASE EnterStores \/ OperatorClearsLock \/ BrokerStep \/ UNCHANGED vars
  BY <1>1, <1>12 DEF EnterStores, OperatorClearsLock, BrokerStep, PostArrives, PostIsDropped, OrderMoves, vars, control
<1>13. CASE (BeginCommit /\ StoresAccept) \/ SaveIdempotency \/ SaveLedger \/ Reload
         \/ Gate \/ GateFails \/ Send \/ AnswerArrives \/ AnswerIsLost
  BY <1>1, <1>13 DEF BeginCommit, SaveIdempotency, SaveLedger, Reload, Gate, GateFails, Send, AnswerArrives,
     AnswerIsLost, control
<1>q. QED BY <1>2, <1>3, <1>4, <1>6, <1>7, <1>8, <1>9, <1>10, <1>11, <1>12, <1>13 DEF Next, RunStep

-----------------------------------------------------------------------------
(* The plan of a run                                                       *)

\* The variables that only a run reads have their types, and the transport never counts
\* more submissions than the budget holds.
RunTyped ==
  /\ dirLock \in {"free", "held", "left"} /\ sticky \in BOOLEAN
  /\ tstate \in {"open", "reconcile", "stopped"}
  /\ sent \in 0..N
  /\ step = "send" => sent # N

LEMMA RunTypedStep == RunTyped /\ [Next]_vars => RunTyped'
<1> SUFFICES ASSUME RunTyped, [Next]_vars PROVE RunTyped'
  OBVIOUS
<1> USE DEF RunTyped
<1>1. CASE Down /\ dirLock' \in {"free", "left"}
  <2>1. 0 \in 0..N
    BY NAssumption
  <2>q. QED BY <1>1, <2>1 DEF Down
<1>2. CASE UNCHANGED <<dirLock, sticky, tstate, sent>> /\ step' \notin {"send"}
  BY <1>2
<1>3. CASE UNCHANGED <<dirLock, tstate, sent>> /\ step' \notin {"send"} /\ sticky' \in {sticky, TRUE}
  BY <1>3
<1>4. CASE EnterStores \/ Backup \/ InitialPreflight \/ Preflight \/ SaveIdempotency \/ SaveLedger \/ Reload
        \/ AnswerArrives \/ (BeginCommit /\ StoresAccept)
  BY <1>2, <1>4 DEF EnterStores, Backup, InitialPreflight, Preflight, SaveIdempotency, SaveLedger, Reload,
     AnswerArrives, BeginCommit, control, transport
<1>5. CASE AccountReady \/ Expire \/ Reserved \/ AttemptRecorded \/ ObservationRecorded \/ FinalRecorded
  <2>1. UNCHANGED <<dirLock, tstate, sent>> /\ sticky' \in {sticky, TRUE}
    BY <1>5 DEF AccountReady, Expire, Reserved, AttemptRecorded, ObservationRecorded, FinalRecorded, Issue, Stop,
       transport
  <2>2. step' = "loop"
    BY <1>5 DEF AccountReady, Expire, Reserved, AttemptRecorded, ObservationRecorded, FinalRecorded
  <2>q. QED BY <1>3, <2>1, <2>2
<1>6. CASE Gate
  BY <1>6 DEF Gate, Budget, control, transport
<1>7. CASE Send
  <2>1. sent' = sent + 1 /\ sent # N /\ UNCHANGED <<dirLock, sticky, tstate>> /\ step' = "waiting"
    BY <1>7 DEF Send, control
  <2>2. sent' \in 0..N
    BY <2>1, NAssumption
  <2>q. QED BY <2>1, <2>2
<1>8. CASE GateFails \/ AnswerIsLost \/ Lookup
  BY <1>8 DEF GateFails, AnswerIsLost, Lookup, SubmitFails, control
<1>9. CASE SubmitResult
  <2>1. UNCHANGED <<dirLock, tstate, sent>> /\ step' = "loop"
    BY <1>9 DEF SubmitResult, transport
  <2>2. sticky' \in BOOLEAN
    BY <1>9, Zenon DEF SubmitResult
  <2>q. QED BY <2>1, <2>2
<1>10. CASE Postcheck
  <2>1. UNCHANGED <<dirLock, sent>> /\ step' = "loop" /\ tstate' \in {tstate, "stopped"}
    BY <1>10 DEF Postcheck
  <2>2. sticky' \in {sticky, TRUE}
    BY <1>10 DEF Postcheck
  <2>q. QED BY <2>1, <2>2
<1>11. CASE OperatorClearsLock \/ BrokerStep \/ UNCHANGED vars
  <2>1. UNCHANGED <<sticky, tstate, sent, step>> /\ dirLock' \in {dirLock, "free"}
    BY <1>11 DEF OperatorClearsLock, BrokerStep, PostArrives, PostIsDropped, OrderMoves, vars, control, transport
  <2>q. QED BY <2>1
<1>12. (Crash \/ Return \/ Refused \/ BackupFails \/ ReadThrows \/ CommitFails
         \/ (BeginCommit /\ ~StoresAccept)) => Down /\ dirLock' \in {"free", "left"}
  BY DEF Crash, Return, Refused, BackupFails, ReadThrows, CommitFails, BeginCommit, Throw
<1>q. QED BY <1>1, <1>4, <1>5, <1>6, <1>7, <1>8, <1>9, <1>10, <1>11, <1>12 DEF Next, RunStep

PlanInv == CloseoutInv /\ RecordInv /\ LockInv /\ BudgetInv /\ RunTyped

LEMMA InitPlan == Init => LockInv /\ BudgetInv /\ RunTyped
<1> SUFFICES ASSUME Init PROVE LockInv /\ BudgetInv /\ RunTyped
  OBVIOUS
<1>1. LockInv
  BY DEF Init, LockInv
<1>2. RunTyped
  <2>1. 0 \in 0..N
    BY NAssumption
  <2>q. QED BY <2>1 DEF Init, RunTyped
<1>3. BudgetInv
  <2>1. phase = "CREATED" /\ used = [g \in Group |-> 0]
    BY DEF Init
  <2>2. used \in [Group -> Nat] /\ \A g \in Group : used[g] = 0
    BY <2>1
  <2>3. UsedIs(used, 0, 0, 0, 0, 0)
    BY <2>2, GroupIs DEF UsedIs
  <2>4. \A g \in Group : used[g] <= Budget[g]
    <3>1. 0 \in 0..1 /\ 0 \in 0..N
      BY NAssumption
    <3>q. QED BY <2>2, <2>3, <3>1, CountFits
  <2>q. QED BY <2>1, <2>2, <2>3, <2>4 DEF BudgetInv, BudgetSuffices, CountedIn, RunPhases
<1>q. QED BY <1>1, <1>2, <1>3

\* What the files can hold, one target at a time.
LEMMA FilesHold ==
  ASSUME CloseoutInv, RecordInv, NEW t \in Target
  PROVE  idem[t] \in StoredHistories
<1>1. idem \in Histories
  BY DEF CloseoutInv, Typed
<1>2. CASE idem \in {Nothing, OnlyReserved}
  BY <1>2 DEF Nothing, OnlyReserved, StoredHistories
<1>3. CASE HandedOver(idem, ledger, order)
  <2>1. PICK i \in Target : HandOverAt(idem, ledger, order, i)
    BY <1>1, <1>3, HandOverIs DEF Histories
  <2>2. t < i \/ t = i \/ t > i
    BY NAssumption DEF Target
  <2>q. QED BY <2>1, <2>2 DEF HandOverAt, StoredHistories, AttemptedHistories
<1>q. QED BY <1>2, <1>3 DEF RecordInv, DiskIsShaped, DiskShape

LEMMA StoredIsShort ==
  ASSUME NEW h \in StoredHistories PROVE Len(h) \in 0..4
<1>1. 0 \in 0..4 /\ 1 \in 0..4 /\ 4 \in 0..4 /\ \A n \in 2..4 : n \in 0..4
  OBVIOUS
<1>2. Len(NoRecord) = 0
  BY DEF NoRecord
<1>q. QED BY <1>1, <1>2, ReservationIsEntry, ClosedFacts, OpenFacts DEF StoredHistories, AttemptedHistories

LEMMA PlanIsTyped == PlanInv => TypeOK
<1> SUFFICES ASSUME PlanInv PROVE TypeOK
  OBVIOUS
<1>a. Typed /\ RecordInv /\ CloseoutInv /\ LockInv /\ BudgetInv /\ RunTyped
  BY DEF PlanInv, CloseoutInv
<1>1. ASSUME NEW t \in Target, NEW h \in {idem[t], ledger[t], rows[t]}
      PROVE  Len(h) \in 0..5 /\ \A i \in 1..Len(h) : h[i] \in Entry
  <2>1. h \in Seq(Entry) /\ idem[t] \in Seq(Entry) /\ ledger[t] \in Seq(Entry)
    BY <1>a, <1>1 DEF Typed, Histories
  <2>2. Len(idem[t]) \in 0..4 /\ Len(rows[t]) \in 0..4
    BY <1>a, <1>1, FilesHold, StoredIsShort DEF RecordInv, RowsAreStored
  <2>3. Len(ledger[t]) \in 0..4
    <3>1. Len(idem[t]) - Len(ledger[t]) \in {0, 1}
      BY <1>a, <1>1, FilesTrail DEF LedgerTrailsByOneCommit
    <3>2. Len(ledger[t]) \in Nat
      BY <2>1
    <3>3. \A a \in 0..4, b \in Nat : a - b \in {0, 1} => b \in 0..4
      OBVIOUS
    <3>q. QED BY <2>2, <3>1, <3>2, <3>3
  <2>4. Len(h) \in 0..4
    BY <1>1, <2>2, <2>3
  <2>5. Len(h) \in 0..5
    BY <2>4
  <2>q. QED BY <2>1, <2>5
<1>2. posts \in [Target -> Nat]
  BY <1>a DEF Typed
<1>3. phase \in PersistPhases \cup {"CREATED", "ACCOUNT_PREFLIGHT", "INITIAL_PREFLIGHT",
        "REVALIDATING", "SUBMITTING", "POSTCHECK", "COMPLETE", "STOPPED"}
  BY <1>a DEF BudgetInv, RunPhases
<1>q. QED BY <1>1, <1>2, <1>3, <1>a DEF TypeOK, Typed, LockInv, BudgetInv, RunTyped

\* An order only leaves behind the ones the broker has filled.
LEMMA OrdersLeaveInTurn == CloseoutInv /\ RecordInv => OneAtATime
<1> SUFFICES ASSUME CloseoutInv, RecordInv, NEW t \in Target, posts[t] > 0, NEW s \in 1..(t - 1)
             PROVE  Filled(s) /\ PhaseOf(idem[s]) = "FLAT_RECONCILED" /\ PhaseOf(ledger[s]) = "FLAT_RECONCILED"
  BY DEF OneAtATime
<1>1. Typed /\ SentIsKnown
  BY DEF CloseoutInv
<1>2. s \in Target /\ s < t
  BY NAssumption DEF Target
<1>3. Len(idem[t]) > 1
  <2>1. posts[t] = 1
    <3>1. posts[t] \in {0, 1} /\ ~(0 > 0)
      BY <1>1 DEF Typed
    <3>q. QED BY <3>1
  <2>q. QED BY <1>1, <2>1 DEF SentIsKnown
<1>4. idem[t] # NoRecord /\ idem[t] # <<Reservation>>
  <2>1. Len(NoRecord) = 0 /\ Len(<<Reservation>>) = 1
    BY ReservationIsEntry DEF NoRecord
  <2>2. ~(0 > 1) /\ ~(1 > 1)
    OBVIOUS
  <2>3. Len(idem[t]) # 0 /\ Len(idem[t]) # 1
    BY <1>3, <2>2, Zenon
  <2>q. QED BY <2>1, <2>3
<1>5. HandedOver(idem, ledger, order)
  BY <1>4 DEF RecordInv, DiskIsShaped, DiskShape, Nothing, OnlyReserved
<1>6. PICK i \in Target : HandOverAt(idem, ledger, order, i)
  BY <1>1, <1>5, HandOverIs DEF Typed, Histories
<1>7. s < i
  <2>1. ~(t > i)
    BY <1>4, <1>6 DEF HandOverAt
  <2>q. QED BY <1>2, <2>1, NAssumption DEF Target
<1>8. idem[s] \in ClosedHistories /\ ledger[s] = idem[s] /\ order[s] = Flat
  BY <1>2, <1>6, <1>7 DEF HandOverAt
<1>q. QED BY <1>8, ClosedFacts DEF Filled, Flat

\* COMPLETE is the truth about the broker and about both stores.
LEMMA CompleteIsTrue == CloseoutInv /\ RecordInv /\ LockInv => CompleteMeansFlat
<1> SUFFICES ASSUME CloseoutInv, RecordInv, LockInv, phase = "COMPLETE", NEW t \in Target
             PROVE  order[t] = Flat /\ PhaseOf(idem[t]) = "FLAT_RECONCILED" /\ ledger[t] = idem[t]
  BY DEF CompleteMeansFlat, Flat
<1>1. idem \in Histories /\ order[t] \in Observation /\ idem = ledger
  BY DEF CloseoutInv, Typed, LockInv
<1>2. \A s \in Target : PhaseOf(idem[s]) = "FLAT_RECONCILED"
  BY DEF RecordInv, CompleteIsFlat
<1>3. idem # Nothing /\ idem # OnlyReserved
  BY <1>2, ReservationIsEntry DEF Nothing, OnlyReserved
<1>4. PICK i \in Target : HandOverAt(idem, ledger, order, i)
  BY <1>1, <1>3, HandOverIs DEF RecordInv, DiskIsShaped, DiskShape, Histories
<1>5. CASE t < i
  BY <1>1, <1>2, <1>4, <1>5 DEF HandOverAt
<1>6. CASE t > i
  BY <1>2, <1>4, <1>6, ReservationIsEntry DEF HandOverAt
<1>7. CASE t = i
  <2>1. idem[i] \in ClosedHistories
    BY <1>2, <1>4, OpenFacts DEF HandOverAt, AttemptedHistories
  <2>2. Follows(Entered("FLAT_RECONCILED", Flat), order[i])
    BY <1>4, <2>1, ClosedFacts DEF HandOverAt
  <2>3. Qty <= order[i].filled /\ order[i].status = "filled"
    BY <2>2 DEF Follows, Entered, Flat, TerminalStatuses
  <2>4. order[i].filled = Qty
    BY <1>1, <1>7, <2>3, QtyAssumption DEF Observation
  <2>5. order[i] = Flat
    BY <1>1, <1>7, <2>3, <2>4 DEF Observation, Flat
  <2>q. QED BY <1>1, <1>2, <1>7, <2>5
<1>8. t < i \/ t = i \/ t > i
  BY NAssumption DEF Target
<1>q. QED BY <1>5, <1>6, <1>7, <1>8

\* A healthy run is carried through: the exits in order, within the request budget, and
\* COMPLETE only when all are flat (scoped-closeout-contract.mjs:26, 584).
THEOREM PlanKept == Spec => []PlanIsKept
<1>1. Init => PlanInv
  BY InitCloseout, InitRecords, InitPlan DEF PlanInv
<1>2. PlanInv /\ [Next]_vars => PlanInv'
  BY CloseoutStep, RecordStep, LockStep, CountsStep, RunTypedStep DEF PlanInv
<1>3. PlanInv => PlanIsKept
  BY PlanIsTyped, OrdersLeaveInTurn, CompleteIsTrue DEF PlanInv, PlanIsKept, BudgetInv
<1>q. QED BY <1>1, <1>2, <1>3, PTL DEF Spec
=============================================================================
