--------------------------- MODULE SidecarRunProofs ---------------------------
(***************************************************************************)
(* Theorems about SidecarRun, for any stage-6 files and symbols, any time  *)
(* limits, any number of runs and days, and any faults.                    *)
(***************************************************************************)
EXTENDS SidecarRun, SequenceTheorems, FiniteSetTheorems, TLAPS

-------------------------------------------------------------------------------
(* The inductive invariant *)

Modes == {None} \cup (Hashes \X BOOLEAN)
Disks == [entry : [Keys -> {None} \cup EntryType], released : [Keys -> Seq(ReleaseType)],
          ledger : [Keys -> {None} \cup LedgerType], lastRun : Modes, lastForce : Modes]
OrderType == [key : Keys, cid : Cids, status : Lives, day : 0..MaxDay, overdue : BOOLEAN]
JobType == [hash : {None} \cup Hashes, exec : BOOLEAN, bypass : BOOLEAN,
            payloads : SUBSET Symbols, blocked : BOOLEAN]

BeforePost == {"preflight", "gate", "final", "submit", "post", "retry"}

Typed ==
  /\ faults \in Faults
  /\ day \in 0..MaxDay /\ runs \in 0..MaxRuns
  /\ disk \in Disks /\ saved \in Disks
  /\ orders \in Seq(OrderType)
  /\ late \subseteq Cids
  /\ pc \in {"idle", "record", "ledger", "mark"} \cup BeforePost
  /\ job \in JobType
  /\ pc # "idle" => job.hash \in Hashes
  /\ row \in {None} \cup RowType
  /\ pc = "record" => row # None
  /\ pc \in {"idle"} \cup BeforePost => row = None

\* A run posts once, so neither order ids nor suffixes go beyond the runs.
PostsAreCounted ==
  /\ IsFiniteSet(late)
  /\ Len(orders) + Cardinality(late) <= IF pc \in BeforePost THEN runs - 1 ELSE runs
  /\ \A n \in 1..Len(orders) : orders[n].cid.key = orders[n].key
  /\ pc \in BeforePost => /\ \A n \in 1..Len(orders) : orders[n].cid.nonce < runs
                          /\ \A p \in late : p.nonce < runs
  /\ \A n \in 1..Len(orders) : orders[n].cid.nonce <= runs
  /\ \A p \in late : p.nonce <= runs
  /\ \A m, n \in 1..Len(orders) : orders[m].cid = orders[n].cid => m = n

\* What an order of the key has come to, or has passed.
Reached(os, k, s) ==
  \E n \in 1..Len(os) :
    os[n].key = k /\ (os[n].status = s \/ StatusRank[s] < StatusRank[os[n].status])
\* NamesItsOrder, of any sequence of orders.
Names(os, k, rec) ==
  rec.oid # None =>
    /\ rec.oid \in 1..Len(os) /\ os[rec.oid].key = k /\ os[rec.oid].cid = rec.cid
    /\ rec.status # None
    /\ rec.status = os[rec.oid].status \/ StatusRank[rec.status] < StatusRank[os[rec.oid].status]

EntryIsTrue(os, today, k, e) ==
  e # None => /\ e.cid.key = k /\ e.day <= today /\ Names(os, k, e)
              /\ e.status # None => Reached(os, k, e.status)
ReleasesAreTrue(os, k, r) == \A i \in 1..Len(r) : r[i].status # None => Reached(os, k, r[i].status)
LedgerIsTrue(os, k, rec) == rec # None /\ rec.status # "planned" => Reached(os, k, rec.status)
DiskIsTrue(os, today, d) ==
  \A k \in Keys : /\ EntryIsTrue(os, today, k, d.entry[k]) /\ ReleasesAreTrue(os, k, d.released[k])
                  /\ LedgerIsTrue(os, k, d.ledger[k])

RowIsTrue(os, r) ==
  r # None => /\ Names(os, r.key, r) /\ r.cid.key = r.key
              /\ r.submitted = TRUE => r.status # None /\ Reached(os, r.key, r.status)
              /\ r.submitted = FALSE => r.oid = None /\ r.status = None

\* The guard has looked, and nothing but an overdue order can have come since.
GuardHolds ==
  /\ \A m, n \in 1..Len(orders) :
       /\ OpenOrder(orders[m]) /\ ~orders[m].overdue /\ OpenOrder(orders[n]) /\ ~orders[n].overdue
       /\ SymbolOf(orders[m].key) = SymbolOf(orders[n].key)
       => m = n
  /\ pc \in {"post", "retry"} =>
       /\ job.exec /\ Payload \in job.payloads
       /\ \A n \in 1..Len(orders) :
            OpenOrder(orders[n]) /\ SymbolOf(orders[n].key) = Payload => orders[n].overdue

RunInv ==
  /\ Typed /\ PostsAreCounted
  /\ DiskIsTrue(orders, day, disk) /\ DiskIsTrue(orders, day, saved) /\ RowIsTrue(orders, row)
  /\ GuardHolds

\* The keys of the payloads.
Ks == {KeyOf(job, s) : s \in job.payloads}

\* Without faults. What keeps the key of an order from being ordered again: its TTL is
\* over; its entry, which holds its id or the first id of the key; or, once it was
\* released, the terminal status of the release.
Expires(n) == orders[n].day + Ttl < day
HeldBy(n, e) ==
  /\ e # None /\ e.day >= orders[n].day
  /\ e.cid = orders[n].cid \/ (e.cid = Cid(orders[n].key, 0) /\ TakenCid(e.cid))
HeldOff(n, e, r) ==
  e = None /\ ReentryBlocked(r) /\ (orders[n].cid.nonce = 0 => orders[n].status \in Terminal)
HeldByEntry(n) == HeldBy(n, disk.entry[orders[n].key])
HeldByRelease(n) == HeldOff(n, disk.entry[orders[n].key], disk.released[orders[n].key])
OrdersAreCovered ==
  \A n \in 1..Len(orders) :
    orders[n].day <= day /\ (Expires(n) \/ HeldByEntry(n) \/ HeldByRelease(n))
OrderedAgainLate ==
  \A m, n \in 1..Len(orders) :
    m < n /\ orders[m].key = orders[n].key => orders[m].day + Ttl < orders[n].day
EntriesAreFree == \A k \in Keys : disk.entry[k] # None => ~ReentryBlocked(disk.released[k])

\* What the run knows of the keys it still works on.
FreshEntry(k) == Entry(Cid(k, 0), None, None)
NothingRuns(k) == \A n \in 1..Len(orders) : orders[n].key = k => Expires(n)
BeforeFinal ==
  job.exec = TRUE /\ pc \in {"gate", "final"} => \A k \in Ks : disk.entry[k] = None \/ Pruned(k)
BeforeSubmit ==
  job.exec = TRUE /\ pc \in {"submit", "post", "retry"} =>
    \A k \in Ks : disk.entry[k] = FreshEntry(k) /\ NothingRuns(k)
BeforeRetry == pc = "retry" => TakenCid(Cid(PayloadKey, 0))
BeforeRecord ==
  pc = "record" =>
    /\ disk.entry[row.key] = FreshEntry(row.key)
    /\ \A n \in 1..Len(orders) :
         orders[n].key = row.key /\ ~Expires(n) => row.cid = Cid(row.key, 0) \/ row.cid = orders[n].cid

ReservationInv ==
  /\ late = {} /\ OrdersAreCovered /\ OrderedAgainLate /\ EntriesAreFree
  /\ BeforeFinal /\ BeforeSubmit /\ BeforeRetry /\ BeforeRecord

FaultlessInv == faults = {} => ReservationInv
IInv == RunInv /\ FaultlessInv

-------------------------------------------------------------------------------
(* The operators of the run *)

LEMMA RankFacts ==
  /\ \A s \in OrderLifecycleStatus : StatusRank[s] \in 0..4
  /\ \A s \in Lives : s \in OrderLifecycleStatus /\ StatusRank[s] >= 1 /\ s # None /\ s # "planned"
  /\ \A s \in Lives : (s \in Open <=> StatusRank[s] < 4) /\ (s \in Terminal => StatusRank[s] = 4)
  /\ StatusRank["submitted"] = 1
  /\ \A s \in Lives : s = "submitted" \/ StatusRank["submitted"] < StatusRank[s]
<1> USE LivesAssumption, NoneAssumption DEF OrderLifecycleStatus, Open, Terminal
<1>1. \A s \in OrderLifecycleStatus :
        StatusRank[s] = CASE s = "planned" -> 0 [] s = "submitted" -> 1 [] s = "accepted" -> 2
                          [] s = "partially_filled" -> 3 [] OTHER -> 4
  BY DEF StatusRank
<1>2. /\ StatusRank["planned"] = 0 /\ StatusRank["submitted"] = 1 /\ StatusRank["accepted"] = 2
      /\ StatusRank["partially_filled"] = 3 /\ StatusRank["filled"] = 4
      /\ StatusRank["canceled"] = 4 /\ StatusRank["rejected"] = 4 /\ StatusRank["expired"] = 4
  BY <1>1
<1> QED BY <1>2

\* What a lookup may answer: nothing, or the status of an order with the id.
Answer(e, a) ==
  /\ a = [entry |-> a.entry, release |-> a.release] /\ a.release \in BOOLEAN
  /\ \/ a.entry = e /\ (faults = {} => ~TakenCid(e.cid))
     \/ \E n \in 1..Len(orders) :
          /\ orders[n].cid = e.cid
          /\ a.entry = [e EXCEPT !.oid = n, !.status = orders[n].status]
          /\ a.release = TRUE => orders[n].status \in Terminal

SeenAs(e, n) == IF n = None THEN e ELSE [e EXCEPT !.oid = n, !.status = orders[n].status]
MayGo(e, n) == IF n = None THEN {ReleaseOnMissing \/ (e.oid = None /\ e.status = None)}
               ELSE IF SeenAs(e, n).status \in Terminal THEN BOOLEAN ELSE {FALSE}

LEMMA ResolutionIsAnswer ==
  ASSUME Typed, NEW e \in EntryType, NEW a \in Resolutions(e)
  PROVE  Answer(e, a)
<1>1. Resolutions(e) = UNION {{[entry |-> SeenAs(e, n), release |-> g] : g \in MayGo(e, n)} : n \in Lookups(e.cid)}
  BY DEF Resolutions, SeenAs, MayGo
<1>a. PICK n \in Lookups(e.cid) : a \in {[entry |-> SeenAs(e, n), release |-> g] : g \in MayGo(e, n)}
  BY <1>1
<1>2. PICK g \in MayGo(e, n) : a = [entry |-> SeenAs(e, n), release |-> g]
  BY <1>a
<1>3. DOMAIN orders = 1..Len(orders) /\ ReleaseOnMissing \in BOOLEAN
  BY LimitsAssumption DEF Typed
<1>4. g \in BOOLEAN /\ (n # None /\ g = TRUE => SeenAs(e, n).status \in Terminal)
  BY <1>3 DEF MayGo
<1>5. a.entry = SeenAs(e, n) /\ a.release = g /\ a = [entry |-> a.entry, release |-> a.release]
  BY <1>2
<1>6. CASE n = None
  <2>1. faults = {} => ~TakenCid(e.cid)
    BY <1>3, <1>6, NoneAssumption DEF Lookups, TakenCid
  <2> QED BY <1>4, <1>5, <1>6, <2>1 DEF Answer, SeenAs
<1>7. CASE n # None
  <2>1. n \in 1..Len(orders) /\ orders[n].cid = e.cid
    BY <1>3, <1>7 DEF Lookups
  <2>2. SeenAs(e, n) = [e EXCEPT !.oid = n, !.status = orders[n].status]
    BY <1>7 DEF SeenAs
  <2>3. SeenAs(e, n).status = orders[n].status
    BY <2>2 DEF EntryType
  <2> QED BY <1>4, <1>5, <1>7, <2>1, <2>2, <2>3 DEF Answer
<1> QED BY <1>6, <1>7

LEMMA AnswerType ==
  ASSUME Typed, PostsAreCounted, NEW e \in EntryType, NEW a, Answer(e, a)
  PROVE  a.entry \in EntryType /\ a.entry.cid = e.cid /\ a.entry.day = e.day
<1>1. CASE a.entry = e
  BY <1>1
<1>2. ASSUME NEW n \in 1..Len(orders), a.entry = [e EXCEPT !.oid = n, !.status = orders[n].status]
      PROVE  a.entry \in EntryType /\ a.entry.cid = e.cid /\ a.entry.day = e.day
  <2>1. Len(orders) \in Nat /\ Len(orders) <= MaxRuns
    BY FS_CardinalityType, LimitsAssumption DEF PostsAreCounted, Typed
  <2>2. n \in Ids
    BY <2>1, LimitsAssumption DEF Ids
  <2>3. orders[n].status \in Seen
    <3>1. orders[n] \in OrderType
      BY DEF Typed
    <3> QED BY <3>1 DEF OrderType, Seen
  <2> QED BY <1>2, <2>2, <2>3 DEF EntryType
<1> QED BY <1>1, <1>2 DEF Answer

\* What a phase may make of the entry and the releases of one key.
Reserved(k, persist, e, r) ==
  persist /\ e = Entry(Cid(k, 0), None, None) /\ ~ReentryBlocked(r)
KeyStep(k, persist, e, r) ==
  \/ e = disk.entry[k] /\ r = disk.released[k]
  \/ disk.entry[k] = None /\ r = disk.released[k] /\ Reserved(k, persist, e, r)
  \/ Pruned(k) /\ r = Append(disk.released[k], Expired(k)) /\ (e = None \/ Reserved(k, persist, e, r))
  \/ /\ k \in Ks /\ persist /\ disk.entry[k] # None /\ ~Pruned(k) /\ disk.entry[k].day # day
     /\ r = Append(disk.released[k], Release(disk.entry[k], disk.entry[k].oid, disk.entry[k].status))
     /\ e = None \/ Reserved(k, persist, e, r)
  \/ /\ k \in Ks /\ job.exec /\ disk.entry[k] # None /\ ~Pruned(k)
     /\ \E a : /\ Answer(disk.entry[k], a)
               /\ \/ e = a.entry /\ r = disk.released[k]
                  \/ /\ a.release /\ (e = None \/ Reserved(k, persist, e, r))
                     /\ r = Append(disk.released[k], Release(a.entry, a.entry.oid, a.entry.status))
\* When a payload of an executing run outlives a phase.
Outlives(k, persist, e, r) ==
  IF persist THEN Reserved(k, persist, e, r) ELSE e = None \/ (Pruned(k) /\ e = disk.entry[k])

IsChecked(C, k, persist, asked, ans) == C = Checked(k, persist, asked, ans)
\* What holds of the outcome of one payload: its entry and releases follow KeyStep,
\* and a payload of an executing run that stays has its entry saved, or had none.
CheckedWell(k, persist, C) ==
  /\ KeyStep(k, persist, C.entry, C.released)
  /\ C.keep = TRUE /\ job.exec = TRUE =>
       IF persist THEN Reserved(k, persist, C.entry, C.released) /\ C.changed = TRUE
       ELSE C.entry = None /\ (C.changed = TRUE \/ disk.entry[k] = None \/ Pruned(k))

LEMMA CheckedAsked ==
  ASSUME Typed, PostsAreCounted, NEW k \in Keys, k \in Ks, NEW persist \in BOOLEAN, NEW ans,
         job.exec, disk.entry[k] # None, ~Pruned(k), ~(persist /\ disk.entry[k].day # day),
         Answer(disk.entry[k], ans),
         NEW C, IsChecked(C, k, persist, TRUE, ans)
  PROVE  CheckedWell(k, persist, C)
<1> DEFINE fresh == Entry(Cid(k, 0), None, None)
           was == disk.entry[k]
           rel == disk.released[k]
<1>0. job.exec \in BOOLEAN
  BY DEF Typed, JobType
<1>1. was # None /\ ~Pruned(k) /\ job.exec /\ ~(persist /\ was.day # day) /\ Answer(was, ans)
  OBVIOUS
<1>2. was \in EntryType
  BY <1>1 DEF Typed, Disks
<1>3. ans.entry \in EntryType /\ ans.entry # None /\ ans.release \in BOOLEAN
  BY <1>1, <1>2, AnswerType, NoneAssumption DEF Answer
<1>4. CASE ans.release
  <2> DEFINE r == Append(rel, Release(ans.entry, ans.entry.oid, ans.entry.status))
  <2>1. C = [entry |-> IF ~ReentryBlocked(r) /\ persist THEN fresh ELSE None, released |-> r,
             keep |-> ~ReentryBlocked(r), changed |-> TRUE]
    BY <1>1, <1>4 DEF IsChecked, Checked
  <2>2a. C.entry = IF ~ReentryBlocked(r) /\ persist THEN fresh ELSE None
    BY <2>1
  <2>2b. C.released = r
    BY <2>1
  <2>2c. C.keep = ~ReentryBlocked(r)
    BY <2>1
  <2>2d. C.changed = TRUE
    BY <2>1
  <2>3. C.entry = None \/ Reserved(k, persist, C.entry, r)
    BY <2>2a DEF Reserved
  <2>4. KeyStep(k, persist, C.entry, C.released)
    BY <1>1, <1>4, <2>2b, <2>3 DEF KeyStep
  <2> QED BY <2>2a, <2>2b, <2>2c, <2>2d, <2>4 DEF CheckedWell, Reserved
<1>5. CASE ~ans.release
  <2>1. C = [entry |-> ans.entry, released |-> rel, keep |-> FALSE, changed |-> TRUE]
    BY <1>0, <1>1, <1>3, <1>5 DEF IsChecked, Checked
  <2>2. C.entry = ans.entry /\ C.released = rel /\ C.keep = FALSE
    BY <2>1
  <2>3. KeyStep(k, persist, C.entry, C.released)
    BY <1>1, <2>2 DEF KeyStep
  <2> QED BY <2>2, <2>3 DEF CheckedWell
<1> QED BY <1>3, <1>4, <1>5

LEMMA CheckedUnasked ==
  ASSUME Typed, NEW k \in Keys, k \in Ks, NEW persist \in BOOLEAN,
         NEW C, IsChecked(C, k, persist, FALSE, None)
  PROVE  CheckedWell(k, persist, C)
<1> DEFINE fresh == Entry(Cid(k, 0), None, None)
           was == disk.entry[k]
           rel == disk.released[k]
<1>0. job.exec \in BOOLEAN
  BY DEF Typed, JobType
<1>2. CASE Pruned(k)
  <2> DEFINE r == Append(rel, Expired(k))
  <2>1. C = [entry |-> IF ~ReentryBlocked(r) /\ persist THEN fresh ELSE None, released |-> r,
             keep |-> ~ReentryBlocked(r), changed |-> ~ReentryBlocked(r) /\ persist]
    BY <1>2 DEF IsChecked, Checked
  <2>2a. C.entry = IF ~ReentryBlocked(r) /\ persist THEN fresh ELSE None
    BY <2>1
  <2>2b. C.released = r
    BY <2>1
  <2>2c. C.keep = ~ReentryBlocked(r)
    BY <2>1
  <2>2d. C.changed = (~ReentryBlocked(r) /\ persist)
    BY <2>1
  <2>3. C.entry = None \/ Reserved(k, persist, C.entry, r)
    BY <2>2a DEF Reserved
  <2>4. KeyStep(k, persist, C.entry, C.released)
    BY <1>2, <2>2b, <2>3 DEF KeyStep
  <2> QED BY <1>2, <2>2a, <2>2b, <2>2c, <2>2d, <2>4 DEF CheckedWell, Reserved
<1>3. CASE ~Pruned(k) /\ was = None
  <2>1. C = [entry |-> IF ~ReentryBlocked(rel) /\ persist THEN fresh ELSE None, released |-> rel,
             keep |-> ~ReentryBlocked(rel), changed |-> ~ReentryBlocked(rel) /\ persist]
    BY <1>3 DEF IsChecked, Checked
  <2>2a. C.entry = IF ~ReentryBlocked(rel) /\ persist THEN fresh ELSE None
    BY <2>1
  <2>2b. C.released = rel
    BY <2>1
  <2>2c. C.keep = ~ReentryBlocked(rel)
    BY <2>1
  <2>2d. C.changed = (~ReentryBlocked(rel) /\ persist)
    BY <2>1
  <2>3. C.entry = None \/ Reserved(k, persist, C.entry, rel)
    BY <2>2a DEF Reserved
  <2>4. KeyStep(k, persist, C.entry, C.released)
    BY <1>3, <2>2b, <2>3 DEF KeyStep
  <2> QED BY <1>3, <2>2a, <2>2b, <2>2c, <2>2d, <2>4 DEF CheckedWell, Reserved
<1>4. CASE ~Pruned(k) /\ was # None /\ persist /\ was.day # day
  <2> DEFINE r == Append(rel, Release(was, was.oid, was.status))
  <2>1. C = [entry |-> IF ~ReentryBlocked(r) /\ persist THEN fresh ELSE None, released |-> r,
             keep |-> ~ReentryBlocked(r), changed |-> TRUE]
    BY <1>4 DEF IsChecked, Checked
  <2>2a. C.entry = IF ~ReentryBlocked(r) /\ persist THEN fresh ELSE None
    BY <2>1
  <2>2b. C.released = r
    BY <2>1
  <2>2c. C.keep = ~ReentryBlocked(r)
    BY <2>1
  <2>2d. C.changed = TRUE
    BY <2>1
  <2>3. C.entry = None \/ Reserved(k, persist, C.entry, r)
    BY <2>2a DEF Reserved
  <2>4. KeyStep(k, persist, C.entry, C.released)
    BY <1>4, <2>2b, <2>3 DEF KeyStep
  <2> QED BY <1>4, <2>2a, <2>2b, <2>2c, <2>2d, <2>4 DEF CheckedWell, Reserved
<1>5. CASE ~Pruned(k) /\ was # None /\ ~(persist /\ was.day # day)
  <2>1. C = [entry |-> was, released |-> rel, keep |-> ~job.exec, changed |-> FALSE]
    BY <1>0, <1>5 DEF IsChecked, Checked
  <2>2. C.entry = was /\ C.released = rel /\ C.keep = ~job.exec
    BY <2>1
  <2>3. KeyStep(k, persist, C.entry, C.released)
    BY <2>2 DEF KeyStep
  <2> QED BY <1>0, <2>2, <2>3 DEF CheckedWell
<1> QED BY <1>2, <1>3, <1>4, <1>5

LEMMA EntryFacts ==
  ASSUME Typed, NEW k \in Keys
  PROVE  /\ Entry(Cid(k, 0), None, None) \in EntryType
         /\ \A cid \in Cids, oid \in Ids, s \in Seen : Entry(cid, oid, s) \in EntryType
         /\ \A x \in EntryType : Release(x, x.oid, x.status) \in ReleaseType
<1>1. Cid(k, 0) \in Cids
  BY LimitsAssumption DEF Cid, Cids
<1> QED BY <1>1 DEF Typed, Entry, Release, EntryType, ReleaseType, Ids, Seen

LEMMA DiskFields ==
  ASSUME NEW d \in Disks, NEW k \in Keys
  PROVE  /\ d.entry \in [Keys -> {None} \cup EntryType] /\ d.released \in [Keys -> Seq(ReleaseType)]
         /\ d.ledger \in [Keys -> {None} \cup LedgerType] /\ {d.lastRun, d.lastForce} \subseteq Modes
         /\ d.entry[k] \in {None} \cup EntryType /\ d.released[k] \in Seq(ReleaseType)
         /\ d.ledger[k] \in {None} \cup LedgerType
BY DEF Disks

LEMMA KeyStepType ==
  ASSUME Typed, PostsAreCounted, NEW k \in Keys, NEW persist \in BOOLEAN, NEW e, NEW r,
         KeyStep(k, persist, e, r)
  PROVE  e \in {None} \cup EntryType /\ r \in Seq(ReleaseType)
<1>1. disk.entry[k] \in {None} \cup EntryType /\ disk.released[k] \in Seq(ReleaseType)
  BY DiskFields DEF Typed
<1>2. \A x \in EntryType : Append(disk.released[k], Release(x, x.oid, x.status)) \in Seq(ReleaseType)
  BY <1>1, EntryFacts
<1>3. Reserved(k, persist, e, r) => e \in EntryType
  BY EntryFacts DEF Reserved
<1>4. Pruned(k) => disk.entry[k] \in EntryType /\ Expired(k) = Release(disk.entry[k], disk.entry[k].oid, disk.entry[k].status)
  BY <1>1 DEF Pruned, Expired
<1>5. \A a : Answer(disk.entry[k], a) /\ disk.entry[k] # None => a.entry \in EntryType
  BY <1>1, AnswerType
<1> QED BY <1>1, <1>2, <1>3, <1>4, <1>5 DEF KeyStep

\* Phase, for one choice of the keys that are asked, those that throw and the answers.
DueLive(k, persist) == disk.entry[k] # None /\ ~Pruned(k) /\ ~(persist /\ disk.entry[k].day # day)
Due(persist) == {k \in Ks : job.exec /\ DueLive(k, persist)}
PhaseWith(persist, next, asked, threw, ans) ==
  /\ \A k \in asked : ans[k] \in Resolutions(disk.entry[k])
  /\ Cardinality(asked) <= MaxChecks
  /\ asked \cup threw # Due(persist) => Cardinality(asked) = MaxChecks
  /\ LET R == [k \in Ks |-> Checked(k, persist, k \in asked, IF k \in asked THEN ans[k] ELSE None)]
         other(k) == IF k \in Ks THEN R[k].entry ELSE IF Pruned(k) THEN None ELSE disk.entry[k]
         otherRel(k) == IF k \in Ks THEN R[k].released
                        ELSE IF Pruned(k) THEN Append(disk.released[k], Expired(k))
                        ELSE disk.released[k]
         changed == \/ threw # {} \/ \E k \in Ks : R[k].changed
                    \/ persist /\ \E k \in Keys : Pruned(k)
     IN  /\ disk' = IF changed
                    THEN [disk EXCEPT !.entry = [k \in Keys |-> other(k)],
                                      !.released = [k \in Keys |-> otherRel(k)]]
                    ELSE disk
         /\ job' = [job EXCEPT !.payloads = {SymbolOf(k) : k \in {x \in Ks : R[x].keep}}]
         /\ pc' = next
  /\ UNCHANGED <<faults, day, runs, saved, orders, late, row>>

LEMMA PhaseChoice ==
  ASSUME NEW persist, NEW next, Phase(persist, next)
  PROVE  \E asked \in SUBSET Due(persist) :
         \E threw \in SUBSET (Due(persist) \ asked) :
         \E ans \in [asked -> UNION {Resolutions(disk.entry[k]) : k \in asked}] :
           PhaseWith(persist, next, asked, threw, ans)
BY Zenon DEF Phase, PhaseWith, Due, DueLive, Ks

\* A phase, key by key.
PhaseMakes(persist, next, en, re, ps) ==
  /\ disk' = [disk EXCEPT !.entry = en, !.released = re]
  /\ \A k \in Keys : KeyStep(k, persist, en[k], re[k])
  /\ job' = [job EXCEPT !.payloads = ps]
  /\ job.exec = TRUE =>
       \A s \in ps : Outlives(KeyOf(job, s), persist, en[KeyOf(job, s)], re[KeyOf(job, s)])
  /\ pc' = next /\ UNCHANGED <<faults, day, runs, saved, orders, late, row>>

LEMMA PhaseKeys ==
  ASSUME Typed, PostsAreCounted, pc # "idle", NEW persist \in BOOLEAN, NEW next, Phase(persist, next)
  PROVE  \E en \in [Keys -> {None} \cup EntryType], re \in [Keys -> Seq(ReleaseType)],
            ps \in SUBSET job.payloads : PhaseMakes(persist, next, en, re, ps)
<1>1. PICK asked \in SUBSET Due(persist) :
        \E threw \in SUBSET (Due(persist) \ asked) :
        \E ans \in [asked -> UNION {Resolutions(disk.entry[k]) : k \in asked}] :
          PhaseWith(persist, next, asked, threw, ans)
  BY PhaseChoice
<1>2. PICK threw \in SUBSET (Due(persist) \ asked) :
        \E ans \in [asked -> UNION {Resolutions(disk.entry[k]) : k \in asked}] :
          PhaseWith(persist, next, asked, threw, ans)
  BY <1>1
<1>3. PICK ans \in [asked -> UNION {Resolutions(disk.entry[k]) : k \in asked}] :
        PhaseWith(persist, next, asked, threw, ans)
  BY <1>2
<1> DEFINE R == [k \in Ks |-> Checked(k, persist, k \in asked, IF k \in asked THEN ans[k] ELSE None)]
           en == [k \in Keys |-> IF k \in Ks THEN R[k].entry ELSE IF Pruned(k) THEN None ELSE disk.entry[k]]
           re == [k \in Keys |-> IF k \in Ks THEN R[k].released
                                 ELSE IF Pruned(k) THEN Append(disk.released[k], Expired(k))
                                 ELSE disk.released[k]]
           changed == \/ threw # {} \/ \E k \in Ks : R[k].changed
                      \/ persist /\ \E k \in Keys : Pruned(k)
           ps == {SymbolOf(k) : k \in {x \in Ks : R[x].keep}}
<1>4. /\ disk' = IF changed THEN [disk EXCEPT !.entry = en, !.released = re] ELSE disk
      /\ job' = [job EXCEPT !.payloads = ps]
      /\ pc' = next /\ UNCHANGED <<faults, day, runs, saved, orders, late, row>>
  BY <1>3, Zenon DEF PhaseWith
<1>5. Ks \subseteq Keys /\ job.exec \in BOOLEAN /\ job.payloads \subseteq Symbols /\ job.hash \in Hashes
  BY DEF Typed, JobType, Keys, KeyOf, Ks
<1>6. ASSUME NEW k \in Ks
      PROVE  CheckedWell(k, persist, R[k]) /\ R[k].keep \in BOOLEAN /\ R[k].changed \in BOOLEAN
  <2>1. k \in asked =>
          /\ job.exec /\ disk.entry[k] # None /\ ~Pruned(k)
          /\ ~(persist /\ disk.entry[k].day # day) /\ ans[k] \in Resolutions(disk.entry[k])
    BY <1>3 DEF PhaseWith, Due, DueLive
  <2>2. k \in Keys /\ disk.entry[k] \in {None} \cup EntryType
    BY <1>5, DiskFields DEF Typed
  <2>3. R[k] = Checked(k, persist, k \in asked, IF k \in asked THEN ans[k] ELSE None)
    OBVIOUS
  <2>4. R[k].keep \in BOOLEAN /\ R[k].changed \in BOOLEAN
    BY <2>3 DEF Checked
  <2>5. CASE k \in asked
    <3>1. Answer(disk.entry[k], ans[k])
      BY <2>1, <2>2, <2>5, ResolutionIsAnswer
    <3>2. IsChecked(R[k], k, persist, TRUE, ans[k])
      BY <2>3, <2>5 DEF IsChecked
    <3> QED BY <2>1, <2>2, <2>4, <2>5, <3>1, <3>2, CheckedAsked
  <2>6. CASE k \notin asked
    <3>1. IsChecked(R[k], k, persist, FALSE, None)
      BY <2>3, <2>6 DEF IsChecked, Checked
    <3> QED BY <2>2, <2>4, <3>1, CheckedUnasked
  <2> QED BY <2>5, <2>6
<1>7. ASSUME NEW k \in Keys
      PROVE  KeyStep(k, persist, en[k], re[k])
  <2>1. CASE k \in Ks
    BY <1>6, <2>1 DEF CheckedWell
  <2>2. CASE k \notin Ks /\ Pruned(k)
    BY <2>2 DEF KeyStep
  <2>3. CASE k \notin Ks /\ ~Pruned(k)
    BY <2>3 DEF KeyStep
  <2> QED BY <2>1, <2>2, <2>3
<1>8. en \in [Keys -> {None} \cup EntryType] /\ re \in [Keys -> Seq(ReleaseType)]
  BY <1>7, KeyStepType
<1>9. \A k \in Ks : SymbolOf(k) \in job.payloads /\ k = KeyOf(job, SymbolOf(k))
  BY DEF Ks, KeyOf, SymbolOf
<1>s. \A s \in ps : \E k \in Ks : s = SymbolOf(k) /\ R[k].keep
  OBVIOUS
<1>p. ps \subseteq job.payloads
  <2> HIDE DEF ps, R
  <2> QED BY <1>9, <1>s
<1>10. ASSUME NEW s \in ps, job.exec = TRUE
       PROVE  LET k == KeyOf(job, s)
              IN  /\ k \in Ks /\ k \in Keys
                  /\ IF persist THEN Reserved(k, persist, en[k], re[k]) /\ R[k].changed = TRUE
                     ELSE en[k] = None /\ (R[k].changed = TRUE \/ disk.entry[k] = None \/ Pruned(k))
  <2>1. PICK k \in Ks : R[k].keep /\ s = SymbolOf(k)
    BY <1>s
  <2>2. R[k].keep = TRUE
    BY <1>6, <2>1
  <2>3. k = KeyOf(job, s) /\ k \in Keys
    BY <1>5, <1>9, <2>1
  <2> QED BY <1>6, <1>10, <2>2, <2>3 DEF CheckedWell
<1>11. CASE changed
  <2>1. disk' = [disk EXCEPT !.entry = en, !.released = re]
    BY <1>4, <1>11
  <2>2. job.exec = TRUE =>
          \A s \in ps : Outlives(KeyOf(job, s), persist, en[KeyOf(job, s)], re[KeyOf(job, s)])
    BY <1>10 DEF Outlives
  <2> HIDE DEF en, re, ps
  <2> QED BY <1>4, <1>7, <1>8, <1>p, <2>1, <2>2 DEF PhaseMakes
<1>12. CASE ~changed
  <2>1. \A k \in Keys : KeyStep(k, persist, disk.entry[k], disk.released[k])
    BY DEF KeyStep
  <2>2. disk' = [disk EXCEPT !.entry = disk.entry, !.released = disk.released]
    BY <1>4, <1>12 DEF Typed, Disks
  <2>3. disk.entry \in [Keys -> {None} \cup EntryType] /\ disk.released \in [Keys -> Seq(ReleaseType)]
    BY DEF Typed, Disks
  <2>4. ASSUME job.exec = TRUE, NEW s \in ps
        PROVE  Outlives(KeyOf(job, s), persist, disk.entry[KeyOf(job, s)], disk.released[KeyOf(job, s)])
    BY <1>6, <1>10, <1>12, <2>4 DEF Outlives
  <2> HIDE DEF en, re, ps
  <2> QED BY <1>4, <1>p, <2>1, <2>2, <2>3, <2>4 DEF PhaseMakes
<1> QED BY <1>11, <1>12

-------------------------------------------------------------------------------
(* The orders *)

\* Orders are never forgotten, and their status only moves on.
Grow(os, os2) ==
  /\ Len(os) <= Len(os2)
  /\ \A n \in 1..Len(os) :
       /\ os2[n].key = os[n].key /\ os2[n].cid = os[n].cid
       /\ os2[n].day = os[n].day /\ os2[n].overdue = os[n].overdue
       /\ os2[n].status = os[n].status \/ StatusRank[os[n].status] < StatusRank[os2[n].status]

LEMMA OrderFacts ==
  ASSUME NEW os \in Seq(OrderType)
  PROVE  /\ Len(os) \in Nat /\ DOMAIN os = 1..Len(os)
         /\ \A n \in 1..Len(os) :
              /\ os[n] \in OrderType /\ os[n].key \in Keys /\ os[n].cid \in Cids /\ os[n].status \in Lives
              /\ os[n].day \in 0..MaxDay /\ os[n].overdue \in BOOLEAN
              /\ StatusRank[os[n].status] \in 1..4
<1>1. Len(os) \in Nat /\ DOMAIN os = 1..Len(os) /\ \A n \in 1..Len(os) : os[n] \in OrderType
  OBVIOUS
<1>2. \A s \in Lives : StatusRank[s] \in 1..4
  BY RankFacts
<1> QED BY <1>1, <1>2 DEF OrderType

LEMMA ReachedIsKept ==
  ASSUME NEW os \in Seq(OrderType), NEW os2 \in Seq(OrderType), Grow(os, os2),
         NEW k, NEW s, s \in Seen \ {None}, Reached(os, k, s)
  PROVE  Reached(os2, k, s)
<1>1. PICK n \in 1..Len(os) : os[n].key = k /\ (os[n].status = s \/ StatusRank[s] < StatusRank[os[n].status])
  BY DEF Reached
<1>2. n \in 1..Len(os2) /\ os2[n].key = k
  BY <1>1, OrderFacts DEF Grow
<1>3. StatusRank[s] \in 0..4
  BY RankFacts DEF Seen, OrderLifecycleStatus
<1>4. os2[n].status = s \/ StatusRank[s] < StatusRank[os2[n].status]
  BY <1>1, <1>2, <1>3, OrderFacts DEF Grow
<1> QED BY <1>2, <1>4 DEF Reached

LEMMA NamesIsKept ==
  ASSUME NEW os \in Seq(OrderType), NEW os2 \in Seq(OrderType), Grow(os, os2),
         NEW k, NEW rec, rec.status \in Seen, Names(os, k, rec)
  PROVE  Names(os2, k, rec)
<1> SUFFICES ASSUME rec.oid # None
             PROVE  Names(os2, k, rec)
  BY DEF Names
<1> DEFINE n == rec.oid
<1>1. n \in 1..Len(os) /\ os[n].key = k /\ os[n].cid = rec.cid
  BY DEF Names
<1>2. n \in 1..Len(os2) /\ os2[n].key = k /\ os2[n].cid = rec.cid
  BY <1>1, OrderFacts DEF Grow
<1>3a. StatusRank[rec.status] \in 0..4 /\ StatusRank[os[n].status] \in 1..4 /\ StatusRank[os2[n].status] \in 1..4
  BY <1>1, <1>2, OrderFacts, RankFacts DEF Names, Seen, OrderLifecycleStatus
<1>3. CASE rec.status = os[n].status
  BY <1>1, <1>2, <1>3 DEF Grow, Names
<1>4. CASE StatusRank[rec.status] < StatusRank[os[n].status]
  BY <1>1, <1>2, <1>3a, <1>4 DEF Grow, Names
<1> QED BY <1>3, <1>4 DEF Names

LEMMA TruthIsKept ==
  ASSUME NEW os \in Seq(OrderType), NEW os2 \in Seq(OrderType), Grow(os, os2),
         NEW today \in Nat, NEW later \in Nat, today <= later,
         NEW d \in Disks, DiskIsTrue(os, today, d)
  PROVE  DiskIsTrue(os2, later, d)
<1> SUFFICES ASSUME NEW k \in Keys
             PROVE  /\ EntryIsTrue(os2, later, k, d.entry[k]) /\ ReleasesAreTrue(os2, k, d.released[k])
                    /\ LedgerIsTrue(os2, k, d.ledger[k])
  BY DEF DiskIsTrue
<1>1. /\ EntryIsTrue(os, today, k, d.entry[k]) /\ ReleasesAreTrue(os, k, d.released[k])
      /\ LedgerIsTrue(os, k, d.ledger[k])
  BY DEF DiskIsTrue
<1>2. EntryIsTrue(os2, later, k, d.entry[k])
  <2>1. d.entry[k] # None => d.entry[k].status \in Seen /\ d.entry[k].day \in Nat
    BY DiskFields, LimitsAssumption DEF EntryType
  <2> QED BY <1>1, <2>1, ReachedIsKept, NamesIsKept DEF EntryIsTrue
<1>3. ReleasesAreTrue(os2, k, d.released[k])
  <2>1. \A i \in 1..Len(d.released[k]) : d.released[k][i].status \in Seen
    <3>1. d.released[k] \in Seq(ReleaseType)
      BY DiskFields
    <3>2. \A i \in 1..Len(d.released[k]) : d.released[k][i] \in ReleaseType
      BY <3>1
    <3> QED BY <3>2 DEF ReleaseType
  <2> QED BY <1>1, <2>1, ReachedIsKept DEF ReleasesAreTrue
<1>4. LedgerIsTrue(os2, k, d.ledger[k])
  <2>1. d.ledger[k] # None /\ d.ledger[k].status # "planned" => d.ledger[k].status \in Seen \ {None}
    BY DiskFields, RankFacts, NoneAssumption DEF LedgerType, Seen, OrderLifecycleStatus
  <2> QED BY <1>1, <2>1, ReachedIsKept DEF LedgerIsTrue
<1> QED BY <1>2, <1>3, <1>4

LEMMA RowTruthIsKept ==
  ASSUME NEW os \in Seq(OrderType), NEW os2 \in Seq(OrderType), Grow(os, os2),
         NEW r \in {None} \cup RowType, RowIsTrue(os, r)
  PROVE  RowIsTrue(os2, r)
<1>1. CASE r = None
  BY <1>1 DEF RowIsTrue
<1>2. CASE r \in RowType /\ r # None
  <2>1. r.status \in Seen /\ r.submitted \in BOOLEAN
    BY <1>2 DEF RowType
  <2>2. Names(os2, r.key, r)
    BY <1>2, <2>1, NamesIsKept DEF RowIsTrue
  <2>3. r.submitted = TRUE => r.status # None /\ Reached(os2, r.key, r.status)
    BY <1>2, <2>1, ReachedIsKept DEF RowIsTrue
  <2> QED BY <1>2, <2>2, <2>3 DEF RowIsTrue
<1> QED BY <1>1, <1>2

LEMMA AppendGrows ==
  ASSUME NEW os \in Seq(OrderType), NEW o \in OrderType, NEW os2, os2 = Append(os, o)
  PROVE  /\ os2 \in Seq(OrderType) /\ Grow(os, os2) /\ Len(os2) = Len(os) + 1
         /\ \A n \in 1..Len(os) : os2[n] = os[n]
         /\ os2[Len(os) + 1] = o
<1>1. /\ os2 \in Seq(OrderType) /\ Len(os2) = Len(os) + 1 /\ Len(os) \in Nat
      /\ \A n \in 1..Len(os) : os2[n] = os[n]
      /\ os2[Len(os) + 1] = o
  OBVIOUS
<1> QED BY <1>1 DEF Grow

LEMMA MoveGrows ==
  ASSUME NEW os \in Seq(OrderType), NEW n \in 1..Len(os), NEW s \in Lives,
         StatusRank[os[n].status] < StatusRank[s],
         NEW os2, os2 = [os EXCEPT ![n].status = s]
  PROVE  /\ os2 \in Seq(OrderType) /\ Grow(os, os2) /\ Len(os2) = Len(os)
         /\ \A m \in 1..Len(os) : /\ os2[m].key = os[m].key /\ os2[m].cid = os[m].cid
                                  /\ os2[m].day = os[m].day /\ os2[m].overdue = os[m].overdue
                                  /\ os2[m].status = IF m = n THEN s ELSE os[m].status
                                  /\ OpenOrder(os2[m]) => OpenOrder(os[m])
<1>1. Len(os) \in Nat /\ \A m \in 1..Len(os) : os[m] \in OrderType
  BY OrderFacts
<1>2. os2 \in Seq(OrderType) /\ Len(os2) = Len(os)
  <2>1. [os[n] EXCEPT !.status = s] \in OrderType
    BY <1>1 DEF OrderType
  <2>2. os2 = [os EXCEPT ![n] = [os[n] EXCEPT !.status = s]]
    OBVIOUS
  <2> QED BY <2>1, <2>2
<1>3. \A m \in 1..Len(os) : /\ os2[m].key = os[m].key /\ os2[m].cid = os[m].cid
                            /\ os2[m].day = os[m].day /\ os2[m].overdue = os[m].overdue
                            /\ os2[m].status = IF m = n THEN s ELSE os[m].status
  BY <1>1 DEF OrderType
<1>4. ASSUME NEW m \in 1..Len(os), OpenOrder(os2[m])
      PROVE  OpenOrder(os[m])
  <2>1. CASE m = n
    <3>1. s \in Open /\ StatusRank[s] \in 1..4 /\ StatusRank[os[n].status] \in 1..4 /\ os[n].status \in Lives
      BY <1>3, <1>4, <2>1, OrderFacts, RankFacts DEF OpenOrder
    <3> QED BY <2>1, <3>1, RankFacts DEF OpenOrder
  <2> QED BY <1>3, <1>4, <2>1 DEF OpenOrder
<1> QED BY <1>1, <1>2, <1>3, <1>4 DEF Grow

-------------------------------------------------------------------------------
(* The parts of a step *)

LEMMA LeaveFacts ==
  ASSUME NEW d, Leave(d)
  PROVE  /\ pc' = "idle" /\ job' = NoJob /\ row' = None
         /\ disk' \in {d, saved} /\ saved' \in {d, saved}
         /\ faults = {} => disk' = d
BY DEF Leave

LEMMA PayloadFacts ==
  ASSUME Typed, GuardHolds, pc \in {"post", "retry"}
  PROVE  /\ Payload \in job.payloads /\ Payload \in Symbols /\ PayloadKey \in Keys
         /\ SymbolOf(PayloadKey) = Payload /\ job.exec
         /\ Cid(PayloadKey, 0) \in Cids /\ Cid(PayloadKey, runs) \in Cids
<1>1. Payload \in job.payloads /\ job.exec /\ job.hash \in Hashes /\ Payload \in Symbols
  BY DEF Typed, GuardHolds, JobType
<1>2. PayloadKey \in Keys /\ SymbolOf(PayloadKey) = Payload
  BY <1>1 DEF PayloadKey, KeyOf, Keys, SymbolOf
<1> QED BY <1>1, <1>2, LimitsAssumption DEF Typed, Cid, Cids

\* What a POST with the id cid of the key k does.
LEMMA PostFacts ==
  ASSUME Typed, PostsAreCounted, pc \in {"post", "retry"},
         NEW k \in Keys, NEW cid \in Cids, cid.key = k, Post(k, cid)
  PROVE  /\ pc' = "record" /\ UNCHANGED <<faults, day, runs, disk, saved, job>>
         /\ \/ /\ orders' = orders /\ row' = Failed(k)
               /\ late' = late \/ (late' = late \cup {cid} /\ faults # {})
            \/ /\ late' = late
               /\ \E s \in Lives :
                    /\ orders' = Append(orders, [key |-> k, cid |-> cid, status |-> s, day |-> day, overdue |-> FALSE])
                    /\ [key |-> k, cid |-> cid, status |-> s, day |-> day, overdue |-> FALSE] \in OrderType
                    /\ \/ row' = Submitted(k, cid, Len(orders) + 1, s)
                       \/ row' = Failed(k)
                       \/ row' = Submitted(k, cid, None, "submitted")
         /\ row' \in RowType /\ row'.key = k
<1>1. Len(orders) + 1 \in Ids
  <2>1. Len(orders) \in Nat /\ Cardinality(late) \in Nat /\ runs \in Nat /\ runs <= MaxRuns
    BY FS_CardinalityType, LimitsAssumption DEF PostsAreCounted, Typed
  <2>2. Len(orders) + 1 <= runs
    BY <2>1 DEF PostsAreCounted, BeforePost
  <2> QED BY <2>1, <2>2, LimitsAssumption DEF Ids
<1>2. Cid(k, 0) \in Cids
  BY LimitsAssumption DEF Cid, Cids
<1>3. /\ Failed(k) \in RowType /\ Failed(k).key = k
      /\ Submitted(k, cid, None, "submitted") \in RowType /\ Submitted(k, cid, None, "submitted").key = k
      /\ \A s \in Lives : /\ Submitted(k, cid, Len(orders) + 1, s) \in RowType
                          /\ Submitted(k, cid, Len(orders) + 1, s).key = k
  BY <1>1, <1>2 DEF Failed, Submitted, RowType, Ids, Seen
<1>4. \A s \in Lives :
        [key |-> k, cid |-> cid, status |-> s, day |-> day, overdue |-> FALSE] \in OrderType
  BY DEF OrderType, Typed
<1>5. pc' = "record" /\ UNCHANGED <<faults, day, runs, disk, saved, job>>
  BY DEF Post
<1>6. CASE orders' = orders /\ row' = Failed(k) /\ late' = late
  BY <1>3, <1>5, <1>6
<1>7. CASE "late_post" \in faults /\ row' = Failed(k) /\ orders' = orders /\ late' = late \cup {cid}
  BY <1>3, <1>5, <1>7
<1>8. ASSUME NEW s \in Lives,
             orders' = Created(k, cid, s, FALSE), late' = late,
             row' \in {Submitted(k, cid, Len(orders) + 1, s), Failed(k)}
                      \cup (IF "bad_body" \in faults THEN {Submitted(k, cid, None, "submitted")} ELSE {})
      PROVE  /\ late' = late
             /\ orders' = Append(orders, [key |-> k, cid |-> cid, status |-> s, day |-> day, overdue |-> FALSE])
             /\ row' \in {Submitted(k, cid, Len(orders) + 1, s), Failed(k), Submitted(k, cid, None, "submitted")}
  BY <1>8 DEF Created
<1> QED BY <1>3, <1>4, <1>5, <1>6, <1>7, <1>8 DEF Post

\* The ledger rows of one update.
LEMMA UpsertedIsTrue ==
  ASSUME NEW os, NEW k, NEW rec \in {None} \cup LedgerType, LedgerIsTrue(os, k, rec),
         NEW sub \in {None} \cup RowType, sub # None => sub.status # None /\ Reached(os, k, sub.status),
         NEW cid \in Cids, NEW today \in 0..MaxDay
  PROVE  /\ Upserted(rec, sub, cid, today) \in LedgerType
         /\ LedgerIsTrue(os, k, Upserted(rec, sub, cid, today))
<1> DEFINE to  == IF sub = None THEN "planned" ELSE sub.status
           oid == IF sub = None THEN None ELSE sub.oid
           st  == IF rec = None \/ <<rec.status, to>> \in OrderTransitions THEN to ELSE rec.status
<1>1. Upserted(rec, sub, cid, today) = [status |-> st, cid |-> cid, oid |-> oid, day |-> today]
  BY DEF Upserted
<1>2. oid \in Ids /\ to \in {"planned", "submitted"} \cup Lives
  BY DEF RowType, Seen, Ids
<1>3. to # "planned" => Reached(os, k, to)
  OBVIOUS
<1>4. st \in {"planned", "submitted"} \cup Lives
  BY <1>2 DEF LedgerType
<1>5. st # "planned" => Reached(os, k, st)
  BY <1>3 DEF LedgerIsTrue
<1> HIDE DEF st, oid
<1> QED BY <1>1, <1>2, <1>4, <1>5 DEF LedgerType, LedgerIsTrue

LEMMA ReconciledIsTrue ==
  ASSUME NEW os, NEW k, NEW rec \in {None} \cup LedgerType, LedgerIsTrue(os, k, rec),
         NEW e \in {None} \cup EntryType, NEW today, EntryIsTrue(os, today, k, e),
         NEW r \in Seq(ReleaseType), ReleasesAreTrue(os, k, r), NEW now \in 0..MaxDay
  PROVE  /\ Reconciled(rec, e, r, now) \in {None} \cup LedgerType
         /\ LedgerIsTrue(os, k, Reconciled(rec, e, r, now))
<1> DEFINE ev == Evidence(e, r)
           cid == Known(ev.cid, rec.cid)
           oid == Known(ev.oid, rec.oid)
           moves == rec.status # ev.status /\ CanReconcile(rec.status, ev.status)
           st == IF moves THEN ev.status ELSE rec.status
<1>1. CASE rec = None \/ ev = None \/ ev.status = None
  BY <1>1 DEF Reconciled
<1>2. CASE rec # None /\ ev # None /\ ev.status # None
  <2>1. Reconciled(rec, e, r, now) \in {rec, [status |-> st, cid |-> cid, oid |-> oid, day |-> now]}
    BY <1>2 DEF Reconciled
  <2>2. ev.cid \in Cids /\ ev.oid \in Ids /\ ev.status \in Seen /\ Reached(os, k, ev.status)
    <3>1. CASE e # None
      BY <1>2, <3>1 DEF Evidence, EntryIsTrue, EntryType
    <3>2. CASE e = None
      <4>1. Len(r) = 1 /\ ev = r[1]
        BY <1>2, <3>2 DEF Evidence
      <4>2. r[1] \in ReleaseType
        BY <4>1
      <4> HIDE DEF ev
      <4>3. Reached(os, k, ev.status)
        BY <1>2, <4>1 DEF ReleasesAreTrue
      <4> QED BY <4>1, <4>2, <4>3 DEF ReleaseType
    <3> QED BY <3>1, <3>2
  <2> HIDE DEF ev
  <2>3. rec \in LedgerType
    BY <1>2
  <2>4. cid \in Cids /\ oid \in Ids /\ st \in {"planned", "submitted"} \cup Lives
    BY <1>2, <2>2, <2>3 DEF Known, LedgerType, Seen
  <2>5. st # "planned" => Reached(os, k, st)
    BY <1>2, <2>2 DEF LedgerIsTrue
  <2> HIDE DEF cid, oid, st
  <2>6. [status |-> st, cid |-> cid, oid |-> oid, day |-> now] \in LedgerType
    BY <2>4 DEF LedgerType
  <2>7. LedgerIsTrue(os, k, [status |-> st, cid |-> cid, oid |-> oid, day |-> now])
    BY <2>5 DEF LedgerIsTrue
  <2> QED BY <2>1, <2>3, <2>6, <2>7
<1> QED BY <1>1, <1>2

LEMMA NextLedgerIsTrue ==
  ASSUME Typed, DiskIsTrue(orders, day, disk), RowIsTrue(orders, row)
  PROVE  /\ NextLedger \in [Keys -> {None} \cup LedgerType]
         /\ \A k \in Keys : LedgerIsTrue(orders, k, NextLedger[k])
<1> DEFINE P == {KeyOf(job, s) : s \in job.payloads}
           Mid(k) == IF k \in P THEN Upserted(Kept(disk.ledger[k]), Submission(k), CidUsed(k), day)
                     ELSE Kept(disk.ledger[k])
<1>1. NextLedger = [k \in Keys |-> Reconciled(Mid(k), disk.entry[k], disk.released[k], day)]
  BY DEF NextLedger
<1>2. ASSUME NEW k \in Keys
      PROVE  /\ Reconciled(Mid(k), disk.entry[k], disk.released[k], day) \in {None} \cup LedgerType
             /\ LedgerIsTrue(orders, k, Reconciled(Mid(k), disk.entry[k], disk.released[k], day))
  <2>1. Kept(disk.ledger[k]) \in {None} \cup LedgerType /\ LedgerIsTrue(orders, k, Kept(disk.ledger[k]))
    BY DiskFields DEF Typed, DiskIsTrue, Kept, LedgerIsTrue
  <2>2. /\ Submission(k) \in {None} \cup RowType
        /\ Submission(k) # None => Submission(k).status # None /\ Reached(orders, k, Submission(k).status)
    BY DEF Typed, Submission, RowIsTrue, RowType
  <2>3. CidUsed(k) \in Cids /\ day \in 0..MaxDay
    BY LimitsAssumption DEF Typed, CidUsed, Cid, Cids, RowType
  <2>4. Mid(k) \in {None} \cup LedgerType /\ LedgerIsTrue(orders, k, Mid(k))
    BY <2>1, <2>2, <2>3, UpsertedIsTrue
  <2>5. /\ disk.entry[k] \in {None} \cup EntryType /\ EntryIsTrue(orders, day, k, disk.entry[k])
        /\ disk.released[k] \in Seq(ReleaseType) /\ ReleasesAreTrue(orders, k, disk.released[k])
    BY DiskFields DEF Typed, DiskIsTrue
  <2> HIDE DEF Mid
  <2> QED BY <2>3, <2>4, <2>5, ReconciledIsTrue
<1> HIDE DEF Mid
<1> QED BY <1>1, <1>2

-------------------------------------------------------------------------------
(* Types *)

LEMMA DiskUpdates ==
  ASSUME NEW d \in Disks
  PROVE  /\ \A en \in [Keys -> {None} \cup EntryType], re \in [Keys -> Seq(ReleaseType)] :
              [d EXCEPT !.entry = en, !.released = re] \in Disks
         /\ \A k \in Keys, e \in EntryType : [d EXCEPT !.entry[k] = e] \in Disks
         /\ \A le \in [Keys -> {None} \cup LedgerType] : [d EXCEPT !.ledger = le] \in Disks
         /\ \A m, f \in Modes : [d EXCEPT !.lastRun = m, !.lastForce = f] \in Disks
BY DEF Disks

LEMMA TypedInit ==
  ASSUME Init
  PROVE  Typed
<1>1. EmptyDisk \in Disks
  BY DEF EmptyDisk, Disks, Modes
<1>2. NoJob \in JobType
  BY DEF NoJob, JobType
<1> QED BY <1>1, <1>2, LimitsAssumption DEF Init, Typed

\* What a step that leaves the run where it is may change.
Elsewhere == UNCHANGED <<faults, disk, saved, pc, job, row>>

LEMMA TypedElsewhere ==
  ASSUME Typed, Elsewhere, day' \in 0..MaxDay, runs' \in 0..MaxRuns, orders' \in Seq(OrderType),
         late' \subseteq Cids
  PROVE  Typed'
BY DEF Typed, Elsewhere

LEMMA TypedLeave ==
  ASSUME Typed, NEW d \in Disks, Leave(d), UNCHANGED <<faults, day, runs, orders, late>>
  PROVE  Typed'
<1>1. NoJob \in JobType
  BY DEF NoJob, JobType
<1>2. disk' \in Disks /\ saved' \in Disks
  BY LeaveFacts DEF Typed
<1> QED BY <1>1, <1>2, LeaveFacts DEF Typed, BeforePost

\* The two phases of a run.
LEMMA Phases ==
  ASSUME Typed, PreflightPhase \/ FinalPhase
  PROVE  \E persist \in BOOLEAN, next \in {"gate", "submit"} :
           /\ Phase(persist, next)
           /\ \/ pc = "preflight" /\ persist = FALSE /\ next = "gate"
              \/ pc = "final" /\ persist = job.exec /\ next = "submit"
<1>1. CASE PreflightPhase
  BY <1>1, Zenon DEF PreflightPhase
<1>2. CASE FinalPhase
  <2>1. job.exec \in BOOLEAN
    BY DEF Typed, JobType
  <2> QED BY <1>2, <2>1, Zenon DEF FinalPhase
<1> QED BY <1>1, <1>2

LEMMA TypedPhase ==
  ASSUME Typed, PostsAreCounted, NEW persist \in BOOLEAN, NEW next,
         pc \in {"preflight", "final"}, next \in {"gate", "submit"}, Phase(persist, next)
  PROVE  Typed'
<1>1. PICK en \in [Keys -> {None} \cup EntryType], re \in [Keys -> Seq(ReleaseType)],
           ps \in SUBSET job.payloads : PhaseMakes(persist, next, en, re, ps)
  BY PhaseKeys
<1>2. disk' \in Disks
  BY <1>1, DiskUpdates DEF Typed, PhaseMakes
<1>3. job' \in JobType /\ job'.hash = job.hash
  BY <1>1 DEF Typed, JobType, PhaseMakes
<1> QED BY <1>1, <1>2, <1>3 DEF Typed, BeforePost, PhaseMakes

LEMMA TypedStep ==
  ASSUME RunInv, [Next]_vars
  PROVE  Typed'
<1> USE DEF RunInv
<1>1. CASE UNCHANGED vars
  BY <1>1 DEF vars, Typed
<1>2. CASE Tick
  <2>1. day' \in 0..MaxDay
    BY <1>2, LimitsAssumption DEF Tick, Typed
  <2> QED BY <1>2, <2>1, TypedElsewhere DEF Tick, Elsewhere, Typed
<1>3. CASE OrderMoves
  <2>1. PICK n \in DOMAIN orders, s \in Lives :
          StatusRank[orders[n].status] < StatusRank[s] /\ orders' = [orders EXCEPT ![n].status = s]
    BY <1>3 DEF OrderMoves
  <2>2. orders' \in Seq(OrderType)
    BY <2>1, OrderFacts, MoveGrows DEF Typed
  <2> QED BY <1>3, <2>2, TypedElsewhere DEF OrderMoves, Elsewhere, Typed
<1>4. CASE LatePostArrives
  <2>1. PICK p \in late, s \in Lives :
          /\ late' = late \ {p}
          /\ orders' = IF TakenCid(p) THEN orders ELSE Created(p.key, p, s, TRUE)
    BY <1>4 DEF LatePostArrives
  <2>2. [key |-> p.key, cid |-> p, status |-> s, day |-> day, overdue |-> TRUE] \in OrderType
    BY DEF Typed, OrderType, Cids
  <2>3. orders' \in Seq(OrderType)
    BY <2>1, <2>2, AppendGrows DEF Typed, Created
  <2> QED BY <1>4, <2>1, <2>3, TypedElsewhere DEF LatePostArrives, Elsewhere, Typed
<1>5. CASE Die
  BY <1>5, TypedLeave DEF Die, Typed
<1>6. CASE StartRun
  <2>1. job' \in JobType /\ job'.hash \in Hashes
    BY <1>6 DEF StartRun, JobType
  <2>2. runs' \in 0..MaxRuns
    BY <1>6, LimitsAssumption DEF StartRun, Typed
  <2> QED BY <1>6, <2>1, <2>2 DEF StartRun, Typed, BeforePost
<1>7. CASE PreflightPhase \/ FinalPhase
  <2>1. PICK persist \in BOOLEAN, next \in {"gate", "submit"} :
          Phase(persist, next) /\ pc \in {"preflight", "final"}
    BY <1>7, Phases
  <2> QED BY <2>1, TypedPhase
<1>8. CASE Gate
  <2>1. job' \in JobType /\ job'.hash = job.hash
    BY <1>8 DEF Gate, Typed, JobType
  <2> QED BY <1>8, <2>1 DEF Gate, Typed, BeforePost
<1>10. CASE SubmitSkips
  BY <1>10 DEF SubmitSkips, Typed, BeforePost
<1>11. CASE SubmitAllowed
  BY <1>11 DEF SubmitAllowed, Typed, BeforePost
<1>12. CASE DuplicateId
  BY <1>12 DEF DuplicateId, Typed, BeforePost
<1>13. ASSUME NEW cid \in Cids, cid.key = PayloadKey, pc \in {"post", "retry"}, Post(PayloadKey, cid)
       PROVE  Typed'
  <2>1. /\ PayloadKey \in Keys /\ pc' = "record" /\ UNCHANGED <<faults, day, runs, disk, saved, job>>
        /\ row' \in RowType /\ late' \subseteq Cids
    BY <1>13, PayloadFacts, PostFacts DEF Typed
  <2>2. orders' = orders \/ \E o \in OrderType : orders' = Append(orders, o)
    BY <1>13, <2>1, PostFacts
  <2>3. orders' \in Seq(OrderType)
    BY <2>2, AppendGrows DEF Typed
  <2> QED BY <1>13, <2>1, <2>3, NoneAssumption DEF Typed, BeforePost
<1>14. CASE FirstPost
  <2>1. Cid(PayloadKey, 0) \in Cids /\ Cid(PayloadKey, 0).key = PayloadKey
    BY <1>14, PayloadFacts DEF FirstPost, Cid
  <2> QED BY <1>13, <1>14, <2>1 DEF FirstPost
<1>15. CASE RetryPost
  <2>1. Cid(PayloadKey, runs) \in Cids /\ Cid(PayloadKey, runs).key = PayloadKey
    BY <1>15, PayloadFacts DEF RetryPost, Cid
  <2> QED BY <1>13, <1>15, <2>1 DEF RetryPost
<1>16. CASE Record
  <2>1. row \in RowType
    BY <1>16 DEF Record, Typed
  <2>2. row.key \in Keys /\ Entry(row.cid, row.oid, row.status) \in EntryType
    BY <2>1, EntryFacts DEF RowType
  <2>3. disk' \in Disks
    BY <1>16, <2>2, DiskUpdates DEF Record, Typed
  <2> QED BY <1>16, <2>3 DEF Record, Typed, BeforePost
<1>17. CASE UpdateLedger
  <2>1. disk' \in Disks
    BY <1>17, NextLedgerIsTrue, DiskUpdates DEF UpdateLedger, Typed
  <2> QED BY <1>17, <2>1 DEF UpdateLedger, Typed, BeforePost
<1>18. CASE Mark
  <2>1. Mode \in Modes /\ disk.lastForce \in Modes /\ disk \in Disks
    BY <1>18 DEF Mark, Mode, Modes, Typed, JobType, Disks
  <2>2. PICK d \in Disks : Leave(d)
    BY <1>18, <2>1, DiskUpdates DEF Mark
  <2> QED BY <1>18, <2>2, TypedLeave DEF Mark
<1> QED BY <1>1, <1>2, <1>3, <1>4, <1>5, <1>6, <1>7, <1>8, <1>10, <1>11, <1>12, <1>14, <1>15,
           <1>16, <1>17, <1>18 DEF Next

-------------------------------------------------------------------------------
(* Posts are counted *)

LEMMA CountFacts ==
  ASSUME Typed, PostsAreCounted
  PROVE  /\ Len(orders) \in Nat /\ Cardinality(late) \in Nat /\ runs \in Nat
         /\ \A p \in late : p.nonce \in Nat
         /\ \A n \in 1..Len(orders) : orders[n].cid.nonce \in Nat
<1>1. \A c \in Cids : c.nonce \in Nat
  BY LimitsAssumption DEF Cids
<1> QED BY <1>1, OrderFacts, FS_CardinalityType, LimitsAssumption DEF Typed, PostsAreCounted

LEMMA CountedQuietly ==
  ASSUME Typed, PostsAreCounted, orders' \in Seq(OrderType), Len(orders') = Len(orders), late' = late,
         \A n \in 1..Len(orders) : orders'[n].key = orders[n].key /\ orders'[n].cid = orders[n].cid,
         \/ runs' = runs /\ (pc' \in BeforePost => pc \in BeforePost)
         \/ runs' = runs + 1 /\ pc \notin BeforePost
  PROVE  PostsAreCounted'
<1>1. IsFiniteSet(late') /\ (Len(orders) + Cardinality(late) <= IF pc' \in BeforePost THEN runs' - 1 ELSE runs')
  BY CountFacts DEF PostsAreCounted
<1>2. \A n \in 1..Len(orders) : orders'[n].cid.nonce <= runs' /\ (pc' \in BeforePost => orders'[n].cid.nonce < runs')
  BY CountFacts DEF PostsAreCounted
<1>3. \A p \in late : p.nonce <= runs' /\ (pc' \in BeforePost => p.nonce < runs')
  BY CountFacts DEF PostsAreCounted
<1>4. \A m, n \in 1..Len(orders) : orders'[m].cid = orders'[n].cid => m = n
  BY DEF PostsAreCounted
<1>5. \A n \in 1..Len(orders) : orders'[n].cid.key = orders'[n].key
  BY DEF PostsAreCounted
<1> QED BY <1>1, <1>2, <1>3, <1>4, <1>5 DEF PostsAreCounted

\* One more order, with an id the broker did not know.
LEMMA CountedAppend ==
  ASSUME Typed, PostsAreCounted, NEW o \in OrderType, orders' = Append(orders, o), runs' = runs,
         o.cid.key = o.key, ~TakenCid(o.cid), o.cid.nonce <= runs,
         pc' \in BeforePost => pc \in BeforePost /\ o.cid.nonce < runs,
         late' \subseteq late,
         Len(orders) + 1 + Cardinality(late') <= IF pc' \in BeforePost THEN runs - 1 ELSE runs
  PROVE  PostsAreCounted'
<1>1. /\ Len(orders') = Len(orders) + 1 /\ \A n \in 1..Len(orders) : orders'[n] = orders[n]
      /\ orders'[Len(orders) + 1] = o /\ orders \in Seq(OrderType) /\ DOMAIN orders = 1..Len(orders)
  BY AppendGrows, OrderFacts DEF Typed
<1>2. \A n \in 1..Len(orders') : n \in 1..Len(orders) \/ n = Len(orders) + 1
  BY <1>1, CountFacts
<1>3. \A n \in 1..Len(orders') : orders'[n].cid.nonce <= runs' /\ (pc' \in BeforePost => orders'[n].cid.nonce < runs')
  BY <1>1, <1>2 DEF PostsAreCounted
<1>4. \A p \in late' : p.nonce <= runs' /\ (pc' \in BeforePost => p.nonce < runs')
  BY DEF PostsAreCounted
<1>5. \A n \in 1..Len(orders') : orders'[n].cid.key = orders'[n].key
  BY <1>1, <1>2 DEF PostsAreCounted
<1>6. \A m, n \in 1..Len(orders') : orders'[m].cid = orders'[n].cid => m = n
  BY <1>1, <1>2 DEF PostsAreCounted, TakenCid
<1>7. IsFiniteSet(late')
  BY FS_Subset DEF PostsAreCounted
<1>8. Len(orders') + Cardinality(late') <= IF pc' \in BeforePost THEN runs' - 1 ELSE runs'
  BY <1>1
<1> QED BY <1>3, <1>4, <1>5, <1>6, <1>7, <1>8 DEF PostsAreCounted

LEMMA CountedPost ==
  ASSUME RunInv, NEW cid \in Cids, cid.key = PayloadKey, ~TakenCid(cid), cid.nonce <= runs,
         pc \in {"post", "retry"}, Post(PayloadKey, cid)
  PROVE  PostsAreCounted'
<1> USE DEF RunInv
<1>1. Len(orders) + 1 + Cardinality(late) <= runs
  BY CountFacts DEF PostsAreCounted, BeforePost
<1>2. PayloadKey \in Keys
  BY PayloadFacts
<1>3. pc' = "record" /\ runs' = runs /\ "record" \notin BeforePost
  BY <1>2, PostFacts DEF BeforePost
<1>4. CASE orders' = orders /\ late' = late
  BY <1>3, <1>4, CountedQuietly DEF Typed
<1>5. CASE orders' = orders /\ late' = late \cup {cid}
  <2>1. IsFiniteSet(late') /\ Cardinality(late') <= Cardinality(late) + 1 /\ Cardinality(late') \in Nat
    <3>1. IsFiniteSet(late) /\ Cardinality(late) \in Nat
      BY CountFacts DEF PostsAreCounted
    <3>2. /\ IsFiniteSet(late \cup {cid})
          /\ Cardinality(late \cup {cid}) = IF cid \in late THEN Cardinality(late) ELSE Cardinality(late) + 1
      BY <3>1, FS_AddElement
    <3> QED BY <1>5, <3>1, <3>2
  <2>2. Len(orders') + Cardinality(late') <= runs'
    BY <1>1, <1>3, <1>5, <2>1, CountFacts
  <2> QED BY <1>3, <1>5, <2>1, <2>2 DEF PostsAreCounted
<1>6. CASE late' = late /\ \E o \in OrderType : /\ o.key = PayloadKey /\ o.cid = cid
                                                /\ orders' = Append(orders, o)
  BY <1>1, <1>3, <1>6, CountedAppend
<1>7. \/ orders' = orders /\ late' \in {late, late \cup {cid}}
      \/ late' = late /\ \E o \in OrderType : /\ o.key = PayloadKey /\ o.cid = cid
                                              /\ orders' = Append(orders, o)
  <2>1. CASE orders' = orders
    BY <1>2, <2>1, PostFacts
  <2>2. CASE orders' # orders
    <3>1. late' = late /\ \E s \in Lives :
            /\ orders' = Append(orders, [key |-> PayloadKey, cid |-> cid, status |-> s, day |-> day, overdue |-> FALSE])
            /\ [key |-> PayloadKey, cid |-> cid, status |-> s, day |-> day, overdue |-> FALSE] \in OrderType
      BY <1>2, <2>2, PostFacts
    <3> QED BY <3>1
  <2> QED BY <2>1, <2>2
<1> QED BY <1>4, <1>5, <1>6, <1>7

LEMMA CountedStep ==
  ASSUME RunInv, [Next]_vars
  PROVE  PostsAreCounted'
<1> USE DEF RunInv
<1>1. orders' \in Seq(OrderType) /\ DOMAIN orders = 1..Len(orders)
  BY TypedStep, OrderFacts DEF Typed
<1>2. ASSUME orders' = orders, late' = late,
             \/ runs' = runs /\ (pc' \in BeforePost => pc \in BeforePost)
             \/ runs' = runs + 1 /\ pc \notin BeforePost
      PROVE  PostsAreCounted'
  BY <1>1, <1>2, CountedQuietly
<1>3. CASE UNCHANGED vars \/ Tick
  BY <1>2, <1>3 DEF vars, Tick
<1>4. CASE OrderMoves
  <2>1. PICK n \in 1..Len(orders), s \in Lives :
          StatusRank[orders[n].status] < StatusRank[s] /\ orders' = [orders EXCEPT ![n].status = s]
    BY <1>1, <1>4 DEF OrderMoves
  <2>2. /\ Len(orders') = Len(orders)
        /\ \A m \in 1..Len(orders) : orders'[m].key = orders[m].key /\ orders'[m].cid = orders[m].cid
    BY <2>1, MoveGrows DEF Typed
  <2> QED BY <1>1, <1>4, <2>2, CountedQuietly DEF OrderMoves
<1>5. CASE LatePostArrives
  <2>1. PICK p \in late, s \in Lives :
          /\ late' = late \ {p}
          /\ orders' = IF TakenCid(p) THEN orders ELSE Created(p.key, p, s, TRUE)
    BY <1>5 DEF LatePostArrives
  <2>2. runs' = runs /\ pc' = pc
    BY <1>5 DEF LatePostArrives
  <2>3. IsFiniteSet(late') /\ Cardinality(late') = Cardinality(late) - 1 /\ Cardinality(late') \in Nat
    BY <2>1, FS_RemoveElement, FS_CardinalityType DEF PostsAreCounted
  <2>4. CASE TakenCid(p)
    <3>1. orders' = orders
      BY <2>1, <2>4
    <3>2. Len(orders') + Cardinality(late') <= IF pc' \in BeforePost THEN runs' - 1 ELSE runs'
      BY <2>2, <2>3, <3>1, CountFacts DEF PostsAreCounted
    <3> QED BY <2>1, <2>2, <2>3, <3>1, <3>2 DEF PostsAreCounted
  <2>5. CASE ~TakenCid(p)
    <3> DEFINE o == [key |-> p.key, cid |-> p, status |-> s, day |-> day, overdue |-> TRUE]
    <3>1. o \in OrderType /\ orders' = Append(orders, o) /\ o.cid = p /\ o.key = p.key
      BY <2>1, <2>5 DEF Typed, OrderType, Cids, Created
    <3> HIDE DEF o
    <3>2. Len(orders) + 1 + Cardinality(late') <= IF pc' \in BeforePost THEN runs - 1 ELSE runs
      BY <2>2, <2>3, CountFacts DEF PostsAreCounted
    <3>3. p.nonce <= runs /\ (pc' \in BeforePost => pc \in BeforePost /\ p.nonce < runs)
      BY <2>2 DEF PostsAreCounted
    <3> QED BY <2>1, <2>2, <2>5, <3>1, <3>2, <3>3, CountedAppend
  <2> QED BY <2>4, <2>5
<1>6. CASE Die \/ Mark
  <2>1. orders' = orders /\ late' = late /\ runs' = runs /\ pc' = "idle"
    BY <1>6 DEF Die, Mark, Leave
  <2> QED BY <1>2, <2>1 DEF BeforePost
<1>7. CASE StartRun
  BY <1>2, <1>7 DEF StartRun, BeforePost
<1>8. CASE PreflightPhase \/ FinalPhase
  <2>1. PICK persist \in BOOLEAN, next \in {"gate", "submit"} :
          Phase(persist, next) /\ pc \in {"preflight", "final"}
    BY <1>8, Phases
  <2>2. orders' = orders /\ late' = late /\ runs' = runs
    BY <2>1, PhaseKeys DEF PhaseMakes
  <2> QED BY <1>2, <2>1, <2>2 DEF BeforePost
<1>9. CASE Gate \/ SubmitSkips \/ SubmitAllowed \/ DuplicateId \/ Record \/ UpdateLedger
  BY <1>2, <1>9 DEF Gate, SubmitSkips, SubmitAllowed, DuplicateId, Record, UpdateLedger, BeforePost
<1>10. CASE FirstPost
  <2>1. /\ Cid(PayloadKey, 0) \in Cids /\ Cid(PayloadKey, 0).key = PayloadKey
        /\ Cid(PayloadKey, 0).nonce <= runs
    BY <1>10, PayloadFacts, CountFacts DEF FirstPost, Cid
  <2> QED BY <1>10, <2>1, CountedPost DEF FirstPost
<1>11. CASE RetryPost
  <2>1. /\ Cid(PayloadKey, runs) \in Cids /\ Cid(PayloadKey, runs).key = PayloadKey
        /\ Cid(PayloadKey, runs).nonce = runs
    BY <1>11, PayloadFacts DEF RetryPost, Cid
  <2>2. ~TakenCid(Cid(PayloadKey, runs))
    BY <1>1, <1>11, <2>1, CountFacts DEF RetryPost, TakenCid, PostsAreCounted, BeforePost
  <2> QED BY <1>11, <2>1, <2>2, CountedPost, CountFacts DEF RetryPost
<1> QED BY <1>3, <1>4, <1>5, <1>6, <1>7, <1>8, <1>9, <1>10, <1>11 DEF Next

-------------------------------------------------------------------------------
(* The files follow the broker *)

\* Every step keeps the orders and moves them on.
LEMMA OrdersGrow ==
  ASSUME RunInv, [Next]_vars
  PROVE  Grow(orders, orders') /\ orders' \in Seq(OrderType) /\ day' \in Nat /\ day <= day'
<1> USE DEF RunInv
<1>1. orders' \in Seq(OrderType) /\ DOMAIN orders = 1..Len(orders) /\ Len(orders) \in Nat /\ day \in Nat /\ day' \in Nat
  BY TypedStep, OrderFacts, LimitsAssumption DEF Typed
<1>2. Grow(orders, orders)
  BY <1>1 DEF Grow
<1>3. CASE UNCHANGED vars \/ Tick
  BY <1>1, <1>2, <1>3 DEF vars, Tick
<1>4. CASE OrderMoves
  <2>1. PICK n \in 1..Len(orders), s \in Lives :
          StatusRank[orders[n].status] < StatusRank[s] /\ orders' = [orders EXCEPT ![n].status = s]
    BY <1>1, <1>4 DEF OrderMoves
  <2>2. Grow(orders, orders')
    BY <2>1, MoveGrows DEF Typed
  <2> QED BY <1>1, <1>4, <2>2 DEF OrderMoves
<1>5. CASE LatePostArrives
  <2>1. PICK p \in late, s \in Lives : orders' = IF TakenCid(p) THEN orders ELSE Created(p.key, p, s, TRUE)
    BY <1>5 DEF LatePostArrives
  <2>2. [key |-> p.key, cid |-> p, status |-> s, day |-> day, overdue |-> TRUE] \in OrderType
    BY DEF Typed, OrderType, Cids
  <2>3. Grow(orders, orders')
    BY <1>2, <2>1, <2>2, AppendGrows DEF Typed, Created
  <2>4. day' = day
    BY <1>5 DEF LatePostArrives
  <2> QED BY <1>1, <2>3, <2>4
<1>6. CASE Die \/ StartRun \/ Gate \/ SubmitSkips \/ SubmitAllowed \/ DuplicateId \/ Record \/ UpdateLedger \/ Mark
  BY <1>1, <1>2, <1>6 DEF Die, StartRun, Gate, SubmitSkips, SubmitAllowed, DuplicateId, Record, UpdateLedger, Mark
<1>7. CASE PreflightPhase \/ FinalPhase
  <2>1. PICK persist \in BOOLEAN, next \in {"gate", "submit"} :
          Phase(persist, next) /\ pc \in {"preflight", "final"}
    BY <1>7, Phases
  <2>2. orders' = orders /\ day' = day
    BY <2>1, PhaseKeys DEF PhaseMakes
  <2> QED BY <1>1, <1>2, <2>2
<1>8. ASSUME NEW cid \in Cids, cid.key = PayloadKey, pc \in {"post", "retry"}, Post(PayloadKey, cid)
      PROVE  Grow(orders, orders') /\ day' = day
  <2>1. PayloadKey \in Keys
    BY <1>8, PayloadFacts
  <2>2. day' = day /\ (orders' = orders \/ \E o \in OrderType : orders' = Append(orders, o))
    BY <1>8, <2>1, PostFacts
  <2> QED BY <1>2, <2>2, AppendGrows DEF Typed
<1>9. CASE FirstPost \/ RetryPost
  <2>1. \E cid \in Cids : cid.key = PayloadKey /\ pc \in {"post", "retry"} /\ Post(PayloadKey, cid)
    BY <1>9, PayloadFacts DEF FirstPost, RetryPost, Cid
  <2> QED BY <1>1, <1>8, <2>1
<1> QED BY <1>3, <1>4, <1>5, <1>6, <1>7, <1>9 DEF Next

\* A phase writes what the broker said.
LEMMA PhaseIsTrue ==
  ASSUME Typed, PostsAreCounted, NEW k \in Keys, NEW persist \in BOOLEAN, NEW e, NEW r,
         KeyStep(k, persist, e, r),
         EntryIsTrue(orders, day, k, disk.entry[k]), ReleasesAreTrue(orders, k, disk.released[k])
  PROVE  EntryIsTrue(orders, day, k, e) /\ ReleasesAreTrue(orders, k, r)
<1> DEFINE was == disk.entry[k]
           rel == disk.released[k]
<1>0. was \in {None} \cup EntryType /\ rel \in Seq(ReleaseType) /\ day \in Nat
  BY DiskFields, LimitsAssumption DEF Typed
<1>1. Reserved(k, persist, e, r) => EntryIsTrue(orders, day, k, e)
  BY <1>0 DEF Reserved, EntryIsTrue, Entry, Cid, Names
<1>2. EntryIsTrue(orders, day, k, None)
  BY DEF EntryIsTrue
<1>3. ASSUME NEW x \in EntryType, EntryIsTrue(orders, day, k, x)
      PROVE  ReleasesAreTrue(orders, k, Append(rel, Release(x, x.oid, x.status)))
  <2> DEFINE y == Release(x, x.oid, x.status)
  <2>1. y.status = x.status /\ x # None
    BY NoneAssumption DEF Release
  <2> HIDE DEF y
  <2>2. y.status # None => Reached(orders, k, y.status)
    BY <1>3, <2>1 DEF EntryIsTrue
  <2>3. /\ Len(Append(rel, y)) = Len(rel) + 1 /\ Len(rel) \in Nat
        /\ \A i \in 1..Len(rel) : Append(rel, y)[i] = rel[i]
        /\ Append(rel, y)[Len(rel) + 1] = y
    BY <1>0
  <2>4. ReleasesAreTrue(orders, k, Append(rel, y))
    BY <2>2, <2>3 DEF ReleasesAreTrue
  <2> QED BY <2>4 DEF y
<1>4. ASSUME NEW a, was # None, Answer(was, a)
      PROVE  a.entry \in EntryType /\ EntryIsTrue(orders, day, k, a.entry)
  <2>1. was \in EntryType /\ a.entry \in EntryType
    BY <1>0, <1>4, AnswerType
  <2>2. CASE a.entry = was
    BY <2>1, <2>2
  <2>3. ASSUME NEW n \in 1..Len(orders), orders[n].cid = was.cid,
               a.entry = [was EXCEPT !.oid = n, !.status = orders[n].status]
        PROVE  EntryIsTrue(orders, day, k, a.entry)
    <3>1. /\ a.entry.cid = was.cid /\ a.entry.oid = n /\ a.entry.status = orders[n].status
          /\ a.entry.day = was.day
      BY <2>1, <2>3 DEF EntryType
    <3>2. was.cid.key = k /\ was.day <= day
      BY <1>4 DEF EntryIsTrue
    <3>3. orders[n].key = k /\ orders[n].status # None
      BY <2>3, <3>2, OrderFacts, RankFacts DEF PostsAreCounted, Typed
    <3>4. Names(orders, k, a.entry)
      BY <2>3, <3>1, <3>3 DEF Names
    <3>5. Reached(orders, k, a.entry.status)
      BY <2>3, <3>1, <3>3 DEF Reached
    <3> QED BY <3>1, <3>2, <3>4, <3>5 DEF EntryIsTrue
  <2> QED BY <1>4, <2>1, <2>2, <2>3 DEF Answer
<1>5. CASE e = was /\ r = rel
  BY <1>5
<1>6. CASE was = None /\ r = rel /\ Reserved(k, persist, e, r)
  BY <1>1, <1>6
<1>7. CASE Pruned(k) /\ r = Append(rel, Expired(k)) /\ (e = None \/ Reserved(k, persist, e, r))
  <2>1. was \in EntryType /\ Expired(k) = Release(was, was.oid, was.status)
    BY <1>0, <1>7 DEF Pruned, Expired
  <2> QED BY <1>1, <1>2, <1>3, <1>7, <2>1
<1>8. CASE /\ was # None /\ r = Append(rel, Release(was, was.oid, was.status))
           /\ e = None \/ Reserved(k, persist, e, r)
  BY <1>0, <1>1, <1>2, <1>3, <1>8
<1>9. ASSUME was # None, NEW a, Answer(was, a),
             \/ e = a.entry /\ r = rel
             \/ /\ a.release /\ (e = None \/ Reserved(k, persist, e, r))
                /\ r = Append(rel, Release(a.entry, a.entry.oid, a.entry.status))
      PROVE  EntryIsTrue(orders, day, k, e) /\ ReleasesAreTrue(orders, k, r)
  <2>1. a.entry \in EntryType /\ EntryIsTrue(orders, day, k, a.entry)
    BY <1>4, <1>9
  <2> QED BY <1>1, <1>2, <1>3, <1>9, <2>1
<1> QED BY <1>5, <1>6, <1>7, <1>8, <1>9 DEF KeyStep

LEMMA NoRowIsTrue == \A os : RowIsTrue(os, None)
BY DEF RowIsTrue

LEMMA RecordIsTrue ==
  ASSUME Typed, DiskIsTrue(orders, day, disk), RowIsTrue(orders, row), Record
  PROVE  DiskIsTrue(orders, day, disk')
<1>1. row # None /\ row \in RowType /\ row.key \in Keys /\ row.cid \in Cids
  BY DEF Record, Typed, RowType
<1> DEFINE x == Entry(row.cid, row.oid, row.status)
<1>2. x.cid = row.cid /\ x.oid = row.oid /\ x.status = row.status /\ x.day = day
  BY DEF Entry
<1>3. EntryIsTrue(orders, day, row.key, x)
  <2>1. row.status # None => Reached(orders, row.key, row.status)
    BY <1>1 DEF RowIsTrue, RowType
  <2>2. Names(orders, row.key, x) /\ x.cid.key = row.key
    BY <1>1, <1>2 DEF RowIsTrue, Names
  <2>3. day \in Nat
    BY LimitsAssumption DEF Typed
  <2> HIDE DEF x
  <2> QED BY <1>2, <2>1, <2>2, <2>3 DEF EntryIsTrue
<1> HIDE DEF x
<1>4. CASE disk' = disk
  BY <1>4
<1>5. CASE disk' = [disk EXCEPT !.entry[row.key] = x]
  <2>1. disk.entry \in [Keys -> {None} \cup EntryType] /\ disk \in Disks
    BY DEF Typed, Disks
  <2>2. /\ disk'.released = disk.released /\ disk'.ledger = disk.ledger
        /\ \A k \in Keys : disk'.entry[k] = IF k = row.key THEN x ELSE disk.entry[k]
    BY <1>1, <1>5, <2>1 DEF Disks
  <2> QED BY <1>3, <2>2 DEF DiskIsTrue
<1> QED BY <1>4, <1>5 DEF Record, x

LEMMA RowAfterPost ==
  ASSUME RunInv, NEW cid \in Cids, cid.key = PayloadKey, pc \in {"post", "retry"}, Post(PayloadKey, cid)
  PROVE  RowIsTrue(orders', row')
<1> USE DEF RunInv
<1> DEFINE k == PayloadKey
<1>1. k \in Keys
  BY PayloadFacts
<1>2. Failed(k).submitted = FALSE /\ Failed(k).oid = None /\ Failed(k).status = None
      /\ Failed(k).key = k /\ Failed(k).cid.key = k
  BY DEF Failed, Cid
<1>3. CASE row' = Failed(k)
  <2> HIDE DEF k
  <2> QED BY <1>2, <1>3 DEF RowIsTrue, Names
<1>4. ASSUME NEW s \in Lives,
             orders' = Append(orders, [key |-> k, cid |-> cid, status |-> s, day |-> day, overdue |-> FALSE]),
             [key |-> k, cid |-> cid, status |-> s, day |-> day, overdue |-> FALSE] \in OrderType,
             row' \in {Submitted(k, cid, Len(orders) + 1, s), Submitted(k, cid, None, "submitted")}
      PROVE  RowIsTrue(orders', row')
  <2> DEFINE n == Len(orders) + 1
  <2>1. Len(orders') = n /\ n \in 1..Len(orders') /\ orders'[n].key = k /\ orders'[n].cid = cid
        /\ orders'[n].status = s
    BY <1>4, AppendGrows, OrderFacts DEF Typed
  <2>2. Reached(orders', k, s) /\ Reached(orders', k, "submitted")
    BY <2>1, RankFacts DEF Reached
  <2>3. s # None /\ "submitted" # None
    BY RankFacts, NoneAssumption DEF OrderLifecycleStatus
  <2> HIDE DEF n, k
  <2>4. CASE row' = Submitted(k, cid, n, s)
    <3>1. row'.key = k /\ row'.cid = cid /\ row'.oid = n /\ row'.status = s /\ row'.submitted = TRUE
      BY <2>4 DEF Submitted
    <3> QED BY <2>1, <2>2, <2>3, <3>1 DEF RowIsTrue, Names, k
  <2>5. CASE row' = Submitted(k, cid, None, "submitted")
    <3>1. row'.key = k /\ row'.cid = cid /\ row'.oid = None /\ row'.status = "submitted" /\ row'.submitted = TRUE
      BY <2>5 DEF Submitted
    <3> QED BY <2>2, <2>3, <3>1 DEF RowIsTrue, Names, k
  <2> QED BY <1>4, <2>4, <2>5 DEF n
<1>5. row' = Failed(k) \/
      \E s \in Lives :
        /\ orders' = Append(orders, [key |-> k, cid |-> cid, status |-> s, day |-> day, overdue |-> FALSE])
        /\ [key |-> k, cid |-> cid, status |-> s, day |-> day, overdue |-> FALSE] \in OrderType
        /\ row' \in {Submitted(k, cid, Len(orders) + 1, s), Submitted(k, cid, None, "submitted")}
  <2>1. CASE row' = Failed(k)
    BY <2>1
  <2>2. CASE row' # Failed(k)
    <3>1. \E s \in Lives :
            /\ orders' = Append(orders, [key |-> k, cid |-> cid, status |-> s, day |-> day, overdue |-> FALSE])
            /\ [key |-> k, cid |-> cid, status |-> s, day |-> day, overdue |-> FALSE] \in OrderType
            /\ \/ row' = Submitted(k, cid, Len(orders) + 1, s)
               \/ row' = Failed(k)
               \/ row' = Submitted(k, cid, None, "submitted")
      BY <1>1, <2>2, PostFacts
    <3> QED BY <2>2, <3>1
  <2> QED BY <2>1, <2>2
<1> HIDE DEF k
<1> QED BY <1>3, <1>4, <1>5

LEMMA TruthStep ==
  ASSUME RunInv, [Next]_vars
  PROVE  /\ DiskIsTrue(orders', day', disk') /\ DiskIsTrue(orders', day', saved')
         /\ RowIsTrue(orders', row')
<1> USE DEF RunInv
<1>1. /\ Grow(orders, orders') /\ orders \in Seq(OrderType) /\ orders' \in Seq(OrderType)
      /\ day \in Nat /\ day' \in Nat /\ day <= day' /\ disk \in Disks /\ saved \in Disks
      /\ row \in {None} \cup RowType
  BY OrdersGrow, LimitsAssumption DEF Typed
<1>2. DiskIsTrue(orders', day', disk) /\ DiskIsTrue(orders', day', saved) /\ RowIsTrue(orders', row)
  BY <1>1, TruthIsKept, RowTruthIsKept
<1>3. ASSUME NEW d, DiskIsTrue(orders', day', d), Leave(d)
      PROVE  /\ DiskIsTrue(orders', day', disk') /\ DiskIsTrue(orders', day', saved')
             /\ RowIsTrue(orders', row')
  BY <1>2, <1>3, LeaveFacts, NoRowIsTrue
<1>4. CASE UNCHANGED vars \/ Tick \/ OrderMoves \/ LatePostArrives \/ StartRun \/ Gate \/ SubmitSkips
           \/ SubmitAllowed \/ DuplicateId
  <2>1. disk' = disk /\ saved' = saved /\ row' = row
    BY <1>4 DEF vars, Tick, OrderMoves, LatePostArrives, StartRun, Gate, SubmitSkips, SubmitAllowed,
                DuplicateId
  <2> QED BY <1>2, <2>1
<1>5. CASE Die
  BY <1>2, <1>3, <1>5 DEF Die
<1>6. CASE PreflightPhase \/ FinalPhase
  <2>1. PICK persist \in BOOLEAN, next \in {"gate", "submit"} :
          Phase(persist, next) /\ pc \in {"preflight", "final"}
    BY <1>6, Phases
  <2>2. PICK en \in [Keys -> {None} \cup EntryType], re \in [Keys -> Seq(ReleaseType)],
             ps \in SUBSET job.payloads : PhaseMakes(persist, next, en, re, ps)
    BY <2>1, PhaseKeys
  <2>3. \A k \in Keys : EntryIsTrue(orders, day, k, en[k]) /\ ReleasesAreTrue(orders, k, re[k])
    BY <2>2, PhaseIsTrue DEF PhaseMakes, DiskIsTrue
  <2>4. disk'.entry = en /\ disk'.released = re /\ disk'.ledger = disk.ledger
    BY <1>1, <2>2 DEF PhaseMakes, Disks
  <2>5. orders' = orders /\ day' = day /\ saved' = saved /\ row' = row
    BY <2>2 DEF PhaseMakes
  <2>6. DiskIsTrue(orders, day, disk')
    BY <2>3, <2>4 DEF DiskIsTrue
  <2> QED BY <2>5, <2>6
<1>7. ASSUME NEW cid \in Cids, cid.key = PayloadKey, pc \in {"post", "retry"}, Post(PayloadKey, cid)
      PROVE  /\ DiskIsTrue(orders', day', disk') /\ DiskIsTrue(orders', day', saved')
             /\ RowIsTrue(orders', row')
  <2>1. disk' = disk /\ saved' = saved
    BY <1>7 DEF Post
  <2> QED BY <1>2, <1>7, <2>1, RowAfterPost
<1>8. CASE FirstPost \/ RetryPost
  <2>1. \E cid \in Cids : cid.key = PayloadKey /\ pc \in {"post", "retry"} /\ Post(PayloadKey, cid)
    BY <1>8, PayloadFacts DEF FirstPost, RetryPost, Cid
  <2> QED BY <1>7, <2>1
<1>9. CASE Record
  <2>1. orders' = orders /\ day' = day /\ saved' = saved /\ row' = row
    BY <1>9 DEF Record
  <2> QED BY <1>9, <2>1, RecordIsTrue
<1>10. CASE UpdateLedger
  <2>1. orders' = orders /\ day' = day /\ saved' = saved /\ row' = row
    BY <1>10 DEF UpdateLedger
  <2>2. disk'.entry = disk.entry /\ disk'.released = disk.released /\ disk'.ledger = NextLedger
    BY <1>1, <1>10 DEF UpdateLedger, Disks
  <2>3. DiskIsTrue(orders, day, disk')
    BY <2>2, NextLedgerIsTrue DEF DiskIsTrue
  <2> QED BY <2>1, <2>3
<1>11. CASE Mark
  <2> DEFINE d == IF job.blocked /\ job.exec THEN disk
                  ELSE [disk EXCEPT !.lastRun = Mode,
                                    !.lastForce = IF job.bypass THEN Mode ELSE disk.lastForce]
  <2>1. d.entry = disk.entry /\ d.released = disk.released /\ d.ledger = disk.ledger
    BY <1>1 DEF Disks
  <2>2. Leave(d)
    BY <1>11 DEF Mark
  <2> HIDE DEF d
  <2>3. DiskIsTrue(orders', day', d)
    BY <1>2, <2>1 DEF DiskIsTrue
  <2> QED BY <1>3, <2>2, <2>3
<1> QED BY <1>4, <1>5, <1>6, <1>8, <1>9, <1>10, <1>11 DEF Next

-------------------------------------------------------------------------------
(* The open-entry guard *)

LEMMA GuardKeptQuietly ==
  ASSUME Typed, GuardHolds, orders' \in Seq(OrderType), Len(orders') = Len(orders),
         \A n \in 1..Len(orders) : /\ orders'[n].key = orders[n].key /\ orders'[n].overdue = orders[n].overdue
                                   /\ OpenOrder(orders'[n]) => OpenOrder(orders[n]),
         pc' \in {"post", "retry"} => pc \in {"post", "retry"} /\ job' = job
  PROVE  GuardHolds'
<1>1. \A m, n \in 1..Len(orders') :
        /\ OpenOrder(orders'[m]) /\ ~orders'[m].overdue /\ OpenOrder(orders'[n]) /\ ~orders'[n].overdue
        /\ SymbolOf(orders'[m].key) = SymbolOf(orders'[n].key)
        => m = n
  BY DEF GuardHolds
<1>2. ASSUME pc' \in {"post", "retry"}
      PROVE  /\ job'.exec /\ Payload' \in job'.payloads
             /\ \A n \in 1..Len(orders') :
                  OpenOrder(orders'[n]) /\ SymbolOf(orders'[n].key) = Payload' => orders'[n].overdue
  <2>1. pc \in {"post", "retry"} /\ job' = job /\ Payload' = Payload
    BY <1>2 DEF Payload
  <2> QED BY <2>1 DEF GuardHolds
<1> QED BY <1>1, <1>2 DEF GuardHolds, OpenOrder

LEMMA GuardKeptByAppend ==
  ASSUME Typed, GuardHolds, NEW o \in OrderType, orders' = Append(orders, o), job' = job,
         \/ o.overdue = TRUE /\ pc' = pc
         \/ pc \in {"post", "retry"} /\ pc' = "record" /\ SymbolOf(o.key) = Payload
  PROVE  GuardHolds'
<1> DEFINE N == Len(orders) + 1
<1>1. /\ Len(orders') = N /\ \A n \in 1..Len(orders) : orders'[n] = orders[n]
      /\ orders'[N] = o /\ Len(orders) \in Nat
  BY AppendGrows, OrderFacts DEF Typed
<1>2. \A n \in 1..Len(orders') : n \in 1..Len(orders) \/ n = N
  BY <1>1
<1> HIDE DEF N
<1>3. ASSUME NEW m \in 1..Len(orders'), NEW n \in 1..Len(orders'),
             OpenOrder(orders'[m]), ~orders'[m].overdue, OpenOrder(orders'[n]), ~orders'[n].overdue,
             SymbolOf(orders'[m].key) = SymbolOf(orders'[n].key)
      PROVE  m = n
  <2>1. CASE m \in 1..Len(orders) /\ n \in 1..Len(orders)
    BY <1>1, <1>3, <2>1 DEF GuardHolds
  <2>2. CASE m \in 1..Len(orders) /\ n = N
    BY <1>1, <1>3, <2>2 DEF GuardHolds
  <2>3. CASE m = N /\ n \in 1..Len(orders)
    BY <1>1, <1>3, <2>3 DEF GuardHolds
  <2> QED BY <1>2, <2>1, <2>2, <2>3
<1>4. ASSUME pc' \in {"post", "retry"}
      PROVE  /\ job'.exec /\ Payload' \in job'.payloads
             /\ \A n \in 1..Len(orders') :
                  OpenOrder(orders'[n]) /\ SymbolOf(orders'[n].key) = Payload' => orders'[n].overdue
  <2>1. pc \in {"post", "retry"} /\ Payload' = Payload /\ o.overdue = TRUE
    BY <1>4 DEF Payload
  <2> QED BY <1>1, <1>2, <2>1 DEF GuardHolds
<1> QED BY <1>3, <1>4 DEF GuardHolds, OpenOrder

LEMMA GuardStep ==
  ASSUME RunInv, [Next]_vars
  PROVE  GuardHolds'
<1> USE DEF RunInv
<1>1. orders' \in Seq(OrderType) /\ DOMAIN orders = 1..Len(orders)
  BY TypedStep, OrderFacts DEF Typed
<1>2. ASSUME orders' = orders, pc' \in {"post", "retry"} => pc \in {"post", "retry"} /\ job' = job
      PROVE  GuardHolds'
  BY <1>1, <1>2, GuardKeptQuietly
<1>3. CASE UNCHANGED vars \/ Tick
  BY <1>2, <1>3 DEF vars, Tick
<1>4. CASE OrderMoves
  <2>1. PICK n \in 1..Len(orders), s \in Lives :
          StatusRank[orders[n].status] < StatusRank[s] /\ orders' = [orders EXCEPT ![n].status = s]
    BY <1>1, <1>4 DEF OrderMoves
  <2>2. /\ Len(orders') = Len(orders)
        /\ \A m \in 1..Len(orders) :
             /\ orders'[m].key = orders[m].key /\ orders'[m].overdue = orders[m].overdue
             /\ OpenOrder(orders'[m]) => OpenOrder(orders[m])
    BY <2>1, MoveGrows DEF Typed, OpenOrder
  <2>3. pc' = pc /\ job' = job
    BY <1>4 DEF OrderMoves
  <2> QED BY <1>1, <2>2, <2>3, GuardKeptQuietly
<1>5. CASE LatePostArrives
  <2>1. PICK p \in late, s \in Lives : orders' = IF TakenCid(p) THEN orders ELSE Created(p.key, p, s, TRUE)
    BY <1>5 DEF LatePostArrives
  <2>2. pc' = pc /\ job' = job
    BY <1>5 DEF LatePostArrives
  <2>3. [key |-> p.key, cid |-> p, status |-> s, day |-> day, overdue |-> TRUE] \in OrderType
    BY DEF Typed, OrderType, Cids
  <2>4. CASE orders' = orders
    BY <1>2, <2>2, <2>4
  <2>5. CASE orders' = Append(orders, [key |-> p.key, cid |-> p, status |-> s, day |-> day, overdue |-> TRUE])
    BY <2>2, <2>3, <2>5, GuardKeptByAppend
  <2> QED BY <2>1, <2>4, <2>5 DEF Created
<1>6. CASE Die \/ Mark
  <2>1. orders' = orders /\ pc' = "idle"
    BY <1>6 DEF Die, Mark, Leave
  <2> QED BY <1>2, <2>1
<1>7. CASE StartRun \/ Gate \/ SubmitSkips \/ Record \/ UpdateLedger \/ DuplicateId
  BY <1>2, <1>7 DEF StartRun, Gate, SubmitSkips, Record, UpdateLedger, DuplicateId
<1>8. CASE PreflightPhase \/ FinalPhase
  <2>1. PICK persist \in BOOLEAN, next \in {"gate", "submit"} :
          Phase(persist, next) /\ pc \in {"preflight", "final"}
    BY <1>8, Phases
  <2>2. orders' = orders /\ pc' = next
    BY <2>1, PhaseKeys DEF PhaseMakes
  <2> QED BY <1>2, <2>1, <2>2
<1>9. CASE SubmitAllowed
  <2>1. orders' = orders /\ job' = job /\ job.exec /\ Payload' = Payload
    BY <1>9 DEF SubmitAllowed, Payload
  <2>2. Payload \in job.payloads
    BY <1>9, FS_EmptySet DEF SubmitAllowed, SubmitGuard, Payload
  <2>3. \A n \in 1..Len(orders) : ~(OpenOrder(orders[n]) /\ SymbolOf(orders[n].key) = Payload)
    BY <1>1, <1>9 DEF SubmitAllowed, SubmitGuard, OpenEntries
  <2> QED BY <2>1, <2>2, <2>3 DEF GuardHolds, OpenOrder
<1>10. ASSUME NEW cid \in Cids, cid.key = PayloadKey, pc \in {"post", "retry"}, Post(PayloadKey, cid)
       PROVE  GuardHolds'
  <2>1. PayloadKey \in Keys /\ SymbolOf(PayloadKey) = Payload
    BY <1>10, PayloadFacts
  <2>2. pc' = "record" /\ job' = job
    BY <1>10 DEF Post
  <2>3. CASE orders' = orders
    BY <1>2, <2>2, <2>3
  <2>4. ASSUME NEW o \in OrderType, orders' = Append(orders, o), o.key = PayloadKey
        PROVE  GuardHolds'
    BY <1>10, <2>1, <2>2, <2>4, GuardKeptByAppend
  <2>5. orders' = orders \/ \E o \in OrderType : orders' = Append(orders, o) /\ o.key = PayloadKey
    <3>1. CASE orders' # orders
      <4>1. \E s \in Lives :
              /\ orders' = Append(orders, [key |-> PayloadKey, cid |-> cid, status |-> s, day |-> day, overdue |-> FALSE])
              /\ [key |-> PayloadKey, cid |-> cid, status |-> s, day |-> day, overdue |-> FALSE] \in OrderType
        BY <1>10, <2>1, <3>1, PostFacts
      <4> QED BY <4>1
    <3> QED BY <3>1
  <2> QED BY <2>3, <2>4, <2>5
<1>11. CASE FirstPost \/ RetryPost
  <2>1. \E cid \in Cids : cid.key = PayloadKey /\ pc \in {"post", "retry"} /\ Post(PayloadKey, cid)
    BY <1>11, PayloadFacts DEF FirstPost, RetryPost, Cid
  <2> QED BY <1>10, <2>1
<1> QED BY <1>3, <1>4, <1>5, <1>6, <1>7, <1>8, <1>9, <1>11 DEF Next

-------------------------------------------------------------------------------
(* Reservations, without faults *)

Core == late = {} /\ OrdersAreCovered /\ OrderedAgainLate /\ EntriesAreFree
Stages == BeforeFinal /\ BeforeSubmit /\ BeforeRetry /\ BeforeRecord

LEMMA FaultsStay ==
  ASSUME Typed, PostsAreCounted, [Next]_vars
  PROVE  faults' = faults
<1>1. CASE PreflightPhase \/ FinalPhase
  <2>1. PICK persist \in BOOLEAN, next \in {"gate", "submit"} :
          Phase(persist, next) /\ pc \in {"preflight", "final"}
    BY <1>1, Phases
  <2> QED BY <2>1, PhaseKeys DEF PhaseMakes
<1>2. CASE ~(PreflightPhase \/ FinalPhase)
  BY <1>2 DEF Next, vars, Tick, OrderMoves, LatePostArrives, Die, StartRun, Gate, SubmitSkips,
              SubmitAllowed, FirstPost, DuplicateId, RetryPost, Post, Record, UpdateLedger, Mark
<1> QED BY <1>1, <1>2

\* A step that touches neither orders nor entries nor releases.
LEMMA CoreQuietly ==
  ASSUME Core, orders' = orders, late' = late, day' = day,
         disk'.entry = disk.entry, disk'.released = disk.released
  PROVE  Core'
<1>1. \A n \in 1..Len(orders) : /\ Expires(n)' <=> Expires(n)
                                /\ HeldByEntry(n)' <=> HeldByEntry(n)
                                /\ HeldByRelease(n)' <=> HeldByRelease(n)
  BY DEF Expires, HeldByEntry, HeldBy, HeldByRelease, HeldOff, TakenCid
<1>2. OrdersAreCovered'
  BY <1>1 DEF Core, OrdersAreCovered
<1>3. OrderedAgainLate' /\ EntriesAreFree'
  BY DEF Core, OrderedAgainLate, EntriesAreFree
<1> QED BY <1>2, <1>3 DEF Core

LEMMA CoreTick ==
  ASSUME RunInv, Core, Tick
  PROVE  Core'
<1>1. day \in Nat /\ day' = day + 1 /\ UNCHANGED <<disk, orders, late>>
  BY LimitsAssumption DEF Tick, RunInv, Typed
<1>2. \A n \in 1..Len(orders) : /\ orders[n].day \in Nat /\ Ttl \in Nat
                                /\ Expires(n) => Expires(n)'
                                /\ HeldByEntry(n)' <=> HeldByEntry(n)
                                /\ HeldByRelease(n)' <=> HeldByRelease(n)
  BY <1>1, OrderFacts, LimitsAssumption DEF RunInv, Typed, Expires, HeldByEntry, HeldBy, HeldByRelease, HeldOff, TakenCid
<1>3. OrdersAreCovered'
  BY <1>1, <1>2 DEF Core, OrdersAreCovered
<1>4. OrderedAgainLate' /\ EntriesAreFree'
  BY <1>1 DEF Core, OrderedAgainLate, EntriesAreFree
<1> QED BY <1>1, <1>3, <1>4 DEF Core

LEMMA MoveKeepsReservations ==
  ASSUME RunInv, Core, Stages, OrderMoves
  PROVE  Core' /\ Stages'
<1>1. PICK n \in 1..Len(orders), s \in Lives :
        StatusRank[orders[n].status] < StatusRank[s] /\ orders' = [orders EXCEPT ![n].status = s]
  BY OrderFacts DEF OrderMoves, RunInv, Typed
<1>2. /\ Len(orders') = Len(orders) /\ DOMAIN orders = 1..Len(orders) /\ DOMAIN orders' = 1..Len(orders)
      /\ \A m \in 1..Len(orders) : /\ orders'[m].key = orders[m].key /\ orders'[m].cid = orders[m].cid
                                   /\ orders'[m].day = orders[m].day
                                   /\ orders'[m].status = IF m = n THEN s ELSE orders[m].status
  BY <1>1, MoveGrows, OrderFacts DEF RunInv, Typed
<1>3. UNCHANGED <<faults, day, runs, disk, saved, late, pc, job, row>>
  BY DEF OrderMoves
<1>4. \A m \in 1..Len(orders) : orders[m].status \in Terminal => orders'[m].status = orders[m].status
  <2>1. StatusRank[s] \in 1..4 /\ orders[n].status \in Lives
    BY OrderFacts, RankFacts DEF RunInv, Typed
  <2>2. orders[n].status \notin Terminal
    BY <1>1, <2>1, RankFacts
  <2> QED BY <1>2, <2>2
<1>5. \A c : TakenCid(c)' <=> TakenCid(c)
  BY <1>2 DEF TakenCid
<1>6. \A m \in 1..Len(orders) : /\ Expires(m)' <=> Expires(m)
                                /\ HeldByEntry(m) => HeldByEntry(m)'
                                /\ HeldByRelease(m) => HeldByRelease(m)'
  BY <1>2, <1>3, <1>4, <1>5 DEF Expires, HeldByEntry, HeldBy, HeldByRelease, HeldOff
<1>7. OrdersAreCovered'
  BY <1>2, <1>3, <1>6 DEF Core, OrdersAreCovered
<1>8. OrderedAgainLate' /\ EntriesAreFree'
  BY <1>2, <1>3 DEF Core, OrderedAgainLate, EntriesAreFree
<1>9. BeforeFinal' /\ BeforeSubmit'
  <2>1. \A k : NothingRuns(k) => NothingRuns(k)'
    BY <1>2, <1>6 DEF NothingRuns
  <2> QED BY <1>3, <2>1 DEF Stages, BeforeFinal, BeforeSubmit, Ks, Pruned, FreshEntry, Entry
<1>10. BeforeRetry'
  BY <1>3, <1>5 DEF Stages, BeforeRetry, PayloadKey, Payload
<1>11. BeforeRecord'
  BY <1>2, <1>3, <1>6 DEF Stages, BeforeRecord, FreshEntry, Entry
<1> QED BY <1>3, <1>7, <1>8, <1>9, <1>10, <1>11 DEF Core, Stages

\* One key in a phase: what held its orders before holds them after, or something
\* else does; and a key is reserved anew only when none of its orders is left.
LEMMA PhaseKeepsKey ==
  ASSUME RunInv, Core, BeforeFinal, faults = {}, NEW k \in Keys, NEW persist \in BOOLEAN, NEW e, NEW r,
         KeyStep(k, persist, e, r),
         \/ pc = "preflight" /\ persist = FALSE
         \/ pc = "final" /\ persist = job.exec
  PROVE  /\ e # None => ~ReentryBlocked(r)
         /\ \A n \in 1..Len(orders) :
              orders[n].key = k => Expires(n) \/ HeldBy(n, e) \/ HeldOff(n, e, r)
         /\ k \in Ks /\ job.exec = TRUE /\ Reserved(k, persist, e, r) => NothingRuns(k)
<1> USE DEF RunInv
<1> DEFINE was == disk.entry[k]
           rel == disk.released[k]
<1>1. /\ was \in {None} \cup EntryType /\ rel \in Seq(ReleaseType) /\ job.exec \in BOOLEAN
      /\ day \in Nat /\ Ttl \in Nat /\ DOMAIN orders = 1..Len(orders)
      /\ \A n \in 1..Len(orders) : orders[n].day \in Nat
      /\ was # None => was.day \in Nat
  BY DiskFields, OrderFacts, LimitsAssumption DEF Typed, JobType, EntryType
<1>2. was # None => ~ReentryBlocked(rel)
  BY DEF Core, EntriesAreFree
<1>3. \A n \in 1..Len(orders) : orders[n].key = k => Expires(n) \/ HeldBy(n, was) \/ HeldOff(n, was, rel)
  BY DEF Core, OrdersAreCovered, HeldByEntry, HeldByRelease
<1>4. persist = TRUE /\ k \in Ks => was = None \/ Pruned(k)
  BY DEF BeforeFinal
<1>5. Reserved(k, persist, e, r) => e # None /\ ~ReentryBlocked(r) /\ e.day = day /\ persist = TRUE
  <2>1. Entry(Cid(k, 0), None, None) # None /\ Entry(Cid(k, 0), None, None).day = day
    BY EntryFacts, NoneAssumption DEF Entry
  <2> QED BY <2>1 DEF Reserved
<1>6. ASSUME NothingRuns(k), e = None \/ Reserved(k, persist, e, r)
      PROVE  /\ e # None => ~ReentryBlocked(r)
             /\ \A n \in 1..Len(orders) :
                  orders[n].key = k => Expires(n) \/ HeldBy(n, e) \/ HeldOff(n, e, r)
             /\ k \in Ks /\ job.exec = TRUE /\ Reserved(k, persist, e, r) => NothingRuns(k)
  BY <1>5, <1>6 DEF NothingRuns
<1>7. CASE e = was /\ r = rel
  <2>1. k \in Ks /\ job.exec = TRUE /\ Reserved(k, persist, e, r) => FALSE
    BY <1>1, <1>4, <1>5, <1>7, LimitsAssumption DEF Pruned
  <2> QED BY <1>2, <1>3, <1>7, <2>1
<1>8. CASE was = None /\ r = rel /\ Reserved(k, persist, e, r)
  <2>1. NothingRuns(k)
    BY <1>3, <1>5, <1>8 DEF NothingRuns, HeldBy, HeldOff
  <2> QED BY <1>6, <1>8, <2>1
<1>9. CASE Pruned(k) /\ r = Append(rel, Expired(k)) /\ (e = None \/ Reserved(k, persist, e, r))
  <2>1. was # None /\ was.day + Ttl < day
    BY <1>9 DEF Pruned
  <2>2. \A n \in 1..Len(orders) : orders[n].key = k => Expires(n)
    BY <1>1, <1>3, <2>1 DEF HeldBy, HeldOff, Expires
  <2> QED BY <1>6, <1>9, <2>2 DEF NothingRuns
<1>10. CASE k \in Ks /\ persist /\ was # None /\ ~Pruned(k)
  BY <1>4, <1>10
<1>11. ASSUME k \in Ks, job.exec, was # None, ~Pruned(k), NEW a, Answer(was, a),
              \/ e = a.entry /\ r = rel
              \/ /\ a.release /\ (e = None \/ Reserved(k, persist, e, r))
                 /\ r = Append(rel, Release(a.entry, a.entry.oid, a.entry.status))
       PROVE  /\ e # None => ~ReentryBlocked(r)
              /\ \A n \in 1..Len(orders) :
                   orders[n].key = k => Expires(n) \/ HeldBy(n, e) \/ HeldOff(n, e, r)
              /\ k \in Ks /\ job.exec = TRUE /\ Reserved(k, persist, e, r) => NothingRuns(k)
  <2>1. persist = FALSE /\ ~Reserved(k, persist, e, r)
    BY <1>1, <1>4, <1>11 DEF Reserved
  <2>2. was \in EntryType /\ a.entry \in EntryType /\ a.entry.cid = was.cid /\ a.entry.day = was.day
    BY <1>1, <1>11, AnswerType
  <2>3. CASE e = a.entry /\ r = rel
    <3>1. \A n \in 1..Len(orders) : HeldBy(n, was) => HeldBy(n, e)
      BY <2>2, <2>3, NoneAssumption DEF HeldBy
    <3> QED BY <1>2, <1>3, <1>11, <2>1, <2>3, <3>1 DEF HeldOff
  <2>4. CASE a.release /\ e = None /\ r = Append(rel, Release(a.entry, a.entry.oid, a.entry.status))
    <3>1. CASE ~TakenCid(was.cid)
      <4>1. \A n \in 1..Len(orders) : ~HeldBy(n, was)
        BY <1>1, <3>1 DEF HeldBy, TakenCid
      <4>2. NothingRuns(k)
        BY <1>3, <1>11, <4>1 DEF NothingRuns, HeldOff
      <4> QED BY <1>6, <2>4, <4>2
    <3>2. ASSUME NEW n0 \in 1..Len(orders), orders[n0].cid = was.cid,
                 a.entry = [was EXCEPT !.oid = n0, !.status = orders[n0].status],
                 orders[n0].status \in Terminal
          PROVE  \A n \in 1..Len(orders) :
                   orders[n].key = k => Expires(n) \/ HeldBy(n, e) \/ HeldOff(n, e, r)
      <4>1. a.entry.status = orders[n0].status
        BY <2>2, <3>2 DEF EntryType
      <4>2. ReentryBlocked(r)
        <5>1. Release(a.entry, a.entry.oid, a.entry.status).status \in Terminal
          BY <3>2, <4>1 DEF Release
        <5> HIDE DEF rel
        <5>2. Len(r) = Len(rel) + 1 /\ Len(rel) \in Nat /\ r # <<>>
              /\ r[Len(r)] = Release(a.entry, a.entry.oid, a.entry.status)
          BY <1>1, <2>4
        <5> QED BY <5>1, <5>2 DEF ReentryBlocked
      <4>3. ASSUME NEW n \in 1..Len(orders), orders[n].key = k, HeldBy(n, was), orders[n].cid.nonce = 0
            PROVE  orders[n].status \in Terminal
        <5>1. orders[n].cid \in Cids /\ orders[n].cid.key = k
          BY <4>3, OrderFacts DEF Typed, PostsAreCounted
        <5>2. orders[n].cid = Cid(k, 0)
          BY <4>3, <5>1 DEF Cids, Cid
        <5>3. orders[n].cid = was.cid
          BY <4>3, <5>2 DEF HeldBy
        <5>4. n = n0
          BY <3>2, <5>3 DEF PostsAreCounted
        <5> QED BY <3>2, <5>4
      <4>4. \A n \in 1..Len(orders) : ~HeldOff(n, was, rel)
        BY <1>11 DEF HeldOff
      <4> QED BY <1>3, <2>4, <4>2, <4>3, <4>4 DEF HeldOff
    <3>3. a.release = TRUE /\ a.release \in BOOLEAN
      BY <1>11, <2>4 DEF Answer
    <3>4. CASE TakenCid(was.cid)
      <4>1. \E n0 \in 1..Len(orders) :
              /\ orders[n0].cid = was.cid
              /\ a.entry = [was EXCEPT !.oid = n0, !.status = orders[n0].status]
              /\ orders[n0].status \in Terminal
        BY <1>11, <3>3, <3>4 DEF Answer
      <4> QED BY <2>1, <2>4, <3>2, <4>1
    <3> QED BY <3>1, <3>4
  <2> QED BY <1>11, <2>1, <2>3, <2>4
<1> QED BY <1>7, <1>8, <1>9, <1>10, <1>11 DEF KeyStep

LEMMA PhaseKeepsReservations ==
  ASSUME RunInv, Core, Stages, faults = {}, PreflightPhase \/ FinalPhase
  PROVE  Core' /\ Stages'
<1> USE DEF RunInv
<1>1. PICK persist \in BOOLEAN, next \in {"gate", "submit"} :
        /\ Phase(persist, next)
        /\ \/ pc = "preflight" /\ persist = FALSE /\ next = "gate"
           \/ pc = "final" /\ persist = job.exec /\ next = "submit"
  BY Phases
<1>2. PICK en \in [Keys -> {None} \cup EntryType], re \in [Keys -> Seq(ReleaseType)],
           ps \in SUBSET job.payloads : PhaseMakes(persist, next, en, re, ps)
  BY <1>1, PhaseKeys
<1>3. /\ disk'.entry = en /\ disk'.released = re
      /\ job'.payloads = ps /\ job'.hash = job.hash /\ job'.exec = job.exec
      /\ pc' = next /\ UNCHANGED <<faults, day, runs, saved, orders, late, row>>
  BY <1>2 DEF PhaseMakes, Typed, Disks, JobType
<1>4. ASSUME NEW k \in Keys
      PROVE  /\ en[k] # None => ~ReentryBlocked(re[k])
             /\ \A n \in 1..Len(orders) :
                  orders[n].key = k => Expires(n) \/ HeldBy(n, en[k]) \/ HeldOff(n, en[k], re[k])
             /\ k \in Ks /\ job.exec = TRUE /\ Reserved(k, persist, en[k], re[k]) => NothingRuns(k)
  BY <1>1, <1>2, PhaseKeepsKey DEF PhaseMakes, Stages
<1>5. OrdersAreCovered'
  <2>1. ASSUME NEW n \in 1..Len(orders)
        PROVE  orders[n].day <= day /\ (Expires(n) \/ HeldBy(n, en[orders[n].key])
                                          \/ HeldOff(n, en[orders[n].key], re[orders[n].key]))
    BY <1>4, OrderFacts DEF Typed, Core, OrdersAreCovered
  <2>2. \A n : /\ Expires(n)' <=> Expires(n)
               /\ HeldByEntry(n)' <=> HeldBy(n, en[orders[n].key])
               /\ HeldByRelease(n)' <=> HeldOff(n, en[orders[n].key], re[orders[n].key])
    BY <1>3 DEF Expires, HeldByEntry, HeldBy, HeldByRelease, HeldOff, TakenCid
  <2> QED BY <1>3, <2>1, <2>2 DEF OrdersAreCovered
<1>6. OrderedAgainLate' /\ EntriesAreFree'
  BY <1>3, <1>4 DEF Core, OrderedAgainLate, EntriesAreFree
<1>7. ASSUME job'.exec = TRUE, NEW k \in Ks'
      PROVE  k \in Keys /\ k \in Ks /\ Outlives(k, persist, en[k], re[k])
  <2>1. PICK s \in ps : k = KeyOf(job, s)
    BY <1>3, <1>7 DEF Ks, KeyOf
  <2>2. k \in Ks /\ k \in Keys
    BY <1>1, <2>1 DEF Ks, KeyOf, Keys, Typed, JobType
  <2> QED BY <1>2, <1>3, <1>7, <2>1, <2>2 DEF PhaseMakes
<1>8. BeforeFinal'
  <2> SUFFICES ASSUME job'.exec = TRUE, pc' \in {"gate", "final"}, NEW k \in Ks'
               PROVE  en[k] = None \/ Pruned(k)'
    BY <1>3 DEF BeforeFinal
  <2>1. persist = FALSE
    BY <1>1, <1>3
  <2>2. en[k] = None \/ (Pruned(k) /\ en[k] = disk.entry[k])
    BY <1>7, <2>1 DEF Outlives
  <2> QED BY <1>3, <2>2 DEF Pruned
<1>9. BeforeSubmit'
  <2> SUFFICES ASSUME job'.exec = TRUE, pc' \in {"submit", "post", "retry"}, NEW k \in Ks'
               PROVE  en[k] = FreshEntry(k)' /\ NothingRuns(k)'
    BY <1>3 DEF BeforeSubmit
  <2>1. persist = TRUE
    BY <1>1, <1>3
  <2>2. k \in Keys /\ k \in Ks /\ Reserved(k, persist, en[k], re[k])
    BY <1>7, <2>1 DEF Outlives
  <2>3. NothingRuns(k)
    BY <1>3, <1>4, <2>2
  <2>4. NothingRuns(k)' <=> NothingRuns(k)
    BY <1>3 DEF NothingRuns, Expires
  <2>5. en[k] = FreshEntry(k)'
    BY <1>3, <2>2 DEF Reserved, FreshEntry, Entry
  <2> QED BY <2>3, <2>4, <2>5
<1>10. BeforeRetry' /\ BeforeRecord'
  BY <1>3 DEF BeforeRetry, BeforeRecord
<1> QED BY <1>3, <1>5, <1>6, <1>8, <1>9, <1>10 DEF Core, Stages

\* The POST of a key none of whose orders is left, with the first id, or with a
\* suffix once that one is taken.
LEMMA PostKeepsReservations ==
  ASSUME RunInv, Core, Stages, faults = {}, NEW cid \in Cids, cid.key = PayloadKey,
         cid = Cid(PayloadKey, 0) \/ TakenCid(Cid(PayloadKey, 0)),
         pc \in {"post", "retry"}, Post(PayloadKey, cid)
  PROVE  Core' /\ Stages'
<1> USE DEF RunInv
<1>k. PICK k \in Keys : k = PayloadKey
  BY PayloadFacts
<1>N. PICK N \in Nat : N = Len(orders) + 1
  BY OrderFacts DEF Typed
<1>1. k \in Ks /\ job.exec = TRUE
  BY <1>k, PayloadFacts DEF Ks, PayloadKey, Typed, JobType
<1>2. disk.entry[k] = FreshEntry(k) /\ NothingRuns(k)
  BY <1>1 DEF Stages, BeforeSubmit
<1>3. pc' = "record" /\ UNCHANGED <<faults, day, runs, disk, saved, job>> /\ row'.key = k
  BY <1>k, PostFacts
<1>4. /\ FreshEntry(k) # None /\ FreshEntry(k).day = day /\ FreshEntry(k).cid = Cid(k, 0)
      /\ day \in Nat /\ Ttl \in Nat \ {0} /\ Len(orders) \in Nat
      /\ \A n \in 1..Len(orders) : orders[n].day \in Nat
  <2>1. FreshEntry(k) \in EntryType /\ FreshEntry(k).day = day /\ FreshEntry(k).cid = Cid(k, 0)
    BY EntryFacts DEF FreshEntry, Entry
  <2>2. FreshEntry(k) # None
    BY <2>1, NoneAssumption
  <2> QED BY <2>1, <2>2, OrderFacts, LimitsAssumption DEF Typed
<1>5. BeforeFinal' /\ BeforeSubmit' /\ BeforeRetry'
  BY <1>3 DEF BeforeFinal, BeforeSubmit, BeforeRetry
<1>6. FreshEntry(k)' = FreshEntry(k)
  BY <1>3 DEF FreshEntry, Entry
<1>7. CASE orders' = orders /\ late' = late
  <2>1. Core'
    BY <1>3, <1>7, CoreQuietly
  <2>2. \A n \in 1..Len(orders) : Expires(n)' <=> Expires(n)
    BY <1>3, <1>7 DEF Expires
  <2>3. BeforeRecord'
    BY <1>2, <1>3, <1>6, <1>7, <2>2 DEF BeforeRecord, NothingRuns
  <2> QED BY <1>5, <2>1, <2>3 DEF Stages
<1>8. ASSUME NEW o \in OrderType, late' = late, orders' = Append(orders, o),
             o.key = k, o.cid = cid, o.day = day, row'.cid = Cid(k, 0) \/ row'.cid = cid
      PROVE  Core' /\ Stages'
  <2>1. /\ Len(orders') = N /\ \A n \in 1..Len(orders) : orders'[n] = orders[n]
        /\ orders'[N] = o /\ DOMAIN orders' = 1..N /\ DOMAIN orders = 1..Len(orders)
    BY <1>N, <1>8, AppendGrows, OrderFacts DEF Typed
  <2>2. N \in 1..N /\ \A n \in 1..N : n \in 1..Len(orders) \/ n = N
    BY <1>4, <1>N
  <2>3. \A c : TakenCid(c) => TakenCid(c)'
    BY <1>4, <1>N, <2>1 DEF TakenCid
  <2>4. TakenCid(Cid(k, 0))'
    <3>1. CASE cid = Cid(k, 0)
      BY <1>8, <2>1, <2>2, <3>1 DEF TakenCid
    <3>2. CASE TakenCid(Cid(k, 0))
      BY <2>3, <3>2
    <3> QED BY <1>k, <3>1, <3>2
  <2>5. \A n \in 1..Len(orders) : /\ Expires(n)' <=> Expires(n)
                                  /\ HeldByEntry(n) => HeldByEntry(n)'
                                  /\ HeldByRelease(n) => HeldByRelease(n)'
    BY <1>3, <2>1, <2>3 DEF Expires, HeldByEntry, HeldBy, HeldByRelease, HeldOff
  <2>6. HeldByEntry(N)' /\ ~Expires(N)'
    BY <1>2, <1>3, <1>4, <1>8, <2>1, <2>4 DEF HeldByEntry, HeldBy, Expires
  <2>7. OrdersAreCovered'
    <3>1. ASSUME NEW n \in 1..N
          PROVE  orders'[n].day <= day /\ (Expires(n)' \/ HeldByEntry(n)' \/ HeldByRelease(n)')
      <4>1. CASE n \in 1..Len(orders)
        BY <2>1, <2>5, <4>1 DEF Core, OrdersAreCovered
      <4>2. CASE n = N
        BY <1>4, <1>8, <2>1, <2>6, <4>2
      <4> QED BY <2>2, <4>1, <4>2
    <3> QED BY <1>3, <2>1, <3>1 DEF OrdersAreCovered
  <2>8. OrderedAgainLate'
    <3> SUFFICES ASSUME NEW m \in 1..N, NEW n \in 1..N, m < n, orders'[m].key = orders'[n].key
                 PROVE  orders'[m].day + Ttl < orders'[n].day
      BY <2>1 DEF OrderedAgainLate
    <3>1. m \in 1..Len(orders)
      BY <1>4, <1>N
    <3>2. CASE n \in 1..Len(orders)
      BY <2>1, <3>1, <3>2 DEF Core, OrderedAgainLate
    <3>3. CASE n = N
      BY <1>2, <1>8, <2>1, <3>1, <3>3 DEF NothingRuns, Expires
    <3> QED BY <2>2, <3>2, <3>3
  <2>9. EntriesAreFree'
    BY <1>3 DEF Core, EntriesAreFree
  <2>10. BeforeRecord'
    <3> SUFFICES ASSUME NEW n \in 1..N, orders'[n].key = k, ~Expires(n)'
                 PROVE  row'.cid = Cid(k, 0) \/ row'.cid = orders'[n].cid
      BY <1>2, <1>3, <1>6, <2>1 DEF BeforeRecord
    <3>1. n = N
      BY <1>2, <2>1, <2>2, <2>5 DEF NothingRuns
    <3> QED BY <1>8, <2>1, <3>1
  <2> QED BY <1>5, <1>8, <2>7, <2>8, <2>9, <2>10 DEF Core, Stages
<1>9. \/ orders' = orders /\ late' = late
      \/ \E o \in OrderType :
           /\ late' = late /\ orders' = Append(orders, o) /\ o.key = k /\ o.cid = cid /\ o.day = day
           /\ row'.cid = Cid(k, 0) \/ row'.cid = cid
  <2>1. CASE orders' = orders
    BY <1>k, <2>1, PostFacts
  <2>2. CASE orders' # orders
    <3>1. late' = late /\ \E s \in Lives :
            /\ orders' = Append(orders, [key |-> k, cid |-> cid, status |-> s, day |-> day, overdue |-> FALSE])
            /\ [key |-> k, cid |-> cid, status |-> s, day |-> day, overdue |-> FALSE] \in OrderType
            /\ \/ row' = Submitted(k, cid, Len(orders) + 1, s)
               \/ row' = Failed(k)
               \/ row' = Submitted(k, cid, None, "submitted")
      BY <1>k, <2>2, PostFacts
    <3>2. row'.cid = Cid(k, 0) \/ row'.cid = cid
      BY <3>1 DEF Submitted, Failed
    <3> QED BY <3>1, <3>2
  <2> QED BY <2>1, <2>2
<1> QED BY <1>7, <1>8, <1>9

LEMMA RecordKeepsReservations ==
  ASSUME RunInv, Core, Stages, Record
  PROVE  Core' /\ Stages'
<1> USE DEF RunInv
<1>1. /\ pc = "record" /\ pc' = "ledger" /\ UNCHANGED <<faults, day, runs, saved, orders, late, job, row>>
      /\ row \in RowType /\ row.key \in Keys
  BY DEF Record, Typed, RowType
<1>2. PICK k \in Keys : k = row.key
  BY <1>1
<1>3. PICK x \in EntryType : x = Entry(row.cid, row.oid, row.status)
  BY <1>1, EntryFacts DEF RowType
<1>4. FreshEntry(k) \in EntryType /\ disk.entry[k] = FreshEntry(k) /\ disk.entry[k].cid = Cid(k, 0)
  BY <1>1, <1>2, EntryFacts DEF Stages, BeforeRecord, FreshEntry, Entry
<1>5. disk' = [disk EXCEPT !.entry[k] = x] /\ x # None
  BY <1>2, <1>3, <1>4, NoneAssumption DEF Record
<1>6. /\ disk'.released = disk.released
      /\ \A j \in Keys : disk'.entry[j] = IF j = k THEN x ELSE disk.entry[j]
  <2>1. disk.entry \in [Keys -> {None} \cup EntryType] /\ disk \in Disks
    BY DEF Typed, Disks
  <2> QED BY <1>5, <2>1 DEF Disks
<1>7. x.cid = row.cid /\ x.day = day
  BY <1>3 DEF Entry
<1>8. OrdersAreCovered'
  <2>1. ASSUME NEW n \in 1..Len(orders)
        PROVE  Expires(n)' \/ HeldByEntry(n)' \/ HeldByRelease(n)'
    <3>1. /\ Expires(n) \/ HeldByEntry(n) \/ HeldByRelease(n)
          /\ orders[n].key \in Keys /\ orders[n].day <= day
      BY OrderFacts DEF Core, OrdersAreCovered, Typed
    <3>2. Expires(n)' <=> Expires(n)
      BY <1>1 DEF Expires
    <3>3. CASE orders[n].key # k
      BY <1>1, <1>6, <3>1, <3>2, <3>3 DEF HeldByEntry, HeldBy, HeldByRelease, HeldOff, TakenCid
    <3>4. CASE orders[n].key = k /\ ~Expires(n)
      <4>1. HeldByEntry(n)
        BY <1>4, <3>1, <3>4, NoneAssumption DEF HeldByRelease, HeldOff
      <4>2. TakenCid(Cid(k, 0))
        <5>1. DOMAIN orders = 1..Len(orders)
          BY OrderFacts DEF Typed
        <5> QED BY <1>4, <3>4, <4>1, <5>1 DEF HeldByEntry, HeldBy, TakenCid
      <4>3. row.cid = Cid(k, 0) \/ row.cid = orders[n].cid
        BY <1>1, <1>2, <3>4 DEF Stages, BeforeRecord
      <4>4. TakenCid(Cid(k, 0))'
        BY <1>1, <4>2 DEF TakenCid
      <4>5. HeldByEntry(n)'
        BY <1>1, <1>5, <1>6, <1>7, <3>1, <3>4, <4>3, <4>4 DEF HeldByEntry, HeldBy
      <4> QED BY <4>5
    <3> QED BY <3>2, <3>3, <3>4
  <2> QED BY <1>1, <2>1 DEF Core, OrdersAreCovered
<1>9. OrderedAgainLate'
  BY <1>1 DEF Core, OrderedAgainLate
<1>10. EntriesAreFree'
  <2>1. ~ReentryBlocked(disk.released[k])
    BY <1>4, NoneAssumption DEF Core, EntriesAreFree
  <2> QED BY <1>6, <2>1 DEF Core, EntriesAreFree
<1>11. Stages'
  BY <1>1 DEF Stages, BeforeFinal, BeforeSubmit, BeforeRetry, BeforeRecord
<1> QED BY <1>1, <1>8, <1>9, <1>10, <1>11 DEF Core

LEMMA ReservationStep ==
  ASSUME RunInv, ReservationInv, faults = {}, [Next]_vars
  PROVE  ReservationInv'
<1> USE DEF RunInv
<1>0. Core /\ Stages /\ disk \in Disks
  BY DEF ReservationInv, Core, Stages, Typed
<1>1. SUFFICES Core' /\ Stages'
  BY DEF ReservationInv, Core, Stages
<1>2. CASE UNCHANGED vars
  <2>1. Core'
    BY <1>0, <1>2, CoreQuietly DEF vars
  <2>2. Stages'
    BY <1>0, <1>2 DEF vars, Stages, BeforeFinal, BeforeSubmit, BeforeRetry, BeforeRecord, Ks, Pruned,
       FreshEntry, Entry, NothingRuns, Expires, TakenCid, PayloadKey, Payload
  <2> QED BY <2>1, <2>2
<1>3. CASE Tick
  <2>1. Stages'
    BY <1>3 DEF Tick, Stages, BeforeFinal, BeforeSubmit, BeforeRetry, BeforeRecord
  <2> QED BY <1>0, <1>3, <2>1, CoreTick
<1>4. CASE OrderMoves
  BY <1>0, <1>4, MoveKeepsReservations
<1>5. CASE LatePostArrives
  BY <1>0, <1>5 DEF Core, LatePostArrives
<1>6. ASSUME NEW d, Leave(d), d.entry = disk.entry, d.released = disk.released,
             orders' = orders, late' = late, day' = day
      PROVE  Core' /\ Stages'
  <2>1. disk' = d /\ pc' = "idle"
    BY <1>6, LeaveFacts
  <2>2. Core'
    BY <1>0, <1>6, <2>1, CoreQuietly
  <2>3. Stages'
    BY <2>1 DEF Stages, BeforeFinal, BeforeSubmit, BeforeRetry, BeforeRecord
  <2> QED BY <2>2, <2>3
<1>7. CASE Die
  BY <1>6, <1>7 DEF Die
<1>8. CASE Mark
  <2> DEFINE d == IF job.blocked /\ job.exec THEN disk
                  ELSE [disk EXCEPT !.lastRun = Mode,
                                    !.lastForce = IF job.bypass THEN Mode ELSE disk.lastForce]
  <2>1. d.entry = disk.entry /\ d.released = disk.released
    BY <1>0 DEF Disks
  <2>2. Leave(d) /\ orders' = orders /\ late' = late /\ day' = day
    BY <1>8 DEF Mark
  <2> HIDE DEF d
  <2> QED BY <1>6, <2>1, <2>2
<1>9. CASE StartRun \/ UpdateLedger
  <2>1. /\ orders' = orders /\ late' = late /\ day' = day /\ pc' \in {"preflight", "mark"}
        /\ disk'.entry = disk.entry /\ disk'.released = disk.released
    BY <1>0, <1>9 DEF StartRun, UpdateLedger, Disks
  <2>2. Core'
    BY <1>0, <2>1, CoreQuietly
  <2>3. Stages'
    BY <2>1 DEF Stages, BeforeFinal, BeforeSubmit, BeforeRetry, BeforeRecord
  <2> QED BY <2>2, <2>3
<1>10. CASE PreflightPhase \/ FinalPhase
  BY <1>0, <1>10, PhaseKeepsReservations
<1>11. CASE Gate \/ SubmitSkips \/ SubmitAllowed \/ DuplicateId
  <2>1. /\ UNCHANGED <<faults, day, runs, disk, saved, orders, late, row>>
        /\ job'.hash = job.hash /\ job'.exec = job.exec /\ job'.payloads \subseteq job.payloads
    BY <1>11 DEF Gate, SubmitSkips, SubmitAllowed, DuplicateId, Typed, JobType
  <2>2. Core'
    BY <1>0, <2>1, CoreQuietly
  <2>3. Ks' \subseteq Ks
    BY <2>1 DEF Ks, KeyOf
  <2>4. BeforeFinal'
    BY <1>0, <1>11, <2>1, <2>3 DEF Gate, SubmitSkips, SubmitAllowed, DuplicateId, Stages, BeforeFinal, Pruned
  <2>5. \A k : (NothingRuns(k)' <=> NothingRuns(k)) /\ FreshEntry(k)' = FreshEntry(k)
    BY <2>1 DEF NothingRuns, Expires, FreshEntry, Entry
  <2>6. BeforeSubmit'
    BY <1>0, <1>11, <2>1, <2>3, <2>5 DEF Gate, SubmitSkips, SubmitAllowed, DuplicateId, Stages, BeforeSubmit
  <2>7. BeforeRetry'
    <3>1. CASE DuplicateId
      BY <3>1 DEF DuplicateId, BeforeRetry, TakenCid, PayloadKey, Payload
    <3>2. CASE Gate \/ SubmitSkips \/ SubmitAllowed
      BY <3>2 DEF Gate, SubmitSkips, SubmitAllowed, BeforeRetry
    <3> QED BY <1>11, <3>1, <3>2
  <2>8. BeforeRecord'
    BY <1>11 DEF Gate, SubmitSkips, SubmitAllowed, DuplicateId, BeforeRecord
  <2> QED BY <2>2, <2>4, <2>6, <2>7, <2>8 DEF Stages
<1>12. CASE FirstPost
  <2>1. Cid(PayloadKey, 0) \in Cids /\ Cid(PayloadKey, 0).key = PayloadKey
    BY <1>12, PayloadFacts DEF FirstPost, Cid
  <2> QED BY <1>0, <1>12, <2>1, PostKeepsReservations DEF FirstPost
<1>13. CASE RetryPost
  <2>1. Cid(PayloadKey, runs) \in Cids /\ Cid(PayloadKey, runs).key = PayloadKey
    BY <1>13, PayloadFacts DEF RetryPost, Cid
  <2>2. TakenCid(Cid(PayloadKey, 0))
    BY <1>0, <1>13 DEF RetryPost, Stages, BeforeRetry
  <2> QED BY <1>0, <1>13, <2>1, <2>2, PostKeepsReservations DEF RetryPost
<1>14. CASE Record
  BY <1>0, <1>14, RecordKeepsReservations
<1> QED BY <1>2, <1>3, <1>4, <1>5, <1>7, <1>8, <1>9, <1>10, <1>11, <1>12, <1>13, <1>14 DEF Next

-------------------------------------------------------------------------------
(* Theorems *)

LEMMA RunInvInit ==
  ASSUME Init
  PROVE  RunInv
<1>1. Typed
  BY TypedInit
<1>2. PostsAreCounted
  BY FS_EmptySet, LimitsAssumption DEF Init, PostsAreCounted, BeforePost
<1>3. /\ \A k \in Keys : EmptyDisk.entry[k] = None /\ EmptyDisk.released[k] = <<>> /\ EmptyDisk.ledger[k] = None
      /\ disk = EmptyDisk /\ saved = EmptyDisk /\ row = None
  BY DEF Init, EmptyDisk
<1>4. DiskIsTrue(orders, day, disk) /\ DiskIsTrue(orders, day, saved)
  BY <1>3 DEF DiskIsTrue, EntryIsTrue, ReleasesAreTrue, LedgerIsTrue
<1>5. RowIsTrue(orders, row)
  BY <1>3, NoRowIsTrue
<1>6. GuardHolds
  BY DEF Init, GuardHolds
<1> QED BY <1>1, <1>2, <1>4, <1>5, <1>6 DEF RunInv

\* The invariant of the run: types, at most one POST per run, files that say only
\* what the broker has said, one order per client order id, and the open-entry guard.
THEOREM RunIsInvariant == Spec => []RunInv
<1>1. Init => RunInv
  BY RunInvInit
<1>2. RunInv /\ [Next]_vars => RunInv'
  BY TypedStep, CountedStep, TruthStep, GuardStep DEF RunInv
<1> QED BY <1>1, <1>2, PTL DEF Spec

\* A symbol never has two open entry orders that are not overdue, whatever files,
\* deaths, lost caches and late POSTs there are (the guard of submitOrdersToBroker).
THEOREM OneOpenEntry == Spec => []OneOpenEntryPerSymbol
<1>1. RunInv => OneOpenEntryPerSymbol
  <2> SUFFICES ASSUME RunInv, NEW s \in Symbols
               PROVE  Cardinality({n \in OpenEntries(s) : ~orders[n].overdue}) <= 1
    BY DEF OneOpenEntryPerSymbol
  <2> DEFINE S == {n \in OpenEntries(s) : ~orders[n].overdue}
  <2>1. DOMAIN orders = 1..Len(orders)
    BY OrderFacts DEF RunInv, Typed
  <2>2. \A m, n \in S : m = n
    BY <2>1 DEF OpenEntries, RunInv, GuardHolds
  <2> HIDE DEF S
  <2>3. CASE S = {}
    BY <2>3, FS_EmptySet DEF S
  <2>4. CASE S # {}
    <3>1. PICK m : m \in S
      BY <2>4
    <3>2. S = {m}
      BY <2>2, <3>1
    <3>3. Cardinality(S) = 1
      BY <3>2, FS_Singleton
    <3> QED BY <3>3 DEF S
  <2> QED BY <2>3, <2>4
<1> QED BY <1>1, RunIsInvariant, PTL

\* What the two files say of an order the broker has said of it.
THEOREM FilesAreTrue == Spec => []FilesFollowBroker
<1>1. RunInv => TypeOK
  <2> SUFFICES ASSUME RunInv PROVE TypeOK
    OBVIOUS
  <2>1. \A d \in Disks : DiskTypeOK(d)
    <3> SUFFICES ASSUME NEW d \in Disks PROVE DiskTypeOK(d)
      OBVIOUS
    <3>1. {d.lastRun, d.lastForce} \subseteq {None} \cup (Hashes \X BOOLEAN)
      BY DEF Disks, Modes
    <3>2. ASSUME NEW k \in Keys
          PROVE  /\ d.entry[k] \in {None} \cup EntryType
                 /\ \A i \in DOMAIN d.released[k] : d.released[k][i] \in ReleaseType
                 /\ d.ledger[k] \in {None} \cup LedgerType
      <4>1. d.released[k] \in Seq(ReleaseType)
        BY DiskFields
      <4>2. \A i \in DOMAIN d.released[k] : d.released[k][i] \in ReleaseType
        BY <4>1
      <4> QED BY <4>2, DiskFields
    <3> QED BY <3>1, <3>2 DEF DiskTypeOK
  <2>2. \A n \in DOMAIN orders : orders[n] \in [key : Keys, cid : Cids, status : Lives, day : 0..MaxDay, overdue : BOOLEAN]
    BY OrderFacts DEF RunInv, Typed, OrderType
  <2> QED BY <2>1, <2>2 DEF RunInv, Typed, TypeOK, BeforePost
<1>2. RunInv => RecordsNameTheirOrders
  BY OrderFacts DEF RunInv, Typed, DiskIsTrue, EntryIsTrue, Names, RecordsNameTheirOrders, NamesItsOrder
<1>3. RunInv => LedgerFollowsBroker
  BY OrderFacts DEF RunInv, Typed, DiskIsTrue, LedgerIsTrue, Reached, LedgerFollowsBroker
<1> QED BY <1>1, <1>2, <1>3, RunIsInvariant, PTL DEF FilesFollowBroker

\* Without faults every order of a key is kept from being repeated until its TTL is
\* over: by the entry, or by the terminal status with which the entry was released.
THEOREM FaultlessIsInvariant == Spec => []IInv
<1>1. Init => IInv
  <2> SUFFICES ASSUME Init PROVE ReservationInv
    BY RunInvInit DEF IInv, FaultlessInv
  <2> QED BY DEF Init, EmptyDisk, ReservationInv, OrdersAreCovered, OrderedAgainLate, EntriesAreFree,
             BeforeFinal, BeforeSubmit, BeforeRetry, BeforeRecord
<1>2. IInv /\ [Next]_vars => IInv'
  <2> SUFFICES ASSUME IInv, [Next]_vars PROVE IInv'
    OBVIOUS
  <2>1. RunInv'
    BY TypedStep, CountedStep, TruthStep, GuardStep DEF IInv, RunInv
  <2>2. faults' = faults
    BY FaultsStay DEF IInv, RunInv
  <2>3. faults = {} => ReservationInv'
    BY ReservationStep DEF IInv, FaultlessInv
  <2> QED BY <2>1, <2>2, <2>3 DEF IInv, FaultlessInv
<1> QED BY <1>1, <1>2, PTL DEF Spec

\* Without faults a key is ordered a second time only after the first order has
\* outlived the TTL: no death of a run, lost answer, release or forced run repeats it.
THEOREM NoEarlyReorder == Spec => []ReorderOnlyAfterTtl
<1>1. IInv => ReorderOnlyAfterTtl
  BY OrderFacts DEF IInv, RunInv, Typed, FaultlessInv, ReservationInv, OrderedAgainLate, ReorderOnlyAfterTtl
<1> QED BY <1>1, FaultlessIsInvariant, PTL

\* Without faults an order that is open or filled, sent with the first id of its key,
\* has an idempotency entry until its TTL is over.
THEOREM LiveOrdersAreReserved == Spec => []LiveOrdersStayReserved
<1>1. IInv => LiveOrdersStayReserved
  <2> SUFFICES ASSUME IInv, faults = {}, NEW n \in DOMAIN orders, orders[n].cid.nonce = 0,
                      orders[n].status \notin Terminal, day <= orders[n].day + Ttl
               PROVE  disk.entry[orders[n].key] # None
    BY DEF LiveOrdersStayReserved
  <2>1. n \in 1..Len(orders) /\ orders[n].day \in Nat /\ day \in Nat /\ Ttl \in Nat
    BY OrderFacts, LimitsAssumption DEF IInv, RunInv, Typed
  <2>2. Expires(n) \/ HeldByEntry(n) \/ HeldByRelease(n)
    BY <2>1 DEF IInv, FaultlessInv, ReservationInv, OrdersAreCovered
  <2>3. ~Expires(n) /\ ~HeldByRelease(n)
    BY <2>1 DEF Expires, HeldByRelease, HeldOff
  <2> QED BY <2>2, <2>3 DEF HeldByEntry, HeldBy
<1> QED BY <1>1, FaultlessIsInvariant, PTL
===============================================================================
