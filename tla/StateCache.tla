---- MODULE StateCache ----
(***************************************************************************)
(* The state directory that workflows hand on to each other through the    *)
(* Actions cache. A job restores the newest entry, works on its copy and   *)
(* saves the whole directory under its own run id. The sidecar             *)
(* (dry-run.yml) and the market guard (market-guard.yml) each run one job   *)
(* at a time, but not one after the other. The directory is reduced to the *)
(* keys that the order store knows, and the guard's last decision.         *)
(***************************************************************************)
EXTENDS Naturals, Sequences, FiniteSets, SequencesExt

CONSTANTS
  Keys,        \* idempotency keys: a recommendation and its symbol
  MaxRuns,     \* bound on the jobs
  Faults,      \* what goes wrong besides an overlap: "rerun", "fail"
  MaxExcuses   \* bound on overlaps, re-runs and saves that fail

Groups == {"sidecar", "guard"}

VARIABLES
  entries,     \* the cache: entries in the order they were created
  job,         \* group -> the job that runs, with its copy
  next,        \* the next run id
  decisions,   \* the number of decisions the guard has made
  decided,     \* the last of them that was saved
  bought,      \* key -> how many orders the broker has accepted for it
  last,        \* key -> what became of the last of them
  excuses      \* overlaps, re-runs and failed saves so far

vars == <<entries, job, next, decisions, decided, bought, last, excuses>>

None == [id |-> 0]
Newest == Last(entries).dir
Running(g) == job[g] # None
HasEntry(id) == \E n \in DOMAIN entries : entries[n].id = id

\* Mutation of Restored: the restore keys match the oldest entry.
RestoredOldest(id) == Head(entries).dir

\* The restore step: the entry of the same run id if there is one, which only a
\* re-run has, and the newest entry otherwise.
Restored(id) ==
  IF HasEntry(id) THEN entries[CHOOSE n \in DOMAIN entries : entries[n].id = id].dir
  ELSE Newest

Init == /\ entries = <<[id |-> 0, dir |-> [known |-> {}, control |-> 0]]>>
        /\ job = [g \in Groups |-> None]
        /\ next = 1 /\ decisions = 0 /\ decided = 0 /\ excuses = 0
        /\ bought = [k \in Keys |-> 0]
        /\ last = [k \in Keys |-> "none"]

\* concurrency: one job of a group at a time.
Starts(g) == ~Running(g)

Begins(g, id, cost) ==
  /\ Starts(g)
  /\ excuses + cost <= MaxExcuses
  /\ job' = [job EXCEPT ![g] = [id |-> id, dir |-> Restored(id), sent |-> FALSE]]
  /\ excuses' = excuses + cost
  /\ UNCHANGED <<entries, decisions, decided, bought, last>>

\* A new run. It counts as an excuse when it overlaps a job of the other group.
Begin(g) == /\ next <= MaxRuns
            /\ Begins(g, next, IF \E h \in Groups \ {g} : Running(h) THEN 1 ELSE 0)
            /\ next' = next + 1

\* Somebody re-runs an earlier run, which keeps its id.
Rerun(g, id) == /\ "rerun" \in Faults
                /\ id \in 1..(next - 1) /\ \A h \in Groups : job[h].id # id
                /\ Begins(g, id, 1 + IF \E h \in Groups \ {g} : Running(h) THEN 1 ELSE 0)
                /\ UNCHANGED next

\* What stands between a key and an order: the store, an open entry order and a
\* held position.
Buys(k) == k \notin job["sidecar"].dir.known /\ last[k] \notin {"open", "held"}

\* submitOrdersToBroker: one order in a run, which a manual approval names; an id that the broker has seen is tried once more with
\* a suffix, so the broker accepts the order all the same.
Buy(k) == /\ Running("sidecar")
          /\ ~job["sidecar"].sent
          /\ Buys(k)
          /\ bought' = [bought EXCEPT ![k] = @ + 1]
          /\ last' = [last EXCEPT ![k] = "open"]
          /\ job' = [job EXCEPT !["sidecar"].dir.known = @ \cup {k}, !["sidecar"].sent = TRUE]
          /\ UNCHANGED <<entries, next, decisions, decided, excuses>>

\* The entry order fills or ends without a fill, and a position is closed.
OrderEnds(k) == /\ \/ last[k] = "open" /\ last' \in {[last EXCEPT ![k] = s] : s \in {"held", "canceled"}}
                   \/ last[k] = "held" /\ last' = [last EXCEPT ![k] = "flat"]
                /\ UNCHANGED <<entries, job, next, decisions, decided, bought, excuses>>

\* The guard writes its file for the entry gate.
Guard == /\ Running("guard") /\ ~job["guard"].sent
         /\ decisions' = decisions + 1
         /\ job' = [job EXCEPT !["guard"].dir.control = decisions + 1, !["guard"].sent = TRUE]
         /\ UNCHANGED <<entries, next, decided, bought, last, excuses>>

\* The save step: an entry of the same id makes it fail, which fails nothing else.
Save(g) == /\ Running(g)
           /\ entries' = IF HasEntry(job[g].id) THEN entries ELSE Append(entries, [id |-> job[g].id, dir |-> job[g].dir])
           /\ decided' = IF g = "guard" /\ ~HasEntry(job[g].id)
                         THEN job[g].dir.control ELSE decided
           /\ job' = [job EXCEPT ![g] = None]
           /\ UNCHANGED <<next, decisions, bought, last, excuses>>

\* The job is killed, or the cache service refuses the save.
SaveFails(g) == /\ "fail" \in Faults /\ Running(g)
                /\ excuses < MaxExcuses
                /\ excuses' = excuses + 1
                /\ job' = [job EXCEPT ![g] = None]
                /\ UNCHANGED <<entries, next, decisions, decided, bought, last>>

Next == \/ \E g \in Groups : Begin(g) \/ Save(g) \/ SaveFails(g)
        \/ \E g \in Groups, id \in 1..MaxRuns : Rerun(g, id)
        \/ \E k \in Keys : Buy(k) \/ OrderEnds(k)
        \/ Guard

Spec == Init /\ [][Next]_vars

----------------------------------------------------------------------------
(* Properties. *)

Dirs == [known : SUBSET Keys, control : 0..decisions]
TypeOK == /\ \A n \in DOMAIN entries : entries[n].dir \in Dirs
          /\ \A g \in Groups : Running(g) => job[g].dir \in Dirs /\ job[g].id \in 1..MaxRuns
          /\ next \in 1..(MaxRuns + 1) /\ decided \in 0..decisions
          /\ bought \in [Keys -> Nat]
          /\ last \in [Keys -> {"none", "open", "held", "flat", "canceled"}]
          /\ excuses \in 0..MaxExcuses

\* The orders of a key beyond its first.
ExtraOrders == UNION {{k} \X (2..bought[k]) : k \in Keys}

\* Every order beyond a key's first is paid for by an overlap, a re-run or a
\* failed save: what the store forgets and the retry with a fresh id lets
\* through is bounded by how often the hand-over went wrong
\* (dry-run.yml:436-443, index.ts:10464).
ExtraOrdersAreExcused == Cardinality(ExtraOrders) <= excuses

\* As long as jobs neither overlap nor are re-run nor fail to save, the newest
\* entry knows every key that was bought and carries the guard's last decision,
\* although either workflow saves the other one's files as well.
NothingIsLostAlone ==
  excuses = 0 => /\ Newest.control = decided
                 /\ \A k \in Keys : bought[k] > 0 => \/ k \in Newest.known
                                                     \/ Running("sidecar") /\ job["sidecar"].sent

\* README.md:67: a key whose order has filled stays protected, that is, no
\* second order is sent for it.
FilledStaysProtected ==
  [][ \A k \in Keys : last[k] \in {"held", "flat"} => bought'[k] = bought[k] ]_vars
====
