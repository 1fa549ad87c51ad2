----------------------------- MODULE ApprovalQueue -----------------------------
(***************************************************************************)
(* The approval gate of a run (applyApprovalQueueGate in src/index.ts) and  *)
(* the file on a shared drive in which entries wait for a person's answer.  *)
(* The gate loads the whole file, expires old requests, lets approved       *)
(* entries through, files a request for the others and writes the whole     *)
(* file back. Whoever approves does the same from a workflow of another     *)
(* repository. Neither checks that the file is still the one it read.       *)
(*                                                                         *)
(* Runs do not overlap with each other (the concurrency group of            *)
(* dry-run.yml), only with the approver. A request is named by the symbol   *)
(* and the stage-6 file it is for; the gate files at most one per name, so  *)
(* the file is a function. Requests carry an age instead of a timestamp.    *)
(***************************************************************************)
EXTENDS Naturals, FiniteSets

CONSTANTS
  Symbols, Stages,    \* what is traded, and the stage-6 files (by their hash)
  Ttl,                \* APPROVAL_REQUEST_TTL_MINUTES, in ticks of the model
  PreviewOnly,        \* POSITION_LIFECYCLE_PREVIEW_ONLY
  EnforceInPreview    \* APPROVAL_ENFORCE_IN_PREVIEW

VARIABLES
  drive,      \* the queue file: a row or None for each name
  run,        \* the run that is at its gate
  approver,   \* the person's copy of the file, while the workflow runs
  answered,   \* history: the last answer given for each name
  granted,    \* history: names that were approved at some time
  through,    \* history: names of entries that some gate let through
  raced       \* history: somebody has overwritten a file he had not read

vars == <<drive, run, approver, answered, granted, through, raced>>

None == [status |-> "none", age |-> 0]
Names == Symbols \X Stages
Closed == {"approved", "rejected", "expired"}
Row(status, age) == [status |-> status, age |-> age]
Rows == {None} \cup [status : Closed \cup {"pending"}, age : 0..(Ttl + 1)]
Files == [Names -> Rows]

NoFile == [n \in Names |-> None]
Kinds == {"none", "entry", "exit"}
\* isApprovalRequiredForPayloadAction: the payloads that buy.
Entries(want) == {s \in Symbols : want[s] = "entry"}
Exits(want) == {s \in Symbols : want[s] = "exit"}
Idle == [at |-> "idle", file |-> NoFile, stale |-> FALSE, stage |-> CHOOSE g \in Stages : TRUE,
         want |-> [s \in Symbols |-> "none"], pass |-> {}, failed |-> FALSE]
Absent == [busy |-> FALSE, file |-> NoFile, stale |-> FALSE]
\* enforceNow, in a run that executes.
EnforceNow == ~PreviewOnly \/ EnforceInPreview

Init ==
  /\ drive = NoFile /\ run = Idle /\ approver = Absent
  /\ answered = [n \in Names |-> "none"]
  /\ granted = {} /\ through = {} /\ raced = FALSE

-------------------------------------------------------------------------------
(* The gate *)

NamesOf(S) == S \X {run.stage}

\* The gate is done: it leaves the payloads it lets through to the rest of the run.
Finish(pass, failed) ==
  /\ run' = [run EXCEPT !.at = "done", !.pass = pass, !.failed = failed,
                        !.file = NoFile, !.stale = FALSE]
  /\ through' = through \cup NamesOf(pass \cap Entries(run.want))

\* A run that executes, with its payloads, past a preflight that does not block.
Start ==
  /\ run.at \in {"idle", "done"}
  /\ \E g \in Stages, want \in [Symbols -> Kinds] :
       run' = [Idle EXCEPT !.at = "start", !.stage = g, !.want = want]
  /\ UNCHANGED <<drive, approver, answered, granted, through, raced>>

\* Nothing to buy, or the gate does not enforce: everything passes.
Bypass ==
  /\ run.at = "start"
  /\ Entries(run.want) = {} \/ ~EnforceNow
  /\ Finish(Entries(run.want) \cup Exits(run.want), FALSE)
  /\ UNCHANGED <<drive, approver, answered, granted, raced>>

Load ==
  /\ run.at = "start" /\ EnforceNow /\ Entries(run.want) # {}
  /\ run' = [run EXCEPT !.at = "loaded", !.file = drive]
  /\ UNCHANGED <<drive, approver, answered, granted, through, raced>>

\* The file cannot be read: no entry passes.
LoadFails ==
  /\ run.at = "start" /\ EnforceNow /\ Entries(run.want) # {}
  /\ Finish(Exits(run.want), TRUE)
  /\ UNCHANGED <<drive, approver, answered, granted, raced>>

\* Mutation of Aged: an approval expires like a request.
AgedAll(file) == [n \in Names |->
  IF file[n] # None /\ file[n].age > Ttl THEN Row("expired", file[n].age) ELSE file[n]]
\* Mutation of Aged: no request expires.
AgedNever(file) == file
\* Every request, of whatever stage-6 file, that has waited longer than its TTL.
Aged(file) == [n \in Names |->
  IF file[n].status = "pending" /\ file[n].age > Ttl
  THEN Row("expired", file[n].age) ELSE file[n]]
\* A request for every entry that has none for this stage-6 file.
Requested(file) == [n \in Names |->
  IF n \in NamesOf(Entries(run.want)) /\ file[n] = None THEN Row("pending", 0) ELSE file[n]]
\* Mutation of Allowed: what is not refused may pass.
AllowedUnlessRefused(file) ==
  {s \in Symbols : run.want[s] = "exit" \/
     (run.want[s] = "entry" /\ file[<<s, run.stage>>].status \in {"approved", "pending"})}
Allowed(file) ==
  {s \in Symbols : run.want[s] = "exit" \/
     (run.want[s] = "entry" /\ file[<<s, run.stage>>].status = "approved")}

\* The decision, and the write if anything changed.
Judged == Aged(run.file)
Decide ==
  /\ run.at = "loaded"
  /\ LET next == Requested(Judged)
     IN  IF next = run.file
         THEN Finish(Allowed(Judged), FALSE)
         ELSE /\ run' = [run EXCEPT !.at = "save", !.file = next, !.pass = Allowed(Judged)]
              /\ UNCHANGED through
  /\ UNCHANGED <<drive, approver, answered, granted, raced>>

\* Mutation of Save: the new requests are not written.
SaveForgets ==
  /\ run.at = "save"
  /\ UNCHANGED <<drive, approver, raced>>
  /\ Finish(run.pass, FALSE)
  /\ UNCHANGED <<answered, granted>>
Save ==
  /\ run.at = "save"
  /\ drive' = run.file
  /\ approver' = [approver EXCEPT !.stale = approver.busy]
  /\ raced' = (raced \/ run.stale)
  /\ Finish(run.pass, FALSE)
  /\ UNCHANGED <<answered, granted>>

\* The write fails, or succeeds and its answer is lost: no entry passes.
SaveFails ==
  /\ run.at = "save"
  /\ \/ UNCHANGED <<drive, approver, raced>>
     \/ /\ drive' = run.file
        /\ approver' = [approver EXCEPT !.stale = approver.busy]
        /\ raced' = (raced \/ run.stale)
  /\ Finish(Exits(run.want), TRUE)
  /\ UNCHANGED <<answered, granted>>

\* The job is killed before the gate is done.
Die ==
  /\ run.at \in {"start", "loaded", "save"}
  /\ run' = Idle
  /\ UNCHANGED <<drive, approver, answered, granted, through, raced>>

-------------------------------------------------------------------------------
(* The approver and the clock *)

ApproverLoads ==
  /\ ~approver.busy
  /\ approver' = [busy |-> TRUE, file |-> drive, stale |-> FALSE]
  /\ UNCHANGED <<drive, run, answered, granted, through, raced>>

\* An answer to a request that the copy shows as pending.
Answer(n, status) ==
  /\ approver.busy /\ approver.file[n].status = "pending"
  /\ drive' = [approver.file EXCEPT ![n] = Row(status, approver.file[n].age)]
  /\ approver' = Absent
  /\ run' = [run EXCEPT !.stale = run.at \in {"loaded", "save"}]
  /\ raced' = (raced \/ approver.stale)
  /\ answered' = [answered EXCEPT ![n] = status]
  /\ granted' = IF status = "approved" THEN granted \cup {n} ELSE granted
  /\ UNCHANGED through

GivesUp ==
  /\ approver.busy
  /\ approver' = Absent
  /\ UNCHANGED <<drive, run, answered, granted, through, raced>>

Older(file) == [n \in Names |->
  IF file[n] = None \/ file[n].age > Ttl THEN file[n] ELSE [file[n] EXCEPT !.age = @ + 1]]
Tick ==
  /\ \E n \in Names : drive[n] # None /\ drive[n].age <= Ttl
  /\ drive' = Older(drive)
  /\ run' = [run EXCEPT !.file = Older(run.file)]
  /\ approver' = [approver EXCEPT !.file = Older(approver.file)]
  /\ UNCHANGED <<answered, granted, through, raced>>

Gate == Start \/ Bypass \/ Load \/ Decide \/ Save
Next ==
  \/ Gate \/ LoadFails \/ SaveFails \/ Die
  \/ ApproverLoads \/ GivesUp \/ Tick
  \/ \E n \in Names, status \in {"approved", "rejected"} : Answer(n, status)

Spec == Init /\ [][Next]_vars

\* Time passes, runs go on and have something to buy again and again, a run that
\* has loaded the file is not killed for ever, and the drive does not fail for ever.
StartsBuying == Start /\ Entries(run'.want) # {}
Fairness ==
  /\ WF_vars(Tick) /\ WF_vars(Bypass)
  /\ SF_vars(StartsBuying) /\ SF_vars(Decide)
  /\ SF_vars(Load) /\ SF_vars(Save)
FairSpec == Spec /\ Fairness

-------------------------------------------------------------------------------
(* Properties *)

\* Type correctness.
TypeOK ==
  /\ drive \in Files
  /\ run \in [at : {"idle", "start", "loaded", "save", "done"}, file : Files, stale : BOOLEAN,
              stage : Stages, want : [Symbols -> Kinds], pass : SUBSET Symbols, failed : BOOLEAN]
  /\ approver \in [busy : BOOLEAN, file : Files, stale : BOOLEAN]
  /\ answered \in [Names -> {"none", "approved", "rejected"}]
  /\ granted \subseteq Names /\ through \subseteq Names /\ raced \in BOOLEAN

\* No entry is let through that nobody has approved for this stage-6 file, however
\* writes to the file overtake each other.
OnlyApprovedPass == through \subseteq granted

\* The copies that are on their way hold no approval that was not given.
ApprovalsAreGiven ==
  \A f \in {drive, run.file, approver.file} : \A n \in Names :
    f[n].status = "approved" => n \in granted
Approved(s) == <<s, run.stage>> \in granted
PassIsJustified == run.at = "save" => \A s \in run.pass \cap Entries(run.want) : Approved(s)

\* A gate that could not read or write the queue lets no entry through, and no
\* gate holds a sale back.
FailsClosed ==
  run.at = "done" =>
    /\ Exits(run.want) \subseteq run.pass
    /\ run.failed => run.pass \cap Entries(run.want) = {}

\* As long as nobody has overwritten a file he had not read, an answer stands in
\* the file as it was given.
AnswersStand ==
  ~raced => \A n \in Names : answered[n] # "none" => drive[n].status = answered[n]

\* As long as nobody has overwritten a file he had not read, every entry that a gate
\* has held back is on file, where a person can find it, unless the gate failed.
HeldBackIsOnFile ==
  run.at = "done" /\ ~run.failed /\ ~raced =>
    \A s \in Entries(run.want) \ run.pass : drive[<<s, run.stage>>] # None

\* A request that is closed stays closed: no second request for the same symbol
\* and stage-6 file, no expiry of an answer.
ClosedStaysClosed ==
  ~raced' => \A n \in Names :
    drive[n].status \in Closed => drive'[n].status = drive[n].status

\* Neither a failing drive nor a closed request opens the gate or loses a request.
RequestsAreKept == [][FailsClosed' /\ HeldBackIsOnFile' /\ ClosedStaysClosed]_vars

\* A request does not wait for ever: it is answered or expires.
RequestsEnd ==
  \A n \in Names : drive[n].status = "pending" ~> (drive[n].status # "pending" \/ raced)

\* A copy that is not stale agrees with the file: it is the file, or keeps every
\* request that the file shows as closed.
FreshCopiesAgree ==
  /\ run.at = "loaded" /\ ~run.stale => run.file = drive
  /\ run.at = "save" /\ ~run.stale =>
       \A n \in Names : drive[n].status \in Closed => run.file[n].status = drive[n].status
  /\ approver.busy /\ ~approver.stale => approver.file = drive

\* The strengthening from which the invariants follow.
ApprovalInv ==
  /\ TypeOK /\ OnlyApprovedPass /\ ApprovalsAreGiven /\ PassIsJustified
  /\ FreshCopiesAgree /\ AnswersStand
=============================================================================
