---------------------------- MODULE PaperCustody ----------------------------
(***************************************************************************)
(* The custody of the closeout's files on a branch of a GitHub repository, *)
(* scripts/lib/github-paper-custody.mjs. A session is one run of a         *)
(* workflow: it loads the branch, claims it, publishes the directory again *)
(* at every checkpoint and hands the branch back. The runs share nothing   *)
(* but the branch. Its head moves by a PATCH that the server refuses       *)
(* unless the new commit descends from the present head; the answer may be *)
(* lost and the PATCH may land after its sender has given up.              *)
(*                                                                         *)
(* The files are abstracted to the set of intents they record: exits whose *)
(* order may be sent, once, after a checkpoint that contains them          *)
(* (persistWire and checkpointGithubCustody in scoped-paper-adapter.mjs).  *)
(***************************************************************************)
EXTENDS Naturals, Sequences, FiniteSets

CONSTANTS
  Session,     \* runs of the workflow, each with a run id of its own
  Intent,      \* exits that may be recorded and sent
  NoWriter,    \* writer: null
  MaxHistory,  \* config.maxHistory
  MaxCommits   \* bound of the model

ASSUME CustodyAssumption ==
  /\ NoWriter \notin Session
  /\ MaxHistory \in Nat \ {0} /\ MaxCommits \in Nat \ {0}

VARIABLES
  commits,  \* the commit objects of the repository, a sequence; the index is the id
  ref,      \* the head of refs/heads/paper-state
  late,     \* commits whose PATCH was given up and is still on its way
  pc,       \* pc[s]: the next call of s
  phase,    \* phase[s]: what s publishes
  head,     \* head[s]: s.head, the commit s believes to be the head
  files,    \* files[s]: the directory of s
  new,      \* new[s]: the commit s has created and not yet confirmed
  due,      \* due[s]: intents s has recorded and not yet sent
  posts,    \* posts[i]: orders sent for i (history)
  acked     \* intents of a confirmed checkpoint (history)

vars == <<commits, ref, late, pc, phase, head, files, new, due, posts, acked>>
repository == <<commits, ref, late>>

\* A commit names its ancestors; line holds them and the commit itself.
Genesis == [parent |-> 0, line |-> {1}, writer |-> NoWriter, files |-> {}]
FastForward(to) == ref \in commits[to].line
\* history walks back to the genesis in at most maxHistory commits.
HistoryFits(c) == Cardinality(commits[c].line) <= MaxHistory
\* A snapshot keeps every file and record of the one before it.
Continuity(before, after) == before \subseteq after

Init ==
  /\ commits = <<Genesis>> /\ ref = 1 /\ late = {}
  /\ pc = [s \in Session |-> "new"] /\ phase = [s \in Session |-> "CLAIM"]
  /\ head = [s \in Session |-> 1] /\ new = [s \in Session |-> 1]
  /\ files = [s \in Session |-> {}] /\ due = [s \in Session |-> {}]
  /\ posts = [i \in Intent |-> 0] /\ acked = {}

Goto(s, p) == pc' = [pc EXCEPT ![s] = p]

\* Mutation of History: a branch with a writer is opened too.
HistoryIgnoresWriter(s) ==
  /\ pc[s] = "new"
  /\ HistoryFits(ref)
  /\ head' = [head EXCEPT ![s] = ref]
  /\ files' = [files EXCEPT ![s] = commits[ref].files]
  /\ Goto(s, "check")
  /\ UNCHANGED <<repository, phase, new, due, posts, acked>>
\* openGithubCustody reads the head, which must be the expected commit, then
\* commits that never change, back to the genesis. Nobody may be writing. The
\* files are extracted and the claim begins.
History(s) ==
  /\ pc[s] = "new"
  /\ HistoryFits(ref)
  /\ commits[ref].writer = NoWriter
  /\ head' = [head EXCEPT ![s] = ref]
  /\ files' = [files EXCEPT ![s] = commits[ref].files]
  /\ Goto(s, "check")
  /\ UNCHANGED <<repository, phase, new, due, posts, acked>>

\* publish: the head has not moved.
Check(s) ==
  /\ pc[s] = "check" /\ ref = head[s]
  /\ Goto(s, "build")
  /\ UNCHANGED <<repository, phase, head, files, new, due, posts, acked>>

\* publish: the blob, the tree and the commit, which continues the snapshot.
Build(s) ==
  /\ pc[s] = "build" /\ Len(commits) < MaxCommits
  /\ Continuity(commits[head[s]].files, files[s])
  /\ LET id == Len(commits) + 1
     IN  /\ commits' = Append(commits,
              [parent |-> head[s], line |-> commits[head[s]].line \cup {id},
               writer |-> IF phase[s] = "HANDOFF" THEN NoWriter ELSE s, files |-> files[s]])
         /\ new' = [new EXCEPT ![s] = id]
  /\ Goto(s, "patch")
  /\ UNCHANGED <<ref, late, phase, head, files, due, posts, acked>>

\* Mutation of Patch: force: true.
PatchForced(s) ==
  /\ pc[s] = "patch"
  /\ ref' = new[s]
  /\ Goto(s, "confirm")
  /\ UNCHANGED <<commits, late, phase, head, files, new, due, posts, acked>>
\* publish: the PATCH with force: false, answered.
Patch(s) ==
  /\ pc[s] = "patch"
  /\ FastForward(new[s]) /\ ref' = new[s]
  /\ Goto(s, "confirm")
  /\ UNCHANGED <<commits, late, phase, head, files, new, due, posts, acked>>

\* The answer does not come: the session is poisoned, the PATCH has landed, is lost
\* or is still on its way.
Unanswered(s) ==
  /\ pc[s] = "patch"
  /\ Goto(s, "poisoned")
  /\ \/ FastForward(new[s]) /\ ref' = new[s] /\ UNCHANGED late
     \/ late' = late \cup {new[s]} /\ UNCHANGED ref
  /\ UNCHANGED <<commits, phase, head, files, new, due, posts, acked>>

LatePatchArrives ==
  \E c \in late :
    /\ late' = late \ {c}
    /\ ref' = IF FastForward(c) THEN c ELSE ref
    /\ UNCHANGED <<commits, pc, phase, head, files, new, due, posts, acked>>

\* publish: the head and the commit are read back.
Confirm(s) ==
  /\ pc[s] = "confirm" /\ ref = new[s]
  /\ head' = [head EXCEPT ![s] = new[s]]
  /\ acked' = acked \cup files[s]
  /\ Goto(s, IF phase[s] = "HANDOFF" THEN "released" ELSE "open")
  /\ UNCHANGED <<repository, phase, files, new, due, posts>>

\* A check or a call of the session fails, or the runner dies.
Poison(s) ==
  /\ pc[s] \notin {"new", "poisoned", "released"}
  /\ Goto(s, "poisoned")
  /\ UNCHANGED <<repository, phase, head, files, new, due, posts, acked>>

\* The task of the session: an exit nobody has recorded yet is recorded and
\* checkpointed.
Record(s) ==
  /\ pc[s] = "open" /\ due[s] = {}
  /\ \E i \in Intent \ files[s] :
       /\ files' = [files EXCEPT ![s] = @ \cup {i}]
       /\ due' = [due EXCEPT ![s] = {i}]
  /\ phase' = [phase EXCEPT ![s] = "WIRE"]
  /\ Goto(s, "check")
  /\ UNCHANGED <<repository, head, new, posts, acked>>

\* beforeSubmit: the session is alive and its checkpoint was confirmed.
Send(s) ==
  /\ pc[s] = "open"
  /\ \E i \in due[s] : posts' = [posts EXCEPT ![i] = @ + 1]
  /\ due' = [due EXCEPT ![s] = {}]
  /\ UNCHANGED <<repository, pc, phase, head, files, new, acked>>

\* releaseGithubCustody.
Release(s) ==
  /\ pc[s] = "open"
  /\ phase' = [phase EXCEPT ![s] = "HANDOFF"]
  /\ Goto(s, "check")
  /\ UNCHANGED <<repository, head, files, new, due, posts, acked>>

Next ==
  \/ \E s \in Session :
       \/ History(s) \/ Check(s) \/ Build(s) \/ Patch(s) \/ Unanswered(s) \/ Confirm(s)
       \/ Poison(s) \/ Record(s) \/ Send(s) \/ Release(s)
  \/ LatePatchArrives

Spec == Init /\ [][Next]_vars

-----------------------------------------------------------------------------
(* Properties *)

CommitType == [parent : Nat, line : SUBSET Nat, writer : Session \cup {NoWriter}, files : SUBSET Intent]
\* Type invariant; head and new name commits, and a snapshot is never larger than the
\* directory made from it.
TypeOK ==
  /\ commits \in Seq(CommitType) /\ Len(commits) > 0
  /\ ref \in 1..Len(commits) /\ late \subseteq 1..Len(commits)
  /\ pc \in [Session -> {"new", "check", "build", "patch", "confirm", "open", "poisoned", "released"}]
  /\ phase \in [Session -> {"CLAIM", "WIRE", "HANDOFF"}]
  /\ head \in [Session -> 1..Len(commits)] /\ new \in [Session -> 1..Len(commits)]
  /\ files \in [Session -> SUBSET Intent] /\ due \in [Session -> SUBSET Intent]
  /\ posts \in [Intent -> Nat] /\ acked \subseteq Intent
  /\ \A s \in Session : commits[head[s]].files \subseteq files[s]

\* A session that has claimed the branch and can still act for it, up to the moment
\* at which its handoff can be visible.
Acts(s) ==
  \/ pc[s] = "open"
  \/ phase[s] = "WIRE" /\ pc[s] \in {"check", "build", "patch", "confirm"}
  \/ phase[s] = "HANDOFF" /\ pc[s] \in {"check", "build", "patch"}
\* However runs overlap and whatever answers are lost, at most one of them acts.
OneWriter == \A s, t \in Session : Acts(s) /\ Acts(t) => s = t

\* An exit is sent once, over all runs.
SentOnce == \A i \in Intent : posts[i] <= 1

\* What was sent is on the branch, so every later run knows of it: the checkpoint
\* comes before the order.
SentIsOnBranch == \A i \in Intent : posts[i] > 0 => i \in commits[ref].files

\* A confirmed checkpoint is never lost, late PATCHes included.
AckedIsOnBranch == acked \subseteq commits[ref].files

\* The branch is the baton: it moves one commit at a time, from nobody to a claimer,
\* by its writer only, and back.
Baton == INSTANCE CustodyBaton WITH holder <- commits[ref].writer, contents <- commits[ref].files
BatonSpec == Baton!Spec

-----------------------------------------------------------------------------
(* The inductive invariant of PaperCustodyProofs *)

Writer(n) == commits[n].writer
\* A commit against its parent: the branch is claimed, written or handed back.
Claims(p, n) == Writer(p) = NoWriter /\ Writer(n) \in Session /\ commits[n].files = commits[p].files
Writes(p, n) ==
  /\ Writer(p) \in Session /\ Writer(n) = Writer(p)
  /\ \E i \in Intent \ commits[p].files : commits[n].files = commits[p].files \cup {i}
HandsBack(p, n) == Writer(p) \in Session /\ Writer(n) = NoWriter /\ commits[n].files = commits[p].files
Passes(p, n) == Claims(p, n) \/ Writes(p, n) \/ HandsBack(p, n)

\* A commit is younger than what it descends from and makes one such step.
Continues(p, n) == p \in 1..(n - 1) /\ commits[n].line = commits[p].line \cup {n} /\ Passes(p, n)
Link(n) ==
  /\ n \in commits[n].line /\ commits[n].line \subseteq 1..n
  /\ n > 1 => Continues(commits[n].parent, n)
Linked == \A n \in 1..Len(commits) : Link(n)

\* A commit that may still become the head continues a commit of the branch; what was
\* given up was made by nobody who is alive.
LateIsDead ==
  \A c \in late :
    /\ c > 1 /\ commits[c].parent \in commits[ref].line
    /\ LET w == Writer(commits[c].parent) IN w = NoWriter \/ pc[w] = "poisoned"

\* What a session believes: its head is on the branch, and says who it is.
Publishing(s) == pc[s] \in {"check", "build", "patch", "confirm"}
KnowsItsHead(s) ==
  /\ pc[s] \notin {"new", "poisoned"} => head[s] \in commits[ref].line
  /\ Publishing(s) /\ phase[s] = "CLAIM" =>
       Writer(head[s]) = NoWriter /\ files[s] = commits[head[s]].files /\ due[s] = {}
  /\ Publishing(s) /\ phase[s] = "WIRE" =>
       /\ Writer(head[s]) = s
       /\ \E i \in Intent \ commits[head[s]].files : files[s] = commits[head[s]].files \cup {i}
  /\ Publishing(s) /\ phase[s] = "HANDOFF" =>
       Writer(head[s]) = s /\ files[s] = commits[head[s]].files
  /\ pc[s] = "open" =>
       Writer(head[s]) = s /\ files[s] = commits[head[s]].files /\ phase[s] # "HANDOFF"
  /\ pc[s] = "new" => phase[s] = "CLAIM" /\ due[s] = {}
\* What it is about to publish is its own.
KnowsItsCommit(s) ==
  pc[s] \in {"patch", "confirm"} =>
    /\ new[s] > 1 /\ commits[new[s]].parent = head[s] /\ commits[new[s]].files = files[s]
    /\ Writer(new[s]) = IF phase[s] = "HANDOFF" THEN NoWriter ELSE s
\* While it acts the branch stands where it left it, and what it is due to send is unsent.
HoldsBranch(s) ==
  Acts(s) => /\ ref = IF pc[s] = "confirm" THEN new[s] ELSE head[s]
             /\ \A i \in due[s] : posts[i] = 0

CustodyInv ==
  /\ TypeOK /\ Linked /\ LateIsDead
  /\ \A s \in Session : due[s] \subseteq files[s] /\ KnowsItsHead(s) /\ KnowsItsCommit(s) /\ HoldsBranch(s)
  /\ SentOnce /\ SentIsOnBranch /\ AckedIsOnBranch
=============================================================================
