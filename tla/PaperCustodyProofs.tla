------------------------- MODULE PaperCustodyProofs -------------------------
(***************************************************************************)
(* Theorems about PaperCustody, for any number of sessions, intents and    *)
(* commits.                                                                *)
(***************************************************************************)
EXTENDS PaperCustody, TLAPS

-----------------------------------------------------------------------------
(* The shape of the branch                                                 *)

\* The fields of a commit.
LEMMA CommitFields ==
  ASSUME TypeOK, NEW n \in 1..Len(commits)
  PROVE  /\ commits[n] \in CommitType
         /\ commits[n].parent \in Nat /\ commits[n].line \subseteq Nat
         /\ commits[n].writer \in Session \cup {NoWriter} /\ commits[n].files \subseteq Intent
<1>1. commits[n] \in CommitType
  BY DEF TypeOK
<1>q. QED BY <1>1 DEF CommitType

\* The head moves to a child of itself only: a commit whose parent is on the branch
\* and that descends from the head continues the head.
LEMMA HeadMovesToChild ==
  ASSUME TypeOK, Linked, NEW c \in 1..Len(commits), c > 1,
         commits[c].parent \in commits[ref].line, FastForward(c)
  PROVE  /\ ref = c \/ ref = commits[c].parent
         /\ commits[ref].line \subseteq commits[c].line
         /\ commits[ref].files \subseteq commits[c].files
         /\ ref # c => Passes(ref, c)
<1> DEFINE p == commits[c].parent
<1>1. p \in 1..(c - 1) /\ commits[c].line = commits[p].line \cup {c} /\ Passes(p, c)
  BY DEF Linked, Link, Continues, TypeOK
<1>2. ref \in 1..Len(commits) /\ p \in 1..Len(commits)
  BY <1>1 DEF TypeOK
<1>3. p <= ref
  BY <1>2 DEF Linked, Link, Continues
<1>4. ref = c \/ ref <= p
  BY <1>1, <1>2 DEF Linked, Link, Continues, FastForward
<1>5. ref = c \/ ref = p
  BY <1>2, <1>3, <1>4
<1>6. commits[p].files \subseteq commits[c].files
  BY <1>1 DEF Passes, Claims, Writes, HandsBack
<1>q. QED BY <1>1, <1>5, <1>6

\* Who acts is the writer that the head of the branch names.
LEMMA ActorIsWriter ==
  ASSUME CustodyInv, NEW s \in Session, Acts(s)
  PROVE  Writer(ref) = s /\ pc[s] # "poisoned"
BY DEF CustodyInv, Acts, HoldsBranch, KnowsItsHead, KnowsItsCommit, Publishing, TypeOK

\* At most one session acts, in every state of the inductive invariant.
LEMMA InvGivesOneWriter == CustodyInv => OneWriter
BY ActorIsWriter DEF OneWriter

-----------------------------------------------------------------------------
(* Steps that move the head                                                *)

\* If the head moves to c, no session was acting, except the one that made c.
LEMMA MoveStep ==
  ASSUME CustodyInv, NEW c \in 1..Len(commits), c > 1,
         commits[c].parent \in commits[ref].line, FastForward(c),
         ref' = c, UNCHANGED <<commits, posts, acked>>
  PROVE  /\ commits[ref].line \subseteq commits'[ref'].line
         /\ SentIsOnBranch' /\ AckedIsOnBranch' /\ SentOnce'
         /\ Linked'
<1>1. commits[ref].files \subseteq commits[c].files /\ commits[ref].line \subseteq commits[c].line
  BY HeadMovesToChild DEF CustodyInv
<1>2. SentIsOnBranch'
  BY <1>1 DEF CustodyInv, SentIsOnBranch
<1>3. AckedIsOnBranch'
  BY <1>1 DEF CustodyInv, AckedIsOnBranch
<1>4. SentOnce' /\ Linked'
  BY DEF CustodyInv, SentOnce, Linked, Link, Continues, Passes, Claims, Writes, HandsBack, Writer
<1>q. QED BY <1>1, <1>2, <1>3, <1>4

-----------------------------------------------------------------------------
(* Steps that leave the repository alone                                   *)

\* The branch part of the invariant is about the repository and the dead.
LEMMA QuietRepository ==
  ASSUME CustodyInv, UNCHANGED repository,
         \A s \in Session : pc[s] = "poisoned" => pc'[s] = "poisoned"
  PROVE  Linked' /\ LateIsDead'
<1> USE DEF CustodyInv, repository
<1>1. Linked'
  BY DEF Linked, Link, Continues, Passes, Claims, Writes, HandsBack, Writer
<1>2. LateIsDead'
  <2> SUFFICES ASSUME NEW c \in late
               PROVE LET w == Writer(commits[c].parent) IN w = NoWriter \/ pc'[w] = "poisoned"
    BY DEF LateIsDead, Writer
  <2>1. c \in 1..Len(commits) /\ c > 1
    BY DEF TypeOK, LateIsDead
  <2>2. commits[c].parent \in 1..Len(commits)
    <3>1. commits[c].parent \in 1..(c - 1)
      BY <2>1 DEF Linked, Link, Continues
    <3>q. QED BY <2>1, <3>1
  <2>3. Writer(commits[c].parent) \in Session \cup {NoWriter}
    BY <2>2, CommitFields DEF Writer
  <2>4. Writer(commits[c].parent) = NoWriter \/ pc[Writer(commits[c].parent)] = "poisoned"
    BY DEF LateIsDead
  <2>q. QED BY <2>3, <2>4 DEF Writer
<1>q. QED BY <1>1, <1>2

SessionInv(s) == due[s] \subseteq files[s] /\ KnowsItsHead(s) /\ KnowsItsCommit(s) /\ HoldsBranch(s)

\* A step of one session that leaves the repository, the orders and the others alone.
LEMMA OthersUntouched ==
  ASSUME CustodyInv, NEW s \in Session, NEW t \in Session, s # t,
         UNCHANGED <<commits, ref, posts>>,
         pc'[t] = pc[t], phase'[t] = phase[t], head'[t] = head[t], files'[t] = files[t],
         new'[t] = new[t], due'[t] = due[t]
  PROVE  SessionInv(t)'
BY DEF CustodyInv, SessionInv, KnowsItsHead, KnowsItsCommit, HoldsBranch, Acts, Publishing, Writer

LEMMA HistoryStep ==
  ASSUME CustodyInv, NEW s \in Session, History(s) PROVE CustodyInv'
<1> USE DEF CustodyInv, TypeOK, History, Goto, repository
<1>1. commits[ref].files \subseteq Intent /\ ref \in commits[ref].line
  BY CommitFields DEF Linked, Link, Continues
<1>2. TypeOK'
  BY <1>1
<1>3. Linked' /\ LateIsDead'
  BY QuietRepository
<1>4. SessionInv(s)'
  BY <1>1 DEF SessionInv, KnowsItsHead, KnowsItsCommit, HoldsBranch, Acts, Publishing, Writer
<1>5. \A t \in Session \ {s} : SessionInv(t)'
  BY OthersUntouched
<1>6. SentOnce' /\ SentIsOnBranch' /\ AckedIsOnBranch'
  BY DEF SentOnce, SentIsOnBranch, AckedIsOnBranch
<1>q. QED BY <1>2, <1>3, <1>4, <1>5, <1>6 DEF SessionInv

LEMMA CheckStep ==
  ASSUME CustodyInv, NEW s \in Session, Check(s) PROVE CustodyInv'
<1> USE DEF CustodyInv, TypeOK, Check, Goto, repository
<1>2. TypeOK'
  OBVIOUS
<1>3. Linked' /\ LateIsDead'
  BY QuietRepository
<1>4. SessionInv(s)'
  <2>1. /\ pc[s] = "check" /\ pc'[s] = "build" /\ phase'[s] = phase[s] /\ head'[s] = head[s]
        /\ files'[s] = files[s] /\ due'[s] = due[s] /\ commits' = commits /\ ref' = ref
    OBVIOUS
  <2>2. due'[s] \subseteq files'[s] /\ KnowsItsHead(s)'
    BY <2>1 DEF KnowsItsHead, Publishing, Writer
  <2>3. KnowsItsCommit(s)'
    BY <2>1 DEF KnowsItsHead, KnowsItsCommit, Publishing, Writer
  <2>4. HoldsBranch(s)'
    BY <2>1 DEF HoldsBranch, KnowsItsHead, KnowsItsCommit, Acts, Publishing, Writer, SentIsOnBranch
  <2>q. QED BY <2>2, <2>3, <2>4 DEF SessionInv
<1>5. \A t \in Session \ {s} : SessionInv(t)'
  BY OthersUntouched
<1>6. SentOnce' /\ SentIsOnBranch' /\ AckedIsOnBranch'
  BY DEF SentOnce, SentIsOnBranch, AckedIsOnBranch
<1>q. QED BY <1>2, <1>3, <1>4, <1>5, <1>6 DEF SessionInv

LEMMA ConfirmStep ==
  ASSUME CustodyInv, NEW s \in Session, Confirm(s) PROVE CustodyInv'
<1> USE DEF CustodyInv, TypeOK, Confirm, Goto, repository
<1>1. commits[new[s]].files = files[s] /\ ref = new[s] /\ ref \in commits[ref].line
  BY DEF KnowsItsCommit, Linked, Link
<1>2. TypeOK'
  BY <1>1
<1>3. Linked' /\ LateIsDead'
  BY QuietRepository
<1>4. SessionInv(s)'
  <2>1. /\ pc[s] = "confirm" /\ pc'[s] = IF phase[s] = "HANDOFF" THEN "released" ELSE "open"
        /\ phase'[s] = phase[s] /\ head'[s] = new[s] /\ new'[s] = new[s]
        /\ files'[s] = files[s] /\ due'[s] = due[s] /\ UNCHANGED <<commits, ref, posts>>
    OBVIOUS
  <2>2. /\ due[s] \subseteq files[s] /\ Writer(new[s]) = IF phase[s] = "HANDOFF" THEN NoWriter ELSE s
        /\ phase[s] \in {"CLAIM", "WIRE", "HANDOFF"}
    BY <2>1 DEF KnowsItsCommit
  <2>3. \A i \in due[s] : posts[i] = 0 \/ phase[s] = "HANDOFF"
    BY <2>1 DEF HoldsBranch, Acts, KnowsItsHead, Publishing
  <2> HIDE DEF CustodyInv, TypeOK, Confirm, Goto, repository
  <2>4. KnowsItsHead(s)' /\ KnowsItsCommit(s)' /\ HoldsBranch(s)'
    BY <1>1, <2>1, <2>2, <2>3 DEF KnowsItsHead, KnowsItsCommit, HoldsBranch, Acts, Publishing, Writer
  <2>q. QED BY <2>1, <2>2, <2>4 DEF SessionInv
<1>5. \A t \in Session \ {s} : SessionInv(t)'
  BY OthersUntouched
<1>6. SentOnce' /\ SentIsOnBranch' /\ AckedIsOnBranch'
  BY <1>1 DEF SentOnce, SentIsOnBranch, AckedIsOnBranch
<1>q. QED BY <1>2, <1>3, <1>4, <1>5, <1>6 DEF SessionInv

LEMMA PoisonStep ==
  ASSUME CustodyInv, NEW s \in Session, Poison(s) PROVE CustodyInv'
<1> USE DEF CustodyInv, TypeOK, Poison, Goto, repository
<1>2. TypeOK'
  OBVIOUS
<1>3. Linked' /\ LateIsDead'
  BY QuietRepository
<1>4. SessionInv(s)'
  BY DEF SessionInv, KnowsItsHead, KnowsItsCommit, HoldsBranch, Acts, Publishing, Writer
<1>5. \A t \in Session \ {s} : SessionInv(t)'
  BY OthersUntouched
<1>6. SentOnce' /\ SentIsOnBranch' /\ AckedIsOnBranch'
  BY DEF SentOnce, SentIsOnBranch, AckedIsOnBranch
<1>q. QED BY <1>2, <1>3, <1>4, <1>5, <1>6 DEF SessionInv

LEMMA RecordStep ==
  ASSUME CustodyInv, NEW s \in Session, Record(s) PROVE CustodyInv'
<1> USE DEF CustodyInv, TypeOK, Record, Goto, repository
<1>2. TypeOK'
  OBVIOUS
<1>3. Linked' /\ LateIsDead'
  BY QuietRepository
<1>4. SessionInv(s)'
  <2>1. PICK i \in Intent \ files[s] : files'[s] = files[s] \cup {i} /\ due'[s] = {i}
    OBVIOUS
  <2>2. /\ pc[s] = "open" /\ pc'[s] = "check" /\ phase'[s] = "WIRE" /\ head'[s] = head[s]
        /\ UNCHANGED <<commits, ref, posts>>
    OBVIOUS
  <2>3. /\ Writer(head[s]) = s /\ files[s] = commits[head[s]].files
        /\ head[s] = ref /\ head[s] \in commits[ref].line
    BY <2>2 DEF KnowsItsHead, HoldsBranch, Acts
  <2>4. posts[i] = 0
    BY <2>1, <2>3 DEF SentIsOnBranch
  <2> HIDE DEF CustodyInv, TypeOK, Record, Goto, repository
  <2>5. KnowsItsHead(s)' /\ KnowsItsCommit(s)' /\ HoldsBranch(s)'
    BY <2>1, <2>2, <2>3, <2>4 DEF KnowsItsHead, KnowsItsCommit, HoldsBranch, Acts, Publishing, Writer
  <2>q. QED BY <2>1, <2>5 DEF SessionInv
<1>5. \A t \in Session \ {s} : SessionInv(t)'
  BY OthersUntouched
<1>6. SentOnce' /\ SentIsOnBranch' /\ AckedIsOnBranch'
  BY DEF SentOnce, SentIsOnBranch, AckedIsOnBranch
<1>q. QED BY <1>2, <1>3, <1>4, <1>5, <1>6 DEF SessionInv

LEMMA ReleaseStep ==
  ASSUME CustodyInv, NEW s \in Session, Release(s) PROVE CustodyInv'
<1> USE DEF CustodyInv, TypeOK, Release, Goto, repository
<1>2. TypeOK'
  OBVIOUS
<1>3. Linked' /\ LateIsDead'
  BY QuietRepository
<1>4. SessionInv(s)'
  <2>1. /\ pc[s] = "open" /\ pc'[s] = "check" /\ phase'[s] = "HANDOFF" /\ head'[s] = head[s]
        /\ files'[s] = files[s] /\ due'[s] = due[s] /\ UNCHANGED <<commits, ref, posts>>
    OBVIOUS
  <2>2. /\ due[s] \subseteq files[s] /\ Writer(head[s]) = s /\ files[s] = commits[head[s]].files
        /\ head[s] = ref /\ head[s] \in commits[ref].line /\ \A i \in due[s] : posts[i] = 0
    BY <2>1 DEF KnowsItsHead, HoldsBranch, Acts
  <2> HIDE DEF CustodyInv, TypeOK, Release, Goto, repository
  <2>3. KnowsItsHead(s)' /\ KnowsItsCommit(s)' /\ HoldsBranch(s)'
    BY <2>1, <2>2 DEF KnowsItsHead, KnowsItsCommit, HoldsBranch, Acts, Publishing, Writer
  <2>q. QED BY <2>1, <2>2, <2>3 DEF SessionInv
<1>5. \A t \in Session \ {s} : SessionInv(t)'
  BY OthersUntouched
<1>6. SentOnce' /\ SentIsOnBranch' /\ AckedIsOnBranch'
  BY DEF SentOnce, SentIsOnBranch, AckedIsOnBranch
<1>q. QED BY <1>2, <1>3, <1>4, <1>5, <1>6 DEF SessionInv

LEMMA SendStep ==
  ASSUME CustodyInv, NEW s \in Session, Send(s) PROVE CustodyInv'
<1> USE DEF CustodyInv, TypeOK, repository
<1>0. PICK i \in due[s] : posts' = [posts EXCEPT ![i] = @ + 1]
  BY DEF Send
<1>1. /\ pc[s] = "open" /\ due' = [due EXCEPT ![s] = {}]
      /\ UNCHANGED <<repository, pc, phase, head, files, new, acked>>
  BY DEF Send
<1>2. i \in Intent /\ posts[i] = 0 /\ Acts(s) /\ i \in commits[ref].files
  BY <1>0, <1>1 DEF HoldsBranch, Acts, KnowsItsHead
<1>3. TypeOK'
  BY <1>0, <1>1, <1>2
<1>4. Linked' /\ LateIsDead'
  BY <1>1, QuietRepository
<1>5. SessionInv(s)'
  <2>1. /\ pc[s] = "open" /\ pc'[s] = pc[s] /\ phase'[s] = phase[s] /\ head'[s] = head[s]
        /\ files'[s] = files[s] /\ due'[s] = {} /\ commits' = commits /\ ref' = ref
    BY <1>1
  <2>2. /\ KnowsItsHead(s) /\ ref = head[s]
    BY <1>1 DEF HoldsBranch, Acts
  <2> HIDE DEF CustodyInv, TypeOK, repository
  <2>q. QED
    BY <2>1, <2>2 DEF SessionInv, KnowsItsHead, KnowsItsCommit, HoldsBranch, Acts, Publishing, Writer
<1>6. ASSUME NEW t \in Session \ {s} PROVE SessionInv(t)'
  <2>1. ~Acts(t)
    BY <1>2, InvGivesOneWriter DEF OneWriter
  <2>q. QED
    BY <1>1, <2>1 DEF SessionInv, KnowsItsHead, KnowsItsCommit, HoldsBranch, Acts, Publishing, Writer
<1>7. SentOnce' /\ SentIsOnBranch' /\ AckedIsOnBranch'
  BY <1>0, <1>1, <1>2 DEF SentOnce, SentIsOnBranch, AckedIsOnBranch
<1>q. QED BY <1>3, <1>4, <1>5, <1>6, <1>7 DEF SessionInv

-----------------------------------------------------------------------------
(* Steps that change the repository                                        *)

\* Commits never change.
LEMMA PassesKept ==
  ASSUME NEW p, NEW n, Passes(p, n), commits'[p] = commits[p], commits'[n] = commits[n]
  PROVE  /\ commits'[p].writer = Writer(p) /\ Passes(p, n)'
         /\ commits'[n].parent = commits[n].parent /\ commits'[n].line = commits[n].line
BY DEF Passes, Claims, Writes, HandsBack, Writer

\* A commit is created; nothing refers to it but its maker.
LEMMA BuildStep ==
  ASSUME CustodyInv, NEW s \in Session, Build(s) PROVE CustodyInv'
<1>0. PICK id, h, made :
        /\ id = Len(commits) + 1 /\ h = head[s]
        /\ made = [parent |-> head[s], line |-> commits[head[s]].line \cup {id},
                   writer |-> IF phase[s] = "HANDOFF" THEN NoWriter ELSE s, files |-> files[s]]
  OBVIOUS
<1>1. /\ pc[s] = "build" /\ commits' = Append(commits, made)
      /\ new' = [new EXCEPT ![s] = id] /\ pc' = [pc EXCEPT ![s] = "patch"]
      /\ UNCHANGED <<ref, late, phase, head, files, due, posts, acked>>
  BY <1>0 DEF Build, Goto
<1>2. h \in 1..Len(commits) /\ commits \in Seq(CommitType)
  BY <1>0 DEF CustodyInv, TypeOK
<1>3. made \in CommitType
  <2>1. /\ commits[h].line \subseteq Nat /\ id \in Nat /\ h \in Nat
    BY <1>0, <1>2, CommitFields DEF CustodyInv
  <2>2. files[s] \in SUBSET Intent
    BY DEF CustodyInv, TypeOK
  <2>q. QED BY <1>0, <2>1, <2>2 DEF CommitType
<1>4. /\ Len(commits') = id /\ commits'[id] = made
      /\ \A n \in 1..Len(commits) : commits'[n] = commits[n]
      /\ commits' \in Seq(CommitType) /\ id \in Nat /\ id > 1
  BY <1>0, <1>1, <1>2, <1>3
<1>5. TypeOK'
  BY <1>0, <1>1, <1>4 DEF CustodyInv, TypeOK
<1>6. Passes(h, id)'
  <2>1. /\ Publishing(s) /\ KnowsItsHead(s) /\ phase[s] \in {"CLAIM", "WIRE", "HANDOFF"}
    BY <1>1 DEF CustodyInv, TypeOK, Publishing
  <2>2. /\ commits'[h] = commits[h] /\ h = head[s]
        /\ commits'[id].writer = IF phase[s] = "HANDOFF" THEN NoWriter ELSE s
        /\ commits'[id].files = files[s] /\ head'[s] = head[s]
    BY <1>0, <1>1, <1>2, <1>4
  <2>3. CASE phase[s] = "CLAIM"
    BY <2>1, <2>2, <2>3 DEF KnowsItsHead, Passes, Claims, Writer
  <2>4. CASE phase[s] = "WIRE"
    BY <2>1, <2>2, <2>4 DEF KnowsItsHead, Passes, Writes, Writer
  <2>5. CASE phase[s] = "HANDOFF"
    BY <2>1, <2>2, <2>5 DEF KnowsItsHead, Passes, HandsBack, Writer
  <2>q. QED BY <2>1, <2>3, <2>4, <2>5
<1>7. Linked'
  <2> SUFFICES ASSUME NEW n \in 1..id PROVE Link(n)'
    BY <1>4 DEF Linked
  <2>1. CASE n = id
    <3>1. commits[h].line \subseteq 1..h /\ h \in 1..(id - 1) /\ h \in commits[h].line
      BY <1>0, <1>2 DEF CustodyInv, Linked, Link
    <3>2. /\ commits'[id].parent = h /\ commits'[id].line = commits[h].line \cup {id}
          /\ commits'[h] = commits[h]
      BY <1>0, <1>2, <1>4
    <3>q. QED BY <1>1, <1>4, <1>6, <2>1, <3>1, <3>2 DEF Link, Continues
  <2>2. CASE n # id
    <3>1. n \in 1..Len(commits)
      BY <1>0, <1>2, <2>2
    <3>2. n > 1 => commits[n].parent \in 1..(n - 1) /\ commits[n].parent \in 1..Len(commits)
      BY <3>1 DEF CustodyInv, Linked, Link, Continues
    <3>3. commits'[n] = commits[n] /\ (n > 1 => commits'[commits[n].parent] = commits[commits[n].parent])
      BY <1>4, <3>1, <3>2
    <3>4. n > 1 => Passes(commits[n].parent, n)'
      BY <3>1, <3>3, PassesKept DEF CustodyInv, Linked, Link, Continues
    <3>q. QED BY <3>1, <3>2, <3>3, <3>4 DEF CustodyInv, Linked, Link, Continues
  <2>q. QED BY <2>1, <2>2
<1>8. LateIsDead'
  <2> SUFFICES ASSUME NEW c \in late
      PROVE /\ c > 1 /\ commits'[c].parent \in commits'[ref].line
            /\ LET w == Writer(commits[c].parent)' IN w = NoWriter \/ pc'[w] = "poisoned"
    BY <1>1 DEF LateIsDead, Writer
  <2>1. c \in 1..Len(commits) /\ c > 1 /\ ref \in 1..Len(commits)
    BY DEF CustodyInv, LateIsDead, TypeOK
  <2>2. commits[c].parent \in 1..Len(commits)
    BY <2>1 DEF CustodyInv, Linked, Link, Continues
  <2>3. Writer(commits[c].parent) \in Session \cup {NoWriter}
    BY <2>2, CommitFields DEF CustodyInv, Writer
  <2>q. QED BY <1>1, <1>4, <2>1, <2>2, <2>3 DEF CustodyInv, LateIsDead, Writer, TypeOK
<1>9. SessionInv(s)'
  <2>1. /\ due[s] \subseteq files[s] /\ KnowsItsHead(s) /\ HoldsBranch(s)
        /\ phase[s] \in {"CLAIM", "WIRE", "HANDOFF"} /\ ref \in 1..Len(commits)
    BY DEF CustodyInv, TypeOK
  <2>2. /\ pc'[s] = "patch" /\ new'[s] = id /\ phase'[s] = phase[s] /\ head'[s] = h /\ head[s] = h
        /\ files'[s] = files[s] /\ due'[s] = due[s] /\ UNCHANGED <<ref, posts>>
    BY <1>0, <1>1 DEF CustodyInv, TypeOK
  <2>3. /\ commits'[h] = commits[h] /\ commits'[ref] = commits[ref]
        /\ commits'[id].parent = h /\ commits'[id].files = files[s]
        /\ commits'[id].writer = IF phase[s] = "HANDOFF" THEN NoWriter ELSE s
    BY <1>0, <1>2, <1>4, <2>1
  <2>4. KnowsItsHead(s)'
    BY <1>1, <2>1, <2>2, <2>3 DEF KnowsItsHead, Publishing, Writer
  <2>5. KnowsItsCommit(s)'
    BY <1>4, <2>2, <2>3 DEF KnowsItsCommit, Writer
  <2>6. HoldsBranch(s)'
    BY <1>1, <2>1, <2>2 DEF HoldsBranch, Acts
  <2>q. QED BY <2>1, <2>2, <2>4, <2>5, <2>6 DEF SessionInv
<1>10. ASSUME NEW t \in Session \ {s} PROVE SessionInv(t)'
  <2>1. /\ due[t] \subseteq files[t] /\ KnowsItsHead(t) /\ KnowsItsCommit(t) /\ HoldsBranch(t)
        /\ ref \in 1..Len(commits) /\ head[t] \in 1..Len(commits) /\ new[t] \in 1..Len(commits)
    BY DEF CustodyInv, TypeOK
  <2>2. /\ pc'[t] = pc[t] /\ new'[t] = new[t] /\ phase'[t] = phase[t] /\ head'[t] = head[t]
        /\ files'[t] = files[t] /\ due'[t] = due[t] /\ UNCHANGED <<ref, posts>>
    BY <1>1 DEF CustodyInv, TypeOK
  <2>3. /\ commits'[head[t]] = commits[head[t]] /\ commits'[ref] = commits[ref]
        /\ commits'[new[t]] = commits[new[t]]
    BY <1>4, <2>1
  <2>4. KnowsItsHead(t)'
    BY <2>1, <2>2, <2>3 DEF KnowsItsHead, Publishing, Writer
  <2>5. KnowsItsCommit(t)'
    BY <2>1, <2>2, <2>3 DEF KnowsItsCommit, Writer
  <2>6. HoldsBranch(t)'
    BY <2>1, <2>2 DEF HoldsBranch, Acts
  <2>q. QED BY <2>1, <2>2, <2>4, <2>5, <2>6 DEF SessionInv
<1>11. SentOnce' /\ SentIsOnBranch' /\ AckedIsOnBranch'
  BY <1>0, <1>1, <1>4 DEF CustodyInv, TypeOK, SentOnce, SentIsOnBranch, AckedIsOnBranch
<1>q. QED BY <1>5, <1>7, <1>8, <1>9, <1>10, <1>11 DEF CustodyInv, SessionInv

\* The head moves to c and t was not acting, or nothing moves.
LEMMA MoveKeepsSession ==
  ASSUME CustodyInv, NEW c \in 1..Len(commits), commits[ref].line \subseteq commits[c].line,
         ref' = c, UNCHANGED <<commits, posts>>,
         NEW t \in Session, ref = c \/ ~Acts(t),
         pc'[t] = pc[t], phase'[t] = phase[t], head'[t] = head[t], files'[t] = files[t],
         new'[t] = new[t], due'[t] = due[t]
  PROVE  SessionInv(t)'
<1>1. due[t] \subseteq files[t] /\ KnowsItsHead(t) /\ KnowsItsCommit(t) /\ HoldsBranch(t)
  BY DEF CustodyInv
<1>2. KnowsItsHead(t)'
  BY <1>1 DEF KnowsItsHead, Publishing, Writer
<1>3. KnowsItsCommit(t)'
  BY <1>1 DEF KnowsItsCommit, Writer
<1>4. HoldsBranch(t)'
  BY <1>1 DEF HoldsBranch, Acts
<1>q. QED BY <1>1, <1>2, <1>3, <1>4 DEF SessionInv

\* What the server knows of a commit that s is about to publish.
LEMMA PublishedCommit ==
  ASSUME CustodyInv, NEW s \in Session, pc[s] \in {"patch", "confirm"}
  PROVE  /\ new[s] \in 1..Len(commits) /\ new[s] > 1
         /\ commits[new[s]].parent = head[s] /\ head[s] \in commits[ref].line
         /\ Writer(head[s]) = NoWriter \/ Writer(head[s]) = s
<1>1. /\ KnowsItsHead(s) /\ KnowsItsCommit(s) /\ phase[s] \in {"CLAIM", "WIRE", "HANDOFF"}
      /\ new[s] \in 1..Len(commits)
  BY DEF CustodyInv, TypeOK
<1>q. QED BY <1>1 DEF KnowsItsHead, KnowsItsCommit, Publishing

\* If the PATCH of s moves the head, nobody else was acting.
LEMMA PatchIsAlone ==
  ASSUME CustodyInv, NEW s \in Session, pc[s] \in {"patch", "confirm"}, FastForward(new[s]),
         NEW t \in Session, t # s
  PROVE  ref = new[s] \/ ~Acts(t)
<1>1. ref = new[s] \/ ref = head[s]
  BY PublishedCommit, HeadMovesToChild DEF CustodyInv
<1>2. Acts(t) => Writer(ref) = t
  BY ActorIsWriter
<1>q. QED BY <1>1, <1>2, PublishedCommit, CustodyAssumption

LEMMA PatchStep ==
  ASSUME CustodyInv, NEW s \in Session, Patch(s) PROVE CustodyInv'
<1>1. /\ pc[s] = "patch" /\ FastForward(new[s]) /\ ref' = new[s] /\ pc' = [pc EXCEPT ![s] = "confirm"]
      /\ UNCHANGED <<commits, late, phase, head, files, new, due, posts, acked>>
  BY DEF Patch, Goto
<1>2. /\ commits[ref].line \subseteq commits'[ref'].line
      /\ SentIsOnBranch' /\ AckedIsOnBranch' /\ SentOnce' /\ Linked'
  <2>1. new[s] \in 1..Len(commits) /\ new[s] > 1 /\ commits[new[s]].parent \in commits[ref].line
    BY <1>1, PublishedCommit
  <2>q. QED BY <1>1, <2>1, MoveStep
<1>3. TypeOK'
  BY <1>1 DEF CustodyInv, TypeOK
<1>4. LateIsDead'
  <2>1. \A w \in Session : pc[w] = "poisoned" => pc'[w] = "poisoned"
    BY <1>1 DEF CustodyInv, TypeOK
  <2> SUFFICES ASSUME NEW c \in late
      PROVE /\ c > 1 /\ commits[c].parent \in commits[ref'].line
            /\ Writer(commits[c].parent) = NoWriter \/ pc'[Writer(commits[c].parent)] = "poisoned"
    BY <1>1 DEF LateIsDead, Writer
  <2>2. c \in 1..Len(commits) /\ c > 1 /\ commits[c].parent \in commits[ref].line
    BY DEF CustodyInv, LateIsDead, TypeOK
  <2>3. commits[c].parent \in 1..(c - 1)
    BY <2>2 DEF CustodyInv, Linked, Link, Continues
  <2>4. Writer(commits[c].parent) \in Session \cup {NoWriter}
    BY <2>2, <2>3, CommitFields DEF CustodyInv, Writer
  <2>5. Writer(commits[c].parent) = NoWriter \/ pc[Writer(commits[c].parent)] = "poisoned"
    BY DEF CustodyInv, LateIsDead
  <2>q. QED BY <1>1, <1>2, <2>1, <2>2, <2>4, <2>5
<1>5. SessionInv(s)'
  <2>1. /\ due[s] \subseteq files[s] /\ KnowsItsHead(s) /\ KnowsItsCommit(s) /\ HoldsBranch(s)
        /\ phase[s] \in {"CLAIM", "WIRE", "HANDOFF"} /\ head[s] \in commits[ref].line
    BY <1>1, PublishedCommit DEF CustodyInv, TypeOK
  <2>2. /\ pc'[s] = "confirm" /\ new'[s] = new[s] /\ phase'[s] = phase[s] /\ head'[s] = head[s]
        /\ files'[s] = files[s] /\ due'[s] = due[s]
    BY <1>1 DEF CustodyInv, TypeOK
  <2>3. KnowsItsHead(s)'
    BY <1>1, <1>2, <2>1, <2>2 DEF KnowsItsHead, Publishing, Writer
  <2>4. KnowsItsCommit(s)'
    BY <1>1, <2>1, <2>2 DEF KnowsItsCommit, Writer
  <2>5. HoldsBranch(s)'
    BY <1>1, <2>1, <2>2 DEF HoldsBranch, Acts
  <2>q. QED BY <2>1, <2>2, <2>3, <2>4, <2>5 DEF SessionInv
<1>6. ASSUME NEW t \in Session \ {s} PROVE SessionInv(t)'
  <2>1. ref = new[s] \/ ~Acts(t)
    BY <1>1, PatchIsAlone
  <2>2. new[s] \in 1..Len(commits) /\ pc'[t] = pc[t]
    BY <1>1 DEF CustodyInv, TypeOK
  <2>q. QED BY <1>1, <1>2, <2>1, <2>2, MoveKeepsSession
<1>q. QED BY <1>2, <1>3, <1>4, <1>5, <1>6 DEF CustodyInv, SessionInv

\* A session that is given up, whether its PATCH has landed or is still on its way.
LEMMA UnansweredStep ==
  ASSUME CustodyInv, NEW s \in Session, Unanswered(s) PROVE CustodyInv'
<1>1. /\ pc[s] = "patch" /\ pc' = [pc EXCEPT ![s] = "poisoned"]
      /\ UNCHANGED <<commits, phase, head, files, new, due, posts, acked>>
      /\ \/ FastForward(new[s]) /\ ref' = new[s] /\ late' = late
         \/ late' = late \cup {new[s]} /\ ref' = ref
  BY DEF Unanswered, Goto
<1>2. /\ new[s] \in 1..Len(commits) /\ new[s] > 1
      /\ commits[new[s]].parent = head[s] /\ head[s] \in commits[ref].line
      /\ Writer(head[s]) = NoWriter \/ Writer(head[s]) = s
  BY <1>1, PublishedCommit
<1>3. /\ commits[ref].line \subseteq commits'[ref'].line
      /\ SentIsOnBranch' /\ AckedIsOnBranch' /\ SentOnce' /\ Linked'
  <2>1. CASE FastForward(new[s]) /\ ref' = new[s]
    BY <1>1, <1>2, <2>1, MoveStep
  <2>2. CASE ref' = ref
    BY <1>1, <2>2 DEF CustodyInv, SentIsOnBranch, AckedIsOnBranch, SentOnce, Linked, Link, Continues,
       Passes, Claims, Writes, HandsBack, Writer
  <2>q. QED BY <1>1, <2>1, <2>2
<1>4. TypeOK'
  BY <1>1, <1>2 DEF CustodyInv, TypeOK
<1>5. LateIsDead'
  <2>1. pc'[s] = "poisoned" /\ \A w \in Session : pc[w] = "poisoned" => pc'[w] = "poisoned"
    BY <1>1 DEF CustodyInv, TypeOK
  <2> SUFFICES ASSUME NEW c \in late \cup {new[s]}
      PROVE /\ c > 1 /\ commits[c].parent \in commits[ref'].line
            /\ Writer(commits[c].parent) = NoWriter \/ pc'[Writer(commits[c].parent)] = "poisoned"
    BY <1>1 DEF LateIsDead, Writer
  <2>2. CASE c = new[s]
    BY <1>2, <1>3, <1>1, <2>1, <2>2
  <2>3. CASE c \in late
    <3>1. c \in 1..Len(commits) /\ c > 1 /\ commits[c].parent \in commits[ref].line
      BY <2>3 DEF CustodyInv, LateIsDead, TypeOK
    <3>2. commits[c].parent \in 1..(c - 1)
      BY <3>1 DEF CustodyInv, Linked, Link, Continues
    <3>3. Writer(commits[c].parent) \in Session \cup {NoWriter}
      BY <3>1, <3>2, CommitFields DEF CustodyInv, Writer
    <3>4. Writer(commits[c].parent) = NoWriter \/ pc[Writer(commits[c].parent)] = "poisoned"
      BY <2>3 DEF CustodyInv, LateIsDead
    <3>q. QED BY <1>1, <1>3, <2>1, <3>1, <3>3, <3>4
  <2>q. QED BY <2>2, <2>3
<1>6. SessionInv(s)'
  <2>1. pc'[s] = "poisoned" /\ due'[s] \subseteq files'[s]
    BY <1>1 DEF CustodyInv, TypeOK
  <2>q. QED BY <2>1 DEF SessionInv, KnowsItsHead, KnowsItsCommit, HoldsBranch, Publishing, Acts
<1>7. ASSUME NEW t \in Session \ {s} PROVE SessionInv(t)'
  <2>1. pc'[t] = pc[t] /\ ref \in 1..Len(commits)
    BY <1>1 DEF CustodyInv, TypeOK
  <2>2. CASE FastForward(new[s]) /\ ref' = new[s]
    <3>1. ref = new[s] \/ ~Acts(t)
      BY <1>1, <2>2, PatchIsAlone
    <3>q. QED BY <1>1, <1>2, <1>3, <2>1, <2>2, <3>1, MoveKeepsSession
  <2>3. CASE ref' = ref
    BY <1>1, <2>1, <2>3, MoveKeepsSession
  <2>q. QED BY <1>1, <2>2, <2>3
<1>q. QED BY <1>3, <1>4, <1>5, <1>6, <1>7 DEF CustodyInv, SessionInv

\* A PATCH that was given up lands.
LEMMA LateStep ==
  ASSUME CustodyInv, LatePatchArrives PROVE CustodyInv'
<1>1. PICK c \in late :
        /\ late' = late \ {c} /\ ref' = IF FastForward(c) THEN c ELSE ref
        /\ UNCHANGED <<commits, pc, phase, head, files, new, due, posts, acked>>
  BY DEF LatePatchArrives
<1>2. c \in 1..Len(commits) /\ c > 1 /\ commits[c].parent \in commits[ref].line /\ ref \in 1..Len(commits)
  BY DEF CustodyInv, LateIsDead, TypeOK
<1>3. /\ commits[ref].line \subseteq commits'[ref'].line
      /\ SentIsOnBranch' /\ AckedIsOnBranch' /\ SentOnce' /\ Linked'
  <2>1. CASE FastForward(c)
    BY <1>1, <1>2, <2>1, MoveStep
  <2>2. CASE ~FastForward(c)
    BY <1>1, <2>2 DEF CustodyInv, SentIsOnBranch, AckedIsOnBranch, SentOnce, Linked, Link, Continues,
       Passes, Claims, Writes, HandsBack, Writer
  <2>q. QED BY <2>1, <2>2
<1>4. TypeOK'
  BY <1>1, <1>2 DEF CustodyInv, TypeOK
<1>5. LateIsDead'
  BY <1>1, <1>3 DEF CustodyInv, LateIsDead, Writer
<1>6. ASSUME NEW t \in Session PROVE SessionInv(t)'
  <2>1. CASE FastForward(c)
    <3>1. ref = c \/ ref = commits[c].parent
      BY <1>2, <2>1, HeadMovesToChild DEF CustodyInv
    <3>2. Writer(commits[c].parent) = NoWriter \/ pc[Writer(commits[c].parent)] = "poisoned"
      BY DEF CustodyInv, LateIsDead
    <3>3. ref = c \/ ~Acts(t)
      BY <3>1, <3>2, ActorIsWriter, CustodyAssumption
    <3>q. QED BY <1>1, <1>2, <1>3, <2>1, <3>3, MoveKeepsSession
  <2>2. CASE ~FastForward(c)
    BY <1>1, <1>2, <2>2, MoveKeepsSession
  <2>q. QED BY <2>1, <2>2
<1>q. QED BY <1>3, <1>4, <1>5, <1>6 DEF CustodyInv, SessionInv

-----------------------------------------------------------------------------
(* Theorems                                                                *)

LEMMA CustodyInit == Init => CustodyInv
<1> SUFFICES ASSUME Init PROVE CustodyInv
  OBVIOUS
<1>1. Genesis \in CommitType
  BY DEF Genesis, CommitType
<1>2. /\ commits = <<Genesis>> /\ Len(commits) = 1 /\ commits[1] = Genesis /\ commits \in Seq(CommitType)
  BY <1>1 DEF Init
<1>3. TypeOK
  BY <1>2 DEF Init, TypeOK, Genesis
<1>4. Linked
  BY <1>2 DEF Linked, Link, Genesis
<1>5. \A s \in Session : due[s] \subseteq files[s] /\ KnowsItsHead(s) /\ KnowsItsCommit(s) /\ HoldsBranch(s)
  BY DEF Init, KnowsItsHead, KnowsItsCommit, HoldsBranch, Publishing, Acts
<1>6. LateIsDead /\ SentOnce /\ SentIsOnBranch /\ AckedIsOnBranch
  BY DEF Init, LateIsDead, SentOnce, SentIsOnBranch, AckedIsOnBranch
<1>q. QED BY <1>3, <1>4, <1>5, <1>6 DEF CustodyInv

LEMMA CustodyNext == CustodyInv /\ [Next]_vars => CustodyInv'
<1> SUFFICES ASSUME CustodyInv, [Next]_vars PROVE CustodyInv'
  OBVIOUS
<1>1. ASSUME NEW s \in Session,
             \/ History(s) \/ Check(s) \/ Build(s) \/ Patch(s) \/ Unanswered(s) \/ Confirm(s)
             \/ Poison(s) \/ Record(s) \/ Send(s) \/ Release(s)
      PROVE CustodyInv'
  BY <1>1, HistoryStep, CheckStep, BuildStep, PatchStep, UnansweredStep, ConfirmStep, PoisonStep,
     RecordStep, SendStep, ReleaseStep
<1>2. CASE LatePatchArrives
  BY <1>2, LateStep
<1>3. CASE UNCHANGED vars
  BY <1>3 DEF vars, CustodyInv, TypeOK, Linked, Link, Continues, Passes, Claims, Writes, HandsBack,
     LateIsDead, KnowsItsHead, KnowsItsCommit, HoldsBranch, Publishing, Acts, Writer,
     SentOnce, SentIsOnBranch, AckedIsOnBranch
<1>q. QED BY <1>1, <1>2, <1>3 DEF Next

\* The invariant that carries the rest: how commits are linked, what a live session
\* knows, and that whatever was given up belongs to the dead.
THEOREM CustodyInvariant == Spec => []CustodyInv
BY CustodyInit, CustodyNext, PTL DEF Spec

\* Every variable keeps its type, and no directory falls behind its snapshot.
THEOREM CustodyTypes == Spec => []TypeOK
<1>1. CustodyInv => TypeOK
  BY DEF CustodyInv
<1>q. QED BY <1>1, CustodyInvariant, PTL

\* However many runs overlap, at most one acts for the branch (WRITER_ACTIVE, HEAD_DRIFT
\* and force: false together).
THEOREM OneRunActs == Spec => []OneWriter
BY InvGivesOneWriter, CustodyInvariant, PTL

\* No exit is sent twice by any number of runs.
THEOREM ExitsAreSentOnce == Spec => []SentOnce
<1>1. CustodyInv => SentOnce
  BY DEF CustodyInv
<1>q. QED BY <1>1, CustodyInvariant, PTL

\* The branch knows of every order before it is sent.
THEOREM OrdersAreOnBranch == Spec => []SentIsOnBranch
<1>1. CustodyInv => SentIsOnBranch
  BY DEF CustodyInv
<1>q. QED BY <1>1, CustodyInvariant, PTL

\* What a checkpoint has acknowledged stays on the branch.
THEOREM AcknowledgedIsKept == Spec => []AckedIsOnBranch
<1>1. CustodyInv => AckedIsOnBranch
  BY DEF CustodyInv
<1>q. QED BY <1>1, CustodyInvariant, PTL

\* A head that moves hands the baton over, or writes one line.
LEMMA MovePassesBaton ==
  ASSUME CustodyInv, NEW c \in 1..Len(commits), c > 1,
         commits[c].parent \in commits[ref].line, FastForward(c), ref' = c, UNCHANGED commits
  PROVE  [Baton!Next]_<<commits[ref].writer, commits[ref].files>>
<1>1. CASE ref = c
  BY <1>1
<1>2. CASE ref # c
  <2>1. Passes(ref, c)
    BY <1>2, HeadMovesToChild DEF CustodyInv
  <2>2. CASE Claims(ref, c)
    BY <2>2 DEF Claims, Writer, Baton!Next, Baton!Take
  <2>3. CASE Writes(ref, c)
    BY <2>3 DEF Writes, Writer, Baton!Next, Baton!Extend
  <2>4. CASE HandsBack(ref, c)
    BY <2>4 DEF HandsBack, Writer, Baton!Next, Baton!GiveBack
  <2>q. QED BY <2>1, <2>2, <2>3, <2>4 DEF Passes
<1>q. QED BY <1>1, <1>2

\* Every step of the custody is a step of the baton or none.
LEMMA CustodyStepIsBatonStep ==
  CustodyInv /\ [Next]_vars => [Baton!Next]_<<commits[ref].writer, commits[ref].files>>
<1> SUFFICES ASSUME CustodyInv, [Next]_vars
             PROVE  [Baton!Next]_<<commits[ref].writer, commits[ref].files>>
  OBVIOUS
<1>0. ref \in 1..Len(commits) /\ commits \in Seq(CommitType)
  BY DEF CustodyInv, TypeOK
<1>1. ASSUME NEW s \in Session, Patch(s)
      PROVE  [Baton!Next]_<<commits[ref].writer, commits[ref].files>>
  <2>1. pc[s] = "patch" /\ FastForward(new[s]) /\ ref' = new[s] /\ commits' = commits
    BY <1>1 DEF Patch
  <2>q. QED BY <2>1, PublishedCommit, MovePassesBaton
<1>2. ASSUME NEW s \in Session, Unanswered(s)
      PROVE  [Baton!Next]_<<commits[ref].writer, commits[ref].files>>
  <2>1. pc[s] = "patch" /\ commits' = commits
    BY <1>2 DEF Unanswered
  <2>2. CASE FastForward(new[s]) /\ ref' = new[s]
    BY <2>1, <2>2, PublishedCommit, MovePassesBaton
  <2>3. CASE ref' = ref
    BY <2>1, <2>3
  <2>q. QED BY <1>2, <2>2, <2>3 DEF Unanswered
<1>3. ASSUME LatePatchArrives
      PROVE  [Baton!Next]_<<commits[ref].writer, commits[ref].files>>
  <2>1. PICK c \in late : ref' = (IF FastForward(c) THEN c ELSE ref) /\ commits' = commits
    BY <1>3 DEF LatePatchArrives
  <2>2. c \in 1..Len(commits) /\ c > 1 /\ commits[c].parent \in commits[ref].line
    BY DEF CustodyInv, LateIsDead, TypeOK
  <2>q. QED BY <2>1, <2>2, MovePassesBaton
<1>4. ASSUME NEW s \in Session, Build(s)
      PROVE  [Baton!Next]_<<commits[ref].writer, commits[ref].files>>
  <2>1. PICK made \in CommitType : commits' = Append(commits, made)
    <3>1. /\ head[s] \in 1..Len(commits) /\ Len(commits) + 1 \in Nat /\ files[s] \in SUBSET Intent
      BY DEF CustodyInv, TypeOK
    <3>2. commits[head[s]].line \subseteq Nat
      BY <3>1, CommitFields DEF CustodyInv
    <3>3. ASSUME NEW id \in Nat PROVE
            [parent |-> head[s], line |-> commits[head[s]].line \cup {id},
             writer |-> IF phase[s] = "HANDOFF" THEN NoWriter ELSE s, files |-> files[s]] \in CommitType
      BY <3>1, <3>2 DEF CommitType
    <3>q. QED BY <1>4, <3>1, <3>3 DEF Build
  <2>2. commits'[ref] = commits[ref] /\ ref' = ref
    BY <1>0, <1>4, <2>1 DEF Build
  <2>q. QED BY <2>2
<1>5. ASSUME NEW s \in Session,
             History(s) \/ Check(s) \/ Confirm(s) \/ Poison(s) \/ Record(s) \/ Send(s) \/ Release(s)
      PROVE  [Baton!Next]_<<commits[ref].writer, commits[ref].files>>
  <2>1. UNCHANGED repository
    BY <1>5 DEF History, Check, Confirm, Poison, Record, Send, Release
  <2>q. QED BY <2>1 DEF repository
<1>6. CASE UNCHANGED vars
  BY <1>6 DEF vars
<1>q. QED BY <1>1, <1>2, <1>3, <1>4, <1>5, <1>6 DEF Next

\* The custody implements the baton: what the branch shows is taken when free, extended
\* by its holder one intent at a time, and given back.
THEOREM CustodyImplementsBaton == Spec => BatonSpec
<1>1. Init => Baton!Init
  BY DEF Init, Genesis, Baton!Init
<1>2. CustodyInv /\ [Next]_vars => [Baton!Next]_<<commits[ref].writer, commits[ref].files>>
  BY CustodyStepIsBatonStep
<1>q. QED BY <1>1, <1>2, CustodyInvariant, PTL DEF Spec, BatonSpec, Baton!Spec
=============================================================================
