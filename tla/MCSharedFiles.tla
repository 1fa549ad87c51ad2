--------------------------- MODULE MCSharedFiles ---------------------------
(***************************************************************************)
(* Files that several writers read, change and save whole: the store of    *)
(* the order files, with locks, and the approval queue on the shared       *)
(* drive, without them. What the queue guarantees and what both owe in the *)
(* end is checked here; what the store guarantees under failures is the    *)
(* run store_safety. They share no variable, so a behaviour moves one of   *)
(* them.                                                                   *)
(*                                                                         *)
(* Bounds. Queue: one symbol that two stage-6 files recommend, a request   *)
(* that is too old after one tick. Store: two writers, both files, one     *)
(* content, no failures.                                                   *)
(***************************************************************************)
EXTENDS OrderStateStore, Naturals

CONSTANTS
  Symbols, Stages, Ttl, PreviewOnly, EnforceInPreview   \* of the queue

ASSUME StagesAssumption == Stages # {}
ASSUME TtlAssumption == Ttl \in Nat
ASSUME PreviewAssumption == PreviewOnly \in BOOLEAN /\ EnforceInPreview \in BOOLEAN

VARIABLES
  part,   \* what moves: "queue" or "store"
  drive, run, approver, answered, granted, through, raced

queueVars == <<drive, run, approver, answered, granted, through, raced>>

Queue == INSTANCE ApprovalQueue

SharedInit == part \in {"queue", "store"} /\ Init /\ Queue!Init

StoreMoves == part = "store" /\ Next /\ UNCHANGED <<part, queueVars>>
QueueMoves == part = "queue" /\ Queue!Next /\ UNCHANGED <<part, vars>>

\* What moves keeps the fairness of its module.
SharedFairness ==
  /\ part = "store" => Fairness
  /\ part = "queue" => Queue!Fairness

SharedSpec ==
  SharedInit /\ [][StoreMoves \/ QueueMoves]_<<part, vars, queueVars>> /\ SharedFairness

-------------------------------------------------------------------------------
(* Properties; that of the store is in its module. *)

\* No entry is let through that nobody has approved for this stage-6 file, however
\* writes to the file overtake each other (index.ts:2280-2328).
OnlyApprovedPass == Queue!OnlyApprovedPass

\* As long as nobody has overwritten a file he had not read, an answer stands in the
\* file as it was given (index.ts:2065).
AnswersStand == Queue!AnswersStand

\* Neither a failing drive nor a closed request opens the gate or loses a request
\* (index.ts:2303, 2367-2369).
RequestsAreKept == Queue!RequestsAreKept

\* A request does not wait for ever: it is answered or expires, also when it belongs to
\* an older stage-6 file (index.ts:2245).
RequestsEnd == Queue!RequestsEnd
=============================================================================
