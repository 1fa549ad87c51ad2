--------------------------- MODULE MCGuardAndNotices ---------------------------
(***************************************************************************)
(* The two programs that run beside the sidecar and save what they have    *)
(* done only after they have done it: the notifier and the market guard.   *)
(* They share no variable and each property reads one of them, so a        *)
(* behaviour moves one of them and leaves the other at its start.          *)
(*                                                                         *)
(* Bounds. Notifier: two processes, three events, a receipt that holds     *)
(* two, one lost save. Guard: three levels, a clock that passes hold and   *)
(* cooldowns, one forced run or one memory that is not saved.              *)
(***************************************************************************)
EXTENDS Notifications

CONSTANTS Active, Raws, Hold, Base, LowestL3, LowestL1, ClosedFor, MaxNow, MaxOdd

VARIABLES
  program,   \* the program that moves
  mgNow, mgMarket, mgCache, mgRun, mgDone, mgDid, mgWatch

marketVars == <<mgNow, mgMarket, mgCache, mgRun, mgDone, mgDid, mgWatch>>

Market == INSTANCE MarketGuard
  WITH now <- mgNow, market <- mgMarket, cache <- mgCache, run <- mgRun, done <- mgDone,
       did <- mgDid, watch <- mgWatch

\* The cooldowns of levels 2 and 3 take time (at least one and two minutes), and every
\* one is over when a closed market opens again: minutes, by default 15, against the
\* hours of a night (market-guard.ts:789).
ASSUME MarketAssumption ==
  /\ Active \in BOOLEAN /\ Raws \subseteq Market!Levels
  /\ {Hold, LowestL1, ClosedFor, MaxNow, MaxOdd} \subseteq Nat /\ {Base, LowestL3} \subseteq Nat \ {0}
  /\ \A l \in Market!Levels : Market!Cooldown(l) <= ClosedFor

BesideInit == program \in {"notifier", "guard"} /\ Init /\ Market!Init

NotifierMoves == program = "notifier" /\ Next /\ UNCHANGED <<program, marketVars>>
GuardMoves == program = "guard" /\ Market!Next /\ UNCHANGED <<program, vars>>

BesideNext == NotifierMoves \/ GuardMoves

BesideSpec == BesideInit /\ [][BesideNext]_<<program, vars, marketVars>>

-------------------------------------------------------------------------------
(* Properties; those of the notifier are in its module. *)

\* A level of the market guard that halts entries is neither lowered before the hold
\* is over nor overlooked by the sidecar's gate, and what the guard remembers between
\* its jobs is what it has published (market-guard.ts:960, 1315, 1664; index.ts:5008).
HaltsHold ==
  program = "guard" =>
    Market!TypeOK /\ Market!EntriesStayOut /\ Market!DropsAreHeld /\ Market!MemoryFollowsFile

\* The actions of a level are done in time, whatever cooldown another level has left,
\* and repeated early only after a lost memory or a level that had gone down
\* (market-guard.ts:1330-1342, 1685).
ActionsAreTimely == program = "guard" => Market!DangerIsActedOn /\ Market!RepeatsAreEarned
===============================================================================
