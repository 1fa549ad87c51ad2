---------------------------- MODULE MCBrokerOrders ----------------------------
(***************************************************************************)
(* Four lanes that send orders after looking at the orders and positions   *)
(* the broker shows: the exits of a held position, the replacement of a    *)
(* stale entry, the repair of a missing protective order, and the          *)
(* admission of new entries. Each has its own workflow or its own guard,   *)
(* and they share no variable here, so a behaviour moves one of them and   *)
(* leaves the others at their start.                                       *)
(*                                                                         *)
(* Bounds. Exits: one full and two partial plans for two shares, three     *)
(* runs, one kind of fault in a behaviour. Replacement: two days, a cap of *)
(* two a day, orders that go stale in one tick, one loss. Repair: two      *)
(* files, two pairs of prices, three runs, two deaths or lost answers, and *)
(* a broker that would accept a second order. Admission: two symbols of    *)
(* one sector, two days, and caps of one, so that each cap is met, reads   *)
(* of positions and answers that fail.                                     *)
(***************************************************************************)
EXTENDS LifecycleExit, TLC

\* Those of the replacement, of the repair and of the admission.
CONSTANTS
  ErStale, ErCooldown, ErCap, ErDayLength, ErMaxNow, ErMaxOrders, ErMaxLost,
  OrHashes, OrPrices, OrHeld0, OrMaxRuns, OrMaxFaults,
  EntrySymbols, PaSectors, PaMaxOpenEntryOrders, PaMaxNewSymbolsPerDay, PaMaxActiveSymbolsTotal,
  PaMaxSectorActiveSymbols, PaPendingOrderTtl, PaDayLength, PaFaults, PaMaxNow

ASSUME ReplaceAssumption ==
  /\ {ErStale, ErCooldown, ErCap, ErMaxNow, ErMaxOrders, ErMaxLost} \subseteq Nat
  /\ ErDayLength \in Nat \ {0}
ASSUME RepairAssumption == OrHeld0 \in Nat
ASSUME AdmissionAssumption ==
  /\ IsFiniteSet(EntrySymbols) /\ PaSectors \subseteq SUBSET EntrySymbols
  /\ \A a, b \in PaSectors : a = b \/ a \cap b = {}
  /\ {PaMaxOpenEntryOrders, PaMaxNewSymbolsPerDay, PaMaxActiveSymbolsTotal,
      PaMaxSectorActiveSymbols, PaPendingOrderTtl, PaMaxNow} \subseteq Nat
  /\ PaDayLength \in Nat \ {0}

\* The symbols of the admission are interchangeable.
SameSymbols == Permutations(EntrySymbols)

VARIABLES
  lane,   \* the lane that moves
  erNow, erOrders, erFile, erRun, erCancels, erLosses,
  orHeld, orOrders, orRun, orLedger, orSaid, orRuns, orFaults,
  paNow, paLedger, paOpen, paHeld, paRun

replaceVars == <<erNow, erOrders, erFile, erRun, erCancels, erLosses>>
repairVars == <<orHeld, orOrders, orRun, orLedger, orSaid, orRuns, orFaults>>
admissionVars == <<paNow, paLedger, paOpen, paHeld, paRun>>

Replacement == INSTANCE OpenEntryReplace
  WITH Stale <- ErStale, Cooldown <- ErCooldown, Cap <- ErCap, DayLength <- ErDayLength,
       MaxNow <- ErMaxNow, MaxOrders <- ErMaxOrders, MaxLost <- ErMaxLost, now <- erNow,
       orders <- erOrders, file <- erFile, run <- erRun, cancels <- erCancels,
       losses <- erLosses

\* The two workflows of the repair do not overlap.
Repair == INSTANCE OcoRepair
  WITH Hashes <- OrHashes, Prices <- OrPrices, Held0 <- OrHeld0, MaxRuns <- OrMaxRuns,
       MaxFaults <- OrMaxFaults, Overlap <- FALSE, held <- orHeld, orders <- orOrders,
       run <- orRun, ledger <- orLedger, said <- orSaid, runs <- orRuns,
       faults <- orFaults

Admission == INSTANCE PortfolioAdmission
  WITH Sectors <- PaSectors, MaxOpenEntryOrders <- PaMaxOpenEntryOrders,
       MaxNewSymbolsPerDay <- PaMaxNewSymbolsPerDay,
       MaxActiveSymbolsTotal <- PaMaxActiveSymbolsTotal,
       MaxSectorActiveSymbols <- PaMaxSectorActiveSymbols,
       PendingOrderTtl <- PaPendingOrderTtl, DayLength <- PaDayLength,
       Faults <- PaFaults, MaxNow <- PaMaxNow, Symbols <- EntrySymbols, now <- paNow,
       ledger <- paLedger, open <- paOpen, held <- paHeld, run <- paRun

LanesInit ==
  /\ lane \in {"exit", "replacement", "repair", "admission"}
  /\ Init /\ Replacement!Init /\ Repair!Init /\ Admission!Init
  /\ lane # "exit" => protect = 0 /\ faults = {"late"}   \* the exits have several starts

ExitMoves == lane = "exit" /\ Next /\ UNCHANGED <<lane, replaceVars, repairVars, admissionVars>>
ReplacementMoves ==
  lane = "replacement" /\ Replacement!Next /\ UNCHANGED <<lane, vars, repairVars, admissionVars>>
RepairMoves ==
  lane = "repair" /\ Repair!Next /\ UNCHANGED <<lane, vars, replaceVars, admissionVars>>
AdmissionMoves ==
  lane = "admission" /\ Admission!Next /\ UNCHANGED <<lane, vars, replaceVars, repairVars>>

LanesNext == ExitMoves \/ ReplacementMoves \/ RepairMoves \/ AdmissionMoves

LanesSpec == LanesInit /\ [][LanesNext]_<<lane, vars, replaceVars, repairVars, admissionVars>>

-------------------------------------------------------------------------------
(* Properties *)

\* However answers are lost and runs die, at most one exit of the position is open or
\* may still become open, the position is not sold short, and no row of the ledger
\* ends otherwise than its order (index.ts:9192, 9257, 9336).
ExitsAreSafe == lane = "exit" => TypeOK /\ OneLiveExit /\ NeverOversells /\ EndedRowsAreTrue

\* Of the entry orders of a symbol the program has all but one asked to be cancelled,
\* a slow cancel stands beside one replacement only, and losses let through at most
\* one cancel more each (index.ts:10385, 10531).
ReplacementsAreBounded ==
  lane = "replacement" =>
    /\ Replacement!TypeOK
    /\ Replacement!OneWorkingEntry /\ Replacement!AtMostTwoLive /\ Replacement!ChurnIsBounded

\* Runs that do not overlap leave one protective order working at the most, each order
\* at the broker has an entry in a ledger, and a rollback that is recorded as terminal
\* has ended its order (run-persistent-oco-repair-submit.mjs:285,
\* run-paper-oco-canary-submit.mjs:312, 430).
RepairIsSafe ==
  lane = "repair" =>
    Repair!TypeOK /\ Repair!OneProtection /\ Repair!PostedIsWritten /\ Repair!CancelledIsGone

\* However orders fill, end or stay unknown between its reads, what the admission lets
\* through keeps the open entry orders, and with its reads answered the symbols it
\* tracks, a sector's share of them and the day's newcomers, within their caps, and
\* nothing is bought that was held (index.ts:6524, 7988-8027).
AdmissionKeepsCaps ==
  lane = "admission" =>
    /\ Admission!TypeOK
    /\ Admission!OpenEntriesStayCapped /\ Admission!HeldIsNotBoughtAgain
    /\ Admission!NewcomersStayWithinCaps
===============================================================================
