---------------------------- MODULE MC_UnaryCalls ----------------------------
(***************************************************************************)
(* Two concurrent unary calls over a connection that may drop and come     *)
(* back, while the network validates up to three ledgers: enough for a     *)
(* ledger to close between getLedgerVersion and submit, for the blob to be *)
(* validated before the node's answer comes back, and for a reconnection   *)
(* after ledgers closed offline.                                           *)
(***************************************************************************)
EXTENDS UnaryCalls, TLC

CONSTANTS c1, c2

MCCalls == {c1, c2}

MCMaxLedger == 3

(* Every method of the three services.                                     *)
MCAllMethods == AllMethods

(* The methods whose handlers answer on every path.                        *)
MCAnsweringMethods == SyncMethods \cup {"combineTransaction", "getTransaction"}

(* The methods one violation run is about.                                 *)
MCPrepare == {"prepareTransaction"}

MCSubmit == {"submitTransaction"}

MCAccount == {"getAccountInfo"}

MCSymmetry == Permutations(MCCalls)

=============================================================================
