----------------------------- MODULE UnaryCalls -----------------------------
(***************************************************************************)
(* The unary gRPC handlers of ripple-lib-server: RippleTransactionAPI      *)
(* (prepare, sign, submit, getTransaction, combine; service_transaction.ts)*)
(* RippleAccountAPI (getAccountInfo; service_account.ts) and              *)
(* RippleAddressAPI (generateAddress, generateXAddress, isValidAddress;    *)
(* service_address.ts), all served by one process over the one RippleAPI   *)
(* connection created in server.ts.                                        *)
(*                                                                         *)
(* A call c carries one request, method[c], fixed by the client.  Its      *)
(* handler runs to completion on the event loop; what it started with      *)
(* `await` or `.then` continues in later, separate steps, between which    *)
(* the websocket may drop or come back and the network may validate        *)
(* ledgers.  replies[c] counts the invocations of the grpc callback of c;  *)
(* a call whose promise chain has finished (phase "done") without one is  *)
(* never answered.                                                         *)
(***************************************************************************)
EXTENDS Naturals, FiniteSets

CONSTANTS
    Calls,      \* identities of the unary calls clients send
    Methods,    \* the methods these calls may request
    MaxLedger   \* the last ledger version the model lets the network validate

AllMethods == {"prepareTransaction", "signTransaction", "submitTransaction",
               "getTransaction", "combineTransaction", "getAccountInfo",
               "generateAddress", "generateXAddress", "isValidAddress"}

ASSUME UnaryCallsAssumption ==
    /\ MaxLedger \in Nat
    /\ Methods \subseteq AllMethods
    /\ Methods # {}

(* Handlers that compute their answer locally and call back at once.       *)
SyncMethods == {"signTransaction", "generateAddress", "generateXAddress",
                "isValidAddress"}

(* Phases of a call: its handler has not run; its promise is pending; the  *)
(* submit chain waits for getLedgerVersion, for submit to reach the node,  *)
(* or for the node's answer; its promise chain has finished.               *)
Phases == {"idle", "await", "ledger", "submit", "reply", "done"}

VARIABLES
    connected,  \* rippleAPI.isConnected()
    validated,  \* the last ledger version the network has validated
    known,      \* ripple-lib's cached latest ledger version (getLedgerVersion)
    method,     \* method[c]: the method call c requests
    complete,   \* complete[c]: the prepare request's instructions carry fee,
                \*   sequence and maxLedgerVersion (ripple-lib needs no network)
    phase,      \* phase[c]
    replies,    \* replies[c]: invocations of the grpc callback of c
    lv,         \* lv[c]: latestLedgerVersion read by _submitTransaction
    earliest,   \* earliest[c]: earliestLedgerVersion sent in the reply
    inPool,     \* inPool[c]: the blob submitted by c has reached the node
    txIn,       \* txIn[c]: the ledger that validated it, 0 while none did
    filled      \* filled[c]: the combine reply carries the signed blob

vars == <<connected, validated, known, method, complete, phase, replies, lv,
          earliest, inPool, txIn, filled>>

callVars == <<complete, phase, replies, lv, earliest, inPool, txIn, filled>>

-----------------------------------------------------------------------------
(* The fields ripple-lib's combine() returns: the signed blob and its id.  *)
CombineResult == {"signedTransaction", "id"}

(* isResCombineTransaction(obj): obj.signedTransaction && obj.txJSON.      *)
IsResCombineTransaction(fields) ==
    {"signedTransaction", "txJSON"} \subseteq fields

(* The network validates the next ledger and, with it, any of the          *)
(* transactions the node holds that no ledger has validated yet.           *)
ValidateNext ==
    /\ validated < MaxLedger
    /\ validated' = validated + 1
    /\ \E S \in SUBSET {c \in Calls : inPool[c] /\ txIn[c] = 0} :
          txIn' = [c \in Calls |-> IF c \in S THEN validated + 1 ELSE txIn[c]]

-----------------------------------------------------------------------------
(* No call has been served; the client's requests are any in Methods.     *)
Init ==
    /\ connected = FALSE
    /\ validated = 0
    /\ known = 0
    /\ method \in [Calls -> Methods]
    /\ complete \in [Calls -> BOOLEAN]
    /\ phase = [c \in Calls |-> "idle"]
    /\ replies = [c \in Calls |-> 0]
    /\ lv = [c \in Calls |-> 0]
    /\ earliest = [c \in Calls |-> 0]
    /\ inPool = [c \in Calls |-> FALSE]
    /\ txIn = [c \in Calls |-> 0]
    /\ filled = [c \in Calls |-> FALSE]

(* rippleAPI.connect() resolves; subscribing to the ledger stream tells    *)
(* ripple-lib the current validated version.                               *)
Connect ==
    /\ ~connected
    /\ connected' = TRUE
    /\ known' = validated
    /\ UNCHANGED <<validated, method, callVars>>

(* The websocket drops; server.ts's 'disconnected' handler only logs.      *)
Disconnect ==
    /\ connected
    /\ connected' = FALSE
    /\ UNCHANGED <<validated, known, method, callVars>>

(* A ledger is validated while connected: ripple-lib updates its cache.    *)
LedgerClosed ==
    /\ connected
    /\ ValidateNext
    /\ known' = validated + 1
    /\ UNCHANGED <<connected, method, complete, phase, replies, lv, earliest,
                   inPool, filled>>

(* A ledger is validated while the websocket is down: the cache goes stale. *)
LedgerClosedOffline ==
    /\ ~connected
    /\ ValidateNext
    /\ UNCHANGED <<connected, known, method, complete, phase, replies, lv,
                   earliest, inPool, filled>>

-----------------------------------------------------------------------------
(* A call leaves phase p for phase q, with `n` more callback invocations.  *)
Step(c, p, q, n) ==
    /\ phase[c] = p
    /\ phase' = [phase EXCEPT ![c] = q]
    /\ replies' = [replies EXCEPT ![c] = @ + n]

(* prepareTransaction: when not connected it calls back with 'connection   *)
(* error' but does not return; either way it starts _prepareTransaction,   *)
(* whose .then has no .catch.                                              *)
PrepareHandler(c) ==
    /\ method[c] = "prepareTransaction"
    /\ Step(c, "idle", "await", IF connected THEN 0 ELSE 1)
    /\ UNCHANGED <<connected, validated, known, method, complete, lv, earliest,
                   inPool, txIn, filled>>

(* rippleAPI.prepareTransaction resolves (offline when the instructions   *)
(* are complete, otherwise over the connection); .then calls back.         *)
PrepareResolved(c) ==
    /\ method[c] = "prepareTransaction"
    /\ complete[c] \/ connected
    /\ Step(c, "await", "done", 1)
    /\ UNCHANGED <<connected, validated, known, method, complete, lv, earliest,
                   inPool, txIn, filled>>

(* It rejects (not connected, node error, timeout): nothing catches it.    *)
PrepareRejected(c) ==
    /\ method[c] = "prepareTransaction"
    /\ Step(c, "await", "done", 0)
    /\ UNCHANGED <<connected, validated, known, method, complete, lv, earliest,
                   inPool, txIn, filled>>

(* submitTransaction starts _submitTransaction, which awaits               *)
(* getLedgerVersion; the .then has no .catch.                              *)
SubmitHandler(c) ==
    /\ method[c] = "submitTransaction"
    /\ Step(c, "idle", "ledger", 0)
    /\ UNCHANGED <<connected, validated, known, method, complete, lv, earliest,
                   inPool, txIn, filled>>

(* getLedgerVersion resolves with the cached version; submit(txBlob) is    *)
(* sent.                                                                   *)
SubmitLedgerVersion(c) ==
    /\ connected
    /\ Step(c, "ledger", "submit", 0)
    /\ lv' = [lv EXCEPT ![c] = known]
    /\ UNCHANGED <<connected, validated, known, method, complete, earliest,
                   inPool, txIn, filled>>

(* The blob reaches the node, which may put it in a later ledger.          *)
SubmitSent(c) ==
    /\ connected
    /\ Step(c, "submit", "reply", 0)
    /\ inPool' = [inPool EXCEPT ![c] = TRUE]
    /\ UNCHANGED <<connected, validated, known, method, complete, lv, earliest,
                   txIn, filled>>

(* Mutant: one ledger too far.                                           *)
SubmitResponseOffByOne(c) ==
    /\ connected
    /\ Step(c, "reply", "done", 1)
    /\ earliest' = [earliest EXCEPT ![c] = lv[c] + 2]
    /\ UNCHANGED <<connected, validated, known, method, complete, lv, inPool,
                   txIn, filled>>

(* Mutant: earliestLedgerVersion from the cache when the answer arrives.   *)
SubmitResponseLate(c) ==
    /\ connected
    /\ Step(c, "reply", "done", 1)
    /\ earliest' = [earliest EXCEPT ![c] = known + 1]
    /\ UNCHANGED <<connected, validated, known, method, complete, lv, inPool,
                   txIn, filled>>

(* The node's tentative result arrives; .then calls back with it and       *)
(* earliestLedgerVersion = latestLedgerVersion + 1.                        *)
SubmitResponse(c) ==
    /\ connected
    /\ Step(c, "reply", "done", 1)
    /\ earliest' = [earliest EXCEPT ![c] = lv[c] + 1]
    /\ UNCHANGED <<connected, validated, known, method, complete, lv, inPool,
                   txIn, filled>>

(* One of the awaits rejects because the websocket is down (before the     *)
(* request, or with the answer lost in flight): nothing catches it.        *)
SubmitRejected(c) ==
    /\ ~connected
    /\ phase[c] \in {"ledger", "submit", "reply"}
    /\ phase' = [phase EXCEPT ![c] = "done"]
    /\ UNCHANGED <<connected, validated, known, method, complete, replies, lv,
                   earliest, inPool, txIn, filled>>

(* signTransaction, generateAddress, generateXAddress, isValidAddress:     *)
(* computed locally, answered at once.                                     *)
SyncHandler(c) ==
    /\ method[c] \in SyncMethods
    /\ Step(c, "idle", "done", 1)
    /\ UNCHANGED <<connected, validated, known, method, complete, lv, earliest,
                   inPool, txIn, filled>>

(* combineTransaction: rippleAPI.combine runs locally; the signed blob is  *)
(* copied into the reply only if the result passes isResCombineTransaction.*)
CombineHandler(c) ==
    /\ method[c] = "combineTransaction"
    /\ Step(c, "idle", "done", 1)
    /\ filled' = [filled EXCEPT ![c] = IsResCombineTransaction(CombineResult)]
    /\ UNCHANGED <<connected, validated, known, method, complete, lv, earliest,
                   inPool, txIn>>

(* Mutant: a query handler that calls back with 'connection error' while  *)
(* the websocket is down, as prepareTransaction does, but goes on.         *)
QueryHandlerNoReturn(c) ==
    /\ method[c] \in {"getTransaction", "getAccountInfo"}
    /\ Step(c, "idle", "await", IF connected THEN 0 ELSE 1)
    /\ UNCHANGED <<connected, validated, known, method, complete, lv, earliest,
                   inPool, txIn, filled>>

(* getTransaction and getAccountInfo call ripple-lib and wait.             *)
QueryHandler(c) ==
    /\ method[c] \in {"getTransaction", "getAccountInfo"}
    /\ Step(c, "idle", "await", 0)
    /\ UNCHANGED <<connected, validated, known, method, complete, lv, earliest,
                   inPool, txIn, filled>>

(* Mutant: a .catch that also runs when the .then body throws after its   *)
(* callback.                                                               *)
GetSettledCatchAfterThen(c) ==
    /\ method[c] = "getTransaction"
    /\ \E n \in {1, 2} : Step(c, "await", "done", n)
    /\ UNCHANGED <<connected, validated, known, method, complete, lv, earliest,
                   inPool, txIn, filled>>

(* Mutant: getTransaction without its .catch.                              *)
GetSettledThenOnly(c) ==
    /\ method[c] = "getTransaction"
    /\ \E n \in IF connected THEN {0, 1} ELSE {0} : Step(c, "await", "done", n)
    /\ UNCHANGED <<connected, validated, known, method, complete, lv, earliest,
                   inPool, txIn, filled>>

(* rippleAPI.getTransaction resolves or rejects; .then or .catch calls     *)
(* back, the catch with the error's name and message.                      *)
GetSettled(c) ==
    /\ method[c] = "getTransaction"
    /\ Step(c, "await", "done", 1)
    /\ UNCHANGED <<connected, validated, known, method, complete, lv, earliest,
                   inPool, txIn, filled>>

(* rippleAPI.getAccountInfo resolves, or rejects with a rippled error      *)
(* carrying data: .then or .catch calls back.  Both need the connection.   *)
AccountAnswered(c) ==
    /\ method[c] = "getAccountInfo"
    /\ connected
    /\ Step(c, "await", "done", 1)
    /\ UNCHANGED <<connected, validated, known, method, complete, lv, earliest,
                   inPool, txIn, filled>>

(* It rejects with an error that has no data (NotConnectedError while the  *)
(* websocket is down): error.data.error_message throws in the .catch, and  *)
(* the callback is never called.                                           *)
AccountErrorWithoutData(c) ==
    /\ method[c] = "getAccountInfo"
    /\ ~connected
    /\ Step(c, "await", "done", 0)
    /\ UNCHANGED <<connected, validated, known, method, complete, lv, earliest,
                   inPool, txIn, filled>>

(* The handler of call c runs.                                             *)
Handle(c) ==
    \/ PrepareHandler(c)
    \/ SubmitHandler(c)
    \/ SyncHandler(c)
    \/ CombineHandler(c)
    \/ QueryHandler(c)

(* The pending ripple-lib request of call c settles.                       *)
Settle(c) ==
    \/ PrepareResolved(c)
    \/ PrepareRejected(c)
    \/ SubmitLedgerVersion(c)
    \/ SubmitSent(c)
    \/ SubmitResponse(c)
    \/ SubmitRejected(c)
    \/ GetSettled(c)
    \/ AccountAnswered(c)
    \/ AccountErrorWithoutData(c)

Next ==
    \/ Connect
    \/ Disconnect
    \/ LedgerClosed
    \/ LedgerClosedOffline
    \/ \E c \in Calls : Handle(c) \/ Settle(c)

Spec == Init /\ [][Next]_vars

(* grpc runs the handler of every call it receives, and every ripple-lib   *)
(* request settles (it has a timeout).                                     *)
FairSpec == Spec /\ \A c \in Calls : WF_vars(Handle(c)) /\ WF_vars(Settle(c))

-----------------------------------------------------------------------------
TypeOK ==
    /\ connected \in BOOLEAN
    /\ validated \in 0..MaxLedger
    /\ known \in 0..MaxLedger
    /\ method \in [Calls -> Methods]
    /\ complete \in [Calls -> BOOLEAN]
    /\ phase \in [Calls -> Phases]
    /\ replies \in [Calls -> Nat]
    /\ lv \in [Calls -> 0..MaxLedger]
    /\ earliest \in [Calls -> 0..MaxLedger + 1]
    /\ inPool \in [Calls -> BOOLEAN]
    /\ txIn \in [Calls -> 0..MaxLedger]
    /\ filled \in [Calls -> BOOLEAN]

(* Spec 4.4 and 8: submitTransaction's earliestLedgerVersion is a sound    *)
(* lower bound for the later getTransaction lookup: whenever the submitted *)
(* blob is validated, before or after the reply, and however the ledgers   *)
(* raced the two awaits of _submitTransaction and the websocket's drops,   *)
(* it is validated in a ledger no earlier than earliestLedgerVersion.      *)
EarliestLedgerSound ==
    \A c \in Calls :
        (/\ method[c] = "submitTransaction"
         /\ replies[c] > 0
         /\ txIn[c] # 0)
        => earliest[c] <= txIn[c]

(* Spec 7: every failure is translated once and returned as a single RPC   *)
(* status: no handler calls back more than once.                           *)
RepliedAtMostOnce ==
    \A c \in Calls : replies[c] <= 1

(* Spec 7: a call's grpc callback is invoked only by the step that ends    *)
(* its promise chain (the handler's return, or the .then/.catch of its     *)
(* last ripple-lib request), never by a handler that goes on waiting and   *)
(* never by a continuation that runs after the chain ended. A callback on  *)
(* an early-error path without a return, or a late settlement of a request *)
(* already answered, would break it.                                       *)
AnsweredOnlyWhenDone ==
    [][\A c \in Calls :
          replies'[c] # replies[c] => phase[c] # "done" /\ phase'[c] = "done"
      ]_vars

(* Spec 4.3, 4.4 and 7: every unary call is eventually answered, with a    *)
(* response or an error status.                                            *)
EveryCallAnswered ==
    \A c \in Calls : <>(replies[c] > 0)

=============================================================================
