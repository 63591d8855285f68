--------------------------- MODULE WaitValidation ---------------------------
(***************************************************************************)
(* The server-streaming call RippleTransactionAPI.WaitValidation of        *)
(* ripple-lib-server (src/rippleapi/service_transaction.ts, 176-210) and   *)
(* the shared RippleAPI connection whose 'ledger' event drives it          *)
(* (src/server.ts).                                                        *)
(*                                                                         *)
(* Every handler of the code runs to completion on the Node.js event loop, *)
(* so each one is a single atomic action:                                  *)
(*   - Open(s):      the waitValidation handler of call s: it registers    *)
(*                   ledgerHandler on the 'ledger' event and a 'close'     *)
(*                   handler on the call;                                  *)
(*   - LedgerClosed: the network validates a ledger while the websocket is *)
(*                   up; RippleAPI emits 'ledger' and EventEmitter.emit    *)
(*                   runs every registered ledgerHandler synchronously;    *)
(*   - LedgerClosedOffline: the network validates a ledger while the       *)
(*                   websocket is down; no 'ledger' event is emitted for   *)
(*                   it, ever;                                             *)
(*   - Close(s):     the call emits 'close' and its handler runs;          *)
(*   - Cancel(s):    the client (or a deadline, or the transport) cancels  *)
(*                   call s; grpc sets call.cancelled;                     *)
(*   - Connect / Disconnect: the websocket to rippled comes up or drops.   *)
(* The auxiliary variables announced, openedAt and cancelledAt record the  *)
(* versions announced by a 'ledger' event, and the validated version at    *)
(* the moment a call was opened or cancelled; the code keeps none of them, *)
(* the properties read them.                                               *)
(***************************************************************************)
EXTENDS Naturals, Sequences, Functions

CONSTANTS
    Streams,    \* identities of the WaitValidation calls a client may open
    MaxLedger   \* the last ledger version the model lets the network validate

ASSUME WaitValidationAssumption ==
    /\ MaxLedger \in Nat
    /\ Streams # {}

VARIABLES
    connected,    \* rippleAPI.isConnected()
    validated,    \* version of the last ledger the network has validated
    announced,    \* versions for which RippleAPI emitted 'ledger'
    listeners,    \* listeners[s]: registrations of s's ledgerHandler on 'ledger'
    opened,       \* opened[s]: the waitValidation handler has run for call s
    cancelled,    \* cancelled[s]: call.cancelled of call s
    closeFired,   \* closeFired[s]: call s has emitted 'close'
    ends,         \* ends[s]: number of call.end() invocations on call s
    sent,         \* sent[s]: ledger versions written to call s, in order
    openedAt,     \* openedAt[s]: validated when call s was opened
    cancelledAt   \* cancelledAt[s]: validated when call s was cancelled

vars == <<connected, validated, announced, listeners, opened, cancelled,
          closeFired, ends, sent, openedAt, cancelledAt>>

streamVars == <<listeners, opened, cancelled, closeFired, ends, sent,
                openedAt, cancelledAt>>

-----------------------------------------------------------------------------
(* Mutant: a removal that does not check that the listener is there.      *)
RemoveListenerUnguarded(n) == n - 1

(* EventEmitter.removeListener removes one registration of the function if *)
(* there is one and does nothing otherwise.                                *)
RemoveListener(n) == IF n > 0 THEN n - 1 ELSE n

-----------------------------------------------------------------------------
(* new ripple.RippleAPI({server}): not connected yet, no listener; no call *)
(* has been served.                                                        *)
Init ==
    /\ connected = FALSE
    /\ validated = 0
    /\ announced = {}
    /\ listeners = [s \in Streams |-> 0]
    /\ opened = [s \in Streams |-> FALSE]
    /\ cancelled = [s \in Streams |-> FALSE]
    /\ closeFired = [s \in Streams |-> FALSE]
    /\ ends = [s \in Streams |-> 0]
    /\ sent = [s \in Streams |-> <<>>]
    /\ openedAt = [s \in Streams |-> 0]
    /\ cancelledAt = [s \in Streams |-> 0]

(* rippleAPI.connect() resolves (at start-up, or when the library          *)
(* reconnects after a drop and resubscribes to the ledger stream).         *)
Connect ==
    /\ ~connected
    /\ connected' = TRUE
    /\ UNCHANGED <<validated, announced, streamVars>>

(* The websocket drops; the 'disconnected' handler only logs.              *)
Disconnect ==
    /\ connected
    /\ connected' = FALSE
    /\ UNCHANGED <<validated, announced, streamVars>>

(* waitValidation(call): rippleAPI.on('ledger', ledgerHandler) and         *)
(* call.on('close', ...). call.cancelled is not consulted here.            *)
Open(s) ==
    /\ ~opened[s]
    /\ opened' = [opened EXCEPT ![s] = TRUE]
    /\ listeners' = [listeners EXCEPT ![s] = @ + 1]
    /\ openedAt' = [openedAt EXCEPT ![s] = validated]
    /\ UNCHANGED <<connected, validated, announced, cancelled, closeFired,
                   ends, sent, cancelledAt>>

(* Mutant: ledgerHandler without the call.cancelled check.                 *)
LedgerHandlerNoCancelCheck(s, v) ==
    [ends |-> ends[s], listeners |-> listeners[s], sent |-> Append(sent[s], v)]

(* ledgerHandler(ledger) of call s: a cancelled call is ended and the      *)
(* handler removes itself; otherwise the version is written to the call.   *)
(* The result is the new ends, listeners and sent entries of s.            *)
LedgerHandler(s, v) ==
    IF cancelled[s]
    THEN [ends |-> ends[s] + 1, listeners |-> RemoveListener(listeners[s]),
          sent |-> sent[s]]
    ELSE [ends |-> ends[s], listeners |-> listeners[s],
          sent |-> Append(sent[s], v)]

(* EventEmitter.emit('ledger', {ledgerVersion: v}): the ledgerHandler of   *)
(* every call that has one registered runs, in the same tick.              *)
Emit(v) ==
    LET hears(s) == listeners[s] > 0
        out(s) == LedgerHandler(s, v)
    IN /\ ends' = [s \in Streams |-> IF hears(s) THEN out(s).ends ELSE ends[s]]
       /\ listeners' = [s \in Streams |->
                          IF hears(s) THEN out(s).listeners ELSE listeners[s]]
       /\ sent' = [s \in Streams |-> IF hears(s) THEN out(s).sent ELSE sent[s]]

(* Mutant: the handlers are told the version validated before this one.   *)
LedgerClosedStale ==
    /\ connected
    /\ validated < MaxLedger
    /\ validated' = validated + 1
    /\ announced' = announced \cup {validated + 1}
    /\ Emit(validated)
    /\ UNCHANGED <<connected, opened, cancelled, closeFired, openedAt,
                   cancelledAt>>

(* The network validates ledger validated + 1 while the websocket is up:   *)
(* ripple-lib receives ledgerClosed and RippleAPI emits 'ledger'.          *)
LedgerClosed ==
    /\ connected
    /\ validated < MaxLedger
    /\ validated' = validated + 1
    /\ announced' = announced \cup {validated + 1}
    /\ Emit(validated + 1)
    /\ UNCHANGED <<connected, opened, cancelled, closeFired, openedAt,
                   cancelledAt>>

(* The network validates a ledger while the websocket is down: the server  *)
(* never hears of it.                                                      *)
LedgerClosedOffline ==
    /\ ~connected
    /\ validated < MaxLedger
    /\ validated' = validated + 1
    /\ UNCHANGED <<connected, announced, streamVars>>

(* The client cancels call s (grpc sets call.cancelled); possibly before   *)
(* the server has run the handler.                                         *)
Cancel(s) ==
    /\ ~cancelled[s]
    /\ cancelled' = [cancelled EXCEPT ![s] = TRUE]
    /\ cancelledAt' = [cancelledAt EXCEPT ![s] = validated]
    /\ UNCHANGED <<connected, validated, announced, listeners, opened,
                   closeFired, ends, sent, openedAt>>

(* Mutant: the 'close' handler ends the call but keeps ledgerHandler.      *)
CloseKeepsListener(s) ==
    /\ opened[s]
    /\ ~closeFired[s]
    /\ cancelled[s] \/ ends[s] > 0
    /\ closeFired' = [closeFired EXCEPT ![s] = TRUE]
    /\ ends' = [ends EXCEPT ![s] = @ + 1]
    /\ UNCHANGED <<connected, validated, announced, listeners, opened,
                   cancelled, sent, openedAt, cancelledAt>>

(* Call s emits 'close' (once, after it was cancelled or ended; the code's *)
(* FIXME notes it may never come) and the close handler ends the call and  *)
(* removes ledgerHandler.                                                  *)
Close(s) ==
    /\ opened[s]
    /\ ~closeFired[s]
    /\ cancelled[s] \/ ends[s] > 0
    /\ closeFired' = [closeFired EXCEPT ![s] = TRUE]
    /\ ends' = [ends EXCEPT ![s] = @ + 1]
    /\ listeners' = [listeners EXCEPT ![s] = RemoveListener(@)]
    /\ UNCHANGED <<connected, validated, announced, opened, cancelled, sent,
                   openedAt, cancelledAt>>

Next ==
    \/ Connect
    \/ Disconnect
    \/ LedgerClosed
    \/ LedgerClosedOffline
    \/ \E s \in Streams : Open(s) \/ Cancel(s) \/ Close(s)

Spec == Init /\ [][Next]_vars

-----------------------------------------------------------------------------
TypeOK ==
    /\ connected \in BOOLEAN
    /\ validated \in 0..MaxLedger
    /\ announced \in SUBSET (1..MaxLedger)
    /\ listeners \in [Streams -> Nat]
    /\ opened \in [Streams -> BOOLEAN]
    /\ cancelled \in [Streams -> BOOLEAN]
    /\ closeFired \in [Streams -> BOOLEAN]
    /\ ends \in [Streams -> Nat]
    /\ sent \in [Streams -> Seq(Nat)]
    /\ openedAt \in [Streams -> 0..MaxLedger]
    /\ cancelledAt \in [Streams -> 0..MaxLedger]

(* The last validated version call s must hear of if it was announced: the *)
(* current one while the call is live, the one current at its cancel.     *)
Upto(s) == IF cancelled[s] THEN cancelledAt[s] ELSE validated

(* The versions written to a call strictly increase: in order, no repeat. *)
Ascending(q) == \A i, j \in DOMAIN q : i < j => q[i] < q[j]

(* Spec 8: a WaitValidation call receives every ledger announced after it  *)
(* was opened and before it was cancelled, each exactly once and in the    *)
(* order of validation, and nothing else (ledgers validated while the      *)
(* websocket was down are never announced, so never sent).                 *)
DeliveredExactly ==
    \A s \in Streams :
        opened[s] =>
            /\ Range(sent[s]) = {v \in announced : openedAt[s] < v /\ v <= Upto(s)}
            /\ Ascending(sent[s])

(* Spec 5: cancellation is observed no later than the next ledger event:  *)
(* once a ledger validated after both the opening and the cancellation of *)
(* a call has been announced, the call's ledgerHandler is gone.            *)
ReleasedByNextEvent ==
    \A s \in Streams :
        (/\ opened[s]
         /\ cancelled[s]
         /\ \E v \in announced : v > openedAt[s] /\ v > cancelledAt[s])
        => listeners[s] = 0

(* Spec 3: the ledgerHandler of call s is registered (once) exactly while  *)
(* the call is open and has not been ended, whichever of the cancel check  *)
(* in ledgerHandler and the 'close' handler ends it: no listener leaks and *)
(* none is removed from a live call.                                       *)
ListenerReleased ==
    \A s \in Streams :
        listeners[s] = IF opened[s] /\ ends[s] = 0 THEN 1 ELSE 0

(* Spec 4.5: the stream is ended (call.end()) at most once, whether the    *)
(* cancel check in ledgerHandler or the 'close' handler ends it.           *)
EndedOnce ==
    \A s \in Streams : ends[s] <= 1

-----------------------------------------------------------------------------
(* The refinement mapping onto Subscription: a stream is Idle until its    *)
(* handler has run, Subscribed while its ledgerHandler is registered, and  *)
(* Closed once it is removed. What Subscription calls pushed is what the   *)
(* code wrote to the call.                                                 *)
SubState == [s \in Streams |->
               IF ~opened[s] THEN "Idle"
               ELSE IF listeners[s] > 0 THEN "Subscribed" ELSE "Closed"]

Sub == INSTANCE Subscription WITH state <- SubState, pushed <- sent

(* waitValidation implements the spec's subscription state machine: every *)
(* step of the handler, ledgerHandler, the 'close' handler, a cancel or    *)
(* the connection is a step of Subscription or leaves its state alone. In  *)
(* particular the listener is removed by exactly one transition, whichever *)
(* of the cancel check and 'close' comes first, and nothing is written to  *)
(* a cancelled stream.                                                     *)
SubscriptionSpec == Sub!Spec

=============================================================================
