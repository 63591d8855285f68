------------------- MODULE WaitValidationRefinement_proofs -------------------
(***************************************************************************)
(* Proof that the WaitValidation model implements the Subscription state   *)
(* machine of the spec under the mapping SubState, for every set of        *)
(* streams and every ledger bound. It rests on the invariant proved in     *)
(* WaitValidation_proofs: a listener is registered exactly while its       *)
(* stream is open and not ended, and only a cancelled stream is ended.     *)
(***************************************************************************)
EXTENDS WaitValidation_proofs

(* What the invariant says of one stream's registration: at most one, and  *)
(* one exactly while the stream is open and not ended.                     *)
LEMMA OneListener ==
    ASSUME IInv, NEW s \in Streams
    PROVE  /\ listeners[s] > 0 <=> (opened[s] /\ ends[s] = 0)
           /\ listeners[s] \in {0, 1}
           /\ SubState[s] = "Subscribed" <=> listeners[s] > 0
BY DEF IInv, ListenerReleased, SubState

(* The initial state maps to Subscription's initial state.                 *)
LEMMA RefInit == Init => Sub!Init
BY DEF Init, Sub!Init, SubState

(* Connecting, disconnecting, cancelling and a ledger nobody hears of      *)
(* leave the registrations and the written versions alone.                 *)
LEMMA RefFrame ==
    ASSUME TypeOK, opened' = opened, listeners' = listeners
    PROVE  SubState' = SubState
BY DEF SubState

(* ledgerHandler of every registered stream, run by one emit, is one       *)
(* announcement of Subscription.                                           *)
LEMMA RefLedgerClosed ==
    ASSUME IInv, LedgerClosed
    PROVE  Sub!Validate
<1> USE DEF IInv
<1>1. ASSUME NEW s \in Streams
      PROVE  /\ SubState'[s] = IF SubState[s] = "Subscribed" /\ cancelled[s]
                               THEN "Closed" ELSE SubState[s]
             /\ sent'[s] = IF SubState[s] = "Subscribed" /\ ~cancelled[s]
                           THEN Append(sent[s], validated + 1) ELSE sent[s]
  <2>1. /\ listeners[s] > 0 <=> (opened[s] /\ ends[s] = 0)
        /\ listeners[s] \in {0, 1}
        /\ SubState[s] = "Subscribed" <=> listeners[s] > 0
    BY OneListener
  <2>2. opened' = opened /\ cancelled' = cancelled
    BY DEF LedgerClosed
  <2>3. CASE listeners[s] > 0 /\ cancelled[s]
    <3>1. listeners'[s] = 0 /\ sent'[s] = sent[s]
      BY <2>1, <2>3 DEF LedgerClosed, Emit, LedgerHandler, RemoveListener, TypeOK
    <3>2. QED
      BY <2>1, <2>2, <2>3, <3>1 DEF SubState
  <2>4. CASE listeners[s] > 0 /\ ~cancelled[s]
    <3>1. listeners'[s] = listeners[s]
          /\ sent'[s] = Append(sent[s], validated + 1)
      BY <2>4 DEF LedgerClosed, Emit, LedgerHandler, TypeOK
    <3>2. QED
      BY <2>1, <2>2, <2>4, <3>1 DEF SubState
  <2>5. CASE listeners[s] = 0
    <3>1. listeners'[s] = 0 /\ sent'[s] = sent[s]
      BY <2>5 DEF LedgerClosed, Emit, TypeOK
    <3>2. QED
      BY <2>1, <2>2, <2>5, <3>1 DEF SubState
  <2>6. QED
    BY <2>1, <2>3, <2>4, <2>5 DEF TypeOK
<1>2. SubState' = [s \in Streams |->
                     IF SubState[s] = "Subscribed" /\ cancelled[s]
                     THEN "Closed" ELSE SubState[s]]
  BY <1>1 DEF SubState
<1>3. sent' = [s \in Streams |->
                 IF SubState[s] = "Subscribed" /\ ~cancelled[s]
                 THEN Append(sent[s], validated + 1) ELSE sent[s]]
  <2>0. TypeOK'
    BY TypeStep, LedgerClosed DEF Next, IInv
  <2>1. sent' \in [Streams -> Seq(Nat)]
    BY <2>0 DEF TypeOK
  <2>2. QED
    BY <1>1, <2>1
<1>4. QED
  BY <1>2, <1>3 DEF LedgerClosed, Sub!Validate, Sub!Announce

(* The handler of a stream registers its listener: Subscribe.              *)
LEMMA RefOpen ==
    ASSUME IInv, NEW s \in Streams, Open(s)
    PROVE  Sub!Subscribe(s)
<1>1. listeners[s] = 0
  BY DEF IInv, ListenerReleased, Open
<1>T. TypeOK
  BY DEF IInv
<1>2. SubState' = [SubState EXCEPT ![s] = "Subscribed"]
  <2>1. opened'[s] /\ listeners'[s] > 0
    BY <1>1, <1>T DEF Open, TypeOK
  <2>2. ASSUME NEW t \in Streams, t # s
        PROVE  opened'[t] = opened[t] /\ listeners'[t] = listeners[t]
    BY <1>T, <2>2 DEF Open, TypeOK
  <2>3. QED
    BY <2>1, <2>2 DEF SubState
<1>3. QED
  BY <1>2 DEF Open, SubState, Sub!Subscribe

(* The 'close' handler removes a registered listener (TransportClose) or   *)
(* finds it already gone (no step of Subscription).                        *)
LEMMA RefClose ==
    ASSUME IInv, NEW s \in Streams, Close(s)
    PROVE  Sub!TransportClose(s) \/ UNCHANGED Sub!vars
<1>1. /\ listeners[s] > 0 <=> (opened[s] /\ ends[s] = 0)
      /\ listeners[s] \in {0, 1}
      /\ SubState[s] = "Subscribed" <=> listeners[s] > 0
  BY OneListener
<1>2. CASE listeners[s] > 0
  <2>1. cancelled[s]
    BY <1>1, <1>2 DEF Close
  <2>T. TypeOK
    BY DEF IInv
  <2>2. SubState' = [SubState EXCEPT ![s] = "Closed"]
    <3>1. opened'[s] /\ listeners'[s] = 0
      BY <1>1, <1>2, <2>T DEF Close, RemoveListener, TypeOK
    <3>2. ASSUME NEW t \in Streams, t # s
          PROVE  opened'[t] = opened[t] /\ listeners'[t] = listeners[t]
      BY <2>T, <3>2 DEF Close, TypeOK
    <3>3. SubState'[s] = "Closed"
      BY <3>1 DEF SubState
    <3>4. ASSUME NEW t \in Streams, t # s PROVE SubState'[t] = SubState[t]
      BY <3>2, <3>4 DEF SubState
    <3>5. QED
      BY <3>3, <3>4 DEF SubState
  <2>3. QED
    BY <1>1, <1>2, <2>1, <2>2 DEF Close, Sub!TransportClose
<1>3. CASE listeners[s] = 0
  <2>T. TypeOK
    BY DEF IInv
  <2>0. opened' = opened /\ listeners' = listeners
    BY <1>3, <2>T DEF Close, RemoveListener, TypeOK
  <2>1. SubState' = SubState
    BY <2>0, <2>T, RefFrame
  <2>2. QED
    BY <2>1 DEF Close, Sub!vars
<1>4. QED
  BY <1>1, <1>2, <1>3

(* Every step of WaitValidation from a state of the invariant is a step of *)
(* Subscription or leaves the mapped state unchanged.                      *)
LEMMA RefStep == IInv /\ [Next]_vars => [Sub!Next]_Sub!vars
<1> SUFFICES ASSUME IInv, [Next]_vars PROVE [Sub!Next]_Sub!vars
  OBVIOUS
<1>T. TypeOK
  BY DEF IInv
<1>1. CASE Connect \/ Disconnect
  BY <1>1, <1>T, RefFrame DEF Connect, Disconnect, streamVars, Sub!vars
<1>2. CASE LedgerClosed
  BY <1>2, RefLedgerClosed DEF Sub!Next
<1>3. CASE LedgerClosedOffline
  <2>1. SubState' = SubState
    BY <1>3, <1>T, RefFrame DEF LedgerClosedOffline, streamVars
  <2>2. Sub!Validate
    BY <1>3, <2>1 DEF LedgerClosedOffline, streamVars, Sub!Validate
  <2>3. QED
    BY <2>2 DEF Sub!Next
<1>4. ASSUME NEW s \in Streams, Open(s) PROVE [Sub!Next]_Sub!vars
  BY <1>4, RefOpen DEF Sub!Next
<1>5. ASSUME NEW s \in Streams, Cancel(s) PROVE [Sub!Next]_Sub!vars
  <2>1. SubState' = SubState
    BY <1>5, <1>T, RefFrame DEF Cancel
  <2>2. QED
    BY <1>5, <2>1 DEF Cancel, Sub!Cancel, Sub!Next
<1>6. ASSUME NEW s \in Streams, Close(s) PROVE [Sub!Next]_Sub!vars
  BY <1>6, RefClose DEF Sub!Next
<1>7. CASE UNCHANGED vars
  BY <1>7, <1>T, RefFrame DEF vars, Sub!vars
<1>8. QED
  BY <1>1, <1>2, <1>3, <1>4, <1>5, <1>6, <1>7 DEF Next

(* waitValidation, with its cancel check in ledgerHandler and its 'close'  *)
(* handler, implements the spec's Idle/Subscribed/Closed state machine for *)
(* any number of streams and ledgers: SubscriptionSpec, checked by TLC on  *)
(* two streams, holds in general.                                          *)
THEOREM Refinement == Spec => SubscriptionSpec
<1>1. Spec => []IInv
  BY InvariantHolds
<1>2. QED
  BY <1>1, RefInit, RefStep, PTL DEF Spec, SubscriptionSpec, Sub!Spec

=============================================================================
