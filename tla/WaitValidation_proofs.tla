------------------------ MODULE WaitValidation_proofs ------------------------
(***************************************************************************)
(* Proofs, for every set of calls and every ledger bound, that the         *)
(* WaitValidation model keeps its type, releases a call's listener exactly *)
(* when the call is ended and at the latest at the first ledger event      *)
(* after its cancellation, and delivers every announced ledger to every    *)
(* live call exactly once and in order.                                    *)
(***************************************************************************)
EXTENDS WaitValidation, SequenceTheorems, TLAPS

(* Facts the properties need to be inductive: a call not yet served has no *)
(* state; only a cancelled call has been ended; the recorded versions, and *)
(* the announced ones, are not in the future.                              *)
CallFacts ==
    /\ \A v \in announced : v <= validated
    /\ \A s \in Streams :
        /\ ~opened[s] => ends[s] = 0 /\ sent[s] = <<>>
        /\ ends[s] > 0 => cancelled[s]
        /\ openedAt[s] <= validated
        /\ cancelledAt[s] <= validated

IInv ==
    /\ TypeOK
    /\ CallFacts
    /\ ListenerReleased
    /\ DeliveredExactly
    /\ ReleasedByNextEvent

(* The invariant's statement about one call t, in the next state.         *)
CallInvNext(t) ==
    /\ ~opened'[t] => ends'[t] = 0 /\ sent'[t] = <<>>
    /\ ends'[t] > 0 => cancelled'[t]
    /\ openedAt'[t] <= validated'
    /\ cancelledAt'[t] <= validated'
    /\ listeners'[t] = IF opened'[t] /\ ends'[t] = 0 THEN 1 ELSE 0
    /\ opened'[t] =>
         /\ Range(sent'[t]) = {v \in announced' : openedAt'[t] < v /\ v <= Upto(t)'}
         /\ Ascending(sent'[t])
    /\ (/\ opened'[t]
        /\ cancelled'[t]
        /\ \E v \in announced' : v > openedAt'[t] /\ v > cancelledAt'[t])
       => listeners'[t] = 0

-----------------------------------------------------------------------------
(* What Append does to a sequence of versions.                            *)
LEMMA AppendFacts ==
    ASSUME NEW q \in Seq(Nat), NEW v \in Nat
    PROVE  /\ Append(q, v) \in Seq(Nat)
           /\ Len(q) \in Nat
           /\ DOMAIN q = 1..Len(q)
           /\ DOMAIN Append(q, v) = 1..Len(q) + 1
           /\ \A i \in 1..Len(q) : Append(q, v)[i] = q[i]
           /\ Append(q, v)[Len(q) + 1] = v
<1>1. /\ Append(q, v) \in Seq(Nat)
      /\ Len(Append(q, v)) = Len(q) + 1
      /\ \A i \in 1..Len(q) : Append(q, v)[i] = q[i]
      /\ Append(q, v)[Len(q) + 1] = v
  BY AppendProperties
<1>2. Len(q) \in Nat /\ DOMAIN q = 1..Len(q)
  BY LenProperties
<1>3. DOMAIN Append(q, v) = 1..Len(q) + 1
  BY <1>1, LenProperties
<1>4. QED
  BY <1>1, <1>2, <1>3

(* Appending v adds exactly v to the values of a sequence.                 *)
LEMMA RangeAppend ==
    ASSUME NEW q \in Seq(Nat), NEW v \in Nat
    PROVE  Range(Append(q, v)) = Range(q) \cup {v}
BY AppendFacts DEF Range

(* Appending a value above all of a sorted sequence keeps it sorted.       *)
LEMMA SortedAppend ==
    ASSUME NEW q \in Seq(Nat), NEW v \in Nat,
           \A w \in Range(q) : w < v,
           Ascending(q)
    PROVE  Ascending(Append(q, v))
<1>1. /\ Len(q) \in Nat
      /\ Len(Append(q, v)) = Len(q) + 1
      /\ \A i \in 1..Len(q) : Append(q, v)[i] = q[i]
      /\ Append(q, v)[Len(q) + 1] = v
      /\ \A i \in 1..Len(q) : q[i] < v
  BY AppendFacts, AppendProperties DEF Range
<1>2. \A i, j \in 1..Len(q) : i < j => q[i] < q[j]
  BY DEF Ascending
<1>3. QED
  BY <1>1, <1>2 DEF Ascending

(* The empty sequence has no values and is sorted.                         *)
LEMMA EmptySent ==
    Range(<<>>) = {} /\ Ascending(<<>>)
BY DEF Range, Ascending

(* A ledger validated next joins the versions a live call must have.       *)
LEMMA SetGrow ==
    ASSUME NEW A \in SUBSET Nat, NEW lo \in Nat, NEW x \in Nat, lo <= x,
           \A w \in A : w <= x
    PROVE  {v \in A \cup {x + 1} : lo < v /\ v <= x + 1}
             = {v \in A : lo < v /\ v <= x} \cup {x + 1}
<1>1. ASSUME NEW v \in A \cup {x + 1}, lo < v /\ v <= x + 1
      PROVE  v \in {w \in A : lo < w /\ w <= x} \cup {x + 1}
  <2>1. CASE v = x + 1
    BY <2>1
  <2>2. CASE v # x + 1
    <3>1. v \in A /\ v <= x
      BY <2>2
    <3>2. QED
      BY <1>1, <3>1
  <2>3. QED
    BY <2>1, <2>2
<1>2. ASSUME NEW v \in {w \in A : lo < w /\ w <= x} \cup {x + 1}
      PROVE  v \in A \cup {x + 1} /\ lo < v /\ v <= x + 1
  <2>1. CASE v = x + 1
    BY <2>1
  <2>2. CASE v # x + 1
    <3>1. v \in A /\ lo < v /\ v <= x
      BY <2>2
    <3>2. QED
      BY <3>1
  <2>3. QED
    BY <2>1, <2>2
<1>3. QED
  BY <1>1, <1>2

(* Raising the upper end past every version there is changes nothing.     *)
LEMMA SetWiden ==
    ASSUME NEW A \in SUBSET Nat, NEW lo \in Nat, NEW x \in Nat,
           \A w \in A : w <= x
    PROVE  {v \in A : lo < v /\ v <= x + 1} = {v \in A : lo < v /\ v <= x}
<1>1. ASSUME NEW v \in A PROVE v <= x + 1 <=> v <= x
  BY <1>1
<1>2. QED
  BY <1>1

(* No version is both above x and at most u <= x.                          *)
LEMMA SetNone ==
    ASSUME NEW A \in SUBSET Nat, NEW u \in Nat, NEW x \in Nat, u <= x,
           \A w \in A : w <= x
    PROVE  {v \in A : x < v /\ v <= u} = {}
<1>1. \A v \in A : ~(x < v /\ v <= u)
  OBVIOUS
<1>2. QED
  BY <1>1

-----------------------------------------------------------------------------
(* The initial state is well typed.                                       *)
LEMMA TypeInit == Init => TypeOK
<1> SUFFICES ASSUME Init PROVE TypeOK
  OBVIOUS
<1>1. sent \in [Streams -> Seq(Nat)]
  BY DEF Init
<1>2. validated \in 0..MaxLedger /\ openedAt \in [Streams -> 0..MaxLedger]
      /\ cancelledAt \in [Streams -> 0..MaxLedger]
  BY WaitValidationAssumption DEF Init
<1>3. QED
  BY <1>1, <1>2 DEF Init, TypeOK

(* Every step keeps the state well typed.                                  *)
LEMMA TypeStep == TypeOK /\ [Next]_vars => TypeOK'
<1> SUFFICES ASSUME TypeOK, [Next]_vars PROVE TypeOK'
  OBVIOUS
<1>1. CASE Connect \/ Disconnect
  BY <1>1 DEF Connect, Disconnect, TypeOK, streamVars
<1>2. CASE LedgerClosed
  <2>1. ASSUME NEW t \in Streams
        PROVE  LedgerHandler(t, validated + 1)
                 \in [ends : Nat, listeners : Nat, sent : Seq(Nat)]
    BY DEF LedgerHandler, RemoveListener, TypeOK
  <2>2. ends' \in [Streams -> Nat]
    BY <1>2, <2>1 DEF LedgerClosed, Emit, TypeOK
  <2>3. listeners' \in [Streams -> Nat]
    BY <1>2, <2>1 DEF LedgerClosed, Emit, TypeOK
  <2>4. sent' \in [Streams -> Seq(Nat)]
    BY <1>2, <2>1 DEF LedgerClosed, Emit, TypeOK
  <2>5. validated' \in 0..MaxLedger /\ announced' \in SUBSET (1..MaxLedger)
    BY <1>2, WaitValidationAssumption DEF LedgerClosed, TypeOK
  <2>6. UNCHANGED <<connected, opened, cancelled, closeFired, openedAt,
                    cancelledAt>>
    BY <1>2 DEF LedgerClosed
  <2>7. QED
    BY <2>2, <2>3, <2>4, <2>5, <2>6 DEF TypeOK
<1>3. CASE LedgerClosedOffline
  BY <1>3, WaitValidationAssumption DEF LedgerClosedOffline, TypeOK, streamVars
<1>4. ASSUME NEW s \in Streams, Open(s) PROVE TypeOK'
  BY <1>4 DEF Open, TypeOK
<1>5. ASSUME NEW s \in Streams, Cancel(s) PROVE TypeOK'
  BY <1>5 DEF Cancel, TypeOK
<1>6. ASSUME NEW s \in Streams, Close(s) PROVE TypeOK'
  BY <1>6 DEF Close, RemoveListener, TypeOK
<1>7. CASE UNCHANGED vars
  BY <1>7 DEF vars, TypeOK
<1>8. QED
  BY <1>1, <1>2, <1>3, <1>4, <1>5, <1>6, <1>7 DEF Next

(* Every state of the model is well typed: in particular removeListener   *)
(* never drives a registration count below zero, and every version written *)
(* to a call is a ledger version.                                          *)
THEOREM TypeCorrect == Spec => []TypeOK
BY TypeInit, TypeStep, PTL DEF Spec

-----------------------------------------------------------------------------
(* The initial state satisfies the inductive invariant.                    *)
LEMMA IInvInit == Init => IInv
<1> SUFFICES ASSUME Init PROVE IInv
  OBVIOUS
<1>1. TypeOK
  BY TypeInit
<1>2. CallFacts /\ ListenerReleased /\ DeliveredExactly /\ ReleasedByNextEvent
  BY DEF Init, CallFacts, ListenerReleased, DeliveredExactly,
         ReleasedByNextEvent
<1>3. QED
  BY <1>1, <1>2 DEF IInv

(* It suffices to show the announced versions stay in the past and each   *)
(* call's part of the invariant holds after the step.                      *)
LEMMA IInvByCall ==
    ASSUME TypeOK',
           \A v \in announced' : v <= validated',
           \A t \in Streams : CallInvNext(t)
    PROVE  IInv'
<1>1. CallFacts'
  BY DEF CallInvNext, CallFacts
<1>2. ListenerReleased'
  BY DEF CallInvNext, ListenerReleased
<1>3. DeliveredExactly'
  BY DEF CallInvNext, DeliveredExactly
<1>4. ReleasedByNextEvent'
  BY DEF CallInvNext, ReleasedByNextEvent
<1>5. QED
  BY <1>1, <1>2, <1>3, <1>4 DEF IInv

(* Every step preserves the inductive invariant.                           *)
LEMMA IInvStep == IInv /\ [Next]_vars => IInv'
<1> SUFFICES ASSUME IInv, [Next]_vars PROVE IInv'
  OBVIOUS
<1> USE DEF IInv
<1>0. TypeOK'
  BY TypeStep
<1>N. announced \subseteq Nat /\ validated \in Nat
  BY DEF TypeOK
<1>1. CASE Connect \/ Disconnect
  BY <1>0, <1>1 DEF Connect, Disconnect, streamVars, CallFacts,
                    ListenerReleased, DeliveredExactly, ReleasedByNextEvent, Upto
<1>2. CASE LedgerClosed
  <2>1. validated' = (validated + 1) /\ announced' = announced \cup {(validated + 1)}
    BY <1>2 DEF LedgerClosed
  <2>2. \A v \in announced' : v <= validated'
    BY <2>1 DEF CallFacts, TypeOK
  <2>3. ASSUME NEW t \in Streams PROVE CallInvNext(t)
    <3> USE DEF TypeOK
    <3>0. /\ UNCHANGED <<opened[t], cancelled[t], openedAt[t], cancelledAt[t]>>
          /\ openedAt[t] <= validated /\ cancelledAt[t] <= validated
          /\ \A v \in announced : v <= validated
      BY <1>2 DEF LedgerClosed, CallFacts
    <3>1. CASE listeners[t] > 0 /\ cancelled[t]
      <4>1. opened[t] /\ ends[t] = 0 /\ listeners[t] = 1
        BY <3>1 DEF ListenerReleased
      <4>2. ends'[t] = 1 /\ listeners'[t] = 0 /\ sent'[t] = sent[t]
        BY <1>2, <3>1, <4>1 DEF LedgerClosed, Emit, LedgerHandler, RemoveListener
      <4>3. Upto(t)' = cancelledAt[t] /\ Upto(t) = cancelledAt[t]
        BY <3>0, <3>1 DEF Upto
      <4>4. {v \in announced' : openedAt'[t] < v /\ v <= Upto(t)'}
              = {v \in announced : openedAt[t] < v /\ v <= Upto(t)}
        BY <2>1, <3>0, <4>3
      <4>5. QED
        BY <3>0, <3>1, <4>1, <4>2, <4>4, <2>1 DEF CallInvNext, DeliveredExactly
    <3>2. CASE listeners[t] > 0 /\ ~cancelled[t]
      <4>1. opened[t] /\ ends[t] = 0 /\ listeners[t] = 1
        BY <3>2 DEF ListenerReleased
      <4>2. ends'[t] = 0 /\ listeners'[t] = 1 /\ sent'[t] = Append(sent[t], (validated + 1))
        BY <1>2, <3>2, <4>1 DEF LedgerClosed, Emit, LedgerHandler
      <4>3. /\ Range(sent[t]) = {v \in announced : openedAt[t] < v /\ v <= validated}
            /\ Ascending(sent[t])
        BY <3>2, <4>1 DEF DeliveredExactly, Upto
      <4>4. \A w \in Range(sent[t]) : w < (validated + 1)
        <5>1. validated \in Nat /\ announced \subseteq Nat
          OBVIOUS
        <5>2. ASSUME NEW w \in Range(sent[t]) PROVE w \in Nat /\ w <= validated
          <6>1. w \in announced /\ w <= validated
            BY <3>0, <4>3
          <6>2. QED
            BY <5>1, <6>1
        <5>3. QED
          BY <5>1, <5>2
      <4>5. Range(sent'[t]) = Range(sent[t]) \cup {(validated + 1)} /\ Ascending(sent'[t])
        <5>1. sent[t] \in Seq(Nat) /\ validated + 1 \in Nat
          OBVIOUS
        <5>2. QED
          BY <4>2, <4>4, <4>3, <5>1, RangeAppend, SortedAppend
      <4>6. {v \in announced' : openedAt'[t] < v /\ v <= Upto(t)'}
              = {v \in announced : openedAt[t] < v /\ v <= validated} \cup {(validated + 1)}
        <5>1. Upto(t)' = (validated + 1)
          BY <2>1, <3>0, <3>2 DEF Upto
        <5>2. openedAt'[t] = openedAt[t] /\ openedAt[t] < (validated + 1) /\ validated \in Nat
          BY <3>0
        <5>3. {v \in announced \cup {validated + 1} :
                  openedAt[t] < v /\ v <= validated + 1}
                = {v \in announced : openedAt[t] < v /\ v <= validated}
                  \cup {validated + 1}
          <6>1. /\ announced \in SUBSET Nat /\ validated \in Nat
                /\ openedAt[t] \in Nat /\ openedAt[t] <= validated
                /\ \A w \in announced : w <= validated
            BY <1>N, <3>0
          <6>2. QED
            BY <6>1, SetGrow, ZenonT(120)
        <5>4. QED
          BY <2>1, <5>1, <5>2, <5>3
      <4>7. QED
        BY <3>0, <3>2, <4>1, <4>2, <4>3, <4>5, <4>6, <2>1 DEF CallInvNext
    <3>3. CASE listeners[t] = 0
      <4>1. UNCHANGED <<ends[t], listeners[t], sent[t]>>
        BY <1>2, <3>3 DEF LedgerClosed, Emit
      <4>2. opened[t] => cancelled[t]
        BY <3>3 DEF ListenerReleased, CallFacts
      <4>3. opened[t] =>
              {v \in announced' : openedAt'[t] < v /\ v <= Upto(t)'}
                = {v \in announced : openedAt[t] < v /\ v <= Upto(t)}
        BY <2>1, <3>0, <4>2 DEF Upto
      <4>4. QED
        BY <3>0, <3>3, <4>1, <4>3, <2>1
           DEF CallInvNext, CallFacts, ListenerReleased, DeliveredExactly,
               ReleasedByNextEvent
    <3>4. QED
      BY <3>1, <3>2, <3>3
  <2>4. QED
    BY <1>0, <2>2, <2>3, IInvByCall
<1>3. CASE LedgerClosedOffline
  <2>0. /\ validated' = validated + 1
        /\ validated \in Nat
        /\ UNCHANGED <<announced, listeners, opened, cancelled, ends, sent,
                       openedAt, cancelledAt>>
        /\ \A v \in announced : v <= validated
    BY <1>3 DEF LedgerClosedOffline, streamVars, TypeOK, CallFacts
  <2>1. ASSUME NEW t \in Streams PROVE CallInvNext(t)
    <3>0. /\ openedAt[t] <= validated /\ cancelledAt[t] <= validated
          /\ openedAt[t] \in Nat /\ cancelledAt[t] \in Nat
      BY DEF CallFacts, TypeOK
    <3>1. {v \in announced' : openedAt'[t] < v /\ v <= Upto(t)'}
            = {v \in announced : openedAt[t] < v /\ v <= Upto(t)}
      <4>1. CASE cancelled[t]
        <5>1. Upto(t)' = cancelledAt[t] /\ Upto(t) = cancelledAt[t]
          BY <2>0, <4>1 DEF Upto
        <5>2. QED
          BY <1>N, <2>0, <5>1
      <4>2. CASE ~cancelled[t]
        <5>1. Upto(t)' = validated + 1 /\ Upto(t) = validated
          BY <2>0, <4>2 DEF Upto
        <5>2. {v \in announced : openedAt[t] < v /\ v <= validated + 1}
                = {v \in announced : openedAt[t] < v /\ v <= validated}
          <6>1. /\ announced \in SUBSET Nat /\ validated \in Nat
                /\ openedAt[t] \in Nat
                /\ \A w \in announced : w <= validated
            BY <1>N, <2>0, <3>0
          <6>2. QED
            BY <6>1, SetWiden, ZenonT(120)
        <5>3. QED
          BY <2>0, <5>1, <5>2
      <4>3. QED
        BY <4>1, <4>2
    <3>2. QED
      BY <2>0, <3>0, <3>1 DEF CallInvNext, CallFacts, ListenerReleased,
                              DeliveredExactly, ReleasedByNextEvent
  <2>2. \A v \in announced' : v <= validated'
    BY <1>N, <2>0
  <2>3. QED
    BY <1>0, <2>1, <2>2, IInvByCall
<1>4. ASSUME NEW s \in Streams, Open(s) PROVE IInv'
  <2>1. ASSUME NEW t \in Streams PROVE CallInvNext(t)
    <3>1. CASE t = s
      <4>1. {v \in announced : validated < v /\ v <= Upto(s)} = {}
        <5>1. Upto(s) <= validated /\ Upto(s) \in Nat /\ validated \in Nat
          BY DEF Upto, CallFacts, TypeOK
        <5>2. \A v \in announced : v <= validated
          BY DEF CallFacts
        <5>3. QED
          BY <1>N, <5>1, <5>2, SetNone
      <4>2. QED
        BY <1>4, <3>1, <4>1, EmptySent
           DEF Open, CallInvNext, CallFacts, ListenerReleased, Upto, TypeOK
    <3>4. CASE t # s
      BY <1>4, <3>4 DEF Open, CallInvNext, CallFacts, ListenerReleased,
                        DeliveredExactly, ReleasedByNextEvent, Upto, TypeOK
    <3>5. QED
      BY <3>1, <3>4
  <2>2. QED
    BY <1>0, <1>4, <2>1, IInvByCall DEF Open, CallFacts
<1>5. ASSUME NEW s \in Streams, Cancel(s) PROVE IInv'
  <2>1. ASSUME NEW t \in Streams PROVE CallInvNext(t)
    BY <1>5 DEF Cancel, CallInvNext, CallFacts, ListenerReleased,
                DeliveredExactly, ReleasedByNextEvent, Upto, TypeOK
  <2>2. QED
    BY <1>0, <1>5, <2>1, IInvByCall DEF Cancel, CallFacts
<1>6. ASSUME NEW s \in Streams, Close(s) PROVE IInv'
  <2>1. ASSUME NEW t \in Streams PROVE CallInvNext(t)
    BY <1>6 DEF Close, RemoveListener, CallInvNext, CallFacts,
                ListenerReleased, DeliveredExactly, ReleasedByNextEvent, Upto,
                TypeOK
  <2>2. QED
    BY <1>0, <1>6, <2>1, IInvByCall DEF Close, CallFacts
<1>7. CASE UNCHANGED vars
  BY <1>0, <1>7 DEF vars, CallFacts, ListenerReleased, DeliveredExactly,
                    ReleasedByNextEvent, Upto
<1>8. QED
  BY <1>1, <1>2, <1>3, <1>4, <1>5, <1>6, <1>7 DEF Next

(* Every reachable state satisfies the inductive invariant.                *)
THEOREM InvariantHolds == Spec => []IInv
BY IInvInit, IInvStep, PTL DEF Spec

(* ListenerReleased, for any number of calls and ledgers: the cancel check *)
(* in ledgerHandler and the 'close' handler of waitValidation never leave  *)
(* a listener behind on the shared RippleAPI and never remove the one of a *)
(* live call.                                                              *)
THEOREM ListenerReleasedHolds == Spec => []ListenerReleased
BY InvariantHolds, PTL DEF IInv

(* DeliveredExactly, for any number of calls and ledgers: waitValidation   *)
(* writes to each call exactly the ledgers announced between its opening  *)
(* and its cancellation, in order, without a duplicate.                    *)
THEOREM DeliveredExactlyHolds == Spec => []DeliveredExactly
BY InvariantHolds, PTL DEF IInv

(* ReleasedByNextEvent, for any number of calls and ledgers: the cancel    *)
(* check in ledgerHandler observes a cancellation at the first ledger      *)
(* event after it, even if 'close' never comes.                            *)
THEOREM ReleasedByNextEventHolds == Spec => []ReleasedByNextEvent
BY InvariantHolds, PTL DEF IInv

=============================================================================
