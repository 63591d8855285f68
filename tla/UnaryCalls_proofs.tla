------------------------- MODULE UnaryCalls_proofs --------------------------
(***************************************************************************)
(* Proofs, for every set of calls, every set of methods and every ledger   *)
(* bound, that the unary-call model keeps its type and that the            *)
(* earliestLedgerVersion answered by submitTransaction is never above the  *)
(* ledger that validates the submitted blob.                               *)
(***************************************************************************)
EXTENDS UnaryCalls, TLAPS

(* What a call's history implies about its submitted blob: only a submit   *)
(* call gets past its first await or has a blob at the node; the version   *)
(* it read is in the past until its blob is validated, and below the      *)
(* validating ledger after; its reply carries that version plus one.       *)
CallOK(c) ==
    /\ phase[c] \in {"ledger", "submit", "reply"} => method[c] = "submitTransaction"
    /\ inPool[c] => /\ method[c] = "submitTransaction"
                    /\ phase[c] \in {"reply", "done"}
    /\ phase[c] = "submit" => lv[c] <= validated
    /\ ~inPool[c] => txIn[c] = 0
    /\ inPool[c] /\ txIn[c] = 0 => lv[c] <= validated
    /\ txIn[c] # 0 => lv[c] < txIn[c]
    /\ (method[c] = "submitTransaction" /\ replies[c] > 0)
         => phase[c] = "done" /\ earliest[c] = lv[c] + 1

IInv ==
    /\ TypeOK
    /\ known <= validated
    /\ \A c \in Calls : CallOK(c)
-----------------------------------------------------------------------------
(* The initial states are well typed.                                     *)
LEMMA TypeInit == Init => TypeOK
<1> SUFFICES ASSUME Init PROVE TypeOK
  OBVIOUS
<1>1. validated \in 0..MaxLedger /\ known \in 0..MaxLedger
  BY UnaryCallsAssumption DEF Init
<1>2. /\ lv \in [Calls -> 0..MaxLedger] /\ txIn \in [Calls -> 0..MaxLedger]
      /\ earliest \in [Calls -> 0..MaxLedger + 1]
  BY UnaryCallsAssumption DEF Init
<1>3. QED
  BY <1>1, <1>2 DEF Init, TypeOK, Phases

(* A step of a call keeps phases in Phases and callback counts natural.    *)
LEMMA StepType ==
    ASSUME NEW c \in Calls, NEW p \in Phases, NEW q \in Phases, NEW n \in Nat,
           phase \in [Calls -> Phases], replies \in [Calls -> Nat],
           Step(c, p, q, n)
    PROVE  phase' \in [Calls -> Phases] /\ replies' \in [Calls -> Nat]
BY DEF Step

(* Every step keeps the state well typed.                                  *)
LEMMA TypeStep == TypeOK /\ [Next]_vars => TypeOK'
<1> SUFFICES ASSUME TypeOK, [Next]_vars PROVE TypeOK'
  OBVIOUS
<1> USE DEF TypeOK
<1>1. CASE Connect \/ Disconnect
  BY <1>1 DEF Connect, Disconnect, callVars
<1>2. CASE LedgerClosed \/ LedgerClosedOffline
  <2>1. validated < MaxLedger /\ validated' = validated + 1
    BY <1>2 DEF LedgerClosed, LedgerClosedOffline, ValidateNext
  <2>2. txIn' \in [Calls -> 0..MaxLedger]
    <3>1. PICK S \in SUBSET Calls :
            txIn' = [d \in Calls |-> IF d \in S THEN validated + 1 ELSE txIn[d]]
      BY <1>2 DEF LedgerClosed, LedgerClosedOffline, ValidateNext
    <3>2. validated + 1 \in 0..MaxLedger
      BY <2>1, UnaryCallsAssumption
    <3>3. QED
      BY <3>1, <3>2
  <2>3. validated' \in 0..MaxLedger /\ known' \in 0..MaxLedger
    BY <1>2, <2>1, UnaryCallsAssumption DEF LedgerClosed, LedgerClosedOffline
  <2>4. QED
    BY <1>2, <2>2, <2>3 DEF LedgerClosed, LedgerClosedOffline
<1>3. ASSUME NEW c \in Calls, Handle(c) PROVE TypeOK'
  <2>1. phase' \in [Calls -> Phases] /\ replies' \in [Calls -> Nat]
    BY <1>3, StepType DEF Handle, PrepareHandler, SubmitHandler, SyncHandler,
                          CombineHandler, QueryHandler, Phases
  <2>2. CASE CombineHandler(c)
    BY <2>1, <2>2 DEF CombineHandler, IsResCombineTransaction, CombineResult
  <2>3. CASE ~CombineHandler(c)
    BY <1>3, <2>1, <2>3 DEF Handle, PrepareHandler, SubmitHandler, SyncHandler,
                            QueryHandler
  <2>4. QED
    BY <2>2, <2>3
<1>4. ASSUME NEW c \in Calls, Settle(c) PROVE TypeOK'
  <2>1. phase' \in [Calls -> Phases] /\ replies' \in [Calls -> Nat]
    <3>1. CASE SubmitRejected(c)
      BY <3>1 DEF SubmitRejected, Phases
    <3>2. CASE ~SubmitRejected(c)
      BY <1>4, <3>2, StepType DEF Settle, PrepareResolved, PrepareRejected,
                                  SubmitLedgerVersion, SubmitSent,
                                  SubmitResponse, GetSettled, AccountAnswered,
                                  AccountErrorWithoutData, Phases
    <3>3. QED
      BY <3>1, <3>2
  <2>2. CASE SubmitResponse(c)
    <3>1. lv[c] + 1 \in 0..MaxLedger + 1
      BY UnaryCallsAssumption
    <3>2. QED
      BY <2>1, <2>2, <3>1 DEF SubmitResponse
  <2>3. CASE SubmitLedgerVersion(c)
    BY <2>1, <2>3 DEF SubmitLedgerVersion
  <2>4. CASE ~SubmitResponse(c) /\ ~SubmitLedgerVersion(c)
    BY <1>4, <2>1, <2>4 DEF Settle, PrepareResolved, PrepareRejected,
                            SubmitSent, SubmitRejected, GetSettled,
                            AccountAnswered, AccountErrorWithoutData
  <2>5. QED
    BY <2>2, <2>3, <2>4
<1>5. CASE UNCHANGED vars
  BY <1>5 DEF vars
<1>6. QED
  BY <1>1, <1>2, <1>3, <1>4, <1>5 DEF Next

(* Every state of the model is well typed.                                 *)
THEOREM TypeCorrect == Spec => []TypeOK
BY TypeInit, TypeStep, PTL DEF Spec

-----------------------------------------------------------------------------
(* A call whose own state, the method it requests and the validated        *)
(* version are untouched by a step keeps its part of the invariant.        *)
LEMMA CallFrame ==
    ASSUME NEW d \in Calls,
           validated' = validated, method'[d] = method[d],
           phase'[d] = phase[d], replies'[d] = replies[d], lv'[d] = lv[d],
           earliest'[d] = earliest[d], inPool'[d] = inPool[d],
           txIn'[d] = txIn[d],
           CallOK(d)
    PROVE  CallOK(d)'
BY DEF CallOK

(* The initial states satisfy the inductive invariant.                     *)
LEMMA IInvInit == Init => IInv
<1> SUFFICES ASSUME Init PROVE IInv
  OBVIOUS
<1>1. TypeOK
  BY TypeInit
<1>2. known <= validated /\ \A c \in Calls : CallOK(c)
  BY DEF Init, CallOK
<1>3. QED
  BY <1>1, <1>2 DEF IInv

(* The step of a call c: the handler or a continuation of call c changes   *)
(* nothing but c's own phase, callback count, read version, answer and     *)
(* blob.                                                                   *)
CallStep(c) ==
    /\ UNCHANGED <<connected, validated, known, method, complete, txIn>>
    /\ \A d \in Calls \ {c} :
          /\ phase'[d] = phase[d] /\ replies'[d] = replies[d]
          /\ lv'[d] = lv[d] /\ earliest'[d] = earliest[d]
          /\ inPool'[d] = inPool[d]

(* Every handler and continuation is such a step.                          *)
LEMMA CallStepOf ==
    ASSUME TypeOK, NEW c \in Calls, Handle(c) \/ Settle(c)
    PROVE  CallStep(c)
BY DEF TypeOK, CallStep, Handle, Settle, Step, PrepareHandler, SubmitHandler,
       SyncHandler, CombineHandler, QueryHandler, PrepareResolved,
       PrepareRejected, SubmitLedgerVersion, SubmitSent, SubmitResponse,
       SubmitRejected, GetSettled, AccountAnswered, AccountErrorWithoutData

(* Every step preserves the inductive invariant.                           *)
LEMMA IInvStep == IInv /\ [Next]_vars => IInv'
<1> SUFFICES ASSUME IInv, [Next]_vars PROVE IInv'
  OBVIOUS
<1> USE DEF IInv
<1>0. TypeOK'
  BY TypeStep
<1>1. CASE Connect \/ Disconnect
  <2>1. known' <= validated'
    BY <1>1 DEF Connect, Disconnect, TypeOK
  <2>2. ASSUME NEW d \in Calls PROVE CallOK(d)'
    BY <1>1, CallFrame DEF Connect, Disconnect, callVars
  <2>3. QED
    BY <1>0, <2>1, <2>2
<1>2. CASE LedgerClosed \/ LedgerClosedOffline
  <2>1. /\ validated' = validated + 1 /\ known' <= validated'
        /\ UNCHANGED <<method, phase, replies, lv, earliest, inPool>>
    BY <1>2 DEF LedgerClosed, LedgerClosedOffline, ValidateNext, TypeOK
  <2>2. PICK S \in SUBSET {c \in Calls : inPool[c] /\ txIn[c] = 0} :
          txIn' = [c \in Calls |-> IF c \in S THEN validated + 1 ELSE txIn[c]]
    BY <1>2 DEF LedgerClosed, LedgerClosedOffline, ValidateNext
  <2>3. ASSUME NEW d \in Calls PROVE CallOK(d)'
    <3>1. lv[d] \in Nat /\ validated \in Nat /\ txIn[d] \in Nat
      BY DEF TypeOK
    <3>2. CASE d \in S
      <4>1. inPool[d] /\ txIn[d] = 0 /\ txIn'[d] = validated + 1
        BY <2>2, <3>2
      <4>2. lv[d] <= validated
        BY <4>1 DEF CallOK
      <4>3. QED
        BY <2>1, <3>1, <4>1, <4>2 DEF CallOK
    <3>3. CASE d \notin S
      <4>1. txIn'[d] = txIn[d]
        BY <2>2, <3>3
      <4>2. QED
        BY <2>1, <3>1, <4>1 DEF CallOK
    <3>4. QED
      BY <3>2, <3>3
  <2>4. QED
    BY <1>0, <2>1, <2>3
<1>3. ASSUME NEW c \in Calls, Handle(c) \/ Settle(c) PROVE IInv'
  <2>1. CallStep(c)
    BY <1>3, CallStepOf
  <2>2. known' <= validated'
    BY <2>1 DEF CallStep
  <2>3. ASSUME NEW d \in Calls \ {c} PROVE CallOK(d)'
    BY <2>1, CallFrame DEF CallStep
  <2>4. CallOK(c)'
    <3> USE DEF TypeOK
    <3>1. CASE PrepareHandler(c) \/ SyncHandler(c) \/ CombineHandler(c)
                \/ QueryHandler(c)
      BY <2>1, <3>1 DEF PrepareHandler, SyncHandler, CombineHandler,
                        QueryHandler, SyncMethods, Step, CallStep, CallOK
    <3>2. CASE SubmitHandler(c)
      BY <2>1, <3>2 DEF SubmitHandler, Step, CallStep, CallOK
    <3>3. CASE PrepareResolved(c) \/ PrepareRejected(c) \/ GetSettled(c)
                \/ AccountAnswered(c) \/ AccountErrorWithoutData(c)
      BY <2>1, <3>3 DEF PrepareResolved, PrepareRejected, GetSettled,
                        AccountAnswered, AccountErrorWithoutData, Step,
                        CallStep, CallOK
    <3>4. CASE SubmitLedgerVersion(c)
      BY <2>1, <3>4 DEF SubmitLedgerVersion, Step, CallStep, CallOK
    <3>5. CASE SubmitSent(c)
      BY <2>1, <3>5 DEF SubmitSent, Step, CallStep, CallOK
    <3>6. CASE SubmitResponse(c)
      BY <2>1, <3>6 DEF SubmitResponse, Step, CallStep, CallOK
    <3>7. CASE SubmitRejected(c)
      BY <2>1, <3>7 DEF SubmitRejected, CallStep, CallOK
    <3>8. QED
      BY <1>3, <3>1, <3>2, <3>3, <3>4, <3>5, <3>6, <3>7 DEF Handle, Settle
  <2>5. QED
    BY <1>0, <2>2, <2>3, <2>4
<1>4. CASE UNCHANGED vars
  <2>1. ASSUME NEW d \in Calls PROVE CallOK(d)'
    BY <1>4, CallFrame DEF vars
  <2>2. QED
    BY <1>0, <1>4, <2>1 DEF vars
<1>5. QED
  BY <1>1, <1>2, <1>3, <1>4 DEF Next

(* Every reachable state satisfies the inductive invariant.                *)
THEOREM InvariantHolds == Spec => []IInv
BY IInvInit, IInvStep, PTL DEF Spec

(* The invariant implies the soundness of earliestLedgerVersion.           *)
LEMMA IInvEarliest == IInv => EarliestLedgerSound
BY DEF IInv, CallOK, EarliestLedgerSound, TypeOK

(* EarliestLedgerSound, for any calls, methods and ledger bound: however   *)
(* ledgers close between getLedgerVersion and submit in                    *)
(* _submitTransaction, and however long the node's answer takes, the       *)
(* earliestLedgerVersion submitTransaction answers is never above the      *)
(* ledger that validates the blob, so getTransaction with that             *)
(* minLedgerVersion searches from no later than the ledger that has it.    *)
THEOREM EarliestLedgerSoundHolds == Spec => []EarliestLedgerSound
BY InvariantHolds, IInvEarliest, PTL

-----------------------------------------------------------------------------
(* A call has been called back only once its chain is done, and at most    *)
(* once: the invariant behind RepliedAtMostOnce.                           *)
ReplyInv ==
    /\ TypeOK
    /\ \A c \in Calls : /\ phase[c] # "done" => replies[c] = 0
                        /\ replies[c] <= 1

LEMMA ReplyInit == Init => ReplyInv
<1> SUFFICES ASSUME Init PROVE ReplyInv
  OBVIOUS
<1>1. TypeOK
  BY TypeInit
<1>2. QED
  BY <1>1 DEF Init, ReplyInv

(* Without prepareTransaction, every step keeps ReplyInv: the handlers and *)
(* continuations that call back all finish the call's chain.               *)
LEMMA ReplyStep ==
    ASSUME "prepareTransaction" \notin Methods
    PROVE  ReplyInv /\ [Next]_vars => ReplyInv'
<1> SUFFICES ASSUME ReplyInv, [Next]_vars PROVE ReplyInv'
  OBVIOUS
<1>T. TypeOK
  BY DEF ReplyInv
<1>0. TypeOK'
  BY <1>T, TypeStep
<1>1. CASE UNCHANGED <<phase, replies>>
  BY <1>0, <1>1 DEF ReplyInv
<1>2. ASSUME NEW c \in Calls, Handle(c) \/ Settle(c) PROVE ReplyInv'
  <2>1. CallStep(c)
    BY <1>2, <1>T, CallStepOf
  <2>2. method[c] # "prepareTransaction"
    BY <1>T DEF TypeOK
  <2>3. /\ phase[c] # "done" => replies[c] = 0
        /\ replies[c] <= 1
        /\ replies[c] \in Nat
    BY <1>T DEF ReplyInv, TypeOK
  <2>4. /\ phase'[c] # "done" => replies'[c] = 0
        /\ replies'[c] <= 1
    <3>1. CASE SubmitHandler(c) \/ QueryHandler(c) \/ SubmitLedgerVersion(c)
                \/ SubmitSent(c) \/ AccountErrorWithoutData(c)
                \/ PrepareRejected(c)
      BY <2>3, <3>1, <1>T DEF SubmitHandler, QueryHandler, SubmitLedgerVersion,
                              SubmitSent, AccountErrorWithoutData,
                              PrepareRejected, Step, TypeOK
    <3>2. CASE SyncHandler(c) \/ CombineHandler(c) \/ SubmitResponse(c)
                \/ GetSettled(c) \/ AccountAnswered(c) \/ PrepareResolved(c)
      BY <2>3, <3>2, <1>T DEF SyncHandler, CombineHandler, SubmitResponse,
                              GetSettled, AccountAnswered, PrepareResolved,
                              Step, TypeOK
    <3>3. CASE SubmitRejected(c)
      BY <2>3, <3>3, <1>T DEF SubmitRejected, TypeOK
    <3>4. CASE PrepareHandler(c)
      BY <2>2, <3>4 DEF PrepareHandler
    <3>5. QED
      BY <1>2, <3>1, <3>2, <3>3, <3>4 DEF Handle, Settle
  <2>5. ASSUME NEW d \in Calls \ {c}
        PROVE  /\ phase'[d] # "done" => replies'[d] = 0
               /\ replies'[d] <= 1
    BY <2>1, <1>T DEF CallStep, ReplyInv
  <2>6. QED
    BY <1>0, <2>4, <2>5 DEF ReplyInv
<1>3. QED
  <2>1. CASE Connect \/ Disconnect \/ LedgerClosed \/ LedgerClosedOffline
    BY <1>1, <2>1 DEF Connect, Disconnect, LedgerClosed, LedgerClosedOffline,
                      callVars
  <2>2. CASE UNCHANGED vars
    BY <1>1, <2>2 DEF vars
  <2>3. QED
    BY <1>2, <2>1, <2>2 DEF Next

(* RepliedAtMostOnce, for any calls and ledger bound, when the server is   *)
(* not asked to prepare: no handler or continuation of sign, the address  *)
(* calls, combine, submit, getTransaction or getAccountInfo invokes its    *)
(* gRPC callback twice. prepareTransaction is excluded because its         *)
(* disconnected error callback has no return (service_transaction.ts:119), *)
(* which the run prepare_double_reply shows.                               *)
THEOREM RepliedAtMostOnceHolds ==
    ASSUME "prepareTransaction" \notin Methods
    PROVE  Spec => []RepliedAtMostOnce
<1>1. ReplyInv => RepliedAtMostOnce
  BY DEF ReplyInv, RepliedAtMostOnce
<1>2. QED
  BY <1>1, ReplyInit, ReplyStep, PTL DEF Spec


-----------------------------------------------------------------------------
(* Without prepareTransaction, a step that changes a call's callback count *)
(* is a handler or continuation of that call which ends its chain from a   *)
(* phase that had not ended.                                               *)
LEMMA AnswerStep ==
    ASSUME "prepareTransaction" \notin Methods, TypeOK, [Next]_vars,
           NEW c \in Calls, replies'[c] # replies[c]
    PROVE  phase[c] # "done" /\ phase'[c] = "done"
<1>1. PICK e \in Calls : Handle(e) \/ Settle(e)
  BY DEF Next, Connect, Disconnect, LedgerClosed, LedgerClosedOffline,
         callVars, vars
<1>2. e = c
  BY <1>1, CallStepOf DEF CallStep
<1>3. method[c] # "prepareTransaction"
  BY DEF TypeOK
<1>4. CASE SubmitHandler(c) \/ QueryHandler(c) \/ SubmitLedgerVersion(c)
            \/ SubmitSent(c) \/ AccountErrorWithoutData(c)
            \/ PrepareRejected(c) \/ SubmitRejected(c)
  BY <1>4 DEF SubmitHandler, QueryHandler, SubmitLedgerVersion, SubmitSent,
              AccountErrorWithoutData, PrepareRejected, SubmitRejected, Step,
              TypeOK
<1>5. CASE SyncHandler(c) \/ CombineHandler(c) \/ SubmitResponse(c)
            \/ GetSettled(c) \/ AccountAnswered(c) \/ PrepareResolved(c)
  BY <1>5 DEF SyncHandler, CombineHandler, SubmitResponse, GetSettled,
              AccountAnswered, PrepareResolved, Step, TypeOK
<1>6. CASE PrepareHandler(c)
  BY <1>3, <1>6 DEF PrepareHandler
<1>7. QED
  BY <1>1, <1>2, <1>4, <1>5, <1>6 DEF Handle, Settle

(* AnsweredOnlyWhenDone, for any calls and ledger bound, when the server   *)
(* is not asked to prepare: the gRPC callback of sign, the address calls,  *)
(* combine, submit, getTransaction and getAccountInfo is invoked only by   *)
(* the handler or continuation that ends the call's promise chain, and no  *)
(* continuation runs for a call after its answer. prepareTransaction is    *)
(* excluded for its error callback without a return                       *)
(* (service_transaction.ts:119), after which the chain goes on.            *)
THEOREM AnsweredOnlyWhenDoneHolds ==
    ASSUME "prepareTransaction" \notin Methods
    PROVE  Spec => AnsweredOnlyWhenDone
<1>1. TypeOK /\ [Next]_vars =>
        [\A c \in Calls :
            replies'[c] # replies[c] => phase[c] # "done" /\ phase'[c] = "done"
        ]_vars
  BY AnswerStep
<1>2. QED
  BY <1>1, TypeCorrect, PTL DEF Spec, AnsweredOnlyWhenDone

=============================================================================
