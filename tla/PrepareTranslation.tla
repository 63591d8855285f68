------------------------- MODULE PrepareTranslation -------------------------
(***************************************************************************)
(* The request and response translation of prepareTransaction in           *)
(* src/rippleapi/service_transaction.ts: the instruction filter of         *)
(* _prepareTransaction (54-92) and the encoding of its result by the       *)
(* handler's .then (123-130).                                              *)
(*                                                                         *)
(* A client's Instructions is a partial record: the fields it set, with    *)
(* their values. It reaches the server through protobuf (proto3 scalars,   *)
(* transaction_pb.d.ts: no has-method, a getter returns 0 or "" for a      *)
(* field that is not on the wire). The filter keeps the fields whose       *)
(* getter is truthy. ripple-lib's prepareTransaction resolves with a       *)
(* descriptor whose txJSON is already JSON text; the handler encodes that  *)
(* text again before it answers.                                           *)
(*                                                                         *)
(* The steps of one call: the client Sends its request, _prepareTransaction *)
(* Translates the instructions and awaits ripple-lib, the .then Responds.  *)
(***************************************************************************)
EXTENDS Naturals

CONSTANTS
    NumberValues,   \* values a client may give a numeric instruction
    StringValues,   \* values a client may give a string instruction (fee)
    Tx,             \* the transaction descriptor ripple-lib prepares
    Undefined,      \* getInstructions() of a request without Instructions
    None            \* no request, options or answer yet

ASSUME PrepareTranslationAssumption ==
    /\ NumberValues \subseteq Nat
    /\ 0 \in NumberValues
    /\ "" \in StringValues

NumberFields == {"maxLedgerVersionOffset", "maxLedgerVersion", "sequence",
                 "signersCount"}
StringFields == {"fee", "maxFee"}
Fields == NumberFields \cup StringFields

(* What a getter of a proto3 field returns when the field is not set.      *)
Default(f) == IF f \in NumberFields THEN 0 ELSE ""

(* The Instructions a client may attach: any subset of the fields, each    *)
(* with a value of its type; or no Instructions at all.                    *)
FullInstructions ==
    {[f \in Fields |-> IF f \in NumberFields THEN n[f] ELSE t[f]] :
        n \in [NumberFields -> NumberValues], t \in [StringFields -> StringValues]}
InstructionRecords ==
    {[f \in F |-> r[f]] : r \in FullInstructions, F \in SUBSET Fields}
ClientInstructions == InstructionRecords \cup {Undefined}

(* call.request.getInstructions() on the server: proto3 decoding gives     *)
(* every field a value, the default for a field the client left out and    *)
(* for one it set to the default (it is not written to the wire).          *)
Decode(i) ==
    IF i = Undefined THEN Undefined
    ELSE [f \in Fields |-> IF f \in DOMAIN i THEN i[f] ELSE Default(f)]

(* JavaScript truthiness of the value v of field f: 0 and "" are the only  *)
(* falsy values an integer or a string getter returns.                     *)
Truthy(f, v) == v # Default(f)

(* JSON.stringify of a value: JSON text that parses back to the value.     *)
Json(v) == [json |-> v]

(* None and Undefined stand for JavaScript's absent values: neither is an  *)
(* Instructions object, and they differ from each other and from an       *)
(* answer.                                                                 *)
ASSUME SentinelsAssumption ==
    /\ None \notin ClientInstructions
    /\ Undefined \notin InstructionRecords
    /\ None \notin {Json(Tx), Json(Json(Tx))}

(* Mutant: maxLedgerVersion copied from the maxLedgerVersionOffset getter. *)
FilterInstructionsSwapped(inst) ==
    LET get(f) == IF f = "maxLedgerVersion" THEN inst["maxLedgerVersionOffset"]
                  ELSE inst[f]
    IN IF inst = Undefined THEN [f \in {} |-> 0]
       ELSE [f \in {g \in Fields : Truthy(g, get(g))} |-> get(f)]

(* The paramInst built by the six "if (instructions?.getX()) paramInst.x = *)
(* instructions?.getX()" statements: optional chaining makes every getter  *)
(* undefined (falsy) when there are no instructions.                       *)
FilterInstructions(inst) ==
    IF inst = Undefined THEN [f \in {} |-> 0]
    ELSE [f \in {g \in Fields : Truthy(g, inst[g])} |-> inst[f]]

-----------------------------------------------------------------------------
VARIABLES
    request,    \* the Instructions the client attached, or None yet
    paramInst,  \* the options passed to rippleAPI.prepareTransaction
    response    \* the txJson of the ResponsePrepareTransaction sent

vars == <<request, paramInst, response>>

Init ==
    /\ request = None
    /\ paramInst = None
    /\ response = None

(* The client sends a RequestPrepareTransaction.                           *)
Send ==
    /\ request = None
    /\ \E i \in ClientInstructions : request' = i
    /\ UNCHANGED <<paramInst, response>>

(* _prepareTransaction: decode the instructions, filter them and await     *)
(* rippleAPI.prepareTransaction(tx, paramInst).                            *)
Translate ==
    /\ request # None /\ paramInst = None
    /\ paramInst' = FilterInstructions(Decode(request))
    /\ UNCHANGED <<request, response>>

(* Mutant: _prepareTransaction returns the whole prepared object instead   *)
(* of its txJSON.                                                          *)
RespondWithPrepared ==
    /\ paramInst # None /\ response = None
    /\ response' = Json([txJSON |-> Json(Tx)])
    /\ UNCHANGED <<request, paramInst>>

(* prepareTransaction resolves; _prepareTransaction returns                *)
(* preparedTx.txJSON, and the .then answers with JSON.stringify of it.     *)
Respond ==
    /\ paramInst # None /\ response = None
    /\ LET txJSON == Json(Tx) IN response' = Json(txJSON)
    /\ UNCHANGED <<request, paramInst>>

Next == Send \/ Translate \/ Respond

Spec == Init /\ [][Next]_vars

-----------------------------------------------------------------------------
TypeOK ==
    /\ request \in ClientInstructions \cup {None}
    /\ paramInst \in InstructionRecords \cup {None}
    /\ response \in {None, Json(Json(Tx)), Json(Tx)}

(* Spec 8: the options passed to ripple-lib hold only fields the client    *)
(* set, each with the value the client gave it; with no Instructions, or   *)
(* all of them absent, the options are empty. A filter that read one       *)
(* getter for another field, or forwarded a default, would break it.       *)
ForwardsOnlySetValues ==
    paramInst # None =>
        \A f \in DOMAIN paramInst :
            /\ request # Undefined
            /\ f \in DOMAIN request
            /\ paramInst[f] = request[f]

(* Spec 3/8 and the open question of spec 9: every field the client set    *)
(* explicitly, a zero included, is forwarded to ripple-lib, which would    *)
(* otherwise auto-fill it (a sequence from account_info, a                  *)
(* maxLedgerVersionOffset of 3).                                           *)
ForwardsEverySetField ==
    paramInst # None /\ request # Undefined =>
        DOMAIN request \subseteq DOMAIN paramInst

=============================================================================
