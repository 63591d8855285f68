--------------------- MODULE PrepareTranslation_proofs ---------------------
(***************************************************************************)
(* Proofs, for every set of numeric and string values a client may send,   *)
(* that prepareTransaction's translation keeps its type and hands          *)
(* ripple-lib only instructions the client set, with the client's values.  *)
(* The heart of it is a lemma about the operators: what the instruction   *)
(* filter of _prepareTransaction returns for a decoded request.            *)
(***************************************************************************)
EXTENDS PrepareTranslation, TLAPS

(* The options, once built, are the filter applied to the decoded request, *)
(* and there is a request: the strengthening of ForwardsOnlySetValues.     *)
PInv ==
    /\ TypeOK
    /\ paramInst # None =>
         /\ request # None
         /\ paramInst = FilterInstructions(Decode(request))

-----------------------------------------------------------------------------
(* The six field names are distinct, numeric or string, never both.        *)
LEMMA FieldFacts ==
    /\ NumberFields \cap StringFields = {}
    /\ Fields = NumberFields \cup StringFields
BY DEF NumberFields, StringFields, Fields

(* A full record of instructions can be built from any choice of numeric   *)
(* and string values.                                                      *)
LEMMA FullBuild ==
    ASSUME NEW n \in [NumberFields -> NumberValues],
           NEW t \in [StringFields -> StringValues]
    PROVE  [f \in Fields |-> IF f \in NumberFields THEN n[f] ELSE t[f]]
             \in FullInstructions
BY DEF FullInstructions

(* Restricting a full record to some of the fields gives a record of      *)
(* instructions.                                                           *)
LEMMA RecordBuild ==
    ASSUME NEW r \in FullInstructions, NEW F \in SUBSET Fields
    PROVE  [f \in F |-> r[f]] \in InstructionRecords
BY DEF InstructionRecords

(* What a record of instructions is: a function on some of the fields,     *)
(* with values of each field's type.                                       *)
LEMMA RecordShape ==
    ASSUME NEW i \in InstructionRecords
    PROVE  \E F \in SUBSET Fields, n \in [NumberFields -> NumberValues],
              t \in [StringFields -> StringValues] :
              i = [f \in F |-> IF f \in NumberFields THEN n[f] ELSE t[f]]
<1>1. PICK r \in FullInstructions, F \in SUBSET Fields : i = [f \in F |-> r[f]]
  BY DEF InstructionRecords
<1>2. PICK n \in [NumberFields -> NumberValues],
           t \in [StringFields -> StringValues] :
           r = [f \in Fields |-> IF f \in NumberFields THEN n[f] ELSE t[f]]
  BY DEF FullInstructions
<1>3. i = [f \in F |-> IF f \in NumberFields THEN n[f] ELSE t[f]]
  BY <1>1, <1>2
<1>4. QED
  BY <1>3

(* Decoding a record of instructions gives a full record: the client's     *)
(* values where it set a field, the proto3 default elsewhere.              *)
LEMMA DecodeFull ==
    ASSUME NEW i \in InstructionRecords
    PROVE  /\ Decode(i) \in FullInstructions
           /\ DOMAIN Decode(i) = Fields
<1>1. PICK F \in SUBSET Fields, n \in [NumberFields -> NumberValues],
           t \in [StringFields -> StringValues] :
           i = [f \in F |-> IF f \in NumberFields THEN n[f] ELSE t[f]]
  BY RecordShape
<1>2. i # Undefined
  BY SentinelsAssumption
<1> DEFINE n2 == [f \in NumberFields |-> IF f \in F THEN n[f] ELSE 0]
           t2 == [f \in StringFields |-> IF f \in F THEN t[f] ELSE ""]
<1>3. n2 \in [NumberFields -> NumberValues] /\ t2 \in [StringFields -> StringValues]
  BY PrepareTranslationAssumption
<1>4. Decode(i) = [f \in Fields |-> IF f \in NumberFields THEN n2[f] ELSE t2[f]]
  BY <1>1, <1>2, FieldFacts DEF Decode, Default
<1>5. QED
  BY <1>3, <1>4, FullBuild DEF Decode

(* A decoded request is never JavaScript's undefined: it is a record of    *)
(* instructions on all six fields.                                         *)
LEMMA DecodeDefined ==
    ASSUME NEW i \in InstructionRecords
    PROVE  Decode(i) # Undefined
<1>1. Decode(i) \in FullInstructions
  BY DecodeFull
<1>2. [f \in Fields |-> Decode(i)[f]] \in InstructionRecords
  BY <1>1, RecordBuild
<1>3. [f \in Fields |-> Decode(i)[f]] = Decode(i)
  BY SentinelsAssumption DEF Decode
<1>4. QED
  BY <1>2, <1>3, SentinelsAssumption

(* The empty options are a record of instructions.                         *)
LEMMA EmptyRecord == [f \in {} |-> 0] \in InstructionRecords
<1> DEFINE n0 == [f \in NumberFields |-> 0]
           t0 == [f \in StringFields |-> ""]
           r0 == [f \in Fields |-> IF f \in NumberFields THEN n0[f] ELSE t0[f]]
<1>1. n0 \in [NumberFields -> NumberValues] /\ t0 \in [StringFields -> StringValues]
  BY PrepareTranslationAssumption
<1>2. r0 \in FullInstructions
  BY <1>1, FullBuild
<1>3. [f \in {} |-> r0[f]] \in InstructionRecords
  BY <1>2, RecordBuild
<1>4. [f \in {} |-> r0[f]] = [f \in {} |-> 0]
  OBVIOUS
<1>5. QED
  BY <1>3, <1>4

(* The filter applied to what the server decodes is a record of            *)
(* instructions.                                                           *)
LEMMA FilterType ==
    ASSUME NEW i \in ClientInstructions
    PROVE  FilterInstructions(Decode(i)) \in InstructionRecords
<1>1. CASE i = Undefined
  BY <1>1, EmptyRecord DEF FilterInstructions, Decode
<1>2. CASE i \in InstructionRecords
  <2>1. Decode(i) \in FullInstructions /\ Decode(i) # Undefined
    BY <1>2, DecodeFull, DecodeDefined
  <2> DEFINE G == {g \in Fields : Truthy(g, Decode(i)[g])}
  <2>2. G \in SUBSET Fields
    OBVIOUS
  <2>3. [f \in G |-> Decode(i)[f]] \in InstructionRecords
    BY <2>1, <2>2, RecordBuild
  <2>4. QED
    BY <2>1, <2>3 DEF FilterInstructions
<1>3. QED
  BY <1>1, <1>2 DEF ClientInstructions

(* What the filter forwards: only a field the client set, with the value   *)
(* the client gave it. A field left out, or set to 0 or "", decodes to the *)
(* default, which is falsy, so it is not forwarded.                        *)
LEMMA FilterForwards ==
    ASSUME NEW i \in ClientInstructions,
           NEW f \in DOMAIN FilterInstructions(Decode(i))
    PROVE  /\ i # Undefined
           /\ f \in DOMAIN i
           /\ FilterInstructions(Decode(i))[f] = i[f]
<1>1. i # Undefined
  <2>1. SUFFICES ASSUME i = Undefined PROVE FALSE
    OBVIOUS
  <2>2. DOMAIN FilterInstructions(Decode(i)) = {}
    BY <2>1 DEF FilterInstructions, Decode
  <2>3. QED
    BY <2>2
<1>2. i \in InstructionRecords /\ Decode(i) # Undefined
  BY <1>1, DecodeDefined DEF ClientInstructions
<1>3. PICK F \in SUBSET Fields, n \in [NumberFields -> NumberValues],
           t \in [StringFields -> StringValues] :
           i = [g \in F |-> IF g \in NumberFields THEN n[g] ELSE t[g]]
  BY <1>2, RecordShape
<1>4. f \in Fields /\ Truthy(f, Decode(i)[f])
      /\ FilterInstructions(Decode(i))[f] = Decode(i)[f]
  BY <1>2 DEF FilterInstructions
<1>5. f \in DOMAIN i
  <2>1. SUFFICES ASSUME f \notin DOMAIN i PROVE FALSE
    OBVIOUS
  <2>2. Decode(i)[f] = Default(f)
    BY <1>1, <1>4, <2>1 DEF Decode
  <2>3. QED
    BY <1>4, <2>2 DEF Truthy
<1>6. Decode(i)[f] = i[f]
  BY <1>1, <1>4, <1>5 DEF Decode
<1>7. QED
  BY <1>1, <1>4, <1>5, <1>6

-----------------------------------------------------------------------------
LEMMA TypeInit == Init => TypeOK
BY SentinelsAssumption DEF Init, TypeOK, ClientInstructions

LEMMA TypeStep == TypeOK /\ [Next]_vars => TypeOK'
<1> SUFFICES ASSUME TypeOK, [Next]_vars PROVE TypeOK'
  OBVIOUS
<1>1. CASE Send
  BY <1>1 DEF Send, TypeOK
<1>2. CASE Translate
  <2>1. request \in ClientInstructions
    BY <1>2 DEF Translate, TypeOK
  <2>2. paramInst' \in InstructionRecords
    BY <1>2, <2>1, FilterType DEF Translate
  <2>3. QED
    BY <1>2, <2>2 DEF Translate, TypeOK
<1>3. CASE Respond
  BY <1>3 DEF Respond, TypeOK
<1>4. CASE UNCHANGED vars
  BY <1>4 DEF vars, TypeOK
<1>5. QED
  BY <1>1, <1>2, <1>3, <1>4 DEF Next

(* The translation of prepareTransaction keeps the request a client        *)
(* Instructions (or none), the options a record of instructions and the    *)
(* answer JSON text of the descriptor: TypeOK for every value set.         *)
THEOREM TypeCorrect == Spec => []TypeOK
BY TypeInit, TypeStep, PTL DEF Spec

LEMMA PInvInit == Init => PInv
BY TypeInit DEF Init, PInv

LEMMA PInvStep == PInv /\ [Next]_vars => PInv'
<1> SUFFICES ASSUME PInv, [Next]_vars PROVE PInv'
  OBVIOUS
<1>T. TypeOK
  BY DEF PInv
<1>0. TypeOK'
  BY <1>T, TypeStep
<1>1. CASE Send
  <2>1. paramInst = None
    BY <1>1 DEF Send, PInv
  <2>2. QED
    BY <1>0, <1>1, <2>1 DEF Send, PInv
<1>2. CASE Translate
  BY <1>0, <1>2 DEF Translate, PInv
<1>3. CASE Respond
  BY <1>0, <1>3 DEF Respond, PInv
<1>4. CASE UNCHANGED vars
  BY <1>0, <1>4 DEF vars, PInv
<1>5. QED
  BY <1>1, <1>2, <1>3, <1>4 DEF Next

(* ForwardsOnlySetValues for every value set: whatever Instructions a      *)
(* client sends, the options _prepareTransaction hands to                  *)
(* rippleAPI.prepareTransaction hold only fields the client set, each with *)
(* the client's value (the run prepare_zero_dropped shows the converse     *)
(* fails for a zero).                                                      *)
THEOREM ForwardsOnlySetValuesHolds == Spec => []ForwardsOnlySetValues
<1>1. PInv => ForwardsOnlySetValues
  <2> SUFFICES ASSUME PInv, paramInst # None,
                      NEW f \in DOMAIN paramInst
               PROVE  /\ request # Undefined
                      /\ f \in DOMAIN request
                      /\ paramInst[f] = request[f]
    BY DEF ForwardsOnlySetValues
  <2>1. request \in ClientInstructions
    BY DEF PInv, TypeOK
  <2>2. paramInst = FilterInstructions(Decode(request))
    BY DEF PInv
  <2>3. QED
    BY <2>1, <2>2, FilterForwards
<1>2. QED
  BY <1>1, PInvInit, PInvStep, PTL DEF Spec

=============================================================================
