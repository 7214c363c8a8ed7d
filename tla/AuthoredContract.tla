-------------------------- MODULE AuthoredContract --------------------------
(***************************************************************************)
(* convilyn_edge/authored/contract.py and the pure parts of operator.py:   *)
(* parsing a manufactured contract, its schema, and grounding per field.   *)
(*                                                                         *)
(* A verbatim value is as in Grounding.  A closed-set value is a scalar of *)
(* JSON: texts are compared in their normal form (whitespace collapsed,    *)
(* case folded), which Norm gives.  Values are indexed by their field;     *)
(* fields are authored in the sorting order of their names.                *)
(***************************************************************************)
EXTENDS Grounding, TLC

CONSTANT
  Norm(_)        (* _normalise                                             *)

(* Fields authored in their order; a wire field may have absent parts, and *)
(* NotText for allowed_values that are no list.                            *)
Labels(f) == {f.allowed[i] : i \in DOMAIN f.allowed}

Closed(f) == f.mode = "closed_set"

-----------------------------------------------------------------------------
(* _coerce_scalar.  A float is counted in halves.                          *)
Coerce(raw) ==
  CASE raw.type = "str"   -> raw.text
    [] raw.type = "bool"  -> IF raw.value THEN "true" ELSE "false"
    [] raw.type = "int"   -> ToString(raw.value)
    [] raw.type = "float" -> IF raw.halves % 2 = 0 THEN ToString(raw.halves \div 2)
                             ELSE ToString(raw.halves \div 2) \o ".5"
    [] OTHER              -> None

(* GroundedField.__post_init__                                             *)
FieldOK(f) ==
  /\ f.name # ""
  /\ \/ f.mode = "verbatim" /\ f.allowed = <<>>
     \/ /\ f.mode = "closed_set" /\ f.allowed # <<>> /\ "" \notin Labels(f)
        /\ \A i, j \in DOMAIN f.allowed :
             i # j => Norm(f.allowed[i]) # Norm(f.allowed[j])

(* GroundedField.from_wire                                                 *)
FieldFromWire(w) ==
  [name    |-> w.name,
   mode    |-> IF w.mode = None THEN "verbatim" ELSE w.mode,
   allowed |-> IF w.allowed = None THEN <<>> ELSE w.allowed]

WireFieldOK(w) == w.name # None /\ w.allowed # NotText /\ FieldOK(FieldFromWire(w))

(* Variant: labels are compared with the sentinel as they are written.     *)
ContractOKRaw(c) ==
  /\ c.id # "" /\ c.prompt # "" /\ c.fields # <<>>
  /\ \A i, j \in DOMAIN c.fields : i # j => c.fields[i].name # c.fields[j].name
  /\ \A i \in DOMAIN c.fields : Closed(c.fields[i]) => Sentinel \notin Labels(c.fields[i])

(* GroundedContract.__post_init__                                          *)
ContractOK(c) ==
  /\ c.id # "" /\ c.prompt # "" /\ c.fields # <<>>
  /\ \A i, j \in DOMAIN c.fields : i # j => c.fields[i].name # c.fields[j].name
  /\ \A i \in DOMAIN c.fields :
       Closed(c.fields[i]) => Norm(Sentinel) \notin {Norm(v) : v \in Labels(c.fields[i])}

(* GroundedContract.from_wire: a workflow spec embeds its contract.        *)
Unwrap(w) == IF "grounded_contract" \in DOMAIN w THEN w.grounded_contract ELSE w

ContractFromWire(w) ==
  [id |-> w.id, prompt |-> w.prompt, limits |-> w.limits,
   binding |-> w.binding,
   fields |-> [i \in DOMAIN w.fields |-> FieldFromWire(w.fields[i])]]

WireContractOK(w) ==
  /\ w.id # None /\ w.prompt # None /\ w.fields # NotText
  /\ \A i \in DOMAIN w.fields : WireFieldOK(w.fields[i])
  /\ ContractOK(ContractFromWire(w))

(* load_contract: the file holds JSON, and that an object.                 *)
Loads(file) == file # NotText /\ Unwrap(file) # NotText /\ WireContractOK(Unwrap(file))

Load(file) == ContractFromWire(Unwrap(file))

-----------------------------------------------------------------------------
(* The effective schema, and a caller's.                                   *)

FieldNames(c) == {c.fields[i].name : i \in DOMAIN c.fields}

(* GroundedContract.schema: per field its enum, or None.                   *)
Schema(c) ==
  [n \in FieldNames(c) |->
    LET f == CHOOSE g \in {c.fields[i] : i \in DOMAIN c.fields} : g.name = n
    IN  IF Closed(f) THEN f.allowed ELSE None]

(* ContractModelOperator._check_schema; None is a schema that names none.  *)
SchemaOK(schema, c) ==
  schema = None \/
    /\ DOMAIN schema \subseteq FieldNames(c)
    /\ \A n \in DOMAIN schema : schema[n] # None => schema[n] = Schema(c)[n]

(* guidance_from_contract: the fields it has an answer rule for.           *)
Guidance(c) == {n \in FieldNames(c) : Schema(c)[n] # None}

-----------------------------------------------------------------------------
(* ground_fields *)

(* Variant: the model's own spelling of a label is kept.                   *)
GroundClosedAsSaid(f, raw) ==
  LET said == Coerce(raw)
  IN  IF said \in {None, Sentinel} \/ \A v \in Labels(f) : Norm(v) # Norm(said)
        THEN Sentinel ELSE said

(* GroundedField.ground: the authored label the value normalises to.       *)
GroundClosed(f, raw) ==
  LET said    == Coerce(raw)
      matches == {i \in DOMAIN f.allowed : Norm(f.allowed[i]) = Norm(said)}
  IN  IF said \in {None, Sentinel} \/ matches = {} THEN Sentinel
      ELSE f.allowed[CHOOSE i \in matches : \A j \in matches : i <= j]

VerbatimRanks(c) == {i \in DOMAIN c.fields : ~Closed(c.fields[i])}

(* The verbatim fields are grounded together: the total cap is theirs.     *)
GroundFields(raw, c) ==
  LET rank(i) == Cardinality({j \in VerbatimRanks(c) : j <= i})
      verbatim == [k \in 1..Cardinality(VerbatimRanks(c)) |->
                     raw[CHOOSE i \in VerbatimRanks(c) : rank(i) = k]]
      grounded == GroundAnchors(verbatim, c.limits)
  IN  [i \in DOMAIN c.fields |->
         IF Closed(c.fields[i]) THEN GroundClosed(c.fields[i], raw[i]) ELSE grounded[rank(i)]]

(* An answer taken as the output of a model again, as the server does.     *)
Again(c, output) ==
  [i \in DOMAIN c.fields |->
     IF Closed(c.fields[i]) THEN [type |-> "str", text |-> output[i]] ELSE output[i]]

(* ContractModelOperator._result                                           *)
GroundedKeys(output) == {i \in DOMAIN output : output[i] # Sentinel}

Result(output) ==
  [status |-> IF GroundedKeys(output) # {} THEN "success" ELSE "uncertain",
   output |-> output, reason |-> None]

(* ContractModelOperator._unavailable                                      *)
Unavailable(reason) == [status |-> "unavailable", output |-> None, reason |-> reason]

(* runners/grounding.py: failing_fields                                    *)
FailingFields(result, c) ==
  IF result.output = None THEN DOMAIN c.fields ELSE DOMAIN c.fields \ GroundedKeys(result.output)

(* runtime/dispatch.py: model_disposition                                  *)
ModelDisposition(result, acceptUncertain) ==
  IF \/ result.status = "success"
     \/ result.status = "uncertain" /\ acceptUncertain /\ result.output # None
    THEN "accept" ELSE "fallback"
=============================================================================
