------------------------------ MODULE Metaschema ------------------------------
(***************************************************************************)
(* Schema definitions and the algorithms over them: what a definition must *)
(* satisfy, which data conforms to it, when a new definition breaks the    *)
(* old one's data, and how absent fields are found and filled in.          *)
(*                                                                         *)
(* A definition maps entity types to field maps.  A field map is flat: its *)
(* keys are paths (sequences of names), a nested property follows its      *)
(* object, so the code's recursion over properties is a quantifier over    *)
(* paths.  A value is <<kind, n>>: n stands for the number itself, for a   *)
(* string's or an array's length.  A field's floor and ceiling stand for   *)
(* minimum/maximum, minLength/maxLength or minItems/maxItems, whichever    *)
(* its type allows; rule stands for format, pattern and uniqueItems, as    *)
(* the set of n that satisfy it.  Unset attributes are None.               *)
(***************************************************************************)
EXTENDS Naturals, Sequences, FiniteSets

CONSTANT None

MaxObjectDepth == 5

(***************************************************************************)
(* What the server accepts as a definition.                                *)
(***************************************************************************)
(* The path of the object that holds p. *)
Parent(p) == SubSeq(p, 1, Len(p) - 1)

Properties(fields, p) == {q \in DOMAIN fields : Len(q) = Len(p) + 1 /\ Parent(q) = p}

(* Object fields need properties and may nest only so deep; bounds must *)
(* not cross and belong to types that have them.                        *)
validate_field(fields, p) ==
  LET f == fields[p]
  IN /\ f.type = "object" => Properties(fields, p) # {} /\ Len(p) < MaxObjectDepth
     /\ f.floor # None \/ f.ceiling # None => f.type \in {"string", "number", "integer", "array"}
     /\ f.floor # None /\ f.ceiling # None => f.floor <= f.ceiling
     /\ f.rule # None => f.type \in {"string", "array"}

validate_definition(def) ==
  /\ DOMAIN def.types # {}
  /\ \A t \in DOMAIN def.types : \A p \in DOMAIN def.types[t] : validate_field(def.types[t], p)
  /\ \A r \in DOMAIN def.relations :
       def.relations[r].source \in DOMAIN def.types /\ def.relations[r].target \in DOMAIN def.types

(***************************************************************************)
(* Which data an entity type accepts.                                      *)
(***************************************************************************)
Kind(v) == v[1]

(* The object that would hold p is there: the top level, or an object. *)
Reached(data, p) ==
  Len(p) = 1 \/ (Parent(p) \in DOMAIN data /\ Kind(data[Parent(p)]) = "object")

(* The JSON Schema of one field, as the predicate it puts on a value. *)
field_to_json_schema(f, v) ==
  /\ Kind(v) = f.type \/ (f.type = "number" /\ Kind(v) = "integer")
  /\ f.enum # None => v \in f.enum
  /\ f.floor # None => v[2] >= f.floor
  /\ f.ceiling # None => v[2] <= f.ceiling
  /\ f.rule # None => v[2] \in f.rule

(* Undeclared keys are allowed: no additionalProperties is emitted. *)
properties_to_json_schema(fields, data) ==
  \A p \in DOMAIN fields : Reached(data, p) =>
    /\ fields[p].required => p \in DOMAIN data
    /\ p \in DOMAIN data => field_to_json_schema(fields[p], data[p])

validate_data(fields, data) == properties_to_json_schema(fields, data)

(***************************************************************************)
(* What a new version of a definition breaks.                              *)
(***************************************************************************)
lowered_ceiling(old, new) == new # None /\ (old = None \/ new < old)

raised_floor(old, new) == new # None /\ (old = None \/ new > old)

changed_rule(old, new) == new # None /\ new # old

(* Only values removed from an enum that stays count: an enum that appears *)
(* is not looked at.                                                       *)
removed_enum_value(old, new) == old # None /\ new # None /\ ~(old \subseteq new)

(* A property required inside an object that is itself new breaks nothing. *)
diff_fields(old, new) ==
  \/ \E p \in DOMAIN old : \/ p \notin DOMAIN new
                           \/ /\ p \in DOMAIN new
                              /\ \/ old[p].type # new[p].type
                                 \/ ~old[p].required /\ new[p].required
                                 \/ removed_enum_value(old[p].enum, new[p].enum)
                                 \/ raised_floor(old[p].floor, new[p].floor)
                                 \/ lowered_ceiling(old[p].ceiling, new[p].ceiling)
                                 \/ changed_rule(old[p].rule, new[p].rule)
  \/ \E p \in DOMAIN new \ DOMAIN old :
       new[p].required /\ (Len(p) > 1 => Parent(p) \in DOMAIN old)

(* Whether the new definition is reported as breaking. *)
diff(old, new) ==
  \/ \E t \in DOMAIN old.types : t \notin DOMAIN new.types \/ diff_fields(old.types[t], new.types[t])
  \/ \E r \in DOMAIN old.relations : r \notin DOMAIN new.relations \/ old.relations[r] # new.relations[r]

(***************************************************************************)
(* Absent fields.                                                          *)
(***************************************************************************)
(* Descends only into objects that are there: a missing object is reported *)
(* itself, its properties are not.                                         *)
missing_fields_in_value(data, fields) ==
  {p \in DOMAIN fields : Reached(data, p) /\ p \notin DOMAIN data}

empty_value_for_type(type) == <<type, 0>>

FillValue(f) == IF f.default # None THEN f.default ELSE empty_value_for_type(f.type)

FilledFields(data, fields) == {p \in missing_fields_in_value(data, fields) : fields[p].required}

(* A filled object stays empty: its properties are not filled in turn. *)
fill_fields_in_value(data, fields) ==
  LET filled == FilledFields(data, fields)
  IN [p \in DOMAIN data \cup filled |-> IF p \in filled THEN FillValue(fields[p]) ELSE data[p]]
===============================================================================
