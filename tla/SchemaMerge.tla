----------------------------- MODULE SchemaMerge -----------------------------
(***************************************************************************)
(* Following a template: the three-way comparison of a definition with the *)
(* template as it was copied and as it is now, and the definition the      *)
(* comparison leads to.  The fields compared are those at the top level of *)
(* an entity type; a field is the part of the type's field map at and      *)
(* below its name, and an absent field is the empty part.                  *)
(***************************************************************************)
EXTENDS Metaschema

Absent == [p \in {} |-> None]

FieldNames(def) ==
  UNION {{<<t, p[1]>> : p \in DOMAIN def.types[t]} : t \in DOMAIN def.types}

Part(def, f) ==
  IF f[1] \notin DOMAIN def.types THEN Absent
  ELSE LET fields == def.types[f[1]]
       IN [p \in {p \in DOMAIN fields : p[1] = f[2]} |-> fields[p]]

Verdicts == {"auto_add", "auto_update", "keep_local", "conflict"}

(* None when there is nothing to decide: nobody moved, or both the same way. *)
classify(base, upstream, local) ==
  CASE upstream # base /\ local = base -> IF base = Absent THEN "auto_add" ELSE "auto_update"
    [] upstream = base /\ local # base -> "keep_local"
    [] upstream # base /\ local # base /\ upstream # local -> "conflict"
    [] OTHER -> None

three_way(base, upstream, local) ==
  LET verdict(f) == classify(Part(base, f), Part(upstream, f), Part(local, f))
      fields == FieldNames(base) \cup FieldNames(upstream) \cup FieldNames(local)
  IN [f \in {f \in fields : verdict(f) # None} |-> verdict(f)]

Judged(plan, verdicts) == {f \in DOMAIN plan : plan[f] \in verdicts}

has_conflicts(plan) == Judged(plan, {"conflict"}) # {}

summarize(plan) == [v \in Verdicts |-> Cardinality(Judged(plan, {v}))]

(* As apply_plan, from the template's side: local additions are lost. *)
apply_plan_from_upstream(plan, upstream, local) == [local EXCEPT !.types = upstream.types]

(* The local definition, with the fields only upstream moved taken from there: *)
(* added with their type if it is new, changed, or removed.  Relation types    *)
(* stay the local ones.                                                        *)
apply_plan(plan, upstream, local) ==
  LET taken == Judged(plan, {"auto_add", "auto_update"})
      new == {f[1] : f \in {f \in taken : Part(upstream, f) # Absent}}
      from(def, t) == IF t \in DOMAIN def.types THEN def.types[t] ELSE Absent
      came(t) == {p \in DOMAIN from(upstream, t) : <<t, p[1]>> \in taken}
      kept(t) == {p \in DOMAIN from(local, t) : <<t, p[1]>> \notin taken}
  IN [local EXCEPT !.types =
        [t \in DOMAIN local.types \cup new |->
           [p \in came(t) \cup kept(t) |->
              IF p \in came(t) THEN upstream.types[t][p] ELSE local.types[t][p]]]]
===============================================================================
