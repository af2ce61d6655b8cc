---------------------------- MODULE SchemaVersions ----------------------------
(***************************************************************************)
(* The schema table: one row per version of a named schema of a workspace, *)
(* at most one of them active.  The operators map a table to the table an  *)
(* operation leaves; the modules that extend this one hold the table in a  *)
(* variable and say when the operations run.                               *)
(***************************************************************************)
EXTENDS Metaschema, FiniteSetsExt

CONSTANT SchemaIds    \* bound: the versions ever created

ASSUME SchemaIdsAssumption == SchemaIds \subseteq Nat /\ IsFiniteSet(SchemaIds)

(* A row that was never inserted, and one that was deleted. *)
FreshSchema == [status |-> "fresh"]
GoneSchema == [status |-> "gone"]

(* origin is the template the version was made from; snapshot is the       *)
(* definition taken then; noted says origin_updated_at is set, that is, no *)
(* upstream change is pending.                                             *)
SchemaRow(ws, def, version, status, origin, snapshot, noted) ==
  [ws |-> ws, name |-> def.name, version |-> version, def |-> def, status |-> status,
   origin |-> origin, snapshot |-> snapshot, noted |-> noted,
   linked |-> origin # None]

Stored(S, s) == S[s].status \in {"active", "archived"}

Versions(S, ws, name) == {s \in SchemaIds : Stored(S, s) /\ S[s].ws = ws /\ S[s].name = name}

Active(S, ws, name) == {s \in Versions(S, ws, name) : S[s].status = "active"}

Newest(S, ids) == CHOOSE s \in ids : \A t \in ids : S[t].version <= S[s].version

get_active_schema(S, ws, name) ==
  IF Active(S, ws, name) = {} THEN None ELSE Newest(S, Active(S, ws, name))

(* Read by id: only the workspace's own versions are found. *)
get_by_id(S, ws, s) == Stored(S, s) /\ S[s].ws = ws

latest_version_of_active(S, ws, name) == Max({0} \cup {S[s].version : s \in Active(S, ws, name)})

latest_version(S, ws, name) == Max({0} \cup {S[s].version : s \in Versions(S, ws, name)})

NextSchema(S) == Min({s \in SchemaIds : S[s].status = "fresh"})

HasRoom(S) == \E s \in SchemaIds : S[s].status = "fresh"

(* Where a new version comes from: its predecessor's origin, with any pending *)
(* notice, unless it is made from a template itself.                          *)
OriginAfter(S, previous, template, snapshot) ==
  IF previous # None /\ template = None
  THEN [template |-> S[previous].origin, snapshot |-> S[previous].snapshot, noted |-> S[previous].noted]
  ELSE [template |-> template, snapshot |-> snapshot, noted |-> template # None]

(* The new version follows every version of the name, retired or not, and *)
(* retires the active ones.                                               *)
InsertVersion(S, ws, def, origin) ==
  [s \in SchemaIds |->
     CASE s = NextSchema(S) ->
            SchemaRow(ws, def, latest_version(S, ws, def.name) + 1, "active",
                      origin.template, origin.snapshot, origin.noted)
       [] s # NextSchema(S) /\ s \in Active(S, ws, def.name) -> [S[s] EXCEPT !.status = "archived"]
       [] OTHER -> S[s]]

create_schema(S, ws, def, template, snapshot) ==
  InsertVersion(S, ws, def, OriginAfter(S, get_active_schema(S, ws, def.name), template, snapshot))

(* Whether the answer to a creation calls the new version breaking. *)
breaking_diff(S, ws, def) ==
  LET previous == get_active_schema(S, ws, def.name)
  IN previous # None /\ diff(S[previous].def, def)

archive(S, s) == IF S[s].status = "active" THEN [S EXCEPT ![s].status = "archived"] ELSE S

(* Only a retired version that nothing refers to may go. *)
deletable(S, s, referenced) == S[s].status = "archived" /\ s \notin referenced

delete_schema(S, s) == [S EXCEPT ![s] = GoneSchema]

(* home is a workspace's status and first schema; the first to be created *)
(* stays the default.                                                     *)
is_schema_pending(home) == home.status = "schema_pending"

mark_active(home, s) ==
  [status |-> "active", schema |-> IF home.schema = None THEN s ELSE home.schema]
===============================================================================
