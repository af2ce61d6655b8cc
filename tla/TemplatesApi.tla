----------------------------- MODULE TemplatesApi -----------------------------
(***************************************************************************)
(* What reaches templates, the versions that follow them and schema forks: *)
(* REST handlers, MCP tools and the seeding task; and what is promised.    *)
(* A caller's key belongs to a tenant and reaches its workspaces; the      *)
(* library is written by administrators, the marketplace by any key.       *)
(***************************************************************************)
EXTENDS SchemaForks

CONSTANTS
    Tenant,         \* the tenant of each caller's key
    Admins,         \* the callers who administer their tenant
    Scope,          \* the scope of each caller's key
    TemplateNames,
    Defs,           \* the definitions callers send
    BuiltIns,       \* what the built-in template says, release by release
    Ratings,
    Budgets         \* bounds: how many operations of each kind a behaviour has

Kinds == {"library", "market", "version", "merge", "retire", "fork", "use", "seed", "read"}

ReadScope == 1
WriteScope == 2
SchemaScope == 3

ASSUME TemplatesApiAssumption ==
    /\ Tenant \in [Callers -> Tenants]
    /\ Official \notin {Tenant[c] : c \in Callers} \cup {TenantOf[w] : w \in Workspaces}
    /\ Admins \subseteq Callers
    /\ Scope \in [Callers -> ReadScope..SchemaScope]
    /\ \A d \in Defs \cup BuiltIns : d # None /\ {"name", "types", "relations"} \subseteq DOMAIN d
    /\ None \notin Verdicts /\ None \notin TemplateIds /\ None \notin SchemaIds
    /\ Budgets \subseteq [Kinds -> Nat]

VARIABLES
    answer,         \* what the last step told its caller, or None
    budget

vars == <<store, forkStore, answer, budget>>

BuiltInName == "built-in"

Init ==
    /\ templates = [t \in TemplateIds |-> FreshTemplate]
    /\ published = [t \in TemplateIds |-> <<>>]
    /\ reviews = [t \in TemplateIds |-> [u \in Tenants |-> None]]
    /\ schemas = [s \in SchemaIds |-> FreshSchema]
    /\ homes = [w \in Workspaces |-> None]
    /\ calls = [c \in Callers |-> Idle]
    /\ seed = None
    /\ late = {}
    /\ forks = [f \in ForkIds |-> FreshFork]
    /\ heads = {}
    /\ used = {}
    /\ answer = None
    /\ budget \in Budgets

Spend(k) == budget[k] > 0 /\ budget' = [budget EXCEPT ![k] = @ - 1]

Reaches(c, ws) == TenantOf[ws] = Tenant[c]

(* A handler on a workspace: the key's scope, then the transaction. *)
Handles(c, scope, kind) ==
    /\ calls[c] = Idle
    /\ Scope[c] >= scope
    /\ Spend(kind)
    /\ answer' = None

HandlesOnBase(c, scope, kind) == Handles(c, scope, kind) /\ UNCHANGED forkStore

(* A handler on the library: current tenant administration. *)
Administers(c) == c \in Admins /\ HandlesOnBase(c, ReadScope, "library")

Answers(c, scope, what) ==
    /\ calls[c] = Idle
    /\ Scope[c] >= scope
    /\ Spend("read")
    /\ answer' = what
    /\ UNCHANGED <<store, forkStore>>

Goes == answer' = None /\ UNCHANGED <<budget, forkStore>>

-----------------------------------------------------------------------------
(* The library. *)
list_templates(c) == [op |-> "templates", caller |-> c, ids |-> {t \in Library : visible_to(Tenant[c], t)}]

get_template(c, t) == [op |-> "template", caller |-> c, template |-> t, row |-> templates[t]]

RestCreateTemplate(c, name, def) == Administers(c) /\ CreateTemplate(Tenant[c], name, def)
RestUpdateTemplate(c, t, name, def) == Administers(c) /\ UpdateTemplate(Tenant[c], t, name, def)
RestDeleteTemplate(c, t) == Administers(c) /\ DeleteTemplate(Tenant[c], t)
RestForkTemplate(c, t, name) == Administers(c) /\ ForkTemplate(Tenant[c], t, name)
RestListLibrary(c) == Answers(c, ReadScope, list_templates(c))
RestGetLibrary(c, t) == visible_to(Tenant[c], t) /\ Answers(c, ReadScope, get_template(c, t))

McpCreateTemplate(c, name, def) == Administers(c) /\ CreateTemplate(Tenant[c], name, def)
McpUpdateTemplate(c, t, name, def) == Administers(c) /\ UpdateTemplate(Tenant[c], t, name, def)
McpDeleteTemplate(c, t) == Administers(c) /\ DeleteTemplate(Tenant[c], t)
McpForkTemplate(c, t, name) == Administers(c) /\ ForkTemplate(Tenant[c], t, name)
McpListLibrary(c) == Answers(c, ReadScope, list_templates(c))
McpGetLibrary(c, t) == visible_to(Tenant[c], t) /\ Answers(c, ReadScope, get_template(c, t))

(* The marketplace. *)
RestPublishVersion(c, t, def, status) ==
    HandlesOnBase(c, ReadScope, "market") /\ PublishVersion(Tenant[c], t, def, status)

RestSubmitReview(c, t, rating) ==
    HandlesOnBase(c, ReadScope, "market") /\ SubmitReview(Tenant[c], t, rating)

RestSetVisibility(c, t, visibility) ==
    HandlesOnBase(c, ReadScope, "market") /\ SetVisibility(Tenant[c], t, visibility)

RestMarketplaceFork(c, t) ==
    HandlesOnBase(c, ReadScope, "market") /\ find_fork_source(c, Tenant[c], t)

RestListMarketplace(c) == Answers(c, ReadScope, [op |-> "market", listed |-> list_marketplace])

RestListVersions(c, t) ==
    Answers(c, ReadScope, [op |-> "versions", caller |-> c, template |-> t,
                           listed |-> list_versions(Tenant[c], t)])

RestListReviews(c, t) ==
    Answers(c, ReadScope, [op |-> "reviews", caller |-> c, template |-> t,
                           listed |-> list_reviews(Tenant[c], t)])

-----------------------------------------------------------------------------
(* Versions and merges. *)
RestCreateFromTemplate(c, ws, t) ==
    Reaches(c, ws) /\ HandlesOnBase(c, SchemaScope, "version") /\ resolve_template_definition(c, ws, t)

RestCreateSchema(c, ws, def) ==
    /\ Reaches(c, ws) /\ HandlesOnBase(c, SchemaScope, "version")
    /\ LockVersion(c, Resolved(ws, def, None, None, None))

RestMergePreview(c, ws, s) ==
    Reaches(c, ws) /\ HandlesOnBase(c, ReadScope, "merge") /\ ReadLocalSide(c, ws, s, FALSE)

RestMergeApply(c, ws, s) ==
    Reaches(c, ws) /\ HandlesOnBase(c, SchemaScope, "merge") /\ ReadLocalSide(c, ws, s, TRUE)

RestListUpstreamChanges(c, ws) ==
    Reaches(c, ws) /\ Answers(c, ReadScope, [op |-> "pending", changes |-> list_with_upstream_changes(ws)])

McpCreateFromTemplate(c, ws, t) ==
    Reaches(c, ws) /\ HandlesOnBase(c, SchemaScope, "version") /\ resolve_template_definition(c, ws, t)

McpMergePreview(c, ws, s) ==
    Reaches(c, ws) /\ HandlesOnBase(c, ReadScope, "merge") /\ ReadLocalSide(c, ws, s, FALSE)

McpMergeApply(c, ws, s) ==
    Reaches(c, ws) /\ HandlesOnBase(c, SchemaScope, "merge") /\ ReadLocalSide(c, ws, s, TRUE)

McpListUpstreamChanges(c, ws) ==
    Reaches(c, ws) /\ Answers(c, ReadScope, [op |-> "pending", changes |-> list_with_upstream_changes(ws)])

RestArchiveSchema(c, ws, s) ==
    Reaches(c, ws) /\ Handles(c, SchemaScope, "retire") /\ ArchiveVersion(ws, s)

RestDeleteSchema(c, ws, s) ==
    Reaches(c, ws) /\ Handles(c, SchemaScope, "retire") /\ DeleteVersion(ws, s)

RestCreateContent(c, ws, s) ==
    Reaches(c, ws) /\ Handles(c, WriteScope, "use") /\ UseVersion(ws, s)

-----------------------------------------------------------------------------
(* Schema forks. *)
RestCreateFork(c, ws, source_ws, s) ==
    Reaches(c, ws) /\ Handles(c, SchemaScope, "fork") /\ CreateFork(ws, source_ws, s)

RestCustomizeFork(c, ws, f, def, expected_head) ==
    Reaches(c, ws) /\ Handles(c, SchemaScope, "fork") /\ CustomizeFork(ws, f, def, expected_head)

RestFollowFork(c, ws, f, force, expected_head, expected_source) ==
    /\ Reaches(c, ws) /\ Handles(c, SchemaScope, "fork")
    /\ FollowFork(ws, f, force, expected_head, expected_source)

RestDeleteFork(c, ws, f) ==
    Reaches(c, ws) /\ Handles(c, SchemaScope, "fork") /\ DeleteFork(ws, f)

RestListForks(c, ws) ==
    Reaches(c, ws) /\ Answers(c, ReadScope, [op |-> "forks", forks |-> {to_record(f) : f \in ForksOf(ws)}])

RestGetFork(c, ws, f) ==
    /\ Reaches(c, ws) /\ get_fork(ws, f)
    /\ Answers(c, ReadScope, [op |-> "forks", forks |-> {to_record(f)}])

McpCreateFork(c, ws, source_ws, s) ==
    Reaches(c, ws) /\ Handles(c, SchemaScope, "fork") /\ CreateFork(ws, source_ws, s)

McpCustomizeFork(c, ws, f, def, expected_head) ==
    Reaches(c, ws) /\ Handles(c, SchemaScope, "fork") /\ CustomizeFork(ws, f, def, expected_head)

McpFollowFork(c, ws, f, force, expected_head, expected_source) ==
    /\ Reaches(c, ws) /\ Handles(c, SchemaScope, "fork")
    /\ FollowFork(ws, f, force, expected_head, expected_source)

McpDeleteFork(c, ws, f) ==
    Reaches(c, ws) /\ Handles(c, SchemaScope, "fork") /\ DeleteFork(ws, f)

McpListForks(c, ws) ==
    Reaches(c, ws) /\ Answers(c, ReadScope, [op |-> "forks", forks |-> {to_record(f) : f \in ForksOf(ws)}])

McpGetFork(c, ws, f) ==
    /\ Reaches(c, ws) /\ get_fork(ws, f)
    /\ Answers(c, ReadScope, [op |-> "forks", forks |-> {to_record(f)}])

-----------------------------------------------------------------------------
(* Steps of requests under way, and the seeding task. *)
Resolve(c) == Goes /\ calls[c].at = "resolved" /\ LockVersion(c, calls[c])
Write(c) == Goes /\ WriteVersion(c)
Preview(c) ==
    /\ merge_preview(c)
    /\ answer' = [op |-> "plan", template |-> calls[c].template, plan |-> Plan(calls[c])]
    /\ UNCHANGED <<budget, forkStore>>
Apply(c) == Goes /\ merge_apply(c)
ReadForkable(c, version) == Goes /\ find_forkable_definition(c, version)
InsertFork(c) == Goes /\ insert_fork(c)
Ends(c) == Goes /\ Abandon(c)

SeedUpserts(def) ==
    Spend("seed") /\ answer' = None /\ upsert_template(BuiltInName, def) /\ UNCHANGED forkStore
SeedPublishes ==
    /\ seed_official_templates
    /\ answer' = [op |-> "seeded", template |-> seed.template, def |-> seed.def]
    /\ UNCHANGED <<budget, forkStore>>
SeedCrashes == Goes /\ SeedStops

(* Requests about rows that are not there, or not the caller's to reach, are *)
(* refused; the quantifiers range over the others.                           *)
StoredVersions == {s \in SchemaIds : Stored(schemas, s)}
HeldBy(ws) == {s \in StoredVersions : schemas[s].ws = ws}
WorkspacesOf(c) == {w \in Workspaces : Reaches(c, w)}

NextLibrary(c) ==
    \/ \E n \in TemplateNames, d \in Defs : RestCreateTemplate(c, n, d) \/ McpCreateTemplate(c, n, d)
    \/ \E t \in Library :
         \/ \E n \in {None} \cup TemplateNames, d \in {None} \cup Defs :
              RestUpdateTemplate(c, t, n, d) \/ McpUpdateTemplate(c, t, n, d)
         \/ RestDeleteTemplate(c, t) \/ McpDeleteTemplate(c, t)
         \/ \E n \in TemplateNames : RestForkTemplate(c, t, n) \/ McpForkTemplate(c, t, n)
         \/ RestGetLibrary(c, t) \/ McpGetLibrary(c, t)
    \/ RestListLibrary(c) \/ McpListLibrary(c)

NextMarket(c) ==
    \/ \E t \in Library :
         \/ \E d \in Defs, st \in Statuses : RestPublishVersion(c, t, d, st)
         \/ \E r \in Ratings : RestSubmitReview(c, t, r)
         \/ \E v \in {"tenant", "community"} : RestSetVisibility(c, t, v)
         \/ RestMarketplaceFork(c, t) \/ RestListVersions(c, t) \/ RestListReviews(c, t)
    \/ RestListMarketplace(c)
    \/ \E v \in {None} \cup 1..Max({0} \cup {Len(published[t]) : t \in Library}) : ReadForkable(c, v)
    \/ InsertFork(c)

NextVersion(c) ==
    \/ \E w \in WorkspacesOf(c) :
         \/ \E t \in Library : RestCreateFromTemplate(c, w, t) \/ McpCreateFromTemplate(c, w, t)
         \/ \E d \in Defs : RestCreateSchema(c, w, d)
         \/ \E s \in HeldBy(w) :
              \/ RestMergePreview(c, w, s) \/ McpMergePreview(c, w, s)
              \/ RestMergeApply(c, w, s) \/ McpMergeApply(c, w, s)
              \/ RestArchiveSchema(c, w, s) \/ RestDeleteSchema(c, w, s) \/ RestCreateContent(c, w, s)
         \/ RestListUpstreamChanges(c, w) \/ McpListUpstreamChanges(c, w)
    \/ Resolve(c) \/ Write(c) \/ Preview(c) \/ Apply(c)

NextFork(c) ==
    \E w \in WorkspacesOf(c) :
      \/ \E v \in Workspaces : \E s \in HeldBy(v) : RestCreateFork(c, w, v, s) \/ McpCreateFork(c, w, v, s)
      \/ RestListForks(c, w) \/ McpListForks(c, w)
      \/ \E f \in ForksOf(w), h \in {None} \cup HeldBy(w) :
           \/ \E d \in Defs : RestCustomizeFork(c, w, f, d, h) \/ McpCustomizeFork(c, w, f, d, h)
           \/ \E force \in BOOLEAN, s \in {None} \cup StoredVersions :
                RestFollowFork(c, w, f, force, h, s) \/ McpFollowFork(c, w, f, force, h, s)
      \/ \E f \in ForksOf(w) :
           \/ RestDeleteFork(c, w, f) \/ McpDeleteFork(c, w, f)
           \/ RestGetFork(c, w, f) \/ McpGetFork(c, w, f)

Next ==
    \/ \E c \in Callers : NextLibrary(c) \/ NextMarket(c) \/ NextVersion(c) \/ NextFork(c) \/ Ends(c)
    \/ \E d \in BuiltIns : SeedUpserts(d)
    \/ SeedPublishes \/ SeedCrashes

Spec == Init /\ [][Next]_vars

-----------------------------------------------------------------------------
(* A version without a pending notice has copied, or merged, what its template says *)
(* today (notify_upstream_change and merge_apply, under the template's lock).  Not   *)
(* so for the official templates, which are refreshed without a notice, nor for      *)
(* versions written after their template had moved on (late) and their successors.   *)
NoticeIsTrue ==
    \A s \in StoredVersions \ late :
      schemas[s].linked /\ schemas[s].noted /\ InLibrary(schemas[s].origin)
      /\ templates[schemas[s].origin].tenant # Official
        => schemas[s].snapshot = templates[schemas[s].origin].def

(* A version that follows a template can be merged: the template is in the library *)
(* and the version has its base, whatever was deleted and inherited meanwhile (the *)
(* detaching trigger, the foreign key, and the origin create_schema passes on).    *)
LinkedIsMergeable ==
    \A s \in StoredVersions :
      /\ schemas[s].linked <=> schemas[s].origin # None
      /\ schemas[s].linked => InLibrary(schemas[s].origin) /\ schemas[s].snapshot # None

(* What a version says of its template can be relied on: whom it follows, and that *)
(* it has all of it when no notice is pending.                                     *)
OriginsHold == LinkedIsMergeable /\ NoticeIsTrue

(* No workspace follows itself through forks: among any workspaces there is one that *)
(* has no fork of another of them (the cycle check of create).                       *)
ForksAcyclic ==
    \A W \in (SUBSET Workspaces) \ {{}} : \E w \in W : fork_edges(w) \cap W = {}

(* What a fork refers to is there: its source, which is the version it names, in    *)
(* the source's workspace and within the tenant, and its head, the newest of its    *)
(* heads.  Heads stay archived, so that none takes the place of the workspace's own *)
(* version, and share their numbers with no version (insert_fork_head, and delete,  *)
(* which counts every workspace's forks).                                           *)
ForksHold ==
    \A f \in StoredForks :
      LET fork == forks[f]
          mine == {h[2] : h \in {h \in heads : h[1] = f}}
      IN /\ fork.source \in StoredVersions /\ fork.head \in StoredVersions
         /\ schemas[fork.source].ws = fork.source_ws /\ TenantOf[fork.source_ws] = TenantOf[fork.ws]
         /\ schemas[fork.source].name = fork.source_name
         /\ schemas[fork.source].version = fork.source_version
         /\ mine \subseteq StoredVersions
         /\ fork.head = Newest(schemas, mine)
         /\ \A h \in mine : /\ schemas[h].ws = fork.ws /\ schemas[h].name = fork.source_name
                            /\ schemas[h].status = "archived"
                            /\ \A s \in Versions(schemas, fork.ws, fork.source_name) :
                                 schemas[s].version = schemas[h].version => s = h

(* A merged version has, field by field, what the workspace changed since it copied  *)
(* the template, and the template's present field otherwise; relation types are the  *)
(* workspace's.  The version it was read from is stored with its base (merge_apply). *)
MergeCombines ==
    [][\A c \in Callers :
         LET call == calls[c]
             new == NextSchema(schemas)
         IN call.at = "writing" /\ schemas' # schemas /\ calls'[c] = Idle
            /\ call.merges # None /\ Stored(schemas, call.merges) =>
                LET was == schemas[call.merges]
                    now == schemas'[new]
                IN /\ now.def.relations = was.def.relations
                   /\ \A f \in FieldNames(now.def) \cup FieldNames(was.def) \cup FieldNames(now.snapshot) :
                        Part(now.def, f) = IF Part(was.def, f) # Part(was.snapshot, f)
                                           THEN Part(was.def, f) ELSE Part(now.snapshot, f)]_vars

(* When the seeding task has run through, what it seeded is the newest version of *)
(* its template, and stable, also after earlier runs that stopped half-way.       *)
SeedPublishesChanges ==
    answer # None /\ answer.op = "seeded" =>
      NewestPublished(answer.template) = [def |-> answer.def, status |-> "stable"]
===============================================================================
