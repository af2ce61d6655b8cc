------------------------------ MODULE Tenancy ------------------------------
(***************************************************************************)
(* Tenants, accounts, memberships, workspace grants, invites and API keys: *)
(* who may do what, and every operation of the model layer that changes    *)
(* it.  An operation is one transaction: it takes the advisory lock        *)
(* tenant-membership:{tenant}, checks the presented context again with     *)
(* current_context and commits or rolls back, so an operation is one step  *)
(* here; what was read before the lock (an authenticated context, a        *)
(* verified login) is a stale value that the step is given.                *)
(*                                                                         *)
(* Rows are named by the identifiers they will get: a row that does not    *)
(* exist yet is "fresh", a deleted one is "gone", and no identifier is     *)
(* used twice.                                                             *)
(***************************************************************************)
EXTENDS Deployment

CONSTANTS
    Users, Workspaces, Keys, Invites, Jobs,  \* identifiers, naturals
    Email,          \* the address of each account; two accounts may share it
    MaxTenants,     \* YORISHIRO_MAX_TENANTS, or Unlimited
    PlanWorkspaces, \* the plan's workspace quota, or Unlimited
    Expiries,       \* the expiry times a caller may ask for
    Gone

ASSUME TenancyAssumption ==
    /\ Users \subseteq Nat /\ Workspaces \subseteq Nat /\ Keys \subseteq Nat
    /\ Invites \subseteq Nat /\ Jobs \subseteq Nat
    /\ MaxTenants \in Nat /\ PlanWorkspaces \in Nat
    /\ Expiries \subseteq Nat
    /\ Gone \notin Nat /\ None # Gone

VARIABLES
    caps,       \* tenant_tenants.max_workspaces
    accounts,   \* user_users: "fresh", "password", "oauth" or "gone"
    roles,      \* tenant_memberships.role of a tenant and a user
    owner,      \* workspace_workspaces.tenant_id, None before, Gone after
    grants,     \* workspace_memberships.role of a workspace and a user
    keys,       \* api_keys
    invites,    \* workspace_invites
    jobs        \* the queued work of an actor

members == <<roles, grants>>
store == <<tenants, caps, accounts, roles, owner, grants, keys, invites, jobs>>

Roles == {"owner", "admin", "member", "viewer"}
WorkspaceRoles == {"admin", "member", "viewer"}
Scopes == 1..4          \* Read < Write < Schema < Migration
Unlimited == 1000       \* an absent limit, larger than any count here
Never == 1000           \* an absent expiry, later than any time here

FreshKey == [st |-> "fresh", tenant |-> None, ws |-> None, user |-> None,
             scope |-> 1, audit |-> FALSE, expires |-> 0, issuer |-> None,
             next |-> None]
FreshInvite == [st |-> "fresh", tenant |-> None, to |-> None,
                role |-> "member", expires |-> 0, token |-> 0]
FreshJob == [st |-> "fresh", actor |-> None, need |-> 1]

Registered == {u \in Users : accounts[u] \in {"password", "oauth"}}
WorkspacesOf(t) == {w \in Workspaces : owner[w] = t}
Owners(t) == {u \in Users : roles[t, u] = "owner"}
Smaller(a, b) == IF a < b THEN a ELSE b

(* The row of a kind that is inserted next. *)
NextTenant(t) == /\ tenants[t] = "fresh"
                 /\ \A o \in Tenants : tenants[o] = "fresh" => t <= o
NextWorkspace(w) == /\ owner[w] = None
                    /\ \A o \in Workspaces : owner[o] = None => w <= o
NextKey(k) == /\ keys[k].st = "fresh"
              /\ \A o \in Keys : keys[o].st = "fresh" => k <= o
NextInvite(i) == /\ invites[i].st = "fresh"
                 /\ \A o \in Invites : invites[o].st = "fresh" => i <= o
NextJob(j) == /\ jobs[j].st = "fresh"
              /\ \A o \in Jobs : jobs[o].st = "fresh" => j <= o

-----------------------------------------------------------------------------
(* What the foreign keys of each table do when the tenants T, the workspaces W
   or the users U are deleted. *)

tenant_memberships_after(T, U) ==
    [p \in Tenants \X Users |-> IF p[1] \in T \/ p[2] \in U THEN "none" ELSE roles[p]]

workspace_workspaces_after(T) ==
    [w \in Workspaces |-> IF owner[w] \in T THEN Gone ELSE owner[w]]

workspace_memberships_after(W, U) ==
    [p \in Workspaces \X Users |-> IF p[1] \in W \/ p[2] \in U THEN "none" ELSE grants[p]]

workspace_invites_after(T) ==
    [i \in Invites |-> IF invites[i].tenant \in T
                      THEN [invites[i] EXCEPT !.st = "gone"] ELSE invites[i]]

(* A key outlives its user, detached from them. *)
api_keys_after(K, T, W, U) ==
    [k \in Keys |->
        IF K[k].tenant \in T \/ K[k].ws \in W THEN [K[k] EXCEPT !.st = "gone"]
        ELSE IF K[k].user \in U THEN [K[k] EXCEPT !.user = None]
        ELSE K[k]]

-----------------------------------------------------------------------------
(* Access rules. *)

max_scope(x) ==
    CASE x \in {"owner", "admin"} -> 4
      [] x = "member" -> 2
      [] x = "viewer" -> 1
      [] OTHER -> 0

administers_tenant(x) == x \in {"owner", "admin"}

require_active(t) == tenants[t] = "active"

(* What a tenant role gives in a workspace, 0 when it gives nothing: an
   administrator inherits, anyone else needs a grant and never exceeds it. *)
workspace_access_for_role(w, u, x) ==
    IF administers_tenant(x) THEN max_scope(x)
    ELSE Smaller(max_scope(x), max_scope(grants[w, u]))

workspace_access(t, w, u) ==
    IF owner[w] = t /\ require_active(t) /\ roles[t, u] # "none"
    THEN workspace_access_for_role(w, u, roles[t, u])
    ELSE 0

workspace_admin(t, w, u) ==
    /\ workspace_access(t, w, u) > 0
    /\ administers_tenant(roles[t, u]) \/ grants[w, u] = "admin"

-----------------------------------------------------------------------------
(* Keys and contexts. *)

is_active(k) == keys[k].st = "live" /\ keys[k].expires > now

(* The lookup by hash, as the database function or as the query on SQLite: a
   key bound to a workspace works only in the tenant it was issued for. *)
authenticate_api_key(k) ==
    is_active(k) /\ (keys[k].ws # None => owner[keys[k].ws] = keys[k].tenant)
find_sqlite_auth_context(k) ==
    is_active(k) /\ (keys[k].ws # None => owner[keys[k].ws] = keys[k].tenant)

(* The tenant is active and an attributed key's user still reaches the
   workspace; the scope is then cut to what that access allows. *)
with_current_membership(t, w, u) ==
    /\ require_active(t)
    /\ u # None => roles[t, u] # "none" /\ workspace_access(t, w, u) > 0

scope_within(t, w, u, s) ==
    IF u = None THEN s ELSE Smaller(s, workspace_access(t, w, u))

current_context_of_any_key(c) ==
    /\ keys[c.key].tenant = c.tenant
    /\ keys[c.key].user = c.user
    /\ keys[c.key].ws \in {None, c.ws}
    /\ with_current_membership(c.tenant, c.ws, c.user)

(* The presented context, checked against the key as it is stored now. *)
current_context(c) ==
    /\ is_active(c.key)
    /\ keys[c.key].tenant = c.tenant
    /\ keys[c.key].user = c.user
    /\ keys[c.key].ws \in {None, c.ws}
    /\ with_current_membership(c.tenant, c.ws, c.user)

current_scope(c) == scope_within(c.tenant, c.ws, c.user, keys[c.key].scope)

require_tenant_admin(t, u) == u # None /\ administers_tenant(roles[t, u])

require_current_tenant_admin(c) ==
    current_context(c) /\ require_tenant_admin(c.tenant, c.user)

require_current_tenant_owner(c) ==
    require_current_tenant_admin(c) /\ roles[c.tenant, c.user] = "owner"

require_current_workspace_admin(c, w) ==
    /\ current_context(c)
    /\ c.user # None
    /\ workspace_admin(c.tenant, w, c.user)

require_key_grant(c, s, audit) ==
    /\ require_tenant_admin(c.tenant, c.user)
    /\ current_scope(c) >= s
    /\ audit => keys[c.key].audit

require_attributed_key_grant(t, u, s) ==
    /\ require_active(t)
    /\ u # None => roles[t, u] # "none" /\ s <= max_scope(roles[t, u])

(* A queued job acts for its actor only while the actor still may: the job's
   workspace is the actor's, the context is current and its scope suffices. *)
require_job_actor(c, s) ==
    /\ owner[c.ws] = c.tenant
    /\ current_context(c)
    /\ current_scope(c) >= s

-----------------------------------------------------------------------------
(* What a user can reach, as login, discovery and the listings compute it. *)

login_memberships(u) ==
    {t \in Existing : roles[t, u] # "none" /\ tenants[t] # "disabled"}

login_options(u) ==
    {w \in Workspaces :
        \E t \in login_memberships(u) :
            /\ owner[w] = t
            /\ roles[t, u] \in {"owner", "admin"} \/ grants[w, u] # "none"}

reachable_workspace_ids(t, u) ==
    IF u # None THEN {w \in login_options(u) : owner[w] = t}
    ELSE WorkspacesOf(t)

discover_workspaces(c) ==
    IF c.user # None THEN {w \in login_options(c.user) : owner[w] = c.tenant}
    ELSE {w \in {c.ws} : owner[w] = c.tenant}

(* The workspaces a request for q may act on with key k: one or none. *)
resolve_key_workspace(k, q) ==
    LET key == keys[k]
        reachable == reachable_workspace_ids(key.tenant, key.user)
    IN  CASE key.ws # None -> {w \in {key.ws} : q \in {None, w}}
          [] key.ws = None /\ q # None -> {w \in {q} : owner[w] = key.tenant}
          [] OTHER -> IF Cardinality(reachable) = 1 THEN reachable ELSE {}

(* The workspace a login acts on; a requested one only has to exist. *)
resolve_login_workspace(u, q) ==
    IF q # None THEN {w \in {q} : owner[w] \in Tenants}
    ELSE IF Cardinality(login_options(u)) = 1 THEN login_options(u) ELSE {}

-----------------------------------------------------------------------------
(* Members and grants. *)

protect_owner_by_count(t, u, x) ==
    roles[t, u] = "owner" /\ x # "owner" => Cardinality(Owners(t)) >= 1

(* The last owner is neither removed nor demoted. *)
protect_owner(t, u, x) ==
    roles[t, u] = "owner" /\ x # "owner" => Cardinality(Owners(t)) > 1

(* The upsert of a membership; its foreign keys need both rows. *)
add_member(t, u, x) ==
    /\ t \in Existing /\ u \in Registered
    /\ protect_owner(t, u, x)
    /\ roles' = [roles EXCEPT ![<<t, u>>] = x]

(* Keys K are revoked: revoked_at is set and the hash replaced. *)
Revoked(K) ==
    [k \in Keys |-> IF k \in K /\ keys[k].st = "live"
                    THEN [keys[k] EXCEPT !.st = "revoked"] ELSE keys[k]]

revoke_matching(K) == keys' = Revoked(K)

KeysOf(t, u) == {k \in Keys : keys[k].tenant = t /\ keys[k].user = u}

remove_member_keeps_keys(t, u) ==
    /\ protect_owner(t, u, "none")
    /\ grants' = [p \in Workspaces \X Users |->
            IF p[2] = u /\ owner[p[1]] = t THEN "none" ELSE grants[p]]
    /\ roles' = [roles EXCEPT ![<<t, u>>] = "none"]
    /\ UNCHANGED <<tenants, caps, accounts, owner, keys, invites, jobs>>

remove_member(t, u) ==
    /\ protect_owner(t, u, "none")
    /\ grants' = [p \in Workspaces \X Users |->
            IF p[2] = u /\ owner[p[1]] = t THEN "none" ELSE grants[p]]
    /\ roles' = [roles EXCEPT ![<<t, u>>] = "none"]
    /\ revoke_matching(KeysOf(t, u))
    /\ UNCHANGED <<tenants, caps, accounts, owner, invites, jobs>>

update_member_access(c, u, x) ==
    /\ require_current_tenant_admin(c)
    /\ x = "owner" \/ roles[c.tenant, u] = "owner"
           => require_current_tenant_owner(c)
    /\ add_member(c.tenant, u, x)
    /\ UNCHANGED <<tenants, caps, accounts, owner, grants, keys, invites, jobs>>

remove_member_as(c, u) ==
    /\ require_current_tenant_admin(c)
    /\ roles[c.tenant, u] = "owner" => require_current_tenant_owner(c)
    /\ remove_member(c.tenant, u)

(* The successor is promoted first, so demoting the actor leaves an owner. *)
transfer_ownership(c, s) ==
    /\ require_current_tenant_admin(c)
    /\ roles[c.tenant, c.user] = "owner"
    /\ c.user # s
    /\ roles[c.tenant, s] # "none"
    /\ roles' = [roles EXCEPT ![<<c.tenant, s>>] = "owner",
                              ![<<c.tenant, c.user>>] = "admin"]
    /\ UNCHANGED <<tenants, caps, accounts, owner, grants, keys, invites, jobs>>

grant_as(c, w, u, x) ==
    /\ require_current_workspace_admin(c, w)
    /\ roles[owner[w], u] # "none"
    /\ grants' = [grants EXCEPT ![<<w, u>>] = x]
    /\ UNCHANGED <<tenants, caps, accounts, roles, owner, keys, invites, jobs>>

(* The user's keys for the workspace go with the grant, unless the user keeps
   reaching the workspace through a tenant role. *)
revoke_grant_as(c, w, u) ==
    /\ require_current_workspace_admin(c, w)
    /\ grants' = [grants EXCEPT ![<<w, u>>] = "none"]
    /\ IF administers_tenant(roles[owner[w], u]) THEN UNCHANGED keys
       ELSE revoke_matching({k \in KeysOf(owner[w], u) : keys[k].ws = w})
    /\ UNCHANGED <<tenants, caps, accounts, roles, owner, invites, jobs>>

(* What removing the member would do. *)
preview_removal(t, u) ==
    [blocked |-> roles[t, u] = "owner" /\ Cardinality(Owners(t)) <= 1,
     keys    |-> {k \in KeysOf(t, u) : keys[k].st = "live"},
     lost    |-> IF roles[t, u] = "none" THEN {}
                 ELSE {w \in login_options(u) : owner[w] = t}]

(* What giving the member role x would do; key_access lists what each active
   key of the member would still allow in its workspace. *)
key_access(t, u, x) ==
    [k \in {j \in KeysOf(t, u) : is_active(j)} |->
        IF keys[k].ws = None THEN 0
        ELSE Smaller(keys[k].scope,
                     workspace_access_for_role(keys[k].ws, u, x))]

preview_role_change(t, u, x) ==
    [blocked |-> x # "owner" /\ ~protect_owner(t, u, x),
     keys    |-> key_access(t, u, x),
     lost    |-> {w \in login_options(u) :
                     owner[w] = t /\ workspace_access_for_role(w, u, x) = 0}]

-----------------------------------------------------------------------------
(* Issuing and revoking keys. *)

Key(t, w, u, s, audit, e, by) ==
    [st |-> "live", tenant |-> t, ws |-> w, user |-> u, scope |-> s,
     audit |-> audit, expires |-> e, issuer |-> by, next |-> None]

KeyVarsOnly == UNCHANGED <<tenants, caps, accounts, members, owner, invites, jobs>>

(* A key for workspace w and user u; c is the issuing context or None. *)
create_named_api_key(k, w, s, u, audit, c, e) ==
    LET t == owner[w] IN
    /\ NextKey(k)
    /\ e > now
    /\ t \in Tenants
    /\ require_attributed_key_grant(t, u, s)
    /\ u # None => s <= workspace_access(t, w, u)
    /\ c # None => /\ current_context(c)
                   /\ require_key_grant(c, s, audit)
                   /\ e <= keys[c.key].expires
    /\ keys' = [keys EXCEPT ![k] = Key(t, w, u, s, audit, e,
                                       IF c = None THEN None ELSE c.key)]
    /\ KeyVarsOnly

create_api_key(k, w, s, u, audit) ==
    create_named_api_key(k, w, s, u, audit, None, Never)

create_delegated_api_key(k, c, s, audit, e) ==
    create_named_api_key(k, c.ws, s, c.user, audit, c, e)

create_tenant_api_key(k, t, s, u, audit) ==
    /\ NextKey(k)
    /\ t \in Existing
    /\ require_attributed_key_grant(t, u, s)
    /\ keys' = [keys EXCEPT ![k] = Key(t, None, u, s, audit, Never, None)]
    /\ KeyVarsOnly

create_delegated_tenant_api_key(k, c, s, audit, e) ==
    /\ NextKey(k)
    /\ e > now
    /\ require_current_tenant_admin(c)
    /\ require_key_grant(c, s, audit)
    /\ keys[c.key].ws = None
    /\ e <= keys[c.key].expires
    /\ require_attributed_key_grant(c.tenant, c.user, s)
    /\ keys' = [keys EXCEPT ![k] = Key(c.tenant, None, c.user, s, audit, e, c.key)]
    /\ KeyVarsOnly

delete_for_tenant(t, k) ==
    /\ keys[k].tenant = t /\ keys[k].st = "live"
    /\ keys' = Revoked({k})
    /\ KeyVarsOnly

revoke_for_tenant(c, k) ==
    require_current_tenant_admin(c) /\ delete_for_tenant(c.tenant, k)

rotate_past_expiry(k, c, old) ==
    LET o == keys[old] IN
    /\ NextKey(k)
    /\ require_current_tenant_admin(c)
    /\ o.tenant = c.tenant /\ is_active(old)
    /\ keys[c.key].ws \in {None, o.ws}
    /\ require_key_grant(c, o.scope, o.audit)
    /\ require_attributed_key_grant(o.tenant, o.user, o.scope)
    /\ keys' = [Revoked({old}) EXCEPT
            ![k] = Key(o.tenant, o.ws, o.user, o.scope, o.audit, o.expires, c.key),
            ![old].next = k]
    /\ KeyVarsOnly

(* Key old is replaced by a copy of itself, k, within what the actor's key
   could have issued and what the key's own user may still hold. *)
rotate(k, c, old) ==
    LET o == keys[old] IN
    /\ NextKey(k)
    /\ require_current_tenant_admin(c)
    /\ o.tenant = c.tenant /\ is_active(old)
    /\ keys[c.key].ws \in {None, o.ws}
    /\ require_key_grant(c, o.scope, o.audit)
    /\ o.expires <= keys[c.key].expires
    /\ require_attributed_key_grant(o.tenant, o.user, o.scope)
    /\ o.ws # None /\ o.user # None
           => o.scope <= workspace_access(o.tenant, o.ws, o.user)
    /\ keys' = [Revoked({old}) EXCEPT
            ![k] = Key(o.tenant, o.ws, o.user, o.scope, o.audit, o.expires, c.key),
            ![old].next = k]
    /\ KeyVarsOnly

-----------------------------------------------------------------------------
(* Invites. *)

InviteVarsOnly == UNCHANGED <<tenants, caps, accounts, members, owner, keys, jobs>>

create_invite(i, t, to, x, e) ==
    /\ NextInvite(i)
    /\ require_active(t)
    /\ invites' = [invites EXCEPT ![i] =
            [st |-> "open", tenant |-> t, to |-> to, role |-> x,
             expires |-> e, token |-> 1]]
    /\ InviteVarsOnly

create_invite_as(i, c, to, x, e) ==
    /\ require_current_tenant_admin(c)
    /\ x = "owner" => require_current_tenant_owner(c)
    /\ e > now
    /\ create_invite(i, c.tenant, to, x, e)

managed_invite(t, i) == invites[i].st \in {"open", "used"} /\ invites[i].tenant = t

(* Revoking ends the invite's life now; an expired one stays as it is. *)
revoke_invite_as(c, i) ==
    /\ require_current_tenant_admin(c)
    /\ managed_invite(c.tenant, i)
    /\ invites[i].st # "used"
    /\ invites' = [invites EXCEPT ![i].expires = Smaller(now, @)]
    /\ InviteVarsOnly

(* A new token replaces the old one. *)
reissue_invite_as(c, i, e) ==
    /\ require_current_tenant_admin(c)
    /\ managed_invite(c.tenant, i)
    /\ invites[i].role = "owner" => require_current_tenant_owner(c)
    /\ invites[i].st # "used"
    /\ e > now
    /\ invites' = [invites EXCEPT ![i].expires = e, ![i].token = @ + 1]
    /\ InviteVarsOnly

(* One conditional update marks the invite used; g is the presented token. *)
redeem_invite_at(i, g) ==
    /\ invites[i].st = "open"
    /\ invites[i].token = g
    /\ require_active(invites[i].tenant)
    /\ invites[i].expires > now
    /\ invites' = [invites EXCEPT ![i].st = "used"]

accept_in_transaction(i, g, u) ==
    /\ redeem_invite_at(i, g)
    /\ invites[i].to = Email[u]
    /\ roles[invites[i].tenant, u] = "none"
    /\ add_member(invites[i].tenant, u, invites[i].role)
    /\ UNCHANGED <<tenants, caps, accounts, owner, grants, keys, jobs>>

accept_authenticated_user(c, i, g) ==
    /\ current_context(c)
    /\ c.user # None /\ c.user \in Registered
    /\ accept_in_transaction(i, g, c.user)

-----------------------------------------------------------------------------
(* Accounts, tenants and workspaces. *)

(* An address belongs to one account at a time. *)
create_user(u, how) ==
    /\ accounts[u] = "fresh"
    /\ \A v \in Registered : Email[v] # Email[u]
    /\ accounts' = [accounts EXCEPT ![u] = how]

register_member(t, u, x) ==
    /\ create_user(u, "password")
    /\ roles' = [roles EXCEPT ![<<t, u>>] = x]

register_user(i, g, u) ==
    /\ redeem_invite_at(i, g)
    /\ Email[u] = invites[i].to
    /\ register_member(invites[i].tenant, u, invites[i].role)
    /\ UNCHANGED <<tenants, caps, owner, grants, keys, jobs>>

(* Keys are revoked before the foreign key detaches them from the user. *)
delete_user_by_operator(u) ==
    /\ u \in Registered
    /\ \A t \in Tenants : roles[t, u] = "none"
    /\ accounts' = [accounts EXCEPT ![u] = "gone"]
    /\ keys' = api_keys_after(Revoked({k \in Keys : keys[k].user = u}), {}, {}, {u})
    /\ grants' = workspace_memberships_after({}, {u})
    /\ UNCHANGED <<tenants, caps, roles, owner, invites, jobs>>

TenantLimit == IF Sqlite THEN 1 ELSE MaxTenants

create_tenant(t) ==
    /\ NextTenant(t)
    /\ Cardinality(Existing) < TenantLimit
    /\ tenants' = [tenants EXCEPT ![t] = "active"]
    /\ caps' = [caps EXCEPT ![t] = Unlimited]

effective_limit(manual, policy) == Smaller(manual, policy)

create_workspace(w, t, quota) ==
    /\ NextWorkspace(w)
    /\ require_active(t)
    /\ Cardinality(WorkspacesOf(t)) < effective_limit(caps[t], quota)
    /\ owner' = [owner EXCEPT ![w] = t]
    /\ UNCHANGED <<tenants, caps, accounts, members, keys, invites, jobs>>

create_workspace_in_context(w, c) ==
    /\ require_current_tenant_admin(c)
    /\ create_workspace(w, c.tenant, PlanWorkspaces)

update_tenant_as(c, cap) ==
    /\ require_current_tenant_admin(c)
    /\ caps' = [caps EXCEPT ![c.tenant] = cap]
    /\ UNCHANGED <<tenants, accounts, members, owner, keys, invites, jobs>>

(* A tenant keeps one workspace; what belongs to the workspace goes with it. *)
delete_workspace(w) ==
    /\ Cardinality(WorkspacesOf(owner[w])) > 1
    /\ owner' = [owner EXCEPT ![w] = Gone]
    /\ grants' = workspace_memberships_after({w}, {})
    /\ keys' = api_keys_after(keys, {}, {w}, {})
    /\ UNCHANGED <<tenants, caps, accounts, roles, invites, jobs>>

delete_workspace_as(c, w) ==
    /\ require_current_tenant_admin(c)
    /\ owner[w] = c.tenant
    /\ delete_workspace(w)

(* The account, its tenant and its ownership are one transaction. *)
signup_account(t, u) ==
    /\ create_tenant(t)
    /\ register_member(t, u, "owner")
    /\ UNCHANGED <<owner, grants, keys, invites, jobs>>

setup_first_account(t, w, u) ==
    /\ MaxTenants # Unlimited
    /\ Existing = {}
    /\ create_tenant(t)
    /\ NextWorkspace(w)
    /\ owner' = [owner EXCEPT ![w] = t]
    /\ register_member(t, u, "owner")
    /\ UNCHANGED <<grants, keys, invites, jobs>>

(* The first login of an identity: account, tenant, workspace with its schema
   and ownership in one transaction. *)
find_or_create(t, w, u) ==
    /\ \A v \in Users : accounts[v] = "oauth" => Email[v] # Email[u]
    /\ create_user(u, "oauth")
    /\ create_tenant(t)
    /\ NextWorkspace(w)
    /\ owner' = [owner EXCEPT ![w] = t]
    /\ roles' = [roles EXCEPT ![<<t, u>>] = "owner"]
    /\ UNCHANGED <<grants, keys, invites, jobs>>

(* Work that is neither completed nor cancelled is cancelled. *)
cancel_work(t) ==
    [j \in Jobs |-> IF jobs[j].st = "queued" /\ owner[jobs[j].actor.ws] = t
                    THEN [jobs[j] EXCEPT !.st = "cancelled"] ELSE jobs[j]]

disable_in_transaction(t) ==
    /\ t \in Existing
    /\ tenants' = [tenants EXCEPT ![t] = "disabled"]
    /\ revoke_matching({k \in Keys : keys[k].tenant = t})
    /\ jobs' = cancel_work(t)
    /\ UNCHANGED <<caps, accounts, members, owner, invites>>

disable_as(c) == require_current_tenant_owner(c) /\ disable_in_transaction(c.tenant)

(* Everything of a disabled tenant is deleted; its rows cascade. *)
delete_tenant_by_operator(t) ==
    /\ tenants[t] = "disabled"
    /\ tenants' = [tenants EXCEPT ![t] = "gone"]
    /\ roles' = tenant_memberships_after({t}, {})
    /\ owner' = workspace_workspaces_after({t})
    /\ grants' = workspace_memberships_after(WorkspacesOf(t), {})
    /\ keys' = api_keys_after(keys, {t}, WorkspacesOf(t), {})
    /\ invites' = workspace_invites_after({t})
    /\ jobs' = [j \in Jobs |->
            IF jobs[j].st # "fresh" /\ owner[jobs[j].actor.ws] = t
            THEN [jobs[j] EXCEPT !.st = "gone"] ELSE jobs[j]]
    /\ UNCHANGED <<caps, accounts>>
=============================================================================
