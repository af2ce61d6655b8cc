---------------------------- MODULE TenancyApi ----------------------------
(***************************************************************************)
(* What reaches the operations of Tenancy: the REST handlers, the MCP      *)
(* tools, the operator's tasks and the OAuth callback.  A request first    *)
(* authenticates, which leaves it with a context that may be stale by the  *)
(* time its handler runs; the login, invite and setup handlers have their  *)
(* own reads before the transaction that uses them.                        *)
(***************************************************************************)
EXTENDS Tenancy

CONSTANTS
    Requests,   \* requests in flight
    Budgets,    \* bounds: how many operations of each kind a behaviour has
    RolesGiven, ScopesGiven, CapsGiven  \* the inputs callers choose from

Kinds == {"member", "invite", "key", "workspace", "tenant", "job", "read",
          "public", "issue", "provision", "retire", "time"}

ASSUME ApiAssumption ==
    /\ Budgets \subseteq [Kinds -> Nat]
    /\ RolesGiven \subseteq Roles
    /\ ScopesGiven \subseteq Scopes
    /\ CapsGiven \subseteq Nat

VARIABLES
    req,        \* the context each authenticated request holds, or None
    pend,       \* what a login, invite or setup handler has read, or None
    reply,      \* what the last step told its caller, or None
    budget

flow == <<req, pend, reply, budget>>
vars == <<store, now, flow>>

(* A reply names rows by what they are. *)
Of(kind, S) == {<<kind, x>> : x \in S}

Spend(k) == budget[k] > 0 /\ budget' = [budget EXCEPT ![k] = @ - 1]

Init ==
    /\ tenants = [t \in Tenants |-> "fresh"]
    /\ caps = [t \in Tenants |-> Unlimited]
    /\ accounts = [u \in Users |-> "fresh"]
    /\ roles = [p \in Tenants \X Users |-> "none"]
    /\ owner = [w \in Workspaces |-> None]
    /\ grants = [p \in Workspaces \X Users |-> "none"]
    /\ keys = [k \in Keys |-> FreshKey]
    /\ invites = [i \in Invites |-> FreshInvite]
    /\ jobs = [j \in Jobs |-> FreshJob]
    /\ now = 0
    /\ req = [r \in Requests |-> None]
    /\ pend = [r \in Requests |-> None]
    /\ reply = None
    /\ budget \in Budgets

-----------------------------------------------------------------------------
(* Authentication. *)

(* The key is looked up by its hash, the workspace resolved from the request
   and the membership read: three reads of one moment, then used later.  The
   audit flag of the AuthContext is left out: every fenced use reads the flag
   stored with the key. *)
authenticate(r, k, q) ==
    /\ req[r] = None /\ pend[r] = None
    /\ IF Sqlite THEN find_sqlite_auth_context(k) ELSE authenticate_api_key(k)
    /\ \E w \in resolve_key_workspace(k, q) :
        /\ with_current_membership(keys[k].tenant, w, keys[k].user)
        /\ req' = [req EXCEPT ![r] =
               [key |-> k, tenant |-> keys[k].tenant, ws |-> w,
                user |-> keys[k].user,
                scope |-> scope_within(keys[k].tenant, w, keys[k].user,
                                       keys[k].scope)]]
    /\ reply' = None
    /\ UNCHANGED <<store, now, pend, budget>>

(* The handler of r ends with its transaction. *)
Ends(r, kind) ==
    /\ req[r] # None
    /\ Spend(kind)
    /\ req' = [req EXCEPT ![r] = None]
    /\ reply' = None
    /\ UNCHANGED <<now, pend>>

(* The handler of r ends with an answer and no change. *)
Answers(r, ids) ==
    /\ req[r] # None
    /\ Spend("read")
    /\ req' = [req EXCEPT ![r] = None]
    /\ reply' = [tenant |-> req[r].tenant, ids |-> ids]
    /\ UNCHANGED <<store, now, pend>>

(* An error: nothing was committed. *)
Fails(r) ==
    /\ req[r] # None \/ pend[r] # None
    /\ req' = [req EXCEPT ![r] = None]
    /\ pend' = [pend EXCEPT ![r] = None]
    /\ reply' = None
    /\ UNCHANGED <<store, now, budget>>

-----------------------------------------------------------------------------
(* REST: members, invites, keys, workspaces, tenant, profile. *)

RestAddMember(r, u, x) ==
    /\ Ends(r, "member")
    /\ require_tenant_admin(req[r].tenant, req[r].user)
    /\ update_member_access(req[r], u, x)

RestRemoveMember(r, u) ==
    /\ Ends(r, "member")
    /\ require_tenant_admin(req[r].tenant, req[r].user)
    /\ remove_member_as(req[r], u)

RestTransferOwnership(r, s) == Ends(r, "member") /\ transfer_ownership(req[r], s)

RestCreateInvite(r, i, to, x, e) ==
    Ends(r, "invite") /\ create_invite_as(i, req[r], to, x, e)

RestRevokeInvite(r, i) == Ends(r, "invite") /\ revoke_invite_as(req[r], i)

RestReissueInvite(r, i, e) == Ends(r, "invite") /\ reissue_invite_as(req[r], i, e)

RestAcceptInvite(r, i) ==
    Ends(r, "invite") /\ accept_authenticated_user(req[r], i, invites[i].token)

(* The grant is checked on the presented context first, then again inside. *)
RestCreateKey(r, k, tenantScoped, s, audit, e) ==
    /\ Ends(r, "key")
    /\ require_tenant_admin(req[r].tenant, req[r].user)
    /\ req[r].scope >= s
    /\ IF tenantScoped
       THEN create_delegated_tenant_api_key(k, req[r], s, audit, e)
       ELSE create_delegated_api_key(k, req[r], s, audit, e)

RestRevokeKey(r, k) ==
    /\ Ends(r, "key")
    /\ require_tenant_admin(req[r].tenant, req[r].user)
    /\ revoke_for_tenant(req[r], k)

RestRotateKey(r, k, old) == Ends(r, "key") /\ rotate(k, req[r], old)

RestCreateWorkspace(r, w) == Ends(r, "workspace") /\ create_workspace_in_context(w, req[r])

RestDeleteWorkspace(r, w) == Ends(r, "workspace") /\ delete_workspace_as(req[r], w)

RestGrantMember(r, w, u, x) == Ends(r, "member") /\ grant_as(req[r], w, u, x)

RestRevokeMember(r, w, u) == Ends(r, "member") /\ revoke_grant_as(req[r], w, u)

RestUpdateTenant(r, cap) == Ends(r, "tenant") /\ update_tenant_as(req[r], cap)

RestDisableTenant(r) == Ends(r, "tenant") /\ disable_as(req[r])

-----------------------------------------------------------------------------
(* MCP: the same operations; a tool demands Read scope, which every key has. *)

McpSetMemberRole(r, u, x) == Ends(r, "member") /\ update_member_access(req[r], u, x)

McpRemoveMember(r, u) == Ends(r, "member") /\ remove_member_as(req[r], u)

McpTransferOwnership(r, s) == Ends(r, "member") /\ transfer_ownership(req[r], s)

McpCreateInvite(r, i, to, x, e) ==
    Ends(r, "invite") /\ create_invite_as(i, req[r], to, x, e)

McpRevokeInvite(r, i) == Ends(r, "invite") /\ revoke_invite_as(req[r], i)

McpReissueInvite(r, i, e) == Ends(r, "invite") /\ reissue_invite_as(req[r], i, e)

McpAcceptInvite(r, i) ==
    Ends(r, "invite") /\ accept_authenticated_user(req[r], i, invites[i].token)

McpCreateKey(r, k, tenantScoped, s, audit, e) ==
    /\ Ends(r, "key")
    /\ IF tenantScoped
       THEN create_delegated_tenant_api_key(k, req[r], s, audit, e)
       ELSE create_delegated_api_key(k, req[r], s, audit, e)

McpRevokeKey(r, k) == Ends(r, "key") /\ revoke_for_tenant(req[r], k)

McpRotateKey(r, k, old) == Ends(r, "key") /\ rotate(k, req[r], old)

McpCreateWorkspace(r, w) == Ends(r, "workspace") /\ create_workspace_in_context(w, req[r])

McpDeleteWorkspace(r, w) == Ends(r, "workspace") /\ delete_workspace_as(req[r], w)

McpGrantMember(r, w, u, x) == Ends(r, "member") /\ grant_as(req[r], w, u, x)

McpRevokeMember(r, w, u) == Ends(r, "member") /\ revoke_grant_as(req[r], w, u)

McpUpdateTenant(r, cap) == Ends(r, "tenant") /\ update_tenant_as(req[r], cap)

McpDisableTenant(r) == Ends(r, "tenant") /\ disable_as(req[r])

-----------------------------------------------------------------------------
(* Reads.  Those that check only require_tenant_admin read the membership of
   the presented user again, but not the key. *)

list_members(t) == Of("user", {u \in Users : roles[t, u] # "none"})
list_invites(t) ==
    Of("invite", {i \in Invites : managed_invite(t, i)})
list_for_tenant(t) ==
    Of("key", {k \in Keys : keys[k].st \in {"live", "revoked"} /\ keys[k].tenant = t})
list_for_actor(c) ==
    Of("ws", {w \in discover_workspaces(c) : owner[w] = c.tenant})

(* Only the selected workspace can be opened. *)
get_for_actor(c, w) ==
    /\ current_context(c)
    /\ owner[w] = c.tenant /\ w = c.ws
    /\ c.user # None => workspace_access(c.tenant, w, c.user) > 0

RestListMembers(r) ==
    /\ require_tenant_admin(req[r].tenant, req[r].user)
    /\ Answers(r, list_members(req[r].tenant))

RestListInvites(r) ==
    /\ require_tenant_admin(req[r].tenant, req[r].user)
    /\ Answers(r, list_invites(req[r].tenant))

RestListKeys(r) ==
    /\ require_tenant_admin(req[r].tenant, req[r].user)
    /\ Answers(r, list_for_tenant(req[r].tenant))

RestListWorkspaces(r) ==
    current_context(req[r]) /\ Answers(r, list_for_actor(req[r]))

RestGetWorkspace(r, w) == get_for_actor(req[r], w) /\ Answers(r, Of("ws", {w}))

RestListWorkspaceMembers(r, w) ==
    /\ require_current_workspace_admin(req[r], w)
    /\ Answers(r, Of("user", {u \in Users : grants[w, u] # "none"}))

RestPreviewRemoval(r, u) ==
    LET p == preview_removal(req[r].tenant, u) IN
    /\ require_current_tenant_admin(req[r])
    /\ Answers(r, Of("key", p.keys) \cup Of("ws", p.lost))

RestPreviewRoleChange(r, u, x) ==
    LET p == preview_role_change(req[r].tenant, u, x) IN
    /\ require_current_tenant_admin(req[r])
    /\ roles[req[r].tenant, u] # "none"
    /\ Answers(r, Of("key", DOMAIN p.keys) \cup Of("ws", p.lost))

RestInventory(r) ==
    /\ require_current_tenant_owner(req[r])
    /\ Answers(r, Of("ws", WorkspacesOf(req[r].tenant)))

McpListMembers(r) ==
    /\ require_tenant_admin(req[r].tenant, req[r].user)
    /\ Answers(r, list_members(req[r].tenant))

McpListInvites(r) ==
    /\ require_tenant_admin(req[r].tenant, req[r].user)
    /\ Answers(r, list_invites(req[r].tenant))

McpListKeys(r) ==
    /\ require_tenant_admin(req[r].tenant, req[r].user)
    /\ Answers(r, list_for_tenant(req[r].tenant))

McpListWorkspaces(r) ==
    current_context(req[r]) /\ Answers(r, list_for_actor(req[r]))

McpGetWorkspace(r, w) == get_for_actor(req[r], w) /\ Answers(r, Of("ws", {w}))

McpListWorkspaceMembers(r, w) ==
    /\ require_current_workspace_admin(req[r], w)
    /\ Answers(r, Of("user", {u \in Users : grants[w, u] # "none"}))

McpPreviewRemoval(r, u) ==
    LET p == preview_removal(req[r].tenant, u) IN
    /\ require_current_tenant_admin(req[r])
    /\ Answers(r, Of("key", p.keys) \cup Of("ws", p.lost))

McpPreviewRoleChange(r, u, x) ==
    LET p == preview_role_change(req[r].tenant, u, x) IN
    /\ require_current_tenant_admin(req[r])
    /\ roles[req[r].tenant, u] # "none"
    /\ Answers(r, Of("key", DOMAIN p.keys) \cup Of("ws", p.lost))

McpInventory(r) ==
    /\ require_current_tenant_owner(req[r])
    /\ Answers(r, Of("ws", WorkspacesOf(req[r].tenant)))

McpDiscoverWorkspaces(r) ==
    current_context(req[r]) /\ Answers(r, Of("ws", discover_workspaces(req[r])))

McpWhoami(r) ==
    /\ current_context(req[r])
    /\ owner[req[r].ws] = req[r].tenant
    /\ Answers(r, {<<"ws", req[r].ws>>, <<"key", req[r].key>>})

-----------------------------------------------------------------------------
(* Public handlers: setup, signup, login, invites, OAuth. *)

(* A handler that has read something keeps it until its transaction. *)
Holds(r, p) ==
    /\ req[r] = None /\ pend[r] = None
    /\ Spend("public")
    /\ pend' = [pend EXCEPT ![r] = p]
    /\ reply' = None
    /\ UNCHANGED <<now, req>>

(* The handler's transaction, from what it has read. *)
Uses(r, kind) ==
    /\ pend[r] # None
    /\ pend[r].kind = kind
    /\ pend' = [pend EXCEPT ![r] = None]
    /\ reply' = None
    /\ UNCHANGED <<now, req, budget>>

Public(r) ==
    /\ req[r] = None /\ pend[r] = None
    /\ Spend("public")
    /\ reply' = None
    /\ UNCHANGED <<now, req, pend>>

Held(kind, u, w, t, s, i, g) ==
    [kind |-> kind, user |-> u, ws |-> w, tenant |-> t, scope |-> s,
     invite |-> i, token |-> g]

(* The first account is committed before its key is issued. *)
Setup(r, t, w, u) ==
    /\ Holds(r, Held("setup", u, w, t, 4, None, 0))
    /\ setup_first_account(t, w, u)

SetupKey(r, k) ==
    /\ Uses(r, "setup")
    /\ create_tenant_api_key(k, pend[r].tenant, 4, pend[r].user, TRUE)

SignupWithoutInvite(r, t, u) == Public(r) /\ signup_account(t, u)

SignupWithInvite(r, i, u) == Public(r) /\ register_user(i, invites[i].token, u)

(* A login of an existing account: the workspace is resolved and the access
   read; then the key is issued with the scope that was read. *)
StartLogin(r, how, u, q) ==
    /\ accounts[u] = how
    /\ \E w \in resolve_login_workspace(u, q) :
        /\ owner[w] \in Tenants
        /\ workspace_access(owner[w], w, u) > 0
        /\ Holds(r, Held("login", u, w, None,
                         workspace_access(owner[w], w, u), None, 0))
    /\ UNCHANGED store

verify_login(u) == accounts[u] = "password"

Login(r, u, q) == verify_login(u) /\ StartLogin(r, "password", u, q)

OAuthLogin(r, u, q) == StartLogin(r, "oauth", u, q)

LoginKey(r, k) ==
    /\ Uses(r, "login")
    /\ create_api_key(k, pend[r].ws, pend[r].scope, pend[r].user, FALSE)

OAuthFirstLogin(r, t, w, u) ==
    /\ Holds(r, Held("login", u, w, None, 4, None, 0))
    /\ find_or_create(t, w, u)

(* The password is verified before the transaction that redeems the token. *)
AcceptStart(r, u, i) ==
    /\ verify_login(u)
    /\ invites[i].st # "fresh"
    /\ Holds(r, Held("accept", u, None, None, 1, i, invites[i].token))
    /\ UNCHANGED store

AcceptFinish(r) ==
    /\ Uses(r, "accept")
    /\ accept_in_transaction(pend[r].invite, pend[r].token, pend[r].user)

(* The callback resolves the identity inside the transaction. *)
OAuthAccept(r, u, i) ==
    /\ Public(r)
    /\ accounts[u] = "oauth"
    /\ accept_in_transaction(i, invites[i].token, u)

-----------------------------------------------------------------------------
(* The operator's tasks. *)

Task(kind) == Spend(kind) /\ reply' = None /\ UNCHANGED <<now, req, pend>>

TaskAddMember(t, u, x) ==
    /\ Task("provision") /\ add_member(t, u, x)
    /\ UNCHANGED <<tenants, caps, accounts, owner, grants, keys, invites, jobs>>

TaskCreateKey(k, w, s, u, audit) == Task("issue") /\ create_api_key(k, w, s, u, audit)

TaskCreateTenantKey(k, t, s, u, audit) ==
    Task("issue") /\ create_tenant_api_key(k, t, s, u, audit)

TaskRevokeKey(k) == Task("retire") /\ delete_for_tenant(keys[k].tenant, k)

TaskCreateInvite(i, t, to, x, e) ==
    Task("issue") /\ e > now /\ create_invite(i, t, to, x, e)

TaskCreateTenant(t) ==
    /\ Task("provision") /\ create_tenant(t)
    /\ UNCHANGED <<accounts, members, owner, keys, invites, jobs>>

TaskCreateUser(u) ==
    /\ Task("provision") /\ create_user(u, "password")
    /\ UNCHANGED <<tenants, caps, members, owner, keys, invites, jobs>>

TaskCreateWorkspace(w, t) == Task("provision") /\ create_workspace(w, t, PlanWorkspaces)

TaskDisableTenant(t) == Task("retire") /\ disable_in_transaction(t)

TaskDeleteTenant(t) == Task("retire") /\ delete_tenant_by_operator(t)

TaskDeleteUser(u) == Task("retire") /\ delete_user_by_operator(u)

-----------------------------------------------------------------------------
(* Queued work and time. *)

(* Work is queued with the context that was authorized; nothing is checked
   again until it runs. *)
EnqueueJob(r, j, s) ==
    /\ Ends(r, "job")
    /\ NextJob(j)
    /\ req[r].scope >= s
    /\ jobs' = [jobs EXCEPT ![j] = [st |-> "queued", actor |-> req[r], need |-> s]]
    /\ UNCHANGED <<tenants, caps, accounts, members, owner, keys, invites>>

RunJob(j) ==
    /\ jobs[j].st = "queued"
    /\ jobs' = [jobs EXCEPT ![j].st =
            IF require_job_actor(jobs[j].actor, jobs[j].need) THEN "done" ELSE "failed"]
    /\ reply' = None
    /\ UNCHANGED <<tenants, caps, accounts, members, owner, keys, invites,
                   now, req, pend, budget>>

Tick ==
    /\ Spend("time")
    /\ now' = now + 1
    /\ reply' = None
    /\ UNCHANGED <<store, req, pend>>

-----------------------------------------------------------------------------
Expiry == Expiries \cup {Never}

RestNext(r) ==
    \/ \E u \in Users, x \in RolesGiven : RestAddMember(r, u, x)
    \/ \E u \in Users : RestRemoveMember(r, u)
    \/ \E u \in Users : RestTransferOwnership(r, u)
    \/ \E i \in Invites, u \in Users, x \in RolesGiven, e \in Expiries :
           RestCreateInvite(r, i, Email[u], x, e)
    \/ \E i \in Invites : RestRevokeInvite(r, i)
    \/ \E i \in Invites, e \in Expiries : RestReissueInvite(r, i, e)
    \/ \E i \in Invites : RestAcceptInvite(r, i)
    \/ \E k \in Keys, b, a \in BOOLEAN, s \in ScopesGiven, e \in Expiry :
           RestCreateKey(r, k, b, s, a, e)
    \/ \E k \in Keys : RestRevokeKey(r, k)
    \/ \E k, old \in Keys : RestRotateKey(r, k, old)
    \/ \E w \in Workspaces : RestCreateWorkspace(r, w)
    \/ \E w \in Workspaces : RestDeleteWorkspace(r, w)
    \/ \E w \in Workspaces, u \in Users, x \in RolesGiven \cap WorkspaceRoles :
           RestGrantMember(r, w, u, x)
    \/ \E w \in Workspaces, u \in Users : RestRevokeMember(r, w, u)
    \/ \E cap \in CapsGiven : RestUpdateTenant(r, cap)
    \/ RestDisableTenant(r)

McpNext(r) ==
    \/ \E u \in Users, x \in RolesGiven : McpSetMemberRole(r, u, x)
    \/ \E u \in Users : McpRemoveMember(r, u)
    \/ \E u \in Users : McpTransferOwnership(r, u)
    \/ \E i \in Invites, u \in Users, x \in RolesGiven, e \in Expiries :
           McpCreateInvite(r, i, Email[u], x, e)
    \/ \E i \in Invites : McpRevokeInvite(r, i)
    \/ \E i \in Invites, e \in Expiries : McpReissueInvite(r, i, e)
    \/ \E i \in Invites : McpAcceptInvite(r, i)
    \/ \E k \in Keys, b, a \in BOOLEAN, s \in ScopesGiven, e \in Expiry :
           McpCreateKey(r, k, b, s, a, e)
    \/ \E k \in Keys : McpRevokeKey(r, k)
    \/ \E k, old \in Keys : McpRotateKey(r, k, old)
    \/ \E w \in Workspaces : McpCreateWorkspace(r, w)
    \/ \E w \in Workspaces : McpDeleteWorkspace(r, w)
    \/ \E w \in Workspaces, u \in Users, x \in RolesGiven \cap WorkspaceRoles :
           McpGrantMember(r, w, u, x)
    \/ \E w \in Workspaces, u \in Users : McpRevokeMember(r, w, u)
    \/ \E cap \in CapsGiven : McpUpdateTenant(r, cap)
    \/ McpDisableTenant(r)

ReadNext(r) ==
    /\ budget["read"] > 0
    /\ \/ RestListMembers(r) \/ McpListMembers(r)
       \/ RestListInvites(r) \/ McpListInvites(r)
       \/ RestListKeys(r) \/ McpListKeys(r)
       \/ RestListWorkspaces(r) \/ McpListWorkspaces(r)
       \/ RestInventory(r) \/ McpInventory(r)
       \/ McpDiscoverWorkspaces(r) \/ McpWhoami(r)
       \/ \E w \in Workspaces :
              \/ RestGetWorkspace(r, w) \/ McpGetWorkspace(r, w)
              \/ RestListWorkspaceMembers(r, w) \/ McpListWorkspaceMembers(r, w)
       \/ \E u \in Users : RestPreviewRemoval(r, u) \/ McpPreviewRemoval(r, u)
       \/ \E u \in Users, x \in RolesGiven :
              RestPreviewRoleChange(r, u, x) \/ McpPreviewRoleChange(r, u, x)

PublicNext(r) ==
    \/ \E t \in Tenants, w \in Workspaces, u \in Users : Setup(r, t, w, u)
    \/ \E k \in Keys : SetupKey(r, k)
    \/ \E t \in Tenants, u \in Users : SignupWithoutInvite(r, t, u)
    \/ \E i \in Invites, u \in Users : SignupWithInvite(r, i, u)
    \/ \E u \in Users, q \in Workspaces \cup {None} : Login(r, u, q)
    \/ \E u \in Users, q \in Workspaces \cup {None} : OAuthLogin(r, u, q)
    \/ \E k \in Keys : LoginKey(r, k)
    \/ \E t \in Tenants, w \in Workspaces, u \in Users : OAuthFirstLogin(r, t, w, u)
    \/ \E u \in Users, i \in Invites : AcceptStart(r, u, i)
    \/ AcceptFinish(r)
    \/ \E u \in Users, i \in Invites : OAuthAccept(r, u, i)

TaskNext ==
    \/ \E t \in Tenants, u \in Users, x \in RolesGiven : TaskAddMember(t, u, x)
    \/ \E k \in Keys, w \in Workspaces, s \in ScopesGiven,
          u \in Users \cup {None}, a \in BOOLEAN : TaskCreateKey(k, w, s, u, a)
    \/ \E k \in Keys, t \in Tenants, s \in ScopesGiven,
          u \in Users \cup {None}, a \in BOOLEAN : TaskCreateTenantKey(k, t, s, u, a)
    \/ \E k \in Keys : TaskRevokeKey(k)
    \/ \E i \in Invites, t \in Tenants, u \in Users, x \in RolesGiven, e \in Expiries :
           TaskCreateInvite(i, t, Email[u], x, e)
    \/ \E t \in Tenants : TaskCreateTenant(t)
    \/ \E u \in Users : TaskCreateUser(u)
    \/ \E w \in Workspaces, t \in Tenants : TaskCreateWorkspace(w, t)
    \/ \E t \in Tenants : TaskDisableTenant(t)
    \/ \E t \in Tenants : TaskDeleteTenant(t)
    \/ \E u \in Users : TaskDeleteUser(u)

Next ==
    \/ \E r \in Requests :
        \/ \E k \in Keys, q \in Workspaces \cup {None} : authenticate(r, k, q)
        \/ req[r] # None /\ (RestNext(r) \/ McpNext(r) \/ ReadNext(r))
        \/ PublicNext(r)
        \/ Fails(r)
        \/ \E j \in Jobs, s \in ScopesGiven : EnqueueJob(r, j, s)
    \/ TaskNext
    \/ \E j \in Jobs : RunJob(j)
    \/ Tick

Spec == Init /\ [][Next]_vars

-----------------------------------------------------------------------------
(* Properties. *)

(* A key that has not been revoked belongs to an active tenant, and to a
   member of it when it is attributed: removing a member, deleting an account
   and disabling a tenant each revoke what they must, and no handler that read
   earlier issues a key afterwards. *)
KeysFollowMembership ==
    \A k \in Keys : keys[k].st = "live" =>
        /\ tenants[keys[k].tenant] = "active"
        /\ keys[k].user # None => roles[keys[k].tenant, keys[k].user] # "none"

(* A workspace grant is held by a member of the workspace's tenant only. *)
GrantsFollowMembership ==
    \A w \in Workspaces, u \in Users : grants[w, u] # "none" =>
        owner[w] \in Tenants /\ roles[owner[w], u] # "none"

(* Nothing gives access to a tenant but to its members: neither a key nor a
   grant outlives the membership (remove_member, delete_account). *)
AccessFollowsMembership == KeysFollowMembership /\ GrantsFollowMembership

(* A key issued with another key never exceeds it: not in scope, audit grant,
   lifetime, workspace or tenant.  This covers rotation, which copies a key the
   actor's own key did not issue. *)
DelegationNeverWidens ==
    \A k \in Keys : keys[k].issuer # None =>
        LET i == keys[keys[k].issuer] IN
        /\ keys[k].tenant = i.tenant
        /\ keys[k].scope <= i.scope
        /\ keys[k].audit => i.audit
        /\ keys[k].expires <= i.expires
        /\ i.ws \in {None, keys[k].ws}

(* A tenant that has an owner and a workspace keeps one of each until it is
   deleted, whoever demotes, removes, transfers or deletes at the same time. *)
NeverStranded ==
    [][\A t \in Existing : t \in Existing' =>
        /\ Owners(t) # {} => Owners(t)' # {}
        /\ WorkspacesOf(t) # {} => WorkspacesOf(t)' # {}]_vars

(* The key of c is neither revoked nor expired, its tenant is active and its
   user is a member. *)
Authoritative(c) ==
    /\ keys[c.key].st = "live" /\ keys[c.key].expires > now
    /\ tenants[c.tenant] = "active"
    /\ c.user # None => roles[c.tenant, c.user] # "none"

(* Whatever a request or a queued job changes, it changes with authority that
   is current at that step and not only when it authenticated: each operation
   checks the context again under the tenant's lock, and a job when it runs. *)
AuthorityIsCurrent ==
    [][/\ \A r \in Requests :
            /\ req[r] # None /\ req'[r] = None
            /\ <<tenants, caps, accounts, roles, owner, grants, keys, invites>>'
                 # <<tenants, caps, accounts, roles, owner, grants, keys, invites>>
            => Authoritative(req[r])
       /\ \A j \in Jobs : jobs[j].st # "done" /\ jobs'[j].st = "done" =>
            Authoritative(jobs[j].actor)]_vars
=============================================================================
