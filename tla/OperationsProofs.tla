-------------------------- MODULE OperationsProofs --------------------------
(***************************************************************************)
(* Proofs about the tenants (TenancyApi) and about the housekeeping beside *)
(* them (Housekeeping), for any number of tenants, users, keys, requests,  *)
(* replicas, deliveries, guards and clients; and that the two together     *)
(* (Operations) are a behaviour of each.                                   *)
(***************************************************************************)
EXTENDS Operations, TLAPS

(* Rows and contexts as the code builds them. *)
KeyRows == [st: {"fresh", "live", "revoked", "gone"}, tenant: Tenants \cup {None},
            ws: Workspaces \cup {None}, user: Users \cup {None}, scope: Int,
            audit: BOOLEAN, expires: Int, issuer: Keys \cup {None}, next: Keys \cup {None}]

InviteRows == [st: {"fresh", "open", "used", "gone"}, tenant: Tenants \cup {None},
               to: {Email[u] : u \in Users} \cup {None}, role: Roles, expires: Int, token: Int]

Contexts == [key: Keys, tenant: Tenants, ws: Workspaces, user: Users \cup {None}, scope: Int]

JobRows == [st: {"fresh", "queued", "done", "failed", "cancelled", "gone"},
            actor: Contexts \cup {None}, need: Int]

Helds == [kind: {"setup", "login", "accept"}, user: Users, ws: Workspaces \cup {None},
          tenant: Tenants \cup {None}, scope: Int, invite: Invites \cup {None}, token: Int]

RowsTyped ==
    /\ tenants \in [Tenants -> {"fresh", "active", "disabled", "gone"}]
    /\ accounts \in [Users -> {"fresh", "password", "oauth", "gone"}]
    /\ roles \in [Tenants \X Users -> Roles \cup {"none"}]
    /\ owner \in [Workspaces -> Tenants \cup {None, Gone}]
    /\ grants \in [Workspaces \X Users -> WorkspaceRoles \cup {"none"}]
    /\ keys \in [Keys -> KeyRows]
    /\ invites \in [Invites -> InviteRows]
    /\ jobs \in [Jobs -> JobRows]

(* What a handler that has read something holds names the rows its kind needs. *)
HeldNames(p) ==
    /\ p.kind = "setup" => p.tenant \in Tenants
    /\ p.kind = "login" => p.ws \in Workspaces
    /\ p.kind = "accept" => p.invite \in Invites

FlowTyped ==
    /\ now \in Int
    /\ req \in [Requests -> Contexts \cup {None}]
    /\ pend \in [Requests -> Helds \cup {None}]
    /\ \A r \in Requests : pend[r] # None => HeldNames(pend[r])

(* A key in use and an open invite are some tenant's. *)
Addressed ==
    /\ \A k \in Keys : keys[k].st = "live" => keys[k].tenant \in Tenants
    /\ \A i \in Invites : invites[i].st = "open" => invites[i].tenant \in Tenants

(* An account that does not exist, or no longer exists, is a member of nothing. *)
MembersRegistered ==
    \A t \in Tenants, u \in Users : roles[t, u] # "none" => u \in Registered

(* The key that issued another has been issued itself: it is a row that no
   later key can take the place of. *)
IssuersIssued ==
    \A k \in Keys : keys[k].issuer # None => keys[keys[k].issuer].st # "fresh"

RowsInv ==
    /\ RowsTyped /\ Addressed /\ MembersRegistered
    /\ IssuersIssued /\ DelegationNeverWidens
    /\ KeysFollowMembership /\ GrantsFollowMembership

TenancyInv == RowsInv /\ FlowTyped

-----------------------------------------------------------------------------
(* What can happen to a key once it is issued: it loses its life or its user.
   Nothing raises what it allows. *)
Fades(k) ==
    /\ keys'[k].tenant = keys[k].tenant /\ keys'[k].ws = keys[k].ws
    /\ keys'[k].scope = keys[k].scope /\ keys'[k].audit = keys[k].audit
    /\ keys'[k].expires = keys[k].expires /\ keys'[k].issuer = keys[k].issuer
    /\ keys'[k].user \in {keys[k].user, None}
    /\ keys'[k].st = "live" => keys[k].st = "live"
    /\ keys[k].st # "fresh" => keys'[k].st # "fresh"

AllFade == keys' \in [Keys -> KeyRows] /\ \A k \in Keys : Fades(k)

(* revoke_matching. *)
LEMMA RevokedFade ==
    ASSUME RowsTyped, NEW K, keys' = Revoked(K)
    PROVE  /\ AllFade
           /\ \A k \in Keys \cap K : keys'[k].st # "live"
           /\ \A k \in Keys : keys'[k].user = keys[k].user
<1>1. ASSUME NEW k \in Keys
      PROVE  /\ keys'[k] \in KeyRows /\ Fades(k)
             /\ k \in K => keys'[k].st # "live"
             /\ keys'[k].user = keys[k].user
  <2>0. keys[k] \in KeyRows
    BY DEF RowsTyped
  <2>1. CASE k \in K /\ keys[k].st = "live"
    <3>1. keys'[k] = [keys[k] EXCEPT !.st = "revoked"]
      BY <2>1 DEF Revoked
    <3> QED BY <2>0, <3>1 DEF KeyRows, Fades
  <2>2. CASE ~(k \in K /\ keys[k].st = "live")
    <3>1. keys'[k] = keys[k]
      BY <2>2 DEF Revoked
    <3> QED BY <2>0, <2>2, <3>1 DEF KeyRows, Fades
  <2> QED BY <2>1, <2>2
<1>2. keys' \in [Keys -> KeyRows]
  BY <1>1 DEF Revoked
<1> QED BY <1>1, <1>2 DEF AllFade

(* The foreign keys of api_keys. *)
LEMMA CascadeFades ==
    ASSUME RowsTyped, NEW T, NEW W, NEW U, keys' = api_keys_after(keys, T, W, U)
    PROVE  /\ AllFade
           /\ \A k \in Keys : keys[k].tenant \in T \/ keys[k].ws \in W => keys'[k].st = "gone"
<1>1. ASSUME NEW k \in Keys
      PROVE  /\ keys'[k] \in KeyRows /\ Fades(k)
             /\ keys[k].tenant \in T \/ keys[k].ws \in W => keys'[k].st = "gone"
  <2>0. keys[k] \in KeyRows
    BY DEF RowsTyped
  <2>1. CASE keys[k].tenant \in T \/ keys[k].ws \in W
    <3>1. keys'[k] = [keys[k] EXCEPT !.st = "gone"]
      BY <2>1 DEF api_keys_after
    <3> QED BY <2>0, <3>1 DEF KeyRows, Fades
  <2>2. CASE ~(keys[k].tenant \in T \/ keys[k].ws \in W) /\ keys[k].user \in U
    <3>1. keys'[k] = [keys[k] EXCEPT !.user = None]
      BY <2>2 DEF api_keys_after
    <3> QED BY <2>0, <2>2, <3>1 DEF KeyRows, Fades
  <2>3. CASE ~(keys[k].tenant \in T \/ keys[k].ws \in W) /\ keys[k].user \notin U
    <3>1. keys'[k] = keys[k]
      BY <2>3 DEF api_keys_after
    <3> QED BY <2>0, <2>3, <3>1 DEF KeyRows, Fades
  <2> QED BY <2>1, <2>2, <2>3
<1>2. keys' \in [Keys -> KeyRows]
  BY <1>1 DEF api_keys_after
<1> QED BY <1>1, <1>2 DEF AllFade

(* delete_user_by_operator: the keys of u are revoked, then detached. *)
LEMMA DetachedFade ==
    ASSUME RowsTyped, NEW u \in Users,
           keys' = api_keys_after(Revoked({k \in Keys : keys[k].user = u}), {}, {}, {u})
    PROVE  AllFade
<1> DEFINE R == Revoked({k \in Keys : keys[k].user = u})
<1>1. ASSUME NEW k \in Keys PROVE keys'[k] \in KeyRows /\ Fades(k)
  <2>0. keys[k] \in KeyRows
    BY DEF RowsTyped
  <2>1. CASE keys[k].user = u /\ keys[k].st = "live"
    <3>1. R[k] = [keys[k] EXCEPT !.st = "revoked"]
      BY <2>1 DEF Revoked
    <3>2. R[k].user = u
      BY <2>0, <2>1, <3>1 DEF KeyRows
    <3> HIDE DEF R
    <3>3. keys'[k] = [R[k] EXCEPT !.user = None]
      BY <3>2 DEF api_keys_after, R
    <3>4. keys'[k] = [[keys[k] EXCEPT !.st = "revoked"] EXCEPT !.user = None]
      BY <3>1, <3>3
    <3> QED BY Zenon, <2>0, <3>4 DEF KeyRows, Fades
  <2>2. CASE keys[k].user = u /\ keys[k].st # "live"
    <3>1. R[k] = keys[k]
      BY <2>2 DEF Revoked
    <3> HIDE DEF R
    <3>2. keys'[k] = [keys[k] EXCEPT !.user = None]
      BY <2>2, <3>1 DEF api_keys_after, R
    <3> QED BY <2>0, <2>2, <3>2 DEF KeyRows, Fades
  <2>3. CASE keys[k].user # u
    <3>1. R[k] = keys[k]
      BY <2>3 DEF Revoked
    <3> HIDE DEF R
    <3>2. keys'[k] = keys[k]
      BY <2>3, <3>1 DEF api_keys_after, R
    <3> QED BY <2>0, <2>3, <3>2 DEF KeyRows, Fades
  <2> QED BY <2>1, <2>2, <2>3
<1>2. keys' \in [Keys -> KeyRows]
  BY Zenon, <1>1 DEF api_keys_after
<1> QED BY Zenon, <1>1, <1>2 DEF AllFade

-----------------------------------------------------------------------------
(* Issuing a key. *)

(* Row n stays within row i: what DelegationNeverWidens says of the two. *)
Within(n, i) ==
    /\ n.tenant = i.tenant
    /\ n.scope <= i.scope
    /\ n.audit => i.audit
    /\ n.expires <= i.expires
    /\ i.ws \in {None, n.ws}

(* Key k is issued as row n; every other key fades or stays. *)
IssuedAs(k, n) ==
    /\ k \in Keys /\ keys[k].st = "fresh"
    /\ n \in KeyRows /\ n.st = "live" /\ n.tenant \in Tenants
    /\ keys' \in [Keys -> KeyRows]
    /\ keys'[k] = n
    /\ \A o \in Keys \ {k} : Fades(o)
    /\ n.issuer # None => keys[n.issuer].st # "fresh" /\ Within(n, keys[n.issuer])

(* A key that is issued within its issuer, and keys that only fade, keep every
   delegation within bounds. *)
LEMMA DelegationKept ==
    ASSUME RowsTyped, IssuersIssued, DelegationNeverWidens,
           AllFade \/ \E k, n : IssuedAs(k, n)
    PROVE  IssuersIssued' /\ DelegationNeverWidens'
<1>1. CASE AllFade
  <2>1. ASSUME NEW k \in Keys, keys'[k].issuer # None
        PROVE  /\ keys'[keys'[k].issuer].st # "fresh"
               /\ Within(keys'[k], keys'[keys'[k].issuer])
    <3>1. keys'[k].issuer = keys[k].issuer /\ keys[k].issuer \in Keys
      BY <1>1, <2>1 DEF AllFade, Fades, RowsTyped, KeyRows
    <3>2. /\ keys[keys[k].issuer].st # "fresh"
          /\ Within(keys[k], keys[keys[k].issuer])
      BY <2>1, <3>1, Zenon DEF IssuersIssued, DelegationNeverWidens, Within
    <3>3. Fades(k) /\ Fades(keys[k].issuer)
      BY <1>1, <3>1, Zenon DEF AllFade
    <3> QED BY <3>1, <3>2, <3>3, Zenon DEF Fades, Within
  <2> QED BY <2>1, Zenon DEF IssuersIssued, DelegationNeverWidens, Within
<1>2. ASSUME NEW k, NEW n, IssuedAs(k, n)
      PROVE  IssuersIssued' /\ DelegationNeverWidens'
  <2>0. /\ k \in Keys /\ keys[k].st = "fresh" /\ keys'[k] = n /\ n.st = "live"
        /\ \A o \in Keys \ {k} : Fades(o)
    BY <1>2, Zenon DEF IssuedAs
  <2>1. ASSUME NEW j \in Keys, keys'[j].issuer # None
        PROVE  /\ keys'[keys'[j].issuer].st # "fresh"
               /\ Within(keys'[j], keys'[keys'[j].issuer])
    <3>1. keys'[j].issuer \in Keys
      BY <1>2, <2>1 DEF IssuedAs, KeyRows
    <3>2. /\ keys[keys'[j].issuer].st # "fresh"
          /\ Within(keys'[j], keys[keys'[j].issuer])
      <4>1. CASE j = k
        BY <1>2, <2>0, <2>1, <4>1, Zenon DEF IssuedAs
      <4>2. CASE j # k
        <5>1. keys'[j].issuer = keys[j].issuer /\ Fades(j)
          BY <2>0, <4>2, Zenon DEF Fades
        <5>2. /\ keys[keys[j].issuer].st # "fresh"
              /\ Within(keys[j], keys[keys[j].issuer])
          BY <2>1, <5>1, Zenon DEF IssuersIssued, DelegationNeverWidens, Within
        <5> QED BY <5>1, <5>2, Zenon DEF Fades, Within
      <4> QED BY <4>1, <4>2
    <3>3. Fades(keys'[j].issuer)
      BY <2>0, <3>1, <3>2, Zenon
    <3> QED BY <3>2, <3>3, Zenon DEF Fades, Within
  <2> QED BY <2>1, Zenon DEF IssuersIssued, DelegationNeverWidens, Within
<1> QED BY <1>1, <1>2

-----------------------------------------------------------------------------
(* What a step does to access.  A tenant is closed when no key of it is left in
   use; a user is cut off from a tenant when neither a key nor a grant is. *)
Closed(t) == \A k \in Keys : keys'[k].st = "live" => keys'[k].tenant # t

CutOff(t, u) ==
    /\ \A k \in Keys : keys'[k].st = "live" => ~(keys'[k].tenant = t /\ keys'[k].user = u)
    /\ \A w \in Workspaces : owner'[w] = t => grants'[w, u] = "none"

(* Keys fade, or one is issued to an active tenant and a member of it. *)
KeysStep ==
    \/ AllFade
    \/ \E k, n : /\ IssuedAs(k, n)
                 /\ tenants'[n.tenant] = "active"
                 /\ n.user # None => roles'[n.tenant, n.user] # "none"

TenantsStep == \A t \in Tenants : tenants[t] = "active" => tenants'[t] = "active" \/ Closed(t)

RolesStep ==
    \A t \in Tenants, u \in Users : roles[t, u] # "none" => roles'[t, u] # "none" \/ CutOff(t, u)

OwnerStep ==
    \A w \in Workspaces :
        \/ owner'[w] = owner[w] \/ owner[w] = None
        \/ \A u \in Users : grants'[w, u] = "none"

GrantsStep ==
    \A w \in Workspaces, u \in Users :
        \/ grants'[w, u] \in {grants[w, u], "none"}
        \/ owner'[w] \in Tenants /\ roles'[owner'[w], u] # "none"

(* Such a step leaves no access behind that its membership does not carry. *)
LEMMA AccessKept ==
    ASSUME RowsInv, RowsTyped', KeysStep, TenantsStep, RolesStep, OwnerStep, GrantsStep
    PROVE  /\ KeysFollowMembership' /\ GrantsFollowMembership'
           /\ IssuersIssued' /\ DelegationNeverWidens'
           /\ \A k \in Keys : keys'[k].st = "live" => keys'[k].tenant \in Tenants
<1>1. ASSUME NEW k \in Keys, keys'[k].st = "live"
      PROVE  /\ keys'[k].tenant \in Tenants
             /\ tenants'[keys'[k].tenant] = "active"
             /\ keys'[k].user # None => roles'[keys'[k].tenant, keys'[k].user] # "none"
  <2>1. CASE Fades(k)
    <3>1. /\ keys[k].st = "live" /\ keys'[k].tenant = keys[k].tenant
          /\ keys'[k].user \in {keys[k].user, None}
      BY Zenon, <1>1, <2>1 DEF Fades
    <3>2. /\ keys[k].tenant \in Tenants /\ tenants[keys[k].tenant] = "active"
          /\ keys[k].user # None => roles[keys[k].tenant, keys[k].user] # "none"
      BY Zenon, <3>1 DEF RowsInv, Addressed, KeysFollowMembership
    <3>3. tenants'[keys[k].tenant] = "active"
      BY Zenon, <1>1, <3>1, <3>2 DEF TenantsStep, Closed
    <3>4. ASSUME keys'[k].user # None
          PROVE  roles'[keys[k].tenant, keys'[k].user] # "none"
      <4>1. keys'[k].user = keys[k].user /\ keys[k].user # None
        BY Zenon, <3>1, <3>4
      <4>2. keys[k].user \in Users
        BY <4>1 DEF RowsInv, RowsTyped, KeyRows
      <4>3. ~CutOff(keys[k].tenant, keys[k].user)
        BY Zenon, <1>1, <3>1, <4>1 DEF CutOff
      <4> QED BY Zenon, <3>2, <4>1, <4>2, <4>3 DEF RolesStep
    <3> QED BY Zenon, <3>1, <3>2, <3>3, <3>4
  <2>2. CASE ~Fades(k)
    <3>1. PICK j, n : /\ IssuedAs(j, n)
                      /\ tenants'[n.tenant] = "active"
                      /\ n.user # None => roles'[n.tenant, n.user] # "none"
      BY Zenon, <2>2 DEF KeysStep, AllFade
    <3>2. k = j /\ keys'[k] = n /\ n.tenant \in Tenants
      BY Zenon, <2>2, <3>1 DEF IssuedAs
    <3> QED BY Zenon, <3>1, <3>2
  <2> QED BY Zenon, <2>1, <2>2
<1>2. ASSUME NEW w \in Workspaces, NEW u \in Users, grants'[w, u] # "none"
      PROVE  owner'[w] \in Tenants /\ roles'[owner'[w], u] # "none"
  <2>1. CASE grants'[w, u] = grants[w, u]
    <3>1. owner[w] \in Tenants /\ roles[owner[w], u] # "none"
      BY Zenon, <1>2, <2>1 DEF RowsInv, GrantsFollowMembership
    <3>2. owner[w] # None
      BY Zenon, <3>1, DeploymentAssumption
    <3>3. owner'[w] = owner[w]
      BY Zenon, <1>2, <3>2 DEF OwnerStep
    <3>4. ~CutOff(owner[w], u)
      BY Zenon, <1>2, <3>3 DEF CutOff
    <3> QED BY Zenon, <3>1, <3>3, <3>4 DEF RolesStep
  <2> QED BY Zenon, <1>2, <2>1 DEF GrantsStep
<1>3. IssuersIssued' /\ DelegationNeverWidens'
  <2>1. AllFade \/ \E k, n : IssuedAs(k, n)
    BY Zenon DEF KeysStep
  <2> QED BY Zenon, <2>1, DelegationKept DEF RowsInv
<1>4. KeysFollowMembership'
  BY Zenon, <1>1 DEF KeysFollowMembership
<1>5. GrantsFollowMembership'
  BY Zenon, <1>2 DEF GrantsFollowMembership
<1> QED BY Zenon, <1>1, <1>3, <1>4, <1>5

LEMMA KeysUnchangedFade == ASSUME RowsTyped, UNCHANGED keys PROVE AllFade
BY DEF RowsTyped, AllFade, Fades

-----------------------------------------------------------------------------
(* The arithmetic of scopes. *)
LEMMA AccessIsInt ==
    ASSUME NEW t, NEW w, NEW u PROVE workspace_access(t, w, u) \in Int
<1>1. \A x : max_scope(x) \in Int
  BY DEF max_scope
<1>2. ASSUME NEW x PROVE workspace_access_for_role(w, u, x) \in Int
  BY Zenon, <1>1 DEF workspace_access_for_role, Smaller
<1>3. 0 \in Int
  OBVIOUS
<1> QED BY Zenon, <1>2, <1>3 DEF workspace_access

LEMMA ScopeWithin ==
    ASSUME NEW t, NEW w, NEW u, NEW s \in Int, NEW n \in Int, scope_within(t, w, u, s) >= n
    PROVE  n <= s
BY AccessIsInt DEF scope_within, Smaller

(* An attributed context that is current reaches its workspace, which is the
   tenant's. *)
LEMMA CurrentOwner ==
    ASSUME NEW c, current_context(c), c.user # None
    PROVE  owner[c.ws] = c.tenant
<1>1. workspace_access(c.tenant, c.ws, c.user) > 0
  BY Zenon DEF current_context, with_current_membership
<1>2. ~(0 > 0)
  OBVIOUS
<1> QED BY Zenon, <1>1, <1>2 DEF workspace_access

(* A row put in the place of a fresh key. *)
LEMMA InsertKey ==
    ASSUME RowsTyped, NEW k \in Keys, keys[k].st = "fresh", NEW n \in KeyRows,
           n.st = "live", n.tenant \in Tenants,
           n.issuer # None => keys[n.issuer].st # "fresh" /\ Within(n, keys[n.issuer]),
           keys' = [keys EXCEPT ![k] = n]
    PROVE  IssuedAs(k, n)
<1>1. keys' \in [Keys -> KeyRows] /\ keys'[k] = n
  BY DEF RowsTyped
<1>2. ASSUME NEW o \in Keys \ {k} PROVE Fades(o)
  <2>1. keys'[o] = keys[o]
    BY DEF RowsTyped
  <2> QED BY Zenon, <2>1 DEF Fades
<1> QED BY Zenon, <1>1, <1>2 DEF IssuedAs

(* Login, setup, the operator's task and delegation: a key for a workspace. *)
LEMMA NamedKeyIssued ==
    ASSUME RowsInv, NEW k \in Keys, NEW w \in Workspaces, NEW s \in Int,
           NEW u \in Users \cup {None}, NEW a \in BOOLEAN, NEW c \in Contexts \cup {None},
           NEW e \in Int, c # None => w = c.ws /\ u = c.user,
           create_named_api_key(k, w, s, u, a, c, e)
    PROVE  KeysStep
<1> DEFINE by == IF c = None THEN None ELSE c.key
           n == Key(owner[w], w, u, s, a, e, by)
<1>1. /\ owner[w] \in Tenants /\ keys[k].st = "fresh" /\ keys' = [keys EXCEPT ![k] = n]
      /\ UNCHANGED <<tenants, roles>> /\ tenants[owner[w]] = "active"
      /\ u # None => roles[owner[w], u] # "none"
  BY Zenon DEF create_named_api_key, NextKey, require_attributed_key_grant, require_active,
               KeyVarsOnly, members
<1>2. by \in Keys \cup {None}
  BY DEF Contexts
<1>3. /\ n \in KeyRows /\ n.st = "live" /\ n.tenant = owner[w] /\ n.ws = w /\ n.user = u
      /\ n.scope = s /\ n.audit = a /\ n.expires = e /\ n.issuer = by
  <2> HIDE DEF by
  <2> QED BY Zenon, <1>1, <1>2 DEF Key, KeyRows
<1>4. ASSUME by # None
      PROVE  keys[by].st # "fresh" /\ Within(n, keys[by])
  <2>1. c # None /\ by = c.key /\ c \in Contexts /\ w = c.ws /\ u = c.user
    BY Zenon, <1>4
  <2>2. /\ current_context(c) /\ require_key_grant(c, s, a) /\ e <= keys[c.key].expires
    BY Zenon, <2>1 DEF create_named_api_key
  <2>3. /\ keys[c.key].st = "live" /\ keys[c.key].tenant = c.tenant
        /\ keys[c.key].ws \in {None, c.ws}
    BY Zenon, <2>2 DEF current_context, is_active
  <2>4. c.user # None /\ current_scope(c) >= s /\ (a => keys[c.key].audit)
    BY Zenon, <2>2 DEF require_key_grant, require_tenant_admin
  <2>5. owner[w] = c.tenant
    BY Zenon, <2>1, <2>2, <2>4, CurrentOwner
  <2>6. c.key \in Keys /\ keys[c.key].scope \in Int
    BY <2>1 DEF Contexts, RowsInv, RowsTyped, KeyRows
  <2>7. s <= keys[c.key].scope
    BY Zenon, <2>4, <2>6, ScopeWithin DEF current_scope
  <2> HIDE DEF n, by
  <2>8. keys[by].st # "fresh"
    BY <2>1, <2>3
  <2> QED BY Zenon, <1>3, <2>1, <2>2, <2>3, <2>4, <2>5, <2>7, <2>8 DEF Within
<1> HIDE DEF n
<1>5. IssuedAs(k, n)
  BY Zenon, <1>1, <1>3, <1>4, InsertKey DEF RowsInv
<1> QED BY Zenon, <1>1, <1>3, <1>5 DEF KeysStep

(* A key for a tenant, of setup and of the operator's task. *)
LEMMA TenantKeyIssued ==
    ASSUME RowsInv, NEW k \in Keys, NEW t \in Tenants, NEW s \in Int,
           NEW u \in Users \cup {None}, NEW a \in BOOLEAN,
           create_tenant_api_key(k, t, s, u, a)
    PROVE  KeysStep
<1> DEFINE n == Key(t, None, u, s, a, Never, None)
<1>1. /\ keys[k].st = "fresh" /\ keys' = [keys EXCEPT ![k] = n]
      /\ UNCHANGED <<tenants, roles>> /\ tenants[t] = "active"
      /\ u # None => roles[t, u] # "none"
  BY Zenon DEF create_tenant_api_key, NextKey, require_attributed_key_grant, require_active,
               KeyVarsOnly, members
<1>2. Never \in Int
  BY DEF Never
<1>3. /\ n \in KeyRows /\ n.st = "live" /\ n.tenant = t /\ n.user = u /\ n.issuer = None
  BY <1>2 DEF Key, KeyRows
<1> HIDE DEF n
<1>4. IssuedAs(k, n)
  BY Zenon, <1>1, <1>3, InsertKey DEF RowsInv
<1> QED BY Zenon, <1>1, <1>3, <1>4 DEF KeysStep

(* A key for a tenant, issued with another. *)
LEMMA DelegatedTenantKeyIssued ==
    ASSUME RowsInv, NEW k \in Keys, NEW c \in Contexts, NEW s \in Int, NEW a \in BOOLEAN,
           NEW e \in Int, create_delegated_tenant_api_key(k, c, s, a, e)
    PROVE  KeysStep
<1> DEFINE n == Key(c.tenant, None, c.user, s, a, e, c.key)
<1>0. c.key \in Keys /\ c.tenant \in Tenants /\ c.user \in Users \cup {None}
  BY DEF Contexts
<1>1. /\ keys[k].st = "fresh" /\ keys' = [keys EXCEPT ![k] = n]
      /\ UNCHANGED <<tenants, roles>> /\ tenants[c.tenant] = "active"
      /\ c.user # None => roles[c.tenant, c.user] # "none"
  BY Zenon DEF create_delegated_tenant_api_key, NextKey, require_attributed_key_grant,
               require_active, KeyVarsOnly, members
<1>2. /\ current_context(c) /\ require_key_grant(c, s, a) /\ e <= keys[c.key].expires
      /\ keys[c.key].ws = None
  BY Zenon DEF create_delegated_tenant_api_key, require_current_tenant_admin
<1>3. /\ n \in KeyRows /\ n.st = "live" /\ n.tenant = c.tenant /\ n.user = c.user
      /\ n.scope = s /\ n.audit = a /\ n.expires = e /\ n.issuer = c.key
  BY <1>0 DEF Key, KeyRows
<1> HIDE DEF n
<1>4. keys[c.key].st # "fresh" /\ Within(n, keys[c.key])
  <2>1. keys[c.key].st = "live" /\ keys[c.key].tenant = c.tenant
    BY Zenon, <1>2 DEF current_context, is_active
  <2>2. current_scope(c) >= s /\ (a => keys[c.key].audit)
    BY Zenon, <1>2 DEF require_key_grant
  <2>3. keys[c.key].scope \in Int
    BY <1>0 DEF RowsInv, RowsTyped, KeyRows
  <2>4. s <= keys[c.key].scope
    BY Zenon, <2>2, <2>3, ScopeWithin DEF current_scope
  <2>5. keys[c.key].st # "fresh"
    BY <2>1
  <2> QED BY Zenon, <1>2, <1>3, <2>1, <2>2, <2>4, <2>5 DEF Within
<1>5. IssuedAs(k, n)
  BY Zenon, <1>0, <1>1, <1>3, <1>4, InsertKey DEF RowsInv
<1> QED BY Zenon, <1>1, <1>3, <1>5 DEF KeysStep

(* Rotation: a live key is revoked and copied, within the rotating key. *)
LEMMA RotatedKeyIssued ==
    ASSUME RowsInv, NEW k \in Keys, NEW c \in Contexts, NEW old \in Keys, rotate(k, c, old)
    PROVE  KeysStep
<1> DEFINE o == keys[old]
           n == Key(o.tenant, o.ws, o.user, o.scope, o.audit, o.expires, c.key)
<1>0. c.key \in Keys /\ o \in KeyRows
  BY DEF Contexts, RowsInv, RowsTyped
<1>1. /\ keys[k].st = "fresh" /\ UNCHANGED <<tenants, roles>>
      /\ o.st = "live" /\ o.tenant = c.tenant /\ current_context(c)
      /\ keys[c.key].ws \in {None, o.ws} /\ require_key_grant(c, o.scope, o.audit)
      /\ o.expires <= keys[c.key].expires
      /\ require_attributed_key_grant(o.tenant, o.user, o.scope)
      /\ keys' = [Revoked({old}) EXCEPT ![k] = n, ![old].next = k]
  BY Zenon DEF rotate, NextKey, KeyVarsOnly, members, require_current_tenant_admin, is_active
<1>2. /\ tenants[o.tenant] = "active" /\ o.tenant \in Tenants
      /\ o.user # None => roles[o.tenant, o.user] # "none"
  BY Zenon, <1>1 DEF require_attributed_key_grant, require_active, RowsInv, Addressed
<1>3. /\ o.ws \in Workspaces \cup {None} /\ o.user \in Users \cup {None} /\ o.scope \in Int
      /\ o.audit \in BOOLEAN /\ o.expires \in Int
  <2> HIDE DEF o
  <2> QED BY <1>0 DEF KeyRows
<1>4. /\ n \in KeyRows /\ n.st = "live" /\ n.tenant = o.tenant /\ n.ws = o.ws /\ n.user = o.user
      /\ n.scope = o.scope /\ n.audit = o.audit /\ n.expires = o.expires /\ n.issuer = c.key
  <2> HIDE DEF o
  <2> QED BY Zenon, <1>0, <1>2, <1>3 DEF Key, KeyRows
<1> HIDE DEF n
<1>5. keys[c.key].st # "fresh" /\ Within(n, keys[c.key])
  <2>1. keys[c.key].st = "live" /\ keys[c.key].tenant = c.tenant
    BY Zenon, <1>1 DEF current_context, is_active
  <2>2. current_scope(c) >= o.scope /\ (o.audit => keys[c.key].audit)
    BY Zenon, <1>1 DEF require_key_grant
  <2>3. keys[c.key].scope \in Int
    BY <1>0 DEF RowsInv, RowsTyped, KeyRows
  <2>4. o.scope <= keys[c.key].scope
    BY Zenon, <1>3, <2>2, <2>3, ScopeWithin DEF current_scope
  <2>5. keys[c.key].st # "fresh"
    BY <2>1
  <2> QED BY Zenon, <1>1, <1>4, <2>1, <2>2, <2>4, <2>5 DEF Within
<1>6. k # old
  BY <1>1
<1>7. /\ keys'[k] = n
      /\ keys'[old] = [[keys[old] EXCEPT !.st = "revoked"] EXCEPT !.next = k]
      /\ \A j \in Keys \ {k, old} : keys'[j] = keys[j]
      /\ keys' = [j \in Keys |-> keys'[j]]
  BY Zenon, <1>1, <1>6 DEF Revoked
<1>8. Fades(old) /\ keys'[old] \in KeyRows
  <2> DEFINE m == [[keys[old] EXCEPT !.st = "revoked"] EXCEPT !.next = k]
  <2>1. /\ m \in KeyRows /\ m.st = "revoked" /\ m.st # "live" /\ m.st # "fresh"
        /\ m.tenant = keys[old].tenant /\ m.ws = keys[old].ws /\ m.user = keys[old].user
        /\ m.scope = keys[old].scope /\ m.audit = keys[old].audit
        /\ m.expires = keys[old].expires /\ m.issuer = keys[old].issuer
    BY <1>0 DEF KeyRows
  <2>2. keys'[old] = m
    BY Zenon, <1>7
  <2> HIDE DEF m
  <2> QED BY Zenon, <2>1, <2>2 DEF Fades
<1>9. ASSUME NEW j \in Keys \ {k, old} PROVE Fades(j) /\ keys'[j] \in KeyRows
  BY Zenon, <1>7 DEF Fades, RowsInv, RowsTyped
<1>10. keys' \in [Keys -> KeyRows]
  <2>1. \A j \in Keys : keys'[j] \in KeyRows
    BY Zenon, <1>4, <1>7, <1>8, <1>9
  <2> QED BY <1>7, <2>1
<1>11. IssuedAs(k, n)
  BY Zenon, <1>1, <1>2, <1>4, <1>5, <1>7, <1>8, <1>9, <1>10 DEF IssuedAs
<1>12. tenants' = tenants /\ roles' = roles
  BY <1>1
<1>13. tenants'[n.tenant] = "active" /\ (n.user # None => roles'[n.tenant, n.user] # "none")
  <2> HIDE DEF o
  <2> QED BY Zenon, <1>2, <1>4, <1>12
<1> QED BY Zenon, <1>11, <1>13 DEF KeysStep

-----------------------------------------------------------------------------
(* Frames. *)
InvitesTyped ==
    /\ invites \in [Invites -> InviteRows]
    /\ \A i \in Invites : invites[i].st = "open" => invites[i].tenant \in Tenants

(* Rows are added, members and grants stay, keys stay. *)
LEMMA GrowthKept ==
    ASSUME RowsInv, UNCHANGED <<grants, keys>>, InvitesTyped', jobs' \in [Jobs -> JobRows],
           tenants' \in [Tenants -> {"fresh", "active", "disabled", "gone"}],
           accounts' \in [Users -> {"fresh", "password", "oauth", "gone"}],
           roles' \in [Tenants \X Users -> Roles \cup {"none"}],
           owner' \in [Workspaces -> Tenants \cup {None, Gone}],
           \A t \in Tenants : tenants[t] = "active" => tenants'[t] = "active",
           \A t \in Tenants, u \in Users : roles[t, u] # "none" => roles'[t, u] # "none",
           \A w \in Workspaces : owner'[w] = owner[w] \/ owner[w] = None,
           MembersRegistered'
    PROVE  RowsInv'
<1>1. RowsTyped'
  BY Zenon DEF RowsInv, RowsTyped, InvitesTyped
<1>2. KeysStep /\ TenantsStep /\ RolesStep /\ OwnerStep /\ GrantsStep
  <2>1. KeysStep
    BY Zenon, KeysUnchangedFade DEF RowsInv, KeysStep
  <2>2. GrantsStep
    BY Zenon DEF GrantsStep
  <2> QED BY Zenon, <2>1, <2>2 DEF TenantsStep, RolesStep, OwnerStep
<1> QED BY Zenon, <1>1, <1>2, AccessKept DEF RowsInv, Addressed, InvitesTyped

(* Only keys change. *)
LEMMA KeysOnlyKept ==
    ASSUME RowsInv, KeysStep, KeyVarsOnly
    PROVE  RowsInv'
<1>1. UNCHANGED <<tenants, accounts, roles, owner, grants, invites, jobs>>
  BY Zenon DEF KeyVarsOnly, members
<1>2. keys' \in [Keys -> KeyRows]
  BY Zenon DEF KeysStep, AllFade, IssuedAs
<1>3. RowsTyped'
  BY Zenon, <1>1, <1>2 DEF RowsInv, RowsTyped
<1>4. TenantsStep /\ RolesStep /\ OwnerStep /\ GrantsStep
  BY Zenon, <1>1 DEF TenantsStep, RolesStep, OwnerStep, GrantsStep
<1>5. MembersRegistered'
  BY Zenon, <1>1 DEF RowsInv, MembersRegistered, Registered
<1> QED BY Zenon, <1>1, <1>3, <1>4, <1>5, AccessKept DEF RowsInv, Addressed

(* The rows of one kind that a step leaves alone. *)
LEMMA SameInvites == ASSUME RowsInv, UNCHANGED invites PROVE InvitesTyped'
BY Zenon DEF RowsInv, RowsTyped, Addressed, InvitesTyped

LEMMA SameMembers == ASSUME RowsInv, UNCHANGED <<roles, accounts>> PROVE MembersRegistered'
BY Zenon DEF RowsInv, MembersRegistered, Registered

LEMMA InvitesOnlyKept ==
    ASSUME RowsInv, InvitesTyped', InviteVarsOnly
    PROVE  RowsInv'
<1>1. UNCHANGED <<tenants, accounts, roles, owner, grants, keys, jobs>>
  BY Zenon DEF InviteVarsOnly, members
<1>2. MembersRegistered'
  BY Zenon, <1>1, SameMembers
<1>3. RowsTyped'
  BY Zenon, <1>1 DEF RowsInv, RowsTyped, InvitesTyped
<1> QED BY Zenon, <1>1, <1>2, <1>3, GrowthKept DEF RowsTyped

LEMMA JobsOnlyKept ==
    ASSUME RowsInv, jobs' \in [Jobs -> JobRows],
           UNCHANGED <<tenants, accounts, roles, owner, grants, keys, invites>>
    PROVE  RowsInv'
<1>1. RowsTyped' /\ InvitesTyped' /\ MembersRegistered'
  BY Zenon, SameInvites, SameMembers DEF RowsInv, RowsTyped
<1> QED BY Zenon, <1>1, GrowthKept DEF RowsTyped

-----------------------------------------------------------------------------
(* Members. *)

(* A registered account gets a role of a tenant; invites may change beside it. *)
LEMMA MemberAddedKept ==
    ASSUME RowsInv, NEW t \in Tenants, NEW u \in Users, NEW x \in Roles, add_member(t, u, x),
           UNCHANGED <<tenants, accounts, owner, grants, keys, jobs>>, InvitesTyped'
    PROVE  RowsInv'
<1>1. /\ roles' \in [Tenants \X Users -> Roles \cup {"none"}] /\ roles'[t, u] = x
      /\ \A o \in Tenants, v \in Users : <<o, v>> # <<t, u>> => roles'[o, v] = roles[o, v]
  BY Zenon DEF add_member, RowsInv, RowsTyped
<1>2. x # "none"
  BY DEF Roles
<1>3. \A o \in Tenants, v \in Users : roles[o, v] # "none" => roles'[o, v] # "none"
  BY Zenon, <1>1, <1>2
<1>4. MembersRegistered'
  <2>1. u \in Registered
    BY Zenon DEF add_member
  <2> QED BY Zenon, <1>1, <2>1 DEF RowsInv, MembersRegistered, Registered
<1> QED BY Zenon, <1>1, <1>3, <1>4, GrowthKept DEF RowsInv, RowsTyped

LEMMA TransferKept ==
    ASSUME RowsInv, NEW c \in Contexts, NEW s \in Users, transfer_ownership(c, s)
    PROVE  RowsInv'
<1>0. c.tenant \in Tenants /\ c.user \in Users
  <2>1. c.user # None
    BY Zenon DEF transfer_ownership, require_current_tenant_admin, require_tenant_admin
  <2> QED BY <2>1 DEF Contexts
<1>1. /\ UNCHANGED <<tenants, accounts, owner, grants, keys, invites, jobs>>
      /\ roles[c.tenant, c.user] = "owner" /\ roles[c.tenant, s] # "none"
      /\ roles' = [roles EXCEPT ![<<c.tenant, s>>] = "owner", ![<<c.tenant, c.user>>] = "admin"]
  BY Zenon DEF transfer_ownership
<1>2. /\ roles' \in [Tenants \X Users -> Roles \cup {"none"}]
      /\ roles'[c.tenant, c.user] = "admin"
      /\ c.user # s => roles'[c.tenant, s] = "owner"
      /\ \A o \in Tenants, v \in Users :
           <<o, v>> # <<c.tenant, s>> /\ <<o, v>> # <<c.tenant, c.user>> => roles'[o, v] = roles[o, v]
  BY Zenon, <1>0, <1>1 DEF RowsInv, RowsTyped, Roles
<1>3. \A o \in Tenants, v \in Users : roles[o, v] # "none" <=> roles'[o, v] # "none"
  BY Zenon, <1>0, <1>1, <1>2
<1>4. MembersRegistered'
  BY Zenon, <1>1, <1>3 DEF RowsInv, MembersRegistered, Registered
<1>5. InvitesTyped'
  BY Zenon, <1>1, SameInvites
<1>6. /\ tenants' \in [Tenants -> {"fresh", "active", "disabled", "gone"}]
      /\ accounts' \in [Users -> {"fresh", "password", "oauth", "gone"}]
      /\ owner' \in [Workspaces -> Tenants \cup {None, Gone}]
      /\ jobs' \in [Jobs -> JobRows]
  BY Zenon, <1>1 DEF RowsInv, RowsTyped
<1>7. \A t \in Tenants, u \in Users : roles[t, u] # "none" => roles'[t, u] # "none"
  BY Zenon, <1>3
<1> QED BY Zenon, <1>1, <1>2, <1>4, <1>5, <1>6, <1>7, GrowthKept

(* Removing a member takes the member's grants in the tenant and keys of it. *)
LEMMA RemovalKept ==
    ASSUME RowsInv, NEW t \in Tenants, NEW u \in Users, remove_member(t, u)
    PROVE  RowsInv'
<1>1. /\ UNCHANGED <<tenants, accounts, owner, invites, jobs>>
      /\ roles' = [roles EXCEPT ![<<t, u>>] = "none"]
      /\ keys' = Revoked(KeysOf(t, u))
  BY Zenon DEF remove_member, revoke_matching
<1>2. /\ roles' \in [Tenants \X Users -> Roles \cup {"none"}] /\ roles'[t, u] = "none"
      /\ \A o \in Tenants, v \in Users : <<o, v>> # <<t, u>> => roles'[o, v] = roles[o, v]
  BY Zenon, <1>1 DEF RowsInv, RowsTyped
<1>3. /\ grants' \in [Workspaces \X Users -> WorkspaceRoles \cup {"none"}]
      /\ \A w \in Workspaces, v \in Users :
           /\ grants'[w, v] \in {grants[w, v], "none"}
           /\ v = u /\ owner[w] = t => grants'[w, v] = "none"
  BY Zenon DEF remove_member, RowsInv, RowsTyped
<1>4. /\ AllFade
      /\ \A k \in Keys \cap KeysOf(t, u) : keys'[k].st # "live"
      /\ \A k \in Keys : keys'[k].user = keys[k].user
  BY Zenon, <1>1, RevokedFade DEF RowsInv
<1>5. RowsTyped'
  BY Zenon, <1>1, <1>2, <1>3, <1>4 DEF RowsInv, RowsTyped, AllFade
<1>6. CutOff(t, u)
  BY Zenon, <1>1, <1>3, <1>4 DEF CutOff, KeysOf, AllFade, Fades
<1>7. KeysStep /\ TenantsStep /\ OwnerStep
  BY Zenon, <1>1, <1>4 DEF KeysStep, TenantsStep, OwnerStep
<1>8. RolesStep
  BY Zenon, <1>2, <1>6 DEF RolesStep
<1>9. GrantsStep
  BY Zenon, <1>3 DEF GrantsStep
<1>10. MembersRegistered'
  BY Zenon, <1>1, <1>2 DEF RowsInv, MembersRegistered, Registered
<1> QED BY Zenon, <1>1, <1>5, <1>7, <1>8, <1>9, <1>10, AccessKept DEF RowsInv, Addressed

(* A grant is given to a member of the workspace's tenant. *)
LEMMA GrantKept ==
    ASSUME RowsInv, NEW c \in Contexts, NEW w \in Workspaces, NEW u \in Users,
           NEW x \in WorkspaceRoles, grant_as(c, w, u, x)
    PROVE  RowsInv'
<1>1. /\ UNCHANGED <<tenants, accounts, roles, owner, keys, invites, jobs>>
      /\ roles[owner[w], u] # "none" /\ grants' = [grants EXCEPT ![<<w, u>>] = x]
  BY Zenon DEF grant_as
<1>2. /\ grants' \in [Workspaces \X Users -> WorkspaceRoles \cup {"none"}]
      /\ \A v \in Workspaces, z \in Users : <<v, z>> # <<w, u>> => grants'[v, z] = grants[v, z]
  BY Zenon, <1>1 DEF RowsInv, RowsTyped
<1>3. owner[w] \in Tenants
  <2>1. workspace_access(c.tenant, w, c.user) > 0
    BY Zenon DEF grant_as, require_current_workspace_admin, workspace_admin
  <2>2. owner[w] = c.tenant
    <3>1. ~(0 > 0)
      OBVIOUS
    <3> QED BY Zenon, <2>1, <3>1 DEF workspace_access
  <2> QED BY <2>2 DEF Contexts
<1>4. RowsTyped'
  BY Zenon, <1>1, <1>2 DEF RowsInv, RowsTyped
<1>5. KeysStep /\ TenantsStep /\ OwnerStep /\ RolesStep
  BY Zenon, <1>1, KeysUnchangedFade DEF RowsInv, KeysStep, TenantsStep, OwnerStep, RolesStep
<1>6. GrantsStep
  BY Zenon, <1>1, <1>2, <1>3 DEF GrantsStep
<1>7. MembersRegistered'
  BY Zenon, <1>1, SameMembers
<1> QED BY Zenon, <1>1, <1>4, <1>5, <1>6, <1>7, AccessKept DEF RowsInv, Addressed

LEMMA GrantRevokedKept ==
    ASSUME RowsInv, NEW c, NEW w \in Workspaces, NEW u \in Users, revoke_grant_as(c, w, u)
    PROVE  RowsInv'
<1>1. /\ UNCHANGED <<tenants, accounts, roles, owner, invites, jobs>>
      /\ grants' = [grants EXCEPT ![<<w, u>>] = "none"]
  BY Zenon DEF revoke_grant_as
<1>2. AllFade
  <2>1. UNCHANGED keys \/ \E K : keys' = Revoked(K)
    BY Zenon DEF revoke_grant_as, revoke_matching
  <2> QED BY Zenon, <2>1, RevokedFade, KeysUnchangedFade DEF RowsInv
<1>3. /\ grants' \in [Workspaces \X Users -> WorkspaceRoles \cup {"none"}]
      /\ \A v \in Workspaces, z \in Users : grants'[v, z] \in {grants[v, z], "none"}
  BY Zenon, <1>1 DEF RowsInv, RowsTyped
<1>4. RowsTyped'
  BY Zenon, <1>1, <1>2, <1>3 DEF RowsInv, RowsTyped, AllFade
<1>5. KeysStep /\ TenantsStep /\ OwnerStep /\ RolesStep
  BY Zenon, <1>1, <1>2 DEF KeysStep, TenantsStep, OwnerStep, RolesStep
<1>6. GrantsStep
  BY Zenon, <1>3 DEF GrantsStep
<1>7. MembersRegistered'
  BY Zenon, <1>1, SameMembers
<1> QED BY Zenon, <1>1, <1>4, <1>5, <1>6, <1>7, AccessKept DEF RowsInv, Addressed

-----------------------------------------------------------------------------
(* Deletions. *)

LEMMA WorkspaceDeletedKept ==
    ASSUME RowsInv, NEW w \in Workspaces, delete_workspace(w)
    PROVE  RowsInv'
<1>1. /\ UNCHANGED <<tenants, accounts, roles, invites, jobs>>
      /\ owner' = [owner EXCEPT ![w] = Gone]
      /\ keys' = api_keys_after(keys, {}, {w}, {})
  BY Zenon DEF delete_workspace
<1>2. owner' \in [Workspaces -> Tenants \cup {None, Gone}]
      /\ \A v \in Workspaces : v # w => owner'[v] = owner[v]
  BY <1>1 DEF RowsInv, RowsTyped
<1>3. /\ grants' \in [Workspaces \X Users -> WorkspaceRoles \cup {"none"}]
      /\ \A v \in Workspaces, u \in Users :
           grants'[v, u] \in {grants[v, u], "none"} /\ (v = w => grants'[v, u] = "none")
  BY Zenon DEF delete_workspace, workspace_memberships_after, RowsInv, RowsTyped
<1>4. AllFade
  BY Zenon, <1>1, CascadeFades DEF RowsInv
<1>5. RowsTyped'
  BY Zenon, <1>1, <1>2, <1>3, <1>4 DEF RowsInv, RowsTyped, AllFade
<1>6. KeysStep /\ TenantsStep /\ RolesStep
  BY Zenon, <1>1, <1>4 DEF KeysStep, TenantsStep, RolesStep
<1>7. OwnerStep
  BY Zenon, <1>2, <1>3 DEF OwnerStep
<1>8. GrantsStep
  BY Zenon, <1>3 DEF GrantsStep
<1>9. MembersRegistered'
  BY Zenon, <1>1, SameMembers
<1> QED BY Zenon, <1>1, <1>5, <1>6, <1>7, <1>8, <1>9, AccessKept DEF RowsInv, Addressed

LEMMA UserDeletedKept ==
    ASSUME RowsInv, NEW u \in Users, delete_user_by_operator(u)
    PROVE  RowsInv'
<1>1. /\ UNCHANGED <<tenants, roles, owner, invites, jobs>>
      /\ \A t \in Tenants : roles[t, u] = "none"
      /\ accounts' = [accounts EXCEPT ![u] = "gone"]
      /\ keys' = api_keys_after(Revoked({k \in Keys : keys[k].user = u}), {}, {}, {u})
  BY Zenon DEF delete_user_by_operator
<1>2. /\ accounts' \in [Users -> {"fresh", "password", "oauth", "gone"}]
      /\ \A v \in Users : v # u => accounts'[v] = accounts[v]
  BY Zenon, <1>1 DEF RowsInv, RowsTyped
<1>3. /\ grants' \in [Workspaces \X Users -> WorkspaceRoles \cup {"none"}]
      /\ \A v \in Workspaces, z \in Users : grants'[v, z] \in {grants[v, z], "none"}
  BY Zenon DEF delete_user_by_operator, workspace_memberships_after, RowsInv, RowsTyped
<1>4. AllFade
  BY Zenon, <1>1, DetachedFade DEF RowsInv
<1>5. RowsTyped'
  BY Zenon, <1>1, <1>2, <1>3, <1>4 DEF RowsInv, RowsTyped, AllFade
<1>6. KeysStep /\ TenantsStep /\ RolesStep /\ OwnerStep
  BY Zenon, <1>1, <1>4 DEF KeysStep, TenantsStep, RolesStep, OwnerStep
<1>7. GrantsStep
  BY Zenon, <1>3 DEF GrantsStep
<1>8. MembersRegistered'
  BY Zenon, <1>1, <1>2 DEF RowsInv, MembersRegistered, Registered
<1> QED BY Zenon, <1>1, <1>5, <1>6, <1>7, <1>8, AccessKept DEF RowsInv, Addressed

LEMMA DisabledKept ==
    ASSUME RowsInv, NEW t \in Tenants, disable_in_transaction(t)
    PROVE  RowsInv'
<1>1. /\ UNCHANGED <<accounts, roles, grants, owner, invites>>
      /\ tenants' = [tenants EXCEPT ![t] = "disabled"]
      /\ keys' = Revoked({k \in Keys : keys[k].tenant = t})
      /\ jobs' = cancel_work(t)
  BY Zenon DEF disable_in_transaction, revoke_matching, members
<1>2. /\ tenants' \in [Tenants -> {"fresh", "active", "disabled", "gone"}]
      /\ \A o \in Tenants : o # t => tenants'[o] = tenants[o]
  BY <1>1 DEF RowsInv, RowsTyped
<1>3. /\ AllFade
      /\ \A k \in Keys : keys[k].tenant = t => keys'[k].st # "live"
  BY Zenon, <1>1, RevokedFade DEF RowsInv
<1>4. jobs' \in [Jobs -> JobRows]
  <2>1. ASSUME NEW j \in Jobs PROVE jobs'[j] \in JobRows
    <3>1. jobs[j] \in JobRows
      BY DEF RowsInv, RowsTyped
    <3> QED BY <1>1, <3>1 DEF cancel_work, JobRows
  <2> QED BY <1>1, <2>1 DEF cancel_work
<1>5. RowsTyped'
  BY Zenon, <1>1, <1>2, <1>3, <1>4 DEF RowsInv, RowsTyped, AllFade
<1>6. Closed(t)
  BY Zenon, <1>3 DEF Closed, AllFade, Fades
<1>7. TenantsStep
  BY Zenon, <1>2, <1>6 DEF TenantsStep
<1>8. KeysStep /\ RolesStep /\ OwnerStep /\ GrantsStep
  <2>1. GrantsStep
    BY <1>1 DEF GrantsStep
  <2> QED BY Zenon, <1>1, <1>3, <2>1 DEF KeysStep, RolesStep, OwnerStep
<1>9. MembersRegistered'
  BY Zenon, <1>1, SameMembers
<1> QED BY Zenon, <1>1, <1>5, <1>7, <1>8, <1>9, AccessKept DEF RowsInv, Addressed

(* The foreign keys take everything of the tenant. *)
LEMMA TenantDeletedKept ==
    ASSUME RowsInv, NEW t \in Tenants, delete_tenant_by_operator(t)
    PROVE  RowsInv'
<1>0. /\ tenants[t] = "disabled" /\ tenants' = [tenants EXCEPT ![t] = "gone"]
      /\ UNCHANGED accounts /\ keys' = api_keys_after(keys, {t}, WorkspacesOf(t), {})
  BY Zenon DEF delete_tenant_by_operator
<1>1. /\ tenants' \in [Tenants -> {"fresh", "active", "disabled", "gone"}]
      /\ \A o \in Tenants : tenants[o] = "active" => tenants'[o] = "active"
  BY <1>0 DEF RowsInv, RowsTyped
<1>2. /\ roles' \in [Tenants \X Users -> Roles \cup {"none"}]
      /\ \A o \in Tenants, u \in Users :
           /\ o = t => roles'[o, u] = "none"
           /\ o # t => roles'[o, u] = roles[o, u]
  BY Zenon DEF delete_tenant_by_operator, tenant_memberships_after, RowsInv, RowsTyped
<1>3. /\ owner' \in [Workspaces -> Tenants \cup {None, Gone}]
      /\ \A w \in Workspaces : /\ owner[w] = t => owner'[w] = Gone
                               /\ owner[w] # t => owner'[w] = owner[w]
  BY DEF delete_tenant_by_operator, workspace_workspaces_after, RowsInv, RowsTyped
<1>4. /\ grants' \in [Workspaces \X Users -> WorkspaceRoles \cup {"none"}]
      /\ \A w \in Workspaces, u \in Users :
           /\ grants'[w, u] \in {grants[w, u], "none"}
           /\ owner[w] = t => grants'[w, u] = "none"
  BY Zenon DEF delete_tenant_by_operator, workspace_memberships_after, WorkspacesOf, RowsInv, RowsTyped
<1>5. /\ AllFade
      /\ \A k \in Keys : keys[k].tenant = t => keys'[k].st = "gone"
  <2>1. \A k \in Keys : keys[k].tenant \in {t} \/ keys[k].ws \in WorkspacesOf(t)
                          => keys'[k].st = "gone"
    BY Zenon, <1>0, CascadeFades DEF RowsInv
  <2>2. AllFade
    BY Zenon, <1>0, CascadeFades DEF RowsInv
  <2> QED BY Zenon, <2>1, <2>2
<1>6. InvitesTyped'
  <2>1. ASSUME NEW i \in Invites
        PROVE  /\ invites'[i] \in InviteRows
               /\ invites'[i].st = "open" => invites'[i].tenant \in Tenants
    <3>1. /\ invites[i] \in InviteRows
          /\ invites[i].st = "open" => invites[i].tenant \in Tenants
      BY DEF RowsInv, RowsTyped, Addressed
    <3> QED BY <3>1 DEF delete_tenant_by_operator, workspace_invites_after, InviteRows
  <2>2. invites' \in [Invites -> InviteRows]
    BY <2>1 DEF delete_tenant_by_operator, workspace_invites_after
  <2> QED BY Zenon, <2>1, <2>2 DEF InvitesTyped
<1>7. jobs' \in [Jobs -> JobRows]
  <2>1. ASSUME NEW j \in Jobs PROVE jobs'[j] \in JobRows
    <3>1. jobs[j] \in JobRows
      BY DEF RowsInv, RowsTyped
    <3> QED BY <3>1 DEF delete_tenant_by_operator, JobRows
  <2> QED BY <2>1 DEF delete_tenant_by_operator
<1>8. RowsTyped'
  BY Zenon, <1>0, <1>1, <1>2, <1>3, <1>4, <1>5, <1>6, <1>7
     DEF RowsInv, RowsTyped, AllFade, InvitesTyped
<1>9. \A u \in Users : CutOff(t, u)
  <2>1. \A k \in Keys : keys'[k].st = "live" => keys'[k].tenant # t
    <3>1. "gone" # "live"
      OBVIOUS
    <3> QED BY Zenon, <1>5, <3>1 DEF AllFade, Fades
  <2>2. Gone \notin Tenants
    BY Zenon, DeploymentAssumption, TenancyAssumption
  <2>3. \A w \in Workspaces : owner'[w] # t
    BY Zenon, <1>3, <2>2
  <2> QED BY Zenon, <2>1, <2>3 DEF CutOff
<1>10. KeysStep /\ TenantsStep
  BY Zenon, <1>1, <1>5 DEF KeysStep, TenantsStep
<1>11. RolesStep
  BY Zenon, <1>2, <1>9 DEF RolesStep
<1>12. OwnerStep
  BY Zenon, <1>3, <1>4 DEF OwnerStep
<1>13. GrantsStep
  BY Zenon, <1>4 DEF GrantsStep
<1>14. MembersRegistered'
  BY Zenon, <1>0, <1>2 DEF RowsInv, MembersRegistered, Registered
<1> QED BY Zenon, <1>6, <1>8, <1>10, <1>11, <1>12, <1>13, <1>14, AccessKept
           DEF RowsInv, Addressed, InvitesTyped

-----------------------------------------------------------------------------
(* Accounts, tenants and workspaces that are new. *)

LEMMA NewUser ==
    ASSUME RowsInv, NEW u \in Users, NEW how \in {"password", "oauth"}, create_user(u, how)
    PROVE  /\ accounts[u] = "fresh" /\ \A t \in Tenants : roles[t, u] = "none"
           /\ accounts' \in [Users -> {"fresh", "password", "oauth", "gone"}]
           /\ Registered' = Registered \cup {u}
<1>1. accounts[u] = "fresh" /\ accounts' = [accounts EXCEPT ![u] = how]
  BY Zenon DEF create_user
<1>2. /\ accounts' \in [Users -> {"fresh", "password", "oauth", "gone"}]
      /\ accounts'[u] = how /\ \A v \in Users : v # u => accounts'[v] = accounts[v]
  BY <1>1 DEF RowsInv, RowsTyped
<1>3. u \notin Registered
  BY <1>1 DEF Registered
<1>4. Registered' = Registered \cup {u}
  BY <1>2 DEF Registered
<1> QED BY Zenon, <1>1, <1>2, <1>3, <1>4 DEF RowsInv, MembersRegistered

LEMMA NewTenant ==
    ASSUME RowsInv, NEW t \in Tenants, create_tenant(t)
    PROVE  /\ tenants' \in [Tenants -> {"fresh", "active", "disabled", "gone"}]
           /\ tenants[t] = "fresh"
           /\ \A o \in Tenants : tenants[o] = "active" => tenants'[o] = "active"
BY DEF create_tenant, NextTenant, RowsInv, RowsTyped

LEMMA NewWorkspace ==
    ASSUME RowsInv, NEW w \in Workspaces, NEW t \in Tenants, NextWorkspace(w),
           owner' = [owner EXCEPT ![w] = t]
    PROVE  /\ owner' \in [Workspaces -> Tenants \cup {None, Gone}]
           /\ \A v \in Workspaces : owner'[v] = owner[v] \/ owner[v] = None
BY DEF NextWorkspace, RowsInv, RowsTyped

(* A new account with a role of a tenant. *)
LEMMA NewMember ==
    ASSUME RowsInv, NEW t \in Tenants, NEW u \in Users, NEW x \in Roles,
           NEW how \in {"password", "oauth"}, create_user(u, how),
           roles' = [roles EXCEPT ![<<t, u>>] = x]
    PROVE  /\ roles' \in [Tenants \X Users -> Roles \cup {"none"}]
           /\ \A o \in Tenants, v \in Users : roles[o, v] # "none" => roles'[o, v] # "none"
           /\ \A o \in Tenants, v \in Users : <<o, v>> # <<t, u>> => roles'[o, v] = roles[o, v]
           /\ roles[t, u] = "none"
           /\ MembersRegistered'
<1>1. /\ roles' \in [Tenants \X Users -> Roles \cup {"none"}] /\ roles'[t, u] = x
      /\ \A o \in Tenants, v \in Users : <<o, v>> # <<t, u>> => roles'[o, v] = roles[o, v]
  BY Zenon DEF RowsInv, RowsTyped
<1>2. x # "none"
  BY DEF Roles
<1>3. \A o \in Tenants, v \in Users : roles[o, v] # "none" => roles'[o, v] # "none"
  BY Zenon, <1>1, <1>2
<1>4. Registered' = Registered \cup {u} /\ roles[t, u] = "none"
  BY Zenon, NewUser
<1>5. MembersRegistered'
  BY Zenon, <1>1, <1>4 DEF RowsInv, MembersRegistered
<1> QED BY Zenon, <1>1, <1>3, <1>4, <1>5

LEMMA SignupKept ==
    ASSUME RowsInv, NEW t \in Tenants, NEW u \in Users, signup_account(t, u)
    PROVE  RowsInv'
<1>1. /\ create_tenant(t) /\ create_user(u, "password")
      /\ roles' = [roles EXCEPT ![<<t, u>>] = "owner"]
      /\ UNCHANGED <<owner, grants, keys, invites, jobs>>
  BY Zenon DEF signup_account, register_member
<1>2. "owner" \in Roles
  BY DEF Roles
<1>3. InvitesTyped'
  BY Zenon, <1>1, SameInvites
<1> QED BY Zenon, <1>1, <1>2, <1>3, NewTenant, NewUser, NewMember, GrowthKept
           DEF RowsInv, RowsTyped

LEMMA FirstAccountKept ==
    ASSUME RowsInv, NEW t \in Tenants, NEW w \in Workspaces, NEW u \in Users,
           setup_first_account(t, w, u) \/ find_or_create(t, w, u)
    PROVE  RowsInv'
<1>1. PICK how \in {"password", "oauth"} : create_user(u, how)
  BY Zenon DEF setup_first_account, find_or_create, register_member
<1>2. /\ create_tenant(t) /\ roles' = [roles EXCEPT ![<<t, u>>] = "owner"]
      /\ NextWorkspace(w) /\ owner' = [owner EXCEPT ![w] = t]
      /\ UNCHANGED <<grants, keys, invites, jobs>>
  BY Zenon DEF setup_first_account, find_or_create, register_member
<1>3. "owner" \in Roles
  BY DEF Roles
<1>4. InvitesTyped'
  BY Zenon, <1>2, SameInvites
<1>5. /\ tenants' \in [Tenants -> {"fresh", "active", "disabled", "gone"}]
      /\ \A o \in Tenants : tenants[o] = "active" => tenants'[o] = "active"
  BY Zenon, <1>2, NewTenant
<1>6. accounts' \in [Users -> {"fresh", "password", "oauth", "gone"}]
  BY Zenon, <1>1, NewUser
<1>7. /\ owner' \in [Workspaces -> Tenants \cup {None, Gone}]
      /\ \A v \in Workspaces : owner'[v] = owner[v] \/ owner[v] = None
  BY Zenon, <1>2, NewWorkspace
<1>8. /\ roles' \in [Tenants \X Users -> Roles \cup {"none"}]
      /\ \A o \in Tenants, v \in Users : roles[o, v] # "none" => roles'[o, v] # "none"
      /\ MembersRegistered'
  BY Zenon, <1>1, <1>2, <1>3, NewMember
<1>9. jobs' \in [Jobs -> JobRows] /\ UNCHANGED <<grants, keys>>
  BY Zenon, <1>2 DEF RowsInv, RowsTyped
<1> QED BY Zenon, <1>4, <1>5, <1>6, <1>7, <1>8, <1>9, GrowthKept

LEMMA WorkspaceCreatedKept ==
    ASSUME RowsInv, NEW w \in Workspaces, NEW t \in Tenants, NEW q, create_workspace(w, t, q)
    PROVE  RowsInv'
<1>1. /\ NextWorkspace(w) /\ owner' = [owner EXCEPT ![w] = t]
      /\ UNCHANGED <<tenants, accounts, roles, grants, keys, invites, jobs>>
  BY Zenon DEF create_workspace, members
<1>2. InvitesTyped' /\ MembersRegistered'
  BY Zenon, <1>1, SameInvites, SameMembers
<1> QED BY Zenon, <1>1, <1>2, NewWorkspace, GrowthKept DEF RowsInv, RowsTyped

LEMMA TenantCreatedKept ==
    ASSUME RowsInv, NEW t \in Tenants, create_tenant(t),
           UNCHANGED <<accounts, roles, owner, grants, keys, invites, jobs>>
    PROVE  RowsInv'
<1>1. InvitesTyped' /\ MembersRegistered'
  BY Zenon, SameInvites, SameMembers
<1> QED BY Zenon, <1>1, NewTenant, GrowthKept DEF RowsInv, RowsTyped

LEMMA UserCreatedKept ==
    ASSUME RowsInv, NEW u \in Users, create_user(u, "password"),
           UNCHANGED <<tenants, roles, owner, grants, keys, invites, jobs>>
    PROVE  RowsInv'
<1>1. /\ accounts' \in [Users -> {"fresh", "password", "oauth", "gone"}]
      /\ Registered' = Registered \cup {u}
  BY Zenon, NewUser
<1>2. InvitesTyped'
  BY Zenon, SameInvites
<1>3. MembersRegistered'
  BY Zenon, <1>1 DEF RowsInv, MembersRegistered
<1> QED BY Zenon, <1>1, <1>2, <1>3, GrowthKept DEF RowsInv, RowsTyped

LEMMA CapKept ==
    ASSUME RowsInv, UNCHANGED <<tenants, accounts, roles, grants, owner, keys, invites, jobs>>
    PROVE  RowsInv'
<1>1. jobs' \in [Jobs -> JobRows]
  BY Zenon DEF RowsInv, RowsTyped
<1> QED BY Zenon, <1>1, JobsOnlyKept

-----------------------------------------------------------------------------
(* Invites. *)

LEMMA InviteCreatedKept ==
    ASSUME RowsInv, NEW i \in Invites, NEW t \in Tenants, NEW u \in Users, NEW x \in Roles,
           NEW e \in Int, create_invite(i, t, Email[u], x, e)
    PROVE  RowsInv'
<1> DEFINE n == [st |-> "open", tenant |-> t, to |-> Email[u], role |-> x,
                 expires |-> e, token |-> 1]
<1>1. invites' = [invites EXCEPT ![i] = n] /\ InviteVarsOnly
  BY Zenon DEF create_invite
<1>2. n \in InviteRows /\ n.tenant = t
  BY DEF InviteRows
<1> HIDE DEF n
<1>3. /\ invites' \in [Invites -> InviteRows] /\ invites'[i] = n
      /\ \A j \in Invites : j # i => invites'[j] = invites[j]
  BY <1>1, <1>2 DEF RowsInv, RowsTyped
<1>4. InvitesTyped'
  BY Zenon, <1>2, <1>3 DEF InvitesTyped, RowsInv, Addressed
<1> QED BY Zenon, <1>1, <1>4, InvitesOnlyKept

(* An update of an invite's row that leaves its tenant and does not reopen it. *)
LEMMA InviteRowKept ==
    ASSUME RowsInv, NEW i \in Invites, NEW n \in InviteRows, n.tenant = invites[i].tenant,
           n.st = "open" => invites[i].st = "open", invites' = [invites EXCEPT ![i] = n]
    PROVE  InvitesTyped'
<1>1. /\ invites' \in [Invites -> InviteRows] /\ invites'[i] = n
      /\ \A j \in Invites : j # i => invites'[j] = invites[j]
  BY DEF RowsInv, RowsTyped
<1> QED BY Zenon, <1>1 DEF InvitesTyped, RowsInv, Addressed

LEMMA InviteRevokedKept ==
    ASSUME RowsInv, now \in Int, NEW c, NEW i \in Invites, revoke_invite_as(c, i)
    PROVE  RowsInv'
<1> DEFINE n == [invites[i] EXCEPT !.expires = Smaller(now, @)]
<1>1. invites' = [invites EXCEPT ![i].expires = Smaller(now, @)] /\ InviteVarsOnly
  BY Zenon DEF revoke_invite_as
<1>2. invites[i] \in InviteRows
  BY DEF RowsInv, RowsTyped
<1>3. n \in InviteRows /\ n.tenant = invites[i].tenant /\ n.st = invites[i].st
  BY <1>2 DEF InviteRows, Smaller
<1>4. invites' = [invites EXCEPT ![i] = n]
  BY <1>1 DEF RowsInv, RowsTyped
<1> HIDE DEF n
<1>5. InvitesTyped'
  BY Zenon, <1>3, <1>4, InviteRowKept
<1> QED BY Zenon, <1>1, <1>5, InvitesOnlyKept

LEMMA InviteReissuedKept ==
    ASSUME RowsInv, NEW c, NEW i \in Invites, NEW e \in Int, reissue_invite_as(c, i, e)
    PROVE  RowsInv'
<1> DEFINE g == invites[i].token + 1
           n == [invites[i] EXCEPT !.expires = e, !.token = g]
<1>1. invites' = [invites EXCEPT ![i].expires = e, ![i].token = @ + 1] /\ InviteVarsOnly
  BY Zenon DEF reissue_invite_as
<1>2. invites[i] \in InviteRows
  BY DEF RowsInv, RowsTyped
<1>0. g \in Int
  BY <1>2 DEF InviteRows
<1>3. n \in InviteRows /\ n.tenant = invites[i].tenant /\ n.st = invites[i].st
  <2> HIDE DEF g
  <2> QED BY Zenon, <1>0, <1>2 DEF InviteRows
<1>4. invites' = [invites EXCEPT ![i] = n]
  BY Zenon, <1>1 DEF RowsInv, RowsTyped
<1> HIDE DEF n
<1>5. InvitesTyped'
  BY Zenon, <1>3, <1>4, InviteRowKept
<1> QED BY Zenon, <1>1, <1>5, InvitesOnlyKept

LEMMA Redeemed ==
    ASSUME RowsInv, NEW i \in Invites, NEW g, redeem_invite_at(i, g)
    PROVE  InvitesTyped' /\ invites[i].tenant \in Tenants /\ invites[i].role \in Roles
<1> DEFINE n == [invites[i] EXCEPT !.st = "used"]
<1>1. invites' = [invites EXCEPT ![i].st = "used"] /\ invites[i].st = "open"
  BY Zenon DEF redeem_invite_at
<1>2. invites[i] \in InviteRows
  BY DEF RowsInv, RowsTyped
<1>3. n \in InviteRows /\ n.tenant = invites[i].tenant /\ n.st = "used"
  BY <1>2 DEF InviteRows
<1>4. invites' = [invites EXCEPT ![i] = n]
  BY <1>1 DEF RowsInv, RowsTyped
<1>5. invites[i].tenant \in Tenants /\ invites[i].role \in Roles
  BY <1>1, <1>2 DEF InviteRows, RowsInv, Addressed
<1> HIDE DEF n
<1>6. n.st # "open"
  BY <1>3
<1> QED BY Zenon, <1>3, <1>4, <1>5, <1>6, InviteRowKept

LEMMA AcceptKept ==
    ASSUME RowsInv, NEW i \in Invites, NEW g, NEW u \in Users, accept_in_transaction(i, g, u)
    PROVE  RowsInv'
<1>1. /\ redeem_invite_at(i, g) /\ add_member(invites[i].tenant, u, invites[i].role)
      /\ UNCHANGED <<tenants, accounts, owner, grants, keys, jobs>>
  BY Zenon DEF accept_in_transaction
<1>2. InvitesTyped' /\ invites[i].tenant \in Tenants /\ invites[i].role \in Roles
  BY Zenon, <1>1, Redeemed
<1> QED BY Zenon, <1>1, <1>2, MemberAddedKept

LEMMA RegisterKept ==
    ASSUME RowsInv, NEW i \in Invites, NEW g, NEW u \in Users, register_user(i, g, u)
    PROVE  RowsInv'
<1>1. /\ redeem_invite_at(i, g) /\ create_user(u, "password")
      /\ roles' = [roles EXCEPT ![<<invites[i].tenant, u>>] = invites[i].role]
      /\ UNCHANGED <<tenants, owner, grants, keys, jobs>>
  BY Zenon DEF register_user, register_member
<1>2. InvitesTyped' /\ invites[i].tenant \in Tenants /\ invites[i].role \in Roles
  BY Zenon, <1>1, Redeemed
<1> QED BY Zenon, <1>1, <1>2, NewUser, NewMember, GrowthKept DEF RowsInv, RowsTyped

-----------------------------------------------------------------------------
(* The operations a request's handler ends with, REST and MCP alike. *)
RequestOp(c) ==
    \/ \E u \in Users, x \in Roles : update_member_access(c, u, x)
    \/ \E u \in Users : remove_member_as(c, u)
    \/ \E u \in Users : transfer_ownership(c, u)
    \/ \E i \in Invites, u \in Users, x \in Roles, e \in Int : create_invite_as(i, c, Email[u], x, e)
    \/ \E i \in Invites : revoke_invite_as(c, i)
    \/ \E i \in Invites, e \in Int : reissue_invite_as(c, i, e)
    \/ \E i \in Invites, g \in Int : accept_authenticated_user(c, i, g)
    \/ \E k \in Keys, s \in Int, a \in BOOLEAN, e \in Int :
           \/ create_delegated_tenant_api_key(k, c, s, a, e)
           \/ create_delegated_api_key(k, c, s, a, e)
    \/ \E k \in Keys : revoke_for_tenant(c, k)
    \/ \E k, old \in Keys : rotate(k, c, old)
    \/ \E w \in Workspaces : create_workspace_in_context(w, c)
    \/ \E w \in Workspaces : delete_workspace_as(c, w)
    \/ \E w \in Workspaces, u \in Users, x \in WorkspaceRoles : grant_as(c, w, u, x)
    \/ \E w \in Workspaces, u \in Users : revoke_grant_as(c, w, u)
    \/ \E cap \in Nat : update_tenant_as(c, cap)
    \/ disable_as(c)

LEMMA RequestOpKept ==
    ASSUME RowsInv, now \in Int, NEW c \in Contexts, c # None, RequestOp(c)
    PROVE  RowsInv'
<1>0. c.tenant \in Tenants /\ c.ws \in Workspaces /\ c.user \in Users \cup {None} /\ c.key \in Keys
  BY DEF Contexts
<1>1. ASSUME NEW u \in Users, NEW x \in Roles, update_member_access(c, u, x) PROVE RowsInv'
  BY Zenon, <1>0, <1>1, MemberAddedKept, SameInvites DEF update_member_access
<1>2. ASSUME NEW u \in Users, remove_member_as(c, u) PROVE RowsInv'
  BY Zenon, <1>0, <1>2, RemovalKept DEF remove_member_as
<1>3. ASSUME NEW u \in Users, transfer_ownership(c, u) PROVE RowsInv'
  BY Zenon, <1>3, TransferKept
<1>4. ASSUME NEW i \in Invites, NEW u \in Users, NEW x \in Roles, NEW e \in Int,
             create_invite_as(i, c, Email[u], x, e)
      PROVE  RowsInv'
  BY Zenon, <1>0, <1>4, InviteCreatedKept DEF create_invite_as
<1>5. ASSUME NEW i \in Invites, revoke_invite_as(c, i) PROVE RowsInv'
  BY Zenon, <1>5, InviteRevokedKept
<1>6. ASSUME NEW i \in Invites, NEW e \in Int, reissue_invite_as(c, i, e) PROVE RowsInv'
  BY Zenon, <1>6, InviteReissuedKept
<1>7. ASSUME NEW i \in Invites, NEW g \in Int, accept_authenticated_user(c, i, g) PROVE RowsInv'
  BY Zenon, <1>0, <1>7, AcceptKept DEF accept_authenticated_user
<1>8. ASSUME NEW k \in Keys, NEW s \in Int, NEW a \in BOOLEAN, NEW e \in Int,
             create_delegated_tenant_api_key(k, c, s, a, e) \/ create_delegated_api_key(k, c, s, a, e)
      PROVE  RowsInv'
  <2>1. CASE create_delegated_tenant_api_key(k, c, s, a, e)
    BY Zenon, <2>1, DelegatedTenantKeyIssued, KeysOnlyKept DEF create_delegated_tenant_api_key
  <2>2. CASE create_delegated_api_key(k, c, s, a, e)
    BY Zenon, <1>0, <2>2, NamedKeyIssued, KeysOnlyKept
       DEF create_delegated_api_key, create_named_api_key
  <2> QED BY <1>8, <2>1, <2>2
<1>9. ASSUME NEW k \in Keys, revoke_for_tenant(c, k) PROVE RowsInv'
  BY Zenon, <1>9, RevokedFade, KeysOnlyKept DEF revoke_for_tenant, delete_for_tenant, KeysStep, RowsInv
<1>10. ASSUME NEW k \in Keys, NEW old \in Keys, rotate(k, c, old) PROVE RowsInv'
  BY Zenon, <1>10, RotatedKeyIssued, KeysOnlyKept DEF rotate
<1>11. ASSUME NEW w \in Workspaces, create_workspace_in_context(w, c) PROVE RowsInv'
  BY Zenon, <1>0, <1>11, WorkspaceCreatedKept DEF create_workspace_in_context
<1>12. ASSUME NEW w \in Workspaces, delete_workspace_as(c, w) PROVE RowsInv'
  BY Zenon, <1>12, WorkspaceDeletedKept DEF delete_workspace_as
<1>13. ASSUME NEW w \in Workspaces, NEW u \in Users, NEW x \in WorkspaceRoles, grant_as(c, w, u, x)
       PROVE  RowsInv'
  BY Zenon, <1>13, GrantKept
<1>14. ASSUME NEW w \in Workspaces, NEW u \in Users, revoke_grant_as(c, w, u) PROVE RowsInv'
  BY Zenon, <1>14, GrantRevokedKept
<1>15. ASSUME NEW cap \in Nat, update_tenant_as(c, cap) PROVE RowsInv'
  BY Zenon, <1>15, CapKept DEF update_tenant_as, members
<1>16. ASSUME disable_as(c) PROVE RowsInv'
  BY Zenon, <1>0, <1>16, DisabledKept DEF disable_as
<1> QED BY Zenon, <1>1, <1>2, <1>3, <1>4, <1>5, <1>6, <1>7, <1>8, <1>9, <1>10, <1>11, <1>12,
           <1>13, <1>14, <1>15, <1>16 DEF RequestOp

-----------------------------------------------------------------------------
(* Every step is a request's operation, another operation of the store, or
   leaves every row but the queued work as it is. *)
LEMMA InputsTyped ==
    /\ \A x \in RolesGiven : x \in Roles
    /\ \A x \in RolesGiven \cap WorkspaceRoles : x \in WorkspaceRoles
    /\ \A n \in ScopesGiven : n \in Int
    /\ \A e \in Expiries : e \in Int
    /\ \A e \in Expiry : e \in Int
    /\ \A n \in CapsGiven : n \in Nat
BY TenancyAssumption, ApiAssumption DEF Scopes, Expiry, Never

Finished(r) == req' = [req EXCEPT ![r] = None] /\ UNCHANGED <<now, pend>>

LEMMA RestIsRequest ==
    ASSUME TenancyInv, NEW r \in Requests, RestNext(r)
    PROVE  RequestOp(req[r]) /\ Finished(r)
<1>0. \A i \in Invites : invites[i].token \in Int
  BY DEF TenancyInv, RowsInv, RowsTyped, InviteRows
<1>1. ASSUME NEW u \in Users, NEW x \in RolesGiven, RestAddMember(r, u, x)
      PROVE  RequestOp(req[r]) /\ Finished(r)
  BY Zenon, <1>0, <1>1, InputsTyped DEF RestAddMember, Ends, Finished, RequestOp
<1>2. ASSUME NEW u \in Users, RestRemoveMember(r, u)
      PROVE  RequestOp(req[r]) /\ Finished(r)
  BY Zenon, <1>0, <1>2, InputsTyped DEF RestRemoveMember, Ends, Finished, RequestOp
<1>3. ASSUME NEW u \in Users, RestTransferOwnership(r, u)
      PROVE  RequestOp(req[r]) /\ Finished(r)
  BY Zenon, <1>0, <1>3, InputsTyped DEF RestTransferOwnership, Ends, Finished, RequestOp
<1>4. ASSUME NEW i \in Invites, NEW u \in Users, NEW x \in RolesGiven, NEW e \in Expiries, RestCreateInvite(r, i, Email[u], x, e)
      PROVE  RequestOp(req[r]) /\ Finished(r)
  BY Zenon, <1>0, <1>4, InputsTyped DEF RestCreateInvite, Ends, Finished, RequestOp
<1>5. ASSUME NEW i \in Invites, RestRevokeInvite(r, i)
      PROVE  RequestOp(req[r]) /\ Finished(r)
  BY Zenon, <1>0, <1>5, InputsTyped DEF RestRevokeInvite, Ends, Finished, RequestOp
<1>6. ASSUME NEW i \in Invites, NEW e \in Expiries, RestReissueInvite(r, i, e)
      PROVE  RequestOp(req[r]) /\ Finished(r)
  BY Zenon, <1>0, <1>6, InputsTyped DEF RestReissueInvite, Ends, Finished, RequestOp
<1>7. ASSUME NEW i \in Invites, RestAcceptInvite(r, i)
      PROVE  RequestOp(req[r]) /\ Finished(r)
  BY Zenon, <1>0, <1>7, InputsTyped DEF RestAcceptInvite, Ends, Finished, RequestOp
<1>8. ASSUME NEW k \in Keys, NEW b \in BOOLEAN, NEW a \in BOOLEAN, NEW s \in ScopesGiven, NEW e \in Expiry, RestCreateKey(r, k, b, s, a, e)
      PROVE  RequestOp(req[r]) /\ Finished(r)
  BY Zenon, <1>0, <1>8, InputsTyped DEF RestCreateKey, Ends, Finished, RequestOp
<1>9. ASSUME NEW k \in Keys, RestRevokeKey(r, k)
      PROVE  RequestOp(req[r]) /\ Finished(r)
  BY Zenon, <1>0, <1>9, InputsTyped DEF RestRevokeKey, Ends, Finished, RequestOp
<1>10. ASSUME NEW k \in Keys, NEW old \in Keys, RestRotateKey(r, k, old)
       PROVE  RequestOp(req[r]) /\ Finished(r)
  BY Zenon, <1>0, <1>10, InputsTyped DEF RestRotateKey, Ends, Finished, RequestOp
<1>11. ASSUME NEW w \in Workspaces, RestCreateWorkspace(r, w)
       PROVE  RequestOp(req[r]) /\ Finished(r)
  BY Zenon, <1>0, <1>11, InputsTyped DEF RestCreateWorkspace, Ends, Finished, RequestOp
<1>12. ASSUME NEW w \in Workspaces, RestDeleteWorkspace(r, w)
       PROVE  RequestOp(req[r]) /\ Finished(r)
  BY Zenon, <1>0, <1>12, InputsTyped DEF RestDeleteWorkspace, Ends, Finished, RequestOp
<1>13. ASSUME NEW w \in Workspaces, NEW u \in Users, NEW x \in RolesGiven \cap WorkspaceRoles, RestGrantMember(r, w, u, x)
       PROVE  RequestOp(req[r]) /\ Finished(r)
  BY Zenon, <1>0, <1>13, InputsTyped DEF RestGrantMember, Ends, Finished, RequestOp
<1>14. ASSUME NEW w \in Workspaces, NEW u \in Users, RestRevokeMember(r, w, u)
       PROVE  RequestOp(req[r]) /\ Finished(r)
  BY Zenon, <1>0, <1>14, InputsTyped DEF RestRevokeMember, Ends, Finished, RequestOp
<1>15. ASSUME NEW cap \in CapsGiven, RestUpdateTenant(r, cap)
       PROVE  RequestOp(req[r]) /\ Finished(r)
  BY Zenon, <1>0, <1>15, InputsTyped DEF RestUpdateTenant, Ends, Finished, RequestOp
<1>16. ASSUME RestDisableTenant(r)
       PROVE  RequestOp(req[r]) /\ Finished(r)
  BY Zenon, <1>0, <1>16, InputsTyped DEF RestDisableTenant, Ends, Finished, RequestOp
<1> QED BY Zenon, <1>1, <1>2, <1>3, <1>4, <1>5, <1>6, <1>7, <1>8, <1>9, <1>10, <1>11, <1>12, <1>13, <1>14, <1>15, <1>16 DEF RestNext

LEMMA McpIsRequest ==
    ASSUME TenancyInv, NEW r \in Requests, McpNext(r)
    PROVE  RequestOp(req[r]) /\ Finished(r)
<1>0. \A i \in Invites : invites[i].token \in Int
  BY DEF TenancyInv, RowsInv, RowsTyped, InviteRows
<1>1. ASSUME NEW u \in Users, NEW x \in RolesGiven, McpSetMemberRole(r, u, x)
      PROVE  RequestOp(req[r]) /\ Finished(r)
  BY Zenon, <1>0, <1>1, InputsTyped DEF McpSetMemberRole, Ends, Finished, RequestOp
<1>2. ASSUME NEW u \in Users, McpRemoveMember(r, u)
      PROVE  RequestOp(req[r]) /\ Finished(r)
  BY Zenon, <1>0, <1>2, InputsTyped DEF McpRemoveMember, Ends, Finished, RequestOp
<1>3. ASSUME NEW u \in Users, McpTransferOwnership(r, u)
      PROVE  RequestOp(req[r]) /\ Finished(r)
  BY Zenon, <1>0, <1>3, InputsTyped DEF McpTransferOwnership, Ends, Finished, RequestOp
<1>4. ASSUME NEW i \in Invites, NEW u \in Users, NEW x \in RolesGiven, NEW e \in Expiries, McpCreateInvite(r, i, Email[u], x, e)
      PROVE  RequestOp(req[r]) /\ Finished(r)
  BY Zenon, <1>0, <1>4, InputsTyped DEF McpCreateInvite, Ends, Finished, RequestOp
<1>5. ASSUME NEW i \in Invites, McpRevokeInvite(r, i)
      PROVE  RequestOp(req[r]) /\ Finished(r)
  BY Zenon, <1>0, <1>5, InputsTyped DEF McpRevokeInvite, Ends, Finished, RequestOp
<1>6. ASSUME NEW i \in Invites, NEW e \in Expiries, McpReissueInvite(r, i, e)
      PROVE  RequestOp(req[r]) /\ Finished(r)
  BY Zenon, <1>0, <1>6, InputsTyped DEF McpReissueInvite, Ends, Finished, RequestOp
<1>7. ASSUME NEW i \in Invites, McpAcceptInvite(r, i)
      PROVE  RequestOp(req[r]) /\ Finished(r)
  BY Zenon, <1>0, <1>7, InputsTyped DEF McpAcceptInvite, Ends, Finished, RequestOp
<1>8. ASSUME NEW k \in Keys, NEW b \in BOOLEAN, NEW a \in BOOLEAN, NEW s \in ScopesGiven, NEW e \in Expiry, McpCreateKey(r, k, b, s, a, e)
      PROVE  RequestOp(req[r]) /\ Finished(r)
  BY Zenon, <1>0, <1>8, InputsTyped DEF McpCreateKey, Ends, Finished, RequestOp
<1>9. ASSUME NEW k \in Keys, McpRevokeKey(r, k)
      PROVE  RequestOp(req[r]) /\ Finished(r)
  BY Zenon, <1>0, <1>9, InputsTyped DEF McpRevokeKey, Ends, Finished, RequestOp
<1>10. ASSUME NEW k \in Keys, NEW old \in Keys, McpRotateKey(r, k, old)
       PROVE  RequestOp(req[r]) /\ Finished(r)
  BY Zenon, <1>0, <1>10, InputsTyped DEF McpRotateKey, Ends, Finished, RequestOp
<1>11. ASSUME NEW w \in Workspaces, McpCreateWorkspace(r, w)
       PROVE  RequestOp(req[r]) /\ Finished(r)
  BY Zenon, <1>0, <1>11, InputsTyped DEF McpCreateWorkspace, Ends, Finished, RequestOp
<1>12. ASSUME NEW w \in Workspaces, McpDeleteWorkspace(r, w)
       PROVE  RequestOp(req[r]) /\ Finished(r)
  BY Zenon, <1>0, <1>12, InputsTyped DEF McpDeleteWorkspace, Ends, Finished, RequestOp
<1>13. ASSUME NEW w \in Workspaces, NEW u \in Users, NEW x \in RolesGiven \cap WorkspaceRoles, McpGrantMember(r, w, u, x)
       PROVE  RequestOp(req[r]) /\ Finished(r)
  BY Zenon, <1>0, <1>13, InputsTyped DEF McpGrantMember, Ends, Finished, RequestOp
<1>14. ASSUME NEW w \in Workspaces, NEW u \in Users, McpRevokeMember(r, w, u)
       PROVE  RequestOp(req[r]) /\ Finished(r)
  BY Zenon, <1>0, <1>14, InputsTyped DEF McpRevokeMember, Ends, Finished, RequestOp
<1>15. ASSUME NEW cap \in CapsGiven, McpUpdateTenant(r, cap)
       PROVE  RequestOp(req[r]) /\ Finished(r)
  BY Zenon, <1>0, <1>15, InputsTyped DEF McpUpdateTenant, Ends, Finished, RequestOp
<1>16. ASSUME McpDisableTenant(r)
       PROVE  RequestOp(req[r]) /\ Finished(r)
  BY Zenon, <1>0, <1>16, InputsTyped DEF McpDisableTenant, Ends, Finished, RequestOp
<1> QED BY Zenon, <1>1, <1>2, <1>3, <1>4, <1>5, <1>6, <1>7, <1>8, <1>9, <1>10, <1>11, <1>12, <1>13, <1>14, <1>15, <1>16 DEF McpNext

(* A read answers and changes no row. *)
LEMMA ReadAnswers ==
    ASSUME NEW r \in Requests, ReadNext(r)
    PROVE  UNCHANGED store /\ Finished(r)
<1>1. ASSUME NEW ids, Answers(r, ids) PROVE UNCHANGED store /\ Finished(r)
  BY Zenon, <1>1 DEF Answers, Finished
<1>2. ASSUME \/ RestListMembers(r) \/ McpListMembers(r) \/ RestListInvites(r) \/ McpListInvites(r)
             \/ RestListKeys(r) \/ McpListKeys(r) \/ RestListWorkspaces(r) \/ McpListWorkspaces(r)
      PROVE  UNCHANGED store /\ Finished(r)
  BY Zenon, <1>1, <1>2 DEF RestListMembers, McpListMembers, RestListInvites, McpListInvites,
     RestListKeys, McpListKeys, RestListWorkspaces, McpListWorkspaces
<1>3. ASSUME RestInventory(r) \/ McpInventory(r) \/ McpDiscoverWorkspaces(r) \/ McpWhoami(r)
      PROVE  UNCHANGED store /\ Finished(r)
  BY Zenon, <1>1, <1>3 DEF RestInventory, McpInventory, McpDiscoverWorkspaces, McpWhoami
<1>4. ASSUME NEW w \in Workspaces, \/ RestGetWorkspace(r, w) \/ McpGetWorkspace(r, w)
                                   \/ RestListWorkspaceMembers(r, w) \/ McpListWorkspaceMembers(r, w)
      PROVE  UNCHANGED store /\ Finished(r)
  BY Zenon, <1>1, <1>4 DEF RestGetWorkspace, McpGetWorkspace, RestListWorkspaceMembers,
     McpListWorkspaceMembers
<1>5. ASSUME NEW u \in Users, RestPreviewRemoval(r, u) \/ McpPreviewRemoval(r, u)
      PROVE  UNCHANGED store /\ Finished(r)
  BY Zenon, <1>1, <1>5 DEF RestPreviewRemoval, McpPreviewRemoval
<1>6. ASSUME NEW u \in Users, NEW x \in RolesGiven,
             RestPreviewRoleChange(r, u, x) \/ McpPreviewRoleChange(r, u, x)
      PROVE  UNCHANGED store /\ Finished(r)
  BY Zenon, <1>1, <1>6 DEF RestPreviewRoleChange, McpPreviewRoleChange
<1> QED BY Zenon, <1>2, <1>3, <1>4, <1>5, <1>6 DEF ReadNext

-----------------------------------------------------------------------------
(* The operations of public handlers and of the operator's tasks. *)
OtherOp ==
    \/ \E t \in Tenants, w \in Workspaces, u \in Users :
           setup_first_account(t, w, u) \/ find_or_create(t, w, u)
    \/ \E t \in Tenants, u \in Users : signup_account(t, u)
    \/ \E i \in Invites, g \in Int, u \in Users : register_user(i, g, u) \/ accept_in_transaction(i, g, u)
    \/ \E k \in Keys, w \in Workspaces, s \in Int, u \in Users \cup {None}, a \in BOOLEAN :
           create_api_key(k, w, s, u, a)
    \/ \E k \in Keys, t \in Tenants, s \in Int, u \in Users \cup {None}, a \in BOOLEAN :
           create_tenant_api_key(k, t, s, u, a)
    \/ \E t \in Tenants, u \in Users, x \in Roles :
           /\ add_member(t, u, x)
           /\ UNCHANGED <<tenants, caps, accounts, owner, grants, keys, invites, jobs>>
    \/ \E k \in Keys : delete_for_tenant(keys[k].tenant, k)
    \/ \E i \in Invites, t \in Tenants, u \in Users, x \in Roles, e \in Int :
           create_invite(i, t, Email[u], x, e)
    \/ \E t \in Tenants : /\ create_tenant(t)
                          /\ UNCHANGED <<accounts, roles, owner, grants, keys, invites, jobs>>
    \/ \E u \in Users : /\ create_user(u, "password")
                        /\ UNCHANGED <<tenants, caps, roles, owner, grants, keys, invites, jobs>>
    \/ \E w \in Workspaces, t \in Tenants, q \in Nat : create_workspace(w, t, q)
    \/ \E t \in Tenants : disable_in_transaction(t) \/ delete_tenant_by_operator(t)
    \/ \E u \in Users : delete_user_by_operator(u)

LEMMA OtherOpKept ==
    ASSUME RowsInv, OtherOp
    PROVE  RowsInv'
<1>1. ASSUME NEW t \in Tenants, NEW w \in Workspaces, NEW u \in Users,
             setup_first_account(t, w, u) \/ find_or_create(t, w, u)
      PROVE  RowsInv'
  BY Zenon, <1>1, FirstAccountKept
<1>2. ASSUME NEW t \in Tenants, NEW u \in Users, signup_account(t, u) PROVE RowsInv'
  BY Zenon, <1>2, SignupKept
<1>3. ASSUME NEW i \in Invites, NEW g \in Int, NEW u \in Users,
             register_user(i, g, u) \/ accept_in_transaction(i, g, u)
      PROVE  RowsInv'
  BY Zenon, <1>3, RegisterKept, AcceptKept
<1>4. ASSUME NEW k \in Keys, NEW w \in Workspaces, NEW s \in Int, NEW u \in Users \cup {None},
             NEW a \in BOOLEAN, create_api_key(k, w, s, u, a)
      PROVE  RowsInv'
  <2>1. Never \in Int
    BY DEF Never
  <2>2. create_named_api_key(k, w, s, u, a, None, Never)
    BY Zenon, <1>4 DEF create_api_key
  <2>3. None \in Contexts \cup {None}
    OBVIOUS
  <2>4. KeysStep
    BY Zenon, <2>1, <2>2, <2>3, NamedKeyIssued
  <2>5. KeyVarsOnly
    BY Zenon, <2>2 DEF create_named_api_key
  <2> QED BY Zenon, <2>4, <2>5, KeysOnlyKept
<1>5. ASSUME NEW k \in Keys, NEW t \in Tenants, NEW s \in Int, NEW u \in Users \cup {None},
             NEW a \in BOOLEAN, create_tenant_api_key(k, t, s, u, a)
      PROVE  RowsInv'
  BY Zenon, <1>5, TenantKeyIssued, KeysOnlyKept DEF create_tenant_api_key
<1>6. ASSUME NEW t \in Tenants, NEW u \in Users, NEW x \in Roles, add_member(t, u, x),
             UNCHANGED <<tenants, caps, accounts, owner, grants, keys, invites, jobs>>
      PROVE  RowsInv'
  BY Zenon, <1>6, MemberAddedKept, SameInvites
<1>7. ASSUME NEW k \in Keys, delete_for_tenant(keys[k].tenant, k) PROVE RowsInv'
  BY Zenon, <1>7, RevokedFade, KeysOnlyKept DEF delete_for_tenant, KeysStep, RowsInv
<1>8. ASSUME NEW i \in Invites, NEW t \in Tenants, NEW u \in Users, NEW x \in Roles, NEW e \in Int,
             create_invite(i, t, Email[u], x, e)
      PROVE  RowsInv'
  BY Zenon, <1>8, InviteCreatedKept
<1>9. ASSUME NEW t \in Tenants, create_tenant(t),
             UNCHANGED <<accounts, roles, owner, grants, keys, invites, jobs>>
      PROVE  RowsInv'
  BY Zenon, <1>9, TenantCreatedKept
<1>10. ASSUME NEW u \in Users, create_user(u, "password"),
              UNCHANGED <<tenants, caps, roles, owner, grants, keys, invites, jobs>>
       PROVE  RowsInv'
  BY Zenon, <1>10, UserCreatedKept
<1>11. ASSUME NEW w \in Workspaces, NEW t \in Tenants, NEW q \in Nat, create_workspace(w, t, q)
       PROVE  RowsInv'
  BY Zenon, <1>11, WorkspaceCreatedKept
<1>12. ASSUME NEW t \in Tenants, disable_in_transaction(t) \/ delete_tenant_by_operator(t)
       PROVE  RowsInv'
  BY Zenon, <1>12, DisabledKept, TenantDeletedKept
<1>13. ASSUME NEW u \in Users, delete_user_by_operator(u) PROVE RowsInv'
  BY Zenon, <1>13, UserDeletedKept
<1> QED BY Zenon, <1>1, <1>2, <1>3, <1>4, <1>5, <1>6, <1>7, <1>8, <1>9, <1>10, <1>11, <1>12, <1>13
           DEF OtherOp

-----------------------------------------------------------------------------
(* What a request in flight holds. *)

LEMMA ReleaseTyped ==
    ASSUME FlowTyped, NEW r \in Requests, now' \in Int,
           req' = req \/ req' = [req EXCEPT ![r] = None],
           pend' = pend \/ pend' = [pend EXCEPT ![r] = None]
    PROVE  FlowTyped'
<1>1. req' \in [Requests -> Contexts \cup {None}] /\ pend' \in [Requests -> Helds \cup {None}]
  BY DEF FlowTyped
<1>2. \A q \in Requests : pend'[q] \in {pend[q], None}
  BY DEF FlowTyped
<1> QED BY Zenon, <1>1, <1>2 DEF FlowTyped

LEMMA HoldsTyped ==
    ASSUME FlowTyped, NEW r \in Requests, NEW p \in Helds, HeldNames(p), Holds(r, p)
    PROVE  FlowTyped'
<1>1. UNCHANGED <<now, req>> /\ pend' = [pend EXCEPT ![r] = p]
  BY Zenon DEF Holds
<1>2. /\ pend' \in [Requests -> Helds \cup {None}] /\ pend'[r] = p
      /\ \A q \in Requests : q # r => pend'[q] = pend[q]
  BY <1>1 DEF FlowTyped
<1> QED BY Zenon, <1>1, <1>2 DEF FlowTyped

LEMMA HeldFields ==
    ASSUME NEW p \in Helds, HeldNames(p)
    PROVE  /\ p.user \in Users /\ p.scope \in Int /\ p.token \in Int
           /\ p.kind = "setup" => p.tenant \in Tenants
           /\ p.kind = "login" => p.ws \in Workspaces
           /\ p.kind = "accept" => p.invite \in Invites
BY DEF Helds, HeldNames

LEMMA AuthenticatedTyped ==
    ASSUME TenancyInv, NEW r \in Requests, NEW k \in Keys, NEW q \in Workspaces \cup {None},
           authenticate(r, k, q)
    PROVE  /\ FlowTyped' /\ UNCHANGED store /\ req[r] = None
           /\ \A o \in Requests : o # r => req'[o] = req[o]
<1>1. PICK w \in resolve_key_workspace(k, q) :
        req' = [req EXCEPT ![r] =
               [key |-> k, tenant |-> keys[k].tenant, ws |-> w, user |-> keys[k].user,
                scope |-> scope_within(keys[k].tenant, w, keys[k].user, keys[k].scope)]]
  BY Zenon DEF authenticate
<1>2. keys[k] \in KeyRows /\ keys[k].tenant \in Tenants
  <2>1. keys[k].st = "live"
    BY Zenon DEF authenticate, find_sqlite_auth_context, authenticate_api_key, is_active
  <2> QED BY Zenon, <2>1 DEF TenancyInv, RowsInv, RowsTyped, Addressed
<1>3. w \in Workspaces
  <2>1. keys[k].ws \in Workspaces \cup {None}
    BY <1>2 DEF KeyRows
  <2>2. reachable_workspace_ids(keys[k].tenant, keys[k].user) \subseteq Workspaces
    BY Zenon DEF reachable_workspace_ids, login_options, WorkspacesOf
  <2>3. CASE keys[k].ws # None
    BY <2>1, <2>3 DEF resolve_key_workspace
  <2>4. CASE keys[k].ws = None /\ q # None
    BY <2>4 DEF resolve_key_workspace
  <2>5. CASE keys[k].ws = None /\ q = None
    BY <2>2, <2>5 DEF resolve_key_workspace
  <2> QED BY <2>3, <2>4, <2>5
<1>4. keys[k].user \in Users \cup {None} /\ keys[k].scope \in Int
  BY <1>2 DEF KeyRows
<1>5. scope_within(keys[k].tenant, w, keys[k].user, keys[k].scope) \in Int
  BY <1>4, AccessIsInt DEF scope_within, Smaller
<1> DEFINE c == [key |-> k, tenant |-> keys[k].tenant, ws |-> w, user |-> keys[k].user,
                 scope |-> scope_within(keys[k].tenant, w, keys[k].user, keys[k].scope)]
<1>6. c \in Contexts
  BY <1>2, <1>3, <1>4, <1>5 DEF Contexts
<1>7. req' = [req EXCEPT ![r] = c]
  BY Zenon, <1>1
<1> HIDE DEF c
<1>8. /\ req' \in [Requests -> Contexts \cup {None}]
      /\ \A o \in Requests : o # r => req'[o] = req[o]
  BY <1>6, <1>7 DEF TenancyInv, FlowTyped
<1>9. UNCHANGED <<now, pend>> /\ UNCHANGED store /\ req[r] = None
  BY Zenon DEF authenticate
<1> QED BY Zenon, <1>8, <1>9 DEF TenancyInv, FlowTyped

LEMMA LoginTyped ==
    ASSUME TenancyInv, NEW r \in Requests, NEW how, NEW u \in Users,
           NEW q \in Workspaces \cup {None}, StartLogin(r, how, u, q)
    PROVE  FlowTyped' /\ UNCHANGED store /\ UNCHANGED req
<1>1. PICK w \in resolve_login_workspace(u, q) :
        Holds(r, Held("login", u, w, None, workspace_access(owner[w], w, u), None, 0))
  BY Zenon DEF StartLogin
<1>2. w \in Workspaces
  <2>1. login_options(u) \subseteq Workspaces
    BY Zenon DEF login_options
  <2> QED BY <2>1 DEF resolve_login_workspace
<1>3. workspace_access(owner[w], w, u) \in Int
  BY Zenon, AccessIsInt
<1> DEFINE p == Held("login", u, w, None, workspace_access(owner[w], w, u), None, 0)
<1>4. p \in Helds /\ HeldNames(p)
  <2> DEFINE s == workspace_access(owner[w], w, u)
  <2>1. p = Held("login", u, w, None, s, None, 0) /\ s \in Int
    BY Zenon, <1>3
  <2> HIDE DEF s, p
  <2>2. Held("login", u, w, None, s, None, 0) \in Helds
        /\ HeldNames(Held("login", u, w, None, s, None, 0))
    BY <1>2, <2>1 DEF Held, Helds, HeldNames
  <2> QED BY Zenon, <2>1, <2>2
<1>5. Holds(r, p)
  BY Zenon, <1>1
<1> HIDE DEF p
<1>6. FlowTyped'
  BY Zenon, <1>4, <1>5, HoldsTyped DEF TenancyInv
<1> QED BY Zenon, <1>5, <1>6 DEF StartLogin, Holds

-----------------------------------------------------------------------------
(* The steps of public handlers. *)
LEMMA PublicShape ==
    ASSUME TenancyInv, NEW r \in Requests, PublicNext(r)
    PROVE  FlowTyped' /\ UNCHANGED req /\ (OtherOp \/ UNCHANGED store)
<1>0. FlowTyped /\ \A i \in Invites : invites[i].token \in Int
  BY DEF TenancyInv, RowsInv, RowsTyped, InviteRows
<1> DEFINE Goal == FlowTyped' /\ UNCHANGED req /\ (OtherOp \/ UNCHANGED store)
<1>1. ASSUME NEW t \in Tenants, NEW w \in Workspaces, NEW u \in Users,
             Setup(r, t, w, u) \/ OAuthFirstLogin(r, t, w, u)
      PROVE  Goal
  <2>1. PICK p \in {Held("setup", u, w, t, 4, None, 0), Held("login", u, w, None, 4, None, 0)} :
          Holds(r, p)
    BY Zenon, <1>1 DEF Setup, OAuthFirstLogin
  <2>2. p \in Helds /\ HeldNames(p)
    BY <2>1 DEF Held, Helds, HeldNames
  <2>3. FlowTyped' /\ UNCHANGED req
    BY Zenon, <1>0, <2>1, <2>2, HoldsTyped DEF Holds
  <2>4. OtherOp
    BY Zenon, <1>1 DEF Setup, OAuthFirstLogin, OtherOp
  <2> QED BY Zenon, <2>3, <2>4
<1>2. ASSUME NEW kind, Uses(r, kind)
      PROVE  /\ FlowTyped' /\ UNCHANGED req /\ pend[r].kind = kind
             /\ pend[r] \in Helds /\ HeldNames(pend[r])
  <2>1. /\ pend[r] # None /\ pend[r].kind = kind /\ pend' = [pend EXCEPT ![r] = None]
        /\ UNCHANGED <<now, req>>
    BY Zenon, <1>2 DEF Uses
  <2>2. now' \in Int
    BY Zenon, <1>0, <2>1 DEF FlowTyped
  <2>3. FlowTyped'
    BY Zenon, <1>0, <2>1, <2>2, ReleaseTyped
  <2>4. pend[r] \in Helds /\ HeldNames(pend[r])
    BY <1>0, <2>1 DEF FlowTyped
  <2> QED BY Zenon, <2>1, <2>3, <2>4
<1>3. ASSUME Public(r) PROVE FlowTyped' /\ UNCHANGED req
  BY Zenon, <1>0, <1>3 DEF Public, FlowTyped
<1>4. ASSUME NEW k \in Keys, SetupKey(r, k) PROVE Goal
  <2>1. Uses(r, "setup") /\ create_tenant_api_key(k, pend[r].tenant, 4, pend[r].user, TRUE)
    BY Zenon, <1>4 DEF SetupKey
  <2>2. 4 \in Int /\ TRUE \in BOOLEAN
    OBVIOUS
  <2>3. pend[r].tenant \in Tenants /\ pend[r].user \in Users \cup {None}
    BY Zenon, <1>2, <2>1, HeldFields
  <2>4. OtherOp
    BY Zenon, <2>1, <2>2, <2>3 DEF OtherOp
  <2> QED BY Zenon, <1>2, <2>1, <2>4
<1>5. ASSUME NEW k \in Keys, LoginKey(r, k) PROVE Goal
  <2>1. Uses(r, "login") /\ create_api_key(k, pend[r].ws, pend[r].scope, pend[r].user, FALSE)
    BY Zenon, <1>5 DEF LoginKey
  <2>2. FALSE \in BOOLEAN
    OBVIOUS
  <2>3. /\ pend[r].ws \in Workspaces /\ pend[r].scope \in Int
        /\ pend[r].user \in Users \cup {None}
    BY Zenon, <1>2, <2>1, HeldFields
  <2>4. OtherOp
    BY Zenon, <2>1, <2>2, <2>3 DEF OtherOp
  <2> QED BY Zenon, <1>2, <2>1, <2>4
<1>6. ASSUME AcceptFinish(r) PROVE Goal
  <2>1. /\ Uses(r, "accept")
        /\ accept_in_transaction(pend[r].invite, pend[r].token, pend[r].user)
    BY Zenon, <1>6 DEF AcceptFinish
  <2>2. pend[r].invite \in Invites /\ pend[r].token \in Int /\ pend[r].user \in Users
    BY Zenon, <1>2, <2>1, HeldFields
  <2>3. OtherOp
    BY Zenon, <2>1, <2>2 DEF OtherOp
  <2> QED BY Zenon, <1>2, <2>1, <2>3
<1>7. ASSUME NEW t \in Tenants, NEW u \in Users, SignupWithoutInvite(r, t, u) PROVE Goal
  BY Zenon, <1>3, <1>7 DEF SignupWithoutInvite, OtherOp
<1>8. ASSUME NEW i \in Invites, NEW u \in Users, SignupWithInvite(r, i, u) PROVE Goal
  BY Zenon, <1>0, <1>3, <1>8 DEF SignupWithInvite, OtherOp
<1>9. ASSUME NEW i \in Invites, NEW u \in Users, OAuthAccept(r, u, i) PROVE Goal
  BY Zenon, <1>0, <1>3, <1>9 DEF OAuthAccept, OtherOp
<1>10. ASSUME NEW u \in Users, NEW q \in Workspaces \cup {None}, Login(r, u, q) \/ OAuthLogin(r, u, q)
       PROVE  Goal
  BY Zenon, <1>10, LoginTyped DEF Login, OAuthLogin
<1>11. ASSUME NEW u \in Users, NEW i \in Invites, AcceptStart(r, u, i) PROVE Goal
  <2>1. Holds(r, Held("accept", u, None, None, 1, i, invites[i].token)) /\ UNCHANGED store
    BY Zenon, <1>11 DEF AcceptStart
  <2>2. /\ Held("accept", u, None, None, 1, i, invites[i].token) \in Helds
        /\ HeldNames(Held("accept", u, None, None, 1, i, invites[i].token))
    BY <1>0 DEF Held, Helds, HeldNames
  <2>3. FlowTyped' /\ UNCHANGED req
    BY Zenon, <1>0, <2>1, <2>2, HoldsTyped DEF Holds
  <2> QED BY Zenon, <2>1, <2>3
<1> HIDE DEF Goal
<1>12. Goal
  BY Zenon, <1>1, <1>4, <1>5, <1>6, <1>7, <1>8, <1>9, <1>10, <1>11 DEF PublicNext
<1> QED BY Zenon, <1>12 DEF Goal

(* The operator's tasks. *)
LEMMA TaskShape ==
    ASSUME TenancyInv, TaskNext
    PROVE  FlowTyped' /\ UNCHANGED req /\ OtherOp
<1>1. ASSUME NEW kind, Task(kind) PROVE FlowTyped' /\ UNCHANGED req
  BY Zenon, <1>1 DEF Task, TenancyInv, FlowTyped
<1> DEFINE Goal == FlowTyped' /\ UNCHANGED req /\ OtherOp
<1>2. ASSUME NEW t \in Tenants, NEW u \in Users, NEW x \in RolesGiven, TaskAddMember(t, u, x)
      PROVE  Goal
  BY Zenon, <1>1, <1>2, InputsTyped DEF TaskAddMember, OtherOp
<1>3. ASSUME NEW k \in Keys, NEW w \in Workspaces, NEW s \in ScopesGiven,
             NEW u \in Users \cup {None}, NEW a \in BOOLEAN, TaskCreateKey(k, w, s, u, a)
      PROVE  Goal
  BY Zenon, <1>1, <1>3, InputsTyped DEF TaskCreateKey, OtherOp
<1>4. ASSUME NEW k \in Keys, NEW t \in Tenants, NEW s \in ScopesGiven,
             NEW u \in Users \cup {None}, NEW a \in BOOLEAN, TaskCreateTenantKey(k, t, s, u, a)
      PROVE  Goal
  BY Zenon, <1>1, <1>4, InputsTyped DEF TaskCreateTenantKey, OtherOp
<1>5. ASSUME NEW k \in Keys, TaskRevokeKey(k) PROVE Goal
  BY Zenon, <1>1, <1>5 DEF TaskRevokeKey, OtherOp
<1>6. ASSUME NEW i \in Invites, NEW t \in Tenants, NEW u \in Users, NEW x \in RolesGiven,
             NEW e \in Expiries, TaskCreateInvite(i, t, Email[u], x, e)
      PROVE  Goal
  BY Zenon, <1>1, <1>6, InputsTyped DEF TaskCreateInvite, OtherOp
<1>7. ASSUME NEW t \in Tenants, TaskCreateTenant(t) PROVE Goal
  BY Zenon, <1>1, <1>7 DEF TaskCreateTenant, OtherOp, members
<1>8. ASSUME NEW u \in Users, TaskCreateUser(u) PROVE Goal
  BY Zenon, <1>1, <1>8 DEF TaskCreateUser, OtherOp, members
<1>9. ASSUME NEW w \in Workspaces, NEW t \in Tenants, TaskCreateWorkspace(w, t) PROVE Goal
  BY Zenon, <1>1, <1>9, TenancyAssumption DEF TaskCreateWorkspace, OtherOp
<1>10. ASSUME NEW t \in Tenants, TaskDisableTenant(t) \/ TaskDeleteTenant(t) PROVE Goal
  BY Zenon, <1>1, <1>10 DEF TaskDisableTenant, TaskDeleteTenant, OtherOp
<1>11. ASSUME NEW u \in Users, TaskDeleteUser(u) PROVE Goal
  BY Zenon, <1>1, <1>11 DEF TaskDeleteUser, OtherOp
<1> HIDE DEF Goal
<1>12. Goal
  BY Zenon, <1>2, <1>3, <1>4, <1>5, <1>6, <1>7, <1>8, <1>9, <1>10, <1>11 DEF TaskNext
<1> QED BY Zenon, <1>12 DEF Goal

-----------------------------------------------------------------------------
(* A step that changes no row but queued work, which is done only for an actor
   that may. *)
Quiet ==
    /\ UNCHANGED <<tenants, caps, accounts, roles, owner, grants, keys, invites>>
    /\ jobs' \in [Jobs -> JobRows]
    /\ \A j \in Jobs : jobs[j].st # "done" /\ jobs'[j].st = "done" =>
           require_job_actor(jobs[j].actor, jobs[j].need)

RequestStep(r) == req[r] \in Contexts /\ req[r] # None /\ RequestOp(req[r]) /\ Finished(r)

LEMMA UnchangedQuiet == ASSUME TenancyInv, UNCHANGED store PROVE Quiet
BY Zenon DEF TenancyInv, RowsInv, RowsTyped, store, Quiet

LEMMA FinishedTyped == ASSUME TenancyInv, NEW r \in Requests, Finished(r) PROVE FlowTyped'
<1>1. now' \in Int
  BY Zenon DEF Finished, TenancyInv, FlowTyped
<1> QED BY Zenon, <1>1, ReleaseTyped DEF Finished, TenancyInv

LEMMA StepShape ==
    ASSUME TenancyInv, [Next]_vars
    PROVE  /\ FlowTyped'
           /\ (\E r \in Requests : RequestStep(r)) \/ (OtherOp /\ UNCHANGED req) \/ Quiet
<1> DEFINE Goal == /\ FlowTyped'
                   /\ (\E r \in Requests : RequestStep(r)) \/ (OtherOp /\ UNCHANGED req) \/ Quiet
<1>1. CASE UNCHANGED vars
  <2>1. UNCHANGED store /\ UNCHANGED <<now, req, pend>>
    BY Zenon, <1>1 DEF vars, flow
  <2>2. FlowTyped'
    BY Zenon, <2>1 DEF TenancyInv, FlowTyped
  <2> QED BY Zenon, <2>1, <2>2, UnchangedQuiet
<1>2. ASSUME NEW r \in Requests, NEW k \in Keys, NEW q \in Workspaces \cup {None},
             authenticate(r, k, q)
      PROVE  Goal
  BY Zenon, <1>2, AuthenticatedTyped, UnchangedQuiet
<1>3. ASSUME NEW r \in Requests, req[r] # None, RestNext(r) \/ McpNext(r)
      PROVE  Goal
  <2>1. RequestOp(req[r]) /\ Finished(r)
    BY Zenon, <1>3, RestIsRequest, McpIsRequest
  <2>2. req[r] \in Contexts
    BY <1>3 DEF TenancyInv, FlowTyped
  <2> QED BY Zenon, <1>3, <2>1, <2>2, FinishedTyped DEF RequestStep
<1>4. ASSUME NEW r \in Requests, ReadNext(r) PROVE Goal
  BY Zenon, <1>4, ReadAnswers, FinishedTyped, UnchangedQuiet
<1>5. ASSUME NEW r \in Requests, PublicNext(r) PROVE Goal
  BY Zenon, <1>5, PublicShape, UnchangedQuiet
<1>6. ASSUME NEW r \in Requests, Fails(r) PROVE Goal
  <2>1. /\ UNCHANGED store /\ UNCHANGED now
        /\ req' = [req EXCEPT ![r] = None] /\ pend' = [pend EXCEPT ![r] = None]
    BY Zenon, <1>6 DEF Fails
  <2>2. now' \in Int
    BY Zenon, <2>1 DEF TenancyInv, FlowTyped
  <2>3. FlowTyped'
    BY Zenon, <2>1, <2>2, ReleaseTyped DEF TenancyInv
  <2> QED BY Zenon, <2>1, <2>3, UnchangedQuiet
<1>7. ASSUME NEW r \in Requests, NEW j \in Jobs, NEW n \in ScopesGiven, EnqueueJob(r, j, n)
      PROVE  Goal
  <2>1. /\ Finished(r) /\ req[r] # None
        /\ UNCHANGED <<tenants, caps, accounts, roles, owner, grants, keys, invites>>
        /\ jobs' = [jobs EXCEPT ![j] = [st |-> "queued", actor |-> req[r], need |-> n]]
    BY Zenon, <1>7 DEF EnqueueJob, Ends, Finished, members
  <2>2. req[r] \in Contexts /\ n \in Int
    BY <2>1, InputsTyped DEF TenancyInv, FlowTyped
  <2>3. /\ jobs' \in [Jobs -> JobRows]
        /\ \A o \in Jobs : jobs[o].st # "done" => jobs'[o].st # "done"
    <3>1. [st |-> "queued", actor |-> req[r], need |-> n] \in JobRows
      BY <2>2 DEF JobRows
    <3> QED BY <2>1, <3>1 DEF TenancyInv, RowsInv, RowsTyped
  <2> QED BY Zenon, <2>1, <2>3, FinishedTyped DEF Quiet
<1>8. ASSUME TaskNext PROVE Goal
  BY Zenon, <1>8, TaskShape
<1>9. ASSUME NEW j \in Jobs, RunJob(j) PROVE Goal
  <2> DEFINE st == IF require_job_actor(jobs[j].actor, jobs[j].need) THEN "done" ELSE "failed"
  <2>1. /\ UNCHANGED <<now, req, pend>>
        /\ UNCHANGED <<tenants, caps, accounts, roles, owner, grants, keys, invites>>
        /\ jobs' = [jobs EXCEPT ![j].st = st]
    BY Zenon, <1>9 DEF RunJob, members
  <2>2. st \in {"done", "failed"}
    BY Zenon
  <2>3. require_job_actor(jobs[j].actor, jobs[j].need) \/ st = "failed"
    BY Zenon
  <2> HIDE DEF st
  <2>4. jobs[j] \in JobRows /\ jobs \in [Jobs -> JobRows]
    BY DEF TenancyInv, RowsInv, RowsTyped
  <2>5. [jobs[j] EXCEPT !.st = st] \in JobRows /\ [jobs[j] EXCEPT !.st = st].st = st
    BY <2>2, <2>4 DEF JobRows
  <2>6. /\ jobs' \in [Jobs -> JobRows] /\ jobs'[j].st = st
        /\ \A o \in Jobs : o # j => jobs'[o] = jobs[o]
    BY <2>1, <2>4, <2>5
  <2>7. "failed" # "done"
    OBVIOUS
  <2>8. Quiet
    BY Zenon, <2>1, <2>3, <2>6, <2>7 DEF Quiet
  <2>9. FlowTyped'
    BY Zenon, <2>1 DEF TenancyInv, FlowTyped
  <2> QED BY Zenon, <2>8, <2>9
<1>10. ASSUME Tick PROVE Goal
  <2>1. UNCHANGED store /\ UNCHANGED <<req, pend>> /\ now' = now + 1
    BY Zenon, <1>10 DEF Tick
  <2>2. now' \in Int
    BY <2>1 DEF TenancyInv, FlowTyped
  <2>3. FlowTyped'
    BY Zenon, <2>1, <2>2 DEF TenancyInv, FlowTyped
  <2> QED BY Zenon, <2>1, <2>3, UnchangedQuiet
<1> HIDE DEF Goal
<1>11. CASE Next
  <2>1. Goal
    BY Zenon, <1>2, <1>3, <1>4, <1>5, <1>6, <1>7, <1>8, <1>9, <1>10, <1>11 DEF Next
  <2> QED BY Zenon, <2>1 DEF Goal
<1> QED BY Zenon, <1>1, <1>11

-----------------------------------------------------------------------------
LEMMA TenancyStart == Init => TenancyInv
<1> SUFFICES ASSUME Init PROVE TenancyInv
  OBVIOUS
<1>1. FreshKey \in KeyRows /\ FreshKey.st = "fresh" /\ FreshKey.issuer = None
  BY SMTT(20) DEF FreshKey, KeyRows
<1>2. FreshInvite \in InviteRows /\ FreshInvite.st = "fresh"
  BY DEF FreshInvite, InviteRows, Roles
<1>3. FreshJob \in JobRows
  BY DEF FreshJob, JobRows
<1>4. RowsTyped
  BY <1>1, <1>2, <1>3 DEF Init, RowsTyped
<1>5. /\ \A k \in Keys : keys[k].st = "fresh" /\ keys[k].issuer = None
      /\ \A i \in Invites : invites[i].st = "fresh"
      /\ \A t \in Tenants, u \in Users : roles[t, u] = "none"
      /\ \A w \in Workspaces, u \in Users : grants[w, u] = "none"
  BY Zenon, <1>1, <1>2 DEF Init
<1>6. "fresh" # "live" /\ "fresh" # "open"
  OBVIOUS
<1>7. RowsInv
  BY Zenon, <1>4, <1>5, <1>6 DEF RowsInv, Addressed, MembersRegistered, IssuersIssued,
     DelegationNeverWidens, KeysFollowMembership, GrantsFollowMembership
<1>8. FlowTyped
  BY DEF Init, FlowTyped
<1> QED BY Zenon, <1>7, <1>8 DEF TenancyInv

LEMMA TenancyInvStep == TenancyInv /\ [Next]_vars => TenancyInv'
<1> SUFFICES ASSUME TenancyInv, [Next]_vars PROVE TenancyInv'
  OBVIOUS
<1>1. ASSUME NEW r \in Requests, RequestStep(r) PROVE RowsInv'
  BY Zenon, <1>1, RequestOpKept DEF RequestStep, TenancyInv, FlowTyped
<1>2. ASSUME OtherOp PROVE RowsInv'
  BY Zenon, <1>2, OtherOpKept DEF TenancyInv
<1>3. ASSUME Quiet PROVE RowsInv'
  BY Zenon, <1>3, JobsOnlyKept DEF TenancyInv, Quiet
<1> QED BY Zenon, <1>1, <1>2, <1>3, StepShape DEF TenancyInv

(* The rows, the contexts of requests in flight and what handlers hold are
   consistent, whatever interleaves. *)
THEOREM TenancyConsistent == Spec => []TenancyInv
BY TenancyStart, TenancyInvStep, PTL DEF Spec

(* No key and no grant outlives the membership that carries it: removing a
   member, deleting an account or a workspace and disabling or deleting a
   tenant take them along, and no login, setup or delegation that read earlier
   issues one afterwards. *)
THEOREM AccessFollowsMembershipHolds == Spec => []AccessFollowsMembership
<1>1. TenancyInv => AccessFollowsMembership
  BY Zenon DEF TenancyInv, RowsInv, AccessFollowsMembership
<1> QED BY <1>1, TenancyConsistent, PTL

(* create_delegated_api_key, create_delegated_tenant_api_key and rotate never
   give a key more than the key they were called with has. *)
THEOREM DelegationNeverWidensHolds == Spec => []DelegationNeverWidens
<1>1. TenancyInv => DelegationNeverWidens
  BY Zenon DEF TenancyInv, RowsInv
<1> QED BY <1>1, TenancyConsistent, PTL

-----------------------------------------------------------------------------
(* What an operation does to memberships, to workspaces and to queued work. *)

(* One role changes and the last owner is not it; ownership moves; or a tenant
   goes with its members. *)
RolesEffect ==
    \/ UNCHANGED roles
    \/ \E t \in Tenants, u \in Users, x \in Roles \cup {"none"} :
           /\ protect_owner(t, u, x) \/ roles[t, u] = "none"
           /\ roles' = [roles EXCEPT ![<<t, u>>] = x]
    \/ \E t \in Tenants, s \in Users, u \in Users :
           /\ u # s
           /\ roles' = [roles EXCEPT ![<<t, s>>] = "owner", ![<<t, u>>] = "admin"]
    \/ \E t \in Tenants :
           t \notin Existing' /\ roles' = tenant_memberships_after({t}, {})

(* A workspace is new, goes while the tenant has another, or goes with it. *)
OwnerEffect ==
    \/ UNCHANGED owner
    \/ \E w \in Workspaces, t \in Tenants : owner[w] = None /\ owner' = [owner EXCEPT ![w] = t]
    \/ \E w \in Workspaces : /\ Cardinality(WorkspacesOf(owner[w])) > 1
                             /\ owner' = [owner EXCEPT ![w] = Gone]
    \/ \E t \in Tenants :
           t \notin Existing' /\ owner' = workspace_workspaces_after({t})

(* No operation completes queued work. *)
JobsEffect == \A j \in Jobs : jobs'[j].st = "done" => jobs[j].st = "done"

Effects == RolesEffect /\ OwnerEffect /\ JobsEffect

LEMMA NoEffect == ASSUME UNCHANGED <<roles, owner, jobs>> PROVE Effects
BY Zenon DEF Effects, RolesEffect, OwnerEffect, JobsEffect

LEMMA RoleEffect ==
    ASSUME NEW t \in Tenants, NEW u \in Users, NEW x \in Roles \cup {"none"},
           protect_owner(t, u, x) \/ roles[t, u] = "none",
           roles' = [roles EXCEPT ![<<t, u>>] = x], OwnerEffect, UNCHANGED jobs
    PROVE  Effects
BY Zenon DEF Effects, RolesEffect, JobsEffect

LEMMA DisableEffects ==
    ASSUME RowsTyped, NEW t \in Tenants, disable_in_transaction(t)
    PROVE  Effects
<1>1. UNCHANGED <<roles, owner>> /\ jobs' = cancel_work(t)
  BY Zenon DEF disable_in_transaction, members
<1>2. JobsEffect
  <2>1. ASSUME NEW j \in Jobs, jobs'[j].st = "done" PROVE jobs[j].st = "done"
    <3>1. jobs[j] \in JobRows
      BY DEF RowsTyped
    <3> QED BY <1>1, <2>1, <3>1 DEF cancel_work, JobRows
  <2> QED BY Zenon, <2>1 DEF JobsEffect
<1> QED BY Zenon, <1>1, <1>2 DEF Effects, RolesEffect, OwnerEffect

LEMMA DeleteTenantEffects ==
    ASSUME RowsTyped, NEW t \in Tenants, delete_tenant_by_operator(t)
    PROVE  Effects
<1>1. /\ roles' = tenant_memberships_after({t}, {}) /\ owner' = workspace_workspaces_after({t})
      /\ tenants' = [tenants EXCEPT ![t] = "gone"]
  BY Zenon DEF delete_tenant_by_operator
<1>2. t \notin Existing'
  BY <1>1 DEF Existing, RowsTyped
<1>3. JobsEffect
  <2>1. ASSUME NEW j \in Jobs, jobs'[j].st = "done" PROVE jobs[j].st = "done"
    <3>1. jobs[j] \in JobRows
      BY DEF RowsTyped
    <3> QED BY <2>1, <3>1 DEF delete_tenant_by_operator, JobRows
  <2> QED BY Zenon, <2>1 DEF JobsEffect
<1> QED BY Zenon, <1>1, <1>2, <1>3 DEF Effects, RolesEffect, OwnerEffect

(* Every operation of a request checks the presented context again. *)
LEMMA RequestEffects ==
    ASSUME RowsInv, NEW c \in Contexts, c # None, RequestOp(c)
    PROVE  current_context(c) /\ Effects
<1>0. c.tenant \in Tenants /\ c.user \in Users \cup {None}
  BY DEF Contexts
<1>1. ASSUME UNCHANGED owner PROVE OwnerEffect
  BY Zenon, <1>1 DEF OwnerEffect
<1> DEFINE Goal == current_context(c) /\ Effects
<1>2. ASSUME NEW u \in Users, NEW x \in Roles, update_member_access(c, u, x) PROVE Goal
  BY Zenon, <1>0, <1>1, <1>2, RoleEffect DEF update_member_access, add_member, require_current_tenant_admin
<1>3. ASSUME NEW u \in Users, remove_member_as(c, u) PROVE Goal
  BY Zenon, <1>0, <1>1, <1>3, RoleEffect DEF remove_member_as, remove_member, require_current_tenant_admin
<1>4. ASSUME NEW u \in Users, transfer_ownership(c, u) PROVE Goal
  <2>1. current_context(c) /\ c.user # None
    BY Zenon, <1>4 DEF transfer_ownership, require_current_tenant_admin, require_tenant_admin
  <2>2. c.user \in Users
    BY <1>0, <2>1
  <2>3. Effects
    BY Zenon, <1>0, <1>4, <2>2
       DEF transfer_ownership, Effects, RolesEffect, OwnerEffect, JobsEffect
  <2> QED BY Zenon, <2>1, <2>3
<1>5. ASSUME NEW i \in Invites, NEW u \in Users, NEW x \in Roles, NEW e \in Int,
             create_invite_as(i, c, Email[u], x, e)
      PROVE  Goal
  BY Zenon, <1>5, NoEffect
     DEF create_invite_as, create_invite, InviteVarsOnly, members, require_current_tenant_admin
<1>6. ASSUME NEW i \in Invites, revoke_invite_as(c, i) PROVE Goal
  BY Zenon, <1>6, NoEffect DEF revoke_invite_as, InviteVarsOnly, members, require_current_tenant_admin
<1>7. ASSUME NEW i \in Invites, NEW e \in Int, reissue_invite_as(c, i, e) PROVE Goal
  BY Zenon, <1>7, NoEffect DEF reissue_invite_as, InviteVarsOnly, members, require_current_tenant_admin
<1>8. ASSUME NEW i \in Invites, NEW g \in Int, accept_authenticated_user(c, i, g) PROVE Goal
  <2>1. /\ current_context(c) /\ c.user # None /\ redeem_invite_at(i, g)
        /\ add_member(invites[i].tenant, c.user, invites[i].role)
        /\ UNCHANGED <<owner, jobs>>
    BY Zenon, <1>8 DEF accept_authenticated_user, accept_in_transaction
  <2>2. c.user \in Users /\ invites[i].tenant \in Tenants /\ invites[i].role \in Roles
    BY Zenon, <1>0, <2>1, Redeemed
  <2> QED BY Zenon, <1>1, <2>1, <2>2, RoleEffect DEF add_member
<1>9. ASSUME NEW k \in Keys, NEW s \in Int, NEW a \in BOOLEAN, NEW e \in Int,
             create_delegated_tenant_api_key(k, c, s, a, e) \/ create_delegated_api_key(k, c, s, a, e)
      PROVE  Goal
  <2>1. CASE create_delegated_tenant_api_key(k, c, s, a, e)
    BY Zenon, <2>1, NoEffect
       DEF create_delegated_tenant_api_key, KeyVarsOnly, members, require_current_tenant_admin
  <2>2. CASE create_delegated_api_key(k, c, s, a, e)
    BY Zenon, <2>2, NoEffect
       DEF create_delegated_api_key, create_named_api_key, KeyVarsOnly, members
  <2> QED BY Zenon, <1>9, <2>1, <2>2
<1>10. ASSUME NEW k \in Keys, revoke_for_tenant(c, k) PROVE Goal
  BY Zenon, <1>10, NoEffect
     DEF revoke_for_tenant, delete_for_tenant, KeyVarsOnly, members, require_current_tenant_admin
<1>11. ASSUME NEW k \in Keys, NEW old \in Keys, rotate(k, c, old) PROVE Goal
  BY Zenon, <1>11, NoEffect DEF rotate, KeyVarsOnly, members, require_current_tenant_admin
<1>12. ASSUME NEW w \in Workspaces, create_workspace_in_context(w, c) PROVE Goal
  BY Zenon, <1>0, <1>12
     DEF create_workspace_in_context, create_workspace, NextWorkspace, members,
         require_current_tenant_admin, Effects, RolesEffect, OwnerEffect, JobsEffect
<1>13. ASSUME NEW w \in Workspaces, delete_workspace_as(c, w) PROVE Goal
  BY Zenon, <1>13
     DEF delete_workspace_as, delete_workspace, require_current_tenant_admin,
         Effects, RolesEffect, OwnerEffect, JobsEffect
<1>14. ASSUME NEW w \in Workspaces, NEW u \in Users, NEW x \in WorkspaceRoles, grant_as(c, w, u, x)
       PROVE  Goal
  BY Zenon, <1>14, NoEffect DEF grant_as, require_current_workspace_admin
<1>15. ASSUME NEW w \in Workspaces, NEW u \in Users, revoke_grant_as(c, w, u) PROVE Goal
  BY Zenon, <1>15, NoEffect DEF revoke_grant_as, require_current_workspace_admin
<1>16. ASSUME NEW cap \in Nat, update_tenant_as(c, cap) PROVE Goal
  BY Zenon, <1>16, NoEffect DEF update_tenant_as, members, require_current_tenant_admin
<1>17. ASSUME disable_as(c) PROVE Goal
  BY Zenon, <1>0, <1>17, DisableEffects
     DEF disable_as, require_current_tenant_owner, require_current_tenant_admin, RowsInv
<1> HIDE DEF Goal
<1>18. Goal
  BY Zenon, <1>2, <1>3, <1>4, <1>5, <1>6, <1>7, <1>8, <1>9, <1>10, <1>11, <1>12, <1>13, <1>14,
     <1>15, <1>16, <1>17 DEF RequestOp
<1> QED BY Zenon, <1>18 DEF Goal

LEMMA OtherEffects ==
    ASSUME RowsInv, OtherOp
    PROVE  Effects
<1>0. "owner" \in Roles
  BY DEF Roles
<1>1. ASSUME NEW t \in Tenants, NEW w \in Workspaces, NEW u \in Users,
             setup_first_account(t, w, u) \/ find_or_create(t, w, u)
      PROVE  Effects
  <2>1. PICK how \in {"password", "oauth"} : create_user(u, how)
    BY Zenon, <1>1 DEF setup_first_account, find_or_create, register_member
  <2>2. /\ roles' = [roles EXCEPT ![<<t, u>>] = "owner"] /\ UNCHANGED jobs
        /\ NextWorkspace(w) /\ owner' = [owner EXCEPT ![w] = t]
    BY Zenon, <1>1 DEF setup_first_account, find_or_create, register_member
  <2>3. roles[t, u] = "none"
    BY Zenon, <2>1, NewUser
  <2>4. OwnerEffect
    BY Zenon, <2>2 DEF OwnerEffect, NextWorkspace
  <2> QED BY Zenon, <1>0, <2>2, <2>3, <2>4, RoleEffect
<1>2. ASSUME UNCHANGED owner PROVE OwnerEffect
  BY Zenon, <1>2 DEF OwnerEffect
<1>3. ASSUME NEW t \in Tenants, NEW u \in Users, signup_account(t, u) PROVE Effects
  <2>1. roles[t, u] = "none"
    BY Zenon, <1>3, NewUser DEF signup_account, register_member
  <2> QED BY Zenon, <1>0, <1>2, <1>3, <2>1, RoleEffect DEF signup_account, register_member
<1>4. ASSUME NEW i \in Invites, NEW g \in Int, NEW u \in Users,
             register_user(i, g, u) \/ accept_in_transaction(i, g, u)
      PROVE  Effects
  <2>1. redeem_invite_at(i, g)
    BY Zenon, <1>4 DEF register_user, accept_in_transaction
  <2>2. invites[i].tenant \in Tenants /\ invites[i].role \in Roles
    BY Zenon, <2>1, Redeemed
  <2>3. /\ roles[invites[i].tenant, u] = "none" /\ UNCHANGED <<owner, jobs>>
        /\ roles' = [roles EXCEPT ![<<invites[i].tenant, u>>] = invites[i].role]
    BY Zenon, <1>4, <2>2, NewUser
       DEF register_user, register_member, accept_in_transaction, add_member
  <2> QED BY Zenon, <1>2, <2>2, <2>3, RoleEffect
<1>5. ASSUME NEW k \in Keys, NEW w \in Workspaces, NEW s \in Int, NEW u \in Users \cup {None},
             NEW a \in BOOLEAN, create_api_key(k, w, s, u, a)
      PROVE  Effects
  BY Zenon, <1>5, NoEffect DEF create_api_key, create_named_api_key, KeyVarsOnly, members
<1>6. ASSUME NEW k \in Keys, NEW t \in Tenants, NEW s \in Int, NEW u \in Users \cup {None},
             NEW a \in BOOLEAN, create_tenant_api_key(k, t, s, u, a)
      PROVE  Effects
  BY Zenon, <1>6, NoEffect DEF create_tenant_api_key, KeyVarsOnly, members
<1>7. ASSUME NEW t \in Tenants, NEW u \in Users, NEW x \in Roles, add_member(t, u, x),
             UNCHANGED <<tenants, caps, accounts, owner, grants, keys, invites, jobs>>
      PROVE  Effects
  BY Zenon, <1>2, <1>7, RoleEffect DEF add_member
<1>8. ASSUME NEW k \in Keys, delete_for_tenant(keys[k].tenant, k) PROVE Effects
  BY Zenon, <1>8, NoEffect DEF delete_for_tenant, KeyVarsOnly, members
<1>9. ASSUME NEW i \in Invites, NEW t \in Tenants, NEW u \in Users, NEW x \in Roles, NEW e \in Int,
             create_invite(i, t, Email[u], x, e)
      PROVE  Effects
  BY Zenon, <1>9, NoEffect DEF create_invite, InviteVarsOnly, members
<1>10. ASSUME \/ UNCHANGED <<accounts, roles, owner, grants, keys, invites, jobs>>
              \/ UNCHANGED <<tenants, caps, roles, owner, grants, keys, invites, jobs>>
       PROVE  Effects
  BY Zenon, <1>10, NoEffect
<1>11. ASSUME NEW w \in Workspaces, NEW t \in Tenants, NEW q \in Nat, create_workspace(w, t, q)
       PROVE  Effects
  BY Zenon, <1>11 DEF create_workspace, NextWorkspace, members,
     Effects, RolesEffect, OwnerEffect, JobsEffect
<1>12. ASSUME NEW t \in Tenants, disable_in_transaction(t) \/ delete_tenant_by_operator(t)
       PROVE  Effects
  BY Zenon, <1>12, DisableEffects, DeleteTenantEffects DEF RowsInv
<1>13. ASSUME NEW u \in Users, delete_user_by_operator(u) PROVE Effects
  BY Zenon, <1>13, NoEffect DEF delete_user_by_operator
<1> QED BY Zenon, <1>1, <1>3, <1>4, <1>5, <1>6, <1>7, <1>8, <1>9, <1>10, <1>11, <1>12, <1>13
           DEF OtherOp

(* The count of one row. *)
LEMMA OneOnly == ASSUME NEW u PROVE Cardinality({u}) = 1
<1> DEFINE fn(CS, T) == IF T = {} THEN 0 ELSE 1 + CS[T \ {CHOOSE x : x \in T}]
           count == [T \in SUBSET {u} |-> IF T = {} THEN 0 ELSE 1]
           IsCount(CS) == CS = [T \in SUBSET {u} |-> fn(CS, T)]
           CS == CHOOSE f : IsCount(f)
<1>1. (CHOOSE x : x \in {u}) = u
  BY Zenon
<1>2. SUBSET {u} = {{}, {u}}
  BY Zenon
<1>3. {u} \ {CHOOSE x : x \in {u}} = {}
  BY <1>1
<1>4. count[{}] = 0 /\ count[{u}] = 1
  BY <1>2
<1>5. ASSUME NEW T \in SUBSET {u} PROVE fn(count, T) = count[T]
  <2>1. T = {} \/ T = {u}
    BY Zenon, <1>2, <1>5
  <2> HIDE DEF count
  <2>2. CASE T = {}
    BY <2>2, <1>4
  <2>3. CASE T = {u}
    BY <2>3, <1>3, <1>4
  <2> QED BY <2>1, <2>2, <2>3
<1>6. IsCount(count)
  <2> DEFINE g == [T \in SUBSET {u} |-> fn(count, T)]
  <2>1. DOMAIN g = SUBSET {u} /\ DOMAIN count = SUBSET {u}
    BY Zenon
  <2>2. \A T \in SUBSET {u} : g[T] = count[T]
    BY Zenon, <1>5
  <2> QED BY <2>1, <2>2
<1>7. IsCount(CS)
  <2> HIDE DEF IsCount, count
  <2> QED BY Zenon, <1>6
<1>8. CS[{}] = 0
  <2> HIDE DEF CS
  <2> QED BY <1>7, <1>2
<1>9. CS[{u}] = 1
  <2> HIDE DEF CS
  <2> QED BY <1>7, <1>2, <1>3, <1>8
<1>10. Cardinality({u}) = CS[{u}]
  BY DEF Cardinality, CS, fn
<1> QED BY <1>9, <1>10

-----------------------------------------------------------------------------
LEMMA OwnersKept ==
    ASSUME RowsInv, RolesEffect, NEW t \in Existing, t \in Existing', Owners(t) # {}
    PROVE  Owners(t)' # {}
<1>0. t \in Tenants /\ roles \in [Tenants \X Users -> Roles \cup {"none"}]
  BY Zenon DEF Existing, RowsInv, RowsTyped
<1>1. CASE UNCHANGED roles
  BY Zenon, <1>1 DEF Owners
<1>2. ASSUME NEW o \in Tenants, NEW u \in Users, NEW x \in Roles \cup {"none"},
             protect_owner(o, u, x) \/ roles[o, u] = "none",
             roles' = [roles EXCEPT ![<<o, u>>] = x]
      PROVE  Owners(t)' # {}
  <2>1. /\ roles'[o, u] = x
        /\ \A p \in Tenants, v \in Users : <<p, v>> # <<o, u>> => roles'[p, v] = roles[p, v]
    BY Zenon, <1>0, <1>2
  <2>2. \E v \in Users : roles[t, v] = "owner" /\ (<<t, v>> # <<o, u>> \/ x = "owner")
    <3>1. PICK v \in Users : roles[t, v] = "owner"
      BY Zenon DEF Owners
    <3>2. CASE <<t, v>> # <<o, u>> \/ x = "owner"
      BY Zenon, <3>1, <3>2
    <3>3. CASE <<t, v>> = <<o, u>> /\ x # "owner"
      <4>1. o = t /\ u = v /\ roles[o, u] # "none"
        BY Zenon, <3>1, <3>3
      <4>2. Cardinality(Owners(t)) > 1
        BY Zenon, <1>2, <3>1, <3>3, <4>1 DEF protect_owner
      <4>3. Owners(t) # {u}
        <5>1. Cardinality({u}) = 1
          BY Zenon, OneOnly
        <5> QED BY <4>2, <5>1
      <4>4. \A z \in Owners(t) : z \in Users /\ roles[t, z] = "owner"
        BY Zenon DEF Owners
      <4>5. u \in Owners(t)
        BY Zenon, <3>1, <4>1 DEF Owners
      <4>6. PICK z \in Owners(t) : z # u
        BY Zenon, <4>3, <4>5
      <4>7. <<t, z>> # <<o, u>>
        BY <4>6
      <4> QED BY Zenon, <4>4, <4>6, <4>7
    <3> QED BY Zenon, <3>2, <3>3
  <2>3. PICK v \in Users : roles[t, v] = "owner" /\ (<<t, v>> # <<o, u>> \/ x = "owner")
    BY Zenon, <2>2
  <2>4. roles'[t, v] = "owner"
    <3>1. CASE <<t, v>> # <<o, u>>
      BY Zenon, <1>0, <2>1, <2>3, <3>1
    <3>2. CASE <<t, v>> = <<o, u>>
      <4>1. x = "owner" /\ t = o /\ v = u
        BY Zenon, <2>3, <3>2
      <4> QED BY Zenon, <2>1, <4>1
    <3> QED BY Zenon, <3>1, <3>2
  <2> QED BY Zenon, <2>4 DEF Owners
<1>3. ASSUME NEW o \in Tenants, NEW s \in Users, NEW u \in Users, u # s,
             roles' = [roles EXCEPT ![<<o, s>>] = "owner", ![<<o, u>>] = "admin"]
      PROVE  Owners(t)' # {}
  <2>1. roles'[o, s] = "owner"
    BY Zenon, <1>0, <1>3
  <2>2. CASE t = o
    BY Zenon, <2>1, <2>2 DEF Owners
  <2>3. CASE t # o
    <3>1. \A v \in Users : roles'[t, v] = roles[t, v]
      BY Zenon, <1>0, <1>3, <2>3
    <3> QED BY Zenon, <3>1 DEF Owners
  <2> QED BY <2>2, <2>3
<1>4. ASSUME NEW o \in Tenants, o \notin Existing', roles' = tenant_memberships_after({o}, {})
      PROVE  Owners(t)' # {}
  <2>1. t # o
    BY Zenon, <1>4
  <2>2. \A v \in Users : roles'[t, v] = roles[t, v]
    BY Zenon, <1>0, <1>4, <2>1 DEF tenant_memberships_after
  <2> QED BY Zenon, <2>2 DEF Owners
<1> QED BY Zenon, <1>1, <1>2, <1>3, <1>4 DEF RolesEffect

LEMMA WorkspacesKept ==
    ASSUME RowsInv, OwnerEffect, NEW t \in Existing, t \in Existing', WorkspacesOf(t) # {}
    PROVE  WorkspacesOf(t)' # {}
<1>0. t \in Tenants /\ owner \in [Workspaces -> Tenants \cup {None, Gone}]
  BY Zenon DEF Existing, RowsInv, RowsTyped
<1>1. t # None
  BY <1>0, DeploymentAssumption
<1>2. PICK v \in Workspaces : owner[v] = t
  BY Zenon DEF WorkspacesOf
<1>3. CASE UNCHANGED owner
  BY Zenon, <1>3 DEF WorkspacesOf
<1>4. ASSUME NEW w \in Workspaces, NEW o \in Tenants, owner[w] = None, owner' = [owner EXCEPT ![w] = o]
      PROVE  WorkspacesOf(t)' # {}
  <2>1. owner'[v] = t
    BY <1>0, <1>1, <1>2, <1>4
  <2> QED BY Zenon, <2>1 DEF WorkspacesOf
<1>5. ASSUME NEW w \in Workspaces, Cardinality(WorkspacesOf(owner[w])) > 1,
             owner' = [owner EXCEPT ![w] = Gone]
      PROVE  WorkspacesOf(t)' # {}
  <2>1. \E z \in Workspaces : z # w /\ owner[z] = t
    <3>1. CASE v # w
      BY Zenon, <1>2, <3>1
    <3>2. CASE v = w
      <4>1. Cardinality(WorkspacesOf(t)) > 1
        BY Zenon, <1>2, <1>5, <3>2
      <4>2. WorkspacesOf(t) # {w}
        <5>1. Cardinality({w}) = 1
          BY Zenon, OneOnly
        <5> QED BY <4>1, <5>1
      <4>3. w \in WorkspacesOf(t) /\ \A z \in WorkspacesOf(t) : z \in Workspaces /\ owner[z] = t
        BY Zenon, <1>2, <3>2 DEF WorkspacesOf
      <4> QED BY Zenon, <4>2, <4>3
    <3> QED BY <3>1, <3>2
  <2>2. \A z \in Workspaces : z # w => owner'[z] = owner[z]
    BY <1>0, <1>5
  <2> QED BY Zenon, <2>1, <2>2 DEF WorkspacesOf
<1>6. ASSUME NEW o \in Tenants, o \notin Existing', owner' = workspace_workspaces_after({o})
      PROVE  WorkspacesOf(t)' # {}
  <2>1. t # o
    BY Zenon, <1>6
  <2>2. owner'[v] = t
    BY <1>2, <1>6, <2>1 DEF workspace_workspaces_after
  <2> QED BY Zenon, <2>2 DEF WorkspacesOf
<1> QED BY Zenon, <1>3, <1>4, <1>5, <1>6 DEF OwnerEffect

Stays ==
    \A t \in Existing : t \in Existing' =>
        /\ Owners(t) # {} => Owners(t)' # {}
        /\ WorkspacesOf(t) # {} => WorkspacesOf(t)' # {}

LEMMA StepStays == TenancyInv /\ [Next]_vars => Stays
<1> SUFFICES ASSUME TenancyInv, [Next]_vars PROVE Stays
  OBVIOUS
<1>1. RolesEffect /\ OwnerEffect
  <2>1. ASSUME NEW r \in Requests, RequestStep(r) PROVE Effects
    BY Zenon, <2>1, RequestEffects DEF RequestStep, TenancyInv
  <2>2. ASSUME OtherOp PROVE Effects
    BY Zenon, <2>2, OtherEffects DEF TenancyInv
  <2>3. ASSUME Quiet PROVE RolesEffect /\ OwnerEffect
    BY Zenon, <2>3 DEF Quiet, RolesEffect, OwnerEffect
  <2> QED BY Zenon, <2>1, <2>2, <2>3, StepShape DEF Effects
<1> QED BY Zenon, <1>1, OwnersKept, WorkspacesKept DEF Stays, TenancyInv

(* A tenant that has an owner and a workspace keeps one of each while it
   exists: protect_owner and the count in delete_workspace suffice, whoever
   demotes, removes, transfers, registers or deletes. *)
THEOREM NeverStrandedHolds == Spec => NeverStranded
<1>1. TenancyInv /\ [Next]_vars => [Stays]_vars
  BY Zenon, StepStays
<1>2. Spec => [][Stays]_vars
  BY <1>1, TenancyConsistent, PTL DEF Spec
<1> QED BY Zenon, <1>2 DEF NeverStranded, Stays

-----------------------------------------------------------------------------
LEMMA CurrentIsAuthoritative ==
    ASSUME NEW c, current_context(c)
    PROVE  Authoritative(c)
BY Zenon DEF current_context, is_active, with_current_membership, require_active, Authoritative

Acts ==
    /\ \A r \in Requests :
            /\ req[r] # None /\ req'[r] = None
            /\ <<tenants, caps, accounts, roles, owner, grants, keys, invites>>'
                 # <<tenants, caps, accounts, roles, owner, grants, keys, invites>>
            => Authoritative(req[r])
    /\ \A j \in Jobs : jobs[j].st # "done" /\ jobs'[j].st = "done" =>
            Authoritative(jobs[j].actor)

LEMMA StepActs == TenancyInv /\ [Next]_vars => Acts
<1> SUFFICES ASSUME TenancyInv, [Next]_vars PROVE Acts
  OBVIOUS
<1>1. ASSUME NEW r \in Requests, RequestStep(r) PROVE Acts
  <2>1. current_context(req[r]) /\ JobsEffect
    BY Zenon, <1>1, RequestEffects DEF RequestStep, TenancyInv, Effects
  <2>2. \A q \in Requests : q # r => req'[q] = req[q]
    BY <1>1 DEF RequestStep, Finished, TenancyInv, FlowTyped
  <2> QED BY Zenon, <2>1, <2>2, CurrentIsAuthoritative DEF Acts, JobsEffect
<1>2. ASSUME OtherOp, UNCHANGED req PROVE Acts
  <2>1. JobsEffect
    BY Zenon, <1>2, OtherEffects DEF TenancyInv, Effects
  <2> QED BY Zenon, <1>2, <2>1 DEF Acts, JobsEffect
<1>3. ASSUME Quiet PROVE Acts
  BY Zenon, <1>3, CurrentIsAuthoritative DEF Quiet, Acts, require_job_actor
<1> QED BY Zenon, <1>1, <1>2, <1>3, StepShape

(* Whatever a request or a job changes, it changes with a key, a tenant and a
   membership that are valid at that step: no handler relies on what
   authenticate read. *)
THEOREM AuthorityIsCurrentHolds == Spec => AuthorityIsCurrent
<1>1. TenancyInv /\ [Next]_vars => [Acts]_vars
  BY Zenon, StepActs
<1>2. Spec => [][Acts]_vars
  BY <1>1, TenancyConsistent, PTL DEF Spec
<1> QED BY Zenon, <1>2 DEF AuthorityIsCurrent, Acts

-----------------------------------------------------------------------------
(* The housekeeping. *)

(* Each component changes only in its own steps and with its surroundings. *)
LEMMA StepFrames ==
    ASSUME [HousekeepingNext]_housekeeping
    PROVE  /\ (MaintenanceStep /\ UNCHANGED now) \/ UNCHANGED upkeep
           /\ (LimitStep /\ UNCHANGED now) \/ UNCHANGED quota
           /\ BillingStep \/ UNCHANGED money \/ Surroundings
           /\ (ScheduleStep /\ UNCHANGED <<now, tenants>>)
                \/ UNCHANGED <<timetable, now, tenants>> \/ Surroundings
<1>1. CASE Surroundings
  BY Zenon, <1>1 DEF Surroundings
<1>2. CASE BillingStep /\ UNCHANGED <<tenants, now>>
  BY Zenon, <1>2 DEF BillingStep
<1>3. CASE ScheduleStep /\ UNCHANGED <<tenants, now>>
  BY Zenon, <1>3 DEF ScheduleStep
<1>4. CASE MaintenanceStep /\ UNCHANGED <<tenants, now>>
  BY Zenon, <1>4 DEF MaintenanceStep
<1>5. CASE LimitStep /\ UNCHANGED <<tenants, now>>
  BY Zenon, <1>5 DEF LimitStep
<1>6. CASE UNCHANGED housekeeping
  BY Zenon, <1>6 DEF housekeeping, chores
<1> QED
  BY Zenon, <1>1, <1>2, <1>3, <1>4, <1>5, <1>6 DEF HousekeepingNext, Chore

LEMMA ClockRuns ==
    ASSUME now \in Nat, [HousekeepingNext]_housekeeping
    PROVE  now' \in Nat /\ now <= now'
BY DEF HousekeepingNext, Surroundings, housekeeping

-----------------------------------------------------------------------------
(* Rate limits. *)

WindowRecords == [start: Nat, spent: Nat]
AdmittedRecords == [start: Nat, total: Nat, paid: Nat]

LimitsTyped ==
    /\ now \in Nat
    /\ buckets \in [Clients -> WindowRecords \cup {None}]
    /\ admitted \in [Clients -> AdmittedRecords]

(* A bucket's window is the last in which something was let through, and what
   was spent counts it unless the budget is gone; a client without a bucket has
   let its window pass. *)
Accounted(b, a, n) ==
    /\ a.start <= n
    /\ a.total <= MaxRequests \/ a.paid = 1
    /\ b = None => (a.total = 0 /\ a.paid = 0) \/ n - a.start >= Window
    /\ b # None => /\ b.start = a.start
                   /\ b.spent <= MaxRequests => a.total <= b.spent
                   /\ b.spent = 0 => a.paid = 0

LimitsInv == LimitsTyped /\ \A c \in Clients : Accounted(buckets[c], admitted[c], now)

LEMMA LimitsInitially == now \in Nat /\ LimitsInit => LimitsInv
<1> DEFINE z == [start |-> 0, total |-> 0, paid |-> 0]
<1>1. z \in AdmittedRecords /\ z.start = 0 /\ z.total = 0 /\ z.paid = 0
  BY DEF AdmittedRecords
<1>2. 0 <= MaxRequests /\ \A n \in Nat : 0 <= n
  BY LimitAssumption
<1> HIDE DEF z
<1>3. \A n \in Nat : Accounted(None, z, n)
  BY Zenon, <1>1, <1>2 DEF Accounted
<1>4. LimitsInit => /\ buckets = [c \in Clients |-> None]
                    /\ admitted = [c \in Clients |-> z]
  BY Zenon DEF LimitsInit, z
<1> QED BY Zenon, <1>1, <1>3, <1>4 DEF LimitsInv, LimitsTyped

(* A call that opens a window is let through, and is all the window has. *)
LEMMA FirstOfWindow ==
    ASSUME LimitsInv, NEW c \in Clients, NEW cost \in Nat,
           buckets[c] = None \/ Elapsed(buckets[c])
    PROVE  Admit(admitted[c], now, cost)
             = [start |-> now, total |-> cost, paid |-> IF cost > 0 THEN 1 ELSE 0]
<1> DEFINE a == admitted[c]
<1>1. a \in AdmittedRecords /\ now \in Nat
  BY Zenon DEF LimitsInv, LimitsTyped
<1>2. a.start = now => a.total = 0 /\ a.paid = 0
  <2>1. ~(now - now >= Window)
    BY <1>1, LimitAssumption
  <2>2. Accounted(buckets[c], a, now)
    BY Zenon DEF LimitsInv
  <2> HIDE DEF a
  <2> QED BY Zenon, <2>1, <2>2 DEF Accounted, Elapsed
<1> QED
  BY <1>1, <1>2 DEF Admit, AdmittedRecords

LEMMA OpenedAccounts ==
    ASSUME NEW n \in Nat, NEW cost \in Nat, NEW s \in Nat,
           s <= MaxRequests => s = cost, s = 0 => cost = 0
    PROVE  Accounted([start |-> n, spent |-> s],
                     [start |-> n, total |-> cost, paid |-> IF cost > 0 THEN 1 ELSE 0], n)
<1>1. [start |-> n, spent |-> s] # None
  BY LimitAssumption
<1>2. CASE cost > 0
  BY <1>1, <1>2, LimitAssumption DEF Accounted
<1>3. CASE cost = 0
  BY <1>1, <1>3, LimitAssumption DEF Accounted
<1> QED
  BY <1>2, <1>3

LEMMA ChargedAccounts ==
    ASSUME NEW b \in WindowRecords, NEW a \in AdmittedRecords, NEW n \in Nat, NEW cost \in Nat,
           NEW s \in Nat, Accounted(b, a, n),
           s <= MaxRequests => s = b.spent + cost, s = 0 => cost = 0 /\ b.spent = 0
    PROVE  Accounted([start |-> b.start, spent |-> s],
                     IF s <= MaxRequests \/ b.spent = 0 THEN Admit(a, b.start, cost) ELSE a, n)
<1> DEFINE c == [start |-> b.start, spent |-> s]
<1>1. c # None /\ b # None /\ c.start = b.start /\ c.spent = s
  BY LimitAssumption DEF WindowRecords
<1>2. /\ a.start \in Nat /\ a.total \in Nat /\ a.paid \in Nat /\ b.start \in Nat /\ b.spent \in Nat
      /\ a.start <= n /\ b.start = a.start
      /\ a.total <= MaxRequests \/ a.paid = 1
      /\ b.spent <= MaxRequests => a.total <= b.spent
      /\ b.spent = 0 => a.paid = 0
  BY Zenon, <1>1 DEF Accounted, WindowRecords, AdmittedRecords
<1>3. Admit(a, b.start, cost) = [start |-> b.start, total |-> a.total + cost,
                                 paid |-> a.paid + (IF cost > 0 THEN 1 ELSE 0)]
  BY Zenon, <1>2 DEF Admit
<1> HIDE DEF c
<1>4. CASE s <= MaxRequests \/ b.spent = 0
  <2> DEFINE d == Admit(a, b.start, cost)
  <2>1. /\ d.start = b.start /\ d.total = a.total + cost
        /\ cost > 0 => d.paid = a.paid + 1
        /\ cost = 0 => d.paid = a.paid
    BY <1>2, <1>3
  <2> HIDE DEF d
  <2>2. Accounted(c, d, n)
    BY <1>1, <1>2, <1>4, <2>1, LimitAssumption DEF Accounted
  <2> QED
    BY Zenon, <1>4, <2>2 DEF d, c
<1>5. CASE ~(s <= MaxRequests \/ b.spent = 0)
  <2>1. Accounted(c, a, n)
    BY Zenon, <1>1, <1>2, <1>5, LimitAssumption DEF Accounted
  <2> QED
    BY Zenon, <1>5, <2>1 DEF c
<1> QED
  BY Zenon, <1>4, <1>5

(* A bucket is evicted when its window is over. *)
LEMMA EvictedAccounts ==
    ASSUME NEW b, NEW a, NEW n, b # None, n - b.start >= Window, Accounted(b, a, n)
    PROVE  Accounted(None, a, n)
BY Zenon DEF Accounted

LEMMA AccountsLast ==
    ASSUME NEW b, NEW a \in AdmittedRecords, NEW n \in Nat, NEW m \in Nat, n <= m,
           Accounted(b, a, n)
    PROVE  Accounted(b, a, m)
<1>1. a.start \in Nat
  BY Zenon DEF AdmittedRecords
<1>2. n - a.start >= Window => m - a.start >= Window
  BY <1>1, LimitAssumption
<1>3. a.start <= m
  BY <1>1 DEF Accounted
<1> QED
  BY Zenon, <1>2, <1>3 DEF Accounted

LEMMA AllowCostAccounts ==
    ASSUME LimitsInv, NEW c \in Clients, NEW cost \in Costs, allow_cost(c, cost), now' = now
    PROVE  LimitsInv'
<1> DEFINE entry == Entry(Collected[c])
           spent == saturating_add(entry.spent, cost)
<1>1. /\ now \in Nat /\ cost \in Nat
      /\ buckets \in [Clients -> WindowRecords \cup {None}]
      /\ admitted \in [Clients -> AdmittedRecords]
      /\ \A x \in Clients : Accounted(buckets[x], admitted[x], now)
  BY Zenon, LimitAssumption DEF LimitsInv, LimitsTyped
<1>2. /\ Collected \in [Clients -> WindowRecords \cup {None}]
      /\ \A x \in Clients :
            \/ Collected[x] = buckets[x]
            \/ Collected[x] = None /\ buckets[x] # None /\ Elapsed(buckets[x])
  BY Zenon, <1>1 DEF Collected, retain
<1>3. entry \in WindowRecords
  BY Zenon, <1>1, <1>2 DEF Entry, WindowRecords
<1>4. /\ spent \in Nat /\ (spent <= MaxRequests => spent = entry.spent + cost)
      /\ (spent = 0 => cost = 0 /\ entry.spent = 0)
  BY <1>1, <1>3, LimitAssumption DEF saturating_add, WindowRecords
<1>5. /\ buckets' = [Collected EXCEPT ![c] = [start |-> entry.start, spent |-> spent]]
      /\ admitted' = IF spent <= MaxRequests \/ entry.spent = 0
                     THEN [admitted EXCEPT ![c] = Admit(admitted[c], entry.start, cost)] ELSE admitted
  BY Zenon DEF allow_cost
<1>6. Admit(admitted[c], entry.start, cost) \in AdmittedRecords
  BY <1>1, <1>3 DEF Admit, AdmittedRecords, WindowRecords
<1>7. LimitsTyped'
  BY Zenon, <1>1, <1>2, <1>3, <1>4, <1>5, <1>6 DEF LimitsTyped, WindowRecords
<1>8. ASSUME NEW x \in Clients, x # c PROVE Accounted(buckets[x], admitted[x], now)'
  <2>1. buckets'[x] = Collected[x] /\ admitted'[x] = admitted[x]
    BY Zenon, <1>1, <1>2, <1>5, <1>8
  <2>2. CASE Collected[x] = buckets[x]
    BY Zenon, <1>1, <2>1, <2>2 DEF Accounted
  <2>3. CASE Collected[x] = None /\ buckets[x] # None /\ Elapsed(buckets[x])
    <3>1. Accounted(None, admitted[x], now)
      BY Zenon, <1>1, <2>3, EvictedAccounts DEF Elapsed
    <3> QED BY Zenon, <2>1, <2>3, <3>1
  <2> QED
    BY Zenon, <1>2, <2>2, <2>3
<1>9. /\ buckets'[c] = [start |-> entry.start, spent |-> spent]
      /\ buckets'[c] # None
      /\ admitted'[c] = IF spent <= MaxRequests \/ entry.spent = 0
                        THEN Admit(admitted[c], entry.start, cost) ELSE admitted[c]
  <2>1. [start |-> entry.start, spent |-> spent] # None
    BY <1>3, <1>4, LimitAssumption DEF WindowRecords
  <2> QED
    BY Zenon, <1>1, <1>2, <1>5, <2>1
<1>10. ASSUME buckets[c] = None \/ Elapsed(buckets[c])
       PROVE  Accounted(buckets[c], admitted[c], now)'
  <2>1. entry = [start |-> now, spent |-> 0]
    BY Zenon, <1>1, <1>2, <1>10 DEF Entry
  <2>2. admitted'[c] = [start |-> now, total |-> cost, paid |-> IF cost > 0 THEN 1 ELSE 0]
    <3>1. entry.start = now /\ entry.spent = 0
      BY <2>1
    <3>2. admitted'[c] = Admit(admitted[c], now, cost)
      BY Zenon, <1>9, <3>1
    <3> QED BY Zenon, <1>1, <1>10, <3>2, FirstOfWindow
  <2>3. /\ buckets'[c] = [start |-> now, spent |-> spent] /\ spent \in Nat
        /\ spent <= MaxRequests => spent = cost
        /\ spent = 0 => cost = 0
    <3>1. entry.start = now /\ entry.spent = 0
      BY <2>1
    <3>2. 0 + cost = cost
      <4>1. \A i \in Nat : 0 + i = i
        OBVIOUS
      <4> QED BY Zenon, <1>1, <4>1
    <3> QED BY Zenon, <1>4, <1>9, <3>1, <3>2
  <2> HIDE DEF entry, spent
  <2> QED BY Zenon, <1>1, <2>2, <2>3, OpenedAccounts
<1>11. ASSUME buckets[c] # None /\ ~Elapsed(buckets[c])
       PROVE  Accounted(buckets[c], admitted[c], now)'
  <2>1. entry = buckets[c]
    BY Zenon, <1>1, <1>2, <1>11 DEF Entry
  <2>2. /\ buckets'[c] = [start |-> buckets[c].start, spent |-> spent]
        /\ admitted'[c] = IF spent <= MaxRequests \/ buckets[c].spent = 0
                          THEN Admit(admitted[c], buckets[c].start, cost) ELSE admitted[c]
    BY Zenon, <1>9, <2>1
  <2>3. /\ buckets[c] \in WindowRecords /\ admitted[c] \in AdmittedRecords /\ spent \in Nat
        /\ Accounted(buckets[c], admitted[c], now)
        /\ spent <= MaxRequests => spent = buckets[c].spent + cost
        /\ spent = 0 => cost = 0 /\ buckets[c].spent = 0
    BY Zenon, <1>1, <1>3, <1>4, <2>1
  <2> HIDE DEF entry, spent
  <2>4. Accounted([start |-> buckets[c].start, spent |-> spent],
                  IF spent <= MaxRequests \/ buckets[c].spent = 0
                  THEN Admit(admitted[c], buckets[c].start, cost) ELSE admitted[c], now)
    BY Zenon, <1>1, <2>3, ChargedAccounts
  <2> QED BY Zenon, <2>2, <2>4
<1> QED
  BY Zenon, <1>7, <1>8, <1>10, <1>11 DEF LimitsInv

(* What is let through in a window stays within its budget, for any clients,
   costs, window and eviction threshold: allow_cost counts every call into the
   bucket of the client's window, and an evicted bucket's window is over. *)
THEOREM WindowBudgetHolds == HousekeepingSpec => []WindowBudget
<1>1. now \in Nat /\ HousekeepingInit => LimitsInv
  BY Zenon, LimitsInitially DEF HousekeepingInit
<1>2. LimitsInv /\ [HousekeepingNext]_housekeeping => LimitsInv'
  <2> SUFFICES ASSUME LimitsInv, [HousekeepingNext]_housekeeping PROVE LimitsInv'
    BY Zenon
  <2>1. CASE LimitStep /\ UNCHANGED now
    BY Zenon, <2>1, AllowCostAccounts DEF LimitStep
  <2>2. CASE UNCHANGED quota
    <3>1. now' \in Nat /\ now <= now' /\ now \in Nat
      BY Zenon, ClockRuns DEF LimitsInv, LimitsTyped
    <3>2. buckets' = buckets /\ admitted' = admitted
      BY Zenon, <2>2 DEF quota
    <3>3. ASSUME NEW c \in Clients PROVE Accounted(buckets[c], admitted[c], now)'
      BY Zenon, <3>1, <3>2, AccountsLast DEF LimitsInv, LimitsTyped
    <3> QED
      BY Zenon, <3>1, <3>2, <3>3 DEF LimitsInv, LimitsTyped
  <2> QED
    BY Zenon, <2>1, <2>2, StepFrames
<1>3. LimitsInv => WindowBudget
  BY Zenon DEF LimitsInv, Accounted, WindowBudget
<1> QED
  BY <1>1, <1>2, <1>3, PTL DEF HousekeepingSpec

-----------------------------------------------------------------------------
(* Maintenance. *)

Samples == [at: Nat, busy: BOOLEAN]
Rows == [mode: Modes, reason: Reasons \cup {AutoReason, None}]
Histories == [busy: Nat \cup {None}, quiet: Nat \cup {None}, from: Rows \cup {None},
              to: {"off", "read_only", None}]

(* The samples s have all been b since the one taken at a time, and for long. *)
HeldSince(s, since, b) == \E i \in DOMAIN s : s[i].at = since /\ \A k \in i..Len(s) : s[k].busy = b
Long(s, b) ==
    \E i \in DOMAIN s : s[Len(s)].at - s[i].at >= Sustain /\ \A k \in i..Len(s) : s[k].busy = b

(* A history tells what the guard has sampled, and a transition that is to be
   made starts from a row the guard may change and has its reason. *)
Grounded(h, s) ==
    /\ h.busy # None => HeldSince(s, h.busy, TRUE)
    /\ h.quiet # None => HeldSince(s, h.quiet, FALSE)
    /\ h.to # None =>
        /\ h.from \in Rows
        /\ \/ h.to = "read_only" /\ h.from.mode = "off" /\ Long(s, TRUE)
           \/ h.to = "off" /\ h.from = Maintained("read_only", AutoReason) /\ Long(s, FALSE)

GuardsInv ==
    /\ now \in Nat
    /\ maint \in Rows
    /\ guards \in [Guards -> Histories]
    /\ samples \in [Guards -> Seq(Samples)]
    /\ \A g \in Guards : Grounded(guards[g], samples[g])

LEMMA AppendSample ==
    ASSUME NEW s \in Seq(Samples), NEW n \in Nat, NEW b \in BOOLEAN, NEW u,
           u = Append(s, [at |-> n, busy |-> b])
    PROVE  /\ u \in Seq(Samples)
           /\ HeldSince(u, n, b)
           /\ \A since : HeldSince(s, since, b) => HeldSince(u, since, b)
           /\ \A since \in Nat : HeldSince(u, since, b) /\ n - since >= Sustain => Long(u, b)
<1>1. /\ u \in Seq(Samples) /\ Len(u) = Len(s) + 1 /\ Len(s) \in Nat
      /\ DOMAIN s = 1..Len(s) /\ DOMAIN u = 1..Len(u)
      /\ \A i \in 1..Len(s) : u[i] = s[i]
      /\ u[Len(u)] = [at |-> n, busy |-> b]
  BY DEF Samples
<1>2. u[Len(u)].at = n /\ u[Len(u)].busy = b
  BY <1>1
<1>3. HeldSince(u, n, b)
  BY <1>1, <1>2 DEF HeldSince
<1>4. ASSUME NEW since, HeldSince(s, since, b) PROVE HeldSince(u, since, b)
  <2>1. PICK i \in DOMAIN s : s[i].at = since /\ \A k \in i..Len(s) : s[k].busy = b
    BY Zenon, <1>4 DEF HeldSince
  <2>2. i \in DOMAIN u /\ u[i].at = since
    BY <1>1, <2>1
  <2>3. ASSUME NEW k \in i..Len(u) PROVE u[k].busy = b
    <3>1. CASE k = Len(u)
      BY Zenon, <1>2, <3>1
    <3>2. CASE k # Len(u)
      BY <1>1, <2>1, <3>2
    <3> QED
      BY Zenon, <3>1, <3>2
  <2> QED
    BY Zenon, <2>2, <2>3 DEF HeldSince
<1>5. ASSUME NEW since \in Nat, HeldSince(u, since, b), n - since >= Sustain PROVE Long(u, b)
  BY Zenon, <1>2, <1>5 DEF HeldSince, Long
<1> QED
  BY Zenon, <1>1, <1>3, <1>4, <1>5

(* What a poll records follows from what it and the polls before it have seen. *)
LEMMA SampleGrounds ==
    ASSUME GuardsInv, NEW g \in Guards, NEW b \in BOOLEAN, SampleLoad(g, b), now' = now
    PROVE  GuardsInv'
<1> DEFINE s == samples[g]
           u == Append(s, [at |-> now, busy |-> b])
           h == observe(guards[g], b)
           d == decide(h, maint)
           k == [h EXCEPT !.from = IF d = None THEN None ELSE maint, !.to = d]
<1>1. /\ now \in Nat /\ maint \in Rows /\ guards[g] \in Histories /\ s \in Seq(Samples)
      /\ guards \in [Guards -> Histories] /\ samples \in [Guards -> Seq(Samples)]
      /\ Grounded(guards[g], s)
  BY Zenon DEF GuardsInv
<1>2. /\ samples' = [samples EXCEPT ![g] = u] /\ guards' = [guards EXCEPT ![g] = k] /\ maint' = maint
  BY Zenon DEF SampleLoad
<1>3. /\ u \in Seq(Samples)
      /\ HeldSince(u, now, b)
      /\ \A since : HeldSince(s, since, b) => HeldSince(u, since, b)
      /\ \A since \in Nat : HeldSince(u, since, b) /\ now - since >= Sustain => Long(u, b)
  <2> HIDE DEF s
  <2> QED
    BY <1>1, AppendSample, Zenon
<1>4. /\ h \in Histories
      /\ h.busy # None => b = TRUE /\ HeldSince(u, h.busy, b)
      /\ h.quiet # None => b = FALSE /\ HeldSince(u, h.quiet, b)
  <2>1. h \in Histories
    BY <1>1, Zenon DEF observe, Since, Histories
  <2>2. CASE b = TRUE
    <3>1. h.quiet = None /\ h.busy = Since(guards[g].busy)
      BY Zenon, <1>1, <2>2 DEF observe, Histories
    <3> QED
      BY <1>1, <1>3, <2>1, <2>2, <3>1, Zenon DEF Since, Grounded
  <2>3. CASE b = FALSE
    <3>1. h.busy = None /\ h.quiet = Since(guards[g].quiet)
      BY Zenon, <1>1, <2>3 DEF observe, Histories
    <3> QED
      BY <1>1, <1>3, <2>1, <2>3, <3>1, Zenon DEF Since, Grounded
  <2> QED
    BY <2>1, <2>2, <2>3, Zenon
<1> HIDE DEF u, h, s
<1>5. /\ d \in {"off", "read_only", None}
      /\ d # None =>
            \/ d = "read_only" /\ maint.mode = "off" /\ Lasted(h.busy)
            \/ d = "off" /\ maint.mode = "read_only" /\ maint.reason = AutoReason /\ Lasted(h.quiet)
  BY Zenon DEF decide
<1> HIDE DEF d
<1>6. /\ k \in Histories /\ k.busy = h.busy /\ k.quiet = h.quiet /\ k.to = d
      /\ k.from = IF d = None THEN None ELSE maint
  BY <1>1, <1>4, <1>5, Zenon DEF Histories
<1> HIDE DEF k
<1>7. Grounded(k, u)
  <2>1. k.busy # None => HeldSince(u, k.busy, TRUE)
    BY <1>4, <1>6, Zenon
  <2>2. k.quiet # None => HeldSince(u, k.quiet, FALSE)
    BY <1>4, <1>6, Zenon
  <2>3. Lasted(h.busy) => Long(u, TRUE)
    BY <1>3, <1>4, Zenon DEF Lasted, Histories
  <2>4. Lasted(h.quiet) => Long(u, FALSE)
    BY <1>3, <1>4, Zenon DEF Lasted, Histories
  <2>5. maint.mode = "read_only" /\ maint.reason = AutoReason => maint = Maintained("read_only", AutoReason)
    BY Zenon, <1>1 DEF Maintained, Rows
  <2> QED
    BY <1>1, <1>5, <1>6, <2>1, <2>2, <2>3, <2>4, <2>5, Zenon DEF Grounded
<1>8. ASSUME NEW x \in Guards PROVE Grounded(guards'[x], samples'[x])
  <2>1. CASE x = g
    BY Zenon, <1>1, <1>2, <1>7, <2>1
  <2>2. CASE x # g
    <3>1. guards'[x] = guards[x] /\ samples'[x] = samples[x]
      BY Zenon, <1>1, <1>2, <2>2
    <3> QED
      BY Zenon, <3>1 DEF GuardsInv
  <2> QED
    BY Zenon, <2>1, <2>2
<1>9. /\ guards' \in [Guards -> Histories]
      /\ samples' \in [Guards -> Seq(Samples)]
  BY Zenon, <1>1, <1>2, <1>3, <1>6
<1> QED
  BY Zenon, <1>1, <1>2, <1>8, <1>9 DEF GuardsInv

LEMMA GuardsInitially == now \in Nat /\ MaintenanceInit => GuardsInv
<1> SUFFICES ASSUME now \in Nat, MaintenanceInit PROVE GuardsInv
  BY Zenon
<1>1. now \in Nat /\ maint \in Rows
  BY Zenon DEF MaintenanceInit, Maintained, Rows, Modes
<1>2. NoHistory \in Histories
  BY Zenon DEF NoHistory, Histories
<1>3. \A g \in Guards : Grounded(guards[g], samples[g])
  BY Zenon DEF MaintenanceInit, NoHistory, Grounded
<1> QED
  BY <1>1, <1>2, <1>3 DEF GuardsInv, MaintenanceInit

LEMMA GuardsStep ==
    ASSUME GuardsInv, [HousekeepingNext]_housekeeping
    PROVE  GuardsInv'
<1>1. /\ now \in Nat /\ now' \in Nat /\ maint \in Rows
      /\ guards \in [Guards -> Histories] /\ samples \in [Guards -> Seq(Samples)]
      /\ \A g \in Guards : Grounded(guards[g], samples[g])
  BY Zenon, ClockRuns DEF GuardsInv
<1>2. NoHistory \in Histories /\ \A s : Grounded(NoHistory, s)
  BY Zenon DEF NoHistory, Histories, Grounded
<1>3. CASE UNCHANGED upkeep
  BY Zenon, <1>1, <1>3 DEF upkeep, GuardsInv
<1>4. ASSUME NEW m \in Modes, NEW w \in Reasons \cup {None}, set_maintenance(m, w)
      PROVE  GuardsInv'
  <2>1. maint' \in Rows
    BY Zenon, <1>4 DEF set_maintenance, Maintained, Rows
  <2> QED
    BY Zenon, <1>1, <1>4, <2>1 DEF set_maintenance, GuardsInv
<1>5. ASSUME NEW g \in Guards, SampleFails(g) PROVE GuardsInv'
  <2>1. /\ guards' = [guards EXCEPT ![g] = NoHistory] /\ samples' = [samples EXCEPT ![g] = <<>>]
        /\ maint' = maint
    BY Zenon, <1>5 DEF SampleFails
  <2>2. guards' \in [Guards -> Histories] /\ samples' \in [Guards -> Seq(Samples)]
    BY <1>1, <1>2, <2>1
  <2>3. ASSUME NEW x \in Guards PROVE Grounded(guards'[x], samples'[x])
    BY Zenon, <1>1, <1>2, <2>1
  <2> QED
    BY Zenon, <1>1, <2>1, <2>2, <2>3 DEF GuardsInv
<1>6. ASSUME NEW g \in Guards, set_if_current(g) PROVE GuardsInv'
  <2> DEFINE k == [guards[g] EXCEPT !.from = None, !.to = None]
  <2>1. /\ k \in Histories /\ k.busy = guards[g].busy /\ k.quiet = guards[g].quiet /\ k.to = None
    BY <1>1, Zenon DEF Histories
  <2>2. Grounded(k, samples[g])
    BY <1>1, <2>1, Zenon DEF Grounded
  <2>3. PICK n \in {NoHistory, k} : guards' = [guards EXCEPT ![g] = n]
    BY <1>1, <1>6, Zenon DEF set_if_current
  <2>4. samples' = samples /\ n \in Histories /\ Grounded(n, samples[g])
    BY Zenon, <1>2, <1>6, <2>1, <2>2 DEF set_if_current
  <2>5. maint' \in Rows
    <3>1. guards[g].to # None /\ guards[g].to \in Modes
      BY <1>1, <1>6, Zenon DEF set_if_current, Grounded, Modes
    <3> QED
      BY <1>1, <1>6, <3>1 DEF set_if_current, Maintained, Rows
  <2>6. ASSUME NEW x \in Guards PROVE Grounded(guards'[x], samples'[x])
    BY Zenon, <1>1, <2>3, <2>4
  <2>7. guards' \in [Guards -> Histories]
    BY Zenon, <1>1, <2>3, <2>4
  <2> QED
    BY Zenon, <1>1, <2>4, <2>5, <2>6, <2>7 DEF GuardsInv
<1> QED
  BY Zenon, <1>3, <1>4, <1>5, <1>6, SampleGrounds, StepFrames DEF MaintenanceStep

(* A transition is written only over the row it was decided on. *)
LEMMA TransitionIsGrounded ==
    ASSUME GuardsInv, [HousekeepingNext]_housekeeping, NEW g \in Guards,
           guards'[g] # guards[g], maint' # maint
    PROVE  /\ Grounded(guards[g], samples[g]) /\ guards[g].to # None
           /\ maint = guards[g].from /\ maint'.mode = guards[g].to
<1>1. PICK x \in Guards : set_if_current(x)
  <2>1. MaintenanceStep
    BY Zenon, StepFrames DEF upkeep
  <2> QED
    BY <2>1, Zenon DEF MaintenanceStep, set_maintenance, SampleLoad, SampleFails
<1>2. guards \in [Guards -> Histories]
  BY Zenon DEF GuardsInv
<1>3. x = g
  BY Zenon, <1>1, <1>2 DEF set_if_current
<1> QED
  BY <1>1, <1>2, <1>3, SMTT(30) DEF set_if_current, Current, Maintained, GuardsInv

(* No guard changes a mode an operator has put the deployment in: the row a
   transition was decided on is compared when it is written (set_if_current),
   and decide starts from off or from what a guard has set. *)
THEOREM OperatorPrevailsHolds == HousekeepingSpec => OperatorPrevails
<1> DEFINE P == guards' # guards /\ maint' # maint =>
                  maint.mode = "off" \/ maint = Maintained("read_only", AutoReason)
<1>1. now \in Nat /\ HousekeepingInit => GuardsInv
  BY Zenon, GuardsInitially DEF HousekeepingInit
<1>2. GuardsInv /\ [HousekeepingNext]_housekeeping => GuardsInv'
  BY Zenon, GuardsStep
<1>3. GuardsInv /\ [HousekeepingNext]_housekeeping => [P]_upkeep
  <2> SUFFICES ASSUME GuardsInv, [HousekeepingNext]_housekeeping, guards' # guards, maint' # maint
               PROVE  maint.mode = "off" \/ maint = Maintained("read_only", AutoReason)
    BY Zenon
  <2>1. PICK g \in Guards : guards'[g] # guards[g]
    BY GuardsStep DEF GuardsInv
  <2>2. Grounded(guards[g], samples[g]) /\ guards[g].to # None /\ maint = guards[g].from
    BY Zenon, <2>1, TransitionIsGrounded
  <2> QED
    BY <2>2, Zenon DEF Grounded
<1> QED
  BY <1>1, <1>2, <1>3, PTL DEF HousekeepingSpec, OperatorPrevails

(* A guard switches only after the load it saw was high, or low, without a break
   for the sustain time: LoadHistory::observe forgets a start when the load turns
   or a sample fails. *)
THEOREM SwitchesAreSustainedHolds == HousekeepingSpec => SwitchesAreSustained
<1> DEFINE P == \A g \in Guards : guards'[g] # guards[g] /\ maint' # maint =>
                  LET seen == samples[g]
                      last == seen[Len(seen)]
                  IN \E i \in DOMAIN seen :
                        /\ last.at - seen[i].at >= Sustain
                        /\ \A k \in i..Len(seen) : seen[k].busy = (maint'.mode = "read_only")
<1>1. now \in Nat /\ HousekeepingInit => GuardsInv
  BY Zenon, GuardsInitially DEF HousekeepingInit
<1>2. GuardsInv /\ [HousekeepingNext]_housekeeping => GuardsInv'
  BY Zenon, GuardsStep
<1>3. GuardsInv /\ [HousekeepingNext]_housekeeping => [P]_upkeep
  <2> SUFFICES ASSUME GuardsInv, [HousekeepingNext]_housekeeping, NEW g \in Guards,
                      guards'[g] # guards[g], maint' # maint
               PROVE  \E i \in DOMAIN samples[g] :
                        /\ samples[g][Len(samples[g])].at - samples[g][i].at >= Sustain
                        /\ \A k \in i..Len(samples[g]) :
                             samples[g][k].busy = (maint'.mode = "read_only")
    BY Zenon
  <2>1. Long(samples[g], maint'.mode = "read_only")
    BY TransitionIsGrounded, Zenon DEF Grounded
  <2> QED
    BY Zenon, <2>1 DEF Long
<1> QED
  BY <1>1, <1>2, <1>3, PTL DEF HousekeepingSpec, SwitchesAreSustained

-----------------------------------------------------------------------------
(* Reindex schedules. *)

Schedules == {NoSchedule} \cup [every: {n \in Nat : n >= MinInterval}, due: Nat]
Ticks == [at: Nat, owner: BOOLEAN, read: [Tenants -> Schedules],
          todo: SUBSET Tenants, locked: SUBSET Tenants, advanced: SUBSET Tenants]

Spaced(q) == \A i, j \in DOMAIN q : i < j => q[j] - q[i] >= MinInterval
Before(q, n) == \A i \in DOMAIN q : q[i] + MinInterval <= n
Until(q, n) == \A i \in DOMAIN q : q[i] <= n

(* What holds of a tick k at time n: the tenants it is about to dispatch were
   due, and those it has advanced are active and scheduled until it ends. *)
Ticking(k, n, rs, tn, sc) ==
    /\ k.at <= n
    /\ ~k.owner => k.todo = {} /\ k.advanced = {}
    /\ \A t \in k.todo \cup k.advanced : Before(rs[t], k.at) /\ k.read[t] # NoSchedule
    /\ k.advanced \subseteq k.locked
    /\ \A t \in k.advanced : tn[t] = "active" /\ sc[t] # NoSchedule

Owning(k) == k # None /\ k.owner

SchedulesTyped ==
    /\ now \in Nat
    /\ schedules \in [Tenants -> Schedules]
    /\ ticks \in [Replicas -> Ticks \cup {None}]
    /\ runs \in [Tenants -> Seq(Nat)]

RunsInv ==
    \A t \in Tenants :
        /\ Spaced(runs[t]) /\ Until(runs[t], now)
        /\ Scheduled(t) => Before(runs[t], schedules[t].due)

TicksInv ==
    /\ \A r \in Replicas : ticks[r] # None => Ticking(ticks[r], now, runs, tenants, schedules)
    /\ \A r, x \in Replicas : Owning(ticks[r]) /\ Owning(ticks[x]) => r = x

SchedulesInv == SchedulesTyped /\ RunsInv /\ TicksInv

LEMMA SchedulesInitially == now \in Nat /\ SchedulesInit => SchedulesInv
<1> SUFFICES ASSUME now \in Nat, SchedulesInit PROVE SchedulesInv
  BY Zenon
<1>1. SchedulesTyped
  BY DEF SchedulesInit, SchedulesTyped, Schedules
<1>2. RunsInv
  BY DEF SchedulesInit, RunsInv, Spaced, Until, Scheduled
<1>3. TicksInv
  BY Zenon DEF SchedulesInit, TicksInv, Owning
<1> QED
  BY Zenon, <1>1, <1>2, <1>3 DEF SchedulesInv

(* A step that changes one tick only. *)
LEMMA OneTick ==
    ASSUME SchedulesInv, NEW r \in Replicas, NEW k \in Ticks \cup {None},
           ticks' = [ticks EXCEPT ![r] = k], UNCHANGED <<schedules, runs, now, tenants>>,
           k # None => Ticking(k, now, runs, tenants, schedules),
           Owning(k) => \A x \in Replicas \ {r} : ~Owning(ticks[x])
    PROVE  SchedulesInv'
<1>1. SchedulesTyped /\ RunsInv /\ TicksInv
  BY Zenon DEF SchedulesInv
<1>2. SchedulesTyped' /\ RunsInv'
  BY Zenon, <1>1 DEF SchedulesTyped, RunsInv, Scheduled
<1>3. \A x \in Replicas : ticks'[x] = IF x = r THEN k ELSE ticks[x]
  BY Zenon, <1>1 DEF SchedulesTyped
<1>4. ASSUME NEW x \in Replicas, ticks'[x] # None
      PROVE  Ticking(ticks'[x], now', runs', tenants', schedules')
  BY Zenon, <1>1, <1>3, <1>4 DEF TicksInv
<1>5. ASSUME NEW x \in Replicas, NEW y \in Replicas, Owning(ticks'[x]), Owning(ticks'[y])
      PROVE  x = y
  BY Zenon, <1>1, <1>3, <1>5 DEF TicksInv
<1>6. TicksInv'
  BY Zenon, <1>4, <1>5 DEF TicksInv
<1> QED
  BY Zenon, <1>2, <1>6 DEF SchedulesInv

LEMMA TickBeginsSafe ==
    ASSUME SchedulesInv, NEW r \in Replicas, TickBegins(r), UNCHANGED <<now, tenants>>
    PROVE  SchedulesInv'
<1> DEFINE k == [at |-> now, owner |-> FALSE, read |-> schedules,
                 todo |-> {}, locked |-> {}, advanced |-> {}]
<1>1. now \in Nat /\ schedules \in [Tenants -> Schedules]
  BY Zenon DEF SchedulesInv, SchedulesTyped
<1>2. k \in Ticks /\ k.at = now /\ ~k.owner /\ k.todo = {} /\ k.advanced = {}
  BY Zenon, <1>1 DEF Ticks
<1>3. ticks' = [ticks EXCEPT ![r] = k] /\ UNCHANGED <<schedules, runs>>
  BY Zenon DEF TickBegins
<1> HIDE DEF k
<1>4. Ticking(k, now, runs, tenants, schedules)
  BY <1>1, <1>2 DEF Ticking
<1> QED
  BY <1>2, <1>3, <1>4, OneTick, Zenon DEF Owning

LEMMA TickEndsSafe ==
    ASSUME SchedulesInv, NEW r \in Replicas, TickEnds(r), UNCHANGED <<now, tenants>>
    PROVE  SchedulesInv'
<1>1. ticks' = [ticks EXCEPT ![r] = None] /\ UNCHANGED <<schedules, runs>>
  BY Zenon DEF TickEnds
<1> QED
  BY <1>1, OneTick, Zenon DEF Owning

(* The tenants an owner finds due have not run for the shortest interval. *)
LEMMA TickOwnsSafe ==
    ASSUME SchedulesInv, NEW r \in Replicas, TickOwns(r), UNCHANGED <<now, tenants>>
    PROVE  SchedulesInv'
<1> DEFINE due == {t \in Tenants : Scheduled(t) /\ is_due(schedules[t].due, ticks[r].at)}
           k == [ticks[r] EXCEPT !.owner = TRUE, !.read = schedules, !.todo = due]
<1>1. /\ ticks[r] \in Ticks /\ ticks[r] # None /\ ~ticks[r].owner
      /\ schedules \in [Tenants -> Schedules] /\ runs \in [Tenants -> Seq(Nat)]
      /\ ticks \in [Replicas -> Ticks \cup {None}]
      /\ Ticking(ticks[r], now, runs, tenants, schedules)
  BY Zenon DEF SchedulesInv, SchedulesTyped, TicksInv, TickOwns
<1>2. /\ ticks' = [ticks EXCEPT ![r] = k] /\ UNCHANGED <<schedules, runs>>
      /\ acquire_scheduler_ownership(r)
  BY <1>1, Zenon DEF TickOwns
<1>3. due \in SUBSET Tenants
  BY Zenon
<1>4. ASSUME NEW t \in due PROVE Before(runs[t], ticks[r].at) /\ schedules[t] # NoSchedule
  <2>1. t \in Tenants /\ schedules[t] # NoSchedule /\ schedules[t].due <= ticks[r].at
    BY Zenon DEF Scheduled, is_due
  <2>2. Before(runs[t], schedules[t].due)
    BY Zenon, <2>1 DEF SchedulesInv, RunsInv, Scheduled
  <2>3. schedules[t].due \in Nat /\ ticks[r].at \in Nat /\ runs[t] \in Seq(Nat)
    BY Zenon, <1>1, <2>1 DEF Schedules, Ticks
  <2>4. \A i \in DOMAIN runs[t] : runs[t][i] \in Nat
    BY <2>3
  <2> QED
    BY <2>1, <2>2, <2>3, <2>4, SchedulesAssumption, SMTT(30) DEF Before
<1> HIDE DEF due
<1>5. /\ k \in Ticks /\ k.at = ticks[r].at /\ k.owner = TRUE /\ k.read = schedules /\ k.todo = due
      /\ k.locked = ticks[r].locked /\ k.advanced = ticks[r].advanced
  BY <1>1, <1>3, Zenon DEF Ticks
<1> HIDE DEF k
<1>6. ticks[r].advanced = {} /\ ticks[r].at <= now
  BY Zenon, <1>1 DEF Ticking
<1>7. Ticking(k, now, runs, tenants, schedules)
  BY Zenon, <1>4, <1>5, <1>6 DEF Ticking
<1>8. \A x \in Replicas \ {r} : ~Owning(ticks[x])
  BY Zenon, <1>2 DEF acquire_scheduler_ownership, Owning
<1> QED
  BY <1>2, <1>5, <1>7, <1>8, OneTick, Zenon

(* A tenant is advanced only when it is seen active and scheduled. *)
LEMMA TickTenantSafe ==
    ASSUME SchedulesInv, NEW r \in Replicas, TickTenant(r), UNCHANGED <<now, tenants>>
    PROVE  SchedulesInv'
<1>1. /\ ticks[r] \in Ticks /\ ticks[r] # None /\ ticks[r].owner
      /\ ticks \in [Replicas -> Ticks \cup {None}]
      /\ Ticking(ticks[r], now, runs, tenants, schedules)
  BY Zenon DEF SchedulesInv, SchedulesTyped, TicksInv, TickTenant
<1>2. PICK t \in ticks[r].todo :
        /\ tenants[t] = "active" => Scheduled(t)
        /\ ticks' = [ticks EXCEPT ![r].todo = @ \ {t}, ![r].locked = Locked(r, t),
                        ![r].advanced = IF tenants[t] = "active" THEN @ \cup {t} ELSE @]
  BY Zenon DEF TickTenant
<1> DEFINE more == IF tenants[t] = "active" THEN ticks[r].advanced \cup {t} ELSE ticks[r].advanced
           k == [ticks[r] EXCEPT !.todo = @ \ {t}, !.locked = @ \cup {t}, !.advanced = more]
<1>3. t \in Tenants /\ ticks[r].todo \subseteq Tenants /\ ticks[r].locked \subseteq Tenants
      /\ ticks[r].advanced \subseteq Tenants
  BY Zenon, <1>1 DEF Ticks
<1>4. ticks' = [ticks EXCEPT ![r] = k] /\ UNCHANGED <<schedules, runs>>
  BY <1>1, <1>2, Zenon DEF TickTenant, Locked
<1>5. /\ more \subseteq ticks[r].advanced \cup {t}
      /\ t \in more => t \in ticks[r].advanced \/ tenants[t] = "active"
  BY Zenon
<1> HIDE DEF more
<1>6. /\ k.at = ticks[r].at /\ k.owner = ticks[r].owner /\ k.read = ticks[r].read
      /\ k.todo = ticks[r].todo \ {t} /\ k.locked = ticks[r].locked \cup {t} /\ k.advanced = more
      /\ k \in Ticks
  BY <1>1, <1>3, <1>5, Zenon DEF Ticks
<1> HIDE DEF k
<1>7. /\ k.at <= now /\ k.owner
      /\ \A x \in k.todo \cup k.advanced : Before(runs[x], k.at) /\ k.read[x] # NoSchedule
      /\ k.advanced \subseteq k.locked
      /\ \A x \in k.advanced : tenants[x] = "active" /\ schedules[x] # NoSchedule
  BY Zenon, <1>1, <1>2, <1>5, <1>6 DEF Ticking, Scheduled
<1>8. Ticking(k, now, runs, tenants, schedules)
  BY Zenon, <1>7 DEF Ticking
<1>9. \A x \in Replicas \ {r} : ~Owning(ticks[x])
  BY Zenon, <1>1 DEF SchedulesInv, TicksInv, Owning
<1> QED
  BY <1>4, <1>6, <1>8, <1>9, OneTick, Zenon

(* A run that is appended is spaced from all before it. *)
LEMMA AppendSpaced ==
    ASSUME NEW q \in Seq(Nat), NEW n \in Nat, NEW m \in Nat, n <= m,
           Spaced(q), Until(q, m), Before(q, n)
    PROVE  /\ Append(q, n) \in Seq(Nat) /\ Spaced(Append(q, n)) /\ Until(Append(q, n), m)
           /\ \A d \in Nat : n + MinInterval <= d => Before(Append(q, n), d)
<1> DEFINE u == Append(q, n)
<1>1. /\ u \in Seq(Nat) /\ Len(q) \in Nat /\ Len(u) = Len(q) + 1
      /\ DOMAIN u = 1..Len(u) /\ DOMAIN q = 1..Len(q)
      /\ \A i \in 1..Len(q) : u[i] = q[i] /\ q[i] \in Nat
      /\ u[Len(u)] = n
  BY SMTT(20)
<1> HIDE DEF u
<1>2. ASSUME NEW i \in DOMAIN u, NEW j \in DOMAIN u, i < j PROVE u[j] - u[i] >= MinInterval
  <2>1. i \in DOMAIN q
    BY <1>1, <1>2
  <2>2. CASE j = Len(u)
    BY <1>1, <2>1, <2>2, SchedulesAssumption, SMTT(30) DEF Before
  <2>3. CASE j # Len(u)
    <3>1. j \in DOMAIN q
      BY <1>1, <2>3
    <3> QED
      BY <1>1, <1>2, <2>1, <3>1 DEF Spaced
  <2> QED
    BY Zenon, <2>2, <2>3
<1>3. ASSUME NEW i \in DOMAIN u
      PROVE  u[i] <= m /\ \A d \in Nat : n + MinInterval <= d => u[i] + MinInterval <= d
  <2>1. CASE i = Len(u)
    BY Zenon, <1>1, <2>1
  <2>2. CASE i # Len(u)
    <3>1. i \in DOMAIN q /\ u[i] = q[i] /\ q[i] \in Nat
      BY <1>1, <2>2
    <3>2. q[i] <= m /\ q[i] + MinInterval <= n
      BY Zenon, <3>1 DEF Until, Before
    <3> QED
      BY <3>1, <3>2, SchedulesAssumption
  <2> QED
    BY Zenon, <2>1, <2>2
<1> QED
  BY Zenon, <1>1, <1>2, <1>3 DEF Spaced, Until, Before, u

LEMMA TickCommitsSafe ==
    ASSUME SchedulesInv, NEW r \in Replicas, TickCommits(r), UNCHANGED <<now, tenants>>
    PROVE  SchedulesInv'
<1> DEFINE k == ticks[r]
<1>1. /\ k \in Ticks /\ k # None /\ k.owner /\ now \in Nat
      /\ schedules \in [Tenants -> Schedules] /\ runs \in [Tenants -> Seq(Nat)]
      /\ ticks \in [Replicas -> Ticks \cup {None}]
      /\ Ticking(k, now, runs, tenants, schedules)
  BY Zenon DEF SchedulesInv, SchedulesTyped, TicksInv, TickCommits
<1>2. /\ schedules' = [t \in Tenants |-> IF t \in k.advanced
                           THEN [schedules[t] EXCEPT !.due = next_due(r, t)] ELSE schedules[t]]
      /\ runs' = [t \in Tenants |-> IF t \in k.advanced THEN Append(runs[t], k.at) ELSE runs[t]]
      /\ ticks' = [ticks EXCEPT ![r] = None]
  BY Zenon DEF TickCommits
<1>3. k.at \in Nat /\ k.at <= now /\ k.read \in [Tenants -> Schedules]
  BY Zenon, <1>1 DEF Ticks, Ticking
<1>4. ASSUME NEW t \in Tenants, t \in k.advanced
      PROVE  /\ schedules'[t] \in Schedules /\ runs'[t] \in Seq(Nat)
             /\ Spaced(runs'[t]) /\ Until(runs'[t], now)
             /\ Before(runs'[t], schedules'[t].due)
  <2>1. /\ Before(runs[t], k.at) /\ k.read[t] # NoSchedule /\ schedules[t] # NoSchedule
    BY Zenon, <1>1, <1>4 DEF Ticking
  <2>2. k.read[t].every \in Nat /\ k.read[t].every >= MinInterval
    BY Zenon, <1>3, <2>1 DEF Schedules
  <2>3. next_due(r, t) \in Nat /\ k.at + MinInterval <= next_due(r, t)
    BY <1>3, <2>2, SchedulesAssumption DEF next_due
  <2>4. schedules'[t] = [schedules[t] EXCEPT !.due = next_due(r, t)]
    BY Zenon, <1>2, <1>4
  <2>5. schedules[t] \in [every: {n \in Nat : n >= MinInterval}, due: Nat]
    BY Zenon, <1>1, <2>1 DEF Schedules
  <2>6. schedules'[t] \in Schedules /\ schedules'[t].due = next_due(r, t)
    BY Zenon, <2>3, <2>4, <2>5 DEF Schedules
  <2>7. runs'[t] = Append(runs[t], k.at) /\ runs[t] \in Seq(Nat)
    BY Zenon, <1>1, <1>2, <1>4
  <2>8. Spaced(runs[t]) /\ Until(runs[t], now)
    BY Zenon DEF SchedulesInv, RunsInv
  <2> HIDE DEF k
  <2> QED
    BY Zenon, <1>1, <1>3, <2>1, <2>3, <2>6, <2>7, <2>8, AppendSpaced
<1>5. ASSUME NEW t \in Tenants, t \notin k.advanced
      PROVE  schedules'[t] = schedules[t] /\ runs'[t] = runs[t]
  BY Zenon, <1>2, <1>5
<1>6. SchedulesTyped'
  <2>1. \A t \in Tenants : schedules'[t] \in Schedules /\ runs'[t] \in Seq(Nat)
    BY Zenon, <1>1, <1>4, <1>5
  <2>2. ticks' \in [Replicas -> Ticks \cup {None}]
    BY Zenon, <1>1, <1>2
  <2>3. schedules' \in [Tenants -> Schedules]
    BY Zenon, <1>2, <2>1
  <2>4. runs' \in [Tenants -> Seq(Nat)]
    BY <1>2, <2>1, Zenon
  <2> QED
    BY Zenon, <1>1, <2>2, <2>3, <2>4 DEF SchedulesTyped
<1>7. RunsInv'
  BY Zenon, <1>4, <1>5 DEF SchedulesInv, RunsInv, Scheduled
<1>8. TicksInv'
  <2>1. ASSUME NEW x \in Replicas, ticks'[x] # None
        PROVE  /\ x # r /\ ticks'[x] = ticks[x] /\ ~ticks[x].owner
               /\ Ticking(ticks[x], now, runs, tenants, schedules)
    BY Zenon, <1>1, <1>2, <2>1 DEF SchedulesInv, TicksInv, Owning
  <2>2. ASSUME NEW x \in Replicas, ticks'[x] # None
        PROVE  Ticking(ticks'[x], now', runs', tenants', schedules')
    BY Zenon, <2>1, <2>2 DEF Ticking
  <2>3. \A x \in Replicas : ~Owning(ticks'[x])
    BY Zenon, <2>1 DEF Owning
  <2> QED
    BY Zenon, <2>2, <2>3 DEF TicksInv
<1> QED
  BY Zenon, <1>6, <1>7, <1>8 DEF SchedulesInv

LEMMA LaterStill ==
    ASSUME NEW a \in Nat, NEW b \in Nat, NEW c \in Nat, a <= b, b <= c
    PROVE  a <= c
OBVIOUS

(* A step of an operator or of a tenant: it leaves the tenants a tick has
   advanced alone, and gives no schedule a time too early. *)
LEMMA BesideTicks ==
    ASSUME SchedulesInv, UNCHANGED <<ticks, runs>>, now' \in Nat, now <= now',
           schedules' \in [Tenants -> Schedules],
           \A t \in Tenants : Scheduled(t)' => Before(runs[t], schedules'[t].due),
           \A t \in Tenants : Advancing(t) => tenants'[t] = tenants[t] /\ schedules'[t] = schedules[t]
    PROVE  SchedulesInv'
<1>1. SchedulesTyped'
  BY Zenon DEF SchedulesInv, SchedulesTyped
<1>2. RunsInv'
  <2>1. ASSUME NEW t \in Tenants PROVE Until(runs[t], now')
    <3>1. runs[t] \in Seq(Nat) /\ now \in Nat /\ Until(runs[t], now)
      BY Zenon DEF SchedulesInv, SchedulesTyped, RunsInv
    <3>2. \A i \in DOMAIN runs[t] : runs[t][i] \in Nat
      BY <3>1
    <3> QED
      BY <3>1, <3>2 DEF Until
  <2> QED
    BY Zenon, <2>1 DEF SchedulesInv, RunsInv
<1>3. ASSUME NEW r \in Replicas, ticks[r] # None
      PROVE  Ticking(ticks[r], now', runs, tenants', schedules')
  <2>1. /\ ticks[r] \in Ticks /\ now \in Nat
        /\ Ticking(ticks[r], now, runs, tenants, schedules)
    BY Zenon, <1>3 DEF SchedulesInv, SchedulesTyped, TicksInv
  <2>2. ticks[r].at \in Nat /\ ticks[r].advanced \subseteq Tenants
    BY Zenon, <2>1 DEF Ticks
  <2>3. ticks[r].at <= now'
    <3>1. ticks[r].at <= now
      BY Zenon, <2>1 DEF Ticking
    <3> QED BY Zenon, <2>1, <2>2, <3>1, LaterStill
  <2>4. \A t \in ticks[r].advanced : tenants'[t] = tenants[t] /\ schedules'[t] = schedules[t]
    BY Zenon, <1>3, <2>2 DEF Advancing
  <2> QED
    BY Zenon, <2>1, <2>3, <2>4 DEF Ticking
<1>4. TicksInv'
  BY Zenon, <1>3 DEF SchedulesInv, TicksInv
<1> QED
  BY Zenon, <1>1, <1>2, <1>4 DEF SchedulesInv

LEMMA SetScheduleSafe ==
    ASSUME SchedulesInv, NEW t \in Tenants, NEW every \in Intervals, set_schedule(t, every),
           UNCHANGED <<now, tenants>>
    PROVE  SchedulesInv'
<1> DEFINE row == [every |-> every, due |-> now + every]
<1>1. /\ now \in Nat /\ every \in Nat /\ every >= MinInterval
      /\ schedules \in [Tenants -> Schedules] /\ runs \in [Tenants -> Seq(Nat)]
      /\ schedules' = [schedules EXCEPT ![t] = row] /\ UNCHANGED <<ticks, runs>> /\ ~Advancing(t)
  BY Zenon, SchedulesAssumption DEF SchedulesInv, SchedulesTyped, set_schedule, parse_interval
<1>2. row \in Schedules /\ row.due = now + every
  BY <1>1 DEF Schedules
<1> HIDE DEF row
<1>3. Before(runs[t], row.due)
  <2>1. Until(runs[t], now) /\ runs[t] \in Seq(Nat)
    BY Zenon, <1>1 DEF SchedulesInv, RunsInv
  <2>2. \A i \in DOMAIN runs[t] : runs[t][i] \in Nat
    BY <2>1
  <2> QED
    BY <1>1, <1>2, <2>1, <2>2, SchedulesAssumption DEF Until, Before
<1>4. schedules' \in [Tenants -> Schedules]
  BY Zenon, <1>1, <1>2
<1>5. \A o \in Tenants : Scheduled(o)' => Before(runs[o], schedules'[o].due)
  BY Zenon, <1>1, <1>3 DEF SchedulesInv, RunsInv, Scheduled
<1>6. \A o \in Tenants : Advancing(o) => tenants'[o] = tenants[o] /\ schedules'[o] = schedules[o]
  BY Zenon, <1>1
<1>7. now' \in Nat /\ now <= now'
  BY <1>1
<1> QED
  BY Zenon, <1>1, <1>4, <1>5, <1>6, <1>7, BesideTicks

LEMMA ClearScheduleSafe ==
    ASSUME SchedulesInv, NEW t \in Tenants, clear_schedule(t), UNCHANGED <<now, tenants>>
    PROVE  SchedulesInv'
<1>1. /\ now \in Nat /\ schedules \in [Tenants -> Schedules]
      /\ schedules' = [schedules EXCEPT ![t] = NoSchedule] /\ UNCHANGED <<ticks, runs>>
      /\ ~Advancing(t)
  BY Zenon DEF SchedulesInv, SchedulesTyped, clear_schedule
<1>2. schedules' \in [Tenants -> Schedules]
  BY Zenon, <1>1 DEF Schedules
<1>3. \A o \in Tenants : Scheduled(o)' => Before(runs[o], schedules'[o].due)
  BY Zenon, <1>1 DEF SchedulesInv, RunsInv, Scheduled
<1>4. \A o \in Tenants : Advancing(o) => tenants'[o] = tenants[o] /\ schedules'[o] = schedules[o]
  BY Zenon, <1>1
<1>5. now' \in Nat /\ now <= now'
  BY <1>1
<1> QED
  BY Zenon, <1>1, <1>2, <1>3, <1>4, <1>5, BesideTicks

(* A tenant's row goes with the tenant, which a tick that has advanced it holds. *)
LEMMA SurroundingsSafe ==
    ASSUME SchedulesInv, [HousekeepingNext]_housekeeping, Surroundings
    PROVE  SchedulesInv'
<1>1. /\ now \in Nat /\ now' \in Nat /\ now <= now'
      /\ schedules \in [Tenants -> Schedules]
  BY Zenon, ClockRuns DEF SchedulesInv, SchedulesTyped
<1>2. /\ schedules' = [t \in Tenants |-> IF tenants'[t] = "gone" THEN NoSchedule ELSE schedules[t]]
      /\ UNCHANGED <<ticks, runs>>
      /\ \A t \in Tenants : HeldByTick(t) => tenants'[t] = tenants[t]
  BY Zenon DEF Surroundings, tenant_reindex_schedules_after
<1>3. schedules' \in [Tenants -> Schedules]
  BY Zenon, <1>1, <1>2 DEF Schedules
<1>4. \A t \in Tenants : Scheduled(t)' => Before(runs[t], schedules'[t].due)
  BY Zenon, <1>2 DEF SchedulesInv, RunsInv, Scheduled
<1>5. ASSUME NEW t \in Tenants, Advancing(t)
      PROVE  tenants'[t] = tenants[t] /\ schedules'[t] = schedules[t]
  <2>1. PICK r \in Replicas : ticks[r] # None /\ t \in ticks[r].advanced
    BY Zenon, <1>5 DEF Advancing
  <2>2. t \in ticks[r].locked /\ tenants[t] = "active"
    BY Zenon, <2>1 DEF SchedulesInv, TicksInv, Ticking
  <2>3. tenants'[t] = tenants[t]
    BY Zenon, <1>2, <2>1, <2>2 DEF HeldByTick
  <2> QED
    BY Zenon, <1>2, <2>2, <2>3
<1> QED
  BY Zenon, <1>1, <1>2, <1>3, <1>4, <1>5, BesideTicks

LEMMA SchedulesStep ==
    ASSUME SchedulesInv, [HousekeepingNext]_housekeeping
    PROVE  SchedulesInv'
<1>1. CASE ScheduleStep /\ UNCHANGED <<now, tenants>>
  BY Zenon, <1>1, SetScheduleSafe, ClearScheduleSafe, TickBeginsSafe, TickOwnsSafe, TickTenantSafe,
     TickCommitsSafe, TickEndsSafe DEF ScheduleStep
<1>2. CASE UNCHANGED <<timetable, now, tenants>>
  BY Zenon, <1>2 DEF timetable, SchedulesInv, SchedulesTyped, RunsInv, TicksInv, Scheduled
<1>3. CASE Surroundings
  BY Zenon, <1>3, SurroundingsSafe
<1> QED
  BY Zenon, <1>1, <1>2, <1>3, StepFrames

(* A tenant's reindexes are at least the shortest interval apart, for any number
   of replicas and tenants: only the scheduler's owner dispatches, and it gives
   each schedule it has found due a time an accepted interval later. *)
THEOREM ReindexesSpacedHolds == HousekeepingSpec => []ReindexesSpaced
<1>1. now \in Nat /\ HousekeepingInit => SchedulesInv
  BY Zenon, SchedulesInitially DEF HousekeepingInit
<1>2. SchedulesInv /\ [HousekeepingNext]_housekeeping => SchedulesInv'
  BY Zenon, SchedulesStep
<1>3. SchedulesInv => ReindexesSpaced
  BY Zenon DEF SchedulesInv, RunsInv, Spaced, ReindexesSpaced
<1> QED
  BY <1>1, <1>2, <1>3, PTL DEF HousekeepingSpec

(* Reindexes are dispatched for active tenants only: a tick checks the tenant
   under its membership lock and holds the lock until it commits. *)
THEOREM DispatchesActiveHolds == HousekeepingSpec => DispatchesActive
<1> DEFINE P == \A t \in Tenants : runs'[t] # runs[t] => tenants[t] = "active"
<1>1. now \in Nat /\ HousekeepingInit => SchedulesInv
  BY Zenon, SchedulesInitially DEF HousekeepingInit
<1>2. SchedulesInv /\ [HousekeepingNext]_housekeeping => SchedulesInv'
  BY Zenon, SchedulesStep
<1>3. SchedulesInv /\ [HousekeepingNext]_housekeeping => [P]_timetable
  <2> SUFFICES ASSUME SchedulesInv, [HousekeepingNext]_housekeeping, NEW t \in Tenants, runs'[t] # runs[t]
               PROVE  tenants[t] = "active"
    BY Zenon
  <2>1. ~Surroundings /\ ~UNCHANGED timetable
    BY Zenon DEF Surroundings, timetable
  <2>2. ScheduleStep
    BY Zenon, <2>1, StepFrames, SMTT(30)
  <2>3. PICK r \in Replicas : TickCommits(r)
    BY <2>2, Zenon DEF ScheduleStep, set_schedule, clear_schedule, TickBegins, TickOwns, TickTenant, TickEnds
  <2>4. t \in ticks[r].advanced /\ ticks[r] # None
    BY Zenon, <2>3 DEF TickCommits
  <2> QED
    BY Zenon, <2>4 DEF SchedulesInv, TicksInv, Ticking
<1> QED
  BY <1>1, <1>2, <1>3, PTL DEF HousekeepingSpec, DispatchesActive

-----------------------------------------------------------------------------
(* Billing. *)

Customers == {e.customer : e \in Events} \cup {None}
BillingRows == [customer: Customers, plan: {PlanOf(e) : e \in Events} \cup {None}, row: BOOLEAN]

BillingInv ==
    /\ billing \in [Tenants -> BillingRows]
    /\ processed \subseteq Events
    /\ hooks \in [Hooks -> Events \cup {None}]

LEMMA BillingStepTyped ==
    ASSUME BillingInv, [HousekeepingNext]_housekeeping
    PROVE  BillingInv'
<1>1. /\ billing \in [Tenants -> BillingRows] /\ processed \subseteq Events
      /\ hooks \in [Hooks -> Events \cup {None}]
  BY Zenon DEF BillingInv
<1>2. CASE UNCHANGED money
  BY Zenon, <1>1, <1>2 DEF money, BillingInv
<1>3. CASE Surroundings
  BY Zenon, <1>1, <1>3 DEF Surroundings, tenant_billing_after, BillingInv, BillingRows, NoBilling, Customers
<1>4. ASSUME NEW h \in Hooks, NEW e \in Events, ReceiveEvent(h, e) PROVE BillingInv'
  BY Zenon, <1>1, <1>4 DEF ReceiveEvent, BillingInv
<1>5. ASSUME NEW h \in Hooks, EndDelivery(h) PROVE BillingInv'
  BY Zenon, <1>1, <1>5 DEF EndDelivery, BillingInv
<1>6. ASSUME NEW h \in Hooks, ApplyEvent(h) PROVE BillingInv'
  <2> DEFINE e == hooks[h]
  <2>1. e \in Events /\ hooks' \in [Hooks -> Events \cup {None}]
    BY Zenon, <1>1, <1>6 DEF ApplyEvent
  <2>2. processed' \subseteq Events
    BY Zenon, <1>1, <1>6, <2>1 DEF ApplyEvent
  <2>3. ASSUME NEW t \in Tenants, link_stripe_customer(t, e.customer)
        PROVE  billing' \in [Tenants -> BillingRows]
    <3>1. [billing[t] EXCEPT !.customer = e.customer, !.row = TRUE] \in BillingRows
      BY <1>1, <2>1, Zenon DEF BillingRows, Customers
    <3> QED
      BY Zenon, <1>1, <2>3, <3>1 DEF link_stripe_customer
  <2>4. ASSUME NEW t \in Tenants, set_plan(t, PlanOf(e))
        PROVE  billing' \in [Tenants -> BillingRows]
    <3>1. [billing[t] EXCEPT !.plan = PlanOf(e), !.row = TRUE] \in BillingRows
      BY <1>1, <2>1, Zenon DEF BillingRows
    <3> QED
      BY Zenon, <1>1, <2>4, <3>1 DEF set_plan
  <2>5. e.type = "checkout" => e.tenant \in Tenants
    BY Zenon, <2>1, EventsAssumption
  <2>6. billing' \in [Tenants -> BillingRows]
    BY Zenon, <1>1, <1>6, <2>3, <2>4, <2>5 DEF ApplyEvent, get_by_stripe_customer
  <2> QED
    BY Zenon, <2>1, <2>2, <2>6 DEF BillingInv
<1> QED
  BY Zenon, <1>2, <1>3, <1>4, <1>5, <1>6, StepFrames DEF BillingStep

(* A tenant's plan changes only to what the newest applied event of its customer
   says, whatever order the events are delivered in and however often:
   is_stale_for_customer is asked under the lock of the customer. *)
THEOREM PlanIsNewestHolds == HousekeepingSpec => PlanIsNewest
<1> DEFINE P == \A t \in Tenants : billing'[t].row /\ billing'[t].plan # billing[t].plan =>
                  \E e \in processed' :
                    /\ OfCustomer(e) /\ e.customer = billing[t].customer
                    /\ PlanOf(e) = billing'[t].plan
                    /\ \A f \in processed : OfCustomer(f) /\ f.customer = e.customer
                                                => f.created <= e.created
<1>1. now \in Nat /\ HousekeepingInit => BillingInv
  BY DEF HousekeepingInit, BillingInit, BillingInv, BillingRows, NoBilling, Customers
<1>2. BillingInv /\ [HousekeepingNext]_housekeeping => BillingInv'
  BY Zenon, BillingStepTyped
<1>3. BillingInv /\ [HousekeepingNext]_housekeeping => [P]_money
  <2> SUFFICES ASSUME BillingInv, [HousekeepingNext]_housekeeping, NEW t \in Tenants,
                      billing'[t].row, billing'[t].plan # billing[t].plan
               PROVE  \E e \in processed' :
                        /\ OfCustomer(e) /\ e.customer = billing[t].customer
                        /\ PlanOf(e) = billing'[t].plan
                        /\ \A f \in processed : OfCustomer(f) /\ f.customer = e.customer
                                                    => f.created <= e.created
    BY Zenon
  <2>1. /\ billing \in [Tenants -> BillingRows] /\ processed \subseteq Events
        /\ hooks \in [Hooks -> Events \cup {None}]
    BY Zenon DEF BillingInv
  <2>2. ~Surroundings /\ ~UNCHANGED money
    BY DEF Surroundings, tenant_billing_after, NoBilling, money
  <2>3. BillingStep
    BY Zenon, <2>2, StepFrames
  <2>4. PICK h \in Hooks : ApplyEvent(h)
    BY Zenon, <2>3 DEF BillingStep, ReceiveEvent, EndDelivery
  <2> DEFINE e == hooks[h]
  <2>5. e \in Events
    BY Zenon, <2>1, <2>4 DEF ApplyEvent
  <2>6. ~link_stripe_customer(e.tenant, e.customer)
    <3>1. \A c : [billing[t] EXCEPT !.customer = c, !.row = TRUE].plan = billing[t].plan
      BY Zenon, <2>1 DEF BillingRows
    <3>2. ASSUME link_stripe_customer(e.tenant, e.customer) PROVE FALSE
      <4> DEFINE n == [billing[e.tenant] EXCEPT !.customer = e.customer, !.row = TRUE]
      <4>1. billing' = [billing EXCEPT ![e.tenant] = n]
        BY <3>2, Zenon DEF link_stripe_customer
      <4>2. CASE e.tenant = t
        BY Zenon, <2>1, <3>1, <4>1, <4>2
      <4>3. CASE e.tenant # t
        BY Zenon, <2>1, <4>1, <4>3
      <4> QED
        BY Zenon, <4>2, <4>3
    <3> QED
      BY Zenon, <3>2
  <2>7. PICK o \in get_by_stripe_customer(e.customer) :
          /\ OfCustomer(e) /\ ~is_stale_for_customer(e) /\ set_plan(o, PlanOf(e))
          /\ processed' = processed \cup {e}
    BY Zenon, <2>4, <2>6 DEF ApplyEvent
  <2>8. o = t /\ billing'[t].plan = PlanOf(e) /\ billing[t].customer = e.customer
    BY Zenon, <2>1, <2>7 DEF set_plan, get_by_stripe_customer, BillingRows
  <2>9. ASSUME NEW f \in processed, OfCustomer(f), f.customer = e.customer
        PROVE  f.created <= e.created
    <3>1. ~(e.created < f.created)
      BY Zenon, <2>7, <2>9 DEF is_stale_for_customer, AppliedTo
    <3>2. e.created \in Nat /\ f.created \in Nat
      BY Zenon, <2>1, <2>5, EventsAssumption
    <3> QED
      BY <3>1, <3>2
  <2> QED
    BY Zenon, <2>7, <2>8, <2>9
<1> QED
  BY <1>1, <1>2, <1>3, PTL DEF HousekeepingSpec, PlanIsNewest

-----------------------------------------------------------------------------
(* Both together. *)

(* What the tenants do is a change of the surroundings of the housekeeping, and
   the housekeeping leaves the tenants alone: the requests and tasks that serve
   tenants and the background work of the server, the scheduler and the webhook
   handler run beside each other, and each theorem above holds of the whole. *)
THEOREM OperationsCompose == OperationsSpec => Spec /\ HousekeepingSpec
<1>1. OperationsInit => Init /\ HousekeepingInit /\ now \in Nat
  BY DEF OperationsInit, Init
<1>2. ASSUME [OperationsNext]_everything PROVE [Next]_vars /\ [HousekeepingNext]_housekeeping
  <2>1. CASE TenancyStep
    BY Zenon, <2>1 DEF TenancyStep, HousekeepingNext
  <2>2. CASE Chore /\ UNCHANGED vars
    <3>1. UNCHANGED <<tenants, now>>
      BY Zenon, <2>2 DEF vars, store
    <3> QED BY Zenon, <2>2, <3>1 DEF HousekeepingNext
  <2>3. CASE UNCHANGED everything
    <3>1. UNCHANGED vars /\ UNCHANGED chores
      BY Zenon, <2>3 DEF everything
    <3>2. UNCHANGED <<tenants, now>>
      BY Zenon, <3>1 DEF vars, store
    <3> QED BY Zenon, <3>1, <3>2 DEF housekeeping
  <2> QED BY Zenon, <1>2, <2>1, <2>2, <2>3 DEF OperationsNext
<1> QED BY <1>1, <1>2, PTL DEF OperationsSpec, Spec, HousekeepingSpec
=============================================================================
