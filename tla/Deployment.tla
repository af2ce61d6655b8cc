----------------------------- MODULE Deployment -----------------------------
(* What every part of a deployment sees: its tenants, its backend, its clock. *)
EXTENDS Integers, FiniteSets

CONSTANTS
    Tenants,    \* identifiers, naturals
    Sqlite,     \* the backend is SQLite: one writer, no tenant isolation
    None

ASSUME DeploymentAssumption ==
    Tenants \subseteq Nat /\ Sqlite \in BOOLEAN /\ None \notin Nat

VARIABLES
    tenants,    \* tenant_tenants: "fresh", "active", "disabled" or "gone"
    now         \* the clock

Existing == {t \in Tenants : tenants[t] \in {"active", "disabled"}}
=============================================================================
