------------------------------- MODULE Billing -------------------------------
(***************************************************************************)
(* Stripe webhooks and the billing rows they maintain.  Stripe delivers an *)
(* event any number of times, at any time and in any order.  A delivery    *)
(* first looks whether its event has been applied; then, under the lock of *)
(* the customer if it is a subscription event, it compares the event with  *)
(* those applied to that customer, applies it and records it, in one       *)
(* transaction.                                                            *)
(***************************************************************************)
EXTENDS Deployment

CONSTANTS
    Events,     \* [id, type, created, customer, tenant, plan]; see EventTypes
    Hooks       \* webhook deliveries in flight

ASSUME EventsAssumption ==
    \A e \in Events : e.created \in Nat /\ (e.type = "checkout" => e.tenant \in Tenants)

VARIABLES
    billing,    \* tenant_billing: NoBilling, or a customer and a plan
    processed,  \* stripe_events: the events that were recorded
    hooks       \* the event a delivery is about to apply, or None

money == <<billing, processed, hooks>>

(* "subscription" stands for created and updated; its plan is None when the
   price is not mapped to one. *)
NoBilling == [customer |-> None, plan |-> None, row |-> FALSE]

OfCustomer(e) == e.type \in {"subscription", "deleted"}
AppliedTo(c) == {f \in processed : OfCustomer(f) /\ f.customer = c}
PlanOf(e) == IF e.type = "deleted" THEN "free" ELSE e.plan

is_event_processed(e) == e \in processed

is_stale_never(e) == FALSE

is_stale_for_customer(e) == \E f \in AppliedTo(e.customer) : e.created < f.created

(* A tenant that no longer exists fails the foreign key, a customer of another
   tenant the unique index. *)
link_stripe_customer(t, c) ==
    /\ tenants[t] \in {"active", "disabled"}
    /\ \A o \in Tenants \ {t} : billing[o].customer # c
    /\ billing' = [billing EXCEPT ![t].customer = c, ![t].row = TRUE]

get_by_stripe_customer(c) == {t \in Tenants : billing[t].customer = c}

set_plan(t, p) == billing' = [billing EXCEPT ![t].plan = p, ![t].row = TRUE]

(* SQLite has one writer, and the delivery has begun to write. *)
ReceiveEvent(h, e) ==
    /\ hooks[h] = None
    /\ Sqlite => \A x \in Hooks : hooks[x] = None
    /\ ~is_event_processed(e)
    /\ hooks' = [hooks EXCEPT ![h] = e]
    /\ UNCHANGED <<billing, processed>>

(* A stale event and one with an unmapped price are acknowledged and not
   recorded; an event whose customer is not linked yet is refused, for Stripe
   to deliver again. *)
ApplyEvent(h) ==
    /\ hooks[h] # None
    /\ LET e == hooks[h]
       IN \/ /\ e.type = "checkout" /\ link_stripe_customer(e.tenant, e.customer)
             /\ processed' = processed \cup {e}
          \/ /\ OfCustomer(e) /\ ~is_stale_for_customer(e) /\ PlanOf(e) # None
             /\ \E t \in get_by_stripe_customer(e.customer) : set_plan(t, PlanOf(e))
             /\ processed' = processed \cup {e}
          \/ /\ e.type = "other"
             /\ processed' = processed \cup {e}
             /\ UNCHANGED billing
    /\ hooks' = [hooks EXCEPT ![h] = None]

(* Every early return, every refusal and a crash leave no trace. *)
EndDelivery(h) ==
    /\ hooks[h] # None
    /\ hooks' = [hooks EXCEPT ![h] = None]
    /\ UNCHANGED <<billing, processed>>

tenant_billing_after ==
    [t \in Tenants |-> IF tenants'[t] = "gone" THEN NoBilling ELSE billing[t]]

BillingInit ==
    /\ billing = [t \in Tenants |-> NoBilling]
    /\ processed = {}
    /\ hooks = [h \in Hooks |-> None]

(* A tenant's plan changes only to what the newest of its customer's applied
   subscription events says: whatever the order of delivery, an older event
   never undoes a newer one (apply_stripe_event, is_stale_for_customer). *)
PlanIsNewest ==
    [][\A t \in Tenants : billing'[t].row /\ billing'[t].plan # billing[t].plan =>
        \E e \in processed' :
            /\ OfCustomer(e) /\ e.customer = billing[t].customer
            /\ PlanOf(e) = billing'[t].plan
            /\ \A f \in processed : OfCustomer(f) /\ f.customer = e.customer
                                        => f.created <= e.created]_money
=============================================================================
