------------------------------ MODULE Billing ------------------------------
(***************************************************************************)
(* Orders, payments, refunds, entitlements and subscriptions: the          *)
(* transactions of infrastructure/database/billing.py over the state       *)
(* machines of domain/billing.  Each transaction locks the rows it reads,  *)
(* so it is one action; a command that a guard refuses changes nothing.    *)
(*                                                                         *)
(* Simplifications.  The entitlements of an order are granted and revoked  *)
(* together and are one grant.  A subscription is named by the order that  *)
(* created it.  Amounts always match (another amount is refused).  The     *)
(* verifier of payment events is external: the events that reach a         *)
(* transaction are those it lets through, in any order.  Each is a new     *)
(* one: an event whose id was recorded before is replayed, or refused if   *)
(* it says something else, and changes nothing.                            *)
(* Commands and events carry the instant at which they were received or    *)
(* occurred, which may be long before they are carried out.                *)
(***************************************************************************)
EXTENDS Naturals, FiniteSets

CONSTANTS
  Users,
  Offers,        \* the catalog
  Subscribing,   \* the offers of subscription products, among the Offers
  MaxPayments,   \* bound on the payments
  Period,        \* subscription_period of an offer
  MaxOrders,     \* bound on the orders placed
  MaxRefunds,    \* bound on the refunds requested
  MaxEvents,     \* bound on the payment events recorded
  MaxTime,       \* bound on the clock
  None

ASSUME BillingAssumption ==
  /\ Subscribing \subseteq Offers
  /\ Period \in Nat \ {0}
  /\ MaxOrders \in Nat /\ MaxPayments \in Nat /\ MaxRefunds \in Nat
  /\ MaxEvents \in Nat /\ MaxTime \in Nat
  /\ None \notin Users \cup Offers

VARIABLES
  now,
  onSale,        \* offers that are still sold
  order,         \* billing.orders
  grant,         \* billing.entitlement_grants, by source order
  subscription,  \* billing.subscriptions, by source order
  refund,        \* billing.refunds
  events         \* billing.payment_events

sales == <<now, onSale>>
billingVars == <<now, onSale, order, grant, subscription, refund, events>>

Orders  == 1 .. MaxOrders
Refunds == 1 .. MaxRefunds
Payments == 1 .. MaxPayments
Instant == 0 .. MaxTime

NoOrder == [status |-> "none", buyer |-> None, offer |-> None, renews |-> 0, payment |-> 0,
            created |-> 0, paid |-> 0, fulfilled |-> 0, requested |-> 0]
NoGrant == [status |-> "none", starts |-> 0, expires |-> 0]
NoSubscription == [status |-> "none", current |-> 0, starts |-> 0, ends |-> 0,
                   cancelling |-> FALSE]
NoRefund == [status |-> "none", order |-> 0, requested |-> 0, reviewed |-> 0]

BillingInit ==
  /\ now = 0
  /\ onSale = Offers
  /\ order = [o \in Orders |-> NoOrder]
  /\ grant = [o \in Orders |-> NoGrant]
  /\ subscription = [o \in Orders |-> NoSubscription]
  /\ refund = [r \in Refunds |-> NoRefund]
  /\ events = {}

Tick ==
  /\ now < MaxTime
  /\ now' = now + 1
  /\ UNCHANGED <<onSale, order, grant, subscription, refund, events>>

(* retire_product and retire_offer: nothing that was ordered is affected. *)
Retire(f) ==
  /\ f \in onSale
  /\ onSale' = onSale \ {f}
  /\ UNCHANGED <<now, order, grant, subscription, refund, events>>

----------------------------------------------------------------------------
(* Orders *)

(* Subscription.is_active_at *)
ActiveAt(s, at) ==
  /\ subscription[s].status = "active"
  /\ subscription[s].starts <= at
  /\ at < subscription[s].ends

Open == {"awaiting_payment", "paid", "refund_pending"}

(* _has_open_renewal_order, and the unique index behind it. *)
OpenRenewals(s) == {o \in Orders : order[o].renews = s /\ order[o].status \in Open}

(* A renewal must be of the buyer's own subscription, for the same offer,  *)
(* in a period that has begun and not ended, and the only one outstanding. *)
MayRenew(u, f, s, at) ==
  /\ order[s].buyer = u
  /\ order[s].offer = f
  /\ ActiveAt(s, at)
  /\ OpenRenewals(s) = {}

PlaceOrder(o, u, f, s, at) ==
  /\ order[o].status = "none"
  /\ \A p \in Orders : p < o => order[p].status # "none"
  /\ f \in onSale
  /\ s # 0 => MayRenew(u, f, s, at)
  /\ order' = [order EXCEPT ![o] =
                 [NoOrder EXCEPT !.status = "awaiting_payment", !.buyer = u, !.offer = f,
                                 !.renews = s, !.created = at]]
  /\ UNCHANGED <<sales, grant, subscription, refund, events>>

----------------------------------------------------------------------------
(* record_payment_event *)

Record(kind, o, p, r) ==
  /\ Cardinality(events) < MaxEvents
  /\ events' = events \cup {[kind |-> kind, order |-> o, payment |-> p, refund |-> r]}

(* A payment settles one order: _load_successful_payment. *)
Settled(p) == \E e \in events : e.kind = "payment_succeeded" /\ e.payment = p

(* Payments are numbered by their first event. *)
Numbered(p) == \A q \in 1 .. p - 1 : \E e \in events : e.payment = q

PaymentSucceeds(o, p, at) ==
  /\ Numbered(p)
  /\ ~Settled(p)
  /\ order[o].status = "awaiting_payment"
  /\ at >= order[o].created
  /\ order' = [order EXCEPT ![o].status = "paid", ![o].payment = p, ![o].paid = at]
  /\ Record("payment_succeeded", o, p, 0)
  /\ UNCHANGED <<sales, grant, subscription, refund>>

(* The payment that failed is never looked at. *)
PaymentFails(o) ==
  /\ order[o].status = "awaiting_payment"
  /\ Record("payment_failed", o, 0, 0)
  /\ UNCHANGED <<sales, order, grant, subscription, refund>>

(* Mutant of Revoked: only what has already begun is revoked. *)
RevokedBegun(g, at) ==
  IF g.status = "active" /\ g.starts <= at /\ g.expires > at
    THEN [g EXCEPT !.status = "revoked"] ELSE g

(* _revoke_order_entitlements: a grant that has not begun is revoked at    *)
(* its beginning, one that has expired stays as it is.                     *)
Revoked(g, at) ==
  IF g.status = "active" /\ g.expires > at THEN [g EXCEPT !.status = "revoked"] ELSE g

(* _revoke_current_subscription *)
Unsubscribed(o, at) ==
  [s \in Orders |->
     IF subscription[s].current = o /\ subscription[s].status = "active"
                                    /\ at < subscription[s].ends
       THEN [subscription[s] EXCEPT !.status = "revoked"]
       ELSE subscription[s]]

TakeBack(o, at) ==
  /\ grant' = [grant EXCEPT ![o] = Revoked(@, at)]
  /\ subscription' = Unsubscribed(o, at)

PaidStatuses == {"paid", "fulfilled", "refund_pending", "refunded"}

ChargebackOpens(o, at) ==
  /\ order[o].status \in PaidStatuses
  /\ at >= order[o].paid
  /\ order' = [order EXCEPT ![o].status = "chargeback"]
  /\ Record("chargeback_opened", o, order[o].payment, 0)
  /\ TakeBack(o, at)
  /\ UNCHANGED <<sales, refund>>

----------------------------------------------------------------------------
(* fulfill_order *)

Never == MaxTime + Period + 1  \* expires_at of a grant that does not expire

Fulfilled(o, at) ==
  /\ order[o].status = "paid"
  /\ at >= order[o].paid
  /\ order' = [order EXCEPT ![o].status = "fulfilled", ![o].fulfilled = at]

Granted(o, from, until) ==
  grant' = [grant EXCEPT ![o] = [status |-> "active", starts |-> from, expires |-> until]]

FulfillOnce(o, at) ==
  /\ order[o].offer \notin Subscribing
  /\ Fulfilled(o, at)
  /\ Granted(o, at, Never)
  /\ UNCHANGED <<sales, subscription, refund, events>>

FulfillSubscription(o, at) ==
  /\ order[o].offer \in Subscribing
  /\ order[o].renews = 0
  /\ Fulfilled(o, at)
  /\ Granted(o, at, at + Period)
  /\ subscription' = [subscription EXCEPT ![o] =
       [status |-> "active", current |-> o, starts |-> at, ends |-> at + Period,
        cancelling |-> FALSE]]
  /\ UNCHANGED <<sales, refund, events>>

(* Mutant of NextPeriod: a renewal begins when it is fulfilled. *)
NextPeriodNow(s, at) == at

(* Subscription.renew: the next period begins where the current one ends. *)
NextPeriod(s, at) == subscription[s].ends

(* The row moves on to the next period although the current one still runs. *)
FulfillRenewal(o, at) ==
  LET s == order[o].renews
      from == NextPeriod(s, at)
  IN /\ s # 0
     /\ ActiveAt(s, at)
     /\ ~subscription[s].cancelling
     /\ Fulfilled(o, at)
     /\ Granted(o, from, from + Period)
     /\ subscription' = [subscription EXCEPT
          ![s].current = o, ![s].starts = from, ![s].ends = from + Period]
     /\ UNCHANGED <<sales, refund, events>>

----------------------------------------------------------------------------
(* Refunds *)

(* The unique index on open renewals refuses a second one, by an error     *)
(* that the transaction does not catch.                                    *)
RequestRefund(o, r, at) ==
  /\ order[o].status = "fulfilled"
  /\ at >= order[o].fulfilled
  /\ order[o].renews # 0 => OpenRenewals(order[o].renews) = {}
  /\ refund[r].status = "none"
  /\ \A q \in Refunds : q < r => refund[q].status # "none"
  /\ order' = [order EXCEPT ![o].status = "refund_pending", ![o].requested = at]
  /\ refund' = [refund EXCEPT ![r] =
       [NoRefund EXCEPT !.status = "requested", !.order = o, !.requested = at]]
  /\ UNCHANGED <<sales, grant, subscription, events>>

(* The order is not looked at: it may be charged back by now. *)
ApproveRefund(r, at) ==
  /\ refund[r].status = "requested"
  /\ at >= refund[r].requested
  /\ refund' = [refund EXCEPT ![r].status = "approved", ![r].reviewed = at]
  /\ UNCHANGED <<sales, order, grant, subscription, events>>

(* Mutant of RejectRefund: the order is left waiting. *)
RejectRefundOnly(r, at) ==
  /\ refund[r].status = "requested"
  /\ at >= refund[r].requested
  /\ refund' = [refund EXCEPT ![r].status = "rejected", ![r].reviewed = at]
  /\ UNCHANGED <<sales, order, grant, subscription, events>>

RejectRefund(r, at) ==
  /\ refund[r].status = "requested"
  /\ at >= refund[r].requested
  /\ order[refund[r].order].status = "refund_pending"
  /\ refund' = [refund EXCEPT ![r].status = "rejected", ![r].reviewed = at]
  /\ order' = [order EXCEPT ![refund[r].order].status = "fulfilled"]
  /\ UNCHANGED <<sales, grant, subscription, events>>

(* settle_refund: what the provider says of an approved refund. *)
Settles(r, kind, at) ==
  LET o == refund[r].order IN
    /\ refund[r].status = "approved"
    /\ at >= refund[r].reviewed
    /\ order[o].status = "refund_pending"
    /\ at >= order[o].requested
    /\ Record(kind, o, order[o].payment, r)

RefundSucceeds(r, at) ==
  /\ Settles(r, "refund_succeeded", at)
  /\ refund' = [refund EXCEPT ![r].status = "succeeded"]
  /\ order' = [order EXCEPT ![refund[r].order].status = "refunded"]
  /\ TakeBack(refund[r].order, at)
  /\ UNCHANGED sales

RefundFails(r, at) ==
  /\ Settles(r, "refund_failed", at)
  /\ refund' = [refund EXCEPT ![r].status = "failed"]
  /\ order' = [order EXCEPT ![refund[r].order].status = "fulfilled"]
  /\ UNCHANGED <<sales, grant, subscription>>

CancelSubscription(s, at) ==
  /\ ActiveAt(s, at)
  /\ subscription' = [subscription EXCEPT ![s].cancelling = TRUE]
  /\ UNCHANGED <<sales, order, grant, refund, events>>

----------------------------------------------------------------------------
BillingNext ==
  \/ Tick
  \/ \E f \in Offers : Retire(f)
  \/ \E at \in 0 .. now :
       \/ \E o \in Orders, u \in Users, f \in Offers : PlaceOrder(o, u, f, 0, at)
       \/ \E o, s \in Orders, u \in Users, f \in Subscribing : PlaceOrder(o, u, f, s, at)
       \/ \E o \in Orders :
            \/ ChargebackOpens(o, at)
            \/ \E p \in Payments : PaymentSucceeds(o, p, at)
            \/ FulfillOnce(o, at)
            \/ FulfillSubscription(o, at)
            \/ FulfillRenewal(o, at)
            \/ \E r \in Refunds : RequestRefund(o, r, at)
            \/ CancelSubscription(o, at)
       \/ \E r \in Refunds :
            \/ ApproveRefund(r, at)
            \/ RejectRefund(r, at)
            \/ RefundSucceeds(r, at)
            \/ RefundFails(r, at)
  \/ \E o \in Orders : PaymentFails(o)

BillingSpec == BillingInit /\ [][BillingNext]_billingVars

----------------------------------------------------------------------------
OrderStatus == {"none", "awaiting_payment", "chargeback"} \cup PaidStatuses
RefundStatus == {"none", "requested", "approved", "rejected", "succeeded", "failed"}
EventKinds == {"payment_succeeded", "payment_failed", "chargeback_opened", "refund_succeeded",
               "refund_failed"}

BillingTypeOK ==
  /\ now \in Instant
  /\ onSale \subseteq Offers
  /\ order \in [Orders -> [status : OrderStatus, buyer : Users \cup {None},
                           offer : Offers \cup {None}, renews : Orders \cup {0},
                           payment : Payments \cup {0}, created : Instant, paid : Instant,
                           fulfilled : Instant, requested : Instant]]
  /\ grant \in [Orders -> [status : {"none", "active", "revoked"}, starts : Nat, expires : Nat]]
  /\ subscription \in [Orders -> [status : {"none", "active", "revoked"},
                                  current : Orders \cup {0}, starts : Nat, ends : Nat,
                                  cancelling : BOOLEAN]]
  /\ refund \in [Refunds -> [status : RefundStatus, order : Orders \cup {0},
                             requested : Instant, reviewed : Instant]]
  /\ events \subseteq [kind : EventKinds, order : Orders,
                       payment : Payments \cup {0}, refund : Refunds \cup {0}]

Effective(g) == g.status = "active" /\ g.starts <= now /\ now < g.expires

Returned == {"refunded", "chargeback"}

(* Once the money of an order went back, its entitlements have no effect   *)
(* and it carries no subscription: not now, and not when the period that   *)
(* it paid in advance begins (billing.py:1107 and 1147).                   *)
NothingForReturnedMoney ==
  \A o \in Orders : order[o].status \in Returned =>
    /\ ~Effective(grant[o])
    /\ \A s \in Orders : subscription[s].current = o => ~ActiveAt(s, now)

(* No two orders pay for the same time of a subscription: a renewal that   *)
(* is fulfilled early adds a whole period after the running one, however   *)
(* late the command is carried out (billing.py:988).                       *)
SubscriptionOf(o) == IF order[o].renews # 0 THEN order[o].renews ELSE o

PeriodsDisjoint ==
  \A o, p \in Orders :
    (/\ o # p
     /\ order[o].offer \in Subscribing
     /\ SubscriptionOf(o) = SubscriptionOf(p)
     /\ grant[o].status # "none" /\ grant[p].status # "none")
      => grant[o].expires <= grant[p].starts \/ grant[p].expires <= grant[o].starts

(* An order that waits for a refund has exactly one refund on its way, and *)
(* unless it was charged back no other order has one: a review, a failed   *)
(* settlement and a chargeback leave the two state machines in step.       *)
UnderWay(o) == {r \in Refunds : refund[r].order = o /\ refund[r].status \in {"requested", "approved"}}

RefundsInStep ==
  \A o \in Orders :
    /\ order[o].status = "refund_pending" => Cardinality(UnderWay(o)) = 1
    /\ UnderWay(o) # {} => order[o].status \in {"refund_pending", "chargeback"}
    /\ order[o].status = "refunded" =>
         \E r \in Refunds : refund[r].order = o /\ refund[r].status = "succeeded"

(* Whoever has paid for this very moment has the subscriber's plan, which  *)
(* is derived from the active subscription (runtime-architecture.md:976).  *)
HasPlan(u) == \E s \in Orders : order[s].buyer = u /\ ActiveAt(s, now)

PlanWhilePaid ==
  \A o \in Orders :
    (order[o].status = "fulfilled" /\ order[o].offer \in Subscribing /\ Effective(grant[o]))
      => HasPlan(order[o].buyer)
=============================================================================
