----------------------------- MODULE MoneyProofs -----------------------------
(***************************************************************************)
(* What is bought and what is owned, proved for any users, offers, orders, *)
(* tellers, commands, limits and prices.                                   *)
(*                                                                         *)
(* Billing.  Orders, refunds, entitlements and subscriptions stay in step. *)
(* The layers of the invariant: types; an order and its refunds; what was  *)
(* paid back; and how the periods of a subscription follow one another.    *)
(*                                                                         *)
(* Economy.  The ledger pays for a fact once, and agrees with the town's   *)
(* books.  The layers: the rows and balances; what each paid fact left in  *)
(* a row; and for each transaction, that what it was decided upon still    *)
(* holds, since its locks keep all others from changing it.                *)
(***************************************************************************)
EXTENDS Billing, Economy, FiniteSetTheorems, SequenceTheorems, WellFoundedInduction, TLAPS

(***************************************************************************)
(* Billing.                                                                *)
(***************************************************************************)

OrderRow == [status : OrderStatus, buyer : Users \cup {None}, offer : Offers \cup {None},
             renews : Orders \cup {0}, payment : Payments \cup {0}, created : Instant,
             paid : Instant, fulfilled : Instant, requested : Instant]

GrantRow == [status : {"none", "active", "revoked"}, starts : Nat, expires : Nat]

SubscriptionRow == [status : {"none", "active", "revoked"}, current : Orders \cup {0},
                    starts : Nat, ends : Nat, cancelling : BOOLEAN]

RefundRow == [status : RefundStatus, order : Orders \cup {0}, requested : Instant,
              reviewed : Instant]

Event == [kind : EventKinds, order : Orders, payment : Payments \cup {0},
          refund : Refunds \cup {0}]

Rows ==
  /\ now \in Instant
  /\ onSale \subseteq Offers
  /\ order \in [Orders -> OrderRow]
  /\ grant \in [Orders -> GrantRow]
  /\ subscription \in [Orders -> SubscriptionRow]
  /\ refund \in [Refunds -> RefundRow]
  /\ events \subseteq Event

LEMMA Typed == BillingTypeOK <=> Rows
BY DEF BillingTypeOK, Rows, OrderRow, GrantRow, SubscriptionRow, RefundRow, Event

LEMMA Constants ==
  /\ Period \in Nat /\ Period > 0 /\ MaxTime \in Nat /\ Never \in Nat
  /\ Instant \subseteq Nat /\ 0 \in Instant
  /\ \A at \in 0 .. now : now \in Instant => at \in Instant /\ at \in Nat /\ at <= now
  /\ Orders \subseteq Nat \ {0} /\ Refunds \subseteq Nat \ {0} /\ Payments \subseteq Nat \ {0}
BY BillingAssumption DEF Instant, Never, Orders, Refunds, Payments

LEMMA RowsInit == BillingInit => Rows
<1> SUFFICES ASSUME BillingInit PROVE Rows
  OBVIOUS
<1>1. NoOrder \in OrderRow
  BY Constants DEF NoOrder, OrderRow, OrderStatus
<1>2. NoGrant \in GrantRow
  BY DEF NoGrant, GrantRow
<1>3. NoSubscription \in SubscriptionRow
  BY DEF NoSubscription, SubscriptionRow
<1>4. NoRefund \in RefundRow
  BY Constants DEF NoRefund, RefundRow, RefundStatus
<1> QED
  BY <1>1, <1>2, <1>3, <1>4, Constants DEF BillingInit, Rows

(* Taking an order back leaves its period, and that of the subscription,    *)
(* where they were.                                                         *)
LEMMA TakenBack ==
  ASSUME Rows, NEW o \in Orders, NEW at \in Nat, TakeBack(o, at)
  PROVE  /\ grant' \in [Orders -> GrantRow]
         /\ subscription' \in [Orders -> SubscriptionRow]
         /\ \A p \in Orders :
              /\ grant'[p].starts = grant[p].starts /\ grant'[p].expires = grant[p].expires
              /\ grant'[p].status = "none" <=> grant[p].status = "none"
              /\ grant'[p].status = "active" =>
                   /\ grant[p].status = "active"
                   /\ p = o => grant[p].expires <= at
              /\ subscription'[p].ends = subscription[p].ends
              /\ subscription'[p].current = subscription[p].current
              /\ subscription'[p].status = "none" <=> subscription[p].status = "none"
              /\ subscription'[p].status = "active" =>
                   /\ subscription[p].status = "active"
                   /\ subscription[p].current = o => subscription[p].ends <= at
<1> USE DEF Rows
<1>1. /\ grant' = [grant EXCEPT ![o] = Revoked(grant[o], at)]
      /\ subscription' = Unsubscribed(o, at)
  BY DEF TakeBack
<1>2. \A g \in GrantRow : /\ Revoked(g, at) \in GrantRow
                          /\ Revoked(g, at).starts = g.starts /\ Revoked(g, at).expires = g.expires
                          /\ Revoked(g, at).status = "none" <=> g.status = "none"
                          /\ Revoked(g, at).status = "active" => g.status = "active" /\ g.expires <= at
  BY DEF Revoked, GrantRow
<1>3. ASSUME NEW p \in Orders
      PROVE  /\ grant'[p] \in GrantRow
             /\ grant'[p].starts = grant[p].starts /\ grant'[p].expires = grant[p].expires
             /\ grant'[p].status = "none" <=> grant[p].status = "none"
             /\ grant'[p].status = "active" =>
                  grant[p].status = "active" /\ (p = o => grant[p].expires <= at)
  BY <1>1, <1>2
<1>4. ASSUME NEW p \in Orders
      PROVE  /\ subscription'[p] \in SubscriptionRow
             /\ subscription'[p].ends = subscription[p].ends
             /\ subscription'[p].current = subscription[p].current
             /\ subscription'[p].status = "none" <=> subscription[p].status = "none"
             /\ subscription'[p].status = "active" =>
                   /\ subscription[p].status = "active"
                   /\ subscription[p].current = o => subscription[p].ends <= at
  <2>1. subscription[p] \in SubscriptionRow
    OBVIOUS
  <2>2. subscription'[p] = IF subscription[p].current = o /\ subscription[p].status = "active"
                                                           /\ at < subscription[p].ends
                             THEN [subscription[p] EXCEPT !.status = "revoked"]
                             ELSE subscription[p]
    BY <1>1 DEF Unsubscribed
  <2> QED
    BY <2>1, <2>2 DEF SubscriptionRow
<1>5. grant' \in [Orders -> GrantRow] /\ subscription' \in [Orders -> SubscriptionRow]
  BY <1>1, <1>3, <1>4 DEF Unsubscribed
<1> QED
  BY <1>3, <1>4, <1>5

LEMMA Recorded ==
  ASSUME NEW kind \in EventKinds, NEW o \in Orders, NEW p \in Payments \cup {0},
         NEW r \in Refunds \cup {0}, events \subseteq Event, Record(kind, o, p, r)
  PROVE  events' \subseteq Event
BY DEF Record, Event

(* What the transitions of an order, and of a refund, leave behind: the      *)
(* order may not be there at all.                                            *)
LEMMA Moves ==
  ASSUME Rows, NEW o, NEW at \in Instant,
         \/ order' = [order EXCEPT ![o].status = "fulfilled", ![o].fulfilled = at]
         \/ order' = [order EXCEPT ![o].status = "refund_pending", ![o].requested = at]
         \/ \E status \in {"fulfilled", "refunded", "chargeback"} :
              order' = [order EXCEPT ![o].status = status]
  PROVE  order' \in [Orders -> OrderRow]
<1>1. CASE o \notin Orders
  BY <1>1 DEF Rows
<1>2. CASE o \in Orders
  <2> DEFINE row == order[o]
  <2>1. row \in OrderRow
    BY <1>2 DEF Rows
  <2>2. /\ {"paid", "fulfilled", "refund_pending", "refunded", "chargeback"} \subseteq OrderStatus
    BY DEF OrderStatus, PaidStatuses
  <2>4. [row EXCEPT !.status = "fulfilled", !.fulfilled = at] \in OrderRow
    BY <2>1, <2>2 DEF OrderRow
  <2>5. [row EXCEPT !.status = "refund_pending", !.requested = at] \in OrderRow
    BY <2>1, <2>2 DEF OrderRow
  <2>6. \A status \in {"fulfilled", "refunded", "chargeback"} :
          [row EXCEPT !.status = status] \in OrderRow
    BY <2>1, <2>2 DEF OrderRow
  <2>7. CASE order' = [order EXCEPT ![o].status = "fulfilled", ![o].fulfilled = at]
    BY <1>2, <2>4, <2>7 DEF Rows
  <2>8. CASE order' = [order EXCEPT ![o].status = "refund_pending", ![o].requested = at]
    BY <1>2, <2>5, <2>8 DEF Rows
  <2>9. ASSUME NEW status \in {"fulfilled", "refunded", "chargeback"},
               order' = [order EXCEPT ![o].status = status]
        PROVE  order' \in [Orders -> OrderRow]
    BY <1>2, <2>6, <2>9 DEF Rows
  <2> QED
    BY <2>7, <2>8, <2>9
<1> QED
  BY <1>1, <1>2

LEMMA RefundMoves ==
  ASSUME Rows, NEW r \in Refunds, NEW status \in RefundStatus, NEW at \in Instant,
         \/ refund' = [refund EXCEPT ![r].status = status, ![r].reviewed = at]
         \/ refund' = [refund EXCEPT ![r].status = status]
  PROVE  refund' \in [Refunds -> RefundRow]
<1>1. refund[r] \in RefundRow
  BY DEF Rows
<1>2. [refund[r] EXCEPT !.status = status, !.reviewed = at] \in RefundRow
  BY <1>1 DEF RefundRow
<1>3. [refund[r] EXCEPT !.status = status] \in RefundRow
  BY <1>1 DEF RefundRow
<1> QED
  BY <1>2, <1>3 DEF Rows

RefundsRefer ==
  \A r \in Refunds : refund[r].status # "none" => refund[r].order \in Orders

LEMMA RowsSteps ==
  ASSUME Rows, RefundsRefer, [BillingNext]_billingVars
  PROVE  Rows'
<1> USE Constants DEF Rows
<1> USE DEF sales
<1>1. CASE Tick
  BY <1>1, BillingAssumption DEF Tick, Instant
<1>2. ASSUME NEW f \in Offers, Retire(f)
      PROVE  Rows'
  BY <1>2 DEF Retire
<1>3. ASSUME NEW at \in 0 .. now, NEW o \in Orders, NEW u \in Users, NEW f \in Offers,
             NEW s \in Orders \cup {0}, PlaceOrder(o, u, f, s, at)
      PROVE  Rows'
  <2>1. [NoOrder EXCEPT !.status = "awaiting_payment", !.buyer = u, !.offer = f,
                        !.renews = s, !.created = at] \in OrderRow
    BY DEF NoOrder, OrderRow, OrderStatus
  <2> QED
    BY <1>3, <2>1 DEF PlaceOrder
<1>4. ASSUME NEW at \in 0 .. now, NEW o \in Orders, ChargebackOpens(o, at)
      PROVE  Rows'
  <2>1. order' \in [Orders -> OrderRow]
    BY <1>4 DEF ChargebackOpens, OrderRow, OrderStatus
  <2>2. order[o].payment \in Payments \cup {0} /\ 0 \in Refunds \cup {0}
    BY DEF OrderRow
  <2>3. events' \subseteq Event
    BY <1>4, <2>2, Recorded DEF ChargebackOpens, EventKinds
  <2>4. grant' \in [Orders -> GrantRow] /\ subscription' \in [Orders -> SubscriptionRow]
    BY <1>4, TakenBack DEF ChargebackOpens
  <2> QED
    BY <1>4, <2>1, <2>3, <2>4 DEF ChargebackOpens
<1>5. ASSUME NEW at \in 0 .. now, NEW o \in Orders, NEW p \in Payments, PaymentSucceeds(o, p, at)
      PROVE  Rows'
  <2>1. order' \in [Orders -> OrderRow]
    <3>1. order[o] \in OrderRow /\ "paid" \in OrderStatus
      BY DEF OrderStatus, PaidStatuses
    <3>2. [order[o] EXCEPT !.status = "paid", !.payment = p, !.paid = at] \in OrderRow
      BY <3>1 DEF OrderRow
    <3> QED
      BY <1>5, <3>2 DEF PaymentSucceeds
  <2>2. events' \subseteq Event
    BY <1>5, Recorded DEF PaymentSucceeds, EventKinds
  <2> QED
    BY <1>5, <2>1, <2>2 DEF PaymentSucceeds
<1>6. ASSUME NEW at \in 0 .. now, NEW o \in Orders, Fulfilled(o, at), UNCHANGED sales,
             NEW from \in Nat, NEW until \in Nat, Granted(o, from, until),
             UNCHANGED <<refund, events>>, subscription' \in [Orders -> SubscriptionRow]
      PROVE  Rows'
  <2>1. order' \in [Orders -> OrderRow]
    <3>1. order' = [order EXCEPT ![o].status = "fulfilled", ![o].fulfilled = at]
      BY <1>6 DEF Fulfilled
    <3> QED
      BY <3>1, Moves
  <2>2. [status |-> "active", starts |-> from, expires |-> until] \in GrantRow
    BY DEF GrantRow
  <2> QED
    BY <1>6, <2>1, <2>2 DEF Granted
<1>7. ASSUME NEW at \in 0 .. now, NEW o \in Orders, FulfillOnce(o, at)
      PROVE  Rows'
  <2>1. at \in Nat
    OBVIOUS
  <2> QED
    BY <1>6, <1>7, <2>1 DEF FulfillOnce
<1>8. ASSUME NEW at \in 0 .. now, NEW o \in Orders, FulfillSubscription(o, at)
      PROVE  Rows'
  <2>1. at \in Nat /\ at + Period \in Nat
    OBVIOUS
  <2>2. [status |-> "active", current |-> o, starts |-> at, ends |-> at + Period,
         cancelling |-> FALSE] \in SubscriptionRow
    BY <2>1 DEF SubscriptionRow
  <2>3. subscription' \in [Orders -> SubscriptionRow]
    BY <1>8, <2>2 DEF FulfillSubscription
  <2> QED
    BY <1>6, <1>8, <2>1, <2>3 DEF FulfillSubscription
<1>9. ASSUME NEW at \in 0 .. now, NEW o \in Orders, FulfillRenewal(o, at)
      PROVE  Rows'
  <2> DEFINE s == order[o].renews
             from == NextPeriod(s, at)
  <2>1. s \in Orders /\ subscription[s] \in SubscriptionRow
    BY <1>9 DEF FulfillRenewal, OrderRow
  <2>2. from \in Nat /\ from + Period \in Nat
    BY <2>1 DEF NextPeriod, SubscriptionRow
  <2>3. subscription' = [subscription EXCEPT ![s].current = o, ![s].starts = from,
                                             ![s].ends = from + Period]
    BY <1>9 DEF FulfillRenewal
  <2>4. Fulfilled(o, at) /\ Granted(o, from, from + Period)
    BY <1>9 DEF FulfillRenewal
  <2>5. UNCHANGED sales /\ UNCHANGED <<refund, events>>
    BY <1>9 DEF FulfillRenewal
  <2> HIDE DEF s, from
  <2>6. subscription' \in [Orders -> SubscriptionRow]
    BY <2>1, <2>2, <2>3 DEF SubscriptionRow
  <2> QED
    BY <1>6, <2>2, <2>4, <2>5, <2>6
<1>10. ASSUME NEW at \in 0 .. now, NEW o \in Orders, NEW r \in Refunds, RequestRefund(o, r, at)
       PROVE  Rows'
  <2>1. [NoRefund EXCEPT !.status = "requested", !.order = o, !.requested = at] \in RefundRow
    BY DEF NoRefund, RefundRow, RefundStatus
  <2>2. order' \in [Orders -> OrderRow]
    <3>1. order' = [order EXCEPT ![o].status = "refund_pending", ![o].requested = at]
      BY <1>10 DEF RequestRefund
    <3> QED
      BY <3>1, Moves
  <2> QED
    BY <1>10, <2>1, <2>2 DEF RequestRefund
<1>11. ASSUME NEW at \in 0 .. now, NEW s \in Orders, CancelSubscription(s, at)
       PROVE  Rows'
  BY <1>11 DEF CancelSubscription, SubscriptionRow
<1>12. ASSUME NEW at \in 0 .. now, NEW r \in Refunds, ApproveRefund(r, at)
       PROVE  Rows'
  <2>1. refund' = [refund EXCEPT ![r].status = "approved", ![r].reviewed = at]
    BY <1>12 DEF ApproveRefund
  <2>2. "approved" \in RefundStatus /\ at \in Instant
    BY DEF RefundStatus
  <2>3. refund' \in [Refunds -> RefundRow]
    BY <2>1, <2>2, RefundMoves
  <2> QED
    BY <1>12, <2>3 DEF ApproveRefund
<1>13. ASSUME NEW at \in 0 .. now, NEW r \in Refunds, RejectRefund(r, at)
       PROVE  Rows'
  <2>1. order' \in [Orders -> OrderRow]
    <3>1. order' = [order EXCEPT ![refund[r].order].status = "fulfilled"]
      BY <1>13 DEF RejectRefund
    <3> QED
      BY <3>1, Moves
  <2>2. refund' \in [Refunds -> RefundRow]
    <3>1. refund' = [refund EXCEPT ![r].status = "rejected", ![r].reviewed = at]
      BY <1>13 DEF RejectRefund
    <3>2. "rejected" \in RefundStatus /\ at \in Instant
      BY DEF RefundStatus
    <3> QED
      BY <3>1, <3>2, RefundMoves
  <2> QED
    BY <1>13, <2>1, <2>2 DEF RejectRefund
<1>14. ASSUME NEW at \in 0 .. now, NEW r \in Refunds, refund[r].order \in Orders,
              NEW kind \in EventKinds, Settles(r, kind, at)
       PROVE  events' \subseteq Event
  <2>1. order[refund[r].order].payment \in Payments \cup {0}
    BY <1>14 DEF OrderRow
  <2> QED
    BY <1>14, <2>1, Recorded DEF Settles
<1>15. ASSUME NEW at \in 0 .. now, NEW r \in Refunds, refund[r].order \in Orders,
              RefundSucceeds(r, at)
       PROVE  Rows'
  <2>1. events' \subseteq Event
    BY <1>14, <1>15 DEF RefundSucceeds, EventKinds
  <2>2. refund' \in [Refunds -> RefundRow]
    <3>1. refund' = [refund EXCEPT ![r].status = "succeeded"]
      BY <1>15 DEF RefundSucceeds
    <3>2. "succeeded" \in RefundStatus /\ at \in Instant
      BY DEF RefundStatus
    <3> QED
      BY <3>1, <3>2, RefundMoves
  <2>3. order' \in [Orders -> OrderRow]
    <3>1. order' = [order EXCEPT ![refund[r].order].status = "refunded"]
      BY <1>15 DEF RefundSucceeds
    <3> QED
      BY <3>1, Moves
  <2>4. grant' \in [Orders -> GrantRow] /\ subscription' \in [Orders -> SubscriptionRow]
    BY <1>15, TakenBack DEF RefundSucceeds
  <2> QED
    BY <1>15, <2>1, <2>2, <2>3, <2>4 DEF RefundSucceeds
<1>16. ASSUME NEW at \in 0 .. now, NEW r \in Refunds, refund[r].order \in Orders,
              RefundFails(r, at)
       PROVE  Rows'
  <2>1. events' \subseteq Event
    BY <1>14, <1>16 DEF RefundFails, EventKinds
  <2>2. refund' \in [Refunds -> RefundRow]
    <3>1. refund' = [refund EXCEPT ![r].status = "failed"]
      BY <1>16 DEF RefundFails
    <3>2. "failed" \in RefundStatus /\ at \in Instant
      BY DEF RefundStatus
    <3> QED
      BY <3>1, <3>2, RefundMoves
  <2>3. order' \in [Orders -> OrderRow]
    <3>1. order' = [order EXCEPT ![refund[r].order].status = "fulfilled"]
      BY <1>16 DEF RefundFails
    <3> QED
      BY <3>1, Moves
  <2> QED
    BY <1>16, <2>1, <2>2, <2>3 DEF RefundFails
<1>17. ASSUME NEW o \in Orders, PaymentFails(o)
       PROVE  Rows'
  BY <1>17, Recorded DEF PaymentFails, EventKinds
<1>18. CASE UNCHANGED billingVars
  BY <1>18 DEF billingVars
<1> QED
  BY <1>1, <1>2, <1>3, <1>4, <1>5, <1>7, <1>8, <1>9, <1>10, <1>11, <1>12, <1>13, <1>15, <1>16,
     <1>17, <1>18, BillingAssumption DEF BillingNext, RefundsRefer, RefundSucceeds, RefundFails,
     Settles

----------------------------------------------------------------------------
(* An order and its refunds *)

Together ==
  /\ RefundsRefer
  /\ \A o \in Orders :
       /\ order[o].status = "refund_pending" => \E r \in Refunds : UnderWay(o) = {r}
       /\ UnderWay(o) # {} => order[o].status \in {"refund_pending", "chargeback"}
       /\ order[o].status = "refunded" =>
            \E r \in Refunds : refund[r].order = o /\ refund[r].status = "succeeded"

LEMMA TogetherInStep == Together => RefundsInStep
<1>1. \A r \in Refunds : Cardinality({r}) = 1
  BY FS_Singleton
<1>2. Together => \A o \in Orders :
                    order[o].status = "refund_pending" => Cardinality(UnderWay(o)) = 1
  <2> SUFFICES ASSUME Together, NEW o \in Orders, order[o].status = "refund_pending"
               PROVE  Cardinality(UnderWay(o)) = 1
    OBVIOUS
  <2>1. PICK r \in Refunds : UnderWay(o) = {r}
    BY DEF Together
  <2> QED
    BY <1>1, <2>1
<1> QED
  BY <1>2 DEF Together, RefundsInStep

(* A step that leaves the refunds alone moves an order only where it has    *)
(* none under way and waits for none.                                       *)
LEMMA RefundsAlone ==
  ASSUME Together, UNCHANGED refund,
         \A o \in Orders :
           \/ order'[o].status = order[o].status
           \/ order'[o].status = "chargeback"
           \/ /\ order[o].status \notin {"refund_pending", "chargeback"}
              /\ order'[o].status \notin {"refund_pending", "refunded"}
  PROVE  Together'
<1>1. \A o \in Orders : UnderWay(o)' = UnderWay(o)
  BY DEF UnderWay
<1>2. RefundsRefer'
  BY DEF Together, RefundsRefer
<1>3. ASSUME NEW o \in Orders
      PROVE  /\ order'[o].status = "refund_pending" => \E r \in Refunds : UnderWay(o)' = {r}
             /\ UnderWay(o)' # {} => order'[o].status \in {"refund_pending", "chargeback"}
             /\ order'[o].status = "refunded" =>
                  \E r \in Refunds : refund'[r].order = o /\ refund'[r].status = "succeeded"
  BY <1>1 DEF Together
<1> QED
  BY <1>2, <1>3 DEF Together

(* A settlement ends the one refund that its order waited for. *)
LEMMA RefundEnds ==
  ASSUME Rows, Together, NEW r \in Refunds, refund[r].status \in {"requested", "approved"},
         order[refund[r].order].status = "refund_pending",
         NEW end \in {"rejected", "failed", "succeeded"},
         refund'[r].status = end, refund'[r].order = refund[r].order,
         \A q \in Refunds \ {r} : refund'[q] = refund[q],
         order'[refund[r].order].status = IF end = "succeeded" THEN "refunded" ELSE "fulfilled",
         \A p \in Orders \ {refund[r].order} : order'[p] = order[p]
  PROVE  Together'
<1> DEFINE o == refund[r].order
<1>1. o \in Orders /\ r \in UnderWay(o)
  BY DEF Together, RefundsRefer, UnderWay
<1>2. UnderWay(o) = {r}
  BY <1>1 DEF Together
<1>3. UnderWay(o)' = {}
  BY <1>2 DEF UnderWay
<1>4. \A p \in Orders \ {o} : UnderWay(p)' = UnderWay(p)
  BY DEF UnderWay
<1>5. RefundsRefer'
  BY <1>1 DEF Together, RefundsRefer
<1>6. ASSUME NEW p \in Orders
      PROVE  /\ order'[p].status = "refund_pending" => \E q \in Refunds : UnderWay(p)' = {q}
             /\ UnderWay(p)' # {} => order'[p].status \in {"refund_pending", "chargeback"}
             /\ order'[p].status = "refunded" =>
                  \E q \in Refunds : refund'[q].order = p /\ refund'[q].status = "succeeded"
  <2>1. CASE p = o
    BY <1>3, <2>1
  <2>2. CASE p # o
    <3>1. order'[p] = order[p] /\ UnderWay(p)' = UnderWay(p)
      BY <1>4, <2>2
    <3>2. \A q \in Refunds : refund[q].order = p => refund'[q] = refund[q]
      BY <2>2
    <3> QED
      BY <3>1, <3>2 DEF Together
  <2> QED
    BY <2>1, <2>2
<1> QED
  BY <1>5, <1>6 DEF Together

LEMMA TogetherSteps ==
  ASSUME Rows, Together, [BillingNext]_billingVars
  PROVE  Together'
<1> USE DEF Rows
<1>1. ASSUME NEW o \in Orders, NEW r \in Refunds, NEW at \in 0 .. now, RequestRefund(o, r, at)
      PROVE  Together'
  <2>1. /\ order[o].status = "fulfilled" /\ order'[o].status = "refund_pending"
        /\ \A p \in Orders \ {o} : order'[p] = order[p]
        /\ refund[r].status = "none"
        /\ refund'[r].status = "requested" /\ refund'[r].order = o
        /\ \A q \in Refunds \ {r} : refund'[q] = refund[q]
    BY <1>1 DEF RequestRefund, NoRefund, OrderRow, RefundRow
  <2>2. UnderWay(o) = {}
    BY <2>1 DEF Together
  <2>3. UnderWay(o)' = {r}
    BY <2>1, <2>2 DEF UnderWay
  <2>4. \A p \in Orders \ {o} : UnderWay(p)' = UnderWay(p)
    BY <2>1 DEF UnderWay
  <2>5. RefundsRefer'
    BY <2>1 DEF Together, RefundsRefer
  <2>6. \A q \in Refunds : refund[q].status = "succeeded" => refund'[q] = refund[q]
    BY <2>1
  <2> QED
    BY <2>1, <2>3, <2>4, <2>5, <2>6 DEF Together
<1>2. ASSUME NEW r \in Refunds, NEW at \in 0 .. now, ApproveRefund(r, at)
      PROVE  Together'
  <2>1. /\ refund[r].status = "requested" /\ refund'[r].status = "approved"
        /\ refund'[r].order = refund[r].order
        /\ \A q \in Refunds \ {r} : refund'[q] = refund[q]
        /\ UNCHANGED order
    BY <1>2 DEF ApproveRefund, RefundRow
  <2>2. \A p \in Orders : UnderWay(p)' = UnderWay(p)
    BY <2>1 DEF UnderWay
  <2>3. RefundsRefer'
    BY <2>1 DEF Together, RefundsRefer
  <2>4. \A q \in Refunds : refund[q].status = "succeeded" => refund'[q] = refund[q]
    BY <2>1
  <2> QED
    BY <2>1, <2>2, <2>3, <2>4 DEF Together
<1>3. ASSUME NEW r \in Refunds, NEW at \in 0 .. now, RejectRefund(r, at)
      PROVE  Together'
  <2>1. refund[r].order \in Orders
    BY <1>3 DEF RejectRefund, Together, RefundsRefer
  <2>2. /\ refund[r].status = "requested" /\ refund'[r].status = "rejected"
        /\ refund'[r].order = refund[r].order
        /\ \A q \in Refunds \ {r} : refund'[q] = refund[q]
    BY <1>3 DEF RejectRefund, RefundRow
  <2>3. /\ order[refund[r].order].status = "refund_pending"
        /\ order'[refund[r].order].status = "fulfilled"
        /\ \A p \in Orders \ {refund[r].order} : order'[p] = order[p]
    BY <1>3, <2>1 DEF RejectRefund, OrderRow
  <2> QED
    BY <2>1, <2>2, <2>3, RefundEnds
<1>4. ASSUME NEW r \in Refunds, NEW at \in 0 .. now, RefundSucceeds(r, at)
      PROVE  Together'
  <2>1. refund[r].order \in Orders
    BY <1>4 DEF RefundSucceeds, Settles, Together, RefundsRefer
  <2>2. /\ refund[r].status = "approved" /\ refund'[r].status = "succeeded"
        /\ refund'[r].order = refund[r].order
        /\ \A q \in Refunds \ {r} : refund'[q] = refund[q]
    BY <1>4 DEF RefundSucceeds, Settles, RefundRow
  <2>3. /\ order[refund[r].order].status = "refund_pending"
        /\ order'[refund[r].order].status = "refunded"
        /\ \A p \in Orders \ {refund[r].order} : order'[p] = order[p]
    BY <1>4, <2>1 DEF RefundSucceeds, Settles, OrderRow
  <2> QED
    BY <2>1, <2>2, <2>3, RefundEnds
<1>5. ASSUME NEW r \in Refunds, NEW at \in 0 .. now, RefundFails(r, at)
      PROVE  Together'
  <2>1. refund[r].order \in Orders
    BY <1>5 DEF RefundFails, Settles, Together, RefundsRefer
  <2>2. /\ refund[r].status = "approved" /\ refund'[r].status = "failed"
        /\ refund'[r].order = refund[r].order
        /\ \A q \in Refunds \ {r} : refund'[q] = refund[q]
    BY <1>5 DEF RefundFails, Settles, RefundRow
  <2>3. /\ order[refund[r].order].status = "refund_pending"
        /\ order'[refund[r].order].status = "fulfilled"
        /\ \A p \in Orders \ {refund[r].order} : order'[p] = order[p]
    BY <1>5, <2>1 DEF RefundFails, Settles, OrderRow
  <2> QED
    BY <2>1, <2>2, <2>3, RefundEnds
<1>6. ASSUME NEW o \in Orders, NEW at \in 0 .. now, Fulfilled(o, at), UNCHANGED refund
      PROVE  Together'
  <2>1. /\ order[o].status = "paid" /\ order'[o].status = "fulfilled"
        /\ \A p \in Orders \ {o} : order'[p] = order[p]
    BY <1>6 DEF Fulfilled, OrderRow
  <2> QED
    BY <1>6, <2>1, RefundsAlone
<1>7. ASSUME NEW o \in Orders, NEW at \in 0 .. now,
             FulfillOnce(o, at) \/ FulfillSubscription(o, at) \/ FulfillRenewal(o, at)
      PROVE  Together'
  BY <1>6, <1>7 DEF FulfillOnce, FulfillSubscription, FulfillRenewal
<1>8. ASSUME NEW o \in Orders, NEW at \in 0 .. now, NEW u \in Users, NEW f \in Offers,
             NEW s \in Orders \cup {0}, PlaceOrder(o, u, f, s, at)
      PROVE  Together'
  <2>1. /\ order[o].status = "none" /\ order'[o].status = "awaiting_payment"
        /\ \A p \in Orders \ {o} : order'[p] = order[p]
        /\ UNCHANGED refund
    BY <1>8 DEF PlaceOrder, NoOrder
  <2> QED
    BY <2>1, RefundsAlone
<1>9. ASSUME NEW o \in Orders, NEW at \in 0 .. now, ChargebackOpens(o, at)
      PROVE  Together'
  <2>1. /\ order'[o].status = "chargeback"
        /\ \A p \in Orders \ {o} : order'[p] = order[p]
        /\ UNCHANGED refund
    BY <1>9 DEF ChargebackOpens, OrderRow
  <2> QED
    BY <2>1, RefundsAlone
<1>10. ASSUME NEW o \in Orders, NEW at \in 0 .. now, NEW p \in Payments, PaymentSucceeds(o, p, at)
       PROVE  Together'
  <2>1. /\ order[o].status = "awaiting_payment" /\ order'[o].status = "paid"
        /\ \A q \in Orders \ {o} : order'[q] = order[q]
        /\ UNCHANGED refund
    BY <1>10 DEF PaymentSucceeds, OrderRow
  <2> QED
    BY <2>1, RefundsAlone
<1>11. ASSUME UNCHANGED <<order, refund>>
       PROVE  Together'
  BY <1>11, RefundsAlone
<1> QED
  BY <1>1, <1>2, <1>3, <1>4, <1>5, <1>7, <1>8, <1>9, <1>10, <1>11, BillingAssumption
  DEF BillingNext, Tick, Retire, PaymentFails, CancelSubscription, billingVars

LEMMA RowsAndRefunds == BillingSpec => [](Rows /\ Together)
<1>1. BillingInit => Together
  BY DEF BillingInit, Together, RefundsRefer, UnderWay, NoRefund, NoOrder
<1>2. Together => RefundsRefer
  BY DEF Together
<1> QED
  BY <1>1, <1>2, RowsInit, RowsSteps, TogetherSteps, PTL DEF BillingSpec

(* Every variable has its type, whatever is ordered, paid, refunded and     *)
(* charged back, and when.                                                  *)
THEOREM BillingTypeCorrect == BillingSpec => []BillingTypeOK
BY RowsAndRefunds, Typed, PTL

(* An order that waits for a refund has exactly one refund on its way, and  *)
(* unless it was charged back no other order has one, for any orders,       *)
(* refunds and instants.                                                    *)
THEOREM RefundsStayInStep == BillingSpec => []RefundsInStep
BY RowsAndRefunds, TogetherInStep, PTL

----------------------------------------------------------------------------
(* Money that was returned *)

(* The clock only goes on, so what is over at an instant stays over. *)
PaidBack ==
  \A o \in Orders : order[o].status \in Returned =>
    /\ grant[o].status = "active" => grant[o].expires <= now
    /\ \A s \in Orders :
         (subscription[s].current = o /\ subscription[s].status = "active")
           => subscription[s].ends <= now

LEMMA PaidBackHasNothing == Rows /\ PaidBack => NothingForReturnedMoney
<1> SUFFICES ASSUME Rows, PaidBack, NEW o \in Orders, order[o].status \in Returned
             PROVE  /\ ~Effective(grant[o])
                    /\ \A s \in Orders : subscription[s].current = o => ~ActiveAt(s, now)
  BY DEF NothingForReturnedMoney
<1>1. now \in Nat /\ grant[o].expires \in Nat
  BY Constants DEF Rows, GrantRow
<1>2. ~Effective(grant[o])
  BY <1>1 DEF PaidBack, Effective
<1>3. ASSUME NEW s \in Orders, subscription[s].current = o
      PROVE  ~ActiveAt(s, now)
  <2>1. subscription[s].ends \in Nat
    BY DEF Rows, SubscriptionRow
  <2> QED
    BY <1>1, <1>3, <2>1 DEF PaidBack, ActiveAt
<1> QED
  BY <1>2, <1>3

(* Nothing is given to an order whose money went back. *)
LEMMA NothingGiven ==
  ASSUME Rows, PaidBack, now' \in Nat, now' >= now,
         \A o \in Orders : order'[o].status \in Returned =>
           /\ order[o].status \in Returned
           /\ grant'[o].status = "active" =>
                grant[o].status = "active" /\ grant'[o].expires = grant[o].expires
           /\ \A s \in Orders :
                (subscription'[s].current = o /\ subscription'[s].status = "active") =>
                  /\ subscription[s].current = o /\ subscription[s].status = "active"
                  /\ subscription'[s].ends = subscription[s].ends
  PROVE  PaidBack'
<1> SUFFICES ASSUME NEW o \in Orders, order'[o].status \in Returned
             PROVE  /\ grant'[o].status = "active" => grant'[o].expires <= now'
                    /\ \A s \in Orders :
                         (subscription'[s].current = o /\ subscription'[s].status = "active")
                            => subscription'[s].ends <= now'
  BY DEF PaidBack
<1>1. now \in Nat /\ grant[o].expires \in Nat
  BY Constants DEF Rows, GrantRow
<1>2. \A s \in Orders : subscription[s].ends \in Nat
  BY DEF Rows, SubscriptionRow
<1>3. grant'[o].status = "active" => grant'[o].expires <= now'
  BY <1>1 DEF PaidBack
<1>4. ASSUME NEW s \in Orders, subscription'[s].current = o, subscription'[s].status = "active"
      PROVE  subscription'[s].ends <= now'
  BY <1>1, <1>2, <1>4 DEF PaidBack
<1> QED
  BY <1>3, <1>4

(* Everything is taken from an order whose money goes back. *)
LEMMA EverythingTaken ==
  ASSUME Rows, PaidBack, UNCHANGED now, NEW o \in Orders, NEW at \in 0 .. now, TakeBack(o, at),
         \A p \in Orders \ {o} : order'[p] = order[p]
  PROVE  PaidBack'
<1>1. at \in Nat /\ now \in Nat /\ at <= now
  BY Constants DEF Rows
<1> SUFFICES ASSUME NEW p \in Orders, order'[p].status \in Returned
             PROVE  /\ grant'[p].status = "active" => grant'[p].expires <= now
                    /\ \A s \in Orders :
                         (subscription'[s].current = p /\ subscription'[s].status = "active")
                            => subscription'[s].ends <= now
  BY DEF PaidBack
<1>2. grant[p].expires \in Nat /\ \A s \in Orders : subscription[s].ends \in Nat
  BY DEF Rows, GrantRow, SubscriptionRow
<1>3. CASE p = o
  <2>1. grant'[p].status = "active" => grant'[p].expires <= at
    BY <1>1, <1>3, TakenBack
  <2>2. \A s \in Orders :
          (subscription'[s].current = p /\ subscription'[s].status = "active")
             => subscription'[s].ends \in Nat /\ subscription'[s].ends <= at
    BY <1>1, <1>2, <1>3, TakenBack
  <2>3. grant'[p].expires \in Nat
    BY <1>1, <1>2, TakenBack
  <2> QED
    BY <1>1, <2>1, <2>2, <2>3
<1>4. CASE p # o
  <2>1. order[p].status \in Returned
    BY <1>4
  <2>2. grant'[p].status = "active" => grant[p].status = "active"
    BY <1>1, TakenBack
  <2>3. grant'[p].expires = grant[p].expires
    BY <1>1, TakenBack
  <2>4. \A s \in Orders :
          (subscription'[s].current = p /\ subscription'[s].status = "active") =>
             /\ subscription[s].current = p /\ subscription[s].status = "active"
             /\ subscription'[s].ends = subscription[s].ends
    BY <1>1, TakenBack
  <2> QED
    BY <2>1, <2>2, <2>3, <2>4 DEF PaidBack
<1> QED
  BY <1>3, <1>4

LEMMA FulfilledEffect ==
  ASSUME Rows, NEW o \in Orders, NEW at, Fulfilled(o, at)
  PROVE  /\ order[o].status = "paid" /\ order'[o].status = "fulfilled"
         /\ order'[o].offer = order[o].offer /\ order'[o].renews = order[o].renews
         /\ \A p \in Orders \ {o} : order'[p] = order[p]
BY DEF Fulfilled, Rows, OrderRow

LEMMA PaidBackSteps ==
  ASSUME Rows, PaidBack, RefundsRefer, [BillingNext]_billingVars
  PROVE  PaidBack'
<1> USE DEF Rows, sales
<1>0. now \in Nat /\ now >= now
  BY Constants
<1>1. ASSUME UNCHANGED <<now, grant, subscription>>,
             \A o \in Orders : order'[o].status \in Returned => order[o].status \in Returned
      PROVE  PaidBack'
  BY <1>0, <1>1, NothingGiven
<1>2. CASE Tick
  BY <1>0, <1>2, NothingGiven DEF Tick
<1>3. ASSUME NEW o \in Orders, NEW at \in 0 .. now, NEW u \in Users, NEW f \in Offers,
             NEW s \in Orders \cup {0}, PlaceOrder(o, u, f, s, at)
      PROVE  PaidBack'
  <2>1. order'[o].status = "awaiting_payment" /\ \A p \in Orders \ {o} : order'[p] = order[p]
    BY <1>3 DEF PlaceOrder, NoOrder
  <2> QED
    BY <1>1, <1>3, <2>1 DEF PlaceOrder, Returned
<1>4. ASSUME NEW o \in Orders, NEW at \in 0 .. now, NEW p \in Payments, PaymentSucceeds(o, p, at)
      PROVE  PaidBack'
  <2>1. order'[o].status = "paid" /\ \A q \in Orders \ {o} : order'[q] = order[q]
    BY <1>4 DEF PaymentSucceeds, OrderRow
  <2> QED
    BY <1>1, <1>4, <2>1 DEF PaymentSucceeds, Returned
<1>5. ASSUME NEW o \in Orders, NEW at \in 0 .. now, ChargebackOpens(o, at)
      PROVE  PaidBack'
  <2>1. TakeBack(o, at) /\ \A p \in Orders \ {o} : order'[p] = order[p]
    BY <1>5 DEF ChargebackOpens
  <2> QED
    BY <1>5, <2>1, EverythingTaken DEF ChargebackOpens
<1>6. ASSUME NEW o \in Orders, NEW at \in 0 .. now,
             FulfillOnce(o, at) \/ FulfillSubscription(o, at) \/ FulfillRenewal(o, at)
      PROVE  PaidBack'
  <2>1. Fulfilled(o, at) /\ UNCHANGED now
    BY <1>6 DEF FulfillOnce, FulfillSubscription, FulfillRenewal
  <2>2. order'[o].status = "fulfilled" /\ \A p \in Orders \ {o} : order'[p] = order[p]
    BY <2>1, FulfilledEffect
  <2>3. \A p \in Orders \ {o} : grant'[p] = grant[p]
    BY <1>6 DEF FulfillOnce, FulfillSubscription, FulfillRenewal, Granted
  <2>4. \A s \in Orders : subscription'[s].current = o \/ subscription'[s] = subscription[s]
    <3>1. CASE FulfillOnce(o, at)
      BY <3>1 DEF FulfillOnce
    <3>2. CASE FulfillSubscription(o, at)
      BY <3>2 DEF FulfillSubscription
    <3>3. CASE FulfillRenewal(o, at)
      <4> DEFINE s == order[o].renews
                 from == NextPeriod(s, at)
      <4>1. subscription' = [subscription EXCEPT ![s].current = o, ![s].starts = from,
                                                 ![s].ends = from + Period]
        BY <3>3 DEF FulfillRenewal
      <4> HIDE DEF s, from
      <4> QED
        BY <4>1 DEF SubscriptionRow
    <3> QED
      BY <1>6, <3>1, <3>2, <3>3
  <2>5. ASSUME NEW p \in Orders, order'[p].status \in Returned
        PROVE  /\ order[p].status \in Returned
               /\ grant'[p].status = "active" =>
                    grant[p].status = "active" /\ grant'[p].expires = grant[p].expires
               /\ \A s \in Orders :
                    (subscription'[s].current = p /\ subscription'[s].status = "active") =>
                      /\ subscription[s].current = p /\ subscription[s].status = "active"
                      /\ subscription'[s].ends = subscription[s].ends
    <3>1. p # o
      BY <2>2, <2>5 DEF Returned
    <3> QED
      BY <2>2, <2>3, <2>4, <2>5, <3>1
  <2> QED
    BY <1>0, <2>1, <2>5, NothingGiven
<1>7. ASSUME NEW o \in Orders, NEW r \in Refunds, NEW at \in 0 .. now, RequestRefund(o, r, at)
      PROVE  PaidBack'
  <2>1. order'[o].status = "refund_pending" /\ \A p \in Orders \ {o} : order'[p] = order[p]
    BY <1>7 DEF RequestRefund, OrderRow
  <2> QED
    BY <1>1, <1>7, <2>1 DEF RequestRefund, Returned
<1>8. ASSUME NEW s \in Orders, NEW at \in 0 .. now, CancelSubscription(s, at)
      PROVE  PaidBack'
  <2>1. \A t \in Orders : /\ subscription'[t].current = subscription[t].current
                          /\ subscription'[t].status = subscription[t].status
                          /\ subscription'[t].ends = subscription[t].ends
    BY <1>8 DEF CancelSubscription, SubscriptionRow
  <2>2. UNCHANGED <<now, order, grant>>
    BY <1>8 DEF CancelSubscription
  <2> QED
    BY <1>0, <2>1, <2>2, NothingGiven
<1>9. ASSUME NEW r \in Refunds, NEW at \in 0 .. now, RejectRefund(r, at) \/ RefundFails(r, at)
      PROVE  PaidBack'
  <2>1. \A p \in Orders : order'[p] = order[p] \/ order'[p].status = "fulfilled"
    BY <1>9 DEF RejectRefund, RefundFails, OrderRow
  <2> QED
    BY <1>1, <1>9, <2>1 DEF RejectRefund, RefundFails, Returned
<1>10. ASSUME NEW r \in Refunds, NEW at \in 0 .. now, RefundSucceeds(r, at)
       PROVE  PaidBack'
  <2>1. refund[r].order \in Orders
    BY <1>10 DEF RefundSucceeds, Settles, RefundsRefer
  <2>2. /\ TakeBack(refund[r].order, at) /\ UNCHANGED now
        /\ \A p \in Orders \ {refund[r].order} : order'[p] = order[p]
    BY <1>10 DEF RefundSucceeds
  <2> QED
    BY <2>1, <2>2, EverythingTaken
<1> QED
  BY <1>1, <1>2, <1>3, <1>4, <1>5, <1>6, <1>7, <1>8, <1>9, <1>10, BillingAssumption
  DEF BillingNext, Retire, ApproveRefund, PaymentFails, billingVars

(* Once the money of an order went back, its entitlements have no effect    *)
(* and it carries no subscription, now and ever after, for any orders,      *)
(* renewals, refunds and chargebacks, and however late they are recorded.   *)
THEOREM NothingForMoneyBack == BillingSpec => []NothingForReturnedMoney
<1>1. BillingInit => PaidBack
  BY DEF BillingInit, PaidBack, NoOrder, Returned
<1>2. Together => RefundsRefer
  BY DEF Together
<1> QED
  BY <1>1, <1>2, RowsAndRefunds, PaidBackSteps, PaidBackHasNothing, PTL DEF BillingSpec

----------------------------------------------------------------------------
(* The periods of a subscription *)

Early == {"none", "awaiting_payment", "paid"}

(* The row of a subscription ends where the last of its periods does. *)
Follows ==
  \A o \in Orders :
    /\ order[o].status \in Early => grant[o].status = "none" /\ subscription[o].status = "none"
    /\ subscription[o].status # "none" => order[o].renews = 0 /\ order[o].offer \in Subscribing
    /\ order[o].renews # 0 => /\ subscription[order[o].renews].status # "none"
                              /\ order[o].offer = order[order[o].renews].offer
    /\ (grant[o].status # "none" /\ order[o].offer \in Subscribing) =>
         /\ subscription[SubscriptionOf(o)].status # "none"
         /\ grant[o].expires <= subscription[SubscriptionOf(o)].ends

Periods == Follows /\ PeriodsDisjoint

(* Nothing that a period depends on changes. *)
LEMMA PeriodsKept ==
  ASSUME Rows, Periods,
         \A o \in Orders :
           /\ order'[o].offer = order[o].offer /\ order'[o].renews = order[o].renews
           /\ order'[o].status \in Early => order[o].status \in Early
           /\ grant'[o].starts = grant[o].starts /\ grant'[o].expires = grant[o].expires
           /\ grant'[o].status = "none" <=> grant[o].status = "none"
           /\ subscription'[o].ends = subscription[o].ends
           /\ subscription'[o].status = "none" <=> subscription[o].status = "none"
  PROVE  Periods'
<1>1. \A o \in Orders : SubscriptionOf(o) \in Orders /\ SubscriptionOf(o)' = SubscriptionOf(o)
  BY Constants DEF Rows, OrderRow, SubscriptionOf
<1>2. \A o \in Orders : order[o].renews # 0 => order[o].renews \in Orders
  BY DEF Rows, OrderRow
<1>3. Follows'
  <2> SUFFICES ASSUME NEW o \in Orders
               PROVE  /\ order'[o].status \in Early =>
                           grant'[o].status = "none" /\ subscription'[o].status = "none"
                      /\ subscription'[o].status # "none" =>
                           order'[o].renews = 0 /\ order'[o].offer \in Subscribing
                      /\ order'[o].renews # 0 =>
                           /\ subscription'[order'[o].renews].status # "none"
                           /\ order'[o].offer = order'[order'[o].renews].offer
                      /\ (grant'[o].status # "none" /\ order'[o].offer \in Subscribing) =>
                           /\ subscription'[SubscriptionOf(o)'].status # "none"
                           /\ grant'[o].expires <= subscription'[SubscriptionOf(o)'].ends
    BY DEF Follows
  <2> QED
    BY <1>1, <1>2 DEF Periods, Follows
<1>4. PeriodsDisjoint'
  BY <1>1 DEF Periods, PeriodsDisjoint
<1> QED
  BY <1>3, <1>4 DEF Periods

LEMMA PlacedFollows ==
  ASSUME Rows, Periods, NEW o \in Orders, NEW u \in Users, NEW f \in Offers,
         NEW s \in Orders \cup {0}, NEW at \in Nat, PlaceOrder(o, u, f, s, at)
  PROVE  Periods'
<1> USE DEF Rows
<1>1. /\ order[o].status = "none" /\ grant[o].status = "none" /\ subscription[o].status = "none"
      /\ \A p \in Orders \ {o} : order'[p] = order[p]
      /\ UNCHANGED <<grant, subscription>>
  BY DEF PlaceOrder, Periods, Follows, Early
<1>2. order'[o].offer = f /\ order'[o].renews = s /\ order'[o].status = "awaiting_payment"
  BY DEF PlaceOrder, NoOrder
<1>3. s # 0 => /\ s \in Orders \ {o} /\ subscription[s].status # "none"
               /\ f = order[s].offer
  BY <1>1 DEF PlaceOrder, MayRenew, ActiveAt
<1>4. \A p \in Orders : order[p].renews # 0 =>
        order[p].renews \in Orders /\ order[p].renews # o
  BY <1>1 DEF OrderRow, Periods, Follows
<1>5. \A p \in Orders \ {o} : SubscriptionOf(p)' = SubscriptionOf(p) /\ SubscriptionOf(p) \in Orders
  BY <1>1 DEF SubscriptionOf, OrderRow
<1>6. ASSUME NEW p \in Orders
      PROVE  /\ order'[p].status \in Early =>
                  grant'[p].status = "none" /\ subscription'[p].status = "none"
             /\ subscription'[p].status # "none" =>
                  order'[p].renews = 0 /\ order'[p].offer \in Subscribing
             /\ order'[p].renews # 0 =>
                  /\ subscription'[order'[p].renews].status # "none"
                  /\ order'[p].offer = order'[order'[p].renews].offer
             /\ (grant'[p].status # "none" /\ order'[p].offer \in Subscribing) =>
                  /\ subscription'[SubscriptionOf(p)'].status # "none"
                  /\ grant'[p].expires <= subscription'[SubscriptionOf(p)'].ends
  <2>1. CASE p = o
    BY <1>1, <1>2, <1>3, <2>1
  <2>2. CASE p # o
    BY <1>1, <1>4, <1>5, <2>2 DEF Periods, Follows
  <2> QED
    BY <2>1, <2>2
<1>7. PeriodsDisjoint'
  BY <1>1, <1>5 DEF Periods, PeriodsDisjoint
<1> QED
  BY <1>6, <1>7 DEF Periods, Follows

(* The orders that pay for the subscription of s are those of its offer. *)
LEMMA SameOffer ==
  ASSUME Rows, Follows, NEW o \in Orders, NEW p \in Orders, SubscriptionOf(o) = SubscriptionOf(p)
  PROVE  order[o].offer = order[p].offer
BY Constants DEF Rows, OrderRow, Follows, SubscriptionOf

LEMMA FulfilledOnceFollows ==
  ASSUME Rows, Periods, NEW o \in Orders, NEW at \in Nat, FulfillOnce(o, at)
  PROVE  Periods'
<1> USE DEF Rows
<1>1. /\ order[o].status = "paid" /\ order'[o].status = "fulfilled"
      /\ order'[o].offer = order[o].offer /\ order'[o].renews = order[o].renews
      /\ \A p \in Orders \ {o} : order'[p] = order[p]
  BY FulfilledEffect DEF FulfillOnce
<1>2. /\ UNCHANGED subscription /\ order[o].offer \notin Subscribing
      /\ \A p \in Orders \ {o} : grant'[p] = grant[p]
  BY DEF FulfillOnce, Granted
<1>3. subscription[o].status = "none"
  BY <1>1 DEF Periods, Follows, Early
<1>4. \A p \in Orders : /\ order'[p].offer = order[p].offer /\ order'[p].renews = order[p].renews
                        /\ SubscriptionOf(p)' = SubscriptionOf(p) /\ SubscriptionOf(p) \in Orders
                        /\ order[p].renews # 0 => order[p].renews \in Orders
  BY <1>1 DEF SubscriptionOf, OrderRow
<1>5. Follows'
  <2> SUFFICES ASSUME NEW p \in Orders
               PROVE  /\ order'[p].status \in Early =>
                           grant'[p].status = "none" /\ subscription'[p].status = "none"
                      /\ subscription'[p].status # "none" =>
                           order'[p].renews = 0 /\ order'[p].offer \in Subscribing
                      /\ order'[p].renews # 0 =>
                           /\ subscription'[order'[p].renews].status # "none"
                           /\ order'[p].offer = order'[order'[p].renews].offer
                      /\ (grant'[p].status # "none" /\ order'[p].offer \in Subscribing) =>
                           /\ subscription'[SubscriptionOf(p)'].status # "none"
                           /\ grant'[p].expires <= subscription'[SubscriptionOf(p)'].ends
    BY DEF Follows
  <2> QED
    BY <1>1, <1>2, <1>3, <1>4 DEF Periods, Follows, Early
<1>6. PeriodsDisjoint'
  <2> SUFFICES ASSUME NEW p \in Orders, NEW q \in Orders, p # q,
                      order'[p].offer \in Subscribing, SubscriptionOf(p)' = SubscriptionOf(q)',
                      grant'[p].status # "none", grant'[q].status # "none"
               PROVE  grant'[p].expires <= grant'[q].starts \/ grant'[q].expires <= grant'[p].starts
    BY DEF PeriodsDisjoint
  <2>1. order[q].offer \in Subscribing /\ SubscriptionOf(p) = SubscriptionOf(q)
    BY <1>4, SameOffer DEF Periods
  <2>2. p # o /\ q # o
    BY <1>2, <1>4, <2>1
  <2> QED
    BY <1>2, <1>4, <2>1, <2>2 DEF Periods, PeriodsDisjoint
<1> QED
  BY <1>5, <1>6 DEF Periods

(* Every period of a subscription begins where all of the earlier ones have *)
(* ended, whether it is the first or a renewal.                             *)
LEMMA PeriodAdded ==
  ASSUME Rows, Periods, NEW o \in Orders, NEW s \in Orders, NEW from \in Nat,
         order[o].status = "paid", order'[o].status = "fulfilled",
         \A p \in Orders : order'[p].offer = order[p].offer /\ order'[p].renews = order[p].renews,
         \A p \in Orders \ {o} : order'[p].status = order[p].status,
         SubscriptionOf(o) = s, order[o].offer \in Subscribing,
         Granted(o, from, from + Period),
         \A t \in Orders \ {s} : subscription'[t] = subscription[t],
         subscription'[s].status = "active", subscription'[s].ends = from + Period,
         subscription[s].status # "none" => from = subscription[s].ends,
         subscription[s].status = "none" => s = o
  PROVE  Periods'
<1> USE DEF Rows
<1>1. \A p \in Orders : SubscriptionOf(p)' = SubscriptionOf(p) /\ SubscriptionOf(p) \in Orders
  BY DEF SubscriptionOf, OrderRow
<1>2. /\ grant'[o].status = "active" /\ grant'[o].starts = from
      /\ grant'[o].expires = from + Period
      /\ \A p \in Orders \ {o} : grant'[p] = grant[p]
  BY DEF Granted
<1>3. from + Period \in Nat /\ from <= from + Period
  BY Constants
<1>4. ASSUME NEW p \in Orders \ {o}, SubscriptionOf(p) = s, grant[p].status # "none"
      PROVE  grant[p].expires \in Nat /\ grant[p].expires <= from
  <2>1. order[p].offer \in Subscribing
    BY <1>4, SameOffer DEF Periods
  <2>2. subscription[s].status # "none" /\ grant[p].expires <= subscription[s].ends
    BY <1>4, <2>1 DEF Periods, Follows
  <2> QED
    BY <2>2 DEF GrantRow
<1>5. order[s].renews = 0 /\ order[s].offer \in Subscribing
  <2>1. CASE subscription[s].status = "none"
    <3>1. s = o
      BY <2>1
    <3>2. order[o].renews # 0 => order[o].renews = s /\ subscription[s].status # "none"
      BY DEF SubscriptionOf, Periods, Follows
    <3> QED
      BY <2>1, <3>1, <3>2
  <2>2. CASE subscription[s].status # "none"
    BY <2>2 DEF Periods, Follows
  <2> QED
    BY <2>1, <2>2
<1>6. Follows'
  <2> SUFFICES ASSUME NEW p \in Orders
               PROVE  /\ order'[p].status \in Early =>
                           grant'[p].status = "none" /\ subscription'[p].status = "none"
                      /\ subscription'[p].status # "none" =>
                           order'[p].renews = 0 /\ order'[p].offer \in Subscribing
                      /\ order'[p].renews # 0 =>
                           /\ subscription'[order'[p].renews].status # "none"
                           /\ order'[p].offer = order'[order'[p].renews].offer
                      /\ (grant'[p].status # "none" /\ order'[p].offer \in Subscribing) =>
                           /\ subscription'[SubscriptionOf(p)'].status # "none"
                           /\ grant'[p].expires <= subscription'[SubscriptionOf(p)'].ends
    BY DEF Follows
  <2>1. s = o \/ order[s].status \notin Early
    BY DEF Periods, Follows
  <2>2. order'[p].status \in Early => grant'[p].status = "none" /\ subscription'[p].status = "none"
    BY <1>2, <2>1 DEF Periods, Follows, Early
  <2>3. subscription'[p].status # "none" =>
          order'[p].renews = 0 /\ order'[p].offer \in Subscribing
    BY <1>5 DEF Periods, Follows
  <2>4. order[p].renews # 0 => order[p].renews \in Orders
    BY DEF OrderRow
  <2>5. order'[p].renews # 0 => /\ subscription'[order'[p].renews].status # "none"
                                /\ order'[p].offer = order'[order'[p].renews].offer
    BY <2>4 DEF Periods, Follows
  <2>6. ASSUME grant'[p].status # "none", order'[p].offer \in Subscribing
        PROVE  /\ subscription'[SubscriptionOf(p)'].status # "none"
               /\ grant'[p].expires <= subscription'[SubscriptionOf(p)'].ends
    <3>1. CASE p = o
      BY <1>1, <1>2, <1>3, <3>1
    <3>2. CASE p # o /\ SubscriptionOf(p) = s
      BY <1>1, <1>2, <1>3, <1>4, <2>6, <3>2
    <3>3. CASE p # o /\ SubscriptionOf(p) # s
      BY <1>1, <1>2, <2>6, <3>3 DEF Periods, Follows
    <3> QED
      BY <3>1, <3>2, <3>3
  <2> QED
    BY <2>2, <2>3, <2>5, <2>6
<1>7. PeriodsDisjoint'
  <2> SUFFICES ASSUME NEW p \in Orders, NEW q \in Orders, p # q,
                      order'[p].offer \in Subscribing, SubscriptionOf(p)' = SubscriptionOf(q)',
                      grant'[p].status # "none", grant'[q].status # "none"
               PROVE  grant'[p].expires <= grant'[q].starts \/ grant'[q].expires <= grant'[p].starts
    BY DEF PeriodsDisjoint
  <2>1. SubscriptionOf(p) = SubscriptionOf(q)
    BY <1>1
  <2>2. CASE p # o /\ q # o
    BY <1>2, <2>1, <2>2 DEF Periods, PeriodsDisjoint
  <2>3. CASE p = o
    BY <1>2, <1>4, <2>1, <2>3
  <2>4. CASE q = o
    BY <1>2, <1>4, <2>1, <2>4
  <2> QED
    BY <2>2, <2>3, <2>4
<1> QED
  BY <1>6, <1>7 DEF Periods

LEMMA PeriodsSteps ==
  ASSUME Rows, RefundsRefer, Periods, [BillingNext]_billingVars
  PROVE  Periods'
<1> USE DEF Rows, sales
<1>1. ASSUME UNCHANGED <<grant, subscription>>,
             \A o \in Orders :
               /\ order'[o].offer = order[o].offer /\ order'[o].renews = order[o].renews
               /\ order'[o].status \in Early => order[o].status \in Early
      PROVE  Periods'
  BY <1>1, PeriodsKept
<1>2. ASSUME NEW o \in Orders, NEW at \in 0 .. now, NEW u \in Users, NEW f \in Offers,
             NEW s \in Orders \cup {0}, PlaceOrder(o, u, f, s, at)
      PROVE  Periods'
  <2>1. at \in Nat
    OBVIOUS
  <2> QED
    BY <1>2, <2>1, PlacedFollows
<1>3. ASSUME NEW o \in Orders, NEW at \in 0 .. now, TakeBack(o, at),
             \A p \in Orders :
               /\ order'[p].offer = order[p].offer /\ order'[p].renews = order[p].renews
               /\ order'[p].status \in Early => order[p].status \in Early
      PROVE  Periods'
  <2>1. at \in Nat
    OBVIOUS
  <2>2. \A p \in Orders :
          /\ grant'[p].starts = grant[p].starts /\ grant'[p].expires = grant[p].expires
          /\ grant'[p].status = "none" <=> grant[p].status = "none"
          /\ subscription'[p].ends = subscription[p].ends
          /\ subscription'[p].status = "none" <=> subscription[p].status = "none"
    BY <1>3, <2>1, TakenBack
  <2> QED
    BY <1>3, <2>2, PeriodsKept
<1>4. ASSUME NEW o \in Orders, NEW at \in 0 .. now, NEW p \in Payments, PaymentSucceeds(o, p, at)
      PROVE  Periods'
  <2>1. \A q \in Orders : /\ order'[q].offer = order[q].offer /\ order'[q].renews = order[q].renews
                          /\ order'[q].status \in Early => order[q].status \in Early
    BY <1>4 DEF PaymentSucceeds, OrderRow, Early
  <2> QED
    BY <1>1, <1>4, <2>1 DEF PaymentSucceeds
<1>5. ASSUME NEW o \in Orders, NEW at \in 0 .. now, ChargebackOpens(o, at)
      PROVE  Periods'
  <2>1. \A q \in Orders : /\ order'[q].offer = order[q].offer /\ order'[q].renews = order[q].renews
                          /\ order'[q].status \in Early => order[q].status \in Early
    BY <1>5 DEF ChargebackOpens, OrderRow, Early, PaidStatuses
  <2> QED
    BY <1>3, <1>5, <2>1 DEF ChargebackOpens
<1>6. ASSUME NEW o \in Orders, NEW at \in 0 .. now, FulfillOnce(o, at)
      PROVE  Periods'
  <2>1. at \in Nat
    OBVIOUS
  <2> QED
    BY <1>6, <2>1, FulfilledOnceFollows
<1>7. ASSUME NEW o \in Orders, NEW at \in 0 .. now, FulfillSubscription(o, at)
      PROVE  Periods'
  <2>1. /\ order[o].status = "paid" /\ order'[o].status = "fulfilled"
        /\ order'[o].offer = order[o].offer /\ order'[o].renews = order[o].renews
        /\ \A p \in Orders \ {o} : order'[p] = order[p]
    BY <1>7, FulfilledEffect DEF FulfillSubscription
  <2>2. /\ SubscriptionOf(o) = o /\ order[o].offer \in Subscribing
        /\ Granted(o, at, at + Period) /\ at \in Nat
        /\ \A t \in Orders \ {o} : subscription'[t] = subscription[t]
        /\ subscription'[o].status = "active" /\ subscription'[o].ends = at + Period
    BY <1>7 DEF FulfillSubscription, SubscriptionOf
  <2>3. subscription[o].status = "none"
    BY <2>1 DEF Periods, Follows, Early
  <2>4. \A p \in Orders : order'[p].offer = order[p].offer /\ order'[p].renews = order[p].renews
    BY <2>1
  <2>5. \A p \in Orders \ {o} : order'[p].status = order[p].status
    BY <2>1
  <2> QED
    BY <2>1, <2>2, <2>3, <2>4, <2>5, PeriodAdded
<1>8. ASSUME NEW o \in Orders, NEW at \in 0 .. now, FulfillRenewal(o, at)
      PROVE  Periods'
  <2> DEFINE s == order[o].renews
             from == NextPeriod(s, at)
  <2>1. /\ order[o].status = "paid" /\ order'[o].status = "fulfilled"
        /\ order'[o].offer = order[o].offer /\ order'[o].renews = order[o].renews
        /\ \A p \in Orders \ {o} : order'[p] = order[p]
    BY <1>8, FulfilledEffect DEF FulfillRenewal
  <2>2. /\ s \in Orders /\ subscription[s].status = "active" /\ subscription[s] \in SubscriptionRow
        /\ subscription' = [subscription EXCEPT ![s].current = o, ![s].starts = from,
                                                ![s].ends = from + Period]
        /\ Granted(o, from, from + Period)
    BY <1>8 DEF FulfillRenewal, ActiveAt, OrderRow
  <2>3. from = subscription[s].ends /\ from \in Nat /\ SubscriptionOf(o) = s
    BY <2>2, Constants DEF NextPeriod, SubscriptionRow, SubscriptionOf
  <2>4. s # o
    BY <2>1, <2>2 DEF Periods, Follows, Early
  <2>5. order[s].offer \in Subscribing /\ order[o].offer = order[s].offer
    BY <2>2, Constants DEF Periods, Follows
  <2> HIDE DEF s, from
  <2>6. /\ \A t \in Orders \ {s} : subscription'[t] = subscription[t]
        /\ subscription'[s].status = "active" /\ subscription'[s].ends = from + Period
    BY <2>2 DEF SubscriptionRow
  <2>7. \A p \in Orders : order'[p].offer = order[p].offer /\ order'[p].renews = order[p].renews
    BY <2>1
  <2>8. \A p \in Orders \ {o} : order'[p].status = order[p].status
    BY <2>1
  <2> QED
    BY <2>1, <2>2, <2>3, <2>5, <2>6, <2>7, <2>8, PeriodAdded
<1>9. ASSUME NEW o \in Orders, NEW r \in Refunds, NEW at \in 0 .. now, RequestRefund(o, r, at)
      PROVE  Periods'
  <2>1. \A q \in Orders : /\ order'[q].offer = order[q].offer /\ order'[q].renews = order[q].renews
                          /\ order'[q].status \in Early => order[q].status \in Early
    BY <1>9 DEF RequestRefund, OrderRow, Early
  <2> QED
    BY <1>1, <1>9, <2>1 DEF RequestRefund
<1>10. ASSUME NEW s \in Orders, NEW at \in 0 .. now, CancelSubscription(s, at)
       PROVE  Periods'
  <2>1. \A t \in Orders : /\ subscription'[t].status = subscription[t].status
                          /\ subscription'[t].ends = subscription[t].ends
    BY <1>10 DEF CancelSubscription, SubscriptionRow
  <2>2. UNCHANGED <<order, grant>>
    BY <1>10 DEF CancelSubscription
  <2> QED
    BY <2>1, <2>2, PeriodsKept
<1>11. ASSUME NEW r \in Refunds, NEW at \in 0 .. now,
              RejectRefund(r, at) \/ RefundFails(r, at) \/ RefundSucceeds(r, at)
       PROVE  \A q \in Orders :
                /\ order'[q].offer = order[q].offer /\ order'[q].renews = order[q].renews
                /\ order'[q].status \in Early => order[q].status \in Early
  BY <1>11 DEF RejectRefund, RefundFails, RefundSucceeds, OrderRow, Early
<1>12. ASSUME NEW r \in Refunds, NEW at \in 0 .. now, RejectRefund(r, at) \/ RefundFails(r, at)
       PROVE  Periods'
  BY <1>1, <1>11, <1>12 DEF RejectRefund, RefundFails
<1>13. ASSUME NEW r \in Refunds, NEW at \in 0 .. now, RefundSucceeds(r, at)
       PROVE  Periods'
  BY <1>3, <1>11, <1>13 DEF RefundSucceeds, Settles, RefundsRefer
<1> QED
  BY <1>1, <1>2, <1>4, <1>5, <1>6, <1>7, <1>8, <1>9, <1>10, <1>12, <1>13, BillingAssumption
  DEF BillingNext, Tick, Retire, ApproveRefund, PaymentFails, billingVars

(* No two orders pay for the same time of a subscription: every renewal     *)
(* adds a whole period after all of the earlier ones, for any orders and    *)
(* periods, and however late it is carried out.                             *)
THEOREM PeriodsNeverOverlap == BillingSpec => []PeriodsDisjoint
<1>1. BillingInit => Periods
  BY DEF BillingInit, Periods, Follows, PeriodsDisjoint, NoOrder, NoGrant, NoSubscription
<1>2. Together => RefundsRefer
  BY DEF Together
<1>3. Periods => PeriodsDisjoint
  BY DEF Periods
<1> QED
  BY <1>1, <1>2, <1>3, RowsAndRefunds, PeriodsSteps, PTL DEF BillingSpec

(***************************************************************************)
(* Economy.                                                                *)
(***************************************************************************)

RequestRow == [status : {"none", "pending", "approved", "rejected"}, amount : Nat]

RoundRow == [status : {"none", "committed", "settled"}, stake : Nat]

TownRow == [status : {"none", "open"}, balance : Nat, reserved : Nat,
            project : {"none", "funding", "ready", "completed"}, funded : Nat]

Kinds(r) ==
  /\ r[1] \in {"user", "invitation", "task", "omikuji"} => rows[r] \in BOOLEAN
  /\ r[1] = "gifts" => rows[r] \in 0 .. GiftLimit
  /\ r[1] = "lottery" => rows[r] \in Nat
  /\ r[1] = "streak" => rows[r] \in [last : Nat, days : Nat]
  /\ r[1] = "request" => rows[r] \in RequestRow
  /\ r[1] = "round" => rows[r] \in RoundRow
  /\ r[1] = "town" => rows[r] \in TownRow

(* The rows, the balances, and the requests, of which none is made twice. *)
LedgerTells ==
  /\ agenda \in Agendas
  /\ DOMAIN rows = Names
  /\ \A r \in Names : Kinds(r)
  /\ balance \in [Accounts -> Int]
  /\ \A a \in Accounts \ {Issuance} : balance[a] >= 0
  /\ receipts \subseteq {c.key : c \in agenda}
  /\ \A u \in Citizens : rows[<<"request", u>>].status # "none" =>
       \E c \in agenda : c.op = "request" /\ c.user = u /\ c.key \in receipts

(* The row of the town against the bank's account of the treasury. *)
Funded(town) ==
  /\ town.reserved = IF town.project = "completed" THEN 0 ELSE town.funded
  /\ town.reserved <= town.balance
  /\ town.project = "none" => town.funded = 0
  /\ town.project = "funding" => town.funded < ProjectCost
  /\ town.project = "ready" => town.funded = ProjectCost

TreasuryTells == balance[Treasury] = Town.balance /\ Funded(Town)

(* What was paid for left its mark in a row. *)
FactKinds ==
  {"bonus", "referral", "check_in", "lottery", "task", "gift", "omikuji", "request", "issue",
   "fund", "round", "contribute", "project"}

Marked(f) ==
  /\ f[1] \in FactKinds
  /\ f[1] \notin {"issue", "fund", "contribute", "project"} => f[2] \in Citizens
  /\ f[1] = "bonus" => rows[<<"user", f[2]>>]
  /\ f[1] = "referral" => rows[<<"invitation", f[2]>>]
  /\ f[1] = "lottery" => f[3] \in Nat /\ rows[<<"lottery", f[2]>>] >= f[3] + Cooldown
  /\ f[1] = "task" => rows[<<"task", f[2]>>]
  /\ f[1] = "gift" => f = <<"gift", f[2]>>
  /\ f[1] = "omikuji" => rows[<<"omikuji", f[2]>>]
  /\ f[1] = "request" => rows[<<"request", f[2]>>].status = "approved"
  /\ f[1] = "round" => rows[<<"round", f[2]>>].status = "settled"
  /\ f[1] \in {"issue", "fund", "contribute"} => f[2] \in receipts
  /\ f[1] = "project" => Town.project = "completed"

Once(f) ==
  /\ paid[f] \in Nat
  /\ f[1] \notin {"gift", "check_in"} => paid[f] = 1
  /\ f[1] = "gift" => paid[f] = rows[<<"gifts", f[2]>>]
  /\ f[1] = "lottery" =>
       \A g \in DOMAIN paid \ {f} :
         g[1] = "lottery" /\ g[2] = f[2] => f[3] >= g[3] + Cooldown \/ g[3] >= f[3] + Cooldown

PaidTells ==
  /\ \A f \in DOMAIN paid : Marked(f) /\ Once(f)
  /\ \A u \in Citizens : <<"gift", u>> \notin DOMAIN paid => rows[<<"gifts", u>>] = 0

----------------------------------------------------------------------------
(* Locks. *)

(* What the locks of a command keep others from writing, or what is so for good. *)
KeysTell(c, keys) ==
  /\ c.op # "register" => <<"key", c.key>> \in keys
  /\ c.op \in {"register", "referral"} => Registered(c.user) \/ <<"user", c.user>> \in keys
  /\ c.op = "referral" => rows[<<"invitation", c.user>>] \/ <<"invitation", c.user>> \in keys
  /\ c.op = "lottery" => <<"lottery", c.user>> \in keys
  /\ c.op = "task" => rows[<<"task", c.user>>] \/ <<"task", c.user>> \in keys
  /\ c.op \in {"approve", "reject"} => <<"request", c.user>> \in keys
  /\ c.op \in {"commit", "bind"} => <<"round", c.user>> \in keys
  /\ c.op \in {"town", "project", "contribute", "complete"} => <<"town">> \in keys
  /\ c.op = "request" => rows[<<"request", c.user>>].status = "none"

(* The accounts looked at, and what was so when they were. *)
LookTells(c, looked) ==
  /\ looked \subseteq Accounts
  /\ looked # {} =>
       \/ c.op = "gift" /\ looked = {Free(c.user), Free(c.other)} /\ c.user # c.other
       \/ c.op = "omikuji" /\ looked = {Free(c.user), Burn}
       \/ /\ c.op = "bind" /\ looked = {Free(c.user), ActivityPot}
          /\ rows[<<"round", c.user>>].status = "committed"
       \/ c.op = "contribute" /\ looked = {Free(c.user), Treasury} /\ Fundable(c)
       \/ c.op = "complete" /\ looked = {Treasury, Burn} /\ Town.project = "ready"

----------------------------------------------------------------------------
(* What was decided can still be done. *)

TransferRow == [from : Accounts, to : Accounts, amount : Nat]

(* No account is overdrawn: one that pays is locked, and holds enough. *)
Covered(held, transfers) ==
  /\ transfers \in Seq(TransferRow) /\ Len(transfers) <= 2
  /\ \A n \in DOMAIN transfers, a \in Accounts \ {Issuance} :
       \/ Delta(transfers, n, a) >= 0
       \/ a \in held /\ balance[a] + Delta(transfers, n, a) >= 0

Writable(c, keys, held, facts, writes, r) ==
  /\ r \in Names
  /\ r[1] = "user" => writes[r] = TRUE /\ (rows[r] \/ r \in keys)
  /\ r[1] \in {"invitation", "task"} => writes[r] = TRUE /\ r \in keys
  /\ r[1] = "omikuji" => writes[r] = TRUE /\ Free(r[2]) \in held
  /\ r[1] = "gifts" =>
       /\ Free(r[2]) \in held /\ <<"gift", r[2]>> \in facts
       /\ rows[r] < GiftLimit /\ writes[r] = rows[r] + 1
  /\ r[1] = "lottery" =>
       r \in keys /\ writes[r] \in Nat /\ writes[r] >= rows[r]
  /\ r[1] = "streak" => writes[r] \in [last : Nat, days : Nat]
  /\ r[1] = "request" =>
       /\ writes[r] \in RequestRow
       /\ \/ c.op = "request" /\ c.user = r[2] /\ writes[r].status = "pending"
          \/ /\ r \in keys /\ rows[r].status = "pending"
             /\ writes[r].status \in {"approved", "rejected"}
  /\ r[1] = "round" =>
       /\ writes[r] \in RoundRow /\ r \in keys
       /\ \/ rows[r].status = "none" /\ writes[r].status = "committed"
          \/ rows[r].status = "committed" /\ writes[r].status = "settled"
  /\ r[1] = "town" =>
       /\ writes[r] \in TownRow /\ r \in keys /\ Funded(writes[r])
       /\ Town.project = "completed" => writes[r].project = "completed"

Payable(c, keys, held, facts, writes, f) ==
  /\ f[1] \in FactKinds
  /\ f[1] \notin {"issue", "fund", "contribute", "project"} => f[2] \in Citizens
  /\ f[1] = "bonus" =>
       /\ <<"user", f[2]>> \in DOMAIN writes /\ <<"user", f[2]>> \in keys
       /\ ~rows[<<"user", f[2]>>]
  /\ f[1] = "referral" =>
       /\ <<"invitation", f[2]>> \in DOMAIN writes /\ <<"invitation", f[2]>> \in keys
       /\ ~rows[<<"invitation", f[2]>>]
  /\ f[1] = "task" =>
       /\ <<"task", f[2]>> \in DOMAIN writes /\ <<"task", f[2]>> \in keys
       /\ ~rows[<<"task", f[2]>>]
  /\ f[1] = "omikuji" =>
       /\ <<"omikuji", f[2]>> \in DOMAIN writes /\ Free(f[2]) \in held
       /\ ~rows[<<"omikuji", f[2]>>]
  /\ f[1] = "lottery" =>
       /\ <<"lottery", f[2]>> \in DOMAIN writes /\ <<"lottery", f[2]>> \in keys
       /\ f[3] \in Nat /\ f[3] >= rows[<<"lottery", f[2]>>]
       /\ writes[<<"lottery", f[2]>>] = f[3] + Cooldown
       /\ facts = {f}
  /\ f[1] = "gift" => f = <<"gift", f[2]>> /\ <<"gifts", f[2]>> \in DOMAIN writes
  /\ f[1] = "request" =>
       /\ <<"request", f[2]>> \in DOMAIN writes /\ <<"request", f[2]>> \in keys
       /\ rows[<<"request", f[2]>>].status = "pending"
       /\ writes[<<"request", f[2]>>].status = "approved"
  /\ f[1] = "round" =>
       /\ <<"round", f[2]>> \in DOMAIN writes /\ <<"round", f[2]>> \in keys
       /\ rows[<<"round", f[2]>>].status = "committed"
       /\ writes[<<"round", f[2]>>].status = "settled"
  /\ f[1] \in {"issue", "fund", "contribute"} => f[2] = c.key
  /\ f[1] = "project" =>
       /\ <<"town">> \in DOMAIN writes /\ <<"town">> \in keys
       /\ Town.project = "ready" /\ writes[<<"town">>].project = "completed"

(* The town's row moves with the treasury. *)
BothBooks(transfers, writes) ==
  Delta(transfers, Len(transfers), Treasury) =
    IF <<"town">> \in DOMAIN writes THEN writes[<<"town">>].balance - Town.balance ELSE 0

Draft(c, keys, held, transfers, writes, facts) ==
  /\ Covered(held, transfers)
  /\ \A r \in DOMAIN writes : Writable(c, keys, held, facts, writes, r)
  /\ \A f \in facts : Payable(c, keys, held, facts, writes, f)
  /\ BothBooks(transfers, writes)

----------------------------------------------------------------------------
Fields == {"stage", "command", "keys", "held", "plan", "transfers", "writes", "facts"}

Legs(transfers) == [i \in DOMAIN transfers |-> {transfers[i].from, transfers[i].to}]

(* A transaction at each of its stages. *)
TellerTells(x) ==
  /\ DOMAIN x = Fields
  /\ x.stage \in {"idle", "deciding", "posting"}
  /\ x.held \subseteq Accounts
  /\ x.stage = "idle" => x.keys = {} /\ x.held = {} /\ x.plan = <<>>
  /\ x.stage # "idle" => x.command \in agenda /\ KeysTell(x.command, x.keys)
  /\ x.stage = "deciding" =>
       \E looked \in SUBSET Accounts :
         x.plan = <<looked>> /\ x.held \subseteq looked /\ LookTells(x.command, looked)
  /\ x.stage = "posting" =>
       /\ x.plan = Legs(x.transfers)
       /\ Draft(x.command, x.keys, x.held, x.transfers, x.writes, x.facts)

(* No two transactions hold the same lock. *)
Apart ==
  \A s, t \in Tellers :
    s # t => tx[s].keys \cap tx[t].keys = {} /\ tx[s].held \cap tx[t].held = {}

EconomyInv ==
  /\ LedgerTells /\ TreasuryTells /\ PaidTells
  /\ DOMAIN tx = Tellers /\ \A t \in Tellers : \A x \in {tx[t]} : TellerTells(x)
  /\ Apart

----------------------------------------------------------------------------
(* Sums and locks. *)

LEMMA SumsOf ==
  ASSUME NEW transfers \in Seq(TransferRow), Len(transfers) <= 2, NEW a
  PROVE  /\ Delta(transfers, 0, a) = 0
         /\ Len(transfers) >= 1 => Delta(transfers, 1, a) = Change(transfers[1], a)
         /\ Len(transfers) = 2 =>
              Delta(transfers, 2, a) = Change(transfers[1], a) + Change(transfers[2], a)
<1> DEFINE Body(g, n) ==
      [i \in 0 .. n |-> IF i = 0 THEN 0 ELSE g[i - 1] + Change(transfers[i], a)]
<1> DEFINE one == Change(transfers[1], a)
<1> DEFINE two == Change(transfers[2], a)
<1> DEFINE h(n) == [i \in 0 .. n |-> IF i = 0 THEN 0 ELSE IF i = 1 THEN one ELSE one + two]
<1> DEFINE sum(n) == CHOOSE g : g = Body(g, n)
<1>0. \A transfer \in TransferRow : Change(transfer, a) \in Int
  BY DEF Change, TransferRow
<1>1. Len(transfers) >= 1 => one \in Int
  BY <1>0
<1>2. Len(transfers) = 2 => two \in Int
  <2>1. Len(transfers) = 2 => transfers[2] \in TransferRow
    OBVIOUS
  <2> QED
    BY <1>0, <2>1
<1>3. \A n : Delta(transfers, n, a) = sum(n)[n]
  BY DEF Delta
<1>4. sum(0) = Body(sum(0), 0)
  <2>1. h(0) = Body(h(0), 0)
    OBVIOUS
  <2> QED
    BY <2>1
<1>5. Len(transfers) >= 1 => sum(1) = Body(sum(1), 1)
  <2>1. Len(transfers) >= 1 => h(1) = Body(h(1), 1)
    <3> HIDE DEF one
    <3>1. Change(transfers[1], a) = one
      BY DEF one
    <3> QED
      BY <1>1, <3>1
  <2> QED
    BY <2>1
<1>6. Len(transfers) = 2 => sum(2) = Body(sum(2), 2)
  <2>1. Len(transfers) = 2 => h(2) = Body(h(2), 2)
    <3> HIDE DEF one, two
    <3>1. Change(transfers[1], a) = one /\ Change(transfers[2], a) = two
      BY DEF one, two
    <3>2. ASSUME Len(transfers) = 2, NEW i \in 0 .. 2 PROVE h(2)[i] = Body(h(2), 2)[i]
      <4>1. i = 0 \/ i = 1 \/ i = 2
        BY <3>2
      <4> QED
        BY <1>1, <1>2, <3>1, <3>2, <4>1
    <3> QED
      BY <3>2
  <2> QED
    BY <2>1
<1> HIDE DEF sum
<1>7. Delta(transfers, 0, a) = 0
  BY <1>3, <1>4
<1>8. Len(transfers) >= 1 => Delta(transfers, 1, a) = one
  BY <1>1, <1>3, <1>5
<1>9. Len(transfers) = 2 => Delta(transfers, 2, a) = one + two
  BY <1>1, <1>2, <1>3, <1>6
<1> QED
  BY <1>7, <1>8, <1>9

LEMMA Sums ==
  \A transfers \in Seq(TransferRow) : Len(transfers) <= 2 =>
    \A a :
      /\ Delta(transfers, 0, a) = 0
      /\ Len(transfers) >= 1 => Delta(transfers, 1, a) = Change(transfers[1], a)
      /\ Len(transfers) = 2 =>
           Delta(transfers, 2, a) = Change(transfers[1], a) + Change(transfers[2], a)
BY SumsOf

LEMMA Codes ==
  /\ Accounts \subseteq Nat
  /\ {Treasury, ActivityPot, Burn, Issuance} \subseteq Accounts
  /\ \A u \in Citizens : Free(u) \in Accounts \ {Treasury, ActivityPot, Burn, Issuance}
  /\ \A u, v \in Citizens : Free(u) = Free(v) => u = v
BY BankAssumption DEF Accounts, Free, Treasury, ActivityPot, Burn, Issuance

LEMMA Least ==
  ASSUME NEW S \in SUBSET Nat, S # {}
  PROVE  \E x \in S : \A y \in S : x <= y
<1> DEFINE R == {ss \in Nat \X Nat : ss[1] < ss[2]}
<1>1. IsWellFoundedOn(R, Nat)
  BY NatLessThanWellFounded DEF OpToRel
<1>2. PICK x \in S : \A y \in S : <<y, x>> \notin R
  BY <1>1, WFMin
<1>3. \A y \in S : ~(y < x)
  BY <1>2
<1> QED
  BY <1>3

(* When a transaction waits for no account, it holds those of its plan. *)
LEMMA PlanHeld ==
  ASSUME NEW t \in Tellers, tx[t].plan \in Seq(SUBSET Accounts), NextLock(t) = {}
  PROVE  \A i \in DOMAIN tx[t].plan : tx[t].plan[i] \subseteq tx[t].held
<1> SUFFICES ASSUME Unlocked(t) # {} PROVE FALSE
  BY DEF Unlocked
<1>1. Unlocked(t) \in SUBSET Nat
  BY DEF Unlocked
<1>2. PICK i \in Unlocked(t) : \A j \in Unlocked(t) : i <= j
  BY <1>1, Least
<1>3. tx[t].plan[i] \ tx[t].held \in SUBSET Nat /\ tx[t].plan[i] \subseteq Accounts
  <2>1. i \in DOMAIN tx[t].plan
    BY DEF Unlocked
  <2>2. tx[t].plan[i] \in SUBSET Accounts
    BY <2>1
  <2> QED
    BY <2>2, Codes
<1>4. tx[t].plan[i] \ tx[t].held # {}
  BY DEF Unlocked
<1>5. PICK a \in tx[t].plan[i] \ tx[t].held : \A b \in tx[t].plan[i] \ tx[t].held : a <= b
  BY <1>3, <1>4, Least
<1> QED
  BY <1>2, <1>3, <1>5 DEF NextLock

----------------------------------------------------------------------------
(* What a transaction relies on, while it holds its locks. *)
Steady(c, keys, held) ==
  /\ agenda' = agenda /\ DOMAIN rows' = Names
  /\ \A u \in Citizens :
       /\ \A k \in {"user", "invitation", "task"} :
            /\ rows[<<k, u>>] = TRUE => rows'[<<k, u>>] = TRUE
            /\ <<k, u>> \in keys => rows'[<<k, u>>] = rows[<<k, u>>]
       /\ \A k \in {"lottery", "round"} :
            <<k, u>> \in keys => rows'[<<k, u>>] = rows[<<k, u>>]
       /\ \A k \in {"omikuji", "gifts"} :
            Free(u) \in held => rows'[<<k, u>>] = rows[<<k, u>>]
       /\ <<"request", u>> \in keys /\ rows[<<"request", u>>].status # "none"
            => rows'[<<"request", u>>] = rows[<<"request", u>>]
       /\ c.op = "request" /\ c.user = u /\ rows[<<"request", u>>].status = "none"
            => rows'[<<"request", u>>] = rows[<<"request", u>>]
  /\ <<"town">> \in keys => Town' = Town
  /\ \A a \in held : balance'[a] = balance[a]

LEMMA NameCases ==
  \A r \in Names :
    \/ r = <<"town">>
    \/ \E u \in Citizens : \/ r = <<"user", u>> \/ r = <<"invitation", u>> \/ r = <<"task", u>>
                           \/ r = <<"omikuji", u>> \/ r = <<"gifts", u>> \/ r = <<"lottery", u>>
                           \/ r = <<"streak", u>> \/ r = <<"request", u>> \/ r = <<"round", u>>
BY DEF Names

LEMMA CitizenNames ==
  /\ <<"town">> \in Names
  /\ \A u \in Citizens :
       \A k \in {"user", "invitation", "task", "omikuji", "gifts", "lottery", "streak",
                 "request", "round"} : <<k, u>> \in Names
BY DEF Names

LEMMA AgendaTyped ==
  LedgerTells =>
    /\ agenda \in Agendas
    /\ \A c \in agenda :
         /\ c \in [op : Operations, key : Nat, user : Citizens, other : Citizens \cup {0},
                   amount : Nat, day : Nat]
         /\ c.op \in {"referral", "gift"} => c.other \in Citizens
    /\ \A c, d \in agenda :
         c.op = "request" /\ d.op = "request" /\ c.user = d.user => c = d
BY EconomyAssumption DEF LedgerTells

LEMMA KeysKept ==
  ASSUME LedgerTells, NEW c \in agenda, NEW keys, NEW held, Steady(c, keys, held),
         KeysTell(c, keys)
  PROVE  KeysTell(c, keys)'
<1>1. c.user \in Citizens
  BY AgendaTyped
<1>2. \A k \in {"user", "invitation", "task"} :
        /\ <<k, c.user>> \in Names
        /\ rows[<<k, c.user>>] \in BOOLEAN
        /\ rows[<<k, c.user>>] = TRUE => rows'[<<k, c.user>>] = TRUE
  BY <1>1, CitizenNames DEF LedgerTells, Kinds, Steady
<1>3. c.op = "request" => rows'[<<"request", c.user>>] = rows[<<"request", c.user>>]
  BY <1>1 DEF Steady, KeysTell
<1> QED
  BY <1>2, <1>3 DEF KeysTell, Registered

LEMMA LookKept ==
  ASSUME LedgerTells, NEW c \in agenda, NEW keys, NEW held, Steady(c, keys, held),
         KeysTell(c, keys), NEW looked, LookTells(c, looked)
  PROVE  LookTells(c, looked)'
<1>1. c.user \in Citizens
  BY AgendaTyped
<1>2. c.op = "bind" => rows'[<<"round", c.user>>] = rows[<<"round", c.user>>]
  BY <1>1 DEF Steady, KeysTell
<1>3. c.op \in {"contribute", "complete"} => Town' = Town
  BY DEF Steady, KeysTell
<1>4. c.op = "contribute" => (Fundable(c) => Fundable(c)')
  BY <1>3 DEF Fundable
<1> QED
  BY <1>2, <1>3, <1>4 DEF LookTells

LEMMA WritableKept ==
  ASSUME LedgerTells, NEW c \in agenda, NEW keys, NEW held, Steady(c, keys, held),
         NEW facts, NEW writes, NEW r \in Names, Writable(c, keys, held, facts, writes, r)
  PROVE  Writable(c, keys, held, facts, writes, r)'
<1>1. CASE r = <<"town">>
  <2>1. r \in keys /\ Town' = Town
    BY <1>1 DEF Writable, Steady
  <2> QED
    BY <1>1, <2>1 DEF Writable, Funded
<1>2. ASSUME NEW u \in Citizens, r = <<"user", u>>
      PROVE  Writable(c, keys, held, facts, writes, r)'
  BY <1>2 DEF Writable, Steady, LedgerTells, Kinds
<1>3. ASSUME NEW u \in Citizens, r = <<"invitation", u>> \/ r = <<"task", u>>
      PROVE  Writable(c, keys, held, facts, writes, r)'
  BY <1>3 DEF Writable
<1>4. ASSUME NEW u \in Citizens, r = <<"omikuji", u>>
      PROVE  Writable(c, keys, held, facts, writes, r)'
  BY <1>4 DEF Writable
<1>5. ASSUME NEW u \in Citizens, r = <<"gifts", u>>
      PROVE  Writable(c, keys, held, facts, writes, r)'
  <2>1. rows'[r] = rows[r]
    BY <1>5 DEF Writable, Steady
  <2> QED
    BY <1>5, <2>1 DEF Writable
<1>6. ASSUME NEW u \in Citizens, r = <<"lottery", u>>
      PROVE  Writable(c, keys, held, facts, writes, r)'
  <2>1. rows'[r] = rows[r]
    BY <1>6 DEF Writable, Steady
  <2> QED
    BY <1>6, <2>1 DEF Writable
<1>7. ASSUME NEW u \in Citizens, r = <<"streak", u>>
      PROVE  Writable(c, keys, held, facts, writes, r)'
  BY <1>7 DEF Writable
<1>8. ASSUME NEW u \in Citizens, r = <<"request", u>>
      PROVE  Writable(c, keys, held, facts, writes, r)'
  <2>1. r \in keys /\ rows[r].status = "pending" => rows'[r] = rows[r]
    BY <1>8 DEF Steady
  <2> QED
    BY <1>8, <2>1 DEF Writable
<1>9. ASSUME NEW u \in Citizens, r = <<"round", u>>
      PROVE  Writable(c, keys, held, facts, writes, r)'
  <2>1. rows'[r] = rows[r]
    BY <1>9 DEF Writable, Steady
  <2> QED
    BY <1>9, <2>1 DEF Writable
<1> QED
  BY <1>1, <1>2, <1>3, <1>4, <1>5, <1>6, <1>7, <1>8, <1>9, NameCases

LEMMA PayableKept ==
  ASSUME LedgerTells, NEW c \in agenda, NEW keys, NEW held, Steady(c, keys, held),
         NEW facts, NEW writes, NEW f, Payable(c, keys, held, facts, writes, f)
  PROVE  Payable(c, keys, held, facts, writes, f)'
<1>1. f[1] \in {"bonus", "referral", "task"} => f[2] \in Citizens
  BY DEF Payable
<1>2. /\ f[1] = "bonus" => rows'[<<"user", f[2]>>] = rows[<<"user", f[2]>>]
      /\ f[1] = "referral" => rows'[<<"invitation", f[2]>>] = rows[<<"invitation", f[2]>>]
      /\ f[1] = "task" => rows'[<<"task", f[2]>>] = rows[<<"task", f[2]>>]
  BY <1>1 DEF Payable, Steady
<1>3. /\ f[1] = "omikuji" => rows'[<<"omikuji", f[2]>>] = rows[<<"omikuji", f[2]>>]
      /\ f[1] = "lottery" => rows'[<<"lottery", f[2]>>] = rows[<<"lottery", f[2]>>]
      /\ f[1] = "request" => rows'[<<"request", f[2]>>] = rows[<<"request", f[2]>>]
      /\ f[1] = "round" => rows'[<<"round", f[2]>>] = rows[<<"round", f[2]>>]
  BY DEF Payable, Steady
<1>4. f[1] = "project" => Town' = Town
  BY DEF Payable, Steady
<1> QED
  BY <1>2, <1>3, <1>4 DEF Payable
LEMMA DraftKept ==
  ASSUME LedgerTells, NEW c \in agenda, NEW keys, NEW held, Steady(c, keys, held),
         NEW facts, NEW writes, NEW transfers,
         Draft(c, keys, held, transfers, writes, facts)
  PROVE  Draft(c, keys, held, transfers, writes, facts)'
<1>1. Covered(held, transfers)'
  BY DEF Draft, Covered, Steady
<1>2. ASSUME NEW r \in DOMAIN writes PROVE Writable(c, keys, held, facts, writes, r)'
  <2>1. r \in Names /\ Writable(c, keys, held, facts, writes, r)
    BY DEF Draft, Writable
  <2> QED
    BY <2>1, WritableKept
<1>3. ASSUME NEW f \in facts PROVE Payable(c, keys, held, facts, writes, f)'
  <2>1. Payable(c, keys, held, facts, writes, f)
    BY DEF Draft
  <2> QED
    BY <2>1, PayableKept
<1>4. BothBooks(transfers, writes)'
  <2>1. <<"town">> \in DOMAIN writes => Town' = Town
    BY DEF Draft, Writable, Steady
  <2> QED
    BY <2>1 DEF Draft, BothBooks
<1> QED
  BY <1>1, <1>2, <1>3, <1>4 DEF Draft

LEMMA TellerKept ==
  ASSUME LedgerTells, NEW x, TellerTells(x), Steady(x.command, x.keys, x.held)
  PROVE  TellerTells(x)'
<1>1. x.stage # "idle" => KeysTell(x.command, x.keys)' /\ x.command \in agenda'
  <2> SUFFICES ASSUME x.stage # "idle"
               PROVE  KeysTell(x.command, x.keys)' /\ x.command \in agenda'
    OBVIOUS
  <2>1. x.command \in agenda /\ KeysTell(x.command, x.keys)
    BY DEF TellerTells
  <2>2. agenda' = agenda
    BY DEF Steady
  <2> QED
    BY <2>1, <2>2, KeysKept
<1>2. x.stage = "deciding" =>
        \E looked \in SUBSET Accounts :
          /\ x.plan = <<looked>> /\ x.held \subseteq looked
          /\ LookTells(x.command, looked)'
  <2> SUFFICES ASSUME x.stage = "deciding"
               PROVE  \E looked \in SUBSET Accounts :
                        /\ x.plan = <<looked>> /\ x.held \subseteq looked
                        /\ LookTells(x.command, looked)'
    OBVIOUS
  <2>1. x.command \in agenda /\ KeysTell(x.command, x.keys)
    BY DEF TellerTells
  <2>2. PICK looked \in SUBSET Accounts :
          x.plan = <<looked>> /\ x.held \subseteq looked /\ LookTells(x.command, looked)
    BY DEF TellerTells
  <2>3. LookTells(x.command, looked)'
    BY <2>1, <2>2, LookKept
  <2> QED
    BY <2>2, <2>3
<1>3. x.stage = "posting" =>
        Draft(x.command, x.keys, x.held, x.transfers, x.writes, x.facts)'
  <2> SUFFICES ASSUME x.stage = "posting"
               PROVE  Draft(x.command, x.keys, x.held, x.transfers, x.writes, x.facts)'
    OBVIOUS
  <2>1. /\ x.command \in agenda
        /\ Draft(x.command, x.keys, x.held, x.transfers, x.writes, x.facts)
    BY DEF TellerTells
  <2> QED
    BY <2>1, DraftKept
<1> QED
  BY <1>1, <1>2, <1>3 DEF TellerTells

----------------------------------------------------------------------------
(* Steps of one transaction that commit nothing. *)

LEMMA NothingMoves ==
  ASSUME LedgerTells, UNCHANGED <<balance, rows, receipts, paid, agenda>>,
         NEW c, NEW keys, NEW held
  PROVE  Steady(c, keys, held)
BY DEF Steady, Town, LedgerTells

LEMMA BooksStay ==
  ASSUME LedgerTells, TreasuryTells, PaidTells,
         UNCHANGED <<balance, rows, receipts, paid, agenda>>
  PROVE  LedgerTells' /\ TreasuryTells' /\ PaidTells'
<1>1. LedgerTells'
  BY DEF LedgerTells, Kinds
<1>2. TreasuryTells'
  BY DEF TreasuryTells, Town, Funded
<1>3. PaidTells'
  BY DEF PaidTells, Marked, Once, Town
<1> QED
  BY <1>1, <1>2, <1>3

LEMMA TellerMoves ==
  ASSUME EconomyInv, NEW t \in Tellers, NEW y, TellerTells(y),
         tx' = [tx EXCEPT ![t] = y], UNCHANGED <<balance, rows, receipts, paid, agenda>>,
         \A s \in Tellers \ {t} : /\ tx[s].keys \cap y.keys = {}
                                  /\ tx[s].held \cap y.held = {}
  PROVE  EconomyInv'
<1>1. LedgerTells' /\ TreasuryTells' /\ PaidTells'
  BY BooksStay DEF EconomyInv
<1>2. DOMAIN tx' = Tellers /\ tx'[t] = y /\ \A s \in Tellers \ {t} : tx'[s] = tx[s]
  BY DEF EconomyInv
<1>3. ASSUME NEW s \in Tellers, NEW x \in {tx'[s]} PROVE TellerTells(x)'
  <2>1. TellerTells(x)
    BY <1>2, <1>3 DEF EconomyInv
  <2>2. Steady(x.command, x.keys, x.held)
    BY NothingMoves DEF EconomyInv
  <2> QED
    BY <2>1, <2>2, TellerKept DEF EconomyInv
<1>4. Apart'
  BY <1>2 DEF EconomyInv, Apart
<1> QED
  BY <1>1, <1>2, <1>3, <1>4 DEF EconomyInv

LEMMA EconomyInitInv == EconomyInit => EconomyInv
<1> SUFFICES ASSUME EconomyInit PROVE EconomyInv
  OBVIOUS
<1> USE DEF EconomyInit, BankInit
<1>1. ASSUME NEW r \in Names
      PROVE  /\ r[1] \in {"user", "invitation", "task", "omikuji"} => rows[r] \in BOOLEAN
             /\ r[1] \in {"gifts", "lottery"} => rows[r] = 0
             /\ r[1] = "streak" => rows[r] = [last |-> 0, days |-> 0]
             /\ r[1] = "request" => rows[r] = [status |-> "none", amount |-> 0]
             /\ r[1] = "round" => rows[r] = [status |-> "none", stake |-> 0]
             /\ r[1] = "town" => rows[r] = NoTown
  <2>1. rows[r] = InitialRows[r]
    OBVIOUS
  <2>2. r[1] = "user" => InitialRows[r] \in BOOLEAN
    <3>1. r[1] = "user" => InitialRows[r] = (r[2] \in Members)
      BY DEF InitialRows
    <3>2. (r[2] \in Members) \in BOOLEAN
      OBVIOUS
    <3> QED
      BY <3>1, <3>2
  <2> QED
    BY <2>1, <2>2 DEF InitialRows
<1>2. LedgerTells
  <2>1. DOMAIN rows = Names
    BY DEF InitialRows
  <2>2. ASSUME NEW r \in Names PROVE Kinds(r)
    <3>1. /\ [status |-> "none", amount |-> 0] \in RequestRow
          /\ [status |-> "none", stake |-> 0] \in RoundRow
          /\ NoTown \in TownRow
          /\ 0 \in 0 .. GiftLimit
      BY EconomyAssumption DEF RequestRow, RoundRow, TownRow, NoTown
    <3> QED
      BY <1>1, <3>1 DEF Kinds
  <2>3. balance \in [Accounts -> Int] /\ \A a \in Accounts : balance[a] >= 0
    <3> SUFFICES ASSUME NEW a \in Accounts PROVE balance[a] \in Nat
      BY DEF BankInit
    <3>1. CASE \E u \in Citizens : a = Free(u)
      BY <3>1, BankAssumption
    <3>2. CASE ~\E u \in Citizens : a = Free(u)
      BY <3>2
    <3> QED
      BY <3>1, <3>2
  <2>4. ASSUME NEW u \in Citizens PROVE rows[<<"request", u>>].status = "none"
    <3>1. <<"request", u>> \in Names
      BY CitizenNames
    <3>2. rows[<<"request", u>>] = [status |-> "none", amount |-> 0]
      BY <1>1, <3>1
    <3> QED
      BY <3>2
  <2> QED
    BY <2>1, <2>2, <2>3, <2>4 DEF LedgerTells
<1>3. TreasuryTells
  <2>1. Town = NoTown
    BY <1>1, CitizenNames DEF Town
  <2>2. balance[Treasury] = 0
    BY Codes
  <2> QED
    BY <2>1, <2>2 DEF TreasuryTells, NoTown, Funded
<1>4. PaidTells
  <2>1. ASSUME NEW u \in Citizens PROVE rows[<<"gifts", u>>] = 0
    <3>1. <<"gifts", u>> \in Names
      BY CitizenNames
    <3> QED
      BY <1>1, <3>1
  <2>2. DOMAIN paid = {}
    OBVIOUS
  <2> QED
    BY <2>1, <2>2 DEF PaidTells
<1>5. ASSUME NEW t \in Tellers, NEW x \in {tx[t]} PROVE TellerTells(x)
  BY <1>5 DEF TellerTells, NoTransaction, Fields
<1>6. DOMAIN tx = Tellers /\ Apart
  BY DEF Apart, NoTransaction
<1> QED
  BY <1>2, <1>3, <1>4, <1>5, <1>6 DEF EconomyInv
LEMMA KeysFirst ==
  ASSUME EconomyInv, NEW c \in agenda, c.key \notin receipts
  PROVE  KeysTell(c, KeysOf(c))
<1>1. /\ c.op = "register" => Unless(Registered(c.user), <<"user", c.user>>) \subseteq KeysOf(c)
      /\ c.op = "referral" => /\ Unless(Registered(c.user), <<"user", c.user>>) \subseteq KeysOf(c)
                              /\ Unless(rows[<<"invitation", c.user>>], <<"invitation", c.user>>)
                                   \subseteq KeysOf(c)
      /\ c.op = "lottery" => <<"lottery", c.user>> \in KeysOf(c)
      /\ c.op = "task" => Unless(rows[<<"task", c.user>>], <<"task", c.user>>) \subseteq KeysOf(c)
      /\ c.op \in {"approve", "reject"} => <<"request", c.user>> \in KeysOf(c)
      /\ c.op \in {"commit", "bind"} => <<"round", c.user>> \in KeysOf(c)
      /\ c.op \in {"town", "project", "contribute", "complete"} => <<"town">> \in KeysOf(c)
  BY DEF KeysOf, LockedRows
<1>2. c.op # "register" => <<"key", c.key>> \in KeysOf(c)
  BY DEF KeysOf, Unless
<1>3. c.op = "request" => rows[<<"request", c.user>>].status = "none"
  <2> SUFFICES ASSUME c.op = "request", rows[<<"request", c.user>>].status # "none" PROVE FALSE
    OBVIOUS
  <2>1. c.user \in Citizens
    BY AgendaTyped DEF EconomyInv
  <2>2. PICK d \in agenda : d.op = "request" /\ d.user = c.user /\ d.key \in receipts
    BY <2>1 DEF EconomyInv, LedgerTells
  <2>3. c = d
    BY <2>2, AgendaTyped DEF EconomyInv
  <2> QED
    BY <2>2, <2>3
<1> QED
  BY <1>1, <1>2, <1>3 DEF KeysTell, Unless

LEMMA LookFirst ==
  ASSUME EconomyInv, NEW c \in agenda
  PROVE  LookTells(c, LooksAt(c))
<1>1. /\ c.user \in Citizens
      /\ c.op = "gift" => c.other \in Citizens
  BY AgendaTyped DEF EconomyInv
<1>2. \/ LooksAt(c) = {}
      \/ /\ c.op = "gift" /\ LooksAt(c) = {Free(c.user), Free(c.other)} /\ c.user # c.other
      \/ c.op = "omikuji" /\ LooksAt(c) = {Free(c.user), Burn}
      \/ /\ c.op = "bind" /\ LooksAt(c) = {Free(c.user), ActivityPot}
         /\ rows[<<"round", c.user>>].status = "committed"
      \/ c.op = "contribute" /\ LooksAt(c) = {Free(c.user), Treasury} /\ Fundable(c)
      \/ c.op = "complete" /\ LooksAt(c) = {Treasury, Burn} /\ Town.project = "ready"
  BY DEF LooksAt
<1> QED
  BY <1>1, <1>2, Codes DEF LookTells

LEMMA ReceiveTells ==
  ASSUME EconomyInv, NEW t \in Tellers, Receive(t), agenda' = agenda
  PROVE  EconomyInv'
<1>1. PICK c \in agenda : Begin(t, c, KeysOf(c), LooksAt(c))
  BY DEF Receive
<1> DEFINE y == [NoTransaction EXCEPT !.stage = "deciding", !.command = c,
                                      !.keys = KeysOf(c), !.plan = <<LooksAt(c)>>]
<1>2. /\ DOMAIN y = Fields /\ y.stage = "deciding" /\ y.command = c /\ y.keys = KeysOf(c)
      /\ y.held = {} /\ y.plan = <<LooksAt(c)>>
  BY DEF NoTransaction, Fields
<1>3. tx' = [tx EXCEPT ![t] = y] /\ UNCHANGED <<balance, rows, receipts, paid, agenda>>
  BY <1>1 DEF Begin
<1>4. \A s \in Tellers : tx[s].keys \cap KeysOf(c) = {}
  BY <1>1 DEF Begin
<1> HIDE DEF y
<1>5. TellerTells(y)
  <2>1. KeysTell(c, KeysOf(c)) /\ LookTells(c, LooksAt(c))
    BY <1>1, KeysFirst, LookFirst DEF Begin
  <2>2. LooksAt(c) \in SUBSET Accounts
    BY <2>1 DEF LookTells
  <2> QED
    BY <1>2, <2>1, <2>2 DEF TellerTells
<1> QED
  BY <1>2, <1>3, <1>4, <1>5, TellerMoves

LEMMA DraftGrows ==
  ASSUME NEW c, NEW keys, NEW held, NEW more, held \subseteq more,
         NEW transfers, NEW writes, NEW facts, Draft(c, keys, held, transfers, writes, facts)
  PROVE  Draft(c, keys, more, transfers, writes, facts)
<1>1. Covered(more, transfers)
  BY DEF Draft, Covered
<1>2. ASSUME NEW r \in DOMAIN writes PROVE Writable(c, keys, more, facts, writes, r)
  BY DEF Draft, Writable
<1>3. ASSUME NEW f \in facts PROVE Payable(c, keys, more, facts, writes, f)
  <2>1. Payable(c, keys, held, facts, writes, f)
    BY DEF Draft
  <2> QED
    BY <2>1 DEF Payable
<1> QED
  BY <1>1, <1>2, <1>3 DEF Draft

LEMMA LockTells ==
  ASSUME EconomyInv, NEW t \in Tellers, Lock(t), agenda' = agenda
  PROVE  EconomyInv'
<1>1. PICK a \in NextLock(t) :
        /\ MayLock(a) /\ tx' = [tx EXCEPT ![t].held = tx[t].held \cup {a}]
        /\ UNCHANGED <<balance, rows, receipts, paid, agenda>>
  BY DEF Lock
<1> DEFINE y == [tx[t] EXCEPT !.held = tx[t].held \cup {a}]
<1>2. DOMAIN tx = Tellers /\ TellerTells(tx[t])
  BY DEF EconomyInv
<1>3. /\ DOMAIN y = Fields /\ y.stage = tx[t].stage /\ y.command = tx[t].command
      /\ y.keys = tx[t].keys /\ y.held = tx[t].held \cup {a} /\ y.plan = tx[t].plan
      /\ y.transfers = tx[t].transfers /\ y.writes = tx[t].writes /\ y.facts = tx[t].facts
  BY <1>2 DEF TellerTells, Fields
<1>4. tx' = [tx EXCEPT ![t] = y]
  BY <1>1, <1>2
<1>5. PICK i \in DOMAIN tx[t].plan : a \in tx[t].plan[i]
  BY DEF NextLock, Unlocked
<1>6. a \in Accounts /\ \A s \in Tellers : a \notin tx[s].held
  BY <1>1 DEF NextLock, MayLock
<1> HIDE DEF y
<1>7. TellerTells(y)
  <2>1. tx[t].stage # "idle"
    BY <1>2, <1>5 DEF TellerTells
  <2>2. tx[t].stage = "deciding" =>
          \E looked \in SUBSET Accounts :
            y.plan = <<looked>> /\ y.held \subseteq looked /\ LookTells(y.command, looked)
    BY <1>2, <1>3, <1>5 DEF TellerTells
  <2>3. tx[t].stage = "posting" =>
          Draft(y.command, y.keys, y.held, y.transfers, y.writes, y.facts)
    BY <1>2, <1>3, DraftGrows DEF TellerTells
  <2> QED
    BY <1>2, <1>3, <1>6, <2>1, <2>2, <2>3 DEF TellerTells
<1>8. \A s \in Tellers \ {t} : tx[s].keys \cap y.keys = {} /\ tx[s].held \cap y.held = {}
  BY <1>3, <1>6 DEF EconomyInv, Apart
<1> QED
  BY <1>1, <1>4, <1>7, <1>8, TellerMoves

LEMMA NoTransactionTells == TellerTells(NoTransaction)
BY DEF TellerTells, NoTransaction, Fields

LEMMA AbortTells ==
  ASSUME EconomyInv, NEW t \in Tellers, agenda' = agenda, Dismiss(t) \/ Abort(t)
  PROVE  EconomyInv'
<1>1. /\ tx' = [tx EXCEPT ![t] = NoTransaction]
      /\ UNCHANGED <<balance, rows, receipts, paid, agenda>>
  BY DEF Dismiss, Abort
<1>2. NoTransaction.keys = {} /\ NoTransaction.held = {}
  BY DEF NoTransaction
<1> QED
  BY <1>1, <1>2, NoTransactionTells, TellerMoves
----------------------------------------------------------------------------
(* Decisions. *)

LEMMA Approved ==
  ASSUME EconomyInv, NEW t \in Tellers, agenda' = agenda, tx[t].stage = "deciding",
         NEW transfers, NEW writes, NEW facts, Approve(t, transfers, writes, facts),
         Draft(tx[t].command, tx[t].keys, tx[t].held, transfers, writes, facts)
  PROVE  EconomyInv'
<1> DEFINE y == [tx[t] EXCEPT !.stage = "posting", !.transfers = transfers,
                              !.writes = writes, !.facts = facts, !.plan = Legs(transfers)]
<1>1. DOMAIN tx = Tellers /\ TellerTells(tx[t])
  BY DEF EconomyInv
<1>2. tx' = [tx EXCEPT ![t] = y] /\ UNCHANGED <<balance, rows, receipts, paid, agenda>>
  BY DEF Approve, Legs
<1>3. /\ DOMAIN y = Fields /\ y.stage = "posting" /\ y.command = tx[t].command
      /\ y.keys = tx[t].keys /\ y.held = tx[t].held /\ y.plan = Legs(transfers)
      /\ y.transfers = transfers /\ y.writes = writes /\ y.facts = facts
  BY <1>1 DEF TellerTells, Fields
<1> HIDE DEF y
<1>4. TellerTells(y)
  BY <1>1, <1>3 DEF TellerTells
<1>5. \A s \in Tellers \ {t} : tx[s].keys \cap y.keys = {} /\ tx[s].held \cap y.held = {}
  BY <1>3 DEF EconomyInv, Apart
<1> QED
  BY <1>2, <1>4, <1>5, TellerMoves

LEMMA NoTransfer ==
  /\ \A held : Covered(held, <<>>)
  /\ Delta(<<>>, 0, Treasury) = 0
<1>1. <<>> \in Seq(TransferRow) /\ Len(<<>>) <= 2
  OBVIOUS
<1>2. Delta(<<>>, 0, Treasury) = 0
  BY <1>1, Sums, Zenon
<1> QED
  BY <1>1, <1>2 DEF Covered

LEMMA RefuseTells ==
  ASSUME EconomyInv, NEW t \in Tellers, agenda' = agenda, tx[t].stage = "deciding", Refuse(t)
  PROVE  EconomyInv'
<1>1. <<>> \in Seq(TransferRow) /\ Len(<<>>) = 0
  OBVIOUS
<1>2. Delta(<<>>, 0, Treasury) = 0
  BY NoTransfer
<1>3. Draft(tx[t].command, tx[t].keys, tx[t].held, <<>>, <<>>, {})
  BY <1>1, <1>2 DEF Draft, Covered, BothBooks
<1> QED
  BY <1>3, Approved DEF Refuse

(* What is known when a command is decided. *)
Informed(c, keys, held) ==
  /\ c \in agenda /\ c.user \in Citizens /\ c.key \in Nat /\ c.amount \in Nat /\ c.day \in Nat
  /\ c.op \in {"referral", "gift"} => c.other \in Citizens
  /\ KeysTell(c, keys) /\ LookTells(c, held)

LEMMA DecidingTells ==
  ASSUME EconomyInv, NEW t \in Tellers, tx[t].stage = "deciding", NextLock(t) = {}
  PROVE  Informed(tx[t].command, tx[t].keys, tx[t].held)
<1>1. /\ tx[t].command \in agenda /\ KeysTell(tx[t].command, tx[t].keys)
      /\ \E looked \in SUBSET Accounts :
           /\ tx[t].plan = <<looked>> /\ tx[t].held \subseteq looked
           /\ LookTells(tx[t].command, looked)
  <2>1. TellerTells(tx[t])
    BY DEF EconomyInv
  <2> QED
    BY <2>1 DEF TellerTells
<1>2. PICK looked \in SUBSET Accounts :
        /\ tx[t].plan = <<looked>> /\ tx[t].held \subseteq looked
        /\ LookTells(tx[t].command, looked)
  BY <1>1
<1>3. looked \subseteq tx[t].held
  <2>1. tx[t].plan \in Seq(SUBSET Accounts) /\ 1 \in DOMAIN tx[t].plan
    BY <1>2
  <2>2. tx[t].plan[1] \subseteq tx[t].held
    BY <2>1, PlanHeld
  <2> QED
    BY <1>2, <2>2
<1>4. tx[t].held = looked
  BY <1>2, <1>3
<1> QED
  BY <1>1, <1>2, <1>4, AgendaTyped DEF Informed, EconomyInv

LEMMA OneTransfer ==
  ASSUME LedgerTells, NEW held, NEW from \in Accounts, NEW to \in Accounts, NEW amount \in Nat,
         from = Issuance \/ (from \in held /\ balance[from] >= amount)
  PROVE  /\ Covered(held, <<Transfer(from, to, amount)>>)
         /\ Delta(<<Transfer(from, to, amount)>>, 1, Treasury)
              = Change(Transfer(from, to, amount), Treasury)
<1> DEFINE transfer == Transfer(from, to, amount)
<1> DEFINE transfers == <<transfer>>
<1>1. transfer \in TransferRow
  BY DEF Transfer, TransferRow
<1>2. \A a \in Accounts \ {Issuance} :
        /\ Change(transfer, a) \in Int
        /\ Change(transfer, a) >= 0
             \/ (a \in held /\ balance[a] + Change(transfer, a) >= 0)
  BY Codes DEF Transfer, Change, LedgerTells
<1> HIDE DEF transfer
<1>3. transfers \in Seq(TransferRow) /\ Len(transfers) = 1 /\ transfers[1] = transfer
  BY <1>1
<1> HIDE DEF transfers
<1>4. \A a : Delta(transfers, 1, a) = Change(transfer, a)
  <2>1. Len(transfers) <= 2 /\ Len(transfers) >= 1
    BY <1>3
  <2> QED
    BY <1>3, <2>1, Sums, Zenon
<1>5. DOMAIN transfers = {1}
  BY <1>3
<1>6. Covered(held, transfers)
  BY <1>2, <1>3, <1>4, <1>5 DEF Covered
<1> QED
  BY <1>4, <1>6 DEF transfer, transfers

LEMMA TwoTransfers ==
  ASSUME NEW held, NEW first \in TransferRow, NEW second \in TransferRow,
         \A a \in Accounts \ {Issuance} :
           /\ Change(first, a) >= 0 \/ (a \in held /\ balance[a] + Change(first, a) >= 0)
           /\ \/ Change(first, a) + Change(second, a) >= 0
              \/ a \in held /\ balance[a] + (Change(first, a) + Change(second, a)) >= 0
  PROVE  /\ Covered(held, <<first, second>>)
         /\ Delta(<<first, second>>, 2, Treasury)
              = Change(first, Treasury) + Change(second, Treasury)
<1> DEFINE transfers == <<first, second>>
<1>1. /\ transfers \in Seq(TransferRow) /\ Len(transfers) = 2
      /\ transfers[1] = first /\ transfers[2] = second
  OBVIOUS
<1> HIDE DEF transfers
<1>2. \A a : /\ Delta(transfers, 1, a) = Change(first, a)
             /\ Delta(transfers, 2, a) = Change(first, a) + Change(second, a)
  <2>1. Len(transfers) <= 2 /\ Len(transfers) >= 1
    BY <1>1
  <2> QED
    BY <1>1, <2>1, Sums, Zenon
<1>3. DOMAIN transfers = {1, 2}
  BY <1>1
<1>4. Covered(held, transfers)
  BY <1>1, <1>2, <1>3 DEF Covered
<1> QED
  BY <1>2, <1>4 DEF transfers

LEMMA OneRow ==
  ASSUME NEW c, NEW keys, NEW held, NEW transfers, NEW name, NEW value, NEW facts,
         Covered(held, transfers),
         Writable(c, keys, held, facts, Write(name, value), name),
         \A f \in facts : Payable(c, keys, held, facts, Write(name, value), f),
         name # <<"town">>, Delta(transfers, Len(transfers), Treasury) = 0
  PROVE  Draft(c, keys, held, transfers, Write(name, value), facts)
BY DEF Draft, Write, BothBooks

(* An issue to a citizen. *)
LEMMA Issued ==
  ASSUME LedgerTells, NEW held, NEW u \in Citizens, NEW amount \in Nat
  PROVE  /\ Covered(held, <<Issue(u, amount)>>)
         /\ Delta(<<Issue(u, amount)>>, Len(<<Issue(u, amount)>>), Treasury) = 0
<1>1. Free(u) \in Accounts /\ Issuance \in Accounts /\ Free(u) # Treasury /\ Issuance # Treasury
  BY Codes DEF Issuance, Treasury
<1>2. Change(Transfer(Issuance, Free(u), amount), Treasury) = 0
  BY <1>1 DEF Change, Transfer
<1>3. Len(<<Issue(u, amount)>>) = 1
  OBVIOUS
<1> QED
  BY <1>1, <1>2, <1>3, OneTransfer DEF Issue
LEMMA IssueChanges ==
  ASSUME NEW u \in Citizens, NEW amount \in Nat
  PROVE  /\ Issue(u, amount) \in TransferRow
         /\ Change(Issue(u, amount), Treasury) = 0
         /\ \A a \in Accounts \ {Issuance} : Change(Issue(u, amount), a) \in Nat
<1>1. /\ Free(u) \in Accounts /\ Issuance \in Accounts
      /\ Free(u) # Treasury /\ Issuance # Treasury
  BY Codes DEF Issuance, Treasury
<1> QED
  BY <1>1 DEF Issue, Transfer, TransferRow, Change

LEMMA Rewarded ==
  ASSUME EconomyInv, NEW t \in Tellers, agenda' = agenda, tx[t].stage = "deciding",
         NEW u \in Citizens, NEW amount \in Nat, NEW name, NEW value, NEW fact,
         Approve(t, <<Issue(u, amount)>>, Write(name, value), {fact}), name # <<"town">>,
         Writable(tx[t].command, tx[t].keys, tx[t].held, {fact}, Write(name, value), name),
         Payable(tx[t].command, tx[t].keys, tx[t].held, {fact}, Write(name, value), fact)
  PROVE  EconomyInv'
<1>1. /\ Covered(tx[t].held, <<Issue(u, amount)>>)
      /\ Delta(<<Issue(u, amount)>>, Len(<<Issue(u, amount)>>), Treasury) = 0
  BY Issued DEF EconomyInv
<1>2. Draft(tx[t].command, tx[t].keys, tx[t].held, <<Issue(u, amount)>>, Write(name, value),
            {fact})
  BY <1>1, OneRow
<1> QED
  BY <1>2, Approved

LEMMA OnlyRow ==
  ASSUME EconomyInv, NEW t \in Tellers, agenda' = agenda, tx[t].stage = "deciding",
         NEW name, NEW value, Approve(t, <<>>, Write(name, value), {}), name # <<"town">>,
         Writable(tx[t].command, tx[t].keys, tx[t].held, {}, Write(name, value), name)
  PROVE  EconomyInv'
<1>1. Covered(tx[t].held, <<>>) /\ Delta(<<>>, Len(<<>>), Treasury) = 0
  BY NoTransfer
<1>2. Draft(tx[t].command, tx[t].keys, tx[t].held, <<>>, Write(name, value), {})
  BY <1>1, OneRow
<1> QED
  BY <1>2, Approved

LEMMA RegisterTells ==
  ASSUME EconomyInv, NEW t \in Tellers, agenda' = agenda, Register(t)
  PROVE  EconomyInv'
<1> DEFINE c == tx[t].command
<1>1. PICK u \in Citizens :
        /\ Deciding(t, "register", u)
        /\ \/ Registered(u) /\ Refuse(t)
           \/ /\ ~Registered(u)
              /\ Approve(t, <<Issue(u, Bonus)>>, Write(<<"user", u>>, TRUE), {<<"bonus", u>>})
  BY DEF Register
<1>2. /\ tx[t].stage = "deciding" /\ c.op = "register" /\ c.user = u
      /\ Informed(c, tx[t].keys, tx[t].held)
  BY <1>1, DecidingTells DEF Deciding
<1>3. CASE Refuse(t)
  BY <1>2, <1>3, RefuseTells
<1>4. CASE /\ ~Registered(u)
           /\ Approve(t, <<Issue(u, Bonus)>>, Write(<<"user", u>>, TRUE), {<<"bonus", u>>})
  <2>1. <<"user", u>> \in tx[t].keys
    BY <1>2, <1>4 DEF Informed, KeysTell
  <2>2. Writable(c, tx[t].keys, tx[t].held, {<<"bonus", u>>}, Write(<<"user", u>>, TRUE),
                 <<"user", u>>)
    BY <2>1, CitizenNames DEF Writable, Write
  <2>3. Payable(c, tx[t].keys, tx[t].held, {<<"bonus", u>>}, Write(<<"user", u>>, TRUE),
                <<"bonus", u>>)
    BY <1>4, <2>1 DEF Payable, Write, FactKinds, Registered
  <2> QED
    BY <1>2, <1>4, <2>2, <2>3, Rewarded, EconomyAssumption
<1> QED
  BY <1>1, <1>3, <1>4
LEMMA BindReferralTells ==
  ASSUME EconomyInv, NEW t \in Tellers, agenda' = agenda, BindReferral(t)
  PROVE  EconomyInv'
<1> DEFINE c == tx[t].command
<1> DEFINE referrer == c.other
<1> DEFINE bonus(u) == IF Registered(u) THEN 0 ELSE Bonus
<1> DEFINE transfers(u) == <<Issue(u, Bonus + bonus(u)), Issue(referrer, Bonus)>>
<1> DEFINE writes(u) == [r \in {<<"user", u>>, <<"invitation", u>>} |-> TRUE]
<1> DEFINE facts(u) == {<<"referral", u>>} \cup Unless(bonus(u) = 0, <<"bonus", u>>)
<1>1. PICK u \in Citizens :
        /\ Deciding(t, "referral", u)
        /\ \/ Dismiss(t)
           \/ Refuse(t)
           \/ /\ Registered(referrer) /\ ~rows[<<"invitation", u>>]
              /\ Approve(t, transfers(u), writes(u), facts(u))
  BY DEF BindReferral
<1>2. /\ tx[t].stage = "deciding" /\ c.op = "referral" /\ c.user = u
      /\ Informed(c, tx[t].keys, tx[t].held)
  BY <1>1, DecidingTells DEF Deciding
<1>3. CASE Refuse(t)
  BY <1>2, <1>3, RefuseTells
<1>4. CASE Dismiss(t)
  BY <1>4, AbortTells
<1>5. CASE /\ Registered(referrer) /\ ~rows[<<"invitation", u>>]
           /\ Approve(t, transfers(u), writes(u), facts(u))
  <2>1. /\ <<"invitation", u>> \in tx[t].keys
        /\ Registered(u) \/ <<"user", u>> \in tx[t].keys
    BY <1>2, <1>5 DEF Informed, KeysTell
  <2>2. DOMAIN writes(u) = {<<"user", u>>, <<"invitation", u>>}
    OBVIOUS
  <2>3. ASSUME NEW r \in DOMAIN writes(u)
        PROVE  Writable(c, tx[t].keys, tx[t].held, facts(u), writes(u), r)
    <3>1. r = <<"user", u>> \/ r = <<"invitation", u>>
      BY <2>2, <2>3
    <3>2. r \in Names /\ writes(u)[r] = TRUE
      BY <3>1, CitizenNames
    <3> HIDE DEF writes, facts
    <3>3. CASE r = <<"user", u>>
      BY <2>1, <3>2, <3>3 DEF Writable, Registered
    <3>4. CASE r = <<"invitation", u>>
      BY <2>1, <3>2, <3>4 DEF Writable
    <3> QED
      BY <3>1, <3>3, <3>4
  <2>4. bonus(u) = 0 <=> Registered(u)
    BY EconomyAssumption
  <2>5. ASSUME NEW f \in facts(u)
        PROVE  Payable(c, tx[t].keys, tx[t].held, facts(u), writes(u), f)
    <3>1. f = <<"referral", u>> \/ (f = <<"bonus", u>> /\ ~Registered(u))
      BY <2>4 DEF Unless
    <3> HIDE DEF writes, facts
    <3>2. CASE f = <<"referral", u>>
      BY <1>5, <2>1, <2>2, <3>2 DEF Payable, FactKinds
    <3>3. CASE f = <<"bonus", u>> /\ ~Registered(u)
      BY <2>1, <2>2, <3>3 DEF Payable, FactKinds, Registered
    <3> QED
      BY <3>1, <3>2, <3>3
  <2>6. referrer \in Citizens /\ Bonus \in Nat /\ bonus(u) \in Nat
    BY <1>2, EconomyAssumption DEF Informed
  <2> HIDE DEF bonus
  <2>7. /\ Issue(u, Bonus + bonus(u)) \in TransferRow /\ Issue(referrer, Bonus) \in TransferRow
        /\ Change(Issue(u, Bonus + bonus(u)), Treasury) = 0
        /\ Change(Issue(referrer, Bonus), Treasury) = 0
        /\ \A a \in Accounts \ {Issuance} :
             /\ Change(Issue(u, Bonus + bonus(u)), a) \in Nat
             /\ Change(Issue(referrer, Bonus), a) \in Nat
    <3>1. Bonus + bonus(u) \in Nat
      BY <2>6
    <3> QED
      BY <2>6, <3>1, IssueChanges
  <2>8. Covered(tx[t].held, transfers(u)) /\ Delta(transfers(u), 2, Treasury) = 0
    BY <2>7, TwoTransfers
  <2>9. Draft(c, tx[t].keys, tx[t].held, transfers(u), writes(u), facts(u))
    <3>1. Len(transfers(u)) = 2 /\ <<"town">> \notin DOMAIN writes(u)
      BY <2>2
    <3> HIDE DEF writes, facts, transfers
    <3> QED
      BY <2>3, <2>5, <2>8, <3>1 DEF Draft, BothBooks
  <2> QED
    BY <1>2, <1>5, <2>9, Approved
<1> QED
  BY <1>1, <1>3, <1>4, <1>5

LEMMA CheckInTells ==
  ASSUME EconomyInv, NEW t \in Tellers, agenda' = agenda, CheckIn(t)
  PROVE  EconomyInv'
<1> DEFINE c == tx[t].command
<1> DEFINE next(u) == StreakAfter(rows[<<"streak", u>>], c.day)
<1>1. PICK u \in Citizens :
        /\ Deciding(t, "check_in", u)
        /\ \/ Dismiss(t)
           \/ Refuse(t)
           \/ Approve(t, <<Issue(u, Reward(next(u).days))>>, Write(<<"streak", u>>, next(u)),
                      {<<"check_in", u, c.day>>})
  BY DEF CheckIn
<1>2. /\ tx[t].stage = "deciding" /\ c.op = "check_in" /\ c.user = u
      /\ Informed(c, tx[t].keys, tx[t].held)
  BY <1>1, DecidingTells DEF Deciding
<1>3. CASE Refuse(t)
  BY <1>2, <1>3, RefuseTells
<1>4. CASE Dismiss(t)
  BY <1>4, AbortTells
<1>5. CASE Approve(t, <<Issue(u, Reward(next(u).days))>>, Write(<<"streak", u>>, next(u)),
                   {<<"check_in", u, c.day>>})
  <2>1. rows[<<"streak", u>>] \in [last : Nat, days : Nat]
    BY CitizenNames DEF EconomyInv, LedgerTells, Kinds
  <2>2. next(u) \in [last : Nat, days : Nat] /\ next(u).days \in Nat \ {0}
    BY <1>2, <2>1 DEF StreakAfter, Informed
  <2> HIDE DEF next
  <2>3. Reward(next(u).days) \in Nat
    <3>1. (next(u).days - 1) \div 5 \in Nat
      BY <2>2
    <3> QED
      BY <3>1 DEF Reward
  <2>4. Writable(c, tx[t].keys, tx[t].held, {<<"check_in", u, c.day>>},
                 Write(<<"streak", u>>, next(u)), <<"streak", u>>)
    BY <2>2, CitizenNames DEF Writable, Write
  <2>5. Payable(c, tx[t].keys, tx[t].held, {<<"check_in", u, c.day>>},
                Write(<<"streak", u>>, next(u)), <<"check_in", u, c.day>>)
    BY DEF Payable, FactKinds
  <2> QED
    <3>1. PICK amount \in Nat : amount = Reward(next(u).days)
      BY <2>3
    <3>2. PICK row : row = next(u)
      OBVIOUS
    <3>3. <<"streak", u>> # <<"town">>
      OBVIOUS
    <3>4. PICK fact : fact = <<"check_in", u, c.day>>
      OBVIOUS
    <3>5. /\ Approve(t, <<Issue(u, amount)>>, Write(<<"streak", u>>, row), {fact})
          /\ Writable(c, tx[t].keys, tx[t].held, {fact}, Write(<<"streak", u>>, row),
                      <<"streak", u>>)
          /\ Payable(c, tx[t].keys, tx[t].held, {fact}, Write(<<"streak", u>>, row), fact)
      BY <1>5, <2>4, <2>5, <3>1, <3>2, <3>4, Zenon
    <3> QED
      BY <1>2, <3>3, <3>5, Rewarded
<1> QED
  BY <1>1, <1>3, <1>4, <1>5

LEMMA LotteryTells ==
  ASSUME EconomyInv, NEW t \in Tellers, agenda' = agenda, Lottery(t)
  PROVE  EconomyInv'
<1> DEFINE c == tx[t].command
<1>1. PICK u \in Citizens :
        /\ Deciding(t, "lottery", u)
        /\ \/ Dismiss(t)
           \/ Refuse(t)
           \/ /\ c.day >= rows[<<"lottery", u>>]
              /\ Approve(t, <<Issue(u, c.amount)>>, Write(<<"lottery", u>>, c.day + Cooldown),
                         {<<"lottery", u, c.day>>})
  BY DEF Lottery
<1>2. /\ tx[t].stage = "deciding" /\ c.op = "lottery" /\ c.user = u
      /\ Informed(c, tx[t].keys, tx[t].held)
  BY <1>1, DecidingTells DEF Deciding
<1>3. CASE Refuse(t)
  BY <1>2, <1>3, RefuseTells
<1>4. CASE Dismiss(t)
  BY <1>4, AbortTells
<1>5. CASE /\ c.day >= rows[<<"lottery", u>>]
           /\ Approve(t, <<Issue(u, c.amount)>>, Write(<<"lottery", u>>, c.day + Cooldown),
                      {<<"lottery", u, c.day>>})
  <2>1. <<"lottery", u>> \in tx[t].keys /\ c.day \in Nat /\ c.amount \in Nat
    BY <1>2 DEF Informed, KeysTell
  <2>2. <<"lottery", u>> \in Names /\ rows[<<"lottery", u>>] \in Nat
    BY CitizenNames DEF EconomyInv, LedgerTells, Kinds
  <2>3. c.day + Cooldown \in Nat /\ c.day + Cooldown >= rows[<<"lottery", u>>]
    BY <1>5, <2>1, <2>2, EconomyAssumption
  <2>4. Writable(c, tx[t].keys, tx[t].held, {<<"lottery", u, c.day>>},
                 Write(<<"lottery", u>>, c.day + Cooldown), <<"lottery", u>>)
    BY <2>1, <2>2, <2>3 DEF Writable, Write
  <2>5. Payable(c, tx[t].keys, tx[t].held, {<<"lottery", u, c.day>>},
                Write(<<"lottery", u>>, c.day + Cooldown), <<"lottery", u, c.day>>)
    BY <1>5, <2>1 DEF Payable, Write, FactKinds
  <2> QED
    BY <1>2, <1>5, <2>1, <2>4, <2>5, Rewarded
<1> QED
  BY <1>1, <1>3, <1>4, <1>5

LEMMA ClaimTaskTells ==
  ASSUME EconomyInv, NEW t \in Tellers, agenda' = agenda, ClaimTaskReward(t)
  PROVE  EconomyInv'
<1> DEFINE c == tx[t].command
<1>1. PICK u \in Citizens :
        /\ Deciding(t, "task", u)
        /\ \/ Dismiss(t)
           \/ Refuse(t)
           \/ /\ ~rows[<<"task", u>>]
              /\ Approve(t, <<Issue(u, c.amount)>>, Write(<<"task", u>>, TRUE), {<<"task", u>>})
  BY DEF ClaimTaskReward
<1>2. /\ tx[t].stage = "deciding" /\ c.op = "task" /\ c.user = u
      /\ Informed(c, tx[t].keys, tx[t].held)
  BY <1>1, DecidingTells DEF Deciding
<1>3. CASE Refuse(t)
  BY <1>2, <1>3, RefuseTells
<1>4. CASE Dismiss(t)
  BY <1>4, AbortTells
<1>5. CASE /\ ~rows[<<"task", u>>]
           /\ Approve(t, <<Issue(u, c.amount)>>, Write(<<"task", u>>, TRUE), {<<"task", u>>})
  <2>1. <<"task", u>> \in tx[t].keys /\ c.amount \in Nat
    BY <1>2, <1>5 DEF Informed, KeysTell
  <2>2. Writable(c, tx[t].keys, tx[t].held, {<<"task", u>>}, Write(<<"task", u>>, TRUE),
                 <<"task", u>>)
    BY <2>1, CitizenNames DEF Writable, Write
  <2>3. Payable(c, tx[t].keys, tx[t].held, {<<"task", u>>}, Write(<<"task", u>>, TRUE),
                <<"task", u>>)
    BY <1>5, <2>1 DEF Payable, Write, FactKinds
  <2> QED
    BY <1>2, <1>5, <2>1, <2>2, <2>3, Rewarded
<1> QED
  BY <1>1, <1>3, <1>4, <1>5
LEMMA OneAfterOther == \A x, y : <<x>> \o <<y>> = <<x, y>>
<1> TAKE x, y
<1> DEFINE s == <<x>> \o <<y>>
<1>1. <<x>> \in Seq({x, y}) /\ <<y>> \in Seq({x, y})
  OBVIOUS
<1>2. s \in Seq({x, y}) /\ Len(s) = 2 /\ s[1] = x /\ s[2] = y
  BY <1>1, ConcatProperties
<1> HIDE DEF s
<1>3. s = [i \in 1 .. 2 |-> s[i]]
  BY <1>2
<1>4. s = <<x, y>>
  BY <1>2, <1>3
<1> QED
  BY <1>4 DEF s

LEMMA FeeIsNatural == \A amount \in Nat : Fee(amount) \in Nat
<1> SUFFICES ASSUME NEW amount \in Nat PROVE Fee(amount) \in Nat
  OBVIOUS
<1>1. amount \div 5 \in Nat
  OBVIOUS
<1> QED
  BY <1>1 DEF Fee

LEMMA GiveTells ==
  ASSUME EconomyInv, NEW t \in Tellers, agenda' = agenda, Give(t)
  PROVE  EconomyInv'
<1> DEFINE c == tx[t].command
<1> DEFINE fee == Fee(c.amount)
<1> DEFINE first(u) == Transfer(Free(u), Free(c.other), c.amount)
<1> DEFINE second(u) == Transfer(Free(u), Burn, fee)
<1> DEFINE transfers(u) == <<first(u)>> \o IF fee = 0 THEN <<>> ELSE <<second(u)>>
<1> DEFINE count(u) == rows[<<"gifts", u>>]
<1>1. PICK u \in Citizens :
        /\ Deciding(t, "gift", u)
        /\ \/ Dismiss(t)
           \/ Refuse(t)
           \/ /\ Looked(t) /\ count(u) < GiftLimit /\ balance[Free(u)] >= c.amount + fee
              /\ Approve(t, transfers(u), Write(<<"gifts", u>>, count(u) + 1), {<<"gift", u>>})
  BY DEF Give
<1>2. /\ tx[t].stage = "deciding" /\ c.op = "gift" /\ c.user = u
      /\ Informed(c, tx[t].keys, tx[t].held)
  BY <1>1, DecidingTells DEF Deciding
<1>3. CASE Refuse(t)
  BY <1>2, <1>3, RefuseTells
<1>4. CASE Dismiss(t)
  BY <1>4, AbortTells
<1>5. CASE /\ Looked(t) /\ count(u) < GiftLimit /\ balance[Free(u)] >= c.amount + fee
           /\ Approve(t, transfers(u), Write(<<"gifts", u>>, count(u) + 1), {<<"gift", u>>})
  <2>1. /\ Free(u) \in tx[t].held /\ u # c.other /\ c.other \in Citizens /\ c.amount \in Nat
        /\ fee \in Nat
    BY <1>2, <1>5, FeeIsNatural DEF Informed, LookTells, Looked
  <2>2. Writable(c, tx[t].keys, tx[t].held, {<<"gift", u>>},
                 Write(<<"gifts", u>>, count(u) + 1), <<"gifts", u>>)
    BY <1>5, <2>1, CitizenNames DEF Writable, Write
  <2>3. Payable(c, tx[t].keys, tx[t].held, {<<"gift", u>>},
                Write(<<"gifts", u>>, count(u) + 1), <<"gift", u>>)
    BY DEF Payable, FactKinds, Write
  <2> HIDE DEF fee
  <2>4. /\ first(u) \in TransferRow /\ second(u) \in TransferRow
        /\ Change(first(u), Treasury) = 0 /\ Change(second(u), Treasury) = 0
    <3>1. /\ Free(u) \in Accounts /\ Free(c.other) \in Accounts /\ Burn \in Accounts
          /\ Treasury \notin {Free(u), Free(c.other), Burn}
      BY <2>1, Codes DEF Burn, Treasury
    <3> QED
      BY <2>1, <3>1 DEF Transfer, TransferRow, Change
  <2>5. \A a \in Accounts \ {Issuance} :
          /\ \/ Change(first(u), a) >= 0
             \/ a \in tx[t].held /\ balance[a] + Change(first(u), a) >= 0
          /\ \/ Change(first(u), a) + Change(second(u), a) >= 0
             \/ /\ a \in tx[t].held
                /\ balance[a] + (Change(first(u), a) + Change(second(u), a)) >= 0
    <3> SUFFICES ASSUME NEW a \in Accounts \ {Issuance}
                 PROVE  /\ \/ Change(first(u), a) >= 0
                           \/ a \in tx[t].held /\ balance[a] + Change(first(u), a) >= 0
                        /\ \/ Change(first(u), a) + Change(second(u), a) >= 0
                           \/ /\ a \in tx[t].held
                              /\ balance[a] + (Change(first(u), a) + Change(second(u), a)) >= 0
      OBVIOUS
    <3>1. balance[Free(u)] \in Int
      BY Codes DEF EconomyInv, LedgerTells
    <3>2. CASE a = Free(u)
      <4>1. Change(first(u), a) = -c.amount /\ Change(second(u), a) = -fee
        <5>1. Free(c.other) # Free(u) /\ Burn # Free(u)
          BY <2>1, Codes
        <5> QED
          BY <2>1, <3>2, <5>1 DEF Change, Transfer
      <4>2. /\ balance[Free(u)] + (-c.amount) >= 0
            /\ balance[Free(u)] + ((-c.amount) + (-fee)) >= 0
        BY <1>5, <2>1, <3>1
      <4> HIDE DEF first, second
      <4> QED
        BY <2>1, <3>2, <4>1, <4>2
    <3>3. CASE a # Free(u)
      <4>1. Change(first(u), a) \in Nat /\ Change(second(u), a) \in Nat
        BY <2>1, <3>3 DEF Change, Transfer
      <4> HIDE DEF first, second
      <4> QED
        BY <4>1
    <3> QED
      BY <3>2, <3>3
  <2>6. Covered(tx[t].held, transfers(u)) /\ Delta(transfers(u), Len(transfers(u)), Treasury) = 0
    <3>1. CASE fee = 0
      <4>1. transfers(u) = <<first(u)>> /\ Len(transfers(u)) = 1
        BY <3>1
      <4>2. balance[Free(u)] >= c.amount
        BY <1>5, <2>1, <3>1, Codes DEF EconomyInv, LedgerTells
      <4> HIDE DEF transfers
      <4>3. /\ Covered(tx[t].held, <<first(u)>>)
            /\ Delta(<<first(u)>>, 1, Treasury) = Change(first(u), Treasury)
        <5>1. Free(u) \in Accounts /\ Free(c.other) \in Accounts
          BY <2>1, Codes
        <5>2. LedgerTells
          BY DEF EconomyInv
        <5> QED
          BY <2>1, <4>2, <5>1, <5>2, OneTransfer
      <4> HIDE DEF first
      <4> QED
        BY <2>4, <4>1, <4>3
    <3>2. CASE fee # 0
      <4>1. transfers(u) = <<first(u), second(u)>> /\ Len(transfers(u)) = 2
        <5> HIDE DEF first, second
        <5>1. transfers(u) = <<first(u)>> \o <<second(u)>>
          BY <3>2
        <5>2. <<first(u)>> \o <<second(u)>> = <<first(u), second(u)>>
          BY OneAfterOther
        <5> HIDE DEF transfers
        <5> QED
          BY <5>1, <5>2
      <4> HIDE DEF first, second, transfers
      <4>2. /\ Covered(tx[t].held, <<first(u), second(u)>>)
            /\ Delta(<<first(u), second(u)>>, 2, Treasury)
                 = Change(first(u), Treasury) + Change(second(u), Treasury)
        BY <2>4, <2>5, TwoTransfers
      <4> QED
        BY <2>4, <4>1, <4>2
    <3> QED
      BY <3>1, <3>2
  <2> HIDE DEF transfers
  <2>7. Draft(c, tx[t].keys, tx[t].held, transfers(u), Write(<<"gifts", u>>, count(u) + 1),
              {<<"gift", u>>})
    <3>1. <<"gifts", u>> # <<"town">>
      OBVIOUS
    <3> QED
      BY <2>2, <2>3, <2>6, <3>1, OneRow
  <2> QED
    BY <1>2, <1>5, <2>7, Approved
<1> QED
  BY <1>1, <1>3, <1>4, <1>5

LEMMA DrawOmikujiTells ==
  ASSUME EconomyInv, NEW t \in Tellers, agenda' = agenda, DrawOmikuji(t)
  PROVE  EconomyInv'
<1> DEFINE c == tx[t].command
<1>1. PICK u \in Citizens :
        /\ Deciding(t, "omikuji", u)
        /\ \/ Refuse(t)
           \/ /\ Looked(t) /\ ~rows[<<"omikuji", u>>] /\ balance[Free(u)] >= 1
              /\ Approve(t, <<Transfer(Free(u), Burn, 1)>>, Write(<<"omikuji", u>>, TRUE),
                         {<<"omikuji", u>>})
  BY DEF DrawOmikuji
<1>2. /\ tx[t].stage = "deciding" /\ c.op = "omikuji" /\ c.user = u
      /\ Informed(c, tx[t].keys, tx[t].held)
  BY <1>1, DecidingTells DEF Deciding
<1>3. CASE Refuse(t)
  BY <1>2, <1>3, RefuseTells
<1>4. CASE /\ Looked(t) /\ ~rows[<<"omikuji", u>>] /\ balance[Free(u)] >= 1
           /\ Approve(t, <<Transfer(Free(u), Burn, 1)>>, Write(<<"omikuji", u>>, TRUE),
                      {<<"omikuji", u>>})
  <2>1. Free(u) \in tx[t].held
    BY <1>2, <1>4 DEF Informed, LookTells, Looked
  <2>2. Writable(c, tx[t].keys, tx[t].held, {<<"omikuji", u>>},
                 Write(<<"omikuji", u>>, TRUE), <<"omikuji", u>>)
    BY <2>1, CitizenNames DEF Writable, Write
  <2>3. Payable(c, tx[t].keys, tx[t].held, {<<"omikuji", u>>},
                Write(<<"omikuji", u>>, TRUE), <<"omikuji", u>>)
    BY <1>4, <2>1 DEF Payable, FactKinds, Write
  <2>4. /\ Free(u) \in Accounts /\ Burn \in Accounts /\ Treasury \notin {Free(u), Burn}
    BY Codes DEF Burn, Treasury
  <2>5. Change(Transfer(Free(u), Burn, 1), Treasury) = 0
    BY <2>4 DEF Change, Transfer
  <2>6. /\ Covered(tx[t].held, <<Transfer(Free(u), Burn, 1)>>)
        /\ Delta(<<Transfer(Free(u), Burn, 1)>>, 1, Treasury) = 0
    BY <1>4, <2>1, <2>4, <2>5, OneTransfer DEF EconomyInv
  <2>7. Draft(c, tx[t].keys, tx[t].held, <<Transfer(Free(u), Burn, 1)>>,
              Write(<<"omikuji", u>>, TRUE), {<<"omikuji", u>>})
    <3>1. Len(<<Transfer(Free(u), Burn, 1)>>) = 1 /\ <<"omikuji", u>> # <<"town">>
      OBVIOUS
    <3> QED
      BY <2>2, <2>3, <2>6, <3>1, OneRow
  <2> QED
    BY <1>2, <1>4, <2>7, Approved
<1> QED
  BY <1>1, <1>3, <1>4
LEMMA RequestTells ==
  ASSUME EconomyInv, NEW t \in Tellers, agenda' = agenda, RequestTokens(t)
  PROVE  EconomyInv'
<1> DEFINE c == tx[t].command
<1> DEFINE row == [status |-> "pending", amount |-> c.amount]
<1>1. PICK u \in Citizens :
        /\ Deciding(t, "request", u)
        /\ Dismiss(t) \/ Approve(t, <<>>, Write(<<"request", u>>, row), {})
  BY DEF RequestTokens
<1>2. /\ tx[t].stage = "deciding" /\ c.op = "request" /\ c.user = u
      /\ Informed(c, tx[t].keys, tx[t].held)
  BY <1>1, DecidingTells DEF Deciding
<1>3. row \in RequestRow /\ row.status = "pending"
  BY <1>2 DEF Informed, RequestRow
<1> HIDE DEF row
<1>4. Writable(c, tx[t].keys, tx[t].held, {}, Write(<<"request", u>>, row), <<"request", u>>)
  BY <1>2, <1>3, CitizenNames DEF Writable, Write
<1>5. <<"request", u>> # <<"town">>
  OBVIOUS
<1> QED
  BY <1>1, <1>2, <1>4, <1>5, OnlyRow, AbortTells

LEMMA ReviewTells ==
  ASSUME EconomyInv, NEW t \in Tellers, agenda' = agenda, ReviewTokenRequest(t)
  PROVE  EconomyInv'
<1> DEFINE c == tx[t].command
<1> DEFINE request(u) == rows[<<"request", u>>]
<1> DEFINE rejected(u) == [request(u) EXCEPT !.status = "rejected"]
<1> DEFINE approved(u) == [request(u) EXCEPT !.status = "approved"]
<1>1. PICK u \in Citizens :
        /\ Deciding(t, "approve", u) \/ Deciding(t, "reject", u)
        /\ \/ Refuse(t)
           \/ /\ request(u).status = "pending"
              /\ Approve(t, <<>>, Write(<<"request", u>>, rejected(u)), {})
           \/ /\ request(u).status = "pending"
              /\ Approve(t, <<Issue(u, request(u).amount)>>,
                         Write(<<"request", u>>, approved(u)), {<<"request", u>>})
  BY DEF ReviewTokenRequest
<1>2. /\ tx[t].stage = "deciding" /\ c.op \in {"approve", "reject"} /\ c.user = u
      /\ Informed(c, tx[t].keys, tx[t].held)
  BY <1>1, DecidingTells DEF Deciding
<1>3. <<"request", u>> \in tx[t].keys /\ <<"request", u>> \in Names
      /\ <<"request", u>> # <<"town">>
  BY <1>2, CitizenNames DEF Informed, KeysTell
<1>4. request(u) \in RequestRow
  BY <1>3 DEF EconomyInv, LedgerTells, Kinds
<1>5. /\ rejected(u) \in RequestRow /\ rejected(u).status = "rejected"
      /\ approved(u) \in RequestRow /\ approved(u).status = "approved"
      /\ request(u).amount \in Nat
  BY <1>4 DEF RequestRow
<1> HIDE DEF rejected, approved
<1>6. CASE Refuse(t)
  BY <1>2, <1>6, RefuseTells
<1>7. CASE /\ request(u).status = "pending"
           /\ Approve(t, <<>>, Write(<<"request", u>>, rejected(u)), {})
  <2>1. Writable(c, tx[t].keys, tx[t].held, {}, Write(<<"request", u>>, rejected(u)),
                 <<"request", u>>)
    BY <1>3, <1>5, <1>7 DEF Writable, Write
  <2> QED
    BY <1>2, <1>3, <1>7, <2>1, OnlyRow
<1>8. CASE /\ request(u).status = "pending"
           /\ Approve(t, <<Issue(u, request(u).amount)>>,
                      Write(<<"request", u>>, approved(u)), {<<"request", u>>})
  <2>1. Writable(c, tx[t].keys, tx[t].held, {<<"request", u>>},
                 Write(<<"request", u>>, approved(u)), <<"request", u>>)
    BY <1>3, <1>5, <1>8 DEF Writable, Write
  <2>2. Payable(c, tx[t].keys, tx[t].held, {<<"request", u>>},
                Write(<<"request", u>>, approved(u)), <<"request", u>>)
    BY <1>3, <1>5, <1>8 DEF Payable, Write, FactKinds
  <2> QED
    BY <1>2, <1>3, <1>5, <1>8, <2>1, <2>2, Rewarded
<1> QED
  BY <1>1, <1>6, <1>7, <1>8

LEMMA NoRow ==
  ASSUME NEW c, NEW keys, NEW held, NEW transfers, NEW fact, Covered(held, transfers),
         Delta(transfers, Len(transfers), Treasury) = 0,
         Payable(c, keys, held, {fact}, <<>>, fact)
  PROVE  Draft(c, keys, held, transfers, <<>>, {fact})
BY DEF Draft, BothBooks

LEMMA IssueTells ==
  ASSUME EconomyInv, NEW t \in Tellers, agenda' = agenda, IssueTokens(t) \/ FundActivityPot(t)
  PROVE  EconomyInv'
<1> DEFINE c == tx[t].command
<1>1. PICK u \in Citizens :
        /\ Deciding(t, "issue", u) \/ Deciding(t, "fund", u)
        /\ \/ Refuse(t)
           \/ Approve(t, <<Issue(u, c.amount)>>, <<>>, {<<"issue", c.key>>})
           \/ Approve(t, <<Transfer(Issuance, ActivityPot, c.amount)>>, <<>>,
                      {<<"fund", c.key>>})
  BY DEF IssueTokens, FundActivityPot
<1>2. /\ tx[t].stage = "deciding" /\ c.amount \in Nat
  BY <1>1, DecidingTells DEF Deciding, Informed
<1>3. CASE Refuse(t)
  BY <1>2, <1>3, RefuseTells
<1>4. CASE Approve(t, <<Issue(u, c.amount)>>, <<>>, {<<"issue", c.key>>})
  <2>1. /\ Covered(tx[t].held, <<Issue(u, c.amount)>>)
        /\ Delta(<<Issue(u, c.amount)>>, Len(<<Issue(u, c.amount)>>), Treasury) = 0
    BY <1>2, Issued DEF EconomyInv
  <2>2. Payable(c, tx[t].keys, tx[t].held, {<<"issue", c.key>>}, <<>>, <<"issue", c.key>>)
    BY DEF Payable, FactKinds
  <2> QED
    BY <1>2, <1>4, <2>1, <2>2, NoRow, Approved
<1>5. CASE Approve(t, <<Transfer(Issuance, ActivityPot, c.amount)>>, <<>>, {<<"fund", c.key>>})
  <2>1. /\ Issuance \in Accounts /\ ActivityPot \in Accounts
        /\ Treasury \notin {Issuance, ActivityPot}
    BY Codes DEF Issuance, ActivityPot, Treasury
  <2>2. Change(Transfer(Issuance, ActivityPot, c.amount), Treasury) = 0
    BY <2>1 DEF Change, Transfer
  <2>3. /\ Covered(tx[t].held, <<Transfer(Issuance, ActivityPot, c.amount)>>)
        /\ Delta(<<Transfer(Issuance, ActivityPot, c.amount)>>, 1, Treasury) = 0
    BY <1>2, <2>1, <2>2, OneTransfer DEF EconomyInv
  <2>4. Len(<<Transfer(Issuance, ActivityPot, c.amount)>>) = 1
    OBVIOUS
  <2>5. Payable(c, tx[t].keys, tx[t].held, {<<"fund", c.key>>}, <<>>, <<"fund", c.key>>)
    BY DEF Payable, FactKinds
  <2> QED
    BY <1>2, <1>5, <2>3, <2>4, <2>5, NoRow, Approved
<1> QED
  BY <1>1, <1>3, <1>4, <1>5

LEMMA CommitChanceTells ==
  ASSUME EconomyInv, NEW t \in Tellers, agenda' = agenda, CommitChanceRound(t)
  PROVE  EconomyInv'
<1> DEFINE c == tx[t].command
<1> DEFINE row == [status |-> "committed", stake |-> c.amount]
<1>1. PICK u \in Citizens :
        /\ Deciding(t, "commit", u)
        /\ \/ Dismiss(t)
           \/ Refuse(t)
           \/ /\ rows[<<"round", u>>].status = "none"
              /\ Approve(t, <<>>, Write(<<"round", u>>, row), {})
  BY DEF CommitChanceRound
<1>2. /\ tx[t].stage = "deciding" /\ c.op = "commit" /\ c.user = u
      /\ Informed(c, tx[t].keys, tx[t].held)
  BY <1>1, DecidingTells DEF Deciding
<1>3. row \in RoundRow /\ row.status = "committed"
  BY <1>2 DEF Informed, RoundRow
<1>4. <<"round", u>> \in tx[t].keys /\ <<"round", u>> \in Names /\ <<"round", u>> # <<"town">>
  BY <1>2, CitizenNames DEF Informed, KeysTell
<1> HIDE DEF row
<1>5. CASE /\ rows[<<"round", u>>].status = "none"
           /\ Approve(t, <<>>, Write(<<"round", u>>, row), {})
  <2>1. Writable(c, tx[t].keys, tx[t].held, {}, Write(<<"round", u>>, row), <<"round", u>>)
    BY <1>3, <1>4, <1>5 DEF Writable, Write
  <2> QED
    BY <1>2, <1>4, <1>5, <2>1, OnlyRow
<1>6. CASE Refuse(t)
  BY <1>2, <1>6, RefuseTells
<1> QED
  BY <1>1, <1>5, <1>6, AbortTells
LEMMA BindTells ==
  ASSUME EconomyInv, NEW t \in Tellers, agenda' = agenda, BindAndSettleChanceRound(t)
  PROVE  EconomyInv'
<1> DEFINE c == tx[t].command
<1> DEFINE round(u) == rows[<<"round", u>>]
<1> DEFINE settled(u) == [round(u) EXCEPT !.status = "settled"]
<1> DEFINE first(u) == Transfer(Free(u), ActivityPot, round(u).stake)
<1> DEFINE second(u, credited) == Transfer(ActivityPot, Free(u), credited)
<1> DEFINE transfers(u, credited) ==
      <<first(u)>> \o IF credited = 0 THEN <<>> ELSE <<second(u, credited)>>
<1>1. PICK u \in Citizens, credited \in Payouts :
        /\ Deciding(t, "bind", u)
        /\ \/ Dismiss(t)
           \/ /\ Looked(t) /\ balance[Free(u)] >= round(u).stake
              /\ balance[ActivityPot] + round(u).stake >= credited
              /\ Approve(t, transfers(u, credited), Write(<<"round", u>>, settled(u)),
                         {<<"round", u>>})
  BY DEF BindAndSettleChanceRound
<1>2. /\ tx[t].stage = "deciding" /\ c.op = "bind" /\ c.user = u
      /\ Informed(c, tx[t].keys, tx[t].held)
  BY <1>1, DecidingTells DEF Deciding
<1>3. CASE Dismiss(t)
  BY <1>3, AbortTells
<1>4. CASE /\ Looked(t) /\ balance[Free(u)] >= round(u).stake
           /\ balance[ActivityPot] + round(u).stake >= credited
           /\ Approve(t, transfers(u, credited), Write(<<"round", u>>, settled(u)),
                      {<<"round", u>>})
  <2>1. /\ <<"round", u>> \in tx[t].keys /\ <<"round", u>> \in Names
        /\ <<"round", u>> # <<"town">>
    BY <1>2, CitizenNames DEF Informed, KeysTell
  <2>2. /\ Free(u) \in tx[t].held /\ ActivityPot \in tx[t].held
        /\ round(u).status = "committed"
    BY <1>2, <1>4 DEF Informed, LookTells, Looked
  <2>3. round(u) \in RoundRow
    BY <2>1 DEF EconomyInv, LedgerTells, Kinds
  <2>4. settled(u) \in RoundRow /\ settled(u).status = "settled"
    BY <2>3 DEF RoundRow
  <2>5. Writable(c, tx[t].keys, tx[t].held, {<<"round", u>>}, Write(<<"round", u>>, settled(u)),
                 <<"round", u>>)
    <3> HIDE DEF settled
    <3> QED
      BY <2>1, <2>2, <2>4 DEF Writable, Write
  <2>6. Payable(c, tx[t].keys, tx[t].held, {<<"round", u>>}, Write(<<"round", u>>, settled(u)),
                <<"round", u>>)
    <3> HIDE DEF settled
    <3> QED
      BY <2>1, <2>2, <2>4 DEF Payable, Write, FactKinds
  <2>7. /\ round(u).stake \in Nat /\ credited \in Nat
        /\ balance[Free(u)] \in Int /\ balance[ActivityPot] \in Int
        /\ Free(u) \in Accounts /\ ActivityPot \in Accounts /\ Free(u) # ActivityPot
        /\ Treasury \notin {Free(u), ActivityPot}
    <3>1. round(u).stake \in Nat /\ credited \in Nat
      BY <2>3, EconomyAssumption DEF RoundRow
    <3>2. /\ Free(u) \in Accounts /\ ActivityPot \in Accounts /\ Free(u) # ActivityPot
          /\ Treasury \notin {Free(u), ActivityPot}
      BY Codes DEF Treasury, ActivityPot
    <3> QED
      BY <3>1, <3>2 DEF EconomyInv, LedgerTells
  <2> DEFINE stake == round(u).stake
  <2>8. first(u) = Transfer(Free(u), ActivityPot, stake)
    OBVIOUS
  <2> HIDE DEF stake
  <2>9. /\ first(u) \in TransferRow /\ second(u, credited) \in TransferRow
        /\ Change(first(u), Treasury) = 0 /\ Change(second(u, credited), Treasury) = 0
        /\ \A a \in Accounts : a \notin {Free(u), ActivityPot} =>
             Change(first(u), a) = 0 /\ Change(second(u, credited), a) = 0
        /\ Change(first(u), Free(u)) = -stake /\ Change(second(u, credited), Free(u)) = credited
        /\ Change(first(u), ActivityPot) = stake
        /\ Change(second(u, credited), ActivityPot) = -credited
    <3>1. stake \in Nat
      BY <2>7 DEF stake
    <3> QED
      BY <2>7, <2>8, <3>1 DEF Change, Transfer, TransferRow
  <2> HIDE DEF first, second
  <2>10. \A a \in Accounts \ {Issuance} :
           /\ \/ Change(first(u), a) >= 0
              \/ a \in tx[t].held /\ balance[a] + Change(first(u), a) >= 0
           /\ \/ Change(first(u), a) + Change(second(u, credited), a) >= 0
              \/ /\ a \in tx[t].held
                 /\ balance[a] + (Change(first(u), a) + Change(second(u, credited), a)) >= 0
    <3>1. stake \in Nat /\ balance[Free(u)] >= stake /\ balance[ActivityPot] + stake >= credited
      BY <1>4, <2>7 DEF stake
    <3> QED
      BY <2>2, <2>7, <2>9, <3>1
  <2>11. /\ Covered(tx[t].held, transfers(u, credited))
         /\ Delta(transfers(u, credited), Len(transfers(u, credited)), Treasury) = 0
    <3>1. CASE credited = 0
      <4>1. transfers(u, credited) = <<first(u)>> /\ Len(transfers(u, credited)) = 1
        BY <3>1
      <4> HIDE DEF transfers
      <4>2. /\ Covered(tx[t].held, <<first(u)>>)
            /\ Delta(<<first(u)>>, 1, Treasury) = Change(first(u), Treasury)
        <5>1. balance[Free(u)] >= stake /\ stake \in Nat
          BY <1>4, <2>7 DEF stake
        <5>2. LedgerTells
          BY DEF EconomyInv
        <5> QED
          BY <2>2, <2>7, <2>8, <5>1, <5>2, OneTransfer
      <4> QED
        BY <2>9, <4>1, <4>2
    <3>2. CASE credited # 0
      <4>1. transfers(u, credited) = <<first(u)>> \o <<second(u, credited)>>
        BY <3>2
      <4> HIDE DEF transfers
      <4>2. /\ transfers(u, credited) = <<first(u), second(u, credited)>>
            /\ Len(<<first(u), second(u, credited)>>) = 2
        BY <4>1, OneAfterOther
      <4>3. /\ Covered(tx[t].held, <<first(u), second(u, credited)>>)
            /\ Delta(<<first(u), second(u, credited)>>, 2, Treasury)
                 = Change(first(u), Treasury) + Change(second(u, credited), Treasury)
        BY <2>9, <2>10, TwoTransfers
      <4> QED
        BY <2>9, <4>2, <4>3
    <3> QED
      BY <3>1, <3>2
  <2> HIDE DEF transfers, settled
  <2>12. Draft(c, tx[t].keys, tx[t].held, transfers(u, credited),
               Write(<<"round", u>>, settled(u)), {<<"round", u>>})
    BY <2>1, <2>5, <2>6, <2>11, OneRow
  <2> QED
    BY <1>2, <1>4, <2>12, Approved
<1> QED
  BY <1>1, <1>3, <1>4

----------------------------------------------------------------------------
(* The town. *)

LEMMA TownTyped == EconomyInv => Town \in TownRow /\ Funded(Town) /\ Town.balance = balance[Treasury]
<1>1. LedgerTells => Kinds(<<"town">>)
  BY CitizenNames DEF LedgerTells
<1> QED
  BY <1>1 DEF EconomyInv, TreasuryTells, Kinds, Town

LEMMA TownRowDraft ==
  ASSUME NEW c, NEW keys, NEW held, NEW transfers, NEW town \in TownRow, NEW facts,
         Covered(held, transfers), <<"town">> \in keys, Funded(town),
         Town.project = "completed" => town.project = "completed",
         \A f \in facts : Payable(c, keys, held, facts, Write(<<"town">>, town), f),
         Delta(transfers, Len(transfers), Treasury) = town.balance - Town.balance
  PROVE  Draft(c, keys, held, transfers, Write(<<"town">>, town), facts)
<1>1. DOMAIN Write(<<"town">>, town) = {<<"town">>} /\ Write(<<"town">>, town)[<<"town">>] = town
  BY DEF Write
<1>2. Writable(c, keys, held, facts, Write(<<"town">>, town), <<"town">>)
  BY <1>1, CitizenNames DEF Writable
<1> QED
  BY <1>1, <1>2 DEF Draft, BothBooks

LEMMA TownTells ==
  ASSUME EconomyInv, NEW t \in Tellers, agenda' = agenda, EnsureTown(t) \/ CreateProject(t)
  PROVE  EconomyInv'
<1> DEFINE c == tx[t].command
<1> DEFINE opened == [Town EXCEPT !.status = "open"]
<1> DEFINE funding == [Town EXCEPT !.project = "funding"]
<1>1. /\ \E u \in Citizens : Deciding(t, "town", u) \/ Deciding(t, "project", u)
      /\ \/ Refuse(t)
         \/ Approve(t, <<>>, Write(<<"town">>, opened), {})
         \/ Town.project = "none" /\ Approve(t, <<>>, Write(<<"town">>, funding), {})
  BY DEF EnsureTown, CreateProject
<1>2. /\ tx[t].stage = "deciding" /\ <<"town">> \in tx[t].keys
  BY <1>1, DecidingTells DEF Deciding, Informed, KeysTell
<1>3. /\ opened \in TownRow /\ opened.project = Town.project /\ opened.balance = Town.balance
      /\ opened.funded = Town.funded /\ opened.reserved = Town.reserved
      /\ funding \in TownRow /\ funding.project = "funding" /\ funding.balance = Town.balance
      /\ funding.funded = Town.funded /\ funding.reserved = Town.reserved
  BY TownTyped DEF TownRow
<1> HIDE DEF opened, funding
<1>4. Funded(opened) /\ (Town.project = "none" => Funded(funding))
  BY <1>3, TownTyped, EconomyAssumption DEF Funded
<1>5. Covered(tx[t].held, <<>>) /\ Delta(<<>>, Len(<<>>), Treasury) = 0
  BY NoTransfer
<1>6. Town.balance - Town.balance = 0
  BY TownTyped DEF TownRow
<1>7. Draft(c, tx[t].keys, tx[t].held, <<>>, Write(<<"town">>, opened), {})
  BY <1>2, <1>3, <1>4, <1>5, <1>6, TownRowDraft
<1>8. Town.project = "none" => Draft(c, tx[t].keys, tx[t].held, <<>>, Write(<<"town">>, funding), {})
  BY <1>2, <1>3, <1>4, <1>5, <1>6, TownRowDraft
<1> QED
  BY <1>1, <1>2, <1>7, <1>8, RefuseTells, Approved

Projects == {"none", "funding", "ready", "completed"}

LEMMA CreditedTown ==
  ASSUME NEW town \in TownRow, NEW amount \in Nat, NEW targeted \in BOOLEAN
  PROVE  /\ Credited(town, amount, targeted) \in TownRow
         /\ Credited(town, amount, targeted).balance = town.balance + amount
         /\ targeted =>
              /\ Credited(town, amount, targeted).funded = town.funded + amount
              /\ Credited(town, amount, targeted).reserved = town.reserved + amount
              /\ Credited(town, amount, targeted).project =
                   IF town.funded + amount = ProjectCost THEN "ready" ELSE town.project
         /\ ~targeted =>
              /\ Credited(town, amount, targeted).funded = town.funded
              /\ Credited(town, amount, targeted).reserved = town.reserved
              /\ Credited(town, amount, targeted).project = town.project
<1> DEFINE more == IF targeted THEN amount ELSE 0
<1>1. PICK b \in Nat, r \in Nat, f \in Nat :
        b = town.balance + amount /\ r = town.reserved + more /\ f = town.funded + more
  BY DEF TownRow
<1>2. PICK p \in Projects :
        p = IF targeted /\ f = ProjectCost THEN "ready" ELSE town.project
  BY DEF TownRow, Projects
<1>3. Credited(town, amount, targeted) =
        [town EXCEPT !.balance = b, !.reserved = r, !.funded = f, !.project = p]
  BY <1>1, <1>2 DEF Credited
<1>4. /\ Credited(town, amount, targeted) \in TownRow
      /\ Credited(town, amount, targeted).balance = b
      /\ Credited(town, amount, targeted).reserved = r
      /\ Credited(town, amount, targeted).funded = f
      /\ Credited(town, amount, targeted).project = p
  <2> DEFINE new == [town EXCEPT !.balance = b, !.reserved = r, !.funded = f, !.project = p]
  <2>1. /\ new \in TownRow /\ new.balance = b /\ new.reserved = r /\ new.funded = f
        /\ new.project = p
    BY DEF TownRow, Projects
  <2>2. Credited(town, amount, targeted) = new
    BY <1>3
  <2> HIDE DEF new
  <2> QED
    BY <2>1, <2>2
<1>5. town.reserved \in Nat /\ town.funded \in Nat
  BY DEF TownRow
<1> QED
  BY <1>1, <1>2, <1>4, <1>5

LEMMA ContributeTells ==
  ASSUME EconomyInv, NEW t \in Tellers, agenda' = agenda, Contribute(t)
  PROVE  EconomyInv'
<1> DEFINE c == tx[t].command
<1> DEFINE town == Credited(Town, c.amount, c.day = 1)
<1> DEFINE fact == <<"contribute", c.key>>
<1>1. PICK u \in Citizens :
        /\ Deciding(t, "contribute", u)
        /\ \/ Refuse(t)
           \/ /\ Looked(t) /\ balance[Free(u)] >= c.amount
              /\ Approve(t, <<Transfer(Free(u), Treasury, c.amount)>>, Write(<<"town">>, town),
                         {fact})
  BY DEF Contribute
<1>2. /\ tx[t].stage = "deciding" /\ c.op = "contribute" /\ c.user = u
      /\ Informed(c, tx[t].keys, tx[t].held)
  BY <1>1, DecidingTells DEF Deciding
<1>3. CASE Refuse(t)
  BY <1>2, <1>3, RefuseTells
<1>4. CASE /\ Looked(t) /\ balance[Free(u)] >= c.amount
           /\ Approve(t, <<Transfer(Free(u), Treasury, c.amount)>>, Write(<<"town">>, town),
                      {fact})
  <2>1. Free(u) \in tx[t].held /\ Fundable(c) /\ <<"town">> \in tx[t].keys
    BY <1>2, <1>4 DEF Informed, LookTells, KeysTell, Looked
  <2>2. c.amount \in Nat /\ c.day \in Nat /\ ProjectCost \in Nat
    BY <1>2, EconomyAssumption DEF Informed
  <2>3. /\ town \in TownRow /\ town.balance = Town.balance + c.amount
        /\ c.day = 1 => /\ town.funded = Town.funded + c.amount
                        /\ town.reserved = Town.reserved + c.amount
                        /\ town.project = IF Town.funded + c.amount = ProjectCost THEN "ready"
                                          ELSE Town.project
        /\ c.day # 1 => /\ town.funded = Town.funded /\ town.reserved = Town.reserved
                        /\ town.project = Town.project
    <3>1. (c.day = 1) \in BOOLEAN /\ Town \in TownRow
      BY TownTyped
    <3> QED
      BY <2>2, <3>1, CreditedTown
  <2> HIDE DEF town
  <2>4. Funded(town) /\ (Town.project = "completed" => town.project = "completed")
    <3>1. CASE c.day = 1
      <4>1. Town.project = "funding" /\ Town.funded + c.amount <= ProjectCost
        BY <2>1, <3>1 DEF Fundable
      <4> QED
        BY <2>2, <2>3, <3>1, <4>1, TownTyped DEF Funded, TownRow
    <3>2. CASE c.day # 1
      BY <2>2, <2>3, <3>2, TownTyped DEF Funded, TownRow
    <3> QED
      BY <3>1, <3>2
  <2>5. Payable(c, tx[t].keys, tx[t].held, {fact}, Write(<<"town">>, town), fact)
    BY DEF Payable, FactKinds
  <2>6. Free(u) \in Accounts /\ Treasury \in Accounts /\ Free(u) # Treasury
    BY Codes DEF Treasury
  <2>7. Change(Transfer(Free(u), Treasury, c.amount), Treasury) = c.amount
    BY <2>2, <2>6 DEF Change, Transfer
  <2>8. /\ Covered(tx[t].held, <<Transfer(Free(u), Treasury, c.amount)>>)
        /\ Delta(<<Transfer(Free(u), Treasury, c.amount)>>, 1, Treasury) = c.amount
    BY <1>4, <2>1, <2>2, <2>6, <2>7, OneTransfer DEF EconomyInv
  <2>9. Len(<<Transfer(Free(u), Treasury, c.amount)>>) = 1
    OBVIOUS
  <2>10. c.amount = town.balance - Town.balance
    BY <2>2, <2>3, TownTyped DEF TownRow
  <2>11. Draft(c, tx[t].keys, tx[t].held, <<Transfer(Free(u), Treasury, c.amount)>>,
               Write(<<"town">>, town), {fact})
    <3> HIDE DEF fact
    <3> QED
      BY <2>1, <2>3, <2>4, <2>5, <2>8, <2>9, <2>10, TownRowDraft
  <2> QED
    BY <1>2, <1>4, <2>11, Approved
<1> QED
  BY <1>1, <1>3, <1>4

LEMMA CompleteTells ==
  ASSUME EconomyInv, NEW t \in Tellers, agenda' = agenda, CompleteProject(t)
  PROVE  EconomyInv'
<1> DEFINE c == tx[t].command
<1> DEFINE town == [Town EXCEPT !.balance = Town.balance - ProjectCost,
                                !.reserved = Town.reserved - ProjectCost,
                                !.project = "completed"]
<1> DEFINE transfer == Transfer(Treasury, Burn, ProjectCost)
<1>1. /\ \E u \in Citizens : Deciding(t, "complete", u)
      /\ \/ Refuse(t)
         \/ /\ Looked(t) /\ balance[Treasury] >= ProjectCost
            /\ Approve(t, <<transfer>>, Write(<<"town">>, town), {<<"project">>})
  BY DEF CompleteProject
<1>2. /\ tx[t].stage = "deciding" /\ c.op = "complete"
      /\ Informed(c, tx[t].keys, tx[t].held)
  BY <1>1, DecidingTells DEF Deciding
<1>3. CASE Refuse(t)
  BY <1>2, <1>3, RefuseTells
<1>4. CASE /\ Looked(t) /\ balance[Treasury] >= ProjectCost
           /\ Approve(t, <<transfer>>, Write(<<"town">>, town), {<<"project">>})
  <2>1. Treasury \in tx[t].held /\ Town.project = "ready" /\ <<"town">> \in tx[t].keys
    BY <1>2, <1>4 DEF Informed, LookTells, KeysTell, Looked
  <2>2. ProjectCost \in Nat /\ Town \in TownRow /\ Town.reserved = ProjectCost
        /\ Town.balance >= ProjectCost
    BY <1>4, <2>1, TownTyped, EconomyAssumption DEF Funded, TownRow
  <2>3. /\ town \in TownRow /\ town.balance = Town.balance - ProjectCost
        /\ town.reserved = 0 /\ town.project = "completed"
    <3>1. PICK b \in Nat, r \in Nat :
            b = Town.balance - ProjectCost /\ r = Town.reserved - ProjectCost /\ r = 0
      BY <2>2 DEF TownRow
    <3>2. "completed" \in Projects
      BY DEF Projects
    <3>3. town = [Town EXCEPT !.balance = b, !.reserved = r, !.project = "completed"]
      BY <3>1
    <3> DEFINE new == [Town EXCEPT !.balance = b, !.reserved = r, !.project = "completed"]
    <3>4. /\ new \in TownRow /\ new.balance = b /\ new.reserved = r
          /\ new.project = "completed"
      BY <2>2, <3>2 DEF TownRow, Projects
    <3>5. town = new
      BY <3>3
    <3> HIDE DEF town, new
    <3> QED
      BY <3>1, <3>4, <3>5
  <2> HIDE DEF town
  <2>4. Funded(town)
    BY <2>3 DEF Funded, TownRow
  <2>5. Payable(c, tx[t].keys, tx[t].held, {<<"project">>}, Write(<<"town">>, town),
                <<"project">>)
    BY <2>1, <2>3 DEF Payable, FactKinds, Write
  <2>6. Burn \in Accounts /\ Treasury \in Accounts /\ Burn # Treasury
    BY Codes DEF Treasury, Burn
  <2>7. Change(transfer, Treasury) = -ProjectCost
    BY <2>2, <2>6 DEF Change, Transfer
  <2>8. /\ Covered(tx[t].held, <<transfer>>)
        /\ Delta(<<transfer>>, 1, Treasury) = -ProjectCost
    BY <1>4, <2>1, <2>2, <2>6, <2>7, OneTransfer DEF EconomyInv
  <2>9. Len(<<transfer>>) = 1
    OBVIOUS
  <2>10. -ProjectCost = town.balance - Town.balance
    BY <2>2, <2>3 DEF TownRow
  <2>11. Draft(c, tx[t].keys, tx[t].held, <<transfer>>, Write(<<"town">>, town),
               {<<"project">>})
    <3> HIDE DEF transfer
    <3> QED
      BY <2>1, <2>3, <2>4, <2>5, <2>8, <2>9, <2>10, TownRowDraft
  <2> QED
    BY <1>2, <1>4, <2>11, Approved
<1> QED
  BY <1>1, <1>3, <1>4
----------------------------------------------------------------------------
(* A commit. *)

LEMMA Totals ==
  ASSUME NEW transfers \in Seq(TransferRow), Len(transfers) <= 2, NEW a
  PROVE  /\ Delta(transfers, Len(transfers), a) \in Int
         /\ (\A i \in DOMAIN transfers : a # transfers[i].from /\ a # transfers[i].to)
              => Delta(transfers, Len(transfers), a) = 0
<1>1. /\ Delta(transfers, 0, a) = 0
      /\ Len(transfers) >= 1 => Delta(transfers, 1, a) = Change(transfers[1], a)
      /\ Len(transfers) = 2 =>
           Delta(transfers, 2, a) = Change(transfers[1], a) + Change(transfers[2], a)
  BY Sums, Zenon
<1>2. \A i \in DOMAIN transfers :
        /\ Change(transfers[i], a) \in Int
        /\ a # transfers[i].from /\ a # transfers[i].to => Change(transfers[i], a) = 0
  <2>1. \A transfer \in TransferRow :
          /\ Change(transfer, a) \in Int
          /\ a # transfer.from /\ a # transfer.to => Change(transfer, a) = 0
    BY DEF Change, TransferRow
  <2>2. \A i \in DOMAIN transfers : transfers[i] \in TransferRow
    OBVIOUS
  <2> HIDE DEF TransferRow
  <2> QED
    BY <2>1, <2>2
<1>3. Len(transfers) = 0 \/ Len(transfers) = 1 \/ Len(transfers) = 2
  <2>1. PICK n \in Nat : n = Len(transfers)
    BY LenProperties
  <2>2. n <= 2
    BY <2>1
  <2>3. n = 0 \/ n = 1 \/ n = 2
    BY <2>2
  <2> QED
    BY <2>1, <2>3
<1>4. CASE Len(transfers) = 0
  BY <1>1, <1>4
<1>5. CASE Len(transfers) = 1
  <2>1. 1 \in DOMAIN transfers
    BY <1>5
  <2> QED
    BY <1>1, <1>2, <1>5, <2>1
<1>6. CASE Len(transfers) = 2
  <2>1. 1 \in DOMAIN transfers /\ 2 \in DOMAIN transfers
    BY <1>6
  <2>2. Delta(transfers, Len(transfers), a) = Change(transfers[1], a) + Change(transfers[2], a)
    BY <1>1, <1>6
  <2> QED
    BY <1>2, <2>1, <2>2
<1> QED
  BY <1>3, <1>4, <1>5, <1>6

LEMMA SomeSums ==
  ASSUME NEW transfers \in Seq(TransferRow), Len(transfers) <= 2, NEW a,
         NEW n \in DOMAIN transfers
  PROVE  Delta(transfers, n, a) \in Int
<1>1. PICK m \in Nat : m = Len(transfers) /\ m <= 2 /\ n \in 1 .. m
  BY LenProperties
<1>2. (Len(transfers) >= 1 /\ n = 1) \/ (Len(transfers) = 2 /\ n = 2)
  <2>1. (m = 1 /\ n = 1) \/ (m = 2 /\ n = 1) \/ (m = 2 /\ n = 2)
    BY <1>1
  <2> QED
    BY <1>1, <2>1
<1>3. /\ Len(transfers) >= 1 => Delta(transfers, 1, a) = Change(transfers[1], a)
      /\ Len(transfers) = 2 =>
           Delta(transfers, 2, a) = Change(transfers[1], a) + Change(transfers[2], a)
  BY Sums, Zenon
<1>4. \A transfer \in TransferRow : Change(transfer, a) \in Int
  BY DEF Change, TransferRow
<1>5. \A i \in DOMAIN transfers : transfers[i] \in TransferRow
  OBVIOUS
<1>6. /\ Len(transfers) >= 1 => transfers[1] \in TransferRow
      /\ Len(transfers) = 2 => transfers[2] \in TransferRow
  <2>1. DOMAIN transfers = 1 .. m
    BY <1>1, LenProperties
  <2>2. m >= 1 => 1 \in DOMAIN transfers
    BY <1>1, <2>1
  <2>3. m = 2 => 2 \in DOMAIN transfers
    BY <1>1, <2>1
  <2> QED
    BY <1>1, <1>5, <2>2, <2>3
<1> QED
  BY <1>2, <1>3, <1>4, <1>6

LEMMA PostedHolds ==
  ASSUME EconomyInv, NEW s \in Tellers, Posted(s)
  PROVE  /\ tx[s].command \in agenda /\ KeysTell(tx[s].command, tx[s].keys)
         /\ Draft(tx[s].command, tx[s].keys, tx[s].held, tx[s].transfers, tx[s].writes,
                  tx[s].facts)
         /\ \A i \in DOMAIN tx[s].transfers :
              tx[s].transfers[i].from \in tx[s].held /\ tx[s].transfers[i].to \in tx[s].held
<1>1. TellerTells(tx[s])
  BY DEF EconomyInv
<1>2. /\ tx[s].command \in agenda /\ KeysTell(tx[s].command, tx[s].keys)
      /\ Draft(tx[s].command, tx[s].keys, tx[s].held, tx[s].transfers, tx[s].writes,
               tx[s].facts)
      /\ tx[s].plan = Legs(tx[s].transfers)
  BY <1>1 DEF TellerTells, Posted
<1>3. tx[s].transfers \in Seq(TransferRow)
  BY <1>2 DEF Draft, Covered
<1>4. tx[s].plan \in Seq(SUBSET Accounts) /\ DOMAIN tx[s].plan = DOMAIN tx[s].transfers
  <2>1. DOMAIN tx[s].transfers = 1 .. Len(tx[s].transfers)
    BY <1>3
  <2>2. \A i \in DOMAIN tx[s].transfers :
          {tx[s].transfers[i].from, tx[s].transfers[i].to} \in SUBSET Accounts
    <3>1. \A i \in DOMAIN tx[s].transfers : tx[s].transfers[i] \in TransferRow
      BY <1>3
    <3>2. \A transfer \in TransferRow : {transfer.from, transfer.to} \in SUBSET Accounts
      BY DEF TransferRow
    <3> QED
      BY <3>1, <3>2
  <2>3. Legs(tx[s].transfers) \in [1 .. Len(tx[s].transfers) -> SUBSET Accounts]
    BY <2>1, <2>2 DEF Legs
  <2>4. Len(tx[s].transfers) \in Nat
    BY <1>3
  <2> QED
    BY <1>2, <2>1, <2>3, <2>4
<1>5. \A i \in DOMAIN tx[s].plan : tx[s].plan[i] \subseteq tx[s].held
  BY <1>4, PlanHeld DEF Posted
<1>6. \A i \in DOMAIN tx[s].transfers :
        tx[s].plan[i] = {tx[s].transfers[i].from, tx[s].transfers[i].to}
  BY <1>2 DEF Legs
<1> QED
  BY <1>2, <1>4, <1>5, <1>6

(* What a commit writes. *)
Written(x) ==
  /\ DOMAIN rows' = Names
  /\ \A r \in Names : rows'[r] = IF r \in DOMAIN x.writes THEN x.writes[r] ELSE rows[r]
  /\ balance' \in [Accounts -> Int]
  /\ \A a \in Accounts :
       balance'[a] = balance[a] + Delta(x.transfers, Len(x.transfers), a)
  /\ receipts' = receipts \cup {x.command.key} /\ x.command.key \notin receipts
  /\ DOMAIN paid' = DOMAIN paid \cup x.facts
  /\ \A f \in DOMAIN paid \cup x.facts :
       paid'[f] = (IF f \in DOMAIN paid THEN paid[f] ELSE 0) + (IF f \in x.facts THEN 1 ELSE 0)
  /\ agenda' = agenda
  /\ x.command \in agenda /\ KeysTell(x.command, x.keys)
  /\ Draft(x.command, x.keys, x.held, x.transfers, x.writes, x.facts)
  /\ \A i \in DOMAIN x.transfers : x.transfers[i].from \in x.held /\ x.transfers[i].to \in x.held

LEMMA CommitWrites ==
  ASSUME EconomyInv, NEW s \in Tellers, Commit(s), agenda' = agenda
  PROVE  Written(tx[s])
<1>1. /\ tx[s].command \in agenda /\ KeysTell(tx[s].command, tx[s].keys)
      /\ Draft(tx[s].command, tx[s].keys, tx[s].held, tx[s].transfers, tx[s].writes,
               tx[s].facts)
      /\ \A i \in DOMAIN tx[s].transfers :
           tx[s].transfers[i].from \in tx[s].held /\ tx[s].transfers[i].to \in tx[s].held
  BY PostedHolds DEF Commit
<1>2. \A a \in Accounts : Delta(tx[s].transfers, Len(tx[s].transfers), a) \in Int
  BY <1>1, Totals DEF Draft, Covered
<1>3. \A a \in Accounts : balance[a] \in Int
  BY DEF EconomyInv, LedgerTells
<1>4. DOMAIN rows = Names
  BY DEF EconomyInv, LedgerTells
<1>5. balance' \in [Accounts -> Int]
  BY <1>2, <1>3 DEF Commit
<1> QED
  BY <1>1, <1>4, <1>5 DEF Written, Commit

LEMMA OthersSteady ==
  ASSUME EconomyInv, NEW x, Written(x), NEW c \in agenda, NEW keys, NEW held,
         KeysTell(c, keys), held \subseteq Accounts,
         x.keys \cap keys = {}, x.held \cap held = {}
  PROVE  Steady(c, keys, held)
<1> DEFINE w == x.writes
<1>1. \A r \in Names : rows'[r] = IF r \in DOMAIN w THEN w[r] ELSE rows[r]
  BY DEF Written
<1>2. \A r \in DOMAIN w : r \in Names /\ Writable(x.command, x.keys, x.held, x.facts, w, r)
  BY DEF Written, Draft, Writable
<1> HIDE DEF w
<1>3. ASSUME NEW u \in Citizens, NEW k \in {"user", "invitation", "task"}
      PROVE  /\ rows[<<k, u>>] = TRUE => rows'[<<k, u>>] = TRUE
             /\ <<k, u>> \in keys => rows'[<<k, u>>] = rows[<<k, u>>]
  <2> DEFINE r == <<k, u>>
  <2>1. r \in Names /\ r[1] = k
    BY CitizenNames
  <2>2. rows[r] \in BOOLEAN
    BY <2>1 DEF EconomyInv, LedgerTells, Kinds
  <2>3. r \in DOMAIN w => w[r] = TRUE /\ (rows[r] = TRUE \/ r \in x.keys)
    <3>1. r \in DOMAIN w => Writable(x.command, x.keys, x.held, x.facts, w, r)
      BY <1>2
    <3> HIDE DEF r
    <3> QED
      BY <2>1, <2>2, <3>1 DEF Writable
  <2>4. rows'[r] = IF r \in DOMAIN w THEN w[r] ELSE rows[r]
    BY <1>1, <2>1
  <2>5. r \in keys => r \notin x.keys
    OBVIOUS
  <2> HIDE DEF r
  <2>6. /\ rows[r] = TRUE => rows'[r] = TRUE
        /\ r \in keys => rows'[r] = rows[r]
    BY <2>2, <2>3, <2>4, <2>5
  <2> QED
    BY <2>6 DEF r
<1>4. ASSUME NEW u \in Citizens, NEW k \in {"lottery", "round"}, <<k, u>> \in keys
      PROVE  rows'[<<k, u>>] = rows[<<k, u>>]
  <2>1. <<k, u>> \in Names /\ <<k, u>> \notin x.keys
    BY <1>4, CitizenNames
  <2>2. <<k, u>> \notin DOMAIN w
    BY <1>2, <2>1 DEF Writable
  <2> QED
    BY <1>1, <2>1, <2>2
<1>5. ASSUME NEW u \in Citizens, NEW k \in {"omikuji", "gifts"}, Free(u) \in held
      PROVE  rows'[<<k, u>>] = rows[<<k, u>>]
  <2>1. <<k, u>> \in Names /\ Free(u) \notin x.held
    BY <1>5, CitizenNames
  <2>2. <<k, u>> \notin DOMAIN w
    BY <1>2, <2>1 DEF Writable
  <2> QED
    BY <1>1, <2>1, <2>2
<1>6. ASSUME NEW u \in Citizens,
             \/ <<"request", u>> \in keys /\ rows[<<"request", u>>].status # "none"
             \/ c.op = "request" /\ c.user = u /\ rows[<<"request", u>>].status = "none"
      PROVE  rows'[<<"request", u>>] = rows[<<"request", u>>]
  <2>1. <<"request", u>> \in Names
    BY CitizenNames
  <2>2. <<"request", u>> \notin DOMAIN w
    <3> SUFFICES ASSUME <<"request", u>> \in DOMAIN w PROVE FALSE
      OBVIOUS
    <3>1. \/ x.command.op = "request" /\ x.command.user = u
          \/ <<"request", u>> \in x.keys /\ rows[<<"request", u>>].status = "pending"
      BY <1>2 DEF Writable
    <3>2. CASE x.command.op = "request" /\ x.command.user = u
      <4>1. rows[<<"request", u>>].status = "none" /\ <<"key", x.command.key>> \in x.keys
        BY <3>2 DEF Written, KeysTell
      <4>2. c.op = "request" /\ c.user = u /\ <<"key", c.key>> \in keys
        BY <1>6, <4>1 DEF KeysTell
      <4>3. c = x.command
        BY <3>2, <4>2, AgendaTyped DEF Written, EconomyInv
      <4> QED
        BY <4>1, <4>2, <4>3
    <3>3. CASE <<"request", u>> \in x.keys /\ rows[<<"request", u>>].status = "pending"
      BY <1>6, <3>3
    <3> QED
      BY <3>1, <3>2, <3>3
  <2> QED
    BY <1>1, <2>1, <2>2
<1>7. <<"town">> \in keys => Town' = Town
  <2> SUFFICES ASSUME <<"town">> \in keys PROVE rows'[<<"town">>] = rows[<<"town">>]
    BY DEF Town
  <2>1. <<"town">> \notin DOMAIN w
    BY <1>2 DEF Writable
  <2> QED
    BY <1>1, <2>1, CitizenNames
<1>8. ASSUME NEW a \in held PROVE balance'[a] = balance[a]
  <2>1. \A i \in DOMAIN x.transfers : a # x.transfers[i].from /\ a # x.transfers[i].to
    BY DEF Written
  <2>2. Delta(x.transfers, Len(x.transfers), a) = 0
    BY <2>1, Totals DEF Written, Draft, Covered
  <2>3. balance[a] \in Int
    BY DEF EconomyInv, LedgerTells
  <2> QED
    BY <2>2, <2>3 DEF Written
<1> QED
  BY <1>3, <1>4, <1>5, <1>6, <1>7, <1>8 DEF Steady, Written
LEMMA CommitLedger ==
  ASSUME EconomyInv, NEW x, Written(x)
  PROVE  LedgerTells'
<1> DEFINE w == x.writes
<1>1. \A r \in Names : rows'[r] = IF r \in DOMAIN w THEN w[r] ELSE rows[r]
  BY DEF Written
<1>2. \A r \in DOMAIN w : Writable(x.command, x.keys, x.held, x.facts, w, r)
  BY DEF Written, Draft
<1> HIDE DEF w
<1>3. ASSUME NEW r \in Names PROVE Kinds(r)'
  <2>1. Kinds(r)
    BY DEF EconomyInv, LedgerTells
  <2>2. CASE r \notin DOMAIN w
    BY <1>1, <2>1, <2>2 DEF Kinds
  <2>3. CASE r \in DOMAIN w
    <3>1. rows'[r] = w[r] /\ Writable(x.command, x.keys, x.held, x.facts, w, r)
      BY <1>1, <1>2, <2>3
    <3>2. r[1] = "gifts" => w[r] \in 0 .. GiftLimit
      BY <2>1, <3>1, EconomyAssumption DEF Writable, Kinds
    <3> QED
      BY <3>1, <3>2 DEF Writable, Kinds
  <2> QED
    BY <2>2, <2>3
<1>4. ASSUME NEW a \in Accounts \ {Issuance} PROVE balance'[a] >= 0
  <2> DEFINE n == Len(x.transfers)
  <2> DEFINE total == Delta(x.transfers, n, a)
  <2>1. /\ x.transfers \in Seq(TransferRow) /\ n <= 2
        /\ \A m \in DOMAIN x.transfers :
             \/ Delta(x.transfers, m, a) >= 0
             \/ balance[a] + Delta(x.transfers, m, a) >= 0
    BY DEF Written, Draft, Covered
  <2>2. total \in Int /\ balance[a] \in Nat /\ balance'[a] = balance[a] + total
    <3>1. balance[a] \in Int /\ balance[a] >= 0
      BY DEF EconomyInv, LedgerTells
    <3> QED
      BY <2>1, <3>1, Totals DEF Written
  <2>3. CASE n = 0
    <3>1. total = 0
      BY <2>1, <2>3, Sums, Zenon
    <3> QED
      BY <2>2, <3>1
  <2>4. CASE n # 0
    <3>1. n \in DOMAIN x.transfers
      BY <2>1, <2>4, LenProperties
    <3>2. total >= 0 \/ balance[a] + total >= 0
      BY <2>1, <3>1
    <3> HIDE DEF total
    <3> QED
      BY <2>2, <3>2
  <2> QED
    BY <2>3, <2>4
<1>5. ASSUME NEW u \in Citizens, rows'[<<"request", u>>].status # "none"
      PROVE  \E c \in agenda' : c.op = "request" /\ c.user = u /\ c.key \in receipts'
  <2> DEFINE r == <<"request", u>>
  <2>1. r \in Names /\ r[1] = "request" /\ r[2] = u
    BY CitizenNames
  <2>2. \/ rows[r].status # "none"
        \/ x.command.op = "request" /\ x.command.user = u
    <3>1. CASE r \notin DOMAIN w
      BY <1>1, <1>5, <2>1, <3>1
    <3>2. CASE r \in DOMAIN w
      <4>1. Writable(x.command, x.keys, x.held, x.facts, w, r)
        BY <1>2, <3>2
      <4> HIDE DEF r
      <4> QED
        BY <2>1, <4>1 DEF Writable
    <3> QED
      BY <3>1, <3>2
  <2>3. CASE rows[r].status # "none"
    <3>1. \E c \in agenda : c.op = "request" /\ c.user = u /\ c.key \in receipts
      BY <2>3 DEF EconomyInv, LedgerTells
    <3> QED
      BY <3>1 DEF Written
  <2>4. CASE x.command.op = "request" /\ x.command.user = u
    BY <2>4 DEF Written
  <2> QED
    BY <2>2, <2>3, <2>4
<1>6. receipts' \subseteq {c.key : c \in agenda'} /\ agenda' \in Agendas
  BY DEF Written, EconomyInv, LedgerTells
<1> QED
  BY <1>3, <1>4, <1>5, <1>6 DEF LedgerTells, Written

LEMMA CommitTreasury ==
  ASSUME EconomyInv, NEW x, Written(x)
  PROVE  TreasuryTells'
<1>1. Town' = IF <<"town">> \in DOMAIN x.writes THEN x.writes[<<"town">>] ELSE Town
  BY CitizenNames DEF Written, Town
<1>2. balance'[Treasury] = balance[Treasury] + Delta(x.transfers, Len(x.transfers), Treasury)
  BY Codes DEF Written
<1>3. Delta(x.transfers, Len(x.transfers), Treasury) =
        IF <<"town">> \in DOMAIN x.writes THEN x.writes[<<"town">>].balance - Town.balance ELSE 0
  BY DEF Written, Draft, BothBooks
<1>4. <<"town">> \in DOMAIN x.writes =>
        x.writes[<<"town">>] \in TownRow /\ Funded(x.writes[<<"town">>])
  BY DEF Written, Draft, Writable
<1>5. Town \in TownRow /\ Funded(Town) /\ Town.balance = balance[Treasury]
  BY TownTyped
<1>6. CASE <<"town">> \in DOMAIN x.writes
  <2>1. PICK town \in TownRow : town = x.writes[<<"town">>] /\ Funded(town)
    BY <1>4, <1>6
  <2>2. PICK old \in TownRow : old = Town
    BY <1>5
  <2>3. Town' = town /\ balance'[Treasury] = old.balance + (town.balance - old.balance)
    BY <1>1, <1>2, <1>3, <1>5, <1>6, <2>1, <2>2
  <2>4. balance'[Treasury] = town.balance
    BY <2>3 DEF TownRow
  <2> QED
    BY <2>1, <2>3, <2>4 DEF TreasuryTells, Funded
<1>7. CASE <<"town">> \notin DOMAIN x.writes
  <2>1. balance'[Treasury] = balance[Treasury] /\ Town' = Town
    BY <1>1, <1>2, <1>3, <1>5, <1>7 DEF TownRow
  <2> QED
    BY <1>5, <2>1 DEF TreasuryTells, Funded
<1> QED
  BY <1>6, <1>7

(* What is paid for was not paid for before, and leaves its mark. *)
LEMMA NewFacts ==
  ASSUME EconomyInv, NEW x, Written(x), NEW f \in x.facts
  PROVE  /\ f[1] \notin {"gift", "check_in"} => f \notin DOMAIN paid
         /\ Marked(f)'
         /\ f[1] = "gift" => rows'[<<"gifts", f[2]>>] = rows[<<"gifts", f[2]>>] + 1
<1> DEFINE w == x.writes
<1>1. \A r \in Names : rows'[r] = IF r \in DOMAIN w THEN w[r] ELSE rows[r]
  BY DEF Written
<1>2. \A r \in DOMAIN w : r \in Names /\ Writable(x.command, x.keys, x.held, x.facts, w, r)
  BY DEF Written, Draft, Writable
<1>3. Payable(x.command, x.keys, x.held, x.facts, w, f)
  BY DEF Written, Draft
<1> HIDE DEF w
<1>4. \A k \in {"user", "invitation", "task", "omikuji"} :
        f[2] \in Citizens /\ <<k, f[2]>> \in DOMAIN w =>
          rows'[<<k, f[2]>>] = TRUE
  BY <1>1, <1>2 DEF Writable
<1>5. \A k \in {"gifts", "lottery", "request", "round"} :
        f[2] \in Citizens /\ <<k, f[2]>> \in DOMAIN w => rows'[<<k, f[2]>>] = w[<<k, f[2]>>]
  BY <1>1, <1>2
<1>6. <<"town">> \in DOMAIN w => Town' = w[<<"town">>]
  BY <1>1, CitizenNames DEF Town
<1>7. f \in DOMAIN paid => Marked(f)
  BY DEF EconomyInv, PaidTells
<1>8. f[1] \in FactKinds
  BY <1>3 DEF Payable
<1>9. receipts' = receipts \cup {x.command.key} /\ x.command.key \notin receipts
  BY DEF Written
<1>10. Marked(f)'
  <2>1. /\ f[1] = "bonus" => rows'[<<"user", f[2]>>]
        /\ f[1] = "referral" => rows'[<<"invitation", f[2]>>]
        /\ f[1] = "task" => rows'[<<"task", f[2]>>]
        /\ f[1] = "omikuji" => rows'[<<"omikuji", f[2]>>]
    BY <1>3, <1>4 DEF Payable
  <2>2. f[1] = "lottery" => f[3] \in Nat /\ rows'[<<"lottery", f[2]>>] >= f[3] + Cooldown
    <3>1. f[1] = "lottery" =>
            f[3] \in Nat /\ rows'[<<"lottery", f[2]>>] = f[3] + Cooldown
      BY <1>3, <1>5 DEF Payable
    <3>2. \A n \in Nat : n + Cooldown >= n + Cooldown
      BY EconomyAssumption
    <3> QED
      BY <3>1, <3>2
  <2>3. /\ f[1] = "request" => rows'[<<"request", f[2]>>].status = "approved"
        /\ f[1] = "round" => rows'[<<"round", f[2]>>].status = "settled"
        /\ f[1] = "gift" => f = <<"gift", f[2]>>
    BY <1>3, <1>5 DEF Payable
  <2>4. /\ f[1] = "project" => Town'.project = "completed"
        /\ f[1] \in {"issue", "fund", "contribute"} => f[2] \in receipts'
        /\ f[1] \notin {"issue", "fund", "contribute", "project"} => f[2] \in Citizens
    BY <1>3, <1>6, <1>9 DEF Payable
  <2> QED
    BY <1>8, <2>1, <2>2, <2>3, <2>4 DEF Marked
<1>11. f[1] \notin {"gift", "check_in"} => f \notin DOMAIN paid
  <2> SUFFICES ASSUME f[1] \notin {"gift", "check_in"}, Marked(f) PROVE FALSE
    BY <1>7
  <2>1. CASE f[1] \in {"bonus", "referral", "task", "omikuji", "request", "round"}
    BY <1>3, <2>1 DEF Marked, Payable
  <2>2. CASE f[1] = "lottery"
    <3>1. /\ f[2] \in Citizens /\ f[3] \in Nat /\ f[3] >= rows[<<"lottery", f[2]>>]
          /\ rows[<<"lottery", f[2]>>] >= f[3] + Cooldown
      BY <1>3, <2>2 DEF Marked, Payable
    <3>2. rows[<<"lottery", f[2]>>] \in Nat
      BY <3>1, CitizenNames DEF EconomyInv, LedgerTells, Kinds
    <3> QED
      BY <3>1, <3>2, EconomyAssumption
  <2>3. CASE f[1] \in {"issue", "fund", "contribute"}
    BY <1>3, <1>9, <2>3 DEF Marked, Payable
  <2>4. CASE f[1] = "project"
    BY <1>3, <2>4 DEF Marked, Payable
  <2> QED
    BY <1>8, <2>1, <2>2, <2>3, <2>4 DEF FactKinds
<1>12. f[1] = "gift" => rows'[<<"gifts", f[2]>>] = rows[<<"gifts", f[2]>>] + 1
  <2> SUFFICES ASSUME f[1] = "gift"
               PROVE  rows'[<<"gifts", f[2]>>] = rows[<<"gifts", f[2]>>] + 1
    OBVIOUS
  <2>1. <<"gifts", f[2]>> \in DOMAIN w /\ f[2] \in Citizens
    BY <1>3 DEF Payable
  <2>2. w[<<"gifts", f[2]>>] = rows[<<"gifts", f[2]>>] + 1
    BY <1>2, <2>1 DEF Writable
  <2> QED
    BY <1>5, <2>1, <2>2
<1> QED
  BY <1>10, <1>11, <1>12

(* A mark stays. *)
LEMMA OldFacts ==
  ASSUME EconomyInv, NEW x, Written(x), NEW f \in DOMAIN paid, f \notin x.facts
  PROVE  /\ Marked(f)'
         /\ f[1] = "gift" => rows'[<<"gifts", f[2]>>] = rows[<<"gifts", f[2]>>]
<1> DEFINE w == x.writes
<1>1. \A r \in Names : rows'[r] = IF r \in DOMAIN w THEN w[r] ELSE rows[r]
  BY DEF Written
<1>2. \A r \in DOMAIN w : r \in Names /\ Writable(x.command, x.keys, x.held, x.facts, w, r)
  BY DEF Written, Draft, Writable
<1> HIDE DEF w
<1>3. Marked(f)
  BY DEF EconomyInv, PaidTells
<1>4. /\ f[1] \in FactKinds
      /\ f[1] \notin {"issue", "fund", "contribute", "project"} => f[2] \in Citizens
  BY <1>3 DEF Marked
<1>5. ASSUME f[2] \in Citizens, NEW k \in {"user", "invitation", "task", "omikuji"},
             rows[<<k, f[2]>>]
      PROVE  rows'[<<k, f[2]>>]
  <2>1. <<k, f[2]>> \in Names
    BY <1>5, CitizenNames
  <2>2. <<k, f[2]>> \in DOMAIN w => w[<<k, f[2]>>] = TRUE
    BY <1>2 DEF Writable
  <2> QED
    BY <1>1, <1>5, <2>1, <2>2
<1>6. f[1] = "lottery" => rows'[<<"lottery", f[2]>>] >= f[3] + Cooldown
  <2> SUFFICES ASSUME f[1] = "lottery" PROVE rows'[<<"lottery", f[2]>>] >= f[3] + Cooldown
    OBVIOUS
  <2>1. /\ <<"lottery", f[2]>> \in Names /\ rows[<<"lottery", f[2]>>] \in Nat
        /\ f[3] \in Nat /\ rows[<<"lottery", f[2]>>] >= f[3] + Cooldown
    BY <1>3, <1>4, CitizenNames DEF Marked, EconomyInv, LedgerTells, Kinds
  <2>2. <<"lottery", f[2]>> \in DOMAIN w =>
          /\ w[<<"lottery", f[2]>>] \in Nat
          /\ w[<<"lottery", f[2]>>] >= rows[<<"lottery", f[2]>>]
    BY <1>2 DEF Writable
  <2> QED
    BY <1>1, <2>1, <2>2, EconomyAssumption
<1>7. f[1] = "request" => rows'[<<"request", f[2]>>].status = "approved"
  <2> SUFFICES ASSUME f[1] = "request"
               PROVE  rows'[<<"request", f[2]>>].status = "approved"
    OBVIOUS
  <2>1. <<"request", f[2]>> \in Names /\ rows[<<"request", f[2]>>].status = "approved"
    BY <1>3, <1>4, CitizenNames DEF Marked
  <2>2. <<"request", f[2]>> \notin DOMAIN w
    <3> SUFFICES ASSUME <<"request", f[2]>> \in DOMAIN w PROVE FALSE
      OBVIOUS
    <3>1. \/ x.command.op = "request" /\ x.command.user = f[2]
          \/ rows[<<"request", f[2]>>].status = "pending"
      BY <1>2 DEF Writable
    <3>2. x.command.op = "request" => rows[<<"request", x.command.user>>].status = "none"
      BY DEF Written, KeysTell
    <3> QED
      BY <2>1, <3>1, <3>2
  <2> QED
    BY <1>1, <2>1, <2>2
<1>8. f[1] = "round" => rows'[<<"round", f[2]>>].status = "settled"
  <2> SUFFICES ASSUME f[1] = "round" PROVE rows'[<<"round", f[2]>>].status = "settled"
    OBVIOUS
  <2>1. <<"round", f[2]>> \in Names /\ rows[<<"round", f[2]>>].status = "settled"
    BY <1>3, <1>4, CitizenNames DEF Marked
  <2>2. <<"round", f[2]>> \notin DOMAIN w
    BY <1>2, <2>1 DEF Writable
  <2> QED
    BY <1>1, <2>1, <2>2
<1>9. f[1] = "project" => Town'.project = "completed"
  <2>1. <<"town">> \in DOMAIN w =>
          (Town.project = "completed" => w[<<"town">>].project = "completed")
    BY <1>2 DEF Writable
  <2>2. Town' = IF <<"town">> \in DOMAIN w THEN w[<<"town">>] ELSE Town
    BY <1>1, CitizenNames DEF Town
  <2> QED
    BY <1>3, <2>1, <2>2 DEF Marked
<1>10. f[1] = "gift" => rows'[<<"gifts", f[2]>>] = rows[<<"gifts", f[2]>>]
  <2> SUFFICES ASSUME f[1] = "gift"
               PROVE  rows'[<<"gifts", f[2]>>] = rows[<<"gifts", f[2]>>]
    OBVIOUS
  <2>1. <<"gifts", f[2]>> \in Names /\ f = <<"gift", f[2]>>
    BY <1>3, <1>4, CitizenNames DEF Marked
  <2>2. <<"gifts", f[2]>> \in DOMAIN w => <<"gift", f[2]>> \in x.facts
    BY <1>2 DEF Writable
  <2> QED
    BY <1>1, <2>1, <2>2
<1>11. receipts \subseteq receipts'
  BY DEF Written
<1>12. /\ f[1] = "bonus" => rows'[<<"user", f[2]>>]
       /\ f[1] = "referral" => rows'[<<"invitation", f[2]>>]
       /\ f[1] = "task" => rows'[<<"task", f[2]>>]
       /\ f[1] = "omikuji" => rows'[<<"omikuji", f[2]>>]
  BY <1>3, <1>4, <1>5 DEF Marked
<1>13. Marked(f)'
  BY <1>3, <1>4, <1>6, <1>7, <1>8, <1>9, <1>11, <1>12 DEF Marked
<1> QED
  BY <1>10, <1>13
LEMMA CommitPaid ==
  ASSUME EconomyInv, NEW x, Written(x)
  PROVE  PaidTells'
<1>1. \A f \in DOMAIN paid : Marked(f) /\ Once(f)
  BY DEF EconomyInv, PaidTells
<1>2. /\ DOMAIN paid' = DOMAIN paid \cup x.facts
      /\ \A f \in DOMAIN paid \cup x.facts :
           paid'[f] = (IF f \in DOMAIN paid THEN paid[f] ELSE 0)
                      + (IF f \in x.facts THEN 1 ELSE 0)
  BY DEF Written
<1>3. \A f \in x.facts : Payable(x.command, x.keys, x.held, x.facts, x.writes, f)
  BY DEF Written, Draft
<1>4. ASSUME NEW f \in DOMAIN paid' PROVE Marked(f)'
  <2>1. f \in x.facts \/ (f \in DOMAIN paid /\ f \notin x.facts)
    BY <1>2
  <2> QED
    BY <2>1, NewFacts, OldFacts
<1>5. ASSUME NEW f \in DOMAIN paid'
      PROVE  /\ paid'[f] \in Nat
             /\ f[1] \notin {"gift", "check_in"} => paid'[f] = 1
             /\ f[1] = "gift" => paid'[f] = rows'[<<"gifts", f[2]>>]
  <2>1. CASE f \in x.facts /\ f \notin DOMAIN paid
    <3>1. paid'[f] = 1
      BY <1>2, <2>1
    <3>2. f[1] = "gift" => rows[<<"gifts", f[2]>>] = 0
      <4>1. f[1] = "gift" => f = <<"gift", f[2]>> /\ f[2] \in Citizens
        BY <1>3, <2>1 DEF Payable
      <4>2. \A u \in Citizens : <<"gift", u>> \notin DOMAIN paid => rows[<<"gifts", u>>] = 0
        BY DEF EconomyInv, PaidTells
      <4> QED
        BY <2>1, <4>1, <4>2
    <3>3. f[1] = "gift" => rows'[<<"gifts", f[2]>>] = rows[<<"gifts", f[2]>>] + 1
      BY <2>1, NewFacts
    <3> QED
      BY <3>1, <3>2, <3>3
  <2>2. CASE f \in x.facts /\ f \in DOMAIN paid
    <3>1. f[1] \in {"gift", "check_in"} /\ paid[f] \in Nat
      BY <1>1, <2>2, NewFacts DEF Once
    <3>2. paid'[f] = paid[f] + 1
      BY <1>2, <2>2
    <3>3. f[1] = "gift" => rows'[<<"gifts", f[2]>>] = rows[<<"gifts", f[2]>>] + 1
      BY <2>2, NewFacts
    <3>4. f[1] = "gift" => paid[f] = rows[<<"gifts", f[2]>>]
      BY <1>1, <2>2 DEF Once
    <3> QED
      BY <3>1, <3>2, <3>3, <3>4
  <2>3. CASE f \notin x.facts
    <3>1. f \in DOMAIN paid /\ paid[f] \in Nat
      BY <1>1, <1>2, <2>3 DEF Once
    <3>2. paid'[f] = paid[f]
      BY <1>2, <2>3, <3>1
    <3>3. f[1] = "gift" => rows'[<<"gifts", f[2]>>] = rows[<<"gifts", f[2]>>]
      BY <2>3, <3>1, OldFacts
    <3> QED
      BY <1>1, <3>1, <3>2, <3>3 DEF Once
  <2> QED
    BY <2>1, <2>2, <2>3
<1>6. ASSUME NEW f \in DOMAIN paid', NEW g \in DOMAIN paid' \ {f},
             f[1] = "lottery", g[1] = "lottery", g[2] = f[2]
      PROVE  f[3] >= g[3] + Cooldown \/ g[3] >= f[3] + Cooldown
  <2>1. \A a \in x.facts, b \in DOMAIN paid :
          a[1] = "lottery" /\ b[1] = "lottery" /\ a[2] = b[2] => a[3] >= b[3] + Cooldown
    <3> SUFFICES ASSUME NEW a \in x.facts, NEW b \in DOMAIN paid,
                        a[1] = "lottery", b[1] = "lottery", a[2] = b[2]
                 PROVE  a[3] >= b[3] + Cooldown
      OBVIOUS
    <3>1. /\ a[2] \in Citizens /\ a[3] \in Nat /\ a[3] >= rows[<<"lottery", a[2]>>]
      BY <1>3 DEF Payable
    <3>2. b[3] \in Nat /\ rows[<<"lottery", a[2]>>] >= b[3] + Cooldown
      BY <1>1 DEF Marked
    <3>3. rows[<<"lottery", a[2]>>] \in Nat
      BY <3>1, CitizenNames DEF EconomyInv, LedgerTells, Kinds
    <3> QED
      BY <3>1, <3>2, <3>3, EconomyAssumption
  <2>2. f \in x.facts => x.facts = {f}
    BY <1>3, <1>6 DEF Payable
  <2>3. CASE f \in x.facts
    <3>1. g \in DOMAIN paid
      BY <1>2, <2>2, <2>3
    <3> QED
      BY <1>6, <2>1, <2>3, <3>1
  <2>4. CASE g \in x.facts /\ f \notin x.facts
    <3>1. f \in DOMAIN paid
      BY <1>2, <2>4
    <3> QED
      BY <1>6, <2>1, <2>4, <3>1
  <2>5. CASE f \notin x.facts /\ g \notin x.facts
    <3>1. f \in DOMAIN paid /\ g \in DOMAIN paid
      BY <1>2, <2>5
    <3> QED
      BY <1>1, <1>6, <3>1 DEF Once
  <2> QED
    BY <2>3, <2>4, <2>5
<1>7. ASSUME NEW u \in Citizens, <<"gift", u>> \notin DOMAIN paid'
      PROVE  rows'[<<"gifts", u>>] = 0
  <2>1. <<"gift", u>> \notin DOMAIN paid /\ <<"gift", u>> \notin x.facts
    BY <1>2, <1>7
  <2>2. rows[<<"gifts", u>>] = 0
    BY <2>1 DEF EconomyInv, PaidTells
  <2>3. <<"gifts", u>> \notin DOMAIN x.writes
    BY <2>1 DEF Written, Draft, Writable
  <2> QED
    BY <2>2, <2>3, CitizenNames DEF Written
<1>8. \A f \in DOMAIN paid' : Once(f)'
  BY <1>5, <1>6 DEF Once
<1> QED
  BY <1>4, <1>7, <1>8 DEF PaidTells

LEMMA CommitTells ==
  ASSUME EconomyInv, NEW s \in Tellers, Commit(s), agenda' = agenda
  PROVE  EconomyInv'
<1>1. PICK x : x = tx[s]
  OBVIOUS
<1>2. Written(x)
  BY <1>1, CommitWrites
<1>3. LedgerTells' /\ TreasuryTells' /\ PaidTells'
  BY <1>2, CommitLedger, CommitTreasury, CommitPaid
<1>4. tx' = [tx EXCEPT ![s] = NoTransaction]
  BY DEF Commit
<1>5. DOMAIN tx' = Tellers /\ tx'[s] = NoTransaction /\ \A t \in Tellers \ {s} : tx'[t] = tx[t]
  BY <1>4 DEF EconomyInv
<1>6. ASSUME NEW t \in Tellers, NEW y \in {tx'[t]} PROVE TellerTells(y)'
  <2>1. CASE t = s
    BY <1>5, <1>6, <2>1 DEF TellerTells, NoTransaction, Fields
  <2>2. CASE t # s
    <3>1. y = tx[t] /\ TellerTells(y)
      BY <1>5, <1>6, <2>2 DEF EconomyInv
    <3>2. CASE y.stage = "idle"
      BY <3>1, <3>2 DEF TellerTells
    <3>3. CASE y.stage # "idle"
      <4>1. y.command \in agenda /\ KeysTell(y.command, y.keys) /\ y.held \subseteq Accounts
        BY <3>1, <3>3 DEF TellerTells
      <4>2. x.keys \cap y.keys = {} /\ x.held \cap y.held = {}
        BY <1>1, <2>2, <3>1 DEF EconomyInv, Apart
      <4>3. Steady(y.command, y.keys, y.held)
        BY <1>2, <4>1, <4>2, OthersSteady
      <4> QED
        BY <3>1, <4>3, TellerKept DEF EconomyInv
    <3> QED
      BY <3>2, <3>3
  <2> QED
    BY <2>1, <2>2
<1>7. Apart'
  BY <1>5 DEF EconomyInv, Apart, NoTransaction
<1> QED
  BY <1>3, <1>5, <1>6, <1>7 DEF EconomyInv

LEMMA DecideTells ==
  ASSUME EconomyInv, NEW t \in Tellers, Decide(t), agenda' = agenda
  PROVE  EconomyInv'
BY RegisterTells, BindReferralTells, CheckInTells, LotteryTells, ClaimTaskTells, GiveTells,
   DrawOmikujiTells, RequestTells, ReviewTells, IssueTells, CommitChanceTells, BindTells,
   TownTells, ContributeTells, CompleteTells
DEF Decide

LEMMA EconomyStays == EconomyInv /\ [EconomyNext]_economyVars => EconomyInv'
<1> SUFFICES ASSUME EconomyInv, [EconomyNext]_economyVars PROVE EconomyInv'
  OBVIOUS
<1>1. CASE UNCHANGED economyVars
  <2>1. UNCHANGED <<balance, rows, receipts, paid, agenda>> /\ tx' = tx
    BY <1>1 DEF economyVars, bankVars
  <2>2. LedgerTells' /\ TreasuryTells' /\ PaidTells'
    BY <2>1, BooksStay DEF EconomyInv
  <2>3. ASSUME NEW t \in Tellers, NEW x \in {tx'[t]} PROVE TellerTells(x)'
    <3>1. TellerTells(x)
      BY <2>1, <2>3 DEF EconomyInv
    <3>2. Steady(x.command, x.keys, x.held)
      BY <2>1, NothingMoves DEF EconomyInv
    <3> QED
      BY <3>1, <3>2, TellerKept DEF EconomyInv
  <2>4. Apart' /\ DOMAIN tx' = Tellers
    BY <2>1 DEF EconomyInv, Apart
  <2> QED
    BY <2>2, <2>3, <2>4 DEF EconomyInv
<1>2. CASE EconomyNext
  <2>1. PICK t \in Tellers : Receive(t) \/ Lock(t) \/ Decide(t) \/ Commit(t) \/ Abort(t)
    BY <1>2 DEF EconomyNext
  <2>2. agenda' = agenda
    BY <1>2 DEF EconomyNext
  <2> QED
    BY <2>1, <2>2, ReceiveTells, LockTells, DecideTells, CommitTells, AbortTells
<1> QED
  BY <1>1, <1>2

LEMMA EconomyAlways == EconomySpec => []EconomyInv
BY EconomyInitInv, EconomyStays, PTL DEF EconomySpec

(* The rows, the balances and the transactions keep their types. *)
THEOREM EconomyTypesCorrect == EconomySpec => []EconomyTypeOK
<1>1. EconomyInv => EconomyTypeOK
  <2> SUFFICES ASSUME EconomyInv PROVE EconomyTypeOK
    OBVIOUS
  <2>1. /\ DOMAIN balance = Accounts /\ \A a \in Accounts : balance[a] \in Int
        /\ DOMAIN rows = DOMAIN InitialRows
        /\ receipts \subseteq {c.key : c \in agenda}
        /\ agenda \in Agendas
    BY DEF EconomyInv, LedgerTells, InitialRows
  <2>2. \A f \in DOMAIN paid : paid[f] \in Nat
    BY DEF EconomyInv, PaidTells, Once
  <2>3. ASSUME NEW t \in Tellers
        PROVE  /\ tx[t].stage \in {"idle", "deciding", "posting"}
               /\ tx[t].stage # "idle" => tx[t].command \in agenda
               /\ tx[t].held \subseteq Accounts
    <3>1. TellerTells(tx[t])
      BY DEF EconomyInv
    <3> QED
      BY <3>1 DEF TellerTells
  <2> QED
    BY <2>1, <2>2, <2>3 DEF EconomyTypeOK
<1> QED
  BY <1>1, EconomyAlways, PTL

(* economy, chance.py, town.py and banking.py: whatever is repeated or done  *)
(* at several connections at once, a fact is paid for once, gifts stay       *)
(* within their limit and lotteries keep their distance.                     *)
THEOREM FactsPaidOnce == EconomySpec => []PaidOnce
<1>1. EconomyInv => PaidOnce
  <2> SUFFICES ASSUME EconomyInv, NEW f \in DOMAIN paid
               PROVE  /\ f[1] \notin {"gift", "check_in"} => paid[f] = 1
                      /\ f[1] = "gift" => paid[f] <= GiftLimit
                      /\ f[1] = "lottery" =>
                           \A g \in DOMAIN paid \ {f} :
                             g[1] = "lottery" /\ g[2] = f[2] =>
                               f[3] >= g[3] + Cooldown \/ g[3] >= f[3] + Cooldown
    BY DEF PaidOnce
  <2>1. Marked(f) /\ Once(f)
    BY DEF EconomyInv, PaidTells
  <2>2. f[1] = "gift" => rows[<<"gifts", f[2]>>] \in 0 .. GiftLimit
    <3>1. f[1] = "gift" => f[2] \in Citizens
      BY <2>1 DEF Marked
    <3> QED
      BY <3>1, CitizenNames DEF EconomyInv, LedgerTells, Kinds
  <2>3. f[1] = "gift" => paid[f] <= GiftLimit
    BY <2>1, <2>2, EconomyAssumption DEF Once
  <2> QED
    BY <2>1, <2>3 DEF Once
<1> QED
  BY <1>1, EconomyAlways, PTL

(* town.py and bank.assert_nonnegative_account_balance: what was decided     *)
(* under the locks can be posted, and the town's row and the bank's ledger   *)
(* of the treasury agree.                                                    *)
THEOREM TreasuryAgrees == EconomySpec => []BooksAgree
<1>1. EconomyInv => BooksAgree
  <2> SUFFICES ASSUME EconomyInv PROVE BooksAgree
    OBVIOUS
  <2>1. ASSUME NEW t \in Tellers, Posted(t) PROVE ~Overdrawn(t)
    <3> SUFFICES ASSUME NEW n \in DOMAIN tx[t].transfers, NEW a \in Accounts \ {Issuance}
                 PROVE  ~(balance[a] + Delta(tx[t].transfers, n, a) < 0)
      BY DEF Overdrawn
    <3>1. \/ Delta(tx[t].transfers, n, a) >= 0
          \/ balance[a] + Delta(tx[t].transfers, n, a) >= 0
      BY <2>1, PostedHolds DEF Draft, Covered
    <3>2. Delta(tx[t].transfers, n, a) \in Int
      <4>1. tx[t].transfers \in Seq(TransferRow) /\ Len(tx[t].transfers) <= 2
        BY <2>1, PostedHolds DEF Draft, Covered
      <4> QED
        BY <4>1, SomeSums
    <3>3. balance[a] \in Int /\ balance[a] >= 0
      BY DEF EconomyInv, LedgerTells
    <3> QED
      BY <3>1, <3>2, <3>3
  <2>2. /\ balance[Treasury] = Town.balance
        /\ Town.reserved = IF Town.project = "completed" THEN 0 ELSE Town.funded
        /\ Town.reserved <= Town.balance
    BY DEF EconomyInv, TreasuryTells, Funded
  <2> QED
    BY <2>1, <2>2 DEF BooksAgree
<1> QED
  BY <1>1, EconomyAlways, PTL
=============================================================================
