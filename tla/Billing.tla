------------------------------ MODULE Billing ------------------------------
(***************************************************************************)
(* The subscription of one organization: BillingService.createCheckout,    *)
(* which keeps a Stripe customer for it, and reconcileSubscription, which  *)
(* writes what Stripe's webhooks say.                                      *)
(*                                                                         *)
(* Stripe is external: a paid checkout is a subscription of its customer,  *)
(* each change of one is an event with the subscription as it was then,    *)
(* and events are delivered in any order, again when an answer was lost.   *)
(* Webhooks have no organization in their route, so a handler has no       *)
(* transaction: it looks a row up and then writes it.                      *)
(***************************************************************************)
EXTENDS Naturals, FiniteSets

CONSTANTS Checkouts,  \* calls of createCheckout; also the customer and the
                      \* subscription that come of one
          Handlers,   \* webhook handlers
          Prices,     \* price id -> plan; FREE for a price that is not configured
          MaxEvents,  \* bound on the events of a subscription
          MaxRepeats, \* bound on repeated deliveries
          Missing     \* no customer, no subscription, nothing to do

Statuses == {"active", "trialing", "past_due", "canceled", "unpaid", "incomplete",
             "incomplete_expired", "paused"}
StripeEvent == [k : {"created", "updated", "deleted"}, sub : Checkouts, customer : Checkouts,
                n : 1 .. MaxEvents, status : Statuses, price : DOMAIN Prices]

ASSUME BillingAssumption ==
  /\ Missing \notin Checkouts \cup StripeEvent /\ MaxEvents \in Nat \ {0} /\ MaxRepeats \in Nat
  /\ \A p \in DOMAIN Prices : Prices[p] \in {"FREE", "PRO", "BUSINESS"}

VARIABLES record,   \* the organization's row of subscriptions
          checkout, \* where a checkout is, and the customer it uses
          events,   \* what Stripe has told of its subscriptions
          due,      \* events to be delivered
          doing,    \* the event a handler has found the row for
          repeats,
          replaced, \* history: customers that were overwritten
          last,     \* history: the newest event of a subscription that was written
          stale,    \* history: subscriptions with an event written after a newer one
          unmatched \* history: customers of events that found no row

billingVars == <<record, checkout, events, due, doing, repeats, replaced, last, stale, unmatched>>
told == <<replaced, last, stale, unmatched>>

\* What reconcileSubscription writes of a subscription.
StatusOf(s) ==
  CASE s = "active"   -> "ACTIVE"     [] s = "trialing"           -> "TRIALING"
    [] s = "past_due" -> "PAST_DUE"   [] s = "unpaid"             -> "PAST_DUE"
    [] s = "canceled" -> "CANCELED"   [] s = "incomplete_expired" -> "CANCELED"
    [] OTHER -> "INCOMPLETE"
PlanOf(e) == IF e.status = "canceled" THEN "FREE" ELSE Prices[e.price]
Written(e) == [record EXCEPT !.sub = e.sub, !.plan = PlanOf(e), !.status = StatusOf(e.status)]

BillingInit ==
  /\ record = [customer |-> Missing, sub |-> Missing, plan |-> "FREE", status |-> "ACTIVE"]
  /\ checkout = [c \in Checkouts |-> [at |-> "new", with |-> Missing]]
  /\ events = {} /\ due = {} /\ doing = [h \in Handlers |-> Missing] /\ repeats = 0
  /\ replaced = {} /\ last = [c \in Checkouts |-> 0] /\ stale = {} /\ unmatched = {}

-----------------------------------------------------------------------------
(* createCheckout *)

\* The row is read; without a customer one is created at Stripe.
ReadCustomer(c) ==
  /\ checkout[c].at = "new"
  /\ checkout' = [checkout EXCEPT ![c] =
       IF record.customer = Missing THEN [at |-> "created", with |-> c]
                                 ELSE [at |-> "session", with |-> record.customer]]
  /\ UNCHANGED <<record, events, due, doing, repeats, told>>
StoreCustomer(c) ==
  /\ checkout[c].at = "created"
  /\ checkout' = [checkout EXCEPT ![c].at = "session"]
  /\ record' = [record EXCEPT !.customer = c]
  /\ replaced' = replaced \cup ({record.customer} \ {Missing})
  /\ UNCHANGED <<events, due, doing, repeats, last, stale, unmatched>>

-----------------------------------------------------------------------------
(* Stripe *)

Tell(e) == events' = events \cup {e} /\ due' = due \cup {e}

\* The user pays in the session, which is for the customer and a configured price;
\* or never does.  At Stripe the price may later become any.
HasSession(c) == checkout[c].at = "session"
Sold == {p \in DOMAIN Prices : Prices[p] # "FREE"}
Pay(c) ==
  /\ HasSession(c)
  /\ checkout' = [checkout EXCEPT ![c].at = "paid"]
  /\ \E p \in Sold, s \in {"active", "incomplete"} :
       Tell([k |-> "created", sub |-> c, customer |-> checkout[c].with, n |-> 1,
             status |-> s, price |-> p])
  /\ UNCHANGED <<record, doing, repeats, told>>

\* The newest event of a subscription.
Newest(c) == CHOOSE e \in events : e.sub = c /\ \A d \in events : d.sub = c => d.n <= e.n

After(e, k, s, p) == [k |-> k, sub |-> e.sub, customer |-> e.customer, n |-> e.n + 1,
                      status |-> s, price |-> p]

\* Renewed, changed, unpaid, given up before the first payment, or ended for good.
ChangeSubscription(c) ==
  /\ checkout[c].at = "paid" /\ Newest(c).n < MaxEvents
  /\ Newest(c).status \notin {"canceled", "incomplete_expired"}
  /\ \/ \E s \in {"active", "past_due"} \ {Newest(c).status} :
          Tell(After(Newest(c), "updated", s, Newest(c).price))
     \/ \E p \in DOMAIN Prices \ {Newest(c).price} :
          Tell(After(Newest(c), "updated", Newest(c).status, p))
     \/ /\ Newest(c).status = "incomplete"
        /\ Tell(After(Newest(c), "updated", "incomplete_expired", Newest(c).price))
     \/ Tell(After(Newest(c), "deleted", "canceled", Newest(c).price))
  /\ UNCHANGED <<record, checkout, doing, repeats, told>>

\* Stripe has no answer to a delivery and makes it again.
Repeat(e) ==
  /\ repeats < MaxRepeats /\ repeats' = repeats + 1
  /\ due' = due \cup {e}
  /\ UNCHANGED <<record, checkout, events, doing, told>>

-----------------------------------------------------------------------------
(* handleWebhook *)

AllButDeleted == {"created", "updated"}  \* a mistake: a case is missing in the switch
Reconciled == {"created", "updated", "deleted"}

\* The row of the customer is looked up; without one the event is done with.
FindRecord(h, e) ==
  /\ doing[h] = Missing /\ due' = due \ {e}
  /\ IF e.k \in Reconciled /\ record.customer = e.customer
       THEN doing' = [doing EXCEPT ![h] = e] /\ UNCHANGED unmatched
       ELSE /\ unmatched' = IF e.k \in Reconciled THEN unmatched \cup {e.customer} ELSE unmatched
            /\ UNCHANGED doing
  /\ UNCHANGED <<record, checkout, events, repeats, replaced, last, stale>>
WriteRecord(h) ==
  /\ doing[h] # Missing
  /\ LET e == doing[h] IN
       /\ record' = Written(e)
       /\ stale' = IF e.n < last[e.sub] THEN stale \cup {e.sub} ELSE stale
       /\ last' = [last EXCEPT ![e.sub] = IF e.n < @ THEN @ ELSE e.n]
  /\ doing' = [doing EXCEPT ![h] = Missing]
  /\ UNCHANGED <<checkout, events, due, repeats, replaced, unmatched>>

\* The handler fails: Stripe is answered 500 and delivers again.
FailWebhook(h) ==
  /\ doing[h] # Missing /\ due' = due \cup {doing[h]}
  /\ doing' = [doing EXCEPT ![h] = Missing]
  /\ UNCHANGED <<record, checkout, events, repeats, told>>

BillingNext ==
  \/ \E c \in Checkouts : ReadCustomer(c) \/ StoreCustomer(c) \/ Pay(c) \/ ChangeSubscription(c)
  \/ \E e \in events : Repeat(e)
  \/ \E h \in Handlers : \/ WriteRecord(h) \/ FailWebhook(h)
                         \/ \E e \in due : FindRecord(h, e)
BillingSpec == BillingInit /\ [][BillingNext]_billingVars

-----------------------------------------------------------------------------
(* Properties *)

BillingTypeOK ==
  /\ record \in [customer : Checkouts \cup {Missing}, sub : Checkouts \cup {Missing},
                 plan : {"FREE", "PRO", "BUSINESS"},
                 status : {"ACTIVE", "TRIALING", "PAST_DUE", "CANCELED", "INCOMPLETE"}]
  /\ checkout \in [Checkouts -> [at : {"new", "created", "session", "paid"},
                                 with : Checkouts \cup {Missing}]]
  /\ events \subseteq StripeEvent /\ due \subseteq events
  /\ doing \in [Handlers -> events \cup {Missing}] /\ repeats \in 0 .. MaxRepeats
  /\ replaced \subseteq Checkouts /\ unmatched \subseteq Checkouts /\ stale \subseteq Checkouts
  /\ last \in [Checkouts -> 0 .. MaxEvents]

\* Once every event is handled the row says what the organization's one
\* subscription is at Stripe: who pays has the plan, who has cancelled is on
\* FREE, and so has who moved to a price that is not configured.  It may fail to
\* only if an event was written after a newer one, if the customer the subscription
\* is for was overwritten, or if the organization bought two
\* (billing.service.ts:34-41, 44-65, 99-138).
Subscriptions == {c \in Checkouts : checkout[c].at = "paid"}
RowFollowsStripe ==
  \A c \in Checkouts :
    /\ Subscriptions = {c} /\ due = {} /\ \A h \in Handlers : doing[h] = Missing
    /\ stale = {} /\ checkout[c].with \notin replaced
    => /\ record.sub = c
       /\ record.status = StatusOf(Newest(c).status)
       /\ record.plan = IF Newest(c).k = "deleted" THEN "FREE" ELSE Prices[Newest(c).price]

\* An event finds no row only if its customer was overwritten: the customer is
\* stored before anybody can pay (billing.service.ts:49-61).
UnmatchedWasReplaced == unmatched \subseteq replaced
=============================================================================
