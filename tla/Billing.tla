------------------------------- MODULE Billing -------------------------------
(***************************************************************************)
(* Memberships (src/backend/app.py, billing.py, and two methods of         *)
(* repository.py): Stripe tells the webhook what becomes of a checkout and *)
(* of the subscription it began, once or more often and in any order.  The *)
(* webhook records an event in one transaction and applies it in another,  *)
(* and may fail before, between and after them; Stripe then tries again.   *)
(* The other tables are PoolLedger's.                                      *)
(*                                                                         *)
(* An event is a number; a field of a subscription is the event it comes   *)
(* from, 0 for NULL.                                                       *)
(***************************************************************************)
EXTENDS Integers, Sequences

CONSTANTS Accounts,
          StripeEvents,  \* what may happen
          MaxEvents,     \* bound on Stripe's events
          MaxFailures,   \* bound on the failed deliveries
          Tolerance      \* tolerance_s: how old a signature may be

Nobody == 0   \* named by an event that carries no account

\* A checkout's events and a subscription's.  Any may lack the account (a subscription
\* does not get the metadata that create_checkout_session gives its session), the ids
\* or the dates.
ASSUME BillingAssumption ==
  /\ StripeEvents \subseteq
       [kind : {"checkout.session.completed", "customer.subscription", "other"},
        account : Accounts \cup {Nobody}, ids : BOOLEAN, period : BOOLEAN]
  /\ MaxEvents \in Nat /\ MaxFailures \in Nat /\ Tolerance \in Nat

VARIABLES
  checkouts,      \* external: the accounts of the sessions Stripe has been asked for
  stripe,         \* external: the events in the order they happened
  acknowledged,   \* external: those that need not be sent again
  handling,       \* the event the webhook is at, and whether it has recorded it
  recorded,       \* the stripe.* rows of backend_events
  subscriptions,  \* the row of each account, if there is one
  applied,        \* history: the events applied, in their order
  failures

billingVars == <<checkouts, stripe, acknowledged, handling, recorded, subscriptions, applied,
                 failures>>

Idle   == [event |-> 0, done |-> "none"]
NoRow  == [status |-> 0, ids |-> 0, period |-> 0]

BillingInit ==
  /\ checkouts = {} /\ stripe = <<>> /\ acknowledged = {} /\ handling = Idle
  /\ recorded = {} /\ subscriptions = [a \in Accounts |-> NoRow]
  /\ applied = <<>> /\ failures = 0

Failure == failures < MaxFailures /\ failures' = failures + 1

\* subscription_payload_from_event: the columns it sets, if any.
Normalizes(e) == e.kind # "other" /\ e.account # Nobody

Normalized(i) ==
  [status |-> i,
   ids    |-> IF stripe[i].ids THEN i ELSE 0,
   period |-> IF stripe[i].kind = "customer.subscription" /\ stripe[i].period THEN i ELSE 0]

\* A faulty variant: what an event leaves out is erased.
UpsertedPlain(row, new) == new

\* upsert_subscription: an event that has no ids leaves those of the row.
Upserted(row, new) == [new EXCEPT !.ids = IF new.ids = 0 THEN row.ids ELSE new.ids]
-----------------------------------------------------------------------------
\* create_checkout_session; when it fails nothing has changed.
Checkout(a) ==
  /\ a \notin checkouts
  /\ checkouts' = checkouts \cup {a}
  /\ UNCHANGED <<stripe, acknowledged, handling, recorded, subscriptions, applied, failures>>

Happen(e) ==
  /\ Len(stripe) < MaxEvents
  /\ e.account \in checkouts \cup {Nobody}
  /\ stripe' = Append(stripe, e)
  /\ UNCHANGED <<checkouts, acknowledged, handling, recorded, subscriptions, applied, failures>>

\* verify_stripe_signature, of what Stripe has signed this long ago.
Verifies(age) == age <= Tolerance

\* The request is there.  One that is refused comes again, signed anew.
Receive(i, age) ==
  /\ handling = Idle
  /\ i \notin acknowledged
  /\ Verifies(age)
  /\ handling' = [event |-> i, done |-> "verified"]
  /\ UNCHANGED <<checkouts, stripe, acknowledged, recorded, subscriptions, applied, failures>>

RecordEvent ==
  /\ handling.done = "verified"
  /\ recorded' = recorded \cup {handling.event}
  /\ handling' = [handling EXCEPT !.done = "recorded"]
  /\ UNCHANGED <<checkouts, stripe, acknowledged, subscriptions, applied, failures>>

UpsertSubscription ==
  /\ handling.done = "recorded"
  /\ handling' = [handling EXCEPT !.done = "applied"]
  /\ LET e == stripe[handling.event] IN
     \/ /\ Normalizes(e)
        /\ subscriptions' = [subscriptions EXCEPT ![e.account] =
                               Upserted(@, Normalized(handling.event))]
        /\ applied' = Append(applied, handling.event)
     \/ /\ ~Normalizes(e)
        /\ UNCHANGED <<subscriptions, applied>>
  /\ UNCHANGED <<checkouts, stripe, acknowledged, recorded, failures>>

Acknowledge ==
  /\ handling.done = "applied"
  /\ acknowledged' = acknowledged \cup {handling.event}
  /\ handling' = Idle
  /\ UNCHANGED <<checkouts, stripe, recorded, subscriptions, applied, failures>>

\* A database error, a crash, or an answer that Stripe does not get.
Fail ==
  /\ Failure
  /\ handling # Idle
  /\ handling' = Idle
  /\ UNCHANGED <<checkouts, stripe, acknowledged, recorded, subscriptions, applied>>

Webhook == RecordEvent \/ UpsertSubscription \/ Acknowledge

BillingNext ==
  \/ \E a \in Accounts : Checkout(a)
  \/ \E e \in StripeEvents : Happen(e)
  \/ \E i \in DOMAIN stripe, age \in 0..(Tolerance + 1) : Receive(i, age)
  \/ Webhook \/ Fail
-----------------------------------------------------------------------------
OfAccount(a) == {k \in DOMAIN applied : stripe[applied[k]].account = a}

\* What Stripe need not send again is in the event log and, if it names an account,
\* in the account's row, however often the webhook has failed over it: status and
\* dates are those of the event applied last, this one or a later delivery, and the
\* ids an event has brought are never lost.
AcknowledgedIsApplied ==
  \A i \in acknowledged :
    /\ i \in recorded
    /\ Normalizes(stripe[i]) =>
         LET a   == stripe[i].account
             row == subscriptions[a]
         IN  /\ \E k \in OfAccount(a) : applied[k] = i
             /\ \A k \in OfAccount(a) : (\A m \in OfAccount(a) : m <= k) =>
                  row.status = applied[k] /\ row.period \in {0, applied[k]}
             /\ stripe[i].ids => row.ids # 0 /\ stripe[row.ids].account = a
=============================================================================
