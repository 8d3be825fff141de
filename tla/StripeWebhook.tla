---------------------------- MODULE StripeWebhook ----------------------------
(***************************************************************************)
(* Webhook intake and billing eligibility of scripts/stripe_bridge.py      *)
(* (WebhookProcessor, BillingEligibility).  Stripe delivers events in any  *)
(* order and any number of times, anybody can post an unsigned one, and    *)
(* the processor may restart from an older image of itself.  What it knows *)
(* decides which actions a customer is allowed at a given time.            *)
(***************************************************************************)
EXTENDS Naturals, FiniteSets

CONSTANTS
    Event,       \* events Stripe may send: see EventRecord
    Invoice, Subscription, Customer,
    None,        \* no customer, no time
    Grace,       \* length of the grace window
    MaxNow,      \* bound: the clock
    MaxCrashes   \* bound: restarts of the processor

InvoiceType == {"invoice.finalized", "invoice.payment_failed", "invoice.paid"}
SubscriptionType == {"subscription.canceled", "subscription.deleted"}
MeterType == "meter.error_reported"
KnownType == InvoiceType \cup SubscriptionType \cup {MeterType}

InvoiceState == [type \in InvoiceType |->
    CASE type = "invoice.finalized" -> "finalized"
      [] type = "invoice.payment_failed" -> "payment_failed"
      [] type = "invoice.paid" -> "paid"]
SubscriptionState == [type \in SubscriptionType |->
    IF type = "subscription.canceled" THEN "canceled" ELSE "deleted"]

Rank == [s \in {"open", "finalized", "payment_failed", "paid"} |->
    CASE s = "open" -> 0 [] s = "finalized" -> 1
      [] s = "payment_failed" -> 2 [] s = "paid" -> 3]
SubRank == [s \in {"active", "canceled", "deleted"} |->
    CASE s = "active" -> 0 [] s = "canceled" -> 1 [] s = "deleted" -> 2]

(* object: the invoice or subscription, None if the body names none;       *)
(* customer: None if the body names none.                                  *)
EventRecord == [id : Nat, type : KnownType \cup {"other"},
                object : Invoice \cup Subscription \cup {None},
                customer : Customer \cup {None}, created : Nat]

ASSUME WebhookAssumption ==
    /\ Event \subseteq EventRecord
    /\ \A e, f \in Event : e.id = f.id => e = f
    /\ \A e \in Event :
          /\ e.type \in InvoiceType => e.object \in Invoice \cup {None}
          /\ e.type \in SubscriptionType => e.object \in Subscription \cup {None}
    /\ None \notin Invoice \cup Subscription \cup Customer
    /\ Grace \in Nat \ {0} /\ MaxNow \in Nat /\ MaxCrashes \in Nat

VARIABLES
    mem,     \* the processor: receipts, invoices, subscriptions, errors, ignored
    disk,    \* its last image
    signed,  \* auxiliary: events delivered with a good signature
    now,     \* the time eligibility is evaluated at
    crashes

webhookVars == <<mem, disk, signed, now, crashes>>

Receipt == {"none", "applied", "ignored_unknown_type", "rejected_malformed"}
Memory == [receipt : [Event -> Receipt],
           invoice : [Invoice -> DOMAIN Rank],
           owner : [Invoice -> Customer \cup {None}],
           failedAt : [Invoice -> Nat \cup {None}],
           subscription : [Subscription -> DOMAIN SubRank],
           subscriber : [Subscription -> Customer \cup {None}],
           meterErrors : [Event -> Nat], ignored : [Event -> Nat]]
Empty == [receipt |-> [e \in Event |-> "none"],
          invoice |-> [i \in Invoice |-> "open"], owner |-> [i \in Invoice |-> None],
          failedAt |-> [i \in Invoice |-> None],
          subscription |-> [s \in Subscription |-> "active"],
          subscriber |-> [s \in Subscription |-> None],
          meterErrors |-> [e \in Event |-> 0], ignored |-> [e \in Event |-> 0]]

WebhookTypeOK ==
    /\ mem \in Memory /\ disk \in Memory
    /\ signed \subseteq Event
    /\ now \in 0..MaxNow
    /\ crashes \in 0..MaxCrashes

WebhookInit ==
    /\ mem = Empty /\ disk = Empty
    /\ signed = {} /\ now = 0 /\ crashes = 0

-----------------------------------------------------------------------------
(* Only a higher rank moves a state; an event without a customer keeps the *)
(* one on record.                                                          *)
LastWrite(old, new) == new
InvoiceTransition(old, new) == IF Rank[new] > Rank[old] THEN new ELSE old
LastSubWrite(old, new) == new
SubscriptionTransition(old, new) == IF SubRank[new] > SubRank[old] THEN new ELSE old
Known(old, customer) == IF customer = None THEN old ELSE customer

Receive(e, receipt) == [mem EXCEPT !.receipt[e] = receipt]

ApplyInvoice(e) ==
    /\ e.type \in InvoiceType
    /\ mem' = IF e.object = None THEN Receive(e, "rejected_malformed")
              ELSE [Receive(e, "applied") EXCEPT
                      !.invoice[e.object] = InvoiceTransition(@, InvoiceState[e.type]),
                      !.owner[e.object] = Known(@, e.customer),
                      !.failedAt[e.object] =
                          IF e.type = "invoice.payment_failed" THEN e.created ELSE @]

ApplySubscription(e) ==
    /\ e.type \in SubscriptionType
    /\ mem' = IF e.object = None THEN Receive(e, "rejected_malformed")
              ELSE [Receive(e, "applied") EXCEPT
                      !.subscription[e.object] =
                          SubscriptionTransition(@, SubscriptionState[e.type]),
                      !.subscriber[e.object] = Known(@, e.customer)]

ApplyMeterError(e) ==
    /\ e.type = MeterType
    /\ mem' = [Receive(e, "applied") EXCEPT !.meterErrors[e] = @ + 1]

IgnoreUnknown(e) ==
    /\ e.type \notin KnownType
    /\ mem' = [Receive(e, "ignored_unknown_type") EXCEPT !.ignored[e] = @ + 1]

(* deliver: a bad signature leaves no trace, a seen id is answered with    *)
(* its receipt, anything else is applied and remembered.                   *)
NeverSeen(e) == FALSE
Seen(e) == mem.receipt[e] # "none"
AnySignature(good) == TRUE
SignatureOk(good) == good

Deliver(e, good) ==
    /\ signed' = IF good THEN signed \cup {e} ELSE signed
    /\ IF SignatureOk(good) /\ ~Seen(e)
         THEN \/ ApplyInvoice(e) \/ ApplySubscription(e)
              \/ ApplyMeterError(e) \/ IgnoreUnknown(e)
         ELSE UNCHANGED mem
    /\ UNCHANGED <<disk, now, crashes>>

Save == disk' = mem /\ UNCHANGED <<mem, signed, now, crashes>>
Restart ==
    /\ crashes < MaxCrashes
    /\ crashes' = crashes + 1 /\ mem' = disk
    /\ UNCHANGED <<disk, signed, now>>
Tick == now < MaxNow /\ now' = now + 1 /\ UNCHANGED <<mem, disk, signed, crashes>>

WebhookNext ==
    \/ \E e \in Event, good \in BOOLEAN : Deliver(e, good)
    \/ Save \/ Restart \/ Tick

WebhookSpec == WebhookInit /\ [][WebhookNext]_webhookVars

-----------------------------------------------------------------------------
(* customer_state and last_failure. *)
InvoicesOf(m, c) == {m.invoice[i] : i \in {j \in Invoice : m.owner[j] = c}}
SubscriptionsOf(m, c) ==
    {m.subscription[s] : s \in {r \in Subscription : m.subscriber[r] = c}}

PaidWins(m, c) == IF "paid" \in InvoicesOf(m, c) THEN "paid" ELSE "open"
CustomerState(m, c) ==
    IF "deleted" \in SubscriptionsOf(m, c) THEN "deleted"
    ELSE IF "canceled" \in SubscriptionsOf(m, c) THEN "canceled"
    ELSE IF "payment_failed" \in InvoicesOf(m, c) THEN "payment_failed"
    ELSE IF "paid" \in InvoicesOf(m, c) THEN "paid"
    ELSE "open"

FailuresOf(m, c) == {m.failedAt[i] : i \in {j \in Invoice : m.owner[j] = c}} \ {None}
LastFailure(m, c) ==
    IF FailuresOf(m, c) = {} THEN None
    ELSE CHOOSE t \in FailuresOf(m, c) : \A u \in FailuresOf(m, c) : u <= t

(* BillingEligibility.evaluate: what a payment state allows at a time. *)
BeforeDeadline(failedAt, at) == failedAt # None /\ at < failedAt + Grace
GraceExpired(failedAt, at) == failedAt # None /\ at >= failedAt + Grace

Allowed(state, failedAt, at) ==
    CASE state = "paid" -> {"provision", "resume", "continue", "destroy"}
      [] state = "payment_failed" /\ GraceExpired(failedAt, at) -> {"destroy"}
      [] state = "payment_failed" /\ ~GraceExpired(failedAt, at) ->
            {"continue", "destroy", "resume"}
      [] state = "open" -> {"continue", "destroy"}
      [] state \in {"canceled", "deleted"} -> {}

AllowedTo(c) == Allowed(CustomerState(mem, c), LastFailure(mem, c), now)

-----------------------------------------------------------------------------
Applied == {e \in Event : mem.receipt[e] = "applied"}
About(x) == {e \in Applied : e.object = x}

OrderFree ==
    /\ \A i \in Invoice :
          LET states == {"open"} \cup {InvoiceState[e.type] : e \in About(i)}
          IN  /\ mem.invoice[i] \in states
              /\ \A s \in states : Rank[s] <= Rank[mem.invoice[i]]
    /\ \A s \in Subscription :
          LET states == {"active"} \cup {SubscriptionState[e.type] : e \in About(s)}
          IN  /\ mem.subscription[s] \in states
              /\ \A t \in states : SubRank[t] <= SubRank[mem.subscription[s]]

AppliedOnce ==
    \A e \in Event :
        /\ mem.meterErrors[e] = IF e.type = MeterType /\ e \in Applied THEN 1 ELSE 0
        /\ mem.ignored[e] = IF mem.receipt[e] = "ignored_unknown_type" THEN 1 ELSE 0

SignedOnly == \A e \in Event : Seen(e) => e \in signed

ProvisionIsPaid ==
    \A c \in Customer : "provision" \in AllowedTo(c) =>
        LET mine == {e \in Applied : e.object # None /\ e.customer = c}
            Paid(x) == \E e \in About(x) : e.type = "invoice.paid"
        IN  /\ \E e \in mine : Paid(e.object)
            /\ \A e \in mine : e.type = "invoice.payment_failed" => Paid(e.object)
            /\ \A e \in mine : e.type \notin SubscriptionType

(* What an invoice or a subscription has come to is the highest-ranked of  *)
(* the events applied to it, whatever the order, the repetitions and the   *)
(* restarts they came with; every event leaves its mark once, in step with *)
(* its receipt; only what was once delivered with a good signature was     *)
(* processed, so a forgery does not use up an event's id; and a customer   *)
(* may provision only with a paid invoice, none that failed and was not    *)
(* paid since, and no subscription that has ended (deliver,                *)
(* _invoice_transition, _subscription_transition, evaluate).               *)
WebhookSound == WebhookTypeOK /\ OrderFree /\ AppliedOnce /\ SignedOnly /\ ProvisionIsPaid

(* Time alone never opens anything: while no event arrives, a customer's   *)
(* allowed actions only shrink (evaluate).                                 *)
TimeOnlyCloses ==
    [][mem' = mem => \A c \in Customer : AllowedTo(c)' \subseteq AllowedTo(c)]_webhookVars

=============================================================================
