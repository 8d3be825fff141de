----------------------------- MODULE MCBilling -----------------------------
(* What is paid, reported, corrected and budgeted.  The components share   *)
(* no state, so a behaviour exercises one of them.                         *)
EXTENDS StripeWebhook, Corrections, MeterReports, BudgetAdmission

CONSTANTS i1, i2, s1, c1, e1, e2, w1, w2

MCEvent(n, type, object, customer, created) ==
    [id |-> n, type |-> type, object |-> object, customer |-> customer, created |-> created]

(* Two invoices, one failing before it is paid by an event that names no   *)
(* customer, a subscription that ends, a body without an object and an     *)
(* event of an unknown type.                                               *)
MCEvents == {
    MCEvent(1, "invoice.payment_failed", i1, c1, 0),
    MCEvent(2, "invoice.paid", i1, None, 1),
    MCEvent(3, "invoice.paid", i2, c1, 1),
    MCEvent(4, "invoice.finalized", None, c1, 0),
    MCEvent(5, "subscription.canceled", s1, c1, 1),
    MCEvent(6, "subscription.deleted", s1, c1, 1),
    MCEvent(7, "meter.error_reported", None, c1, 0),
    MCEvent(8, "other", None, None, 0)}

VARIABLE component
componentVars == <<webhookVars, correctionVars, meterVars, budgetVars>>
MCInit ==
    /\ component \in {"webhook", "corrections", "meter", "gate", "burn"}
    /\ WebhookInit /\ MeterInit
    /\ IF component = "corrections" THEN CorrectionsInit ELSE CorrectionsInit /\ local = 1
    /\ IF component = "gate" THEN BudgetInit
       ELSE BudgetInit /\ account.spend = 0 /\ account.payment = "open"

Quiet(others) == UNCHANGED <<component, others>>
MCNext ==
    \/ component = "webhook" /\ WebhookNext /\ Quiet(<<correctionVars, meterVars, budgetVars>>)
    \/ component = "corrections" /\ CorrectionsNext /\ Quiet(<<webhookVars, meterVars, budgetVars>>)
    \/ component = "meter" /\ MeterNext /\ Quiet(<<webhookVars, correctionVars, budgetVars>>)
    \/ /\ \/ component = "gate" /\ GateNext
          \/ component = "burn" /\ OverrunNext
       /\ Quiet(<<webhookVars, correctionVars, meterVars>>)
MCSpec == MCInit /\ [][MCNext]_<<component, componentVars>>
=============================================================================
