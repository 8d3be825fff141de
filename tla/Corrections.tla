---------------------------- MODULE Corrections ----------------------------
(***************************************************************************)
(* Billing reconciliation of one (month, workspace, meter) line, from      *)
(* scripts/billing_reconcile.py: passes judge the local units against a    *)
(* snapshot of the provider's line and apply approved corrections through  *)
(* the ledger, while usage is still aggregated, invoices are drafted and   *)
(* finalized, answers are lost and the ledger is restored from a backup.   *)
(* One unit costs one minor unit, so local units are also the amount due.  *)
(***************************************************************************)
EXTENDS Integers

CONSTANT MaxUnits  \* bound: local and reported units

ASSUME UnitsAssumption == MaxUnits \in Nat

CorrectionId == {"units", "money-draft", "money-next"}
NoAmount == 0      \* a correction always moves a non-zero amount

VARIABLES
    local,     \* confirmed local units of the line
    provider,  \* its line: status, units, inFlight, state and minor of the invoice
    seen,      \* the snapshot of it a pass works on
    receipts,  \* the provider's receipts: amount by correction id
    entries,   \* the ledger: amount by correction id
    recovered, \* ledger entries made from a receipt whose answer was lost
    backup,    \* the last to_dict of the ledger
    kind       \* what the last pass judged
correctionVars == <<local, provider, seen, receipts, entries, recovered, backup, kind>>

Ledger == <<entries, recovered>>
NoneYet == [id \in CorrectionId |-> NoAmount]
CorrectionsInit ==
    /\ local \in 1..MaxUnits
    /\ provider = [status |-> "pending", units |-> 0, inFlight |-> 0, state |-> "none", minor |-> 0]
    /\ seen = provider
    /\ receipts = NoneYet /\ entries = NoneYet /\ recovered = {}
    /\ backup = Ledger /\ kind = "none"

-----------------------------------------------------------------------------
(* The rest of the world: usage, the provider's clock and its invoices.    *)
World(line) == provider' = line /\ UNCHANGED <<seen, receipts, entries, recovered, backup, kind>>
Report ==
    /\ provider.status = "pending" /\ provider.units + provider.inFlight < MaxUnits
    /\ World([provider EXCEPT !.inFlight = @ + 1]) /\ UNCHANGED local
Aggregate ==
    /\ \/ /\ provider.inFlight > 0
          /\ World([provider EXCEPT !.inFlight = @ - 1, !.units = @ + 1,
                                    !.minor = IF provider.state = "draft" THEN @ + 1 ELSE @])
       \/ provider.status = "pending" /\ World([provider EXCEPT !.status = "ready"])
    /\ UNCHANGED local
ProviderInvoices ==
    /\ \/ /\ provider.state = "none" /\ provider.status = "ready"
          /\ \E surcharge \in {0, 1} :
                World([provider EXCEPT !.state = "draft", !.minor = provider.units + surcharge])
       \/ provider.state = "draft" /\ World([provider EXCEPT !.state = "finalized"])
    /\ UNCHANGED local
LocalChanges ==
    /\ local' \in 1..MaxUnits \ {local}
    /\ UNCHANGED <<provider, seen, receipts, entries, recovered, backup, kind>>

-----------------------------------------------------------------------------
(* credits_for, _units_gap, _money_gap and diff. *)
CreditsIgnored == 0
Credits == entries["money-draft"] + entries["money-next"]
InFlightForgotten == local - seen.units
UnitsGap == local - (seen.units + seen.inFlight)
MoneyGap == local - (seen.minor - Credits)
Diff ==
    CASE seen.status # "ready" -> "awaiting_aggregation"
      [] seen.status = "ready" /\ UnitsGap # 0 -> "units_mismatch"
      [] seen.status = "ready" /\ UnitsGap = 0 /\ seen.state = "none" -> "no_invoice"
      [] seen.status = "ready" /\ UnitsGap = 0 /\ seen.state # "none" /\ MoneyGap # 0 -> "money_mismatch"
      [] OTHER -> "match"

(* _build_correction: the id is the line and the kind of fix. *)
MoneyTarget == IF seen.state = "draft" THEN "money-draft" ELSE "money-next"
IdOf == IF Diff = "units_mismatch" THEN "units" ELSE MoneyTarget
AmountOf == IF Diff = "units_mismatch" THEN UnitsGap ELSE -MoneyGap

(* CorrectionProviderDouble._act: once per id.  A meter adjustment changes *)
(* the aggregate, and the amount of an invoice that is still a draft; a    *)
(* draft is amended in place; a credit goes to the next invoice and leaves *)
(* this one alone.                                                         *)
Adjusted(amount) ==
    [provider EXCEPT !.units = @ + amount,
                     !.minor = IF provider.state = "draft" THEN @ + amount ELSE @]
Amended(amount) == [provider EXCEPT !.minor = @ - amount]
Act(id, amount) ==
    /\ receipts' = IF receipts[id] = NoAmount THEN [receipts EXCEPT ![id] = amount] ELSE receipts
    /\ provider' = IF receipts[id] # NoAmount \/ id = "money-next" THEN provider
                   ELSE IF id = "units" THEN Adjusted(amount)
                   ELSE Amended(amount)

Record(id, amount) == entries' = [entries EXCEPT ![id] = amount]

(* CorrectionsLedger.apply: known, answered before, or called now.  The    *)
(* call may fail, or be accepted with its answer lost; nothing is recorded *)
(* then.  The provider amends no invoice that is final.                    *)
Recover(id) ==
    /\ entries[id] = NoAmount /\ receipts[id] # NoAmount
    /\ Record(id, AmountOf) /\ recovered' = recovered \cup {id}
    /\ UNCHANGED <<receipts, provider>>
ApplyRecordsFirst(id) ==
    /\ entries[id] = NoAmount /\ receipts[id] = NoAmount
    /\ Act(id, AmountOf) \/ UNCHANGED <<receipts, provider>>
    /\ Record(id, AmountOf)
    /\ UNCHANGED recovered
Apply(id) ==
    /\ entries[id] = NoAmount /\ receipts[id] = NoAmount
    /\ id = "money-draft" => provider.state = "draft"
    /\ Act(id, AmountOf)
    /\ entries' = entries \/ Record(id, AmountOf)
    /\ UNCHANGED recovered
NothingApplied == UNCHANGED <<receipts, provider, entries, recovered>>

Fetch ==
    /\ seen' = provider
    /\ UNCHANGED <<local, provider, receipts, entries, recovered, backup, kind>>

(* reconcile: an unapproved pass, a pass whose call fails and one that     *)
(* finds the id in the ledger only judge.                                  *)
Pass ==
    /\ kind' = Diff
    /\ \/ NothingApplied
       \/ Diff \in {"units_mismatch", "money_mismatch"} /\ (Recover(IdOf) \/ Apply(IdOf))
    /\ UNCHANGED <<local, seen, backup>>

Backup == backup' = Ledger /\ UNCHANGED <<local, provider, seen, receipts, entries, recovered, kind>>
Restore ==
    /\ entries' = backup[1] /\ recovered' = backup[2]
    /\ UNCHANGED <<local, provider, seen, receipts, backup, kind>>

CorrectionsNext ==
    \/ Report \/ Aggregate \/ ProviderInvoices \/ LocalChanges
    \/ Fetch \/ Pass \/ Backup \/ Restore
CorrectionsSpec == CorrectionsInit /\ [][CorrectionsNext]_correctionVars

-----------------------------------------------------------------------------
CorrectionsTypeOK ==
    /\ local \in 1..MaxUnits
    /\ receipts \in [CorrectionId -> Int] /\ entries \in [CorrectionId -> Int]
    /\ recovered \subseteq CorrectionId

(* The ledger only holds what the provider accepted, also when it falls    *)
(* back to an older backup, and holds it with the amount accepted unless   *)
(* the entry was recovered after its answer was lost (apply, from_dict).   *)
EntriesBacked ==
    /\ CorrectionsTypeOK
    /\ \A id \in CorrectionId : entries[id] # NoAmount =>
          receipts[id] # NoAmount /\ (receipts[id] = entries[id] \/ id \in recovered)

(* What the customer pays: the invoice, which shows how it was amended     *)
(* while it was a draft, less what is credited on the next one.            *)
NetCharge == provider.minor - receipts["money-next"]
(* credits_for nets the amendment out of an invoice that already shows it. *)
CountedTwice == receipts["money-draft"]
LedgerComplete == entries = receipts
Current == seen = provider

(* With every receipt in the ledger and a current snapshot, a correction   *)
(* closes the gap of its own column whatever was corrected before, and a   *)
(* pass that judges a match finds none: the units are the local units, and *)
(* what the customer pays is the amount due - except that on a line whose  *)
(* draft was amended it is off by exactly that amendment, which is counted *)
(* in the invoice and in the credits (diff, credits_for, apply).           *)
EffectSettles ==
    [][LedgerComplete /\ Current =>
          /\ receipts'["units"] # receipts["units"] =>
                provider'.units + provider'.inFlight = local
          /\ receipts'["units"] = receipts["units"] /\ receipts' # receipts =>
                NetCharge' = local + CountedTwice
          /\ Pass /\ kind' = "match" =>
                /\ provider.units + provider.inFlight = local
                /\ NetCharge = local + CountedTwice]_correctionVars
=============================================================================
