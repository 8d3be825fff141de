--------------------------- MODULE BillingProofs ---------------------------
(***************************************************************************)
(* That corrections record what the provider accepted, that usage is billed *)
(* once and to its month, that webhooks may come in any order, and that    *)
(* the gates that admit work know what they handed out: who does not pay   *)
(* gets none, spend stays under its limit, and concurrent callers lose and *)
(* double nothing, each for every value of its constants.                  *)
(***************************************************************************)
EXTENDS Corrections, MeterReports, StripeWebhook, BudgetAdmission, AdmissionGates,
        SumLemmas, FiniteSetTheorems, WellFoundedInduction, TLAPS

(* Corrections: an entry of the ledger has a receipt at the provider.      *)

Line == [status : {"pending", "ready"}, units : Int, inFlight : Int,
         state : {"none", "draft", "finalized"}, minor : Int]
Backed(kept, late) ==
    \A id \in CorrectionId : kept[id] # NoAmount =>
        receipts[id] # NoAmount /\ (receipts[id] = kept[id] \/ id \in late)
LedgerInv ==
    /\ CorrectionsTypeOK
    /\ provider \in Line /\ seen \in Line
    /\ backup \in [CorrectionId -> Int] \X SUBSET CorrectionId
    /\ Backed(entries, recovered) /\ Backed(backup[1], backup[2])

(* A correction moves a whole, non-zero amount. *)
LEMMA AmountMoves ==
    ASSUME LedgerInv, Diff \in {"units_mismatch", "money_mismatch"}
    PROVE  IdOf \in CorrectionId /\ AmountOf \in Int \ {NoAmount}
<1>1. UnitsGap \in Int /\ MoneyGap \in Int
  BY UnitsAssumption
     DEF LedgerInv, CorrectionsTypeOK, Line, UnitsGap, MoneyGap, Credits, CorrectionId
<1>2. IdOf \in CorrectionId BY DEF IdOf, MoneyTarget, CorrectionId
<1>3. CASE Diff = "units_mismatch"
  <2>1. UnitsGap # 0
    BY <1>3 DEF Diff
  <2> QED BY <1>1, <1>2, <1>3, <2>1 DEF AmountOf, NoAmount
<1>4. CASE Diff = "money_mismatch"
  <2>1. MoneyGap # 0
    BY <1>4 DEF Diff
  <2> QED BY <1>1, <1>2, <1>4, <2>1 DEF AmountOf, NoAmount
<1> QED BY <1>3, <1>4

LEMMA LedgerInitially == CorrectionsInit => LedgerInv
BY UnitsAssumption
   DEF CorrectionsInit, LedgerInv, CorrectionsTypeOK, Line, Backed, NoneYet, Ledger, NoAmount

(* What is backed stays backed while receipts only gain amounts. *)
LEMMA ReceiptsStay ==
    ASSUME \A id \in CorrectionId : receipts[id] # NoAmount => receipts'[id] = receipts[id],
           NEW kept, NEW late, Backed(kept, late)
    PROVE  Backed(kept, late)'
BY DEF Backed

LEMMA Updated ==
    ASSUME NEW line \in Line, NEW a \in Int, NEW b \in Int, NEW c \in Int,
           NEW status \in {"pending", "ready"}, NEW state \in {"none", "draft", "finalized"}
    PROVE  /\ [line EXCEPT !.status = status] \in Line
           /\ [line EXCEPT !.state = state] \in Line
           /\ [line EXCEPT !.inFlight = a] \in Line
           /\ [line EXCEPT !.minor = a] \in Line
           /\ [line EXCEPT !.state = state, !.minor = a] \in Line
           /\ [line EXCEPT !.units = a, !.minor = b] \in Line
           /\ [line EXCEPT !.inFlight = a, !.units = b, !.minor = c] \in Line
BY DEF Line

LEMMA Numbers ==
    ASSUME NEW line \in Line
    PROVE  line.units \in Int /\ line.inFlight \in Int /\ line.minor \in Int
BY DEF Line

(* A receipt that is there is never changed by a correction. *)
LEMMA ActKeeps ==
    ASSUME LedgerInv, NEW id \in CorrectionId, NEW amount \in Int \ {NoAmount}, Act(id, amount)
    PROVE  /\ receipts' \in [CorrectionId -> Int] /\ provider' \in Line
           /\ \A other \in CorrectionId :
                 receipts[other] # NoAmount => receipts'[other] = receipts[other]
           /\ receipts[id] = NoAmount => receipts'[id] = amount
           /\ receipts'[id] # NoAmount
<1>1. /\ receipts' \in [CorrectionId -> Int]
      /\ \A other \in CorrectionId :
            receipts[other] # NoAmount => receipts'[other] = receipts[other]
      /\ (receipts[id] = NoAmount => receipts'[id] = amount)
      /\ receipts'[id] # NoAmount
  BY DEF Act, LedgerInv, CorrectionsTypeOK
<1>2. provider' \in Line
  <2>1. CASE provider' = provider BY <2>1 DEF LedgerInv
  <2>2. CASE provider' = Adjusted(amount)
    <3>1. provider \in Line BY DEF LedgerInv
    <3>2. provider.units + amount \in Int
          /\ (IF provider.state = "draft" THEN provider.minor + amount ELSE provider.minor) \in Int
      BY <3>1, Numbers
    <3> QED BY <2>2, <3>1, <3>2, Updated DEF Adjusted
  <2>3. CASE provider' = Amended(amount)
    <3>1. provider \in Line BY DEF LedgerInv
    <3>2. provider.minor - amount \in Int BY <3>1, Numbers
    <3> QED BY <2>3, <3>1, <3>2, Updated DEF Amended
  <2> QED BY <2>1, <2>2, <2>3 DEF Act
<1> QED BY <1>1, <1>2

(* A pass that leaves receipts and ledger alone, recovers a receipt, or    *)
(* calls the provider and records the answer or loses it.                  *)
LEMMA PassStep == LedgerInv /\ Pass => LedgerInv'
<1> SUFFICES ASSUME LedgerInv, Pass PROVE LedgerInv' OBVIOUS
<1>1. UNCHANGED <<local, seen, backup>> BY DEF Pass
<1>2. CASE NothingApplied
  BY <1>1, <1>2 DEF NothingApplied, LedgerInv, CorrectionsTypeOK, Backed
<1>3. CASE Diff \in {"units_mismatch", "money_mismatch"} /\ Recover(IdOf)
  <2>1. IdOf \in CorrectionId /\ AmountOf \in Int \ {NoAmount} BY <1>3, AmountMoves
  <2>2. /\ receipts[IdOf] # NoAmount /\ UNCHANGED <<receipts, provider>>
        /\ entries' = [entries EXCEPT ![IdOf] = AmountOf] /\ recovered' = recovered \cup {IdOf}
    BY <1>3 DEF Recover, Record
  <2>3. CorrectionsTypeOK' BY <1>1, <2>1, <2>2 DEF LedgerInv, CorrectionsTypeOK
  <2>4. Backed(entries, recovered)'
    BY <2>1, <2>2 DEF LedgerInv, CorrectionsTypeOK, Backed
  <2>5. Backed(backup[1], backup[2])' BY <1>1, <2>2 DEF LedgerInv, Backed
  <2> QED BY <1>1, <2>2, <2>3, <2>4, <2>5 DEF LedgerInv
<1>4. CASE Diff \in {"units_mismatch", "money_mismatch"} /\ Apply(IdOf)
  <2>1. IdOf \in CorrectionId /\ AmountOf \in Int \ {NoAmount} BY <1>4, AmountMoves
  <2>2. /\ receipts[IdOf] = NoAmount /\ Act(IdOf, AmountOf) /\ recovered' = recovered
        /\ entries' = entries \/ entries' = [entries EXCEPT ![IdOf] = AmountOf]
    BY <1>4 DEF Apply, Record
  <2>3. /\ receipts' \in [CorrectionId -> Int] /\ provider' \in Line
        /\ \A id \in CorrectionId : receipts[id] # NoAmount => receipts'[id] = receipts[id]
        /\ receipts'[IdOf] = AmountOf
    BY <2>1, <2>2, ActKeeps
  <2>4. CorrectionsTypeOK' BY <1>1, <2>1, <2>2, <2>3 DEF LedgerInv, CorrectionsTypeOK
  <2>5. Backed(entries, recovered)'
    BY <2>1, <2>2, <2>3 DEF LedgerInv, CorrectionsTypeOK, Backed
  <2>6. Backed(backup[1], backup[2])' BY <1>1, <2>3 DEF LedgerInv, Backed
  <2> QED BY <1>1, <2>3, <2>4, <2>5, <2>6 DEF LedgerInv
<1> QED BY <1>2, <1>3, <1>4 DEF Pass

(* What happens at the provider leaves its receipts and the ledger alone.  *)
LEMMA WorldStep ==
    ASSUME LedgerInv, NEW line \in Line, World(line), local' \in 1..MaxUnits
    PROVE  LedgerInv'
BY DEF World, LedgerInv, CorrectionsTypeOK, Backed

LEMMA LedgerStep == LedgerInv /\ [CorrectionsNext]_correctionVars => LedgerInv'
<1> USE UnitsAssumption
<1> SUFFICES ASSUME LedgerInv, [CorrectionsNext]_correctionVars PROVE LedgerInv' OBVIOUS
<1>0. local \in 1..MaxUnits /\ provider \in Line
  BY DEF LedgerInv, CorrectionsTypeOK
<1>1. CASE Report
  <2>1. [provider EXCEPT !.inFlight = @ + 1] \in Line
    <3>1. provider.inFlight + 1 \in Int BY <1>0, Numbers
    <3> QED BY <1>0, <3>1, Updated
  <2> QED BY <1>0, <1>1, <2>1, WorldStep DEF Report
<1>2. CASE Aggregate
  <2>1. /\ [provider EXCEPT !.status = "ready"] \in Line
        /\ [provider EXCEPT !.inFlight = @ - 1, !.units = @ + 1,
                            !.minor = IF provider.state = "draft" THEN @ + 1 ELSE @] \in Line
    <3>1. /\ provider.inFlight - 1 \in Int /\ provider.units + 1 \in Int
          /\ (IF provider.state = "draft" THEN provider.minor + 1 ELSE provider.minor) \in Int
      BY <1>0, Numbers
    <3> QED BY <1>0, <3>1, Updated
  <2> QED BY <1>0, <1>2, <2>1, WorldStep DEF Aggregate
<1>3. CASE ProviderInvoices
  <2>1. /\ [provider EXCEPT !.state = "finalized"] \in Line
        /\ \A surcharge \in {0, 1} :
              [provider EXCEPT !.state = "draft", !.minor = provider.units + surcharge] \in Line
    <3>1. \A surcharge \in {0, 1} : provider.units + surcharge \in Int BY <1>0, Numbers
    <3> QED BY <1>0, <3>1, Updated
  <2> QED BY <1>0, <1>3, <2>1, WorldStep DEF ProviderInvoices
<1>4. CASE LocalChanges
  BY <1>4 DEF LocalChanges, LedgerInv, CorrectionsTypeOK, Backed
<1>5. CASE Fetch
  BY <1>5 DEF Fetch, LedgerInv, CorrectionsTypeOK, Backed
<1>6. CASE Pass BY <1>6, PassStep
<1>7. CASE Backup
  <2>1. backup' = <<entries, recovered>> BY <1>7 DEF Backup, Ledger
  <2> QED BY <1>7, <2>1 DEF Backup, LedgerInv, CorrectionsTypeOK, Backed
<1>8. CASE Restore
  BY <1>8 DEF Restore, LedgerInv, CorrectionsTypeOK, Backed
<1>9. CASE UNCHANGED correctionVars
  BY <1>9 DEF correctionVars, LedgerInv, CorrectionsTypeOK, Backed
<1> QED BY <1>1, <1>2, <1>3, <1>4, <1>5, <1>6, <1>7, <1>8, <1>9 DEF CorrectionsNext

(* The ledger never holds what the provider did not accept, for any number *)
(* of units, passes, lost answers, backups and restores (apply,            *)
(* from_dict).                                                             *)
THEOREM EntriesBackedAlways == CorrectionsSpec => []EntriesBacked
<1>1. LedgerInv => EntriesBacked BY DEF LedgerInv, EntriesBacked, Backed
<1> QED BY LedgerInitially, LedgerStep, <1>1, PTL DEF CorrectionsSpec

(* What EffectSettles asks of a step. *)
Closes ==
    /\ receipts'["units"] # receipts["units"] =>
          provider'.units + provider'.inFlight = local
    /\ receipts'["units"] = receipts["units"] /\ receipts' # receipts =>
          NetCharge' = local + CountedTwice
    /\ Pass /\ kind' = "match" =>
          /\ provider.units + provider.inFlight = local
          /\ NetCharge = local + CountedTwice

LEMMA LineNumbers ==
    ASSUME LedgerInv
    PROVE  /\ provider.units \in Int /\ provider.inFlight \in Int /\ provider.minor \in Int
           /\ local \in Int /\ receipts \in [CorrectionId -> Int]
           /\ receipts["money-draft"] \in Int /\ receipts["money-next"] \in Int
BY UnitsAssumption, Numbers DEF LedgerInv, CorrectionsTypeOK, CorrectionId

(* A match is judged where no gap is left. *)
LEMMA MatchSettled ==
    ASSUME LedgerInv, LedgerComplete, Current, Diff = "match"
    PROVE  /\ provider.units + provider.inFlight = local
           /\ NetCharge = local + CountedTwice
<1>1. /\ provider.units \in Int /\ provider.inFlight \in Int /\ provider.minor \in Int
      /\ local \in Int /\ receipts["money-draft"] \in Int /\ receipts["money-next"] \in Int
  BY LineNumbers
<1>2. seen = provider /\ entries = receipts BY DEF Current, LedgerComplete
<1>3. /\ seen.status \in {"pending", "ready"}
      /\ seen.state \in {"none", "draft", "finalized"}
  BY DEF LedgerInv, Line
<1>4. UnitsGap = 0 /\ MoneyGap = 0 BY <1>3 DEF Diff
<1>5. provider.units + provider.inFlight = local BY <1>1, <1>2, <1>4 DEF UnitsGap
<1>6. NetCharge = local + CountedTwice
  BY <1>1, <1>2, <1>4 DEF MoneyGap, Credits, NetCharge, CountedTwice
<1> QED BY <1>5, <1>6

(* What a correction settles: it is the amount that was missing.           *)
LEMMA CorrectionSettles ==
    ASSUME LedgerInv, LedgerComplete, Current, Pass, receipts' # receipts
    PROVE  \/ /\ receipts'["units"] # receipts["units"]
              /\ provider'.units + provider'.inFlight = local
           \/ receipts'["units"] = receipts["units"] /\ NetCharge' = local + CountedTwice
<1>1. Diff \in {"units_mismatch", "money_mismatch"} /\ Apply(IdOf)
  BY DEF Pass, NothingApplied, Recover
<1>2. IdOf \in CorrectionId /\ AmountOf \in Int \ {NoAmount} BY <1>1, AmountMoves
<1>3. receipts[IdOf] = NoAmount /\ Act(IdOf, AmountOf) BY <1>1 DEF Apply
<1>4. receipts' = [receipts EXCEPT ![IdOf] = AmountOf] BY <1>3 DEF Act
<1>5. receipts \in [CorrectionId -> Int] /\ entries = receipts
  BY LineNumbers DEF LedgerComplete
<1>6. /\ provider.units \in Int /\ provider.inFlight \in Int /\ provider.minor \in Int /\ local \in Int
      /\ receipts["money-draft"] \in Int /\ receipts["money-next"] \in Int
  BY LineNumbers
<1>7. seen = provider BY DEF Current
<1>8. CASE Diff = "units_mismatch"
  <2>1. IdOf = "units" /\ AmountOf = local - (provider.units + provider.inFlight)
    BY <1>7, <1>8 DEF IdOf, AmountOf, UnitsGap
  <2>2. receipts'["units"] # receipts["units"] BY <1>2, <1>3, <1>4, <1>5, <2>1
  <2>3. provider' = Adjusted(AmountOf) BY <1>3, <2>1 DEF Act
  <2>4. provider'.units = provider.units + AmountOf /\ provider'.inFlight = provider.inFlight
    BY <2>3 DEF LedgerInv, Line, Adjusted
  <2>5. provider'.units + provider'.inFlight = local BY <1>6, <2>1, <2>4
  <2> QED BY <2>2, <2>5
<1>9. CASE Diff = "money_mismatch"
  <2>1. IdOf \in {"money-draft", "money-next"} BY <1>9 DEF IdOf, MoneyTarget
  <2>2. AmountOf = -(local - (provider.minor - (receipts["money-draft"] + receipts["money-next"])))
    BY <1>5, <1>7, <1>9 DEF AmountOf, MoneyGap, Credits
  <2>3. receipts'["units"] = receipts["units"] BY <1>4, <1>5, <2>1 DEF CorrectionId
  <2>4. CASE IdOf = "money-draft"
    <3>1. receipts["money-draft"] = 0 /\ receipts'["money-next"] = receipts["money-next"]
      BY <1>3, <1>4, <1>5, <2>4 DEF NoAmount, CorrectionId
    <3>2. provider' = Amended(AmountOf) BY <1>3, <2>4 DEF Act
    <3>3. provider'.minor = provider.minor - AmountOf BY <3>2 DEF LedgerInv, Line, Amended
    <3>4. NetCharge' = local + CountedTwice
      BY <1>2, <1>6, <2>2, <3>1, <3>3 DEF NetCharge, CountedTwice
    <3> QED BY <2>3, <3>4
  <2>5. CASE IdOf = "money-next"
    <3>1. receipts["money-next"] = 0 /\ receipts'["money-next"] = AmountOf
      BY <1>3, <1>4, <1>5, <2>5 DEF NoAmount, CorrectionId
    <3>2. provider' = provider BY <1>3, <2>5 DEF Act
    <3>3. NetCharge' = local + CountedTwice
      BY <1>2, <1>6, <2>2, <3>1, <3>2 DEF NetCharge, CountedTwice
    <3> QED BY <2>3, <3>3
  <2> QED BY <2>1, <2>4, <2>5
<1> QED BY <1>1, <1>8, <1>9

(* With every receipt on record and a current snapshot a correction closes *)
(* the gap of its own column, and a match is judged where none is left, up *)
(* to an amendment of the draft that invoice and credits both count, for   *)
(* any number of units (diff, credits_for, _build_correction, apply).      *)
THEOREM EffectSettlesAlways == CorrectionsSpec => EffectSettles
<1>1. LedgerInv /\ [CorrectionsNext]_correctionVars =>
        [LedgerComplete /\ Current => Closes]_correctionVars
  <2> SUFFICES ASSUME LedgerInv, [CorrectionsNext]_correctionVars, LedgerComplete, Current
               PROVE  Closes
    OBVIOUS
  <2>1. receipts' # receipts => Pass
    BY DEF CorrectionsNext, Report, Aggregate, ProviderInvoices, LocalChanges, World, Fetch, Backup, Restore,
           correctionVars
  <2>2. receipts' # receipts =>
           \/ /\ receipts'["units"] # receipts["units"]
              /\ provider'.units + provider'.inFlight = local
           \/ receipts'["units"] = receipts["units"] /\ NetCharge' = local + CountedTwice
    BY <2>1, CorrectionSettles
  <2>3. Pass /\ kind' = "match" =>
           /\ provider.units + provider.inFlight = local
           /\ NetCharge = local + CountedTwice
    BY MatchSettled DEF Pass
  <2> QED BY <2>2, <2>3 DEF Closes
<1>2. [][LedgerComplete /\ Current => Closes]_correctionVars => EffectSettles
  BY PTL DEF EffectSettles, Closes
<1> QED BY LedgerInitially, LedgerStep, <1>1, <1>2, PTL DEF CorrectionsSpec

-----------------------------------------------------------------------------
(* Meter reports: what was aggregated is what occurred, once.              *)

(* Accepted reports carry the month of their event; what is ready or was   *)
(* called a match has been aggregated.                                     *)
Aggregated(e) == <<e, occurred[e]>> \in counted
MeterTypes ==
    /\ month \in 0..LastMonth
    /\ occurred \in [MeterEvent -> 0..NotYet]
    /\ records \in [MeterEvent -> [status : {"absent", "pending", "ready"}, value : Nat]]
    /\ accepted \subseteq MeterEvent \X (0..LastMonth)
    /\ counted \subseteq accepted /\ matched \subseteq MeterEvent
MeterInv ==
    /\ MeterTypes
    /\ \A p \in accepted : p[2] = occurred[p[1]]
    /\ \A e \in MeterEvent : records[e].status = "ready" => Aggregated(e)
    /\ \A e \in matched : Aggregated(e)

(* One event counts as one, or not yet. *)
LEMMA ValueOf ==
    ASSUME MeterInv, NEW e \in MeterEvent
    PROVE  Value(e) = IF Aggregated(e) THEN 1 ELSE 0
<1> DEFINE mine == {p \in counted : p[1] = e}
<1>1. \A p \in mine : p = <<e, occurred[e]>>
  BY DEF MeterInv, MeterTypes
<1>2. CASE Aggregated(e)
  <2>1. mine = {<<e, occurred[e]>>} BY <1>1, <1>2 DEF Aggregated
  <2> QED BY <1>2, <2>1, FS_Singleton DEF Value
<1>3. CASE ~Aggregated(e)
  <2>1. mine = {} BY <1>1, <1>3 DEF Aggregated
  <2> QED BY <1>3, <2>1, FS_EmptySet DEF Value
<1> QED BY <1>2, <1>3

LEMMA MeterInitially == MeterInit => MeterInv
BY MeterAssumption DEF MeterInit, MeterInv, MeterTypes, NotYet, Unreported

LEMMA MeterStep == MeterInv /\ [MeterNext]_meterVars => MeterInv'
<1> USE MeterAssumption DEF NotYet
<1> SUFFICES ASSUME MeterInv, [MeterNext]_meterVars PROVE MeterInv' OBVIOUS
<1>1. CASE MonthEnds
  BY <1>1 DEF MonthEnds, MeterInv, MeterTypes, Aggregated
<1>2. CASE AggregateEvent
  BY <1>2 DEF AggregateEvent, MeterInv, MeterTypes, Aggregated
<1>3. ASSUME NEW e \in MeterEvent, Occurs(e) PROVE MeterInv'
  <2>1. \A p \in accepted : p[1] # e
    BY <1>3 DEF Occurs, MeterInv, MeterTypes
  <2>2. MeterTypes' BY <1>3 DEF Occurs, MeterInv, MeterTypes
  <2>3. \A f \in MeterEvent : Aggregated(f) => Aggregated(f)'
    BY <1>3, <2>1 DEF Occurs, MeterInv, MeterTypes, Aggregated
  <2>4. \A p \in accepted' : p[2] = occurred'[p[1]]
    BY <1>3, <2>1 DEF Occurs, MeterInv, MeterTypes
  <2> QED BY <1>3, <2>2, <2>3, <2>4 DEF Occurs, MeterInv, MeterTypes
<1>4. ASSUME NEW e \in MeterEvent, ReportEvent(e) PROVE MeterInv'
  <2>1. MeterTypes' BY <1>4 DEF ReportEvent, PayloadTimestamp, MeterInv, MeterTypes
  <2>2. \A p \in accepted' : p[2] = occurred'[p[1]]
    BY <1>4 DEF ReportEvent, PayloadTimestamp, MeterInv, MeterTypes
  <2>3. \A f \in MeterEvent : records'[f].status = "ready" => records[f].status = "ready"
    BY <1>4 DEF ReportEvent, MeterInv, MeterTypes
  <2> QED BY <1>4, <2>1, <2>2, <2>3 DEF ReportEvent, MeterInv, MeterTypes, Aggregated
<1>5. ASSUME NEW e \in MeterEvent, PollStatus(e) PROVE MeterInv'
  <2>1. Value(e) \in Nat /\ Aggregated(e)
    BY <1>5, ValueOf DEF PollStatus
  <2>2. MeterTypes' BY <1>5, <2>1 DEF PollStatus, MeterInv, MeterTypes
  <2> QED BY <1>5, <2>1, <2>2 DEF PollStatus, MeterInv, MeterTypes, Aggregated
<1>6. ASSUME NEW e \in MeterEvent, ReconcileEvent(e) PROVE MeterInv'
  BY <1>6 DEF ReconcileEvent, Reconcileable, MeterInv, MeterTypes, Aggregated
<1>7. CASE UNCHANGED meterVars
  BY <1>7 DEF meterVars, MeterInv, MeterTypes, Aggregated
<1> QED BY <1>1, <1>2, <1>3, <1>4, <1>5, <1>6, <1>7 DEF MeterNext

(* Usage is billed once and to its own month, for any set of events and    *)
(* any number of months (report, poll_status, reconcile).                  *)
THEOREM MeteredOnceAlways == MeterSpec => []MeteredOnce
<1>1. MeterInv => MeteredOnce
  BY ValueOf DEF MeterInv, MeterTypes, MeteredOnce
<1> QED BY MeterInitially, MeterStep, <1>1, PTL DEF MeterSpec

-----------------------------------------------------------------------------
(***************************************************************************)
(* Webhooks: what a customer may do, for every set of events.  The state   *)
(* of an object is the furthest of the events applied to it, so neither    *)
(* order, repetition, restarts nor forgeries matter, and time only takes   *)
(* actions away.                                                           *)
(***************************************************************************)
(* Events say which object they are about, and the events of one object    *)
(* that name a customer name the same one.                                 *)
ObjectsTyped ==
    /\ Invoice \cap Subscription = {}
    /\ \A e \in Event : e.type \notin InvoiceType \cup SubscriptionType => e.object = None
OneCustomer ==
    \A e, f \in Event :
        e.object = f.object /\ e.object # None /\ e.customer # None /\ f.customer # None
           => e.customer = f.customer

(* What a memory has to do with the events it has applied. *)
AppliedIn(m, x) == {e \in Event : m.receipt[e] = "applied" /\ e.object = x}
Named(m, x) == {e \in AppliedIn(m, x) : e.customer # None}
Tracks(m) ==
    /\ \A i \in Invoice :
          /\ m.invoice[i] = "open"
                \/ \E e \in AppliedIn(m, i) : InvoiceState[e.type] = m.invoice[i]
          /\ \A e \in AppliedIn(m, i) : Rank[InvoiceState[e.type]] <= Rank[m.invoice[i]]
    /\ \A s \in Subscription :
          /\ m.subscription[s] = "active"
                \/ \E e \in AppliedIn(m, s) : SubscriptionState[e.type] = m.subscription[s]
          /\ \A e \in AppliedIn(m, s) : SubRank[SubscriptionState[e.type]] <= SubRank[m.subscription[s]]
Owned(m) ==
    /\ \A i \in Invoice : /\ m.owner[i] = None => Named(m, i) = {}
                          /\ m.owner[i] # None => \E e \in Named(m, i) : e.customer = m.owner[i]
    /\ \A s \in Subscription :
          /\ m.subscriber[s] = None => Named(m, s) = {}
          /\ m.subscriber[s] # None => \E e \in Named(m, s) : e.customer = m.subscriber[s]
Counts(m) ==
    \A e \in Event :
        /\ m.meterErrors[e] = IF e.type = MeterType /\ m.receipt[e] = "applied" THEN 1 ELSE 0
        /\ m.ignored[e] = IF m.receipt[e] = "ignored_unknown_type" THEN 1 ELSE 0
Dated(m) == \A i \in Invoice : m.failedAt[i] # None => \E e \in Event : m.failedAt[i] = e.created
SignedIn(m, s) == \A e \in Event : m.receipt[e] # "none" => e \in s
Good(m) == m \in Memory /\ Tracks(m) /\ Owned(m) /\ Counts(m) /\ Dated(m)
WebhookInv ==
    /\ WebhookTypeOK /\ Good(mem) /\ Good(disk)
    /\ SignedIn(mem, signed) /\ SignedIn(disk, signed)

LEMMA Ranks ==
    /\ \A type \in InvoiceType : InvoiceState[type] \in DOMAIN Rank \ {"open"}
    /\ \A type \in SubscriptionType : SubscriptionState[type] \in DOMAIN SubRank \ {"active"}
    /\ DOMAIN Rank = {"open", "finalized", "payment_failed", "paid"}
    /\ DOMAIN SubRank = {"active", "canceled", "deleted"}
    /\ \A s \in DOMAIN Rank : Rank[s] \in Nat
    /\ \A s \in DOMAIN SubRank : SubRank[s] \in Nat
    /\ Rank["open"] = 0 /\ Rank["finalized"] = 1 /\ Rank["payment_failed"] = 2 /\ Rank["paid"] = 3
    /\ SubRank["active"] = 0 /\ SubRank["canceled"] = 1 /\ SubRank["deleted"] = 2
    /\ InvoiceState["invoice.paid"] = "paid"
    /\ InvoiceState["invoice.payment_failed"] = "payment_failed"
    /\ InvoiceState["invoice.finalized"] = "finalized"
BY DEF InvoiceType, SubscriptionType, InvoiceState, SubscriptionState, Rank, SubRank

LEMMA WebhookInitially == WebhookInit => WebhookInv
<1> USE WebhookAssumption
<1> SUFFICES ASSUME WebhookInit PROVE WebhookInv OBVIOUS
<1>1. Empty \in Memory BY Ranks DEF Empty, Memory, Receipt
<1>2. \A x : AppliedIn(Empty, x) = {} BY DEF AppliedIn, Empty
<1>3. Tracks(Empty) /\ Owned(Empty) /\ Counts(Empty) /\ Dated(Empty) /\ SignedIn(Empty, {})
  BY <1>2 DEF Tracks, Owned, Named, Counts, Dated, SignedIn, Empty
<1> QED BY <1>1, <1>3 DEF WebhookInit, WebhookInv, WebhookTypeOK, Good

(* Receipts of other events stay as they are. *)
OthersStay(e) == \A f \in Event : f # e => mem'.receipt[f] = mem.receipt[f]

(* An event about an invoice. *)
LEMMA InvoiceApplied ==
    ASSUME ObjectsTyped, Good(mem), NEW e \in Event, ~Seen(e),
           e.object # None, ApplyInvoice(e)
    PROVE  Good(mem') /\ OthersStay(e)
<1> DEFINE i == e.object
<1> USE WebhookAssumption
<1>1. /\ i \in Invoice /\ e.type \in InvoiceType /\ e \in EventRecord
      /\ mem.receipt[e] = "none"
  BY DEF ApplyInvoice, Seen, Good, Memory, Receipt
<1>2. /\ mem'.receipt = [mem.receipt EXCEPT ![e] = "applied"]
      /\ mem'.invoice = [mem.invoice EXCEPT ![i] = InvoiceTransition(mem.invoice[i], InvoiceState[e.type])]
      /\ mem'.owner = [mem.owner EXCEPT ![i] = Known(mem.owner[i], e.customer)]
      /\ mem'.subscription = mem.subscription /\ mem'.subscriber = mem.subscriber
      /\ mem'.meterErrors = mem.meterErrors /\ mem'.ignored = mem.ignored
  BY <1>1 DEF ApplyInvoice, Receive, Good, Memory
<1>3. InvoiceTransition(mem.invoice[i], InvoiceState[e.type]) \in DOMAIN Rank
  BY <1>1, Ranks DEF InvoiceTransition, Good, Memory
<1>4. mem' \in Memory
  <2>1. Known(mem.owner[i], e.customer) \in Customer \cup {None}
    BY <1>1 DEF Known, Good, Memory, EventRecord
  <2>2. e.created \in Nat BY <1>1 DEF EventRecord
  <2> QED BY <1>1, <1>3, <2>1, <2>2 DEF ApplyInvoice, Receive, Good, Memory, Receipt
<1>5. /\ AppliedIn(mem', i) = AppliedIn(mem, i) \cup {e}
      /\ \A x : x # i => AppliedIn(mem', x) = AppliedIn(mem, x)
  BY <1>1, <1>2 DEF AppliedIn, Good, Memory
<1>6. i \notin Subscription BY <1>1 DEF ObjectsTyped
<1>7. Tracks(mem')
  <2>1. ASSUME NEW j \in Invoice
        PROVE /\ mem'.invoice[j] = "open"
                   \/ \E f \in AppliedIn(mem', j) : InvoiceState[f.type] = mem'.invoice[j]
              /\ \A f \in AppliedIn(mem', j) : Rank[InvoiceState[f.type]] <= Rank[mem'.invoice[j]]
    <3>1. CASE j # i BY <1>2, <1>5, <3>1 DEF Good, Tracks, Memory
    <3>2. CASE j = i
      <4>1. /\ mem'.invoice[i] = IF Rank[InvoiceState[e.type]] > Rank[mem.invoice[i]]
                                 THEN InvoiceState[e.type] ELSE mem.invoice[i]
            /\ Rank[mem.invoice[i]] \in Nat /\ Rank[InvoiceState[e.type]] \in Nat
        BY <1>1, <1>2, Ranks DEF InvoiceTransition, Good, Memory
      <4>2. \A f \in AppliedIn(mem, i) : f.type \in InvoiceType /\ Rank[InvoiceState[f.type]] \in Nat
        BY <1>1, <1>6, Ranks DEF AppliedIn, ObjectsTyped
      <4>3. /\ mem.invoice[i] = "open"
                 \/ \E f \in AppliedIn(mem, i) : InvoiceState[f.type] = mem.invoice[i]
            /\ \A f \in AppliedIn(mem, i) : Rank[InvoiceState[f.type]] <= Rank[mem.invoice[i]]
        BY <1>1 DEF Good, Tracks
      <4>4. CASE Rank[InvoiceState[e.type]] > Rank[mem.invoice[i]]
        BY <1>5, <3>2, <4>1, <4>2, <4>3, <4>4
      <4>5. CASE ~(Rank[InvoiceState[e.type]] > Rank[mem.invoice[i]])
        BY <1>5, <3>2, <4>1, <4>2, <4>3, <4>5
      <4> QED BY <4>4, <4>5
    <3> QED BY <3>1, <3>2
  <2> QED BY <1>2, <1>5, <1>6, <2>1 DEF Tracks, Good
<1>8. Owned(mem')
  <2>1. ASSUME NEW j \in Invoice
        PROVE /\ mem'.owner[j] = None => Named(mem', j) = {}
              /\ mem'.owner[j] # None => \E f \in Named(mem', j) : f.customer = mem'.owner[j]
    <3>1. CASE j # i BY <1>2, <1>5, <3>1 DEF Good, Owned, Memory, Named
    <3>2. CASE j = i
      <4>1. mem'.owner[i] = IF e.customer = None THEN mem.owner[i] ELSE e.customer
        BY <1>1, <1>2 DEF Known, Good, Memory
      <4>2. /\ mem.owner[i] = None => Named(mem, i) = {}
            /\ mem.owner[i] # None => \E f \in Named(mem, i) : f.customer = mem.owner[i]
        BY <1>1 DEF Good, Owned
      <4> QED BY <1>5, <3>2, <4>1, <4>2 DEF Named
    <3> QED BY <3>1, <3>2
  <2> QED BY <1>2, <1>5, <1>6, <2>1 DEF Owned, Named, Good
<1>9. Counts(mem')
  BY <1>1, <1>2 DEF Counts, Good, Memory, InvoiceType, MeterType
<1>10. OthersStay(e) BY <1>1, <1>2 DEF OthersStay, Good, Memory
<1>11. Dated(mem')
  <2>1. \A j \in Invoice : mem'.failedAt[j] \in {mem.failedAt[j], e.created}
    BY <1>1 DEF ApplyInvoice, Receive, Good, Memory
  <2> QED BY <1>1, <2>1 DEF Dated, Good
<1> QED BY <1>4, <1>7, <1>8, <1>9, <1>10, <1>11 DEF Good
(* An event about a subscription. *)
LEMMA SubscriptionApplied ==
    ASSUME ObjectsTyped, Good(mem), NEW e \in Event, ~Seen(e),
           e.object # None, ApplySubscription(e)
    PROVE  Good(mem') /\ OthersStay(e)
<1> DEFINE i == e.object
<1> USE WebhookAssumption
<1>1. /\ i \in Subscription /\ e.type \in SubscriptionType /\ e \in EventRecord
      /\ mem.receipt[e] = "none"
  BY DEF ApplySubscription, Seen, Good, Memory, Receipt
<1>2. /\ mem'.receipt = [mem.receipt EXCEPT ![e] = "applied"]
      /\ mem'.subscription = [mem.subscription EXCEPT ![i] = SubscriptionTransition(mem.subscription[i], SubscriptionState[e.type])]
      /\ mem'.subscriber = [mem.subscriber EXCEPT ![i] = Known(mem.subscriber[i], e.customer)]
      /\ mem'.invoice = mem.invoice /\ mem'.owner = mem.owner
      /\ mem'.meterErrors = mem.meterErrors /\ mem'.ignored = mem.ignored
  BY <1>1 DEF ApplySubscription, Receive, Good, Memory
<1>3. SubscriptionTransition(mem.subscription[i], SubscriptionState[e.type]) \in DOMAIN SubRank
  BY <1>1, Ranks DEF SubscriptionTransition, Good, Memory
<1>4. mem' \in Memory
  <2>1. Known(mem.subscriber[i], e.customer) \in Customer \cup {None}
    BY <1>1 DEF Known, Good, Memory, EventRecord
  <2> QED BY <1>1, <1>3, <2>1 DEF ApplySubscription, Receive, Good, Memory, Receipt
<1>5. /\ AppliedIn(mem', i) = AppliedIn(mem, i) \cup {e}
      /\ \A x : x # i => AppliedIn(mem', x) = AppliedIn(mem, x)
  BY <1>1, <1>2 DEF AppliedIn, Good, Memory
<1>6. i \notin Invoice BY <1>1 DEF ObjectsTyped
<1>7. Tracks(mem')
  <2>1. ASSUME NEW j \in Subscription
        PROVE /\ mem'.subscription[j] = "active"
                   \/ \E f \in AppliedIn(mem', j) : SubscriptionState[f.type] = mem'.subscription[j]
              /\ \A f \in AppliedIn(mem', j) : SubRank[SubscriptionState[f.type]] <= SubRank[mem'.subscription[j]]
    <3>1. CASE j # i BY <1>2, <1>5, <3>1 DEF Good, Tracks, Memory
    <3>2. CASE j = i
      <4>1. /\ mem'.subscription[i] = IF SubRank[SubscriptionState[e.type]] > SubRank[mem.subscription[i]]
                                 THEN SubscriptionState[e.type] ELSE mem.subscription[i]
            /\ SubRank[mem.subscription[i]] \in Nat /\ SubRank[SubscriptionState[e.type]] \in Nat
        BY <1>1, <1>2, Ranks DEF SubscriptionTransition, Good, Memory
      <4>2. \A f \in AppliedIn(mem, i) : f.type \in SubscriptionType /\ SubRank[SubscriptionState[f.type]] \in Nat
        BY <1>1, <1>6, Ranks DEF AppliedIn, ObjectsTyped
      <4>3. /\ mem.subscription[i] = "active"
                 \/ \E f \in AppliedIn(mem, i) : SubscriptionState[f.type] = mem.subscription[i]
            /\ \A f \in AppliedIn(mem, i) : SubRank[SubscriptionState[f.type]] <= SubRank[mem.subscription[i]]
        BY <1>1 DEF Good, Tracks
      <4>4. CASE SubRank[SubscriptionState[e.type]] > SubRank[mem.subscription[i]]
        BY <1>5, <3>2, <4>1, <4>2, <4>3, <4>4
      <4>5. CASE ~(SubRank[SubscriptionState[e.type]] > SubRank[mem.subscription[i]])
        BY <1>5, <3>2, <4>1, <4>2, <4>3, <4>5
      <4> QED BY <4>4, <4>5
    <3> QED BY <3>1, <3>2
  <2> QED BY <1>2, <1>5, <1>6, <2>1 DEF Tracks, Good
<1>8. Owned(mem')
  <2>1. ASSUME NEW j \in Subscription
        PROVE /\ mem'.subscriber[j] = None => Named(mem', j) = {}
              /\ mem'.subscriber[j] # None => \E f \in Named(mem', j) : f.customer = mem'.subscriber[j]
    <3>1. CASE j # i BY <1>2, <1>5, <3>1 DEF Good, Owned, Memory, Named
    <3>2. CASE j = i
      <4>1. mem'.subscriber[i] = IF e.customer = None THEN mem.subscriber[i] ELSE e.customer
        BY <1>1, <1>2 DEF Known, Good, Memory
      <4>2. /\ mem.subscriber[i] = None => Named(mem, i) = {}
            /\ mem.subscriber[i] # None => \E f \in Named(mem, i) : f.customer = mem.subscriber[i]
        BY <1>1 DEF Good, Owned
      <4> QED BY <1>5, <3>2, <4>1, <4>2 DEF Named
    <3> QED BY <3>1, <3>2
  <2> QED BY <1>2, <1>5, <1>6, <2>1 DEF Owned, Named, Good
<1>9. Counts(mem')
  BY <1>1, <1>2 DEF Counts, Good, Memory, SubscriptionType, MeterType
<1>10. OthersStay(e) BY <1>1, <1>2 DEF OthersStay, Good, Memory
<1>11. Dated(mem')
  <2>1. mem'.failedAt = mem.failedAt BY <1>1 DEF ApplySubscription, Receive, Good, Memory
  <2> QED BY <2>1 DEF Dated, Good
<1> QED BY <1>4, <1>7, <1>8, <1>9, <1>10, <1>11 DEF Good
(* An event about neither, and a body that names no object. *)
LEMMA ReceiptGiven ==
    ASSUME mem \in Memory, NEW e \in Event, NEW r \in Receipt
    PROVE  LET m == Receive(e, r)
           IN  /\ m \in Memory /\ m.receipt = [mem.receipt EXCEPT ![e] = r]
               /\ m.invoice = mem.invoice /\ m.owner = mem.owner /\ m.failedAt = mem.failedAt
               /\ m.subscription = mem.subscription /\ m.subscriber = mem.subscriber
               /\ m.meterErrors = mem.meterErrors /\ m.ignored = mem.ignored
BY DEF Memory, Receive

LEMMA OtherApplied ==
    ASSUME ObjectsTyped, Good(mem), NEW e \in Event, ~Seen(e),
           \/ ApplyInvoice(e) /\ e.object = None
           \/ ApplySubscription(e) /\ e.object = None
           \/ ApplyMeterError(e) \/ IgnoreUnknown(e)
    PROVE  Good(mem') /\ OthersStay(e)
<1> USE WebhookAssumption
<1> DEFINE Given(r) ==
      /\ mem' \in Memory /\ mem'.receipt = [mem.receipt EXCEPT ![e] = r]
      /\ mem'.invoice = mem.invoice /\ mem'.owner = mem.owner
      /\ mem'.subscription = mem.subscription /\ mem'.subscriber = mem.subscriber
      /\ mem'.failedAt = mem.failedAt
<1>1. e.object = None /\ mem.receipt[e] = "none" /\ mem \in Memory /\ Counts(mem)
  BY DEF ObjectsTyped, ApplyMeterError, IgnoreUnknown, KnownType, MeterType, InvoiceType,
         SubscriptionType, Seen, Good
<1> DEFINE Done == \E r \in Receipt : Given(r) /\ Counts(mem')
<1>2. ASSUME (ApplyInvoice(e) \/ ApplySubscription(e)) /\ e.object = None PROVE Done
  <2>1. mem' = Receive(e, "rejected_malformed") /\ e.type # MeterType
    BY <1>1, <1>2 DEF ApplyInvoice, ApplySubscription, MeterType, InvoiceType, SubscriptionType
  <2>2. Given("rejected_malformed") /\ mem'.meterErrors = mem.meterErrors /\ mem'.ignored = mem.ignored
    BY <1>1, <2>1, ReceiptGiven DEF Receipt
  <2>3. Counts(mem') BY <1>1, <2>1, <2>2 DEF Counts, Memory
  <2> QED BY <2>2, <2>3 DEF Receipt
<1>3. ASSUME ApplyMeterError(e) PROVE Done
  <2>1. /\ e.type = MeterType
        /\ mem' = [Receive(e, "applied") EXCEPT !.meterErrors[e] = @ + 1]
    BY <1>3 DEF ApplyMeterError
  <2>2. /\ Given("applied") /\ mem'.ignored = mem.ignored
        /\ mem'.meterErrors = [mem.meterErrors EXCEPT ![e] = mem.meterErrors[e] + 1]
    <3>1. /\ mem'.receipt = [mem.receipt EXCEPT ![e] = "applied"]
          /\ mem'.invoice = mem.invoice /\ mem'.owner = mem.owner
          /\ mem'.subscription = mem.subscription /\ mem'.subscriber = mem.subscriber
          /\ mem'.failedAt = mem.failedAt
          /\ mem'.meterErrors = [mem.meterErrors EXCEPT ![e] = mem.meterErrors[e] + 1]
          /\ mem'.ignored = mem.ignored
      BY <1>1, <2>1 DEF Receive, Memory
    <3>2. /\ [mem.receipt EXCEPT ![e] = "applied"] \in [Event -> Receipt]
          /\ [mem.meterErrors EXCEPT ![e] = mem.meterErrors[e] + 1] \in [Event -> Nat]
      BY <1>1 DEF Memory, Receipt
    <3>3. mem' = [mem EXCEPT !.receipt = [mem.receipt EXCEPT ![e] = "applied"],
                             !.meterErrors = [mem.meterErrors EXCEPT ![e] = mem.meterErrors[e] + 1]]
      BY <1>1, <2>1 DEF Receive, Memory
    <3>4. mem' \in Memory BY <1>1, <3>2, <3>3 DEF Memory
    <3> QED BY <3>1, <3>4
  <2>3. Counts(mem') BY <1>1, <2>1, <2>2 DEF Counts, Memory
  <2> QED BY <2>2, <2>3 DEF Receipt
<1>4. ASSUME IgnoreUnknown(e) PROVE Done
  <2>1. /\ e.type # MeterType
        /\ mem' = [Receive(e, "ignored_unknown_type") EXCEPT !.ignored[e] = @ + 1]
    BY <1>4 DEF IgnoreUnknown, KnownType
  <2>2. /\ Given("ignored_unknown_type") /\ mem'.meterErrors = mem.meterErrors
        /\ mem'.ignored = [mem.ignored EXCEPT ![e] = mem.ignored[e] + 1]
    <3>1. /\ mem'.receipt = [mem.receipt EXCEPT ![e] = "ignored_unknown_type"]
          /\ mem'.invoice = mem.invoice /\ mem'.owner = mem.owner
          /\ mem'.subscription = mem.subscription /\ mem'.subscriber = mem.subscriber
          /\ mem'.failedAt = mem.failedAt
          /\ mem'.ignored = [mem.ignored EXCEPT ![e] = mem.ignored[e] + 1]
          /\ mem'.meterErrors = mem.meterErrors
      BY <1>1, <2>1 DEF Receive, Memory
    <3>2. /\ [mem.receipt EXCEPT ![e] = "ignored_unknown_type"] \in [Event -> Receipt]
          /\ [mem.ignored EXCEPT ![e] = mem.ignored[e] + 1] \in [Event -> Nat]
      BY <1>1 DEF Memory, Receipt
    <3>3. mem' = [mem EXCEPT !.receipt = [mem.receipt EXCEPT ![e] = "ignored_unknown_type"],
                             !.ignored = [mem.ignored EXCEPT ![e] = mem.ignored[e] + 1]]
      BY <1>1, <2>1 DEF Receive, Memory
    <3>4. mem' \in Memory BY <1>1, <3>2, <3>3 DEF Memory
    <3> QED BY <3>1, <3>4
  <2>3. Counts(mem') BY <1>1, <2>1, <2>2 DEF Counts, Memory
  <2> QED BY <2>2, <2>3 DEF Receipt
<1>5. PICK r \in Receipt : Given(r) /\ Counts(mem') BY <1>2, <1>3, <1>4
<1>6. \A x : x # None => AppliedIn(mem', x) = AppliedIn(mem, x)
  BY <1>1, <1>5 DEF AppliedIn, Memory
<1>7. Tracks(mem') /\ Owned(mem') /\ Dated(mem')
  BY <1>5, <1>6 DEF Tracks, Owned, Named, Dated, Good
<1>8. OthersStay(e) BY <1>1, <1>5 DEF OthersStay, Memory
<1> QED BY <1>5, <1>7, <1>8 DEF Good

LEMMA WebhookStep ==
    ASSUME ObjectsTyped
    PROVE  WebhookInv /\ [WebhookNext]_webhookVars => WebhookInv'
<1> SUFFICES ASSUME WebhookInv, [WebhookNext]_webhookVars PROVE WebhookInv' OBVIOUS
<1>1. ASSUME NEW e \in Event, NEW good \in BOOLEAN, Deliver(e, good) PROVE WebhookInv'
  <2>1. UNCHANGED <<disk, now, crashes>> /\ signed \subseteq signed' /\ signed' \subseteq Event
    BY <1>1 DEF Deliver, WebhookInv, WebhookTypeOK
  <2>2. SignedIn(disk, signed)' BY <2>1 DEF WebhookInv, SignedIn
  <2>3. CASE UNCHANGED mem
    BY <2>1, <2>2, <2>3 DEF WebhookInv, WebhookTypeOK, SignedIn
  <2>4. CASE ~(UNCHANGED mem)
    <3>1. /\ good /\ ~Seen(e) /\ e \in signed'
          /\ ApplyInvoice(e) \/ ApplySubscription(e) \/ ApplyMeterError(e) \/ IgnoreUnknown(e)
      BY <1>1, <2>4 DEF Deliver, SignatureOk
    <3>2. Good(mem') /\ OthersStay(e)
      BY <3>1, InvoiceApplied, SubscriptionApplied, OtherApplied DEF WebhookInv
    <3>4. SignedIn(mem, signed)' BY <2>1, <3>1, <3>2 DEF WebhookInv, SignedIn, OthersStay
    <3> QED BY <2>1, <2>2, <3>2, <3>4 DEF WebhookInv, WebhookTypeOK, Good
  <2> QED BY <2>3, <2>4
<1>2. CASE Save BY <1>2 DEF Save, WebhookInv, WebhookTypeOK
<1>3. CASE Restart BY <1>3, WebhookAssumption DEF Restart, WebhookInv, WebhookTypeOK
<1>4. CASE Tick BY <1>4, WebhookAssumption DEF Tick, WebhookInv, WebhookTypeOK
<1>5. CASE UNCHANGED webhookVars BY <1>5 DEF webhookVars, WebhookInv, WebhookTypeOK
<1> QED BY <1>1, <1>2, <1>3, <1>4, <1>5 DEF WebhookNext

LEMMA OrderIsFree == ASSUME ObjectsTyped, WebhookInv PROVE OrderFree
<1>1. \A i \in Invoice : \A e \in About(i) : e.type \in InvoiceType
  BY WebhookAssumption DEF About, Applied, ObjectsTyped
<1>2. \A s \in Subscription : \A e \in About(s) : e.type \in SubscriptionType
  BY WebhookAssumption DEF About, Applied, ObjectsTyped
<1>3. \A x : About(x) = AppliedIn(mem, x) BY DEF About, Applied, AppliedIn
<1>4. mem \in Memory BY DEF WebhookInv, Good
<1>5. ASSUME NEW i \in Invoice
      PROVE LET states == {"open"} \cup {InvoiceState[e.type] : e \in About(i)}
            IN  /\ mem.invoice[i] \in states
                /\ \A s \in states : Rank[s] <= Rank[mem.invoice[i]]
  <2>1. Rank["open"] <= Rank[mem.invoice[i]]  BY <1>4, Ranks DEF Memory
  <2> QED BY <1>3, <2>1 DEF WebhookInv, Good, Tracks
<1>6. ASSUME NEW s \in Subscription
      PROVE LET states == {"active"} \cup {SubscriptionState[e.type] : e \in About(s)}
            IN  /\ mem.subscription[s] \in states
                /\ \A t \in states : SubRank[t] <= SubRank[mem.subscription[s]]
  <2>1. SubRank["active"] <= SubRank[mem.subscription[s]]  BY <1>4, Ranks DEF Memory
  <2> QED BY <1>3, <2>1 DEF WebhookInv, Good, Tracks
<1> QED BY <1>5, <1>6 DEF OrderFree

(* An event that names a customer has given its object to that customer.   *)
LEMMA OwnerIsNamed ==
    ASSUME ObjectsTyped, OneCustomer, WebhookInv, NEW c \in Customer,
           NEW e \in Applied, e.object # None, e.customer = c
    PROVE  /\ e.type \in InvoiceType =>
                  e.object \in Invoice /\ mem.owner[e.object] = c
           /\ e.type \in SubscriptionType =>
                  e.object \in Subscription /\ mem.subscriber[e.object] = c
           /\ e.type \in InvoiceType \cup SubscriptionType
<1> USE WebhookAssumption
<1>1. e \in Event /\ e.type \in InvoiceType \cup SubscriptionType
      /\ (e.type \in InvoiceType => e.object \in Invoice)
      /\ (e.type \in SubscriptionType => e.object \in Subscription)
  BY DEF Applied, ObjectsTyped
<1>2. e \in Named(mem, e.object) BY DEF Named, AppliedIn, Applied
<1>3. \A f \in Named(mem, e.object) : f.customer = c
  BY <1>1 DEF Named, AppliedIn, OneCustomer
<1> QED BY <1>1, <1>2, <1>3 DEF WebhookInv, Good, Owned

LEMMA ProvisionNeedsPayment == ASSUME ObjectsTyped, OneCustomer, WebhookInv PROVE ProvisionIsPaid
<1> SUFFICES ASSUME NEW c \in Customer, "provision" \in AllowedTo(c)
             PROVE  LET mine == {e \in Applied : e.object # None /\ e.customer = c}
                        Paid(x) == \E e \in About(x) : e.type = "invoice.paid"
                    IN  /\ \E e \in mine : Paid(e.object)
                        /\ \A e \in mine : e.type = "invoice.payment_failed" => Paid(e.object)
                        /\ \A e \in mine : e.type \notin SubscriptionType
  BY DEF ProvisionIsPaid
<1> DEFINE mine == {e \in Applied : e.object # None /\ e.customer = c}
<1> DEFINE Paid(x) == \E e \in About(x) : e.type = "invoice.paid"
<1>1. CustomerState(mem, c) = "paid"
  <2>1. CustomerState(mem, c) \in {"deleted", "canceled", "payment_failed", "paid", "open"}
    BY DEF CustomerState
  <2> QED BY <2>1 DEF AllowedTo, Allowed
<1>2. /\ "paid" \in InvoicesOf(mem, c) /\ "payment_failed" \notin InvoicesOf(mem, c)
      /\ "deleted" \notin SubscriptionsOf(mem, c) /\ "canceled" \notin SubscriptionsOf(mem, c)
  BY <1>1 DEF CustomerState
<1>3. mem \in Memory /\ Tracks(mem) /\ Owned(mem) BY DEF WebhookInv, Good
<1>4. \A i \in Invoice : mem.invoice[i] = "paid" => Paid(i)
  <2> SUFFICES ASSUME NEW i \in Invoice, mem.invoice[i] = "paid" PROVE Paid(i) OBVIOUS
  <2>1. PICK e \in AppliedIn(mem, i) : InvoiceState[e.type] = "paid" BY <1>3 DEF Tracks
  <2>2. e.type \in InvoiceType
    BY WebhookAssumption DEF AppliedIn, ObjectsTyped
  <2>3. e.type = "invoice.paid" BY <2>1, <2>2, Ranks DEF InvoiceType
  <2> QED BY <2>3 DEF About, Applied, AppliedIn
<1>5. \E e \in mine : Paid(e.object)
  <2>1. PICK i \in Invoice : mem.owner[i] = c /\ mem.invoice[i] = "paid"
    BY <1>2 DEF InvoicesOf
  <2>2. PICK e \in Named(mem, i) : e.customer = c
    BY <1>3, <2>1, WebhookAssumption DEF Owned
  <2>3. e \in mine /\ e.object = i
    BY <2>1, <2>2, WebhookAssumption DEF Named, AppliedIn, Applied
  <2> QED BY <1>4, <2>1, <2>3
<1>6. ASSUME NEW e \in mine, e.type = "invoice.payment_failed" PROVE Paid(e.object)
  <2>1. e.object \in Invoice /\ mem.owner[e.object] = c
    BY <1>6, OwnerIsNamed DEF InvoiceType
  <2>2. mem.invoice[e.object] # "payment_failed" BY <1>2, <2>1 DEF InvoicesOf
  <2>3. Rank["payment_failed"] <= Rank[mem.invoice[e.object]]
    BY <1>3, <1>6, <2>1, Ranks DEF Tracks, AppliedIn, Applied
  <2>4. mem.invoice[e.object] = "paid" BY <1>3, <2>1, <2>2, <2>3, Ranks DEF Memory
  <2> QED BY <1>4, <2>1, <2>4
<1>7. ASSUME NEW e \in mine, e.type \in SubscriptionType PROVE FALSE
  <2>1. e.object \in Subscription /\ mem.subscriber[e.object] = c BY <1>7, OwnerIsNamed
  <2>2. SubRank[SubscriptionState[e.type]] <= SubRank[mem.subscription[e.object]]
    BY <1>3, <2>1 DEF Tracks, AppliedIn, Applied
  <2>3. mem.subscription[e.object] # "active" BY <1>7, <2>2, Ranks
  <2>4. mem.subscription[e.object] \in {"canceled", "deleted"}
    BY <1>3, <2>1, <2>3, Ranks DEF Memory
  <2> QED BY <1>2, <2>1, <2>4 DEF SubscriptionsOf
<1> QED BY <1>5, <1>6, <1>7

(* Order, repetition, restarts and forgeries change nothing of what a      *)
(* customer may do, for any set of events of which those of one object     *)
(* name one customer (deliver, evaluate).                                  *)
THEOREM WebhookSoundAlways ==
    ASSUME ObjectsTyped, OneCustomer PROVE WebhookSpec => []WebhookSound
<1>1. WebhookInv => WebhookSound
  <2> SUFFICES ASSUME WebhookInv PROVE WebhookSound OBVIOUS
  <2>1. AppliedOnce BY DEF WebhookInv, Good, Counts, AppliedOnce, Applied
  <2>2. SignedOnly BY DEF WebhookInv, SignedIn, SignedOnly, Seen
  <2> QED BY <2>1, <2>2, OrderIsFree, ProvisionNeedsPayment DEF WebhookSound, WebhookInv
<1>2. WebhookInv /\ [WebhookNext]_webhookVars => WebhookInv' BY WebhookStep
<1> QED BY WebhookInitially, <1>1, <1>2, PTL DEF WebhookSpec
-----------------------------------------------------------------------------
(* Events were made at some time, and not at every time.                   *)
EventsBounded == \E limit \in Nat : \A e \in Event : e.created <= limit

(* A set of times below a limit has a latest. *)
LEMMA LatestExists ==
    ASSUME NEW S \in SUBSET Nat, S # {}, NEW limit \in Nat, \A t \in S : t <= limit
    PROVE  \E t \in S : \A u \in S : u <= t
<1> DEFINE bounds == {n \in Nat : \A t \in S : t <= n}
<1>1. bounds \subseteq Nat /\ bounds # {} OBVIOUS
<1>2. PICK least \in bounds : \A n \in bounds : ~(<<n, least>> \in OpToRel(<, Nat))
  BY <1>1, NatLessThanWellFounded, WFMin
<1>3. \A n \in bounds : ~(n < least) BY <1>1, <1>2 DEF OpToRel
<1>4. least \in S
  <2> SUFFICES ASSUME least \notin S PROVE FALSE OBVIOUS
  <2>1. \A t \in S : t < least BY <1>1
  <2>2. least # 0
    <3>1. PICK t \in S : TRUE OBVIOUS
    <3> QED BY <2>1, <3>1
  <2>3. least - 1 \in bounds BY <2>1, <2>2
  <2> QED BY <1>3, <2>3
<1> QED BY <1>4

(* The failure on record is a time, or there is none. *)
LEMMA FailureIsTime ==
    ASSUME EventsBounded, WebhookInv, NEW c \in Customer
    PROVE  LastFailure(mem, c) = None \/ LastFailure(mem, c) \in Nat
<1> DEFINE S == FailuresOf(mem, c)
<1>1. CASE S = {} BY <1>1 DEF LastFailure
<1>2. CASE S # {}
  <2>1. PICK limit \in Nat : \A e \in Event : e.created <= limit BY DEF EventsBounded
  <2>2. S \in SUBSET Nat /\ \A t \in S : t <= limit
    BY <2>1 DEF FailuresOf, WebhookInv, Good, Memory, Dated
  <2>3. \E t \in S : \A u \in S : u <= t BY <1>2, <2>1, <2>2, LatestExists
  <2>4. LastFailure(mem, c) \in S BY <1>2, <2>3 DEF LastFailure
  <2> QED BY <2>2, <2>4
<1> QED BY <1>1, <1>2

(* While nothing is delivered a customer's actions only shrink, for any    *)
(* events, grace and clock (evaluate).                                     *)
THEOREM TimeOnlyClosesAlways ==
    ASSUME ObjectsTyped, EventsBounded PROVE WebhookSpec => TimeOnlyCloses
<1>1. WebhookInv /\ WebhookInv' /\ [WebhookNext]_webhookVars =>
        [mem' = mem => \A c \in Customer : AllowedTo(c)' \subseteq AllowedTo(c)]_webhookVars
  <2> SUFFICES ASSUME WebhookInv, WebhookInv', [WebhookNext]_webhookVars, mem' = mem, NEW c \in Customer
               PROVE  AllowedTo(c)' \subseteq AllowedTo(c)
    OBVIOUS
  <2> DEFINE f == LastFailure(mem, c)
             s == CustomerState(mem, c)
  <2>1. now \in Nat /\ now' \in Nat /\ now <= now'
    BY WebhookAssumption
       DEF WebhookNext, Deliver, Save, Restart, Tick, webhookVars, WebhookInv, WebhookTypeOK
  <2>2. f = None \/ f \in Nat BY FailureIsTime
  <2>3. AllowedTo(c) = Allowed(s, f, now) /\ AllowedTo(c)' = Allowed(s, f, now') BY DEF AllowedTo
  <2>4. s \in {"deleted", "canceled", "payment_failed", "paid", "open"} BY DEF CustomerState
  <2>5. GraceExpired(f, now) => GraceExpired(f, now')
    BY <2>1, <2>2, WebhookAssumption DEF GraceExpired
  <2> HIDE DEF f, s
  <2> QED BY <2>3, <2>4, <2>5 DEF Allowed
<1>2. WebhookInv /\ [WebhookNext]_webhookVars => WebhookInv' BY WebhookStep
<1> QED BY WebhookInitially, <1>1, <1>2, PTL DEF WebhookSpec, TimeOnlyCloses
-----------------------------------------------------------------------------
(* Admission: who does not pay is suspended or canceled.                   *)

(* An account that does not pay is suspended or canceled, and a            *)
(* reservation is an amount.                                               *)
AccountRecord ==
    [payment |-> account.payment, spend |-> account.spend,
     blocked |-> account.blocked, period |-> account.period]
UnpaidInv ==
    /\ unpaid => account.payment \in {"suspended", "canceled"}
    /\ account = AccountRecord
    /\ reserved \in [Worker -> Nat]

LEMMA UnpaidInitially == BudgetInit => UnpaidInv
<1> SUFFICES ASSUME BudgetInit PROVE UnpaidInv OBVIOUS
<1>1. account = AccountRecord
  BY DEF BudgetInit, AccountRecord
<1>2. reserved \in [Worker -> Nat] BY DEF BudgetInit
<1> QED BY <1>1, <1>2 DEF BudgetInit, UnpaidInv

LEMMA UnpaidStep == UnpaidInv /\ [BudgetNext]_budgetVars => UnpaidInv'
<1> SUFFICES ASSUME UnpaidInv, [BudgetNext]_budgetVars PROVE UnpaidInv' OBVIOUS
<1>1. CASE PaymentChanges
  <2>1. CASE account.payment = "grace" /\ unpaid' = TRUE
             /\ Account([account EXCEPT !.payment = "suspended"])
    BY <2>1 DEF Account, UnpaidInv, AccountRecord
  <2>2. ASSUME NEW p \in {"paid", "grace", "canceled"}, unpaid' = (p = "canceled"),
               Account([account EXCEPT !.payment = p])
        PROVE  UnpaidInv'
    <3>1. account' = [account EXCEPT !.payment = p] /\ account'.payment = p /\ reserved' = reserved
      BY <2>2 DEF Account, UnpaidInv, AccountRecord
    <3>2. account' = AccountRecord' BY <3>1 DEF UnpaidInv, AccountRecord
    <3>3. unpaid' => p = "canceled" BY <2>2
    <3> QED BY <3>1, <3>2, <3>3 DEF UnpaidInv
  <2> QED BY <1>1, <2>1, <2>2 DEF PaymentChanges
<1>2. CASE EnforcerBlocks BY <1>2 DEF EnforcerBlocks, Account, UnpaidInv, AccountRecord
<1>3. CASE NewPeriod
  <2>1. /\ account' = [account EXCEPT !.spend = 0, !.blocked = FALSE, !.period = @ + 1]
        /\ UNCHANGED <<unpaid, reserved>>
    BY <1>3 DEF NewPeriod, Account
  <2>2. account'.payment = account.payment BY <2>1 DEF UnpaidInv, AccountRecord
  <2>3. account' = AccountRecord' BY <2>1 DEF UnpaidInv, AccountRecord
  <2> QED BY <2>1, <2>2, <2>3 DEF UnpaidInv
<1>4. ASSUME NEW w \in Worker, ReadAccount(w) \/ ReleaseWork(w) PROVE UnpaidInv'
  BY <1>4 DEF ReadAccount, ReleaseWork, UnpaidInv, AccountRecord
<1>5. ASSUME NEW w \in Worker, NEW action \in Surface, NEW cost \in 1..3, AdmitWork(w, action, cost)
      PROVE  UnpaidInv'
  BY <1>5 DEF AdmitWork, UnpaidInv, AccountRecord
<1>6. CASE OverrunNext
  <2>1. UNCHANGED <<account, unpaid, reserved>>
    BY <1>6, Zenon DEF OverrunNext, OneMs, LookAtSpend, ConfirmStop
  <2> QED BY <2>1 DEF UnpaidInv, AccountRecord
<1>7. CASE UNCHANGED budgetVars BY <1>7 DEF budgetVars, UnpaidInv, AccountRecord
<1> QED BY <1>1, <1>2, <1>3, <1>4, <1>5, <1>6, <1>7 DEF BudgetNext, GateNext

(* An account past its grace or canceled gets no work from anyone who read *)
(* it since, for any limit, workers and periods (new_period, admit).       *)
THEOREM UnpaidStaysOutAlways == BudgetSpec => UnpaidStaysOut
<1>1. UnpaidInv /\ [BudgetNext]_budgetVars =>
        [\A w \in Worker : unpaid /\ view[w] = account => reserved'[w] <= reserved[w]]_budgetVars
  <2> SUFFICES ASSUME UnpaidInv, [BudgetNext]_budgetVars, ~(UNCHANGED budgetVars),
                      NEW w \in Worker, unpaid, view[w] = account
               PROVE  reserved'[w] <= reserved[w]
    OBVIOUS
  <2>1. reserved[w] \in Nat /\ view[w].payment \in {"suspended", "canceled"} BY DEF UnpaidInv
  <2>2. CASE UNCHANGED reserved BY <2>1, <2>2
  <2>3. ASSUME NEW x \in Worker, ReleaseWork(x) PROVE reserved'[w] <= reserved[w]
    BY <2>1, <2>3 DEF ReleaseWork, UnpaidInv
  <2>4. ASSUME NEW x \in Worker, NEW action \in Surface, NEW cost \in 1..3, AdmitWork(x, action, cost)
        PROVE  reserved'[w] <= reserved[w]
    <3>1. CASE x # w BY <2>1, <2>4, <3>1 DEF AdmitWork, UnpaidInv, AccountRecord
    <3>2. CASE x = w
      <4>1. ~Check(view[w], Base(w), action) BY <2>1 DEF Check, PaymentBlocks
      <4> QED BY <2>1, <2>4, <3>2, <4>1 DEF AdmitWork
    <3> QED BY <3>1, <3>2
  <2> QED BY <2>2, <2>3, <2>4
          DEF BudgetNext, GateNext, OverrunNext, OneMs, LookAtSpend, ConfirmStop, ReadAccount,
              PaymentChanges, EnforcerBlocks, NewPeriod, Account
<1> QED BY UnpaidInitially, UnpaidStep, <1>1, PTL DEF BudgetSpec, UnpaidStaysOut

-----------------------------------------------------------------------------
(* The gate: what it handed out, and what it counts it as. *)
AccountState == [payment : Payment, spend : Nat, blocked : BOOLEAN, period : 0..LastPeriod]
GateInv ==
    /\ account \in AccountState /\ view \in [Worker -> AccountState]
    /\ committed \in Nat \cup {Unseeded} /\ seed \in Nat /\ reserved \in [Worker -> Nat]
    /\ committed = Unseeded => reserved = [w \in Worker |-> 0]
    /\ committed # Unseeded =>
          /\ committed = seed + SumFunction(reserved)
          /\ (\E w \in Worker : reserved[w] > 0) => committed < Limit

LEMMA GateInitially == BudgetInit => GateInv
<1> SUFFICES ASSUME BudgetInit PROVE GateInv OBVIOUS
<1>1. account \in AccountState
  <2>1. account \in [payment : {"open", "paid", "grace"}, spend : Nat, blocked : {FALSE}, period : {0}]
    BY DEF BudgetInit
  <2>2. 0 \in 0..LastPeriod BY BudgetAdmissionAssumption
  <2> QED BY <2>1, <2>2 DEF AccountState, Payment
<1>2. view \in [Worker -> AccountState] BY <1>1 DEF BudgetInit
<1> QED BY <1>1, <1>2 DEF BudgetInit, GateInv, Unseeded

LEMMA AdmitCounts ==
    ASSUME GateInv, NEW w \in Worker, NEW action \in Surface, NEW cost \in 1..3, AdmitWork(w, action, cost)
    PROVE  GateInv'
<1>1. view[w].spend \in Nat /\ IsFiniteSet(Worker) BY BudgetAdmissionAssumption DEF GateInv, AccountState
<1>2. account' = account /\ view' = view BY DEF AdmitWork
<1>3. seed' \in Nat /\ Base(w) \in Nat BY <1>1 DEF AdmitWork, GateInv, Base
<1>4. Base(w) = seed' + SumFunction(reserved)
  <2>1. CASE committed = Unseeded
    <3>1. reserved = [x \in Worker |-> 0] BY <2>1 DEF GateInv
    <3>2. SumFunction(reserved) = 0 BY <1>1, <3>1, SumOfNothing
    <3> QED BY <1>1, <2>1, <3>2 DEF AdmitWork, Base
  <2> QED BY <2>1 DEF AdmitWork, GateInv, Base
<1>5. CASE committed' = Base(w) + cost /\ reserved' = [reserved EXCEPT ![w] = cost] /\ LeavesHeadroom(w, cost)
  <2>1. reserved[w] = 0 /\ reserved \in [Worker -> Int] /\ reserved \in [Worker -> Nat] BY DEF AdmitWork, GateInv
  <2>2. SumFunction(reserved') = SumFunction(reserved) + (cost - reserved[w])
    <3>1. ChangedAt(Worker, reserved, w, cost, reserved') BY <1>5 DEF ChangedAt
    <3> QED BY <1>1, <2>1, <3>1, SumOfChanged
  <2>3. SumFunction(reserved) \in Int BY <1>1, <2>1, SumTyped
  <2>4. SumFunction(reserved') = SumFunction(reserved) + cost BY <2>1, <2>2, <2>3
  <2>5. committed' = seed' + SumFunction(reserved') BY <1>3, <1>4, <1>5, <2>3, <2>4
  <2>6. committed' \in Nat /\ committed' < Limit BY <1>3, <1>5 DEF LeavesHeadroom
  <2>7. reserved' \in [Worker -> Nat] BY <1>5, <2>1
  <2> QED BY <1>2, <1>3, <2>5, <2>6, <2>7 DEF GateInv, Unseeded
<1>6. CASE committed' = Base(w) /\ UNCHANGED reserved
  <2>1. (\E x \in Worker : reserved[x] > 0) => committed' < Limit
    BY <1>6 DEF GateInv, Base
  <2> QED BY <1>2, <1>3, <1>4, <1>6, <2>1 DEF GateInv, Unseeded
<1> QED BY <1>5, <1>6 DEF AdmitWork

LEMMA ReleaseCounts == ASSUME GateInv, NEW w \in Worker, ReleaseWork(w) PROVE GateInv'
<1>1. /\ IsFiniteSet(Worker) /\ reserved \in [Worker -> Nat] /\ reserved \in [Worker -> Int] /\ reserved[w] \in Nat
      /\ seed \in Nat /\ Limit \in Nat
  BY BudgetAdmissionAssumption DEF GateInv
<1>2. committed # Unseeded
  <2> SUFFICES ASSUME committed = Unseeded PROVE FALSE OBVIOUS
  <2>1. reserved[w] = 0 BY DEF GateInv
  <2> QED BY <2>1 DEF ReleaseWork
<1>3. committed \in Nat /\ committed = seed + SumFunction(reserved) /\ committed < Limit
  BY <1>2 DEF GateInv, ReleaseWork
<1>4. SumFunction(reserved) \in Nat /\ reserved[w] <= SumFunction(reserved) BY <1>1, SumBounds
<1>5. committed' = committed - reserved[w] /\ reserved' = [reserved EXCEPT ![w] = 0]
  BY <1>1, <1>3, <1>4 DEF ReleaseWork
<1>6. SumFunction(reserved') = SumFunction(reserved) + (0 - reserved[w])
  <2>1. ChangedAt(Worker, reserved, w, 0, reserved') BY <1>5 DEF ChangedAt
  <2> QED BY <1>1, <2>1, SumOfChanged
<1>7. committed' = seed + SumFunction(reserved') BY <1>1, <1>3, <1>4, <1>5, <1>6
<1>8. committed' \in Nat /\ committed' < Limit BY <1>1, <1>3, <1>4, <1>5
<1>9. reserved' \in [Worker -> Nat] BY <1>1, <1>5
<1> QED BY <1>7, <1>8, <1>9 DEF ReleaseWork, GateInv, Unseeded

LEMMA GateStep == GateInv /\ [BudgetNext]_budgetVars => GateInv'
<1> SUFFICES ASSUME GateInv, [BudgetNext]_budgetVars PROVE GateInv' OBVIOUS
<1>1. ASSUME UNCHANGED <<committed, seed, reserved>>, account' \in AccountState, view' \in [Worker -> AccountState]
      PROVE  GateInv'
  BY <1>1 DEF GateInv
<1>2. ASSUME NEW next \in AccountState, Account(next) PROVE GateInv'
  BY <1>1, <1>2 DEF Account, GateInv
<1>3. CASE PaymentChanges
  <2>1. CASE Account([account EXCEPT !.payment = "suspended"])
    <3>1. [account EXCEPT !.payment = "suspended"] \in AccountState BY DEF GateInv, AccountState, Payment
    <3> QED BY <1>2, <2>1, <3>1
  <2>2. ASSUME NEW p \in {"paid", "grace", "canceled"}, Account([account EXCEPT !.payment = p]) PROVE GateInv'
    <3>1. [account EXCEPT !.payment = p] \in AccountState BY DEF GateInv, AccountState, Payment
    <3> QED BY <1>2, <2>2, <3>1
  <2> QED BY <1>3, <2>1, <2>2 DEF PaymentChanges
<1>4. CASE EnforcerBlocks
  <2>1. [account EXCEPT !.blocked = TRUE] \in AccountState BY DEF GateInv, AccountState
  <2> QED BY <1>2, <1>4, <2>1 DEF EnforcerBlocks
<1>5. CASE NewPeriod
  <2>1. [account EXCEPT !.spend = 0, !.blocked = FALSE, !.period = @ + 1] \in AccountState
    <3>1. account.period + 1 \in 0..LastPeriod
      BY <1>5, BudgetAdmissionAssumption DEF NewPeriod, GateInv, AccountState
    <3> QED BY <3>1 DEF GateInv, AccountState
  <2> QED BY <1>2, <1>5, <2>1 DEF NewPeriod
<1>6. ASSUME NEW w \in Worker, ReadAccount(w) PROVE GateInv'
  BY <1>1, <1>6 DEF ReadAccount, GateInv
<1>7. CASE OverrunNext
  <2>1. UNCHANGED <<account, view, committed, seed, reserved>>
    BY <1>7, Zenon DEF OverrunNext, OneMs, LookAtSpend, ConfirmStop
  <2> QED BY <1>1, <2>1 DEF GateInv
<1>8. CASE UNCHANGED budgetVars BY <1>1, <1>8 DEF budgetVars, GateInv
<1> QED BY <1>3, <1>4, <1>5, <1>6, <1>7, <1>8, AdmitCounts, ReleaseCounts DEF BudgetNext, GateNext

(* What is spent before a stop is confirmed: the spend at the last look    *)
(* and what burns until the next, then what burns until the confirmation.  *)
BurnRecord ==
    [spend |-> burn.spend, unchecked |-> burn.unchecked, stopping |-> burn.stopping,
     blockedFor |-> burn.blockedFor, storage |-> burn.storage]
SpendBound ==
    IF burn.stopping = NotStopping THEN EarlyStopAt + TopRate * burn.unchecked
    ELSE Limit - TopRate * StopDuration + TopRate * burn.stopping
BurnInv ==
    /\ burn = BurnRecord /\ burn.spend \in Nat /\ burn.unchecked \in 0..CheckInterval
    /\ burn.stopping \in {NotStopping} \cup 0..StopDuration
    /\ burn.blockedFor \in {NotStopping} \cup 0..(CleanupAfter + 1)
    /\ burn.storage = IF burn.blockedFor = NotStopping THEN 0 ELSE StorageAccrued(burn.blockedFor)
    /\ HardCapInfeasible \/ burn.spend < SpendBound

LEMMA RateTimes ==
    /\ TopRate * CheckInterval \in Nat /\ TopRate * StopDuration \in Nat
    /\ \A t \in Nat : TopRate * t \in Nat /\ TopRate * (t + 1) = TopRate * t + TopRate
    /\ \A t \in 0..CheckInterval : TopRate * t <= TopRate * CheckInterval
    /\ \A t \in 0..StopDuration : TopRate * t <= TopRate * StopDuration
<1>1. \A a \in Nat, b \in Nat, c \in Nat : a * b \in Nat /\ a * (b + 1) = a * b + a /\ (b <= c => a * b <= a * c)
  OBVIOUS
<1> QED BY <1>1, BudgetAdmissionAssumption

LEMMA BurnInitially == BudgetInit => BurnInv
<1> SUFFICES ASSUME BudgetInit PROVE BurnInv OBVIOUS
<1>1. /\ burn.spend = 0 /\ burn.unchecked = 0 /\ burn.storage = 0 /\ burn = BurnRecord
      /\ burn.stopping = NotStopping /\ burn.blockedFor = NotStopping
  BY DEF BudgetInit, BurnRecord
<1>2. HardCapInfeasible \/ 0 < EarlyStopAt + TopRate * 0
  BY BudgetAdmissionAssumption, RateTimes DEF HardCapInfeasible, EarlyStopAt, MaxOvershoot, DetectionOnly
<1>3. SpendBound = EarlyStopAt + TopRate * 0 BY <1>1 DEF SpendBound
<1> QED BY <1>1, <1>2, <1>3, BudgetAdmissionAssumption DEF BurnInv, NotStopping

LEMMA SpendStaysUnder == ASSUME BurnInv PROVE HardCapInfeasible \/ burn.spend < Limit
<1> SUFFICES ASSUME ~HardCapInfeasible PROVE burn.spend < Limit OBVIOUS
<1>1. burn.spend \in Nat /\ burn.spend < SpendBound BY DEF BurnInv
<1>2. CASE burn.stopping = NotStopping
  <2>1. TopRate * burn.unchecked \in Nat /\ TopRate * burn.unchecked <= TopRate * CheckInterval
    BY RateTimes, BudgetAdmissionAssumption DEF BurnInv
  <2> QED BY <1>1, <1>2, <2>1, RateTimes, BudgetAdmissionAssumption
          DEF SpendBound, EarlyStopAt, MaxOvershoot, DetectionOnly
<1>3. CASE burn.stopping # NotStopping
  <2>1. TopRate * burn.stopping \in Nat /\ TopRate * burn.stopping <= TopRate * StopDuration
    BY <1>3, RateTimes, BudgetAdmissionAssumption DEF BurnInv
  <2> QED BY <1>1, <1>3, <2>1, RateTimes, BudgetAdmissionAssumption DEF SpendBound
<1> QED BY <1>2, <1>3

LEMMA StorageGrows ==
    ASSUME NEW b \in Nat
    PROVE  StorageAccrued(b + 1) = IF CleanupDue(b) THEN StorageAccrued(b) ELSE StorageAccrued(b) + StorageRate
<1>1. \A a \in Nat, c \in Nat : (a + 1) * c = a * c + c OBVIOUS
<1>2. CASE b >= CleanupAfter BY <1>2, BudgetAdmissionAssumption DEF StorageAccrued, CleanupDue
<1>3. CASE b < CleanupAfter
  <2>1. StorageAccrued(b) = b * StorageRate BY <1>3 DEF StorageAccrued
  <2>2. StorageAccrued(b + 1) = (b + 1) * StorageRate BY <1>3, BudgetAdmissionAssumption DEF StorageAccrued
  <2> QED BY <1>1, <1>3, <2>1, <2>2, BudgetAdmissionAssumption DEF CleanupDue
<1> QED BY <1>2, <1>3, BudgetAdmissionAssumption

LEMMA BurnStep == BurnInv /\ [BudgetNext]_budgetVars => BurnInv'
<1> SUFFICES ASSUME BurnInv, [BudgetNext]_budgetVars PROVE BurnInv' OBVIOUS
<1>1. CASE UNCHANGED burn BY <1>1 DEF BurnInv, BurnRecord, SpendBound
<1>2. ASSUME NEW rate \in 0..TopRate, Burning, burn.unchecked < CheckInterval, burn.stopping < StopDuration,
             burn' = [burn EXCEPT !.spend = @ + rate, !.unchecked = @ + 1,
                                  !.stopping = IF @ = NotStopping THEN @ ELSE @ + 1]
      PROVE  BurnInv'
  <2>1. /\ burn'.spend = burn.spend + rate /\ burn'.unchecked = burn.unchecked + 1
        /\ burn'.stopping = IF burn.stopping = NotStopping THEN NotStopping ELSE burn.stopping + 1
        /\ burn'.blockedFor = burn.blockedFor /\ burn'.storage = burn.storage /\ burn' = BurnRecord'
    BY <1>2 DEF BurnInv, BurnRecord
  <2>2. /\ burn'.spend \in Nat /\ burn'.unchecked \in 0..CheckInterval
        /\ burn'.stopping \in {NotStopping} \cup 0..StopDuration
    BY <1>2, <2>1, BudgetAdmissionAssumption DEF BurnInv, NotStopping
  <2>3. ASSUME ~HardCapInfeasible PROVE burn'.spend < SpendBound'
    <3>1. burn.spend \in Nat /\ burn.spend < SpendBound BY <2>3 DEF BurnInv
    <3>2. CASE burn.stopping = NotStopping
      <4>1. TopRate * burn.unchecked \in Nat
            /\ TopRate * (burn.unchecked + 1) = TopRate * burn.unchecked + TopRate
        BY RateTimes, BudgetAdmissionAssumption DEF BurnInv
      <4>2. SpendBound = EarlyStopAt + TopRate * burn.unchecked
            /\ SpendBound' = EarlyStopAt + TopRate * (burn.unchecked + 1)
        BY <2>1, <3>2 DEF SpendBound
      <4>3. EarlyStopAt \in Int /\ TopRate \in Nat BY RateTimes, BudgetAdmissionAssumption DEF EarlyStopAt, MaxOvershoot, DetectionOnly
      <4> QED BY <1>2, <2>1, <3>1, <4>1, <4>2, <4>3
    <3>3. CASE burn.stopping # NotStopping
      <4>1. TopRate * burn.stopping \in Nat
            /\ TopRate * (burn.stopping + 1) = TopRate * burn.stopping + TopRate
        BY <3>3, RateTimes, BudgetAdmissionAssumption DEF BurnInv
      <4>2. burn'.stopping # NotStopping BY <2>1, <3>3, BudgetAdmissionAssumption DEF BurnInv, NotStopping
      <4>3. SpendBound = Limit - TopRate * StopDuration + TopRate * burn.stopping
            /\ SpendBound' = Limit - TopRate * StopDuration + TopRate * (burn.stopping + 1)
        BY <2>1, <3>3, <4>2 DEF SpendBound
      <4> QED BY <1>2, <2>1, <3>1, <4>1, <4>3, RateTimes, BudgetAdmissionAssumption
    <3> QED BY <3>2, <3>3
  <2> QED BY <2>1, <2>2, <2>3 DEF BurnInv, HardCapInfeasible, MaxOvershoot, DetectionOnly
<1>3. ASSUME ~Burning, burn.blockedFor <= CleanupAfter,
             burn' = [burn EXCEPT !.blockedFor = @ + 1,
                                  !.storage = IF CleanupDue(burn.blockedFor) THEN @ ELSE @ + StorageRate]
      PROVE  BurnInv'
  <2>1. /\ burn'.spend = burn.spend /\ burn'.unchecked = burn.unchecked /\ burn'.stopping = burn.stopping
        /\ burn'.blockedFor = burn.blockedFor + 1 /\ burn' = BurnRecord'
        /\ burn'.storage = IF CleanupDue(burn.blockedFor) THEN burn.storage ELSE burn.storage + StorageRate
    BY <1>3 DEF BurnInv, BurnRecord
  <2>2. burn.blockedFor \in Nat /\ burn.storage = StorageAccrued(burn.blockedFor)
    BY <1>3, BudgetAdmissionAssumption DEF BurnInv, Burning
  <2>3. burn'.storage = StorageAccrued(burn'.blockedFor) BY <2>1, <2>2, StorageGrows
  <2>4. burn'.blockedFor \in 0..(CleanupAfter + 1) /\ burn'.blockedFor # NotStopping
    BY <1>3, <2>1, <2>2, BudgetAdmissionAssumption DEF NotStopping
  <2>5. SpendBound' = SpendBound BY <2>1 DEF SpendBound
  <2> QED BY <2>1, <2>3, <2>4, <2>5 DEF BurnInv
<1>4. CASE LookAtSpend
  <2> DEFINE stop == burn.stopping = NotStopping /\ burn.spend >= EarlyStopAt
  <2>1. /\ burn'.spend = burn.spend /\ burn'.unchecked = 0
        /\ burn'.stopping = IF stop THEN 0 ELSE burn.stopping
        /\ burn'.blockedFor = burn.blockedFor /\ burn'.storage = burn.storage /\ burn' = BurnRecord'
    BY <1>4 DEF LookAtSpend, BurnInv, BurnRecord
  <2>2. ASSUME ~HardCapInfeasible PROVE burn'.spend < SpendBound'
    <3>1. burn.spend \in Nat /\ burn.spend < SpendBound BY <2>2 DEF BurnInv
    <3>2. EarlyStopAt \in Int /\ TopRate * 0 = 0 /\ EarlyStopAt + TopRate * CheckInterval = Limit - TopRate * StopDuration
      BY RateTimes, BudgetAdmissionAssumption DEF EarlyStopAt, MaxOvershoot, DetectionOnly
    <3>3. CASE stop
      <4>1. TopRate * burn.unchecked \in Nat /\ TopRate * burn.unchecked <= TopRate * CheckInterval
        BY RateTimes, BudgetAdmissionAssumption DEF BurnInv
      <4>2. SpendBound = EarlyStopAt + TopRate * burn.unchecked BY <3>3 DEF SpendBound
      <4>3. SpendBound' = Limit - TopRate * StopDuration + TopRate * 0 BY <2>1, <3>3 DEF SpendBound, NotStopping
      <4> QED BY <2>1, <3>1, <3>2, <4>1, <4>2, <4>3, RateTimes, BudgetAdmissionAssumption
    <3>4. CASE ~stop /\ burn.stopping = NotStopping
      <4>1. SpendBound' = EarlyStopAt + TopRate * 0 BY <2>1, <3>4 DEF SpendBound
      <4> QED BY <2>1, <3>1, <3>2, <3>4, <4>1
    <3>5. CASE burn.stopping # NotStopping
      <4>1. SpendBound' = SpendBound BY <2>1, <3>5 DEF SpendBound
      <4> QED BY <2>1, <3>1, <4>1
    <3> QED BY <3>3, <3>4, <3>5
  <2> QED BY <2>1, <2>2, BudgetAdmissionAssumption DEF BurnInv, HardCapInfeasible, MaxOvershoot, DetectionOnly
<1>5. CASE ConfirmStop
  <2>1. /\ burn'.spend = burn.spend /\ burn'.unchecked = burn.unchecked /\ burn'.stopping = burn.stopping
        /\ burn'.blockedFor = 0 /\ burn'.storage = 0 /\ burn' = BurnRecord'
    BY <1>5 DEF ConfirmStop, Burning, BurnInv, BurnRecord
  <2>2. StorageAccrued(0) = 0 BY BudgetAdmissionAssumption DEF StorageAccrued
  <2>3. SpendBound' = SpendBound BY <2>1 DEF SpendBound
  <2> QED BY <2>1, <2>2, <2>3, BudgetAdmissionAssumption DEF BurnInv, NotStopping
<1>6. CASE GateNext
  <2>1. UNCHANGED burn
    BY <1>6, Zenon DEF GateNext, PaymentChanges, EnforcerBlocks, NewPeriod, Account, ReadAccount, ReleaseWork, AdmitWork
  <2> QED BY <1>1, <2>1
<1>7. CASE UNCHANGED budgetVars BY <1>1, <1>7 DEF budgetVars
<1> QED BY <1>2, <1>3, <1>4, <1>5, <1>6, <1>7 DEF BudgetNext, OverrunNext, OneMs

(* The gate knows exactly what it handed out and stays under the limit     *)
(* with it, spend that is looked at now and then stays under it as well    *)
(* when the overshoot is kept free, and storage stops accruing at its      *)
(* cleanup, for any workers, limits, rates and durations (admit, release,  *)
(* overrun_window, storage_accrued_minor).                                 *)
THEOREM BudgetHeldAlways == BudgetSpec => []BudgetHeld
<1>1. GateInv /\ BurnInv => BudgetHeld
  <2> SUFFICES ASSUME GateInv, BurnInv PROVE BudgetHeld OBVIOUS
  <2>1. BudgetTypeOK BY DEF GateInv, AccountState, BudgetTypeOK
  <2>2. committed # Unseeded =>
          /\ committed = seed + SumFunction(reserved)
          /\ (\E w \in Worker : reserved[w] > 0) => committed < Limit
    BY DEF GateInv
  <2>3. HardCapInfeasible \/ burn.spend < Limit BY SpendStaysUnder
  <2>4. burn.blockedFor # NotStopping => burn.storage = StorageAccrued(burn.blockedFor) BY DEF BurnInv
  <2> QED BY <2>1, <2>2, <2>3, <2>4 DEF BudgetHeld
<1> QED BY GateInitially, GateStep, BurnInitially, BurnStep, <1>1, PTL DEF BudgetSpec

-----------------------------------------------------------------------------
(* The gates: who is inside a lock saw the counter, or the ticket, as it   *)
(* still is, because nobody else is inside the same lock.                  *)
Shares(g) == [c \in Caller |-> held[c][g]]
Doing == [op : {"none", "admit", "release", "redeem"}, lock : Lock, amount : Nat, seen : Nat]
TicketRecord ==
    [issuedAt |-> ticket.issuedAt, generation |-> ticket.generation, consumed |-> ticket.consumed,
     current |-> ticket.current, attached |-> ticket.attached]
LockInv ==
    /\ GatesTypeOK /\ doing \in [Caller -> Doing]
    /\ ticket = TicketRecord /\ ticket.consumed \in BOOLEAN /\ ticket.current \in Nat
    /\ ticket.attached = IF ticket.consumed THEN 1 ELSE 0
    /\ \A c \in Caller :
          /\ doing[c] # Nothing => doing[c].op # "none" /\ holder[doing[c].lock] = c
          /\ doing[c].op \in {"admit", "release"} =>
                doing[c].lock \in Counter /\ doing[c].seen = used[doing[c].lock]
          /\ doing[c].op = "admit" => held[c][doing[c].lock] = 0
          /\ doing[c].op = "release" => held[c][doing[c].lock] = doing[c].amount
          /\ doing[c].op = "redeem" => doing[c].lock = "ticket"
          /\ doing[c].op = "redeem" /\ doing[c].seen # 0 => ~ticket.consumed

(* Nobody else is inside a lock somebody is inside. *)
LEMMA OneInside ==
    ASSUME LockInv, NEW c \in Caller, NEW d \in Caller, c # d, doing[c].op # "none", doing[d].op # "none"
    PROVE  doing[c].lock # doing[d].lock
<1>1. doing[c] # Nothing /\ doing[d] # Nothing BY DEF Nothing
<1> QED BY <1>1 DEF LockInv

LEMMA LockInitially == GatesInit => LockInv
<1> SUFFICES ASSUME GatesInit PROVE LockInv OBVIOUS
<1>1. GatesTypeOK BY GateAssumption DEF GatesInit, GatesTypeOK
<1>2. Nothing \in Doing BY DEF Nothing, Doing, Lock, Counter
<1>3. ticket = TicketRecord /\ ticket.consumed = FALSE /\ ticket.attached = 0 /\ ticket.current = 1
  BY DEF GatesInit, TicketRecord
<1>4. \A c \in Caller : doing[c] = Nothing BY DEF GatesInit
<1>5. Nothing.op = "none" BY DEF Nothing
<1> QED BY <1>1, <1>2, <1>3, <1>4, <1>5 DEF GatesInit, LockInv

LEMMA EnteredLock ==
    ASSUME LockInv, NEW c \in Caller, NEW l \in Lock, NEW op \in {"admit", "release", "redeem"},
           NEW amount \in Nat, NEW saw \in Nat, Enter(c, l, op, amount, saw),
           UNCHANGED <<used, held, clock, ticket>>,
           op \in {"admit", "release"} => l \in Counter /\ saw = used[l],
           op = "admit" => held[c][l] = 0, op = "release" => held[c][l] = amount,
           op = "redeem" => l = "ticket" /\ (saw # 0 => ~ticket.consumed)
    PROVE  LockInv'
<1> DEFINE mine == [op |-> op, lock |-> l, amount |-> amount, seen |-> saw]
<1>1. mine \in Doing /\ mine.op = op /\ mine.lock = l /\ mine.amount = amount /\ mine.seen = saw BY DEF Doing
<1>2. /\ doing' = [doing EXCEPT ![c] = mine] /\ holder' = [holder EXCEPT ![l] = c]
      /\ holder[l] = Free /\ doing[c] = Nothing
  BY DEF Enter, Available
<1> HIDE DEF mine
<1>3. doing' \in [Caller -> Doing] /\ holder' \in [Lock -> Caller \cup {Free}]
  BY <1>1, <1>2 DEF LockInv, GatesTypeOK
<1>4. GatesTypeOK' BY <1>3 DEF LockInv, GatesTypeOK
<1>5. ticket' = TicketRecord' BY DEF LockInv, TicketRecord
<1>6. doing'[c] = mine /\ holder'[l] = c BY <1>2 DEF LockInv, GatesTypeOK
<1>7. ASSUME NEW d \in Caller, d # c
      PROVE  doing'[d] = doing[d] /\ (doing[d] # Nothing => holder'[doing[d].lock] = d)
  <2>1. doing'[d] = doing[d] /\ doing[d].lock \in Lock BY <1>2, <1>7 DEF LockInv, Doing
  <2>2. doing[d] # Nothing => holder[doing[d].lock] = d BY DEF LockInv
  <2>3. doing[d] # Nothing => doing[d].lock # l BY <1>2, <2>2, GateAssumption
  <2> QED BY <1>2, <2>1, <2>2, <2>3 DEF LockInv, GatesTypeOK
<1> QED BY <1>1, <1>3, <1>4, <1>5, <1>6, <1>7 DEF LockInv

(* A caller leaves its lock having changed only what the lock protects. *)
LEMMA LeftLock ==
    ASSUME LockInv, NEW c \in Caller, doing[c].op # "none", LeaveLock(c), GatesTypeOK',
           ticket' = TicketRecord', ticket'.consumed \in BOOLEAN, ticket'.current \in Nat,
           ticket'.attached = IF ticket'.consumed THEN 1 ELSE 0,
           \A g \in Counter : g # doing[c].lock => used'[g] = used[g] /\ \A d \in Caller : held'[d][g] = held[d][g],
           \A d \in Caller \ {c}, g \in Counter : held'[d][g] = held[d][g],
           doing[c].lock # "ticket" => ticket' = ticket
    PROVE  LockInv'
<1>1. /\ doing' = [doing EXCEPT ![c] = Nothing]
      /\ holder' = [holder EXCEPT ![doing[c].lock] = Free]
      /\ doing[c].lock \in Lock
  BY DEF LeaveLock, LockInv, Doing
<1>2. Nothing \in Doing /\ Nothing.op = "none" BY DEF Nothing, Doing, Lock, Counter
<1>3. doing' \in [Caller -> Doing] BY <1>1, <1>2 DEF LockInv
<1>4. doing'[c] = Nothing BY <1>1 DEF LockInv
<1>5. ASSUME NEW d \in Caller, d # c
      PROVE  /\ doing'[d] = doing[d]
             /\ doing[d].op # "none" => doing[d].lock # doing[c].lock
             /\ doing[d] # Nothing => doing[d].op # "none" /\ holder'[doing[d].lock] = d
  <2>1. doing'[d] = doing[d] /\ doing[d].lock \in Lock BY <1>1, <1>5 DEF LockInv, Doing
  <2>2. doing[d].op # "none" => doing[d].lock # doing[c].lock BY <1>5, OneInside
  <2>3. doing[d] # Nothing => doing[d].op # "none" /\ holder[doing[d].lock] = d BY DEF LockInv
  <2> QED BY <1>1, <2>1, <2>2, <2>3 DEF LockInv, GatesTypeOK
<1>6. ASSUME NEW d \in Caller, d # c, doing[d].op \in {"admit", "release"}
      PROVE  /\ doing'[d].lock \in Counter /\ doing'[d].seen = used'[doing'[d].lock]
             /\ held'[d][doing[d].lock] = held[d][doing[d].lock]
  BY <1>5, <1>6 DEF LockInv
<1>7. ASSUME NEW d \in Caller, d # c, doing[d].op = "redeem", doing[d].seen # 0 PROVE ~ticket'.consumed
  BY <1>5, <1>7 DEF LockInv
<1> QED BY <1>2, <1>3, <1>4, <1>5, <1>6, <1>7 DEF LockInv

LEMMA LockStep == LockInv /\ [GatesNext]_gateVars => LockInv'
<1> SUFFICES ASSUME LockInv, [GatesNext]_gateVars PROVE LockInv' OBVIOUS
<1>1. ASSUME UNCHANGED <<used, held, holder, doing, ticket>>, clock' \in 0..LastGateTime PROVE LockInv'
  BY <1>1 DEF LockInv, GatesTypeOK, TicketRecord
<1>2. ASSUME NEW c \in Caller, Admit(c) PROVE LockInv'
  <2> DEFINE g == doing[c].lock  after == doing[c].seen + doing[c].amount
  <2>1. g \in Counter /\ after \in Nat /\ doing[c].amount \in Nat /\ doing[c].op = "admit"
    BY <1>2 DEF Admit, LockInv, Doing
  <2>2. UNCHANGED <<clock, ticket>> /\ LeaveLock(c) BY <1>2 DEF Admit
  <2>3. \/ UNCHANGED <<used, held>>
        \/ used' = [used EXCEPT ![g] = after] /\ held' = [held EXCEPT ![c][g] = doing[c].amount]
    BY <1>2 DEF Admit
  <2>4. used' \in [Counter -> Nat] /\ held' \in [Caller -> [Counter -> Nat]]
    <3>1. used \in [Counter -> Nat] /\ held \in [Caller -> [Counter -> Nat]] BY DEF LockInv, GatesTypeOK
    <3> HIDE DEF g, after
    <3> QED BY <2>1, <2>3, <3>1
  <2>5. holder' \in [Lock -> Caller \cup {Free}] BY <2>2 DEF LeaveLock, LockInv, GatesTypeOK
  <2>6. GatesTypeOK' BY <2>2, <2>4, <2>5 DEF LockInv, GatesTypeOK
  <2>7. \A x \in Counter : x # g => used'[x] = used[x] /\ \A d \in Caller : held'[d][x] = held[d][x]
    BY <2>3 DEF LockInv, GatesTypeOK
  <2>8. \A d \in Caller \ {c}, x \in Counter : held'[d][x] = held[d][x]
    BY <2>3 DEF LockInv, GatesTypeOK
  <2>9. ticket' = TicketRecord' /\ ticket' = ticket BY <2>2 DEF LockInv, TicketRecord
  <2> QED BY <2>1, <2>2, <2>6, <2>7, <2>8, <2>9, LeftLock DEF LockInv
<1>3. ASSUME NEW c \in Caller, ReleaseHeld(c) PROVE LockInv'
  <2> DEFINE g == doing[c].lock  left == doing[c].seen - doing[c].amount
             rest == IF left < 0 THEN 0 ELSE left
  <2>1. g \in Counter /\ rest \in Nat /\ doing[c].op = "release"
    BY <1>3 DEF ReleaseHeld, LockInv, Doing
  <2>2. UNCHANGED <<clock, ticket>> /\ LeaveLock(c) BY <1>3 DEF ReleaseHeld
  <2>3. used' = [used EXCEPT ![g] = rest] /\ held' = [held EXCEPT ![c][g] = 0]
    BY <1>3 DEF ReleaseHeld
  <2> HIDE DEF rest
  <2>4. used' \in [Counter -> Nat] /\ held' \in [Caller -> [Counter -> Nat]]
    BY <2>1, <2>3 DEF LockInv, GatesTypeOK
  <2>5. holder' \in [Lock -> Caller \cup {Free}] BY <2>2 DEF LeaveLock, LockInv, GatesTypeOK
  <2>6. GatesTypeOK' BY <2>2, <2>4, <2>5 DEF LockInv, GatesTypeOK
  <2>7. \A x \in Counter : x # g => used'[x] = used[x] /\ \A d \in Caller : held'[d][x] = held[d][x]
    BY <2>3 DEF LockInv, GatesTypeOK
  <2>8. \A d \in Caller \ {c}, x \in Counter : held'[d][x] = held[d][x]
    BY <2>3 DEF LockInv, GatesTypeOK
  <2>9. ticket' = TicketRecord' /\ ticket' = ticket BY <2>2 DEF LockInv, TicketRecord
  <2> QED BY <2>1, <2>2, <2>6, <2>7, <2>8, <2>9, LeftLock DEF LockInv
<1>4. ASSUME NEW c \in Caller, Redeem(c) PROVE LockInv'
  <2>1. doing[c].op = "redeem" /\ doing[c].lock = "ticket" /\ LeaveLock(c) /\ UNCHANGED <<used, held, clock>>
    BY <1>4 DEF Redeem, LockInv
  <2>2. holder' \in [Lock -> Caller \cup {Free}] BY <2>1 DEF LeaveLock, LockInv, GatesTypeOK
  <2>3. GatesTypeOK' BY <2>1, <2>2 DEF LockInv, GatesTypeOK
  <2>4. /\ ticket' = TicketRecord' /\ ticket'.consumed \in BOOLEAN /\ ticket'.current \in Nat
        /\ ticket'.attached = IF ticket'.consumed THEN 1 ELSE 0
    <3>1. CASE doing[c].seen = 0
      <4>1. ticket' = ticket BY <1>4, <3>1 DEF Redeem
      <4>2. ticket'.consumed = ticket.consumed /\ ticket'.current = ticket.current
            /\ ticket'.attached = ticket.attached /\ ticket' = TicketRecord'
        BY <4>1 DEF LockInv, TicketRecord
      <4> QED BY <4>2 DEF LockInv
    <3>2. CASE doing[c].seen # 0
      <4>1. ~ticket.consumed BY <2>1, <3>2 DEF LockInv
      <4>2. ticket' = [ticket EXCEPT !.consumed = TRUE, !.attached = @ + 1] BY <1>4, <3>2 DEF Redeem
      <4>3. ticket' = TicketRecord' /\ ticket'.consumed = TRUE /\ ticket'.attached = ticket.attached + 1
            /\ ticket'.current = ticket.current
        BY <4>2 DEF LockInv, TicketRecord
      <4>4. ticket.current \in Nat /\ ticket.attached = 0 BY <4>1 DEF LockInv
      <4>5. ticket'.attached = 1 BY <4>3, <4>4
      <4>6. ticket'.current \in Nat BY <4>3, <4>4
      <4> QED BY <4>3, <4>5, <4>6, Zenon
    <3> QED BY <3>1, <3>2
  <2> QED BY <2>1, <2>3, <2>4, LeftLock
<1>5. ASSUME NEW c \in Caller, NEW g \in Counter, NEW n \in 1..2, StartAdmit(c, g, n) PROVE LockInv'
  <2>1. held[c][g] = 0 /\ Enter(c, g, "admit", n, used[g]) /\ UNCHANGED <<used, held, clock, ticket>>
    BY <1>5 DEF StartAdmit
  <2>2. used[g] \in Nat /\ g \in Lock /\ n \in Nat BY DEF LockInv, GatesTypeOK, Lock
  <2> QED BY <2>1, <2>2, EnteredLock
<1>6. ASSUME NEW c \in Caller, NEW g \in Counter, StartRelease(c, g) PROVE LockInv'
  <2>1. Enter(c, g, "release", held[c][g], used[g]) /\ UNCHANGED <<used, held, clock, ticket>>
    BY <1>6 DEF StartRelease
  <2>2. used[g] \in Nat /\ held[c][g] \in Nat /\ g \in Lock BY DEF LockInv, GatesTypeOK, Lock
  <2> QED BY <2>1, <2>2, EnteredLock
<1>7. ASSUME NEW c \in Caller, StartRedeem(c) PROVE LockInv'
  <2> DEFINE saw == IF Redeemable(ticket.current) THEN 1 ELSE 0
  <2>1. Enter(c, "ticket", "redeem", ticket.current, saw) /\ UNCHANGED <<used, held, clock, ticket>>
    BY <1>7 DEF StartRedeem
  <2>2. ticket.current \in Nat /\ saw \in Nat /\ "ticket" \in Lock
        /\ (saw # 0 => ~ticket.consumed)
    BY DEF LockInv, Lock, Redeemable
  <2> HIDE DEF saw
  <2> QED BY <2>1, <2>2, EnteredLock
<1>8. CASE IssueTicket \/ NewGeneration
  <2>1. /\ ticket' = TicketRecord' /\ ticket'.consumed = ticket.consumed /\ ticket'.attached = ticket.attached
        /\ ticket'.current \in Nat
    <3>1. CASE IssueTicket
      <4>1. ticket' = [ticket EXCEPT !.issuedAt = clock, !.generation = ticket.current] BY <3>1 DEF IssueTicket
      <4>2. /\ ticket'.consumed = ticket.consumed /\ ticket'.attached = ticket.attached
            /\ ticket'.current = ticket.current /\ ticket' = TicketRecord'
        BY <4>1 DEF LockInv, TicketRecord
      <4> QED BY <4>2 DEF LockInv
    <3>2. CASE NewGeneration
      <4>1. ticket' = [ticket EXCEPT !.current = 2] BY <3>2 DEF NewGeneration
      <4>2. /\ ticket'.consumed = ticket.consumed /\ ticket'.attached = ticket.attached
            /\ ticket'.current = 2 /\ ticket' = TicketRecord'
        BY <4>1 DEF LockInv, TicketRecord
      <4> QED BY <4>2
    <3> QED BY <1>8, <3>1, <3>2
  <2>2. UNCHANGED <<used, held, holder, doing, clock>> BY <1>8 DEF IssueTicket, NewGeneration
  <2> QED BY <2>1, <2>2 DEF LockInv, GatesTypeOK
<1>9. CASE GateTime \/ UNCHANGED gateVars \/ \E c \in Caller : ReadClock(c) \/ TryCreate(c)
  <2>1. UNCHANGED <<used, held, holder, doing, ticket>> BY <1>9 DEF GateTime, gateVars, ReadClock, TryCreate
  <2>2. clock' \in 0..LastGateTime
    BY <1>9, GateAssumption DEF GateTime, gateVars, ReadClock, TryCreate, LockInv, GatesTypeOK
  <2> QED BY <1>1, <2>1, <2>2
<1> QED BY <1>2, <1>3, <1>4, <1>5, <1>6, <1>7, <1>8, <1>9 DEF GatesNext, CountersNext, RateNext, TicketNext

(* A change of one caller's share changes the counter by as much. *)
LEMMA CountersInitially == GatesInit => CountersExact
<1> SUFFICES ASSUME GatesInit, NEW g \in Counter
             PROVE  used[g] = SumFunction([c \in Caller |-> held[c][g]]) /\ used[g] <= CeilingOf(g)
  BY DEF CountersExact
<1>1. [c \in Caller |-> held[c][g]] = [c \in Caller |-> 0] BY DEF GatesInit
<1>2. SumFunction([c \in Caller |-> held[c][g]]) = 0 BY <1>1, SumOfNothing, GateAssumption
<1>3. HighWater \in Nat
  <2>1. DiskCap * HighWaterPct \in Nat BY GateAssumption
  <2>2. \A n \in Nat : n \div 100 \in Nat OBVIOUS
  <2> QED BY <2>1, <2>2 DEF HighWater
<1>4. CeilingOf(g) \in Nat BY <1>3, GateAssumption DEF CeilingOf, Counter
<1> QED BY <1>2, <1>4 DEF GatesInit

LEMMA ShareChanges ==
    ASSUME LockInv, LockInv', CountersExact, NEW c \in Caller, NEW g \in Counter, NEW v \in Nat,
           held' = [held EXCEPT ![c][g] = v],
           \A x \in Counter : x # g => used'[x] = used[x],
           used'[g] = used[g] + (v - held[c][g]), used'[g] <= CeilingOf(g)
    PROVE  CountersExact'
<1>1. IsFiniteSet(Caller) /\ \A x \in Counter : Shares(x) \in [Caller -> Int]
  BY GateAssumption DEF LockInv, GatesTypeOK, Shares
<1>7. \A x \in Counter : used[x] = SumFunction(Shares(x)) BY DEF CountersExact, Shares
<1>2. ASSUME NEW x \in Counter, x # g PROVE used'[x] = SumFunction(Shares(x)') /\ used'[x] <= CeilingOf(x)
  <2>1. Shares(x)' = Shares(x) BY <1>2 DEF Shares, LockInv, GatesTypeOK
  <2> QED BY <1>7, <1>2, <2>1 DEF CountersExact
<1>3. ChangedAt(Caller, Shares(g), c, v, Shares(g)') BY DEF Shares, ChangedAt, LockInv, GatesTypeOK
<1>4. Shares(g)[c] = held[c][g] BY DEF Shares
<1>5. SumFunction(Shares(g)') = SumFunction(Shares(g)) + (v - held[c][g])
  BY <1>1, <1>3, <1>4, SumOfChanged
<1>6. used'[g] = SumFunction(Shares(g)') BY <1>7, <1>5
<1>8. \A x \in Counter : used'[x] = SumFunction(Shares(x)') /\ used'[x] <= CeilingOf(x) BY <1>2, <1>6
<1> QED BY <1>8 DEF CountersExact, Shares, CeilingOf

LEMMA CountersStep == LockInv /\ LockInv' /\ CountersExact /\ [GatesNext]_gateVars => CountersExact'
<1> SUFFICES ASSUME LockInv, LockInv', CountersExact, [GatesNext]_gateVars PROVE CountersExact' OBVIOUS
<1>1. CASE UNCHANGED <<used, held>> BY <1>1 DEF CountersExact, CeilingOf
<1>2. ASSUME NEW c \in Caller, Admit(c) PROVE CountersExact'
  <2> DEFINE g == doing[c].lock  n == doing[c].amount
  <2>1. g \in Counter /\ n \in Nat /\ doing[c].seen = used[g] /\ held[c][g] = 0 /\ used[g] \in Nat
    BY <1>2 DEF Admit, LockInv, Doing, GatesTypeOK
  <2>2. CASE UNCHANGED <<used, held>> BY <1>1, <2>2
  <2>3. CASE /\ used' = [used EXCEPT ![g] = used[g] + n] /\ held' = [held EXCEPT ![c][g] = n]
             /\ ~(used[g] + n > CeilingOf(g))
    <3>1. used'[g] = used[g] + (n - held[c][g]) /\ \A x \in Counter : x # g => used'[x] = used[x]
      BY <2>1, <2>3 DEF LockInv, GatesTypeOK
    <3>2. CeilingOf(g) \in Int
      <4>1. DiskCap * HighWaterPct \in Int BY GateAssumption
      <4>2. \A i \in Int : i \div 100 \in Int OBVIOUS
      <4> QED BY <2>1, <4>1, <4>2, GateAssumption DEF CeilingOf, HighWater, Counter
    <3>3. used'[g] <= CeilingOf(g) BY <2>1, <2>3, <3>1, <3>2
    <3> QED BY <2>1, <2>3, <3>1, <3>3, ShareChanges
  <2> QED BY <1>2, <2>1, <2>2, <2>3 DEF Admit
<1>3. ASSUME NEW c \in Caller, ReleaseHeld(c) PROVE CountersExact'
  <2> DEFINE g == doing[c].lock  n == doing[c].amount
  <2>1. g \in Counter /\ n \in Nat /\ doing[c].seen = used[g] /\ held[c][g] = n /\ used[g] \in Nat
    BY <1>3 DEF ReleaseHeld, LockInv, Doing, GatesTypeOK
  <2>2. Shares(g) \in [Caller -> Nat] /\ Shares(g)[c] = n /\ used[g] = SumFunction(Shares(g)) /\ used[g] <= CeilingOf(g)
    <3>1. Shares(g) \in [Caller -> Nat] BY <2>1 DEF Shares, LockInv, GatesTypeOK
    <3>2. Shares(g)[c] = held[c][g] BY DEF Shares
    <3> HIDE DEF g
    <3>3. used[g] = SumFunction(Shares(g)) /\ used[g] <= CeilingOf(g) BY <2>1 DEF CountersExact, Shares
    <3> QED BY <2>1, <3>1, <3>2, <3>3
  <2>3. n <= used[g] BY <2>2, SumBounds, GateAssumption
  <2>4. held' = [held EXCEPT ![c][g] = 0] BY <1>3 DEF ReleaseHeld
  <2>5. used' = [used EXCEPT ![g] = used[g] - n]
    <3>1. used' = [used EXCEPT ![g] = IF doing[c].seen - n < 0 THEN 0 ELSE doing[c].seen - n] BY <1>3 DEF ReleaseHeld
    <3>2. ~(doing[c].seen - n < 0) /\ doing[c].seen - n = used[g] - n BY <2>1, <2>3
    <3> HIDE DEF n, g
    <3> QED BY <3>1, <3>2
  <2>6. used'[g] = used[g] + (0 - held[c][g]) /\ \A x \in Counter : x # g => used'[x] = used[x]
    BY <2>1, <2>5 DEF LockInv, GatesTypeOK
  <2>7. CeilingOf(g) \in Int
    <3>1. DiskCap * HighWaterPct \in Int BY GateAssumption
    <3>2. \A i \in Int : i \div 100 \in Int OBVIOUS
    <3> QED BY <2>1, <3>1, <3>2, GateAssumption DEF CeilingOf, HighWater, Counter
  <2>8. used'[g] <= CeilingOf(g) BY <2>1, <2>2, <2>6, <2>7
  <2> QED BY <2>1, <2>4, <2>6, <2>8, ShareChanges
<1> QED BY <1>1, <1>2, <1>3
        DEF GatesNext, CountersNext, RateNext, TicketNext, StartAdmit, StartRelease, GateTime, ReadClock, TryCreate,
            IssueTicket, NewGeneration, StartRedeem, Redeem, gateVars

-----------------------------------------------------------------------------
(* The rate: a window holds the creates after some k, and each create      *)
(* before k is a window's length older than another one.                   *)
WindowFrom(k, w, made) ==
    /\ Len(w) = Len(made) - k /\ \A m \in 1..Len(w) : w[m] = made[k + m]
    /\ \A j \in 1..k : \E i \in 1..Len(made) : made[j] <= made[i] - CreateWindow
SomeLatest(made) == \A i \in 1..Len(made) : \E m \in 1..i : \A j \in 1..i : made[j] <= made[m]
RateInv ==
    /\ clock \in Nat /\ stamp \in [Caller -> Nat] /\ window \in Seq(Nat) /\ creates \in Seq(Nat)
    /\ Len(window) <= CreateLimit
    /\ \E k \in 0..Len(creates) : WindowFrom(k, window, creates)
    /\ SomeLatest(creates) /\ RateKept

LEMMA RateInitially == GatesInit => RateInv
BY GateAssumption DEF GatesInit, RateInv, WindowFrom, SomeLatest, RateKept

(* DropOld drops a prefix, of creates that are all too old. *)
LEMMA DropsOld ==
    ASSUME NEW w \in Seq(Nat), NEW cutoff \in Int
    PROVE  \E d \in 0..Len(w) :
              /\ DropOld(w, cutoff) \in Seq(Nat) /\ Len(DropOld(w, cutoff)) = Len(w) - d
              /\ \A m \in 1..(Len(w) - d) : DropOld(w, cutoff)[m] = w[d + m]
              /\ \A j \in 1..d : w[j] <= cutoff
<1> DEFINE keep == {i \in 1..Len(w) : w[i] > cutoff}
           first == CHOOSE i \in keep : \A j \in keep : i <= j
<1>0. Len(w) \in Nat /\ \A j \in 1..Len(w) : w[j] \in Nat OBVIOUS
<1>1. CASE keep = {}
  <2>1. DropOld(w, cutoff) = <<>> BY <1>1 DEF DropOld
  <2>2. \A j \in 1..Len(w) : w[j] <= cutoff BY <1>0, <1>1
  <2> HIDE DEF keep
  <2> QED BY <1>0, <2>1, <2>2
<1>2. CASE keep # {}
  <2>1. keep \in SUBSET Nat OBVIOUS
  <2>2. PICK least \in keep : \A n \in keep : ~(<<n, least>> \in OpToRel(<, Nat))
    BY <1>2, <2>1, NatLessThanWellFounded, WFMin
  <2>3. \A n \in keep : least <= n
    <3>1. \A n \in keep : ~(n < least) BY <2>1, <2>2 DEF OpToRel
    <3> HIDE DEF keep
    <3> QED BY <2>1, <3>1
  <2>4. first \in keep /\ \A n \in keep : first <= n
    <3> HIDE DEF keep
    <3> QED BY <2>3
  <2>5. DropOld(w, cutoff) = SubSeq(w, first, Len(w)) BY <1>2 DEF DropOld
  <2>6. first \in 1..Len(w) BY <2>4
  <2>7. \A j \in 1..(first - 1) : w[j] <= cutoff
    <3>1. \A j \in 1..Len(w) : w[j] <= cutoff \/ j \in keep BY <1>0
    <3> HIDE DEF first, keep
    <3>2. \A j \in 1..(first - 1) : j \in 1..Len(w) /\ ~(first <= j) BY <1>0, <2>6
    <3> QED BY <2>4, <3>1, <3>2
  <2> HIDE DEF first, keep
  <2>8. /\ SubSeq(w, first, Len(w)) \in Seq(Nat) /\ Len(SubSeq(w, first, Len(w))) = Len(w) - (first - 1)
        /\ \A m \in 1..(Len(w) - (first - 1)) : SubSeq(w, first, Len(w))[m] = w[(first - 1) + m]
    BY <1>0, <2>6
  <2>9. first - 1 \in 0..Len(w) BY <1>0, <2>6
  <2> QED BY <2>5, <2>7, <2>8, <2>9
<1> QED BY <1>1, <1>2

(* The time after which creates count, and how many do. *)
Newest(made, i) == CHOOSE t \in {made[j] : j \in 1..i} : \A j \in 1..i : made[j] <= t
RateAt(made, i) == Cardinality({j \in 1..i : made[j] > Newest(made, i) - CreateWindow}) <= CreateLimit

LEMMA NewestIs ==
    ASSUME NEW made \in Seq(Nat), SomeLatest(made), NEW i \in 1..Len(made)
    PROVE  /\ \E m \in 1..i : Newest(made, i) = made[m]
           /\ \A j \in 1..i : made[j] <= Newest(made, i)
           /\ Newest(made, i) \in Nat
<1>1. PICK m \in 1..i : \A j \in 1..i : made[j] <= made[m] BY DEF SomeLatest
<1> DEFINE times == {made[j] : j \in 1..i}
<1>2. made[m] \in times /\ \A j \in 1..i : made[j] <= made[m] BY <1>1
<1>3. Newest(made, i) \in times /\ \A j \in 1..i : made[j] <= Newest(made, i)
  <2>1. Newest(made, i) = CHOOSE t \in times : \A j \in 1..i : made[j] <= t BY DEF Newest
  <2> HIDE DEF times
  <2> QED BY <1>2, <2>1
<1>4. \A j \in 1..i : made[j] \in Nat OBVIOUS
<1> QED BY <1>3, <1>4

(* One more create leaves what was true of the earlier ones. *)
LEMMA RateStays ==
    ASSUME NEW made \in Seq(Nat), NEW t \in Nat, SomeLatest(made), NEW more, more = Append(made, t),
           NEW i \in 1..Len(made), RateAt(made, i), SomeLatest(more)
    PROVE  RateAt(more, i)
<1>1. Len(made) \in Nat /\ i \in Nat /\ i <= Len(made) OBVIOUS
<1>2. more \in Seq(Nat) /\ Len(more) = Len(made) + 1 /\ \A j \in 1..Len(made) : more[j] = made[j] OBVIOUS
<1>3. i \in 1..Len(more) BY <1>1, <1>2
<1>4. \A j \in 1..i : more[j] = made[j] /\ made[j] \in Nat BY <1>1, <1>2
<1>5. Newest(more, i) = Newest(made, i)
  <2>1. /\ \E m \in 1..i : Newest(made, i) = made[m]
        /\ \A j \in 1..i : made[j] <= Newest(made, i)
        /\ Newest(made, i) \in Nat
    BY NewestIs
  <2>2. /\ \E m \in 1..i : Newest(more, i) = more[m]
        /\ \A j \in 1..i : more[j] <= Newest(more, i)
        /\ Newest(more, i) \in Nat
    BY <1>2, <1>3, NewestIs
  <2> QED BY <1>4, <2>1, <2>2
<1>6. {j \in 1..i : more[j] > Newest(more, i) - CreateWindow} = {j \in 1..i : made[j] > Newest(made, i) - CreateWindow}
  BY <1>4, <1>5
<1> QED BY <1>6 DEF RateAt

LEMMA RateOfAll ==
    ASSUME NEW made \in Seq(Nat), SomeLatest(made), Len(made) > 0,
           NEW k \in 0..Len(made), NEW w \in Seq(Nat), WindowFrom(k, w, made), Len(w) <= CreateLimit
    PROVE  RateAt(made, Len(made))
<1> DEFINE n == Len(made)  t == Newest(made, n)
           recent == {j \in 1..n : made[j] > t - CreateWindow}
<1>1. n \in Nat /\ n \in 1..n /\ k \in Nat /\ Len(w) \in Nat /\ CreateLimit \in Nat /\ CreateWindow \in Nat BY GateAssumption
<1>2. t \in Nat /\ \A j \in 1..n : made[j] <= t /\ made[j] \in Nat BY <1>1, NewestIs
<1>3. recent \subseteq (k + 1)..n
  <2> SUFFICES ASSUME NEW j \in 1..n, made[j] > t - CreateWindow, j \notin (k + 1)..n PROVE FALSE OBVIOUS
  <2>1. j \in 1..k BY <1>1
  <2>2. PICK i \in 1..n : made[j] <= made[i] - CreateWindow BY <2>1 DEF WindowFrom
  <2>3. made[i] <= t /\ made[i] \in Nat /\ made[j] \in Nat /\ t \in Nat /\ CreateWindow \in Nat
    BY <1>1, <1>2
  <2>4. made[j] > t - CreateWindow OBVIOUS
  <2> HIDE DEF t, n
  <2>5. made[i] - CreateWindow <= t - CreateWindow BY <2>3
  <2> QED BY <2>2, <2>3, <2>4, <2>5
<1>4. IsFiniteSet((k + 1)..n) /\ Cardinality((k + 1)..n) <= CreateLimit
  <2>1. Len(w) = n - k BY DEF WindowFrom
  <2> HIDE DEF n
  <2>2. k + 1 \in Int /\ n \in Int BY <1>1
  <2>3. IsFiniteSet((k + 1)..n) /\ Cardinality((k + 1)..n) = IF k + 1 > n THEN 0 ELSE n - (k + 1) + 1
    BY <2>2, FS_Interval
  <2> QED BY <1>1, <2>1, <2>3
<1>5. Cardinality(recent) <= Cardinality((k + 1)..n) /\ Cardinality(recent) \in Nat /\ Cardinality((k + 1)..n) \in Nat
  <2> HIDE DEF recent
  <2> QED BY <1>3, <1>4, FS_Subset, FS_CardinalityType
<1>6. Cardinality(recent) <= CreateLimit
  <2> HIDE DEF recent, n
  <2> QED BY <1>1, <1>4, <1>5
<1> QED BY <1>6 DEF RateAt

LEMMA CreateKeepsRate ==
    ASSUME RateInv, NEW c \in Caller, TryCreate(c) PROVE RateInv'
<1> DEFINE s == stamp[c]  times == DropOld(window, s - CreateWindow)  n == Len(creates)
<1>1. /\ s \in Nat /\ CreateWindow \in Nat /\ CreateLimit \in Nat /\ s - CreateWindow \in Int
      /\ clock' = clock /\ stamp' = stamp /\ n \in Nat /\ Len(window) \in Nat
      /\ window \in Seq(Nat) /\ creates \in Seq(Nat)
  BY GateAssumption DEF RateInv, TryCreate
<1>2. PICK k \in 0..n : WindowFrom(k, window, creates) BY DEF RateInv
<1>3. PICK d \in 0..Len(window) :
          /\ times \in Seq(Nat) /\ Len(times) = Len(window) - d
          /\ \A m \in 1..(Len(window) - d) : times[m] = window[d + m]
          /\ \A j \in 1..d : window[j] <= s - CreateWindow
  BY <1>1, DropsOld
<1>4. CASE Fits(times) /\ window' = Append(times, s) /\ creates' = Append(creates, s)
  <2>1. /\ window' \in Seq(Nat) /\ Len(window') = Len(times) + 1 /\ window'[Len(times) + 1] = s
        /\ \A m \in 1..Len(times) : window'[m] = times[m]
    BY <1>1, <1>3, <1>4
  <2>2. /\ creates' \in Seq(Nat) /\ Len(creates') = n + 1 /\ creates'[n + 1] = s
        /\ \A j \in 1..n : creates'[j] = creates[j] /\ creates[j] \in Nat
    BY <1>1, <1>4
  <2> HIDE DEF times, s, n
  <2>3. Len(window') \in Nat /\ Len(window') <= CreateLimit BY <1>1, <1>3, <1>4, <2>1 DEF Fits
  <2>4. Len(window) = n - k /\ \A m \in 1..Len(window) : window[m] = creates[k + m]
    BY <1>2 DEF WindowFrom, n
  <2>5. k + d \in 0..(n + 1) /\ Len(window') = Len(creates') - (k + d) BY <1>1, <1>2, <1>3, <2>1, <2>2, <2>4
  <2>6. \A m \in 1..Len(window') : window'[m] = creates'[k + d + m]
    <3> TAKE m \in 1..Len(window')
    <3>1. CASE m = Len(times) + 1
      <4>0. k \in Int /\ d \in Int /\ n \in Int BY <1>1, <1>2, <1>3
      <4>1. k \in Int /\ d \in Int /\ n \in Int /\ m = (n - k) - d + 1 BY <4>0, <1>3, <2>4, <3>1
      <4>3. k + d + m = n + 1 BY <4>1
      <4> QED BY <2>1, <2>2, <3>1, <4>3
    <3>2. CASE m # Len(times) + 1
      <4>1. m \in 1..Len(times) /\ d + m \in 1..Len(window) /\ k + d + m \in 1..n
        BY <1>1, <1>2, <1>3, <2>1, <2>4, <3>2
      <4>2. window'[m] = window[d + m] BY <1>3, <2>1, <4>1
      <4>3. window[d + m] = creates[k + (d + m)] BY <2>4, <4>1
      <4>4. k + (d + m) = k + d + m BY <1>2, <1>3, <4>1
      <4> QED BY <2>2, <4>1, <4>2, <4>3, <4>4
    <3> QED BY <3>1, <3>2
  <2>7. \A j \in 1..(k + d) : \E i \in 1..Len(creates') : creates'[j] <= creates'[i] - CreateWindow
    <3> TAKE j \in 1..(k + d)
    <3>1. CASE j \in 1..k
      <4>1. PICK i \in 1..n : creates[j] <= creates[i] - CreateWindow BY <1>2, <3>1 DEF WindowFrom, n
      <4>2. i \in 1..Len(creates') /\ j \in 1..n BY <1>1, <1>2, <2>2, <3>1
      <4> QED BY <2>2, <4>1, <4>2
    <3>2. CASE j \notin 1..k
      <4>1. j - k \in 1..d /\ j - k \in 1..Len(window) /\ j \in 1..n /\ k + (j - k) = j
        BY <1>1, <1>2, <1>3, <2>4, <3>2
      <4>2. creates[j] = window[j - k] BY <2>4, <4>1
      <4>3. creates'[j] <= s - CreateWindow BY <1>3, <2>2, <4>1, <4>2
      <4>4. n + 1 \in 1..Len(creates') BY <1>1, <2>2
      <4> QED BY <2>2, <4>3, <4>4
    <3> QED BY <3>1, <3>2
  <2>8. WindowFrom(k + d, window', creates') BY <2>5, <2>6, <2>7 DEF WindowFrom
  <2>9. SomeLatest(creates')
    <3>1. SomeLatest(creates) BY DEF RateInv
    <3>2. ASSUME NEW i \in 1..n PROVE \E m \in 1..i : \A j \in 1..i : creates'[j] <= creates'[m]
      <4>1. PICK m \in 1..i : \A j \in 1..i : creates[j] <= creates[m] BY <3>1 DEF SomeLatest, n
      <4>2. \A j \in 1..i : j \in 1..n BY <1>1
      <4> QED BY <2>2, <4>1, <4>2
    <3>3. \E m \in 1..(n + 1) : \A j \in 1..(n + 1) : creates'[j] <= creates'[m]
      <4>1. CASE n = 0 BY <1>1, <2>2, <4>1
      <4>2. CASE n # 0
        <5>0. n \in 1..n BY <1>1, <4>2
        <5>1. PICK m \in 1..n : \A j \in 1..n : creates'[j] <= creates'[m] BY <3>2, <5>0
        <5>2. creates'[m] \in Nat /\ m \in 1..(n + 1) /\ n + 1 \in 1..(n + 1) BY <1>1, <2>2
        <5>3. \A j \in 1..(n + 1) : (j \in 1..n /\ creates'[j] \in Nat /\ creates'[j] <= creates'[m]) \/ j = n + 1
          BY <1>1, <2>2, <5>1
        <5>4. CASE creates'[m] >= s
          <6>1. \A j \in 1..(n + 1) : creates'[j] <= creates'[m] BY <2>2, <5>3, <5>4
          <6> QED BY <5>2, <6>1, Zenon
        <5>5. CASE creates'[m] < s
          <6>1. ASSUME NEW j \in 1..(n + 1) PROVE creates'[j] <= creates'[n + 1]
            <7>1. creates'[n + 1] \in Nat /\ creates'[m] <= creates'[n + 1] BY <1>1, <2>2, <5>2, <5>5
            <7>2. CASE j = n + 1 BY <7>1, <7>2
            <7>3. CASE j \in 1..n /\ creates'[j] \in Nat /\ creates'[j] <= creates'[m] BY <5>2, <7>1, <7>3
            <7> QED BY <5>3, <7>2, <7>3
          <6> QED BY <5>2, <6>1, Zenon
        <5>6. creates'[m] >= s \/ creates'[m] < s BY <1>1, <5>2
        <5> QED BY <5>4, <5>5, <5>6, Zenon
      <4> QED BY <4>1, <4>2
    <3>4. \A i \in 1..(n + 1) : i \in 1..n \/ i = n + 1 BY <1>1
    <3> QED BY <2>2, <3>2, <3>3, <3>4 DEF SomeLatest
  <2>10. RateKept'
    <3>1. \A i \in 1..n : RateAt(creates, i) BY DEF RateInv, RateKept, RateAt, Newest, n
    <3>2. \A i \in 1..n : RateAt(creates', i)
      <4>1. SomeLatest(creates) BY DEF RateInv
      <4> QED BY <1>1, <1>4, <2>9, <3>1, <4>1, RateStays DEF n
    <3>3. RateAt(creates', n + 1)
      <4>1. k + d \in 0..Len(creates') /\ Len(creates') > 0 BY <1>1, <2>2, <2>5
      <4> QED BY <2>1, <2>2, <2>3, <2>8, <2>9, <4>1, RateOfAll
    <3>4. \A i \in 1..Len(creates') : RateAt(creates', i) BY <1>1, <2>2, <3>2, <3>3
    <3> QED BY <3>4 DEF RateKept, RateAt, Newest
  <2>11. k + d \in 0..Len(creates') BY <2>2, <2>5
  <2>12. clock' \in Nat /\ stamp' \in [Caller -> Nat] BY <1>1 DEF RateInv
  <2> QED BY <2>1, <2>2, <2>3, <2>8, <2>9, <2>10, <2>11, <2>12 DEF RateInv
<1>5. CASE ~Fits(times) /\ window' = times /\ UNCHANGED creates
  <2> HIDE DEF times, s, n
  <2>1. Len(times) >= CreateLimit /\ Len(window) <= CreateLimit BY <1>1, <1>3, <1>5 DEF Fits, RateInv
  <2>2. d = 0 /\ Len(times) = Len(window) BY <1>1, <1>3, <2>1
  <2>3. \A m \in 1..Len(window) : times[m] = window[m] BY <1>1, <1>3, <2>2
  <2>4. WindowFrom(k, window', creates') BY <1>2, <1>5, <2>2, <2>3 DEF WindowFrom
  <2>5. k \in 0..Len(creates') BY <1>2, <1>5 DEF n
  <2>6. window' \in Seq(Nat) /\ Len(window') <= CreateLimit BY <1>3, <1>5, <2>1, <2>2
  <2>7. clock' \in Nat /\ stamp' \in [Caller -> Nat] /\ creates' \in Seq(Nat) /\ SomeLatest(creates')
    BY <1>1, <1>5 DEF RateInv
  <2>8. RateKept'
    <3>1. creates' = creates BY <1>5
    <3>2. \A i \in 1..Len(creates) : RateAt(creates, i) BY DEF RateInv, RateKept, RateAt, Newest
    <3>3. \A i \in 1..Len(creates') : RateAt(creates', i) BY <3>1, <3>2
    <3> QED BY <3>3 DEF RateKept, RateAt, Newest
  <2> QED BY <2>4, <2>5, <2>6, <2>7, <2>8 DEF RateInv
<1> QED BY <1>4, <1>5 DEF TryCreate

LEMMA RateStep == RateInv /\ [GatesNext]_gateVars => RateInv'
<1> SUFFICES ASSUME RateInv, [GatesNext]_gateVars PROVE RateInv' OBVIOUS
<1>1. ASSUME NEW c \in Caller, TryCreate(c) PROVE RateInv' BY <1>1, CreateKeepsRate
<1>2. ASSUME UNCHANGED <<window, creates>>, clock' \in Nat, stamp' \in [Caller -> Nat] PROVE RateInv'
  <2>1. creates' = creates BY <1>2
  <2>2. \A i \in 1..Len(creates) : RateAt(creates, i) BY DEF RateInv, RateKept, RateAt, Newest
  <2>3. \A i \in 1..Len(creates') : RateAt(creates', i) BY <2>1, <2>2
  <2>4. RateKept' BY <2>3 DEF RateKept, RateAt, Newest
  <2> QED BY <1>2, <2>4 DEF RateInv
<1>3. CASE GateTime BY <1>2, <1>3 DEF GateTime, RateInv
<1>4. ASSUME NEW c \in Caller, ReadClock(c) PROVE RateInv' BY <1>2, <1>4 DEF ReadClock, RateInv
<1>5. CASE UNCHANGED <<window, creates, clock, stamp>> BY <1>2, <1>5 DEF RateInv
<1> QED BY <1>1, <1>3, <1>4, <1>5
        DEF GatesNext, CountersNext, RateNext, TicketNext, StartAdmit, StartRelease, Admit, ReleaseHeld,
            IssueTicket, NewGeneration, StartRedeem, Redeem, gateVars

(* However callers interleave, the counters equal what is held and stay    *)
(* under their ceilings, creates stay within their rate and a ticket       *)
(* attaches once, for any callers, ceilings, limits and windows            *)
(* (try_admit, reserve_quota, try_create, redeem).                         *)
THEOREM GatesHoldAlways == GatesSpec => []GatesHold
<1>1. LockInv /\ CountersExact /\ RateInv => GatesHold BY DEF LockInv, RateInv, GatesHold, TicketOnce
<1> QED BY LockInitially, LockStep, CountersInitially, CountersStep, RateInitially, RateStep, <1>1, PTL DEF GatesSpec
=============================================================================
