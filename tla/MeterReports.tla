---------------------------- MODULE MeterReports ----------------------------
(***************************************************************************)
(* MeteringClient of scripts/stripe_bridge.py: meter events are sent with  *)
(* the time they occurred, aggregated asynchronously by a provider that    *)
(* keeps one event per id and month, polled, and only then judged.         *)
(***************************************************************************)
EXTENDS Integers, FiniteSets

CONSTANTS
    MeterEvent,  \* event ids; each has the value 1
    LastMonth    \* bound: months that pass, counted from 0

ASSUME MeterAssumption == LastMonth \in Nat

VARIABLES
    month,     \* the current month
    occurred,  \* the month each event happened in, LastMonth + 1 before it did
    records,   \* _records: status and aggregated value by event
    accepted,  \* the provider: <<event, month>> it bills
    counted,   \* those it has aggregated
    matched    \* events reconcile called a match
meterVars == <<month, occurred, records, accepted, counted, matched>>

NotYet == LastMonth + 1
Unreported == [status |-> "absent", value |-> 0]
MeterInit ==
    /\ month = 0 /\ occurred = [e \in MeterEvent |-> NotYet]
    /\ records = [e \in MeterEvent |-> Unreported]
    /\ accepted = {} /\ counted = {} /\ matched = {}

Occurs(e) ==
    /\ occurred[e] = NotYet /\ occurred' = [occurred EXCEPT ![e] = month]
    /\ UNCHANGED <<month, records, accepted, counted, matched>>
MonthEnds ==
    /\ month < LastMonth /\ month' = month + 1
    /\ UNCHANGED <<occurred, records, accepted, counted, matched>>

SendTime(e) == month
PayloadTimestamp(e) == occurred[e]

(* report: an event on record is a duplicate; one whose send failed, or    *)
(* whose acknowledgement was lost, is not on record and is sent again.     *)
ReportEvent(e) ==
    /\ occurred[e] # NotYet /\ records[e] = Unreported
    /\ accepted' = accepted \cup {<<e, PayloadTimestamp(e)>>}
    /\ \/ records' = [records EXCEPT ![e] = [status |-> "pending", value |-> 0]]
       \/ UNCHANGED records
    /\ UNCHANGED <<month, occurred, counted, matched>>
AggregateEvent ==
    /\ \E p \in accepted \ counted : counted' = counted \cup {p}
    /\ UNCHANGED <<month, occurred, records, accepted, matched>>

(* poll_status: only a ready answer moves the record, and once.            *)
Value(e) == Cardinality({p \in counted : p[1] = e})
PollStatus(e) ==
    /\ records[e].status = "pending" /\ Value(e) > 0
    /\ records' = [records EXCEPT ![e] = [status |-> "ready", value |-> Value(e)]]
    /\ UNCHANGED <<month, occurred, accepted, counted, matched>>

(* reconcile: ReconciliationBlocked while pending. *)
Reconcileable(e) == records[e].status = "ready"
ReconcileEvent(e) ==
    /\ Reconcileable(e)
    /\ matched' = IF records[e].value = 1 THEN matched \cup {e} ELSE matched \ {e}
    /\ UNCHANGED <<month, occurred, records, accepted, counted>>

MeterNext ==
    \/ MonthEnds \/ AggregateEvent
    \/ \E e \in MeterEvent : Occurs(e) \/ ReportEvent(e) \/ PollStatus(e) \/ ReconcileEvent(e)
MeterSpec == MeterInit /\ [][MeterNext]_meterVars

-----------------------------------------------------------------------------
(* Usage is billed once and to the month it happened in, however late and  *)
(* often it is sent and across the end of a month, and what was called a   *)
(* match is what the provider counts (report, poll_status, reconcile).     *)
MeteredOnce ==
    /\ month \in 0..LastMonth /\ counted \subseteq accepted
    /\ \A p \in accepted : p[2] = occurred[p[1]]
    /\ \A e \in matched : Value(e) = 1
=============================================================================
