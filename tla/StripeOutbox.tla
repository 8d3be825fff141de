---------------------------- MODULE StripeOutbox ----------------------------
(***************************************************************************)
(* The billing outbox of scripts/stripe_bridge.py (OutboxRecorder) against *)
(* a provider that bills once per idempotency key (ProviderDouble) over a  *)
(* network that loses requests and responses and delivers late.            *)
(*                                                                         *)
(* The recorder is not locked: one caller drives it, and a call at the     *)
(* transport is the only point of a method where others get in between.    *)
(* to_dict is written when an intention is recorded and when it is         *)
(* confirmed (the durability model of the class), and possibly at any      *)
(* other time; a crash falls back to the last image.                       *)
(***************************************************************************)
EXTENDS Naturals

CONSTANTS
    MaxEntries,  \* bound: intentions recorded
    MaxCrashes   \* bound: crashes of the sender

ASSUME OutboxAssumption == MaxEntries \in Nat \ {0} /\ MaxCrashes \in Nat

Entry == 1..MaxEntries
Status == {"absent", "pending", "sent", "confirmed"}
NoReceipt == 0
Nobody == 0
NoCall == [entry |-> Nobody, key |-> 0, answered |-> FALSE]

VARIABLES
    \* the recorder's memory
    status, receipt,
    \* its last image on disk
    savedStatus, savedReceipt,
    \* the call at the transport: entry, idempotency key, answered or not
    call,
    \* a recover in progress: the entry it has reached (Nobody: none is)
    cursor,
    \* requests given up by their caller that are still on their way
    strays,
    \* the provider: charges by key, number of charges ever made
    charged, issued,
    \* auxiliary: how often each entry was charged
    billings,
    crashes

memory == <<status, receipt>>
disk == <<savedStatus, savedReceipt>>
provider == <<charged, issued, billings>>
vars == <<memory, disk, call, cursor, strays, provider, crashes>>

TypeOK ==
    /\ status \in [Entry -> Status]
    /\ receipt \in [Entry -> Nat]
    /\ savedStatus \in [Entry -> Status]
    /\ savedReceipt \in [Entry -> Nat]
    /\ call \in [entry : Entry \cup {Nobody}, key : Nat, answered : BOOLEAN]
    /\ cursor \in Entry \cup {Nobody}
    /\ strays \subseteq [entry : Entry, key : Nat]
    /\ charged \subseteq [key : Nat, id : Nat \ {NoReceipt}]
    /\ issued \in Nat
    /\ billings \in [Entry -> Nat]
    /\ crashes \in 0..MaxCrashes

Init ==
    /\ status = [o \in Entry |-> "absent"]
    /\ receipt = [o \in Entry |-> NoReceipt]
    /\ savedStatus = [o \in Entry |-> "absent"]
    /\ savedReceipt = [o \in Entry |-> NoReceipt]
    /\ call = NoCall /\ cursor = Nobody
    /\ strays = {} /\ charged = {} /\ issued = 0
    /\ billings = [o \in Entry |-> 0]
    /\ crashes = 0

-----------------------------------------------------------------------------
InCall == call.entry # Nobody
Idle == ~InCall /\ cursor = Nobody
Recorded(o) == status[o] # "absent"
Unconfirmed == {o \in Entry : status[o] \in {"pending", "sent"}}

(* The provider keeps one charge per key: it bills a key it has not seen   *)
(* and answers a known one with the charge it made.                        *)
Receipts(key) == {c.id : c \in {d \in charged : d.key = key}}
Handle(request) ==
    IF Receipts(request.key) # {} THEN UNCHANGED provider
    ELSE /\ issued' = issued + 1
         /\ charged' = charged \cup {[key |-> request.key, id |-> issued']}
         /\ billings' = [billings EXCEPT ![request.entry] = @ + 1]

(* to_dict: the receipt of an unconfirmed entry is volatile. *)
DurableReceipt(o) == IF status[o] = "confirmed" THEN receipt[o] ELSE NoReceipt
Save ==
    /\ savedStatus' = status
    /\ savedReceipt' = [o \in Entry |-> DurableReceipt(o)]
    /\ UNCHANGED <<memory, call, cursor, strays, provider, crashes>>

(* record: the intention is on disk before anything is sent. *)
Record(o) ==
    /\ Idle /\ ~Recorded(o)
    /\ \A p \in Entry : p < o => Recorded(p)
    /\ status' = [status EXCEPT ![o] = "pending"]
    /\ savedStatus' = [savedStatus EXCEPT ![o] = "pending"]
    /\ UNCHANGED <<receipt, savedReceipt, call, cursor, strays, provider, crashes>>

-----------------------------------------------------------------------------
(* send: an entry with a recorded receipt is answered from memory, without *)
(* a step; any other goes to the transport under its own id.               *)
FreshKey(o) == 10 * issued + o
CarrierKey(o) == o
Delivered(o) == status[o] \in {"sent", "confirmed"} /\ receipt[o] # NoReceipt

CallTransport(o) ==
    /\ ~Delivered(o)
    /\ call' = [entry |-> o, key |-> CarrierKey(o), answered |-> FALSE]
    /\ UNCHANGED <<memory, disk, cursor, strays, provider, crashes>>
Send(o) == Idle /\ Recorded(o) /\ CallTransport(o)

ProviderAnswers(o) ==
    /\ call.entry = o /\ ~call.answered
    /\ Handle(call)
    /\ call' = [call EXCEPT !.answered = TRUE]
    /\ UNCHANGED <<memory, disk, cursor, strays, crashes>>

Response(o) ==
    /\ InCall /\ call.entry = o /\ call.answered
    /\ \E id \in Receipts(call.key) : receipt' = [receipt EXCEPT ![o] = id]
    /\ status' = [status EXCEPT ![o] = "sent"]
    /\ call' = NoCall
    /\ UNCHANGED <<disk, cursor, strays, provider, crashes>>

(* The caller stops waiting, or dies: the request may still arrive. *)
Abandoned ==
    IF InCall /\ ~call.answered
      THEN strays' = strays \cup {[entry |-> call.entry, key |-> call.key]}
      ELSE UNCHANGED strays

(* The TimeoutError leaves the entry as it is, and ends a recover. *)
Timeout ==
    /\ InCall
    /\ Abandoned
    /\ call' = NoCall /\ cursor' = Nobody
    /\ UNCHANGED <<memory, disk, provider, crashes>>

StrayArrives(request) ==
    /\ Handle(request)
    /\ strays' = strays \ {request}
    /\ UNCHANGED <<memory, disk, call, cursor, crashes>>

-----------------------------------------------------------------------------
(* confirm: a lost receipt is asked of the provider (a read); without one  *)
(* the entry cannot be confirmed.                                          *)
TrustingReceipts(o) == Receipts(CarrierKey(o)) \cup {receipt[o]}
ConfirmReceipts(o) ==
    IF receipt[o] # NoReceipt THEN {receipt[o]} ELSE Receipts(CarrierKey(o))

ConfirmWith(o, id) ==
    /\ receipt' = [receipt EXCEPT ![o] = id]
    /\ status' = [status EXCEPT ![o] = "confirmed"]
    /\ savedReceipt' = [savedReceipt EXCEPT ![o] = id]
    /\ savedStatus' = [savedStatus EXCEPT ![o] = "confirmed"]
    /\ UNCHANGED <<call, strays, provider, crashes>>

Confirm(o) ==
    /\ Idle /\ o \in Unconfirmed
    /\ \E id \in ConfirmReceipts(o) : ConfirmWith(o, id)
    /\ UNCHANGED cursor

(* recover: entry by entry, in the order of their recording; an entry      *)
(* that cannot be confirmed ends it.                                       *)
ReachFirst(entries) ==
    \/ entries = {} /\ cursor' = Nobody
    \/ \E o \in entries : (\A p \in entries : o <= p) /\ cursor' = o

Recover ==
    /\ Idle /\ Unconfirmed # {}
    /\ ReachFirst(Unconfirmed)
    /\ UNCHANGED <<memory, disk, call, strays, provider, crashes>>

AssumedSent(o) == FALSE
Unsent(o) == status[o] = "pending"
RecoverSend ==
    /\ ~InCall /\ cursor # Nobody /\ Unsent(cursor)
    /\ CallTransport(cursor)

RecoverConfirm ==
    /\ ~InCall /\ cursor # Nobody /\ ~Unsent(cursor)
    /\ IF ConfirmReceipts(cursor) = {}
         THEN cursor' = Nobody
              /\ UNCHANGED <<memory, disk, call, strays, provider, crashes>>
         ELSE /\ \E id \in ConfirmReceipts(cursor) : ConfirmWith(cursor, id)
              /\ ReachFirst(Unconfirmed \ 1..cursor)

(* A crash falls back to the image on disk. *)
Crash ==
    /\ crashes < MaxCrashes
    /\ crashes' = crashes + 1
    /\ status' = savedStatus /\ receipt' = savedReceipt
    /\ Abandoned
    /\ call' = NoCall /\ cursor' = Nobody
    /\ UNCHANGED <<disk, provider>>

Next ==
    \/ \E o \in Entry : Record(o) \/ Send(o) \/ Confirm(o)
    \/ \E o \in Entry : ProviderAnswers(o) \/ Response(o)
    \/ Timeout
    \/ \E request \in strays : StrayArrives(request)
    \/ Recover \/ RecoverSend \/ RecoverConfirm
    \/ Save
    \/ Crash

(* recover is called again and again while anything is unconfirmed, and    *)
(* the provider keeps being reachable: no entry's calls fail for ever.     *)
Fairness ==
    /\ WF_vars(Recover) /\ WF_vars(RecoverSend) /\ WF_vars(RecoverConfirm)
    /\ \A o \in Entry : SF_vars(ProviderAnswers(o)) /\ SF_vars(Response(o))

Spec == Init /\ [][Next]_vars
FairSpec == Spec /\ Fairness

-----------------------------------------------------------------------------
(* No double bill: retries after a timeout, requests that arrive late and  *)
(* restarts from an old image never charge an entry twice.                 *)
BilledAtMostOnce == \A o \in Entry : billings[o] <= 1

(* Every receipt the recorder holds, in memory or on disk, is that of the  *)
(* entry's charge at the provider, and what is confirmed has one.          *)
ReceiptGenuine ==
    \A o \in Entry :
        /\ {receipt[o], savedReceipt[o]} \subseteq Receipts(o) \cup {NoReceipt}
        /\ status[o] = "confirmed" => receipt[o] # NoReceipt
        /\ savedStatus[o] = "confirmed" => savedReceipt[o] # NoReceipt

(* The outbox implements BilledOnce: an entry is settled once it is        *)
(* confirmed on disk, and with recovery and a reachable provider every     *)
(* recorded intention is.                                                  *)
Abstract == INSTANCE BilledOnce
    WITH Item <- Entry,
         intended <- {o \in Entry : savedStatus[o] # "absent"},
         settled <- {o \in Entry : savedStatus[o] = "confirmed"}
AbstractSpec == Abstract!Spec

AbstractFairSpec == Abstract!FairSpec
=============================================================================
