------------------------- MODULE StripeOutboxProofs -------------------------
(***************************************************************************)
(* For any number of entries and crashes: the outbox is well typed, holds  *)
(* no receipt but that of the entry's one charge, never charges an entry   *)
(* twice, and implements BilledOnce.                                       *)
(***************************************************************************)
EXTENDS StripeOutbox, TLAPS

(* Every request under way carries the entry's own id as its key. *)
OwnKey ==
    /\ InCall => call.key = call.entry
    /\ \A r \in strays : r.key = r.entry

(* An entry has been charged once if the provider has a receipt for it,    *)
(* and not at all if it has none.                                          *)
ChargedAsReceipted ==
    \A o \in Entry : billings[o] = IF Receipts(o) = {} THEN 0 ELSE 1

(* Only what is recorded and unconfirmed is ever sent, and the image on disk *)
(* agrees with the memory on what is recorded and what is confirmed.       *)
SentIsRecorded ==
    /\ InCall => call.entry \in Unconfirmed
    /\ \A r \in strays : savedStatus[r.entry] # "absent"
    /\ \A o \in Entry : \A st \in {"absent", "confirmed"} :
          status[o] = st <=> savedStatus[o] = st

(* A recover stands at an entry it has still to confirm. *)
CursorOpen == cursor # Nobody => cursor \in Unconfirmed

IInv == /\ TypeOK /\ OwnKey /\ ChargedAsReceipted /\ SentIsRecorded
        /\ CursorOpen /\ ReceiptGenuine

USE OutboxAssumption

(* The provider's handling of a request keyed by its own entry: receipts   *)
(* are only added, to a known key none, and the charges follow them.       *)
LEMMA HandleFacts ==
    ASSUME TypeOK, ChargedAsReceipted, NEW r, r.entry \in Entry, r.key = r.entry,
           Handle(r)
    PROVE  /\ charged' \subseteq [key : Nat, id : Nat \ {NoReceipt}]
           /\ issued' \in Nat
           /\ billings' \in [Entry -> Nat]
           /\ ChargedAsReceipted'
           /\ \A o \in Entry : Receipts(o) \subseteq Receipts(o)'
           /\ Receipts(r.key)' # {}
           /\ \A o \in Entry \ {r.entry} : billings'[o] = billings[o]
           /\ billings'[r.entry] = 1
<1>0. r.key \in Nat /\ charged \subseteq [key : Nat, id : Nat \ {NoReceipt}]
  BY DEF TypeOK, Entry
<1>1. CASE Receipts(r.key) # {}
  <2>1. UNCHANGED provider
    BY <1>1 DEF Handle
  <2> QED
    BY <1>1, <2>1 DEF TypeOK, ChargedAsReceipted, provider, Receipts
<1>2. CASE Receipts(r.key) = {}
  <2> DEFINE new == [key |-> r.key, id |-> issued + 1]
  <2>1. /\ issued' = issued + 1
        /\ charged' = charged \cup {new}
        /\ billings' = [billings EXCEPT ![r.entry] = @ + 1]
    BY <1>2 DEF Handle
  <2>2. new \in [key : Nat, id : Nat \ {NoReceipt}]
    BY <1>0 DEF TypeOK, NoReceipt
  <2>3. \A o \in Entry : Receipts(o)' =
            IF o = r.entry THEN Receipts(o) \cup {new.id} ELSE Receipts(o)
    <3> TAKE o \in Entry
    <3>1. \A i : i \in Receipts(o)' <=> \E d \in charged' : d.key = o /\ d.id = i
      BY DEF Receipts
    <3>2. \A i : i \in Receipts(o) <=> \E d \in charged : d.key = o /\ d.id = i
      BY DEF Receipts
    <3>3. new.key = r.entry
      OBVIOUS
    <3> HIDE DEF new
    <3>4. \A i : i \in Receipts(o)' <=> i \in Receipts(o) \/ (o = r.entry /\ i = new.id)
      BY <2>1, <3>1, <3>2, <3>3
    <3> QED
      BY <3>4
  <2>4. billings[r.entry] = 0
    BY <1>2 DEF ChargedAsReceipted
  <2>5. billings' \in [Entry -> Nat] /\ billings'[r.entry] = 1
    BY <2>1, <2>4 DEF TypeOK
  <2>6. \A o \in Entry \ {r.entry} : billings'[o] = billings[o]
    BY <2>1 DEF TypeOK
  <2>7. ChargedAsReceipted'
    BY <2>3, <2>5, <2>6 DEF ChargedAsReceipted
  <2>8. charged' \subseteq [key : Nat, id : Nat \ {NoReceipt}] /\ issued' \in Nat
    BY <1>0, <2>1, <2>2 DEF TypeOK
  <2>9. /\ \A o \in Entry : Receipts(o) \subseteq Receipts(o)'
        /\ Receipts(r.key)' # {}
    BY <2>3
  <2> QED
    BY <2>5, <2>6, <2>7, <2>8, <2>9
<1> QED
  BY <1>1, <1>2

(* What no step but the provider's handling changes in the charges. *)
LEMMA SameCharges ==
    ASSUME ChargedAsReceipted, UNCHANGED provider
    PROVE  ChargedAsReceipted' /\ \A key : Receipts(key)' = Receipts(key)
BY DEF provider, ChargedAsReceipted, Receipts

(* The receipts a confirmation may use are genuine ones. *)
LEMMA ConfirmFacts ==
    ASSUME IInv, NEW o \in Entry, NEW id \in ConfirmReceipts(o)
    PROVE  id \in Receipts(o) /\ id \in Nat \ {NoReceipt}
<1>1. id \in Receipts(o)
  BY DEF IInv, ConfirmReceipts, CarrierKey, ReceiptGenuine
<1> QED
  BY <1>1 DEF IInv, TypeOK, Receipts

LEMMA Initially == Init => IInv
BY DEF Init, IInv, TypeOK, OwnKey, ChargedAsReceipted, SentIsRecorded,
       CursorOpen, ReceiptGenuine, Receipts, InCall, NoCall, NoReceipt, Nobody, Status, Entry

(* Abandoning a call only adds its own request to the strays. *)
LEMMA AbandonedFacts ==
    ASSUME IInv, Abandoned
    PROVE  /\ strays' \subseteq [entry : Entry, key : Nat]
           /\ \A r \in strays' : r.key = r.entry /\ savedStatus[r.entry] # "absent"
<1>1. CASE InCall /\ ~call.answered
  <2> DEFINE new == [entry |-> call.entry, key |-> call.key]
  <2>1. strays' = strays \cup {new}
    BY <1>1 DEF Abandoned
  <2>2. new \in [entry : Entry, key : Nat]
    BY <1>1 DEF IInv, TypeOK, InCall
  <2>3. new.key = new.entry /\ savedStatus[new.entry] # "absent"
    BY <1>1 DEF IInv, OwnKey, SentIsRecorded, Unconfirmed
  <2> HIDE DEF new
  <2> QED
    BY <2>1, <2>2, <2>3 DEF IInv, TypeOK, OwnKey, SentIsRecorded
<1>2. CASE ~(InCall /\ ~call.answered)
  BY <1>2 DEF Abandoned, IInv, TypeOK, OwnKey, SentIsRecorded
<1> QED
  BY <1>1, <1>2

(* A confirmation, by the caller or by a recover. *)
LEMMA ConfirmStep ==
    ASSUME IInv, ~InCall,
           NEW o \in Entry, o \in Unconfirmed, NEW id \in ConfirmReceipts(o),
           ConfirmWith(o, id), cursor' = Nobody \/ cursor' \in Unconfirmed \ {o}
    PROVE  IInv'
<1>1. id \in Receipts(o) /\ id \in Nat \ {NoReceipt}
  BY ConfirmFacts
<1>2. ChargedAsReceipted' /\ \A key : Receipts(key)' = Receipts(key)
  BY SameCharges DEF IInv, ConfirmWith
<1>3. TypeOK'
  BY <1>1 DEF IInv, TypeOK, ConfirmWith, provider, Status, Unconfirmed
<1>8. CursorOpen'
  BY DEF IInv, TypeOK, CursorOpen, Unconfirmed, ConfirmWith
<1>4. OwnKey'
  BY DEF IInv, OwnKey, ConfirmWith, InCall
<1>5. savedStatus[o] # "absent"
  BY DEF IInv, SentIsRecorded, Unconfirmed
<1>6. SentIsRecorded'
  BY <1>5 DEF IInv, TypeOK, SentIsRecorded, ConfirmWith, InCall
<1>7. ReceiptGenuine'
  <2> SUFFICES ASSUME NEW p \in Entry
               PROVE  /\ {receipt[p], savedReceipt[p]}' \subseteq Receipts(p) \cup {NoReceipt}
                      /\ status'[p] = "confirmed" => receipt'[p] # NoReceipt
                      /\ savedStatus'[p] = "confirmed" => savedReceipt'[p] # NoReceipt
    BY <1>2 DEF ReceiptGenuine
  <2>1. CASE p = o
    BY <1>1, <2>1 DEF IInv, TypeOK, ConfirmWith
  <2>2. CASE p # o
    BY <2>2 DEF IInv, TypeOK, ReceiptGenuine, ConfirmWith
  <2> QED
    BY <2>1, <2>2
<1> QED
  BY <1>2, <1>3, <1>4, <1>6, <1>7, <1>8 DEF IInv

(* The provider's handling of a request that is under way. *)
LEMMA HandleStep ==
    ASSUME IInv, NEW r, r.entry \in Entry, r.key = r.entry, Handle(r),
           UNCHANGED <<memory, disk, cursor, crashes>>,
           call' \in [entry : Entry \cup {Nobody}, key : Nat, answered : BOOLEAN],
           call'.entry = call.entry, call'.key = call.key, strays' \subseteq strays
    PROVE  IInv'
<1>1. /\ charged' \subseteq [key : Nat, id : Nat \ {NoReceipt}]
      /\ issued' \in Nat
      /\ billings' \in [Entry -> Nat]
      /\ ChargedAsReceipted'
      /\ \A o \in Entry : Receipts(o) \subseteq Receipts(o)'
  BY HandleFacts DEF IInv
<1>2. TypeOK'
  BY <1>1 DEF IInv, TypeOK, memory, disk
<1>3. OwnKey' /\ SentIsRecorded' /\ CursorOpen'
  BY DEF IInv, OwnKey, SentIsRecorded, CursorOpen, Unconfirmed, InCall, memory, disk
<1>4. ReceiptGenuine'
  BY <1>1 DEF IInv, ReceiptGenuine, memory, disk
<1> QED
  BY <1>1, <1>2, <1>3, <1>4 DEF IInv

(* Everything else leaves the provider alone. *)
LEMMA OtherStep ==
    ASSUME IInv, UNCHANGED provider, TypeOK', OwnKey', SentIsRecorded', CursorOpen',
           \A o \in Entry :
              /\ {receipt[o], savedReceipt[o]}' \subseteq Receipts(o) \cup {NoReceipt}
              /\ status'[o] = "confirmed" => receipt'[o] # NoReceipt
              /\ savedStatus'[o] = "confirmed" => savedReceipt'[o] # NoReceipt
    PROVE  IInv'
BY SameCharges DEF IInv, ReceiptGenuine

THEOREM Inductive == IInv /\ [Next]_vars => IInv'
<1> SUFFICES ASSUME IInv, [Next]_vars PROVE IInv'
  OBVIOUS
<1> USE DEF IInv
<1>1. ASSUME NEW o \in Entry, Record(o) PROVE IInv'
  <2>1. TypeOK'
    BY <1>1 DEF Record, TypeOK, Status, provider
  <2>2. OwnKey' /\ SentIsRecorded' /\ CursorOpen'
    BY <1>1 DEF Record, OwnKey, SentIsRecorded, CursorOpen, Unconfirmed, InCall, Idle, TypeOK
  <2> QED
    BY <1>1, <2>1, <2>2, OtherStep DEF Record, ReceiptGenuine, TypeOK
<1>2. ASSUME NEW o \in Entry, Recorded(o), CallTransport(o) PROVE IInv'
  <2>1. call' = [entry |-> o, key |-> o, answered |-> FALSE]
    BY <1>2 DEF CallTransport, CarrierKey
  <2> o \in Nat
    BY DEF Entry
  <2>4. call' \in [entry : Entry \cup {Nobody}, key : Nat, answered : BOOLEAN]
    BY <2>1
  <2>2. TypeOK'
    BY <1>2, <2>4 DEF CallTransport, TypeOK, memory, disk, provider
  <2>5. o \in Unconfirmed
    BY <1>2 DEF CallTransport, Delivered, Recorded, Unconfirmed, ReceiptGenuine, TypeOK, Status
  <2>3. OwnKey' /\ SentIsRecorded' /\ CursorOpen'
    BY <1>2, <2>1, <2>5 DEF CallTransport, OwnKey, SentIsRecorded, CursorOpen, Unconfirmed, InCall,
       Recorded, memory, disk
  <2> QED
    BY <1>2, <2>2, <2>3, OtherStep DEF CallTransport, ReceiptGenuine, memory, disk
<1>3. ASSUME NEW o \in Entry, Confirm(o) PROVE IInv'
  BY <1>3, ConfirmStep DEF Confirm, Idle
<1>4. ASSUME NEW o \in Entry, ProviderAnswers(o) PROVE IInv'
  <2>1. call.entry \in Entry /\ call.key = call.entry
    BY <1>4 DEF ProviderAnswers, OwnKey, InCall, Nobody, Entry
  <2>2. /\ call' \in [entry : Entry \cup {Nobody}, key : Nat, answered : BOOLEAN]
        /\ call'.entry = call.entry /\ call'.key = call.key
    BY <1>4 DEF ProviderAnswers, TypeOK
  <2> QED
    BY <1>4, <2>1, <2>2, HandleStep DEF ProviderAnswers
<1>5. ASSUME NEW o \in Entry, Response(o) PROVE IInv'
  <2>1. PICK id \in Receipts(call.key) : receipt' = [receipt EXCEPT ![o] = id]
    BY <1>5 DEF Response
  <2>2. id \in Receipts(o) /\ id \in Nat \ {NoReceipt}
    BY <1>5, <2>1 DEF Response, OwnKey, Receipts, TypeOK
  <2>3. TypeOK'
    BY <1>5, <2>1, <2>2 DEF Response, TypeOK, disk, provider, NoCall, Status, NoReceipt
  <2>4. OwnKey' /\ SentIsRecorded' /\ CursorOpen'
    BY <1>5 DEF Response, OwnKey, SentIsRecorded, CursorOpen, Unconfirmed, InCall, NoCall, disk, TypeOK
  <2>5. \A p \in Entry :
              /\ {receipt[p], savedReceipt[p]}' \subseteq Receipts(p) \cup {NoReceipt}
              /\ status'[p] = "confirmed" => receipt'[p] # NoReceipt
              /\ savedStatus'[p] = "confirmed" => savedReceipt'[p] # NoReceipt
    BY <1>5, <2>1, <2>2 DEF Response, ReceiptGenuine, TypeOK, disk
  <2> QED
    BY <1>5, <2>3, <2>4, <2>5, OtherStep DEF Response
<1>6. CASE Timeout
  <2>1. TypeOK' /\ OwnKey' /\ SentIsRecorded' /\ CursorOpen'
    BY <1>6, AbandonedFacts DEF Timeout, TypeOK, OwnKey, SentIsRecorded, CursorOpen, Unconfirmed, InCall,
       NoCall, memory, disk, provider
  <2> QED
    BY <1>6, <2>1, OtherStep DEF Timeout, ReceiptGenuine, memory, disk
<1>7. ASSUME NEW r \in strays, StrayArrives(r) PROVE IInv'
  <2>1. r.entry \in Entry /\ r.key = r.entry
    BY DEF TypeOK, OwnKey
  <2> QED
    BY <1>7, <2>1, HandleStep DEF StrayArrives, TypeOK
<1>8. CASE Recover
  <2>1. TypeOK' /\ OwnKey' /\ SentIsRecorded' /\ CursorOpen'
    BY <1>8 DEF Recover, ReachFirst, TypeOK, OwnKey, SentIsRecorded, CursorOpen, Unconfirmed,
       InCall, memory, disk, provider
  <2> QED
    BY <1>8, <2>1, OtherStep DEF Recover, ReceiptGenuine, memory, disk
<1>9. CASE RecoverSend
  <2>1. cursor \in Entry /\ Recorded(cursor)
    BY <1>9 DEF RecoverSend, Unsent, Recorded, TypeOK
  <2> QED
    BY <1>2, <1>9, <2>1 DEF RecoverSend
<1>10. CASE RecoverConfirm
  <2>1. cursor \in Entry /\ cursor \in Unconfirmed
    BY <1>10 DEF RecoverConfirm, CursorOpen, Unconfirmed
  <2>2. CASE ConfirmReceipts(cursor) = {}
    <3>1. cursor' = Nobody /\ UNCHANGED <<memory, disk, call, strays, provider, crashes>>
      BY <1>10, <2>2 DEF RecoverConfirm
    <3>2. TypeOK' /\ OwnKey' /\ SentIsRecorded' /\ CursorOpen'
      BY <3>1 DEF TypeOK, OwnKey, SentIsRecorded, CursorOpen, Unconfirmed, InCall,
         memory, disk, provider
    <3> QED
      BY <3>1, <3>2, OtherStep DEF ReceiptGenuine, memory, disk
  <2>3. CASE ConfirmReceipts(cursor) # {}
    <3>1. PICK id \in ConfirmReceipts(cursor) : ConfirmWith(cursor, id)
      BY <1>10, <2>3 DEF RecoverConfirm
    <3>2. ReachFirst(Unconfirmed \ 1..cursor)
      BY <1>10, <2>3 DEF RecoverConfirm
    <3>3. cursor' = Nobody \/ cursor' \in Unconfirmed \ {cursor}
      BY <2>1, <3>2 DEF ReachFirst, Entry
    <3> QED
      BY <1>10, <2>1, <3>1, <3>3, ConfirmStep DEF RecoverConfirm
  <2> QED
    BY <2>2, <2>3
<1>11. CASE Save
  <2>1. TypeOK' /\ OwnKey' /\ SentIsRecorded' /\ CursorOpen'
    BY <1>11 DEF Save, DurableReceipt, TypeOK, OwnKey, SentIsRecorded, CursorOpen, Unconfirmed, InCall,
       memory, provider, NoReceipt
  <2> QED
    BY <1>11, <2>1, OtherStep DEF Save, DurableReceipt, ReceiptGenuine, memory
<1>12. CASE Crash
  <2>1. TypeOK' /\ OwnKey' /\ SentIsRecorded' /\ CursorOpen'
    BY <1>12, AbandonedFacts, OutboxAssumption DEF Crash, TypeOK, OwnKey, SentIsRecorded, CursorOpen, Unconfirmed, InCall,
       NoCall, disk, provider
  <2> QED
    BY <1>12, <2>1, OtherStep DEF Crash, ReceiptGenuine, disk
<1>13. CASE UNCHANGED vars
  BY <1>13 DEF vars, memory, disk, provider, TypeOK, OwnKey, SentIsRecorded, CursorOpen, Unconfirmed,
     ChargedAsReceipted, ReceiptGenuine, Receipts, InCall
<1> QED
  BY <1>1, <1>2, <1>3, <1>4, <1>5, <1>6, <1>7, <1>8, <1>9, <1>10, <1>11, <1>12, <1>13
     DEF Next, Send

THEOREM Invariant == Spec => []IInv
<1>1. Init => IInv
  BY Initially
<1>2. IInv /\ [Next]_vars => IInv'
  BY Inductive
<1> QED
  BY <1>1, <1>2, PTL DEF Spec

(* The provider never charges an entry twice, however often the sender     *)
(* retries, gives up, crashes and starts over from an older image.         *)
THEOREM BilledAtMostOnceAlways == Spec => []BilledAtMostOnce
<1>1. IInv => BilledAtMostOnce
  BY DEF IInv, ChargedAsReceipted, BilledAtMostOnce, TypeOK
<1> QED
  BY <1>1, Invariant, PTL

(* Whatever receipt the recorder holds is that of the entry's one charge,  *)
(* and a confirmed entry holds one.                                        *)
THEOREM ReceiptGenuineAlways == Spec => []ReceiptGenuine
<1>1. IInv => ReceiptGenuine
  BY DEF IInv
<1> QED
  BY <1>1, Invariant, PTL

(* The outbox does what BilledOnce says: recording is intending, the       *)
(* provider's charge is billing, a confirmation on disk is settling, and   *)
(* everything else, crashes included, is invisible.                        *)
THEOREM ImplementsBilledOnce == Spec => AbstractSpec
<1> USE DEF IInv
<1>1. Init => Abstract!Init
  BY DEF Init, Abstract!Init
<1>2. IInv /\ [Next]_vars => [Abstract!Next]_(Abstract!vars)
  <2> SUFFICES ASSUME IInv, [Next]_vars PROVE [Abstract!Next]_(Abstract!vars)
    OBVIOUS
  <2> DEFINE intended == {o \in Entry : savedStatus[o] # "absent"}
             settled == {o \in Entry : savedStatus[o] = "confirmed"}
  <2>1. ASSUME NEW o \in Entry, Record(o) PROVE Abstract!Intend(o)
    BY <2>1 DEF Record, Recorded, Abstract!Intend, SentIsRecorded, TypeOK, provider
  <2>2. ASSUME NEW o \in Entry, o \in Unconfirmed, NEW id \in ConfirmReceipts(o),
               ConfirmWith(o, id)
        PROVE Abstract!Settle(o)
    <3>1. billings[o] = 1
      BY <2>2, ConfirmFacts DEF ChargedAsReceipted
    <3>2. savedStatus[o] \notin {"absent", "confirmed"}
      BY <2>2 DEF SentIsRecorded, Unconfirmed
    <3> QED
      BY <2>2, <3>1, <3>2 DEF ConfirmWith, Abstract!Settle, TypeOK, provider
  <2>3. ASSUME NEW r, r.entry \in Entry, r.key = r.entry, Handle(r), UNCHANGED disk,
               savedStatus[r.entry] # "absent"
        PROVE Abstract!Bill(r.entry) \/ UNCHANGED Abstract!vars
    <3>1. CASE Receipts(r.key) # {}
      BY <2>3, <3>1 DEF Handle, Abstract!vars, provider, disk
    <3>2. CASE Receipts(r.key) = {}
      <4>1. billings' = [billings EXCEPT ![r.entry] = @ + 1] /\ billings[r.entry] = 0
        BY <2>3, <3>2 DEF Handle, ChargedAsReceipted
      <4> QED
        BY <2>3, <4>1 DEF Abstract!Bill, disk, TypeOK
    <3> QED
      BY <3>1, <3>2
  <2>4. ASSUME NEW o \in Entry, ProviderAnswers(o) PROVE [Abstract!Next]_(Abstract!vars)
    <3>1. call.entry \in Entry /\ call.key = call.entry /\ savedStatus[call.entry] # "absent"
      BY <2>4 DEF ProviderAnswers, OwnKey, SentIsRecorded, Unconfirmed, InCall, Nobody, Entry
    <3> QED
      BY <2>3, <2>4, <3>1 DEF ProviderAnswers, Abstract!Next
  <2>5. ASSUME NEW r \in strays, StrayArrives(r) PROVE [Abstract!Next]_(Abstract!vars)
    <3>1. r.entry \in Entry /\ r.key = r.entry /\ savedStatus[r.entry] # "absent"
      BY DEF TypeOK, OwnKey, SentIsRecorded
    <3> QED
      BY <2>3, <2>5, <3>1 DEF StrayArrives, Abstract!Next
  <2>6. ASSUME NEW o \in Entry, Confirm(o) PROVE [Abstract!Next]_(Abstract!vars)
    BY <2>2, <2>6 DEF Confirm, Abstract!Next
  <2>7. CASE RecoverConfirm
    <3>1. cursor \in Entry /\ cursor \in Unconfirmed
      BY <2>7 DEF RecoverConfirm, CursorOpen, Unconfirmed
    <3>2. CASE ConfirmReceipts(cursor) = {}
      BY <2>7, <3>2 DEF RecoverConfirm, Abstract!vars, disk, provider
    <3>3. CASE ConfirmReceipts(cursor) # {}
      BY <2>2, <2>7, <3>1, <3>3 DEF RecoverConfirm, Abstract!Next
    <3> QED
      BY <3>2, <3>3
  <2>8. CASE Save
    <3>1. \A o \in Entry : \A st \in {"absent", "confirmed"} :
              savedStatus'[o] = st <=> savedStatus[o] = st
      BY <2>8 DEF Save, SentIsRecorded
    <3> QED
      BY <2>8, <3>1 DEF Save, Abstract!vars, provider
  <2>9. ASSUME UNCHANGED <<disk, provider>> PROVE UNCHANGED Abstract!vars
    BY <2>9 DEF Abstract!vars, disk, provider
  <2>10. CASE \/ \E o \in Entry : Send(o) \/ Response(o)
              \/ Timeout \/ Recover \/ RecoverSend \/ Crash
    BY <2>9, <2>10 DEF Send, CallTransport, Response, Timeout, Recover, RecoverSend, Crash
  <2>11. CASE UNCHANGED vars
    BY <2>9, <2>11 DEF vars
  <2> QED
    BY <2>1, <2>4, <2>5, <2>6, <2>7, <2>8, <2>10, <2>11 DEF Next, Abstract!Next
<1> QED
  BY <1>1, <1>2, Invariant, PTL DEF Spec, AbstractSpec, Abstract!Spec
=============================================================================
