---------------------------- MODULE EventLedger ----------------------------
(***************************************************************************)
(* The resource-event ledger of scripts/resource_events.py for one         *)
(* resource: envelopes arrive in any order and repeatedly, are appended    *)
(* once, quarantined or flagged, and every append folds the whole log      *)
(* again into usage segments.  An envelope is its identity, its source     *)
(* key, its effective time and the part its type plays in the fold:        *)
(* "switch" (_SWITCH), "close" (_CLOSE), "heartbeat", "expired" or "audit".*)
(***************************************************************************)
EXTENDS Integers, Sequences, FiniteSets, Functions

CONSTANTS
    LedgerEvent,   \* envelopes [id, source, type, at, last, quantity]
    SealedPeriod,  \* closed billing periods <<start, end>>, half-open
    MaxEvents      \* bound: distinct envelopes sent

NoTime == -1

(* An observation reported with a loss was made before it.                 *)
ASSUME EnvelopeAssumption ==
    \A e \in LedgerEvent : e.at \in Nat /\ e.quantity \in Nat /\ e.last \in {NoTime} \cup 0..e.at

VARIABLES
    log,         \* _events: appended envelopes, in append order
    quarantined, \* envelopes refused, with the id they conflict with
    manual,      \* corrections flagged for manual handling
    projection,  \* _current: usage segments and the open one
    archive,     \* _archive: segments superseded by later evidence
    outbox,      \* event ids with an outbox entry, in commit order
    delivered,   \* those marked delivered
    sent, shown  \* auxiliary: envelopes sent, segments ever projected

ledgerVars == <<log, quarantined, manual, projection, archive, outbox, delivered, sent, shown>>

Segment == [from : Int, to : Int, quantity : Nat, certainty : {"confirmed", "uncertain"}]
Nothing == [open |-> FALSE, from |-> NoTime, quantity |-> 0]
EmptyProjection == [segments |-> {}, current |-> Nothing, heartbeat |-> NoTime]

-----------------------------------------------------------------------------
(* The fold: by effective time, confirmed evidence before a lost lease,    *)
(* then append order.                                                      *)
Uncertainty(e) == IF e.type = "expired" THEN 1 ELSE 0
ArrivalBreaksTies(events, i, j) ==
    \/ events[i].at < events[j].at
    \/ events[i].at = events[j].at /\ i < j
FoldsBefore(events, i, j) ==
    \/ events[i].at < events[j].at
    \/ /\ events[i].at = events[j].at
       /\ \/ Uncertainty(events[i]) < Uncertainty(events[j])
          \/ Uncertainty(events[i]) = Uncertainty(events[j]) /\ i < j

Piece(p, from, to, certainty) ==
    IF p.current.open /\ from < to
    THEN {[from |-> from, to |-> to, quantity |-> p.current.quantity, certainty |-> certainty]}
    ELSE {}
Larger(a, b) == IF a > b THEN a ELSE b

FoldSwitch(p, e) ==
    [p EXCEPT !.segments = @ \cup Piece(p, p.current.from, e.at, "confirmed"),
              !.current = [open |-> TRUE, from |-> e.at, quantity |-> e.quantity]]
FoldClose(p, e) ==
    [p EXCEPT !.segments = @ \cup Piece(p, p.current.from, e.at, "confirmed"),
              !.current = Nothing]
LostFrom(p, e) == IF e.last # NoTime THEN e.last ELSE p.heartbeat
FoldExpired(p, e) ==
    LET cut == Larger(LostFrom(p, e), p.current.from)
    IN  [p EXCEPT !.current = Nothing,
                  !.segments = IF LostFrom(p, e) = NoTime THEN @
                               ELSE @ \cup Piece(p, p.current.from, cut, "confirmed")
                                      \cup Piece(p, cut, e.at, "uncertain")]
FoldEvent(p, e) ==
    CASE e.type = "switch" -> FoldSwitch(p, e)
      [] e.type = "close" -> FoldClose(p, e)
      [] e.type = "heartbeat" -> [p EXCEPT !.heartbeat = e.at]
      [] e.type = "expired" -> FoldExpired(p, e)
      [] OTHER -> p
LastIn(events, s) == CHOOSE i \in s : \A j \in s \ {i} : FoldsBefore(events, j, i)
Fold(events) ==
    LET folded[s \in SUBSET DOMAIN events] ==
            IF s = {} THEN EmptyProjection
            ELSE FoldEvent(folded[s \ {LastIn(events, s)}], events[LastIn(events, s)])
    IN  folded[DOMAIN events]

(* What a replay of the log archives: each append supersedes what the next *)
(* projection no longer has.                                               *)
Superseded(events) ==
    UNION {Fold(SubSeq(events, 1, n - 1)).segments \ Fold(SubSeq(events, 1, n)).segments
           : n \in DOMAIN events}

(* summarize(window): confirmed quantity * time inside a half-open window. *)
Clipped(s, w) == LET from == Larger(s.from, w[1])
                     to == IF s.to < w[2] THEN s.to ELSE w[2]
                 IN  IF from < to THEN s.quantity * (to - from) ELSE 0
ConfirmedIn(w) ==
    SumFunction([s \in {s \in projection.segments : s.certainty = "confirmed"} |-> Clipped(s, w)])

-----------------------------------------------------------------------------
LedgerInit ==
    /\ log = <<>> /\ quarantined = {} /\ manual = {}
    /\ projection = EmptyProjection /\ archive = {}
    /\ outbox = <<>> /\ delivered = {}
    /\ sent = {} /\ shown = {}

(* _dedupe_check: by event id first, then by source key. *)
WithId(e) == {f \in Range(log) : f.id = e.id}
WithSource(e) == {f \in Range(log) : f.source = e.source}
Stored(e) == IF WithId(e) # {} THEN WithId(e) ELSE WithSource(e)
IsNew(e) == Stored(e) = {}
IsDuplicate(e) == e \in Stored(e)
IsConflict(e) == ~IsNew(e) /\ ~IsDuplicate(e)

(* State confirmations come with an outbox entry, evidence without one.    *)
Confirmation(e) == e.type \in {"switch", "close"}

(* append: the log, its projection and the archive move together. *)
Recorded(e) ==
    IF IsNew(e)
    THEN /\ log' = Append(log, e)
         /\ projection' = Fold(log')
         /\ archive' = archive \cup (projection.segments \ projection'.segments)
         /\ shown' = shown \cup projection'.segments
    ELSE UNCHANGED <<log, projection, archive, shown>>
Received(e) ==
    /\ Recorded(e)
    /\ quarantined' = quarantined \cup {<<e, f.id>> : f \in IF IsConflict(e) THEN Stored(e) ELSE {}}
    /\ sent' = sent \cup {e}
Sendable(e) == e \in sent \/ Cardinality(sent) < MaxEvents

AppendEvent(e) ==
    /\ ~Confirmation(e) /\ Sendable(e) /\ Received(e)
    /\ UNCHANGED <<manual, outbox, delivered>>

(* _sealed_period_hit looks at the effective time, and for a lost lease at *)
(* the last observation.                                                   *)
Touches(e) == IF e.type = "expired" /\ e.last # NoTime THEN {e.at, e.last} ELSE {e.at}
SealedHit(e) == {p \in SealedPeriod : \E t \in Touches(e) : p[1] <= t /\ t < p[2]}
Correct(e) ==
    /\ Sendable(e)
    /\ IF SealedHit(e) = {}
       THEN Received(e) /\ UNCHANGED manual
       ELSE /\ manual' = manual \cup {e} /\ sent' = sent \cup {e}
            /\ UNCHANGED <<log, quarantined, projection, archive, shown>>
    /\ UNCHANGED <<outbox, delivered>>

(* commit_with_outbox: one entry per event, also for a redelivery. *)
HasEntry(e) == e.id \in Range(outbox)
Commit(e) ==
    /\ Confirmation(e) /\ Sendable(e) /\ Received(e)
    /\ outbox' = IF IsConflict(e) \/ HasEntry(e) THEN outbox ELSE Append(outbox, e.id)
    /\ UNCHANGED <<manual, delivered>>
MarkDelivered(id) ==
    /\ id \in Range(outbox) /\ delivered' = delivered \cup {id}
    /\ UNCHANGED <<log, quarantined, manual, projection, archive, outbox, sent, shown>>

(* from_dict(to_dict): the log is replayed, the rest is read back.         *)
Reload ==
    /\ projection' = Fold(log) /\ archive' = Superseded(log)
    /\ UNCHANGED <<log, quarantined, manual, outbox, delivered, sent, shown>>

LedgerNext ==
    \/ \E e \in LedgerEvent : AppendEvent(e) \/ Correct(e) \/ Commit(e)
    \/ \E id \in Range(outbox) : MarkDelivered(id)
    \/ Reload
LedgerSpec == LedgerInit /\ [][LedgerNext]_ledgerVars

-----------------------------------------------------------------------------
LedgerTypeOK ==
    /\ log \in Seq(LedgerEvent) /\ sent \subseteq LedgerEvent /\ manual \subseteq sent
    /\ quarantined \subseteq LedgerEvent \X {e.id : e \in LedgerEvent}
    /\ projection.segments \subseteq Segment /\ archive \subseteq Segment /\ shown \subseteq Segment
    /\ delivered \subseteq Range(outbox)

(* Usage read off the events without a fold: the capacity a switch opens   *)
(* lasts until the next switch, close or loss.  Before a loss it is        *)
(* confirmed up to the last observation and uncertain from there on.       *)
Ends == {i \in DOMAIN log : log[i].type \in {"switch", "close", "expired"}}
Before(i, j) ==
    IF log[i].at # log[j].at THEN log[i].at < log[j].at
    ELSE IF (log[i].type = "expired") # (log[j].type = "expired") THEN log[j].type = "expired"
    ELSE i < j
NextEnd(i) == {j \in Ends : Before(i, j) /\ \A k \in Ends : Before(i, k) => ~Before(k, j)}
Seen(j) == IF log[j].last # NoTime THEN {log[j].last}
           ELSE {log[h].at : h \in {h \in DOMAIN log : log[h].type = "heartbeat" /\ Before(h, j)}}
UsedUntil(i, j) ==
    IF log[j].type # "expired" THEN {log[j].at}
    ELSE {t \in Seen(j) \cup {log[i].at} : Seen(j) # {} /\ \A u \in Seen(j) \cup {log[i].at} : u <= t}
Usage(i, j) ==
    UNION {{s \in {[from |-> log[i].at, to |-> t, quantity |-> log[i].quantity, certainty |-> "confirmed"],
                   [from |-> t, to |-> log[j].at, quantity |-> log[i].quantity, certainty |-> "uncertain"]}
            : s.from < s.to} : t \in UsedUntil(i, j)}
ExpectedSegments == UNION {UNION {Usage(i, j) : j \in NextEnd(i)} : i \in {i \in Ends : log[i].type = "switch"}}

ProjectionRight ==
    /\ projection.segments = ExpectedSegments
    /\ \A s, t \in projection.segments : s = t \/ s.to <= t.from \/ t.to <= s.from

CountedOnce ==
    /\ \A i, j \in DOMAIN log : log[i].id = log[j].id \/ log[i].source = log[j].source => i = j
    /\ \A i, j \in DOMAIN outbox : outbox[i] = outbox[j] => i = j
    /\ Range(outbox) \subseteq {e.id : e \in Range(log)}

NothingDropped ==
    /\ \A e \in sent : e \in Range(log) \cup manual \/ \E id \in {f.id : f \in Range(log)} : <<e, id>> \in quarantined
    /\ shown \subseteq projection.segments \cup archive

(* Whatever the order, repetition and route of the envelopes: the          *)
(* projection is the usage the logged events stand for and no instant is   *)
(* counted twice; no identity, source key or outbox entry exists twice;    *)
(* every envelope sent is logged, quarantined or flagged, and every        *)
(* segment ever shown is still shown or archived, also after a reload      *)
(* (append, _fold, _apply, commit_with_outbox, from_dict).                 *)
LedgerSound == LedgerTypeOK /\ ProjectionRight /\ CountedOnce /\ NothingDropped

(* "a gap STRADDLING a seal boundary must not restate sealed-window totals *)
(* even when effective_at lands outside the window" (_sealed_period_hit):  *)
(* no lost-lease correction takes back confirmed usage of a sealed period. *)
SealedNeverRestated ==
    [][(\E e \in LedgerEvent : e.type = "expired" /\ Correct(e)) =>
          \A p \in SealedPeriod : ConfirmedIn(p)' >= ConfirmedIn(p)]_ledgerVars
=============================================================================
