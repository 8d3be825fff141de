--------------------------- MODULE MeteringProofs ---------------------------
(***************************************************************************)
(* That the watchdog closes a bill only for an instance that has stopped   *)
(* and cannot be renewed, for any lease length, confirmation timeout and   *)
(* number of instances; that no insert, replacement or sync takes away a   *)
(* rate that was in effect; that cutting usage at months, rates and the    *)
(* sealed period prices every instant of it once, for any rows; and that   *)
(* the ledger's fold is the usage its events stand for, for any envelopes  *)
(* in any order.                                                           *)
(***************************************************************************)
EXTENDS EventLedger, WatchdogLease, RateCard, SumLemmas, FiniteSetTheorems, WellFoundedInduction, TLAPS

(* A report that names an epoch is about one that was issued and no longer *)
(* runs, so no report in circulation names an instance still to come.      *)
ReportsTrue ==
    \A s \in stops : s.epoch # Unnamed => s.epoch <= epoch /\ s.epoch \notin running

LeaseInv == ReleaseIsProven /\ ReportsTrue

LEMMA LeaseInitially == LeaseInit => LeaseInv
<1> SUFFICES ASSUME LeaseInit PROVE LeaseInv OBVIOUS
<1>1. /\ epoch \in 0..MaxEpoch /\ leaseAge \in 0..Ttl
      /\ lossAge \in {Never} \cup 0..ConfirmTimeout
  BY LeaseAssumption DEF LeaseInit
<1>2. /\ running \subseteq 1..epoch /\ stops \subseteq [source : {"host"}, epoch : {Unnamed} \cup Epoch]
      /\ human \in BOOLEAN /\ released \in BOOLEAN /\ ~released
      /\ phase \in {"healthy", "lost_unconfirmed", "confirmed_stopped"}
      /\ proof \in {Unnamed} \cup Epoch
  BY DEF LeaseInit
<1>3. ReportsTrue BY DEF LeaseInit, ReportsTrue
<1> QED BY <1>1, <1>2, <1>3 DEF LeaseInv, ReleaseIsProven, LeaseTypeOK

LEMMA AgedStays ==
    ASSUME NEW limit \in Nat, NEW age \in {Never} \cup 0..limit
    PROVE  /\ Aged(age, limit) \in {Never} \cup 0..limit
           /\ age # Never => Aged(age, limit) \in 0..limit
           /\ age >= limit => Aged(age, limit) >= limit
BY DEF Aged, Never

(* Evidence that is admitted and names an epoch is a report of the current *)
(* instance's stop, and a true one.                                        *)
LEMMA AdmittedIsTrue ==
    ASSUME LeaseInv, epoch > 0, NEW reachable \in BOOLEAN,
           NEW evidence \in {NoEvidence} \cup stops \cup RunnerSays(reachable),
           Admitted(evidence, reachable)
    PROVE  /\ evidence.epoch \in {Unnamed} \cup Epoch
           /\ epoch \notin running \/ evidence.epoch = Unnamed
<1> USE LeaseAssumption
<1>1. CASE evidence = NoEvidence BY <1>1 DEF NoEvidence, Admitted
<1>2. CASE evidence \in stops
  BY <1>2 DEF LeaseInv, ReportsTrue, ReleaseIsProven, LeaseTypeOK, Admitted
<1>3. CASE evidence \in RunnerSays(reachable)
  <2>1. PICK e \in 1..epoch : (reachable => e \notin running)
                               /\ evidence = [source |-> "runner", epoch |-> e]
    BY <1>3 DEF RunnerSays
  <2>2. reachable /\ e \in {Unnamed, epoch} BY <2>1 DEF Admitted
  <2>3. e = epoch /\ e \notin running BY <2>1, <2>2 DEF Unnamed
  <2> QED BY <2>1, <2>3 DEF LeaseInv, ReleaseIsProven, LeaseTypeOK, Epoch
<1> QED BY <1>1, <1>2, <1>3

LEMMA LeaseStep == LeaseInv /\ [LeaseNext]_leaseVars => LeaseInv'
<1> USE LeaseAssumption
<1> SUFFICES ASSUME LeaseInv, [LeaseNext]_leaseVars PROVE LeaseInv' OBVIOUS
<1> USE DEF LeaseInv
<1>1. CASE Issue
  <2>1. epoch \in Nat /\ running \subseteq 1..epoch /\ epoch' = epoch + 1
    BY <1>1 DEF Issue, ReleaseIsProven, LeaseTypeOK
  <2>2. LeaseTypeOK'
    <3>1. /\ epoch' \in 0..MaxEpoch /\ running' \subseteq 1..epoch' /\ leaseAge' \in 0..Ttl
      BY <1>1, <2>1 DEF Issue, ReleaseIsProven, LeaseTypeOK
    <3>2. /\ lossAge' \in {Never} \cup 0..ConfirmTimeout
          /\ phase' \in {"healthy", "lost_unconfirmed", "confirmed_stopped"}
          /\ human' \in BOOLEAN /\ released' \in BOOLEAN
          /\ proof' \in {Unnamed} \cup Epoch
          /\ stops' \subseteq [source : {"host"}, epoch : {Unnamed} \cup Epoch]
      BY <1>1 DEF Issue, ReleaseIsProven, LeaseTypeOK
    <3> QED BY <3>1, <3>2 DEF LeaseTypeOK
  <2>3. ReportsTrue'
    BY <1>1, <2>1 DEF Issue, ReportsTrue, ReleaseIsProven, LeaseTypeOK, Epoch, Unnamed
  <2> QED BY <1>1, <2>2, <2>3 DEF Issue, ReleaseIsProven
<1>2. CASE Tick
  <2>1. leaseAge' \in 0..Ttl /\ lossAge' \in {Never} \cup 0..ConfirmTimeout
    BY <1>2, AgedStays DEF Tick, ReleaseIsProven, LeaseTypeOK, Never
  <2>2. LeaseTypeOK' BY <1>2, <2>1 DEF Tick, ReleaseIsProven, LeaseTypeOK
  <2>3. Expired => Expired'
    BY <1>2, AgedStays DEF Tick, ReleaseIsProven, LeaseTypeOK, Expired
  <2> QED BY <1>2, <2>2, <2>3 DEF Tick, ReleaseIsProven, ReportsTrue
<1>3. CASE Evaluate
  <2>1. PICK reachable \in BOOLEAN :
          \E evidence \in {NoEvidence} \cup stops \cup RunnerSays(reachable) :
             Healthy \/ Confirmed(evidence, reachable) \/ Unconfirmed(evidence, reachable)
    BY <1>3 DEF Evaluate
  <2>2. PICK evidence \in {NoEvidence} \cup stops \cup RunnerSays(reachable) :
          Healthy \/ Confirmed(evidence, reachable) \/ Unconfirmed(evidence, reachable)
    BY <2>1
  <2>3. epoch > 0 /\ ~released /\ UNCHANGED <<epoch, leaseAge, running, stops>>
    BY <1>3 DEF Evaluate
  <2>4. DetectedAge \in 0..ConfirmTimeout
    BY DEF DetectedAge, ReleaseIsProven, LeaseTypeOK, Never
  <2>5. CASE Healthy
    BY <2>3, <2>5 DEF Healthy, ReleaseIsProven, LeaseTypeOK, ReportsTrue, Epoch
  <2>6. CASE Confirmed(evidence, reachable)
    <3>1. /\ evidence.epoch \in {Unnamed} \cup Epoch
          /\ epoch \notin running \/ evidence.epoch = Unnamed
      BY <2>3, <2>6, AdmittedIsTrue DEF Confirmed
    <3>2. LeaseTypeOK'
      BY <2>3, <2>4, <2>6, <3>1 DEF Confirmed, ReleaseIsProven, LeaseTypeOK, Epoch
    <3> QED BY <2>3, <2>6, <3>1, <3>2 DEF Confirmed, ReleaseIsProven, ReportsTrue, Expired
  <2>7. CASE Unconfirmed(evidence, reachable)
    BY <2>3, <2>4, <2>7
       DEF Unconfirmed, Escalates, ReleaseIsProven, LeaseTypeOK, ReportsTrue, Epoch
  <2> QED BY <2>2, <2>5, <2>6, <2>7
<1>4. ASSUME NEW e \in running, Renew(e) PROVE LeaseInv'
  <2>1. ~released BY <1>4 DEF Renew, ReleaseIsProven
  <2> QED BY <1>4, <2>1 DEF Renew, ReleaseIsProven, LeaseTypeOK, ReportsTrue, Epoch
<1>5. ASSUME NEW e \in running, InstanceStops(e) PROVE LeaseInv'
  <2>1. PICK named \in {e, Unnamed} :
          stops' = stops \cup {[source |-> "host", epoch |-> named]}
    BY <1>5 DEF InstanceStops
  <2>2. e \in 1..epoch /\ epoch \in 0..MaxEpoch
    BY <1>5 DEF ReleaseIsProven, LeaseTypeOK
  <2>3. LeaseTypeOK'
    BY <1>5, <2>1, <2>2 DEF InstanceStops, ReleaseIsProven, LeaseTypeOK, Epoch
  <2>4. ReportsTrue'
    BY <1>5, <2>1, <2>2 DEF InstanceStops, ReportsTrue
  <2> QED BY <1>5, <2>3, <2>4 DEF InstanceStops, ReleaseIsProven, Expired
<1>6. CASE UNCHANGED leaseVars
  BY <1>6 DEF leaseVars, ReleaseIsProven, LeaseTypeOK, ReportsTrue, Expired
<1> QED BY <1>1, <1>2, <1>3, <1>4, <1>5, <1>6 DEF LeaseNext

(* The bill is closed only on proof, whatever evidence circulates and in   *)
(* whatever order heartbeats, reports and new instances come (evaluate,    *)
(* _admit, renew, issue).                                                  *)
THEOREM ReleaseIsProvenAlways == LeaseSpec => []ReleaseIsProven
<1>1. LeaseInv => ReleaseIsProven BY DEF LeaseInv
<1> QED BY LeaseInitially, LeaseStep, <1>1, PTL DEF LeaseSpec

-----------------------------------------------------------------------------
(* The rate card: what is kept are rows. *)

CardInv == rates \subseteq Row /\ cardTime \in Nat

LEMMA CardInitially == RateInit => CardInv
BY DEF RateInit, CardInv

(* The end of a row that started before the new one is cut off there.      *)
LEMMA CutRow ==
    ASSUME NEW o \in Row, NEW t \in Instant, o.from < t
    PROVE  /\ [o EXCEPT !.to = t] \in Row
           /\ [o EXCEPT !.to = t].to = t /\ [o EXCEPT !.to = t].from = o.from
           /\ [o EXCEPT !.to = t].state = o.state /\ [o EXCEPT !.to = t].price = o.price
           /\ [o EXCEPT !.to = t].version = o.version
BY RateAssumption DEF Row, Instant, Open

(* An insert keeps the rows, cut at a start still to come, that were in    *)
(* effect.                                                                 *)
LEMMA UpsertKeeps ==
    ASSUME CardInv, NEW row \in Row, Upsert(row)
    PROVE  /\ rates' \subseteq Row /\ cardTime' = cardTime
           /\ \A r \in rates, t \in 0..cardTime :
                 r.from <= t /\ t < r.to =>
                    \E q \in rates' : q.state = r.state /\ q.from <= t /\ t < q.to /\ q.price = r.price
<1>1. cardTime' = cardTime BY DEF Upsert
<1>2. CASE row \in rates
  <2>1. rates' = rates BY <1>2 DEF Upsert
  <2> QED BY <1>1, <2>1 DEF CardInv
<1>3. CASE row \notin rates
  <2>1. /\ MayReplace(row) /\ MayCut(row)
        /\ rates' = ((rates \ SameRow(row)) \ CutBy(row))
                     \cup {[o EXCEPT !.to = row.from] : o \in CutBy(row)} \cup {row}
    BY <1>3 DEF Upsert
  <2>2. row.from \in Instant /\ \A r \in rates : r \in Row BY DEF Row, CardInv
  <2>3. \A o \in CutBy(row) : o \in rates /\ o.from < row.from /\ row.from > cardTime
    BY <2>1 DEF MayCut, CutBy
  <2>4. rates' \subseteq Row BY <2>1, <2>2, <2>3, CutRow DEF CardInv
  <2>5. ASSUME NEW r \in rates, NEW t \in 0..cardTime, r.from <= t, t < r.to
        PROVE  \E q \in rates' : q.state = r.state /\ q.from <= t /\ t < q.to /\ q.price = r.price
    <3>1. r.from \in Nat /\ r # row BY <1>3, <2>2 DEF Row, Instant
    <3>2. r \notin SameRow(row) BY <2>1, <2>5, <3>1 DEF MayReplace, CardInv
    <3>3. CASE r \notin CutBy(row) BY <2>1, <2>5, <3>2, <3>3
    <3>4. CASE r \in CutBy(row)
      <4> DEFINE q == [r EXCEPT !.to = row.from]
      <4>1. q \in rates' BY <2>1, <3>4
      <4>2. q.state = r.state /\ q.from = r.from /\ q.to = row.from /\ q.price = r.price
        BY <2>2, <2>3, <3>4, CutRow
      <4>3. t < row.from BY <2>2, <2>3, <3>4 DEF CardInv, Instant
      <4> HIDE DEF q
      <4> QED BY <2>5, <4>1, <4>2, <4>3
    <3> QED BY <3>3, <3>4
  <2> QED BY <1>1, <2>4, <2>5
<1> QED BY <1>2, <1>3

LEMMA CardStep == CardInv /\ [RateNext]_rateVars => CardInv'
<1> SUFFICES ASSUME CardInv, [RateNext]_rateVars PROVE CardInv' OBVIOUS
<1>1. CASE RateTick BY <1>1 DEF RateTick, CardInv
<1>2. ASSUME NEW row \in Row, Upsert(row) \/ SyncRow(row) PROVE CardInv'
  BY <1>2, UpsertKeeps DEF SyncRow, CardInv
<1>3. CASE UNCHANGED rateVars BY <1>3 DEF rateVars, CardInv
<1> QED BY <1>1, <1>2, <1>3 DEF RateNext

(* A row that was in effect goes on pricing the instants it priced,        *)
(* whatever is inserted, replaced or synced (upsert, sync_from_provider).  *)
THEOREM PastRowsStandAlways == RateSpec => PastRowsStand
<1>1. CardInv /\ [RateNext]_rateVars =>
        [\A key \in {"Active", AnyState}, t \in 0..cardTime :
            \A r \in InEffect(key, t) :
               \E q \in rates' : q.state = key /\ q.from <= t /\ t < q.to /\ q.price = r.price
        ]_rateVars
  <2> SUFFICES ASSUME CardInv, [RateNext]_rateVars, NEW key \in {"Active", AnyState},
                      NEW t \in 0..cardTime, NEW r \in InEffect(key, t)
               PROVE  \E q \in rates' : q.state = key /\ q.from <= t /\ t < q.to /\ q.price = r.price
    OBVIOUS
  <2>1. r \in rates /\ r.state = key /\ r.from <= t /\ t < r.to BY DEF InEffect
  <2>2. CASE UNCHANGED rates BY <2>1, <2>2
  <2>3. ASSUME NEW row \in Row, Upsert(row)
        PROVE  \E q \in rates' : q.state = key /\ q.from <= t /\ t < q.to /\ q.price = r.price
    BY <2>1, <2>3, UpsertKeeps
  <2> QED BY <2>2, <2>3 DEF RateNext, RateTick, SyncRow, rateVars
<1> QED BY CardInitially, CardStep, <1>1, PTL DEF RateSpec, PastRowsStand
-----------------------------------------------------------------------------
(* No two rows of a price key are in effect at once, and no version is     *)
(* kept twice.                                                             *)
RowsApart == \A a, b \in rates : a # b => ~Overlaps(a, b) /\ a.version # b.version

LEMMA RowsStayApart ==
    ASSUME CardInv, RowsApart, NEW row \in Row, Upsert(row) PROVE RowsApart'
<1>1. CASE row \in rates BY <1>1 DEF Upsert, RowsApart, Overlaps
<1>2. CASE row \notin rates
  <2> DEFINE cut(o) == [o EXCEPT !.to = row.from]
             left == (rates \ SameRow(row)) \ CutBy(row)
  <2>1. rates' = left \cup {cut(o) : o \in CutBy(row)} \cup {row} /\ MayCut(row) BY <1>2 DEF Upsert
  <2>2. \A r \in rates : r \in Row /\ r.from \in Nat /\ r.to \in Nat
    BY RateAssumption DEF CardInv, Row, Instant, Open
  <2>3. row.from \in Instant /\ row.from \in Nat /\ row.to \in Nat BY RateAssumption DEF Row, Instant, Open
  <2>4. ASSUME NEW o \in CutBy(row)
        PROVE  /\ o \in rates /\ o.version # row.version /\ o.from < row.from /\ row.from < o.to
               /\ cut(o).version = o.version /\ cut(o).state = o.state
               /\ cut(o).from = o.from /\ cut(o).to = row.from
    <3>1. o \in rates /\ o \notin SameRow(row) /\ Overlaps(o, row) /\ o.from < row.from
      BY <2>1, <2>4 DEF CutBy, MayCut
    <3>2. row.from < o.to BY <3>1 DEF Overlaps
    <3> QED BY <2>2, <2>3, <3>1, <3>2, CutRow DEF SameRow
  <2> DEFINE was(r, o) == /\ o \in rates /\ o.version # row.version /\ r.version = o.version /\ r.state = o.state
                          /\ r.from = o.from /\ r.to <= o.to /\ ~Overlaps(r, row)
                          /\ r = IF o \in CutBy(row) THEN cut(o) ELSE o
  <2>5. ASSUME NEW r \in rates', r # row PROVE \E o : was(r, o)
    <3>1. CASE r \in left
      <4>1. r \in rates /\ r \notin SameRow(row) /\ r \notin CutBy(row) /\ r.version # row.version
        BY <3>1 DEF SameRow
      <4>2. ~Overlaps(r, row) BY <4>1 DEF CutBy
      <4>3. was(r, r) BY <2>2, <4>1, <4>2
      <4> HIDE DEF was
      <4> QED BY <4>3
    <3>2. ASSUME NEW o \in CutBy(row), r = cut(o) PROVE \E p : was(r, p)
      <4>1. ~Overlaps(r, row) /\ r.to <= o.to /\ o \in rates BY <2>2, <2>3, <2>4, <3>2 DEF Overlaps
      <4>2. was(r, o)
        <5> HIDE DEF cut
        <5> QED BY <2>4, <3>2, <4>1
      <4> HIDE DEF was
      <4> QED BY <4>2
    <3> HIDE DEF was, cut, left
    <3> QED BY <2>1, <2>5, <3>1, <3>2
  <2>6. ASSUME NEW a \in rates', NEW b \in rates', a # b PROVE ~Overlaps(a, b) /\ a.version # b.version
    <3>1. CASE a = row
      <4>1. PICK o : was(b, o) BY <2>5, <2>6, <3>1
      <4>2. b.version # row.version /\ ~Overlaps(b, row) BY <4>1
      <4> QED BY <3>1, <4>2 DEF Overlaps
    <3>2. CASE b = row
      <4>1. PICK o : was(a, o) BY <2>5, <2>6, <3>2
      <4>2. a.version # row.version /\ ~Overlaps(a, row) BY <4>1
      <4> QED BY <3>2, <4>2 DEF Overlaps
    <3>3. CASE a # row /\ b # row
      <4>1. PICK o : was(a, o) BY <2>5, <3>3
      <4>2. PICK p : was(b, p) BY <2>5, <3>3
      <4> HIDE DEF cut
      <4>3. o # p BY <2>6, <4>1, <4>2
      <4>4. o \in rates /\ p \in rates /\ a.version = o.version /\ b.version = p.version BY <4>1, <4>2
      <4>5. ~Overlaps(o, p) /\ o.version # p.version BY <4>3, <4>4 DEF RowsApart
      <4>6. /\ a.state = o.state /\ a.from = o.from /\ a.to <= o.to
            /\ b.state = p.state /\ b.from = p.from /\ b.to <= p.to
        BY <4>1, <4>2
      <4>7. a.to \in Int /\ b.to \in Int
        <5>1. \A o1 \in CutBy(row) : cut(o1).to = row.from BY <2>4
        <5> QED BY <2>2, <2>3, <4>1, <4>2, <5>1
      <4>8. o.from \in Nat /\ o.to \in Nat /\ p.from \in Nat /\ p.to \in Nat BY <2>2, <4>4
      <4>9. ~Overlaps(a, b) BY <4>5, <4>6, <4>7, <4>8 DEF Overlaps
      <4> QED BY <4>4, <4>5, <4>9
    <3> QED BY <3>1, <3>2, <3>3
  <2> HIDE DEF was, cut, left
  <2> QED BY <2>6 DEF RowsApart, Overlaps
<1> QED BY <1>1, <1>2

LEMMA ApartStep == CardInv /\ RowsApart /\ [RateNext]_rateVars => RowsApart'
<1> SUFFICES ASSUME CardInv, RowsApart, [RateNext]_rateVars PROVE RowsApart' OBVIOUS
<1>1. CASE RateTick \/ UNCHANGED rateVars BY <1>1 DEF RateTick, rateVars, RowsApart, Overlaps
<1>2. ASSUME NEW row \in Row, Upsert(row) \/ SyncRow(row) PROVE RowsApart'
  BY <1>2, RowsStayApart DEF SyncRow
<1> QED BY <1>1, <1>2 DEF RateNext

-----------------------------------------------------------------------------
(* Pricing: the pieces cut the instants outside the sealed period into     *)
(* intervals on which the month and the rates in effect stay the same.     *)
Unsealed(start, end) == {t \in start..(end - 1) : ~(SealedFrom <= t /\ t < SealedTo)}

LEMMA SpansAre ==
    ASSUME NEW start \in Instant, NEW end \in Instant, start < end
    PROVE  /\ \A span \in OutsideSealed(start, end) :
                 span = <<span[1], span[2]>> /\ span[1] \in start..end /\ span[2] \in start..end /\ span[1] < span[2]
           /\ \A span \in OutsideSealed(start, end) : \A t \in span[1]..(span[2] - 1) : t \in Unsealed(start, end)
           /\ \A t \in Unsealed(start, end) : \E span \in OutsideSealed(start, end) : Within(span, t)
           /\ \A s, z \in OutsideSealed(start, end) : \A t \in Int : Within(s, t) /\ Within(z, t) => s = z
<1> DEFINE before == IF end < SealedFrom THEN end ELSE SealedFrom
           after == IF start > SealedTo THEN start ELSE SealedTo
<1>0. /\ start \in Nat /\ end \in Nat /\ SealedFrom \in Nat /\ SealedTo \in Nat /\ SealedFrom <= SealedTo
      /\ before \in Nat /\ after \in Nat /\ before <= after
      /\ before <= end /\ before <= SealedFrom /\ start <= after /\ SealedTo <= after
  BY RateAssumption DEF Instant
<1>1. CASE end <= SealedFrom \/ start >= SealedTo
  <2>1. OutsideSealed(start, end) = {<<start, end>>} BY <1>0, <1>1 DEF OutsideSealed
  <2>2. \A t \in start..(end - 1) : t \in Unsealed(start, end) BY <1>0, <1>1 DEF Unsealed
  <2>3. \A t \in Unsealed(start, end) : Within(<<start, end>>, t) BY <1>0 DEF Unsealed, Within
  <2> QED BY <1>0, <2>1, <2>2, <2>3
<1>2. CASE ~(end <= SealedFrom \/ start >= SealedTo)
  <2>1. before = SealedFrom /\ after = SealedTo
    BY <1>0, <1>2
  <2>2. OutsideSealed(start, end) = {span \in {<<start, before>>, <<after, end>>} : span[1] < span[2]}
    BY <1>2 DEF OutsideSealed
  <2>3. \A span \in OutsideSealed(start, end) :
            span = <<span[1], span[2]>> /\ span[1] \in start..end /\ span[2] \in start..end /\ span[1] < span[2]
    BY <1>0, <1>2, <2>2
  <2>4. \A span \in OutsideSealed(start, end) : \A t \in span[1]..(span[2] - 1) : t \in Unsealed(start, end)
    BY <1>0, <1>2, <2>1, <2>2 DEF Unsealed
  <2>5. \A t \in Unsealed(start, end) : \E span \in OutsideSealed(start, end) : Within(span, t)
    <3> SUFFICES ASSUME NEW t \in Unsealed(start, end)
                 PROVE  \E span \in OutsideSealed(start, end) : Within(span, t)
      OBVIOUS
    <3>1. CASE t < SealedFrom
      <4>1. start <= t /\ t < before /\ start < before BY <1>0, <1>2, <2>1, <3>1 DEF Unsealed
      <4>2. <<start, before>> \in OutsideSealed(start, end) BY <2>2, <4>1
      <4> HIDE DEF before
      <4> QED BY <4>1, <4>2 DEF Within
    <3>2. CASE t >= SealedTo
      <4>1. after <= t /\ t < end /\ after < end BY <1>0, <1>2, <2>1, <3>2 DEF Unsealed
      <4>2. <<after, end>> \in OutsideSealed(start, end) BY <2>2, <4>1
      <4> HIDE DEF after
      <4> QED BY <4>1, <4>2 DEF Within
    <3> QED BY <1>0, <3>1, <3>2 DEF Unsealed
  <2>6. \A s, z \in OutsideSealed(start, end) : \A t \in Int : Within(s, t) /\ Within(z, t) => s = z
    <3> SUFFICES ASSUME NEW s \in OutsideSealed(start, end), NEW z \in OutsideSealed(start, end), NEW t \in Int,
                        Within(s, t), Within(z, t), s # z
                 PROVE  FALSE
      OBVIOUS
    <3>1. Within(<<start, before>>, t) /\ Within(<<after, end>>, t) BY <2>2
    <3>2. t < before /\ after <= t BY <3>1 DEF Within
    <3> HIDE DEF before, after
    <3> QED BY <1>0, <3>2
  <2> QED BY <2>3, <2>4, <2>5, <2>6
<1> QED BY <1>1, <1>2

(* Between two points of a set of instants there are two next to each other.*)
LEMMA LeastOf ==
    ASSUME NEW T \in SUBSET Nat, T # {} PROVE \E least \in T : \A t \in T : least <= t
<1>1. PICK least \in T : \A t \in T : ~(<<t, least>> \in OpToRel(<, Nat))
  BY NatLessThanWellFounded, WFMin
<1>2. \A t \in T : ~(t < least) BY <1>1 DEF OpToRel
<1> QED BY <1>2

Neighbours(points, p) ==
    /\ p \in points \X points /\ p[1] < p[2] /\ ~\E t \in points : p[1] < t /\ t < p[2]

LEMMA NeighboursAround ==
    ASSUME NEW points \in SUBSET Nat, NEW lo \in points, NEW hi \in points, NEW t \in Nat, lo <= t, t < hi
    PROVE  \E p \in points \X points : Neighbours(points, p) /\ Within(p, t)
<1> DEFINE above == {x \in points : t < x}
           gaps == {n \in Nat : \E x \in points : x <= t /\ n = t - x}
<1>1. above # {} /\ above \in SUBSET Nat OBVIOUS
<1>2. gaps # {} /\ gaps \in SUBSET Nat
  <2>1. t - lo \in Nat OBVIOUS
  <2> QED BY <2>1
<1>3. PICK next \in above : \A x \in above : next <= x
  <2> HIDE DEF above
  <2> QED BY <1>1, LeastOf
<1>4. PICK gap \in gaps : \A n \in gaps : gap <= n
  <2> HIDE DEF gaps
  <2> QED BY <1>2, LeastOf
<1>5. PICK prev \in points : prev <= t /\ gap = t - prev OBVIOUS
<1>6. \A x \in points : x <= t => x <= prev
  <2> TAKE x \in points
  <2> HAVE x <= t
  <2>1. t - x \in gaps OBVIOUS
  <2>2. t - prev <= t - x BY <1>4, <1>5, <2>1
  <2> QED BY <2>2
<1>7. next \in points /\ t < next /\ \A x \in points : t < x => next <= x BY <1>3
<1>8. ~\E x \in points : prev < x /\ x < next
  <2> HIDE DEF above, gaps
  <2> SUFFICES ASSUME NEW x \in points, prev < x, x < next PROVE FALSE OBVIOUS
  <2> QED BY <1>6, <1>7
<1> DEFINE p == <<prev, next>>
<1>9. p \in points \X points /\ p[1] = prev /\ p[2] = next BY <1>7
<1>10. prev < next BY <1>5, <1>7
<1> HIDE DEF p, above, gaps
<1>11. Neighbours(points, p) /\ Within(p, t) BY <1>5, <1>7, <1>8, <1>9, <1>10 DEF Neighbours, Within
<1> QED BY <1>9, <1>11

LEMMA CutsAre ==
    ASSUME rates \subseteq Row, NEW state \in State, NEW start \in Instant, NEW end \in Instant,
           NEW span, span = <<span[1], span[2]>>, span[1] \in start..end, span[2] \in start..end,
           span[1] < span[2]
    PROVE  /\ Cuts(state, span) \subseteq span[1]..span[2]
           /\ span[1] \in Cuts(state, span) /\ span[2] \in Cuts(state, span)
           /\ \A r \in rates : r.state \in {state, AnyState} =>
                 /\ span[1] < r.from /\ r.from < span[2] => r.from \in Cuts(state, span)
                 /\ span[1] < r.to /\ r.to < span[2] => r.to \in Cuts(state, span)
           /\ span[1] < MonthStart /\ MonthStart < span[2] => MonthStart \in Cuts(state, span)
<1>1. span[1] \in Nat /\ span[2] \in Nat BY DEF Instant
<1>2. \A r \in rates : r.from \in Nat /\ r.to \in Nat BY RateAssumption DEF Row, Instant, Open
<1>3. Boundaries(state, span[1], span[2]) \subseteq span[1]..span[2] BY <1>1, <1>2 DEF Boundaries
<1>4. MonthCuts(span[1], span[2]) \subseteq span[1]..span[2] BY <1>1, RateAssumption DEF MonthCuts, Instant
<1>5. \A r \in rates : r.state \in {state, AnyState} =>
         /\ span[1] < r.from /\ r.from < span[2] => r.from \in Boundaries(state, span[1], span[2])
         /\ span[1] < r.to /\ r.to < span[2] => r.to \in Boundaries(state, span[1], span[2])
  BY DEF Boundaries
<1>6. span[1] < MonthStart /\ MonthStart < span[2] => MonthStart \in MonthCuts(span[1], span[2]) BY DEF MonthCuts
<1>7. span[1] \in span[1]..span[2] /\ span[2] \in span[1]..span[2] BY <1>1
<1> QED BY <1>3, <1>4, <1>5, <1>6, <1>7 DEF Cuts

(* A span of a usage interval that lies outside the sealed period. *)
SpanOf(span, start, end) ==
    /\ span \in OutsideSealed(start, end)
    /\ span = <<span[1], span[2]>> /\ span[1] \in start..end /\ span[2] \in start..end /\ span[1] < span[2]

LEMMA PiecesOfSpans ==
    ASSUME NEW state \in State, NEW start \in Instant, NEW end \in Instant, start < end
    PROVE  \A p : p \in Pieces(state, start, end) <=>
                     \E span : SpanOf(span, start, end) /\ Neighbours(Cuts(state, span), p)
BY SpansAre DEF Pieces, SpanOf, Neighbours

(* While no row starts or ends, the same rows are in effect.               *)
LEMMA SameInEffect ==
    ASSUME rates \subseteq Row, NEW key, NEW from \in Nat, NEW t \in Nat, from <= t,
           \A r \in rates : r.state = key => ~(from < r.from /\ r.from <= t) /\ ~(from < r.to /\ r.to <= t)
    PROVE  InEffect(key, t) = InEffect(key, from)
<1>1. \A r \in rates : r.from \in Nat /\ r.to \in Nat BY RateAssumption DEF Row, Instant, Open
<1>2. \A r \in rates : r.state = key =>
         (r.from <= t /\ t < r.to <=> r.from <= from /\ from < r.to)
  BY <1>1
<1> QED BY <1>2 DEF InEffect

LEMMA PieceIsEven ==
    ASSUME rates \subseteq Row, NEW state \in State, NEW start \in Instant, NEW end \in Instant, start < end,
           NEW span, SpanOf(span, start, end), NEW p, Neighbours(Cuts(state, span), p),
           NEW t \in p[1]..(p[2] - 1)
    PROVE  /\ p[1] \in Nat /\ p[2] \in Nat /\ span[1] <= p[1] /\ p[2] <= span[2] /\ t \in span[1]..(span[2] - 1)
           /\ Month(t) = Month(p[1]) /\ Lookup(state, t) = Lookup(state, p[1])
<1> DEFINE points == Cuts(state, span)
<1>1. /\ points \subseteq span[1]..span[2]
      /\ \A r \in rates : r.state \in {state, AnyState} =>
            /\ span[1] < r.from /\ r.from < span[2] => r.from \in points
            /\ span[1] < r.to /\ r.to < span[2] => r.to \in points
      /\ span[1] < MonthStart /\ MonthStart < span[2] => MonthStart \in points
  BY CutsAre DEF SpanOf
<1>2. span[1] \in Nat /\ span[2] \in Nat BY DEF SpanOf, Instant
<1>3. p \in points \X points /\ p[1] \in points /\ p[2] \in points BY DEF Neighbours
<1>4. /\ p[1] \in Nat /\ p[2] \in Nat /\ span[1] <= p[1] /\ p[2] <= span[2]
      /\ t \in Nat /\ p[1] <= t /\ t < p[2]
  <2> HIDE DEF points
  <2>1. p[1] \in span[1]..span[2] /\ p[2] \in span[1]..span[2] BY <1>1, <1>3
  <2> QED BY <1>2, <2>1
<1>5. \A x \in points : ~(p[1] < x /\ x < p[2]) BY DEF Neighbours
<1> HIDE DEF points
<1>6. \A x \in Nat : p[1] < x /\ x <= t => x \notin points /\ span[1] < x /\ x < span[2] BY <1>2, <1>4, <1>5
<1>7. \A r \in rates : r.from \in Nat /\ r.to \in Nat BY RateAssumption DEF Row, Instant, Open
<1>8. \A r \in rates : r.state \in {state, AnyState} =>
         ~(p[1] < r.from /\ r.from <= t) /\ ~(p[1] < r.to /\ r.to <= t)
  BY <1>1, <1>6, <1>7
<1>9. InEffect(state, t) = InEffect(state, p[1]) /\ InEffect(AnyState, t) = InEffect(AnyState, p[1])
  BY <1>4, <1>8, SameInEffect
<1>10. Lookup(state, t) = Lookup(state, p[1]) BY <1>9 DEF Lookup
<1>11. MonthStart \in Nat BY RateAssumption
<1>12. ~(p[1] < MonthStart /\ MonthStart <= t) BY <1>1, <1>6, <1>11
<1>13. Month(t) = Month(p[1]) BY <1>4, <1>11, <1>12 DEF Month
<1> QED BY <1>2, <1>4, <1>10, <1>13

LEMMA PiecesAre ==
    ASSUME rates \subseteq Row, NEW state \in State, NEW start \in Instant, NEW end \in Instant, start < end
    PROVE  /\ \A p \in Pieces(state, start, end) : p \in (start..end) \X (start..end) /\ p[1] < p[2]
           /\ \A p \in Pieces(state, start, end) : \A t \in p[1]..(p[2] - 1) :
                 /\ t \in Unsealed(start, end)
                 /\ Month(t) = Month(p[1]) /\ Lookup(state, t) = Lookup(state, p[1])
           /\ \A t \in Unsealed(start, end) : \E p \in Pieces(state, start, end) : Within(p, t)
           /\ \A p, q \in Pieces(state, start, end) : \A t \in Int : Within(p, t) /\ Within(q, t) => p = q
<1> DEFINE pieces == Pieces(state, start, end)
<1>0. start \in Nat /\ end \in Nat BY DEF Instant
<1>1. \A p : p \in pieces <=> \E span : SpanOf(span, start, end) /\ Neighbours(Cuts(state, span), p)
  BY PiecesOfSpans
<1> HIDE DEF pieces
<1>2. ASSUME NEW p \in pieces
      PROVE  \E span : /\ SpanOf(span, start, end) /\ Neighbours(Cuts(state, span), p)
                       /\ p \in Cuts(state, span) \X Cuts(state, span) /\ p[1] < p[2]
                       /\ p[1] \in span[1]..span[2] /\ p[2] \in span[1]..span[2]
  <2>1. PICK span : SpanOf(span, start, end) /\ Neighbours(Cuts(state, span), p) BY <1>1
  <2>2. Cuts(state, span) \subseteq span[1]..span[2] BY <2>1, CutsAre DEF SpanOf
  <2> QED BY <2>1, <2>2 DEF Neighbours
<1>3. ASSUME NEW p \in pieces PROVE p \in (start..end) \X (start..end) /\ p[1] < p[2]
  <2>1. PICK span : /\ SpanOf(span, start, end) /\ p \in Cuts(state, span) \X Cuts(state, span) /\ p[1] < p[2]
                    /\ p[1] \in span[1]..span[2] /\ p[2] \in span[1]..span[2]
    BY <1>2
  <2>2. span[1] \in start..end /\ span[2] \in start..end BY <2>1 DEF SpanOf
  <2>3. p[1] \in start..end /\ p[2] \in start..end BY <1>0, <2>1, <2>2
  <2> QED BY <2>1, <2>3
<1>4. ASSUME NEW p \in pieces, NEW t \in p[1]..(p[2] - 1)
      PROVE  t \in Unsealed(start, end) /\ Month(t) = Month(p[1]) /\ Lookup(state, t) = Lookup(state, p[1])
  <2>1. PICK span : SpanOf(span, start, end) /\ Neighbours(Cuts(state, span), p) BY <1>1
  <2>2. /\ t \in span[1]..(span[2] - 1)
        /\ Month(t) = Month(p[1]) /\ Lookup(state, t) = Lookup(state, p[1])
    BY <2>1, PieceIsEven
  <2>3. t \in Unsealed(start, end) BY <2>1, <2>2, SpansAre DEF SpanOf
  <2> QED BY <2>2, <2>3
<1>5. ASSUME NEW t \in Unsealed(start, end) PROVE \E p \in pieces : Within(p, t)
  <2>1. PICK span \in OutsideSealed(start, end) : Within(span, t) BY SpansAre
  <2>2. SpanOf(span, start, end) BY SpansAre DEF SpanOf
  <2>3. t \in Nat /\ span[1] \in Nat /\ span[2] \in Nat BY <1>0, <2>2 DEF Unsealed, SpanOf
  <2> DEFINE points == Cuts(state, span)
  <2>4. points \subseteq span[1]..span[2] /\ span[1] \in points /\ span[2] \in points
    BY <2>2, CutsAre DEF SpanOf
  <2>5. points \in SUBSET Nat BY <2>3, <2>4
  <2>6. span[1] <= t /\ t < span[2] BY <2>1 DEF Within
  <2> HIDE DEF points
  <2>7. PICK p \in points \X points : Neighbours(points, p) /\ Within(p, t)
    BY <2>3, <2>4, <2>5, <2>6, NeighboursAround
  <2>8. p \in pieces BY <1>1, <2>2, <2>7 DEF points
  <2> QED BY <2>7, <2>8
<1>6. ASSUME NEW p \in pieces, NEW q \in pieces, NEW t \in Int, Within(p, t), Within(q, t) PROVE p = q
  <2>1. PICK s : /\ SpanOf(s, start, end) /\ Neighbours(Cuts(state, s), p)
                 /\ p \in Cuts(state, s) \X Cuts(state, s) /\ p[1] < p[2]
                 /\ p[1] \in s[1]..s[2] /\ p[2] \in s[1]..s[2]
    BY <1>2
  <2>2. PICK z : /\ SpanOf(z, start, end) /\ Neighbours(Cuts(state, z), q)
                 /\ q \in Cuts(state, z) \X Cuts(state, z) /\ q[1] < q[2]
                 /\ q[1] \in z[1]..z[2] /\ q[2] \in z[1]..z[2]
    BY <1>2
  <2>3. /\ s[1] \in Int /\ s[2] \in Int /\ z[1] \in Int /\ z[2] \in Int
        /\ p[1] \in Int /\ p[2] \in Int /\ q[1] \in Int /\ q[2] \in Int
    BY <1>0, <2>1, <2>2 DEF SpanOf
  <2>4. p[1] <= t /\ t < p[2] /\ q[1] <= t /\ t < q[2] BY <1>6 DEF Within
  <2>5. Within(s, t) /\ Within(z, t) BY <2>1, <2>2, <2>3, <2>4 DEF Within
  <2>6. s = z BY <2>1, <2>2, <2>5, SpansAre DEF SpanOf
  <2> DEFINE points == Cuts(state, s)
  <2>7. /\ p = <<p[1], p[2]>> /\ q = <<q[1], q[2]>>
        /\ p[1] \in points /\ p[2] \in points /\ q[1] \in points /\ q[2] \in points
    BY <2>1, <2>2, <2>6
  <2>8. \A x \in points : ~(p[1] < x /\ x < p[2]) /\ ~(q[1] < x /\ x < q[2])
    BY <2>1, <2>2, <2>6 DEF Neighbours
  <2> HIDE DEF points
  <2>9. p[1] = q[1] BY <2>3, <2>4, <2>7, <2>8
  <2>10. p[2] = q[2] BY <2>3, <2>4, <2>7, <2>8
  <2> QED BY <2>7, <2>9, <2>10
<1> QED BY <1>3, <1>4, <1>5, <1>6 DEF pieces

(* Instants that are alike throughout a piece are cut into whole pieces.   *)
Alike(kept, state, start, end) ==
    /\ kept \subseteq Unsealed(start, end)
    /\ \A p \in Pieces(state, start, end) : \A t \in p[1]..(p[2] - 1) : t \in kept <=> p[1] \in kept
EqualIn(kept, w, state, start, end) ==
    \A p \in Pieces(state, start, end) : \A t \in p[1]..(p[2] - 1) : t \in kept => w[t] = w[p[1]]
PiecesIn(kept, state, start, end) == {p \in Pieces(state, start, end) : p[1] \in kept}

LEMMA WholePieces ==
    ASSUME rates \subseteq Row, NEW state \in State, NEW start \in Instant, NEW end \in Instant, start < end,
           NEW kept, Alike(kept, state, start, end), NEW w \in [kept -> Int], EqualIn(kept, w, state, start, end)
    PROVE  /\ CutInto(kept, w, PiecesIn(kept, state, start, end),
                       [p \in PiecesIn(kept, state, start, end) |-> w[p[1]]])
           /\ IsFiniteSet(kept) /\ IsFiniteSet(PiecesIn(kept, state, start, end))
<1> DEFINE parts == PiecesIn(kept, state, start, end)
           v == [p \in parts |-> w[p[1]]]
<1>0. start \in Nat /\ end \in Nat BY DEF Instant
<1>1. \A p \in parts : p \in Pieces(state, start, end) /\ p[1] \in kept BY DEF PiecesIn
<1>2. IsFiniteSet(kept)
  <2>1. IsFiniteSet(start..end) BY <1>0, FS_Interval
  <2>2. kept \subseteq start..end BY <1>0 DEF Alike, Unsealed
  <2> QED BY <2>1, <2>2, FS_Subset
<1>3. IsFiniteSet(parts)
  <2>0. IsFiniteSet(start..end) BY <1>0, FS_Interval
  <2>1. IsFiniteSet((start..end) \X (start..end)) BY <2>0, FS_Product
  <2>2. parts \subseteq (start..end) \X (start..end) BY <1>1, PiecesAre
  <2> QED BY <2>1, <2>2, FS_Subset
<1>4. v \in [parts -> Int] /\ \A p \in parts : v[p] = w[p[1]] BY <1>1
<1>5. \A p \in parts : p[1] \in Int /\ p[2] \in Int /\ p[1] < p[2] BY <1>0, <1>1, PiecesAre
<1>6. \A p \in parts : \A t \in p[1]..(p[2] - 1) : t \in kept /\ w[t] = v[p]
  <2> TAKE p \in parts
  <2> TAKE t \in p[1]..(p[2] - 1)
  <2>1. t \in kept BY <1>1 DEF Alike
  <2> QED BY <1>1, <1>4, <2>1 DEF EqualIn
<1>7. \A t \in kept : t \in Int /\ t \in Unsealed(start, end) BY <1>0 DEF Alike, Unsealed
<1>8. ASSUME NEW t \in kept PROVE \E p \in parts : Within(p, t)
  <2>1. PICK p \in Pieces(state, start, end) : Within(p, t) BY <1>7, PiecesAre
  <2>2. p[1] \in Int /\ p[2] \in Int BY <1>0, PiecesAre
  <2>3. t \in p[1]..(p[2] - 1) BY <1>7, <2>1, <2>2 DEF Within
  <2>4. p \in parts BY <2>3 DEF Alike, PiecesIn
  <2> QED BY <2>1, <2>4
<1>9. \A p, q \in parts : \A t \in kept : Within(p, t) /\ Within(q, t) => p = q
  BY <1>1, <1>7, PiecesAre
<1> HIDE DEF parts, v
<1>10. CutInto(kept, w, parts, v) BY <1>2, <1>3, <1>4, <1>5, <1>6, <1>7, <1>8, <1>9 DEF CutInto
<1> QED BY <1>2, <1>3, <1>10 DEF parts, v

LEMMA PricesAreAmounts ==
    ASSUME rates \subseteq Row, NEW state \in State, NEW t PROVE Lookup(state, t).price \in Nat
<1>1. \A r \in rates : r.price \in Nat BY DEF Row
<1>2. NoRate.price = 0 BY DEF NoRate
<1>3. \A key : InEffect(key, t) \subseteq rates BY DEF InEffect
<1>4. Lookup(state, t) \in rates \cup {NoRate}
  <2>1. CASE InEffect(state, t) # {} BY <1>3, <2>1 DEF Lookup
  <2>2. CASE InEffect(state, t) = {} /\ InEffect(AnyState, t) # {} BY <1>3, <2>2 DEF Lookup
  <2>3. CASE InEffect(state, t) = {} /\ InEffect(AnyState, t) = {} BY <2>3 DEF Lookup
  <2> QED BY <2>1, <2>2, <2>3
<1> QED BY <1>1, <1>2, <1>4

LEMMA LineIsReference ==
    ASSUME rates \subseteq Row, NEW state \in State, NEW start \in Instant, NEW end \in Instant, start < end,
           NEW m
    PROVE  Line(m, state, start, end) = Reference(m, state, start, end)
<1> DEFINE instants == {t \in start..(end - 1) : Month(t) = m /\ ~(SealedFrom <= t /\ t < SealedTo)}
           paid == {t \in instants : Lookup(state, t) # NoRate}
           pieces == {p \in Pieces(state, start, end) : Month(p[1]) = m}
           priced == {p \in pieces : Lookup(state, p[1]) # NoRate}
           rest == instants \ paid
           price == [t \in paid |-> Lookup(state, t).price]
           one == [t \in rest |-> 1]
<1>0. start \in Nat /\ end \in Nat BY DEF Instant
<1>1. ASSUME NEW p \in Pieces(state, start, end)
      PROVE  /\ p[1] \in Int /\ p[2] \in Int /\ p[1] \in p[1]..(p[2] - 1)
             /\ \A t \in p[1]..(p[2] - 1) :
                   t \in Unsealed(start, end) /\ Month(t) = Month(p[1]) /\ Lookup(state, t) = Lookup(state, p[1])
  BY <1>0, PiecesAre
<1>2. \A t : t \in instants <=> t \in Unsealed(start, end) /\ Month(t) = m BY DEF Unsealed
<1>3. Alike(paid, state, start, end) /\ Alike(rest, state, start, end)
  <2>1. paid \subseteq Unsealed(start, end) /\ rest \subseteq Unsealed(start, end) BY <1>2
  <2> HIDE DEF instants
  <2>2. ASSUME NEW p \in Pieces(state, start, end), NEW t \in p[1]..(p[2] - 1)
        PROVE  (t \in paid <=> p[1] \in paid) /\ (t \in rest <=> p[1] \in rest)
    BY <1>1, <1>2
  <2> QED BY <2>1, <2>2 DEF Alike
<1>4. PiecesIn(paid, state, start, end) = priced /\ PiecesIn(rest, state, start, end) = pieces \ priced
  <2> HIDE DEF instants
  <2>1. \A p \in Pieces(state, start, end) : p[1] \in instants <=> Month(p[1]) = m BY <1>1, <1>2
  <2> QED BY <2>1 DEF PiecesIn
<1>5. price \in [paid -> Int] /\ one \in [rest -> Int] BY PricesAreAmounts
<1>6. ASSUME NEW p \in Pieces(state, start, end), NEW t \in p[1]..(p[2] - 1)
      PROVE  /\ t \in paid => price[t] = price[p[1]] /\ price[t] = Lookup(state, p[1]).price
             /\ t \in rest => one[t] = one[p[1]]
  <2>1. (t \in paid => p[1] \in paid) /\ (t \in rest => p[1] \in rest) BY <1>3 DEF Alike
  <2>2. Lookup(state, t) = Lookup(state, p[1]) BY <1>1
  <2> HIDE DEF instants, paid, rest
  <2> QED BY <2>1, <2>2
<1>7. /\ CutInto(paid, price, priced, [p \in priced |-> price[p[1]]])
      /\ CutInto(rest, one, pieces \ priced, [p \in pieces \ priced |-> one[p[1]]])
      /\ IsFiniteSet(rest)
  <2> HIDE DEF paid, rest, price, one, priced, pieces
  <2>1. EqualIn(paid, price, state, start, end) /\ EqualIn(rest, one, state, start, end) BY <1>6 DEF EqualIn
  <2>2. /\ CutInto(paid, price, PiecesIn(paid, state, start, end),
                    [p \in PiecesIn(paid, state, start, end) |-> price[p[1]]])
        /\ CutInto(rest, one, PiecesIn(rest, state, start, end),
                    [p \in PiecesIn(rest, state, start, end) |-> one[p[1]]])
        /\ IsFiniteSet(rest)
    BY <1>3, <1>5, <2>1, WholePieces
  <2> QED BY <1>4, <2>2
<1>8. /\ \A p \in priced : price[p[1]] = Lookup(state, p[1]).price
      /\ \A p \in pieces \ priced : one[p[1]] = 1 /\ p[1] \in Int /\ p[2] \in Int
  <2>1. \A p \in priced : p \in Pieces(state, start, end) /\ p[1] \in paid BY <1>4 DEF PiecesIn
  <2>2. \A p \in pieces \ priced : p \in Pieces(state, start, end) /\ p[1] \in rest BY <1>4 DEF PiecesIn
  <2>3. \A t \in rest : one[t] = 1 OBVIOUS
  <2>4. \A t \in paid : price[t] = Lookup(state, t).price OBVIOUS
  <2> HIDE DEF paid, rest, price, one, priced, pieces
  <2> QED BY <1>1, <2>1, <2>2, <2>3, <2>4
<1>9. SumFunction(price) = SumFunction([p \in priced |-> (p[2] - p[1]) * Lookup(state, p[1]).price])
  <2> DEFINE v == [p \in priced |-> price[p[1]]]
  <2>1. \A p \in priced : v[p] = Lookup(state, p[1]).price BY <1>8
  <2>2. CutInto(paid, price, priced, v) BY <1>7
  <2> HIDE DEF paid, price, priced, v
  <2>3. SumFunction(price) = SumFunction([p \in priced |-> (p[2] - p[1]) * v[p]]) BY <2>2, SumByIntervals
  <2>4. [p \in priced |-> (p[2] - p[1]) * v[p]] = [p \in priced |-> (p[2] - p[1]) * Lookup(state, p[1]).price]
    BY <2>1
  <2> QED BY <2>3, <2>4
<1>10. Cardinality(rest) = SumFunction([p \in pieces \ priced |-> p[2] - p[1]])
  <2> DEFINE others == pieces \ priced  v == [p \in others |-> one[p[1]]]
  <2>1. \A p \in others : v[p] = 1 /\ p[1] \in Int /\ p[2] \in Int BY <1>8
  <2>2. CutInto(rest, one, others, v) BY <1>7
  <2> HIDE DEF rest, others, v
  <2>3. SumFunction(one) = SumFunction([p \in others |-> (p[2] - p[1]) * v[p]])
    <3> HIDE DEF one
    <3> QED BY <2>2, SumByIntervals
  <2>4. \A p \in others : (p[2] - p[1]) * v[p] = p[2] - p[1] BY <2>1
  <2>5. [p \in others |-> (p[2] - p[1]) * v[p]] = [p \in others |-> p[2] - p[1]] BY <2>4
  <2>6. SumFunction(one) = Cardinality(rest) BY <1>7, SumOfOnes
  <2>7. Cardinality(rest) = SumFunction([p \in others |-> p[2] - p[1]]) BY <2>3, <2>5, <2>6
  <2> QED BY <2>7 DEF others
<1>11. Line(m, state, start, end) =
          [minor |-> RoundHalfUp(SumFunction([p \in priced |-> (p[2] - p[1]) * Lookup(state, p[1]).price])),
           unpriced |-> SumFunction([p \in pieces \ priced |-> p[2] - p[1]])]
  BY DEF Line
<1>12. Reference(m, state, start, end) =
          [minor |-> RoundHalfUp(SumFunction(price)), unpriced |-> Cardinality(rest)]
  BY DEF Reference
<1> HIDE DEF price, priced, pieces, rest, paid, instants
<1> QED BY <1>9, <1>10, <1>11, <1>12

(* Whatever rows were inserted, replaced, cut and synced, usage is priced  *)
(* month by month as the sum over its instants, sealed ones left out, and  *)
(* rounded once, for any card, clock, month and sealed period (upsert,     *)
(* sync_from_provider, lookup, boundaries, price).                         *)
THEOREM UsagePricedAlways == RateSpec => []UsagePriced
<1>1. CardInv /\ RowsApart => UsagePriced BY LineIsReference DEF CardInv, RowsApart, UsagePriced
<1>2. RateInit => RowsApart BY DEF RateInit, RowsApart
<1> QED BY CardInitially, CardStep, ApartStep, <1>1, <1>2, PTL DEF RateSpec

-----------------------------------------------------------------------------
(* The fold of the ledger goes through the events of any set of positions  *)
(* in one order: it folds the latest one last.                             *)

LEMMA OrderIsTotal ==
    ASSUME NEW events \in Seq(LedgerEvent), NEW i \in DOMAIN events, NEW j \in DOMAIN events
    PROVE  /\ ~(FoldsBefore(events, i, j) /\ FoldsBefore(events, j, i))
           /\ i # j => FoldsBefore(events, i, j) \/ FoldsBefore(events, j, i)
           /\ FoldsBefore(events, i, j) => events[i].at <= events[j].at
           /\ \A k \in DOMAIN events : FoldsBefore(events, i, j) /\ FoldsBefore(events, j, k) => FoldsBefore(events, i, k)
<1>1. \A k \in DOMAIN events : k \in Nat /\ events[k].at \in Nat
  BY EnvelopeAssumption
<1>2. \A k \in DOMAIN events : Uncertainty(events[k]) \in {0, 1} BY DEF Uncertainty
<1> QED BY <1>1, <1>2 DEF FoldsBefore

IsLast(events, s, x) == x \in s /\ \A j \in s \ {x} : FoldsBefore(events, j, x)

LEMMA LastExists ==
    ASSUME NEW events \in Seq(LedgerEvent)
    PROVE  \A s \in SUBSET DOMAIN events : s # {} =>
              /\ \E x : IsLast(events, s, x)
              /\ IsLast(events, s, LastIn(events, s))
<1> DEFINE D == DOMAIN events
           N == {n \in Nat : \A s \in Smaller(D, n) : s # {} => \E x : IsLast(events, s, x)}
<1>0. IsFiniteSet(D) /\ Cardinality(D) \in Nat
  <2>1. D = 1..Len(events) /\ Len(events) \in Nat OBVIOUS
  <2>2. IsFiniteSet(D) BY <2>1, FS_Interval
  <2> QED BY <2>2, FS_CardinalityType
<1>1. 0 \in N BY <1>0, SmallerGrows
<1>2. ASSUME NEW n \in N PROVE n + 1 \in N
  <2> SUFFICES ASSUME NEW s \in Smaller(D, n + 1), s # {} PROVE \E x : IsLast(events, s, x) OBVIOUS
  <2> DEFINE y == Pick(s)  r == s \ {y}
  <2>1. y \in s /\ y \in D /\ r \in Smaller(D, n) /\ r \in SUBSET D BY <1>0, LessOne DEF Smaller
  <2>2. CASE r = {}
    <3>1. IsLast(events, s, y) BY <2>1, <2>2 DEF IsLast
    <3> QED BY <3>1
  <2>3. CASE r # {}
    <3>1. PICK x : IsLast(events, r, x) BY <2>1, <2>3
    <3>2. x \in r /\ x \in D /\ x # y BY <2>1, <3>1 DEF IsLast
    <3> HIDE DEF y
    <3>3. CASE FoldsBefore(events, x, y)
      <4>1. \A j \in r : FoldsBefore(events, j, y) BY <2>1, <3>1, <3>2, <3>3, OrderIsTotal DEF IsLast
      <4>2. IsLast(events, s, y) BY <2>1, <4>1 DEF IsLast
      <4> QED BY <4>2
    <3>4. CASE FoldsBefore(events, y, x)
      <4>1. IsLast(events, s, x) BY <2>1, <3>1, <3>2, <3>4 DEF IsLast
      <4> QED BY <4>1
    <3> QED BY <2>1, <3>2, <3>3, <3>4, OrderIsTotal
  <2> QED BY <2>2, <2>3
<1>3. N = Nat
  <2> HIDE DEF N
  <2>1. N \in SUBSET Nat BY DEF N
  <2> QED BY <1>1, <1>2, <2>1, AllNumbers
<1>4. Cardinality(D) \in N BY <1>0, <1>3
<1>5. \A s \in SUBSET D : s # {} => \E x : IsLast(events, s, x) BY <1>0, <1>4, SmallerGrows
<1>6. ASSUME NEW s \in SUBSET D, s # {} PROVE IsLast(events, s, LastIn(events, s))
  <2>1. \E x \in s : \A j \in s \ {x} : FoldsBefore(events, j, x) BY <1>5, <1>6 DEF IsLast
  <2> QED BY <2>1 DEF LastIn, IsLast
<1> QED BY <1>5, <1>6

FoldsOver(events, subsets, folded) ==
    folded = [s \in subsets |-> IF s = {} THEN EmptyProjection
                                ELSE FoldEvent(folded[s \ {LastIn(events, s)}], events[LastIn(events, s)])]

LEMMA LessLast ==
    ASSUME NEW events \in Seq(LedgerEvent), NEW n \in Nat, NEW s \in Smaller(DOMAIN events, n + 1), s # {}
    PROVE  /\ LastIn(events, s) \in s /\ LastIn(events, s) \in DOMAIN events
           /\ s \ {LastIn(events, s)} \in Smaller(DOMAIN events, n)
           /\ IsLast(events, s, LastIn(events, s))
<1>1. s \in SUBSET DOMAIN events /\ Cardinality(s) <= n + 1 BY DEF Smaller
<1>2. IsLast(events, s, LastIn(events, s)) BY <1>1, LastExists
<1>3. LastIn(events, s) \in s BY <1>2 DEF IsLast
<1>4. IsFiniteSet(DOMAIN events)
  <2>1. DOMAIN events = 1..Len(events) /\ Len(events) \in Nat OBVIOUS
  <2> QED BY <2>1, FS_Interval
<1>5. IsFiniteSet(s) BY <1>1, <1>4, FS_Subset
<1>6. Cardinality(s \ {LastIn(events, s)}) = Cardinality(s) - 1 /\ Cardinality(s) \in Nat
  BY <1>3, <1>5, FS_RemoveElement, FS_CardinalityType
<1> QED BY <1>1, <1>2, <1>3, <1>6 DEF Smaller

LEMMA FoldUnfolds ==
    ASSUME NEW events \in Seq(LedgerEvent)
    PROVE  \E folded : FoldsOver(events, SUBSET DOMAIN events, folded) /\ Fold(events) = folded[DOMAIN events]
<1> DEFINE D == DOMAIN events
           N == {n \in Nat : \E folded : FoldsOver(events, Smaller(D, n), folded)}
<1>0. IsFiniteSet(D) /\ Cardinality(D) \in Nat
  <2>1. D = 1..Len(events) /\ Len(events) \in Nat OBVIOUS
  <2>2. IsFiniteSet(D) BY <2>1, FS_Interval
  <2> QED BY <2>2, FS_CardinalityType
<1>1. 0 \in N
  <2> DEFINE folded == [s \in Smaller(D, 0) |-> EmptyProjection]
  <2>1. \A s \in Smaller(D, 0) : s = {} BY <1>0, SmallerGrows
  <2>2. FoldsOver(events, Smaller(D, 0), folded) BY <2>1 DEF FoldsOver
  <2> QED BY <2>2
<1>2. ASSUME NEW n \in N PROVE n + 1 \in N
  <2>1. PICK folded : FoldsOver(events, Smaller(D, n), folded) OBVIOUS
  <2> DEFINE step(f, s) == FoldEvent(f[s \ {LastIn(events, s)}], events[LastIn(events, s)])
             more == [s \in Smaller(D, n + 1) |-> IF s = {} THEN EmptyProjection ELSE step(folded, s)]
  <2>2. \A s \in Smaller(D, n) : s \in Smaller(D, n + 1) BY <1>0, SmallerGrows
  <2>3. ASSUME NEW s \in Smaller(D, n) PROVE more[s] = folded[s]
    <3>1. folded[s] = IF s = {} THEN EmptyProjection ELSE step(folded, s) BY <2>1 DEF FoldsOver
    <3>2. more[s] = IF s = {} THEN EmptyProjection ELSE step(folded, s)
      <4> HIDE DEF step
      <4> QED BY <2>2
    <3> QED BY <3>1, <3>2
  <2>4. ASSUME NEW s \in Smaller(D, n + 1), s # {} PROVE step(more, s) = step(folded, s)
    <3>1. s \ {LastIn(events, s)} \in Smaller(D, n) BY <2>4, LessLast
    <3>2. more[s \ {LastIn(events, s)}] = folded[s \ {LastIn(events, s)}] BY <2>3, <3>1
    <3> HIDE DEF more
    <3> QED BY <3>2
  <2>5. more = [s \in Smaller(D, n + 1) |-> IF s = {} THEN EmptyProjection ELSE step(more, s)]
    <3>1. \A s \in Smaller(D, n + 1) :
             (IF s = {} THEN EmptyProjection ELSE step(folded, s)) = IF s = {} THEN EmptyProjection ELSE step(more, s)
      <4> HIDE DEF step, more
      <4> QED BY <2>4
    <3>2. more = [s \in Smaller(D, n + 1) |-> IF s = {} THEN EmptyProjection ELSE step(folded, s)] OBVIOUS
    <3> HIDE DEF step, more
    <3> QED BY <3>1, <3>2
  <2>6. FoldsOver(events, Smaller(D, n + 1), more)
    <3> HIDE DEF more
    <3> QED BY <2>5 DEF FoldsOver
  <2> HIDE DEF more, step
  <2> QED BY <2>6
<1>3. N = Nat
  <2> HIDE DEF N
  <2>1. N \in SUBSET Nat BY DEF N
  <2> QED BY <1>1, <1>2, <2>1, AllNumbers
<1>4. Cardinality(D) \in N BY <1>0, <1>3
<1>5. Smaller(D, Cardinality(D)) = SUBSET D BY <1>0, SmallerGrows
<1>6. \E folded : FoldsOver(events, SUBSET D, folded) BY <1>4, <1>5
<1> DEFINE chosen == CHOOSE folded : FoldsOver(events, SUBSET D, folded)
<1>7. FoldsOver(events, SUBSET D, chosen) BY <1>6
<1>8. Fold(events) = chosen[D] BY DEF Fold, FoldsOver
<1> QED BY <1>7, <1>8

(* What the events at some positions stand for: ExpectedSegments of them.  *)
EndsIn(events, s) == {i \in s : events[i].type \in {"switch", "close", "expired"}}
NextIn(events, s, i) ==
    {j \in EndsIn(events, s) : /\ FoldsBefore(events, i, j)
                               /\ \A k \in EndsIn(events, s) : FoldsBefore(events, i, k) => ~FoldsBefore(events, k, j)}
BeatsIn(events, s, j) == {h \in s : events[h].type = "heartbeat" /\ FoldsBefore(events, h, j)}
SeenIn(events, s, j) ==
    IF events[j].last # NoTime THEN {events[j].last} ELSE {events[h].at : h \in BeatsIn(events, s, j)}
UntilIn(events, s, i, j) ==
    IF events[j].type # "expired" THEN {events[j].at}
    ELSE {t \in SeenIn(events, s, j) \cup {events[i].at} :
             SeenIn(events, s, j) # {} /\ \A u \in SeenIn(events, s, j) \cup {events[i].at} : u <= t}
PiecesTo(events, i, j, t) ==
    {p \in {[from |-> events[i].at, to |-> t, quantity |-> events[i].quantity, certainty |-> "confirmed"],
            [from |-> t, to |-> events[j].at, quantity |-> events[i].quantity, certainty |-> "uncertain"]}
     : p.from < p.to}
UsageIn(events, s, i, j) == UNION {PiecesTo(events, i, j, t) : t \in UntilIn(events, s, i, j)}
SwitchesIn(events, s) == {i \in EndsIn(events, s) : events[i].type = "switch"}
ExpectedIn(events, s) ==
    UNION {UNION {UsageIn(events, s, i, j) : j \in NextIn(events, s, i)} : i \in SwitchesIn(events, s)}

LEMMA BeforeIsOrder ==
    ASSUME log \in Seq(LedgerEvent), NEW i \in DOMAIN log, NEW j \in DOMAIN log
    PROVE  Before(i, j) <=> FoldsBefore(log, i, j)
<1>1. log[i].at \in Nat /\ log[j].at \in Nat BY EnvelopeAssumption
<1> QED BY <1>1 DEF Before, FoldsBefore, Uncertainty

LEMMA ExpectedIsExpectedIn ==
    ASSUME log \in Seq(LedgerEvent) PROVE ExpectedSegments = ExpectedIn(log, DOMAIN log)
<1>1. Ends = EndsIn(log, DOMAIN log) /\ Ends \subseteq DOMAIN log BY DEF Ends, EndsIn
<1>2. \A i \in DOMAIN log : NextEnd(i) = NextIn(log, DOMAIN log, i) BY <1>1, BeforeIsOrder DEF NextEnd, NextIn
<1>3. \A j \in DOMAIN log : Seen(j) = SeenIn(log, DOMAIN log, j)
  BY BeforeIsOrder DEF Seen, SeenIn, BeatsIn
<1>4. \A i, j \in DOMAIN log : UsedUntil(i, j) = UntilIn(log, DOMAIN log, i, j)
  BY <1>3 DEF UsedUntil, UntilIn
<1>5. \A i, j \in DOMAIN log : Usage(i, j) = UsageIn(log, DOMAIN log, i, j)
  BY <1>4 DEF Usage, UsageIn, PiecesTo
<1>6. \A i \in Ends : NextEnd(i) \subseteq DOMAIN log BY <1>1 DEF NextEnd
<1>7. \A i \in Ends : UNION {Usage(i, j) : j \in NextEnd(i)}
                        = UNION {UsageIn(log, DOMAIN log, i, j) : j \in NextIn(log, DOMAIN log, i)}
  <2> TAKE i \in Ends
  <2>1. \A j \in NextEnd(i) : Usage(i, j) = UsageIn(log, DOMAIN log, i, j) BY <1>1, <1>5, <1>6
  <2>2. NextEnd(i) = NextIn(log, DOMAIN log, i) BY <1>1, <1>2
  <2> QED BY <2>1, <2>2
<1>8. {i \in Ends : log[i].type = "switch"} = SwitchesIn(log, DOMAIN log) BY <1>1 DEF SwitchesIn
<1> DEFINE of(i) == UNION {Usage(i, j) : j \in NextEnd(i)}
           in(i) == UNION {UsageIn(log, DOMAIN log, i, j) : j \in NextIn(log, DOMAIN log, i)}
           switches == {i \in Ends : log[i].type = "switch"}
<1>9. \A i \in switches : of(i) = in(i) BY <1>7
<1>10. ExpectedSegments = UNION {of(i) : i \in switches} BY DEF ExpectedSegments
<1>11. ExpectedIn(log, DOMAIN log) = UNION {in(i) : i \in switches} BY <1>8 DEF ExpectedIn
<1> HIDE DEF of, in, switches
<1> QED BY <1>9, <1>10, <1>11

(* What one more event, later than all others, adds to it. *)
Extends(events, r, x, s) ==
    /\ events \in Seq(LedgerEvent) /\ s \in SUBSET DOMAIN events /\ x \in s /\ r = s \ {x}
    /\ \A j \in r : FoldsBefore(events, j, x)

LEMMA SameBefore ==
    ASSUME NEW events, NEW r, NEW x, NEW s, Extends(events, r, x, s), NEW i \in r, NEW j \in r
    PROVE  UsageIn(events, s, i, j) = UsageIn(events, r, i, j)
<1>1. ~FoldsBefore(events, x, j) BY OrderIsTotal DEF Extends
<1>2. BeatsIn(events, s, j) = BeatsIn(events, r, j) BY <1>1 DEF BeatsIn, Extends
<1> QED BY <1>2 DEF UsageIn, UntilIn, SeenIn

LastEnd(events, r, i) == IsLast(events, EndsIn(events, r), i)

LEMMA NextAfterOther ==
    ASSUME NEW events, NEW r, NEW x, NEW s, Extends(events, r, x, s), x \notin EndsIn(events, s)
    PROVE  EndsIn(events, s) = EndsIn(events, r) /\ \A i : NextIn(events, s, i) = NextIn(events, r, i)
<1>1. EndsIn(events, s) = EndsIn(events, r) BY DEF EndsIn, Extends
<1> QED BY <1>1 DEF NextIn

LEMMA NextAfterEnd ==
    ASSUME NEW events, NEW r, NEW x, NEW s, Extends(events, r, x, s), x \in EndsIn(events, s)
    PROVE  /\ EndsIn(events, s) = EndsIn(events, r) \cup {x}
           /\ NextIn(events, s, x) = {}
           /\ \A i \in EndsIn(events, r) :
                 /\ ~LastEnd(events, r, i) => NextIn(events, s, i) = NextIn(events, r, i)
                 /\ LastEnd(events, r, i) => NextIn(events, r, i) = {} /\ NextIn(events, s, i) = {x}
<1>1. EndsIn(events, r) \subseteq r /\ r \subseteq DOMAIN events /\ x \in DOMAIN events /\ x \notin r
  BY DEF EndsIn, Extends
<1>2. \A j \in r : FoldsBefore(events, j, x) /\ ~FoldsBefore(events, x, j)
  BY <1>1, OrderIsTotal DEF Extends
<1>3. ~FoldsBefore(events, x, x) BY <1>1, OrderIsTotal DEF Extends
<1>4. EndsIn(events, s) = EndsIn(events, r) \cup {x} BY DEF EndsIn, Extends
<1>5. NextIn(events, s, x) = {} BY <1>1, <1>2, <1>3, <1>4 DEF NextIn
<1>6. ASSUME NEW i \in EndsIn(events, r), ~LastEnd(events, r, i)
      PROVE  NextIn(events, s, i) = NextIn(events, r, i)
  <2>1. PICK k \in EndsIn(events, r) \ {i} : ~FoldsBefore(events, k, i) BY <1>6 DEF LastEnd, IsLast
  <2>2. FoldsBefore(events, i, k) /\ FoldsBefore(events, k, x)
    BY <1>1, <1>2, <2>1, OrderIsTotal DEF Extends
  <2>3. x \notin NextIn(events, s, i) BY <1>4, <2>2 DEF NextIn
  <2>4. \A j \in EndsIn(events, r) : ~FoldsBefore(events, x, j) BY <1>1, <1>2
  <2> QED BY <1>4, <2>3, <2>4 DEF NextIn
<1>7. ASSUME NEW i \in EndsIn(events, r), LastEnd(events, r, i)
      PROVE  NextIn(events, r, i) = {} /\ NextIn(events, s, i) = {x}
  <2>1. \A j \in EndsIn(events, r) : ~FoldsBefore(events, i, j)
    <3> TAKE j \in EndsIn(events, r)
    <3>1. i \in DOMAIN events /\ j \in DOMAIN events /\ events \in Seq(LedgerEvent) BY <1>1 DEF Extends
    <3>2. j = i \/ FoldsBefore(events, j, i) BY <1>7 DEF LastEnd, IsLast
    <3> QED BY <3>1, <3>2, OrderIsTotal
  <2>2. FoldsBefore(events, i, x) BY <1>1, <1>2
  <2> QED BY <1>3, <1>4, <2>1, <2>2 DEF NextIn
<1> QED BY <1>4, <1>5, <1>6, <1>7

UsageFrom(events, s, i) == UNION {UsageIn(events, s, i, j) : j \in NextIn(events, s, i)}
OpenEnd(events, r) == {i \in SwitchesIn(events, r) : LastEnd(events, r, i)}

LEMMA ExpectedGrows ==
    ASSUME NEW events, NEW r, NEW x, NEW s, Extends(events, r, x, s)
    PROVE  /\ x \notin EndsIn(events, s) => ExpectedIn(events, s) = ExpectedIn(events, r)
           /\ x \in EndsIn(events, s) =>
                 ExpectedIn(events, s) =
                    ExpectedIn(events, r) \cup (UNION {UsageIn(events, s, i, x) : i \in OpenEnd(events, r)})
<1>1. EndsIn(events, r) \subseteq r /\ SwitchesIn(events, r) \subseteq EndsIn(events, r) BY DEF EndsIn, SwitchesIn
<1>2. \A i : NextIn(events, r, i) \subseteq r BY <1>1 DEF NextIn
<1>3. \A i \in r, j \in r : UsageIn(events, s, i, j) = UsageIn(events, r, i, j) BY SameBefore
<1>4. ASSUME NEW i \in r, NextIn(events, s, i) = NextIn(events, r, i)
      PROVE  UsageFrom(events, s, i) = UsageFrom(events, r, i)
  <2>1. \A j \in NextIn(events, r, i) : UsageIn(events, s, i, j) = UsageIn(events, r, i, j) BY <1>2, <1>3
  <2> QED BY <1>4, <2>1 DEF UsageFrom
<1>5. /\ ExpectedIn(events, r) = UNION {UsageFrom(events, r, i) : i \in SwitchesIn(events, r)}
      /\ ExpectedIn(events, s) = UNION {UsageFrom(events, s, i) : i \in SwitchesIn(events, s)}
  BY DEF ExpectedIn, UsageFrom
<1>6. CASE x \notin EndsIn(events, s)
  <2>1. EndsIn(events, s) = EndsIn(events, r) /\ \A i : NextIn(events, s, i) = NextIn(events, r, i)
    BY <1>6, NextAfterOther
  <2>2. SwitchesIn(events, s) = SwitchesIn(events, r) BY <2>1 DEF SwitchesIn
  <2>3. \A i \in SwitchesIn(events, r) : UsageFrom(events, s, i) = UsageFrom(events, r, i) BY <1>1, <1>4, <2>1
  <2> QED BY <1>5, <1>6, <2>2, <2>3
<1>7. CASE x \in EndsIn(events, s)
  <2>1. EndsIn(events, s) = EndsIn(events, r) \cup {x} /\ NextIn(events, s, x) = {} BY <1>7, NextAfterEnd
  <2>2. SwitchesIn(events, s) \subseteq SwitchesIn(events, r) \cup {x}
        /\ SwitchesIn(events, r) \subseteq SwitchesIn(events, s)
    BY <2>1 DEF SwitchesIn
  <2>3. UsageFrom(events, s, x) = {} BY <2>1 DEF UsageFrom
  <2>4. ASSUME NEW i \in SwitchesIn(events, r), ~LastEnd(events, r, i)
        PROVE  UsageFrom(events, s, i) = UsageFrom(events, r, i)
    <3>1. NextIn(events, s, i) = NextIn(events, r, i) BY <1>1, <1>7, <2>4, NextAfterEnd
    <3> QED BY <1>1, <1>4, <3>1
  <2>5. ASSUME NEW i \in SwitchesIn(events, r), LastEnd(events, r, i)
        PROVE  UsageFrom(events, r, i) = {} /\ UsageFrom(events, s, i) = UsageIn(events, s, i, x)
    <3>1. NextIn(events, r, i) = {} /\ NextIn(events, s, i) = {x} BY <1>1, <1>7, <2>5, NextAfterEnd
    <3> QED BY <3>1 DEF UsageFrom
  <2>6. ASSUME NEW p \in ExpectedIn(events, s)
        PROVE  p \in ExpectedIn(events, r) \/ \E i \in OpenEnd(events, r) : p \in UsageIn(events, s, i, x)
    <3>1. PICK i \in SwitchesIn(events, s) : p \in UsageFrom(events, s, i) BY <1>5
    <3>2. i \in SwitchesIn(events, r) BY <2>2, <2>3, <3>1
    <3>3. CASE LastEnd(events, r, i) BY <2>5, <3>1, <3>2, <3>3 DEF OpenEnd
    <3>4. CASE ~LastEnd(events, r, i) BY <1>5, <2>4, <3>1, <3>2, <3>4
    <3> QED BY <3>3, <3>4
  <2>7. ASSUME NEW p \in ExpectedIn(events, r) PROVE p \in ExpectedIn(events, s)
    <3>1. PICK i \in SwitchesIn(events, r) : p \in UsageFrom(events, r, i) BY <1>5
    <3>2. p \in UsageFrom(events, s, i) /\ i \in SwitchesIn(events, s) BY <2>2, <2>4, <2>5, <3>1
    <3> QED BY <1>5, <3>2
  <2>8. ASSUME NEW i \in OpenEnd(events, r), NEW p \in UsageIn(events, s, i, x) PROVE p \in ExpectedIn(events, s)
    <3>1. i \in SwitchesIn(events, s) /\ p \in UsageFrom(events, s, i) BY <2>2, <2>5, <2>8 DEF OpenEnd
    <3> QED BY <1>5, <3>1
  <2> QED BY <1>7, <2>6, <2>7, <2>8
<1> QED BY <1>6, <1>7

-----------------------------------------------------------------------------
(* What the fold of the events at some positions has come to: the segments *)
(* they stand for, none overlapping another or reaching past the last end, *)
(* the segment the last of them opened, and the last heartbeat.            *)
Apart(p, q) == p = q \/ p.to <= q.from \/ q.to <= p.from
CurrentIs(events, s, current) ==
    /\ (\A i : ~LastEnd(events, s, i)) => current = Nothing
    /\ \A i : LastEnd(events, s, i) =>
          current = IF events[i].type = "switch"
                    THEN [open |-> TRUE, from |-> events[i].at, quantity |-> events[i].quantity]
                    ELSE Nothing
Beats(events, s) == {h \in s : events[h].type = "heartbeat"}
HeartbeatIs(events, s, beat) ==
    /\ Beats(events, s) = {} => beat = NoTime
    /\ Beats(events, s) # {} => \E h \in Beats(events, s) :
          beat = events[h].at /\ \A g \in Beats(events, s) : events[g].at <= beat
IsProjection(p) == p = [segments |-> p.segments, current |-> p.current, heartbeat |-> p.heartbeat]
ProjectionOf(events, s, p) ==
    /\ IsProjection(p)
    /\ p.segments = ExpectedIn(events, s) /\ p.segments \subseteq Segment
    /\ \A u, v \in p.segments : Apart(u, v)
    /\ \A u \in p.segments : \E i \in EndsIn(events, s) : u.to <= events[i].at
    /\ CurrentIs(events, s, p.current) /\ HeartbeatIs(events, s, p.heartbeat)

LEMMA LastEndAfter ==
    ASSUME NEW events, NEW r, NEW x, NEW s, Extends(events, r, x, s)
    PROVE  /\ x \notin EndsIn(events, s) => \A i : LastEnd(events, s, i) <=> LastEnd(events, r, i)
           /\ x \in EndsIn(events, s) => \A i : LastEnd(events, s, i) <=> i = x
<1>1. EndsIn(events, r) \subseteq r /\ r \subseteq DOMAIN events /\ x \in DOMAIN events /\ x \notin r
      /\ events \in Seq(LedgerEvent)
  BY DEF EndsIn, Extends
<1>2. CASE x \notin EndsIn(events, s)
  <2>1. EndsIn(events, s) = EndsIn(events, r) BY <1>2, NextAfterOther
  <2> QED BY <1>2, <2>1 DEF LastEnd
<1>3. CASE x \in EndsIn(events, s)
  <2>1. EndsIn(events, s) = EndsIn(events, r) \cup {x} BY <1>3, NextAfterEnd
  <2>2. \A j \in EndsIn(events, r) : FoldsBefore(events, j, x) /\ ~FoldsBefore(events, x, j)
    <3> TAKE j \in EndsIn(events, r)
    <3>1. FoldsBefore(events, j, x) /\ j \in DOMAIN events BY <1>1 DEF Extends
    <3> QED BY <1>1, <3>1, OrderIsTotal
  <2>3. LastEnd(events, s, x) BY <2>1, <2>2 DEF LastEnd, IsLast
  <2>4. \A i : LastEnd(events, s, i) => i = x BY <1>1, <2>1, <2>2 DEF LastEnd, IsLast
  <2> QED BY <1>3, <2>3, <2>4
<1> QED BY <1>2, <1>3

LEMMA BeatsAfter ==
    ASSUME NEW events, NEW r, NEW x, NEW s, Extends(events, r, x, s), NEW beat, HeartbeatIs(events, r, beat)
    PROVE  HeartbeatIs(events, s, IF events[x].type = "heartbeat" THEN events[x].at ELSE beat)
<1>1. \A j \in r : events[j].at <= events[x].at
  <2>1. r \subseteq DOMAIN events /\ x \in DOMAIN events /\ events \in Seq(LedgerEvent) BY DEF Extends
  <2>2. \A j \in r : FoldsBefore(events, j, x) BY DEF Extends
  <2> QED BY <2>1, <2>2, OrderIsTotal
<1>2. CASE events[x].type = "heartbeat"
  <2>1. Beats(events, s) = Beats(events, r) \cup {x} BY <1>2 DEF Beats, Extends
  <2>2. Beats(events, r) \subseteq r BY DEF Beats
  <2>3. events[x].at <= events[x].at
    <3>1. x \in DOMAIN events /\ events \in Seq(LedgerEvent) BY DEF Extends
    <3>2. events[x].at \in Nat BY <3>1, EnvelopeAssumption
    <3> QED BY <3>2
  <2>4. \A g \in Beats(events, s) : events[g].at <= events[x].at BY <1>1, <2>1, <2>2, <2>3
  <2> QED BY <1>2, <2>1, <2>4 DEF HeartbeatIs
<1>3. CASE events[x].type # "heartbeat"
  <2>1. Beats(events, s) = Beats(events, r) BY <1>3 DEF Beats, Extends
  <2> QED BY <1>3, <2>1 DEF HeartbeatIs
<1> QED BY <1>2, <1>3

(* What an end adds: the pieces of the open segment, up to the last        *)
(* observation confirmed when the end is a loss.                           *)
LostAt(events, r, x, p, until) ==
    IF events[x].type # "expired" THEN until = events[x].at
    ELSE LostFrom(p, events[x]) # NoTime /\ until = Larger(LostFrom(p, events[x]), p.current.from)
NewPieces(p, x, events, until) ==
    Piece(p, p.current.from, until, "confirmed") \cup Piece(p, until, events[x].at, "uncertain")

LEMMA OpenIs ==
    ASSUME NEW events, NEW r, NEW p, events \in Seq(LedgerEvent), r \in SUBSET DOMAIN events,
           CurrentIs(events, r, p.current)
    PROVE  /\ ~p.current.open => OpenEnd(events, r) = {}
           /\ p.current.open => \E i \in r : /\ LastEnd(events, r, i) /\ OpenEnd(events, r) = {i}
                                             /\ p.current.from = events[i].at /\ p.current.quantity = events[i].quantity
<1>1. EndsIn(events, r) \subseteq r BY DEF EndsIn
<1>2. \A i : LastEnd(events, r, i) => i \in r /\ i \in EndsIn(events, r) BY <1>1 DEF LastEnd, IsLast
<1>3. ASSUME NEW i, NEW j, LastEnd(events, r, i), LastEnd(events, r, j) PROVE i = j
  <2>1. i \in DOMAIN events /\ j \in DOMAIN events BY <1>2, <1>3
  <2>2. i # j => FoldsBefore(events, i, j) /\ FoldsBefore(events, j, i) BY <1>2, <1>3 DEF LastEnd, IsLast
  <2> QED BY <2>1, <2>2, OrderIsTotal
<1>4. ~Nothing.open BY DEF Nothing
<1>5. ASSUME ~p.current.open PROVE OpenEnd(events, r) = {}
  <2>1. ASSUME NEW i, LastEnd(events, r, i), events[i].type = "switch" PROVE FALSE
    <3>1. p.current = [open |-> TRUE, from |-> events[i].at, quantity |-> events[i].quantity]
      BY <2>1 DEF CurrentIs
    <3>2. p.current.open BY <3>1
    <3> QED BY <1>5, <3>2
  <2> QED BY <2>1 DEF OpenEnd, SwitchesIn
<1>6. ASSUME p.current.open
      PROVE  \E i \in r : /\ LastEnd(events, r, i) /\ OpenEnd(events, r) = {i}
                          /\ p.current.from = events[i].at /\ p.current.quantity = events[i].quantity
  <2>1. PICK i : LastEnd(events, r, i) BY <1>4, <1>6 DEF CurrentIs
  <2>2. events[i].type = "switch" BY <1>4, <1>6, <2>1 DEF CurrentIs
  <2>3. p.current = [open |-> TRUE, from |-> events[i].at, quantity |-> events[i].quantity]
    BY <2>1, <2>2 DEF CurrentIs
  <2>4. i \in SwitchesIn(events, r) BY <1>2, <2>1, <2>2 DEF SwitchesIn
  <2>5. OpenEnd(events, r) = {i} BY <1>3, <2>1, <2>4 DEF OpenEnd
  <2> QED BY <1>2, <2>1, <2>3, <2>5
<1> QED BY <1>5, <1>6

LEMMA UntilIs ==
    ASSUME NEW events, NEW r, NEW x, NEW s, NEW p, Extends(events, r, x, s), x \in EndsIn(events, s),
           HeartbeatIs(events, r, p.heartbeat), NEW i \in r, p.current.from = events[i].at
    PROVE  /\ UntilIn(events, s, i, x) = {t \in Nat : LostAt(events, r, x, p, t)}
           /\ \A t \in UntilIn(events, s, i, x) : events[i].at <= t /\ t <= events[x].at
           /\ \A t : LostAt(events, r, x, p, t) => t \in Nat
<1>1. /\ events \in Seq(LedgerEvent) /\ r \subseteq DOMAIN events /\ x \in DOMAIN events /\ s = r \cup {x}
      /\ \A j \in r : FoldsBefore(events, j, x)
  BY DEF Extends
<1>2. \A j \in DOMAIN events : events[j].at \in Nat /\ events[j].last \in {NoTime} \cup 0..events[j].at
  BY <1>1, EnvelopeAssumption
<1>3. \A j \in r : events[j].at <= events[x].at BY <1>1, OrderIsTotal
<1>4. CASE events[x].type # "expired"
  <2>1. UntilIn(events, s, i, x) = {events[x].at} BY <1>4 DEF UntilIn
  <2>2. \A t : LostAt(events, r, x, p, t) <=> t = events[x].at BY <1>4 DEF LostAt
  <2>3. events[x].at \in Nat /\ events[i].at <= events[x].at BY <1>1, <1>2, <1>3
  <2>4. {t \in Nat : LostAt(events, r, x, p, t)} = {events[x].at} BY <2>2, <2>3
  <2> QED BY <2>1, <2>2, <2>3, <2>4
<1>5. CASE events[x].type = "expired"
  <2> DEFINE from == events[i].at  seen == SeenIn(events, s, x)  lost == LostFrom(p, events[x])
  <2>1. UntilIn(events, s, i, x) = {t \in seen \cup {from} : seen # {} /\ \A u \in seen \cup {from} : u <= t}
    BY <1>5 DEF UntilIn
  <2>2. \A t : LostAt(events, r, x, p, t) <=> lost # NoTime /\ t = Larger(lost, from) BY <1>5 DEF LostAt
  <2>3. \/ seen = {} /\ lost = NoTime
        \/ lost \in seen /\ lost \in Nat /\ seen \subseteq Nat /\ lost <= events[x].at /\ \A u \in seen : u <= lost
    <3>1. CASE events[x].last # NoTime
      <4>1. seen = {events[x].last} /\ lost = events[x].last BY <3>1 DEF SeenIn, LostFrom
      <4>2. events[x].last \in Nat /\ events[x].last <= events[x].at BY <1>1, <1>2, <3>1
      <4> HIDE DEF seen, lost
      <4> QED BY <4>1, <4>2
    <3>2. CASE events[x].last = NoTime
      <4>1. BeatsIn(events, s, x) = Beats(events, r) BY <1>1, <1>5 DEF BeatsIn, Beats
      <4>2. seen = {events[h].at : h \in Beats(events, r)} /\ lost = p.heartbeat
        BY <3>2, <4>1 DEF SeenIn, LostFrom
      <4>3. Beats(events, r) \subseteq r BY DEF Beats
      <4> HIDE DEF seen, lost
      <4>4. CASE Beats(events, r) = {} BY <4>2, <4>4 DEF HeartbeatIs
      <4>5. CASE Beats(events, r) # {}
        <5>1. PICK h \in Beats(events, r) :
                  p.heartbeat = events[h].at /\ \A g \in Beats(events, r) : events[g].at <= p.heartbeat
          BY <4>5 DEF HeartbeatIs
        <5> QED BY <1>1, <1>2, <1>3, <4>2, <4>3, <5>1
      <4> QED BY <4>4, <4>5
    <3> QED BY <3>1, <3>2
  <2>4. from \in Nat /\ from <= events[x].at /\ events[x].at \in Nat BY <1>1, <1>2, <1>3
  <2> HIDE DEF seen, lost, from
  <2>5. CASE seen = {} /\ lost = NoTime BY <2>1, <2>2, <2>5
  <2>6. CASE lost \in seen /\ lost \in Nat /\ seen \subseteq Nat /\ lost <= events[x].at /\ \A u \in seen : u <= lost
    <3> DEFINE t == Larger(lost, from)
    <3>1. t \in Nat /\ t \in seen \cup {from} /\ from <= t /\ lost <= t /\ t <= events[x].at
      BY <2>4, <2>6 DEF Larger
    <3>2. \A u \in seen \cup {from} : u \in Nat /\ u <= t
      <4> HIDE DEF t
      <4> TAKE u \in seen \cup {from}
      <4>1. CASE u \in seen
        <5>1. u \in Nat /\ u <= lost BY <2>6, <4>1
        <5> QED BY <2>6, <3>1, <5>1
      <4>2. CASE u = from BY <2>4, <3>1, <4>2
      <4> QED BY <4>1, <4>2
    <3> HIDE DEF t
    <3>3. UntilIn(events, s, i, x) = {t}
      <4>1. t \in UntilIn(events, s, i, x) BY <2>1, <2>6, <3>1, <3>2
      <4>2. ASSUME NEW u \in UntilIn(events, s, i, x) PROVE u = t
        <5>1. u \in seen \cup {from} /\ t <= u BY <2>1, <3>1, <4>2
        <5>2. u \in Nat /\ u <= t BY <3>2, <5>1
        <5> QED BY <3>1, <5>1, <5>2
      <4> QED BY <4>1, <4>2
    <3>4. lost # NoTime BY <2>6 DEF NoTime
    <3>5. {u \in Nat : LostAt(events, r, x, p, u)} = {t} BY <2>2, <3>1, <3>4 DEF t
    <3>6. \A u : LostAt(events, r, x, p, u) => u = t BY <2>2 DEF t
    <3> QED BY <3>1, <3>3, <3>5, <3>6 DEF from
  <2> QED BY <2>3, <2>5, <2>6
<1> QED BY <1>4, <1>5

Untils(events, r, x, p) == {t \in Nat : LostAt(events, r, x, p, t)}
PiecesUntil(p, x, events, untils) == UNION {NewPieces(p, x, events, t) : t \in untils}
Added(events, r, x, s) == UNION {UsageIn(events, s, i, x) : i \in OpenEnd(events, r)}

LEMMA AddedIs ==
    ASSUME NEW events, NEW r, NEW x, NEW s, NEW p, Extends(events, r, x, s), x \in EndsIn(events, s),
           CurrentIs(events, r, p.current), HeartbeatIs(events, r, p.heartbeat)
    PROVE  /\ ~p.current.open => Added(events, r, x, s) = {}
           /\ p.current.open =>
                 Added(events, r, x, s) = PiecesUntil(p, x, events, Untils(events, r, x, p))
<1>1. events \in Seq(LedgerEvent) /\ r \in SUBSET DOMAIN events /\ x \in DOMAIN events BY DEF Extends
<1>2. CASE ~p.current.open
  <2>1. OpenEnd(events, r) = {} BY <1>1, <1>2, OpenIs
  <2> QED BY <1>2, <2>1 DEF Added
<1>3. CASE p.current.open
  <2>1. PICK i \in r : /\ LastEnd(events, r, i) /\ OpenEnd(events, r) = {i}
                       /\ p.current.from = events[i].at /\ p.current.quantity = events[i].quantity
    BY <1>1, <1>3, OpenIs
  <2>2. UntilIn(events, s, i, x) = {t \in Nat : LostAt(events, r, x, p, t)} BY <2>1, UntilIs
  <2>3. \A t : PiecesTo(events, i, x, t) = NewPieces(p, x, events, t)
    BY <1>3, <2>1 DEF PiecesTo, NewPieces, Piece
  <2>4. Added(events, r, x, s) = UsageIn(events, s, i, x) BY <2>1 DEF Added
  <2> QED BY <1>3, <2>2, <2>3, <2>4 DEF UsageIn, Untils, PiecesUntil
<1> QED BY <1>2, <1>3

Whole(p, a, b, c) == p = [segments |-> a, current |-> b, heartbeat |-> c]
Ended(a, n, c) == [segments |-> a, current |-> n, heartbeat |-> c]

Switches(p, d, n) == [p EXCEPT !.segments = @ \cup d, !.current = n]
Expires(p, d, n) == [p EXCEPT !.current = n, !.segments = @ \cup d]
Forgets(p, n) == [p EXCEPT !.current = n, !.segments = @]

LEMMA Updated ==
    ASSUME NEW p, NEW a, NEW b, NEW c, Whole(p, a, b, c), NEW d, NEW n
    PROVE  /\ Switches(p, d, n) = Ended(a \cup d, n, c)
           /\ Expires(p, d, n) = Ended(a \cup d, n, c)
           /\ Forgets(p, n) = Ended(a, n, c)
           /\ p.segments = a /\ p.current = b /\ p.heartbeat = c
<1> DEFINE more == a \cup d
           q == [p EXCEPT !.segments = more]
           r == [p EXCEPT !.current = n]
<1>1. p.segments = a /\ p.current = b /\ p.heartbeat = c BY DEF Whole
<1> HIDE DEF more
<1>2. q = [segments |-> more, current |-> b, heartbeat |-> c] BY DEF Whole
<1>3. r = [segments |-> a, current |-> n, heartbeat |-> c] BY DEF Whole
<1>4. /\ [p EXCEPT !.segments = more, !.current = n] = [q EXCEPT !.current = n]
      /\ [p EXCEPT !.current = n, !.segments = more] = [r EXCEPT !.segments = more]
      /\ [p EXCEPT !.current = n, !.segments = a] = [r EXCEPT !.segments = a]
  OBVIOUS
<1> HIDE DEF q, r
<1>5. [q EXCEPT !.current = n] = [segments |-> more, current |-> n, heartbeat |-> c] BY <1>2
<1>6. [r EXCEPT !.segments = more] = [segments |-> more, current |-> n, heartbeat |-> c] BY <1>3
<1>7. [r EXCEPT !.segments = a] = [segments |-> a, current |-> n, heartbeat |-> c] BY <1>3
<1>8. p.segments \cup d = more BY <1>1 DEF more
<1> QED BY <1>1, <1>4, <1>5, <1>6, <1>7, <1>8 DEF more, Ended, Switches, Expires, Forgets

LEMMA FoldsEnd ==
    ASSUME NEW events, NEW r, NEW x, NEW s, NEW p, Extends(events, r, x, s), x \in EndsIn(events, s),
           IsProjection(p), CurrentIs(events, r, p.current), HeartbeatIs(events, r, p.heartbeat)
    PROVE  FoldEvent(p, events[x]) =
              [segments |-> p.segments \cup Added(events, r, x, s),
               current |-> IF events[x].type = "switch"
                           THEN [open |-> TRUE, from |-> events[x].at, quantity |-> events[x].quantity] ELSE Nothing,
               heartbeat |-> p.heartbeat]
<1> DEFINE e == events[x]  lost == LostFrom(p, e)  cut == Larger(lost, p.current.from)
           added == Added(events, r, x, s)
<1>1. x \in DOMAIN events /\ e.at \in Nat BY EnvelopeAssumption DEF Extends
<1>2. CASE e.type # "expired"
  <2>1. added = Piece(p, p.current.from, e.at, "confirmed")
    <3>1. CASE ~p.current.open BY <3>1, AddedIs DEF Piece
    <3>2. CASE p.current.open
      <4>1. Untils(events, r, x, p) = {e.at} BY <1>1, <1>2 DEF LostAt, Untils
      <4>2. added = NewPieces(p, x, events, e.at) BY <3>2, <4>1, AddedIs DEF PiecesUntil
      <4>3. Piece(p, e.at, e.at, "uncertain") = {} BY <1>1 DEF Piece
      <4> QED BY <4>2, <4>3 DEF NewPieces
    <3> QED BY <3>1, <3>2
  <2>2. e.type \in {"switch", "close"} BY <1>2 DEF EndsIn
  <2> HIDE DEF added, e
  <2>3. CASE e.type = "switch"
    <3>0. PICK a, b, c : Whole(p, a, b, c) BY DEF IsProjection, Whole
    <3>1. FoldEvent(p, e) = FoldSwitch(p, e) BY <2>3 DEF FoldEvent
    <3>2. FoldSwitch(p, e) = [segments |-> p.segments \cup added,
                              current |-> [open |-> TRUE, from |-> e.at, quantity |-> e.quantity],
                              heartbeat |-> p.heartbeat]
      <4> DEFINE current == [open |-> TRUE, from |-> e.at, quantity |-> e.quantity]
      <4>1. FoldSwitch(p, e) = Switches(p, added, current) BY <2>1 DEF FoldSwitch, Switches
      <4> HIDE DEF current
      <4>2. Switches(p, added, current) = Ended(a \cup added, current, c)
        BY <3>0, Updated
      <4>3. p.segments = a /\ p.heartbeat = c BY <3>0, Updated
      <4> QED BY <4>1, <4>2, <4>3 DEF Ended, current
    <3> QED BY <2>3, <3>1, <3>2 DEF added, e
  <2>4. CASE e.type = "close"
    <3>0. PICK a, b, c : Whole(p, a, b, c) BY DEF IsProjection, Whole
    <3>1. FoldEvent(p, e) = FoldClose(p, e) BY <2>4 DEF FoldEvent
    <3>2. FoldClose(p, e) = [segments |-> p.segments \cup added, current |-> Nothing, heartbeat |-> p.heartbeat]
      <4> DEFINE current == Nothing
      <4>1. FoldClose(p, e) = Switches(p, added, current) BY <2>1 DEF FoldClose, Switches
      <4> HIDE DEF current
      <4>2. Switches(p, added, current) = Ended(a \cup added, current, c)
        BY <3>0, Updated
      <4>3. p.segments = a /\ p.heartbeat = c BY <3>0, Updated
      <4> QED BY <4>1, <4>2, <4>3 DEF Ended, current
    <3> QED BY <2>4, <3>1, <3>2 DEF added, e
  <2> QED BY <2>2, <2>3, <2>4
<1>3. CASE e.type = "expired"
  <2>1. added = IF lost = NoTime THEN {}
                ELSE Piece(p, p.current.from, cut, "confirmed") \cup Piece(p, cut, e.at, "uncertain")
    <3>1. CASE ~p.current.open BY <3>1, AddedIs DEF Piece
    <3>2. CASE p.current.open /\ lost = NoTime
      <4>1. Untils(events, r, x, p) = {} BY <1>3, <3>2 DEF LostAt, Untils
      <4>2. added = PiecesUntil(p, x, events, {}) BY <3>2, <4>1, AddedIs
      <4> QED BY <3>2, <4>2 DEF PiecesUntil
    <3>3. CASE p.current.open /\ lost # NoTime
      <4>1. LostAt(events, r, x, p, cut) BY <1>3, <3>3 DEF LostAt
      <4>2. cut \in Nat
        <5>1. r \in SUBSET DOMAIN events /\ events \in Seq(LedgerEvent) BY DEF Extends
        <5> HIDE DEF cut, lost, e, added
        <5>2. PICK i \in r : /\ LastEnd(events, r, i) /\ OpenEnd(events, r) = {i}
                             /\ p.current.from = events[i].at /\ p.current.quantity = events[i].quantity
          BY <3>3, <5>1, OpenIs
        <5> QED BY <4>1, <5>2, UntilIs
      <4>3. Untils(events, r, x, p) = {cut} BY <1>3, <3>3, <4>2 DEF LostAt, Untils
      <4>4. added = NewPieces(p, x, events, cut)
        <5> HIDE DEF cut
        <5> QED BY <3>3, <4>3, AddedIs DEF PiecesUntil
      <4> QED BY <3>3, <4>4 DEF NewPieces
    <3> QED BY <3>1, <3>2, <3>3
  <2> HIDE DEF added, lost, cut, e
  <2>2. FoldEvent(p, e) = FoldExpired(p, e) BY <1>3 DEF FoldEvent
  <2>3. p.segments \cup added = IF lost = NoTime THEN p.segments
                ELSE p.segments \cup Piece(p, p.current.from, cut, "confirmed") \cup Piece(p, cut, e.at, "uncertain")
    BY <2>1
  <2>4. FoldExpired(p, e) = [segments |-> p.segments \cup added, current |-> Nothing, heartbeat |-> p.heartbeat]
    <3>1. PICK a, b, c : Whole(p, a, b, c) BY DEF IsProjection, Whole
    <3>2. p.segments = a /\ p.heartbeat = c BY <3>1, Updated
    <3>3. CASE lost = NoTime
      <4>1. FoldExpired(p, e) = Forgets(p, Nothing) BY <3>3 DEF FoldExpired, Forgets, lost
      <4>2. p.segments \cup added = a BY <2>3, <3>2, <3>3
      <4> QED BY <3>1, <3>2, <4>1, <4>2, Updated DEF Ended
    <3>4. CASE lost # NoTime
      <4>1. FoldExpired(p, e) = Expires(p, added, Nothing)
        BY <2>3, <3>4 DEF FoldExpired, Expires, lost, cut
      <4>2. Expires(p, added, Nothing)
               = Ended(a \cup added, Nothing, c)
        BY <3>1, Updated
      <4> QED BY <3>2, <4>1, <4>2 DEF Ended
    <3> QED BY <3>3, <3>4
  <2> QED BY <1>3, <2>2, <2>4 DEF added, e
<1> QED BY <1>2, <1>3

(* The pieces an end adds lie between the switch and that end. *)
LEMMA AddedApart ==
    ASSUME NEW events, NEW r, NEW x, NEW s, NEW p, Extends(events, r, x, s), x \in EndsIn(events, s),
           ProjectionOf(events, r, p), NEW u \in Added(events, r, x, s)
    PROVE  /\ u \in Segment /\ u.to <= events[x].at
           /\ \A v \in p.segments \cup Added(events, r, x, s) : Apart(u, v)
<1>1. CurrentIs(events, r, p.current) /\ HeartbeatIs(events, r, p.heartbeat) /\ p.segments \subseteq Segment
  BY DEF ProjectionOf
<1>2. /\ events \in Seq(LedgerEvent) /\ r \in SUBSET DOMAIN events /\ x \in DOMAIN events
  BY DEF Extends
<1>3. p.current.open BY <1>1, AddedIs
<1>4. PICK i \in r : /\ LastEnd(events, r, i) /\ OpenEnd(events, r) = {i}
                     /\ p.current.from = events[i].at /\ p.current.quantity = events[i].quantity
  BY <1>1, <1>2, <1>3, OpenIs
<1>5. /\ UntilIn(events, s, i, x) = {t \in Nat : LostAt(events, r, x, p, t)}
      /\ \A t \in UntilIn(events, s, i, x) : events[i].at <= t /\ t <= events[x].at
      /\ \A t : LostAt(events, r, x, p, t) => t \in Nat
  BY <1>1, <1>4, UntilIs
<1>6. PICK t \in Nat : LostAt(events, r, x, p, t) /\ Added(events, r, x, s) = NewPieces(p, x, events, t)
  <2>1. Added(events, r, x, s) = PiecesUntil(p, x, events, Untils(events, r, x, p))
    BY <1>1, <1>3, AddedIs
  <2>2. PICK t \in Nat : LostAt(events, r, x, p, t) /\ u \in NewPieces(p, x, events, t)
    BY <2>1 DEF PiecesUntil, Untils
  <2>3. \A w \in Nat : LostAt(events, r, x, p, w) => w = t BY <2>2 DEF LostAt
  <2>4. Untils(events, r, x, p) = {t} BY <2>2, <2>3 DEF Untils
  <2> QED BY <2>1, <2>2, <2>4 DEF PiecesUntil
<1>7. events[i].at <= t /\ t <= events[x].at BY <1>5, <1>6
<1>8. events[i].at \in Nat /\ events[i].quantity \in Nat /\ events[x].at \in Nat BY <1>2, <1>4, EnvelopeAssumption
<1> DEFINE one == [from |-> events[i].at, to |-> t, quantity |-> events[i].quantity, certainty |-> "confirmed"]
           two == [from |-> t, to |-> events[x].at, quantity |-> events[i].quantity, certainty |-> "uncertain"]
<1>9. Added(events, r, x, s) \subseteq {one, two} BY <1>4, <1>6 DEF NewPieces, Piece
<1>10. /\ one \in Segment /\ two \in Segment /\ one.to = t /\ two.to = events[x].at
       /\ one.from = events[i].at /\ two.from = t
  BY <1>8 DEF Segment
<1> HIDE DEF one, two
<1>11. u \in {one, two} BY <1>9
<1>12. u \in Segment /\ u.to <= events[x].at /\ events[i].at <= u.from BY <1>7, <1>8, <1>10, <1>11
<1>13. \A v \in {one, two} : Apart(u, v)
  <2>1. one.to <= two.from BY <1>8, <1>10
  <2> QED BY <1>11, <2>1 DEF Apart
<1>14. ASSUME NEW v \in p.segments PROVE Apart(u, v)
  <2>1. PICK j \in EndsIn(events, r) : v.to <= events[j].at BY DEF ProjectionOf
  <2>2. events[j].at <= events[i].at
    <3>1. j = i \/ FoldsBefore(events, j, i) BY <1>4 DEF LastEnd, IsLast
    <3>2. j \in DOMAIN events BY <1>2 DEF EndsIn
    <3> QED BY <1>2, <1>4, <1>8, <3>1, <3>2, OrderIsTotal
  <2>3. v.to \in Int /\ events[j].at \in Nat /\ u.from \in Int
    <3>1. j \in DOMAIN events BY <1>2 DEF EndsIn
    <3>2. events[j].at \in Nat BY <1>2, <3>1, EnvelopeAssumption
    <3> QED BY <1>1, <1>12, <3>2 DEF Segment
  <2>4. v.to <= u.from BY <1>8, <1>12, <2>1, <2>2, <2>3
  <2> QED BY <2>4 DEF Apart
<1> QED BY <1>9, <1>12, <1>13, <1>14

LEMMA FoldStep ==
    ASSUME NEW events, NEW r, NEW x, NEW s, NEW p, Extends(events, r, x, s), ProjectionOf(events, r, p)
    PROVE  ProjectionOf(events, s, FoldEvent(p, events[x]))
<1> DEFINE e == events[x]  q == FoldEvent(p, e)  added == Added(events, r, x, s)
<1>1. /\ IsProjection(p) /\ p.segments = ExpectedIn(events, r) /\ p.segments \subseteq Segment
      /\ \A u, v \in p.segments : Apart(u, v)
      /\ \A u \in p.segments : \E i \in EndsIn(events, r) : u.to <= events[i].at
      /\ CurrentIs(events, r, p.current) /\ HeartbeatIs(events, r, p.heartbeat)
  BY DEF ProjectionOf
<1>2. HeartbeatIs(events, s, IF e.type = "heartbeat" THEN e.at ELSE p.heartbeat) BY <1>1, BeatsAfter
<1>3. CASE x \in EndsIn(events, s)
  <2> DEFINE current == IF e.type = "switch" THEN [open |-> TRUE, from |-> e.at, quantity |-> e.quantity] ELSE Nothing
  <2>1. q = [segments |-> p.segments \cup added, current |-> current, heartbeat |-> p.heartbeat]
    BY <1>1, <1>3, FoldsEnd
  <2> HIDE DEF q, current, added
  <2>2. /\ IsProjection(q) /\ q.segments = p.segments \cup added
        /\ q.current = current /\ q.heartbeat = p.heartbeat
    BY <2>1 DEF IsProjection
  <2>3. q.segments = ExpectedIn(events, s) BY <1>1, <1>3, <2>2, ExpectedGrows DEF Added, added
  <2>4. \A u \in added : /\ u \in Segment /\ u.to <= e.at
                         /\ \A v \in p.segments \cup added : Apart(u, v)
    BY <1>3, AddedApart DEF added
  <2>5. \A u, v : Apart(u, v) => Apart(v, u) BY DEF Apart
  <2>6. \A u, v \in q.segments : Apart(u, v) BY <1>1, <2>2, <2>4, <2>5
  <2>7. q.segments \subseteq Segment BY <1>1, <2>2, <2>4
  <2>8. \A u \in q.segments : \E i \in EndsIn(events, s) : u.to <= events[i].at
    <3>1. EndsIn(events, s) = EndsIn(events, r) \cup {x} BY <1>3, NextAfterEnd
    <3> QED BY <1>1, <1>3, <2>2, <2>4, <3>1
  <2>9. CurrentIs(events, s, q.current)
    <3>1. \A i : LastEnd(events, s, i) <=> i = x BY <1>3, LastEndAfter
    <3>2. LastEnd(events, s, x) BY <3>1
    <3>3. CASE e.type = "switch"
      <4>1. q.current = [open |-> TRUE, from |-> e.at, quantity |-> e.quantity] BY <2>2, <3>3 DEF current
      <4>2. \A i : LastEnd(events, s, i) => events[i].type = "switch"
                       /\ q.current = [open |-> TRUE, from |-> events[i].at, quantity |-> events[i].quantity]
        BY <3>1, <3>3, <4>1
      <4> QED BY <3>2, <4>2 DEF CurrentIs
    <3>4. CASE e.type # "switch"
      <4>1. q.current = Nothing BY <2>2, <3>4 DEF current
      <4>2. \A i : LastEnd(events, s, i) => events[i].type # "switch" BY <3>1, <3>4
      <4> QED BY <4>1, <4>2 DEF CurrentIs
    <3> QED BY <3>3, <3>4
  <2>10. HeartbeatIs(events, s, q.heartbeat)
    <3>1. e.type # "heartbeat" BY <1>3 DEF EndsIn
    <3> QED BY <1>2, <2>2, <3>1
  <2>11. ProjectionOf(events, s, q) BY <2>2, <2>3, <2>6, <2>7, <2>8, <2>9, <2>10 DEF ProjectionOf
  <2> QED BY <2>11 DEF q
<1>4. CASE x \notin EndsIn(events, s)
  <2>1. /\ IsProjection(q) /\ q.segments = p.segments /\ q.current = p.current
        /\ q.heartbeat = IF e.type = "heartbeat" THEN e.at ELSE p.heartbeat
    <3>1. e.type \notin {"switch", "close", "expired"} BY <1>4 DEF EndsIn, Extends
    <3> HIDE DEF e
    <3>2. CASE e.type = "heartbeat"
      <4>1. q = [p EXCEPT !.heartbeat = e.at] BY <3>2 DEF FoldEvent
      <4>2. PICK a, b, c : p = [segments |-> a, current |-> b, heartbeat |-> c] BY <1>1 DEF IsProjection
      <4>3. q = [segments |-> a, current |-> b, heartbeat |-> e.at] BY <4>1, <4>2
      <4> HIDE DEF q
      <4> QED BY <3>2, <4>2, <4>3 DEF IsProjection
    <3>3. CASE e.type # "heartbeat"
      <4>1. q = p BY <3>1, <3>3 DEF FoldEvent
      <4> QED BY <1>1, <3>3, <4>1
    <3> QED BY <3>2, <3>3
  <2> HIDE DEF q
  <2>2. ExpectedIn(events, s) = ExpectedIn(events, r) BY <1>4, ExpectedGrows
  <2>3. EndsIn(events, s) = EndsIn(events, r) BY <1>4, NextAfterOther
  <2>4. \A i : LastEnd(events, s, i) <=> LastEnd(events, r, i) BY <1>4, LastEndAfter
  <2>5. CurrentIs(events, s, q.current) BY <1>1, <2>1, <2>4 DEF CurrentIs
  <2>6. HeartbeatIs(events, s, q.heartbeat) BY <1>2, <2>1
  <2>7. ProjectionOf(events, s, q) BY <1>1, <2>1, <2>2, <2>3, <2>5, <2>6 DEF ProjectionOf
  <2> QED BY <2>7 DEF q
<1> QED BY <1>3, <1>4

LEMMA NothingFolded == ASSUME NEW events PROVE ProjectionOf(events, {}, EmptyProjection)
<1>1. /\ IsProjection(EmptyProjection) /\ EmptyProjection.segments = {}
      /\ EmptyProjection.current = Nothing /\ EmptyProjection.heartbeat = NoTime
  BY DEF EmptyProjection, IsProjection
<1>2. EndsIn(events, {}) = {} /\ SwitchesIn(events, {}) = {} /\ Beats(events, {}) = {}
  BY DEF EndsIn, SwitchesIn, Beats
<1>3. ExpectedIn(events, {}) = {} BY <1>2 DEF ExpectedIn
<1>4. \A i : ~LastEnd(events, {}, i) BY <1>2 DEF LastEnd, IsLast
<1> QED BY <1>1, <1>2, <1>3, <1>4 DEF ProjectionOf, CurrentIs, HeartbeatIs

(* The fold of all events is their projection. *)
LEMMA FoldIsProjection ==
    ASSUME NEW events \in Seq(LedgerEvent) PROVE ProjectionOf(events, DOMAIN events, Fold(events))
<1> DEFINE D == DOMAIN events
<1>1. PICK folded : FoldsOver(events, SUBSET D, folded) /\ Fold(events) = folded[D] BY FoldUnfolds
<1>2. /\ folded[{}] = EmptyProjection
      /\ \A s \in SUBSET D : s # {} =>
            folded[s] = FoldEvent(folded[s \ {LastIn(events, s)}], events[LastIn(events, s)])
  BY <1>1 DEF FoldsOver
<1> DEFINE N == {n \in Nat : \A s \in Smaller(D, n) : ProjectionOf(events, s, folded[s])}
<1>3. IsFiniteSet(D) /\ Cardinality(D) \in Nat
  <2>1. D = 1..Len(events) /\ Len(events) \in Nat OBVIOUS
  <2>2. IsFiniteSet(D) BY <2>1, FS_Interval
  <2> QED BY <2>2, FS_CardinalityType
<1>4. 0 \in N
  <2>1. \A s \in Smaller(D, 0) : s = {} BY <1>3, SmallerGrows
  <2> QED BY <1>2, <2>1, NothingFolded
<1>5. ASSUME NEW n \in N PROVE n + 1 \in N
  <2> SUFFICES ASSUME NEW s \in Smaller(D, n + 1) PROVE ProjectionOf(events, s, folded[s]) OBVIOUS
  <2>1. CASE s = {} BY <1>2, <2>1, NothingFolded
  <2>2. CASE s # {}
    <3> DEFINE x == LastIn(events, s)  r == s \ {x}
    <3>1. x \in s /\ r \in Smaller(D, n) /\ IsLast(events, s, x) BY <2>2, LessLast
    <3>2. s \in SUBSET D BY DEF Smaller
    <3> HIDE DEF x
    <3>3. Extends(events, r, x, s) BY <3>1, <3>2 DEF Extends, IsLast
    <3>4. ProjectionOf(events, r, folded[r]) BY <3>1
    <3>5. ProjectionOf(events, s, FoldEvent(folded[r], events[x])) BY <3>3, <3>4, FoldStep
    <3>6. folded[s] = FoldEvent(folded[r], events[x]) BY <1>2, <2>2, <3>2 DEF x
    <3> QED BY <3>5, <3>6
  <2> QED BY <2>1, <2>2
<1>6. N = Nat
  <2> HIDE DEF N
  <2>1. N \in SUBSET Nat BY DEF N
  <2> QED BY <1>4, <1>5, <2>1, AllNumbers
<1>7. Smaller(D, Cardinality(D)) = SUBSET D BY <1>3, SmallerGrows
<1>8. Cardinality(D) \in N BY <1>3, <1>6
<1>9. D \in SUBSET D OBVIOUS
<1> QED BY <1>1, <1>7, <1>8, <1>9

-----------------------------------------------------------------------------
(* The ledger around the fold: the log has one envelope of an identity and *)
(* of a source key, the projection is its fold, the archive what a replay  *)
(* of it archives, and what was sent or shown is somewhere.                *)
Accounted(e) == e \in Range(log) \cup manual \/ \E id \in {f.id : f \in Range(log)} : <<e, id>> \in quarantined
LedgerInv ==
    /\ log \in Seq(LedgerEvent) /\ sent \subseteq LedgerEvent /\ manual \subseteq sent
    /\ quarantined \subseteq LedgerEvent \X {e.id : e \in LedgerEvent}
    /\ outbox \in Seq({e.id : e \in LedgerEvent}) /\ delivered \subseteq Range(outbox)
    /\ projection = Fold(log) /\ archive = Superseded(log) /\ archive \subseteq Segment
    /\ shown \subseteq projection.segments \cup archive
    /\ CountedOnce /\ \A e \in sent : Accounted(e)

LEMMA AppendedIs ==
    ASSUME NEW S, NEW seq \in Seq(S), NEW e \in S
    PROVE  /\ Append(seq, e) \in Seq(S) /\ Len(Append(seq, e)) = Len(seq) + 1 /\ Len(seq) \in Nat
           /\ DOMAIN seq = 1..Len(seq) /\ DOMAIN Append(seq, e) = DOMAIN seq \cup {Len(seq) + 1}
           /\ \A i \in DOMAIN seq : Append(seq, e)[i] = seq[i] /\ i # Len(seq) + 1
           /\ Append(seq, e)[Len(seq) + 1] = e
           /\ Range(Append(seq, e)) = Range(seq) \cup {e}
<1>1. /\ Append(seq, e) \in Seq(S) /\ Len(Append(seq, e)) = Len(seq) + 1 /\ Len(seq) \in Nat
      /\ DOMAIN seq = 1..Len(seq) /\ DOMAIN Append(seq, e) = 1..(Len(seq) + 1)
      /\ \A i \in DOMAIN seq : Append(seq, e)[i] = seq[i]
      /\ Append(seq, e)[Len(seq) + 1] = e
  OBVIOUS
<1>2. 1..(Len(seq) + 1) = 1..Len(seq) \cup {Len(seq) + 1} /\ Len(seq) + 1 \notin 1..Len(seq) BY <1>1
<1> QED BY <1>1, <1>2 DEF Range

LEMMA SupersededGrows ==
    ASSUME NEW events \in Seq(LedgerEvent), NEW e \in LedgerEvent
    PROVE  Superseded(Append(events, e)) =
              Superseded(events) \cup (Fold(events).segments \ Fold(Append(events, e)).segments)
<1> DEFINE more == Append(events, e)  n == Len(events)
           of(seq, i) == Fold(SubSeq(seq, 1, i - 1)).segments \ Fold(SubSeq(seq, 1, i)).segments
<1>1. /\ more \in Seq(LedgerEvent) /\ Len(more) = n + 1 /\ n \in Nat
      /\ DOMAIN events = 1..n /\ DOMAIN more = DOMAIN events \cup {n + 1}
      /\ \A i \in DOMAIN events : more[i] = events[i]
  BY AppendedIs
<1> HIDE DEF more
<1>2. \A i \in 0..n : SubSeq(more, 1, i) = SubSeq(events, 1, i)
  BY <1>1
<1>3. SubSeq(more, 1, n + 1) = more /\ SubSeq(events, 1, n) = events BY <1>1
<1>4. \A i \in DOMAIN events : of(more, i) = of(events, i)
  <2> TAKE i \in DOMAIN events
  <2>1. i \in 0..n /\ i - 1 \in 0..n BY <1>1
  <2> QED BY <1>2, <2>1
<1>5. of(more, n + 1) = Fold(events).segments \ Fold(more).segments
  <2>1. n \in 0..n /\ (n + 1) - 1 = n BY <1>1
  <2>2. SubSeq(more, 1, n) = events BY <1>2, <1>3, <2>1
  <2>3. SubSeq(more, 1, (n + 1) - 1) = events BY <2>1, <2>2
  <2> HIDE DEF n
  <2> QED BY <1>3, <2>3
<1>6. Superseded(more) = UNION {of(more, i) : i \in DOMAIN more} BY DEF Superseded
<1>7. Superseded(events) = UNION {of(events, i) : i \in DOMAIN events} BY DEF Superseded
<1> HIDE DEF of, n
<1>8. Superseded(more) = (UNION {of(events, i) : i \in DOMAIN events}) \cup of(more, n + 1)
  BY <1>1, <1>4, <1>6
<1> QED BY <1>5, <1>7, <1>8 DEF more

LEMMA NothingLogged == Fold(<<>>) = EmptyProjection /\ Superseded(<<>>) = {}
<1>1. <<>> \in Seq(LedgerEvent) /\ DOMAIN <<>> = {} OBVIOUS
<1>2. PICK folded : FoldsOver(<<>>, SUBSET DOMAIN <<>>, folded) /\ Fold(<<>>) = folded[DOMAIN <<>>]
  BY <1>1, FoldUnfolds
<1>3. folded[{}] = EmptyProjection BY <1>1, <1>2 DEF FoldsOver
<1>4. Superseded(<<>>) = {} BY <1>1 DEF Superseded
<1> QED BY <1>1, <1>2, <1>3, <1>4

LEMMA LedgerStarts == LedgerInit => LedgerInv
<1> SUFFICES ASSUME LedgerInit PROVE LedgerInv OBVIOUS
<1>1. /\ log = <<>> /\ outbox = <<>> /\ projection = Fold(log) /\ archive = Superseded(log) /\ archive = {}
      /\ sent = {} /\ manual = {} /\ shown = {} /\ delivered = {} /\ quarantined = {}
  BY NothingLogged DEF LedgerInit
<1>2. Range(log) = {} /\ Range(outbox) = {} /\ DOMAIN log = {} /\ DOMAIN outbox = {} BY <1>1 DEF Range
<1>3. log \in Seq(LedgerEvent) /\ outbox \in Seq({e.id : e \in LedgerEvent}) BY <1>1
<1>4. CountedOnce BY <1>2 DEF CountedOnce
<1> QED BY <1>1, <1>2, <1>3, <1>4 DEF LedgerInv

LEMMA StoredAre ==
    ASSUME NEW e
    PROVE  /\ Stored(e) \subseteq Range(log) /\ \A f \in Range(log) : f.id = e.id \/ f.source = e.source => ~IsNew(e)
           /\ ~IsNew(e) => Stored(e) # {} /\ (IsDuplicate(e) => e \in Range(log))
           /\ \A i \in DOMAIN log : log[i] \in Range(log)
BY DEF Stored, IsNew, IsDuplicate, WithId, WithSource, Range

(* One envelope appended, dropped as a duplicate or quarantined. *)
LogRight ==
    /\ log \in Seq(LedgerEvent) /\ quarantined \subseteq LedgerEvent \X {e.id : e \in LedgerEvent}
    /\ projection = Fold(log) /\ archive = Superseded(log) /\ archive \subseteq Segment
    /\ shown \subseteq projection.segments \cup archive
    /\ \A i, j \in DOMAIN log : log[i].id = log[j].id \/ log[i].source = log[j].source => i = j
LogGrew(e) ==
    /\ Range(log') \subseteq LedgerEvent /\ Range(log) \subseteq Range(log') /\ quarantined \subseteq quarantined'
    /\ e \in Range(log') \/ \E id \in {f.id : f \in Range(log')} : <<e, id>> \in quarantined'
    /\ ~IsConflict(e) => e \in Range(log')

LEMMA ReceivedKeeps ==
    ASSUME LogRight, NEW e \in LedgerEvent, Received(e) PROVE LogRight' /\ LogGrew(e)
<1> USE DEF LogRight
<1>1. Range(log) \subseteq LedgerEvent BY DEF Range
<1>2. quarantined' = quarantined \cup {<<e, f.id>> : f \in IF IsConflict(e) THEN Stored(e) ELSE {}}
  BY DEF Received
<1>3. Stored(e) \subseteq Range(log) BY StoredAre
<1>4. quarantined' \subseteq LedgerEvent \X {f.id : f \in LedgerEvent} /\ quarantined \subseteq quarantined'
  <2>1. \A f \in Stored(e) : <<e, f.id>> \in LedgerEvent \X {g.id : g \in LedgerEvent} BY <1>1, <1>3
  <2> QED BY <1>2, <2>1
<1>5. CASE IsNew(e)
  <2>1. /\ log' = Append(log, e) /\ projection' = Fold(log')
        /\ archive' = archive \cup (projection.segments \ projection'.segments)
        /\ shown' = shown \cup projection'.segments
    BY <1>5 DEF Received, Recorded
  <2> DEFINE n == Len(log) + 1
  <2>2. /\ log' \in Seq(LedgerEvent) /\ DOMAIN log' = DOMAIN log \cup {n} /\ log'[n] = e
        /\ \A i \in DOMAIN log : log'[i] = log[i] /\ i # n
        /\ Range(log') = Range(log) \cup {e}
    BY <2>1, AppendedIs
  <2> HIDE DEF n
  <2>3. archive' = Superseded(log') BY <2>1, SupersededGrows
  <2>4. projection.segments \subseteq Segment BY FoldIsProjection DEF ProjectionOf
  <2>5. archive' \subseteq Segment /\ shown' \subseteq projection'.segments \cup archive' BY <2>1, <2>4
  <2>6. ASSUME NEW i \in DOMAIN log', NEW j \in DOMAIN log',
               log'[i].id = log'[j].id \/ log'[i].source = log'[j].source
        PROVE  i = j
    <3>1. \A k \in DOMAIN log : log[k].id # e.id /\ log[k].source # e.source BY <1>5, StoredAre
    <3>2. CASE i = n
      <4>1. j = n BY <2>2, <2>6, <3>1, <3>2
      <4> QED BY <3>2, <4>1
    <3>3. CASE j = n
      <4>1. i = n BY <2>2, <2>6, <3>1, <3>3
      <4> QED BY <3>3, <4>1
    <3>4. CASE i # n /\ j # n
      <4>1. i \in DOMAIN log /\ j \in DOMAIN log /\ log'[i] = log[i] /\ log'[j] = log[j] BY <2>2, <2>6, <3>4
      <4> QED BY <2>6, <4>1
    <3> QED BY <3>2, <3>3, <3>4
  <2>7. LogRight' BY <1>4, <2>1, <2>2, <2>3, <2>5, <2>6
  <2> QED BY <1>1, <1>4, <2>2, <2>7 DEF LogGrew
<1>6. CASE ~IsNew(e)
  <2>1. UNCHANGED <<log, projection, archive, shown>> BY <1>6 DEF Received, Recorded
  <2>2. LogRight' BY <1>4, <2>1
  <2>3. CASE IsDuplicate(e)
    <3>1. e \in Range(log) BY <1>6, <2>3, StoredAre
    <3> QED BY <1>1, <1>4, <2>1, <2>2, <3>1 DEF LogGrew
  <2>4. CASE ~IsDuplicate(e)
    <3>1. IsConflict(e) /\ Stored(e) # {} BY <1>6, <2>4, StoredAre DEF IsConflict
    <3>2. PICK f \in Stored(e) : TRUE BY <3>1
    <3>3. <<e, f.id>> \in quarantined' BY <1>2, <3>1
    <3>4. f.id \in {g.id : g \in Range(log)} BY <1>3
    <3> QED BY <1>1, <1>4, <2>1, <2>2, <3>1, <3>3, <3>4 DEF LogGrew
  <2> QED BY <2>3, <2>4
<1> QED BY <1>5, <1>6

OutboxRight ==
    /\ outbox \in Seq({e.id : e \in LedgerEvent}) /\ delivered \subseteq Range(outbox)
    /\ \A i, j \in DOMAIN outbox : outbox[i] = outbox[j] => i = j
    /\ Range(outbox) \subseteq {e.id : e \in Range(log)}
SentRight ==
    sent \subseteq LedgerEvent /\ manual \subseteq sent /\ \A e \in sent : Accounted(e)

LEMMA LedgerInvParts == LedgerInv <=> LogRight /\ OutboxRight /\ SentRight
BY DEF LedgerInv, LogRight, OutboxRight, SentRight, CountedOnce

LEMMA SentStays ==
    ASSUME SentRight, NEW e \in LedgerEvent, LogGrew(e), sent' = sent \cup {e}, manual' = manual
    PROVE  SentRight'
<1>1. \A f \in sent : Accounted(f)' BY DEF SentRight, Accounted, LogGrew
<1>2. Accounted(e)' BY DEF Accounted, LogGrew
<1> QED BY <1>1, <1>2 DEF SentRight

LEMMA OutboxStays ==
    ASSUME OutboxRight, Range(log) \subseteq Range(log'), outbox' = outbox, delivered' = delivered
    PROVE  OutboxRight'
BY DEF OutboxRight

LEMMA LedgerKeeps == LedgerInv /\ [LedgerNext]_ledgerVars => LedgerInv'
<1> SUFFICES ASSUME LedgerInv, [LedgerNext]_ledgerVars PROVE LedgerInv' OBVIOUS
<1>0. LogRight /\ OutboxRight /\ SentRight BY LedgerInvParts
<1>1. ASSUME LogRight', OutboxRight', SentRight' PROVE LedgerInv'
  BY <1>1 DEF LedgerInv, LogRight, OutboxRight, SentRight, CountedOnce
<1>2. ASSUME NEW e \in LedgerEvent, AppendEvent(e) PROVE LedgerInv'
  <2>1. Received(e) /\ manual' = manual /\ outbox' = outbox /\ delivered' = delivered BY <1>2 DEF AppendEvent
  <2>2. LogRight' /\ LogGrew(e) BY <1>0, <2>1, ReceivedKeeps
  <2>3. SentRight' BY <1>0, <2>1, <2>2, SentStays DEF Received
  <2>4. OutboxRight' BY <1>0, <2>1, <2>2, OutboxStays DEF LogGrew
  <2> QED BY <1>1, <2>2, <2>3, <2>4
<1>3. ASSUME NEW e \in LedgerEvent, Correct(e) PROVE LedgerInv'
  <2>1. outbox' = outbox /\ delivered' = delivered BY <1>3 DEF Correct
  <2>2. CASE SealedHit(e) = {}
    <3>1. Received(e) /\ manual' = manual BY <1>3, <2>2 DEF Correct
    <3>2. LogRight' /\ LogGrew(e) BY <1>0, <3>1, ReceivedKeeps
    <3>3. SentRight' BY <1>0, <3>1, <3>2, SentStays DEF Received
    <3>4. OutboxRight' BY <1>0, <2>1, <3>2, OutboxStays DEF LogGrew
    <3> QED BY <1>1, <3>2, <3>3, <3>4
  <2>3. CASE SealedHit(e) # {}
    <3>1. /\ manual' = manual \cup {e} /\ sent' = sent \cup {e}
          /\ UNCHANGED <<log, quarantined, projection, archive, shown>>
      BY <1>3, <2>3 DEF Correct
    <3>2. LogRight' BY <1>0, <3>1 DEF LogRight
    <3>3. SentRight' BY <1>0, <3>1 DEF SentRight, Accounted
    <3>4. OutboxRight' BY <1>0, <2>1, <3>1 DEF OutboxRight
    <3> QED BY <1>1, <3>2, <3>3, <3>4
  <2> QED BY <2>2, <2>3
<1>4. ASSUME NEW e \in LedgerEvent, Commit(e) PROVE LedgerInv'
  <2>1. /\ Received(e) /\ manual' = manual /\ delivered' = delivered
        /\ outbox' = IF IsConflict(e) \/ HasEntry(e) THEN outbox ELSE Append(outbox, e.id)
    BY <1>4 DEF Commit
  <2>2. LogRight' /\ LogGrew(e) BY <1>0, <2>1, ReceivedKeeps
  <2>3. SentRight' BY <1>0, <2>1, <2>2, SentStays DEF Received
  <2>4. OutboxRight'
    <3>1. CASE IsConflict(e) \/ HasEntry(e)
      <4>1. outbox' = outbox BY <2>1, <3>1
      <4> QED BY <1>0, <2>1, <2>2, <4>1, OutboxStays DEF LogGrew
    <3>2. CASE ~IsConflict(e) /\ ~HasEntry(e)
      <4> DEFINE Id == {f.id : f \in LedgerEvent}  n == Len(outbox) + 1
      <4>1. outbox' = Append(outbox, e.id) /\ e.id \in Id /\ e.id \notin Range(outbox)
        BY <2>1, <3>2 DEF HasEntry
      <4>2. outbox \in Seq(Id) BY <1>0 DEF OutboxRight
      <4> HIDE DEF Id
      <4>3. /\ outbox' \in Seq(Id) /\ DOMAIN outbox' = DOMAIN outbox \cup {n} /\ outbox'[n] = e.id
            /\ \A i \in DOMAIN outbox : outbox'[i] = outbox[i] /\ i # n
            /\ Range(outbox') = Range(outbox) \cup {e.id}
        BY <4>1, <4>2, AppendedIs
      <4> HIDE DEF n
      <4>4. \A i \in DOMAIN outbox : outbox[i] # e.id BY <4>1 DEF Range
      <4>5. \A i, j \in DOMAIN outbox' : outbox'[i] = outbox'[j] => i = j
        BY <1>0, <4>3, <4>4 DEF OutboxRight
      <4>6. Range(outbox') \subseteq {f.id : f \in Range(log')}
        <5>1. e \in Range(log') /\ Range(log) \subseteq Range(log') BY <2>2, <3>2 DEF LogGrew
        <5> QED BY <1>0, <4>3, <5>1 DEF OutboxRight
      <4>7. delivered' \subseteq Range(outbox') BY <1>0, <2>1, <4>3 DEF OutboxRight
      <4> QED BY <4>3, <4>5, <4>6, <4>7 DEF OutboxRight, Id
    <3> QED BY <3>1, <3>2
  <2> QED BY <1>1, <2>2, <2>3, <2>4
<1>5. ASSUME NEW id \in Range(outbox), MarkDelivered(id) PROVE LedgerInv'
  <2>1. /\ delivered' = delivered \cup {id}
        /\ UNCHANGED <<log, quarantined, manual, projection, archive, outbox, sent, shown>>
    BY <1>5 DEF MarkDelivered
  <2>2. LogRight' BY <1>0, <2>1 DEF LogRight
  <2>3. SentRight' BY <1>0, <2>1 DEF SentRight, Accounted
  <2>4. OutboxRight' BY <1>0, <1>5, <2>1 DEF OutboxRight
  <2> QED BY <1>1, <2>2, <2>3, <2>4
<1>6. ASSUME Reload \/ UNCHANGED ledgerVars PROVE LedgerInv'
  <2>1. UNCHANGED <<log, quarantined, manual, projection, archive, outbox, delivered, sent, shown>>
    BY <1>0, <1>6 DEF Reload, LogRight, ledgerVars
  <2>2. LogRight' BY <1>0, <2>1 DEF LogRight
  <2>3. SentRight' BY <1>0, <2>1 DEF SentRight, Accounted
  <2>4. OutboxRight' BY <1>0, <2>1 DEF OutboxRight
  <2> QED BY <1>1, <2>2, <2>3, <2>4
<1> QED BY <1>2, <1>3, <1>4, <1>5, <1>6 DEF LedgerNext

LEMMA LedgerInvIsSound == LedgerInv => LedgerSound
<1> SUFFICES ASSUME LedgerInv PROVE LedgerSound OBVIOUS
<1>1. LogRight /\ OutboxRight /\ SentRight BY LedgerInvParts
<1>2. ProjectionOf(log, DOMAIN log, projection) BY <1>1, FoldIsProjection DEF LogRight
<1>3. projection.segments \subseteq Segment /\ shown \subseteq Segment BY <1>1, <1>2 DEF LogRight, ProjectionOf
<1>4. ProjectionRight BY <1>1, <1>2, ExpectedIsExpectedIn DEF LogRight, ProjectionOf, ProjectionRight, Apart
<1>5. CountedOnce BY DEF LedgerInv
<1>6. NothingDropped BY <1>1 DEF LogRight, SentRight, Accounted, NothingDropped
<1>7. LedgerTypeOK BY <1>1, <1>3 DEF LogRight, OutboxRight, SentRight, LedgerTypeOK
<1> QED BY <1>4, <1>5, <1>6, <1>7 DEF LedgerSound

(* However envelopes arrive, again, out of order, in conflict with one     *)
(* another or as corrections, and across a reload: the projection append   *)
(* stores is the usage the logged events stand for, no instant in it twice;*)
(* no identity or source key is logged and no outbox entry made twice; and *)
(* every envelope sent and every segment shown is still accounted for      *)
(* (append, _fold, _apply, commit_with_outbox, from_dict).                 *)
THEOREM LedgerSoundAlways == LedgerSpec => []LedgerSound
BY LedgerStarts, LedgerKeeps, LedgerInvIsSound, PTL DEF LedgerSpec

-----------------------------------------------------------------------------
(* The same envelopes in another order of arrival.  Only ties of time and  *)
(* certainty are broken by arrival; without one the order is the same.     *)
Reordered(events, other, there, back) ==
    /\ events \in Seq(LedgerEvent) /\ other \in Seq(LedgerEvent)
    /\ there \in [DOMAIN events -> DOMAIN other] /\ back \in [DOMAIN other -> DOMAIN events]
    /\ \A i \in DOMAIN events : back[there[i]] = i /\ other[there[i]] = events[i]
    /\ \A j \in DOMAIN other : there[back[j]] = j /\ events[back[j]] = other[j]
NoTies(events) ==
    \A i, j \in DOMAIN events :
        events[i].at = events[j].at /\ Uncertainty(events[i]) = Uncertainty(events[j]) => i = j

LEMMA SameOrder ==
    ASSUME NEW events, NEW other, NEW there, NEW back, Reordered(events, other, there, back), NoTies(events)
    PROVE  /\ Reordered(other, events, back, there) /\ NoTies(other)
           /\ \A i, j \in DOMAIN events : FoldsBefore(events, i, j) <=> FoldsBefore(other, there[i], there[j])
<1>1. /\ events \in Seq(LedgerEvent) /\ other \in Seq(LedgerEvent)
      /\ \A i \in DOMAIN events : there[i] \in DOMAIN other /\ back[there[i]] = i /\ other[there[i]] = events[i]
      /\ \A j \in DOMAIN other : back[j] \in DOMAIN events /\ there[back[j]] = j /\ events[back[j]] = other[j]
  BY DEF Reordered
<1>2. Reordered(other, events, back, there) BY DEF Reordered
<1>3. ASSUME NEW i \in DOMAIN other, NEW j \in DOMAIN other, other[i].at = other[j].at,
             Uncertainty(other[i]) = Uncertainty(other[j])
      PROVE  i = j
  <2>1. back[i] \in DOMAIN events /\ back[j] \in DOMAIN events
        /\ events[back[i]] = other[i] /\ events[back[j]] = other[j]
    BY <1>1
  <2>2. back[i] = back[j] BY <1>3, <2>1 DEF NoTies
  <2> QED BY <1>1, <2>2
<1>4. ASSUME NEW i \in DOMAIN events, NEW j \in DOMAIN events
      PROVE  FoldsBefore(events, i, j) <=> FoldsBefore(other, there[i], there[j])
  <2>1. there[i] \in DOMAIN other BY <1>1
  <2>2. CASE i = j BY <1>1, <2>1, <2>2, OrderIsTotal
  <2>3. CASE i # j
    <3>1. ~(events[i].at = events[j].at /\ Uncertainty(events[i]) = Uncertainty(events[j])) BY <2>3 DEF NoTies
    <3>2. other[there[i]] = events[i] /\ other[there[j]] = events[j] BY <1>1
    <3> QED BY <3>1, <3>2 DEF FoldsBefore
  <2> QED BY <2>2, <2>3
<1>5. NoTies(other) BY <1>3 DEF NoTies
<1> QED BY <1>2, <1>4, <1>5

LEMMA SameExpected ==
    ASSUME NEW events, NEW other, NEW there, NEW back, Reordered(events, other, there, back), NoTies(events)
    PROVE  ExpectedIn(events, DOMAIN events) \subseteq ExpectedIn(other, DOMAIN other)
<1> DEFINE D == DOMAIN events  E == DOMAIN other
<1>1. /\ \A i \in D : there[i] \in E /\ back[there[i]] = i /\ other[there[i]] = events[i]
      /\ \A j \in E : back[j] \in D /\ there[back[j]] = j /\ events[back[j]] = other[j]
  BY DEF Reordered
<1>2. \A i, j \in D : FoldsBefore(events, i, j) <=> FoldsBefore(other, there[i], there[j]) BY SameOrder
<1>3. \A i \in D : i \in EndsIn(events, D) <=> there[i] \in EndsIn(other, E) BY <1>1 DEF EndsIn
<1>4. EndsIn(events, D) \subseteq D /\ EndsIn(other, E) \subseteq E BY DEF EndsIn
<1>5. ASSUME NEW i \in D, NEW j \in NextIn(events, D, i) PROVE there[j] \in NextIn(other, E, there[i]) /\ j \in D
  <2>1. j \in EndsIn(events, D) /\ FoldsBefore(events, i, j) BY <1>5 DEF NextIn
  <2>2. there[j] \in EndsIn(other, E) /\ FoldsBefore(other, there[i], there[j]) BY <1>2, <1>3, <1>4, <2>1
  <2>3. ASSUME NEW k \in EndsIn(other, E), FoldsBefore(other, there[i], k) PROVE ~FoldsBefore(other, k, there[j])
    <3>1. back[k] \in D /\ there[back[k]] = k BY <1>1, <1>4
    <3>2. back[k] \in EndsIn(events, D) /\ FoldsBefore(events, i, back[k]) BY <1>2, <1>3, <2>3, <3>1
    <3>3. ~FoldsBefore(events, back[k], j) BY <3>2, <1>5 DEF NextIn
    <3> QED BY <1>2, <1>4, <2>1, <3>1, <3>3
  <2> QED BY <1>4, <2>1, <2>2, <2>3 DEF NextIn
<1>6. ASSUME NEW j \in D PROVE SeenIn(events, D, j) = SeenIn(other, E, there[j])
  <2>1. {events[h].at : h \in BeatsIn(events, D, j)} = {other[h].at : h \in BeatsIn(other, E, there[j])}
    <3>1. ASSUME NEW h \in BeatsIn(events, D, j) PROVE \E g \in BeatsIn(other, E, there[j]) : other[g].at = events[h].at
      <4>1. h \in D /\ there[h] \in BeatsIn(other, E, there[j]) BY <1>1, <1>2, <1>6, <3>1 DEF BeatsIn
      <4> QED BY <1>1, <4>1
    <3>2. ASSUME NEW g \in BeatsIn(other, E, there[j]) PROVE \E h \in BeatsIn(events, D, j) : events[h].at = other[g].at
      <4>1. g \in E /\ back[g] \in D /\ there[back[g]] = g /\ events[back[g]] = other[g] BY <1>1, <3>2 DEF BeatsIn
      <4>2. back[g] \in BeatsIn(events, D, j) BY <1>2, <1>6, <3>2, <4>1 DEF BeatsIn
      <4> QED BY <4>1, <4>2
    <3> QED BY <3>1, <3>2
  <2>2. other[there[j]] = events[j] BY <1>1, <1>6
  <2> QED BY <2>1, <2>2 DEF SeenIn
<1>7. ASSUME NEW i \in D, NEW j \in D PROVE UsageIn(events, D, i, j) = UsageIn(other, E, there[i], there[j])
  <2>1. other[there[i]] = events[i] /\ other[there[j]] = events[j] BY <1>1, <1>7
  <2>2. SeenIn(events, D, j) = SeenIn(other, E, there[j]) BY <1>6, <1>7
  <2>3. UntilIn(events, D, i, j) = UntilIn(other, E, there[i], there[j]) BY <2>1, <2>2 DEF UntilIn
  <2>4. \A t : PiecesTo(events, i, j, t) = PiecesTo(other, there[i], there[j], t) BY <2>1 DEF PiecesTo
  <2> QED BY <2>3, <2>4 DEF UsageIn
<1>8. ASSUME NEW p \in ExpectedIn(events, D) PROVE p \in ExpectedIn(other, E)
  <2>1. PICK i \in SwitchesIn(events, D) : \E j \in NextIn(events, D, i) : p \in UsageIn(events, D, i, j)
    BY <1>8 DEF ExpectedIn
  <2>2. PICK j \in NextIn(events, D, i) : p \in UsageIn(events, D, i, j) BY <2>1
  <2>3. i \in D BY <1>4, <2>1 DEF SwitchesIn
  <2>4. there[i] \in SwitchesIn(other, E) BY <1>1, <1>3, <2>1, <2>3 DEF SwitchesIn
  <2>5. j \in D /\ there[j] \in NextIn(other, E, there[i]) BY <1>5, <2>3
  <2>6. p \in UsageIn(other, E, there[i], there[j]) BY <1>7, <2>2, <2>3, <2>5
  <2> QED BY <2>4, <2>5, <2>6 DEF ExpectedIn
<1> QED BY <1>8

(* What the envelopes come to does not depend on the order they arrive in, *)
(* unless two of them have one effective time and certainty: what is       *)
(* projected is "never fabricated from arrival/recorded time"              *)
(* (_projection_time, fold_key in _fold).                                  *)
THEOREM ArrivalOrderIrrelevant ==
    ASSUME NEW events, NEW other, NEW there, NEW back, Reordered(events, other, there, back), NoTies(events)
    PROVE  Fold(other).segments = Fold(events).segments
<1>1. Reordered(other, events, back, there) /\ NoTies(other) BY SameOrder
<1>2. ExpectedIn(events, DOMAIN events) = ExpectedIn(other, DOMAIN other) BY <1>1, SameExpected
<1>3. events \in Seq(LedgerEvent) /\ other \in Seq(LedgerEvent) BY DEF Reordered
<1> QED BY <1>2, <1>3, FoldIsProjection DEF ProjectionOf
=============================================================================
