------------------------------ MODULE RateCard ------------------------------
(***************************************************************************)
(* The versioned rate card of one meter and what it makes of usage         *)
(* (scripts/usage_engine.py).  Rows are inserted, replaced and synced from *)
(* the provider while time passes; usage is cut at every instant where the *)
(* month, a rate or a sealed period changes, and rounded once per line.    *)
(***************************************************************************)
EXTENDS Integers, FiniteSets, Functions

CONSTANTS
    Version,          \* identities of rate rows
    LastRateTime,     \* bound: instants
    MaxNumerator,     \* bound: prices in minor units per Denominator units
    Denominator,      \* denominator_meter_units
    MonthStart,       \* the instant at which the second month starts
    SealedFrom, SealedTo,  \* the sealed period
    MaxRows           \* bound: rows kept

ASSUME RateAssumption ==
    /\ LastRateTime \in Nat \ {0} /\ MaxNumerator \in Nat /\ Denominator \in Nat \ {0}
    /\ MonthStart \in 0..LastRateTime /\ SealedFrom \in Nat /\ SealedTo \in Nat
    /\ SealedFrom <= SealedTo /\ MaxRows \in Nat

VARIABLES
    cardTime,
    rates       \* the rows of the card
rateVars == <<cardTime, rates>>

Instant == 0..LastRateTime
Open == LastRateTime + 1     \* effective_to_ms None
State == {"Active", "Idle"}
AnyState == "any"            \* state None
Row == {r \in [version : Version, state : {"Active", AnyState}, from : Instant,
               to : 1..Open, price : 1..MaxNumerator] : r.from < r.to}
NoRate == [version |-> "none", state |-> AnyState, from |-> 0, to |-> 0, price |-> 0]

RateInit == cardTime = 0 /\ rates = {}

-----------------------------------------------------------------------------
(* upsert: a row that is in effect is history; a new row may only cut the  *)
(* end off rows that started before it, in the future, and without leaving *)
(* a hole behind itself.                                                   *)
Overlaps(a, b) == a.state = b.state /\ a.from < b.to /\ b.from < a.to
SameRow(row) == {r \in rates : r.version = row.version}
CutBy(row) == {o \in rates \ SameRow(row) : Overlaps(o, row)}
Anytime(row) == \A o \in CutBy(row) : o.from < row.from /\ row.to >= o.to
MayCut(row) == \A o \in CutBy(row) : o.from < row.from /\ row.from > cardTime /\ row.to >= o.to
MayReplace(row) == \A e \in SameRow(row) : e = row \/ e.from > cardTime
Upsert(row) ==
    /\ MayReplace(row)
    /\ row \notin rates => MayCut(row)
    /\ rates' = IF row \in rates THEN rates
                ELSE ((rates \ SameRow(row)) \ CutBy(row))
                     \cup {[o EXCEPT !.to = row.from] : o \in CutBy(row)} \cup {row}
    /\ Cardinality(rates') <= MaxRows
    /\ UNCHANGED cardTime
(* sync_from_provider: only a new version, only in the future. *)
SyncRow(row) == SameRow(row) = {} /\ row.from > cardTime /\ Upsert(row)
RateTick == cardTime < LastRateTime /\ cardTime' = cardTime + 1 /\ UNCHANGED rates

RateNext == RateTick \/ \E row \in Row : Upsert(row) \/ SyncRow(row)
RateSpec == RateInit /\ [][RateNext]_rateVars

-----------------------------------------------------------------------------
(* lookup: the rate of the state, else the rate of every state. *)
InEffect(state, time) == {r \in rates : r.state = state /\ r.from <= time /\ time < r.to}
Lookup(state, time) ==
    IF InEffect(state, time) # {} THEN CHOOSE r \in InEffect(state, time) : TRUE
    ELSE IF InEffect(AnyState, time) # {} THEN CHOOSE r \in InEffect(AnyState, time) : TRUE
    ELSE NoRate

(* price: the usage outside the sealed period, cut at months and rates.    *)
OutsideSealed(start, end) ==
    LET before == IF end < SealedFrom THEN end ELSE SealedFrom
        after == IF start > SealedTo THEN start ELSE SealedTo
        clipped == IF end <= SealedFrom \/ start >= SealedTo THEN {<<start, end>>}
                   ELSE {<<start, before>>, <<after, end>>}
    IN  {span \in clipped : span[1] < span[2]}
StartsOnly(state, start, end) ==
    {t \in {r.from : r \in {q \in rates : q.state \in {state, AnyState}}} : start < t /\ t < end}
Boundaries(state, start, end) ==
    {t \in UNION {{r.from, r.to} : r \in {q \in rates : q.state \in {state, AnyState}}} :
        start < t /\ t < end}
Month(time) == IF time < MonthStart THEN 1 ELSE 2
MonthCuts(start, end) == {t \in {MonthStart} : start < t /\ t < end}
Cuts(state, span) ==
    {span[1], span[2]} \cup Boundaries(state, span[1], span[2]) \cup MonthCuts(span[1], span[2])
Pieces(state, start, end) ==
    UNION {LET points == Cuts(state, span)
           IN  {p \in points \X points :
                   p[1] < p[2] /\ ~\E t \in points : p[1] < t /\ t < p[2]} :
           span \in OutsideSealed(start, end)}
RoundHalfUp(numerator) == (2 * numerator + Denominator) \div (2 * Denominator)
Line(m, state, start, end) ==
    LET pieces == {p \in Pieces(state, start, end) : Month(p[1]) = m}
        priced == {p \in pieces : Lookup(state, p[1]) # NoRate}
    IN  [minor |-> RoundHalfUp(SumFunction(
                      [p \in priced |-> (p[2] - p[1]) * Lookup(state, p[1]).price])),
         unpriced |-> SumFunction([p \in pieces \ priced |-> p[2] - p[1]])]

(* The same line, instant by instant. *)
Reference(m, state, start, end) ==
    LET instants == {t \in start..(end - 1) :
                        Month(t) = m /\ ~(SealedFrom <= t /\ t < SealedTo)}
        priced == {t \in instants : Lookup(state, t) # NoRate}
    IN  [minor |-> RoundHalfUp(SumFunction([t \in priced |-> Lookup(state, t).price])),
         unpriced |-> Cardinality(instants \ priced)]

-----------------------------------------------------------------------------
(* Whatever rows were inserted, replaced and cut, no two rows of one price *)
(* key are in effect at once, and every usage interval is priced, month by *)
(* month, as the sum over its instants: nothing twice, nothing at a rate   *)
(* that had ended, sealed instants not at all, and what has no rate is     *)
(* reported as unpriced (upsert, lookup, boundaries, price).               *)
UsagePriced ==
    /\ rates \subseteq Row
    /\ \A a, b \in rates : a # b => ~Overlaps(a, b) /\ a.version # b.version
    /\ \A state \in State, start, end \in Instant, m \in {1, 2} :
          start < end => Line(m, state, start, end) = Reference(m, state, start, end)

(* A row that was in effect at an instant of the past goes on pricing that *)
(* instant under its price key (upsert, sync_from_provider).               *)
PastRowsStand ==
    [][\A key \in {"Active", AnyState}, t \in 0..cardTime :
          \A r \in InEffect(key, t) :
             \E q \in rates' : q.state = key /\ q.from <= t /\ t < q.to /\ q.price = r.price
      ]_rateVars

(* The claim that rates in effect are history: a past instant that had a   *)
(* rate keeps it.                                                          *)
HistoryImmutable ==
    [][\A state \in State, t \in 0..(cardTime - 1) :
          Lookup(state, t) # NoRate => Lookup(state, t)'.price = Lookup(state, t).price]_rateVars
=============================================================================
