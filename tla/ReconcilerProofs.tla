-------------------------- MODULE ReconcilerProofs --------------------------
(***************************************************************************)
(* Theorems of the reconciler, for any finite set of sandboxes and rows    *)
(* that move between its readings: what it isolates is not the instance    *)
(* of the row it read, what it recreates rests on a verdict or on stop     *)
(* evidence of the row's generation, and driving the log through it breaks *)
(* nothing the log guarantees.                                             *)
(***************************************************************************)
EXTENDS Reconciler, OperationLogProofs, FiniteSetTheorems

USE DEF opVars, rowVars, keyVars, ledgerVars, processVars

-----------------------------------------------------------------------------
(* The elements of a finite set in some order, and of two such lists.      *)

LEMMA SetToSeqType ==
    ASSUME NEW S, IsFiniteSet(S)
    PROVE  SetToSeq(S) \in Seq(S)
<1>1. Cardinality(S) \in Nat /\ ExistsBijection(1..Cardinality(S), S)
  BY FS_CardinalityType
<1>2. PICK f \in Bijection(1..Cardinality(S), S) : TRUE
  BY <1>1 DEF ExistsBijection
<1>3. f \in [1..Cardinality(S) -> S] /\ IsInjective(f)
  BY <1>2 DEF Bijection, Injection
<1>4. SetToSeq(S) \in [1..Cardinality(S) -> S]
  BY <1>3 DEF SetToSeq
<1>. QED BY <1>1, <1>4

LEMMA PlannedFrom ==
    ASSUME NEW I \in SUBSET Action, NEW D \in SUBSET Action, IsFiniteSet(I), IsFiniteSet(D)
    PROVE  /\ Planned(I, D) \in Seq(Action)
           /\ \A i \in DOMAIN Planned(I, D) : Planned(I, D)[i] \in I \cup D
<1>. DEFINE a == SetToSeq(I)
            b == SetToSeq(D)
<1>1. a \in Seq(I) /\ b \in Seq(D) BY SetToSeqType
<1>2. Planned(I, D) = a \o b BY DEF Planned
<1>. HIDE DEF a, b
<1>3. a \in Seq(I \cup D) /\ b \in Seq(I \cup D) BY <1>1
<1>4. a \o b \in Seq(I \cup D) BY <1>3
<1>5. a \o b \in Seq(Action) BY <1>4
<1>6. \A i \in DOMAIN (a \o b) : (a \o b)[i] \in I \cup D BY <1>4
<1>. QED BY <1>2, <1>5, <1>6

-----------------------------------------------------------------------------
(* What diff decides, from the rows as they were read.                     *)

Grounded(s) == reconciled[s] \/ <<s, generation[s]>> \in stopped

(* What was isolated is not the instance of the row that was read. *)
Stranger(act) == act.generation # act.asOf /\ act.asOf <= generation[act.sandbox]

(* An action is about a row that exists, and to recreate rests on that row *)
(* for as long as it is of the generation that was read.                   *)
Sensible(act) ==
    /\ act.kind = "isolate" => Stranger(act)
    /\ act.kind # "isolate" => Known(act.sandbox)
    /\ act.kind = "recreate" =>
          /\ act.generation <= generation[act.sandbox]
          /\ act.generation = generation[act.sandbox] => Grounded(act.sandbox)
PlanSensible == \A i \in DOMAIN plan : Sensible(plan[i])

(* A row that was read has not gone back since. *)
TrueOf(row, s) ==
    /\ row.generation <= generation[s]
    /\ IF Recorded(row) THEN Known(s) ELSE row.generation = 0
    /\ row.reconciled /\ row.generation = generation[s] => reconciled[s]
ViewTrue == view # <<>> => \A s \in Sandbox : TrueOf(view[s], s)

ViewTypes == view \in [Sandbox -> RowView]

LEMMA ListableAre ==
    ASSUME RowTypes, NEW s \in Sandbox, NEW inst \in Listable(s)
    PROVE  /\ inst.generation \in {1} \cup 1..generation[s]
           /\ StopEvidence(inst) => <<s, inst.generation>> \in stopped
BY DEF Listable, StopEvidence

LEMMA IsolationsAre ==
    ASSUME RowTypes, ViewTypes, ViewTrue, view # <<>>, NEW s \in Sandbox,
           NEW strangers \in SUBSET Strangers(s)
    PROVE  /\ IsFiniteSet(Isolations(s, strangers))
           /\ \A act \in Isolations(s, strangers) :
                 act \in Action /\ act.kind = "isolate" /\ Sensible(act)
<1>. DEFINE I == Isolations(s, strangers)
            f == [g \in strangers |-> Act("isolate", s, g, view[s].generation)]
<1>0. /\ generation[s] \in Nat /\ view[s].generation \in Nat
      /\ TrueOf(view[s], s)
  BY DEF RowTypes, ViewTypes, RowView, ViewTrue
<1>1. ASSUME NEW g \in Strangers(s)
      PROVE  g \in {1} \cup 1..generation[s] /\ g # view[s].generation
  <2>1. PICK i \in Listable(s) : ~CurrentClaim(view[s], i) /\ g = i.generation
    BY DEF Strangers
  <2>2. g \in {1} \cup 1..generation[s] BY <2>1, ListableAre
  <2>3. ASSUME ~Recorded(view[s]) PROVE view[s].generation = 0
    BY <1>0, <2>3 DEF TrueOf
  <2>. QED BY <1>0, <2>1, <2>2, <2>3 DEF CurrentClaim
<1>2. IsFiniteSet(strangers)
  <2>1. IsFiniteSet(1..generation[s]) BY <1>0, FS_Interval
  <2>2. IsFiniteSet(1..generation[s] \cup {1}) BY <2>1, FS_AddElement
  <2>3. strangers \subseteq 1..generation[s] \cup {1} BY <1>1
  <2>. QED BY <2>2, <2>3, FS_Subset
<1>3. f \in Surjection(strangers, I) BY DEF Surjection, Isolations
<1>4. IsFiniteSet(I) BY <1>2, <1>3, FS_Surjection
<1>5. ASSUME NEW act \in I PROVE act \in Action /\ act.kind = "isolate" /\ Sensible(act)
  <2>1. PICK g \in strangers : act = Act("isolate", s, g, view[s].generation)
    BY <1>5 DEF Isolations
  <2>2. g \in Nat /\ g # view[s].generation /\ view[s].generation <= generation[s]
    BY <1>0, <1>1 DEF TrueOf
  <2>3. /\ act.kind = "isolate" /\ act.sandbox = s /\ act.generation = g
        /\ act.asOf = view[s].generation /\ act \in Action
    BY <1>0, <2>1, <2>2 DEF Act, Action, ActionKind
  <2>. QED BY <2>2, <2>3 DEF Sensible, Stranger
<1>. QED BY <1>4, <1>5

LEMMA DecisionsAre ==
    ASSUME RowTypes, ViewTypes, ViewTrue, view # <<>>, NEW s \in Sandbox,
           NEW inst \in Evidence(s)
    PROVE  /\ IsFiniteSet(Decisions(s, inst))
           /\ \A act \in Decisions(s, inst) : act \in Action /\ Sensible(act)
<1>. DEFINE row == view[s]
            g == row.generation
<1>0. /\ generation[s] \in Nat /\ g \in Nat /\ TrueOf(row, s)
  BY DEF RowTypes, ViewTypes, RowView, ViewTrue
<1>1. Kinds(row, inst) \subseteq {"keep", "suspend", "recreate"} BY DEF Kinds
<1>2. \E kind \in {"keep", "suspend", "recreate"} : Kinds(row, inst) \subseteq {kind}
  BY DEF Kinds
<1>3. PICK kind : Decisions(s, inst) \subseteq {Act(kind, s, g, g)}
  BY <1>2 DEF Decisions
<1>4. IsFiniteSet(Decisions(s, inst))
  <2>1. IsFiniteSet({Act(kind, s, g, g)}) BY FS_Singleton
  <2>. QED BY <1>3, <2>1, FS_Subset
<1>5. ASSUME "recreate" \in Kinds(row, inst), g = generation[s] PROVE Grounded(s)
  <2>1. row.reconciled \/ StopEvidence(inst) BY <1>5 DEF Kinds
  <2>2. CASE row.reconciled BY <1>0, <1>5, <2>2 DEF TrueOf, Grounded
  <2>3. CASE StopEvidence(inst)
    <3>1. inst \in Listable(s) /\ CurrentClaim(row, inst)
      BY <2>3 DEF Evidence, StopEvidence
    <3>2. <<s, inst.generation>> \in stopped BY <2>3, <3>1, ListableAre
    <3>. QED BY <1>5, <3>1, <3>2 DEF CurrentClaim, Grounded
  <2>. QED BY <2>1, <2>2, <2>3
<1>6. ASSUME NEW act \in Decisions(s, inst) PROVE act \in Action /\ Sensible(act)
  <2>1. PICK k \in Kinds(row, inst) : act = Act(k, s, g, g) /\ Recorded(row)
    BY <1>6 DEF Decisions
  <2>2. /\ act.kind = k /\ act.sandbox = s /\ act.generation = g /\ act \in Action
    BY <1>0, <1>1, <2>1 DEF Act, Action, ActionKind
  <2>3. Known(s) /\ g <= generation[s] BY <1>0, <2>1 DEF TrueOf
  <2>4. k # "isolate" BY <1>1
  <2>. QED BY <1>5, <2>1, <2>2, <2>3, <2>4 DEF Sensible
<1>. QED BY <1>4, <1>6

LEMMA DiffPlans ==
    ASSUME RowTypes, view # <<>> => ViewTypes, ViewTrue, Diff
    PROVE  /\ plan' \in Seq(Action)
           /\ \A i \in DOMAIN plan' : Sensible(plan'[i])
<1>0. view # <<>> /\ ViewTypes BY DEF Diff
<1>1. PICK a \in Inspections :
         plan' = Planned(UNION {a[s].isolations : s \in Sandbox},
                         UNION {a[s].decisions : s \in Sandbox})
  BY DEF Diff
<1>. DEFINE I == UNION {a[s].isolations : s \in Sandbox}
            D == UNION {a[s].decisions : s \in Sandbox}
<1>2. ASSUME NEW s \in Sandbox
      PROVE  /\ IsFiniteSet(a[s].isolations) /\ IsFiniteSet(a[s].decisions)
             /\ \A act \in a[s].isolations : act \in Action /\ Sensible(act)
             /\ \A act \in a[s].decisions : act \in Action /\ Sensible(act)
  <2>1. a[s] \in UNION {Assessments(r) : r \in Sandbox} /\ a[s].sandbox = s
    BY DEF Inspections
  <2>2. PICK r \in Sandbox : a[s] \in Assessments(r) BY <2>1
  <2>3. PICK strangers \in SUBSET Strangers(r), inst \in Evidence(r) :
           a[s] = Assess(r, strangers, inst)
    BY <2>2 DEF Assessments
  <2>4. /\ r = s /\ a[s].isolations = Isolations(r, strangers)
        /\ a[s].decisions = Decisions(r, inst)
    BY <2>1, <2>3 DEF Assess
  <2>5. /\ IsFiniteSet(Isolations(r, strangers))
        /\ \A act \in Isolations(r, strangers) : act \in Action /\ Sensible(act)
    BY <1>0, IsolationsAre
  <2>6. /\ IsFiniteSet(Decisions(r, inst))
        /\ \A act \in Decisions(r, inst) : act \in Action /\ Sensible(act)
    BY <1>0, DecisionsAre
  <2>. QED BY <2>4, <2>5, <2>6
<1>3. IsFiniteSet({a[s].isolations : s \in Sandbox}) /\ IsFiniteSet({a[s].decisions : s \in Sandbox})
  <2>. DEFINE f == [s \in Sandbox |-> a[s].isolations]
              g == [s \in Sandbox |-> a[s].decisions]
  <2>1. f \in Surjection(Sandbox, {a[s].isolations : s \in Sandbox})
        /\ g \in Surjection(Sandbox, {a[s].decisions : s \in Sandbox})
    BY DEF Surjection
  <2>2. IsFiniteSet(Sandbox) BY ReconcilerAssumption
  <2>. HIDE DEF f, g
  <2>3. IsFiniteSet({a[s].isolations : s \in Sandbox}) BY <2>1, <2>2, FS_Surjection
  <2>4. IsFiniteSet({a[s].decisions : s \in Sandbox}) BY <2>1, <2>2, FS_Surjection
  <2>. QED BY <2>3, <2>4
<1>4. IsFiniteSet(I) /\ IsFiniteSet(D) BY <1>2, <1>3, FS_UNION
<1>5. \A act \in I \cup D : act \in Action /\ Sensible(act) BY <1>2
<1>6. I \in SUBSET Action /\ D \in SUBSET Action BY <1>5
<1>7. plan' = Planned(I, D) BY <1>1
<1>. HIDE DEF I, D
<1>8. plan' \in Seq(Action) /\ \A i \in DOMAIN plan' : plan'[i] \in I \cup D
  BY <1>4, <1>6, <1>7, PlannedFrom
<1>. QED BY <1>5, <1>8

-----------------------------------------------------------------------------
(* A row that exists is never forgotten. *)
LEMMA KnownStays ==
    ASSUME SerialInv, [AnyNext]_vars, NEW r \in Sandbox, Known(r)
    PROVE  Known(r)'
<1>1. /\ Inv0 /\ Serialized /\ observed \in [Sandbox -> Observed]
  BY DEF SerialInv, Inv0, TypeInv, TypeOK, RowTypes
<1>2. CASE UNCHANGED <<rowVars, expired>> BY <1>2 DEF Known
<1>3. ASSUME NEW o \in OpId, Settled(o) PROVE Known(r)'
  <2>1. /\ opType[o] \in OpType
        /\ observed' = [observed EXCEPT ![opSandbox[o]] = SettledState(o)]
    BY <1>1, <1>3, SettledFrame
  <2>2. SettledState(o) # "Absent" BY <2>1, MapTypes DEF SettledState
  <2>. QED BY <1>1, <2>1, <2>2 DEF Known
<1>4. ASSUME NEW s \in Sandbox, RowStep(s) PROVE Known(r)'
  <2>1. ASSUME NEW g \in 1..generation[s], NEW obs \in EvidenceStates, ApplyEvent(s, g, obs)
        PROVE  Known(r)'
    <3>1. obs # "Absent" BY ConstantsAssumption
    <3>. QED BY <1>1, <2>1, <3>1 DEF ApplyEvent, Known
  <2>2. ASSUME NEW row \in InitialRows, CreateSandbox(s, row) PROVE Known(r)'
    BY <1>1, <2>2 DEF CreateSandbox, Known
  <2>. QED
    BY <1>1, <1>4, <2>1, <2>2 DEF RowStep, MarkLost, MarkReconciled, MarkUncertain, Known
<1>5. ASSUME NEW s \in Sandbox, NEW t \in OpType, NEW k \in Key \cup {None}, RequestAccepted(s, t, k)
      PROVE  Known(r)'
  <2>1. IntermediateState[t] # "Absent" BY MapTypes DEF Intermediate
  <2>. QED BY <1>1, <1>5, <2>1 DEF RequestAccepted, Known
<1>. QED BY <1>1, <1>2, <1>3, <1>4, <1>5, RowCases

(* A verdict holds until the next generation. *)
LEMMA VerdictStays ==
    ASSUME SerialInv, [AnyNext]_vars, NEW r \in Sandbox, reconciled[r],
           generation'[r] = generation[r]
    PROVE  reconciled'[r]
<1>1. Inv0 /\ Serialized /\ RowTypes BY DEF SerialInv, Inv0, TypeInv, TypeOK
<1>2. CASE UNCHANGED rowVars BY <1>2
<1>3. ASSUME NEW o \in OpId, Settled(o) PROVE reconciled'[r]
  BY <1>1, <1>3, SettledFrame
<1>4. ASSUME NEW s \in Sandbox, RowStep(s) PROVE reconciled'[r]
  <2>1. CASE MarkReconciled(s) BY <1>1, <2>1 DEF MarkReconciled, RowTypes
  <2>. QED BY <1>4, <2>1 DEF RowStep, MarkLost, MarkUncertain, ApplyEvent, CreateSandbox
<1>5. ASSUME NEW s \in Sandbox, NEW t \in OpType, NEW k \in Key \cup {None}, RequestAccepted(s, t, k)
      PROVE  reconciled'[r]
  <2>1. CASE s = r /\ t = "resume"
    <3>1. generation'[r] = generation[r] + 1
      BY <1>1, <1>5, <2>1 DEF RequestAccepted, NextGeneration, RowTypes
    <3>. QED BY <1>1, <3>1 DEF RowTypes
  <2>2. CASE ~(s = r /\ t = "resume")
    BY <1>1, <1>5, <2>2 DEF RequestAccepted, RowTypes
  <2>. QED BY <2>1, <2>2
<1>. QED BY <1>1, <1>2, <1>3, <1>4, <1>5, RowCases

-----------------------------------------------------------------------------
Superseded(claim) ==
    claim.generation # claim.asOf /\ claim.asOf <= generation[claim.sandbox]
RecInv ==
    /\ RowBase /\ RecTypeOK /\ PlanSensible /\ ViewTrue
    /\ \A claim \in isolated : Superseded(claim)

LEMMA HeadIs ==
    ASSUME RecInv, plan # <<>>
    PROVE  /\ Head(plan) \in Action /\ Head(plan).sandbox \in Sandbox
           /\ Head(plan).generation \in Nat /\ Head(plan).asOf \in Nat
           /\ Sensible(Head(plan))
           /\ Tail(plan) \in Seq(Action)
           /\ \A i \in DOMAIN Tail(plan) : Sensible(Tail(plan)[i])
<1>1. plan \in Seq(Action) /\ \A i \in 1..Len(plan) : Sensible(plan[i])
  BY DEF RecInv, RecTypeOK, PlanSensible
<1>2. /\ Head(plan) \in Action /\ Tail(plan) \in Seq(Action) /\ Head(plan) = plan[1]
      /\ Len(plan) \in Nat \ {0} /\ DOMAIN Tail(plan) = 1..(Len(plan) - 1)
      /\ \A i \in 1..(Len(plan) - 1) : Tail(plan)[i] = plan[i + 1]
  BY <1>1
<1>3. Sensible(Head(plan)) BY <1>1, <1>2
<1>4. \A i \in DOMAIN Tail(plan) : Sensible(Tail(plan)[i])
  <2>. SUFFICES ASSUME NEW i \in 1..(Len(plan) - 1) PROVE Sensible(Tail(plan)[i])
    BY <1>2
  <2>1. i + 1 \in 1..Len(plan) BY <1>2
  <2>. QED BY <1>1, <1>2, <2>1
<1>. QED BY <1>2, <1>3, <1>4 DEF Action

(* Every step of the reconciler and of those around it is one the log      *)
(* allows, or leaves the log alone.                                        *)
LEMMA RecStepIsLogStep ==
    ASSUME RecInv, [RecNext]_allVars
    PROVE  [AnyNext]_vars
<1>1. Serving /\ plan # <<>> /\ Head(plan).kind = "keep" /\ FlagUncertain(Head(plan).sandbox)
      /\ UNCHANGED <<observed, desired, generation, version, reserved, reconciled,
                     pending, writer, opVars, keyVars, ledgerVars, runtime, processVars>>
      => [AnyNext]_vars
  <2>. SUFFICES ASSUME Serving, plan # <<>>, Head(plan).kind = "keep",
                       FlagUncertain(Head(plan).sandbox),
                       UNCHANGED <<observed, desired, generation, version, reserved, reconciled,
                                   pending, writer, opVars, keyVars, ledgerVars, runtime,
                                   processVars>>
                PROVE  [AnyNext]_vars
    OBVIOUS
  <2>. DEFINE s == Head(plan).sandbox
  <2>1. s \in Sandbox /\ Known(s) BY HeadIs DEF Sensible
  <2>2. uncertain \in [Sandbox -> BOOLEAN]
    BY RowBaseFacts DEF RecInv, RowTypes
  <2>3. uncertain' = [uncertain EXCEPT ![s] = TRUE] BY DEF FlagUncertain
  <2>. HIDE DEF s
  <2>4. CASE uncertain[s]
    <3>1. uncertain' = uncertain BY <2>1, <2>2, <2>3, <2>4
    <3>. QED BY <3>1 DEF vars
  <2>5. CASE ~uncertain[s]
    <3>1. MarkUncertain(s) BY <2>1, <2>3, <2>5 DEF MarkUncertain, FlagUncertain
    <3>. QED BY <2>1, <3>1 DEF AnyNext, RowStep
  <2>. QED BY <2>4, <2>5
<1>2. CASE OthersStep BY <1>2 DEF OthersStep, AnyNext
<1>3. CASE Crash BY <1>3 DEF AnyNext
<1>4. CASE UNCHANGED vars BY <1>4
<1>5. CASE Apply
  <2>1. CASE ApplyKeep BY <1>1, <2>1 DEF ApplyKeep, AtHead
  <2>2. CASE ApplyIsolate \/ ReadRow BY <2>2 DEF ApplyIsolate, ReadRow
  <2>3. CASE GiveVerdict
    <3>1. Head(plan).sandbox \in Sandbox /\ MarkReconciled(Head(plan).sandbox)
      BY <2>3, HeadIs DEF GiveVerdict, AtHead
    <3>. QED BY <3>1 DEF AnyNext, RowStep
  <2>4. CASE ApplyRequest
    <3>1. CASE UNCHANGED vars BY <3>1
    <3>2. CASE RequestAccepted(Head(plan).sandbox, Wanted, None)
      <4>1. Head(plan).sandbox \in Sandbox BY <2>4, HeadIs DEF ApplyRequest, AtHead
      <4>2. Wanted \in OpType BY DEF Wanted, OpType
      <4>. QED BY <3>2, <4>1, <4>2 DEF AnyNext, RequestStep
    <3>. QED BY <2>4, <3>1, <3>2 DEF ApplyRequest
  <2>. QED BY <1>5, <2>1, <2>2, <2>3, <2>4 DEF Apply
<1>6. CASE Diff \/ ReadRows BY <1>6 DEF Diff, ReadRows
<1>7. ASSUME NEW s \in Sandbox, InstanceStops(s) PROVE UNCHANGED vars
  BY <1>7 DEF InstanceStops
<1>8. CASE UNCHANGED allVars BY <1>8 DEF allVars
<1>. QED BY <1>2, <1>3, <1>4, <1>5, <1>6, <1>7, <1>8 DEF RecNext

(* Evidence of a stop is never withdrawn. *)
LEMMA StoppedGrows ==
    ASSUME RecInv, [RecNext]_allVars
    PROVE  stopped \subseteq stopped' /\ stopped' \subseteq Sandbox \X Nat
<1>1. stopped \subseteq Sandbox \X Nat /\ generation \in [Sandbox -> Nat]
  BY RowBaseFacts DEF RecInv, RecTypeOK, RowTypes
<1>2. CASE UNCHANGED stopped BY <1>1, <1>2
<1>3. ASSUME NEW s \in Sandbox, InstanceStops(s)
      PROVE  stopped \subseteq stopped' /\ stopped' \subseteq Sandbox \X Nat
  BY <1>1, <1>3 DEF InstanceStops
<1>. QED
  BY <1>2, <1>3
     DEF RecNext, recVars, allVars, Apply, ApplyIsolate, ApplyKeep, ReadRow, GiveVerdict,
         ApplyRequest, Diff, ReadRows

(* Nothing that was read or decided becomes wrong by what others do: rows  *)
(* only move to later generations.                                         *)
StillGrounded(s) == reconciled'[s] \/ <<s, generation'[s]>> \in stopped'
Forward(s) ==
    /\ generation[s] \in Nat /\ generation'[s] \in Nat /\ generation'[s] >= generation[s]
    /\ Known(s) => observed'[s] # "Absent"
    /\ generation'[s] = generation[s] => (reconciled[s] => reconciled'[s])
    /\ generation'[s] = generation[s] => (Grounded(s) => StillGrounded(s))

LEMMA RowsMoveForward ==
    ASSUME RecInv, [RecNext]_allVars, NEW s \in Sandbox
    PROVE  Forward(s)
<1>1. [AnyNext]_vars BY RecStepIsLogStep
<1>2. RowBase' BY <1>1, Inv0Next, SerialNext, FreshNext, BlankNext, AcceptedRowsNext
                  DEF RecInv, RowBase, SerialInv
<1>3. generation[s] \in Nat /\ generation'[s] \in Nat
  BY <1>2, RowBaseFacts DEF RecInv, RowTypes, RowBase, SerialInv, Inv0, TypeInv, TypeOK
<1>4. generation'[s] >= generation[s] BY <1>1, GenerationGrows DEF RecInv, RowBase
<1>5. Known(s) => observed'[s] # "Absent" BY <1>1, KnownStays DEF RecInv, RowBase, Known
<1>6. generation'[s] = generation[s] => (reconciled[s] => reconciled'[s])
  BY <1>1, VerdictStays DEF RecInv, RowBase
<1>7. generation'[s] = generation[s] => (Grounded(s) => StillGrounded(s))
  BY <1>6, StoppedGrows DEF Grounded, StillGrounded
<1>. QED BY <1>3, <1>4, <1>5, <1>6, <1>7 DEF Forward

(* Sensible, TrueOf and Superseded after a step, of what was decided, read *)
(* or isolated before it.                                                  *)
StillSensible(act) ==
    /\ act.kind = "isolate" =>
          act.generation # act.asOf /\ act.asOf <= generation'[act.sandbox]
    /\ act.kind # "isolate" => observed'[act.sandbox] # "Absent"
    /\ act.kind = "recreate" =>
          /\ act.generation <= generation'[act.sandbox]
          /\ act.generation = generation'[act.sandbox] => StillGrounded(act.sandbox)
StillTrueOf(row, s) ==
    /\ row.generation <= generation'[s]
    /\ IF Recorded(row) THEN observed'[s] # "Absent" ELSE row.generation = 0
    /\ row.reconciled /\ row.generation = generation'[s] => reconciled'[s]
StillSuperseded(claim) ==
    claim.generation # claim.asOf /\ claim.asOf <= generation'[claim.sandbox]

LEMMA SensibleStays ==
    ASSUME NEW act \in Action, Sensible(act), Forward(act.sandbox)
    PROVE  StillSensible(act)
<1>. DEFINE s == act.sandbox
<1>1. act.generation \in Nat /\ act.asOf \in Nat BY DEF Action
<1>2. act.kind = "isolate" => act.generation # act.asOf /\ act.asOf <= generation'[s]
  BY <1>1 DEF Sensible, Stranger, Forward
<1>3. act.kind # "isolate" => observed'[s] # "Absent" BY DEF Sensible, Forward
<1>4. ASSUME act.kind = "recreate"
      PROVE  /\ act.generation <= generation'[s]
             /\ act.generation = generation'[s] => StillGrounded(s)
  <2>1. act.generation <= generation[s] /\ (act.generation = generation[s] => Grounded(s))
    BY <1>4 DEF Sensible
  <2>2. act.generation <= generation'[s] BY <1>1, <2>1 DEF Forward
  <2>3. act.generation = generation'[s] => generation'[s] = generation[s]
    BY <1>1, <2>1 DEF Forward
  <2>. QED BY <2>1, <2>2, <2>3 DEF Forward
<1>. QED BY <1>2, <1>3, <1>4 DEF StillSensible

LEMMA ViewStays ==
    ASSUME NEW s \in Sandbox, NEW row \in RowView, TrueOf(row, s), Forward(s)
    PROVE  StillTrueOf(row, s)
<1>1. row.generation \in Nat BY DEF RowView
<1>2. row.generation <= generation'[s] BY <1>1 DEF TrueOf, Forward
<1>3. row.generation = generation'[s] => generation'[s] = generation[s]
  BY <1>1 DEF TrueOf, Forward
<1>4. row.reconciled /\ row.generation = generation'[s] => reconciled'[s]
  BY <1>3 DEF TrueOf, Forward
<1>5. IF Recorded(row) THEN observed'[s] # "Absent" ELSE row.generation = 0
  BY DEF TrueOf, Forward
<1>. QED BY <1>2, <1>4, <1>5 DEF StillTrueOf

LEMMA PlanNext ==
    ASSUME RecInv, [RecNext]_allVars
    PROVE  plan' \in Seq(Action) /\ PlanSensible'
<1>1. plan \in Seq(Action) /\ (\A i \in DOMAIN plan : Sensible(plan[i]))
  BY DEF RecInv, RecTypeOK, PlanSensible
<1>2. ASSUME NEW p \in Seq(Action), \A i \in DOMAIN p : Sensible(p[i])
      PROVE  \A i \in DOMAIN p : StillSensible(p[i])
  <2>. SUFFICES ASSUME NEW i \in DOMAIN p PROVE StillSensible(p[i])
    OBVIOUS
  <2>1. p[i] \in Action /\ Sensible(p[i]) BY <1>2
  <2>2. p[i].sandbox \in Sandbox BY <2>1 DEF Action
  <2>3. Forward(p[i].sandbox) BY <2>2, RowsMoveForward
  <2>. QED BY <2>1, <2>3, SensibleStays
<1>3. (\A i \in DOMAIN plan' : StillSensible(plan'[i])) => PlanSensible'
  BY DEF PlanSensible, Sensible, Stranger, StillSensible, Known, Grounded, StillGrounded
<1>4. CASE plan' = plan BY <1>1, <1>2, <1>3, <1>4
<1>5. CASE plan' = <<>> BY <1>3, <1>5
<1>6. CASE plan # <<>> /\ plan' = Tail(plan)
  <2>1. Tail(plan) \in Seq(Action) /\ \A i \in DOMAIN Tail(plan) : Sensible(Tail(plan)[i])
    BY <1>6, HeadIs
  <2>2. \A i \in DOMAIN Tail(plan) : StillSensible(Tail(plan)[i]) BY <1>2, <2>1
  <2>. QED BY <1>3, <1>6, <2>1, <2>2
<1>7. CASE Diff
  <2>1. view # <<>> => ViewTypes BY DEF RecInv, RecTypeOK, ViewTypes
  <2>2. plan' \in Seq(Action) /\ \A i \in DOMAIN plan' : Sensible(plan'[i])
    BY <1>7, <2>1, DiffPlans, RowBaseFacts DEF RecInv
  <2>3. UNCHANGED <<generation, observed, reconciled, stopped>> BY <1>7 DEF Diff, vars
  <2>4. ASSUME NEW act, Sensible(act) PROVE StillSensible(act)
    BY <2>3, <2>4 DEF Sensible, Stranger, Known, Grounded, StillSensible, StillGrounded
  <2>. QED BY <1>3, <2>2, <2>4
<1>. QED
  BY <1>1, <1>4, <1>5, <1>6, <1>7
     DEF RecNext, recVars, allVars, Apply, ApplyIsolate, ApplyKeep, ReadRow, GiveVerdict,
         ApplyRequest, AtHead, Done, Raised, InstanceStops, ReadRows

LEMMA ViewNext ==
    ASSUME RecInv, [RecNext]_allVars
    PROVE  view' \in {<<>>} \cup [Sandbox -> RowView] /\ ViewTrue'
<1>1. view \in {<<>>} \cup [Sandbox -> RowView] BY DEF RecInv, RecTypeOK
<1>2. (\A s \in Sandbox : StillTrueOf(view'[s], s)) => ViewTrue'
  BY DEF ViewTrue, TrueOf, StillTrueOf, Known, Recorded
<1>3. CASE view' = <<>> BY <1>3 DEF ViewTrue
<1>4. CASE view' = view /\ view # <<>>
  <2>1. ASSUME NEW s \in Sandbox PROVE StillTrueOf(view[s], s)
    <3>1. view[s] \in RowView /\ TrueOf(view[s], s) BY <1>1, <1>4 DEF RecInv, ViewTrue
    <3>2. Forward(s) BY RowsMoveForward
    <3>. QED BY <3>1, <3>2, ViewStays
  <2>. QED BY <1>1, <1>2, <1>4, <2>1
<1>5. CASE ReadRows
  <2>1. RowTypes /\ Blank BY RowBaseFacts DEF RecInv
  <2>2. view' = [s \in Sandbox |-> RowOf(s)] BY <1>5 DEF ReadRows
  <2>3. UNCHANGED <<generation, observed, reconciled>> BY <1>5 DEF ReadRows, vars
  <2>4. ASSUME NEW s \in Sandbox PROVE RowOf(s) \in RowView /\ StillTrueOf(RowOf(s), s)
    <3>1. /\ RowOf(s).observed = observed[s] /\ RowOf(s).desired = desired[s]
          /\ RowOf(s).generation = generation[s] /\ RowOf(s).reconciled = reconciled[s]
      BY DEF RowOf
    <3>2. RowOf(s) \in RowView BY <2>1 DEF RowOf, RowView, RowTypes
    <3>3. generation[s] <= generation[s] BY <2>1 DEF RowTypes
    <3>. QED BY <2>1, <2>3, <3>1, <3>2, <3>3 DEF StillTrueOf, Recorded, Known, Blank
  <2>5. view' \in [Sandbox -> RowView] BY <2>2, <2>4
  <2>6. \A s \in Sandbox : StillTrueOf(view'[s], s) BY <2>2, <2>4
  <2>. QED BY <1>2, <2>5, <2>6
<1>. QED
  BY <1>1, <1>3, <1>4, <1>5
     DEF RecNext, recVars, allVars, Apply, ApplyIsolate, ApplyKeep, ReadRow, GiveVerdict,
         ApplyRequest, InstanceStops, Diff

LEMMA IsolatedNext ==
    ASSUME RecInv, [RecNext]_allVars
    PROVE  isolated' \subseteq Claim /\ \A claim \in isolated' : Superseded(claim)'
<1>1. isolated \subseteq Claim /\ \A claim \in isolated : Superseded(claim)
  BY DEF RecInv, RecTypeOK
<1>2. ASSUME isolated' \subseteq Claim, \A claim \in isolated' : StillSuperseded(claim)
      PROVE  isolated' \subseteq Claim /\ \A claim \in isolated' : Superseded(claim)'
  BY <1>2 DEF Superseded, StillSuperseded
<1>3. CASE UNCHANGED isolated
  <2>1. ASSUME NEW claim \in isolated PROVE StillSuperseded(claim)
    <3>1. /\ claim.sandbox \in Sandbox /\ claim.generation \in Nat /\ claim.asOf \in Nat
          /\ Superseded(claim)
      BY <1>1 DEF Claim
    <3>2. Forward(claim.sandbox) BY <3>1, RowsMoveForward
    <3>. QED BY <3>1, <3>2 DEF Superseded, StillSuperseded, Forward
  <2>. QED BY <1>1, <1>2, <1>3, <2>1
<1>4. CASE ApplyIsolate
  <2>. DEFINE act == Head(plan)
              claim == [sandbox |-> act.sandbox, generation |-> act.generation, asOf |-> act.asOf]
  <2>1. /\ act.sandbox \in Sandbox /\ act.generation \in Nat /\ act.asOf \in Nat
        /\ Stranger(act)
    BY <1>4, HeadIs DEF ApplyIsolate, AtHead, Sensible
  <2>2. isolated' = {claim} /\ generation' = generation BY <1>4 DEF ApplyIsolate, vars
  <2>3. /\ claim.sandbox = act.sandbox /\ claim.generation = act.generation
        /\ claim.asOf = act.asOf /\ claim \in Claim
    BY <2>1 DEF Claim
  <2>. HIDE DEF act, claim
  <2>4. StillSuperseded(claim) BY <2>1, <2>2, <2>3 DEF StillSuperseded, Stranger
  <2>. QED BY <1>2, <2>2, <2>3, <2>4
<1>. QED
  BY <1>3, <1>4
     DEF RecNext, recVars, allVars, Apply, ApplyKeep, ReadRow, GiveVerdict, ApplyRequest,
         InstanceStops, Diff, ReadRows

LEMMA StageNext ==
    ASSUME RecInv, [RecNext]_allVars
    PROVE  stage' \in Stage /\ readAt' \in Nat
<1>1. stage \in Stage /\ readAt \in Nat /\ version \in [Sandbox -> Nat]
  BY RowBaseFacts DEF RecInv, RecTypeOK, RowTypes
<1>2. CASE UNCHANGED <<stage, readAt>> BY <1>1, <1>2
<1>3. CASE Reset BY <1>3 DEF Reset, Stage
<1>4. CASE ReadRow
  <2>1. Head(plan).sandbox \in Sandbox BY <1>4, HeadIs DEF ReadRow, AtHead
  <2>. QED BY <1>1, <1>4, <2>1 DEF ReadRow, Stage
<1>5. CASE GiveVerdict BY <1>1, <1>5 DEF GiveVerdict, Stage
<1>. QED
  BY <1>2, <1>3, <1>4, <1>5
     DEF RecNext, recVars, allVars, Apply, ApplyIsolate, ApplyKeep, ApplyRequest, Done, Raised,
         InstanceStops, Diff, ReadRows

LEMMA RecInvNext == ASSUME RecInv, [RecNext]_allVars PROVE RecInv'
<1>1. RowBase'
  BY RecStepIsLogStep, Inv0Next, SerialNext, FreshNext, BlankNext, AcceptedRowsNext
     DEF RecInv, RowBase, SerialInv
<1>. QED
  BY <1>1, PlanNext, ViewNext, IsolatedNext, StageNext, StoppedGrows DEF RecInv, RecTypeOK

LEMMA RecInvariant == RecSpec => []RecInv
<1>1. RecInit => RecInv
  <2>1. RecInit => RowBase BY RowInvInit DEF RecInit, RowInv
  <2>. QED BY <2>1 DEF RecInit, RecInv, RecTypeOK, PlanSensible, ViewTrue, Stage
<1>2. RecInv /\ [RecNext]_allVars => RecInv' BY RecInvNext
<1>. QED BY <1>1, <1>2, PTL DEF RecSpec

(* What was isolated for a human is not the instance of its row, when it   *)
(* is flagged and ever after, unless that instance was started after the   *)
(* rows were read for the comparison (diff, apply).                        *)
THEOREM IsolatedSupersededAlways == RecSpec => []IsolatedSuperseded
<1>1. RecInv => IsolatedSuperseded
  <2>. SUFFICES ASSUME RecInv, NEW claim \in isolated,
                       claim.generation = generation[claim.sandbox]
                PROVE  claim.asOf < claim.generation
    BY DEF RecInv, IsolatedSuperseded
  <2>1. claim.generation \in Nat /\ claim.asOf \in Nat /\ Superseded(claim)
    BY DEF RecInv, RecTypeOK, Claim
  <2>. QED BY <2>1 DEF Superseded
<1>. QED BY <1>1, RecInvariant, PTL

(* For as long as the row of a waiting recreation is of the generation it  *)
(* was decided on, that row has a verdict, or its instance was seen to     *)
(* stop, whatever the inventory listed and whoever moved the row (diff).   *)
THEOREM PlannedFromCurrentAlways == RecSpec => []PlannedFromCurrent
<1>1. RecInv => PlannedFromCurrent
  BY DEF RecInv, PlanSensible, Sensible, Grounded, PlannedFromCurrent
<1>. QED BY <1>1, RecInvariant, PTL

(* The log keeps its promises while a reconciler drives it, between the    *)
(* reads and requests of apply and across crashes that lose its plan: the  *)
(* same rows, ledger and outcomes, the same versions and answers to keys,  *)
(* and still an IntentionLog.                                              *)
THEOREM ReconciledLogSafe ==
    RecSpec => /\ []RowsConsistent /\ []LedgerAgrees
               /\ TerminalStable /\ VersionFences /\ KeysHonoured
               /\ AbstractSpec
<1>1. RecInit => RowInv /\ LedgerInv
  BY RowInvInit, TypeInit, ReadyInit, SerialInit, LedgerInit DEF RecInit, LedgerInv, SerialInv, Inv0
<1>2. RowInv /\ LedgerInv /\ [AnyNext]_vars => RowInv' /\ LedgerInv'
  BY RowInvNext, Inv0Next, SerialNext, FreshNext, LedgerNext DEF LedgerInv, SerialInv
<1>3. RecInv /\ [RecNext]_allVars => [AnyNext]_vars BY RecStepIsLogStep
<1>4. RowInv /\ LedgerInv => /\ RowsConsistent /\ LedgerAgrees /\ SerialInv /\ Blank
  BY DEF RowInv, RowBase, LedgerInv
<1>5. SerialInv /\ [AnyNext]_vars =>
        [\A o \in OpId : opState[o] \in Terminal =>
             opState'[o] = opState[o] /\ opCause'[o] = opCause[o]]_vars
  BY TerminalNext
<1>6. SerialInv /\ Blank /\ [AnyNext]_vars =>
        [\A s \in Sandbox : version'[s] = version[s] =>
          /\ observed'[s] = observed[s] /\ desired'[s] = desired[s]
          /\ generation'[s] = generation[s] /\ reconciled'[s] = reconciled[s]
          /\ pending'[s] = pending[s]]_vars
  BY VersionNext
<1>7. SerialInv /\ [AnyNext]_vars =>
      [\A k \in Key :
          /\ \A a \in answered'[k] \ answered[k] : opSandbox'[a[3]] = a[1] /\ opType'[a[3]] = a[2]
          /\ idem[k] # NoOp =>
                /\ idem'[k] = idem[k]
                /\ \A a \in answered'[k] \ answered[k] : a[3] = idem[k]]_vars
  BY KeysNext DEF KeyKept
<1>8. RecInit => Abstract!Init BY AbstractInit DEF RecInit
<1>9. LedgerInv /\ [AnyNext]_vars => [Abstract!Next]_(Abstract!vars) BY AbstractNext
<1>. QED
  BY <1>1, <1>2, <1>3, <1>4, <1>5, <1>6, <1>7, <1>8, <1>9, RecInvariant, PTL
     DEF RecSpec, TerminalStable, VersionFences, KeysHonoured, AbstractSpec, Abstract!Spec
=============================================================================
