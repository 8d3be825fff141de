----------------------------- MODULE Reconciler -----------------------------
(***************************************************************************)
(* The reconciler of scripts/operation_reconcile.py on top of the          *)
(* operation log: diff compares a copy of the rows with the runner's       *)
(* inventory and decides a list of actions, apply drives them through the  *)
(* log one by one.  Nothing locks the log between the two readings, nor    *)
(* between deciding and doing, nor between an action's read of a row and   *)
(* its request, so clients, workers, leases and evidence interleave; an    *)
(* action the log refuses raises, and the rest of the list is not applied. *)
(***************************************************************************)
EXTENDS OperationLog, SequencesExt

CONSTANTS
    InventoryStates, \* instance states the runner's inventory reports
    UserOps          \* bound: operations requested by others than the reconciler

ASSUME ReconcilerAssumption ==
    /\ InventoryStates \subseteq {"Active", "Idle", "Suspend", "Error", "Lost"}
    /\ UserOps \in 0..MaxOps
    /\ IsFiniteSet(Sandbox)   \* diff walks the log's rows one by one

VARIABLES
    plan,      \* actions decided and not yet applied
    stage,     \* how far the head action has got
    readAt,    \* version of the row the head action has read
    isolated,  \* the instance last flagged for a human decision, as a Claim;
               \* each flag stands for itself, so the others are forgotten
    view,      \* the rows as last read for diff; <<>> when diff has used them
    \* the world: generations whose stop the runner can give evidence of
    stopped

recVars == <<plan, stage, readAt, isolated, view, stopped>>
allVars == <<vars, recVars>>

Stage == {"read", "verdict", "reread", "request"}
Absent == [state |-> "none"]

ActionKind == {"isolate", "keep", "suspend", "recreate"}
RowView == [observed : Observed, desired : Desired, generation : Nat, reconciled : BOOLEAN]

(* asOf is auxiliary: the generation of the row the action was decided on. *)
Action == [kind : ActionKind, sandbox : Sandbox, generation : Nat, asOf : Nat]
Claim == [sandbox : Sandbox, generation : Nat, asOf : Nat]

RecTypeOK ==
    /\ plan \in Seq(Action)
    /\ stage \in Stage /\ readAt \in Nat
    /\ isolated \subseteq Claim
    /\ view \in {<<>>} \cup [Sandbox -> RowView]
    /\ stopped \subseteq Sandbox \X Nat

RecInit ==
    /\ Init
    /\ plan = <<>> /\ stage = "read" /\ readAt = 0
    /\ isolated = {} /\ view = <<>> /\ stopped = {}

-----------------------------------------------------------------------------
(* diff is given two readings, taken one after the other: a copy of the    *)
(* rows and the runner's inventory.  The rows move in between.             *)
RowOf(s) == [observed |-> observed[s], desired |-> desired[s],
             generation |-> generation[s], reconciled |-> reconciled[s]]
ReadRows ==
    /\ Serving /\ plan = <<>>
    /\ view' = [s \in Sandbox |-> RowOf(s)]
    /\ UNCHANGED <<vars, plan, stage, readAt, isolated, stopped>>

(* What the evidence about one row calls for.  Only an instance of the     *)
(* generation read is evidence; any other claim is isolated, and so is one *)
(* of a sandbox that had no row.                                           *)
BelievedClaim(row, inst) == TRUE
NoClaim(row, inst) == FALSE
Recorded(row) == row.observed # "Absent"
CurrentClaim(row, inst) == Recorded(row) /\ inst.generation = row.generation

ObservedState(row, inst) == IF inst # Absent THEN inst.state ELSE row.observed
StopEvidence(inst) == inst # Absent /\ inst.stopEvidence
IsLost(row, inst) == "Lost" \in {row.observed, ObservedState(row, inst)}

Kinds(row, inst) ==
    IF IsLost(row, inst) /\ ~StopEvidence(inst) THEN {"keep"}
    ELSE IF row.desired = "Suspend" /\ ObservedState(row, inst) \in {"Active", "Idle"}
      THEN {"suspend"}
    ELSE IF /\ row.desired = "Active" /\ ObservedState(row, inst) \in Gated
            /\ row.reconciled \/ StopEvidence(inst)
      THEN {"recreate"}
    ELSE {}

(* The runner's inventory, which may have been read before or after the    *)
(* rows: it may miss an instance, list several, list one of an older       *)
(* generation or of one the copy of the rows does not know yet, and one    *)
(* under the id of a sandbox that has no row.  It has stop evidence only   *)
(* of what has stopped.                                                    *)
Listable(s) ==
    {inst \in [state : InventoryStates, generation : {1} \cup 1..generation[s],
               stopEvidence : BOOLEAN] :
        inst.stopEvidence => /\ <<s, inst.generation>> \in stopped
                             /\ inst.state \notin {"Active", "Idle"}}
Strangers(s) == {inst.generation : inst \in {i \in Listable(s) : ~CurrentClaim(view[s], i)}}
(* The first current claim listed is the evidence about a row. *)
Evidence(s) == {Absent} \cup {i \in Listable(s) : CurrentClaim(view[s], i)}

Act(kind, s, g, asOf) == [kind |-> kind, sandbox |-> s, generation |-> g, asOf |-> asOf]
Isolations(s, strangers) ==
    {Act("isolate", s, g, view[s].generation) : g \in strangers}
Decisions(s, inst) ==
    LET g == view[s].generation
    IN  IF Recorded(view[s]) THEN {Act(kind, s, g, g) : kind \in Kinds(view[s], inst)} ELSE {}
Planned(isolations, decisions) == SetToSeq(isolations) \o SetToSeq(decisions)

(* What an inventory may lead to for one sandbox, and for all of them. *)
Assess(s, strangers, inst) ==
    [sandbox |-> s, isolations |-> Isolations(s, strangers), decisions |-> Decisions(s, inst)]
Assessments(s) ==
    {Assess(s, strangers, inst) : strangers \in SUBSET Strangers(s), inst \in Evidence(s)}
Inspections ==
    LET assessed == UNION {Assessments(s) : s \in Sandbox}
    IN  {a \in [Sandbox -> assessed] : \A s \in Sandbox : a[s].sandbox = s}

Diff ==
    /\ Serving /\ plan = <<>> /\ view # <<>>
    /\ view' = <<>>
    /\ UNCHANGED <<vars, stage, readAt, isolated, stopped>>
    /\ \E a \in Inspections :
          plan' = Planned(UNION {a[s].isolations : s \in Sandbox},
                          UNION {a[s].decisions : s \in Sandbox})

-----------------------------------------------------------------------------
(* apply: the action at the head of the plan. *)
AtHead(kind) == Serving /\ plan # <<>> /\ Head(plan).kind = kind
Reset == stage' = "read" /\ readAt' = 0
Done == plan' = Tail(plan) /\ Reset
Raised == plan' = <<>> /\ Reset

ApplyIsolate ==
    /\ AtHead("isolate")
    /\ LET act == Head(plan)
       IN  isolated' = {[sandbox |-> act.sandbox, generation |-> act.generation, asOf |-> act.asOf]}
    /\ Done
    /\ UNCHANGED <<vars, view, stopped>>

ApplyKeep ==
    /\ AtHead("keep")
    /\ FlagUncertain(Head(plan).sandbox)
    /\ Done
    /\ UNCHANGED <<observed, desired, generation, version, reserved, reconciled,
                   pending, writer, opVars, keyVars, ledgerVars, runtime,
                   processVars, isolated, view, stopped>>

(* The read that precedes a request.  To recreate, a row read without a    *)
(* verdict is given one and read once more; by then it may be another      *)
(* generation's.                                                           *)
SkippedVerdict(s) == FALSE
NeedsVerdict(s) == stage = "read" /\ Head(plan).kind = "recreate" /\ ~reconciled[s]
ReadRow ==
    LET s == Head(plan).sandbox
    IN  /\ AtHead("suspend") \/ AtHead("recreate")
        /\ stage \in {"read", "reread"}
        /\ stage' = IF NeedsVerdict(s) THEN "verdict" ELSE "request"
        /\ readAt' = version[s]
        /\ UNCHANGED <<vars, plan, isolated, view, stopped>>

GiveVerdict ==
    LET s == Head(plan).sandbox
    IN  /\ AtHead("recreate") /\ stage = "verdict"
        /\ MarkReconciled(s)
        /\ stage' = "reread"
        /\ UNCHANGED <<plan, readAt, isolated, view, stopped>>

Wanted == IF Head(plan).kind = "suspend" THEN "suspend" ELSE "resume"
Granted(s) == readAt = version[s] /\ NothingPending(s) /\ Acceptable(s, Wanted)
Repeated(s) == readAt = version[s] /\ pending[s] # NoOp /\ opType[pending[s]] = Wanted

ApplyRequest ==
    LET s == Head(plan).sandbox
    IN  /\ AtHead("suspend") \/ AtHead("recreate")
        /\ stage = "request"
        /\ \/ Granted(s) /\ RequestAccepted(s, Wanted, None) /\ Done
           \/ Repeated(s) /\ UNCHANGED vars /\ Done
           \/ ~Granted(s) /\ ~Repeated(s) /\ UNCHANGED vars /\ Raised
        /\ UNCHANGED <<isolated, view, stopped>>

Apply == ApplyIsolate \/ ApplyKeep \/ ReadRow \/ GiveVerdict \/ ApplyRequest

-----------------------------------------------------------------------------
(* The runner confirms that the current instance of a sandbox has stopped. *)
InstanceStops(s) ==
    /\ observed[s] \in Gated
    /\ stopped' = stopped \cup {<<s, generation[s]>>}
    /\ UNCHANGED <<vars, plan, stage, readAt, isolated, view>>

(* Everybody else.  Flagging uncertain usage, the one thing done to a row  *)
(* that keeps its version, is what apply does; a replay is that of a       *)
(* restart; and a timeout or an outcome delivered again matters here while *)
(* its operation is open.  A crash loses the rows read and the plan.       *)
OthersStep ==
    \/ \E s \in Sandbox : MayAct(s) /\ RowStep(s) /\ version' # version
    \/ \E s \in Sandbox, t \in OpType, k \in Key \cup {None} :
          MayAct(s) /\ nops < UserOps /\ RequestStep(s, t, k)
    \/ \E o \in OpId : Worker(o) \/ (Open(o) /\ (MarkTimeout(o) \/ Redeliver(o)))
    \/ Replay \/ Restart

RecNext ==
    \/ OthersStep /\ UNCHANGED recVars
    \/ Crash /\ Raised /\ view' = <<>> /\ UNCHANGED <<isolated, stopped>>
    \/ \E s \in Sandbox : InstanceStops(s)
    \/ ReadRows
    \/ Diff
    \/ Apply

(* The reconciler loop keeps running: it reads the rows, and applies what  *)
(* it has planned.  Again and again the inventory lists enough of a        *)
(* sandbox to act on, if there is anything to act on.                      *)
Informed(s) ==
    /\ Diff
    /\ \E i \in DOMAIN plan' :
          plan'[i].sandbox = s /\ plan'[i].kind \in {"suspend", "recreate"}

RecSpec == RecInit /\ [][RecNext]_allVars
RecFairSpec ==
    /\ RecSpec
    /\ WF_allVars(Restart /\ UNCHANGED recVars)
    /\ WF_allVars(Replay /\ UNCHANGED recVars)
    /\ \A o \in OpId : WF_allVars(Worker(o) /\ UNCHANGED recVars)
    /\ WF_allVars(Apply)
    /\ WF_allVars(ReadRows)
    /\ \A s \in Sandbox : SF_allVars(Informed(s))

-----------------------------------------------------------------------------
(* A failed or lost sandbox that should run and whose stop is in evidence  *)
(* is recreated in a new generation (unless the bound on operations is     *)
(* reached, or somebody else changes what is desired of it).               *)
Recreated ==
    \A s \in Sandbox : \A g \in 1..MaxOps :
        /\ generation[s] = g /\ observed[s] \in Gated
        /\ desired[s] = "Active" /\ <<s, g>> \in stopped
        ~> generation[s] > g \/ desired[s] # "Active" \/ observed[s] \notin Gated
           \/ nops = MaxOps

(* A recreation that is waiting to be applied still rests, for as long as  *)
(* its row is of the generation it was decided on, on that row's verdict   *)
(* or on a stop of that generation the runner saw: whatever the inventory  *)
(* claimed and whoever moved the row since it was read (diff, apply).      *)
PlannedFromCurrent ==
    \A i \in DOMAIN plan :
        LET s == plan[i].sandbox
        IN  plan[i].kind = "recreate" /\ plan[i].generation = generation[s]
              => reconciled[s] \/ <<s, generation[s]>> \in stopped

(* An instance that was isolated for a human decision is not the one its   *)
(* row stands for, now or later, unless that one was started after the     *)
(* rows were read: by a resume, or by the creation of the sandbox, between *)
(* the two readings diff compares (diff, apply).                           *)
IsolatedSuperseded ==
    /\ RecTypeOK
    /\ \A claim \in isolated :
          claim.generation = generation[claim.sandbox] => claim.asOf < claim.generation
=============================================================================
