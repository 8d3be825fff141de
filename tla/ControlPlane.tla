---------------------------- MODULE ControlPlane ----------------------------
(***************************************************************************)
(* The control-plane API double (ControlPlaneDouble of                     *)
(* scripts/control_plane_double.py): create, change of state and destroy   *)
(* under idempotency keys and versions, capacity derived from the observed *)
(* states, and the Runner's evidence for any operation, at any time.       *)
(* Every sandbox takes one unit of compute and one of volume.              *)
(***************************************************************************)
EXTENDS Integers, FiniteSets, Sequences

CONSTANTS
    Box,             \* sandbox ids, allocated by create
    RequestKey,      \* idempotency keys
    Compute, Volume, \* capacity of the host
    MaxOperations    \* bound: operations accepted

ASSUME ControlAssumption ==
    IsFiniteSet(Box) /\ Compute \in Nat /\ Volume \in Nat /\ MaxOperations \in Nat

State == {"Absent", "Creating", "Active", "Idle", "Suspending", "Suspend", "Resuming",
          "Destroying", "Destroyed", "Error", "Lost"}
ComputeHeld == State \ {"Absent", "Suspend", "Destroyed"}

(* The transitions of docs/contracts/runner-lifecycle.json the double      *)
(* loads: the success target of a trigger.                                 *)
SuccessTarget ==
    {<<"Creating", "create", "Active">>,
     <<"Active", "set_idle", "Idle">>, <<"Idle", "set_active", "Active">>,
     <<"Active", "suspend", "Suspending">>, <<"Idle", "suspend", "Suspending">>,
     <<"Suspending", "suspend", "Suspend">>,
     <<"Suspend", "resume", "Resuming">>, <<"Error", "resume", "Resuming">>,
     <<"Lost", "resume", "Resuming">>, <<"Resuming", "resume", "Active">>,
     <<"Destroying", "destroy", "Destroyed">>}
    \cup {<<s, "destroy", "Destroying">> : s \in {"Creating", "Active", "Idle", "Suspend", "Error", "Lost"}}
TargetOf(from, trigger) == {t[3] : t \in {u \in SuccessTarget : u[1] = from /\ u[2] = trigger}}
ErrorCapable == {"Creating", "Active", "Idle", "Suspending", "Resuming", "Destroying"}
Losable == State \ {"Absent", "Destroyed", "Lost"}
Intermediate == {"Suspending", "Resuming", "Destroying"}

VARIABLES boxes, operations, remembered
controlVars == <<boxes, operations, remembered>>

NoTarget == "none"  \* only a change of state names one
NoBox == [observed |-> "Absent", desired |-> "Active", generation |-> 0, pending |-> 0,
          destroyOperation |-> 0, reconciled |-> FALSE, credential |-> FALSE]
ControlInit ==
    /\ boxes = [b \in Box |-> NoBox]
    /\ operations = <<>>
    /\ remembered = [k \in RequestKey |-> 0]

-----------------------------------------------------------------------------
Holding(states) == Cardinality({b \in Box : boxes[b].observed \in states})
SuspendedFits == Holding({"Active", "Idle"}) < Compute
ComputeFits == Holding(ComputeHeld) < Compute
VolumeFits == Holding(State \ {"Absent", "Destroyed"}) < Volume

Operation(b, trigger, target) == [box |-> b, trigger |-> trigger, target |-> target, state |-> "pending"]
Accept(k, b, trigger, target, next) ==
    LET id == Len(operations) + 1
    IN /\ id <= MaxOperations
       /\ operations' = Append(operations, Operation(b, trigger, target))
       /\ remembered' = [remembered EXCEPT ![k] = id]
       /\ boxes' = [boxes EXCEPT ![b] = [next EXCEPT !.pending = id]]

(* A key that is remembered replays its answer and changes nothing, and so *)
(* does every refusal: a request that acts has a new key and the current   *)
(* version.                                                                *)
Unused(k) == remembered[k] = 0
JoinPending(k, id) ==
    /\ remembered' = [remembered EXCEPT ![k] = id] /\ UNCHANGED <<boxes, operations>>

CreateBox(k, b) ==
    /\ Unused(k) /\ boxes[b].observed = "Absent"
    /\ ComputeFits /\ VolumeFits
    /\ Accept(k, b, "create", NoTarget, [NoBox EXCEPT !.observed = "Creating", !.generation = 1])

TriggerFor(from, target) ==
    CASE target = "Suspend" -> "suspend"
      [] target = "Idle" -> "set_idle"
      [] target = "Active" /\ from = "Idle" -> "set_active"
      [] target = "Active" /\ from # "Idle" -> "resume"
ChangeState(k, b, target) ==
    LET box == boxes[b]  trigger == TriggerFor(box.observed, target)
    IN /\ Unused(k) /\ box.observed # "Absent"
       /\ \/ /\ box.pending # 0 /\ operations[box.pending].target = target
             /\ JoinPending(k, box.pending)
          \/ /\ box.pending = 0
             /\ box.observed \notin {"Destroyed", "Creating"} \cup Intermediate
             /\ box.observed \in {"Error", "Lost"} => box.reconciled
             /\ \E to \in TargetOf(box.observed, trigger), credential \in BOOLEAN :
                   /\ trigger = "resume" => credential /\ ComputeFits
                   /\ Accept(k, b, trigger, target,
                         [box EXCEPT !.observed = IF to \in Intermediate THEN to ELSE @,
                                     !.generation = IF trigger = "resume" THEN @ + 1 ELSE @,
                                     !.desired = target, !.credential = credential])

DestroyBox(k, b) ==
    LET box == boxes[b]
    IN /\ Unused(k) /\ box.observed # "Absent"
       /\ \/ /\ box.observed = "Destroyed" /\ box.destroyOperation # 0
             /\ JoinPending(k, box.destroyOperation)
          \/ /\ box.observed = "Destroying" /\ box.pending # 0
             /\ operations[box.pending].trigger = "destroy"
             /\ JoinPending(k, box.pending)
          \/ /\ ~(box.observed = "Destroying" /\ box.pending # 0
                    /\ operations[box.pending].trigger = "destroy")
             /\ TargetOf(box.observed, "destroy") # {}
             /\ box.observed \in {"Error", "Lost"} => box.reconciled
             /\ Accept(k, b, "destroy", NoTarget,
                   [box EXCEPT !.observed = "Destroying", !.desired = "Destroyed",
                               !.destroyOperation = Len(operations) + 1])

-----------------------------------------------------------------------------
(* The Runner's evidence: advance, confirm, expire_lease, mark_reconciled. *)
Advance(id) ==
    /\ operations[id].state = "pending"
    /\ operations' = [operations EXCEPT ![id].state = "running"]
    /\ UNCHANGED <<boxes, remembered>>

Open(id) == operations[id].state \in {"pending", "running"}
KeepsPointer(pending, id) == pending
ClearsPointer(pending, id) == IF pending = id THEN 0 ELSE pending
Resolved(box, id, to) ==
    [box EXCEPT !.observed = to, !.pending = ClearsPointer(box.pending, id), !.reconciled = FALSE,
                !.credential = IF to = "Suspend" THEN FALSE ELSE @]
Resolve(id, state, to) ==
    /\ operations' = [operations EXCEPT ![id].state = state]
    /\ boxes' = [boxes EXCEPT ![operations[id].box] = Resolved(@, id, to)]
    /\ UNCHANGED remembered
Confirm(id) ==
    /\ Open(id)
    /\ \E to \in TargetOf(boxes[operations[id].box].observed, operations[id].trigger) :
          Resolve(id, "succeeded", to)
ConfirmError(id) ==
    /\ Open(id) /\ boxes[operations[id].box].observed \in ErrorCapable
    /\ Resolve(id, "failed", "Error")

ExpireLease(b) ==
    /\ boxes[b].observed \in Losable
    /\ boxes' = [boxes EXCEPT ![b].observed = "Lost", ![b].reconciled = FALSE]
    /\ UNCHANGED <<operations, remembered>>

MarkReconciled(b) ==
    /\ boxes[b].observed # "Absent"
    /\ boxes' = [boxes EXCEPT ![b].reconciled = TRUE, ![b].pending = 0]
    /\ operations' = IF boxes[b].pending # 0 /\ Open(boxes[b].pending)
                     THEN [operations EXCEPT ![boxes[b].pending].state = "failed"] ELSE operations
    /\ UNCHANGED remembered

ControlNext ==
    \/ \E k \in RequestKey, b \in Box :
          \/ CreateBox(k, b) \/ DestroyBox(k, b)
          \/ \E target \in {"Active", "Idle", "Suspend"} : ChangeState(k, b, target)
    \/ \E id \in 1..Len(operations) : Advance(id) \/ Confirm(id) \/ ConfirmError(id)
    \/ \E b \in Box : ExpireLease(b) \/ MarkReconciled(b)
ControlSpec == ControlInit /\ [][ControlNext]_controlVars

-----------------------------------------------------------------------------
ControlTypeOK ==
    /\ \A b \in Box : boxes[b].observed \in State /\ boxes[b].pending \in 0..Len(operations)
    /\ \A k \in RequestKey : remembered[k] \in 0..Len(operations)

(* A destroy does not wait for the change that is open when it is          *)
(* accepted, and does not close it (_destroy): more operations than the    *)
(* pending one may be open.  The contracts allow one at a time             *)
(* (control-plane-api.json:170, runner-lifecycle.json:598); the code makes *)
(* this exception, and the property states it as one.                      *)
OvertakenByDestroy(id) ==
    LET b == operations[id].box
    IN  /\ operations[id].trigger \notin {"resume", "destroy"}
        /\ boxes[b].destroyOperation # 0 /\ id < boxes[b].destroyOperation

(* What runs never exceeds the host, whichever sandbox is suspended,       *)
(* resumed, lost or destroyed in between; a pending operation is open and  *)
(* its own sandbox's; apart from the changes a destroy overtook, which are *)
(* never a resume or another destroy, a sandbox has no open operation but  *)
(* the pending one; none is created twice, and a suspended sandbox holds   *)
(* no credential (_create, _change_state, _destroy, confirm).              *)
Running == {"Creating", "Active", "Idle", "Suspending", "Resuming"}
ControlSound ==
    /\ ControlTypeOK
    /\ Holding(Running) <= Compute /\ Holding(State \ {"Absent", "Destroyed"}) <= Volume
    /\ \A b \in Box : boxes[b].pending # 0 =>
          Open(boxes[b].pending) /\ operations[boxes[b].pending].box = b
    /\ \A id \in 1..Len(operations) :
          Open(id) => boxes[operations[id].box].pending = id \/ OvertakenByDestroy(id)
    /\ \A b \in Box : Cardinality({id \in 1..Len(operations) :
                          operations[id].box = b /\ operations[id].trigger = "create"}) <= 1
    /\ \A b \in Box : boxes[b].observed = "Suspend" => ~boxes[b].credential
=============================================================================
