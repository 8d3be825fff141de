---------------------------- MODULE OperationLog ----------------------------
(***************************************************************************)
(* The persisted-first operation log of the control plane                  *)
(* (scripts/operation_reconcile.py: OperationLog, RuntimeDouble and the    *)
(* worker pipeline).  An intention row is persisted before the runtime     *)
(* executes it, every sandbox serialises its operations and carries a      *)
(* fencing generation, and a restarted control plane replays the log.      *)
(*                                                                         *)
(* Every method of the log runs under one lock and is reflected at once in *)
(* the persisted image, so a method is one atomic action here; a crash     *)
(* keeps the log and loses the workers, which hold only a program counter. *)
(***************************************************************************)
EXTENDS Naturals

CONSTANTS
    Sandbox,        \* sandbox ids
    Key,            \* Idempotency-Key header values
    None,           \* "no key", "no sandbox", "no type"
    InitialRows,    \* observed and desired state a row is created with
    EvidenceStates, \* observed states the runner's evidence may report
    MaxOps,         \* bound: operations accepted in a behaviour
    MaxVersion,     \* bound: row version up to which outsiders still act
    MaxCrashes      \* bound: crashes of the control plane

OpType == {"suspend", "resume", "destroy"}
Intermediate == {"Suspending", "Resuming", "Destroying"}
Observed == {"Absent", "Creating", "Active", "Idle", "Suspend", "Destroyed",
             "Error", "Lost"} \cup Intermediate
Desired == {"Active", "Suspend", "Destroyed"}
NonTerminal == {"requested", "dispatched", "timeout"}
Terminal == {"confirmed", "failed"}
Gated == {"Error", "Lost"}

ASSUME ConstantsAssumption ==
    /\ None \notin Sandbox \cup Key \cup OpType
    /\ InitialRows \subseteq
          {"Creating", "Active", "Idle", "Suspend", "Error"} \X {"Active", "Suspend"}
    /\ EvidenceStates \subseteq {"Active", "Idle", "Suspend", "Destroyed", "Error"}
    /\ MaxOps \in Nat /\ MaxVersion \in Nat /\ MaxCrashes \in Nat

EventType == {"requested", "succeeded", "failed"}
Step == {"dispatch", "execute", "verdict", "emit"}
OpId == 1..MaxOps
NoOp == 0

TargetState == [t \in OpType |-> CASE t = "suspend" -> "Suspend"
                                   [] t = "resume" -> "Active"
                                   [] t = "destroy" -> "Destroyed"]
IntermediateState == [t \in OpType |-> CASE t = "suspend" -> "Suspending"
                                         [] t = "resume" -> "Resuming"
                                         [] t = "destroy" -> "Destroying"]

VARIABLES
    \* sandbox rows (persisted)
    observed, desired, generation, version, reserved, uncertain, reconciled,
    pending,
    \* operation rows (persisted)
    nops, opSandbox, opType, opState, opGen, opCause, opEvents, opHistory,
    \* idempotency map and shared event ledger (persisted)
    idem, ledger, outbox, quarantine, expired,
    \* the runtime's memo: the one outcome of each operation it has executed
    runtime,
    \* the process: alive or not, the worker of each operation, the row a
    \* replay has reached (0: none is running) and its step on that row
    up, worker, cursor, replayStep, crashes,
    \* auxiliary: operations each key was answered with; the generation
    \* whose evidence or command last set a sandbox's observed state
    answered, writer

rowVars == <<observed, desired, generation, version, reserved, uncertain,
             reconciled, pending, writer>>
opVars == <<nops, opSandbox, opType, opState, opGen, opCause, opEvents,
            opHistory>>
keyVars == <<idem, answered>>
ledgerVars == <<ledger, outbox, quarantine, expired>>
processVars == <<up, worker, cursor, replayStep, crashes>>
vars == <<rowVars, opVars, keyVars, ledgerVars, runtime, processVars>>

RowTypes ==
    /\ observed \in [Sandbox -> Observed]
    /\ desired \in [Sandbox -> Desired]
    /\ generation \in [Sandbox -> Nat]
    /\ version \in [Sandbox -> Nat]
    /\ reserved \in [Sandbox -> BOOLEAN]
    /\ uncertain \in [Sandbox -> BOOLEAN]
    /\ reconciled \in [Sandbox -> BOOLEAN]
    /\ pending \in [Sandbox -> OpId \cup {NoOp}]
    /\ writer \in [Sandbox -> Nat]
OpTypes ==
    /\ nops \in 0..MaxOps
    /\ opSandbox \in [OpId -> Sandbox \cup {None}]
    /\ opType \in [OpId -> OpType \cup {None}]
    /\ opState \in [OpId -> {"absent"} \cup NonTerminal \cup Terminal]
    /\ opGen \in [OpId -> Nat]
    /\ opCause \in [OpId -> {"none", "runtime", "lost_reconciled"}]
    /\ opEvents \in [OpId -> SUBSET EventType]
    /\ opHistory \in [OpId -> SUBSET {"stale_generation", "late_terminal"}]
KeyTypes ==
    /\ idem \in [Key -> OpId \cup {NoOp}]
    /\ answered \in [Key -> SUBSET (Sandbox \X OpType \X OpId)]
LedgerTypes ==
    /\ ledger \subseteq OpId \X EventType
    /\ outbox \subseteq OpId \X EventType
    /\ quarantine \subseteq OpId \X EventType
    /\ expired \subseteq Sandbox \X Nat
ProcessTypes ==
    /\ up \in BOOLEAN
    /\ worker \in [OpId -> Step \cup {"idle"}]
    /\ cursor \in 0..MaxOps
    /\ replayStep \in Step
    /\ crashes \in 0..MaxCrashes
TypeOK ==
    /\ RowTypes /\ OpTypes /\ KeyTypes /\ LedgerTypes /\ ProcessTypes
    /\ runtime \in [OpId -> {"none", "ok", "err"}]

Init ==
    /\ observed = [s \in Sandbox |-> "Absent"]
    /\ desired = [s \in Sandbox |-> "Active"]
    /\ generation = [s \in Sandbox |-> 0]
    /\ version = [s \in Sandbox |-> 0]
    /\ reserved = [s \in Sandbox |-> TRUE]
    /\ uncertain = [s \in Sandbox |-> FALSE]
    /\ reconciled = [s \in Sandbox |-> FALSE]
    /\ pending = [s \in Sandbox |-> NoOp]
    /\ writer = [s \in Sandbox |-> 0]
    /\ nops = 0
    /\ opSandbox = [o \in OpId |-> None]
    /\ opType = [o \in OpId |-> None]
    /\ opState = [o \in OpId |-> "absent"]
    /\ opGen = [o \in OpId |-> 0]
    /\ opCause = [o \in OpId |-> "none"]
    /\ opEvents = [o \in OpId |-> {}]
    /\ opHistory = [o \in OpId |-> {}]
    /\ idem = [k \in Key |-> NoOp]
    /\ answered = [k \in Key |-> {}]
    /\ ledger = {} /\ outbox = {} /\ quarantine = {} /\ expired = {}
    /\ runtime = [o \in OpId |-> "none"]
    /\ up = TRUE
    /\ worker = [o \in OpId |-> "idle"]
    /\ cursor = 0
    /\ replayStep = "dispatch"
    /\ crashes = 0

-----------------------------------------------------------------------------
(***************************************************************************)
(* Who may call the log.  A replay holds the lock from its first row to    *)
(* its last, so nobody else runs meanwhile; only the process dying can     *)
(* interrupt it.                                                           *)
(***************************************************************************)
Serving == up /\ cursor = 0

Known(s) == observed[s] # "Absent"
Exists(o) == opState[o] # "absent"
ForgottenBump(s) == UNCHANGED version
Bump(s) == version' = [version EXCEPT ![s] = @ + 1]

NoFence(g, current) == TRUE
GenerationOk(g, current) == g >= current
FencedOp(o) == ~GenerationOk(opGen[o], generation[opSandbox[o]])

(* _emit: the event id is a function of the operation and the event type,  *)
(* so the shared ledger quarantines a second append of the same pair.      *)
Emit(o, etype, withOutbox) ==
    /\ IF <<o, etype>> \in ledger
         THEN /\ quarantine' = quarantine \cup {<<o, etype>>}
              /\ UNCHANGED <<ledger, outbox>>
         ELSE /\ ledger' = ledger \cup {<<o, etype>>}
              /\ outbox' = IF withOutbox THEN outbox \cup {<<o, etype>>}
                                         ELSE outbox
              /\ UNCHANGED quarantine
    /\ opEvents' = [opEvents EXCEPT ![o] = @ \cup {etype}]
    /\ UNCHANGED expired

TerminalEvent(state) == IF state = "confirmed" THEN "succeeded" ELSE "failed"

-----------------------------------------------------------------------------
(* Sandbox rows. *)

CreateSandbox(s, row) ==
    /\ Serving /\ ~Known(s)
    /\ observed' = [observed EXCEPT ![s] = row[1]]
    /\ desired' = [desired EXCEPT ![s] = row[2]]
    /\ generation' = [generation EXCEPT ![s] = 1]
    /\ version' = [version EXCEPT ![s] = 1]
    /\ writer' = [writer EXCEPT ![s] = 1]
    /\ UNCHANGED <<reserved, uncertain, reconciled, pending, opVars, keyVars,
                   ledgerVars, runtime, processVars>>

ForgottenFlag(s) == UNCHANGED uncertain
FlagUncertain(s) == uncertain' = [uncertain EXCEPT ![s] = TRUE]

(* Lease expiry.  A pending operation stays pending: its outcome is        *)
(* unknown.  An earlier reconciliation verdict is not withdrawn.           *)
MarkLost(s) ==
    /\ Serving /\ Known(s)
    /\ observed[s] # "Destroyed"
    /\ observed' = [observed EXCEPT ![s] = "Lost"]
    /\ FlagUncertain(s)
    /\ writer' = [writer EXCEPT ![s] = generation[s]]
    /\ Bump(s)
    /\ expired' = expired \cup {<<s, generation[s]>>}
    /\ UNCHANGED <<desired, generation, reserved, reconciled, pending, opVars,
                   keyVars, ledger, outbox, quarantine, runtime, processVars>>

(* The reconciliation verdict resolves an outstanding operation as failed, *)
(* and publishes that, in the same critical section.                       *)
ResolvePending(o) ==
    /\ opState' = [opState EXCEPT ![o] = "failed"]
    /\ opCause' = [opCause EXCEPT ![o] = "lost_reconciled"]
    /\ IF "failed" \in opEvents[o]
         THEN UNCHANGED <<opEvents, ledgerVars>>
         ELSE Emit(o, "failed", TRUE)
    /\ UNCHANGED <<nops, opSandbox, opType, opGen, opHistory>>

MarkReconciled(s) ==
    /\ Serving /\ Known(s)
    /\ reconciled' = [reconciled EXCEPT ![s] = TRUE]
    /\ IF pending[s] # NoOp /\ opState[pending[s]] \in NonTerminal
         THEN ResolvePending(pending[s])
         ELSE UNCHANGED <<opVars, ledgerVars>>
    /\ pending' = [pending EXCEPT ![s] = NoOp]
    /\ Bump(s)
    /\ UNCHANGED <<observed, desired, generation, reserved, uncertain, writer,
                   keyVars, runtime, processVars>>

(* Flagging uncertain usage touches neither the state nor the version. *)
MarkUncertain(s) ==
    /\ Serving /\ Known(s) /\ ~uncertain[s]
    /\ FlagUncertain(s)
    /\ UNCHANGED <<observed, desired, generation, version, reserved,
                   reconciled, pending, writer, opVars, keyVars, ledgerVars,
                   runtime, processVars>>

(* Runner evidence of the current generation sets the observed state,      *)
(* whatever the pending operation; evidence of an older generation is kept *)
(* as history only.                                                        *)
ApplyEvent(s, g, obs) ==
    /\ Serving /\ Known(s)
    /\ GenerationOk(g, generation[s])
    /\ observed' = [observed EXCEPT ![s] = obs]
    /\ uncertain' = [uncertain EXCEPT ![s] = @ /\ obs \notin {"Suspend", "Destroyed"}]
    /\ writer' = [writer EXCEPT ![s] = g]
    /\ Bump(s)
    /\ UNCHANGED <<desired, generation, reserved, reconciled, pending, opVars,
                   keyVars, ledgerVars, runtime, processVars>>

-----------------------------------------------------------------------------
(* Requests. *)

AnyBody(o, s, t) == opSandbox[o] = s
SameBody(o, s, t) == opSandbox[o] = s /\ opType[o] = t
ForgetfulKey(k) == TRUE
NewKey(k) == k # None => idem[k] = NoOp
Answer(k, s, t, o) ==
    answered' = IF k = None THEN answered
                ELSE [answered EXCEPT ![k] = @ \cup {<<s, t, o>>}]

DestroyOps(s) == {o \in OpId : SameBody(o, s, "destroy")}
LastDestroy(s) == {o \in DestroyOps(s) : \A p \in DestroyOps(s) : p <= o}
RepeatedDestroy(s, t) ==
    observed[s] = "Destroyed" /\ t = "destroy" /\ DestroyOps(s) # {}

(* One change operation per sandbox at a time. *)
NotSerialized(s) == TRUE
NothingPending(s) == pending[s] = NoOp

(* _accept: the observed states each kind of operation starts from. *)
Acceptable(s, t) ==
    CASE t = "suspend" -> observed[s] \in {"Active", "Idle"}
      [] t = "resume"  -> \/ observed[s] = "Suspend"
                          \/ observed[s] \in Gated /\ reconciled[s]
      [] t = "destroy" -> \/ observed[s] \in {"Creating", "Active", "Idle", "Suspend"}
                          \/ observed[s] \in Gated /\ reconciled[s]

(* Every resume starts a new generation and fences the old one. *)
SameGeneration(s, t) == generation[s]
NextGeneration(s, t) == IF t = "resume" THEN generation[s] + 1 ELSE generation[s]

(* A remembered key with the same body: the original operation. *)
RequestReplayed(s, t, k) ==
    /\ Serving /\ Known(s)
    /\ k # None /\ idem[k] # NoOp /\ SameBody(idem[k], s, t)
    /\ Answer(k, s, t, idem[k])
    /\ UNCHANGED <<rowVars, opVars, idem, ledgerVars, runtime, processVars>>

(* Destroying a destroyed sandbox again: its last destroy operation.  The  *)
(* key is not remembered.                                                  *)
RequestDestroyed(s, t, k) ==
    /\ Serving /\ Known(s) /\ NewKey(k)
    /\ RepeatedDestroy(s, t)
    /\ \E o \in LastDestroy(s) : Answer(k, s, t, o)
    /\ UNCHANGED <<rowVars, opVars, idem, ledgerVars, runtime, processVars>>

(* The same operation is already pending: that one.  The key is not        *)
(* remembered.                                                             *)
RequestPending(s, t, k) ==
    /\ Serving /\ Known(s) /\ NewKey(k) /\ ~RepeatedDestroy(s, t)
    /\ pending[s] # NoOp /\ opType[pending[s]] = t
    /\ Answer(k, s, t, pending[s])
    /\ UNCHANGED <<rowVars, opVars, idem, ledgerVars, runtime, processVars>>

(* A new intention, persisted with its operation.requested event before    *)
(* anything runs; a worker then takes it.  The caller's expected version   *)
(* is the current one: any other is refused without effect, as is an       *)
(* opposite pending operation or an unacceptable observed state.           *)
RequestAccepted(s, t, k) ==
    LET o == nops + 1
        g == NextGeneration(s, t)
    IN  /\ Serving /\ Known(s) /\ nops < MaxOps
        /\ NewKey(k) /\ ~RepeatedDestroy(s, t)
        /\ NothingPending(s)
        /\ Acceptable(s, t)
        /\ observed' = [observed EXCEPT ![s] = IntermediateState[t]]
        /\ desired' = [desired EXCEPT ![s] = TargetState[t]]
        /\ generation' = [generation EXCEPT ![s] = g]
        /\ reconciled' = [reconciled EXCEPT ![s] = @ /\ t # "resume"]
        /\ pending' = [pending EXCEPT ![s] = o]
        /\ writer' = [writer EXCEPT ![s] = g]
        /\ Bump(s)
        /\ nops' = o
        /\ opSandbox' = [opSandbox EXCEPT ![o] = s]
        /\ opType' = [opType EXCEPT ![o] = t]
        /\ opState' = [opState EXCEPT ![o] = "requested"]
        /\ opGen' = [opGen EXCEPT ![o] = g]
        /\ Emit(o, "requested", FALSE)
        /\ idem' = IF k = None THEN idem ELSE [idem EXCEPT ![k] = o]
        /\ Answer(k, s, t, o)
        /\ worker' = [worker EXCEPT ![o] = "dispatch"]
        /\ UNCHANGED <<reserved, uncertain, opCause, opHistory, runtime, up,
                       cursor, replayStep, crashes>>

-----------------------------------------------------------------------------
(***************************************************************************)
(* What the log's methods do to an operation, whoever calls them.          *)
(***************************************************************************)
KeepHistory(o, status) ==
    /\ opHistory' = [opHistory EXCEPT ![o] = @ \cup {status}]
    /\ UNCHANGED <<rowVars, nops, opSandbox, opType, opState, opGen, opCause,
                   opEvents, ledgerVars>>

SetOpState(o, state) ==
    /\ opState' = [opState EXCEPT ![o] = state]
    /\ UNCHANGED <<rowVars, nops, opSandbox, opType, opGen, opCause, opEvents,
                   opHistory, ledgerVars>>

DispatchOp(o) ==
    IF FencedOp(o) THEN KeepHistory(o, "stale_generation")
    ELSE IF opState[o] \in {"requested", "timeout"} THEN SetOpState(o, "dispatched")
    ELSE UNCHANGED <<rowVars, opVars, ledgerVars>>

(* A timeout leaves the outcome unknown: never a failure. *)
FailingTimeout(o) ==
    IF opState[o] \in {"requested", "dispatched"} THEN SetOpState(o, "failed")
    ELSE UNCHANGED <<rowVars, opVars, ledgerVars>>
TimeoutOp(o) ==
    IF FencedOp(o) THEN KeepHistory(o, "stale_generation")
    ELSE IF opState[o] \in {"requested", "dispatched"} THEN SetOpState(o, "timeout")
    ELSE UNCHANGED <<rowVars, opVars, ledgerVars>>

(* The runtime executes an operation once and repeats its first outcome. *)
ForgetfulExecute(o) ==
    \E verdict \in {"ok", "err"} : runtime' = [runtime EXCEPT ![o] = verdict]
ExecuteOp(o) ==
    IF runtime[o] = "none"
      THEN \E verdict \in {"ok", "err"} : runtime' = [runtime EXCEPT ![o] = verdict]
      ELSE UNCHANGED runtime

(* What a verdict makes of the sandbox, and whether its reservation stays: *)
(* it goes only with a confirmed removal.                                  *)
Succeeded(o) == runtime[o] = "ok"
MisspeltSettled(o) == IF Succeeded(o) THEN TargetState[opType[o]] ELSE "failed"
UnmovedSettled(o) == IF Succeeded(o) THEN TargetState[opType[o]]
                                     ELSE observed[opSandbox[o]]
SettledState(o) == IF Succeeded(o) THEN TargetState[opType[o]] ELSE "Error"
EagerRelease(o) == opType[o] # "destroy"
StaysReserved(o) == SettledState(o) # "Destroyed"

(* The verdict settles an open operation and its sandbox. *)
SettleOp(o) ==
    LET s == opSandbox[o]
    IN  /\ opState' = [opState EXCEPT ![o] = IF Succeeded(o) THEN "confirmed" ELSE "failed"]
        /\ opCause' = [opCause EXCEPT ![o] = "runtime"]
        /\ observed' = [observed EXCEPT ![s] = SettledState(o)]
        /\ uncertain' = [uncertain EXCEPT ![s] = @ /\ ~Succeeded(o)]
        /\ reserved' = [reserved EXCEPT ![s] = @ /\ StaysReserved(o)]
        /\ pending' = [pending EXCEPT ![s] = NoOp]
        /\ writer' = [writer EXCEPT ![s] = opGen[o]]
        /\ Bump(s)
        /\ UNCHANGED <<desired, generation, reconciled, nops, opSandbox,
                       opType, opGen, opEvents, opHistory, ledgerVars>>

OverridingOutcome(o) ==
    IF FencedOp(o) THEN KeepHistory(o, "stale_generation") ELSE SettleOp(o)
DroppingOutcome(o) ==
    IF FencedOp(o) \/ opState[o] \in Terminal
      THEN UNCHANGED <<rowVars, opVars, ledgerVars>>
      ELSE SettleOp(o)
OutcomeOp(o) ==
    IF FencedOp(o) THEN KeepHistory(o, "stale_generation")
    ELSE IF opState[o] \in Terminal THEN KeepHistory(o, "late_terminal")
    ELSE SettleOp(o)

RepeatingEmit(o) ==
    /\ IF opState[o] \in Terminal THEN Emit(o, TerminalEvent(opState[o]), TRUE)
       ELSE UNCHANGED <<opEvents, ledgerVars>>
    /\ UNCHANGED <<rowVars, nops, opSandbox, opType, opState, opGen, opCause,
                   opHistory>>
EmitOp(o) ==
    /\ IF opState[o] \in Terminal /\ TerminalEvent(opState[o]) \notin opEvents[o]
         THEN Emit(o, TerminalEvent(opState[o]), TRUE)
         ELSE UNCHANGED <<opEvents, ledgerVars>>
    /\ UNCHANGED <<rowVars, nops, opSandbox, opType, opState, opGen, opCause,
                   opHistory>>

-----------------------------------------------------------------------------
(* The worker of an accepted operation: the five-step pipeline. *)

WorkerStep(o, at, next) ==
    /\ Serving /\ worker[o] = at
    /\ worker' = [worker EXCEPT ![o] = next]
    /\ UNCHANGED <<keyVars, up, cursor, replayStep, crashes>>

WorkerDispatch(o) ==
    /\ WorkerStep(o, "dispatch", "execute")
    /\ DispatchOp(o) /\ UNCHANGED runtime
WorkerExecute(o) ==
    /\ WorkerStep(o, "execute", "verdict")
    /\ ExecuteOp(o) /\ UNCHANGED <<rowVars, opVars, ledgerVars>>
WorkerVerdict(o) ==
    /\ WorkerStep(o, "verdict", "emit")
    /\ OutcomeOp(o) /\ UNCHANGED runtime
WorkerEmit(o) ==
    /\ WorkerStep(o, "emit", "idle")
    /\ EmitOp(o) /\ UNCHANGED runtime

Worker(o) == WorkerDispatch(o) \/ WorkerExecute(o) \/ WorkerVerdict(o) \/ WorkerEmit(o)

(* A poller gives up waiting. *)
MarkTimeout(o) ==
    /\ Serving /\ Exists(o)
    /\ TimeoutOp(o)
    /\ UNCHANGED <<keyVars, runtime, processVars>>

(* The runtime's outcome is delivered again, or late. *)
Redeliver(o) ==
    /\ Serving /\ Exists(o) /\ runtime[o] # "none"
    /\ OutcomeOp(o)
    /\ UNCHANGED <<keyVars, runtime, processVars>>

-----------------------------------------------------------------------------
(***************************************************************************)
(* Crash, restart and replay.  A replay walks the rows in their order of   *)
(* acceptance: an open operation goes through dispatch, execution and      *)
(* verdict, and every terminal one gets its event if it lacks it.          *)
(***************************************************************************)
OnlyRequested(o) == IF opState[o] = "requested" THEN "dispatch" ELSE "emit"
FirstStep(o) == IF opState[o] \in NonTerminal THEN "dispatch" ELSE "emit"

BeginReplay ==
    IF nops = 0 THEN UNCHANGED <<cursor, replayStep>>
    ELSE cursor' = 1 /\ replayStep' = FirstStep(1)

SkipLastRow ==
    IF cursor + 1 >= nops
      THEN cursor' = 0 /\ replayStep' = "dispatch"
      ELSE cursor' = cursor + 1 /\ replayStep' = FirstStep(cursor + 1)
NextRow ==
    IF cursor = nops
      THEN cursor' = 0 /\ replayStep' = "dispatch"
      ELSE cursor' = cursor + 1 /\ replayStep' = FirstStep(cursor + 1)

ReplayAt(step) == up /\ cursor # 0 /\ replayStep = step
Advance(step) == replayStep' = step /\ UNCHANGED cursor

ReplayDispatch ==
    /\ ReplayAt("dispatch")
    /\ IF opState[cursor] = "dispatched" THEN UNCHANGED <<rowVars, opVars, ledgerVars>>
       ELSE DispatchOp(cursor)
    /\ Advance("execute")
    /\ UNCHANGED <<keyVars, runtime, up, worker, crashes>>
ReplayExecute ==
    /\ ReplayAt("execute")
    /\ ExecuteOp(cursor)
    /\ Advance("verdict")
    /\ UNCHANGED <<rowVars, opVars, keyVars, ledgerVars, up, worker, crashes>>
ReplayVerdict ==
    /\ ReplayAt("verdict")
    /\ OutcomeOp(cursor)
    /\ Advance("emit")
    /\ UNCHANGED <<keyVars, runtime, up, worker, crashes>>
ReplayEmit ==
    /\ ReplayAt("emit")
    /\ EmitOp(cursor)
    /\ NextRow
    /\ UNCHANGED <<keyVars, runtime, up, worker, crashes>>

Replay == ReplayDispatch \/ ReplayExecute \/ ReplayVerdict \/ ReplayEmit

(* Anyone may call replay again while the log is being served. *)
StartReplay ==
    /\ Serving
    /\ BeginReplay
    /\ UNCHANGED <<rowVars, opVars, keyVars, ledgerVars, runtime, up, worker,
                   crashes>>

Crash ==
    /\ up /\ crashes < MaxCrashes
    /\ up' = FALSE
    /\ crashes' = crashes + 1
    /\ worker' = [o \in OpId |-> "idle"]
    /\ cursor' = 0
    /\ replayStep' = "dispatch"
    /\ UNCHANGED <<rowVars, opVars, keyVars, ledgerVars, runtime>>

(* from_dict restores the persisted image; the replay comes first. *)
Restart ==
    /\ ~up
    /\ up' = TRUE
    /\ BeginReplay
    /\ UNCHANGED <<rowVars, opVars, keyVars, ledgerVars, runtime, worker, crashes>>

-----------------------------------------------------------------------------
RowStep(s) ==
    \/ \E row \in InitialRows : CreateSandbox(s, row)
    \/ MarkLost(s)
    \/ MarkReconciled(s)
    \/ MarkUncertain(s)
    \/ \E g \in 1..generation[s], obs \in EvidenceStates : ApplyEvent(s, g, obs)

RequestStep(s, t, k) ==
    \/ RequestReplayed(s, t, k)
    \/ RequestDestroyed(s, t, k)
    \/ RequestPending(s, t, k)
    \/ RequestAccepted(s, t, k)

(* Outsiders change a row only up to the version bound; workers, replays   *)
(* and verdicts in progress are never held back by it.                     *)
MayAct(s) == version[s] < MaxVersion

Next ==
    \/ \E s \in Sandbox : MayAct(s) /\ RowStep(s)
    \/ \E s \in Sandbox, t \in OpType, k \in Key \cup {None} :
          MayAct(s) /\ RequestStep(s, t, k)
    \/ \E o \in OpId : Worker(o) \/ MarkTimeout(o) \/ Redeliver(o)
    \/ StartReplay
    \/ Replay
    \/ Crash
    \/ Restart

(* The process is restarted after a crash, and worker threads and a replay *)
(* in progress keep running; nobody is obliged to call anything.           *)
Fairness ==
    /\ WF_vars(Restart)
    /\ WF_vars(Replay)
    /\ \A o \in OpId : WF_vars(Worker(o))

Spec == Init /\ [][Next]_vars
FairSpec == Spec /\ Fairness

-----------------------------------------------------------------------------
Open(o) == opState[o] \in NonTerminal

(* One serialized sequence per sandbox: an operation that is still open is *)
(* the pending one of its own sandbox, so a sandbox never has two, and     *)
(* what a row calls pending is open and of the row's current generation    *)
(* (request, runtime_outcome, mark_reconciled keep the two in step).       *)
Serialized ==
    /\ \A o \in OpId : Open(o) => pending[opSandbox[o]] = o
    /\ \A s \in Sandbox : pending[s] # NoOp =>
          /\ Open(pending[s])
          /\ opSandbox[pending[s]] = s
          /\ opGen[pending[s]] = generation[s]

(* A sandbox shown as Suspending, Resuming or Destroying has an operation  *)
(* of that kind open, unless a reconciliation verdict took it away: the    *)
(* row is never left in transit with nobody responsible for it.            *)
IntermediateOwned ==
    \A s \in Sandbox : observed[s] \in Intermediate =>
        \/ pending[s] # NoOp /\ observed[s] = IntermediateState[opType[pending[s]]]
        \/ pending[s] = NoOp /\ reconciled[s]

(* Capacity is given back only when the runtime itself confirmed a         *)
(* removal: not by a timeout, lost lease, failed destroy or evidence.      *)
ReleaseOnlyAfterRemoval ==
    \A s \in Sandbox : ~reserved[s] =>
        \E o \in OpId : /\ opSandbox[o] = s /\ opType[o] = "destroy"
                        /\ opState[o] = "confirmed" /\ runtime[o] = "ok"

(* An operation is confirmed only with the runtime's success behind it and *)
(* failed only by the runtime's failure or a reconciliation verdict; a     *)
(* timeout decides nothing (mark_timeout, runtime_outcome).                *)
VerdictBacked ==
    \A o \in OpId :
        /\ opState[o] = "confirmed" => runtime[o] = "ok"
        /\ opState[o] = "failed" => \/ opCause[o] = "runtime" /\ runtime[o] = "err"
                                    \/ opCause[o] = "lost_reconciled"

(* Rows, shared ledger and outbox tell one story, however often workers,   *)
(* replays and reconciliations publish the same outcome: no operation has  *)
(* two outcomes, no event is quarantined as a conflicting duplicate, and   *)
(* exactly the outcomes go out through the outbox.                         *)
LedgerAgrees ==
    /\ quarantine = {}
    /\ \A o \in OpId :
          /\ opEvents[o] = {e \in EventType : <<o, e>> \in ledger}
          /\ <<o, "succeeded">> \in ledger => opState[o] = "confirmed"
          /\ <<o, "failed">> \in ledger => opState[o] = "failed"
          /\ Exists(o) <=> <<o, "requested">> \in ledger
    /\ outbox = {e \in ledger : e[2] # "requested"}

(* No verdict is dropped: once a worker has delivered the runtime's        *)
(* verdict, the operation was settled by it or has it in its history.      *)
VerdictKept ==
    \A o \in OpId : worker[o] = "emit" =>
        \/ opCause[o] = "runtime"
        \/ opHistory[o] # {}

(* Whoever set the observed state belongs to the current generation: a     *)
(* worker or a runner of a fenced generation never writes the row.         *)
CurrentProvenance == \A s \in Sandbox : writer[s] = generation[s]

(* No double start: each generation of a sandbox was started by at most    *)
(* one resume, however many callers, keys and retries asked for it.        *)
OneStartPerGeneration ==
    \A o, p \in OpId :
        /\ opType[o] = "resume" /\ opType[p] = "resume"
        /\ opSandbox[o] = opSandbox[p] /\ opGen[o] = opGen[p]
        => o = p

(* A Lost row is marked uncertain and its lease expiry is on record for    *)
(* the generation that was lost.                                           *)
LostIsUncertain ==
    \A s \in Sandbox : observed[s] = "Lost" =>
        uncertain[s] /\ <<s, generation[s]>> \in expired

(* Whatever clients, retries, crashes, leases, verdicts and late evidence  *)
(* do to a sandbox: an intermediate state has an owner, its allocation is  *)
(* released only by a confirmed removal, what is Lost is marked uncertain  *)
(* and was expired, the row was written by its own generation, a           *)
(* generation was started by one resume, and every verdict rests on a real *)
(* effect and reaches its operation (the conjuncts above).                 *)
RowsConsistent ==
    /\ IntermediateOwned /\ ReleaseOnlyAfterRemoval /\ LostIsUncertain
    /\ CurrentProvenance /\ OneStartPerGeneration
    /\ VerdictBacked /\ VerdictKept

(* A caller is only ever told about an operation of the kind and on the    *)
(* sandbox it asked for, through whichever of the four replies; and a key  *)
(* that stands for an intention stands for it for good: it is never        *)
(* re-bound, and never answered with another operation again (request).    *)
KeysHonoured ==
    [][\A k \in Key :
          /\ \A a \in answered'[k] \ answered[k] : opSandbox'[a[3]] = a[1] /\ opType'[a[3]] = a[2]
          /\ idem[k] # NoOp =>
                /\ idem'[k] = idem[k]
                /\ \A a \in answered'[k] \ answered[k] : a[3] = idem[k]]_vars

(* One terminal outcome: a confirmed or failed operation stays so. *)
TerminalStable ==
    [][\A o \in OpId : opState[o] \in Terminal =>
          opState'[o] = opState[o] /\ opCause'[o] = opCause[o]]_vars

(* The version is a sound precondition for a caller that read the row: it  *)
(* moves with every change of what the acceptance rules look at.           *)
VersionFences ==
    [][\A s \in Sandbox : version'[s] = version[s] =>
          /\ observed'[s] = observed[s] /\ desired'[s] = desired[s]
          /\ generation'[s] = generation[s] /\ reconciled'[s] = reconciled[s]
          /\ pending'[s] = pending[s]]_vars

(* Every accepted operation gets a terminal outcome that is published,     *)
(* whatever is lost, timed out or reconciled in between, if crashes end.   *)
EventuallyPublished ==
    \A o \in OpId : Exists(o) ~>
        <<o, "succeeded">> \in outbox \/ <<o, "failed">> \in outbox
-----------------------------------------------------------------------------
(* What the contract of the lifecycle says and the code does not keep: no  *)
(* transition leaves Destroyed (destroyed_is_terminal).                    *)
DestroyedIsTerminal ==
    [][\A s \in Sandbox : observed[s] = "Destroyed" => observed'[s] = "Destroyed"]_vars

-----------------------------------------------------------------------------
(* The log implements IntentionLog: an operation's terminal event in the   *)
(* outbox is its publication.                                              *)
Outcome == [o \in OpId |->
    CASE opState[o] = "absent" -> "absent"
      [] opState[o] \in NonTerminal -> "open"
      [] opState[o] = "confirmed" -> "succeeded"
      [] opState[o] = "failed" -> "failed"]
Published == {o \in OpId : <<o, "succeeded">> \in outbox \/ <<o, "failed">> \in outbox}

Abstract == INSTANCE IntentionLog
    WITH Op <- OpId, Nobody <- None, owner <- opSandbox, outcome <- Outcome,
         effect <- runtime, published <- Published
AbstractSpec == Abstract!Spec
AbstractFairSpec == Abstract!FairSpec
=============================================================================
