------------------------- MODULE OperationLogProofs -------------------------
(***************************************************************************)
(* Theorems of OperationLog, for any sandboxes, keys, initial rows,        *)
(* evidence and bounds: first the types, then safety.  For safety every    *)
(* step is first reduced to one of a few effects on the rows, the          *)
(* operations and the ledger (StepCases, RowCases); each invariant is then *)
(* proved effect by effect.                                                *)
(***************************************************************************)
EXTENDS OperationLog, TLAPS

(* Operation ids are handed out in order, a row in use names its sandbox   *)
(* and type, and only rows in use are worked on.                           *)
RowsInUse ==
    /\ \A o \in OpId : Exists(o) <=> o <= nops
    /\ \A o \in OpId : Exists(o) => opSandbox[o] \in Sandbox /\ opType[o] \in OpType
WorkInUse ==
    /\ \A o \in OpId : worker[o] # "idle" => Exists(o)
    /\ cursor <= nops

TypeInv == TypeOK /\ RowsInUse /\ WorkInUse

USE DEF opVars, rowVars, keyVars, ledgerVars, processVars

(* What the log's methods allow, whoever calls them and however high a     *)
(* row's version is: the version bound of Next only keeps outsiders from   *)
(* acting for ever, and no fact below rests on it.                         *)
AnyNext ==
    \/ \E s \in Sandbox : RowStep(s)
    \/ \E s \in Sandbox, t \in OpType, k \in Key \cup {None} : RequestStep(s, t, k)
    \/ \E o \in OpId : Worker(o) \/ MarkTimeout(o) \/ Redeliver(o)
    \/ StartReplay
    \/ Replay
    \/ Crash
    \/ Restart

LEMMA NextIsAny == [Next]_vars => [AnyNext]_vars
BY DEF Next, AnyNext

LEMMA MapTypes ==
    /\ TargetState \in [OpType -> {"Suspend", "Active", "Destroyed"}]
    /\ IntermediateState \in [OpType -> Intermediate]
BY DEF TargetState, IntermediateState, OpType, Intermediate

LEMMA TypeInit == Init => TypeInv
BY ConstantsAssumption DEF Init, TypeInv, TypeOK, RowTypes, OpTypes, KeyTypes,
   LedgerTypes, ProcessTypes, RowsInUse, WorkInUse, OpId, NoOp, Exists,
   Observed, Desired, Step, Terminal, NonTerminal

-----------------------------------------------------------------------------
(* Parts of the type invariant that an action leaves alone. *)

LEMMA SameRows == RowTypes /\ UNCHANGED rowVars => RowTypes'
BY DEF RowTypes
LEMMA SameOps ==
    OpTypes /\ RowsInUse /\ UNCHANGED opVars => OpTypes' /\ RowsInUse'
BY DEF OpTypes, RowsInUse, Exists
LEMMA SameKeys == KeyTypes /\ UNCHANGED keyVars => KeyTypes'
BY DEF KeyTypes
LEMMA SameLedger == LedgerTypes /\ UNCHANGED ledgerVars => LedgerTypes'
BY DEF LedgerTypes
LEMMA SameProcess == ProcessTypes /\ UNCHANGED processVars => ProcessTypes'
BY DEF ProcessTypes
LEMMA SameWork ==
    WorkInUse /\ UNCHANGED <<worker, cursor, nops, opState>> => WorkInUse'
BY DEF WorkInUse, Exists

-----------------------------------------------------------------------------
(* The handlers the workers, the replay and other callers share. *)

LEMMA EmitTypes ==
    ASSUME TypeInv, NEW o \in OpId, NEW etype \in EventType, NEW b \in BOOLEAN,
           Emit(o, etype, b)
    PROVE  /\ LedgerTypes'
           /\ opEvents' \in [OpId -> SUBSET EventType]
<1>1. <<o, etype>> \in OpId \X EventType OBVIOUS
<1>2. ledger' \in {ledger, ledger \cup {<<o, etype>>}} /\ outbox' \in {outbox, outbox \cup {<<o, etype>>}} 
      /\ quarantine' \in {quarantine, quarantine \cup {<<o, etype>>}} /\ expired' = expired
  BY DEF Emit
<1>3. opEvents' = [opEvents EXCEPT ![o] = @ \cup {etype}]
  BY DEF Emit
<1>4. LedgerTypes'
  BY <1>1, <1>2 DEF LedgerTypes, TypeInv, TypeOK
<1>. QED BY <1>3, <1>4 DEF TypeInv, TypeOK, OpTypes

(* What every handler keeps, stated once. *)
Handled ==
    /\ RowTypes' /\ OpTypes' /\ LedgerTypes' /\ RowsInUse'
    /\ nops' = nops
    /\ \A p \in OpId : Exists(p)' <=> Exists(p)

LEMMA NothingHandled ==
    ASSUME TypeInv, UNCHANGED <<rowVars, opVars, ledgerVars>>
    PROVE  Handled
BY SameRows, SameOps, SameLedger DEF Handled, TypeInv, TypeOK, Exists

LEMMA KeepHistoryTypes ==
    ASSUME TypeInv, NEW o \in OpId,
           NEW status \in {"stale_generation", "late_terminal"},
           KeepHistory(o, status)
    PROVE  Handled
<1>1. RowTypes' /\ LedgerTypes'
  BY SameRows, SameLedger DEF TypeInv, TypeOK, KeepHistory
<1>. QED
  BY <1>1 DEF Handled, TypeInv, TypeOK, OpTypes, RowsInUse, Exists, KeepHistory

LEMMA SetOpStateTypes ==
    ASSUME TypeInv, NEW o \in OpId, Exists(o),
           NEW state \in NonTerminal \cup Terminal, SetOpState(o, state)
    PROVE  Handled
<1>1. RowTypes' /\ LedgerTypes'
  BY SameRows, SameLedger DEF TypeInv, TypeOK, SetOpState
<1>2. opState' = [opState EXCEPT ![o] = state] /\ state # "absent"
  BY DEF SetOpState, NonTerminal, Terminal
<1>3. OpTypes' BY <1>2 DEF TypeInv, TypeOK, OpTypes, SetOpState
<1>4. \A p \in OpId : Exists(p)' <=> Exists(p)
  BY <1>2 DEF TypeInv, TypeOK, OpTypes, Exists
<1>. QED
  BY <1>1, <1>3, <1>4 DEF Handled, TypeInv, RowsInUse, SetOpState

LEMMA SettleTypes ==
    ASSUME TypeInv, NEW o \in OpId, Exists(o), SettleOp(o)
    PROVE  Handled
<1>1. opSandbox[o] \in Sandbox /\ opType[o] \in OpType
  BY DEF TypeInv, RowsInUse
<1>2. SettledState(o) \in Observed
  BY <1>1, MapTypes DEF SettledState, Observed
<1>3. RowTypes'
  BY <1>1, <1>2 DEF SettleOp, Bump, TypeInv, TypeOK, RowTypes, OpTypes, Succeeded, StaysReserved
<1>4. LedgerTypes'
  BY SameLedger DEF SettleOp, TypeInv, TypeOK
<1>5. /\ opState' = [opState EXCEPT ![o] = IF Succeeded(o) THEN "confirmed" ELSE "failed"]
      /\ opCause' = [opCause EXCEPT ![o] = "runtime"]
      /\ UNCHANGED <<nops, opSandbox, opType, opGen, opEvents, opHistory>>
  BY DEF SettleOp
<1>6. OpTypes'
  BY <1>5 DEF TypeInv, TypeOK, OpTypes, Terminal
<1>7. \A p \in OpId : Exists(p)' <=> Exists(p)
  BY <1>5 DEF TypeInv, TypeOK, OpTypes, Exists
<1>. QED
  BY <1>3, <1>4, <1>5, <1>6, <1>7 DEF Handled, TypeInv, RowsInUse

LEMMA EmitOpTypes ==
    ASSUME TypeInv, NEW o \in OpId, EmitOp(o)
    PROVE  Handled
<1>1. RowTypes' BY SameRows DEF EmitOp, TypeInv, TypeOK
<1>2. LedgerTypes' /\ opEvents' \in [OpId -> SUBSET EventType]
  <2>1. TerminalEvent(opState[o]) \in EventType BY DEF TerminalEvent, EventType
  <2>2. CASE Emit(o, TerminalEvent(opState[o]), TRUE) BY <2>1, <2>2, EmitTypes
  <2>3. CASE UNCHANGED <<opEvents, ledgerVars>>
    BY <2>3, SameLedger DEF TypeInv, TypeOK, OpTypes
  <2>. QED BY <2>2, <2>3 DEF EmitOp
<1>3. UNCHANGED <<nops, opSandbox, opType, opState, opGen, opCause, opHistory>>
  BY DEF EmitOp
<1>. QED
  BY <1>1, <1>2, <1>3 DEF Handled, TypeInv, TypeOK, OpTypes, RowsInUse, Exists

LEMMA HandlerTypes ==
    ASSUME TypeInv, NEW o \in OpId, Exists(o),
           DispatchOp(o) \/ TimeoutOp(o) \/ OutcomeOp(o) \/ EmitOp(o)
    PROVE  Handled
<1>1. CASE DispatchOp(o)
  BY <1>1, NothingHandled, KeepHistoryTypes, SetOpStateTypes DEF DispatchOp, NonTerminal
<1>2. CASE TimeoutOp(o)
  BY <1>2, NothingHandled, KeepHistoryTypes, SetOpStateTypes DEF TimeoutOp, NonTerminal
<1>3. CASE OutcomeOp(o)
  BY <1>3, KeepHistoryTypes, SettleTypes DEF OutcomeOp
<1>4. CASE EmitOp(o)
  BY <1>4, EmitOpTypes
<1>. QED BY <1>1, <1>2, <1>3, <1>4
-----------------------------------------------------------------------------
(* The type invariant is kept by every action. *)

LEMMA TypeRowStep ==
    ASSUME TypeInv, NEW s \in Sandbox, RowStep(s)
    PROVE  TypeInv'
<1>. USE DEF TypeInv, TypeOK
<1>1. ASSUME NEW row \in InitialRows, CreateSandbox(s, row) PROVE TypeInv'
  <2>1. RowTypes'
    BY <1>1, ConstantsAssumption DEF CreateSandbox, RowTypes, Observed, Desired
  <2>. QED
    BY <1>1, <2>1, SameOps, SameKeys, SameLedger, SameProcess, SameWork DEF CreateSandbox
<1>2. ASSUME MarkLost(s) PROVE TypeInv'
  <2>1. RowTypes'
    BY <1>2 DEF MarkLost, FlagUncertain, Bump, RowTypes, Observed
  <2>2. LedgerTypes'
    BY <1>2 DEF MarkLost, LedgerTypes, RowTypes
  <2>. QED
    BY <1>2, <2>1, <2>2, SameOps, SameKeys, SameProcess, SameWork DEF MarkLost
<1>3. ASSUME MarkReconciled(s) PROVE TypeInv'
  <2>1. RowTypes'
    BY <1>3 DEF MarkReconciled, Bump, RowTypes
  <2>2. OpTypes' /\ RowsInUse' /\ LedgerTypes' /\ nops' = nops
        /\ (\A p \in OpId : Exists(p)' <=> Exists(p))
    <3>1. CASE UNCHANGED <<opVars, ledgerVars>>
      BY <3>1, SameOps, SameLedger DEF Exists
    <3>2. CASE /\ pending[s] # NoOp /\ opState[pending[s]] \in NonTerminal
               /\ ResolvePending(pending[s])
      <4>. DEFINE o == pending[s]
      <4>1. o \in OpId BY <3>2 DEF RowTypes
      <4>2. /\ opState' = [opState EXCEPT ![o] = "failed"]
            /\ opCause' = [opCause EXCEPT ![o] = "lost_reconciled"]
            /\ UNCHANGED <<nops, opSandbox, opType, opGen, opHistory>>
        BY <3>2 DEF ResolvePending
      <4>3. LedgerTypes' /\ opEvents' \in [OpId -> SUBSET EventType]
        <5>1. CASE Emit(o, "failed", TRUE) BY <4>1, <5>1, EmitTypes DEF EventType
        <5>2. CASE UNCHANGED <<opEvents, ledgerVars>> BY <5>2, SameLedger DEF OpTypes
        <5>. QED BY <3>2, <5>1, <5>2 DEF ResolvePending
      <4>4. OpTypes' BY <4>1, <4>2, <4>3 DEF OpTypes, Terminal
      <4>5. \A p \in OpId : Exists(p)' <=> Exists(p)
        BY <3>2, <4>1, <4>2 DEF OpTypes, Exists, NonTerminal
      <4>. QED BY <4>2, <4>3, <4>4, <4>5 DEF RowsInUse
    <3>. QED BY <1>3, <3>1, <3>2 DEF MarkReconciled
  <2>3. UNCHANGED <<keyVars, processVars, runtime>> BY <1>3 DEF MarkReconciled
  <2>. QED
    BY <2>1, <2>2, <2>3, SameKeys, SameProcess DEF WorkInUse
<1>4. ASSUME MarkUncertain(s) PROVE TypeInv'
  <2>1. RowTypes' BY <1>4 DEF MarkUncertain, FlagUncertain, RowTypes
  <2>. QED
    BY <1>4, <2>1, SameOps, SameKeys, SameLedger, SameProcess, SameWork DEF MarkUncertain
<1>5. ASSUME NEW g \in 1..generation[s], NEW obs \in EvidenceStates, ApplyEvent(s, g, obs)
      PROVE  TypeInv'
  <2>1. RowTypes'
    BY <1>5, ConstantsAssumption DEF ApplyEvent, Bump, RowTypes, Observed
  <2>. QED
    BY <1>5, <2>1, SameOps, SameKeys, SameLedger, SameProcess, SameWork DEF ApplyEvent
<1>. QED BY <1>1, <1>2, <1>3, <1>4, <1>5 DEF RowStep

LEMMA TypeRequestStep ==
    ASSUME TypeInv, NEW s \in Sandbox, NEW t \in OpType, NEW k \in Key \cup {None},
           RequestStep(s, t, k)
    PROVE  TypeInv'
<1>. USE DEF TypeInv, TypeOK
<1>1. ASSUME NEW o \in OpId, Answer(k, s, t, o)
      PROVE  answered' \in [Key -> SUBSET (Sandbox \X OpType \X OpId)]
  BY <1>1 DEF Answer, KeyTypes
<1>2. ASSUME NEW o \in OpId, Answer(k, s, t, o),
             UNCHANGED <<rowVars, opVars, idem, ledgerVars, runtime, processVars>>
      PROVE  TypeInv'
  <2>1. KeyTypes' BY <1>1, <1>2 DEF KeyTypes
  <2>. QED BY <1>2, <2>1, SameRows, SameOps, SameLedger, SameProcess, SameWork
<1>3. CASE RequestReplayed(s, t, k)
  <2>1. k \in Key /\ idem[k] \in OpId BY <1>3 DEF RequestReplayed, KeyTypes
  <2>. QED BY <1>2, <1>3, <2>1 DEF RequestReplayed
<1>4. CASE RequestDestroyed(s, t, k)
  BY <1>2, <1>4 DEF RequestDestroyed, LastDestroy, DestroyOps
<1>5. CASE RequestPending(s, t, k)
  <2>1. pending[s] \in OpId BY <1>5 DEF RequestPending, RowTypes
  <2>. QED BY <1>2, <1>5, <2>1 DEF RequestPending
<1>6. CASE RequestAccepted(s, t, k)
  <2>. DEFINE o == nops + 1
              g == NextGeneration(s, t)
  <2>1. o \in OpId /\ o \in 0..MaxOps
    BY <1>6, ConstantsAssumption DEF RequestAccepted, OpTypes, OpId
  <2>2. g \in Nat BY DEF RowTypes, NextGeneration
  <2>3. /\ observed' = [observed EXCEPT ![s] = IntermediateState[t]]
        /\ desired' = [desired EXCEPT ![s] = TargetState[t]]
        /\ generation' = [generation EXCEPT ![s] = g]
        /\ reconciled' = [reconciled EXCEPT ![s] = @ /\ t # "resume"]
        /\ pending' = [pending EXCEPT ![s] = o]
        /\ writer' = [writer EXCEPT ![s] = g]
        /\ Bump(s)
        /\ UNCHANGED <<reserved, uncertain>>
    BY <1>6 DEF RequestAccepted
  <2>4. RowTypes'
    BY <2>1, <2>2, <2>3, MapTypes DEF RowTypes, Bump, Observed, Desired
  <2>5. /\ nops' = o
        /\ opSandbox' = [opSandbox EXCEPT ![o] = s]
        /\ opType' = [opType EXCEPT ![o] = t]
        /\ opState' = [opState EXCEPT ![o] = "requested"]
        /\ opGen' = [opGen EXCEPT ![o] = g]
        /\ Emit(o, "requested", FALSE)
        /\ UNCHANGED <<opCause, opHistory>>
    BY <1>6 DEF RequestAccepted
  <2>6. LedgerTypes' /\ opEvents' \in [OpId -> SUBSET EventType]
    BY <2>1, <2>5, EmitTypes DEF EventType
  <2>7. OpTypes'
    BY <2>1, <2>2, <2>5, <2>6 DEF OpTypes, NonTerminal
  <2>8. \A p \in OpId : Exists(p)' <=> Exists(p) \/ p = o
    BY <2>1, <2>5 DEF Exists, OpTypes
  <2>9. RowsInUse'
    <3>1. \A p \in OpId : p <= nops + 1 <=> p <= nops \/ p = nops + 1
      BY DEF OpId, OpTypes
    <3>2. \A p \in OpId : Exists(p)' <=> p <= nops'
      BY <2>5, <2>8, <3>1 DEF RowsInUse
    <3>3. \A p \in OpId : Exists(p)' => opSandbox'[p] \in Sandbox /\ opType'[p] \in OpType
      BY <2>1, <2>5, <2>8 DEF RowsInUse, OpTypes
    <3>. QED BY <3>2, <3>3 DEF RowsInUse
  <2>10. KeyTypes'
    <3>1. idem' = IF k = None THEN idem ELSE [idem EXCEPT ![k] = o]
      BY <1>6 DEF RequestAccepted
    <3>2. Answer(k, s, t, o) BY <1>6 DEF RequestAccepted
    <3>. QED BY <1>1, <2>1, <3>1, <3>2 DEF KeyTypes
  <2>11. /\ worker' = [worker EXCEPT ![o] = "dispatch"]
         /\ UNCHANGED <<runtime, up, cursor, replayStep, crashes>>
    BY <1>6 DEF RequestAccepted
  <2>12. ProcessTypes' BY <2>11 DEF ProcessTypes, Step
  <2>13. WorkInUse'
    BY <2>1, <2>5, <2>8, <2>11 DEF WorkInUse, ProcessTypes, OpTypes
  <2>. QED BY <2>4, <2>6, <2>7, <2>9, <2>10, <2>11, <2>12, <2>13
<1>. QED BY <1>3, <1>4, <1>5, <1>6 DEF RequestStep

LEMMA TypeWorkStep ==
    ASSUME TypeInv, NEW o \in OpId, Worker(o) \/ MarkTimeout(o) \/ Redeliver(o)
    PROVE  TypeInv'
<1>. USE DEF TypeInv, TypeOK
<1>1. ASSUME Handled, UNCHANGED <<keyVars, processVars, runtime>> PROVE TypeInv'
  BY <1>1, SameKeys, SameProcess DEF Handled, WorkInUse
<1>2. CASE MarkTimeout(o) BY <1>1, <1>2, HandlerTypes DEF MarkTimeout
<1>3. CASE Redeliver(o) BY <1>1, <1>3, HandlerTypes DEF Redeliver
<1>4. CASE Worker(o)
  <2>1. Exists(o) /\ UNCHANGED <<keyVars, up, cursor, replayStep, crashes>>
        /\ (\E next \in Step \cup {"idle"} : worker' = [worker EXCEPT ![o] = next])
    BY <1>4 DEF Worker, WorkerDispatch, WorkerExecute, WorkerVerdict, WorkerEmit,
       WorkerStep, WorkInUse, Step
  <2>2. Handled /\ runtime' \in [OpId -> {"none", "ok", "err"}]
    <3>1. CASE WorkerDispatch(o)
      BY <2>1, <3>1, HandlerTypes DEF WorkerDispatch
    <3>2. CASE WorkerExecute(o)
      BY <3>2, NothingHandled DEF WorkerExecute, ExecuteOp
    <3>3. CASE WorkerVerdict(o)
      BY <2>1, <3>3, HandlerTypes DEF WorkerVerdict
    <3>4. CASE WorkerEmit(o)
      BY <2>1, <3>4, HandlerTypes DEF WorkerEmit
    <3>. QED BY <1>4, <3>1, <3>2, <3>3, <3>4 DEF Worker
  <2>3. ProcessTypes' BY <2>1 DEF ProcessTypes
  <2>4. WorkInUse' BY <2>1, <2>2 DEF WorkInUse, Handled, ProcessTypes
  <2>. QED BY <2>1, <2>2, <2>3, <2>4, SameKeys DEF Handled
<1>. QED BY <1>2, <1>3, <1>4

LEMMA TypeReplayStep ==
    ASSUME TypeInv, StartReplay \/ Replay \/ Crash \/ Restart
    PROVE  TypeInv'
<1>. USE DEF TypeInv, TypeOK
<1>1. CASE Crash
  <2>1. ProcessTypes'
    <3>1. /\ up' = FALSE /\ cursor' = 0 /\ replayStep' = "dispatch"
          /\ crashes < MaxCrashes /\ crashes' = crashes + 1
          /\ worker' = [p \in OpId |-> "idle"]
      BY <1>1 DEF Crash
    <3>2. crashes' \in 0..MaxCrashes /\ cursor' \in 0..MaxOps
      BY <3>1, ConstantsAssumption DEF ProcessTypes
    <3>. QED BY <3>1, <3>2 DEF ProcessTypes, Step
  <2>2. WorkInUse' BY <1>1 DEF Crash, WorkInUse, OpTypes
  <2>. QED BY <1>1, <2>1, <2>2, SameRows, SameOps, SameKeys, SameLedger DEF Crash
<1>2. ASSUME BeginReplay PROVE cursor' \in 0..MaxOps /\ replayStep' \in Step /\ cursor' <= nops
  BY <1>2, ConstantsAssumption DEF BeginReplay, FirstStep, Step, ProcessTypes, OpTypes, WorkInUse
<1>3. CASE StartReplay \/ Restart
  <2>1. BeginReplay /\ up' \in BOOLEAN
        /\ UNCHANGED <<rowVars, opVars, keyVars, ledgerVars, runtime, worker, crashes>>
    BY <1>3 DEF StartReplay, Restart, ProcessTypes
  <2>2. ProcessTypes' BY <1>2, <2>1 DEF ProcessTypes
  <2>3. WorkInUse' BY <1>2, <2>1 DEF WorkInUse, Exists
  <2>. QED BY <2>1, <2>2, <2>3, SameRows, SameOps, SameKeys, SameLedger
<1>4. CASE Replay
  <2>1. cursor \in OpId /\ Exists(cursor) /\ UNCHANGED <<keyVars, up, worker, crashes>>
    BY <1>4, ConstantsAssumption DEF Replay, ReplayDispatch, ReplayExecute, ReplayVerdict, ReplayEmit,
       ReplayAt, ProcessTypes, OpId, RowsInUse, WorkInUse
  <2>2. Handled /\ runtime' \in [OpId -> {"none", "ok", "err"}]
    <3>1. CASE ReplayDispatch
      BY <2>1, <3>1, HandlerTypes, NothingHandled DEF ReplayDispatch
    <3>2. CASE ReplayExecute
      BY <3>2, NothingHandled DEF ReplayExecute, ExecuteOp
    <3>3. CASE ReplayVerdict
      BY <2>1, <3>3, HandlerTypes DEF ReplayVerdict
    <3>4. CASE ReplayEmit
      BY <2>1, <3>4, HandlerTypes DEF ReplayEmit
    <3>. QED BY <1>4, <3>1, <3>2, <3>3, <3>4 DEF Replay
  <2>3. cursor' \in 0..MaxOps /\ replayStep' \in Step /\ cursor' <= nops
    <3>1. CASE NextRow
      BY <3>1, ConstantsAssumption DEF NextRow, FirstStep, Step, ProcessTypes, OpTypes, WorkInUse
    <3>2. CASE cursor' = cursor /\ replayStep' \in Step
      BY <3>2 DEF ProcessTypes, WorkInUse
    <3>. QED
      BY <1>4, <3>1, <3>2 DEF Replay, ReplayDispatch, ReplayExecute, ReplayVerdict,
         ReplayEmit, Advance, Step
  <2>4. ProcessTypes' BY <2>1, <2>3 DEF ProcessTypes
  <2>5. WorkInUse' BY <2>1, <2>2, <2>3 DEF WorkInUse, Handled
  <2>. QED BY <2>1, <2>2, <2>4, <2>5, SameKeys DEF Handled
<1>. QED BY <1>1, <1>3, <1>4

LEMMA TypeStutter == TypeInv /\ UNCHANGED vars => TypeInv'
BY SameRows, SameOps, SameKeys, SameLedger, SameProcess, SameWork DEF TypeInv, TypeOK, vars

LEMMA TypeNext == TypeInv /\ [AnyNext]_vars => TypeInv'
BY TypeRowStep, TypeRequestStep, TypeWorkStep, TypeReplayStep, TypeStutter DEF AnyNext

(* Every reachable state is well typed: only accepted operations are       *)
(* worked on, and a row never leaves the lifecycle's observed states.      *)
THEOREM TypeCorrect == Spec => []TypeOK
<1>1. Spec => []TypeInv BY TypeInit, TypeNext, NextIsAny, PTL DEF Spec
<1>2. TypeInv => TypeOK BY DEF TypeInv
<1>. QED BY <1>1, <1>2, PTL

-----------------------------------------------------------------------------
(* Safety, effect by effect. *)

USE DEF opVars, rowVars, keyVars, ledgerVars, processVars

(* A verdict is only ever delivered after the runtime gave it. *)
VerdictReady ==
    /\ \A o \in OpId : worker[o] = "verdict" => runtime[o] # "none"
    /\ cursor # 0 /\ replayStep = "verdict" => runtime[cursor] # "none"

(* The runtime repeats itself. *)
RuntimeKept == \A o \in OpId : runtime[o] # "none" => runtime'[o] = runtime[o]

RuntimeStep ==
    \/ UNCHANGED runtime
    \/ \E o \in OpId, verdict \in {"ok", "err"} :
          Exists(o) /\ runtime[o] = "none" /\ runtime' = [runtime EXCEPT ![o] = verdict]

Quiet == UNCHANGED <<rowVars, opVars, ledgerVars>> /\ RuntimeStep
Kept(o) == \E status \in {"stale_generation", "late_terminal"} : KeepHistory(o, status)
Moved(o) == Open(o) /\ (\E state \in NonTerminal : SetOpState(o, state))
Settled(o) == Open(o) /\ ~FencedOp(o) /\ runtime[o] # "none" /\ SettleOp(o)
Published1(o) ==
    /\ opState[o] \in Terminal /\ TerminalEvent(opState[o]) \notin opEvents[o]
    /\ Emit(o, TerminalEvent(opState[o]), TRUE)
    /\ UNCHANGED <<rowVars, nops, opSandbox, opType, opState, opGen, opCause,
                   opHistory>>
Effect(o) == Kept(o) \/ Moved(o) \/ Settled(o) \/ Published1(o)

Inv0 == TypeInv /\ VerdictReady

LEMMA HandlerCases ==
    ASSUME Inv0, NEW o \in OpId, Exists(o), UNCHANGED runtime,
           \/ DispatchOp(o) \/ TimeoutOp(o) \/ EmitOp(o)
           \/ OutcomeOp(o) /\ runtime[o] # "none"
    PROVE  Effect(o) \/ Quiet
<1>1. CASE DispatchOp(o)
  BY <1>1 DEF DispatchOp, Effect, Kept, Moved, Open, NonTerminal, Quiet, RuntimeStep
<1>2. CASE TimeoutOp(o)
  BY <1>2 DEF TimeoutOp, Effect, Kept, Moved, Open, NonTerminal, Quiet, RuntimeStep
<1>3. CASE EmitOp(o)
  BY <1>3 DEF EmitOp, Effect, Published1, Quiet, RuntimeStep
<1>4. CASE OutcomeOp(o) /\ runtime[o] # "none"
  <2>1. Open(o) \/ opState[o] \in Terminal
    BY DEF Inv0, TypeInv, TypeOK, OpTypes, Exists, Open
  <2>. QED BY <1>4, <2>1 DEF OutcomeOp, Effect, Kept, Settled
<1>. QED BY <1>1, <1>2, <1>3, <1>4

LEMMA StepCases ==
    ASSUME Inv0, [AnyNext]_vars
    PROVE  \/ Quiet
           \/ \E o \in OpId : Exists(o) /\ Effect(o) /\ UNCHANGED runtime
           \/ \E s \in Sandbox : RowStep(s)
           \/ \E s \in Sandbox, t \in OpType, k \in Key \cup {None} : RequestAccepted(s, t, k)
<1>1. CASE UNCHANGED vars
  BY <1>1 DEF vars, Quiet, RuntimeStep
<1>2. ASSUME NEW s \in Sandbox, NEW t \in OpType, NEW k \in Key \cup {None},
             RequestReplayed(s, t, k) \/ RequestDestroyed(s, t, k) \/ RequestPending(s, t, k)
      PROVE  Quiet
  BY <1>2 DEF RequestReplayed, RequestDestroyed, RequestPending, Quiet, RuntimeStep
<1>3. ASSUME NEW o \in OpId, Worker(o) \/ MarkTimeout(o) \/ Redeliver(o)
      PROVE  Quiet \/ (Exists(o) /\ Effect(o) /\ UNCHANGED runtime)
  <2>1. Exists(o)
    BY <1>3 DEF Worker, WorkerDispatch, WorkerExecute, WorkerVerdict, WorkerEmit,
       WorkerStep, MarkTimeout, Redeliver, Inv0, TypeInv, WorkInUse
  <2>2. CASE WorkerExecute(o)
    BY <2>1, <2>2 DEF WorkerExecute, ExecuteOp, Quiet, RuntimeStep
  <2>3. CASE WorkerDispatch(o) \/ WorkerVerdict(o) \/ WorkerEmit(o)
    BY <2>1, <2>3, HandlerCases
       DEF WorkerDispatch, WorkerVerdict, WorkerEmit, WorkerStep, Inv0, VerdictReady
  <2>4. CASE MarkTimeout(o) \/ Redeliver(o)
    BY <2>1, <2>4, HandlerCases DEF MarkTimeout, Redeliver
  <2>. QED BY <1>3, <2>2, <2>3, <2>4 DEF Worker
<1>4. CASE StartReplay \/ Crash \/ Restart
  BY <1>4 DEF StartReplay, Crash, Restart, Quiet, RuntimeStep
<1>5. ASSUME Replay
      PROVE  Quiet \/ (\E o \in OpId : Exists(o) /\ Effect(o) /\ UNCHANGED runtime)
  <2>1. cursor \in OpId /\ Exists(cursor)
    BY <1>5, ConstantsAssumption DEF Replay, ReplayDispatch, ReplayExecute, ReplayVerdict,
       ReplayEmit, ReplayAt, Inv0, TypeInv, TypeOK, ProcessTypes, OpId, RowsInUse, WorkInUse
  <2>2. CASE ReplayExecute
    BY <2>1, <2>2 DEF ReplayExecute, ExecuteOp, Quiet, RuntimeStep
  <2>3. CASE ReplayDispatch
    <3>1. CASE DispatchOp(cursor)
      BY <2>1, <2>3, <3>1, HandlerCases DEF ReplayDispatch
    <3>2. CASE UNCHANGED <<rowVars, opVars, ledgerVars>>
      BY <2>3, <3>2 DEF ReplayDispatch, Quiet, RuntimeStep
    <3>. QED BY <2>3, <3>1, <3>2 DEF ReplayDispatch
  <2>4. CASE ReplayVerdict \/ ReplayEmit
    BY <2>1, <2>4, HandlerCases
       DEF ReplayVerdict, ReplayEmit, ReplayAt, Inv0, VerdictReady
  <2>. QED BY <1>5, <2>2, <2>3, <2>4 DEF Replay
<1>. QED BY <1>1, <1>2, <1>3, <1>4, <1>5 DEF AnyNext, RequestStep

-----------------------------------------------------------------------------
LEMMA ReadyInit == Init => VerdictReady
BY DEF Init, VerdictReady, OpId

LEMMA ReadyNext == ASSUME Inv0, [AnyNext]_vars PROVE VerdictReady'
<1>. USE DEF Inv0, TypeInv, TypeOK
<1>1. ASSUME RuntimeKept, UNCHANGED <<worker, cursor, replayStep>> PROVE VerdictReady'
  BY <1>1, ConstantsAssumption DEF RuntimeKept, VerdictReady, ProcessTypes, OpId
<1>2. CASE UNCHANGED vars
  BY <1>1, <1>2 DEF vars, RuntimeKept
<1>3. ASSUME NEW s \in Sandbox, RowStep(s) PROVE VerdictReady'
  BY <1>1, <1>3 DEF RowStep, CreateSandbox, MarkLost, MarkReconciled, MarkUncertain,
     ApplyEvent, RuntimeKept
<1>4. ASSUME NEW s \in Sandbox, NEW t \in OpType, NEW k \in Key \cup {None}, RequestStep(s, t, k)
      PROVE  VerdictReady'
  <2>1. CASE RequestAccepted(s, t, k)
    BY <2>1 DEF RequestAccepted, VerdictReady, ProcessTypes
  <2>. QED
    BY <1>1, <1>4, <2>1 DEF RequestStep, RequestReplayed, RequestDestroyed, RequestPending, RuntimeKept
<1>5. ASSUME NEW o \in OpId, Worker(o) \/ MarkTimeout(o) \/ Redeliver(o) PROVE VerdictReady'
  <2>1. CASE WorkerExecute(o)
    <3>1. runtime'[o] # "none" /\ RuntimeKept
      BY <2>1 DEF WorkerExecute, ExecuteOp, RuntimeKept
    <3>2. Serving /\ worker' = [worker EXCEPT ![o] = "verdict"] /\ UNCHANGED <<cursor, replayStep>>
      BY <2>1 DEF WorkerExecute, WorkerStep
    <3>. QED BY <3>1, <3>2 DEF VerdictReady, RuntimeKept, ProcessTypes, Serving
  <2>2. CASE WorkerDispatch(o) \/ WorkerVerdict(o) \/ WorkerEmit(o)
    BY <2>2 DEF WorkerDispatch, WorkerVerdict, WorkerEmit, WorkerStep, Serving, VerdictReady, ProcessTypes
  <2>3. CASE MarkTimeout(o) \/ Redeliver(o)
    BY <1>1, <2>3 DEF MarkTimeout, Redeliver, RuntimeKept
  <2>. QED BY <1>5, <2>1, <2>2, <2>3 DEF Worker
<1>6. ASSUME NEW o \in OpId PROVE FirstStep(o) # "verdict"
  BY DEF FirstStep
<1>7. CASE StartReplay \/ Restart
  BY <1>7 DEF StartReplay, Restart, BeginReplay, FirstStep, VerdictReady
<1>8. CASE Crash BY <1>8 DEF Crash, VerdictReady
<1>9. CASE Replay
  <2>1. CASE ReplayExecute
    <3>1. cursor \in OpId
      BY <2>1, ConstantsAssumption DEF ReplayExecute, ReplayAt, ProcessTypes, OpId
    <3>2. runtime'[cursor] # "none" /\ RuntimeKept
      BY <2>1, <3>1 DEF ReplayExecute, ExecuteOp, RuntimeKept
    <3>3. UNCHANGED <<cursor, worker>> BY <2>1 DEF ReplayExecute, Advance
    <3>. QED BY <3>2, <3>3 DEF VerdictReady, RuntimeKept
  <2>2. CASE ReplayDispatch \/ ReplayVerdict
    BY <2>2 DEF ReplayDispatch, ReplayVerdict, Advance, VerdictReady
  <2>3. CASE ReplayEmit
    BY <2>3 DEF ReplayEmit, NextRow, FirstStep, VerdictReady
  <2>. QED BY <1>9, <2>1, <2>2, <2>3 DEF Replay
<1>. QED BY <1>2, <1>3, <1>4, <1>5, <1>7, <1>8, <1>9 DEF AnyNext

LEMMA Inv0Next == Inv0 /\ [AnyNext]_vars => Inv0'
BY TypeNext, ReadyNext DEF Inv0
-----------------------------------------------------------------------------
(* What each effect does to the operations and the pending pointers: the   *)
(* frame the invariants below are proved from.                             *)

(* A row that is not there yet has nothing pending. *)
Fresh == \A s \in Sandbox : ~Known(s) => pending[s] = NoOp

SerialInv == Inv0 /\ Serialized /\ Fresh

LEMMA SettledFrame ==
    ASSUME Inv0, NEW o \in OpId, Settled(o)
    PROVE  LET s == opSandbox[o] IN
           /\ s \in Sandbox /\ opType[o] \in OpType
           /\ opState' = [opState EXCEPT ![o] = IF runtime[o] = "ok" THEN "confirmed" ELSE "failed"]
           /\ opCause' = [opCause EXCEPT ![o] = "runtime"]
           /\ pending' = [pending EXCEPT ![s] = NoOp]
           /\ observed' = [observed EXCEPT ![s] = SettledState(o)]
           /\ UNCHANGED <<desired, generation, reconciled, nops, opSandbox, opType, opGen,
                          opEvents, opHistory, ledgerVars>>
BY DEF Settled, SettleOp, Succeeded, Inv0, TypeInv, RowsInUse, Open, Exists, NonTerminal

LEMMA ReconciledFrame ==
    ASSUME Inv0, Serialized, NEW s \in Sandbox, MarkReconciled(s)
    PROVE  /\ UNCHANGED <<nops, opSandbox, opType, opGen, opHistory, generation, observed,
                          desired, reserved, uncertain, writer, runtime, expired>>
           /\ pending' = [pending EXCEPT ![s] = NoOp]
           /\ reconciled' = [reconciled EXCEPT ![s] = TRUE]
           /\ \/ pending[s] = NoOp /\ UNCHANGED <<opVars, ledgerVars>>
              \/ /\ pending[s] \in OpId /\ Open(pending[s]) /\ opSandbox[pending[s]] = s
                 /\ opState' = [opState EXCEPT ![pending[s]] = "failed"]
                 /\ opCause' = [opCause EXCEPT ![pending[s]] = "lost_reconciled"]
                 /\ \/ "failed" \in opEvents[pending[s]] /\ UNCHANGED <<opEvents, ledgerVars>>
                    \/ Emit(pending[s], "failed", TRUE)
<1>1. pending[s] = NoOp \/ (/\ pending[s] \in OpId /\ Open(pending[s])
                            /\ opSandbox[pending[s]] = s)
  BY DEF Serialized, Inv0, TypeInv, TypeOK, RowTypes
<1>. QED BY <1>1 DEF MarkReconciled, ResolvePending, Open, Emit

LEMMA AcceptedFrame ==
    ASSUME Inv0, NEW s \in Sandbox, NEW t \in OpType, NEW k \in Key \cup {None},
           RequestAccepted(s, t, k)
    PROVE  LET o == nops + 1
               g == NextGeneration(s, t)
           IN  /\ o \in OpId /\ o # NoOp /\ ~Exists(o)
               /\ pending[s] = NoOp
               /\ pending' = [pending EXCEPT ![s] = o]
               /\ observed' = [observed EXCEPT ![s] = IntermediateState[t]]
               /\ generation' = [generation EXCEPT ![s] = g]
               /\ reconciled' = [reconciled EXCEPT ![s] = @ /\ t # "resume"]
               /\ writer' = [writer EXCEPT ![s] = g]
               /\ opSandbox' = [opSandbox EXCEPT ![o] = s]
               /\ opType' = [opType EXCEPT ![o] = t]
               /\ opState' = [opState EXCEPT ![o] = "requested"]
               /\ opGen' = [opGen EXCEPT ![o] = g]
               /\ Emit(o, "requested", FALSE)
               /\ UNCHANGED <<reserved, uncertain, opCause, opHistory, runtime>>
<1>1. nops + 1 \in OpId /\ nops + 1 # NoOp /\ ~Exists(nops + 1)
  BY ConstantsAssumption DEF RequestAccepted, Inv0, TypeInv, TypeOK, OpTypes, OpId, NoOp, RowsInUse
<1>. QED BY <1>1 DEF RequestAccepted, NothingPending

-----------------------------------------------------------------------------
LEMMA SerialInit == Init => Serialized /\ Fresh
BY DEF Init, Serialized, Fresh, Open, NonTerminal, NoOp

LEMMA SerialNext == ASSUME SerialInv, [AnyNext]_vars PROVE Serialized'
<1>. USE DEF SerialInv
<1>1. Inv0 BY DEF SerialInv
<1>2. /\ opState \in [OpId -> {"absent"} \cup NonTerminal \cup Terminal]
      /\ opSandbox \in [OpId -> Sandbox \cup {None}] /\ opGen \in [OpId -> Nat]
      /\ pending \in [Sandbox -> OpId \cup {NoOp}] /\ generation \in [Sandbox -> Nat]
      /\ NoOp \notin OpId
      /\ \A p \in OpId : Open(p) => opSandbox[p] \in Sandbox
  BY <1>1 DEF Inv0, TypeInv, TypeOK, OpTypes, RowTypes, RowsInUse, Open, Exists, NonTerminal, OpId, NoOp
<1>3. ASSUME UNCHANGED <<opState, opSandbox, opGen, pending, generation>> PROVE Serialized'
  BY <1>3 DEF Serialized, Open
<1>4. CASE Quiet BY <1>3, <1>4 DEF Quiet
<1>5. ASSUME NEW o \in OpId, Exists(o), Effect(o) PROVE Serialized'
  <2>1. CASE Kept(o) BY <1>3, <2>1 DEF Kept, KeepHistory
  <2>2. CASE Moved(o)
    <3>1. /\ Open(o) /\ UNCHANGED <<rowVars, opSandbox, opGen>>
          /\ \E state \in NonTerminal : opState' = [opState EXCEPT ![o] = state]
      BY <2>2 DEF Moved, SetOpState
    <3>2. \A p \in OpId : Open(p)' <=> Open(p)
      BY <1>2, <3>1 DEF Open
    <3>. QED BY <1>2, <3>1, <3>2 DEF Serialized
  <2>3. CASE Settled(o)
    <3>1. pending[opSandbox[o]] = o BY <2>3 DEF Settled, Serialized
    <3>2. \A p \in OpId : Open(p)' <=> Open(p) /\ p # o
      BY <1>1, <1>2, <2>3, SettledFrame DEF Open, NonTerminal
    <3>. QED BY <1>1, <1>2, <2>3, <3>1, <3>2, SettledFrame DEF Serialized
  <2>4. CASE Published1(o) BY <1>3, <2>4 DEF Published1
  <2>. QED BY <1>5, <2>1, <2>2, <2>3, <2>4 DEF Effect
<1>6. ASSUME NEW s \in Sandbox, RowStep(s) PROVE Serialized'
  <2>1. CASE MarkReconciled(s)
    <3>0. /\ UNCHANGED <<opSandbox, opGen, generation>>
          /\ pending' = [pending EXCEPT ![s] = NoOp]
      BY <1>1, <2>1, ReconciledFrame
    <3>1. CASE pending[s] = NoOp /\ UNCHANGED opVars
      BY <1>2, <3>0, <3>1 DEF Serialized, Open
    <3>2. CASE /\ pending[s] \in OpId /\ Open(pending[s]) /\ opSandbox[pending[s]] = s
               /\ opState' = [opState EXCEPT ![pending[s]] = "failed"]
      <4>1. \A p \in OpId : Open(p)' <=> Open(p) /\ p # pending[s]
        BY <1>2, <3>2 DEF Open, NonTerminal
      <4>. QED BY <1>2, <3>0, <3>2, <4>1 DEF Serialized
    <3>. QED BY <1>1, <2>1, <3>1, <3>2, ReconciledFrame
  <2>2. ASSUME NEW row \in InitialRows, CreateSandbox(s, row) PROVE Serialized'
    <3>1. pending[s] = NoOp BY <2>2 DEF CreateSandbox, Fresh
    <3>. QED BY <1>2, <2>2, <3>1 DEF CreateSandbox, Serialized, Open
  <2>. QED
    BY <1>3, <1>6, <2>1, <2>2 DEF RowStep, MarkLost, MarkUncertain, ApplyEvent
<1>7. ASSUME NEW s \in Sandbox, NEW t \in OpType, NEW k \in Key \cup {None}, RequestAccepted(s, t, k)
      PROVE  Serialized'
  <2>. DEFINE o == nops + 1
              g == NextGeneration(s, t)
  <2>0. /\ o \in OpId /\ o # NoOp /\ ~Exists(o)
        /\ pending[s] = NoOp
        /\ pending' = [pending EXCEPT ![s] = o]
        /\ generation' = [generation EXCEPT ![s] = g]
        /\ opSandbox' = [opSandbox EXCEPT ![o] = s]
        /\ opState' = [opState EXCEPT ![o] = "requested"]
        /\ opGen' = [opGen EXCEPT ![o] = g]
    BY <1>1, <1>7, AcceptedFrame DEF NextGeneration
  <2>. HIDE DEF o, g
  <2>1. \A p \in OpId : Open(p)' <=> Open(p) \/ p = o
    BY <1>2, <2>0 DEF Open, NonTerminal
  <2>2. ~Open(o) BY <2>0 DEF Open, Exists, NonTerminal
  <2>3. \A p \in OpId : Open(p) => opSandbox[p] # s
    BY <1>2, <2>0 DEF Serialized
  <2>. QED BY <1>2, <2>0, <2>1, <2>2, <2>3 DEF Serialized
<1>. QED BY <1>1, <1>4, <1>5, <1>6, <1>7, StepCases

LEMMA FreshNext == ASSUME SerialInv, [AnyNext]_vars PROVE Fresh'
<1>. USE DEF SerialInv
<1>1. /\ Inv0 /\ pending \in [Sandbox -> OpId \cup {NoOp}]
      /\ observed \in [Sandbox -> Observed]
  BY DEF Inv0, TypeInv, TypeOK, RowTypes
<1>2. ASSUME NEW s \in Sandbox, Known(s), NEW obs, obs # "Absent",
             observed' = [observed EXCEPT ![s] = obs] \/ observed' = observed,
             \A r \in Sandbox \ {s} : pending'[r] = pending[r]
      PROVE  Fresh'
  BY <1>1, <1>2 DEF Fresh, Known
<1>3. CASE Quiet BY <1>3 DEF Quiet, Fresh, Known
<1>4. ASSUME NEW o \in OpId, Exists(o), Effect(o) PROVE Fresh'
  <2>1. CASE Settled(o)
    <3>1. /\ opSandbox[o] \in Sandbox /\ opType[o] \in OpType /\ pending[opSandbox[o]] = o
          /\ pending' = [pending EXCEPT ![opSandbox[o]] = NoOp]
          /\ observed' = [observed EXCEPT ![opSandbox[o]] = SettledState(o)]
      BY <1>1, <2>1, SettledFrame DEF Settled, Serialized
    <3>2. SettledState(o) # "Absent" BY <3>1, MapTypes DEF SettledState
    <3>3. Known(opSandbox[o]) BY <3>1 DEF Fresh, OpId, NoOp
    <3>. QED BY <1>1, <1>2, <3>1, <3>2, <3>3
  <2>. QED
    BY <1>4, <2>1 DEF Effect, Kept, KeepHistory, Moved, SetOpState, Published1, Fresh, Known
<1>5. ASSUME NEW s \in Sandbox, RowStep(s) PROVE Fresh'
  <2>1. ASSUME NEW row \in InitialRows, CreateSandbox(s, row) PROVE Fresh'
    <3>1. row[1] # "Absent" BY ConstantsAssumption
    <3>. QED BY <1>1, <2>1, <3>1 DEF CreateSandbox, Fresh, Known
  <2>2. CASE MarkLost(s) BY <1>1, <2>2 DEF MarkLost, Fresh, Known
  <2>3. CASE MarkReconciled(s) BY <1>1, <2>3 DEF MarkReconciled, Fresh, Known
  <2>4. CASE MarkUncertain(s) BY <2>4 DEF MarkUncertain, Fresh, Known
  <2>5. ASSUME NEW g \in 1..generation[s], NEW obs \in EvidenceStates, ApplyEvent(s, g, obs)
        PROVE  Fresh'
    <3>1. obs # "Absent" BY ConstantsAssumption
    <3>. QED BY <1>1, <1>2, <2>5, <3>1 DEF ApplyEvent
  <2>. QED BY <1>5, <2>1, <2>2, <2>3, <2>4, <2>5 DEF RowStep
<1>6. ASSUME NEW s \in Sandbox, NEW t \in OpType, NEW k \in Key \cup {None}, RequestAccepted(s, t, k)
      PROVE  Fresh'
  <2>1. /\ Known(s) /\ observed' = [observed EXCEPT ![s] = IntermediateState[t]]
        /\ pending' = [pending EXCEPT ![s] = nops + 1]
    BY <1>6 DEF RequestAccepted
  <2>2. IntermediateState[t] # "Absent" BY MapTypes DEF Intermediate
  <2>. QED BY <1>1, <1>2, <2>1, <2>2
<1>. QED BY <1>1, <1>3, <1>4, <1>5, <1>6, StepCases

LEMMA SerialInvariant == Spec => []SerialInv
<1>1. Init => SerialInv
  BY TypeInit, ReadyInit, SerialInit DEF SerialInv, Inv0
<1>2. SerialInv /\ [AnyNext]_vars => SerialInv'
  BY Inv0Next, SerialNext, FreshNext DEF SerialInv
<1>. QED BY <1>1, <1>2, NextIsAny, PTL DEF Spec

(* One serialized sequence per sandbox: open operations and pending        *)
(* pointers match one to one and carry the current generation.             *)
THEOREM SerializedAlways == Spec => []Serialized
<1>1. SerialInv => Serialized BY DEF SerialInv
<1>. QED BY <1>1, SerialInvariant, PTL
-----------------------------------------------------------------------------
(* Terminal outcomes are settled only from an open operation. *)

LEMMA TerminalNext ==
    ASSUME SerialInv, [AnyNext]_vars, NEW p \in OpId, opState[p] \in Terminal
    PROVE  opState'[p] = opState[p] /\ opCause'[p] = opCause[p]
<1>1. /\ Inv0 /\ Serialized /\ ~Open(p) /\ Exists(p)
      /\ opState \in [OpId -> {"absent"} \cup NonTerminal \cup Terminal]
      /\ opCause \in [OpId -> {"none", "runtime", "lost_reconciled"}]
  BY DEF SerialInv, Inv0, TypeInv, TypeOK, OpTypes, Open, Exists, Terminal, NonTerminal
<1>2. CASE Quiet BY <1>2 DEF Quiet
<1>3. ASSUME NEW o \in OpId, Effect(o) PROVE opState'[p] = opState[p] /\ opCause'[p] = opCause[p]
  <2>1. CASE Moved(o) BY <1>1, <2>1 DEF Moved, SetOpState
  <2>2. CASE Settled(o)
    <3>1. o # p BY <1>1, <2>2 DEF Settled
    <3>. QED BY <1>1, <2>2, <3>1, SettledFrame
  <2>. QED BY <1>3, <2>1, <2>2 DEF Effect, Kept, KeepHistory, Published1
<1>4. ASSUME NEW s \in Sandbox, RowStep(s) PROVE opState'[p] = opState[p] /\ opCause'[p] = opCause[p]
  <2>1. CASE MarkReconciled(s)
    BY <1>1, <2>1, ReconciledFrame
  <2>. QED
    BY <1>4, <2>1 DEF RowStep, CreateSandbox, MarkLost, MarkUncertain, ApplyEvent
<1>5. ASSUME NEW s \in Sandbox, NEW t \in OpType, NEW k \in Key \cup {None}, RequestAccepted(s, t, k)
      PROVE  opState'[p] = opState[p] /\ opCause'[p] = opCause[p]
  <2>1. /\ nops + 1 # p
        /\ opState' = [opState EXCEPT ![nops + 1] = "requested"]
        /\ opCause' = opCause
    BY <1>1, <1>5, AcceptedFrame
  <2>. QED BY <1>1, <2>1
<1>. QED BY <1>1, <1>2, <1>3, <1>4, <1>5, StepCases

(* One terminal outcome per operation, whatever late verdicts, replays,    *)
(* timeouts and reconciliations follow it.                                 *)
THEOREM TerminalStableAlways == Spec => TerminalStable
<1>1. SerialInv /\ [AnyNext]_vars =>
        [\A o \in OpId : opState[o] \in Terminal =>
             opState'[o] = opState[o] /\ opCause'[o] = opCause[o]]_vars
  BY TerminalNext
<1>. QED BY <1>1, SerialInvariant, NextIsAny, PTL DEF Spec, TerminalStable

-----------------------------------------------------------------------------
(* The ledger. *)

LedgerInv == SerialInv /\ LedgerAgrees

(* An event that is not on the ledger yet is appended, never quarantined. *)
LEMMA AppendFrame ==
    ASSUME LedgerAgrees, NEW o \in OpId, NEW etype \in EventType, NEW b \in BOOLEAN,
           etype \notin opEvents[o], Emit(o, etype, b)
    PROVE  /\ ledger' = ledger \cup {<<o, etype>>}
           /\ outbox' = IF b THEN outbox \cup {<<o, etype>>} ELSE outbox
           /\ quarantine' = {}
           /\ opEvents' = [opEvents EXCEPT ![o] = @ \cup {etype}]
<1>1. <<o, etype>> \notin ledger BY DEF LedgerAgrees
<1>. QED BY <1>1 DEF Emit, LedgerAgrees

(* An open operation has published no outcome. *)
LEMMA OpenUnpublished ==
    ASSUME LedgerAgrees, NEW o \in OpId, Open(o)
    PROVE  <<o, "succeeded">> \notin ledger /\ <<o, "failed">> \notin ledger
BY DEF LedgerAgrees, Open, NonTerminal

LEMMA LedgerInit == Init => LedgerAgrees
BY DEF Init, LedgerAgrees, Exists

LEMMA LedgerNext == ASSUME LedgerInv, [AnyNext]_vars PROVE LedgerAgrees'
<1>. USE DEF LedgerInv
<1>1. /\ Inv0 /\ Serialized /\ LedgerAgrees
      /\ opState \in [OpId -> {"absent"} \cup NonTerminal \cup Terminal]
      /\ opEvents \in [OpId -> SUBSET EventType]
      /\ ledger \subseteq OpId \X EventType
  BY DEF SerialInv, Inv0, TypeInv, TypeOK, OpTypes, LedgerTypes
<1>2. ASSUME UNCHANGED <<opState, opEvents, ledger, outbox, quarantine>> PROVE LedgerAgrees'
  BY <1>2 DEF LedgerAgrees, Exists
<1>3. ASSUME NEW o \in OpId, Open(o), NEW state \in NonTerminal \cup Terminal,
             opState' = [opState EXCEPT ![o] = state],
             UNCHANGED <<opEvents, ledger, outbox, quarantine>>
      PROVE  LedgerAgrees'
  <2>1. \A p \in OpId : Exists(p)' <=> Exists(p)
    BY <1>1, <1>3 DEF Exists, Open, NonTerminal, Terminal
  <2>2. <<o, "succeeded">> \notin ledger /\ <<o, "failed">> \notin ledger
    BY <1>3, OpenUnpublished
  <2>. QED BY <1>1, <1>3, <2>1, <2>2 DEF LedgerAgrees
<1>4. CASE Quiet BY <1>2, <1>4 DEF Quiet
<1>5. ASSUME NEW o \in OpId, NEW etype \in EventType, NEW b \in BOOLEAN,
             etype \notin opEvents[o], Emit(o, etype, b), b = (etype # "requested"),
             opState' \in [OpId -> {"absent"} \cup NonTerminal \cup Terminal],
             \A p \in OpId \ {o} : opState'[p] = opState[p],
             etype = "succeeded" => opState'[o] = "confirmed",
             etype = "failed" => opState'[o] = "failed",
             <<o, "succeeded">> \in ledger => opState'[o] = "confirmed",
             <<o, "failed">> \in ledger => opState'[o] = "failed",
             etype # "requested" => Exists(o),
             opState'[o] # "absent"
      PROVE  LedgerAgrees'
  <2>1. /\ ledger' = ledger \cup {<<o, etype>>}
        /\ outbox' = IF b THEN outbox \cup {<<o, etype>>} ELSE outbox
        /\ quarantine' = {}
        /\ opEvents' = [opEvents EXCEPT ![o] = @ \cup {etype}]
    BY <1>1, <1>5, AppendFrame
  <2>2. \A p \in OpId : opEvents'[p] = {e \in EventType : <<p, e>> \in ledger'}
    BY <1>1, <2>1 DEF LedgerAgrees
  <2>3. \A p \in OpId : /\ <<p, "succeeded">> \in ledger' => opState'[p] = "confirmed"
                        /\ <<p, "failed">> \in ledger' => opState'[p] = "failed"
    BY <1>1, <1>5, <2>1 DEF LedgerAgrees
  <2>4. \A p \in OpId : Exists(p)' <=> <<p, "requested">> \in ledger'
    BY <1>1, <1>5, <2>1 DEF LedgerAgrees, Exists
  <2>5. outbox' = {e \in ledger' : e[2] # "requested"}
    <3>1. outbox = {e \in ledger : e[2] # "requested"} BY <1>1 DEF LedgerAgrees
    <3>2. <<o, etype>>[2] = etype OBVIOUS
    <3>3. CASE etype = "requested"
      <4>1. outbox' = outbox BY <1>5, <2>1, <3>3
      <4>. QED BY <2>1, <3>1, <3>2, <3>3, <4>1
    <3>4. CASE etype # "requested"
      <4>1. outbox' = outbox \cup {<<o, etype>>} BY <1>5, <2>1, <3>4
      <4>. QED BY <2>1, <3>1, <3>2, <3>4, <4>1
    <3>. QED BY <3>3, <3>4
  <2>. QED BY <2>1, <2>2, <2>3, <2>4, <2>5 DEF LedgerAgrees
<1>6. ASSUME NEW o \in OpId, Exists(o), Effect(o) PROVE LedgerAgrees'
  <2>1. CASE Kept(o) BY <1>2, <2>1 DEF Kept, KeepHistory
  <2>2. CASE Moved(o) BY <1>3, <2>2 DEF Moved, SetOpState
  <2>3. CASE Settled(o)
    <3>1. /\ Open(o) /\ UNCHANGED <<opEvents, ledger, outbox, quarantine>>
          /\ opState' = [opState EXCEPT ![o] = IF runtime[o] = "ok" THEN "confirmed" ELSE "failed"]
      BY <1>1, <2>3, SettledFrame DEF Settled
    <3>. QED BY <1>3, <3>1 DEF Terminal
  <2>4. CASE Published1(o)
    <3>1. /\ opState' = opState /\ opState[o] \in Terminal
          /\ TerminalEvent(opState[o]) \notin opEvents[o]
          /\ Emit(o, TerminalEvent(opState[o]), TRUE)
      BY <2>4 DEF Published1
    <3>2. \/ opState[o] = "confirmed" /\ TerminalEvent(opState[o]) = "succeeded"
          \/ opState[o] = "failed" /\ TerminalEvent(opState[o]) = "failed"
      BY <3>1 DEF Terminal, TerminalEvent
    <3>3. /\ <<o, "succeeded">> \in ledger => opState[o] = "confirmed"
          /\ <<o, "failed">> \in ledger => opState[o] = "failed"
      BY <1>1 DEF LedgerAgrees
    <3>. QED BY <1>1, <1>5, <1>6, <3>1, <3>2, <3>3 DEF EventType, Exists
  <2>. QED BY <1>6, <2>1, <2>2, <2>3, <2>4 DEF Effect
<1>7. ASSUME NEW s \in Sandbox, RowStep(s) PROVE LedgerAgrees'
  <2>1. CASE MarkReconciled(s)
    <3>1. CASE UNCHANGED <<opVars, ledgerVars>> BY <1>2, <3>1
    <3>2. CASE /\ pending[s] \in OpId /\ Open(pending[s])
               /\ opState' = [opState EXCEPT ![pending[s]] = "failed"]
               /\ Emit(pending[s], "failed", TRUE)
      <4>1. <<pending[s], "succeeded">> \notin ledger /\ <<pending[s], "failed">> \notin ledger
        BY <1>1, <3>2, OpenUnpublished
      <4>2. "failed" \notin opEvents[pending[s]]
        BY <1>1, <3>2, <4>1 DEF LedgerAgrees
      <4>3. Exists(pending[s]) BY <3>2 DEF Open, Exists, NonTerminal
      <4>. QED BY <1>1, <1>5, <3>2, <4>1, <4>2, <4>3 DEF EventType, Terminal
    <3>3. ASSUME pending[s] \in OpId, Open(pending[s]), "failed" \in opEvents[pending[s]]
          PROVE  FALSE
      BY <1>1, <3>3, OpenUnpublished DEF LedgerAgrees
    <3>. QED BY <1>1, <2>1, <3>1, <3>2, <3>3, ReconciledFrame
  <2>. QED
    BY <1>2, <1>7, <2>1 DEF RowStep, CreateSandbox, MarkLost, MarkUncertain, ApplyEvent
<1>8. ASSUME NEW s \in Sandbox, NEW t \in OpType, NEW k \in Key \cup {None}, RequestAccepted(s, t, k)
      PROVE  LedgerAgrees'
  <2>. DEFINE o == nops + 1
  <2>1. /\ o \in OpId /\ ~Exists(o)
        /\ opState' = [opState EXCEPT ![o] = "requested"]
        /\ Emit(o, "requested", FALSE)
    BY <1>1, <1>8, AcceptedFrame
  <2>. HIDE DEF o
  <2>2. "requested" \notin opEvents[o]
        /\ <<o, "succeeded">> \notin ledger /\ <<o, "failed">> \notin ledger
    BY <1>1, <2>1 DEF LedgerAgrees, Exists
  <2>. QED BY <1>1, <1>5, <2>1, <2>2 DEF EventType, NonTerminal
<1>. QED BY <1>1, <1>4, <1>6, <1>7, <1>8, StepCases

LEMMA LedgerInvariant == Spec => []LedgerInv
<1>1. Init => LedgerInv
  BY TypeInit, ReadyInit, SerialInit, LedgerInit DEF LedgerInv, SerialInv, Inv0
<1>2. LedgerInv /\ [AnyNext]_vars => LedgerInv'
  BY Inv0Next, SerialNext, FreshNext, LedgerNext DEF LedgerInv, SerialInv
<1>. QED BY <1>1, <1>2, NextIsAny, PTL DEF Spec

(* Rows, ledger and outbox tell one story: one outcome per operation, each *)
(* published at most once and through the outbox, nothing quarantined.     *)
THEOREM LedgerAgreesAlways == Spec => []LedgerAgrees
<1>1. LedgerInv => LedgerAgrees BY DEF LedgerInv
<1>. QED BY <1>1, LedgerInvariant, PTL
-----------------------------------------------------------------------------
(***************************************************************************)
(* The log implements IntentionLog.                                        *)
(***************************************************************************)
LEMMA OutcomeIs ==
    ASSUME Inv0
    PROVE  /\ DOMAIN Outcome = OpId
           /\ \A o \in OpId : /\ opState[o] = "absent" <=> Outcome[o] = "absent"
                              /\ Open(o) <=> Outcome[o] = "open"
                              /\ opState[o] = "confirmed" <=> Outcome[o] = "succeeded"
                              /\ opState[o] = "failed" <=> Outcome[o] = "failed"
BY DEF Outcome, Inv0, TypeInv, TypeOK, OpTypes, Open, NonTerminal, Terminal

(* Changing one operation's state changes its outcome and no other.        *)
LEMMA OutcomeSet ==
    ASSUME Inv0, NEW o \in OpId, NEW state \in NonTerminal \cup Terminal,
           opState' = [opState EXCEPT ![o] = state]
    PROVE  Outcome' = [Outcome EXCEPT ![o] =
               IF state \in NonTerminal THEN "open"
               ELSE IF state = "confirmed" THEN "succeeded" ELSE "failed"]
BY DEF Outcome, Inv0, TypeInv, TypeOK, OpTypes, NonTerminal, Terminal

LEMMA OutcomeSettled ==
    ASSUME Inv0, NEW o \in OpId, NEW state \in Terminal,
           opState' = [opState EXCEPT ![o] = state]
    PROVE  Outcome' = [Outcome EXCEPT ![o] =
               IF state = "confirmed" THEN "succeeded" ELSE "failed"]
<1>1. state \notin NonTerminal BY DEF Terminal, NonTerminal
<1>. QED BY <1>1, OutcomeSet

LEMMA AbstractInit == Init => Abstract!Init
<1>1. ASSUME Init PROVE Outcome = [o \in OpId |-> "absent"] /\ Published = {}
  <2>1. \A o \in OpId : opState[o] = "absent" BY <1>1 DEF Init
  <2>2. outbox = {} BY <1>1 DEF Init
  <2>. QED BY <2>1, <2>2 DEF Outcome, Published, NonTerminal
<1>. QED BY <1>1 DEF Init, Abstract!Init

LEMMA AbstractNext ==
    ASSUME LedgerInv, [AnyNext]_vars
    PROVE  [Abstract!Next]_(Abstract!vars)
<1>. USE DEF LedgerInv, Abstract!vars
<1>1. /\ Inv0 /\ Serialized /\ LedgerAgrees
      /\ opState \in [OpId -> {"absent"} \cup NonTerminal \cup Terminal]
      /\ opSandbox \in [OpId -> Sandbox \cup {None}]
  BY DEF SerialInv, Inv0, TypeInv, TypeOK, OpTypes
<1>2. ASSUME UNCHANGED <<opSandbox, opState, outbox, runtime>> PROVE UNCHANGED Abstract!vars
  BY <1>2 DEF Outcome, Published
<1>3. ASSUME NEW o \in OpId, Open(o) PROVE o \notin Published
  BY <1>1, <1>3, OpenUnpublished DEF Published, LedgerAgrees
<1>4. CASE Quiet
  <2>1. CASE UNCHANGED runtime BY <1>2, <1>4, <2>1 DEF Quiet
  <2>2. ASSUME NEW o \in OpId, NEW verdict \in {"ok", "err"}, Exists(o), runtime[o] = "none",
               runtime' = [runtime EXCEPT ![o] = verdict]
        PROVE  Abstract!Execute(o, verdict)
    <3>1. Outcome' = Outcome /\ Published' = Published /\ opSandbox' = opSandbox
      BY <1>4 DEF Quiet, Outcome, Published
    <3>2. Outcome[o] # "absent" BY <1>1, <2>2, OutcomeIs DEF Exists
    <3>. QED BY <2>2, <3>1, <3>2 DEF Abstract!Execute
  <2>. QED BY <1>4, <2>1, <2>2 DEF Quiet, RuntimeStep, Abstract!Next
<1>5. ASSUME NEW o \in OpId, Exists(o), Effect(o), UNCHANGED runtime
      PROVE  [Abstract!Next]_(Abstract!vars)
  <2>1. CASE Kept(o) BY <1>2, <1>5, <2>1 DEF Kept, KeepHistory
  <2>2. CASE Moved(o)
    <3>1. /\ Open(o) /\ UNCHANGED <<opSandbox, outbox>>
          /\ \E state \in NonTerminal : opState' = [opState EXCEPT ![o] = state]
      BY <2>2 DEF Moved, SetOpState
    <3>2. Outcome' = [Outcome EXCEPT ![o] = "open"] BY <1>1, <3>1, OutcomeSet
    <3>3. Outcome' = Outcome BY <1>1, <3>1, <3>2, OutcomeIs DEF Outcome
    <3>. QED BY <1>5, <3>1, <3>3 DEF Published
  <2>3. CASE Settled(o)
    <3>1. /\ Open(o) /\ runtime[o] # "none" /\ UNCHANGED <<opSandbox, outbox>>
          /\ opState' = [opState EXCEPT ![o] = IF runtime[o] = "ok" THEN "confirmed" ELSE "failed"]
      BY <1>1, <2>3, SettledFrame DEF Settled
    <3>2. Outcome' = [Outcome EXCEPT ![o] = IF runtime[o] = "ok" THEN "succeeded" ELSE "failed"]
      <4>1. CASE runtime[o] = "ok"
        <5>1. opState' = [opState EXCEPT ![o] = "confirmed"] BY <3>1, <4>1
        <5>2. Outcome' = [Outcome EXCEPT ![o] = "succeeded"]
          BY <1>1, <5>1, OutcomeSettled DEF Terminal
        <5>. QED BY <4>1, <5>2
      <4>2. CASE runtime[o] # "ok"
        <5>1. opState' = [opState EXCEPT ![o] = "failed"] BY <3>1, <4>2
        <5>2. Outcome' = [Outcome EXCEPT ![o] = "failed"]
          BY <1>1, <5>1, OutcomeSettled DEF Terminal
        <5>. QED BY <4>2, <5>2
      <4>. QED BY <4>1, <4>2
    <3>3. Abstract!Settle(o)
      BY <1>1, <1>5, <3>1, <3>2, OutcomeIs DEF Abstract!Settle, Published
    <3>. QED BY <3>3 DEF Abstract!Next
  <2>4. CASE Published1(o)
    <3>1. /\ opState[o] \in Terminal /\ UNCHANGED <<opSandbox, opState, opType>>
          /\ TerminalEvent(opState[o]) \notin opEvents[o]
          /\ Emit(o, TerminalEvent(opState[o]), TRUE)
      BY <2>4 DEF Published1
    <3>2. \/ opState[o] = "confirmed" /\ TerminalEvent(opState[o]) = "succeeded"
          \/ opState[o] = "failed" /\ TerminalEvent(opState[o]) = "failed"
      BY <3>1 DEF Terminal, TerminalEvent
    <3>3. outbox' = outbox \cup {<<o, TerminalEvent(opState[o])>>}
      BY <1>1, <3>1, <3>2, AppendFrame DEF EventType
    <3>4. o \notin Published
      BY <1>1, <3>1, <3>2 DEF Published, LedgerAgrees, EventType
    <3>5. Published' = Published \cup {o} BY <3>2, <3>3 DEF Published
    <3>6. Outcome' = Outcome BY <3>1 DEF Outcome
    <3>7. Abstract!Publish(o)
      BY <1>1, <1>5, <3>1, <3>2, <3>4, <3>5, <3>6, OutcomeIs DEF Abstract!Publish
    <3>. QED BY <3>7 DEF Abstract!Next
  <2>. QED BY <1>5, <2>1, <2>2, <2>3, <2>4 DEF Effect
<1>6. ASSUME NEW s \in Sandbox, RowStep(s) PROVE [Abstract!Next]_(Abstract!vars)
  <2>1. CASE MarkReconciled(s)
    <3>. DEFINE o == pending[s]
    <3>0. UNCHANGED <<opSandbox, runtime>> BY <1>1, <2>1, ReconciledFrame
    <3>1. CASE UNCHANGED <<opVars, ledgerVars>> BY <1>2, <3>0, <3>1
    <3>2. CASE /\ o \in OpId /\ Open(o)
               /\ opState' = [opState EXCEPT ![o] = "failed"]
               /\ Emit(o, "failed", TRUE)
      <4>. HIDE DEF o
      <4>1. <<o, "succeeded">> \notin ledger /\ <<o, "failed">> \notin ledger
        BY <1>1, <3>2, OpenUnpublished
      <4>2. "failed" \notin opEvents[o] BY <1>1, <3>2, <4>1 DEF LedgerAgrees
      <4>3. outbox' = outbox \cup {<<o, "failed">>}
        BY <1>1, <3>2, <4>2, AppendFrame DEF EventType
      <4>4. Published' = Published \cup {o} BY <3>2, <4>3 DEF Published
      <4>5. Outcome' = [Outcome EXCEPT ![o] = "failed"]
        BY <1>1, <3>2, OutcomeSettled DEF Terminal
      <4>6. Abstract!GiveUp(o)
        BY <1>1, <3>0, <3>2, <4>4, <4>5, OutcomeIs DEF Abstract!GiveUp
      <4>. QED BY <3>2, <4>6 DEF Abstract!Next
    <3>3. ASSUME o \in OpId, Open(o), "failed" \in opEvents[o] PROVE FALSE
      BY <1>1, <3>3, OpenUnpublished DEF LedgerAgrees
    <3>. QED BY <1>1, <2>1, <3>1, <3>2, <3>3, ReconciledFrame
  <2>. QED
    BY <1>2, <1>6, <2>1 DEF RowStep, CreateSandbox, MarkLost, MarkUncertain, ApplyEvent
<1>7. ASSUME NEW s \in Sandbox, NEW t \in OpType, NEW k \in Key \cup {None}, RequestAccepted(s, t, k)
      PROVE  [Abstract!Next]_(Abstract!vars)
  <2>. DEFINE o == nops + 1
  <2>1. /\ o \in OpId /\ ~Exists(o) /\ pending[s] = NoOp /\ o # NoOp
        /\ opState' = [opState EXCEPT ![o] = "requested"]
        /\ opSandbox' = [opSandbox EXCEPT ![o] = s]
        /\ Emit(o, "requested", FALSE) /\ UNCHANGED runtime
    BY <1>1, <1>7, AcceptedFrame DEF NextGeneration
  <2>. HIDE DEF o
  <2>2. Outcome' = [Outcome EXCEPT ![o] = "open"]
    BY <1>1, <2>1, OutcomeSet DEF NonTerminal
  <2>3. Outcome[o] = "absent" BY <1>1, <2>1, OutcomeIs DEF Exists
  <2>4. "requested" \notin opEvents[o] BY <1>1, <2>1 DEF LedgerAgrees
  <2>5. Published' = Published
    <3>1. outbox' = outbox BY <1>1, <2>1, <2>4, AppendFrame DEF EventType
    <3>. QED BY <3>1 DEF Published
  <2>6. \A p \in OpId : ~(opSandbox[p] = s /\ Outcome[p] = "open")
    <3>1. \A p \in OpId : Open(p) => pending[opSandbox[p]] = p
      BY <1>1 DEF Serialized
    <3>2. NoOp \notin OpId BY DEF OpId, NoOp
    <3>. QED BY <1>1, <2>1, <3>1, <3>2, OutcomeIs
  <2>7. Abstract!Accept(o, s)
    BY <2>1, <2>2, <2>3, <2>5, <2>6 DEF Abstract!Accept
  <2>. QED BY <2>1, <2>7 DEF Abstract!Next
<1>. QED BY <1>1, <1>4, <1>5, <1>6, <1>7, StepCases

(* Whatever the clients, timeouts, leases, evidence and crashes do, the    *)
(* log is an intention log: one effect, one justified outcome and one      *)
(* publication per accepted operation, one open operation per sandbox.     *)
THEOREM ImplementsIntentionLog == Spec => AbstractSpec
<1>1. LedgerInv /\ [AnyNext]_vars => [Abstract!Next]_(Abstract!vars)
  BY AbstractNext
<1>. QED BY <1>1, AbstractInit, LedgerInvariant, NextIsAny, PTL DEF Spec, AbstractSpec, Abstract!Spec

-----------------------------------------------------------------------------
(***************************************************************************)
(* The rows.                                                               *)
(***************************************************************************)
LEMMA RowCases ==
    ASSUME Inv0, [AnyNext]_vars
    PROVE  \/ UNCHANGED <<rowVars, expired>>
           \/ \E o \in OpId : Settled(o)
           \/ \E s \in Sandbox : RowStep(s)
           \/ \E s \in Sandbox, t \in OpType, k \in Key \cup {None} : RequestAccepted(s, t, k)
<1>1. CASE Quiet BY <1>1 DEF Quiet
<1>2. ASSUME NEW o \in OpId, Effect(o) PROVE UNCHANGED <<rowVars, expired>> \/ Settled(o)
  BY <1>2 DEF Effect, Kept, KeepHistory, Moved, SetOpState, Published1, Emit
<1>. QED BY <1>1, <1>2, StepCases

(* Nothing that identifies an accepted operation is ever changed, nor what *)
(* the runtime did for it, and its history only grows.                     *)
LEMMA AcceptedStays ==
    ASSUME SerialInv, [AnyNext]_vars, NEW p \in OpId, Exists(p)
    PROVE  /\ Exists(p)'
           /\ opSandbox'[p] = opSandbox[p] /\ opType'[p] = opType[p] /\ opGen'[p] = opGen[p]
           /\ opHistory[p] \subseteq opHistory'[p]
           /\ runtime[p] # "none" => runtime'[p] = runtime[p]
<1>1. /\ Inv0 /\ Serialized
      /\ opState \in [OpId -> {"absent"} \cup NonTerminal \cup Terminal]
      /\ opSandbox \in [OpId -> Sandbox \cup {None}] /\ opType \in [OpId -> OpType \cup {None}]
      /\ opGen \in [OpId -> Nat] /\ runtime \in [OpId -> {"none", "ok", "err"}]
      /\ opHistory \in [OpId -> SUBSET {"stale_generation", "late_terminal"}]
  BY DEF SerialInv, Inv0, TypeInv, TypeOK, OpTypes
<1>2. "absent" \notin NonTerminal \cup Terminal BY DEF NonTerminal, Terminal
<1>3. CASE Quiet BY <1>1, <1>3 DEF Quiet, RuntimeStep, Exists
<1>4. ASSUME NEW o \in OpId, Effect(o), UNCHANGED runtime
      PROVE  /\ opState'[p] # "absent" /\ opHistory[p] \subseteq opHistory'[p]
             /\ UNCHANGED <<opSandbox, opType, opGen>>
  <2>1. CASE Kept(o) BY <1>1, <1>4, <2>1 DEF Kept, KeepHistory, Exists
  <2>2. CASE Moved(o) BY <1>1, <1>2, <2>2 DEF Moved, SetOpState, Exists
  <2>3. CASE Settled(o) BY <1>1, <2>3, SettledFrame DEF Exists
  <2>4. CASE Published1(o) BY <2>4 DEF Published1, Exists
  <2>. QED BY <1>4, <2>1, <2>2, <2>3, <2>4 DEF Effect
<1>5. ASSUME NEW s \in Sandbox, RowStep(s)
      PROVE  opState'[p] # "absent" /\ UNCHANGED <<opSandbox, opType, opGen, opHistory, runtime>>
  <2>1. CASE MarkReconciled(s) BY <1>1, <2>1, ReconciledFrame DEF Exists
  <2>. QED
    BY <1>5, <2>1 DEF RowStep, CreateSandbox, MarkLost, MarkUncertain, ApplyEvent, Exists
<1>6. ASSUME NEW s \in Sandbox, NEW t \in OpType, NEW k \in Key \cup {None}, RequestAccepted(s, t, k)
      PROVE  /\ opState'[p] # "absent" /\ UNCHANGED <<opHistory, runtime>>
             /\ opSandbox'[p] = opSandbox[p] /\ opType'[p] = opType[p] /\ opGen'[p] = opGen[p]
  <2>. DEFINE o == nops + 1
              g == NextGeneration(s, t)
  <2>1. /\ o # p /\ UNCHANGED <<opHistory, runtime>>
        /\ opSandbox' = [opSandbox EXCEPT ![o] = s]
        /\ opType' = [opType EXCEPT ![o] = t]
        /\ opState' = [opState EXCEPT ![o] = "requested"]
        /\ opGen' = [opGen EXCEPT ![o] = g]
    BY <1>1, <1>6, AcceptedFrame DEF NextGeneration
  <2>. HIDE DEF o, g
  <2>. QED BY <1>1, <2>1 DEF Exists
<1>. QED BY <1>1, <1>3, <1>4, <1>5, <1>6, StepCases DEF Exists

(* A row that was never created is blank. *)
Blank == \A s \in Sandbox : ~Known(s) => version[s] = 0 /\ generation[s] = 0

LEMMA BlankNext == ASSUME SerialInv, Blank, [AnyNext]_vars PROVE Blank'
<1>1. /\ Inv0 /\ observed \in [Sandbox -> Observed] /\ version \in [Sandbox -> Nat]
      /\ generation \in [Sandbox -> Nat] /\ Serialized /\ Fresh
  BY DEF SerialInv, Inv0, TypeInv, TypeOK, RowTypes
<1>3. CASE UNCHANGED rowVars BY <1>3 DEF Blank, Known
<1>4. ASSUME NEW o \in OpId, Settled(o) PROVE Blank'
  <2>1. /\ opSandbox[o] \in Sandbox /\ opType[o] \in OpType
        /\ observed' = [observed EXCEPT ![opSandbox[o]] = SettledState(o)] /\ generation' = generation
        /\ version' = [version EXCEPT ![opSandbox[o]] = @ + 1]
    BY <1>1, <1>4, SettledFrame DEF Settled, SettleOp, Bump
  <2>2. SettledState(o) # "Absent" BY <2>1, MapTypes DEF SettledState
  <2>. QED BY <1>1, <2>1, <2>2 DEF Blank, Known
<1>5. ASSUME NEW s \in Sandbox, RowStep(s) PROVE Blank'
  <2>1. ASSUME NEW row \in InitialRows, CreateSandbox(s, row) PROVE Blank'
    <3>1. row[1] # "Absent" BY ConstantsAssumption
    <3>. QED BY <1>1, <2>1, <3>1 DEF CreateSandbox, Blank, Known
  <2>2. CASE MarkLost(s) BY <1>1, <2>2 DEF MarkLost, Bump, Blank, Known
  <2>3. CASE MarkReconciled(s) \/ MarkUncertain(s)
    BY <1>1, <2>3 DEF MarkReconciled, MarkUncertain, Bump, Blank, Known
  <2>4. ASSUME NEW g \in 1..generation[s], NEW obs \in EvidenceStates, ApplyEvent(s, g, obs)
        PROVE  Blank'
    <3>1. obs # "Absent" BY ConstantsAssumption
    <3>. QED BY <1>1, <2>4, <3>1 DEF ApplyEvent, Bump, Blank, Known
  <2>. QED BY <1>5, <2>1, <2>2, <2>3, <2>4 DEF RowStep
<1>6. ASSUME NEW s \in Sandbox, NEW t \in OpType, NEW k \in Key \cup {None}, RequestAccepted(s, t, k)
      PROVE  Blank'
  <2>1. IntermediateState[t] # "Absent" BY MapTypes DEF Intermediate
  <2>. QED BY <1>1, <1>6, <2>1 DEF RequestAccepted, Bump, Blank, Known
<1>. QED BY <1>1, <1>3, <1>4, <1>5, <1>6, RowCases

LEMMA VersionNext ==
    ASSUME SerialInv, Blank, [AnyNext]_vars, NEW s \in Sandbox, version'[s] = version[s]
    PROVE  /\ observed'[s] = observed[s] /\ desired'[s] = desired[s]
           /\ generation'[s] = generation[s] /\ reconciled'[s] = reconciled[s]
           /\ pending'[s] = pending[s]
<1>. DEFINE Same(r) == /\ observed'[r] = observed[r] /\ desired'[r] = desired[r]
                       /\ generation'[r] = generation[r] /\ reconciled'[r] = reconciled[r]
                       /\ pending'[r] = pending[r]
<1>1. Inv0 /\ RowTypes
  BY DEF SerialInv, Inv0, TypeInv, TypeOK
<1>2. CASE UNCHANGED rowVars BY <1>2
<1>3. ASSUME NEW r \in Sandbox, version'[r] # version[r],
             \A q \in Sandbox \ {r} : Same(q)
      PROVE  Same(s)
  BY <1>3
<1>4. ASSUME NEW o \in OpId, Settled(o) PROVE Same(s)
  <2>1. /\ opSandbox[o] \in Sandbox
        /\ UNCHANGED <<desired, generation, reconciled>>
        /\ observed' = [observed EXCEPT ![opSandbox[o]] = SettledState(o)]
        /\ pending' = [pending EXCEPT ![opSandbox[o]] = NoOp]
        /\ version' = [version EXCEPT ![opSandbox[o]] = @ + 1]
    BY <1>1, <1>4, SettledFrame DEF Settled, SettleOp, Bump
  <2>. QED BY <1>1, <1>3, <2>1 DEF RowTypes
<1>5. ASSUME NEW r \in Sandbox, RowStep(r) PROVE Same(s)
  <2>1. ASSUME NEW row \in InitialRows, CreateSandbox(r, row) PROVE Same(s)
    <3>1. version[r] = 0 BY <2>1 DEF CreateSandbox, Blank
    <3>. QED BY <1>1, <1>3, <2>1, <3>1 DEF CreateSandbox, RowTypes
  <2>2. CASE MarkUncertain(r) BY <2>2 DEF MarkUncertain
  <2>3. CASE MarkLost(r) \/ MarkReconciled(r)
    BY <1>1, <1>3, <2>3 DEF MarkLost, MarkReconciled, Bump, RowTypes
  <2>4. ASSUME NEW g \in 1..generation[r], NEW obs \in EvidenceStates, ApplyEvent(r, g, obs)
        PROVE  Same(s)
    BY <1>1, <1>3, <2>4 DEF ApplyEvent, Bump, RowTypes
  <2>. QED BY <1>5, <2>1, <2>2, <2>3, <2>4 DEF RowStep
<1>6. ASSUME NEW r \in Sandbox, NEW t \in OpType, NEW k \in Key \cup {None}, RequestAccepted(r, t, k)
      PROVE  Same(s)
  BY <1>1, <1>3, <1>6 DEF RequestAccepted, Bump, RowTypes
<1>. QED BY <1>1, <1>2, <1>4, <1>5, <1>6, RowCases

LEMMA BlankInvariant == Spec => [](SerialInv /\ Blank)
<1>1. Init => Blank BY DEF Init, Blank
<1>2. SerialInv /\ Blank /\ [AnyNext]_vars => Blank' BY BlankNext
<1>. QED BY <1>1, <1>2, SerialInvariant, NextIsAny, PTL DEF Spec

(* The row version is a sound precondition: nothing the acceptance rules   *)
(* look at changes without it, whichever method changes it.                *)
THEOREM VersionFencesAlways == Spec => VersionFences
<1>1. SerialInv /\ Blank /\ [AnyNext]_vars =>
        [\A s \in Sandbox : version'[s] = version[s] =>
          /\ observed'[s] = observed[s] /\ desired'[s] = desired[s]
          /\ generation'[s] = generation[s] /\ reconciled'[s] = reconciled[s]
          /\ pending'[s] = pending[s]]_vars
  BY VersionNext
<1>. QED BY <1>1, BlankInvariant, NextIsAny, PTL DEF Spec, VersionFences
-----------------------------------------------------------------------------
(* Generations only grow, and an accepted operation is of a generation     *)
(* its sandbox has reached.                                                *)
LEMMA GenerationGrows ==
    ASSUME SerialInv, Blank, [AnyNext]_vars, NEW s \in Sandbox
    PROVE  generation'[s] >= generation[s]
<1>1. Inv0 /\ RowTypes BY DEF SerialInv, Inv0, TypeInv, TypeOK
<1>. USE DEF RowTypes
<1>2. ASSUME NEW o \in OpId, Settled(o) PROVE generation' = generation
  BY <1>2 DEF Settled, SettleOp
<1>3. ASSUME NEW r \in Sandbox, RowStep(r) PROVE generation'[s] >= generation[s]
  <2>1. ASSUME NEW row \in InitialRows, CreateSandbox(r, row)
        PROVE  generation'[s] >= generation[s]
    BY <1>1, <2>1 DEF CreateSandbox, Blank
  <2>. QED BY <1>1, <1>3, <2>1 DEF RowStep, MarkLost, MarkReconciled, MarkUncertain, ApplyEvent
<1>4. ASSUME NEW r \in Sandbox, NEW t \in OpType, NEW k \in Key \cup {None}, RequestAccepted(r, t, k)
      PROVE  generation'[s] >= generation[s]
  BY <1>1, <1>4 DEF RequestAccepted, NextGeneration
<1>. QED BY <1>1, <1>2, <1>3, <1>4, RowCases

AcceptedRows ==
    /\ \A o \in OpId : ~Exists(o) => opType[o] = None
    /\ \A o \in OpId : Exists(o) => opGen[o] <= generation[opSandbox[o]]
    /\ \A o \in OpId : opCause[o] # "none" => opState[o] \in Terminal

RowBase == SerialInv /\ Blank /\ AcceptedRows

LEMMA RowBaseFacts ==
    ASSUME RowBase
    PROVE  /\ Inv0 /\ Serialized /\ SerialInv /\ Blank /\ AcceptedRows
           /\ RowTypes /\ OpTypes /\ LedgerTypes /\ ProcessTypes
           /\ runtime \in [OpId -> {"none", "ok", "err"}]
           /\ \A o \in OpId : Exists(o) => opSandbox[o] \in Sandbox /\ opType[o] \in OpType
           /\ \A o \in OpId : Open(o) => Exists(o)
           /\ NoOp \notin OpId
BY DEF RowBase, SerialInv, Inv0, TypeInv, TypeOK, RowsInUse, Open, Exists, NonTerminal, NoOp, OpId

LEMMA AcceptedRowsNext == ASSUME RowBase, [AnyNext]_vars PROVE AcceptedRows'
<1>1. Inv0' /\ Serialized /\ AcceptedRows /\ OpTypes /\ RowTypes /\ Inv0
      /\ \A o \in OpId : Exists(o) => opSandbox[o] \in Sandbox /\ opType[o] \in OpType
  BY RowBaseFacts, Inv0Next
<1>. DEFINE Same(o) == /\ opState'[o] = opState[o] /\ opType'[o] = opType[o]
                       /\ opCause'[o] = opCause[o]
<1>2. ASSUME NEW o \in OpId, Exists(o) PROVE opGen'[o] <= generation'[opSandbox'[o]]
  <2>1. opGen'[o] = opGen[o] /\ opSandbox'[o] = opSandbox[o]
    BY <1>2, AcceptedStays DEF RowBase
  <2>2. generation'[opSandbox[o]] >= generation[opSandbox[o]]
    BY <1>1, <1>2, GenerationGrows DEF RowBase
  <2>3. /\ opGen[o] \in Nat /\ generation[opSandbox[o]] \in Nat /\ generation'[opSandbox[o]] \in Nat
    BY <1>1, <1>2 DEF OpTypes, RowTypes, Inv0, TypeInv, TypeOK
  <2>. QED BY <1>1, <1>2, <2>1, <2>2, <2>3 DEF AcceptedRows
<1>3. ASSUME \A o \in OpId : Exists(o)' => Exists(o),
             \A o \in OpId : \/ Same(o)
                             \/ Exists(o)' /\ opCause'[o] = opCause[o] /\ opCause[o] = "none"
                             \/ opState'[o] \in Terminal
      PROVE  AcceptedRows'
  <2>1. ASSUME NEW o \in OpId, ~Exists(o)' PROVE opType'[o] = None
    <3>1. ~Exists(o) BY <1>1, <2>1, AcceptedStays DEF RowBase
    <3>2. Same(o) BY <1>3, <2>1 DEF Exists, Terminal
    <3>. QED BY <1>1, <3>1, <3>2 DEF AcceptedRows
  <2>2. ASSUME NEW o \in OpId, opCause'[o] # "none" PROVE opState'[o] \in Terminal
    BY <1>1, <1>3, <2>2 DEF AcceptedRows
  <2>. QED BY <1>2, <1>3, <2>1, <2>2 DEF AcceptedRows
<1>4. CASE UNCHANGED opVars BY <1>3, <1>4 DEF Exists
<1>5. ASSUME NEW o \in OpId, Exists(o), Effect(o) PROVE AcceptedRows'
  <2>1. CASE Kept(o) \/ Published1(o)
    BY <1>3, <2>1 DEF Kept, KeepHistory, Published1, Exists
  <2>2. CASE Moved(o)
    <3>1. /\ UNCHANGED <<opType, opCause>> /\ opCause[o] = "none"
          /\ \E state \in NonTerminal : opState' = [opState EXCEPT ![o] = state]
      BY <1>1, <2>2 DEF Moved, SetOpState, AcceptedRows, Open, NonTerminal, Terminal
    <3>2. \A p \in OpId : p # o => Same(p) BY <1>1, <3>1 DEF OpTypes
    <3>3. opState'[o] \in NonTerminal BY <1>1, <3>1 DEF OpTypes
    <3>. QED BY <1>3, <1>5, <3>1, <3>2, <3>3 DEF Exists, NonTerminal
  <2>3. CASE Settled(o)
    <3>1. /\ opType' = opType /\ opState'[o] \in Terminal
          /\ \A p \in OpId : p # o => Same(p)
      BY <1>1, <2>3, SettledFrame DEF OpTypes, Terminal
    <3>. QED BY <1>3, <1>5, <3>1 DEF Exists
  <2>. QED BY <1>5, <2>1, <2>2, <2>3 DEF Effect
<1>6. ASSUME NEW s \in Sandbox, RowStep(s) PROVE AcceptedRows'
  <2>1. CASE MarkReconciled(s)
    <3>1. CASE UNCHANGED opVars BY <1>4, <3>1
    <3>2. CASE /\ pending[s] \in OpId /\ Open(pending[s]) /\ opType' = opType
               /\ opState' = [opState EXCEPT ![pending[s]] = "failed"]
               /\ opCause' = [opCause EXCEPT ![pending[s]] = "lost_reconciled"]
      <4>1. /\ opState'[pending[s]] \in Terminal /\ Exists(pending[s])
            /\ \A p \in OpId : p # pending[s] => Same(p)
        BY <1>1, <3>2 DEF OpTypes, Terminal, Open, NonTerminal, Exists
      <4>. QED BY <1>3, <4>1 DEF Exists
    <3>. QED BY <1>1, <2>1, <3>1, <3>2, ReconciledFrame
  <2>. QED
    BY <1>4, <1>6, <2>1 DEF RowStep, CreateSandbox, MarkLost, MarkUncertain, ApplyEvent
<1>7. ASSUME NEW s \in Sandbox, NEW t \in OpType, NEW k \in Key \cup {None}, RequestAccepted(s, t, k)
      PROVE  AcceptedRows'
  <2>. DEFINE o == nops + 1
              g == NextGeneration(s, t)
  <2>1. /\ o \in OpId /\ ~Exists(o) /\ opCause' = opCause
        /\ generation' = [generation EXCEPT ![s] = g]
        /\ opSandbox' = [opSandbox EXCEPT ![o] = s]
        /\ opType' = [opType EXCEPT ![o] = t]
        /\ opState' = [opState EXCEPT ![o] = "requested"]
        /\ opGen' = [opGen EXCEPT ![o] = g]
    BY <1>1, <1>7, AcceptedFrame DEF NextGeneration
  <2>2. g \in Nat BY <1>1 DEF NextGeneration, RowTypes
  <2>. HIDE DEF o, g
  <2>3. opCause[o] = "none"
    BY <1>1, <2>1 DEF AcceptedRows, Exists, Terminal
  <2>4. \A p \in OpId : p # o => Same(p) /\ opSandbox'[p] = opSandbox[p] /\ opGen'[p] = opGen[p]
    BY <1>1, <2>1 DEF OpTypes
  <2>5. opGen'[o] <= generation'[opSandbox'[o]]
    BY <1>1, <2>1, <2>2 DEF OpTypes, RowTypes
  <2>6. \A p \in OpId : p # o => (Exists(p)' <=> Exists(p)) BY <2>4 DEF Exists
  <2>7. opState'[o] # "absent" BY <1>1, <2>1 DEF OpTypes
  <2>. QED BY <1>1, <1>2, <2>1, <2>3, <2>4, <2>5, <2>6, <2>7 DEF AcceptedRows, Exists
<1>. QED BY <1>1, <1>4, <1>5, <1>6, <1>7, StepCases DEF Quiet

LEMMA RowBaseInvariant == Spec => []RowBase
<1>1. Init => AcceptedRows BY DEF Init, AcceptedRows, Exists
<1>2. RowBase /\ [AnyNext]_vars => AcceptedRows' BY AcceptedRowsNext
<1>. QED BY <1>1, <1>2, BlankInvariant, NextIsAny, PTL DEF Spec, RowBase
-----------------------------------------------------------------------------
(* The conjuncts of RowsConsistent, one lemma each. *)

LEMMA ProvenanceNext ==
    ASSUME RowBase, CurrentProvenance, [AnyNext]_vars
    PROVE  CurrentProvenance'
<1>1. /\ Inv0 /\ Serialized /\ Blank /\ RowTypes
      /\ \A o \in OpId : Open(o) => opSandbox[o] \in Sandbox
  BY RowBaseFacts
<1>2. CASE UNCHANGED <<rowVars, expired>> BY <1>2 DEF CurrentProvenance
<1>3. ASSUME NEW o \in OpId, Settled(o) PROVE CurrentProvenance'
  <2>1. opGen[o] = generation[opSandbox[o]]
    BY <1>1, <1>3 DEF Settled, Serialized, NoOp, OpId
  <2>. QED BY <1>1, <1>3, <2>1 DEF CurrentProvenance, Settled, SettleOp, RowTypes
<1>4. ASSUME NEW s \in Sandbox, RowStep(s) PROVE CurrentProvenance'
  <2>1. ASSUME NEW g \in 1..generation[s], NEW obs \in EvidenceStates, ApplyEvent(s, g, obs)
        PROVE  CurrentProvenance'
    <3>1. g = generation[s] BY <1>1, <2>1 DEF ApplyEvent, GenerationOk, RowTypes
    <3>. QED BY <1>1, <2>1, <3>1 DEF CurrentProvenance, ApplyEvent, RowTypes
  <2>. QED
    BY <1>1, <1>4, <2>1 DEF CurrentProvenance, RowStep, CreateSandbox, MarkLost, MarkReconciled,
       MarkUncertain, RowTypes
<1>5. ASSUME NEW s \in Sandbox, NEW t \in OpType, NEW k \in Key \cup {None}, RequestAccepted(s, t, k)
      PROVE  CurrentProvenance'
  BY <1>1, <1>5 DEF CurrentProvenance, RequestAccepted, RowTypes
<1>. QED BY <1>1, <1>2, <1>3, <1>4, <1>5, RowCases

LEMMA LostNext ==
    ASSUME RowBase, LostIsUncertain, [AnyNext]_vars
    PROVE  LostIsUncertain'
<1>1. /\ Inv0 /\ Serialized /\ Blank /\ RowTypes
      /\ \A o \in OpId : Exists(o) => opSandbox[o] \in Sandbox /\ opType[o] \in OpType
  BY RowBaseFacts
<1>2. CASE UNCHANGED <<rowVars, expired>> BY <1>2 DEF LostIsUncertain
<1>3. ASSUME NEW o \in OpId, Settled(o) PROVE LostIsUncertain'
  <2>1. /\ opSandbox[o] \in Sandbox /\ opType[o] \in OpType
        /\ observed' = [observed EXCEPT ![opSandbox[o]] = SettledState(o)]
        /\ UNCHANGED <<generation, expired>>
        /\ \A r \in Sandbox \ {opSandbox[o]} : uncertain'[r] = uncertain[r]
    BY <1>1, <1>3, SettledFrame DEF Settled, SettleOp, RowTypes
  <2>2. SettledState(o) # "Lost" BY <2>1, MapTypes DEF SettledState
  <2>. QED BY <1>1, <2>1, <2>2 DEF LostIsUncertain, RowTypes
<1>4. ASSUME NEW s \in Sandbox, RowStep(s) PROVE LostIsUncertain'
  <2>1. ASSUME NEW g \in 1..generation[s], NEW obs \in EvidenceStates, ApplyEvent(s, g, obs)
        PROVE  LostIsUncertain'
    <3>1. obs # "Lost" BY ConstantsAssumption
    <3>. QED BY <1>1, <2>1, <3>1 DEF LostIsUncertain, ApplyEvent, RowTypes
  <2>2. ASSUME NEW row \in InitialRows, CreateSandbox(s, row) PROVE LostIsUncertain'
    <3>1. row[1] # "Lost" BY ConstantsAssumption
    <3>. QED BY <1>1, <2>2, <3>1 DEF LostIsUncertain, CreateSandbox, RowTypes
  <2>3. CASE MarkLost(s)
    BY <1>1, <2>3 DEF LostIsUncertain, MarkLost, FlagUncertain, RowTypes
  <2>4. CASE MarkUncertain(s)
    BY <1>1, <2>4 DEF LostIsUncertain, MarkUncertain, FlagUncertain, RowTypes
  <2>5. CASE MarkReconciled(s)
    BY <1>1, <2>5, ReconciledFrame DEF LostIsUncertain
  <2>. QED BY <1>4, <2>1, <2>2, <2>3, <2>4, <2>5 DEF RowStep
<1>5. ASSUME NEW s \in Sandbox, NEW t \in OpType, NEW k \in Key \cup {None}, RequestAccepted(s, t, k)
      PROVE  LostIsUncertain'
  <2>1. IntermediateState[t] # "Lost" BY MapTypes DEF Intermediate
  <2>2. expired' = expired BY <1>5 DEF RequestAccepted, Emit
  <2>. QED BY <1>1, <1>5, <2>1, <2>2 DEF LostIsUncertain, RequestAccepted, RowTypes
<1>. QED BY <1>1, <1>2, <1>3, <1>4, <1>5, RowCases

LEMMA OwnedNext ==
    ASSUME RowBase, IntermediateOwned, [AnyNext]_vars
    PROVE  IntermediateOwned'
<1>1. /\ Inv0 /\ Serialized /\ Blank /\ RowTypes /\ OpTypes /\ SerialInv /\ NoOp \notin OpId
      /\ \A o \in OpId : Exists(o) => opSandbox[o] \in Sandbox /\ opType[o] \in OpType
      /\ \A o \in OpId : Open(o) => Exists(o)
  BY RowBaseFacts
(* A row whose observed state, pending operation and verdict stay as they  *)
(* are stays owned: the pending operation keeps its type.                  *)
<1>2. ASSUME NEW s \in Sandbox, observed'[s] = observed[s], pending'[s] = pending[s],
             reconciled'[s] = reconciled[s], observed'[s] \in Intermediate
      PROVE  \/ pending'[s] # NoOp /\ observed'[s] = IntermediateState[opType'[pending'[s]]]
             \/ pending'[s] = NoOp /\ reconciled'[s]
  <2>1. CASE pending[s] = NoOp BY <1>2, <2>1 DEF IntermediateOwned
  <2>2. CASE pending[s] # NoOp
    <3>1. pending[s] \in OpId /\ Exists(pending[s])
      BY <1>1, <2>2 DEF RowTypes, Serialized
    <3>2. opType'[pending[s]] = opType[pending[s]] BY <1>1, <3>1, AcceptedStays
    <3>. QED BY <1>2, <2>2, <3>2 DEF IntermediateOwned
  <2>. QED BY <2>1, <2>2
<1>3. ASSUME NEW s \in Sandbox,
             \A r \in Sandbox \ {s} : /\ observed'[r] = observed[r] /\ pending'[r] = pending[r]
                                      /\ reconciled'[r] = reconciled[r],
             observed'[s] \in Intermediate =>
                \/ pending'[s] # NoOp /\ observed'[s] = IntermediateState[opType'[pending'[s]]]
                \/ pending'[s] = NoOp /\ reconciled'[s]
      PROVE  IntermediateOwned'
  BY <1>2, <1>3 DEF IntermediateOwned
<1>4. CASE UNCHANGED <<rowVars, expired>> BY <1>2, <1>4 DEF IntermediateOwned
<1>5. ASSUME NEW o \in OpId, Settled(o) PROVE IntermediateOwned'
  <2>1. /\ opSandbox[o] \in Sandbox /\ opType[o] \in OpType
        /\ observed' = [observed EXCEPT ![opSandbox[o]] = SettledState(o)]
        /\ pending' = [pending EXCEPT ![opSandbox[o]] = NoOp]
        /\ reconciled' = reconciled
    BY <1>1, <1>5, SettledFrame
  <2>2. SettledState(o) \notin Intermediate
    BY <2>1, MapTypes DEF SettledState, Intermediate
  <2>. QED BY <1>1, <1>3, <2>1, <2>2 DEF RowTypes
<1>6. ASSUME NEW s \in Sandbox, RowStep(s) PROVE IntermediateOwned'
  <2>1. ASSUME NEW g \in 1..generation[s], NEW obs \in EvidenceStates, ApplyEvent(s, g, obs)
        PROVE  IntermediateOwned'
    <3>1. obs \notin Intermediate BY ConstantsAssumption DEF Intermediate
    <3>. QED BY <1>1, <1>3, <2>1, <3>1 DEF ApplyEvent, RowTypes
  <2>2. ASSUME NEW row \in InitialRows, CreateSandbox(s, row) PROVE IntermediateOwned'
    <3>1. row[1] \notin Intermediate BY ConstantsAssumption DEF Intermediate
    <3>. QED BY <1>1, <1>3, <2>2, <3>1 DEF CreateSandbox, RowTypes
  <2>3. CASE MarkLost(s)
    BY <1>1, <1>3, <2>3 DEF MarkLost, RowTypes, Intermediate
  <2>4. CASE MarkUncertain(s)
    BY <1>1, <1>2, <2>4 DEF MarkUncertain, IntermediateOwned
  <2>5. CASE MarkReconciled(s)
    <3>1. /\ observed' = observed /\ pending' = [pending EXCEPT ![s] = NoOp]
          /\ reconciled' = [reconciled EXCEPT ![s] = TRUE]
      BY <1>1, <2>5, ReconciledFrame
    <3>. QED BY <1>1, <1>3, <3>1 DEF RowTypes
  <2>. QED BY <1>6, <2>1, <2>2, <2>3, <2>4, <2>5 DEF RowStep
<1>7. ASSUME NEW s \in Sandbox, NEW t \in OpType, NEW k \in Key \cup {None}, RequestAccepted(s, t, k)
      PROVE  IntermediateOwned'
  <2>. DEFINE o == nops + 1
  <2>1. /\ o \in OpId /\ o # NoOp
        /\ pending' = [pending EXCEPT ![s] = o]
        /\ observed' = [observed EXCEPT ![s] = IntermediateState[t]]
        /\ reconciled' = [reconciled EXCEPT ![s] = @ /\ t # "resume"]
        /\ opType' = [opType EXCEPT ![o] = t]
    <3>1. o \in OpId /\ o # NoOp BY <1>1, <1>7, AcceptedFrame
    <3>. QED BY <1>7, <3>1 DEF RequestAccepted
  <2>. HIDE DEF o
  <2>2. pending'[s] = o /\ opType'[o] = t /\ observed'[s] = IntermediateState[t]
    BY <1>1, <2>1 DEF RowTypes, OpTypes
  <2>. QED BY <1>1, <1>3, <2>1, <2>2 DEF RowTypes
<1>. QED BY <1>1, <1>4, <1>5, <1>6, <1>7, RowCases

LEMMA ReleaseNext ==
    ASSUME RowBase, ReleaseOnlyAfterRemoval, [AnyNext]_vars
    PROVE  ReleaseOnlyAfterRemoval'
<1>1. /\ Inv0 /\ SerialInv /\ RowTypes /\ OpTypes
      /\ \A o \in OpId : Exists(o) => opSandbox[o] \in Sandbox /\ opType[o] \in OpType
      /\ \A o \in OpId : Open(o) => Exists(o)
  BY RowBaseFacts
(* The confirmed removal behind a released reservation stays.              *)
<1>2. ASSUME NEW s \in Sandbox, ~reserved[s]
      PROVE  \E o \in OpId : /\ opSandbox'[o] = s /\ opType'[o] = "destroy"
                             /\ opState'[o] = "confirmed" /\ runtime'[o] = "ok"
  <2>1. PICK o \in OpId : /\ opSandbox[o] = s /\ opType[o] = "destroy"
                          /\ opState[o] = "confirmed" /\ runtime[o] = "ok"
    BY <1>2 DEF ReleaseOnlyAfterRemoval
  <2>2. Exists(o) /\ opState[o] \in Terminal BY <2>1 DEF Exists, Terminal
  <2>3. /\ opSandbox'[o] = s /\ opType'[o] = "destroy" /\ runtime'[o] = "ok"
        /\ opState'[o] = "confirmed"
    BY <1>1, <2>1, <2>2, AcceptedStays, TerminalNext
  <2>. QED BY <2>3
<1>3. CASE reserved' = reserved
  BY <1>2, <1>3 DEF ReleaseOnlyAfterRemoval
<1>4. ASSUME NEW o \in OpId, Settled(o) PROVE ReleaseOnlyAfterRemoval'
  <2>. DEFINE s == opSandbox[o]
  <2>1. /\ s \in Sandbox /\ opType[o] \in OpType /\ Exists(o)
        /\ reserved' = [reserved EXCEPT ![s] = @ /\ StaysReserved(o)]
        /\ opState' = [opState EXCEPT ![o] = IF runtime[o] = "ok" THEN "confirmed" ELSE "failed"]
        /\ UNCHANGED <<opSandbox, opType>>
    BY <1>1, <1>4, SettledFrame DEF Settled, SettleOp
  <2>2. \A r \in Sandbox : r # s => reserved'[r] = reserved[r]
    BY <1>1, <2>1 DEF RowTypes
  <2>3. CASE StaysReserved(o)
    <3>1. reserved'[s] = reserved[s] BY <1>1, <2>1, <2>3 DEF RowTypes
    <3>. QED BY <1>2, <2>2, <3>1 DEF ReleaseOnlyAfterRemoval
  <2>4. CASE ~StaysReserved(o)
    <3>1. runtime[o] = "ok" /\ opType[o] = "destroy"
      BY <2>1, <2>4 DEF StaysReserved, SettledState, Succeeded, TargetState, OpType
    <3>2. /\ opSandbox'[o] = s /\ opType'[o] = "destroy" /\ opState'[o] = "confirmed"
          /\ runtime'[o] = "ok"
      BY <1>1, <2>1, <3>1, AcceptedStays DEF OpTypes
    <3>. QED BY <1>2, <2>2, <3>2 DEF ReleaseOnlyAfterRemoval
  <2>. QED BY <2>3, <2>4
<1>5. ASSUME NEW s \in Sandbox, RowStep(s) PROVE reserved' = reserved
  BY <1>5 DEF RowStep, CreateSandbox, MarkLost, MarkReconciled, MarkUncertain, ApplyEvent
<1>6. ASSUME NEW s \in Sandbox, NEW t \in OpType, NEW k \in Key \cup {None}, RequestAccepted(s, t, k)
      PROVE  reserved' = reserved
  BY <1>6 DEF RequestAccepted
<1>. QED BY <1>1, <1>3, <1>4, <1>5, <1>6, RowCases

LEMMA OneStartNext ==
    ASSUME RowBase, OneStartPerGeneration, [AnyNext]_vars
    PROVE  OneStartPerGeneration'
<1>1. /\ Inv0 /\ SerialInv /\ RowTypes /\ OpTypes /\ AcceptedRows
  BY RowBaseFacts
<1>2. CASE UNCHANGED <<opSandbox, opType, opGen>>
  BY <1>2 DEF OneStartPerGeneration
<1>3. ASSUME NEW o \in OpId, Effect(o) PROVE UNCHANGED <<opSandbox, opType, opGen>>
  BY <1>3 DEF Effect, Kept, KeepHistory, Moved, SetOpState, Settled, SettleOp, Published1
<1>4. ASSUME NEW s \in Sandbox, RowStep(s) PROVE UNCHANGED <<opSandbox, opType, opGen>>
  BY <1>4 DEF RowStep, CreateSandbox, MarkLost, MarkReconciled, ResolvePending, MarkUncertain,
     ApplyEvent
<1>5. ASSUME NEW s \in Sandbox, NEW t \in OpType, NEW k \in Key \cup {None}, RequestAccepted(s, t, k)
      PROVE  OneStartPerGeneration'
  <2>. DEFINE o == nops + 1
              g == NextGeneration(s, t)
  <2>1. /\ o \in OpId /\ ~Exists(o)
        /\ opSandbox' = [opSandbox EXCEPT ![o] = s]
        /\ opType' = [opType EXCEPT ![o] = t]
        /\ opGen' = [opGen EXCEPT ![o] = g]
    BY <1>1, <1>5, AcceptedFrame DEF NextGeneration
  <2>2. t = "resume" => g = generation[s] + 1 BY DEF NextGeneration
  <2>. HIDE DEF o, g
  <2>3. opSandbox'[o] = s /\ opType'[o] = t /\ opGen'[o] = g
    BY <1>1, <2>1 DEF OpTypes
  <2>4. \A p \in OpId \ {o} : /\ opSandbox'[p] = opSandbox[p] /\ opType'[p] = opType[p]
                              /\ opGen'[p] = opGen[p]
    BY <1>1, <2>1 DEF OpTypes
(* A resume starts a generation that no operation of its sandbox has.      *)
  <2>5. ASSUME t = "resume", NEW p \in OpId \ {o}, opSandbox[p] = s, opType[p] = "resume"
        PROVE  opGen[p] # g
    <3>1. opGen[p] <= generation[s]
      BY <1>1, <2>5, ConstantsAssumption DEF AcceptedRows, OpType
    <3>. QED BY <1>1, <2>2, <2>5, <3>1 DEF RowTypes, OpTypes
  <2>. QED BY <2>3, <2>4, <2>5 DEF OneStartPerGeneration
<1>. QED BY <1>1, <1>2, <1>3, <1>4, <1>5, StepCases DEF Quiet

LEMMA BackedNext ==
    ASSUME RowBase, VerdictBacked, [AnyNext]_vars
    PROVE  VerdictBacked'
<1>1. /\ Inv0 /\ SerialInv /\ RowTypes /\ OpTypes /\ Serialized
      /\ runtime \in [OpId -> {"none", "ok", "err"}]
      /\ \A o \in OpId : Open(o) => Exists(o)
  BY RowBaseFacts
<1>. DEFINE Backed(o) == /\ opState[o] = "confirmed" => runtime[o] = "ok"
                         /\ opState[o] = "failed" =>
                              \/ opCause[o] = "runtime" /\ runtime[o] = "err"
                              \/ opCause[o] = "lost_reconciled"
<1>2. ASSUME NEW o \in OpId, opState'[o] = opState[o], opCause'[o] = opCause[o]
      PROVE  Backed(o)'
  BY <1>1, <1>2, AcceptedStays DEF VerdictBacked, Exists
<1>3. CASE UNCHANGED <<opState, opCause>> BY <1>2, <1>3 DEF VerdictBacked
<1>4. ASSUME NEW o \in OpId, Effect(o) PROVE VerdictBacked'
  <2>1. CASE Kept(o) \/ Published1(o)
    BY <1>3, <2>1 DEF Kept, KeepHistory, Published1
  <2>2. CASE Moved(o)
    <3>1. /\ opCause' = opCause /\ opState'[o] \in NonTerminal
          /\ \A p \in OpId \ {o} : opState'[p] = opState[p]
      BY <1>1, <2>2 DEF Moved, SetOpState, OpTypes
    <3>. QED BY <1>2, <3>1 DEF VerdictBacked, NonTerminal
  <2>3. CASE Settled(o)
    <3>1. /\ opState'[o] = (IF runtime[o] = "ok" THEN "confirmed" ELSE "failed")
          /\ opCause'[o] = "runtime" /\ runtime[o] # "none"
          /\ \A p \in OpId \ {o} : opState'[p] = opState[p] /\ opCause'[p] = opCause[p]
      BY <1>1, <2>3, SettledFrame DEF OpTypes, Settled
    <3>2. runtime'[o] = runtime[o]
      BY <1>1, <2>3, <3>1, AcceptedStays DEF Settled
    <3>3. Backed(o)' BY <1>1, <3>1, <3>2
    <3>. QED BY <1>2, <3>1, <3>3 DEF VerdictBacked
  <2>. QED BY <1>4, <2>1, <2>2, <2>3 DEF Effect
<1>5. ASSUME NEW s \in Sandbox, RowStep(s) PROVE VerdictBacked'
  <2>1. CASE MarkReconciled(s)
    <3>1. CASE UNCHANGED opVars BY <1>3, <3>1
    <3>2. CASE /\ pending[s] \in OpId
               /\ opState' = [opState EXCEPT ![pending[s]] = "failed"]
               /\ opCause' = [opCause EXCEPT ![pending[s]] = "lost_reconciled"]
      <4>1. /\ opState'[pending[s]] = "failed" /\ opCause'[pending[s]] = "lost_reconciled"
            /\ \A p \in OpId : p # pending[s] => opState'[p] = opState[p] /\ opCause'[p] = opCause[p]
        BY <1>1, <3>2 DEF OpTypes
      <4>. QED BY <1>2, <4>1 DEF VerdictBacked
    <3>. QED BY <1>1, <2>1, <3>1, <3>2, ReconciledFrame
  <2>. QED
    BY <1>3, <1>5, <2>1 DEF RowStep, CreateSandbox, MarkLost, MarkUncertain, ApplyEvent
<1>6. ASSUME NEW s \in Sandbox, NEW t \in OpType, NEW k \in Key \cup {None}, RequestAccepted(s, t, k)
      PROVE  VerdictBacked'
  <2>1. /\ opState' = [opState EXCEPT ![nops + 1] = "requested"] /\ opCause' = opCause
    BY <1>1, <1>6, AcceptedFrame
  <2>2. \A p \in OpId : opState'[p] = opState[p] \/ opState'[p] = "requested"
    BY <1>1, <2>1 DEF OpTypes
  <2>. QED BY <1>2, <2>1, <2>2 DEF VerdictBacked
<1>. QED BY <1>1, <1>3, <1>4, <1>5, <1>6, StepCases DEF Quiet

(* A worker whose verdict has been delivered finds it in its operation.    *)
LEMMA KeptNext ==
    ASSUME RowBase, VerdictKept, [AnyNext]_vars
    PROVE  VerdictKept'
<1>1. /\ Inv0 /\ SerialInv /\ OpTypes /\ AcceptedRows /\ ProcessTypes
      /\ \A o \in OpId : worker[o] # "idle" => Exists(o)
  BY RowBaseFacts DEF Inv0, TypeInv, WorkInUse
<1>2. ASSUME NEW o \in OpId, worker[o] = "emit"
      PROVE  opCause'[o] = "runtime" \/ opHistory'[o] # {}
  <2>1. Exists(o) BY <1>1, <1>2
  <2>2. CASE opCause[o] = "runtime"
    <3>1. opState[o] \in Terminal BY <1>1, <2>2 DEF AcceptedRows
    <3>. QED BY <1>1, <2>2, <3>1, TerminalNext
  <2>3. CASE opHistory[o] # {}
    BY <1>1, <2>1, <2>3, AcceptedStays
  <2>. QED BY <1>2, <2>2, <2>3 DEF VerdictKept
<1>3. ASSUME \A o \in OpId : worker'[o] = "emit" => worker[o] = "emit" PROVE VerdictKept'
  BY <1>2, <1>3 DEF VerdictKept
<1>4. CASE UNCHANGED worker BY <1>3, <1>4
<1>5. ASSUME NEW s \in Sandbox, RowStep(s) PROVE UNCHANGED worker
  BY <1>5 DEF RowStep, CreateSandbox, MarkLost, MarkReconciled, MarkUncertain, ApplyEvent
<1>6. ASSUME NEW s \in Sandbox, NEW t \in OpType, NEW k \in Key \cup {None}, RequestStep(s, t, k)
      PROVE  VerdictKept'
  BY <1>1, <1>3, <1>6 DEF RequestStep, RequestAccepted, RequestReplayed, RequestDestroyed,
     RequestPending, ProcessTypes
<1>7. ASSUME NEW o \in OpId, Worker(o) PROVE VerdictKept'
  <2>1. CASE WorkerVerdict(o)
    <3>1. \A p \in OpId \ {o} : worker'[p] = worker[p]
      BY <1>1, <2>1 DEF WorkerVerdict, WorkerStep, ProcessTypes
    <3>2. opCause'[o] = "runtime" \/ opHistory'[o] # {}
      BY <1>1, <2>1 DEF WorkerVerdict, OutcomeOp, KeepHistory, SettleOp, OpTypes
    <3>. QED BY <1>2, <3>1, <3>2 DEF VerdictKept
  <2>2. CASE WorkerDispatch(o) \/ WorkerExecute(o) \/ WorkerEmit(o)
    BY <1>1, <1>3, <2>2 DEF WorkerDispatch, WorkerExecute, WorkerEmit, WorkerStep, ProcessTypes
  <2>. QED BY <1>7, <2>1, <2>2 DEF Worker
<1>8. ASSUME NEW o \in OpId, MarkTimeout(o) \/ Redeliver(o) PROVE UNCHANGED worker
  BY <1>8 DEF MarkTimeout, Redeliver
<1>9. CASE StartReplay \/ Replay \/ Restart
  BY <1>4, <1>9 DEF StartReplay, Restart, Replay, ReplayDispatch, ReplayExecute, ReplayVerdict,
     ReplayEmit
<1>10. CASE Crash BY <1>3, <1>10 DEF Crash
<1>11. CASE UNCHANGED vars BY <1>4, <1>11 DEF vars
<1>. QED BY <1>4, <1>5, <1>6, <1>7, <1>8, <1>9, <1>10, <1>11 DEF AnyNext

RowInv == RowBase /\ RowsConsistent

LEMMA RowInvNext == RowInv /\ [AnyNext]_vars => RowInv'
<1>1. RowBase /\ [AnyNext]_vars => RowBase'
  BY Inv0Next, SerialNext, FreshNext, BlankNext, AcceptedRowsNext DEF RowBase, SerialInv
<1>. QED
  BY <1>1, OwnedNext, ReleaseNext, LostNext, ProvenanceNext, OneStartNext, BackedNext, KeptNext
     DEF RowInv, RowsConsistent

LEMMA RowInvInit == Init => RowInv
<1>1. Init => Blank /\ AcceptedRows BY DEF Init, Blank, AcceptedRows, Exists
<1>2. Init => /\ IntermediateOwned /\ ReleaseOnlyAfterRemoval /\ LostIsUncertain
              /\ CurrentProvenance
  BY DEF Init, IntermediateOwned, ReleaseOnlyAfterRemoval, LostIsUncertain, CurrentProvenance,
     Intermediate
<1>3. Init => OneStartPerGeneration /\ VerdictBacked /\ VerdictKept
  <2>1. None # "resume" BY ConstantsAssumption DEF OpType
  <2>. QED BY <2>1 DEF Init, OneStartPerGeneration, VerdictBacked, VerdictKept
<1>. QED
  BY <1>1, <1>2, <1>3, TypeInit, ReadyInit, SerialInit
     DEF RowInv, RowBase, RowsConsistent, SerialInv, Inv0

(* Whatever clients, retries, crashes, leases, verdicts and late evidence  *)
(* do to a sandbox (request, runtime_outcome, mark_lost, mark_reconciled,  *)
(* apply_event, replay): a row in transit has an owner, its allocation is  *)
(* released only by a confirmed removal, a Lost row is uncertain and its   *)
(* expiry on record, the row was written by its own generation, a          *)
(* generation was started by one resume, and every verdict rests on a real *)
(* effect and reaches its operation.                                       *)
THEOREM RowsConsistentAlways == Spec => []RowsConsistent
<1>1. RowInv => RowsConsistent BY DEF RowInv
<1>. QED BY <1>1, RowInvInit, RowInvNext, NextIsAny, PTL DEF Spec
-----------------------------------------------------------------------------
(* Idempotency keys: only a request answers, and it answers one key with   *)
(* one operation.                                                          *)
KeyKept(k) ==
    /\ \A a \in answered'[k] \ answered[k] : opSandbox'[a[3]] = a[1] /\ opType'[a[3]] = a[2]
    /\ idem[k] # NoOp =>
          /\ idem'[k] = idem[k]
          /\ \A a \in answered'[k] \ answered[k] : a[3] = idem[k]

LEMMA AnsweredOnce ==
    ASSUME SerialInv, NEW k \in Key \cup {None}, NEW s \in Sandbox, NEW t \in OpType,
           NEW o \in OpId, Answer(k, s, t, o),
           opSandbox'[o] = s, opType'[o] = t,
           \A q \in Key \ {k} : idem'[q] = idem[q],
           k # None => idem[k] = NoOp \/ (idem[k] = o /\ idem'[k] = o)
    PROVE  \A q \in Key : KeyKept(q)
<1>1. answered \in [Key -> SUBSET (Sandbox \X OpType \X OpId)] /\ None \notin Key
  BY ConstantsAssumption DEF SerialInv, Inv0, TypeInv, TypeOK, KeyTypes
<1>2. \A q \in Key : q # k => answered'[q] = answered[q]
  BY <1>1 DEF Answer
<1>3. k # None => answered'[k] = answered[k] \cup {<<s, t, o>>}
  BY <1>1 DEF Answer
<1>4. <<s, t, o>>[1] = s /\ <<s, t, o>>[2] = t /\ <<s, t, o>>[3] = o OBVIOUS
<1>5. ASSUME NEW q \in Key, q # k PROVE KeyKept(q)
  BY <1>2, <1>5 DEF KeyKept
<1>6. ASSUME k # None PROVE KeyKept(k)
  <2>1. \A a \in answered'[k] \ answered[k] : a = <<s, t, o>> BY <1>3, <1>6
  <2>. QED BY <1>4, <1>6, <2>1 DEF KeyKept
<1>. QED BY <1>1, <1>5, <1>6

LEMMA KeysNext == ASSUME SerialInv, [AnyNext]_vars, NEW q \in Key PROVE KeyKept(q)
<1>1. /\ Inv0 /\ Serialized /\ RowTypes /\ OpTypes /\ None \notin Key
      /\ idem \in [Key -> OpId \cup {NoOp}]
  BY ConstantsAssumption DEF SerialInv, Inv0, TypeInv, TypeOK, KeyTypes
<1>2. CASE UNCHANGED keyVars BY <1>2 DEF KeyKept
<1>3. CASE UNCHANGED vars BY <1>2, <1>3 DEF vars
<1>4. ASSUME NEW s \in Sandbox, RowStep(s) PROVE KeyKept(q)
  BY <1>2, <1>4 DEF RowStep, CreateSandbox, MarkLost, MarkReconciled, MarkUncertain, ApplyEvent
<1>5. ASSUME NEW o \in OpId, Worker(o) \/ MarkTimeout(o) \/ Redeliver(o) PROVE KeyKept(q)
  BY <1>2, <1>5 DEF Worker, WorkerDispatch, WorkerExecute, WorkerVerdict, WorkerEmit, WorkerStep,
     MarkTimeout, Redeliver
<1>6. CASE StartReplay \/ Replay \/ Crash \/ Restart
  BY <1>2, <1>6 DEF StartReplay, Crash, Restart, Replay, ReplayDispatch, ReplayExecute,
     ReplayVerdict, ReplayEmit
<1>7. ASSUME NEW s \in Sandbox, NEW t \in OpType, NEW k \in Key \cup {None}, RequestStep(s, t, k)
      PROVE  KeyKept(q)
  <2>1. CASE RequestReplayed(s, t, k)
    <3>1. idem[k] \in OpId /\ opSandbox'[idem[k]] = s /\ opType'[idem[k]] = t /\ idem' = idem
      BY <1>1, <2>1 DEF RequestReplayed, SameBody
    <3>2. Answer(k, s, t, idem[k]) BY <2>1 DEF RequestReplayed
    <3>3. \A r \in Key \ {k} : idem'[r] = idem[r] BY <3>1
    <3>4. k # None => idem'[k] = idem[k] BY <3>1
    <3>. QED BY <3>1, <3>2, <3>3, <3>4, AnsweredOnce
  <2>2. CASE RequestDestroyed(s, t, k)
    <3>1. PICK o \in LastDestroy(s) : Answer(k, s, t, o)
      BY <2>2 DEF RequestDestroyed
    <3>2. /\ o \in OpId /\ opSandbox'[o] = s /\ opType'[o] = t /\ idem' = idem
          /\ k # None => idem[k] = NoOp
      BY <2>2, <3>1 DEF RequestDestroyed, RepeatedDestroy, LastDestroy, DestroyOps, SameBody, NewKey
    <3>3. \A r \in Key \ {k} : idem'[r] = idem[r] BY <3>2
    <3>. QED BY <3>1, <3>2, <3>3, AnsweredOnce
  <2>3. CASE RequestPending(s, t, k)
    <3>1. /\ pending[s] \in OpId /\ opSandbox'[pending[s]] = s /\ opType'[pending[s]] = t
          /\ idem' = idem
          /\ k # None => idem[k] = NoOp
      BY <1>1, <2>3 DEF RequestPending, NewKey, Serialized, RowTypes
    <3>2. Answer(k, s, t, pending[s]) BY <2>3 DEF RequestPending
    <3>3. \A r \in Key \ {k} : idem'[r] = idem[r] BY <3>1
    <3>. QED BY <3>1, <3>2, <3>3, AnsweredOnce
  <2>4. CASE RequestAccepted(s, t, k)
    <3>. DEFINE o == nops + 1
    <3>0. o \in OpId BY <1>1, <2>4, AcceptedFrame
    <3>1. /\ opSandbox' = [opSandbox EXCEPT ![o] = s]
          /\ opType' = [opType EXCEPT ![o] = t]
          /\ Answer(k, s, t, o)
          /\ k # None => idem[k] = NoOp
          /\ idem' = IF k = None THEN idem ELSE [idem EXCEPT ![k] = o]
      BY <2>4 DEF RequestAccepted, NewKey
    <3>. HIDE DEF o
    <3>2. opSandbox'[o] = s /\ opType'[o] = t
      BY <1>1, <3>0, <3>1 DEF OpTypes
    <3>3. \A r \in Key \ {k} : idem'[r] = idem[r] BY <1>1, <3>1
    <3>. QED BY <3>0, <3>1, <3>2, <3>3, AnsweredOnce
  <2>. QED BY <1>7, <2>1, <2>2, <2>3, <2>4 DEF RequestStep
<1>. QED BY <1>3, <1>4, <1>5, <1>6, <1>7 DEF AnyNext

(* A caller is only told about an operation of the kind and on the sandbox *)
(* it asked for; a key that stands for an intention is never re-bound nor  *)
(* answered with another operation (request, its four replies).            *)
THEOREM KeysHonouredAlways == Spec => KeysHonoured
<1>1. SerialInv /\ [AnyNext]_vars => [\A k \in Key : KeyKept(k)]_vars
  BY KeysNext
<1>2. [\A k \in Key : KeyKept(k)]_vars <=>
      [\A k \in Key :
          /\ \A a \in answered'[k] \ answered[k] : opSandbox'[a[3]] = a[1] /\ opType'[a[3]] = a[2]
          /\ idem[k] # NoOp =>
                /\ idem'[k] = idem[k]
                /\ \A a \in answered'[k] \ answered[k] : a[3] = idem[k]]_vars
  BY DEF KeyKept
<1>. QED BY <1>1, <1>2, SerialInvariant, NextIsAny, PTL DEF Spec, KeysHonoured
=============================================================================
