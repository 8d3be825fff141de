----------------------------- MODULE AutoPolicy -----------------------------
(***************************************************************************)
(* The automatic idle and suspend policy of one sandbox                    *)
(* (scripts/auto_policy.py) in the loop of its caller: decide is evaluated *)
(* over and over with whatever hook report has arrived by then, and the    *)
(* caller stores the busy claim, the last demotion and the new state.      *)
(* Reports of the managed work are lost, late, repeated and out of order,  *)
(* survive the instance they were sent from, and may name no generation,   *)
(* as the hook of that instance has it.                                    *)
(***************************************************************************)
EXTENDS Integers, FiniteSets

CONSTANTS
    Work,
    BusyTtl,                  \* how long a report keeps the work protected
    IdleAfter, SuspendAfter,  \* idle_after_seconds, suspend_after_seconds
    Cooldown,                 \* demotion_cooldown_seconds
    LastPolicyTime,           \* bound: time
    LastInstance,             \* bound: generations of the sandbox
    MaxReports                \* bound: reports sent

ASSUME AutoAssumption ==
    /\ BusyTtl \in Nat \ {0} /\ IdleAfter \in Nat \ {0} /\ SuspendAfter \in Nat \ {0}
    /\ Cooldown \in Nat /\ LastPolicyTime \in Nat /\ LastInstance \in Nat /\ MaxReports \in Nat

VARIABLES
    policyTime,
    observed,      \* observed_state: "Active", "Idle" or "Suspend"
    operation,     \* pending_operation: "none", "auto" or "manual"
    anchor,        \* latest of last_user_input_at, last_wakeup_at, state_since
    lastDemotion,  \* last_demotion_at
    claim,         \* state.busy, the claim the caller keeps
    instanceNo,    \* the generation
    busyWork,      \* work really going on in the instance
    hookNames,     \* whether the hook of this instance names the generation
    begun,         \* work ids used in this generation
    busyReports,   \* hook reports sent, each of which may still arrive
    misled         \* history: a report of an earlier instance was admitted in this
                   \* one because it, or the state, named no generation
autoVars == <<policyTime, observed, operation, anchor, lastDemotion, claim, instanceNo,
              busyWork, begun, busyReports, misled, hookNames>>

(* A report has the generation it names and, which no code sees, the       *)
(* instance it was sent from.                                              *)
NoGeneration == 0
NoReport == [work |-> "none", generation |-> NoGeneration, sentFrom |-> 0, lease |-> 0, done |-> FALSE]
AutoInit ==
    /\ policyTime = 0 /\ observed = "Active" /\ operation = "none" /\ anchor = 0
    /\ lastDemotion = -Cooldown /\ claim = NoReport /\ instanceNo = 1
    /\ busyWork = {} /\ begun = {} /\ busyReports = {} /\ misled = FALSE
    /\ hookNames \in BOOLEAN

-----------------------------------------------------------------------------
(* _admissible_generation: who names no generation, the report or the      *)
(* state, is not compared.  Then the rule that a completion only counts    *)
(* for the work that is claimed.                                           *)
Unfenced(report, stateGeneration) == NoGeneration \in {report.generation, stateGeneration}
AnyGeneration(report, stateGeneration) == TRUE
AdmissibleGeneration(report, stateGeneration) ==
    Unfenced(report, stateGeneration) \/ report.generation = stateGeneration
AnyWork(report) == FALSE
LateCompletion(report) == claim # NoReport /\ report.work # claim.work

(* _classify_busy_snapshot: the lease is looked at before the done mark.   *)
DoneFirst(snapshot) ==
    IF snapshot.done \/ policyTime >= snapshot.lease THEN "complete" ELSE "protected"
Classify(snapshot) ==
    IF policyTime >= snapshot.lease THEN "unknown_busy"
    ELSE IF snapshot.done THEN "complete" ELSE "protected"

(* _busy_status: the hook, then the report, then the claim.                *)
BusyStatus(report, stateGeneration, hookInstalled) ==
    IF ~hookInstalled THEN "unknown_busy"
    ELSE IF report # NoReport /\ AdmissibleGeneration(report, stateGeneration)
         THEN IF Classify(report) = "complete" /\ LateCompletion(report)
              THEN Classify(claim) ELSE Classify(report)
    ELSE IF claim # NoReport THEN Classify(claim) ELSE "none"

(* _signal_wakeup: user input, a new task and CPU demand wake, an excluded  *)
(* process's demand is as no signal, and what is not recognised is         *)
(* uncertain.                                                              *)
Wakes(signal) == signal = "wakeup"
CooldownBlocks == Cooldown # 0 /\ policyTime - lastDemotion < Cooldown
MayDemote(report, stateGeneration, hookInstalled, signal) ==
    /\ signal # "garbage"
    /\ BusyStatus(report, stateGeneration, hookInstalled) \notin {"protected", "unknown_busy"}
    /\ ~CooldownBlocks

(* countdown, and the threshold of the current state.                      *)
Threshold == IF observed = "Active" THEN IdleAfter ELSE SuspendAfter
Countdown == LET left == Threshold - (policyTime - anchor) IN IF left > 0 THEN left ELSE 0

Decide(report, stateGeneration, hookInstalled, signal) ==
    IF operation # "none" \/ observed \notin {"Active", "Idle"} THEN "hold"
    ELSE IF observed = "Idle" /\ Wakes(signal) THEN "wake_active"
    ELSE IF \/ observed = "Active" /\ Wakes(signal)
            \/ policyTime - anchor < Threshold
            \/ ~MayDemote(report, stateGeneration, hookInstalled, signal) THEN "hold"
    ELSE IF observed = "Active" THEN "request_idle" ELSE "request_suspend"

-----------------------------------------------------------------------------
(* The caller: it keeps an accepted report as the claim, and carries out   *)
(* what decide proposes.                                                   *)
NewClaim(report, stateGeneration) ==
    IF /\ report # NoReport /\ AdmissibleGeneration(report, stateGeneration)
       /\ policyTime < report.lease
       /\ report.done => claim = NoReport \/ report.work = claim.work
    THEN report ELSE claim
Evaluate(report, stateGeneration, hookInstalled, signal) ==
    LET action == Decide(report, stateGeneration, hookInstalled, signal)
    IN  /\ claim' = NewClaim(report, stateGeneration)
        /\ misled' = (misled \/ (/\ report # NoReport /\ report.sentFrom # instanceNo
                                 /\ Unfenced(report, stateGeneration)))
        /\ observed' = CASE action = "wake_active" -> "Active"
                         [] action = "request_idle" -> "Idle"
                         [] OTHER -> observed
        /\ anchor' = IF Wakes(signal) \/ action = "request_idle" THEN policyTime ELSE anchor
        /\ lastDemotion' = IF action \in {"request_idle", "request_suspend"}
                           THEN policyTime ELSE lastDemotion
        /\ operation' = IF action = "request_suspend" THEN "auto" ELSE operation
        /\ UNCHANGED <<policyTime, instanceNo, busyWork, begun, busyReports, hookNames>>

(* A suspend the user asks for, the end of a suspend, and a resume, which  *)
(* starts a new instance with new processes and drops the old claim.       *)
ManualSuspend ==
    /\ observed # "Suspend" /\ operation = "none" /\ operation' = "manual"
    /\ UNCHANGED <<policyTime, observed, anchor, lastDemotion, claim, instanceNo, busyWork,
                   begun, busyReports, misled, hookNames>>
Suspended ==
    /\ operation # "none" /\ operation' = "none" /\ observed' = "Suspend"
    /\ anchor' = policyTime /\ busyWork' = {}
    /\ UNCHANGED <<policyTime, lastDemotion, claim, instanceNo, begun, busyReports, misled,
                   hookNames>>
Resumed ==
    /\ observed = "Suspend" /\ operation = "none" /\ instanceNo < LastInstance
    /\ observed' = "Active" /\ instanceNo' = instanceNo + 1 /\ claim' = NoReport
    /\ anchor' = policyTime /\ begun' = {} /\ misled' = FALSE
    /\ hookNames' \in BOOLEAN
    /\ UNCHANGED <<policyTime, operation, lastDemotion, busyWork, busyReports>>

(* The work in the sandbox and its hook, which reports work some time      *)
(* after it began, renews the report, and reports its end.                 *)
Send(w, done) ==
    /\ Cardinality(busyReports) < MaxReports
    /\ busyReports' = busyReports \cup
          {[work |-> w, generation |-> IF hookNames THEN instanceNo ELSE NoGeneration,
            sentFrom |-> instanceNo, lease |-> policyTime + BusyTtl, done |-> done]}
    /\ UNCHANGED <<policyTime, observed, operation, anchor, lastDemotion, claim, instanceNo, misled,
                   hookNames>>
Begins(w) ==
    /\ observed # "Suspend" /\ w \notin begun
    /\ begun' = begun \cup {w} /\ busyWork' = busyWork \cup {w}
    /\ UNCHANGED <<policyTime, observed, operation, anchor, lastDemotion, claim, instanceNo,
                   busyReports, misled, hookNames>>
Renews(w) == w \in busyWork /\ Send(w, FALSE) /\ UNCHANGED <<begun, busyWork>>
Ends(w) == w \in busyWork /\ busyWork' = busyWork \ {w} /\ Send(w, TRUE) /\ UNCHANGED begun
PolicyTick ==
    /\ policyTime < LastPolicyTime /\ policyTime' = policyTime + 1
    /\ UNCHANGED <<observed, operation, anchor, lastDemotion, claim, instanceNo, busyWork,
                   begun, busyReports, misled, hookNames>>

AutoNext ==
    \/ \E report \in busyReports \cup {NoReport}, signal \in {"none", "wakeup", "garbage"},
          hookInstalled \in BOOLEAN, stateGeneration \in {instanceNo, NoGeneration} :
             Evaluate(report, stateGeneration, hookInstalled, signal)
    \/ \E w \in Work : Begins(w) \/ Renews(w) \/ Ends(w)
    \/ ManualSuspend \/ Suspended \/ Resumed \/ PolicyTick
AutoSpec == AutoInit /\ [][AutoNext]_autoVars

-----------------------------------------------------------------------------
(* Silence is never completion: however late and from whichever instance   *)
(* reports arrive, a sandbox is demoted only when the work it is known to  *)
(* do has really ended.  The one exception is the code's own: a report of  *)
(* an earlier instance that is admitted because it or the state names no   *)
(* generation may end the protection of work that goes on                  *)
(* (_admissible_generation; auto-policy.md:52 asks for the current one).   *)
(* Without exception there is no demotion with an operation in flight,     *)
(* none within the cooldown of another, and none while the countdown the   *)
(* user sees is running (decide, _busy_status, _classify_busy_snapshot).   *)
Demotes == lastDemotion' # lastDemotion \/ (observed = "Active" /\ observed' = "Idle")
WorkProtected ==
    [][Demotes => /\ \/ misled'
                     \/ /\ claim # NoReport => claim.work \notin busyWork
                        /\ claim' # NoReport => claim'.work \notin busyWork
                  /\ Countdown = 0
                  /\ policyTime - lastDemotion >= Cooldown
                  /\ operation = "none"]_autoVars
=============================================================================
