--------------------------- MODULE BudgetEnforcer ---------------------------
(***************************************************************************)
(* The at-limit sequence of scripts/budget_gates.py (BudgetEnforcer): the  *)
(* first enforce() that finds the budget spent persists a blocked record,  *)
(* then every enforce() issues the stops of that record nobody has issued  *)
(* yet.  Calls run concurrently, on threads of one process that share one  *)
(* enforcer, and load and save the stored record under its threading.Lock: *)
(* enforcers in several processes share no lock and are not described      *)
(* here.  The stop itself runs outside the lock, may time out with or      *)
(* without effect, and any step may be the process's last.                 *)
(***************************************************************************)
EXTENDS Naturals, FiniteSets

CONSTANTS
    Call,        \* enforce() invocations that may be active at once
    Resource,    \* resources that may run
    None,        \* no record, no resource
    MaxCrashes,  \* bound: crashes of the process
    MaxPeriod    \* bound: budget periods

Phase == {"blocked", "blocked_stop_pending", "blocked_stopped"}
Record == [phase : Phase, blockedAt : 0..MaxPeriod, planned : SUBSET Resource, issued : SUBSET Resource,
           confirmed : SUBSET Resource, alerted : BOOLEAN]

ASSUME BudgetAssumption ==
    /\ None \notin Resource \cup Record
    /\ IsFiniteSet(Resource)
    /\ MaxCrashes \in Nat /\ MaxPeriod \in Nat

VARIABLES
    store,     \* the durable record
    pc,        \* where each call is
    asked,     \* the resource_ids it was given
    read,      \* the record it decided on
    todo,      \* the rest of its loop over _never_issued(record)
    current,   \* the resource whose stop it is issuing
    period,    \* budget period of the account
    running,   \* the runner: resources that run
    sent,      \* auxiliary: stop calls made so far, per resource
    confirmed, \* auxiliary: resources whose stop call returned
    crashes

callVars == <<pc, asked, read, todo, current>>
auxVars == <<sent, confirmed, crashes>>
vars == <<store, callVars, period, running, auxVars>>

TypeOK ==
    /\ store \in Record \cup {None}
    /\ pc \in [Call -> {"idle", "issue", "call", "returned", "timed_out"}]
    /\ asked \in [Call -> SUBSET Resource]
    /\ read \in [Call -> Record \cup {None}]
    /\ todo \in [Call -> SUBSET Resource]
    /\ current \in [Call -> Resource \cup {None}]
    /\ period \in 0..MaxPeriod
    /\ running \subseteq Resource
    /\ sent \in [Resource -> Nat]
    /\ confirmed \subseteq Resource
    /\ crashes \in 0..MaxCrashes

Init ==
    /\ store = None
    /\ pc = [c \in Call |-> "idle"]
    /\ asked = [c \in Call |-> {}]
    /\ read = [c \in Call |-> None]
    /\ todo = [c \in Call |-> {}]
    /\ current = [c \in Call |-> None]
    /\ period = 0
    /\ running \in SUBSET Resource
    /\ sent = [r \in Resource |-> 0]
    /\ confirmed = {}
    /\ crashes = 0

-----------------------------------------------------------------------------
NewRecord(planned) ==
    [phase |-> "blocked", blockedAt |-> period, planned |-> planned, issued |-> {}, confirmed |-> {},
     alerted |-> FALSE]

Planned(r) == store # None /\ r \in store.planned
Issued(r) == store # None /\ r \in store.issued

Unanswered(record) == record.planned \ record.confirmed
NeverIssued(record) == record.planned \ record.issued

Nothing(record) == {}
Resumed(record) == NeverIssued(record)

SetPhaseOnIssue(record) ==
    IF record.planned \subseteq record.issued
      THEN [record EXCEPT !.phase = "blocked_stopped"] ELSE record
SetPhase(record) ==
    IF record.planned \subseteq record.confirmed
      THEN [record EXCEPT !.phase = "blocked_stopped"] ELSE record

(* What a call works on once it has the lock again: the record in the      *)
(* store, not the one it started from.                                     *)
OwnRecord(c) == read[c]
Current(c) == IF store = None THEN read[c] ELSE store

(* enforce at or over the limit: the blocked record is saved before        *)
(* anything else, or the one there is resumed.                             *)
AtLimit(c, resources) ==
    /\ pc[c] = "idle"
    /\ store' = IF store = None THEN NewRecord(resources) ELSE store
    /\ pc' = [pc EXCEPT ![c] = "issue"]
    /\ asked' = [asked EXCEPT ![c] = resources]
    /\ read' = [read EXCEPT ![c] = store']
    /\ todo' = [todo EXCEPT ![c] = IF store = None THEN NeverIssued(store')
                                   ELSE Resumed(store)]
    /\ UNCHANGED <<current, period, running, auxVars>>

(* The loop, under the lock: the durable mark comes before the call, and a *)
(* stop somebody else has marked is skipped.                               *)
Mark(c, r) ==
    /\ pc[c] = "issue" /\ r \in todo[c]
    /\ todo' = [todo EXCEPT ![c] = @ \ {r}]
    /\ IF r \in NeverIssued(Current(c))
         THEN /\ store' = [Current(c) EXCEPT !.issued = @ \cup {r}]
              /\ pc' = [pc EXCEPT ![c] = "call"]
              /\ current' = [current EXCEPT ![c] = r]
         ELSE UNCHANGED <<store, pc, current>>
    /\ UNCHANGED <<asked, read, period, running, auxVars>>

Back(c) == /\ pc' = [pc EXCEPT ![c] = "idle"]
           /\ asked' = [asked EXCEPT ![c] = {}]
           /\ read' = [read EXCEPT ![c] = None]
           /\ todo' = [todo EXCEPT ![c] = {}]
           /\ current' = [current EXCEPT ![c] = None]

(* stop_op, outside the lock: it returns and the resource is suspended, it *)
(* times out with or without effect, or it raises anything else, which     *)
(* ends the enforce().                                                     *)
StopCall(c) ==
    /\ pc[c] = "call"
    /\ sent' = [sent EXCEPT ![current[c]] = @ + 1]
    /\ \/ /\ running' = running \ {current[c]}
          /\ confirmed' = confirmed \cup {current[c]}
          /\ pc' = [pc EXCEPT ![c] = "returned"]
          /\ UNCHANGED <<asked, read, todo, current>>
       \/ /\ running' \in {running, running \ {current[c]}}
          /\ pc' = [pc EXCEPT ![c] = "timed_out"]
          /\ UNCHANGED <<asked, read, todo, current, confirmed>>
       \/ /\ running' \in {running, running \ {current[c]}}
          /\ Back(c)
          /\ UNCHANGED confirmed
    /\ UNCHANGED <<store, period, crashes>>

TimedOut(c) ==
    /\ pc[c] = "timed_out"
    /\ store' = [Current(c) EXCEPT !.phase = "blocked_stop_pending", !.alerted = TRUE]
    /\ pc' = [pc EXCEPT ![c] = "issue"]
    /\ current' = [current EXCEPT ![c] = None]
    /\ UNCHANGED <<asked, read, todo, period, running, auxVars>>

Returned(c) ==
    /\ pc[c] = "returned"
    /\ store' = SetPhase([Current(c) EXCEPT !.confirmed = @ \cup {current[c]}])
    /\ pc' = [pc EXCEPT ![c] = "issue"]
    /\ current' = [current EXCEPT ![c] = None]
    /\ UNCHANGED <<asked, read, todo, period, running, auxVars>>

Report(c) ==
    /\ pc[c] = "issue" /\ todo[c] = {}
    /\ store' = SetPhase(Current(c))
    /\ Back(c)
    /\ UNCHANGED <<period, running, auxVars>>

-----------------------------------------------------------------------------
(* new_period resets the account's spend and flag; the enforcer's record   *)
(* is not among what it is given.                                          *)
NewPeriod ==
    /\ period < MaxPeriod
    /\ period' = period + 1
    /\ UNCHANGED <<store, callVars, running, auxVars>>

(* A user creates or resumes a resource.  What the record plans to stop    *)
(* is not resumed in its period: the account is flagged.                   *)
Starts(r) ==
    /\ r \notin running
    /\ Planned(r) => period > store.blockedAt
    /\ running' = running \cup {r}
    /\ UNCHANGED <<store, callVars, period, auxVars>>

(* The process dies with all its calls, the store survives. *)
Crash ==
    /\ crashes < MaxCrashes
    /\ crashes' = crashes + 1
    /\ pc' = [c \in Call |-> "idle"]
    /\ asked' = [c \in Call |-> {}]
    /\ read' = [c \in Call |-> None]
    /\ todo' = [c \in Call |-> {}]
    /\ current' = [c \in Call |-> None]
    /\ UNCHANGED <<store, period, running, sent, confirmed>>

CallStep(c) ==
    \/ \E r \in Resource : Mark(c, r)
    \/ StopCall(c) \/ TimedOut(c) \/ Returned(c) \/ Report(c)
Enforce == \E c \in Call, resources \in SUBSET Resource : AtLimit(c, resources)

Next ==
    \/ Enforce
    \/ \E c \in Call : CallStep(c)
    \/ NewPeriod
    \/ \E r \in Resource : Starts(r)
    \/ Crash

Spec == Init /\ [][Next]_vars

(* Calls under way get on, and the periodic check goes on finding the      *)
(* budget spent.                                                           *)
FairSpec ==
    /\ Spec
    /\ WF_vars(Enforce)
    /\ \A c \in Call : WF_vars(CallStep(c))

-----------------------------------------------------------------------------
(* A stop is called at most once per resource, by whichever call or        *)
(* restart, and only after its mark is durable (_issue_stops: "no double   *)
(* stop", "durable trace BEFORE the call").                                *)
OneMarkedCall ==
    \A r \in Resource :
        /\ sent[r] <= 1
        /\ sent[r] > 0 => Issued(r)

(* The phase that ends the compute bill is honest: with it, every planned  *)
(* stop was answered and, as long as the period lasts, none of the planned *)
(* resources runs (_set_phase, _costs).                                    *)
StoppedIsStopped ==
    store # None /\ store.phase = "blocked_stopped" =>
        /\ store.planned \subseteq confirmed
        /\ store.blockedAt = period => store.planned \cap running = {}

(* Nothing one call saved is undone by another that started from an older  *)
(* record: plan, marks, confirmations and alerts stay, and no later        *)
(* timeout takes back that all is stopped (the re-load in _issue_stops).   *)
Kept ==
    store # None =>
        /\ store' # None /\ store'.planned = store.planned
        /\ store.issued \subseteq store'.issued
        /\ store.confirmed \subseteq store'.confirmed
        /\ store.alerted => store'.alerted
        /\ store.phase = "blocked_stopped" => store'.phase = "blocked_stopped"
NothingUndone == [][Kept]_vars

(* Every planned stop is issued in the end, although the process may crash *)
(* between the record and the stops, or a stop raise and end the call      *)
(* (_resume_blocked).                                                      *)
EventuallyIssued == \A r \in Resource : Planned(r) ~> Issued(r)

-----------------------------------------------------------------------------
(* "only new_period() or settlement clears it": at the limit of a later    *)
(* period, enforce sets out to stop what it was given.  Refuted: the       *)
(* record of the earlier period is still there and is resumed.             *)
StopsInEveryPeriod ==
    [][\A c \in Call :
        /\ pc[c] = "idle" /\ pc'[c] = "issue"
        /\ store # None /\ store.blockedAt < period
        => asked'[c] \subseteq todo'[c]]_vars
=============================================================================
