------------------------ MODULE BudgetEnforcerProofs ------------------------
(***************************************************************************)
(* That the at-limit sequence calls each stop once at most and only after  *)
(* its mark, that its final phase is honest, and that no call undoes what  *)
(* another has saved: for any number of calls, resources, crashes and      *)
(* periods.                                                                *)
(***************************************************************************)
EXTENDS BudgetEnforcer, TLAPS

(* A call that is past its first step has a record in the store. *)
Working == \A c \in Call : pc[c] # "idle" => store # None

(* The stop a call is about to make, or has seen time out, is planned,     *)
(* marked and unanswered and nobody else's; about to be made, it was not   *)
(* made before.                                                            *)
InFlight == {"call", "timed_out"}
OwnStop ==
    /\ \A c \in Call : pc[c] \in InFlight => /\ current[c] \in Resource
                                             /\ Issued(current[c])
                                             /\ Planned(current[c])
                                             /\ current[c] \notin confirmed
    /\ \A c \in Call : pc[c] = "call" => sent[current[c]] = 0
    /\ \A c, d \in Call : pc[c] \in InFlight /\ pc[d] \in InFlight /\ c # d
                             => current[c] # current[d]

(* Confirmations on record, or about to be, are answers of the runner to   *)
(* marked stops, and what was answered stays suspended for the period.     *)
Answered ==
    /\ \A c \in Call : pc[c] = "returned" => current[c] \in confirmed
    /\ \A r \in confirmed : Issued(r)
    /\ store # None =>
          /\ store.confirmed \subseteq confirmed
          /\ store.blockedAt <= period
          /\ store.blockedAt = period => store.planned \cap confirmed \cap running = {}

Honest == store # None /\ store.phase = "blocked_stopped"
              => store.planned \subseteq store.confirmed

IInv == TypeOK /\ Working /\ OneMarkedCall /\ OwnStop /\ Answered /\ Honest

LEMMA Initially == Init => IInv
<1> USE BudgetAssumption
<1> SUFFICES ASSUME Init PROVE IInv OBVIOUS
<1>1. TypeOK BY DEF Init, TypeOK
<1>2. Working /\ OneMarkedCall /\ OwnStop
  BY DEF Init, Working, OneMarkedCall, OwnStop, InFlight, Issued
<1>3. Answered /\ Honest BY DEF Init, Answered, Honest
<1> QED BY <1>1, <1>2, <1>3 DEF IInv

(* What the phase is set to and what that leaves alone. *)
LEMMA PhaseSet ==
    ASSUME NEW record \in Record
    PROVE  /\ SetPhase(record) \in Record
           /\ SetPhase(record).planned = record.planned
           /\ SetPhase(record).issued = record.issued
           /\ SetPhase(record).confirmed = record.confirmed
           /\ SetPhase(record).alerted = record.alerted
           /\ SetPhase(record).blockedAt = record.blockedAt
           /\ SetPhase(record).phase \in {record.phase, "blocked_stopped"}
           /\ SetPhase(record).phase = "blocked_stopped"
                 => record.phase = "blocked_stopped" \/ record.planned \subseteq record.confirmed
BY DEF SetPhase, Record, Phase

(* A fresh record. *)
LEMMA Fresh ==
    ASSUME TypeOK, NEW planned \in SUBSET Resource
    PROVE  /\ NewRecord(planned) \in Record
           /\ NewRecord(planned).planned = planned
           /\ NewRecord(planned).issued = {}
           /\ NewRecord(planned).confirmed = {}
           /\ NewRecord(planned).phase = "blocked"
           /\ NewRecord(planned).blockedAt = period
BY DEF NewRecord, Record, Phase, TypeOK

(* Steps that touch neither the store nor a call in flight. *)
LEMMA Keeps ==
    ASSUME IInv, TypeOK', UNCHANGED <<store, sent, confirmed>>,
           \A c \in Call : pc'[c] = "idle" \/ (pc'[c] = pc[c] /\ current'[c] = current[c]),
           store # None => period' >= period,
           store # None /\ period' = store.blockedAt
              => store.planned \cap confirmed \cap running' = {}
    PROVE  IInv'
<1> USE DEF IInv
<1>1. Working' /\ OneMarkedCall' /\ Honest' BY DEF Working, OneMarkedCall, Honest, Issued
<1>2. OwnStop' BY DEF OwnStop, InFlight, Issued, Planned
<1>3. Answered'
  <2>1. store # None => store.blockedAt \in Nat /\ period \in Nat /\ period' \in Nat
    BY BudgetAssumption DEF TypeOK, Record
  <2> QED BY <2>1 DEF Answered, Issued
<1> QED BY <1>1, <1>2, <1>3

LEMMA AtLimitStep ==
    ASSUME IInv, NEW c \in Call, NEW resources \in SUBSET Resource, AtLimit(c, resources)
    PROVE  IInv'
<1> USE DEF IInv
<1> DEFINE fresh == NewRecord(resources)
<1>1. /\ fresh \in Record /\ fresh.planned = resources /\ fresh.issued = {}
      /\ fresh.confirmed = {} /\ fresh.phase = "blocked" /\ fresh.blockedAt = period
  BY Fresh
<1>2. store' \in Record /\ store' # None
  BY <1>1, BudgetAssumption DEF AtLimit, TypeOK
<1>3. TypeOK'
  <2>1. NeverIssued(store') \subseteq Resource /\ (store # None => Resumed(store) \subseteq Resource)
    BY <1>2 DEF NeverIssued, Resumed, Record, TypeOK
  <2> QED BY <1>2, <2>1 DEF AtLimit, TypeOK, auxVars
<1>4. \A d \in Call : pc'[d] = "issue" \/ (pc'[d] = pc[d] /\ current'[d] = current[d])
  BY DEF AtLimit, TypeOK
<1>5. CASE store # None
  <2>1. UNCHANGED <<store, sent, confirmed, period, running>>
    BY <1>5 DEF AtLimit, auxVars
  <2>2. Working' /\ OneMarkedCall' /\ Honest'
    BY <1>2, <2>1 DEF Working, OneMarkedCall, Honest, Issued
  <2>3. OwnStop' BY <1>4, <2>1 DEF OwnStop, InFlight, Issued, Planned
  <2>4. Answered' BY <1>4, <2>1 DEF Answered, Issued
  <2> QED BY <1>3, <2>2, <2>3, <2>4
<1>6. CASE store = None
  <2>1. store' = fresh /\ UNCHANGED <<sent, confirmed, period, running>>
    BY <1>6 DEF AtLimit, auxVars
  <2>2. confirmed = {} BY <1>6 DEF Answered, Issued
  <2>3. \A r \in Resource : sent[r] = 0
    BY <1>6 DEF OneMarkedCall, Issued, TypeOK
  <2>4. \A d \in Call : pc'[d] \notin {"call", "returned", "timed_out"}
    BY <1>4, <1>6 DEF Working
  <2>5. Working' /\ OneMarkedCall' BY <1>2, <2>1, <2>3 DEF Working, OneMarkedCall
  <2>6. OwnStop' BY <2>4 DEF OwnStop, InFlight
  <2>7. Answered' BY <1>1, <2>1, <2>2, <2>4, BudgetAssumption DEF Answered, TypeOK
  <2>8. Honest' BY <1>1, <2>1 DEF Honest
  <2> QED BY <1>3, <2>5, <2>6, <2>7, <2>8
<1> QED BY <1>5, <1>6

LEMMA MarkStep ==
    ASSUME IInv, NEW c \in Call, NEW r \in Resource, Mark(c, r)
    PROVE  IInv'
<1> USE DEF IInv
<1>1. store # None /\ store \in Record /\ Current(c) = store
  BY DEF Mark, Working, Current, TypeOK
<1>2. CASE r \notin NeverIssued(store)
  <2>1. UNCHANGED <<store, pc, current, period, running, sent, confirmed, asked, read, crashes>>
        /\ todo' = [todo EXCEPT ![c] = @ \ {r}]
    BY <1>1, <1>2 DEF Mark, auxVars
  <2>2. TypeOK' BY <2>1 DEF TypeOK
  <2>3. period' >= period BY <2>1, BudgetAssumption DEF TypeOK
  <2> QED BY <2>1, <2>2, <2>3, Keeps DEF Answered
<1>3. CASE r \in NeverIssued(store)
  <2> DEFINE marked == [store EXCEPT !.issued = @ \cup {r}]
  <2>1. /\ store' = marked /\ pc' = [pc EXCEPT ![c] = "call"]
        /\ current' = [current EXCEPT ![c] = r]
        /\ UNCHANGED <<period, running, sent, confirmed, asked, read, crashes>>
        /\ todo' = [todo EXCEPT ![c] = @ \ {r}]
    BY <1>1, <1>3 DEF Mark, auxVars
  <2>2. /\ marked \in Record /\ marked.issued = store.issued \cup {r}
        /\ marked.planned = store.planned /\ marked.confirmed = store.confirmed
        /\ marked.phase = store.phase /\ marked.blockedAt = store.blockedAt
    BY <1>1 DEF Record
  <2>3. store' # None BY <2>1, <2>2, BudgetAssumption
  <2>4. TypeOK' BY <2>1, <2>2 DEF TypeOK
  <2>5. /\ sent[r] = 0 /\ r \notin confirmed /\ r \in store.planned
        /\ \A d \in Call : pc[d] \in InFlight => current[d] # r
    BY <1>1, <1>3 DEF NeverIssued, OneMarkedCall, OwnStop, Issued, Answered, TypeOK
  <2>6. Working' /\ OneMarkedCall' /\ Honest'
    BY <1>1, <2>1, <2>2, <2>3 DEF Working, OneMarkedCall, Honest, Issued
  <2>7. OwnStop'
    <3>1. \A d \in Call : d # c => pc'[d] = pc[d] /\ current'[d] = current[d]
      BY <2>1 DEF TypeOK
    <3>2. pc'[c] = "call" /\ current'[c] = r BY <2>1 DEF TypeOK
    <3>3. Issued(r)' /\ Planned(r)' /\ sent'[r] = 0
      BY <2>1, <2>2, <2>3, <2>5 DEF Issued, Planned
    <3>4. \A d \in Resource : /\ Issued(d) => Issued(d)'
                              /\ Planned(d) => Planned(d)'
      BY <2>1, <2>2, <2>3 DEF Issued, Planned
    <3> QED BY <2>1, <2>5, <3>1, <3>2, <3>3, <3>4 DEF OwnStop, InFlight
  <2>8. Answered'
    <3>1. \A d \in Call : pc'[d] = "returned" => pc[d] = "returned" /\ current'[d] = current[d]
      BY <2>1 DEF TypeOK
    <3> QED BY <1>1, <2>1, <2>2, <2>3, <3>1 DEF Answered, Issued
  <2> QED BY <2>4, <2>6, <2>7, <2>8
<1> QED BY <1>2, <1>3

(* Every other call is where it was; this one has gone back. *)
LEMMA GoneBack ==
    ASSUME TypeOK, NEW c \in Call, Back(c)
    PROVE  /\ pc' = [pc EXCEPT ![c] = "idle"]
           /\ asked' \in [Call -> SUBSET Resource]
           /\ read' \in [Call -> Record \cup {None}]
           /\ todo' \in [Call -> SUBSET Resource]
           /\ current' \in [Call -> Resource \cup {None}]
           /\ \A d \in Call : pc'[d] = "idle" \/ (pc'[d] = pc[d] /\ current'[d] = current[d])
<1>1. asked' \in [Call -> SUBSET Resource] BY DEF Back, TypeOK
<1>2. read' \in [Call -> Record \cup {None}] BY DEF Back, TypeOK
<1>3. todo' \in [Call -> SUBSET Resource] BY DEF Back, TypeOK
<1>4. current' \in [Call -> Resource \cup {None}] BY DEF Back, TypeOK
<1>5. \A d \in Call : pc'[d] = "idle" \/ (pc'[d] = pc[d] /\ current'[d] = current[d])
  BY DEF Back, TypeOK
<1> QED BY <1>1, <1>2, <1>3, <1>4, <1>5 DEF Back

LEMMA StopCallStep ==
    ASSUME IInv, NEW c \in Call, StopCall(c)
    PROVE  IInv'
<1> USE DEF IInv
<1> DEFINE r == current[c]
<1>1. /\ r \in Resource /\ Issued(r) /\ sent[r] = 0 /\ store # None /\ store \in Record
      /\ Planned(r) /\ r \notin confirmed
      /\ \A d \in Call : pc[d] \in InFlight /\ d # c => current[d] # r
  BY DEF StopCall, OwnStop, InFlight, Issued, TypeOK
<1>2. /\ UNCHANGED <<store, period, crashes>>
      /\ sent' = [sent EXCEPT ![r] = @ + 1]
      /\ running' \in {running, running \ {r}}
      /\ \/ pc' = [pc EXCEPT ![c] = "returned"] /\ running' = running \ {r}
            /\ confirmed' = confirmed \cup {r}
         \/ pc' = [pc EXCEPT ![c] = "timed_out"] /\ UNCHANGED confirmed
         \/ pc' = [pc EXCEPT ![c] = "idle"] /\ UNCHANGED confirmed
  BY GoneBack DEF StopCall
<1>3. /\ asked' \in [Call -> SUBSET Resource] /\ read' \in [Call -> Record \cup {None}]
      /\ todo' \in [Call -> SUBSET Resource] /\ current' \in [Call -> Resource \cup {None}]
      /\ \A d \in Call : pc'[d] = "idle" \/ current'[d] = current[d]
  BY GoneBack DEF StopCall, TypeOK
<1>4. /\ pc'[c] # "call"
      /\ \A d \in Call : d # c => pc'[d] = pc[d]
      /\ \A d \in Call : pc[d] = "idle" => pc'[d] = "idle"
      /\ pc'[c] = "returned" => confirmed' = confirmed \cup {r}
      /\ pc'[c] = "timed_out" => confirmed' = confirmed
  BY <1>2 DEF TypeOK, StopCall
<1>5. TypeOK' BY <1>1, <1>2, <1>3 DEF TypeOK
<1>6. Working' /\ Honest' BY <1>1, <1>2, <1>4 DEF Working, Honest
<1>7. sent'[r] = 1 /\ \A d \in Resource : d # r => sent'[d] = sent[d]
  BY <1>1, <1>2 DEF TypeOK
<1>8. OneMarkedCall' BY <1>1, <1>2, <1>7 DEF OneMarkedCall, Issued
<1>9. OwnStop' BY <1>1, <1>2, <1>3, <1>4, <1>7 DEF OwnStop, InFlight, Issued, Planned
<1>10. Answered'
  <2>1. confirmed \subseteq confirmed' /\ confirmed' \subseteq confirmed \cup {r} BY <1>2
  <2>2. r \in confirmed' \ confirmed => r \notin running' BY <1>2
  <2>3. running' \subseteq running BY <1>2
  <2>4. \A d \in Call : pc'[d] = "returned" => current'[d] \in confirmed'
    BY <1>2, <1>3, <1>4, <2>1 DEF Answered
  <2>5. \A d \in confirmed' : Issued(d)' BY <1>1, <1>2, <2>1 DEF Answered, Issued
  <2> QED BY <1>1, <1>2, <2>1, <2>2, <2>3, <2>4, <2>5 DEF Answered
<1> QED BY <1>5, <1>6, <1>8, <1>9, <1>10

(* Saving a record that has the marks of the old one and no confirmation   *)
(* the runner has not given.                                               *)
LEMMA Saved ==
    ASSUME IInv, store # None, store' \in Record,
           UNCHANGED <<sent, confirmed, period, running>>,
           store'.planned = store.planned, store'.issued = store.issued,
           store'.confirmed \subseteq confirmed, store'.blockedAt = store.blockedAt,
           store'.phase = "blocked_stopped" => store'.planned \subseteq store'.confirmed,
           TypeOK',
           \A d \in Call : pc'[d] \in {"idle", "issue"}
                            \/ (pc'[d] = pc[d] /\ current'[d] = current[d])
    PROVE  IInv'
<1> USE DEF IInv
<1>1. store' # None BY BudgetAssumption
<1>2. Working' /\ OneMarkedCall' /\ Honest'
  BY <1>1 DEF Working, OneMarkedCall, Honest, Issued
<1>3. OwnStop' BY <1>1 DEF OwnStop, InFlight, Issued, Planned
<1>4. Answered' BY <1>1 DEF Answered, Issued
<1> QED BY <1>2, <1>3, <1>4

LEMMA TimedOutStep ==
    ASSUME IInv, NEW c \in Call, TimedOut(c)
    PROVE  IInv'
<1> USE DEF IInv
<1> DEFINE pending == [store EXCEPT !.phase = "blocked_stop_pending", !.alerted = TRUE]
<1>1. store # None /\ store \in Record /\ Current(c) = store
  BY DEF TimedOut, Working, Current, TypeOK
<1>2. /\ pending \in Record /\ pending.planned = store.planned
      /\ pending.issued = store.issued /\ pending.confirmed = store.confirmed
      /\ pending.blockedAt = store.blockedAt /\ pending.phase = "blocked_stop_pending"
  BY <1>1 DEF Record, Phase
<1>3. store' = pending BY <1>1 DEF TimedOut
<1>4. TypeOK' BY <1>2, <1>3 DEF TimedOut, TypeOK, auxVars
<1>5. \A d \in Call : pc'[d] \in {"idle", "issue"}
                       \/ (pc'[d] = pc[d] /\ current'[d] = current[d])
  BY DEF TimedOut, TypeOK
<1>6. store.confirmed \subseteq confirmed BY <1>1 DEF Answered
<1>7. UNCHANGED <<sent, confirmed, period, running>> BY DEF TimedOut, auxVars
<1> HIDE DEF pending
<1> QED BY <1>1, <1>2, <1>3, <1>4, <1>5, <1>6, <1>7, Saved

LEMMA ReturnedStep ==
    ASSUME IInv, NEW c \in Call, Returned(c)
    PROVE  IInv'
<1> USE DEF IInv
<1> DEFINE answered == [store EXCEPT !.confirmed = @ \cup {current[c]}]
<1>1. store # None /\ store \in Record /\ Current(c) = store /\ current[c] \in confirmed
  BY DEF Returned, Working, Current, TypeOK, Answered
<1>2. /\ answered \in Record /\ answered.planned = store.planned
      /\ answered.issued = store.issued
      /\ answered.confirmed = store.confirmed \cup {current[c]}
      /\ answered.blockedAt = store.blockedAt /\ answered.phase = store.phase
  BY <1>1 DEF Record, TypeOK
<1>3. store' = SetPhase(answered) BY <1>1 DEF Returned
<1>4. /\ store' \in Record /\ store'.planned = store.planned
      /\ store'.issued = store.issued
      /\ store'.confirmed = store.confirmed \cup {current[c]}
      /\ store'.blockedAt = store.blockedAt
      /\ store'.phase = "blocked_stopped"
            => (store.phase = "blocked_stopped" \/ store'.planned \subseteq store'.confirmed)
  BY <1>2, <1>3, PhaseSet
<1>5. TypeOK' BY <1>4 DEF Returned, TypeOK, auxVars
<1>6. \A d \in Call : pc'[d] \in {"idle", "issue"}
                       \/ (pc'[d] = pc[d] /\ current'[d] = current[d])
  BY DEF Returned, TypeOK
<1>7. store'.phase = "blocked_stopped" => store'.planned \subseteq store'.confirmed
  BY <1>1, <1>4 DEF Honest
<1>8. store'.confirmed \subseteq confirmed BY <1>1, <1>4 DEF Answered
<1>9. UNCHANGED <<sent, confirmed, period, running>> BY DEF Returned, auxVars
<1> QED BY <1>1, <1>4, <1>5, <1>6, <1>7, <1>8, <1>9, Saved

LEMMA ReportStep ==
    ASSUME IInv, NEW c \in Call, Report(c)
    PROVE  IInv'
<1> USE DEF IInv
<1>1. store # None /\ store \in Record /\ Current(c) = store
  BY DEF Report, Working, Current, TypeOK
<1>2. store' = SetPhase(store) BY <1>1 DEF Report
<1>3. /\ store' \in Record /\ store'.planned = store.planned
      /\ store'.issued = store.issued /\ store'.confirmed = store.confirmed
      /\ store'.blockedAt = store.blockedAt
      /\ store'.phase = "blocked_stopped"
            => (store.phase = "blocked_stopped" \/ store.planned \subseteq store.confirmed)
  BY <1>1, <1>2, PhaseSet
<1>4. TypeOK' BY <1>3, GoneBack DEF Report, TypeOK, auxVars
<1>5. \A d \in Call : pc'[d] \in {"idle", "issue"}
                       \/ (pc'[d] = pc[d] /\ current'[d] = current[d])
  BY GoneBack DEF Report
<1>6. store'.phase = "blocked_stopped" => store'.planned \subseteq store'.confirmed
  BY <1>1, <1>3 DEF Honest
<1>7. store'.confirmed \subseteq confirmed BY <1>1, <1>3 DEF Answered
<1>8. UNCHANGED <<sent, confirmed, period, running>> BY DEF Report, auxVars
<1> QED BY <1>1, <1>3, <1>4, <1>5, <1>6, <1>7, <1>8, Saved

LEMMA EnvironmentStep ==
    ASSUME IInv, NewPeriod \/ (\E r \in Resource : Starts(r)) \/ Crash
    PROVE  IInv'
<1> USE DEF IInv
<1>1. CASE NewPeriod
  <2>1. TypeOK' /\ period' > period
    BY <1>1, BudgetAssumption DEF NewPeriod, TypeOK, callVars, auxVars
  <2>2. store # None => store.blockedAt \in Nat /\ store.blockedAt <= period /\ period \in Nat
    BY BudgetAssumption DEF Answered, TypeOK, Record
  <2> QED BY <1>1, <2>1, <2>2, Keeps DEF NewPeriod, callVars, auxVars
<1>2. ASSUME NEW r \in Resource, Starts(r) PROVE IInv'
  <2>1. TypeOK' BY <1>2 DEF Starts, TypeOK, callVars, auxVars
  <2>2. ASSUME store # None, period' = store.blockedAt
        PROVE  store.planned \cap confirmed \cap running' = {}
    <3>1. r \notin store.planned
      BY <1>2, <2>2, BudgetAssumption DEF Starts, Planned, TypeOK
    <3>2. running' = running \cup {r} /\ period' = period BY <1>2 DEF Starts
    <3> QED BY <2>2, <3>1, <3>2 DEF Answered
  <2>3. period' >= period BY <1>2, BudgetAssumption DEF Starts, TypeOK
  <2> QED BY <1>2, <2>1, <2>2, <2>3, Keeps DEF Starts, callVars, auxVars
<1>3. CASE Crash
  <2>1. TypeOK' BY <1>3, BudgetAssumption DEF Crash, TypeOK
  <2>2. \A c \in Call : pc'[c] = "idle" BY <1>3 DEF Crash
  <2>3. period' >= period BY <1>3, BudgetAssumption DEF Crash, TypeOK
  <2>4. UNCHANGED <<store, sent, confirmed, period, running>> BY <1>3 DEF Crash
  <2> QED BY <2>1, <2>2, <2>3, <2>4, Keeps DEF Answered
<1> QED BY <1>1, <1>2, <1>3

LEMMA Inductive == IInv /\ [Next]_vars => IInv'
<1> SUFFICES ASSUME IInv, [Next]_vars PROVE IInv' OBVIOUS
<1>1. CASE Enforce BY <1>1, AtLimitStep DEF Enforce
<1>2. ASSUME NEW c \in Call, CallStep(c) PROVE IInv'
  BY <1>2, MarkStep, StopCallStep, TimedOutStep, ReturnedStep, ReportStep DEF CallStep
<1>3. CASE NewPeriod \/ (\E r \in Resource : Starts(r)) \/ Crash
  BY <1>3, EnvironmentStep
<1>4. CASE UNCHANGED vars
  BY <1>4 DEF vars, callVars, auxVars, IInv, TypeOK, Working, OneMarkedCall, OwnStop,
     Answered, Honest, Issued, Planned, InFlight
<1> QED BY <1>1, <1>2, <1>3, <1>4 DEF Next

(* The invariant holds in every state of every behaviour. *)
THEOREM Invariant == Spec => []IInv
<1> QED BY Initially, Inductive, PTL DEF Spec

(* No stop is called twice, and none before its mark is durable            *)
(* (_issue_stops), however many calls, restarts and timeouts there are.    *)
THEOREM OneMarkedCallAlways == Spec => []OneMarkedCall
<1>1. IInv => OneMarkedCall BY DEF IInv
<1> QED BY <1>1, Invariant, PTL

(* The phase blocked_stopped is only claimed when all planned stops were   *)
(* answered and none of their resources runs in that period (_set_phase).  *)
THEOREM StoppedIsStoppedAlways == Spec => []StoppedIsStopped
<1>1. IInv => StoppedIsStopped
  BY DEF IInv, Honest, Answered, StoppedIsStopped
<1> QED BY <1>1, Invariant, PTL

(* Nothing saved is undone by a call that started from an older record     *)
(* (_issue_stops), and no later timeout takes back blocked_stopped.        *)
THEOREM NothingUndoneAlways == Spec => NothingUndone
<1>1. IInv /\ [Next]_vars => [Kept]_vars
  <2> SUFFICES ASSUME IInv, Next PROVE Kept OBVIOUS
  <2> SUFFICES ASSUME store # None PROVE Kept BY DEF Kept
  <2>1. store \in Record BY DEF IInv, TypeOK
  <2>2. \A c \in Call : Current(c) = store BY DEF Current
  <2>3. CASE UNCHANGED store BY <2>3 DEF Kept
  <2>4. ASSUME NEW c \in Call, NEW resources \in SUBSET Resource, AtLimit(c, resources)
        PROVE  UNCHANGED store
    BY <2>4 DEF AtLimit
  <2>5. ASSUME NEW c \in Call, NEW r \in Resource, Mark(c, r) PROVE Kept
    <3> DEFINE marked == [store EXCEPT !.issued = @ \cup {r}]
    <3>1. marked \in Record /\ marked # None BY <2>1, BudgetAssumption DEF Record
    <3>2. store' = marked \/ store' = store BY <2>2, <2>5 DEF Mark
    <3> QED BY <2>1, <3>1, <3>2 DEF Kept, Record
  <2>6. ASSUME NEW c \in Call, TimedOut(c) PROVE Kept
    <3> DEFINE pending == [store EXCEPT !.phase = "blocked_stop_pending", !.alerted = TRUE]
    <3>1. pending \in Record /\ pending # None
      BY <2>1, BudgetAssumption DEF Record, Phase
    <3>2. current[c] \in store.planned /\ current[c] \notin store.confirmed
      BY <2>6 DEF TimedOut, IInv, OwnStop, InFlight, Planned, Answered
    <3>3. store.phase # "blocked_stopped" BY <3>2 DEF IInv, Honest
    <3>4. store' = pending BY <2>2, <2>6 DEF TimedOut
    <3> QED BY <2>1, <3>1, <3>3, <3>4 DEF Kept, Record
  <2>7. ASSUME NEW c \in Call, Returned(c) PROVE Kept
    <3> DEFINE answered == [store EXCEPT !.confirmed = @ \cup {current[c]}]
    <3>1. current[c] \in Resource
      BY <2>7 DEF Returned, IInv, Answered, TypeOK
    <3>2. /\ answered \in Record /\ answered.planned = store.planned
          /\ answered.issued = store.issued /\ store.confirmed \subseteq answered.confirmed
          /\ answered.alerted = store.alerted /\ answered.phase = store.phase
      BY <2>1, <3>1 DEF Record
    <3>3. store' = SetPhase(answered) BY <2>2, <2>7 DEF Returned
    <3>4. store' \in Record BY <3>2, <3>3, PhaseSet
    <3>5. store' # None BY <3>4, BudgetAssumption
    <3> HIDE DEF answered
    <3> QED BY <3>2, <3>3, <3>5, PhaseSet DEF Kept
  <2>8. ASSUME NEW c \in Call, Report(c) PROVE Kept
    <3>1. store' = SetPhase(store) BY <2>2, <2>8 DEF Report
    <3>2. store' # None BY <2>1, <3>1, PhaseSet, BudgetAssumption
    <3> QED BY <2>1, <3>1, <3>2, PhaseSet DEF Kept
  <2>9. ASSUME NEW c \in Call, StopCall(c) PROVE UNCHANGED store
    BY <2>9 DEF StopCall
  <2>10. CASE NewPeriod \/ (\E r \in Resource : Starts(r)) \/ Crash
    BY <2>3, <2>10 DEF NewPeriod, Starts, Crash
  <2> QED BY <2>3, <2>4, <2>5, <2>6, <2>7, <2>8, <2>9, <2>10 DEF Next, Enforce, CallStep
<1> QED BY <1>1, Invariant, PTL DEF Spec, NothingUndone
=============================================================================
