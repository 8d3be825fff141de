-------------------------- MODULE WorkspaceProofs --------------------------
(***************************************************************************)
(* That an upload replaces only what its user confirmed, but for a fork    *)
(* or an upload in another page; that automatic demotion waits for the     *)
(* work to be over, that the key of the current injection is never a       *)
(* revoked one, that the operator is told of what fires, that the control  *)
(* plane keeps to its capacity and to its one pending operation, and that  *)
(* the browser demo counts each second a page was open; each for every     *)
(* value of its constants.                                                 *)
(***************************************************************************)
EXTENDS FileOps, AutoPolicy, KeyInjection, OpsPolicies, ControlPlane, BrowserDemo,
        FiniteSetTheorems, TLAPS

(* Uploads: one is pending in a page, and it was compared with what is     *)
(* there.                                                                  *)

CallRecord ==
    [step : {"none", "confirming", "asking", "reading", "writing"}, page : Page \cup {NoPage},
     entries : SUBSET Path, mode : {"skip", "overwrite"}, confirmed : SUBSET Path,
     present : SUBSET Path, arrived : SUBSET Path]

(* A page has one upload between its first await and its commit, and what  *)
(* that upload is about to write has been compared with what is there, but *)
(* for what others put there meanwhile.                                    *)
OnePending ==
    \A u, v \in Upload : Pending(u) /\ Pending(v) /\ call[u].page = call[v].page => u = v
ComparedWith(record, there) ==
    record.step = "writing" =>
        /\ there \subseteq record.present \cup record.arrived
        /\ record.mode = "overwrite" =>
              there \cap record.entries \subseteq record.confirmed \cup record.arrived
Compared == \A u \in Upload : ComparedWith(call[u], files)

FilesInv ==
    /\ files \subseteq Path /\ forking \subseteq Path /\ call \in [Upload -> CallRecord]
    /\ OnePending /\ Compared

LEMMA FilesInitially == FilesInit => FilesInv
BY DEF FilesInit, FilesInv, NoCall, CallRecord, OnePending, Pending, Compared, ComparedWith

(* Nothing is there that was not, and only one call changes, to one that   *)
(* is not pending.                                                         *)
LEMMA OneCallChanges ==
    ASSUME FilesInv, NEW u \in Upload, NEW record \in CallRecord,
           call' = [call EXCEPT ![u] = record], record.step \notin {"reading", "writing"},
           files' \subseteq files, forking' = forking
    PROVE  FilesInv'
<1>1. /\ call' \in [Upload -> CallRecord] /\ call'[u] = record
      /\ \A v \in Upload \ {u} : call'[v] = call[v]
  BY DEF FilesInv
<1>2. OnePending' BY <1>1 DEF FilesInv, OnePending, Pending
<1>3. Compared' BY <1>1 DEF FilesInv, Compared, ComparedWith
<1> QED BY <1>1, <1>2, <1>3 DEF FilesInv

(* What one writer puts there has arrived for every upload that is about   *)
(* to write and that does not share the writer's page.                     *)
LEMMA ArriveKeeps ==
    ASSUME NEW calls \in [Upload -> CallRecord], NEW unaware \in SUBSET Upload,
           NEW paths \in SUBSET Path, NEW v \in Upload
    PROVE  /\ Arrive(calls, unaware, paths) \in [Upload -> CallRecord]
           /\ Arrive(calls, unaware, paths)[v].step = calls[v].step
           /\ Arrive(calls, unaware, paths)[v].page = calls[v].page
           /\ v \in unaware => \A there : ComparedWith(calls[v], there) =>
                 ComparedWith(Arrive(calls, unaware, paths)[v], there \cup paths)
           /\ v \notin unaware => Arrive(calls, unaware, paths)[v] = calls[v]
<1> DEFINE new(w) == [calls[w] EXCEPT !.arrived = @ \cup paths]
<1>1. \A w \in Upload : /\ new(w) \in CallRecord
                        /\ new(w).step = calls[w].step /\ new(w).page = calls[w].page
                        /\ new(w).present = calls[w].present /\ new(w).mode = calls[w].mode
                        /\ new(w).entries = calls[w].entries /\ new(w).confirmed = calls[w].confirmed
                        /\ new(w).arrived = calls[w].arrived \cup paths
  BY DEF CallRecord
<1>2. Arrive(calls, unaware, paths) =
         [w \in Upload |-> IF w \in unaware /\ calls[w].step = "writing" THEN new(w) ELSE calls[w]]
  BY DEF Arrive
<1> HIDE DEF new
<1>3. ASSUME NEW there, ComparedWith(calls[v], there), v \in unaware
      PROVE  ComparedWith(Arrive(calls, unaware, paths)[v], there \cup paths)
  <2>1. CASE calls[v].step = "writing"
    <3>1. Arrive(calls, unaware, paths)[v] = new(v) BY <1>2, <1>3, <2>1
    <3> QED BY <1>1, <1>3, <3>1 DEF ComparedWith
  <2>2. CASE calls[v].step # "writing" BY <1>2, <2>2 DEF ComparedWith
  <2> QED BY <2>1, <2>2
<1>4. /\ Arrive(calls, unaware, paths) \in [Upload -> CallRecord]
      /\ v \notin unaware => Arrive(calls, unaware, paths)[v] = calls[v]
  BY <1>1, <1>2
<1>5. /\ Arrive(calls, unaware, paths)[v].step = calls[v].step
      /\ Arrive(calls, unaware, paths)[v].page = calls[v].page
  BY <1>1, <1>2
<1> QED BY <1>3, <1>4, <1>5

LEMMA BeginStep == ASSUME FilesInv, NEW u \in Upload, BeginUpload(u) PROVE FilesInv'
<1>1. files' = files /\ forking' = forking BY DEF BeginUpload
<1>2. CASE InTheWay(u) \/ status = "Suspend"
  <2>1. call' = [call EXCEPT ![u] = NoCall] BY <1>2 DEF BeginUpload
  <2>2. NoCall \in CallRecord /\ NoCall.step = "none" BY DEF NoCall, CallRecord
  <2> QED BY <1>1, <2>1, <2>2, OneCallChanges
<1>3. CASE ~(InTheWay(u) \/ status = "Suspend")
  <2> DEFINE record == [call[u] EXCEPT !.step = "reading"]
  <2>1. call' = [call EXCEPT ![u] = record] BY <1>3 DEF BeginUpload
  <2>2. record \in CallRecord /\ record.step = "reading" /\ record.page = call[u].page
    BY DEF FilesInv, CallRecord
  <2> HIDE DEF record
  <2>3. /\ call' \in [Upload -> CallRecord] /\ call'[u] = record
        /\ \A v \in Upload \ {u} : call'[v] = call[v]
    BY <2>1, <2>2 DEF FilesInv
  <2>4. \A v \in Upload \ {u} : Pending(v) => call[v].page # call[u].page
    BY <1>3 DEF InTheWay, SamePage
  <2>5. OnePending' BY <2>2, <2>3, <2>4 DEF FilesInv, OnePending, Pending
  <2>6. Compared' BY <1>1, <2>2, <2>3 DEF FilesInv, Compared, ComparedWith
  <2> QED BY <1>1, <2>3, <2>5, <2>6 DEF FilesInv
<1> QED BY <1>2, <1>3

LEMMA ReadStep == ASSUME FilesInv, NEW u \in Upload, ReadKeys(u) PROVE FilesInv'
<1>1. files' = files /\ forking' = forking /\ Pending(u) BY DEF ReadKeys, Pending
<1>2. CASE MustReconfirm(u)
  <2> DEFINE record == [call[u] EXCEPT !.step = "confirming", !.confirmed = call[u].entries \cap files]
  <2>1. record \in CallRecord /\ record.step = "confirming" BY DEF FilesInv, CallRecord
  <2>2. call' = [call EXCEPT ![u] = record] BY <1>2 DEF ReadKeys
  <2> QED BY <1>1, <2>1, <2>2, OneCallChanges
<1>3. CASE ~MustReconfirm(u)
  <2> DEFINE record == [call[u] EXCEPT !.step = "writing", !.present = files, !.arrived = {}]
  <2>1. /\ record \in CallRecord /\ record.page = call[u].page /\ record.present = files
        /\ record.mode = call[u].mode /\ record.entries = call[u].entries
        /\ record.confirmed = call[u].confirmed
    BY DEF FilesInv, CallRecord
  <2>2. call' = [call EXCEPT ![u] = record] BY <1>3 DEF ReadKeys
  <2>3. ComparedWith(record, files)
    BY <1>3, <2>1 DEF ComparedWith, MustReconfirm, Unconfirmed
  <2> HIDE DEF record
  <2>4. /\ call' \in [Upload -> CallRecord] /\ call'[u] = record
        /\ \A v \in Upload \ {u} : call'[v] = call[v]
    BY <2>1, <2>2 DEF FilesInv
  <2>5. OnePending' BY <1>1, <2>1, <2>4 DEF FilesInv, OnePending, Pending
  <2>6. Compared' BY <1>1, <2>3, <2>4 DEF FilesInv, Compared
  <2> QED BY <1>1, <2>4, <2>5, <2>6 DEF FilesInv
<1> QED BY <1>2, <1>3

LEMMA WriteStep == ASSUME FilesInv, NEW u \in Upload, WriteFiles(u) PROVE FilesInv'
<1> DEFINE rest == [call EXCEPT ![u] = NoCall]
           others == {v \in Upload : ~SamePage(u, v)}
<1>1. /\ files' = files \cup Entries(u) /\ forking' = forking
      /\ call' = Arrive(rest, others, Entries(u)) /\ Pending(u)
  BY DEF WriteFiles, Pending
<1>2. Entries(u) \subseteq Path
  <2>1. call[u] \in CallRecord BY DEF FilesInv
  <2> QED BY <2>1 DEF CallRecord, Entries
<1>3. /\ rest \in [Upload -> CallRecord] /\ rest[u] = NoCall
      /\ \A v \in Upload \ {u} : rest[v] = call[v]
  BY DEF FilesInv, NoCall, CallRecord
<1>4. others \subseteq Upload OBVIOUS
<1>5. \A v \in Upload \ {u} : Pending(v) => v \in others
  BY <1>1 DEF FilesInv, OnePending, SamePage
<1>6. NoCall.step = "none" BY DEF NoCall
<1> HIDE DEF rest, others
<1>7. call' \in [Upload -> CallRecord] BY <1>1, <1>2, <1>3, <1>4, ArriveKeeps
<1>8. \A v \in Upload : call'[v].step = rest[v].step /\ call'[v].page = rest[v].page
  BY <1>1, <1>2, <1>3, <1>4, ArriveKeeps
<1>9. OnePending' BY <1>3, <1>6, <1>8 DEF FilesInv, OnePending, Pending
<1>10. ASSUME NEW v \in Upload PROVE ComparedWith(call'[v], files')
  <2>1. CASE v \notin others
    <3>1. call'[v].step # "writing" BY <1>3, <1>5, <1>6, <1>8, <2>1 DEF Pending
    <3> QED BY <3>1 DEF ComparedWith
  <2>2. CASE v \in others
    <3>1. ComparedWith(rest[v], files)
      BY <1>3, <1>6 DEF FilesInv, Compared, ComparedWith
    <3> QED BY <1>1, <1>2, <1>3, <1>4, <2>2, <3>1, ArriveKeeps
  <2> QED BY <2>1, <2>2
<1>11. Compared' BY <1>10 DEF Compared
<1> QED BY <1>1, <1>2, <1>7, <1>9, <1>11 DEF FilesInv

LEMMA ForkStep == ASSUME FilesInv, NEW p \in Path, ForkPuts(p) PROVE FilesInv'
<1>1. /\ files' = files \cup {p} /\ forking' \subseteq Path
      /\ call' = Arrive(call, Upload, {p})
  BY DEF ForkPuts, FilesInv
<1> call \in [Upload -> CallRecord] BY DEF FilesInv
<1>2. /\ call' \in [Upload -> CallRecord]
      /\ \A v \in Upload : call'[v].step = call[v].step /\ call'[v].page = call[v].page
  <2>1. CASE Upload = {} BY <1>1, <2>1 DEF Arrive
  <2>2. CASE Upload # {} BY <1>1, <2>2, ArriveKeeps
  <2> QED BY <2>1, <2>2
<1>3. OnePending' BY <1>2 DEF FilesInv, OnePending, Pending
<1>4. ASSUME NEW v \in Upload PROVE ComparedWith(call'[v], files')
  BY <1>1, ArriveKeeps DEF FilesInv, Compared
<1>5. Compared' BY <1>4 DEF Compared
<1> QED BY <1>1, <1>2, <1>3, <1>5 DEF FilesInv

LEMMA FilesStep == FilesInv /\ [FilesNext]_fileVars => FilesInv'
<1> SUFFICES ASSUME FilesInv, [FilesNext]_fileVars PROVE FilesInv' OBVIOUS
<1>0. NoCall \in CallRecord BY DEF NoCall, CallRecord
<1>1. CASE Switch \/ ForkFails
  <2>1. files' = files /\ call' = call /\ forking' \subseteq forking
    BY <1>1 DEF Switch, ForkFails
  <2> QED BY <2>1 DEF FilesInv, OnePending, Pending, Compared
<1>2. ASSUME NEW p \in Path, ForkPuts(p) PROVE FilesInv' BY <1>2, ForkStep
<1>3. ASSUME NEW p \in Path, BeginDelete(p) \/ \E committed \in BOOLEAN : EndDelete(p, committed)
      PROVE  FilesInv'
  <2>1. files' \subseteq files /\ call' = call /\ forking' = forking
    BY <1>3 DEF BeginDelete, EndDelete
  <2> QED BY <2>1 DEF FilesInv, OnePending, Pending, Compared, ComparedWith
<1>4. ASSUME NEW u \in Upload, NEW page \in Page, NEW entries \in SUBSET Path,
             Choose(u, page, entries)
      PROVE  FilesInv'
  <2> DEFINE record ==
        [NoCall EXCEPT !.step = IF entries \cap files = {} THEN "asking" ELSE "confirming",
                       !.page = page, !.entries = entries, !.confirmed = entries \cap files]
  <2>1. record \in CallRecord /\ record.step \notin {"reading", "writing"}
    BY <1>0 DEF CallRecord, NoCall
  <2>2. call' = [call EXCEPT ![u] = record] /\ files' = files /\ forking' = forking
    BY <1>4 DEF Choose
  <2> QED BY <2>1, <2>2, OneCallChanges
<1>5. ASSUME NEW u \in Upload, NEW mode \in {"skip", "overwrite", "cancel"}, Answer(u, mode)
      PROVE  FilesInv'
  <2> DEFINE record == IF mode = "cancel" THEN NoCall
                       ELSE [call[u] EXCEPT !.step = "asking", !.mode = mode]
  <2>1. record \in CallRecord /\ record.step \notin {"reading", "writing"}
    BY <1>0 DEF FilesInv, CallRecord, NoCall
  <2>2. call' = [call EXCEPT ![u] = record] /\ files' = files /\ forking' = forking
    BY <1>5 DEF Answer
  <2> QED BY <2>1, <2>2, OneCallChanges
<1>6. ASSUME NEW u \in Upload, AbortWrite(u) PROVE FilesInv'
  <2>1. call' = [call EXCEPT ![u] = NoCall] /\ files' = files /\ forking' = forking
    BY <1>6 DEF AbortWrite
  <2> QED BY <1>0, <2>1, OneCallChanges DEF NoCall
<1>7. CASE UNCHANGED fileVars
  BY <1>7 DEF fileVars, FilesInv, OnePending, Pending, Compared
<1> QED
  BY <1>1, <1>2, <1>3, <1>4, <1>5, <1>6, <1>7, BeginStep, ReadStep, WriteStep DEF FilesNext

(* An upload replaces only what its user confirmed, but for what the fork  *)
(* that fills the sandbox or an upload of another page put there after its *)
(* keys were read, for any files, uploads and pages and whatever other     *)
(* uploads and deletions do while it waits (uploadFiles, fork).            *)
THEOREM OverwriteSeenAlways == FilesSpec => OverwriteSeen
<1>1. FilesInv =>
        [\A u \in Upload : WriteFiles(u) =>
             files \cap Entries(u) \subseteq call[u].confirmed \cup call[u].arrived]_fileVars
  <2> SUFFICES ASSUME FilesInv, NEW u \in Upload, WriteFiles(u)
               PROVE  files \cap Entries(u) \subseteq call[u].confirmed \cup call[u].arrived
    OBVIOUS
  <2>1. call[u].step = "writing" /\ call[u] \in CallRecord /\ ComparedWith(call[u], files)
    BY DEF WriteFiles, FilesInv, Compared
  <2>2. call[u].mode \in {"skip", "overwrite"} BY <2>1 DEF CallRecord
  <2> QED BY <2>1, <2>2 DEF Entries, ComparedWith
<1>2. FilesInv /\ [FilesNext]_fileVars => FilesInv' BY FilesStep
<1> QED BY FilesInitially, <1>1, <1>2, PTL DEF FilesSpec, OverwriteSeen

-----------------------------------------------------------------------------
(* Automatic policy: a completion is about work that is over.              *)

Report == [work : Work, generation : Nat, sentFrom : Nat \ {0}, lease : Int, done : BOOLEAN]

(* Work begins once per instance, so a completion sent from the current    *)
(* instance is about work that is over; unless a report that is not fenced *)
(* misled the policy, the claim is a report of this instance.              *)
AutoTypes ==
    /\ policyTime \in Int /\ anchor \in Int /\ lastDemotion \in Int /\ lastDemotion <= policyTime
    /\ instanceNo \in Nat \ {0} /\ busyWork \subseteq begun /\ begun \subseteq Work
    /\ busyReports \subseteq Report /\ hookNames \in BOOLEAN
    /\ observed \in {"Active", "Idle", "Suspend"}
    /\ observed = "Suspend" => busyWork = {}
ReportsTrue ==
    \A r \in busyReports :
        /\ r.sentFrom <= instanceNo /\ r.generation \in {NoGeneration, r.sentFrom}
        /\ r.done /\ r.sentFrom = instanceNo => r.work \in begun \ busyWork
ClaimCurrent ==
    claim # NoReport => claim \in busyReports /\ (misled \/ claim.sentFrom = instanceNo)
AutoInv == AutoTypes /\ ReportsTrue /\ ClaimCurrent

LEMMA AutoInitially == AutoInit => AutoInv
BY AutoAssumption DEF AutoInit, AutoInv, AutoTypes, ReportsTrue, ClaimCurrent

(* What the state says its generation is: this one or none. *)
Said == {instanceNo, NoGeneration}
Misleads(report, stateGeneration) ==
    report # NoReport /\ report.sentFrom # instanceNo /\ Unfenced(report, stateGeneration)

(* A report that is admitted and does not mislead is of this instance.     *)
LEMMA AdmittedIsCurrent ==
    ASSUME AutoInv, NEW report \in busyReports, NEW stateGeneration \in Said,
           report # NoReport, AdmissibleGeneration(report, stateGeneration),
           ~Misleads(report, stateGeneration)
    PROVE  report.sentFrom = instanceNo
BY DEF AutoInv, AutoTypes, ReportsTrue, AdmissibleGeneration, Unfenced, Misleads, Said, NoGeneration

LEMMA NewClaimCurrent ==
    ASSUME AutoInv, NEW report \in busyReports \cup {NoReport}, NEW stateGeneration \in Said,
           NewClaim(report, stateGeneration) # NoReport
    PROVE  /\ NewClaim(report, stateGeneration) \in busyReports
           /\ ~misled /\ ~Misleads(report, stateGeneration) =>
                 NewClaim(report, stateGeneration).sentFrom = instanceNo
<1>1. CASE NewClaim(report, stateGeneration) = claim BY <1>1 DEF AutoInv, ClaimCurrent
<1>2. CASE NewClaim(report, stateGeneration) # claim
  <2>1. /\ NewClaim(report, stateGeneration) = report /\ report # NoReport
        /\ AdmissibleGeneration(report, stateGeneration)
    BY <1>2 DEF NewClaim
  <2> QED BY <2>1, AdmittedIsCurrent
<1> QED BY <1>1, <1>2

LEMMA EvaluateStep ==
    ASSUME AutoInv, NEW report \in busyReports \cup {NoReport}, NEW stateGeneration \in Said,
           NEW hookInstalled, NEW signal,
           Evaluate(report, stateGeneration, hookInstalled, signal)
    PROVE  AutoInv'
<1>1. /\ UNCHANGED <<policyTime, instanceNo, busyWork, begun, busyReports, hookNames>>
      /\ claim' = NewClaim(report, stateGeneration)
      /\ misled' = (misled \/ Misleads(report, stateGeneration))
  BY DEF Evaluate, Misleads
<1>2. /\ observed' = "Suspend" => observed = "Suspend"
      /\ observed' \in {"Active", "Idle", "Suspend"}
  BY DEF Evaluate, AutoInv, AutoTypes
<1>3. anchor' \in {anchor, policyTime} /\ lastDemotion' \in {lastDemotion, policyTime}
  BY DEF Evaluate
<1>4. AutoTypes' BY <1>1, <1>2, <1>3 DEF AutoInv, AutoTypes
<1>5. ReportsTrue' BY <1>1 DEF AutoInv, ReportsTrue
<1>6. ClaimCurrent'
  <2> SUFFICES ASSUME claim' # NoReport
               PROVE  claim' \in busyReports /\ (misled' \/ claim'.sentFrom = instanceNo)
    BY <1>1 DEF ClaimCurrent
  <2> QED BY <1>1, NewClaimCurrent
<1> QED BY <1>4, <1>5, <1>6 DEF AutoInv

(* A hook report of the current instance joins those under way.            *)
LEMMA SendStep ==
    ASSUME AutoInv, NEW w \in Work, NEW done \in BOOLEAN, Send(w, done),
           busyWork' \subseteq busyWork, begun' = begun, done => w \in begun' \ busyWork'
    PROVE  AutoInv'
<1> DEFINE new == [work |-> w, generation |-> IF hookNames THEN instanceNo ELSE NoGeneration,
                   sentFrom |-> instanceNo, lease |-> policyTime + BusyTtl, done |-> done]
<1>1. /\ UNCHANGED <<policyTime, observed, operation, anchor, lastDemotion, claim, instanceNo,
                     misled, hookNames>>
      /\ busyReports' = busyReports \cup {new}
  BY DEF Send
<1>2. /\ new \in Report /\ new.generation \in {NoGeneration, new.sentFrom}
      /\ new.sentFrom = instanceNo /\ new.work = w /\ new.done = done
  BY AutoAssumption DEF AutoInv, AutoTypes, Report, NoGeneration
<1> HIDE DEF new
<1>3. AutoTypes' BY <1>1, <1>2 DEF AutoInv, AutoTypes
<1>4. ReportsTrue' BY <1>1, <1>2 DEF AutoInv, ReportsTrue, AutoTypes
<1>5. ClaimCurrent' BY <1>1 DEF AutoInv, ClaimCurrent
<1> QED BY <1>3, <1>4, <1>5 DEF AutoInv

LEMMA AutoStep == AutoInv /\ [AutoNext]_autoVars => AutoInv'
<1> USE AutoAssumption
<1> SUFFICES ASSUME AutoInv, [AutoNext]_autoVars PROVE AutoInv' OBVIOUS
<1>1. ASSUME NEW report \in busyReports \cup {NoReport}, NEW signal \in {"none", "wakeup", "garbage"},
             NEW hookInstalled \in BOOLEAN, NEW stateGeneration \in {instanceNo, NoGeneration},
             Evaluate(report, stateGeneration, hookInstalled, signal)
      PROVE  AutoInv'
  BY <1>1, EvaluateStep DEF Said
<1>2. ASSUME NEW w \in Work, Begins(w) PROVE AutoInv'
  BY <1>2 DEF Begins, AutoInv, AutoTypes, ReportsTrue, ClaimCurrent
<1>3. ASSUME NEW w \in Work, Renews(w) PROVE AutoInv'
  BY <1>3, SendStep DEF Renews
<1>4. ASSUME NEW w \in Work, Ends(w) PROVE AutoInv'
  BY <1>4, SendStep DEF Ends, AutoInv, AutoTypes
<1>5. CASE ManualSuspend
  BY <1>5 DEF ManualSuspend, AutoInv, AutoTypes, ReportsTrue, ClaimCurrent
<1>6. CASE Suspended
  BY <1>6 DEF Suspended, AutoInv, AutoTypes, ReportsTrue, ClaimCurrent
<1>7. CASE Resumed
  <2>1. /\ busyWork' = {} /\ begun' = {} /\ claim' = NoReport /\ instanceNo' = instanceNo + 1
        /\ busyReports' = busyReports /\ hookNames' \in BOOLEAN
    BY <1>7 DEF Resumed, AutoInv, AutoTypes
  <2>2. AutoTypes' BY <1>7, <2>1 DEF Resumed, AutoInv, AutoTypes
  <2>3. ReportsTrue' BY <2>1 DEF AutoInv, AutoTypes, ReportsTrue, Report
  <2> QED BY <2>1, <2>2, <2>3 DEF AutoInv, ClaimCurrent
<1>8. CASE PolicyTick
  BY <1>8 DEF PolicyTick, AutoInv, AutoTypes, ReportsTrue, ClaimCurrent
<1>9. CASE UNCHANGED autoVars
  BY <1>9 DEF autoVars, AutoInv, AutoTypes, ReportsTrue, ClaimCurrent
<1> QED BY <1>1, <1>2, <1>3, <1>4, <1>5, <1>6, <1>7, <1>8, <1>9 DEF AutoNext

(* What a report says is complete is over, if nothing misled the policy.   *)
LEMMA CompleteIsOver ==
    ASSUME AutoInv, NEW report \in busyReports \cup {NoReport}, NEW stateGeneration \in Said,
           NEW hookInstalled, ~misled, ~Misleads(report, stateGeneration),
           BusyStatus(report, stateGeneration, hookInstalled) \notin {"protected", "unknown_busy"}
    PROVE  /\ claim # NoReport => claim.work \notin busyWork
           /\ NewClaim(report, stateGeneration) # NoReport =>
                 NewClaim(report, stateGeneration).work \notin busyWork
<1>1. \A r \in busyReports :
         Classify(r) = "complete" /\ r.sentFrom = instanceNo => r.work \notin busyWork
  BY DEF AutoInv, ReportsTrue, Classify
<1>2. claim # NoReport /\ Classify(claim) = "complete" => claim.work \notin busyWork
  BY <1>1 DEF AutoInv, ClaimCurrent
<1>3. \A r : Classify(r) \in {"protected", "unknown_busy", "complete"} BY DEF Classify
<1>4. CASE report # NoReport /\ AdmissibleGeneration(report, stateGeneration)
  <2>1. report \in busyReports /\ report.sentFrom = instanceNo
    BY <1>4, AdmittedIsCurrent
  <2>2. Classify(report) = "complete"
    BY <1>3, <1>4 DEF BusyStatus
  <2>3. CASE LateCompletion(report)
    <3>1. claim # NoReport /\ report.work # claim.work /\ Classify(claim) = "complete"
      BY <1>3, <1>4, <2>2, <2>3 DEF BusyStatus, LateCompletion
    <3>2. report.done BY <2>2 DEF Classify
    <3>3. NewClaim(report, stateGeneration) = claim BY <3>1, <3>2 DEF NewClaim
    <3> QED BY <1>2, <3>1, <3>3
  <2>4. CASE ~LateCompletion(report)
    BY <1>1, <2>1, <2>2, <2>4 DEF LateCompletion, NewClaim
  <2> QED BY <2>3, <2>4
<1>5. CASE ~(report # NoReport /\ AdmissibleGeneration(report, stateGeneration))
  <2>1. NewClaim(report, stateGeneration) = claim BY <1>5 DEF NewClaim
  <2>2. claim # NoReport => Classify(claim) = "complete" BY <1>3, <1>5 DEF BusyStatus
  <2> QED BY <1>2, <2>1, <2>2
<1> QED BY <1>4, <1>5

(* Silence is never completion, for any work, reports, instances and       *)
(* thresholds; a report admitted without a generation to compare is the    *)
(* one exception (decide, _busy_status, _classify_busy_snapshot,           *)
(* _admissible_generation).                                                *)
THEOREM WorkProtectedAlways == AutoSpec => WorkProtected
<1>1. AutoInv /\ [AutoNext]_autoVars =>
        [Demotes => /\ \/ misled'
                       \/ /\ claim # NoReport => claim.work \notin busyWork
                          /\ claim' # NoReport => claim'.work \notin busyWork
                    /\ Countdown = 0
                    /\ policyTime - lastDemotion >= Cooldown
                    /\ operation = "none"]_autoVars
  <2> SUFFICES ASSUME AutoInv, [AutoNext]_autoVars, Demotes
               PROVE  /\ \/ misled'
                         \/ /\ claim # NoReport => claim.work \notin busyWork
                            /\ claim' # NoReport => claim'.work \notin busyWork
                      /\ Countdown = 0
                      /\ policyTime - lastDemotion >= Cooldown
                      /\ operation = "none"
    OBVIOUS
  <2>1. PICK report \in busyReports \cup {NoReport}, stateGeneration \in Said,
             hookInstalled \in BOOLEAN, signal \in {"none", "wakeup", "garbage"} :
               Evaluate(report, stateGeneration, hookInstalled, signal)
    BY DEF AutoNext, Demotes, Begins, Renews, Ends, Send, ManualSuspend, Suspended, Resumed,
           PolicyTick, autoVars, Said
  <2>2. Decide(report, stateGeneration, hookInstalled, signal) \in {"request_idle", "request_suspend"}
    BY <2>1 DEF Evaluate, Demotes
  <2>3. /\ operation = "none" /\ ~(policyTime - anchor < Threshold)
        /\ MayDemote(report, stateGeneration, hookInstalled, signal)
    BY <2>2 DEF Decide
  <2>4. /\ claim' = NewClaim(report, stateGeneration)
        /\ misled' = (misled \/ Misleads(report, stateGeneration))
    BY <2>1 DEF Evaluate, Misleads
  <2>5. ~misled' => /\ claim # NoReport => claim.work \notin busyWork
                    /\ claim' # NoReport => claim'.work \notin busyWork
    BY <2>3, <2>4, CompleteIsOver DEF MayDemote
  <2>6. Countdown = 0
    BY <2>3, AutoAssumption DEF Countdown, Threshold, AutoInv, AutoTypes
  <2>7. policyTime - lastDemotion >= Cooldown
    BY <2>3, AutoAssumption DEF MayDemote, CooldownBlocks, AutoInv, AutoTypes
  <2> QED BY <2>3, <2>5, <2>6, <2>7
<1> QED BY AutoInitially, AutoStep, <1>1, PTL DEF AutoSpec, WorkProtected

-----------------------------------------------------------------------------
(* Injected keys: what is given up is listed for teardown.                 *)

InjectionRecord ==
    [status : {"none", "pending", "active", "revoked"}, generation : Nat,
     key : CustomerKey \cup {"none"}]

(* An injection that was given up is listed for teardown while its mount   *)
(* stands, and without a record nothing is mounted.                        *)
InjectionTypes ==
    /\ injection \in InjectionRecord
    /\ injection.status # "none" => injection.key \in CustomerKey
GivenUp ==
    /\ injection.status = "none" => mounted = {}
    /\ injection.status = "revoked" /\ <<injection.key, instance>> \in mounted
          => <<injection.key, instance>> \in teardown
KeysInv == InjectionCurrent /\ InjectionTypes /\ GivenUp

LEMMA KeysInitially == KeysInit => KeysInv
BY KeyAssumption
   DEF KeysInit, KeysInv, InjectionCurrent, KeysTypeOK, LiveIsCurrent, RevokedIsTornDown,
       NoTunnelToDenied, InjectionTypes, InjectionRecord, GivenUp, Live, NoInjection

LEMMA KeysStep == KeysInv /\ [KeysNext]_keyVars => KeysInv'
<1> USE KeyAssumption
<1> SUFFICES ASSUME KeysInv, [KeysNext]_keyVars PROVE KeysInv' OBVIOUS
<1> USE DEF KeysInv, InjectionCurrent
<1>0. /\ NoInjection.status = "none" /\ NoInjection.generation = 0 /\ NoInjection.key = "none"
      /\ NoInjection \in InjectionRecord
  BY DEF NoInjection, InjectionRecord
<1>1. CASE SetGeneration
  <2>1. instance \in Nat /\ instance' = instance + 1 /\ mounted' = {}
        /\ UNCHANGED <<registered, revoked, teardown, tunnels>>
    BY <1>1 DEF SetGeneration, KeysTypeOK
  <2>2. injection' \in {injection, NoInjection} /\ ~Live'
    BY <1>0, <1>1, <2>1 DEF SetGeneration, SupersededBy, Live, LiveIsCurrent
  <2>3. KeysTypeOK' BY <1>1, <2>1 DEF SetGeneration, KeysTypeOK
  <2>4. InjectionTypes' BY <1>0, <2>2 DEF InjectionTypes, InjectionRecord
  <2> QED BY <2>1, <2>2, <2>3, <2>4 DEF LiveIsCurrent, RevokedIsTornDown, NoTunnelToDenied, GivenUp
<1>2. CASE Mount
  <2>1. injection.key \in registered \ revoked
    BY <1>2 DEF Mount, LiveIsCurrent, Live
  <2>2. KeysTypeOK' BY <1>2, <2>1 DEF Mount, KeysTypeOK
  <2>3. RevokedIsTornDown' BY <1>2, <2>1 DEF Mount, RevokedIsTornDown
  <2> QED BY <1>2, <2>2, <2>3
          DEF Mount, LiveIsCurrent, Live, NoTunnelToDenied, InjectionTypes, InjectionRecord, GivenUp
<1>3. CASE TakeDown
  BY <1>3 DEF TakeDown, KeysTypeOK, LiveIsCurrent, Live, RevokedIsTornDown, NoTunnelToDenied,
              InjectionTypes, InjectionRecord, GivenUp
<1>4. CASE Clear
  BY <1>0, <1>4 DEF Clear, KeysTypeOK, LiveIsCurrent, Live, RevokedIsTornDown, NoTunnelToDenied,
              InjectionTypes, InjectionRecord, GivenUp
<1>5. ASSUME NEW k \in CustomerKey, Put(k) PROVE KeysInv'
  BY <1>5 DEF Put, KeysTypeOK, LiveIsCurrent, Live, RevokedIsTornDown, NoTunnelToDenied,
              InjectionTypes, InjectionRecord, GivenUp
<1>6. ASSUME NEW k \in CustomerKey, RevokeKey(k) PROVE KeysInv'
  <2>1. /\ k \in registered /\ revoked' = revoked \cup {k}
        /\ UNCHANGED <<registered, instance, mounted, tunnels>>
    BY <1>6 DEF RevokeKey
  <2>2. KeysTypeOK' BY <2>1 DEF KeysTypeOK
  <2>3. CASE Live /\ k = injection.key
    <3>1. /\ injection' = [injection EXCEPT !.status = "revoked"]
          /\ teardown' = teardown \cup {<<k, instance>>}
      BY <1>6, <2>3 DEF RevokeKey, LiveIsCurrent
    <3>2. injection'.status = "revoked" /\ injection'.key = k /\ InjectionTypes'
      BY <2>3, <3>1 DEF InjectionTypes, InjectionRecord
    <3> QED BY <2>1, <2>2, <3>1, <3>2
            DEF LiveIsCurrent, Live, RevokedIsTornDown, NoTunnelToDenied, GivenUp
  <2>4. CASE ~(Live /\ k = injection.key)
    <3>1. UNCHANGED <<injection, teardown>> BY <1>6, <2>4 DEF RevokeKey
    <3>2. RevokedIsTornDown'
      BY <2>1, <2>4, <3>1 DEF RevokedIsTornDown, GivenUp, Live, InjectionTypes, InjectionRecord
    <3> QED BY <2>1, <2>2, <2>4, <3>1, <3>2
            DEF LiveIsCurrent, Live, NoTunnelToDenied, GivenUp, InjectionTypes, InjectionRecord
  <2> QED BY <2>3, <2>4
<1>7. ASSUME NEW k \in CustomerKey, NEW g \in 1..LastGeneration, NEW rotate \in BOOLEAN,
             PlanInjection(k, g, rotate)
      PROVE  KeysInv'
  <2>1. /\ injection' = [status |-> "pending", generation |-> g, key |-> k] /\ instance = g
        /\ k \in registered \ revoked
        /\ UNCHANGED <<registered, revoked, instance, mounted, teardown, tunnels>>
    BY <1>7 DEF PlanInjection
  <2> QED BY <2>1 DEF KeysTypeOK, LiveIsCurrent, Live, RevokedIsTornDown, NoTunnelToDenied,
                      InjectionTypes, InjectionRecord, GivenUp
<1>8. ASSUME NEW g \in 1..LastGeneration, ConfirmInjection(g) PROVE KeysInv'
  <2>1. /\ injection.key \in registered \ revoked
        /\ UNCHANGED <<registered, revoked, instance, mounted, teardown, tunnels>>
    BY <1>8 DEF ConfirmInjection, LiveIsCurrent, Live
  <2>2. injection' = [injection EXCEPT !.status = "active"]
    BY <1>8, <2>1 DEF ConfirmInjection
  <2>3. /\ injection'.status = "active" /\ injection'.key = injection.key
        /\ injection'.generation = injection.generation /\ InjectionTypes'
    BY <1>8, <2>2 DEF InjectionTypes, InjectionRecord, ConfirmInjection
  <2> QED BY <1>8, <2>1, <2>3
          DEF ConfirmInjection, KeysTypeOK, LiveIsCurrent, Live, RevokedIsTornDown,
              NoTunnelToDenied, GivenUp
<1>9. CASE EgressNext
  <2>1. UNCHANGED <<registered, revoked, instance, injection, mounted, teardown>>
    BY <1>9 DEF EgressNext, RevokeTunnels, OpenTunnel
  <2>2. NoTunnelToDenied'
    <3>1. CASE RevokeTunnels
      <4>1. \A t \in tunnels : [t EXCEPT !.status = "closed"].seen = t.seen
        BY DEF NoTunnelToDenied
      <4> QED BY <3>1, <4>1 DEF RevokeTunnels, NoTunnelToDenied
    <3>2. CASE ~RevokeTunnels
      BY <1>9, <3>2 DEF EgressNext, OpenTunnel, Allows, Union, NoTunnelToDenied
    <3> QED BY <3>1, <3>2
  <2> QED BY <2>1, <2>2
          DEF KeysTypeOK, LiveIsCurrent, Live, RevokedIsTornDown, InjectionTypes, InjectionRecord, GivenUp
<1>10. CASE UNCHANGED keyVars
  BY <1>10 DEF keyVars, KeysTypeOK, LiveIsCurrent, Live, RevokedIsTornDown, NoTunnelToDenied,
               InjectionTypes, InjectionRecord, GivenUp
<1> QED BY <1>1, <1>2, <1>3, <1>4, <1>5, <1>6, <1>7, <1>8, <1>9, <1>10 DEF KeysNext, KeysOnlyNext

(* Only a key that is not revoked is planned or active, and only in the    *)
(* running instance, for any keys, instances and tunnels (plan_injection,  *)
(* confirm_injection, revoke, set_sandbox_generation, decide_after_dns).   *)
THEOREM InjectionCurrentAlways == KeysSpec => []InjectionCurrent
<1>1. KeysInv => InjectionCurrent BY DEF KeysInv
<1> QED BY KeysInitially, KeysStep, <1>1, PTL DEF KeysSpec

-----------------------------------------------------------------------------
(* Alerts, retention and set-up: what is remembered was sent.              *)

(* What the deduplication remembers of a rule was sent. *)
Remembered ==
    \A r \in Rule : dedup[r].emittedAt # NotYet =>
        /\ <<r, dedup[r].severity, dedup[r].emittedAt>> \in sent
        /\ dedup[r].emittedAt <= time
Covered(f, alerts) ==
    \E s \in alerts :
        s[1] = f[1] /\ Rank[s[2]] >= Rank[f[2]] /\ s[3] <= f[3] /\ f[3] - s[3] < DedupWindow
OpsInv ==
    /\ OpsTypeOK
    /\ dedup \in [Rule -> [emittedAt : Nat \cup {NotYet}, severity : DOMAIN Rank]]
    /\ Remembered
    /\ \A f \in firing : Covered(f, sent)
    /\ exit.at \in Nat \cup {NotYet} /\ exit.deletedAt \in Nat \cup {NotYet}
    /\ exit = [at |-> exit.at, requested |-> exit.requested, deletedAt |-> exit.deletedAt]
    /\ exit.deletedAt # NotYet => exit.at # NotYet /\ exit.deletedAt >= exit.at + Notice
    /\ dataDir = [exists |-> dataDir.exists, hasData |-> dataDir.hasData,
                  lost |-> dataDir.lost, asked |-> dataDir.asked]
    /\ dataDir.hasData => dataDir.exists
    /\ dataDir.lost => dataDir.asked

LEMMA OpsInitially == OpsInit => OpsInv
<1> USE OpsAssumption
<1> SUFFICES ASSUME OpsInit PROVE OpsInv OBVIOUS
<1>1. Unseen \in [emittedAt : Nat \cup {NotYet}, severity : DOMAIN Rank]
  BY DEF Unseen, Rank
<1>2. \A r \in Rule : dedup[r] = Unseen BY DEF OpsInit
<1>3. OpsTypeOK BY <1>1, <1>2 DEF OpsInit, OpsTypeOK
<1>4. Remembered BY <1>2 DEF Remembered, Unseen
<1> QED BY <1>1, <1>3, <1>4 DEF OpsInit, OpsInv, NotYet

(* An evaluation hands out what it does not find handed out recently and   *)
(* at least as severe.                                                     *)
LEMMA EvaluationStep == OpsInv /\ Evaluation => OpsInv'
<1> USE OpsAssumption
<1> SUFFICES ASSUME OpsInv, Evaluation PROVE OpsInv' OBVIOUS
<1> DEFINE now == {r \in Rule : Fires(r)}
           out == {r \in now : ShouldEmit(r)}
<1>1. /\ firing' = {<<r, Severity(r), time>> : r \in now}
      /\ sent' = sent \cup {<<r, Severity(r), time>> : r \in out}
      /\ dedup' = [r \in Rule |->
            IF r \in out THEN [emittedAt |-> time, severity |-> Severity(r)] ELSE dedup[r]]
      /\ UNCHANGED <<time, metrics, exit, dataDir>>
  BY DEF Evaluation
<1> out \subseteq Rule OBVIOUS
<1>2. time \in Nat BY DEF OpsInv, OpsTypeOK
<1>3. \A r \in Rule : Severity(r) \in DOMAIN Rank BY DEF Severity, Rank
<1>4. \A v \in DOMAIN Rank : Rank[v] \in Nat BY DEF Rank
<1> HIDE DEF out
<1>5. dedup' \in [Rule -> [emittedAt : Nat \cup {NotYet}, severity : DOMAIN Rank]]
  BY <1>1, <1>2, <1>3 DEF OpsInv
<1>6. OpsTypeOK' BY <1>1, <1>5 DEF OpsInv, OpsTypeOK
<1>7. Remembered'
  <2> SUFFICES ASSUME NEW r \in Rule, dedup'[r].emittedAt # NotYet
               PROVE  /\ <<r, dedup'[r].severity, dedup'[r].emittedAt>> \in sent'
                      /\ dedup'[r].emittedAt <= time'
    BY DEF Remembered
  <2>1. CASE r \in out BY <1>1, <1>2, <2>1
  <2>2. CASE r \notin out BY <1>1, <2>2 DEF OpsInv, Remembered
  <2> QED BY <2>1, <2>2
<1>8. \A f \in firing' : Covered(f, sent')
  <2> SUFFICES ASSUME NEW r \in now PROVE Covered(<<r, Severity(r), time>>, sent')
    BY <1>1
  <2>1. CASE r \in out
    <3>1. <<r, Severity(r), time>> \in sent' BY <1>1, <2>1
    <3> QED BY <1>2, <1>3, <1>4, <3>1 DEF Covered
  <2>2. CASE r \notin out
    <3> DEFINE s == <<r, dedup[r].severity, dedup[r].emittedAt>>
    <3>1. ~ShouldEmit(r) BY <2>2 DEF out
    <3>2. /\ dedup[r].emittedAt # NotYet /\ dedup[r].emittedAt \in Nat
          /\ dedup[r].severity \in DOMAIN Rank
          /\ time - dedup[r].emittedAt < DedupWindow
          /\ Rank[dedup[r].severity] >= Rank[Severity(r)]
      BY <1>2, <1>3, <1>4, <3>1 DEF ShouldEmit, Elapsed, OpsInv
    <3>3. s \in sent' /\ dedup[r].emittedAt <= time BY <1>1, <3>2 DEF OpsInv, Remembered
    <3> QED BY <3>2, <3>3 DEF Covered
  <2> QED BY <2>1, <2>2
<1> QED BY <1>1, <1>5, <1>6, <1>7, <1>8 DEF OpsInv

LEMMA OpsStep == OpsInv /\ [OpsNext]_opsVars => OpsInv'
<1> USE OpsAssumption
<1> SUFFICES ASSUME OpsInv, [OpsNext]_opsVars PROVE OpsInv' OBVIOUS
<1>0. time \in Nat BY DEF OpsInv, OpsTypeOK
<1>1. CASE OpsTime
  <2>1. time' \in 0..LastOpsTime /\ time <= time' BY <1>1 DEF OpsTime, OpsInv, OpsTypeOK
  <2>2. Remembered' BY <1>0, <1>1, <2>1 DEF OpsTime, OpsInv, Remembered
  <2> QED BY <1>1, <2>1, <2>2 DEF OpsTime, OpsInv, OpsTypeOK
<1>2. ASSUME NEW subject \in Subject, Observe(subject) PROVE OpsInv'
  <2>1. UNCHANGED <<time, dedup, firing, sent, exit, dataDir>> BY <1>2 DEF Observe
  <2> QED BY <2>1 DEF OpsInv, OpsTypeOK, Remembered
<1>3. CASE Evaluation BY <1>3, EvaluationStep
<1>4. CASE Leave \/ RequestDeletion \/ Expire
  <2>1. UNCHANGED <<time, dedup, firing, sent, dataDir>>
    BY <1>4 DEF Leave, RequestDeletion, Expire
  <2>2. /\ exit'.at \in Nat \cup {NotYet} /\ exit'.deletedAt \in Nat \cup {NotYet}
        /\ exit' = [at |-> exit'.at, requested |-> exit'.requested, deletedAt |-> exit'.deletedAt]
        /\ exit'.deletedAt # NotYet => exit'.at # NotYet /\ exit'.deletedAt >= exit'.at + Notice
    <3>1. CASE Leave BY <1>0, <3>1 DEF Leave, Left, OpsInv
    <3>2. CASE RequestDeletion BY <3>2 DEF RequestDeletion, OpsInv
    <3>3. CASE Expire
      <4>1. exit' = [exit EXCEPT !.deletedAt = time] /\ exit.at \in Nat /\ time >= DeleteDueAt
        BY <3>3 DEF Expire, Left, PlanExpiry, OpsInv
      <4>2. DeleteDueAt >= exit.at + Notice BY <4>1 DEF DeleteDueAt, LargerOf
      <4>3. DeleteDueAt \in Int BY <4>1 DEF DeleteDueAt, LargerOf
      <4> QED BY <1>0, <4>1, <4>2, <4>3 DEF OpsInv, NotYet
    <3> QED BY <1>4, <3>1, <3>2, <3>3
  <2> QED BY <2>1, <2>2 DEF OpsInv, OpsTypeOK, Remembered
<1>5. CASE WriteData \/ \E force, destroy \in BOOLEAN : Setup(force, destroy)
  <2>1. UNCHANGED <<time, dedup, firing, sent, exit>> BY <1>5 DEF WriteData, Setup
  <2>2. /\ dataDir' = [exists |-> dataDir'.exists, hasData |-> dataDir'.hasData,
                       lost |-> dataDir'.lost, asked |-> dataDir'.asked]
        /\ dataDir'.hasData => dataDir'.exists
        /\ dataDir'.lost => dataDir'.asked
    <3>1. CASE WriteData BY <3>1 DEF WriteData, OpsInv
    <3>2. ASSUME NEW force \in BOOLEAN, NEW destroy \in BOOLEAN, Setup(force, destroy)
          PROVE  /\ dataDir' = [exists |-> dataDir'.exists, hasData |-> dataDir'.hasData,
                                lost |-> dataDir'.lost, asked |-> dataDir'.asked]
                 /\ dataDir'.hasData => dataDir'.exists
                 /\ dataDir'.lost => dataDir'.asked
      <4> DEFINE mkfs == destroy \/ (~ExistingData /\ force)
                 hasData == dataDir.hasData /\ ~mkfs
                 lost == dataDir.lost \/ (mkfs /\ dataDir.hasData)
                 asked == dataDir.asked \/ destroy
      <4>1. dataDir' = [exists |-> TRUE, hasData |-> hasData, lost |-> lost, asked |-> asked]
        BY <3>2 DEF Setup
      <4>2. lost => asked BY DEF ExistingData, OpsInv
      <4> HIDE DEF hasData, lost, asked
      <4>3. /\ dataDir'.exists = TRUE /\ dataDir'.hasData = hasData
            /\ dataDir'.lost = lost /\ dataDir'.asked = asked
        BY <4>1
      <4>4. dataDir' = [exists |-> dataDir'.exists, hasData |-> dataDir'.hasData,
                        lost |-> dataDir'.lost, asked |-> dataDir'.asked]
        BY <4>1, <4>3
      <4> QED BY <4>2, <4>3, <4>4, Zenon
    <3> QED BY <1>5, <3>1, <3>2
  <2> QED BY <2>1, <2>2 DEF OpsInv, OpsTypeOK, Remembered
<1>6. CASE UNCHANGED opsVars BY <1>6 DEF opsVars, OpsInv, OpsTypeOK, Remembered
<1> QED BY <1>1, <1>2, <1>3, <1>4, <1>5, <1>6 DEF OpsNext, KeepingNext, AlertNext

(* The operator always holds a recent alert of what fires, at least as     *)
(* severe, a volume outlives its notice, and setting up again loses no     *)
(* data, for any window, notice and order of evaluations (_should_emit,    *)
(* _delete_due_at, init_plan).                                             *)
THEOREM OperatorInformedAlways == OpsSpec => []OperatorInformed
<1>1. OpsInv => OperatorInformed BY DEF OpsInv, OperatorInformed, Covered
<1> QED BY OpsInitially, OpsStep, <1>1, PTL DEF OpsSpec

-----------------------------------------------------------------------------
(* The control plane: what is open is what the sandbox waits for.          *)

Trigger == {"create", "set_idle", "set_active", "suspend", "resume", "destroy"}
OperationRecord ==
    [box : Box, trigger : Trigger, target : {NoTarget, "Active", "Idle", "Suspend"},
     state : {"pending", "running", "succeeded", "failed"}]
BoxOf(r) ==
    [observed |-> r.observed, desired |-> r.desired, generation |-> r.generation,
     pending |-> r.pending, destroyOperation |-> r.destroyOperation,
     reconciled |-> r.reconciled, credential |-> r.credential]
ControlTypes ==
    /\ operations \in Seq(OperationRecord)
    /\ boxes = [b \in Box |-> BoxOf(boxes[b])]
    /\ \A b \in Box : /\ boxes[b].observed \in State
                      /\ boxes[b].pending \in 0..Len(operations)
                      /\ boxes[b].destroyOperation \in 0..Len(operations)
    /\ remembered \in [RequestKey -> 0..Len(operations)]

Id == 1..Len(operations)
PendingIsOpen ==
    \A b \in Box : boxes[b].pending # 0 =>
        Open(boxes[b].pending) /\ operations[boxes[b].pending].box = b
OpenIsPending ==
    \A id \in Id : Open(id) =>
        LET b == operations[id].box
        IN boxes[b].pending = id \/ (boxes[b].destroyOperation # 0 /\ id < boxes[b].destroyOperation)

(* A resume or a destroy is under way until its own evidence comes, unless *)
(* the box is lost or in error meanwhile; it is overtaken by nothing.      *)
During(trigger) ==
    {"Lost", "Error"} \cup (IF trigger = "resume" THEN {"Resuming"} ELSE {"Destroying"})
NotOvertaken ==
    \A id \in Id : Open(id) /\ operations[id].trigger \in {"resume", "destroy"} =>
        LET b == operations[id].box
        IN boxes[b].pending = id /\ boxes[b].observed \in During(operations[id].trigger)
ReconciledIsFree ==
    \A b \in Box : boxes[b].observed \in {"Lost", "Error"} /\ boxes[b].reconciled => boxes[b].pending = 0
AbsentIsNew ==
    \A b \in Box : boxes[b].observed = "Absent" =>
        boxes[b].pending = 0 /\ \A id \in Id : operations[id].box # b
OneCreate ==
    \A i, j \in Id :
        /\ operations[i].box = operations[j].box
        /\ operations[i].trigger = "create" /\ operations[j].trigger = "create"
        => i = j
NoCredential == \A b \in Box : boxes[b].observed = "Suspend" => ~boxes[b].credential

(* What runs, or will run again when its resume is confirmed.              *)
Holds(b) ==
    \/ boxes[b].observed \in Running
    \/ /\ boxes[b].observed \in {"Lost", "Error"} /\ boxes[b].pending # 0
       /\ operations[boxes[b].pending].trigger = "resume"
Holders == {b \in Box : Holds(b)}
Keepers == {b \in Box : boxes[b].observed \in State \ {"Absent", "Destroyed"}}
WithinCapacity == Cardinality(Holders) <= Compute /\ Cardinality(Keepers) <= Volume

Bookkeeping ==
    /\ PendingIsOpen /\ OpenIsPending /\ NotOvertaken /\ ReconciledIsFree
    /\ AbsentIsNew /\ OneCreate /\ NoCredential
ControlInv == ControlTypes /\ Bookkeeping /\ WithinCapacity

LEMMA Sizes ==
    ASSUME NEW S \in SUBSET Box
    PROVE  IsFiniteSet(S) /\ Cardinality(S) \in Nat
BY ControlAssumption, FS_Subset, FS_CardinalityType

LEMMA FewerFit ==
    ASSUME NEW S \in SUBSET Box, NEW T \in SUBSET S, NEW n \in Nat, Cardinality(S) <= n
    PROVE  Cardinality(T) <= n
BY Sizes, FS_Subset

LEMMA OneMoreKept ==
    ASSUME NEW S \in SUBSET Box, NEW T \in SUBSET Box, NEW b \in Box, T \subseteq S \cup {b},
           NEW n \in Nat, Cardinality(S) < n
    PROVE  Cardinality(T) <= n
<1>1. Cardinality(S \cup {b}) <= Cardinality(S) + 1
  BY Sizes, FS_AddElement
<1>2. Cardinality(T) <= Cardinality(S \cup {b})
  BY Sizes, FS_Subset
<1> QED BY <1>1, <1>2, Sizes

LEMMA AtMostOne ==
    ASSUME NEW S, \A i, j \in S : i = j
    PROVE  Cardinality(S) <= 1
<1>1. CASE S = {} BY <1>1, FS_EmptySet
<1>2. CASE S # {}
  <2>1. PICK x \in S : TRUE BY <1>2
  <2>2. S = {x} BY <2>1
  <2> QED BY <2>2, FS_Singleton
<1> QED BY <1>1, <1>2

(* A record with the fields of a box is one of a box. *)
Fields == {"observed", "desired", "generation", "pending", "destroyOperation", "reconciled", "credential"}
LEMMA IsBox ==
    ASSUME NEW r PROVE /\ r = BoxOf(r) => DOMAIN r = Fields
                       /\ DOMAIN r = Fields /\ r = [x \in Fields |-> r[x]] => r = BoxOf(r)
BY DEF BoxOf, Fields

(* One box changes. *)
OnlyBox(b) == boxes' = [c \in Box |-> BoxOf(boxes'[c])] /\ \A c \in Box \ {b} : boxes'[c] = boxes[c]
LEMMA SetBox ==
    ASSUME ControlTypes, NEW b \in Box, NEW r, r = BoxOf(r), boxes' = [boxes EXCEPT ![b] = r]
    PROVE  OnlyBox(b) /\ boxes'[b] = r
<1>1. DOMAIN boxes = Box /\ \A c \in Box : boxes[c] = BoxOf(boxes[c]) BY DEF ControlTypes
<1>2. boxes' = [c \in Box |-> IF c = b THEN r ELSE boxes[c]] BY <1>1
<1> HIDE DEF BoxOf
<1>3. \A c \in Box : boxes'[c] = BoxOf(boxes'[c]) BY <1>1, <1>2
<1> QED BY <1>2, <1>3 DEF OnlyBox

(* The state of one operation changes. *)
OnlyState(id, state) ==
    /\ operations' \in Seq(OperationRecord) /\ Len(operations') = Len(operations)
    /\ \A i \in Id : /\ operations'[i].box = operations[i].box
                     /\ operations'[i].trigger = operations[i].trigger
                     /\ operations'[i].state = IF i = id THEN state ELSE operations[i].state
LEMMA StateSet ==
    ASSUME ControlTypes, NEW id \in Id, NEW state \in {"pending", "running", "succeeded", "failed"},
           operations' = [operations EXCEPT ![id].state = state]
    PROVE  OnlyState(id, state)
<1> DEFINE new == [operations[id] EXCEPT !.state = state]
<1>1. operations \in Seq(OperationRecord) /\ id \in 1..Len(operations) BY DEF ControlTypes, Id
<1>2. operations[id] \in OperationRecord BY <1>1
<1>3. /\ new \in OperationRecord /\ new.box = operations[id].box
      /\ new.trigger = operations[id].trigger /\ new.state = state
  BY <1>2 DEF OperationRecord
<1>4. operations' = [operations EXCEPT ![id] = new] OBVIOUS
<1> HIDE DEF new
<1>5. /\ operations' \in Seq(OperationRecord) /\ Len(operations') = Len(operations)
      /\ \A i \in Id : operations'[i] = IF i = id THEN new ELSE operations[i]
  BY <1>1, <1>3, <1>4 DEF Id
<1> QED BY <1>3, <1>5 DEF OnlyState

(* An operation is accepted. *)
Accepted(b, trigger) ==
    /\ operations' \in Seq(OperationRecord) /\ Len(operations') = Len(operations) + 1
    /\ \A i \in Id : operations'[i] = operations[i]
    /\ operations'[Len(operations) + 1].box = b
    /\ operations'[Len(operations) + 1].trigger = trigger
    /\ operations'[Len(operations) + 1].state = "pending"
    /\ OnlyBox(b) /\ boxes'[b].pending = Len(operations) + 1
    /\ remembered' \in [RequestKey -> 0..Len(operations')]
LEMMA AcceptStep ==
    ASSUME ControlTypes, NEW k \in RequestKey, NEW b \in Box, NEW trigger \in Trigger,
           NEW target \in {NoTarget, "Active", "Idle", "Suspend"}, NEW next, next = BoxOf(next),
           Accept(k, b, trigger, target, next)
    PROVE  Accepted(b, trigger) /\ boxes'[b] = [next EXCEPT !.pending = Len(operations) + 1]
<1> DEFINE new == Operation(b, trigger, target)
           r == [next EXCEPT !.pending = Len(operations) + 1]
<1>1. /\ operations' = Append(operations, new) /\ boxes' = [boxes EXCEPT ![b] = r]
      /\ remembered' = [remembered EXCEPT ![k] = Len(operations) + 1]
  BY DEF Accept
<1>2. new \in OperationRecord /\ new.box = b /\ new.trigger = trigger /\ new.state = "pending"
  BY DEF Operation, OperationRecord
<1>3. r = BoxOf(r) /\ r.pending = Len(operations) + 1 BY DEF BoxOf
<1>4. OnlyBox(b) /\ boxes'[b] = r BY <1>1, <1>3, SetBox
<1> HIDE DEF new, r
<1>5. /\ operations' \in Seq(OperationRecord) /\ Len(operations') = Len(operations) + 1
      /\ \A i \in Id : operations'[i] = operations[i]
      /\ operations'[Len(operations) + 1] = new
  BY <1>1, <1>2 DEF ControlTypes, Id
<1>6. remembered' \in [RequestKey -> 0..Len(operations')]
  BY <1>1, <1>5 DEF ControlTypes
<1> QED BY <1>2, <1>3, <1>4, <1>5, <1>6 DEF Accepted, r

(* An operation is accepted of a box no resume or destroy is under way of: *)
(* what is left open of it gives way to a destroy.                         *)
LEMMA AcceptedKeeps ==
    ASSUME ControlTypes, Bookkeeping, NEW b \in Box, NEW trigger \in Trigger, Accepted(b, trigger),
           boxes'[b].observed \in State \ {"Absent", "Lost", "Error"},
           boxes'[b].destroyOperation \in 0..Len(operations'),
           trigger \in {"resume", "destroy"} => boxes'[b].observed \in During(trigger),
           boxes'[b].observed = "Suspend" => ~boxes'[b].credential,
           \A id \in Id : Open(id) /\ operations[id].box = b =>
               /\ operations[id].trigger \notin {"resume", "destroy"}
               /\ boxes'[b].destroyOperation # 0 /\ id < boxes'[b].destroyOperation,
           trigger = "create" => \A id \in Id : operations[id].box # b
    PROVE  ControlTypes' /\ Bookkeeping'
<1> PICK n : n = Len(operations) OBVIOUS
<1> DEFINE open(i) == operations'[i].state \in {"pending", "running"}
<1>0. n \in Nat /\ Len(operations') = n + 1 /\ operations \in Seq(OperationRecord)
      /\ Id = 1..n /\ Id' = 1..(n + 1)
  BY DEF ControlTypes, Accepted, Id
<1>1. /\ \A i \in Id : operations'[i] = operations[i] /\ (open(i) <=> Open(i))
      /\ operations'[n + 1].box = b /\ operations'[n + 1].trigger = trigger /\ open(n + 1)
      /\ \A c \in Box \ {b} : boxes'[c] = boxes[c]
      /\ boxes'[b].pending = n + 1
  BY DEF Accepted, OnlyBox, Open
<1>2. \A i \in Id' : i \in Id \/ i = n + 1 BY <1>0
<1>3. \A i \in Id : operations[i] \in OperationRecord /\ operations[i].box \in Box
  <2>1. \A i \in Id : operations[i] \in OperationRecord BY <1>0
  <2> QED BY <2>1 DEF OperationRecord
<1>4. ControlTypes'
  <2>1. /\ operations' \in Seq(OperationRecord) /\ boxes' = [c \in Box |-> BoxOf(boxes'[c])]
        /\ remembered' \in [RequestKey -> 0..Len(operations')]
    BY DEF Accepted, OnlyBox
  <2>2. \A c \in Box : /\ boxes'[c].observed \in State
                       /\ boxes'[c].pending \in 0..Len(operations')
                       /\ boxes'[c].destroyOperation \in 0..Len(operations')
    BY <1>0, <1>1 DEF ControlTypes
  <2> QED BY <2>1, <2>2 DEF ControlTypes
<1>5. PendingIsOpen'
  <2> SUFFICES ASSUME NEW c \in Box, boxes'[c].pending # 0
               PROVE  open(boxes'[c].pending) /\ operations'[boxes'[c].pending].box = c
    BY DEF PendingIsOpen, Open
  <2>1. CASE c = b BY <1>1, <2>1
  <2>2. CASE c # b
    <3>1. boxes'[c].pending = boxes[c].pending BY <1>1, <2>2
    <3>2. boxes[c].pending \in Id BY <1>0, <3>1 DEF ControlTypes
    <3>3. Open(boxes[c].pending) /\ operations[boxes[c].pending].box = c
      BY <3>1 DEF Bookkeeping, PendingIsOpen
    <3> QED BY <1>1, <3>1, <3>2, <3>3
  <2> QED BY <2>1, <2>2
<1> USE DEF Open
<1>6. OpenIsPending'
  BY <1>1, <1>2, <1>3 DEF OpenIsPending, Bookkeeping
<1>7. NotOvertaken'
  BY <1>1, <1>2, <1>3 DEF NotOvertaken, Bookkeeping
<1>8. ReconciledIsFree' BY <1>1 DEF ReconciledIsFree, Bookkeeping
<1>9. AbsentIsNew' BY <1>1, <1>2 DEF AbsentIsNew, Bookkeeping
<1>10. OneCreate'
  <2>1. ASSUME NEW i \in Id, NEW j \in Id, operations'[i].box = operations'[j].box,
               operations'[i].trigger = "create", operations'[j].trigger = "create"
        PROVE  i = j
    <3>1. operations[i].box = operations[j].box /\ operations[i].trigger = "create"
          /\ operations[j].trigger = "create"
      BY <1>1, <2>1
    <3> QED BY <3>1 DEF OneCreate, Bookkeeping
  <2>2. ASSUME NEW i \in Id
        PROVE  ~(/\ operations'[i].box = operations'[n + 1].box
                 /\ operations'[i].trigger = "create" /\ operations'[n + 1].trigger = "create")
    BY <1>1, <2>2
  <2> QED BY <1>2, <2>1, <2>2 DEF OneCreate
<1>11. NoCredential' BY <1>1 DEF NoCredential, Bookkeeping
<1> QED BY <1>4, <1>5, <1>6, <1>7, <1>8, <1>9, <1>10, <1>11 DEF Bookkeeping

(* An operation that is open ends, and with it what was pending of it.     *)
LEMMA ResolvedKeeps ==
    ASSUME ControlTypes, Bookkeeping, NEW id \in Id, Open(id),
           NEW state \in {"succeeded", "failed"}, NEW b \in Box, b = operations[id].box,
           OnlyState(id, state), OnlyBox(b), remembered' = remembered,
           boxes'[b].pending = ClearsPointer(boxes[b].pending, id),
           boxes'[b].destroyOperation = boxes[b].destroyOperation,
           boxes'[b].observed \in State \ {"Absent"}, ~boxes'[b].reconciled,
           boxes'[b].observed = "Suspend" => ~boxes'[b].credential,
           \A i \in Id \ {id} :
              Open(i) /\ operations[i].box = b /\ operations[i].trigger \in {"resume", "destroy"} =>
                 boxes'[b].observed \in During(operations[i].trigger)
    PROVE  ControlTypes' /\ Bookkeeping'
<1>0. /\ Id' = Id /\ Id \subseteq Nat \ {0} /\ Len(operations') = Len(operations)
      /\ Id = 1..Len(operations)
  BY DEF OnlyState, Id, ControlTypes
<1> DEFINE open(i) == operations'[i].state \in {"pending", "running"}
<1>1. /\ \A i \in Id : /\ operations'[i].box = operations[i].box
                       /\ operations'[i].trigger = operations[i].trigger
                       /\ open(i) <=> i # id /\ Open(i)
      /\ \A c \in Box \ {b} : boxes'[c] = boxes[c]
  BY DEF OnlyState, OnlyBox, Open
<1>2. boxes'[b].pending # 0 => boxes'[b].pending = boxes[b].pending /\ boxes[b].pending # id
  BY DEF ClearsPointer
<1>3. \A i \in Id : operations[i].box \in Box
  <2>1. \A i \in Id : operations[i] \in OperationRecord BY DEF ControlTypes, Id
  <2> QED BY <2>1 DEF OperationRecord
<1>4. ControlTypes'
  <2>1. /\ operations' \in Seq(OperationRecord) /\ boxes' = [c \in Box |-> BoxOf(boxes'[c])]
        /\ remembered' \in [RequestKey -> 0..Len(operations')]
    BY <1>0 DEF OnlyState, OnlyBox, ControlTypes
  <2>2. \A c \in Box : /\ boxes'[c].observed \in State
                       /\ boxes'[c].pending \in 0..Len(operations')
                       /\ boxes'[c].destroyOperation \in 0..Len(operations')
    BY <1>0, <1>1 DEF ControlTypes, ClearsPointer
  <2> QED BY <2>1, <2>2 DEF ControlTypes
<1>5. PendingIsOpen'
  <2> SUFFICES ASSUME NEW c \in Box, boxes'[c].pending # 0
               PROVE  open(boxes'[c].pending) /\ operations'[boxes'[c].pending].box = c
    BY DEF PendingIsOpen, Open
  <2>0. boxes'[c].pending = boxes[c].pending BY <1>1, <1>2
  <2>1. /\ boxes'[c].pending = boxes[c].pending /\ boxes[c].pending \in Id
        /\ Open(boxes[c].pending) /\ operations[boxes[c].pending].box = c
    BY <1>0, <2>0 DEF ControlTypes, Bookkeeping, PendingIsOpen
  <2>2. boxes[c].pending # id BY <1>2, <2>1
  <2> QED BY <1>1, <2>1, <2>2
<1>6. OpenIsPending'
  <2> SUFFICES ASSUME NEW i \in Id, open(i)
               PROVE  LET c == operations[i].box
                      IN boxes'[c].pending = i
                         \/ (boxes'[c].destroyOperation # 0 /\ i < boxes'[c].destroyOperation)
    BY <1>0, <1>1 DEF OpenIsPending, Open
  <2>1. i # id /\ Open(i) /\ operations[i].box \in Box BY <1>1, <1>3
  <2> QED BY <1>1, <2>1 DEF Bookkeeping, OpenIsPending, ClearsPointer
<1>7. NotOvertaken'
  <2> SUFFICES ASSUME NEW i \in Id, open(i), operations[i].trigger \in {"resume", "destroy"}
               PROVE  LET c == operations[i].box
                      IN boxes'[c].pending = i /\ boxes'[c].observed \in During(operations[i].trigger)
    BY <1>0, <1>1 DEF NotOvertaken, Open
  <2>1. i # id /\ Open(i) /\ operations[i].box \in Box BY <1>1, <1>3
  <2> QED BY <1>1, <2>1 DEF Bookkeeping, NotOvertaken, ClearsPointer
<1>8. ReconciledIsFree' BY <1>1 DEF ReconciledIsFree, Bookkeeping
<1>9. AbsentIsNew' BY <1>0, <1>1 DEF AbsentIsNew, Bookkeeping
<1>10. OneCreate' BY <1>0, <1>1 DEF OneCreate, Bookkeeping
<1>11. NoCredential' BY <1>1 DEF NoCredential, Bookkeeping
<1> QED BY <1>4, <1>5, <1>6, <1>7, <1>8, <1>9, <1>10, <1>11 DEF Bookkeeping

(* Which transitions there are. *)
LEMMA Transitions ==
    /\ \A from, trigger : TargetOf(from, trigger) \subseteq
          {"Active", "Idle", "Suspending", "Suspend", "Resuming", "Destroyed", "Destroying"}
    /\ \A from \in State, to \in State : to \in TargetOf(from, "resume") =>
          \/ from \in {"Suspend", "Error", "Lost"} /\ to = "Resuming"
          \/ from = "Resuming" /\ to = "Active"
    /\ \A from \in State : \A to \in TargetOf(from, "destroy") :
          \/ from \in {"Creating", "Active", "Idle", "Suspend", "Error", "Lost"} /\ to = "Destroying"
          \/ from = "Destroying" /\ to = "Destroyed"
    /\ \A from \in State, trigger \in Trigger \ {"resume", "destroy"} : \A to \in TargetOf(from, trigger) :
          /\ from \in {"Creating", "Active", "Idle", "Suspending"}
          /\ to \in {"Active", "Idle", "Suspending", "Suspend"}
<1> DEFINE P(from, trigger, to) ==
      /\ trigger = "resume" => \/ from \in {"Suspend", "Error", "Lost"} /\ to = "Resuming"
                               \/ from = "Resuming" /\ to = "Active"
      /\ trigger = "destroy" =>
            \/ from \in {"Creating", "Active", "Idle", "Suspend", "Error", "Lost"} /\ to = "Destroying"
            \/ from = "Destroying" /\ to = "Destroyed"
      /\ trigger \notin {"resume", "destroy"} =>
            /\ from \in {"Creating", "Active", "Idle", "Suspending"}
            /\ to \in {"Active", "Idle", "Suspending", "Suspend"}
<1>1. \A t \in SuccessTarget : P(t[1], t[2], t[3])
  <2>1. \A t \in {<<s, "destroy", "Destroying">> :
                    s \in {"Creating", "Active", "Idle", "Suspend", "Error", "Lost"}} :
          P(t[1], t[2], t[3])
    OBVIOUS
  <2>2. \A t \in {<<"Creating", "create", "Active">>,
                  <<"Active", "set_idle", "Idle">>, <<"Idle", "set_active", "Active">>,
                  <<"Active", "suspend", "Suspending">>, <<"Idle", "suspend", "Suspending">>,
                  <<"Suspending", "suspend", "Suspend">>,
                  <<"Suspend", "resume", "Resuming">>, <<"Error", "resume", "Resuming">>,
                  <<"Lost", "resume", "Resuming">>, <<"Resuming", "resume", "Active">>,
                  <<"Destroying", "destroy", "Destroyed">>} :
          P(t[1], t[2], t[3])
    OBVIOUS
  <2> QED BY <2>1, <2>2 DEF SuccessTarget
<1>2. \A from, trigger : \A to \in TargetOf(from, trigger) : P(from, trigger, to)
  <2> SUFFICES ASSUME NEW from, NEW trigger, NEW to \in TargetOf(from, trigger)
               PROVE  P(from, trigger, to)
    OBVIOUS
  <2>1. PICK t \in SuccessTarget : t[1] = from /\ t[2] = trigger /\ to = t[3] BY DEF TargetOf
  <2> QED BY <1>1, <2>1
<1> QED BY <1>2

LEMMA ControlInitially == ControlInit => ControlInv
<1> SUFFICES ASSUME ControlInit PROVE ControlInv OBVIOUS
<1>1. \A b \in Box : boxes[b] = NoBox BY DEF ControlInit
<1>2. boxes = [b \in Box |-> BoxOf(boxes[b])] BY <1>1 DEF ControlInit, BoxOf, NoBox
<1>3. Len(operations) = 0 /\ operations \in Seq(OperationRecord) BY DEF ControlInit
<1>4. Id = {} BY <1>3 DEF Id
<1>5. /\ NoBox.observed = "Absent" /\ NoBox.pending = 0 /\ NoBox.destroyOperation = 0
      /\ NoBox.observed \in State
  BY DEF NoBox, State
<1>6. ControlTypes BY <1>1, <1>2, <1>3, <1>5 DEF ControlTypes, ControlInit
<1>7. Bookkeeping
  BY <1>1, <1>4, <1>5
     DEF Bookkeeping, PendingIsOpen, OpenIsPending, NotOvertaken, ReconciledIsFree, AbsentIsNew,
         OneCreate, NoCredential
<1>8. Holders = {} /\ Keepers = {}
  BY <1>1, <1>5 DEF Holders, Keepers, Holds, Running
<1>9. WithinCapacity BY <1>8, FS_EmptySet, ControlAssumption DEF WithinCapacity
<1> QED BY <1>6, <1>7, <1>9 DEF ControlInv

(* A box that starts to hold something was checked for; a step of one box  *)
(* changes nothing of the others.                                          *)
LEMMA FitsStays ==
    ASSUME ControlInv, NEW b \in Box,
           \A c \in Box \ {b} : boxes'[c] = boxes[c],
           \A c \in Box \ {b} : c \in Holders' => c \in Holders,
           b \in Holders' => b \in Holders \/ ComputeFits,
           b \in Keepers' => b \in Keepers \/ VolumeFits
    PROVE  WithinCapacity'
<1> USE ControlAssumption
<1>1. Holders \in SUBSET Box /\ Keepers \in SUBSET Box /\ Holders' \in SUBSET Box /\ Keepers' \in SUBSET Box
  BY DEF Holders, Keepers
<1>2. Cardinality(Holders) <= Compute /\ Cardinality(Keepers) <= Volume BY DEF ControlInv, WithinCapacity
<1>3. Cardinality(Holders') <= Compute
  <2>1. CASE b \in Holders' => b \in Holders
    <3>1. Holders' \subseteq Holders BY <1>1, <2>1
    <3> QED BY <1>1, <1>2, <3>1, FewerFit
  <2>2. CASE ComputeFits
    <3> DEFINE S == {c \in Box : boxes[c].observed \in ComputeHeld}
    <3>1. Cardinality(S) < Compute BY <2>2 DEF ComputeFits, Holding
    <3>2. Holders \subseteq S BY DEF Holders, Holds, Running, ComputeHeld, State
    <3>3. Holders' \subseteq S \cup {b} BY <1>1, <3>2
    <3> QED BY <1>1, <3>1, <3>3, OneMoreKept
  <2> QED BY <2>1, <2>2
<1>4. Cardinality(Keepers') <= Volume
  <2>0. \A c \in Box \ {b} : c \in Keepers' => c \in Keepers BY DEF Keepers
  <2>1. CASE b \in Keepers' => b \in Keepers
    <3>1. Keepers' \subseteq Keepers BY <1>1, <2>0, <2>1
    <3> QED BY <1>1, <1>2, <3>1, FewerFit
  <2>2. CASE VolumeFits
    <3>1. Cardinality(Keepers) < Volume BY <2>2 DEF VolumeFits, Holding, Keepers
    <3>2. Keepers' \subseteq Keepers \cup {b} BY <1>1, <2>0
    <3> QED BY <1>1, <3>1, <3>2, OneMoreKept
  <2> QED BY <2>1, <2>2
<1> QED BY <1>3, <1>4 DEF WithinCapacity

LEMMA OthersHold ==
    ASSUME ControlTypes, NEW b \in Box, \A c \in Box \ {b} : boxes'[c] = boxes[c],
           \A i \in Id : operations'[i].trigger = operations[i].trigger
    PROVE  \A c \in Box \ {b} : c \in Holders' => c \in Holders
<1> SUFFICES ASSUME NEW c \in Box \ {b}, c \in Holders' PROVE c \in Holders OBVIOUS
<1>1. boxes[c].pending # 0 => boxes[c].pending \in Id BY DEF ControlTypes, Id
<1> QED BY <1>1 DEF Holders, Holds

LEMMA AcceptedFits ==
    ASSUME ControlInv, NEW b \in Box, NEW trigger \in Trigger, Accepted(b, trigger),
           boxes'[b].observed \notin {"Lost", "Error"},
           boxes'[b].observed \in Running => boxes[b].observed \in Running \/ ComputeFits,
           b \in Keepers \/ VolumeFits
    PROVE  WithinCapacity'
<1>1. ControlTypes /\ (\A c \in Box \ {b} : boxes'[c] = boxes[c])
      /\ \A i \in Id : operations'[i].trigger = operations[i].trigger
  BY DEF ControlInv, Accepted, OnlyBox
<1>2. b \in Holders' => b \in Holders \/ ComputeFits BY DEF Holders, Holds
<1> QED BY <1>1, <1>2, OthersHold, FitsStays

LEMMA JoinStep ==
    ASSUME ControlInv, NEW k \in RequestKey, NEW id \in 1..Len(operations), JoinPending(k, id)
    PROVE  ControlInv'
<1>1. UNCHANGED <<boxes, operations>> /\ remembered' = [remembered EXCEPT ![k] = id]
  BY DEF JoinPending
<1>2. ControlTypes' BY <1>1 DEF ControlInv, ControlTypes
<1>3. Bookkeeping'
  BY <1>1 DEF ControlInv, Bookkeeping, PendingIsOpen, OpenIsPending, NotOvertaken,
              ReconciledIsFree, AbsentIsNew, OneCreate, NoCredential, Open, Id
<1>4. WithinCapacity' BY <1>1 DEF ControlInv, WithinCapacity, Holders, Keepers, Holds
<1> QED BY <1>2, <1>3, <1>4 DEF ControlInv

LEMMA CreateStep ==
    ASSUME ControlInv, NEW k \in RequestKey, NEW b \in Box, CreateBox(k, b) PROVE ControlInv'
<1> DEFINE next == [NoBox EXCEPT !.observed = "Creating", !.generation = 1]
<1>1. /\ boxes[b].observed = "Absent" /\ ComputeFits /\ VolumeFits
      /\ Accept(k, b, "create", NoTarget, next)
  BY DEF CreateBox
<1>2. next = BoxOf(next) /\ next.observed = "Creating" /\ next.destroyOperation = 0
  <2>1. DOMAIN NoBox = Fields /\ NoBox.destroyOperation = 0 BY DEF NoBox, Fields
  <2>2. DOMAIN next = Fields BY <2>1
  <2>3. next.observed = "Creating" /\ next.destroyOperation = 0 BY <2>1 DEF Fields
  <2>4. next = [x \in Fields |-> next[x]] BY <2>1
  <2> QED BY <2>2, <2>3, <2>4, IsBox
<1> HIDE DEF next
<1>3. Accepted(b, "create") /\ boxes'[b] = [next EXCEPT !.pending = Len(operations) + 1]
  BY <1>1, <1>2, AcceptStep DEF ControlInv, Trigger
<1>4. boxes'[b].observed = "Creating" /\ boxes'[b].destroyOperation = 0
  BY <1>2, <1>3 DEF BoxOf
<1>5. \A id \in Id : operations[id].box # b
  BY <1>1 DEF ControlInv, Bookkeeping, AbsentIsNew
<1>6. 0 \in 0..Len(operations') /\ "Creating" \in State /\ "create" \in Trigger
  BY <1>3 DEF State, Trigger, Accepted
<1>7. ControlTypes' /\ Bookkeeping'
  BY <1>3, <1>4, <1>5, <1>6, AcceptedKeeps DEF ControlInv
<1>8. WithinCapacity' BY <1>1, <1>3, <1>4, <1>6, AcceptedFits
<1> QED BY <1>7, <1>8 DEF ControlInv

(* What is open of a box with nothing pending gave way to a destroy.       *)
LEMMA OpenGaveWay ==
    ASSUME ControlInv, NEW b \in Box, NEW id \in Id, Open(id), operations[id].box = b,
           boxes[b].pending # id
    PROVE  /\ operations[id].trigger \notin {"resume", "destroy"}
           /\ boxes[b].destroyOperation # 0 /\ id < boxes[b].destroyOperation
BY DEF ControlInv, Bookkeeping, NotOvertaken, OpenIsPending

LEMMA ChangeStep ==
    ASSUME ControlInv, NEW k \in RequestKey, NEW b \in Box, NEW target \in {"Active", "Idle", "Suspend"},
           ChangeState(k, b, target)
    PROVE  ControlInv'
<1> DEFINE box == boxes[b]
           trigger == TriggerFor(box.observed, target)
<1>0. /\ boxes[b] = BoxOf(boxes[b]) /\ boxes[b].observed \in State
      /\ boxes[b].pending \in 0..Len(operations) /\ boxes[b].destroyOperation \in 0..Len(operations)
      /\ Len(operations) \in Nat
  BY DEF ControlInv, ControlTypes
<1>1. CASE \E id \in Id : JoinPending(k, id) BY <1>1, JoinStep DEF Id
<1>2. CASE /\ box.pending = 0
           /\ box.observed \notin {"Destroyed", "Creating"} \cup Intermediate
           /\ box.observed \in {"Error", "Lost"} => box.reconciled
           /\ \E to \in TargetOf(box.observed, trigger), credential \in BOOLEAN :
                 /\ trigger = "resume" => credential /\ ComputeFits
                 /\ Accept(k, b, trigger, target,
                       [box EXCEPT !.observed = IF to \in Intermediate THEN to ELSE @,
                                   !.generation = IF trigger = "resume" THEN @ + 1 ELSE @,
                                   !.desired = target, !.credential = credential])
  <2>1. PICK to \in TargetOf(box.observed, trigger), credential \in BOOLEAN :
               /\ trigger = "resume" => credential /\ ComputeFits
               /\ Accept(k, b, trigger, target,
                       [box EXCEPT !.observed = IF to \in Intermediate THEN to ELSE @,
                                   !.generation = IF trigger = "resume" THEN @ + 1 ELSE @,
                                   !.desired = target, !.credential = credential])
    BY <1>2
  <2> DEFINE reached == IF to \in Intermediate THEN to ELSE box.observed
             next == [box EXCEPT !.observed = reached,
                                 !.generation = IF trigger = "resume" THEN @ + 1 ELSE @,
                                 !.desired = target, !.credential = credential]
  <2>2. trigger \in Trigger \ {"create", "destroy"} BY DEF TriggerFor, Trigger
  <2>3. /\ next = BoxOf(next) /\ next.observed = reached
        /\ next.destroyOperation = box.destroyOperation
    <3> DEFINE generation == IF trigger = "resume" THEN box.generation + 1 ELSE box.generation
    <3>1. next = [box EXCEPT !.observed = reached, !.generation = generation,
                             !.desired = target, !.credential = credential]
      OBVIOUS
    <3> HIDE DEF next, reached, generation, trigger, box
    <3>2. DOMAIN box = Fields BY <1>0, IsBox DEF box
    <3>3. DOMAIN next = Fields BY <3>1, <3>2
    <3>4. next.observed = reached /\ next.destroyOperation = box.destroyOperation
      BY <3>1, <3>2 DEF Fields
    <3>5. next = [x \in Fields |-> next[x]] BY <3>1, <3>2
    <3> QED BY <3>3, <3>4, <3>5, IsBox
  <2>4. /\ reached \in State \ {"Absent", "Lost", "Error", "Suspend"}
        /\ trigger = "resume" => reached = "Resuming"
        /\ trigger # "resume" => reached \in Running /\ box.observed \in Running
    <3>1. CASE trigger = "resume"
      <4>1. box.observed \in {"Suspend", "Error", "Lost"} /\ to = "Resuming"
        BY <1>0, <1>2, <3>1, Transitions DEF Intermediate, State
      <4> QED BY <3>1, <4>1 DEF Intermediate, State
    <3>2. CASE trigger # "resume"
      <4>1. /\ box.observed \in {"Creating", "Active", "Idle", "Suspending"}
            /\ to \in {"Active", "Idle", "Suspending", "Suspend"}
        BY <1>0, <2>2, <3>2, Transitions
      <4> QED BY <3>2, <4>1 DEF Intermediate, State, Running
    <3> QED BY <3>1, <3>2
  <2> HIDE DEF next, reached, trigger
  <2>5. Accepted(b, trigger) /\ boxes'[b] = [next EXCEPT !.pending = Len(operations) + 1]
    <3>1. Accept(k, b, trigger, target, next) BY <2>1 DEF next, reached
    <3> QED BY <2>2, <2>3, <3>1, AcceptStep DEF ControlInv
  <2>6. boxes'[b].observed = reached /\ boxes'[b].destroyOperation = box.destroyOperation
    BY <2>3, <2>5 DEF BoxOf
  <2>7. \A id \in Id : Open(id) /\ operations[id].box = b =>
          /\ operations[id].trigger \notin {"resume", "destroy"}
          /\ boxes'[b].destroyOperation # 0 /\ id < boxes'[b].destroyOperation
    BY <1>2, <2>6, OpenGaveWay DEF Id
  <2>8. ControlTypes' /\ Bookkeeping'
    <3>1. boxes'[b].destroyOperation \in 0..Len(operations') BY <1>0, <2>5, <2>6 DEF Accepted
    <3>2. trigger \in {"resume", "destroy"} => boxes'[b].observed \in During(trigger)
      BY <2>2, <2>4, <2>6 DEF During
    <3> QED BY <2>2, <2>4, <2>5, <2>6, <2>7, <3>1, <3>2, AcceptedKeeps DEF ControlInv
  <2>9. WithinCapacity'
    <3>1. b \in Keepers
      BY <1>0, <1>2 DEF Keepers, ChangeState
    <3>2. boxes'[b].observed \in Running => boxes[b].observed \in Running \/ ComputeFits
      BY <2>1, <2>4
    <3> QED BY <2>2, <2>4, <2>5, <2>6, <3>1, <3>2, AcceptedFits
  <2> QED BY <2>8, <2>9 DEF ControlInv
<1>3. box.pending # 0 => box.pending \in Id BY <1>0 DEF Id
<1> QED BY <1>1, <1>2, <1>3 DEF ChangeState

LEMMA DestroyStep ==
    ASSUME ControlInv, NEW k \in RequestKey, NEW b \in Box, DestroyBox(k, b) PROVE ControlInv'
<1> DEFINE box == boxes[b]
           id == Len(operations) + 1
           next == [box EXCEPT !.observed = "Destroying", !.desired = "Destroyed",
                               !.destroyOperation = id]
<1>0. /\ boxes[b] = BoxOf(boxes[b]) /\ boxes[b].observed \in State
      /\ boxes[b].pending \in 0..Len(operations) /\ boxes[b].destroyOperation \in 0..Len(operations)
      /\ Len(operations) \in Nat
  BY DEF ControlInv, ControlTypes
<1>1. CASE \E i \in Id : JoinPending(k, i) BY <1>1, JoinStep DEF Id
<1>2. CASE /\ ~(box.observed = "Destroying" /\ box.pending # 0
                   /\ operations[box.pending].trigger = "destroy")
           /\ TargetOf(box.observed, "destroy") # {}
           /\ box.observed \in {"Error", "Lost"} => box.reconciled
           /\ Accept(k, b, "destroy", NoTarget, next)
  <2>1. DOMAIN box = Fields BY <1>0, IsBox
  <2>2. /\ next = BoxOf(next) /\ next.observed = "Destroying" /\ next.destroyOperation = id
    <3>1. DOMAIN next = Fields BY <2>1
    <3>2. next.observed = "Destroying" /\ next.destroyOperation = id BY <2>1 DEF Fields
    <3>3. next = [x \in Fields |-> next[x]] BY <2>1
    <3> QED BY <3>1, <3>2, <3>3, IsBox
  <2> HIDE DEF next
  <2>3. Accepted(b, "destroy") /\ boxes'[b] = [next EXCEPT !.pending = id]
    BY <1>2, <2>2, AcceptStep DEF ControlInv, Trigger
  <2>4. boxes'[b].observed = "Destroying" /\ boxes'[b].destroyOperation = id
    BY <2>2, <2>3 DEF BoxOf
  <2>5. ASSUME NEW i \in Id, Open(i), operations[i].box = b
        PROVE  /\ operations[i].trigger \notin {"resume", "destroy"}
               /\ boxes'[b].destroyOperation # 0 /\ i < boxes'[b].destroyOperation
    <3>1. i < id /\ id # 0 BY <1>0 DEF Id
    <3>2. CASE boxes[b].pending # i BY <2>4, <2>5, <3>1, <3>2, OpenGaveWay
    <3>3. CASE boxes[b].pending = i
      <4>1. boxes[b].observed \notin {"Error", "Lost"}
        BY <1>2, <3>1, <3>3 DEF ControlInv, Bookkeeping, ReconciledIsFree, Id
      <4>2. boxes[b].observed \notin {"Resuming", "Destroying"} \/ operations[i].trigger \notin {"resume", "destroy"}
        <5>1. PICK to \in TargetOf(box.observed, "destroy") : TRUE BY <1>2
        <5>2. boxes[b].observed # "Resuming" BY <1>0, <5>1, Transitions
        <5>3. CASE boxes[b].observed = "Destroying"
          <6>1. operations[i].trigger # "destroy" BY <1>2, <3>3, <5>3 DEF Id
          <6>2. operations[i].trigger = "resume" => FALSE
            BY <2>5, <5>3 DEF ControlInv, Bookkeeping, NotOvertaken, During
          <6> QED BY <6>1, <6>2
        <5> QED BY <5>2, <5>3
      <4>3. operations[i].trigger \in {"resume", "destroy"} =>
              boxes[b].observed \in {"Lost", "Error", "Resuming", "Destroying"}
        BY <2>5 DEF ControlInv, Bookkeeping, NotOvertaken, During
      <4> QED BY <2>4, <3>1, <4>1, <4>2, <4>3
    <3> QED BY <3>2, <3>3
  <2>6. /\ "destroy" \in Trigger /\ "Destroying" \in State /\ id \in 0..Len(operations')
        /\ "Destroying" \in During("destroy") /\ "Destroying" \notin Running
    BY <1>0, <2>3 DEF Trigger, State, Accepted, During, Running
  <2>7. ControlTypes' /\ Bookkeeping'
    BY <2>3, <2>4, <2>5, <2>6, AcceptedKeeps DEF ControlInv
  <2>8. b \in Keepers
    <3>1. PICK to \in TargetOf(box.observed, "destroy") : TRUE BY <1>2
    <3> QED BY <1>0, <3>1, Transitions DEF Keepers
  <2>9. WithinCapacity' BY <2>3, <2>4, <2>6, <2>8, AcceptedFits
  <2> QED BY <2>7, <2>9 DEF ControlInv
<1>3. /\ box.pending # 0 => box.pending \in Id
      /\ box.destroyOperation # 0 => box.destroyOperation \in Id
  BY <1>0 DEF Id
<1> QED BY <1>1, <1>2, <1>3 DEF DestroyBox

LEMMA AdvanceStep ==
    ASSUME ControlInv, NEW id \in Id, Advance(id) PROVE ControlInv'
<1> DEFINE open(i) == operations'[i].state \in {"pending", "running"}
<1>1. /\ OnlyState(id, "running") /\ UNCHANGED <<boxes, remembered>> /\ operations[id].state = "pending"
  BY StateSet DEF Advance, ControlInv
<1>2. /\ Id' = Id /\ Len(operations') = Len(operations)
      /\ \A i \in Id : /\ operations'[i].box = operations[i].box
                       /\ operations'[i].trigger = operations[i].trigger
                       /\ open(i) <=> Open(i)
  BY <1>1 DEF OnlyState, Id, Open
<1>3. ControlTypes' BY <1>1, <1>2 DEF ControlInv, ControlTypes, OnlyState
<1>4. \A b \in Box : boxes[b].pending # 0 => boxes[b].pending \in Id
  BY DEF ControlInv, ControlTypes, Id
<1>5. /\ PendingIsOpen' /\ OpenIsPending' /\ NotOvertaken'
  BY <1>1, <1>2, <1>4
     DEF ControlInv, Bookkeeping, PendingIsOpen, OpenIsPending, NotOvertaken, Open
<1>6. ReconciledIsFree' /\ AbsentIsNew' /\ OneCreate' /\ NoCredential'
  BY <1>1, <1>2
     DEF ControlInv, Bookkeeping, ReconciledIsFree, AbsentIsNew, OneCreate, NoCredential
<1>7. WithinCapacity'
  <2>1. Holders' = Holders /\ Keepers' = Keepers
    BY <1>1, <1>2, <1>4 DEF Holders, Keepers, Holds
  <2> QED BY <2>1 DEF WithinCapacity, ControlInv
<1> QED BY <1>3, <1>5, <1>6, <1>7 DEF ControlInv, Bookkeeping

(* The evidence of an open operation: a transition of its trigger, or an   *)
(* error.  Other resumes and destroys under way are not of this box, or    *)
(* the box went to error.                                                  *)
LEMMA ResolveStep ==
    ASSUME ControlInv, NEW id \in Id, Open(id), NEW state \in {"succeeded", "failed"}, NEW to,
           Resolve(id, state, to),
           \/ to \in TargetOf(boxes[operations[id].box].observed, operations[id].trigger)
           \/ boxes[operations[id].box].observed \in ErrorCapable /\ to = "Error"
    PROVE  ControlInv'
<1> PICK b \in Box : b = operations[id].box
  <2>1. operations[id] \in OperationRecord BY DEF ControlInv, ControlTypes, Id
  <2> QED BY <2>1 DEF OperationRecord
<1> DEFINE next == Resolved(boxes[b], id, to)
           trigger == operations[id].trigger
           from == boxes[b].observed
<1>0. /\ boxes[b] = BoxOf(boxes[b]) /\ from \in State /\ DOMAIN boxes = Box
      /\ DOMAIN boxes[b] = Fields /\ trigger \in Trigger
  <2>1. operations[id] \in OperationRecord BY DEF ControlInv, ControlTypes, Id
  <2>2. boxes[b] = BoxOf(boxes[b]) /\ from \in State /\ DOMAIN boxes = Box
    BY DEF ControlInv, ControlTypes
  <2> QED BY <2>1, <2>2, IsBox DEF OperationRecord
<1>1. next = BoxOf(next)
  <2>1. DOMAIN next = Fields BY <1>0 DEF Resolved
  <2>2. next = [x \in Fields |-> next[x]] BY <1>0 DEF Resolved
  <2> QED BY <2>1, <2>2, IsBox
<1>2. /\ next.observed = to /\ next.pending = ClearsPointer(boxes[b].pending, id)
      /\ next.reconciled = FALSE /\ next.destroyOperation = boxes[b].destroyOperation
      /\ to = "Suspend" => next.credential = FALSE
  BY <1>0 DEF Fields, Resolved
<1>3. /\ boxes' = [boxes EXCEPT ![b] = next] /\ remembered' = remembered
      /\ operations' = [operations EXCEPT ![id].state = state]
  BY DEF Resolve
<1> HIDE DEF next
<1>4. OnlyBox(b) /\ boxes'[b] = next BY <1>1, <1>3, SetBox DEF ControlInv
<1>5. OnlyState(id, state) BY <1>3, StateSet DEF ControlInv
<1>6. to \in State \ {"Absent"}
  <2>1. \A t \in TargetOf(from, trigger) : t \in State \ {"Absent"} BY Transitions DEF State
  <2> QED BY <2>1 DEF State
<1>7. \A i \in Id \ {id} : Open(i) /\ operations[i].box = b /\ operations[i].trigger \in {"resume", "destroy"}
         => /\ boxes[b].pending = i /\ from \in During(operations[i].trigger)
            /\ trigger \notin {"resume", "destroy"}
  <2> SUFFICES ASSUME NEW i \in Id \ {id}, Open(i), operations[i].box = b,
                      operations[i].trigger \in {"resume", "destroy"}
               PROVE  /\ boxes[b].pending = i /\ from \in During(operations[i].trigger)
                      /\ trigger \notin {"resume", "destroy"}
    OBVIOUS
  <2>1. boxes[b].pending = i /\ from \in During(operations[i].trigger)
    BY DEF ControlInv, Bookkeeping, NotOvertaken
  <2>2. trigger \notin {"resume", "destroy"}
    BY <2>1 DEF ControlInv, Bookkeeping, NotOvertaken
  <2> QED BY <2>1, <2>2
<1>8. \A i \in Id \ {id} : Open(i) /\ operations[i].box = b /\ operations[i].trigger \in {"resume", "destroy"}
         => to \in During(operations[i].trigger)
  <2> SUFFICES ASSUME NEW i \in Id \ {id}, Open(i), operations[i].box = b,
                      operations[i].trigger \in {"resume", "destroy"}
               PROVE  to \in During(operations[i].trigger)
    OBVIOUS
  <2>1. from \in {"Lost", "Error", "Resuming", "Destroying"} /\ trigger \notin {"resume", "destroy"}
    BY <1>7 DEF During
  <2>2. to \notin TargetOf(from, trigger) BY <1>0, <2>1, Transitions
  <2> QED BY <2>2 DEF During
<1>9. ControlTypes' /\ Bookkeeping'
  BY <1>2, <1>3, <1>4, <1>5, <1>6, <1>8, ResolvedKeeps DEF ControlInv
<1>10. b \in Holders' => b \in Holders
  <2> SUFFICES ASSUME Holds(b)' PROVE Holds(b) BY DEF Holders
  <2>1. boxes'[b].observed = to /\ boxes'[b].pending = ClearsPointer(boxes[b].pending, id)
    BY <1>2, <1>4
  <2>2. CASE to \in Running
    <3>1. to \in TargetOf(from, trigger) BY <2>2 DEF Running
    <3>2. CASE trigger = "resume"
      <4>1. from = "Resuming" \/ from \in {"Lost", "Error"}
        BY <1>0, <3>2 DEF ControlInv, Bookkeeping, NotOvertaken, During
      <4>2. boxes[b].pending = id /\ id # 0
        BY <3>2 DEF ControlInv, Bookkeeping, NotOvertaken, Id
      <4> QED BY <3>2, <4>1, <4>2 DEF Holds, Running
    <3>3. CASE trigger # "resume"
      <4>1. trigger # "destroy" BY <1>0, <2>2, <3>1, Transitions DEF Running
      <4>2. from \in {"Creating", "Active", "Idle", "Suspending"}
        BY <1>0, <3>1, <3>3, <4>1, Transitions
      <4> QED BY <4>2 DEF Holds, Running
    <3> QED BY <3>2, <3>3
  <2>3. CASE to \notin Running
    <3>1. /\ boxes'[b].pending # 0 /\ operations'[boxes'[b].pending].trigger = "resume"
      BY <2>1, <2>3 DEF Holds
    <3>2. boxes[b].pending # 0 /\ boxes[b].pending # id /\ boxes'[b].pending = boxes[b].pending
      BY <2>1, <3>1 DEF ClearsPointer
    <3> DEFINE i == boxes[b].pending
    <3>3. i \in Id BY <3>2 DEF ControlInv, ControlTypes, Id
    <3>4. operations[i].trigger = "resume" /\ Open(i) /\ operations[i].box = b
      BY <1>5, <3>1, <3>2, <3>3 DEF OnlyState, ControlInv, Bookkeeping, PendingIsOpen
    <3>5. from \in {"Resuming", "Lost", "Error"} BY <1>7, <3>2, <3>3, <3>4 DEF During
    <3> QED BY <3>2, <3>4, <3>5 DEF Holds, Running
  <2> QED BY <2>2, <2>3
<1>11. b \in Keepers
  <2>1. \A t \in TargetOf(from, trigger) : from \notin {"Absent", "Destroyed"}
    <3>1. trigger = "resume" \/ trigger = "destroy" \/ trigger \in Trigger \ {"resume", "destroy"}
      BY <1>0
    <3> SUFFICES ASSUME NEW t \in TargetOf(from, trigger), from \in {"Absent", "Destroyed"}
                 PROVE  FALSE
      OBVIOUS
    <3>2. t \in State BY Transitions DEF State
    <3>3. CASE trigger = "resume" BY <1>0, <3>2, <3>3, Transitions
    <3>4. CASE trigger = "destroy" BY <1>0, <3>4, Transitions
    <3>5. CASE trigger \in Trigger \ {"resume", "destroy"} BY <1>0, <3>5, Transitions
    <3> QED BY <3>1, <3>3, <3>4, <3>5
  <2>2. from \in ErrorCapable => from \notin {"Absent", "Destroyed"} BY DEF ErrorCapable
  <2> QED BY <1>0, <2>1, <2>2 DEF Keepers
<1>12. /\ \A c \in Box \ {b} : boxes'[c] = boxes[c]
       /\ \A i \in Id : operations'[i].trigger = operations[i].trigger
  BY <1>4, <1>5 DEF OnlyBox, OnlyState
<1>13. WithinCapacity' BY <1>10, <1>11, <1>12, OthersHold, FitsStays DEF ControlInv
<1> QED BY <1>9, <1>13 DEF ControlInv

LEMMA ExpireStep ==
    ASSUME ControlInv, NEW b \in Box, ExpireLease(b) PROVE ControlInv'
<1> DEFINE next == [boxes[b] EXCEPT !.observed = "Lost", !.reconciled = FALSE]
<1>0. /\ boxes[b] = BoxOf(boxes[b]) /\ DOMAIN boxes[b] = Fields
      /\ boxes[b].observed \in State \ {"Absent", "Destroyed", "Lost"}
  BY IsBox DEF ControlInv, ControlTypes, ExpireLease, Losable
<1>1. next = BoxOf(next)
  <2>1. DOMAIN next = Fields /\ next = [x \in Fields |-> next[x]] BY <1>0
  <2> QED BY <2>1, IsBox
<1>2. /\ next.observed = "Lost" /\ next.reconciled = FALSE /\ next.pending = boxes[b].pending
      /\ next.destroyOperation = boxes[b].destroyOperation
  BY <1>0 DEF Fields
<1>3. UNCHANGED <<operations, remembered>> /\ boxes' = [boxes EXCEPT ![b] = next]
  BY DEF ExpireLease
<1> HIDE DEF next
<1>4. OnlyBox(b) /\ boxes'[b] = next BY <1>1, <1>3, SetBox DEF ControlInv
<1>5. /\ \A c \in Box \ {b} : boxes'[c] = boxes[c]
      /\ \A c \in Box : boxes'[c].pending = boxes[c].pending
                      /\ boxes'[c].destroyOperation = boxes[c].destroyOperation
  BY <1>2, <1>4 DEF OnlyBox
<1>6. Id' = Id BY <1>3 DEF Id
<1>7. ControlTypes' BY <1>2, <1>3, <1>4, <1>5 DEF ControlInv, ControlTypes, OnlyBox, State
<1>8. \A i \in Id : operations[i].box \in Box
  <2>1. \A i \in Id : operations[i] \in OperationRecord BY DEF ControlInv, ControlTypes, Id
  <2> QED BY <2>1 DEF OperationRecord
<1>9. PendingIsOpen' /\ OpenIsPending'
  BY <1>3, <1>5, <1>6, <1>8 DEF ControlInv, Bookkeeping, PendingIsOpen, OpenIsPending, Open
<1>10. NotOvertaken'
  BY <1>2, <1>3, <1>4, <1>5, <1>6, <1>8 DEF ControlInv, Bookkeeping, NotOvertaken, Open, During
<1>11. ReconciledIsFree' /\ AbsentIsNew' /\ OneCreate' /\ NoCredential'
  BY <1>2, <1>3, <1>4, <1>5, <1>6
     DEF ControlInv, Bookkeeping, ReconciledIsFree, AbsentIsNew, OneCreate, NoCredential
<1>12. WithinCapacity'
  <2>1. b \in Keepers BY <1>0 DEF Keepers
  <2>2. b \in Holders' => b \in Holders
    <3> SUFFICES ASSUME Holds(b)' PROVE Holds(b) BY DEF Holders
    <3> DEFINE i == boxes[b].pending
    <3>1. i # 0 /\ operations[i].trigger = "resume"
      BY <1>2, <1>3, <1>4, <1>5 DEF Holds, Running
    <3>2. i \in Id BY <3>1 DEF ControlInv, ControlTypes, Id
    <3>3. boxes[b].observed \in During("resume")
      BY <3>1, <3>2 DEF ControlInv, Bookkeeping, PendingIsOpen, NotOvertaken
    <3> QED BY <3>1, <3>3 DEF Holds, During, Running
  <2>3. \A i \in Id : operations'[i].trigger = operations[i].trigger BY <1>3
  <2> QED BY <1>5, <2>1, <2>2, <2>3, OthersHold, FitsStays DEF ControlInv
<1> QED BY <1>7, <1>9, <1>10, <1>11, <1>12 DEF ControlInv, Bookkeeping

(* What is pending fails when the box is reconciled. *)
LEMMA MarkStep ==
    ASSUME ControlInv, NEW b \in Box, MarkReconciled(b) PROVE ControlInv'
<1> DEFINE next == [boxes[b] EXCEPT !.reconciled = TRUE, !.pending = 0]
           open(i) == operations'[i].state \in {"pending", "running"}
<1> PICK p : p = boxes[b].pending OBVIOUS
<1>0. /\ boxes[b] = BoxOf(boxes[b]) /\ DOMAIN boxes[b] = Fields /\ boxes[b].observed # "Absent"
      /\ boxes[b].observed \in State
      /\ p # 0 => p \in Id /\ Open(p) /\ operations[p].box = b
  BY IsBox DEF ControlInv, ControlTypes, MarkReconciled, Bookkeeping, PendingIsOpen, Id
<1>1. next = BoxOf(next)
  <2>1. DOMAIN next = Fields /\ next = [x \in Fields |-> next[x]] BY <1>0
  <2> QED BY <2>1, IsBox
<1>2. /\ next.observed = boxes[b].observed /\ next.pending = 0
      /\ next.destroyOperation = boxes[b].destroyOperation /\ next.credential = boxes[b].credential
  BY <1>0 DEF Fields
<1>3. /\ boxes' = [boxes EXCEPT ![b] = next] /\ remembered' = remembered
      /\ p = 0 => operations' = operations
      /\ p # 0 => operations' = [operations EXCEPT ![p].state = "failed"]
  BY <1>0 DEF MarkReconciled
<1> HIDE DEF next
<1>4. OnlyBox(b) /\ boxes'[b] = next BY <1>1, <1>3, SetBox DEF ControlInv
<1>5. /\ operations' \in Seq(OperationRecord) /\ Len(operations') = Len(operations)
      /\ \A i \in Id : /\ operations'[i].box = operations[i].box
                       /\ operations'[i].trigger = operations[i].trigger
                       /\ open(i) <=> i # p /\ Open(i)
  <2>1. CASE p = 0
    <3>1. \A i \in Id : i # 0 BY DEF Id
    <3> QED BY <1>3, <2>1, <3>1 DEF ControlInv, ControlTypes, Open
  <2>2. CASE p # 0
    <3>1. OnlyState(p, "failed") BY <1>0, <1>3, <2>2, StateSet DEF ControlInv
    <3> QED BY <3>1 DEF OnlyState, Open
  <2> QED BY <2>1, <2>2
<1>6. Id' = Id BY <1>5 DEF Id
<1>7. \A c \in Box \ {b} : boxes'[c] = boxes[c] BY <1>4 DEF OnlyBox
<1>8. ControlTypes'
  <2>1. 0 \in 0..Len(operations) BY DEF ControlInv, ControlTypes
  <2>2. \A c \in Box : /\ boxes'[c].observed \in State
                       /\ boxes'[c].pending \in 0..Len(operations')
                       /\ boxes'[c].destroyOperation \in 0..Len(operations')
    BY <1>2, <1>4, <1>5, <1>7, <2>1 DEF ControlInv, ControlTypes
  <2> QED BY <1>3, <1>4, <1>5, <2>2 DEF ControlInv, ControlTypes, OnlyBox
<1>9. \A i \in Id : operations[i].box \in Box
  <2>1. \A i \in Id : operations[i] \in OperationRecord BY DEF ControlInv, ControlTypes, Id
  <2> QED BY <2>1 DEF OperationRecord
<1>10. PendingIsOpen'
  <2> SUFFICES ASSUME NEW c \in Box, boxes'[c].pending # 0
               PROVE  open(boxes'[c].pending) /\ operations'[boxes'[c].pending].box = c
    BY DEF PendingIsOpen, Open
  <2>1. c # b /\ boxes'[c].pending = boxes[c].pending BY <1>2, <1>4, <1>7
  <2>2. /\ boxes[c].pending \in Id /\ Open(boxes[c].pending) /\ operations[boxes[c].pending].box = c
    BY <2>1 DEF ControlInv, ControlTypes, Bookkeeping, PendingIsOpen, Id
  <2>3. boxes[c].pending # p BY <1>0, <2>1, <2>2
  <2> QED BY <1>5, <2>1, <2>2, <2>3
<1>11. OpenIsPending'
  <2> SUFFICES ASSUME NEW i \in Id, open(i)
               PROVE  LET c == operations[i].box
                      IN boxes'[c].pending = i
                         \/ (boxes'[c].destroyOperation # 0 /\ i < boxes'[c].destroyOperation)
    BY <1>5, <1>6 DEF OpenIsPending, Open
  <2>1. i # p /\ Open(i) /\ operations[i].box \in Box BY <1>5, <1>9
  <2>2. LET c == operations[i].box
        IN boxes[c].pending = i \/ (boxes[c].destroyOperation # 0 /\ i < boxes[c].destroyOperation)
    BY <2>1 DEF ControlInv, Bookkeeping, OpenIsPending
  <2> QED BY <1>2, <1>4, <1>7, <2>1, <2>2
<1>12. NotOvertaken'
  <2> SUFFICES ASSUME NEW i \in Id, open(i), operations[i].trigger \in {"resume", "destroy"}
               PROVE  LET c == operations[i].box
                      IN boxes'[c].pending = i /\ boxes'[c].observed \in During(operations[i].trigger)
    BY <1>5, <1>6 DEF NotOvertaken, Open
  <2>1. i # p /\ Open(i) /\ operations[i].box \in Box BY <1>5, <1>9
  <2>2. LET c == operations[i].box
        IN boxes[c].pending = i /\ boxes[c].observed \in During(operations[i].trigger)
    BY <2>1 DEF ControlInv, Bookkeeping, NotOvertaken
  <2>3. operations[i].box # b BY <2>1, <2>2
  <2> QED BY <1>7, <2>1, <2>2, <2>3
<1>13. ReconciledIsFree' /\ AbsentIsNew' /\ OneCreate' /\ NoCredential'
  BY <1>0, <1>2, <1>4, <1>5, <1>6, <1>7
     DEF ControlInv, Bookkeeping, ReconciledIsFree, AbsentIsNew, OneCreate, NoCredential
<1>14. WithinCapacity'
  <2>1. b \in Keepers' => b \in Keepers BY <1>2, <1>4 DEF Keepers
  <2>2. b \in Holders' => b \in Holders BY <1>2, <1>4 DEF Holders, Holds
  <2> QED BY <1>5, <1>7, <2>1, <2>2, OthersHold, FitsStays DEF ControlInv
<1> QED BY <1>8, <1>10, <1>11, <1>12, <1>13, <1>14 DEF ControlInv, Bookkeeping

LEMMA ControlStep == ControlInv /\ [ControlNext]_controlVars => ControlInv'
<1> SUFFICES ASSUME ControlInv, [ControlNext]_controlVars PROVE ControlInv' OBVIOUS
<1>1. ASSUME NEW k \in RequestKey, NEW b \in Box, CreateBox(k, b) PROVE ControlInv'
  BY <1>1, CreateStep
<1>2. ASSUME NEW k \in RequestKey, NEW b \in Box, DestroyBox(k, b) PROVE ControlInv'
  BY <1>2, DestroyStep
<1>3. ASSUME NEW k \in RequestKey, NEW b \in Box, NEW target \in {"Active", "Idle", "Suspend"},
             ChangeState(k, b, target)
      PROVE  ControlInv'
  BY <1>3, ChangeStep
<1>4. ASSUME NEW id \in Id, Advance(id) PROVE ControlInv' BY <1>4, AdvanceStep
<1>5. ASSUME NEW id \in Id, Confirm(id) PROVE ControlInv'
  BY <1>5, ResolveStep DEF Confirm
<1>6. ASSUME NEW id \in Id, ConfirmError(id) PROVE ControlInv'
  BY <1>6, ResolveStep DEF ConfirmError
<1>7. ASSUME NEW b \in Box, ExpireLease(b) PROVE ControlInv' BY <1>7, ExpireStep
<1>8. ASSUME NEW b \in Box, MarkReconciled(b) PROVE ControlInv' BY <1>8, MarkStep
<1>9. CASE UNCHANGED controlVars
  <2>1. ControlTypes' BY <1>9 DEF controlVars, ControlInv, ControlTypes
  <2>2. Bookkeeping'
    BY <1>9 DEF controlVars, ControlInv, Bookkeeping, PendingIsOpen, OpenIsPending, NotOvertaken,
                ReconciledIsFree, AbsentIsNew, OneCreate, NoCredential, Open, Id
  <2>3. WithinCapacity' BY <1>9 DEF controlVars, ControlInv, WithinCapacity, Holders, Keepers, Holds
  <2> QED BY <2>1, <2>2, <2>3 DEF ControlInv
<1> QED BY <1>1, <1>2, <1>3, <1>4, <1>5, <1>6, <1>7, <1>8, <1>9 DEF ControlNext, Id

(* Capacity, pending operations and creates stay as ControlSound says, for *)
(* any sandboxes, keys, capacities and order of requests and evidence      *)
(* (_create, _change_state, _destroy, confirm, expire_lease).              *)
THEOREM ControlSoundAlways == ControlSpec => []ControlSound
<1>1. ControlInv => ControlSound
  <2> SUFFICES ASSUME ControlInv PROVE ControlSound OBVIOUS
  <2>1. ControlTypeOK BY DEF ControlInv, ControlTypes, ControlTypeOK
  <2>2. Holding(Running) <= Compute
    <3> DEFINE T == {b \in Box : boxes[b].observed \in Running}
    <3>1. T \subseteq Holders /\ Holders \subseteq Box BY DEF Holders, Holds
    <3>2. Cardinality(T) <= Compute BY <3>1, FewerFit, ControlAssumption DEF ControlInv, WithinCapacity
    <3> QED BY <3>2 DEF Holding
  <2>3. Holding(State \ {"Absent", "Destroyed"}) <= Volume
    BY DEF Holding, ControlInv, WithinCapacity, Keepers
  <2>4. ASSUME NEW b \in Box
        PROVE  Cardinality({id \in 1..Len(operations) :
                   operations[id].box = b /\ operations[id].trigger = "create"}) <= 1
    BY AtMostOne DEF ControlInv, Bookkeeping, OneCreate, Id
  <2>5. ASSUME NEW id \in 1..Len(operations), Open(id)
        PROVE  boxes[operations[id].box].pending = id \/ OvertakenByDestroy(id)
    BY <2>5 DEF ControlInv, Bookkeeping, OpenIsPending, NotOvertaken, OvertakenByDestroy, Id
  <2> QED BY <2>1, <2>2, <2>3, <2>4, <2>5
          DEF ControlSound, ControlInv, Bookkeeping, PendingIsOpen, NoCredential
<1> QED BY ControlInitially, ControlStep, <1>1, PTL DEF ControlSpec

-----------------------------------------------------------------------------
(* The demo's clock: one turn of advance either counts up to the given     *)
(* time, or moves the sandbox on at its boundary, wherever that time is.   *)
BoxRecord ==
    [status : Status, since : Nat, activity : Nat, accounted : Nat,
     seconds : [Status -> Nat], edits : SUBSET Tab, skipped : Nat]
Boundary(b) == Later(b.accounted, Deadline(b))
CountTo(b, until) == [b EXCEPT !.seconds[b.status] = @ + until - b.accounted, !.accounted = until]
MoveOn(b) ==
    [CountTo(b, Boundary(b)) EXCEPT !.status = IF @ = "Active" THEN "Idle" ELSE "Suspend",
                                    !.since = Boundary(b)]

LEMMA Deadlines ==
    ASSUME NEW b \in BoxRecord
    PROVE  /\ Deadline(b) \in Nat /\ Boundary(b) \in Nat /\ Boundary(b) >= b.accounted /\ Boundary(b) >= Deadline(b)
           /\ \A end \in Nat : end <= LastNow /\ b.status = "Suspend" => Boundary(b) > end
           /\ \A end \in Nat : b.accounted <= end /\ Boundary(b) > end => Boundary(b) = Deadline(b) /\ Deadline(b) > end
<1>1. NoDeadline \in Nat /\ NoDeadline > LastNow BY DemoAssumption DEF NoDeadline
<1>2. Deadline(b) \in Nat BY <1>1, DemoAssumption DEF Deadline, BoxRecord, Later, Status
<1>3. b.accounted \in Nat BY DEF BoxRecord
<1>4. b.status = "Suspend" => Deadline(b) = NoDeadline BY DEF Deadline
<1> QED BY <1>1, <1>2, <1>3, <1>4, DemoAssumption DEF Boundary, Later

LEMMA Counts ==
    ASSUME NEW b \in BoxRecord, NEW until \in Nat, b.accounted <= until
    PROVE  /\ CountTo(b, until) \in BoxRecord /\ CountTo(b, until).accounted = until
           /\ CountTo(b, until).status = b.status /\ CountTo(b, until).since = b.since
           /\ CountTo(b, until).activity = b.activity /\ CountTo(b, until).edits = b.edits
           /\ CountTo(b, until).skipped = b.skipped
           /\ CountTo(b, until).seconds = [b.seconds EXCEPT ![b.status] = @ + until - b.accounted]
           /\ Total(CountTo(b, until)) = Total(b) + (until - b.accounted)
           /\ Deadline(CountTo(b, until)) = Deadline(b)
<1> DEFINE c == CountTo(b, until)  more == b.seconds[b.status] + until - b.accounted
<1>1. /\ b.status \in Status /\ b.seconds \in [Status -> Nat] /\ b.accounted \in Nat /\ b.since \in Nat
      /\ b.activity \in Nat /\ b.edits \in SUBSET Tab /\ b.skipped \in Nat
  BY DEF BoxRecord
<1>2. more \in Nat BY <1>1
<1>3. /\ c.accounted = until /\ c.status = b.status /\ c.since = b.since /\ c.activity = b.activity
      /\ c.edits = b.edits /\ c.skipped = b.skipped /\ c.seconds = [b.seconds EXCEPT ![b.status] = more]
  BY DEF CountTo, BoxRecord
<1>4. c.seconds \in [Status -> Nat] BY <1>1, <1>2, <1>3
<1>5. c = [status |-> c.status, since |-> c.since, activity |-> c.activity, accounted |-> c.accounted,
           seconds |-> c.seconds, edits |-> c.edits, skipped |-> c.skipped]
  <2> DEFINE f == [b.seconds EXCEPT ![b.status] = more]
  <2>1. c = [b EXCEPT !.seconds = f, !.accounted = until] BY DEF CountTo, BoxRecord
  <2> HIDE DEF f, c
  <2> QED BY <2>1 DEF BoxRecord
<1>6. c \in BoxRecord BY <1>1, <1>3, <1>4, <1>5 DEF BoxRecord
<1>7. Total(c) = Total(b) + (until - b.accounted)
  BY <1>1, <1>3 DEF Total, Status
<1>8. Deadline(c) = Deadline(b) BY <1>3 DEF Deadline
<1> QED BY <1>3, <1>6, <1>7, <1>8

LEMMA Moves ==
    ASSUME NEW b \in BoxRecord, b.status # "Suspend"
    PROVE  /\ MoveOn(b) \in BoxRecord /\ MoveOn(b).accounted = Boundary(b)
           /\ MoveOn(b).status = IF b.status = "Active" THEN "Idle" ELSE "Suspend"
           /\ MoveOn(b).edits = b.edits /\ MoveOn(b).skipped = b.skipped
           /\ Total(MoveOn(b)) = Total(b) + (Boundary(b) - b.accounted)
<1> DEFINE c == CountTo(b, Boundary(b))  m == MoveOn(b)
<1>1. Boundary(b) \in Nat /\ b.accounted <= Boundary(b) /\ b.accounted \in Nat BY Deadlines DEF BoxRecord
<1>2. /\ c \in BoxRecord /\ c.accounted = Boundary(b) /\ c.status = b.status /\ c.edits = b.edits /\ c.skipped = b.skipped
      /\ Total(c) = Total(b) + (Boundary(b) - b.accounted)
  BY <1>1, Counts
<1> HIDE DEF c
<1>3. m = [c EXCEPT !.status = IF @ = "Active" THEN "Idle" ELSE "Suspend", !.since = Boundary(b)]
  BY DEF MoveOn, c
<1> HIDE DEF m
<1>4. /\ m.status = (IF b.status = "Active" THEN "Idle" ELSE "Suspend") /\ m.accounted = c.accounted
      /\ m.edits = c.edits /\ m.skipped = c.skipped /\ m.seconds = c.seconds /\ m \in BoxRecord
  BY <1>1, <1>2, <1>3 DEF BoxRecord, Status
<1>5. Total(m) = Total(c) BY <1>4 DEF Total
<1> QED BY <1>2, <1>4, <1>5 DEF m

(* What a turn does, and that it does not matter how far it might have     *)
(* gone.                                                                   *)
LEMMA TurnIs ==
    ASSUME NEW b \in BoxRecord, NEW end \in Nat, b.accounted <= end
    PROVE  Turn(b, end) = IF Boundary(b) > end THEN CountTo(b, end) ELSE MoveOn(b)
<1>1. Boundary(b) \in Nat BY Deadlines
<1>2. CASE Boundary(b) > end
  <2>1. Earlier(end, Boundary(b)) = end BY <1>1, <1>2 DEF Earlier
  <2> QED BY <1>2, <2>1 DEF Turn, CountTo, Boundary
<1>3. CASE ~(Boundary(b) > end)
  <2>1. Earlier(end, Boundary(b)) = Boundary(b) BY <1>1, <1>3 DEF Earlier
  <2> QED BY <1>3, <2>1 DEF Turn, CountTo, MoveOn, Boundary
<1> QED BY <1>2, <1>3

LEMMA CountsTwice ==
    ASSUME NEW b \in BoxRecord, NEW at \in Nat, NEW until \in Nat, b.accounted <= at, at <= until
    PROVE  CountTo(CountTo(b, at), until) = CountTo(b, until)
<1> DEFINE c == CountTo(b, at)  d == CountTo(c, until)  e == CountTo(b, until)
<1>1. /\ b.status \in Status /\ b.seconds \in [Status -> Nat] /\ b.accounted \in Nat /\ b.accounted <= until
  BY DEF BoxRecord
<1>2. c \in BoxRecord /\ c.accounted = at /\ c.status = b.status BY Counts
<1>3. /\ d \in BoxRecord /\ d.accounted = until /\ d.status = b.status /\ d.since = b.since
      /\ d.activity = b.activity /\ d.edits = b.edits /\ d.skipped = b.skipped
      /\ d.seconds = [c.seconds EXCEPT ![b.status] = @ + until - at]
  <2>1. c.since = b.since /\ c.activity = b.activity /\ c.edits = b.edits /\ c.skipped = b.skipped BY Counts
  <2> HIDE DEF c
  <2> QED BY <1>2, <2>1, Counts
<1>4. c.seconds = [b.seconds EXCEPT ![b.status] = @ + at - b.accounted] BY Counts
<1>5. /\ e \in BoxRecord /\ e.accounted = until /\ e.status = b.status /\ e.since = b.since
      /\ e.activity = b.activity /\ e.edits = b.edits /\ e.skipped = b.skipped
      /\ e.seconds = [b.seconds EXCEPT ![b.status] = @ + until - b.accounted]
  BY <1>1, Counts
<1> HIDE DEF c, d, e
<1>6. d.seconds = e.seconds BY <1>1, <1>3, <1>4, <1>5
<1>7. d = e BY <1>3, <1>5, <1>6 DEF BoxRecord
<1> QED BY <1>7 DEF c, d, e

(* Below its boundary a box may be counted on the way. *)
LEMMA PauseBelow ==
    ASSUME NEW b \in BoxRecord, NEW at \in Nat, NEW end \in Nat, b.accounted <= at, at <= end, Boundary(b) > at
    PROVE  Turn(CountTo(b, at), end) = Turn(b, end)
<1> DEFINE c == CountTo(b, at)
<1>1. c \in BoxRecord /\ c.accounted = at /\ c.status = b.status /\ Deadline(c) = Deadline(b) BY Counts
<1>2. b.accounted \in Nat /\ b.accounted <= end BY DEF BoxRecord
<1>3. Boundary(b) = Deadline(b) /\ Deadline(b) > at /\ Deadline(b) \in Nat BY Deadlines
<1>4. Boundary(c) = Boundary(b) BY <1>1, <1>3 DEF Boundary, Later
<1>5. Boundary(b) > end => CountTo(c, end) = CountTo(b, end) BY CountsTwice
<1>6. CountTo(c, Boundary(b)) = CountTo(b, Boundary(b)) BY <1>3, CountsTwice
<1>7. MoveOn(c) = MoveOn(b) BY <1>4, <1>6 DEF MoveOn
<1> HIDE DEF c
<1>8. Turn(c, end) = IF Boundary(c) > end THEN CountTo(c, end) ELSE MoveOn(c) BY <1>1, TurnIs
<1>9. Turn(b, end) = IF Boundary(b) > end THEN CountTo(b, end) ELSE MoveOn(b) BY <1>2, TurnIs
<1> QED BY <1>4, <1>5, <1>7, <1>8, <1>9 DEF c

(* At its end a box stays; a suspended one always reaches it.              *)
LEMMA StaysAtEnd ==
    ASSUME NEW b \in BoxRecord, NEW end \in Nat, b.accounted <= end, Boundary(b) > end
    PROVE  Turn(b, end) = CountTo(b, end) /\ Turn(CountTo(b, end), end) = CountTo(b, end)
<1>1. Turn(b, end) = CountTo(b, end) BY TurnIs
<1>2. Turn(CountTo(b, end), end) = Turn(b, end) BY PauseBelow
<1> QED BY <1>1, <1>2

(* The turns a tick takes: as many as there are boundaries before its end. *)
LEMMA TurnsAre ==
    ASSUME NEW b \in BoxRecord, NEW end \in Nat, b.accounted <= end, end <= LastNow
    PROVE  /\ Boundary(b) > end => Turn(Turn(Turn(b, end), end), end) = CountTo(b, end)
           /\ Boundary(b) <= end =>
                /\ b.status # "Suspend" /\ MoveOn(b) \in BoxRecord /\ MoveOn(b).accounted <= end
                /\ Turn(b, end) = MoveOn(b)
                /\ Boundary(MoveOn(b)) > end =>
                     Turn(Turn(b, end), end) = CountTo(MoveOn(b), end)
                     /\ Turn(Turn(Turn(b, end), end), end) = CountTo(MoveOn(b), end)
                /\ Boundary(MoveOn(b)) <= end =>
                     /\ MoveOn(b).status = "Idle"
                     /\ MoveOn(MoveOn(b)) \in BoxRecord /\ MoveOn(MoveOn(b)).accounted <= end
                     /\ MoveOn(MoveOn(b)).status = "Suspend" /\ Boundary(MoveOn(MoveOn(b))) > end
                     /\ Turn(Turn(b, end), end) = MoveOn(MoveOn(b))
                     /\ Turn(Turn(Turn(b, end), end), end) = CountTo(MoveOn(MoveOn(b)), end)
<1>0. Boundary(b) \in Nat BY Deadlines
<1>1. CASE Boundary(b) > end BY <1>0, <1>1, StaysAtEnd
<1>2. CASE Boundary(b) <= end
  <2> DEFINE m == MoveOn(b)  mm == MoveOn(m)
  <2>1. b.status # "Suspend" BY <1>0, <1>2, Deadlines
  <2>2. /\ m \in BoxRecord /\ m.accounted = Boundary(b)
        /\ m.status = IF b.status = "Active" THEN "Idle" ELSE "Suspend"
    BY <2>1, Moves
  <2>3. Turn(b, end) = m BY <1>0, <1>2, TurnIs
  <2>4. m.accounted <= end BY <1>2, <2>2
  <2> HIDE DEF m
  <2>5. Boundary(m) \in Nat BY <2>2, Deadlines
  <2>6. CASE Boundary(m) > end
    <3>1. Turn(m, end) = CountTo(m, end) /\ Turn(CountTo(m, end), end) = CountTo(m, end)
      BY <2>2, <2>4, <2>6, StaysAtEnd
    <3> QED BY <1>0, <1>2, <2>1, <2>2, <2>3, <2>4, <2>5, <2>6, <3>1 DEF m
  <2>7. CASE Boundary(m) <= end
    <3>1. m.status # "Suspend" BY <2>2, <2>5, <2>7, Deadlines
    <3>2. m.status = "Idle" BY <2>2, <3>1
    <3>3. mm \in BoxRecord /\ mm.accounted = Boundary(m) /\ mm.status = "Suspend"
      BY <2>2, <3>1, <3>2, Moves
    <3>4. Turn(m, end) = mm BY <2>2, <2>4, <2>5, <2>7, TurnIs
    <3>5. mm.accounted <= end BY <2>7, <3>3
    <3> HIDE DEF mm
    <3>6. Boundary(mm) > end BY <3>3, Deadlines
    <3>7. Turn(mm, end) = CountTo(mm, end) BY <3>3, <3>5, <3>6, StaysAtEnd
    <3> QED BY <1>0, <1>2, <2>1, <2>2, <2>3, <2>4, <2>5, <2>7, <3>2, <3>3, <3>4, <3>5, <3>6, <3>7 DEF m, mm
  <2> QED BY <2>5, <2>6, <2>7
<1> QED BY <1>0, <1>1, <1>2

(* Settling counts what is left up to its end, and nothing else.           *)
CountedUpTo(c, b, at) ==
    /\ c \in BoxRecord /\ c.accounted = at /\ c.edits = b.edits /\ c.skipped = b.skipped
    /\ Total(c) = Total(b) + (at - b.accounted)

LEMMA CountedOn ==
    ASSUME NEW b \in BoxRecord, NEW c \in BoxRecord, NEW at \in Nat, CountedUpTo(c, b, c.accounted),
           c.accounted <= at
    PROVE  CountedUpTo(CountTo(c, at), b, at)
<1>1. c.accounted \in Nat /\ b.accounted \in Nat /\ Total(b) \in Nat BY DEF BoxRecord, Total, Status
<1>2. /\ CountTo(c, at) \in BoxRecord /\ CountTo(c, at).accounted = at
      /\ CountTo(c, at).edits = c.edits /\ CountTo(c, at).skipped = c.skipped
      /\ Total(CountTo(c, at)) = Total(c) + (at - c.accounted)
  BY Counts
<1>3. /\ c.edits = b.edits /\ c.skipped = b.skipped
      /\ Total(c) = Total(b) + (c.accounted - b.accounted)
  BY DEF CountedUpTo
<1> QED BY <1>1, <1>2, <1>3 DEF CountedUpTo

LEMMA MovedOn ==
    ASSUME NEW b \in BoxRecord, NEW c \in BoxRecord, CountedUpTo(c, b, c.accounted),
           c.status # "Suspend"
    PROVE  CountedUpTo(MoveOn(c), b, MoveOn(c).accounted)
<1>1. c.accounted \in Nat /\ b.accounted \in Nat /\ Total(b) \in Nat /\ Boundary(c) \in Nat
  BY Deadlines DEF BoxRecord, Total, Status
<1> QED BY <1>1, Moves DEF CountedUpTo

LEMMA Settles ==
    ASSUME NEW b \in BoxRecord, NEW at \in Nat, b.accounted <= at, at <= LastNow
    PROVE  CountedUpTo(Settle(b, at), b, at)
<1>1. Settle(b, at) = Turn(Turn(Turn(b, at), at), at)
  <2>1. Later(b.accounted, at) = at BY DEF Later, BoxRecord
  <2> QED BY <2>1 DEF Settle
<1>2. CountedUpTo(b, b, b.accounted)
  <2>1. b.accounted \in Nat /\ Total(b) \in Nat BY DEF BoxRecord, Total, Status
  <2> QED BY <2>1 DEF CountedUpTo
<1>3. Boundary(b) \in Nat BY Deadlines
<1>4. CASE Boundary(b) > at BY <1>1, <1>2, <1>4, CountedOn, TurnsAre
<1>5. CASE Boundary(b) <= at
  <2> DEFINE m == MoveOn(b)  mm == MoveOn(m)
  <2>1. b.status # "Suspend" /\ m \in BoxRecord /\ m.accounted <= at BY <1>5, TurnsAre
  <2>2. CountedUpTo(m, b, m.accounted) BY <1>2, <2>1, MovedOn
  <2>3. Boundary(m) \in Nat BY <2>1, Deadlines
  <2>4. CASE Boundary(m) > at
    <3>1. Settle(b, at) = CountTo(m, at) BY <1>1, <1>5, <2>4, TurnsAre
    <3> HIDE DEF m
    <3> QED BY <2>1, <2>2, <3>1, CountedOn
  <2>5. CASE Boundary(m) <= at
    <3>1. /\ m.status = "Idle" /\ mm \in BoxRecord /\ mm.accounted <= at
          /\ Settle(b, at) = CountTo(mm, at)
      BY <1>1, <1>5, <2>5, TurnsAre
    <3> HIDE DEF m
    <3>2. CountedUpTo(mm, b, mm.accounted) BY <2>1, <2>2, <3>1, MovedOn
    <3> HIDE DEF mm
    <3> QED BY <3>1, <3>2, CountedOn
  <2> QED BY <2>3, <2>4, <2>5
<1> QED BY <1>3, <1>4, <1>5

(* A tick that comes late ends as one that came on the way.                *)
LEMMA LateTick ==
    ASSUME NEW b \in BoxRecord, NEW at \in Nat, NEW end \in Nat, b.accounted <= at, at <= end, end <= LastNow
    PROVE  Settle(Settle(b, at), end) = Settle(b, end)
<1>1. b.accounted \in Nat /\ b.accounted <= end /\ at <= LastNow BY DemoAssumption DEF BoxRecord
<1>2. /\ Settle(b, at) = Turn(Turn(Turn(b, at), at), at)
      /\ Settle(b, end) = Turn(Turn(Turn(b, end), end), end)
  BY <1>1 DEF Settle, Later
<1>3. ASSUME NEW c \in BoxRecord, c.accounted <= at, Boundary(c) > at
      PROVE  Settle(CountTo(c, at), end) = Turn(Turn(Turn(c, end), end), end)
  <2>1. CountTo(c, at) \in BoxRecord /\ CountTo(c, at).accounted = at BY <1>3, Counts
  <2>2. Later(CountTo(c, at).accounted, end) = end BY <2>1 DEF Later
  <2>3. Turn(CountTo(c, at), end) = Turn(c, end) BY <1>3, PauseBelow
  <2> QED BY <2>2, <2>3 DEF Settle
<1>4. Boundary(b) \in Nat BY Deadlines
<1>5. CASE Boundary(b) > at
  <2>1. Settle(b, at) = CountTo(b, at) BY <1>1, <1>2, <1>5, TurnsAre
  <2> QED BY <1>2, <1>3, <1>5, <2>1
<1>6. CASE Boundary(b) <= at
  <2> DEFINE m == MoveOn(b)  mm == MoveOn(m)
  <2>1. /\ b.status # "Suspend" /\ m \in BoxRecord /\ m.accounted <= at /\ Boundary(b) <= end
    BY <1>1, <1>4, <1>6, TurnsAre
  <2>2. Turn(b, end) = m BY <1>1, <2>1, TurnsAre
  <2>3. Boundary(m) \in Nat /\ m.accounted \in Nat /\ m.accounted <= end BY <2>1, Deadlines DEF BoxRecord
  <2>4. m.status # "Active" BY <2>1, Moves
  <2>5. CASE Boundary(m) > at
    <3>1. Settle(b, at) = CountTo(m, at) BY <1>1, <1>2, <1>6, <2>5, TurnsAre
    <3> HIDE DEF m
    <3>2. Settle(CountTo(m, at), end) = Turn(Turn(Turn(m, end), end), end) BY <1>3, <2>1, <2>5
    <3>3. Turn(Turn(Turn(m, end), end), end) = Turn(Turn(m, end), end)
      <4>1. CASE Boundary(m) > end BY <2>1, <2>3, <4>1, StaysAtEnd
      <4>2. CASE Boundary(m) <= end
        <5>1. m.status # "Suspend" /\ MoveOn(m) \in BoxRecord /\ MoveOn(m).accounted <= end
              /\ Turn(m, end) = MoveOn(m)
          BY <2>1, <2>3, <4>2, TurnsAre
        <5>2. MoveOn(m).status = "Suspend" BY <2>1, <2>4, <5>1, Moves
        <5>3. Boundary(MoveOn(m)) > end BY <5>1, <5>2, Deadlines
        <5> QED BY <5>1, <5>3, StaysAtEnd
      <4> QED BY <2>3, <4>1, <4>2
    <3> QED BY <1>2, <2>2, <3>1, <3>2, <3>3
  <2>6. CASE Boundary(m) <= at
    <3>1. /\ m.status = "Idle" /\ mm \in BoxRecord /\ mm.accounted <= at /\ mm.status = "Suspend"
          /\ Boundary(mm) > at /\ Settle(b, at) = CountTo(mm, at)
      BY <1>1, <1>2, <1>6, <2>6, TurnsAre
    <3>2. Boundary(m) <= end BY <2>3, <2>6
    <3>3. Settle(b, end) = CountTo(mm, end) BY <1>1, <1>2, <2>1, <3>2, TurnsAre
    <3> HIDE DEF m, mm
    <3>4. Settle(CountTo(mm, at), end) = Turn(Turn(Turn(mm, end), end), end) BY <1>3, <3>1
    <3>5. mm.accounted \in Nat /\ mm.accounted <= end /\ Boundary(mm) > end
      BY <1>1, <3>1, Deadlines DEF BoxRecord
    <3>6. Turn(Turn(Turn(mm, end), end), end) = CountTo(mm, end) BY <3>1, <3>5, TurnsAre
    <3> QED BY <3>1, <3>3, <3>4, <3>6
  <2> QED BY <2>3, <2>5, <2>6
<1> QED BY <1>4, <1>5, <1>6

-----------------------------------------------------------------------------
(* Up to its last accounting a copy has counted what was shown, but for    *)
(* what was skipped, and since then a page was open all the time.          *)
Sound(b, at, sh) ==
    b \in BoxRecord /\ b.accounted <= at /\ Total(b) + b.skipped = sh[b.accounted]
Unbroken(b, at, sh) == sh[at] - sh[b.accounted] = at - b.accounted

(* What is shown by a time is known, and grows.                            *)
ShownSoFar(at, sh) ==
    /\ at \in 0..LastNow /\ sh \in [0..LastNow -> Nat] /\ sh[0] = 0
    /\ \A early \in 0..at : sh[early] <= sh[at]

LEMMA FreshSound ==
    ASSUME NEW at, NEW sh, ShownSoFar(at, sh) PROVE Sound(Fresh, at, sh)
<1>1. Fresh.seconds \in [Status -> Nat] BY DEF Fresh
<1>2. Fresh \in BoxRecord BY DEF Fresh, BoxRecord, Status
<1>3. Total(Fresh) = 0 /\ Fresh.skipped = 0 /\ Fresh.accounted = 0 BY DEF Fresh, Total, Status
<1> QED BY <1>2, <1>3, DemoAssumption DEF Sound, ShownSoFar

(* A box settled, restored or edited at this time is accounted up to it,   *)
(* and so unbroken.                                                        *)
Accounted(c, at, sh) == Sound(c, at, sh) /\ c.accounted = at

LEMMA AccountedUnbroken ==
    ASSUME NEW at, NEW sh, ShownSoFar(at, sh), NEW c, Accounted(c, at, sh)
    PROVE  Sound(c, at, sh) /\ Unbroken(c, at, sh)
BY DemoAssumption DEF Accounted, Unbroken, ShownSoFar

LEMMA SettleSound ==
    ASSUME NEW b, NEW at, NEW sh, ShownSoFar(at, sh), Sound(b, at, sh), Unbroken(b, at, sh)
    PROVE  /\ Accounted(Settle(b, at), at, sh)
           /\ Settle(b, at).edits = b.edits /\ Settle(b, at).skipped = b.skipped
<1>1. /\ b \in BoxRecord /\ b.accounted \in Nat /\ b.skipped \in Nat /\ Total(b) \in Nat
      /\ b.accounted <= at /\ at \in Nat /\ at <= LastNow
  BY DemoAssumption DEF Sound, ShownSoFar, BoxRecord, Total, Status
<1> DEFINE c == Settle(b, at)
<1>2. CountedUpTo(c, b, at) BY <1>1, Settles
<1> HIDE DEF c
<1>3. sh[at] \in Nat /\ sh[b.accounted] \in Nat
  BY <1>1, DemoAssumption DEF ShownSoFar
<1>4. Total(c) + c.skipped = sh[at]
  BY <1>1, <1>2, <1>3 DEF CountedUpTo, Sound, Unbroken
<1> QED BY <1>1, <1>2, <1>4 DEF CountedUpTo, Accounted, Sound, c

LEMMA RestoreSound ==
    ASSUME NEW b, NEW at, ShownSoFar(at, shown), Sound(b, at, shown)
    PROVE  /\ Accounted(RestoreClock(b, at), at, shown) /\ RestoreClock(b, at).edits = b.edits
           /\ RestoreClock(b, at).skipped = b.skipped + (shown[at] - shown[b.accounted])
<1> DEFINE shift == at - b.accounted  c == RestoreClock(b, at)
           skip == b.skipped + shown[at] - shown[b.accounted]
<1>1. /\ b \in BoxRecord /\ b.accounted \in Nat /\ b.accounted <= at /\ b.activity \in Nat /\ b.since \in Nat
      /\ b.skipped \in Nat /\ Total(b) \in Nat /\ Total(b) + b.skipped = shown[b.accounted]
      /\ at \in Nat
  BY DemoAssumption DEF Sound, ShownSoFar, BoxRecord, Total, Status
<1>2. shown[at] \in Nat /\ shown[b.accounted] \in Nat /\ shown[b.accounted] <= shown[at]
  BY <1>1, DemoAssumption DEF ShownSoFar
<1>3. Earlier(b.accounted, at) = b.accounted BY <1>1 DEF Earlier
<1>4. c = [b EXCEPT !.activity = Earlier(@, b.accounted) + shift, !.since = Earlier(@, b.accounted) + shift,
                    !.accounted = @ + shift, !.skipped = skip]
  BY <1>1, <1>3 DEF RestoreClock
<1>5. shift \in Nat /\ Earlier(b.activity, b.accounted) + shift \in Nat /\ Earlier(b.since, b.accounted) + shift \in Nat
      /\ b.accounted + shift = at
  BY <1>1 DEF Earlier
<1>6. skip \in Nat /\ skip = b.skipped + (shown[at] - shown[b.accounted])
  BY <1>1, <1>2
<1> HIDE DEF shift, c, skip
<1>7. c \in BoxRecord /\ c.seconds = b.seconds /\ c.skipped = skip /\ c.accounted = at /\ c.edits = b.edits
  BY <1>1, <1>4, <1>5, <1>6 DEF BoxRecord
<1>8. Total(c) = Total(b) BY <1>7 DEF Total
<1> QED BY <1>1, <1>2, <1>5, <1>6, <1>7, <1>8 DEF Sound, Accounted, c

LEMMA EditSound ==
    ASSUME NEW b, NEW at, NEW sh, ShownSoFar(at, sh), Sound(b, at, sh), Unbroken(b, at, sh), NEW t \in Tab,
           NEW new \in {RecordActivity(b, at)} \cup {SetState(b, s, at) : s \in Status}
    PROVE  /\ Accounted([new EXCEPT !.edits = @ \cup {t}], at, sh)
           /\ [new EXCEPT !.edits = @ \cup {t}].edits = b.edits \cup {t}
           /\ [new EXCEPT !.edits = @ \cup {t}].skipped = b.skipped
<1> DEFINE settled == Settle(b, at)  c == [new EXCEPT !.edits = @ \cup {t}]
<1>1. /\ Accounted(settled, at, sh) /\ settled.edits = b.edits /\ settled.skipped = b.skipped
      /\ settled \in BoxRecord
  BY SettleSound DEF Sound, Accounted
<1> HIDE DEF settled
<1>2. /\ new \in BoxRecord /\ new.seconds = settled.seconds /\ new.skipped = settled.skipped
      /\ new.accounted = settled.accounted /\ new.edits = settled.edits
  <2>1. CASE new = RecordActivity(b, at)
    <3>1. new = [settled EXCEPT !.activity = settled.accounted] BY <2>1 DEF RecordActivity, settled
    <3> QED BY <1>1, <3>1 DEF BoxRecord
  <2>2. ASSUME NEW s \in Status, new = SetState(b, s, at)
        PROVE  /\ new \in BoxRecord /\ new.seconds = settled.seconds /\ new.skipped = settled.skipped
               /\ new.accounted = settled.accounted /\ new.edits = settled.edits
    <3>1. new = [settled EXCEPT !.status = s, !.since = settled.accounted, !.activity = settled.accounted]
      BY <2>2 DEF SetState, settled
    <3> QED BY <1>1, <3>1 DEF BoxRecord
  <2> QED BY <2>1, <2>2
<1>3. /\ c \in BoxRecord /\ c.seconds = new.seconds /\ c.skipped = new.skipped /\ c.accounted = new.accounted
      /\ c.edits = new.edits \cup {t}
  BY <1>2 DEF BoxRecord
<1> HIDE DEF c
<1>4. Total(c) = Total(settled) BY <1>2, <1>3 DEF Total
<1> QED BY <1>1, <1>2, <1>3, <1>4 DEF c, Accounted, Sound

-----------------------------------------------------------------------------
(* The tabs.  What one has and is sent is sound; while its page is open,   *)
(* its copy and whatever it may still adopt are unbroken.                  *)
Phases == {"closed", "cached", "open", "saving", "writing"}
StoredState == [revision : Nat, box : BoxRecord]
GoodTab(p, box, r, k, evs, st, at, sh) ==
    /\ Sound(box, at, sh) /\ \A e \in evs : Sound(e.box, at, sh)
    /\ p \in OpenPhases =>
          /\ Unbroken(box, at, sh)
          /\ st.revision > r => Unbroken(st.box, at, sh)
          /\ \A e \in evs : e.revision > r => Unbroken(e.box, at, sh)
    /\ p \notin OpenPhases => evs = {}
    /\ p = "writing" => k <= r

(* As long as nobody wrote between another's check and write, a tab that   *)
(* is at the stored revision holds every edit that is stored.              *)
InStep(box, r, evs, st) ==
    /\ r <= st.revision /\ (r = st.revision => st.box.edits \subseteq box.edits)
    /\ \A e \in evs : e.revision <= st.revision /\ (e.revision = st.revision => e.box = st.box)
UpToDate ==
    /\ \A t \in Tab : InStep(memory[t], rev[t], events[t], stored)
    /\ written \subseteq stored.box.edits

(* As long as one page is open at a time, it has what is stored, and what  *)
(* is stored has all that was shown once it is gone.                       *)
OneTab(p, box, r, k, evs, st, at) ==
    /\ r <= st.revision /\ (p \in OpenPhases => r = st.revision)
    /\ p = "writing" => box.accounted = at /\ k = st.revision
    /\ p = "cached" /\ r = st.revision => box.accounted = st.box.accounted
    /\ box.skipped = 0 /\ \A e \in evs : e.box.skipped = 0
OneByOne ==
    /\ ~raced /\ stored.box.skipped = 0
    /\ \A t \in Tab : /\ OneTab(phase[t], memory[t], rev[t], checked[t], events[t], stored, pageTime)
                      /\ PageOpen(t) => ~PageBeside(t)
    /\ (\A t \in Tab : ~PageOpen(t)) => shown[pageTime] = shown[stored.box.accounted]

DemoTypes ==
    /\ ShownSoFar(pageTime, shown) /\ phase \in [Tab -> Phases]
    /\ rev \in [Tab -> Nat] /\ checked \in [Tab -> Nat] /\ memory \in [Tab -> BoxRecord]
    /\ stored \in StoredState /\ events \in [Tab -> SUBSET StoredState]
DemoInv ==
    /\ DemoTypes /\ Sound(stored.box, pageTime, shown)
    /\ \A t \in Tab :
          GoodTab(phase[t], memory[t], rev[t], checked[t], events[t], stored, pageTime, shown)
    /\ raced \/ UpToDate
    /\ overlap \/ OneByOne

LEMMA DemoInitially == DemoInit => DemoInv
<1> SUFFICES ASSUME DemoInit PROVE DemoInv OBVIOUS
<1>1. ShownSoFar(pageTime, shown) BY DemoAssumption DEF DemoInit, ShownSoFar
<1>2. Sound(Fresh, pageTime, shown) /\ Fresh \in BoxRecord BY <1>1, FreshSound DEF Sound
<1>3. /\ stored = [revision |-> 0, box |-> Fresh]
      /\ \A t \in Tab : /\ phase[t] = "closed" /\ memory[t] = Fresh /\ rev[t] = 0
                        /\ events[t] = {} /\ checked[t] = 0
      /\ raced = FALSE /\ written = {} /\ pageTime = 0 /\ Fresh.accounted = 0 /\ Fresh.skipped = 0
  BY DEF DemoInit, Fresh
<1>4. DemoTypes BY <1>1, <1>2, <1>3 DEF DemoInit, DemoTypes, Phases, StoredState
<1>5. \A t \in Tab :
         GoodTab(phase[t], memory[t], rev[t], checked[t], events[t], stored, pageTime, shown)
  BY <1>2, <1>3 DEF GoodTab, OpenPhases
<1>6. UpToDate BY <1>3 DEF UpToDate, InStep
<1>7. OneByOne BY <1>3 DEF OneByOne, OneTab, PageOpen, OpenPhases
<1> QED BY <1>2, <1>3, <1>4, <1>5, <1>6, <1>7 DEF DemoInv

(* One tab changes what is its own and leaves the storage alone.           *)
LEMMA TabChanges ==
    ASSUME DemoInv, NEW t \in Tab, NEW p \in Phases, NEW box \in BoxRecord, NEW r \in Nat,
           NEW k \in Nat, NEW evs \in SUBSET StoredState,
           phase' = [phase EXCEPT ![t] = p], memory' = [memory EXCEPT ![t] = box],
           rev' = [rev EXCEPT ![t] = r], checked' = [checked EXCEPT ![t] = k],
           events' = [events EXCEPT ![t] = evs],
           UNCHANGED <<pageTime, stored, written, raced, shown>>,
           GoodTab(p, box, r, k, evs, stored, pageTime, shown),
           raced \/ InStep(box, r, evs, stored),
           overlap => overlap',
           ~overlap' => /\ OneTab(p, box, r, k, evs, stored, pageTime)
                        /\ p \in OpenPhases /\ ~PageBeside(t)
    PROVE  DemoInv'
<1>1. DemoTypes' BY DEF DemoInv, DemoTypes
<1>2. /\ memory'[t] = box /\ rev'[t] = r /\ checked'[t] = k /\ phase'[t] = p /\ events'[t] = evs
      /\ \A u \in Tab \ {t} : /\ memory'[u] = memory[u] /\ rev'[u] = rev[u]
                              /\ checked'[u] = checked[u] /\ phase'[u] = phase[u]
                              /\ events'[u] = events[u]
  BY DEF DemoInv, DemoTypes
<1>3. \A u \in Tab :
         GoodTab(phase'[u], memory'[u], rev'[u], checked'[u], events'[u], stored, pageTime, shown)
  BY <1>2 DEF DemoInv
<1>4. raced \/ UpToDate'
  <2> SUFFICES ASSUME ~raced PROVE UpToDate' OBVIOUS
  <2>1. \A u \in Tab : InStep(memory'[u], rev'[u], events'[u], stored)
    BY <1>2 DEF DemoInv, UpToDate
  <2> QED BY <2>1 DEF DemoInv, UpToDate
<1>5. overlap' \/ OneByOne'
  <2> SUFFICES ASSUME ~overlap' PROVE OneByOne' OBVIOUS
  <2>1. OneByOne BY DEF DemoInv
  <2>2. \A u \in Tab :
           OneTab(phase'[u], memory'[u], rev'[u], checked'[u], events'[u], stored, pageTime)
    BY <1>2, <2>1 DEF OneByOne
  <2>3. \A u \in Tab : phase'[u] \in OpenPhases <=> u = t
    BY <1>2 DEF PageBeside, PageOpen
  <2>4. \A u \in Tab : PageOpen(u)' => ~PageBeside(u)'
    BY <2>3 DEF PageBeside, PageOpen
  <2>5. PageOpen(t)' BY <2>3 DEF PageOpen
  <2> QED BY <2>1, <2>2, <2>4, <2>5 DEF OneByOne
<1> QED BY <1>1, <1>3, <1>4, <1>5 DEF DemoInv

(* Taking a newer stored state, or keeping what one has. *)
Refreshed(t) == IF Newer(t, stored) THEN stored.box ELSE memory[t]
RefreshedRev(t) == IF Newer(t, stored) THEN stored.revision ELSE rev[t]
LEMMA RefreshKeeps ==
    ASSUME DemoInv, NEW t \in Tab
    PROVE  /\ Sound(Refreshed(t), pageTime, shown) /\ Refreshed(t) \in BoxRecord
           /\ PageOpen(t) => Unbroken(Refreshed(t), pageTime, shown)
           /\ RefreshedRev(t) \in Nat /\ stored.revision \in Nat
           /\ rev[t] <= RefreshedRev(t) /\ ~(stored.revision > RefreshedRev(t))
           /\ raced \/ /\ RefreshedRev(t) = stored.revision
                          => stored.box.edits \subseteq Refreshed(t).edits
                       /\ RefreshedRev(t) <= stored.revision
           /\ overlap \/ (RefreshedRev(t) = stored.revision /\ Refreshed(t).skipped = 0)
<1>1. rev[t] \in Nat /\ stored.revision \in Nat BY DEF DemoInv, DemoTypes, StoredState
<1>2. /\ GoodTab(phase[t], memory[t], rev[t], checked[t], events[t], stored, pageTime, shown)
      /\ Sound(stored.box, pageTime, shown)
      /\ raced \/ InStep(memory[t], rev[t], events[t], stored)
      /\ overlap \/ /\ OneTab(phase[t], memory[t], rev[t], checked[t], events[t], stored, pageTime)
                    /\ stored.box.skipped = 0
  BY DEF DemoInv, UpToDate, OneByOne
<1>3. CASE Newer(t, stored)
  BY <1>1, <1>2, <1>3 DEF Newer, Refreshed, RefreshedRev, GoodTab, PageOpen, OneTab, Sound
<1>4. CASE ~Newer(t, stored)
  BY <1>1, <1>2, <1>4 DEF Newer, Refreshed, RefreshedRev, GoodTab, PageOpen, OneTab, InStep, Sound
<1> QED BY <1>3, <1>4


(* A page that is loaded or shown has all that was shown in the copy it    *)
(* restores, if no other is open.                                          *)
LEMMA ShownWhole ==
    ASSUME DemoInv, NEW t \in Tab, phase[t] \in {"closed", "cached"}, ~overlap, ~PageBeside(t),
           NEW box \in {stored.box, memory[t]},
           box = stored.box \/ (phase[t] = "cached" /\ rev[t] = stored.revision)
    PROVE  shown[pageTime] - shown[box.accounted] = 0
<1>1. OneByOne BY DEF DemoInv
<1>2. \A u \in Tab : ~PageOpen(u) BY DEF PageBeside, PageOpen, OpenPhases
<1>3. shown[pageTime] = shown[stored.box.accounted] BY <1>1, <1>2 DEF OneByOne
<1>4. box.accounted = stored.box.accounted BY <1>1 DEF OneByOne, OneTab
<1>5. shown[pageTime] \in Nat BY DEF DemoInv, DemoTypes, ShownSoFar
<1> QED BY <1>3, <1>4, <1>5

LEMMA LoadStep == ASSUME DemoInv, NEW t \in Tab, Load(t) PROVE DemoInv'
<1> DEFINE box == RestoreClock(stored.box, pageTime)
<1>1. /\ phase[t] = "closed" /\ phase' = [phase EXCEPT ![t] = "open"]
      /\ memory' = [memory EXCEPT ![t] = box] /\ rev' = [rev EXCEPT ![t] = stored.revision]
      /\ overlap' = (overlap \/ PageBeside(t))
      /\ UNCHANGED <<pageTime, stored, events, edited, written, checked, raced, shown>>
  BY DEF Load
<1>2. /\ Accounted(box, pageTime, shown) /\ box.edits = stored.box.edits
      /\ box.skipped = stored.box.skipped + (shown[pageTime] - shown[stored.box.accounted])
  BY RestoreSound DEF DemoInv, DemoTypes
<1> HIDE DEF box
<1>3. /\ checked' = [checked EXCEPT ![t] = checked[t]] /\ checked[t] \in Nat
      /\ events' = [events EXCEPT ![t] = {}] /\ stored.revision \in Nat /\ "open" \in Phases
      /\ "open" \in OpenPhases
  BY <1>1 DEF DemoInv, DemoTypes, GoodTab, StoredState, Phases, OpenPhases
<1>4. Sound(box, pageTime, shown) /\ Unbroken(box, pageTime, shown) /\ box \in BoxRecord
  BY <1>2, AccountedUnbroken DEF DemoInv, DemoTypes, Sound
<1>5. GoodTab("open", box, stored.revision, checked[t], {}, stored, pageTime, shown)
  BY <1>3, <1>4 DEF GoodTab
<1>6. InStep(box, stored.revision, {}, stored) BY <1>2, <1>3 DEF InStep
<1>7. ~overlap' => OneTab("open", box, stored.revision, checked[t], {}, stored, pageTime)
  <2> SUFFICES ASSUME ~overlap' PROVE OneTab("open", box, stored.revision, checked[t], {}, stored, pageTime)
    OBVIOUS
  <2>1. ~overlap /\ ~PageBeside(t) BY <1>1
  <2>2. shown[pageTime] - shown[stored.box.accounted] = 0 BY <1>1, <2>1, ShownWhole
  <2>3. stored.box.skipped = 0 BY <2>1 DEF DemoInv, OneByOne
  <2>4. box.skipped = 0 BY <1>2, <2>2, <2>3
  <2> QED BY <1>3, <2>4 DEF OneTab
<1>8. overlap => overlap' BY <1>1
<1>9. ~overlap' => "open" \in OpenPhases /\ ~PageBeside(t) BY <1>1, <1>3
<1>10. {} \in SUBSET StoredState OBVIOUS
<1> QED BY <1>1, <1>3, <1>4, <1>5, <1>6, <1>7, <1>8, <1>9, <1>10, TabChanges

LEMMA PageShowStep == ASSUME DemoInv, NEW t \in Tab, PageShow(t) PROVE DemoInv'
<1> DEFINE box == RestoreClock(Refreshed(t), pageTime)
           r == RefreshedRev(t)
<1>1. /\ phase[t] = "cached" /\ phase' = [phase EXCEPT ![t] = "open"]
      /\ memory' = [memory EXCEPT ![t] = box] /\ rev' = [rev EXCEPT ![t] = r]
      /\ overlap' = (overlap \/ PageBeside(t))
      /\ UNCHANGED <<pageTime, stored, events, edited, written, checked, raced, shown>>
  BY DEF PageShow, Refreshed, RefreshedRev
<1>2. /\ Accounted(box, pageTime, shown) /\ box.edits = Refreshed(t).edits
      /\ box.skipped = Refreshed(t).skipped + (shown[pageTime] - shown[Refreshed(t).accounted])
  BY RestoreSound, RefreshKeeps DEF DemoInv, DemoTypes
<1> HIDE DEF box, r
<1>3. /\ checked' = [checked EXCEPT ![t] = checked[t]] /\ checked[t] \in Nat
      /\ events' = [events EXCEPT ![t] = {}] /\ "open" \in Phases /\ "open" \in OpenPhases
      /\ r \in Nat /\ ~(stored.revision > r)
  BY <1>1, RefreshKeeps DEF DemoInv, DemoTypes, GoodTab, Phases, OpenPhases, r
<1>4. Sound(box, pageTime, shown) /\ Unbroken(box, pageTime, shown) /\ box \in BoxRecord
  BY <1>2, AccountedUnbroken DEF DemoInv, DemoTypes, Sound
<1>5. GoodTab("open", box, r, checked[t], {}, stored, pageTime, shown)
  BY <1>3, <1>4 DEF GoodTab
<1>6. raced \/ InStep(box, r, {}, stored) BY <1>2, RefreshKeeps DEF InStep, r
<1>7. ~overlap' => OneTab("open", box, r, checked[t], {}, stored, pageTime)
  <2> SUFFICES ASSUME ~overlap' PROVE OneTab("open", box, r, checked[t], {}, stored, pageTime)
    OBVIOUS
  <2>1. ~overlap /\ ~PageBeside(t) BY <1>1
  <2>2. r = stored.revision /\ Refreshed(t).skipped = 0 BY <2>1, RefreshKeeps DEF r
  <2>3. /\ Refreshed(t) \in {stored.box, memory[t]}
        /\ Refreshed(t) = stored.box \/ (phase[t] = "cached" /\ rev[t] = stored.revision)
    BY <1>1, <2>2 DEF Refreshed, RefreshedRev, r
  <2>4. shown[pageTime] - shown[Refreshed(t).accounted] = 0 BY <1>1, <2>1, <2>3, ShownWhole
  <2>5. box.skipped = 0 BY <1>2, <2>2, <2>4
  <2> QED BY <1>3, <2>2, <2>5 DEF OneTab
<1>8. overlap => overlap' BY <1>1
<1>9. ~overlap' => "open" \in OpenPhases /\ ~PageBeside(t) BY <1>1, <1>3
<1>10. {} \in SUBSET StoredState OBVIOUS
<1> QED BY <1>1, <1>3, <1>4, <1>5, <1>6, <1>7, <1>8, <1>9, <1>10, TabChanges

(* Of an open tab, what it may adopt from a greater revision on.           *)
LEMMA StaysGood ==
    ASSUME DemoInv, NEW t \in Tab, PageOpen(t), NEW p \in OpenPhases, NEW r \in Nat, rev[t] <= r,
           NEW box, Sound(box, pageTime, shown), Unbroken(box, pageTime, shown),
           NEW k, p = "writing" => k <= r
    PROVE  /\ GoodTab(p, box, r, k, events[t], stored, pageTime, shown)
           /\ overlap \/ (rev[t] = stored.revision /\ ~PageBeside(t)
                          /\ \A e \in events[t] : e.box.skipped = 0)
<1>1. /\ GoodTab(phase[t], memory[t], rev[t], checked[t], events[t], stored, pageTime, shown)
      /\ rev[t] \in Nat /\ stored.revision \in Nat /\ \A e \in events[t] : e.revision \in Nat
  BY DEF DemoInv, DemoTypes, StoredState
<1>2. stored.revision > r => stored.revision > rev[t] BY <1>1
<1>3. \A e \in events[t] : e.revision > r => e.revision > rev[t] BY <1>1
<1> QED BY <1>1, <1>2, <1>3 DEF GoodTab, PageOpen, DemoInv, OneByOne, OneTab

LEMMA EditStep == ASSUME DemoInv, NEW t \in Tab, Edit(t) PROVE DemoInv'
<1> DEFINE r == RefreshedRev(t)
<1>1. /\ phase[t] = "open" /\ phase' = [phase EXCEPT ![t] = "saving"] /\ rev' = [rev EXCEPT ![t] = r]
      /\ UNCHANGED <<pageTime, stored, events, written, checked, raced, shown, overlap>>
  BY DEF Edit, RefreshedRev
<1>2. PICK new \in {RecordActivity(Refreshed(t), pageTime)}
                   \cup {SetState(Refreshed(t), s, pageTime) : s \in Status} :
          memory' = [memory EXCEPT ![t] = [new EXCEPT !.edits = @ \cup {t}]]
  BY DEF Edit, Refreshed
<1>3. PageOpen(t) BY <1>1 DEF PageOpen, OpenPhases
<1> DEFINE box == [new EXCEPT !.edits = @ \cup {t}]
<1>4. /\ Accounted(box, pageTime, shown) /\ box.edits = Refreshed(t).edits \cup {t}
      /\ box.skipped = Refreshed(t).skipped
  BY <1>3, EditSound, RefreshKeeps DEF DemoInv, DemoTypes
<1>5. memory' = [memory EXCEPT ![t] = box] BY <1>2
<1> HIDE DEF box, r
<1>6. Sound(box, pageTime, shown) /\ Unbroken(box, pageTime, shown) /\ box \in BoxRecord
  BY <1>4, AccountedUnbroken DEF DemoInv, DemoTypes, Sound
<1>7. /\ checked' = [checked EXCEPT ![t] = checked[t]] /\ checked[t] \in Nat
      /\ events' = [events EXCEPT ![t] = events[t]] /\ events[t] \in SUBSET StoredState
      /\ "saving" \in Phases /\ "saving" \in OpenPhases /\ r \in Nat /\ rev[t] <= r
  BY <1>1, RefreshKeeps DEF DemoInv, DemoTypes, Phases, OpenPhases, r
<1>8. /\ GoodTab("saving", box, r, checked[t], events[t], stored, pageTime, shown)
      /\ overlap \/ (~PageBeside(t) /\ \A e \in events[t] : e.box.skipped = 0)
  BY <1>3, <1>6, <1>7, StaysGood
<1>9. raced \/ InStep(box, r, events[t], stored)
  BY <1>4, RefreshKeeps DEF InStep, DemoInv, UpToDate, r
<1>10. overlap \/ OneTab("saving", box, r, checked[t], events[t], stored, pageTime)
  BY <1>4, <1>7, <1>8, RefreshKeeps DEF OneTab, r
<1> QED BY <1>1, <1>5, <1>6, <1>7, <1>8, <1>9, <1>10, TabChanges

(* A save that finds a newer state takes it, and the page may go.          *)
LEMMA SaveRefused ==
    ASSUME DemoInv, NEW t \in Tab, SaveChecks(t), Newer(t, stored) PROVE DemoInv'
<1>1. /\ phase[t] \in {"open", "saving"} /\ Leaves(t, stored.box, stored.revision)
      /\ events' = [events EXCEPT ![t] = IF phase'[t] \in OpenPhases THEN @ ELSE {}]
      /\ UNCHANGED <<pageTime, stored, edited, written, checked, raced, shown, overlap>>
  BY DEF SaveChecks
<1>2. /\ rev[t] \in Nat /\ stored.revision \in Nat /\ stored.revision > rev[t] /\ stored.box \in BoxRecord
      /\ checked[t] \in Nat /\ checked' = [checked EXCEPT ![t] = checked[t]]
      /\ events[t] \in SUBSET StoredState /\ PageOpen(t) /\ phase \in [Tab -> Phases]
  BY <1>1 DEF DemoInv, DemoTypes, StoredState, Newer, PageOpen, OpenPhases
<1>3. overlap BY <1>2 DEF DemoInv, OneByOne, OneTab, PageOpen
<1>4. /\ Sound(stored.box, pageTime, shown) /\ Unbroken(stored.box, pageTime, shown)
      /\ Sound(Fresh, pageTime, shown)
  BY <1>2, FreshSound DEF DemoInv, DemoTypes, GoodTab, PageOpen
<1>5. raced \/ InStep(memory[t], rev[t], events[t], stored) BY DEF DemoInv, UpToDate
<1>6. CASE /\ phase' = [phase EXCEPT ![t] = "open"]
           /\ memory' = [memory EXCEPT ![t] = stored.box] /\ rev' = [rev EXCEPT ![t] = stored.revision]
  <2>1. /\ events' = [events EXCEPT ![t] = events[t]] /\ "open" \in Phases /\ "open" \in OpenPhases
    BY <1>1, <1>2, <1>6 DEF OpenPhases, Phases
  <2>2. GoodTab("open", stored.box, stored.revision, checked[t], events[t], stored, pageTime, shown)
    BY <1>2, <1>4, <2>1, StaysGood
  <2>3. raced \/ InStep(stored.box, stored.revision, events[t], stored)
    BY <1>2, <1>5 DEF InStep
  <2> QED BY <1>1, <1>2, <1>3, <1>6, <2>1, <2>2, <2>3, TabChanges
<1>7. ASSUME NEW p \in {"cached", "closed"}, NEW box \in {stored.box, Fresh}, NEW r \in {stored.revision, 0},
             r = 0 \/ box = stored.box,
             phase' = [phase EXCEPT ![t] = p], memory' = [memory EXCEPT ![t] = box],
             rev' = [rev EXCEPT ![t] = r]
      PROVE  DemoInv'
  <2>1. /\ events' = [events EXCEPT ![t] = {}] /\ p \in Phases /\ p \notin OpenPhases /\ p # "writing"
        /\ {} \in SUBSET StoredState
    BY <1>1, <1>2, <1>7 DEF OpenPhases, Phases
  <2>2. Sound(box, pageTime, shown) /\ box \in BoxRecord /\ r \in Nat BY <1>2, <1>4 DEF Sound
  <2>3. GoodTab(p, box, r, checked[t], {}, stored, pageTime, shown) BY <2>1, <2>2 DEF GoodTab
  <2>4. InStep(box, r, {}, stored) BY <1>2, <1>7 DEF InStep
  <2> QED BY <1>1, <1>2, <1>3, <1>7, <2>1, <2>2, <2>3, <2>4, TabChanges
<1> QED BY <1>1, <1>6, <1>7 DEF Leaves

LEMMA SaveChecksStep == ASSUME DemoInv, NEW t \in Tab, SaveChecks(t) PROVE DemoInv'
<1> DEFINE box == Settle(memory[t], pageTime)
<1>1. SUFFICES ASSUME ~Newer(t, stored) PROVE DemoInv' BY SaveRefused
<1>2. /\ phase[t] \in {"open", "saving"} /\ phase' = [phase EXCEPT ![t] = "writing"]
      /\ memory' = [memory EXCEPT ![t] = box] /\ rev' = [rev EXCEPT ![t] = rev[t]]
      /\ checked' = [checked EXCEPT ![t] = stored.revision]
      /\ events' = [events EXCEPT ![t] = IF phase'[t] \in OpenPhases THEN @ ELSE {}]
      /\ UNCHANGED <<pageTime, stored, edited, written, raced, shown, overlap>>
  BY <1>1 DEF SaveChecks, DemoInv, DemoTypes
<1>3. /\ rev[t] \in Nat /\ stored.revision \in Nat /\ stored.revision <= rev[t]
      /\ events[t] \in SUBSET StoredState /\ PageOpen(t) /\ phase \in [Tab -> Phases]
      /\ "writing" \in Phases /\ "writing" \in OpenPhases
  BY <1>1, <1>2 DEF DemoInv, DemoTypes, StoredState, Newer, PageOpen, OpenPhases, Phases
<1>4. events' = [events EXCEPT ![t] = events[t]] BY <1>2, <1>3
<1>5. Sound(memory[t], pageTime, shown) /\ Unbroken(memory[t], pageTime, shown)
  BY <1>3 DEF DemoInv, GoodTab, PageOpen
<1>6. /\ Accounted(box, pageTime, shown) /\ box.edits = memory[t].edits
      /\ box.skipped = memory[t].skipped
  BY <1>5, SettleSound DEF DemoInv, DemoTypes
<1> HIDE DEF box
<1>7. Sound(box, pageTime, shown) /\ Unbroken(box, pageTime, shown) /\ box \in BoxRecord
  BY <1>6, AccountedUnbroken DEF DemoInv, DemoTypes, Sound
<1>8. /\ GoodTab("writing", box, rev[t], stored.revision, events[t], stored, pageTime, shown)
      /\ overlap \/ (rev[t] = stored.revision /\ ~PageBeside(t) /\ \A e \in events[t] : e.box.skipped = 0)
  BY <1>3, <1>7, StaysGood
<1>9. raced \/ InStep(box, rev[t], events[t], stored) BY <1>6 DEF InStep, DemoInv, UpToDate
<1>10. overlap \/ memory[t].skipped = 0 BY DEF DemoInv, OneByOne, OneTab
<1>11. overlap \/ OneTab("writing", box, rev[t], stored.revision, events[t], stored, pageTime)
  BY <1>3, <1>6, <1>8, <1>10 DEF OneTab, Accounted
<1> QED BY <1>2, <1>3, <1>4, <1>7, <1>8, <1>9, <1>11, TabChanges

LEMMA OnStorageStep == ASSUME DemoInv, NEW t \in Tab, OnStorage(t) PROVE DemoInv'
<1>1. PICK state \in events[t] : Newer(t, state) /\ Take(t, state) BY DEF OnStorage
<1>2. /\ phase[t] = "open" /\ memory' = [memory EXCEPT ![t] = state.box]
      /\ rev' = [rev EXCEPT ![t] = state.revision]
      /\ UNCHANGED <<pageTime, phase, stored, events, edited, written, checked, raced, shown, overlap>>
  BY <1>1 DEF OnStorage, Take
<1>3. /\ events[t] \in SUBSET StoredState /\ state \in StoredState /\ state.revision \in Nat
      /\ state.box \in BoxRecord /\ rev[t] \in Nat /\ rev[t] < state.revision /\ rev[t] <= state.revision
      /\ PageOpen(t) /\ "open" \in Phases /\ "open" \in OpenPhases
      /\ phase' = [phase EXCEPT ![t] = "open"] /\ checked' = [checked EXCEPT ![t] = checked[t]]
      /\ events' = [events EXCEPT ![t] = events[t]] /\ checked[t] \in Nat
  BY <1>1, <1>2 DEF DemoInv, DemoTypes, StoredState, Newer, PageOpen, OpenPhases, Phases
<1>4. Sound(state.box, pageTime, shown) /\ Unbroken(state.box, pageTime, shown)
  BY <1>1, <1>3 DEF DemoInv, GoodTab, PageOpen
<1>5. GoodTab("open", state.box, state.revision, checked[t], events[t], stored, pageTime, shown)
  BY <1>3, <1>4, StaysGood
<1>6. raced \/ InStep(memory[t], rev[t], events[t], stored) BY DEF DemoInv, UpToDate
<1>7. raced \/ InStep(state.box, state.revision, events[t], stored) BY <1>1, <1>6 DEF InStep
<1>8. stored.revision \in Nat BY DEF DemoInv, DemoTypes, StoredState
<1>9. overlap BY <1>1, <1>3, <1>6, <1>8 DEF InStep, DemoInv, OneByOne, OneTab, PageOpen
<1> QED BY <1>2, <1>3, <1>5, <1>7, <1>9, TabChanges

(* A write replaces what is stored and tells the other open pages; the     *)
(* writer was open until now, so that its copy is unbroken for them too.   *)
PageAfter(p, box, r, t) ==
    \/ p \in {"open", "cached"} /\ box = memory[t] /\ r = rev[t] + 1
    \/ p = "closed" /\ box = Fresh /\ r = 0
LEMMA SaveWritesStep == ASSUME DemoInv, NEW t \in Tab, SaveWrites(t) PROVE DemoInv'
<1>1. /\ phase[t] = "writing" /\ stored' = [revision |-> rev[t] + 1, box |-> memory[t]]
      /\ Leaves(t, memory[t], rev[t] + 1)
      /\ events' = [u \in Tab |-> CASE u # t /\ PageOpen(u) -> {e \in events[u] : e = stored} \cup {stored'}
                                    [] u = t /\ phase'[t] = "open" -> events[t]
                                    [] OTHER -> {}]
      /\ written' = written \cup memory[t].edits /\ raced' = (raced \/ stored.revision # checked[t])
      /\ checked' = [checked EXCEPT ![t] = 0] /\ UNCHANGED <<pageTime, edited, shown, overlap>>
  BY DEF SaveWrites
<1>2. PICK p, box, r : /\ PageAfter(p, box, r, t) /\ phase' = [phase EXCEPT ![t] = p]
                       /\ memory' = [memory EXCEPT ![t] = box] /\ rev' = [rev EXCEPT ![t] = r]
  BY <1>1 DEF Leaves, PageAfter
<1>3. /\ rev[t] \in Nat /\ stored.revision \in Nat /\ checked[t] \in Nat /\ memory[t] \in BoxRecord
      /\ events \in [Tab -> SUBSET StoredState] /\ PageOpen(t)
      /\ phase \in [Tab -> Phases] /\ rev \in [Tab -> Nat] /\ memory \in [Tab -> BoxRecord]
      /\ checked \in [Tab -> Nat] /\ ShownSoFar(pageTime, shown)
  BY <1>1 DEF DemoInv, DemoTypes, StoredState, PageOpen, OpenPhases
<1>4. /\ stored'.revision = rev[t] + 1 /\ stored'.revision \in Nat /\ stored'.box = memory[t]
      /\ stored' \in StoredState
  BY <1>1, <1>3 DEF StoredState
<1>5. /\ GoodTab(phase[t], memory[t], rev[t], checked[t], events[t], stored, pageTime, shown)
      /\ Sound(memory[t], pageTime, shown) /\ Unbroken(memory[t], pageTime, shown)
      /\ checked[t] <= rev[t] /\ \A e \in events[t] : e.revision > rev[t] => Unbroken(e.box, pageTime, shown)
  BY <1>1, <1>3 DEF DemoInv, GoodTab, PageOpen
<1>6. /\ Sound(Fresh, pageTime, shown) /\ Fresh \in BoxRecord /\ Fresh.skipped = 0
  BY <1>3, FreshSound DEF Sound, Fresh
<1>7. /\ p \in {"open", "cached", "closed"} /\ p \in Phases /\ p # "writing" /\ r \in Nat /\ r <= rev[t] + 1
      /\ box \in BoxRecord /\ Sound(box, pageTime, shown)
  BY <1>2, <1>3, <1>5, <1>6 DEF PageAfter, Phases
<1>8. /\ phase'[t] = p /\ memory'[t] = box /\ rev'[t] = r /\ checked'[t] = 0
      /\ events'[t] = IF p = "open" THEN events[t] ELSE {}
  BY <1>1, <1>2, <1>3
<1>9. ASSUME NEW u \in Tab, u # t
      PROVE  /\ phase'[u] = phase[u] /\ memory'[u] = memory[u] /\ rev'[u] = rev[u] /\ checked'[u] = checked[u]
             /\ events'[u] = IF PageOpen(u) THEN {e \in events[u] : e = stored} \cup {stored'} ELSE {}
  BY <1>1, <1>2, <1>3, <1>9
<1>10. /\ phase' \in [Tab -> Phases] /\ rev' \in [Tab -> Nat] /\ memory' \in [Tab -> BoxRecord]
       /\ checked' \in [Tab -> Nat]
  BY <1>1, <1>2, <1>3, <1>7
<1>11. events' \in [Tab -> SUBSET StoredState]
  <2>1. \A u \in Tab : events'[u] \in SUBSET StoredState BY <1>3, <1>4, <1>8, <1>9
  <2> QED BY <1>1, <2>1
<1>12. DemoTypes' BY <1>1, <1>3, <1>4, <1>10, <1>11 DEF DemoTypes
<1>13. ASSUME NEW u \in Tab
       PROVE  GoodTab(phase'[u], memory'[u], rev'[u], checked'[u], events'[u], stored', pageTime, shown)
  <2>1. CASE u = t
    <3>1. \A e \in events'[t] : e \in events[t] /\ e.revision \in Nat
      BY <1>3, <1>8 DEF StoredState
    <3>2. \A e \in events'[t] : Sound(e.box, pageTime, shown) BY <1>5, <3>1 DEF GoodTab
    <3>3. p \in OpenPhases => /\ p = "open" /\ box = memory[t] /\ r = rev[t] + 1
      BY <1>2 DEF OpenPhases, PageAfter
    <3>4. p \notin OpenPhases => events'[t] = {} BY <1>8 DEF OpenPhases
    <3>5. p \in OpenPhases => \A e \in events'[t] : e.revision > r => Unbroken(e.box, pageTime, shown)
      BY <1>3, <1>5, <3>1, <3>3
    <3> QED BY <1>3, <1>4, <1>5, <1>7, <1>8, <2>1, <3>2, <3>3, <3>4, <3>5 DEF GoodTab
  <2>2. CASE u # t
    <3>1. GoodTab(phase[u], memory[u], rev[u], checked[u], events[u], stored, pageTime, shown)
      BY DEF DemoInv
    <3>2. \A e \in events'[u] : PageOpen(u) /\ (e \in events[u] \/ e = stored') BY <1>9, <2>2
    <3>3. \A e \in events'[u] : Sound(e.box, pageTime, shown)
      BY <1>4, <1>5, <3>1, <3>2 DEF GoodTab
    <3>4. \A e \in events'[u] : e.revision > rev[u] => Unbroken(e.box, pageTime, shown)
      BY <1>4, <1>5, <3>1, <3>2 DEF GoodTab, PageOpen
    <3>5. phase[u] \notin OpenPhases => events'[u] = {} BY <1>9, <2>2 DEF PageOpen
    <3> QED BY <1>4, <1>5, <1>9, <2>2, <3>1, <3>3, <3>4, <3>5 DEF GoodTab
  <2> QED BY <2>1, <2>2
<1>14. ~raced' => UpToDate'
  <2> SUFFICES ASSUME ~raced' PROVE UpToDate' OBVIOUS
  <2>1. /\ \A u \in Tab : InStep(memory[u], rev[u], events[u], stored) /\ rev[u] \in Nat
        /\ written \subseteq stored.box.edits
    BY <1>1, <1>3 DEF DemoInv, UpToDate
  <2>2. rev[t] = stored.revision
    <3>1. stored.revision = checked[t] BY <1>1
    <3>2. rev[t] <= stored.revision BY <2>1 DEF InStep
    <3> QED BY <1>3, <1>5, <3>1, <3>2
  <2>3. stored.box.edits \subseteq memory[t].edits BY <2>1, <2>2 DEF InStep
  <2>4. ASSUME NEW u \in Tab PROVE InStep(memory'[u], rev'[u], events'[u], stored')
    <3>1. \A e \in events[u] : e.revision \in Nat /\ e.revision <= stored.revision
      BY <1>3, <2>1 DEF InStep, StoredState
    <3>2. CASE u = t
      <4>1. \A e \in events'[t] : e.revision <= stored'.revision /\ e.revision # stored'.revision
        BY <1>3, <1>4, <1>8, <2>2, <3>1, <3>2
      <4>2. r <= stored'.revision /\ (r = stored'.revision => memory[t].edits \subseteq box.edits)
        BY <1>2, <1>3, <1>4 DEF PageAfter
      <4> QED BY <1>4, <1>8, <3>2, <4>1, <4>2 DEF InStep
    <3>3. CASE u # t
      <4>1. \A e \in events'[u] : e = stored' \/ (e.revision \in Nat /\ e.revision <= stored.revision)
        BY <1>9, <3>1, <3>3
      <4>2. rev[u] <= stored'.revision /\ rev[u] # stored'.revision
        BY <1>3, <1>4, <2>1, <2>2 DEF InStep
      <4>3. \A e \in events'[u] :
               e.revision <= stored'.revision /\ (e.revision = stored'.revision => e = stored')
        BY <1>3, <1>4, <2>2, <4>1
      <4>4. rev'[u] = rev[u] BY <1>9, <3>3
      <4> DEFINE st == stored'  evs == events'[u]  mem == memory'[u]
      <4>5. rev[u] <= st.revision /\ rev[u] # st.revision BY <4>2
      <4>6. \A e \in evs : e.revision <= st.revision /\ (e.revision = st.revision => e = st)
        BY <4>3
      <4> HIDE DEF st, evs, mem
      <4>7. InStep(mem, rev[u], evs, st) BY <4>5, <4>6 DEF InStep
      <4> QED BY <4>4, <4>7 DEF st, evs, mem
    <3> QED BY <3>2, <3>3
  <2>5. written' \subseteq stored'.box.edits BY <1>1, <1>4, <2>1, <2>3
  <2> QED BY <2>4, <2>5 DEF UpToDate
<1>15. ~overlap' => OneByOne'
  <2> SUFFICES ASSUME ~overlap' PROVE OneByOne' OBVIOUS
  <2>1. /\ OneByOne /\ OneTab(phase[t], memory[t], rev[t], checked[t], events[t], stored, pageTime)
        /\ \A u \in Tab \ {t} : ~PageOpen(u)
    BY <1>1, <1>3 DEF DemoInv, OneByOne, PageBeside
  <2>2. /\ rev[t] = stored.revision /\ checked[t] = stored.revision /\ memory[t].skipped = 0
        /\ memory[t].accounted = pageTime /\ \A e \in events[t] : e.box.skipped = 0
    BY <1>1, <2>1 DEF OneTab, OpenPhases
  <2>3. ~raced' /\ stored'.box.skipped = 0 BY <1>1, <1>4, <2>1, <2>2 DEF OneByOne
  <2>4. ASSUME NEW u \in Tab
        PROVE  /\ OneTab(phase'[u], memory'[u], rev'[u], checked'[u], events'[u], stored', pageTime)
               /\ phase'[u] \in OpenPhases => u = t
    <3>1. CASE u = t
      <4>1. box.skipped = 0 /\ \A e \in events'[t] : e.box.skipped = 0
        BY <1>2, <1>6, <1>8, <2>2 DEF PageAfter
      <4>2. /\ r <= stored'.revision /\ (p \in OpenPhases => r = stored'.revision)
            /\ p = "cached" => box.accounted = stored'.box.accounted
        BY <1>2, <1>3, <1>4 DEF PageAfter, OpenPhases
      <4> QED BY <1>7, <1>8, <3>1, <4>1, <4>2 DEF OneTab
    <3>2. CASE u # t
      <4>1. OneTab(phase[u], memory[u], rev[u], checked[u], events[u], stored, pageTime) /\ rev[u] \in Nat
        BY <1>3, <2>1 DEF OneByOne
      <4>2. phase[u] \notin OpenPhases /\ phase[u] # "writing" /\ events'[u] = {}
        BY <1>9, <2>1, <3>2 DEF PageOpen, OpenPhases
      <4>3. rev[u] < stored'.revision BY <1>3, <1>4, <2>2, <4>1 DEF OneTab
      <4>4. rev[u] <= stored'.revision /\ rev[u] # stored'.revision BY <1>3, <1>4, <4>1, <4>3
      <4>5. memory[u].skipped = 0 BY <4>1 DEF OneTab
      <4>6. phase'[u] = phase[u] /\ memory'[u] = memory[u] /\ rev'[u] = rev[u] BY <1>9, <3>2
      <4> QED BY <4>2, <4>4, <4>5, <4>6 DEF OneTab
    <3> QED BY <3>1, <3>2
  <2>5. \A u \in Tab : PageOpen(u)' => ~PageBeside(u)' BY <2>4 DEF PageOpen, PageBeside
  <2>6. shown'[pageTime'] = shown'[stored'.box.accounted] BY <1>1, <1>4, <2>2
  <2> QED BY <1>1, <2>3, <2>4, <2>5, <2>6 DEF OneByOne
<1> QED BY <1>1, <1>4, <1>5, <1>12, <1>13, <1>14, <1>15 DEF DemoInv

(* A second passes: a page was open through it, or none was.               *)
LEMMA SecondPasses ==
    ASSUME ShownSoFar(pageTime, shown), pageTime < LastNow, NEW inc \in {0, 1}, NEW sh,
           sh = [shown EXCEPT ![pageTime + 1] = shown[pageTime] + inc]
    PROVE  /\ ShownSoFar(pageTime + 1, sh) /\ sh[pageTime + 1] = shown[pageTime] + inc
           /\ \A b : Sound(b, pageTime, shown) =>
                 /\ Sound(b, pageTime + 1, sh) /\ sh[b.accounted] = shown[b.accounted]
                 /\ inc = 1 /\ Unbroken(b, pageTime, shown) => Unbroken(b, pageTime + 1, sh)
<1>1. /\ pageTime \in Nat /\ pageTime + 1 \in 0..LastNow /\ LastNow \in Nat
      /\ shown \in [0..LastNow -> Nat] /\ shown[pageTime] \in Nat /\ shown[0] = 0
      /\ shown[pageTime] + inc \in Nat /\ \A early \in 0..pageTime : shown[early] <= shown[pageTime]
  BY DemoAssumption DEF ShownSoFar
<1>2. /\ sh \in [0..LastNow -> Nat] /\ sh[pageTime + 1] = shown[pageTime] + inc
      /\ \A early \in 0..pageTime : sh[early] = shown[early] /\ shown[early] \in Nat
  BY <1>1
<1>3. \A early \in 0..(pageTime + 1) : sh[early] <= sh[pageTime + 1]
  <2> SUFFICES ASSUME NEW early \in 0..(pageTime + 1) PROVE sh[early] <= sh[pageTime + 1] OBVIOUS
  <2>1. CASE early = pageTime + 1 BY <1>1, <1>2, <2>1
  <2>2. CASE early \in 0..pageTime BY <1>1, <1>2, <2>2
  <2> QED BY <1>1, <2>1, <2>2
<1>4. ShownSoFar(pageTime + 1, sh) BY <1>1, <1>2, <1>3 DEF ShownSoFar
<1>5. ASSUME NEW b, Sound(b, pageTime, shown)
      PROVE  /\ Sound(b, pageTime + 1, sh) /\ sh[b.accounted] = shown[b.accounted]
             /\ inc = 1 /\ Unbroken(b, pageTime, shown) => Unbroken(b, pageTime + 1, sh)
  <2>1. b \in BoxRecord /\ b.accounted \in 0..pageTime /\ Total(b) + b.skipped = shown[b.accounted]
    BY <1>1, <1>5, DemoAssumption DEF Sound, BoxRecord
  <2>2. sh[b.accounted] = shown[b.accounted] /\ shown[b.accounted] \in Nat BY <1>2, <2>1
  <2>3. Sound(b, pageTime + 1, sh) BY <1>1, <2>1, <2>2 DEF Sound
  <2>4. inc = 1 /\ Unbroken(b, pageTime, shown) => Unbroken(b, pageTime + 1, sh)
    <3> SUFFICES ASSUME inc = 1, shown[pageTime] - shown[b.accounted] = pageTime - b.accounted
                 PROVE  sh[pageTime + 1] - sh[b.accounted] = (pageTime + 1) - b.accounted
      BY DEF Unbroken
    <3>1. b.accounted \in Nat BY <1>1, <2>1
    <3>2. sh[pageTime + 1] = shown[pageTime] + 1 BY <1>2
    <3> DEFINE x == sh[pageTime + 1]  y == sh[b.accounted]  old == shown[pageTime]
               was == shown[b.accounted]  when == b.accounted
    <3>3. /\ x = old + 1 /\ y = was /\ old - was = pageTime - when
          /\ old \in Nat /\ was \in Nat /\ when \in Nat /\ pageTime \in Nat
      BY <1>1, <2>2, <3>1, <3>2
    <3> HIDE DEF x, y, old, was, when
    <3>4. x - y = (pageTime + 1) - when BY <3>3
    <3> QED BY <3>4 DEF x, y, when
  <2> QED BY <2>2, <2>3, <2>4
<1> QED BY <1>2, <1>4, <1>5

LEMMA TickStep == ASSUME DemoInv, DemoTick PROVE DemoInv'
<1> DEFINE inc == IF \E t \in Tab : PageOpen(t) THEN 1 ELSE 0
<1>1. /\ pageTime < LastNow /\ pageTime' = pageTime + 1 /\ inc \in {0, 1}
      /\ shown' = [shown EXCEPT ![pageTime + 1] = shown[pageTime] + inc]
      /\ overlap' = (overlap \/ \E t \in Tab : phase[t] = "writing")
      /\ UNCHANGED <<phase, memory, rev, stored, events, edited, written, checked, raced>>
  BY DEF DemoTick
<1>2. (\E t \in Tab : PageOpen(t)) => inc = 1 OBVIOUS
<1>3. (\A t \in Tab : ~PageOpen(t)) => inc = 0 OBVIOUS
<1> HIDE DEF inc
<1>4. /\ ShownSoFar(pageTime + 1, shown') /\ shown'[pageTime + 1] = shown[pageTime] + inc
      /\ \A b : Sound(b, pageTime, shown) =>
            /\ Sound(b, pageTime + 1, shown') /\ shown'[b.accounted] = shown[b.accounted]
            /\ inc = 1 /\ Unbroken(b, pageTime, shown) => Unbroken(b, pageTime + 1, shown')
  BY <1>1, SecondPasses DEF DemoInv, DemoTypes
<1>5. DemoTypes' BY <1>1, <1>4 DEF DemoInv, DemoTypes
<1>6. Sound(stored.box, pageTime + 1, shown') BY <1>4 DEF DemoInv
<1>7. ASSUME NEW t \in Tab
      PROVE  GoodTab(phase[t], memory[t], rev[t], checked[t], events[t], stored, pageTime + 1, shown')
  <2>1. /\ GoodTab(phase[t], memory[t], rev[t], checked[t], events[t], stored, pageTime, shown)
        /\ Sound(stored.box, pageTime, shown)
    BY DEF DemoInv
  <2>2. phase[t] \in OpenPhases => inc = 1 BY <1>2 DEF PageOpen
  <2>3. Sound(memory[t], pageTime, shown) /\ \A e \in events[t] : Sound(e.box, pageTime, shown)
    BY <2>1 DEF GoodTab
  <2>4. Sound(memory[t], pageTime + 1, shown') /\ \A e \in events[t] : Sound(e.box, pageTime + 1, shown')
    BY <1>4, <2>3
  <2>5. ASSUME phase[t] \in OpenPhases
        PROVE  /\ Unbroken(memory[t], pageTime + 1, shown')
               /\ stored.revision > rev[t] => Unbroken(stored.box, pageTime + 1, shown')
               /\ \A e \in events[t] : e.revision > rev[t] => Unbroken(e.box, pageTime + 1, shown')
    <3>1. /\ Unbroken(memory[t], pageTime, shown)
          /\ stored.revision > rev[t] => Unbroken(stored.box, pageTime, shown)
          /\ \A e \in events[t] : e.revision > rev[t] => Unbroken(e.box, pageTime, shown)
      BY <2>1, <2>5 DEF GoodTab
    <3> QED BY <1>4, <2>1, <2>2, <2>3, <2>5, <3>1
  <2> QED BY <2>1, <2>4, <2>5 DEF GoodTab
<1>8. raced' \/ UpToDate' BY <1>1 DEF DemoInv, UpToDate
<1>9. overlap' \/ OneByOne'
  <2> SUFFICES ASSUME ~overlap' PROVE OneByOne' OBVIOUS
  <2>1. OneByOne /\ \A t \in Tab : phase[t] # "writing" BY <1>1 DEF DemoInv
  <2>2. \A t \in Tab : OneTab(phase[t], memory[t], rev[t], checked[t], events[t], stored, pageTime + 1)
    BY <2>1 DEF OneByOne, OneTab
  <2>3. \A t \in Tab : PageOpen(t)' => ~PageBeside(t)'
    BY <1>1, <2>1 DEF OneByOne, PageOpen, PageBeside
  <2>4. ASSUME \A t \in Tab : ~PageOpen(t)' PROVE shown'[pageTime + 1] = shown'[stored.box.accounted]
    <3>1. \A t \in Tab : ~PageOpen(t) BY <1>1, <2>4 DEF PageOpen
    <3>2. shown[pageTime] = shown[stored.box.accounted] BY <2>1, <3>1 DEF OneByOne
    <3>3. shown[pageTime] \in Nat BY DEF DemoInv, DemoTypes, ShownSoFar
    <3> QED BY <1>3, <1>4, <3>1, <3>2, <3>3 DEF DemoInv
  <2> QED BY <1>1, <2>1, <2>2, <2>3, <2>4 DEF OneByOne
<1> QED BY <1>1, <1>5, <1>6, <1>7, <1>8, <1>9 DEF DemoInv

LEMMA DemoStep == DemoInv /\ [DemoNext]_demoVars => DemoInv'
<1> SUFFICES ASSUME DemoInv, [DemoNext]_demoVars PROVE DemoInv' OBVIOUS
<1>1. CASE DemoTick BY <1>1, TickStep
<1>2. CASE \E t \in Tab : Load(t) BY <1>2, LoadStep
<1>3. CASE \E t \in Tab : PageShow(t) BY <1>3, PageShowStep
<1>4. CASE \E t \in Tab : Edit(t) BY <1>4, EditStep
<1>5. CASE \E t \in Tab : SaveChecks(t) BY <1>5, SaveChecksStep
<1>6. CASE \E t \in Tab : SaveWrites(t) BY <1>6, SaveWritesStep
<1>7. CASE \E t \in Tab : OnStorage(t) BY <1>7, OnStorageStep
<1>8. CASE UNCHANGED demoVars
  BY <1>8 DEF demoVars, DemoInv, DemoTypes, UpToDate, OneByOne, PageOpen, PageBeside
<1> QED BY <1>1, <1>2, <1>3, <1>4, <1>5, <1>6, <1>7, <1>8 DEF DemoNext

(* Up to its last accounting, every copy has counted each second in which  *)
(* a page was open once, and no other, but for those a page skipped when   *)
(* it was loaded or shown beside another that had not saved them yet; with *)
(* one page open at a time, none is skipped.  A late tick changes nothing  *)
(* in that, and a stored edit stays, but for a write between another's     *)
(* check and write (advance, restoreClock, refresh, write, onStorage).     *)
THEOREM DemoSoundAlways == DemoSpec => []DemoSound
<1>1. DemoInv => DemoSound
  <2> SUFFICES ASSUME DemoInv PROVE DemoSound OBVIOUS
  <2>1. phase \in [Tab -> {"closed", "cached", "open", "saving", "writing"}]
    BY DEF DemoInv, DemoTypes, Phases
  <2>2. pageTime \in Nat /\ pageTime <= LastNow
    BY DemoAssumption DEF DemoInv, DemoTypes, ShownSoFar
  <2>3. ASSUME NEW b \in Copies PROVE Sound(b, pageTime, shown) /\ (overlap \/ b.skipped = 0)
    BY <2>3 DEF Copies, DemoInv, GoodTab, OneByOne, OneTab
  <2>4. SecondsOnce
    <3>1. \A b \in Copies : b \in BoxRecord BY <2>3 DEF Sound
    <3> QED BY <2>3, <3>1 DEF SecondsOnce, Sound, BoxRecord
  <2>5. DelayedTickSame
    <3> SUFFICES ASSUME NEW b \in Copies, NEW at \in b.accounted..pageTime
                 PROVE Settle(Settle(b, at), pageTime) = Settle(b, pageTime)
      BY DEF DelayedTickSame
    <3>1. b \in BoxRecord /\ b.accounted \in Nat BY <2>3 DEF Sound, BoxRecord
    <3>2. at \in Nat /\ b.accounted <= at /\ at <= pageTime BY <2>2, <3>1
    <3> QED BY <2>2, <3>1, <3>2, LateTick
  <2>6. StoredEditsStay BY DEF DemoInv, UpToDate, StoredEditsStay
  <2> QED BY <2>1, <2>4, <2>5, <2>6 DEF DemoSound
<1> QED BY <1>1, DemoInitially, DemoStep, PTL DEF DemoSpec
=============================================================================
