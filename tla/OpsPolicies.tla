---------------------------- MODULE OpsPolicies ----------------------------
(***************************************************************************)
(* The operator's rules of scripts/ops_alerting.py: AlertRules with its    *)
(* deduplication over probes, a lease, the disk and the backup             *)
(* (BackupPolicy); RetentionPolicy for the volumes of a workspace that     *)
(* left; and DataDirInit for the data directory a setup script may be run  *)
(* on again and again.                                                     *)
(***************************************************************************)
EXTENDS Integers

CONSTANTS
    DedupWindow, ProbeFailures, CriticalMultiplier, LeaseLead, Rpo,
    Notice, VolumeRetention, DbRetention,
    LastOpsTime   \* bound: the clock stops there

ASSUME OpsAssumption ==
    /\ DedupWindow \in Nat \ {0} /\ ProbeFailures \in Nat \ {0} /\ CriticalMultiplier \in Nat \ {0}
    /\ LeaseLead \in Nat /\ Rpo \in Nat \ {0} /\ LastOpsTime \in Nat
    /\ Notice \in Nat \ {0} /\ VolumeRetention \in Nat \ {0} /\ DbRetention \in Nat \ {0}

Rule == {"uptime", "expiring", "expired", "capacity", "backup", "cleanup", "watchdog"}
Rank == [info |-> 0, warn |-> 1, critical |-> 2]
NotYet == -1
NotReported == -2

VARIABLES
    time,
    metrics,   \* what an evaluation reads
    dedup,     \* _state by rule: when it was emitted last, and how severe
    firing,    \* what fired in the last evaluation
    sent,      \* every alert handed out
    exit,      \* the workspace that left: at, requested, volumes, the time of deletion
    dataDir    \* exists, hasData, lost, and whether a destroy was asked for
opsVars == <<time, metrics, dedup, firing, sent, exit, dataDir>>

Unseen == [emittedAt |-> NotYet, severity |-> "info"]
OpsInit ==
    /\ time = 0
    /\ metrics = [failures |-> 0, deadline |-> NotYet, full |-> FALSE, backupAt |-> NotReported,
                  cleanup |-> FALSE, watchdog |-> TRUE]
    /\ dedup = [r \in Rule |-> Unseen] /\ firing = {} /\ sent = {}
    /\ exit = [at |-> NotYet, requested |-> FALSE, deletedAt |-> NotYet]
    /\ dataDir = [exists |-> FALSE, hasData |-> FALSE, lost |-> FALSE, asked |-> FALSE]

OpsTime ==
    /\ time < LastOpsTime /\ time' = time + 1
    /\ UNCHANGED <<metrics, dedup, firing, sent, exit, dataDir>>

-----------------------------------------------------------------------------
(* Probes, leases, disk, backups and the watchdog report what they see.    *)
Subject == {"uptime", "lease", "capacity", "backup", "cleanup", "watchdog"}
Observe(subject) ==
    /\ CASE subject = "uptime" ->
                \E n \in {0, ProbeFailures, ProbeFailures * CriticalMultiplier} : metrics' = [metrics EXCEPT !.failures = n]
         [] subject = "lease" ->
                \E d \in {NotYet, time + LeaseLead + 1} : metrics' = [metrics EXCEPT !.deadline = d]
         [] subject = "capacity" -> metrics' = [metrics EXCEPT !.full = ~@]
         [] subject = "backup" -> \E t \in {NotYet, time} : metrics' = [metrics EXCEPT !.backupAt = t]
         [] subject = "cleanup" -> metrics' = [metrics EXCEPT !.cleanup = ~@]
         [] subject = "watchdog" -> metrics' = [metrics EXCEPT !.watchdog = ~@]
    /\ UNCHANGED <<time, dedup, firing, sent, exit, dataDir>>

(* BackupPolicy.freshness: a backup that was never made breaches the RPO.  *)
RpoMet == metrics.backupAt # NotYet /\ time - metrics.backupAt <= Rpo

(* _fires *)
Severity(rule) ==
    CASE rule = "uptime" -> IF metrics.failures >= ProbeFailures * CriticalMultiplier THEN "critical" ELSE "warn"
      [] rule = "expiring" -> "info"
      [] rule \in {"capacity", "cleanup"} -> "warn"
      [] OTHER -> "critical"
Fires(rule) ==
    CASE rule = "uptime" -> metrics.failures >= ProbeFailures
      [] rule = "expired" -> metrics.deadline # NotYet /\ time >= metrics.deadline
      [] rule = "expiring" -> metrics.deadline # NotYet /\ metrics.deadline - time \in 1..LeaseLead
      [] rule = "capacity" -> metrics.full
      [] rule = "backup" -> metrics.backupAt # NotReported /\ ~RpoMet
      [] rule = "cleanup" -> metrics.cleanup
      [] rule = "watchdog" -> ~metrics.watchdog

(* _should_emit: a first fire, one after the window, or one that           *)
(* escalates.  The counts _register_fire keeps are for display.            *)
Elapsed(state) == state.emittedAt # NotYet /\ time - state.emittedAt >= DedupWindow
NeverEscalates(rule) == dedup[rule].emittedAt = NotYet \/ Elapsed(dedup[rule])
ShouldEmit(rule) ==
    \/ dedup[rule].emittedAt = NotYet \/ Elapsed(dedup[rule])
    \/ Rank[Severity(rule)] > Rank[dedup[rule].severity]
Evaluation ==
    LET now == {r \in Rule : Fires(r)}
        out == {r \in now : ShouldEmit(r)}
    IN /\ firing' = {<<r, Severity(r), time>> : r \in now}
       /\ sent' = sent \cup {<<r, Severity(r), time>> : r \in out}
       /\ dedup' = [r \in Rule |->
             IF r \in out THEN [emittedAt |-> time, severity |-> Severity(r)] ELSE dedup[r]]
       /\ UNCHANGED <<time, metrics, exit, dataDir>>
AlertNext(subject) == OpsTime \/ Observe(subject) \/ Evaluation

-----------------------------------------------------------------------------
(* plan_expiry and its caller, which carries out what is due.              *)
LargerOf(a, b) == IF a >= b THEN a ELSE b
DeleteDueAt == IF exit.requested THEN exit.at + Notice
               ELSE LargerOf(exit.at + Notice, exit.at + VolumeRetention)
Left == exit.at # NotYet
PlanExpiry ==
    {a \in {"notify", "delete_volume", "retain-db-evidence"} :
        CASE a = "notify" -> time >= exit.at
          [] a = "delete_volume" -> time >= DeleteDueAt
          [] a = "retain-db-evidence" -> exit.at <= time /\ time < exit.at + DbRetention}
Leave ==
    /\ ~Left /\ exit' = [exit EXCEPT !.at = time]
    /\ UNCHANGED <<time, metrics, dedup, firing, sent, dataDir>>
RequestDeletion ==
    /\ Left /\ ~exit.requested /\ exit' = [exit EXCEPT !.requested = TRUE]
    /\ UNCHANGED <<time, metrics, dedup, firing, sent, dataDir>>
Expire ==
    /\ Left /\ exit.deletedAt = NotYet /\ "delete_volume" \in PlanExpiry
    /\ exit' = [exit EXCEPT !.deletedAt = time]
    /\ UNCHANGED <<time, metrics, dedup, firing, sent, dataDir>>

(* init_plan carried out by a setup script; the service writes its data.   *)
ExistingIgnored == FALSE
ExistingData == dataDir.exists /\ dataDir.hasData
Setup(force, destroy) ==
    /\ LET mkfs == destroy \/ (~ExistingData /\ force)
       IN dataDir' = [exists |-> TRUE, hasData |-> dataDir.hasData /\ ~mkfs,
                      lost |-> dataDir.lost \/ (mkfs /\ dataDir.hasData),
                      asked |-> dataDir.asked \/ destroy]
    /\ UNCHANGED <<time, metrics, dedup, firing, sent, exit>>
WriteData ==
    /\ dataDir.exists /\ dataDir' = [dataDir EXCEPT !.hasData = TRUE]
    /\ UNCHANGED <<time, metrics, dedup, firing, sent, exit>>
KeepingNext ==
    \/ OpsTime \/ Leave \/ RequestDeletion \/ Expire \/ WriteData
    \/ \E force, destroy \in BOOLEAN : Setup(force, destroy)

OpsNext == KeepingNext \/ \E subject \in Subject : AlertNext(subject)
OpsSpec == OpsInit /\ [][OpsNext]_opsVars

-----------------------------------------------------------------------------
OpsTypeOK == time \in 0..LastOpsTime /\ \A r \in Rule : dedup[r].severity \in DOMAIN Rank

(* Whatever fired, cleared and fired again, the operator holds an alert of *)
(* that rule, at least as severe, that is not older than the window; a     *)
(* volume outlives the notice given, whenever its deletion was requested;  *)
(* and setting up again loses no data unless a destroy was asked for       *)
(* (_should_emit, _delete_due_at, init_plan).                              *)
OperatorInformed ==
    /\ OpsTypeOK
    /\ \A f \in firing : \E s \in sent :
          s[1] = f[1] /\ Rank[s[2]] >= Rank[f[2]] /\ s[3] <= f[3] /\ f[3] - s[3] < DedupWindow
    /\ exit.deletedAt # NotYet => exit.deletedAt >= exit.at + Notice
    /\ dataDir.lost => dataDir.asked
=============================================================================
