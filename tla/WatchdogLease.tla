--------------------------- MODULE WatchdogLease ---------------------------
(***************************************************************************)
(* The host lease of one sandbox and the stop confirmation of the watchdog *)
(* (scripts/watchdog_lease.py), driven by a caller that keeps the returned *)
(* timestamps and acts on the decision.  Times are ages, capped where the  *)
(* code only compares them with a limit, so the clock never runs out.      *)
(***************************************************************************)
EXTENDS Integers, FiniteSets

CONSTANTS
    Ttl,            \* lease ttl_ms, in ticks
    ConfirmTimeout, \* confirm_timeout_ms, in ticks
    MaxEpoch        \* bound: leases issued

ASSUME LeaseAssumption == Ttl \in Nat /\ ConfirmTimeout \in Nat /\ MaxEpoch \in Nat

Epoch == 1..MaxEpoch
Unnamed == 0        \* evidence that names no epoch
Never == -1

VARIABLES
    epoch,     \* the last fencing token issued, 0 before the first
    leaseAge,  \* time since the last heartbeat of the current lease
    lossAge,   \* time since detected_at, Never before it is set
    phase,     \* the phase of the caller's last decision
    human,     \* the last decision asked for a human
    released,  \* the caller closed the bill and released the capacity
    proof,     \* the epoch named by the evidence it acted on, or Unnamed
    running,   \* environment: epochs whose instance really runs
    stops      \* environment: stops the host observed, by epoch

leaseVars == <<epoch, leaseAge, lossAge, phase, human, released, proof, running, stops>>

LeaseInit ==
    /\ epoch = 0 /\ leaseAge = 0 /\ lossAge = Never
    /\ phase = "healthy" /\ human = FALSE /\ released = FALSE /\ proof = Unnamed
    /\ running = {} /\ stops = {}

(* expired_at: half-open, and true before any lease is issued. *)
Expired == epoch = 0 \/ leaseAge >= Ttl

(* issue: a new runner instance under a new epoch; its caller starts over. *)
Issue ==
    /\ epoch < MaxEpoch
    /\ epoch' = epoch + 1 /\ leaseAge' = 0 /\ lossAge' = Never
    /\ phase' = "healthy" /\ human' = FALSE /\ released' = FALSE /\ proof' = Unnamed
    /\ running' = running \cup {epoch'}
    /\ UNCHANGED stops

(* renew: StaleEpoch and LeaseExpired leave the lease as it is. *)
AnyEpochRenews(e) == epoch > 0
EpochOk(e) == e = epoch
Renew(e) ==
    /\ e \in running /\ EpochOk(e) /\ ~Expired
    /\ leaseAge' = 0
    /\ UNCHANGED <<epoch, lossAge, phase, human, released, proof, running, stops>>

(* The host sees an instance stop.  The report names its epoch or not, and *)
(* it stays around: the caller may be handed it at any later time.         *)
InstanceStops(e) ==
    /\ running' = running \ {e}
    /\ \E named \in {e, Unnamed} : stops' = stops \cup {[source |-> "host", epoch |-> named]}
    /\ UNCHANGED <<epoch, leaseAge, lossAge, phase, human, released, proof>>

Aged(age, limit) == IF age = Never \/ age = limit THEN age ELSE age + 1
Tick ==
    /\ epoch > 0
    /\ leaseAge' = Aged(leaseAge, Ttl) /\ lossAge' = Aged(lossAge, ConfirmTimeout)
    /\ <<leaseAge, lossAge>>' # <<leaseAge, lossAge>>
    /\ UNCHANGED <<epoch, phase, human, released, proof, running, stops>>

(* What a runner says of its own instance is true when it can be asked,    *)
(* and anything when it cannot.                                            *)
RunnerSays(reachable) ==
    {[source |-> "runner", epoch |-> e] : e \in {e \in 1..epoch : reachable => e \notin running}}
NoEvidence == [source |-> "none", epoch |-> Unnamed]

(* _admit: host evidence, or a reachable runner's, of no other epoch.      *)
IgnoringEpoch(evidence, reachable) ==
    \/ evidence.source = "host"
    \/ evidence.source = "runner" /\ reachable
Admitted(evidence, reachable) ==
    /\ \/ evidence.source = "host"
       \/ evidence.source = "runner" /\ reachable
    /\ evidence.epoch \in {Unnamed, epoch}

(* evaluate, and the caller that records the decision and acts on it.      *)
Healthy ==
    /\ ~Expired
    /\ phase' = "healthy" /\ human' = FALSE /\ lossAge' = Never
    /\ UNCHANGED <<released, proof>>
DetectedAge == IF lossAge = Never THEN 0 ELSE lossAge
Confirmed(evidence, reachable) ==
    /\ Expired /\ Admitted(evidence, reachable)
    /\ phase' = "confirmed_stopped" /\ human' = FALSE /\ lossAge' = DetectedAge
    /\ released' = TRUE /\ proof' = evidence.epoch
Escalates(age) == age >= ConfirmTimeout
Unconfirmed(evidence, reachable) ==
    /\ Expired /\ ~Admitted(evidence, reachable)
    /\ phase' = "lost_unconfirmed" /\ lossAge' = DetectedAge /\ human' = Escalates(DetectedAge)
    /\ UNCHANGED <<released, proof>>
Evaluate ==
    /\ epoch > 0 /\ ~released
    /\ \E reachable \in BOOLEAN : \E evidence \in {NoEvidence} \cup stops \cup RunnerSays(reachable) :
          Healthy \/ Confirmed(evidence, reachable) \/ Unconfirmed(evidence, reachable)
    /\ UNCHANGED <<epoch, leaseAge, running, stops>>

LeaseNext ==
    \/ Issue \/ Tick \/ Evaluate
    \/ \E e \in running : Renew(e) \/ InstanceStops(e)
(* Time passes and the caller keeps evaluating. *)
LeaseFairness == WF_leaseVars(Tick) /\ WF_leaseVars(Evaluate)
LeaseSpec == LeaseInit /\ [][LeaseNext]_leaseVars

-----------------------------------------------------------------------------
LeaseTypeOK ==
    /\ epoch \in 0..MaxEpoch /\ running \subseteq 1..epoch
    /\ leaseAge \in 0..Ttl /\ lossAge \in {Never} \cup 0..ConfirmTimeout
    /\ phase \in {"healthy", "lost_unconfirmed", "confirmed_stopped"}
    /\ human \in BOOLEAN /\ released \in BOOLEAN /\ proof \in {Unnamed} \cup Epoch
    /\ stops \subseteq [source : {"host"}, epoch : {Unnamed} \cup Epoch]

(* The bill is closed and the capacity released only for an instance that  *)
(* really stopped and whose lease can never be renewed, whatever an        *)
(* unreachable runner claims and whichever older instance a report is      *)
(* about; the exception is a report that names no epoch, which passes the  *)
(* fence (evaluate, _admit, renew).                                        *)
ReleaseIsProven ==
    /\ LeaseTypeOK
    /\ released => /\ phase = "confirmed_stopped" /\ Expired
                   /\ epoch \notin running \/ proof = Unnamed

(* An instance that died, or whose lease ran out, never stays lost in      *)
(* silence, although older instances go on renewing: while no stop is      *)
(* proven and no new instance issued, a human is asked for in the end      *)
(* (renew, expired_at, evaluate, _unconfirmed_decision).                   *)
LossEscalates ==
    \A e \in Epoch :
        (epoch = e /\ (e \notin running \/ Expired)) ~> (epoch # e \/ released \/ human)
=============================================================================
