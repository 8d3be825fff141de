-------------------------- MODULE BudgetAdmission --------------------------
(***************************************************************************)
(* The budget of one account around the enforcer, from                     *)
(* scripts/budget_gates.py: EligibilityGate admits work against what it    *)
(* committed itself and an account state its callers read earlier,         *)
(* new_period rewrites that state, overrun_window says how early a stop    *)
(* must come when spend is only checked now and then, and                  *)
(* BlockedStoragePolicy what storage costs once compute is stopped.        *)
(***************************************************************************)
EXTENDS Integers, FiniteSets, Functions

CONSTANTS
    Worker,           \* callers of admit
    Limit,            \* the budget, in minor units
    BlockNewPct,
    TopRate,          \* highest burn rate of all resources together
    CheckInterval, StopDuration,
    CleanupAfter, StorageRate,
    LastPeriod        \* bound: the budget periods

ASSUME BudgetAdmissionAssumption ==
    /\ IsFiniteSet(Worker)
    /\ Limit \in Nat \ {0} /\ BlockNewPct \in 1..99 /\ TopRate \in Nat
    /\ CheckInterval \in Nat \ {0} /\ StopDuration \in Nat
    /\ CleanupAfter \in Nat \ {0} /\ StorageRate \in Nat /\ LastPeriod \in Nat

Payment == {"open", "paid", "grace", "suspended", "canceled"}  \* grace, suspended: payment_failed
Surface == {"create", "resume"}  \* create, fork and resize all provision
Unseeded == -1

VARIABLES
    account,    \* payment, spend, blocked and period of the account state
    view,       \* the account state each worker read
    committed,  \* _committed of the account, Unseeded before its first call
    seed,       \* the spend it started from
    reserved,   \* what each worker was admitted and holds
    unpaid,     \* the payment side: a failed payment is past its grace, or the account ended
    burn        \* spend, time since a check, since a stop was decided, since it was confirmed
budgetVars == <<account, view, committed, seed, reserved, unpaid, burn>>

NotStopping == -1
BudgetInit ==
    /\ account \in [payment : {"open", "paid", "grace"}, spend : {0, Limit - 3, Limit - 1} \cap Nat, blocked : {FALSE}, period : {0}]
    /\ view = [w \in Worker |-> account]
    /\ committed = Unseeded /\ seed = 0 /\ reserved = [w \in Worker |-> 0]
    /\ unpaid = FALSE
    /\ burn = [spend |-> 0, unchecked |-> 0, stopping |-> NotStopping, blockedFor |-> NotStopping, storage |-> 0]

-----------------------------------------------------------------------------
(* What happens to the account outside the gate. *)
Account(next) == account' = next /\ UNCHANGED <<view, committed, seed, reserved, burn>>
PaymentChanges ==
    \/ /\ account.payment = "grace" /\ unpaid' = TRUE
       /\ Account([account EXCEPT !.payment = "suspended"])
    \/ \E p \in {"paid", "grace", "canceled"} :
          /\ account.payment # "canceled" /\ unpaid' = (p = "canceled")
          /\ account.payment = "suspended" => p # "grace"
          /\ Account([account EXCEPT !.payment = p])
EnforcerBlocks == ~account.blocked /\ Account([account EXCEPT !.blocked = TRUE]) /\ UNCHANGED unpaid

(* new_period: the budget window only. *)
ForgivingPeriod ==
    /\ account.period < LastPeriod
    /\ Account([account EXCEPT !.spend = 0, !.blocked = FALSE, !.period = @ + 1, !.payment = "paid"])
    /\ UNCHANGED unpaid
NewPeriod ==
    /\ account.period < LastPeriod
    /\ Account([account EXCEPT !.spend = 0, !.blocked = FALSE, !.period = @ + 1])
    /\ UNCHANGED unpaid

-----------------------------------------------------------------------------
(* check: BillingEligibility first, then the sticky block, then the zones. *)
BlockNewAt == -((-(Limit * BlockNewPct)) \div 100)
PaymentBlocks(payment, action) ==
    CASE payment = "paid" -> FALSE
      [] payment = "grace" -> action = "create"
      [] OTHER -> TRUE
Check(state, spend, action) ==
    /\ ~PaymentBlocks(state.payment, action)
    /\ ~state.blocked
    /\ spend < Limit /\ spend < BlockNewAt

ReadAccount(w) ==
    /\ view' = [view EXCEPT ![w] = account]
    /\ UNCHANGED <<account, committed, seed, reserved, unpaid, burn>>

(* admit: the first call seeds the gate with the spend of its state; later *)
(* ones go by what the gate committed.  The result must stay under the     *)
(* limit.                                                                  *)
Base(w) == IF committed = Unseeded THEN view[w].spend ELSE committed
UpToTheLimit(w, cost) == Base(w) + cost <= Limit
LeavesHeadroom(w, cost) == Base(w) + cost < Limit
AdmitWork(w, action, cost) ==
    /\ reserved[w] = 0
    /\ seed' = IF committed = Unseeded THEN view[w].spend ELSE seed
    /\ IF Check(view[w], Base(w), action) /\ LeavesHeadroom(w, cost)
       THEN /\ committed' = Base(w) + cost
            /\ reserved' = [reserved EXCEPT ![w] = cost]
       ELSE committed' = Base(w) /\ UNCHANGED reserved
    /\ UNCHANGED <<account, view, unpaid, burn>>

(* release: a provisioning attempt failed. *)
ReleaseWork(w) ==
    /\ reserved[w] > 0
    /\ committed' = IF committed < reserved[w] THEN 0 ELSE committed - reserved[w]
    /\ reserved' = [reserved EXCEPT ![w] = 0]
    /\ UNCHANGED <<account, view, seed, unpaid, burn>>

GateNext ==
    \/ PaymentChanges \/ EnforcerBlocks \/ NewPeriod
    \/ \E w \in Worker :
          \/ ReadAccount(w) \/ ReleaseWork(w)
          \/ \E action \in Surface, cost \in 1..3 : AdmitWork(w, action, cost)

-----------------------------------------------------------------------------
(* overrun_window *)
DetectionOnly == TopRate * CheckInterval
MaxOvershoot == DetectionOnly + TopRate * StopDuration
EarlyStopAt == Limit - MaxOvershoot
HardCapInfeasible == MaxOvershoot >= Limit

(* BlockedStoragePolicy *)
StorageAccrued(blockedFor) ==
    (IF blockedFor < CleanupAfter THEN blockedFor ELSE CleanupAfter) * StorageRate
CleanupDue(blockedFor) == blockedFor >= CleanupAfter

(* Resources burn up to their highest rate; spend is looked at once per    *)
(* interval and a stop is confirmed within its bound.                      *)
Burning == burn.blockedFor = NotStopping
OneMs ==
    /\ UNCHANGED <<account, view, committed, seed, reserved, unpaid>>
    /\ \/ /\ Burning /\ burn.unchecked < CheckInterval /\ burn.stopping < StopDuration
          /\ \E rate \in 0..TopRate :
                burn' = [burn EXCEPT !.spend = @ + rate, !.unchecked = @ + 1,
                                     !.stopping = IF @ = NotStopping THEN @ ELSE @ + 1]
       \/ /\ ~Burning /\ burn.blockedFor <= CleanupAfter
          /\ burn' = [burn EXCEPT !.blockedFor = @ + 1,
                                  !.storage = IF CleanupDue(burn.blockedFor) THEN @ ELSE @ + StorageRate]
LookAtSpend ==
    /\ Burning /\ burn.unchecked > 0
    /\ burn' = [burn EXCEPT !.unchecked = 0,
                            !.stopping = IF @ = NotStopping /\ burn.spend >= EarlyStopAt THEN 0 ELSE @]
    /\ UNCHANGED <<account, view, committed, seed, reserved, unpaid>>
ConfirmStop ==
    /\ Burning /\ burn.stopping # NotStopping
    /\ burn' = [burn EXCEPT !.blockedFor = 0]
    /\ UNCHANGED <<account, view, committed, seed, reserved, unpaid>>
OverrunNext == OneMs \/ LookAtSpend \/ ConfirmStop

BudgetNext == GateNext \/ OverrunNext
BudgetSpec == BudgetInit /\ [][BudgetNext]_budgetVars

-----------------------------------------------------------------------------
BudgetTypeOK ==
    /\ account.payment \in Payment /\ account.period \in 0..LastPeriod
    /\ committed \in Nat \cup {Unseeded} /\ reserved \in [Worker -> Nat]

(* The gate knows exactly what it handed out, and nothing it hands out     *)
(* brings it to the limit; spend that is looked at only every interval and *)
(* stops only after a while still stays under the limit when the overshoot *)
(* is kept free, and storage never accrues past its cleanup (admit,        *)
(* release, overrun_window, storage_accrued_minor).                        *)
BudgetHeld ==
    /\ BudgetTypeOK
    /\ committed # Unseeded =>
          /\ committed = seed + SumFunction(reserved)
          /\ (\E w \in Worker : reserved[w] > 0) => committed < Limit
    /\ HardCapInfeasible \/ burn.spend < Limit
    /\ burn.blockedFor # NotStopping => burn.storage = StorageAccrued(burn.blockedFor)

(* An account past its grace, or canceled, gets no work from anyone who    *)
(* read it since, whatever period begins in between (new_period, admit).   *)
UnpaidStaysOut ==
    [][\A w \in Worker : unpaid /\ view[w] = account => reserved'[w] <= reserved[w]]_budgetVars
=============================================================================
