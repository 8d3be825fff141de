--------------------------- MODULE AdmissionGates ---------------------------
(***************************************************************************)
(* The check-then-commit gates of the control plane: the workspace quota   *)
(* and the create rate limit (QuotaGate of scripts/tenant_authz.py), the   *)
(* terminal tickets (TerminalTicketPolicy), the upload reservation         *)
(* (UploadQuotaGate of scripts/files_policy.py) and the disk admission on  *)
(* top of one (DiskAdmission of scripts/ops_alerting.py).  Threads call    *)
(* them concurrently; each gate reads under its lock and commits before it *)
(* lets go.                                                                *)
(***************************************************************************)
EXTENDS Integers, FiniteSets, Sequences, Functions

CONSTANTS
    Caller,        \* threads
    Quota,         \* units of the workspace
    UploadCap,     \* bytes of the volume
    DiskCap, HighWaterPct,
    CreateLimit,   \* creates per window
    CreateWindow,  \* its length
    TicketTtl,     \* age up to which a ticket is accepted
    LastGateTime,  \* bound: the clock stops there
    MaxCreates     \* bound: creates admitted

Free == "free"  \* a lock that no thread holds
ASSUME GateAssumption ==
    /\ IsFiniteSet(Caller) /\ Free \notin Caller
    /\ Quota \in Nat /\ UploadCap \in Nat /\ DiskCap \in Nat \ {0} /\ HighWaterPct \in 1..99
    /\ CreateLimit \in Nat \ {0} /\ CreateWindow \in Nat /\ TicketTtl \in Nat
    /\ LastGateTime \in Nat /\ MaxCreates \in Nat

Counter == {"quota", "upload", "disk"}
Lock == Counter \cup {"ticket"}

VARIABLES
    used,      \* reserved units by counter
    held,      \* units each caller was admitted and has not released
    holder,    \* who holds each lock
    doing,     \* what each caller does inside a lock
    clock,
    stamp,     \* the time a caller read before it calls try_create
    window,    \* _creates: times of the creates kept
    creates,   \* every create admitted, in order
    ticket     \* the record of one ticket, and the sandbox it is for
gateVars == <<used, held, holder, doing, clock, stamp, window, creates, ticket>>

Nothing == [op |-> "none", lock |-> "quota", amount |-> 0, seen |-> 0]
GatesInit ==
    /\ used = [g \in Counter |-> 0] /\ held = [c \in Caller |-> [g \in Counter |-> 0]]
    /\ holder = [l \in Lock |-> Free] /\ doing = [c \in Caller |-> Nothing]
    /\ clock = 0 /\ stamp = [c \in Caller |-> 0]
    /\ window = <<>> /\ creates = <<>>
    /\ ticket = [issuedAt |-> -1, generation |-> 1, consumed |-> FALSE, current |-> 1, attached |-> 0]

-----------------------------------------------------------------------------
(* `with self._lock` of each gate. *)
NotLocked(l) == TRUE
Available(l) == holder[l] = Free
Enter(c, l, op, amount, seen) ==
    /\ doing[c] = Nothing /\ Available(l)
    /\ holder' = [holder EXCEPT ![l] = c]
    /\ doing' = [doing EXCEPT ![c] = [op |-> op, lock |-> l, amount |-> amount, seen |-> seen]]
LeaveLock(c) ==
    /\ holder' = [holder EXCEPT ![doing[c].lock] = Free]
    /\ doing' = [doing EXCEPT ![c] = Nothing]

(* _high_water_limit: below the cap, rounded down. *)
HighWater == (DiskCap * HighWaterPct) \div 100
CeilingOf(g) ==
    CASE g = "quota" -> Quota [] g = "upload" -> UploadCap [] g = "disk" -> HighWater

(* try_admit, reserve_quota and DiskAdmission.admit. *)
StartAdmit(c, g, amount) ==
    /\ held[c][g] = 0
    /\ Enter(c, g, "admit", amount, used[g])
    /\ UNCHANGED <<used, held, clock, stamp, window, creates, ticket>>
Admit(c) ==
    /\ doing[c].op = "admit"
    /\ LET g == doing[c].lock  after == doing[c].seen + doing[c].amount
       IN IF after > CeilingOf(g) THEN UNCHANGED <<used, held>>
          ELSE /\ used' = [used EXCEPT ![g] = after]
               /\ held' = [held EXCEPT ![c][g] = doing[c].amount]
    /\ LeaveLock(c) /\ UNCHANGED <<clock, stamp, window, creates, ticket>>

(* release of what was admitted, floored at zero. *)
StartRelease(c, g) ==
    /\ held[c][g] > 0
    /\ Enter(c, g, "release", held[c][g], used[g])
    /\ UNCHANGED <<used, held, clock, stamp, window, creates, ticket>>
ReleaseHeld(c) ==
    /\ doing[c].op = "release"
    /\ LET g == doing[c].lock  left == doing[c].seen - doing[c].amount
       IN /\ used' = [used EXCEPT ![g] = IF left < 0 THEN 0 ELSE left]
          /\ held' = [held EXCEPT ![c][g] = 0]
    /\ LeaveLock(c) /\ UNCHANGED <<clock, stamp, window, creates, ticket>>

-----------------------------------------------------------------------------
(* try_create with the time its caller read before; the window drops the   *)
(* creates that are too old from its head.                                 *)
ReadClock(c) ==
    /\ doing[c] = Nothing /\ stamp' = [stamp EXCEPT ![c] = clock]
    /\ UNCHANGED <<used, held, holder, doing, clock, window, creates, ticket>>
DropOld(times, cutoff) ==
    LET keep == {i \in 1..Len(times) : times[i] > cutoff}
        first == CHOOSE i \in keep : \A j \in keep : i <= j
    IN IF keep = {} THEN <<>> ELSE SubSeq(times, first, Len(times))
OneMoreFits(times) == Len(times) <= CreateLimit
Fits(times) == Len(times) < CreateLimit
TryCreate(c) ==
    /\ doing[c] = Nothing /\ Available("quota") /\ Len(creates) < MaxCreates
    /\ LET times == DropOld(window, stamp[c] - CreateWindow)
       IN IF Fits(times)
          THEN window' = Append(times, stamp[c]) /\ creates' = Append(creates, stamp[c])
          ELSE window' = times /\ UNCHANGED creates
    /\ UNCHANGED <<used, held, holder, doing, clock, stamp, ticket>>

-----------------------------------------------------------------------------
(* issue and redeem of a ticket; the sandbox may get a new generation.     *)
IssueTicket ==
    /\ ticket.issuedAt = -1
    /\ ticket' = [ticket EXCEPT !.issuedAt = clock, !.generation = ticket.current]
    /\ UNCHANGED <<used, held, holder, doing, clock, stamp, window, creates>>
NewGeneration ==
    /\ ticket.current = 1 /\ ticket' = [ticket EXCEPT !.current = 2]
    /\ UNCHANGED <<used, held, holder, doing, clock, stamp, window, creates>>
Redeemable(generation) ==
    /\ ticket.issuedAt # -1 /\ ~ticket.consumed
    /\ clock - ticket.issuedAt <= TicketTtl
    /\ ticket.generation = generation
StartRedeem(c) ==
    /\ Enter(c, "ticket", "redeem", ticket.current, IF Redeemable(ticket.current) THEN 1 ELSE 0)
    /\ UNCHANGED <<used, held, clock, stamp, window, creates, ticket>>
Redeem(c) ==
    /\ doing[c].op = "redeem"
    /\ ticket' = IF doing[c].seen = 0 THEN ticket
                 ELSE [ticket EXCEPT !.consumed = TRUE, !.attached = @ + 1]
    /\ LeaveLock(c) /\ UNCHANGED <<used, held, clock, stamp, window, creates>>

GateTime ==
    /\ clock < LastGateTime /\ clock' = clock + 1
    /\ UNCHANGED <<used, held, holder, doing, stamp, window, creates, ticket>>

CountersNext ==
    \E c \in Caller :
        \/ Admit(c) \/ ReleaseHeld(c)
        \/ \E g \in Counter : StartRelease(c, g) \/ \E n \in 1..2 : StartAdmit(c, g, n)
RateNext == GateTime \/ \E c \in Caller : ReadClock(c) \/ TryCreate(c)
TicketNext == GateTime \/ IssueTicket \/ NewGeneration \/ \E c \in Caller : StartRedeem(c) \/ Redeem(c)
GatesNext == CountersNext \/ RateNext \/ TicketNext
GatesSpec == GatesInit /\ [][GatesNext]_gateVars

-----------------------------------------------------------------------------
GatesTypeOK ==
    /\ used \in [Counter -> Nat] /\ held \in [Caller -> [Counter -> Nat]]
    /\ holder \in [Lock -> Caller \cup {Free}] /\ clock \in 0..LastGateTime

(* A reservation is neither lost nor counted twice by concurrent callers,  *)
(* and no counter passes its ceiling (try_admit, reserve_quota, release).  *)
CountersExact ==
    \A g \in Counter : used[g] = SumFunction([c \in Caller |-> held[c][g]]) /\ used[g] <= CeilingOf(g)

(* Callers may name their times in another order than they are served in:  *)
(* looking back one window from the latest time named so far, there are    *)
(* never more creates than the limit (try_create).                         *)
RateKept ==
    \A i \in 1..Len(creates) :
        LET latest == CHOOSE t \in {creates[j] : j \in 1..i} : \A j \in 1..i : creates[j] <= t
        IN Cardinality({j \in 1..i : creates[j] > latest - CreateWindow}) <= CreateLimit

(* However many callers race for it, a ticket attaches once (redeem). *)
TicketOnce == ticket.attached <= 1

GatesHold == GatesTypeOK /\ CountersExact /\ RateKept /\ TicketOnce
=============================================================================
