----------------------------- MODULE BilledOnce -----------------------------
(***************************************************************************)
(* What the billing outbox promises: an intention recorded once is billed  *)
(* at most once, is settled with the receipt of that one billing and is    *)
(* never unsettled, whatever is lost, repeated or restarted in between.    *)
(***************************************************************************)
EXTENDS Naturals

CONSTANT Item
VARIABLES intended, billings, settled

vars == <<intended, billings, settled>>

Init ==
    /\ intended = {} /\ settled = {}
    /\ billings = [i \in Item |-> 0]

Intend(i) ==
    /\ i \notin intended
    /\ intended' = intended \cup {i}
    /\ UNCHANGED <<billings, settled>>

Bill(i) ==
    /\ i \in intended /\ billings[i] = 0
    /\ billings' = [billings EXCEPT ![i] = 1]
    /\ UNCHANGED <<intended, settled>>

Settle(i) ==
    /\ billings[i] = 1 /\ i \notin settled
    /\ settled' = settled \cup {i}
    /\ UNCHANGED <<intended, billings>>

Next == \E i \in Item : Intend(i) \/ Bill(i) \/ Settle(i)

Spec == Init /\ [][Next]_vars
FairSpec == Spec /\ \A i \in Item : WF_vars(Bill(i)) /\ WF_vars(Settle(i))
=============================================================================
