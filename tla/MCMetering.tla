----------------------------- MODULE MCMetering -----------------------------
(* Metering: the event ledger, the watchdog lease and the rate card.  They  *)
(* share no state, so a behaviour exercises one of them.                    *)
EXTENDS EventLedger, WatchdogLease, RateCard

CONSTANTS v1, v2, v3

MCLedgerEvent ==
    LET E(id, source, type, at, last, quantity) ==
        [id |-> id, source |-> source, type |-> type, at |-> at, last |-> last, quantity |-> quantity]
    IN {E(1, 1, "switch", 0, NoTime, 1),   \* starts
        E(2, 2, "switch", 2, NoTime, 2),   \* resized
        E(3, 3, "close", 3, NoTime, 0),    \* a trusted stop at the instant of the loss
        E(4, 4, "heartbeat", 1, NoTime, 0),
        E(5, 5, "expired", 3, NoTime, 0),  \* lost since the last heartbeat
        E(6, 6, "expired", 4, 2, 0),       \* lost since an observation
        E(7, 7, "close", 5, NoTime, 0),
        E(7, 8, "audit", 5, NoTime, 0),    \* an id with other content
        E(8, 3, "close", 3, NoTime, 0)}    \* a source key under a new id
MCSealed == {<<2, 3>>}

VARIABLE component
MCInit == component \in {"ledger", "lease", "rates"} /\ LedgerInit /\ LeaseInit /\ RateInit
MCNext ==
    \/ component = "ledger" /\ LedgerNext /\ UNCHANGED <<component, leaseVars, rateVars>>
    \/ component = "lease" /\ LeaseNext /\ UNCHANGED <<component, ledgerVars, rateVars>>
    \/ component = "rates" /\ RateNext /\ UNCHANGED <<component, ledgerVars, leaseVars>>
MCSpec ==
    MCInit /\ [][MCNext]_<<component, ledgerVars, leaseVars, rateVars>> /\ LeaseFairness
=============================================================================
