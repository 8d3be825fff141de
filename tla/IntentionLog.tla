---------------------------- MODULE IntentionLog ----------------------------
(***************************************************************************)
(* What the operation log promises, without generations, versions, workers *)
(* or crashes: an accepted operation takes effect at most once, reaches    *)
(* one outcome that its effect justifies, its outcome is published once,   *)
(* and a sandbox has at most one open operation at a time.                 *)
(***************************************************************************)
CONSTANTS Sandbox,  \* sandbox ids
          Op,       \* operation ids
          Nobody    \* owner of an operation id that is not in use: no sandbox

VARIABLES owner, outcome, effect, published
vars == <<owner, outcome, effect, published>>

TypeOK ==
    /\ owner \in [Op -> Sandbox \cup {Nobody}]
    /\ outcome \in [Op -> {"absent", "open", "succeeded", "failed"}]
    /\ effect \in [Op -> {"none", "ok", "err"}]
    /\ published \subseteq Op

Init ==
    /\ owner = [o \in Op |-> Nobody]
    /\ outcome = [o \in Op |-> "absent"]
    /\ effect = [o \in Op |-> "none"]
    /\ published = {}

Accept(o, s) ==
    /\ outcome[o] = "absent"
    /\ \A p \in Op : ~(owner[p] = s /\ outcome[p] = "open")
    /\ owner' = [owner EXCEPT ![o] = s]
    /\ outcome' = [outcome EXCEPT ![o] = "open"]
    /\ UNCHANGED <<effect, published>>

Execute(o, verdict) ==
    /\ outcome[o] # "absent" /\ effect[o] = "none"
    /\ effect' = [effect EXCEPT ![o] = verdict]
    /\ UNCHANGED <<owner, outcome, published>>

(* The runtime's verdict. *)
Settle(o) ==
    /\ outcome[o] = "open" /\ effect[o] # "none"
    /\ outcome' = [outcome EXCEPT ![o] = IF effect[o] = "ok" THEN "succeeded"
                                                             ELSE "failed"]
    /\ UNCHANGED <<owner, effect, published>>

(* The reconciliation verdict: failed, and published in the same step. *)
GiveUp(o) ==
    /\ outcome[o] = "open"
    /\ outcome' = [outcome EXCEPT ![o] = "failed"]
    /\ published' = published \cup {o}
    /\ UNCHANGED <<owner, effect>>

Publish(o) ==
    /\ outcome[o] \in {"succeeded", "failed"} /\ o \notin published
    /\ published' = published \cup {o}
    /\ UNCHANGED <<owner, outcome, effect>>

Next == \E o \in Op :
    \/ \E s \in Sandbox : Accept(o, s)
    \/ \E verdict \in {"ok", "err"} : Execute(o, verdict)
    \/ Settle(o)
    \/ GiveUp(o)
    \/ Publish(o)

Spec == Init /\ [][Next]_vars

(* An accepted operation is settled and published in the end. *)
Fairness == \A o \in Op : WF_vars(Settle(o)) /\ WF_vars(Publish(o))
                          /\ WF_vars(\E verdict \in {"ok", "err"} :
                                        outcome[o] = "open" /\ Execute(o, verdict))
FairSpec == Spec /\ Fairness
=============================================================================
