---------------------------- MODULE MCWorkspace ----------------------------
(* The policies around one workspace and its browser demo.  They share no  *)
(* state, so a behaviour exercises one of them.                            *)
EXTENDS AdmissionGates, ControlPlane, AutoPolicy, KeyInjection, OpsPolicies, BrowserDemo, FileOps, TLC

CONSTANTS c1, c2, s1, s2, k1, k2, k3, k4, w1, w2, t1, t2, p1, p2, u1, u2, g1, g2

VARIABLE component
componentVars == <<gateVars, controlVars, autoVars, keyVars, opsVars, demoVars, fileVars>>
MCInit ==
    /\ component \in {"counters", "rate", "ticket", "control", "policy", "keys", "egress",
                      "keeping", "demo", "uploads", "fork"} \cup Subject
    /\ GatesInit /\ ControlInit /\ AutoInit /\ KeysInit /\ OpsInit /\ DemoInit
    /\ FilesInit /\ (component \notin {"uploads", "fork"} => files = {})
    /\ (component = "fork") = (forking # {})
    /\ files # {p2} /\ (component # "policy" => hookNames)

(* What is interchangeable has its names in the order of first use: work in *)
(* the reports, workspaces, tabs in their edits; likewise the page of u1,   *)
(* and the path of a file that is there alone in the beginning.             *)
InOrder ==
    /\ (\E r \in busyReports : r.work = w2) => \E r \in busyReports : r.work = w1
    /\ boxes[s2] # NoBox => boxes[s1] # NoBox
    /\ t2 \in edited => t1 \in edited
    /\ call[u1].page # g2
(* Bounds: the last instance's hook, which misleads no later one, names its *)
(* generation; one upload meets the fork.                                   *)
Bounds ==
    /\ instanceNo = LastInstance => hookNames
    /\ component = "fork" => call[u2] = NoCall

Quiet(others) == UNCHANGED <<component, others>>
MCSteps ==
    \/ /\ \/ component = "counters" /\ CountersNext
          \/ component = "rate" /\ RateNext
          \/ component = "ticket" /\ TicketNext
       /\ Quiet(<<controlVars, autoVars, keyVars, opsVars, demoVars, fileVars>>)
    \/ /\ component = "control" /\ ControlNext
       /\ Quiet(<<gateVars, autoVars, keyVars, opsVars, demoVars, fileVars>>)
    \/ /\ component = "policy" /\ AutoNext
       /\ Quiet(<<gateVars, controlVars, keyVars, opsVars, demoVars, fileVars>>)
    \/ /\ \/ component = "keys" /\ KeysOnlyNext
          \/ component = "egress" /\ EgressNext
       /\ Quiet(<<gateVars, controlVars, autoVars, opsVars, demoVars, fileVars>>)
    \/ /\ \/ component \in Subject /\ AlertNext(component)
          \/ component = "keeping" /\ KeepingNext
       /\ Quiet(<<gateVars, controlVars, autoVars, keyVars, demoVars, fileVars>>)
    \/ /\ component = "demo" /\ DemoNext
       /\ Quiet(<<gateVars, controlVars, autoVars, keyVars, opsVars, fileVars>>)
    \/ /\ component \in {"uploads", "fork"} /\ FilesNext
       /\ Quiet(<<gateVars, controlVars, autoVars, keyVars, opsVars, demoVars>>) 
MCNext == MCSteps /\ InOrder' /\ Bounds'
MCSpec == MCInit /\ [][MCNext]_<<component, componentVars>>
=============================================================================
