---------------------------- MODULE KeyInjection ----------------------------
(***************************************************************************)
(* A customer's keys in one sandbox (SecretStore of scripts/byok_policy.py) *)
(* and the tunnels the sandbox opens (EgressPolicy of                      *)
(* scripts/network_policy.py).  Keys are registered, revoked and           *)
(* registered again while injections of them are planned, mounted,         *)
(* confirmed, rotated and cleared, and while the sandbox is stopped and    *)
(* resumed under new generations.                                          *)
(***************************************************************************)
EXTENDS Integers, FiniteSets

CONSTANTS
    CustomerKey,
    LastGeneration,  \* bound: generations of the sandbox
    MaxTunnels       \* bound: tunnels opened

ASSUME KeyAssumption == LastGeneration \in Nat \ {0} /\ MaxTunnels \in Nat

VARIABLES
    registered, revoked,  \* _records and their revoked_at
    instance,             \* the sandbox's current generation
    injection,            \* its injection record; the history list is left out
    mounted,              \* the runtime: <<key, generation>> in the tmpfs
    teardown,             \* the runtime: what it was told to take down
    tunnels               \* the addresses that answered for each tunnel, and its status
keyVars == <<registered, revoked, instance, injection, mounted, teardown, tunnels>>

NoInjection == [status |-> "none", generation |-> 0, key |-> "none"]
Live == injection.status \in {"pending", "active"}
KeysInit ==
    /\ registered = {} /\ revoked = {} /\ instance = 0
    /\ injection = NoInjection /\ mounted = {} /\ teardown = {} /\ tunnels = {}

-----------------------------------------------------------------------------
(* put registers a key or clears its revoked mark. *)
Put(k) ==
    /\ registered' = registered \cup {k} /\ revoked' = revoked \ {k}
    /\ UNCHANGED <<instance, injection, mounted, teardown, tunnels>>

(* revoke: the injection of the key, pending or active, is given up and    *)
(* listed for teardown.                                                    *)
RevokeKey(k) ==
    /\ k \in registered /\ revoked' = revoked \cup {k}
    /\ IF Live /\ k = injection.key
       THEN /\ injection' = [injection EXCEPT !.status = "revoked"]
            /\ teardown' = teardown \cup {<<k, injection.generation>>}
       ELSE UNCHANGED <<injection, teardown>>
    /\ UNCHANGED <<registered, instance, mounted, tunnels>>

(* set_sandbox_generation: a new instance starts with an empty tmpfs.      *)
KeptAcross(generation) == injection
SupersededBy(generation) ==
    IF Live /\ injection.generation # generation THEN NoInjection ELSE injection
SetGeneration ==
    /\ instance < LastGeneration /\ instance' = instance + 1
    /\ injection' = SupersededBy(instance + 1)
    /\ mounted' = {} /\ UNCHANGED <<registered, revoked, teardown, tunnels>>

(* plan_injection: the current generation, a key that is not revoked, and  *)
(* no injection in place unless it is rotated.                             *)
PlanInjection(k, generation, rotate) ==
    /\ k \in registered \ revoked /\ instance = generation
    /\ Live => rotate
    /\ injection' = [status |-> "pending", generation |-> generation, key |-> k]
    /\ UNCHANGED <<registered, revoked, instance, mounted, teardown, tunnels>>

(* The runtime mounts what is planned, and takes down what it is told to,  *)
(* both when it comes to it.                                               *)
Mount ==
    /\ injection.status = "pending" /\ injection.generation = instance
    /\ mounted' = mounted \cup {<<injection.key, instance>>}
    /\ UNCHANGED <<registered, revoked, instance, injection, teardown, tunnels>>
TakeDown ==
    /\ mounted \cap teardown # {} /\ mounted' = mounted \ teardown /\ teardown' = {}
    /\ UNCHANGED <<registered, revoked, instance, injection, tunnels>>

(* confirm_injection: a confirmation of an older generation is refused, and *)
(* one that finds the key revoked gives the injection up.                  *)
ConfirmInjection(generation) ==
    /\ injection.status = "pending" /\ injection.generation = generation
    /\ instance = generation
    /\ <<injection.key, generation>> \in mounted
    /\ injection' = [injection EXCEPT !.status =
                        IF injection.key \in revoked THEN "revoked" ELSE "active"]
    /\ UNCHANGED <<registered, revoked, instance, mounted, teardown, tunnels>>

(* clear, at a stop. *)
Clear ==
    /\ injection # NoInjection /\ injection' = NoInjection
    /\ mounted' = {} /\ UNCHANGED <<registered, revoked, instance, teardown, tunnels>>

KeysOnlyNext ==
    \/ SetGeneration \/ Mount \/ TakeDown \/ Clear
    \/ \E k \in CustomerKey :
          \/ Put(k) \/ RevokeKey(k)
          \/ \E g \in 1..LastGeneration, rotate \in BOOLEAN : PlanInjection(k, g, rotate)
    \/ \E g \in 1..LastGeneration : ConfirmInjection(g)

-----------------------------------------------------------------------------
(* EgressPolicy.decide_after_dns and decide: every address of every answer *)
(* must be free of denials, and the host allowed.                          *)
Address == {"public", "metadata", "private"}
Denied == {"metadata", "private"}
Port == {"https", "management"}
LastAnswer(pre, post) == post
Union(pre, post) == pre \cup post
Allows(addresses, port, redirect, allowlisted) ==
    /\ ~redirect /\ port # "management"
    /\ addresses # {} /\ addresses \cap Denied = {}
    /\ allowlisted
OpenTunnel(pre, post, port, redirect, allowlisted) ==
    /\ Cardinality(tunnels) < MaxTunnels
    /\ Allows(Union(pre, post), port, redirect, allowlisted)
    /\ tunnels' = tunnels \cup {[id |-> Cardinality(tunnels) + 1, seen |-> pre \cup post,
                                port |-> port, status |-> "open"]}
    /\ UNCHANGED <<registered, revoked, instance, injection, mounted, teardown>>
RevokeTunnels ==
    /\ tunnels' = {[t EXCEPT !.status = "closed"] : t \in tunnels}
    /\ UNCHANGED <<registered, revoked, instance, injection, mounted, teardown>>
EgressNext ==
    \/ RevokeTunnels
    \/ \E pre, post \in SUBSET Address, port \in Port, redirect, allowlisted \in BOOLEAN :
          OpenTunnel(pre, post, port, redirect, allowlisted)

KeysNext == KeysOnlyNext \/ EgressNext
KeysSpec == KeysInit /\ [][KeysNext]_keyVars

-----------------------------------------------------------------------------
KeysTypeOK ==
    /\ registered \subseteq CustomerKey /\ revoked \subseteq registered
    /\ instance \in 0..LastGeneration
    /\ mounted \subseteq CustomerKey \X {instance}

LiveIsCurrent ==
    Live => injection.generation = instance /\ injection.key \in registered \ revoked

(* A rotation takes the record of the old key away and leaves its mount:   *)
(* revoke then finds nothing to tear down, and this conjunct says nothing. *)
RevokedIsTornDown ==
    \A k \in revoked : <<k, instance>> \in mounted =>
        <<k, instance>> \in teardown \/ injection.key # k

NoTunnelToDenied == \A t \in tunnels : t.seen # {} /\ t.seen \cap Denied = {}

(* Whatever order plans, confirmations, revocations, rotations and         *)
(* restarts come in, an injection that is planned or active is of the      *)
(* running instance and of a key that is not revoked; a revoked key that   *)
(* is still mounted under its own record is listed for teardown; and no    *)
(* tunnel stands for a name that ever answered with a denied address       *)
(* (plan_injection, confirm_injection, revoke, set_sandbox_generation,     *)
(* decide_after_dns).                                                      *)
InjectionCurrent == KeysTypeOK /\ LiveIsCurrent /\ RevokedIsTornDown /\ NoTunnelToDenied
=============================================================================
