---------------------------- MODULE AttackCascade -----------------------------
(***************************************************************************)
(* From an injected attack to its cascade: the operator injects captured    *)
(* flows at an asset (backend/inject.py), the pipeline resolves their       *)
(* source address (src/datasets/asset_registry.py) and asks for the impact  *)
(* of the asset it stands for (CascadeSimulation).                          *)
(*                                                                          *)
(* An address is a model value.  Of the registry's heuristics for unknown   *)
(* ones only their outcome is kept: `Near` maps an address of the assets'   *)
(* subnet to the registered address it is near to.                          *)
(***************************************************************************)
EXTENDS CascadeSimulation

CONSTANTS
    Address,        \* asset -> its address
    Near,           \* unknown address of the subnet -> the nearest registered address
    Strangers,      \* addresses that resolve to nothing
    Days,           \* day -> its flows by time: [row, source, label, traffic, honeytoken]
    Scenarios,      \* SCENARIOS: name -> [day, label, honeytoken]
    PoolCap,        \* _POOL_CAP
    MaxCount,       \* inject_max_flows
    Targets,        \* the assets that injections aim at
    MaxInjections, MaxFailures, MaxAsked    \* bounds

ASSUME InjectionAssumption ==
    /\ Address \in [Assets -> Range(Address)] /\ IsInjective(Address)
    /\ DOMAIN Near \cap Range(Address) = {} /\ Range(Near) \subseteq Range(Address)
    /\ Strangers \cap (DOMAIN Near \cup Range(Address)) = {}
    /\ PoolCap \in Nat \ {0} /\ MaxCount \in 1 .. PoolCap
    /\ \A s \in DOMAIN Scenarios : Scenarios[s].day \in DOMAIN Days
    /\ MaxInjections \in Nat
    /\ \A day \in DOMAIN Days :
           /\ Days[day] \in Seq(Range(Days[day]))
           /\ \A f \in Range(Days[day]) :
                  /\ f = [row |-> f.row, source |-> f.source, label |-> f.label,
                          traffic |-> f.traffic, honeytoken |-> FALSE]
                  /\ \A n \in 1 .. (MaxInjections + MaxCount) : f.row # <<"injected", n>>

VARIABLES
    discovered,     \* _discovered: addresses registered on the fly
    pools,          \* _pool_cache: [day, label] -> flows
    injected,       \* every flow handed to ReplayEngine.inject(), in order
    arrived,        \* how many of them the pipeline has handled
    uncached,       \* failed reads of a day
    asked,          \* impacts asked for
    requests        \* history: the injections: [scenario, target, count, before]

injectionVars == <<discovered, pools, injected, arrived, uncached, asked, requests>>
vars == <<cascadeVars, injectionVars>>

Init ==
    /\ CascadeInit
    /\ discovered = {} /\ pools = <<>> /\ injected = <<>> /\ arrived = 0
    /\ uncached = 0 /\ asked = 0 /\ requests = <<>>

-----------------------------------------------------------------------------
(* AssetRegistry.resolve() *)

AssetAt(address) == CHOOSE a \in Assets : Address[a] = address
Unresolved == "unresolved"

\* An exact match, the neighbourhood, and last a node made up for the address.
Resolved(address) ==
    IF address \in Range(Address) THEN AssetAt(address)
    ELSE IF address \in DOMAIN Near THEN AssetAt(Near[address]) ELSE Unresolved

-----------------------------------------------------------------------------
(* build_injection_flows() *)

\* The first flows of a day with the label, as many as the cache holds.
PoolOf(day, label) ==
    LET flows == Days[day]
        pool[n \in 0 .. Len(flows)] ==
            IF n = 0 THEN <<>>
            ELSE IF flows[n].label = label /\ Len(pool[n - 1]) < PoolCap
                   THEN Append(pool[n - 1], flows[n])
            ELSE pool[n - 1]
    IN pool[Len(flows)]

\* A copy of a flow of the pool, aimed at the target, with a row id of its own.
Retarget(flow, target, spec, serial) ==
    [flow EXCEPT !.row = <<"injected", serial>>, !.source = Address[target],
                 !.honeytoken = spec.honeytoken]

\* Mutant: the cache is left with the copies that were just handed over.
Cached_Copies(pool, copies) == copies

\* What a request leaves in the cache: the flows as they were read.
Cached(pool, copies) == pool

\* The pool of a day and label is read once and shared by the scenarios that need it.
\* A read that fails leaves no entry behind.
Inject(scenario, target, count) ==
    LET spec == Scenarios[scenario]
        key == <<spec.day, spec.label>>
        pool == IF key \in DOMAIN pools THEN pools[key] ELSE PoolOf(spec.day, spec.label)
        copies == [i \in 1 .. Min({count, Len(pool)}) |->
                      Retarget(pool[i], target, spec, Len(injected) + i)]
    IN /\ Len(injected) < MaxInjections
       /\ target \in ResolvableTargets
       /\ pools' = [k \in DOMAIN pools \cup {key} |->
                       IF k = key THEN Cached(pool, copies) ELSE pools[k]]
       /\ injected' = injected \o copies
       /\ requests' = Append(requests, [scenario |-> scenario, target |-> target,
                                        count |-> count, before |-> Len(injected)])
       /\ UNCHANGED <<cascadeVars, discovered, arrived, uncached, asked>>

InjectFails(scenario) ==
    /\ <<Scenarios[scenario].day, Scenarios[scenario].label>> \notin DOMAIN pools
    /\ uncached < MaxFailures
    /\ uncached' = uncached + 1
    /\ UNCHANGED <<cascadeVars, discovered, pools, injected, arrived, asked, requests>>

-----------------------------------------------------------------------------
(* Asking for an impact *)

\* _blast_radius(): only for an asset of the seeded graph.
AskIfKnown(asset) ==
    IF asset \in DOMAIN SeededCriticality THEN Ask(asset)
    ELSE UNCHANGED cascadeVars

\* The pipeline handles the next injected flow, once the last result is there.
Arrive ==
    /\ arrived < Len(injected) /\ phase \in {"idle", "done"}
    /\ arrived' = arrived + 1
    /\ AskIfKnown(Resolved(injected[arrived'].source))
    /\ UNCHANGED <<discovered, pools, injected, uncached, asked, requests>>

\* A flow of the capture, from an address the registry may never have seen.
Observe ==
    /\ phase \in {"idle", "done"} /\ asked < MaxAsked
    /\ asked' = asked + 1
    /\ \E address \in Strangers \cup DOMAIN Near :
           /\ discovered' = IF Resolved(address) = Unresolved THEN discovered \cup {address}
                            ELSE discovered
           /\ AskIfKnown(Resolved(address))
    /\ UNCHANGED <<pools, injected, arrived, uncached, requests>>

\* The console asks about any node, gateways included (tripwires).
Console ==
    /\ asked < MaxAsked
    /\ asked' = asked + 1
    /\ \E asset \in Assets \cup Gateways \cup {Unresolved} : Ask(asset)
    /\ UNCHANGED <<discovered, pools, injected, arrived, uncached, requests>>

Next ==
    \/ \E s \in DOMAIN Scenarios, t \in Targets, n \in 1 .. MaxCount : Inject(s, t, n)
    \/ \E s \in DOMAIN Scenarios : InjectFails(s)
    \/ Arrive \/ Observe \/ Console
    \/ CascadeStep /\ UNCHANGED injectionVars

Spec == Init /\ [][Next]_vars

-----------------------------------------------------------------------------
(* Properties *)

\* The mandatory chokepoint: whatever the configuration lists, an asset at or above the
\* threshold falls only after the gateway of its zone, unless it is where the attack began.
GatewayFallsFirst ==
    \A a \in (Protected \cap DOMAIN hops) \ {origin} :
        GatewayOf(a) \in DOMAIN hops /\ hops[GatewayOf(a)] < hops[a]

\* What one propagation fells is what its draws explain.  A node the search found is one
\* hop behind a node whose edge to it fired; a fired edge out of a node below MaxHops leads
\* to a node found at most one hop later: so the hops are distances.  And a node protected by
\* redundancy falls only when every backup path from a node the search found has failed.
PropagationIsExplained ==
    phase = "backup" =>
        LET found == DOMAIN hops \ redundant
            searched == {e \in fired : e.type # "backed_up_by"}
        IN /\ hops[origin] = 0
           /\ \A n \in found \ {origin} :
                  /\ hops[n] \in 1 .. MaxHops
                  /\ \E e \in searched : e.tgt = n /\ e.src \in found /\ hops[n] = hops[e.src] + 1
           /\ \A e \in searched : e.tgt \in found /\ hops[e.tgt] <= hops[e.src] + 1
           /\ \A n \in redundant : \A e \in Backups(n) : e.src \in found => e \in fired

\* "Normalised scores cannot exceed 1.0 by construction", so that the clamp at 1 never bites;
\* and the reported interval holds the median.
ScoreIsAFraction ==
    phase = "done" =>
        LET scores == Scores(Unit)
            median == Percentile(scores, 50)
        IN /\ \A i \in DOMAIN impacts : impacts[i] <= Denominator
           /\ 0 <= Percentile(scores, 5) /\ Percentile(scores, 5) <= median
           /\ median <= Percentile(scores, 95)

\* So the whole answer is explained: each propagation by its draws, and the score that is
\* reported for them as a share of the city's criticality.
CascadeIsExplained == PropagationIsExplained /\ ScoreIsAFraction

\* Edges of one provider fail together or not at all: within an iteration no edge fires
\* when another one of its provider was tried, from a node the search expanded, and held.
ProvidersFailTogether ==
    phase = "backup" =>
        \A d, e \in {e \in edges : IsShared(e)} :
            (/\ d.provider = e.provider /\ d \in fired
             /\ e.src \in DOMAIN hops \ redundant /\ hops[e.src] < MaxHops)
            => e.tgt \in DOMAIN hops

\* Whatever the cache holds by then, a request hands over the flows a fresh read of its
\* scenario's day would give, no more than it asked for: each a captured one, changed in
\* nothing but source, honeytoken flag and row id.  The source resolves to the asset this
\* request chose, the flag is its scenario's, and no other flow has the row id.
InjectedFlowsAreReal ==
    /\ \A i, j \in DOMAIN injected : injected[i].row = injected[j].row => i = j
    /\ \A i \in DOMAIN injected :
          /\ \A day \in DOMAIN Days : \A g \in ToSet(Days[day]) : injected[i].row # g.row
          /\ \E r \in ToSet(requests) : i \in r.before + 1 .. r.before + r.count
    /\ \A r \in ToSet(requests) :
          LET spec == Scenarios[r.scenario]
              fresh == PoolOf(spec.day, spec.label)
          IN \A k \in 1 .. Min({r.count, Len(fresh)}) :
                LET f == injected[r.before + k]
                IN /\ r.before + k \in DOMAIN injected
                   /\ fresh[k] \in ToSet(Days[spec.day]) /\ fresh[k].label = spec.label
                   /\ f = [fresh[k] EXCEPT !.row = f.row, !.source = f.source,
                                           !.honeytoken = spec.honeytoken]
                   /\ Resolved(f.source) = r.target

=============================================================================
