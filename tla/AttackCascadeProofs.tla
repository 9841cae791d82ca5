-------------------------- MODULE AttackCascadeProofs --------------------------
(***************************************************************************)
(* Proofs about AttackCascade, for every city: any assets, dependencies,    *)
(* gateways and thresholds, any number of hops and iterations, and any      *)
(* captured days.                                                           *)
(*   - ChokepointHolds: a protected asset falls after its gateway;          *)
(*   - OneDrawPerProvider: the edges of a provider fail together;           *)
(*   - AnswerIsExplained: a propagation is what its draws explain, its      *)
(*     impact a share of the mass, and the interval holds the median;       *)
(*   - InjectionIsReal: an injected flow is a captured one, aimed.          *)
(*                                                                          *)
(* Sums, percentiles and pools are computed by recursion over data; what    *)
(* they return is shown by induction on sizes (NatInduct).                  *)
(***************************************************************************)
EXTENDS AttackCascade, TLAPS, WellFoundedInduction, FiniteSetTheorems, SequenceTheorems

-----------------------------------------------------------------------------
(* The graph *)

\* The image of a finite set is finite.
LEMMA FiniteImage ==
    ASSUME NEW S, IsFiniteSet(S), NEW f
    PROVE  IsFiniteSet({f[x] : x \in S})
<1>. DEFINE g == [x \in S |-> f[x]]
<1>1. g \in Surjection(S, {f[x] : x \in S})  BY DEF Surjection
<1>. QED  BY <1>1, FS_Surjection

\* A finite set put in a sequence: each element is there, and nothing else.
LEMMA SequenceOfSet ==
    ASSUME NEW S, IsFiniteSet(S)
    PROVE  SetToSeq(S) \in Seq(S) /\ ToSet(SetToSeq(S)) = S
<1>. DEFINE n == Cardinality(S)
            f == SetToSeq(S)
<1>1. n \in Nat /\ ExistsBijection(1 .. n, S)  BY FS_CardinalityType
<1>2. \E g \in [1 .. n -> S] : IsInjective(g)
  <2>1. PICK g \in Bijection(1 .. n, S) : TRUE  BY <1>1 DEF ExistsBijection
  <2>. QED  BY <2>1 DEF Bijection, Injection, IsInjective
<1>3. f \in [1 .. n -> S] /\ IsInjective(f)  BY <1>2 DEF SetToSeq
<1>. HIDE DEF f
<1>4. f \in Injection(1 .. n, S)  BY <1>3 DEF Injection
<1>5. Cardinality(1 .. n) = n  BY <1>1, FS_Interval
<1>6. f \in Surjection(1 .. n, S)  BY <1>4, <1>5, FS_Injection
<1>7. \A x \in S : \E i \in 1 .. n : f[i] = x  BY <1>6 DEF Surjection
<1>8. DOMAIN f = 1 .. n  BY <1>3
<1>9. ToSet(f) = S  BY <1>3, <1>7, <1>8 DEF ToSet
<1>10. f \in Seq(S)  BY <1>1, <1>3
<1>. QED  BY <1>9, <1>10 DEF f

\* A protected asset is no gateway; what leads to it once the entries are routed is a relay.
LEMMA OnlyRelaysReach ==
    ASSUME NEW e \in BuildGraph, e.tgt \in Protected
    PROVE  e.src = GatewayOf(e.tgt) /\ e.type = "gateway_relay"
<1>1. CASE e \in RoutedEdges
  <2>1. PICK i \in DOMAIN Dependencies : e = Routed(Dependencies[i])
    BY <1>1 DEF RoutedEdges, RoutedAt
  <2>2. Dependencies[i] \in [src : STRING, tgt : STRING, type : EdgeTypes, chance : Chances,
                             provider : STRING]
    <3>1. i \in 1 .. Len(Dependencies)  BY GraphAssumption
    <3>. QED  BY <3>1, GraphAssumption, ElementOfSeq
  <2>3. CASE Dependencies[i].tgt \in Protected
    <3>1. e = [Dependencies[i] EXCEPT !.tgt = GatewayOf(Dependencies[i].tgt)]
      BY <2>1, <2>3 DEF Routed
    <3>4. e.tgt = GatewayOf(Dependencies[i].tgt)  BY <3>1, <2>2
    <3>2. GatewayOf(Dependencies[i].tgt) \in Gateways
      BY <2>3, GraphAssumption DEF Gateways, GatewayOf, Protected
    <3>3. e.tgt \in Assets  BY DEF Protected
    <3>. QED  BY <3>4, <3>2, <3>3, GraphAssumption
  <2>4. CASE Dependencies[i].tgt \notin Protected  BY <2>1, <2>4 DEF Routed
  <2>. QED  BY <2>3, <2>4
<1>2. CASE e \in Relays
  <2>1. PICK a \in Protected : \E c : e = Relay(GatewayOf(a), a, c)  BY <1>2 DEF Relays
  <2>2. PICK c : e = Relay(GatewayOf(a), a, c)  BY <2>1
  <2>. QED  BY <2>1, <2>2 DEF Relay
<1>. QED  BY <1>1, <1>2 DEF BuildGraph

\* So in what a call works on.
LEMMA OnlyRelaysReachSpliced ==
    ASSUME NEW asset, NEW e \in Spliced(asset), e.tgt \in Protected
    PROVE  e.src = GatewayOf(e.tgt) /\ e.type = "gateway_relay"
<1>1. CASE e \in BuildGraph  BY <1>1, OnlyRelaysReach
<1>2. CASE e \notin BuildGraph
  <2>1. PICK a \in GatewayTargets(asset) : e = Relay(asset, a, BreachChance)
    BY <1>2 DEF Spliced
  <2>2. e.src = asset /\ e.tgt = a /\ e.type = "gateway_relay"  BY <2>1 DEF Relay
  <2>. QED  BY <2>1, <2>2 DEF GatewayTargets
<1>. QED  BY <1>1, <1>2

\* The graph is finite.
LEMMA FiniteGraph ==
    ASSUME NEW asset
    PROVE  IsFiniteSet(Spliced(asset)) /\ IsFiniteSet(NodesOf(Spliced(asset)))
<1>. DEFINE Entries == DOMAIN Dependencies
<1>0. IsFiniteSet(Assets)  BY GraphAssumption
<1>1. IsFiniteSet(Entries)
  <2>1. Entries = 1 .. Len(Dependencies) /\ Len(Dependencies) \in Nat
    BY GraphAssumption, LenProperties
  <2>. QED  BY <2>1, FS_Interval
<1>2. IsFiniteSet(RoutedEdges)
  <2>. DEFINE f == [i \in Entries |-> RoutedAt(i)]
  <2>1. IsFiniteSet({f[i] : i \in Entries})  BY <1>1, FiniteImage
  <2>2. ASSUME NEW e \in RoutedEdges PROVE \E i \in Entries : e = f[i]
    <3>1. PICK i \in Entries : e = RoutedAt(i)  BY DEF RoutedEdges
    <3>. QED  BY <3>1
  <2>3. RoutedEdges \in SUBSET {f[i] : i \in Entries}  BY <2>2
  <2>. QED  BY <2>1, <2>3, FS_Subset
<1>3. IsFiniteSet(Relays)
  <2>. DEFINE R(a) == Relay(GatewayOf(a), a, UnionChance({e.chance : e \in EntriesTo(a)}))
              f == [a \in Assets |-> R(a)]
  <2>1. IsFiniteSet({f[a] : a \in Assets})
    <3>. HIDE DEF f
    <3>. QED  BY <1>0, FiniteImage
  <2>2. \A a \in Protected : a \in Assets  BY DEF Protected
  <2>3. ASSUME NEW e \in Relays PROVE \E a \in Assets : e = f[a]
    <3>1. PICK a \in Protected : e = R(a)  BY DEF Relays
    <3>. QED  BY <2>2, <3>1
  <2>4. Relays \in SUBSET {f[a] : a \in Assets}  BY <2>3
  <2>. QED  BY <2>1, <2>4, FS_Subset
<1>4. IsFiniteSet(BuildGraph)  BY <1>2, <1>3, FS_Union DEF BuildGraph
<1>5. IsFiniteSet({Relay(asset, a, BreachChance) : a \in GatewayTargets(asset)})
  <2>. DEFINE R(a) == Relay(asset, a, BreachChance)
              f == [a \in Assets |-> R(a)]
  <2>1. IsFiniteSet({f[a] : a \in Assets})
    <3>. HIDE DEF f
    <3>. QED  BY <1>0, FiniteImage
  <2>2. GatewayTargets(asset) \subseteq Assets  BY DEF GatewayTargets, Protected
  <2>. HIDE DEF R
  <2>3. {R(a) : a \in GatewayTargets(asset)} \in SUBSET {f[a] : a \in Assets}  BY <2>2
  <2>4. IsFiniteSet({R(a) : a \in GatewayTargets(asset)})  BY <2>1, <2>3, FS_Subset
  <2>. QED  BY <2>4 DEF R
<1>6. IsFiniteSet(Spliced(asset))
  BY <1>4, <1>5, FS_Union DEF Spliced
<1>7. IsFiniteSet(NodesOf(Spliced(asset)))
  <2>. DEFINE E == Spliced(asset)
              f == [e \in E |-> e.src]
              g == [e \in E |-> e.tgt]
  <2>. HIDE DEF E
  <2>0. IsFiniteSet(E)  BY <1>6 DEF E
  <2>1. IsFiniteSet({f[e] : e \in E})  BY <2>0, FiniteImage
  <2>2. IsFiniteSet({g[e] : e \in E})  BY <2>0, FiniteImage
  <2>3. {f[e] : e \in E} = {e.src : e \in E} /\ {g[e] : e \in E} = {e.tgt : e \in E}  OBVIOUS
  <2>4. IsFiniteSet(NodesOf(E))  BY <2>1, <2>2, <2>3, FS_Union DEF NodesOf
  <2>. QED  BY <2>4 DEF E
<1>. QED  BY <1>6, <1>7

-----------------------------------------------------------------------------
(* One call *)

\* What a propagation keeps to, whatever its phase.
Shape ==
    /\ phase \in {"idle", "search", "backup", "done"}
    /\ phase \in {"search", "backup"} => origin \in DOMAIN hops
    /\ edges = {} \/ edges = Spliced(origin)
    /\ hops \in [DOMAIN hops -> Nat] /\ DOMAIN hops \subseteq NodesOf(edges)
    /\ DOMAIN hops # {} => origin \in DOMAIN hops /\ hops[origin] = 0
    /\ queue \in Seq(DOMAIN hops)
    /\ providers \in [DOMAIN providers -> BOOLEAN]
    /\ fired \subseteq edges
    /\ redundant \subseteq DOMAIN hops \ {origin}
    /\ phase = "search" => redundant = {}
    /\ phase # "search" => queue = <<>>

\* The nodes the search found, and the edges it found them by.
Found == DOMAIN hops \ redundant
Searched == {e \in fired : e.type # "backed_up_by"}

\* The edges tried from a node, and the nodes that open ones reach.
Tries(n) == IF hops[n] >= MaxHops THEN {} ELSE Tried(n)
Reached(open) == {e.tgt : e \in open}

\* A visit of n: the edges of `open` come true.
VisitTo(n, open) ==
    /\ phase = "search" /\ n \in DOMAIN hops
    /\ open \in SUBSET Tries(n) /\ Draws(Tries(n), open)
    /\ DOMAIN hops' = DOMAIN hops \cup Reached(open)
    /\ hops' \in [DOMAIN hops' -> Nat]
    /\ \A m \in DOMAIN hops' : hops'[m] = IF m \in Reached(open) THEN hops[n] + 1 ELSE hops[m]
    /\ queue' \in Seq(DOMAIN hops')
    /\ \A m \in ToSet(queue) \cup Reached(open) : m = n \/ m \in ToSet(queue')
    /\ providers' = [p \in DOMAIN providers \cup {e.provider : e \in {e \in Tries(n) : IsShared(e)}} |->
                         IF p \in DOMAIN providers THEN providers[p]
                         ELSE \E e \in open : IsShared(e) /\ e.provider = p]
    /\ fired' = fired \cup open
    /\ UNCHANGED <<phase, origin, edges, mass, unscanned, redundant, impacts>>

Visits == \E n, open : VisitTo(n, open)

\* A reached node is new.
LEMMA ReachedIsNew ==
    ASSUME NEW n, NEW open \in SUBSET Tries(n)
    PROVE  /\ Reached(open) \cap DOMAIN hops = {}
           /\ \A e \in open : e \in edges /\ e.src = n /\ e.type # "backed_up_by"
                              /\ e.tgt \in Reached(open) /\ ~ (hops[n] >= MaxHops)
BY DEF Tries, Tried, Reached

\* What is left of a queue without its head.
LEMMA TailKeeps ==
    ASSUME NEW S, NEW q \in Seq(S), q # <<>>
    PROVE  /\ Head(q) \in S /\ Tail(q) \in Seq(S)
           /\ \A x \in ToSet(q) : x = Head(q) \/ x \in ToSet(Tail(q))
<1>1. Head(q) \in S /\ Tail(q) \in Seq(S) /\ Head(q) = q[1]  BY HeadTailProperties
<1>2. Len(q) \in Nat /\ Len(Tail(q)) = Len(q) - 1 /\ DOMAIN q = 1 .. Len(q)
      /\ DOMAIN Tail(q) = 1 .. Len(Tail(q))
  BY <1>1, HeadTailProperties, LenProperties
<1>3. ASSUME NEW x \in ToSet(q), x # Head(q) PROVE x \in ToSet(Tail(q))
  <2>1. PICK i \in 1 .. Len(q) : x = q[i]  BY <1>2 DEF ToSet
  <2>2. i # 1 /\ i - 1 \in 1 .. Len(Tail(q))  BY <1>1, <1>2, <1>3, <2>1
  <2>3. Tail(q)[i - 1] = q[(i - 1) + 1]  BY <1>2, <2>2, HeadTailProperties
  <2>4. (i - 1) + 1 = i  BY <1>2
  <2>5. Tail(q)[i - 1] = x  BY <2>1, <2>3, <2>4
  <2>. QED  BY <1>2, <2>2, <2>5 DEF ToSet
<1>. QED  BY <1>1, <1>3

\* Two sequences in a row hold what each of them holds.
LEMMA ConcatKeeps ==
    ASSUME NEW S, NEW q \in Seq(S), NEW r \in Seq(S)
    PROVE  q \o r \in Seq(S) /\ \A x \in ToSet(q) \cup ToSet(r) : x \in ToSet(q \o r)
<1>1. /\ q \o r \in Seq(S) /\ Len(q) \in Nat /\ Len(r) \in Nat /\ Len(q \o r) = Len(q) + Len(r)
      /\ DOMAIN q = 1 .. Len(q) /\ DOMAIN r = 1 .. Len(r) /\ DOMAIN (q \o r) = 1 .. Len(q \o r)
  BY ConcatProperties, LenProperties
<1>2. ASSUME NEW x \in ToSet(q) PROVE x \in ToSet(q \o r)
  <2>1. PICK i \in 1 .. Len(q) : x = q[i]  BY <1>1 DEF ToSet
  <2>2. i \in 1 .. Len(q \o r)  BY <1>1, <2>1
  <2>3. (q \o r)[i] = q[i]  BY <1>1, <2>1, <2>2, ConcatProperties
  <2>. QED  BY <1>1, <2>1, <2>2, <2>3 DEF ToSet
<1>3. ASSUME NEW x \in ToSet(r) PROVE x \in ToSet(q \o r)
  <2>1. PICK i \in 1 .. Len(r) : x = r[i]  BY <1>1 DEF ToSet
  <2>2. Len(q) + i \in 1 .. Len(q \o r) /\ (q \o r)[Len(q) + i] = r[i]
    BY <1>1, <2>1, ConcatProperties
  <2>. QED  BY <1>1, <2>1, <2>2 DEF ToSet
<1>. QED  BY <1>1, <1>2, <1>3

\* A set of nodes reached in a finite graph is finite.
LEMMA FiniteReach ==
    ASSUME Shape, NEW open, open \subseteq edges
    PROVE  IsFiniteSet(Reached(open)) /\ Reached(open) \subseteq NodesOf(edges)
<1>1. Reached(open) \subseteq NodesOf(edges)  BY DEF Reached, NodesOf
<1>2. IsFiniteSet(NodesOf(edges))
  <2>1. CASE edges = {}  BY <2>1, FS_EmptySet DEF NodesOf
  <2>2. CASE edges = Spliced(origin)  BY <2>2, FiniteGraph
  <2>. QED  BY <2>1, <2>2 DEF Shape
<1>. QED  BY <1>1, <1>2, FS_Subset

LEMMA VisitMakes ==
    ASSUME Shape, Visit
    PROVE  Visits
<1>. DEFINE n == Head(queue)
<1>1. PICK open \in SUBSET Tries(n) :
         /\ Draws(Tries(n), open)
         /\ hops' = [m \in DOMAIN hops \cup Reached(open) |->
                        IF m \in Reached(open) THEN hops[n] + 1 ELSE hops[m]]
         /\ queue' = Tail(queue) \o SetToSeq(Reached(open))
         /\ providers' = [p \in DOMAIN providers
                              \cup {e.provider : e \in {e \in Tries(n) : IsShared(e)}} |->
                            IF p \in DOMAIN providers THEN providers[p]
                            ELSE \E e \in open : IsShared(e) /\ e.provider = p]
         /\ fired' = fired \cup open
  BY DEF Visit, Tries, Reached
<1>2. /\ phase = "search" /\ queue # <<>>
      /\ UNCHANGED <<phase, origin, edges, mass, unscanned, redundant, impacts>>
  BY DEF Visit
<1>3. /\ n \in DOMAIN hops /\ Tail(queue) \in Seq(DOMAIN hops)
      /\ \A x \in ToSet(queue) : x = n \/ x \in ToSet(Tail(queue))
  BY <1>2, TailKeeps DEF Shape
<1>. HIDE DEF n
<1>4. open \subseteq edges  BY ReachedIsNew
<1>5. IsFiniteSet(Reached(open))  BY <1>4, FiniteReach
<1>6. /\ SetToSeq(Reached(open)) \in Seq(Reached(open))
      /\ ToSet(SetToSeq(Reached(open))) = Reached(open)
  BY <1>5, SequenceOfSet
<1>7. DOMAIN hops' = DOMAIN hops \cup Reached(open)  BY <1>1
<1>8. \A m \in DOMAIN hops' : hops'[m] = IF m \in Reached(open) THEN hops[n] + 1 ELSE hops[m]
  BY <1>1
<1>9. hops' \in [DOMAIN hops' -> Nat]
  <2>1. hops[n] \in Nat /\ \A m \in DOMAIN hops : hops[m] \in Nat  BY <1>3 DEF Shape
  <2>2. \A m \in DOMAIN hops' : hops'[m] \in Nat  BY <1>7, <1>8, <2>1
  <2>. QED  BY <1>1, <2>2
<1>10. /\ queue' \in Seq(DOMAIN hops')
       /\ \A m \in ToSet(Tail(queue)) \cup Reached(open) : m \in ToSet(queue')
  <2>1. Tail(queue) \in Seq(DOMAIN hops')  BY <1>3, <1>7
  <2>2. SetToSeq(Reached(open)) \in Seq(DOMAIN hops')  BY <1>6, <1>7
  <2>. QED  BY <1>1, <1>6, <2>1, <2>2, ConcatKeeps
<1>11. VisitTo(n, open)  BY <1>1, <1>2, <1>3, <1>7, <1>8, <1>9, <1>10 DEF VisitTo
<1>. QED  BY <1>11 DEF Visits

\* A node of the second pass falls.
Fell(n) ==
    /\ n \notin DOMAIN hops /\ n \in NodesOf(edges)
    /\ \E e \in edges : e.tgt = n /\ e.type = "backed_up_by" /\ e.src \in DOMAIN hops
    /\ Backups(n) \subseteq fired'
    /\ DOMAIN hops' = DOMAIN hops \cup {n} /\ hops' \in [DOMAIN hops' -> Nat]
    /\ \A m \in DOMAIN hops : hops'[m] = hops[m]
    /\ redundant' = redundant \cup {n}

ScanOf(n) ==
    /\ phase = "backup"
    /\ \E open \in SUBSET Backups(n) : fired' = fired \cup open
    /\ Fell(n) \/ UNCHANGED <<hops, redundant>>
    /\ UNCHANGED <<phase, origin, edges, mass, queue, providers, impacts>>

Scans == \E n : ScanOf(n)

\* The least of some numbers is one of them.
LEMMA MinIsOne ==
    ASSUME NEW S \in SUBSET Nat, S # {}
    PROVE  Min(S) \in S /\ \A y \in S : Min(S) <= y
<1>. DEFINE R == OpToRel(<, Nat)
<1>0. IsWellFoundedOn(R, Nat)  BY NatLessThanWellFounded
<1>1. PICK x \in S : \A y \in S : ~ (<<y, x>> \in R)  BY <1>0, WFMin
<1>2. ASSUME NEW y \in S PROVE x <= y
  <2>1. x \in Nat /\ y \in Nat  OBVIOUS
  <2>2. y < x => <<y, x>> \in R  BY <2>1 DEF OpToRel
  <2>. HIDE DEF R
  <2>3. ~ (y < x)  BY <1>1, <2>2
  <2>. QED  BY <2>1, <2>3
<1>. QED  BY <1>2 DEF Min

LEMMA ScanMakes ==
    ASSUME Shape, ScanBackups
    PROVE  Scans
<1>. DEFINE n == Head(unscanned)
<1>1. phase = "backup" /\ UNCHANGED <<phase, origin, edges, mass, queue, providers, impacts>>
  BY DEF ScanBackups
<1>2. CASE n \in DOMAIN hops
  <2>1. fired' = fired \cup {} /\ UNCHANGED <<hops, redundant>>  BY <1>2 DEF ScanBackups
  <2>2. ScanOf(n)  BY <1>1, <2>1 DEF ScanOf
  <2>. QED  BY <2>2 DEF Scans
<1>3. CASE n \notin DOMAIN hops
  <2>. DEFINE least == Min({hops[e.src] : e \in Backups(n)}) + 1
  <2>1. PICK open \in SUBSET Backups(n) :
           /\ fired' = fired \cup open
           /\ IF Falls(Backups(n), open)
              THEN /\ hops' = [m \in DOMAIN hops \cup {n} |-> IF m = n THEN least ELSE hops[m]]
                   /\ redundant' = redundant \cup {n}
              ELSE UNCHANGED <<hops, redundant>>
    BY <1>3 DEF ScanBackups
  <2>2. CASE ~ Falls(Backups(n), open)
    <3>1. ScanOf(n)  BY <1>1, <2>1, <2>2 DEF ScanOf
    <3>. QED  BY <3>1 DEF Scans
  <2>3. CASE Falls(Backups(n), open)
    <3>1. Backups(n) # {} /\ Backups(n) \subseteq open  BY <2>3 DEF Falls
    <3>2. \A e \in Backups(n) : /\ e \in edges /\ e.tgt = n /\ e.type = "backed_up_by"
                                /\ e.src \in DOMAIN hops
      BY DEF Backups
    <3>3. {hops[e.src] : e \in Backups(n)} \in SUBSET Nat
          /\ {hops[e.src] : e \in Backups(n)} # {}
      BY <3>1, <3>2 DEF Shape
    <3>4. least \in Nat  BY <3>3, MinIsOne
    <3>. HIDE DEF least, n
    <3>5. hops' = [m \in DOMAIN hops \cup {n} |-> IF m = n THEN least ELSE hops[m]]
      BY <2>1, <2>3
    <3>6. DOMAIN hops' = DOMAIN hops \cup {n} /\ hops' \in [DOMAIN hops' -> Nat]
      BY <3>4, <3>5 DEF Shape
    <3>7. \A m \in DOMAIN hops : hops'[m] = hops[m]  BY <3>5, <1>3
    <3>8. n \in NodesOf(edges)  BY <3>1, <3>2 DEF NodesOf
    <3>9. Fell(n)  BY <1>3, <2>1, <2>3, <3>1, <3>2, <3>6, <3>7, <3>8 DEF Fell
    <3>10. ScanOf(n)  BY <1>1, <2>1, <3>9 DEF ScanOf
    <3>. QED  BY <3>10 DEF Scans
  <2>. QED  BY <2>2, <2>3
<1>. QED  BY <1>2, <1>3

\* A step, by what it does to the propagation.
LEMMA StepCases ==
    ASSUME Shape, [Next]_vars
    PROVE  \/ \E asset : Ask(asset)
           \/ Visit \/ SearchOver \/ ScanBackups \/ Score
           \/ UNCHANGED cascadeVars
<1>1. ASSUME Arrive \/ Observe \/ Console
      PROVE  (\E asset : Ask(asset)) \/ UNCHANGED cascadeVars
  BY <1>1 DEF Arrive, Observe, Console, AskIfKnown
<1>2. ASSUME NEW s, NEW t, NEW n, Inject(s, t, n) PROVE UNCHANGED cascadeVars
  BY <1>2 DEF Inject
<1>3. ASSUME NEW s, InjectFails(s) PROVE UNCHANGED cascadeVars
  BY <1>3 DEF InjectFails
<1>4. UNCHANGED vars => UNCHANGED cascadeVars  BY DEF vars
<1>. QED  BY <1>1, <1>2, <1>3, <1>4 DEF Next, CascadeStep

-----------------------------------------------------------------------------
(* The shape of a propagation *)

LEMMA AskShape ==
    ASSUME Shape, NEW asset, Ask(asset)
    PROVE  Shape'
<1>1. origin' = asset /\ edges' = Spliced(asset)  BY DEF Ask
<1>2. CASE asset \in NodesOf(edges')
  <2>1. /\ phase' = "search" /\ hops' = [n \in {asset} |-> 0] /\ queue' = <<asset>>
        /\ providers' = <<>> /\ fired' = {} /\ redundant' = {}
    BY <1>2 DEF Ask, StartIteration
  <2>. QED  BY <1>1, <1>2, <2>1 DEF Shape
<1>3. CASE asset \notin NodesOf(edges')
  <2>1. /\ phase' = "done" /\ hops' = <<>> /\ queue' = <<>>
        /\ providers' = <<>> /\ fired' = {} /\ redundant' = {}
    BY <1>3 DEF Ask
  <2>. QED  BY <1>1, <2>1 DEF Shape
<1>. QED  BY <1>2, <1>3

LEMMA ShapeStep ==
    ASSUME Shape, [Next]_vars
    PROVE  Shape'
<1>1. ASSUME NEW asset, Ask(asset) PROVE Shape'  BY <1>1, AskShape
<1>2. CASE Visit
  <2>1. PICK n, open : VisitTo(n, open)  BY <1>2, VisitMakes DEF Visits
  <2>2. /\ phase = "search" /\ UNCHANGED <<phase, origin, edges, redundant>>
        /\ DOMAIN hops' = DOMAIN hops \cup Reached(open) /\ hops' \in [DOMAIN hops' -> Nat]
        /\ queue' \in Seq(DOMAIN hops') /\ fired' = fired \cup open
        /\ open \in SUBSET Tries(n)
    BY <2>1 DEF VisitTo
  <2>3. Reached(open) \cap DOMAIN hops = {} /\ open \subseteq edges  BY <2>2, ReachedIsNew
  <2>4. Reached(open) \subseteq NodesOf(edges)  BY <2>3, FiniteReach
  <2>5. \A m \in DOMAIN hops : hops'[m] = hops[m]  BY <2>1, <2>2, <2>3 DEF VisitTo
  <2>6. origin \in DOMAIN hops /\ hops[origin] = 0  BY <2>2 DEF Shape
  <2>7. providers' \in [DOMAIN providers' -> BOOLEAN]
    <3>1. \A p \in DOMAIN providers : providers[p] \in BOOLEAN  BY DEF Shape
    <3>. QED  BY <2>1, <3>1 DEF VisitTo
  <2>. QED  BY <2>2, <2>3, <2>4, <2>5, <2>6, <2>7 DEF Shape
<1>3. CASE SearchOver
  BY <1>3 DEF SearchOver, Shape
<1>4. CASE ScanBackups
  <2>1. PICK n : ScanOf(n)  BY <1>4, ScanMakes DEF Scans
  <2>2. PICK open \in SUBSET Backups(n) : fired' = fired \cup open  BY <2>1 DEF ScanOf
  <2>3. fired' \subseteq edges  BY <2>2 DEF Backups, Shape
  <2>4. /\ phase = "backup" /\ UNCHANGED <<phase, origin, edges, queue, providers>>
    BY <2>1 DEF ScanOf
  <2>5. queue = <<>> /\ queue' \in Seq(DOMAIN hops')  BY <2>4 DEF Shape
  <2>6. CASE Fell(n)
    <3>1. origin \in DOMAIN hops /\ hops[origin] = 0  BY <2>4 DEF Shape
    <3>. QED  BY <2>3, <2>4, <2>5, <2>6, <3>1 DEF Fell, Shape
  <2>7. CASE UNCHANGED <<hops, redundant>>  BY <2>3, <2>4, <2>7 DEF Shape
  <2>. QED  BY <2>1, <2>6, <2>7 DEF ScanOf
<1>5. CASE Score
  <2>1. phase = "backup" /\ UNCHANGED <<origin, edges>>  BY <1>5 DEF Score
  <2>2. CASE StartIteration(origin)
    <3>1. origin \in NodesOf(edges) /\ edges = Spliced(origin)
      BY <2>1 DEF Shape, NodesOf
    <3>. QED  BY <2>1, <2>2, <3>1 DEF StartIteration, Shape
  <2>3. CASE phase' = "done" /\ UNCHANGED <<hops, queue, providers, fired, redundant>>
    BY <2>1, <2>3 DEF Shape
  <2>. QED  BY <1>5, <2>2, <2>3 DEF Score
<1>6. CASE UNCHANGED cascadeVars
  BY <1>6 DEF cascadeVars, searchVars, Shape
<1>. QED  BY <1>1, <1>2, <1>3, <1>4, <1>5, <1>6, StepCases

LEMMA InitShape ==
    ASSUME Init
    PROVE  Shape
BY DEF Init, CascadeInit, Shape

-----------------------------------------------------------------------------
(* The gateway falls first *)

\* No entry but a relay leads to a protected asset, and the second pass looks at others.
LEMMA GatewayStep ==
    ASSUME Shape, GatewayFallsFirst, [Next]_vars
    PROVE  GatewayFallsFirst'
<1>0. ASSUME NEW e \in edges, e.tgt \in Protected
      PROVE  e.src = GatewayOf(e.tgt) /\ e.type = "gateway_relay"
  <2>1. edges = Spliced(origin)  BY <1>0 DEF Shape
  <2>. QED  BY <1>0, <2>1, OnlyRelaysReachSpliced
<1>1. ASSUME NEW asset, Ask(asset) PROVE GatewayFallsFirst'
  <2>1. DOMAIN hops' \subseteq {origin'}
    BY <1>1 DEF Ask, StartIteration
  <2>. QED  BY <2>1 DEF GatewayFallsFirst
<1>2. CASE Visit
  <2>1. PICK n, open : VisitTo(n, open)  BY <1>2, VisitMakes DEF Visits
  <2>2. /\ open \in SUBSET Tries(n) /\ origin' = origin /\ n \in DOMAIN hops
        /\ DOMAIN hops' = DOMAIN hops \cup Reached(open)
        /\ \A m \in DOMAIN hops' : hops'[m] = IF m \in Reached(open) THEN hops[n] + 1 ELSE hops[m]
    BY <2>1 DEF VisitTo
  <2>3. Reached(open) \cap DOMAIN hops = {}  BY <2>2, ReachedIsNew
  <2>4. \A m \in DOMAIN hops : m \in DOMAIN hops' /\ hops'[m] = hops[m]  BY <2>2, <2>3
  <2>5. SUFFICES ASSUME NEW a \in (Protected \cap DOMAIN hops') \ {origin}
                 PROVE  GatewayOf(a) \in DOMAIN hops' /\ hops'[GatewayOf(a)] < hops'[a]
    BY <2>2 DEF GatewayFallsFirst
  <2>6. CASE a \in DOMAIN hops
    <3>1. GatewayOf(a) \in DOMAIN hops /\ hops[GatewayOf(a)] < hops[a]
      BY <2>6 DEF GatewayFallsFirst
    <3>. QED  BY <2>4, <2>6, <3>1
  <2>7. CASE a \in Reached(open)
    <3>1. PICK e \in open : a = e.tgt  BY <2>7 DEF Reached
    <3>2. e \in edges /\ e.src = n  BY <2>2, <3>1, ReachedIsNew
    <3>3. GatewayOf(a) = n  BY <1>0, <3>1, <3>2
    <3>4. hops'[a] = hops[n] + 1 /\ hops'[n] = hops[n] /\ hops[n] \in Nat
      BY <2>2, <2>4, <2>7 DEF Shape
    <3>. QED  BY <2>2, <3>3, <3>4
  <2>. QED  BY <2>2, <2>6, <2>7
<1>3. CASE ScanBackups
  <2>1. PICK n : ScanOf(n)  BY <1>3, ScanMakes DEF Scans
  <2>2. CASE Fell(n)
    <3>1. PICK e \in edges : e.tgt = n /\ e.type = "backed_up_by"  BY <2>2 DEF Fell
    <3>2. n \notin Protected  BY <1>0, <3>1
    <3>. QED  BY <2>1, <2>2, <3>2 DEF ScanOf, Fell, GatewayFallsFirst
  <2>3. CASE UNCHANGED <<hops, redundant>>  BY <2>1, <2>3 DEF ScanOf, GatewayFallsFirst
  <2>. QED  BY <2>1, <2>2, <2>3 DEF ScanOf
<1>4. CASE SearchOver  BY <1>4 DEF SearchOver, GatewayFallsFirst
<1>5. CASE Score
  <2>1. CASE StartIteration(origin)
    BY <1>5, <2>1 DEF Score, StartIteration, GatewayFallsFirst
  <2>2. CASE UNCHANGED hops  BY <1>5, <2>2 DEF Score, GatewayFallsFirst
  <2>. QED  BY <1>5, <2>1, <2>2 DEF Score
<1>6. CASE UNCHANGED cascadeVars
  BY <1>6 DEF cascadeVars, searchVars, GatewayFallsFirst
<1>. QED  BY <1>1, <1>2, <1>3, <1>4, <1>5, <1>6, StepCases

\* The mandatory chokepoint (src/graph_manager.py, build_graph): whatever assets, entries
\* and threshold are configured, a protected asset falls only after the gateway of its
\* zone, in the search and in the second pass, unless it is where the attack began.
THEOREM ChokepointHolds == Spec => []GatewayFallsFirst
<1>1. Init => Shape /\ GatewayFallsFirst
  BY InitShape DEF Init, CascadeInit, GatewayFallsFirst
<1>2. Shape /\ GatewayFallsFirst /\ [Next]_vars => Shape' /\ GatewayFallsFirst'
  BY ShapeStep, GatewayStep
<1>. QED  BY <1>1, <1>2, PTL DEF Spec

-----------------------------------------------------------------------------
(* What a propagation is explained by *)

\* The hops are one more than those of the node an edge came from, both ways.
Explained ==
    /\ \A n \in Found \ {origin} :
           /\ hops[n] \in 1 .. MaxHops
           /\ \E e \in Searched : e.tgt = n /\ e.src \in Found /\ hops[n] = hops[e.src] + 1
    /\ \A e \in Searched : /\ e.src \in Found /\ e.tgt \in Found
                           /\ hops[e.tgt] = hops[e.src] + 1
    /\ \A n \in redundant : \A e \in Backups(n) : e.src \in Found => e \in fired

LEMMA ExplainedStep ==
    ASSUME Shape, Explained, [Next]_vars
    PROVE  Explained'
<1>1. ASSUME NEW asset, Ask(asset) PROVE Explained'
  <2>1. DOMAIN hops' \subseteq {origin'} /\ fired' = {} /\ redundant' = {}
    BY <1>1 DEF Ask, StartIteration
  <2>. QED  BY <2>1 DEF Explained, Found, Searched
<1>2. CASE Visit
  <2>1. PICK n, open : VisitTo(n, open)  BY <1>2, VisitMakes DEF Visits
  <2>2. /\ open \in SUBSET Tries(n) /\ origin' = origin /\ n \in DOMAIN hops
        /\ redundant' = redundant /\ edges' = edges /\ fired' = fired \cup open
        /\ DOMAIN hops' = DOMAIN hops \cup Reached(open)
        /\ \A m \in DOMAIN hops' : hops'[m] = IF m \in Reached(open) THEN hops[n] + 1 ELSE hops[m]
    BY <2>1 DEF VisitTo
  <2>3. redundant = {} /\ Found = DOMAIN hops /\ Found' = DOMAIN hops'
    BY <2>1, <2>2 DEF VisitTo, Shape, Found
  <2>4. Reached(open) \cap DOMAIN hops = {}
        /\ \A e \in open : /\ e.src = n /\ e.type # "backed_up_by" /\ e.tgt \in Reached(open)
                           /\ ~ (hops[n] >= MaxHops)
    BY <2>2, ReachedIsNew
  <2>5. \A m \in DOMAIN hops : m \in DOMAIN hops' /\ hops'[m] = hops[m]  BY <2>2, <2>4
  <2>6. Searched' = Searched \cup open  BY <2>2, <2>4 DEF Searched
  <2>7. hops[n] \in Nat /\ MaxHops \in Nat  BY <2>2, CascadeAssumption DEF Shape
  <2>8. \A e \in Searched' : /\ e.src \in Found' /\ e.tgt \in Found'
                             /\ hops'[e.tgt] = hops'[e.src] + 1
    <3>1. ASSUME NEW e \in Searched
          PROVE  /\ e.src \in Found' /\ e.tgt \in Found' /\ hops'[e.tgt] = hops'[e.src] + 1
      BY <2>3, <2>5 DEF Explained
    <3>2. ASSUME NEW e \in open
          PROVE  /\ e.src \in Found' /\ e.tgt \in Found' /\ hops'[e.tgt] = hops'[e.src] + 1
      BY <2>2, <2>3, <2>4, <2>5
    <3>. QED  BY <2>6, <3>1, <3>2
  <2>9. ASSUME NEW m \in Found' \ {origin'}
        PROVE  /\ hops'[m] \in 1 .. MaxHops
               /\ \E e \in Searched' : e.tgt = m /\ e.src \in Found' /\ hops'[m] = hops'[e.src] + 1
    <3>1. CASE m \in DOMAIN hops
      <4>1. /\ hops[m] \in 1 .. MaxHops
            /\ \E e \in Searched : e.tgt = m /\ e.src \in Found /\ hops[m] = hops[e.src] + 1
        BY <2>2, <2>3, <2>9, <3>1 DEF Explained
      <4>. QED  BY <2>3, <2>5, <2>6, <3>1, <4>1
    <3>2. CASE m \in Reached(open)
      <4>1. PICK e \in open : m = e.tgt  BY <3>2 DEF Reached
      <4>2. hops'[m] = hops[n] + 1 /\ hops[n] < MaxHops  BY <2>2, <2>4, <2>7, <3>2, <4>1
      <4>3. hops'[m] \in 1 .. MaxHops  BY <2>7, <4>2
      <4>. QED  BY <2>6, <2>8, <4>1, <4>3
    <3>. QED  BY <2>2, <2>3, <2>9, <3>1, <3>2
  <2>. QED  BY <2>2, <2>3, <2>8, <2>9 DEF Explained
<1>3. CASE ScanBackups
  <2>1. PICK n : ScanOf(n)  BY <1>3, ScanMakes DEF Scans
  <2>2. PICK open \in SUBSET Backups(n) : fired' = fired \cup open  BY <2>1 DEF ScanOf
  <2>3. Searched' = Searched  BY <2>2 DEF Searched, Backups
  <2>4. origin' = origin /\ edges' = edges  BY <2>1 DEF ScanOf
  <2>5. CASE Fell(n)
    <3>1. /\ n \notin DOMAIN hops /\ DOMAIN hops' = DOMAIN hops \cup {n}
          /\ redundant' = redundant \cup {n} /\ Backups(n) \subseteq fired'
          /\ \A m \in DOMAIN hops : hops'[m] = hops[m]
      BY <2>5 DEF Fell
    <3>2. Found' = Found /\ Found \subseteq DOMAIN hops  BY <3>1 DEF Found, Shape
    <3>3. \A m \in Found : hops'[m] = hops[m]  BY <3>1, <3>2
    <3>4. ASSUME NEW m \in redundant', NEW e \in edges,
                 e.tgt = m, e.type = "backed_up_by", e.src \in Found
          PROVE  e \in fired'
      <4>1. e \in Backups(m)  BY <3>2, <3>4 DEF Backups
      <4>. QED  BY <2>2, <3>1, <3>4, <4>1 DEF Explained
    <3>5. \A m \in redundant' : \A e \in Backups(m)' : e.src \in Found' => e \in fired'
      BY <2>4, <3>2, <3>4 DEF Backups
    <3>. QED  BY <2>3, <2>4, <3>2, <3>3, <3>5 DEF Explained
  <2>6. CASE UNCHANGED <<hops, redundant>>
    BY <2>2, <2>3, <2>4, <2>6 DEF Explained, Found, Backups
  <2>. QED  BY <2>1, <2>5, <2>6 DEF ScanOf
<1>4. CASE SearchOver
  BY <1>4 DEF SearchOver, Explained, Found, Searched, Backups
<1>5. CASE Score
  <2>1. CASE StartIteration(origin)
    BY <1>5, <2>1 DEF Score, StartIteration, Explained, Found, Searched
  <2>2. CASE UNCHANGED <<hops, fired, redundant>>
    BY <1>5, <2>2 DEF Score, Explained, Found, Searched, Backups
  <2>. QED  BY <1>5, <2>1, <2>2 DEF Score
<1>6. CASE UNCHANGED cascadeVars
  BY <1>6 DEF cascadeVars, searchVars, Explained, Found, Searched, Backups
<1>. QED  BY <1>1, <1>2, <1>3, <1>4, <1>5, <1>6, StepCases

LEMMA ExplainedIsEnough ==
    ASSUME Shape, Explained
    PROVE  PropagationIsExplained
<1>. SUFFICES ASSUME phase = "backup"
              PROVE  LET found == Found
                         searched == Searched
                     IN  /\ hops[origin] = 0
                         /\ \A n \in found \ {origin} :
                                /\ hops[n] \in 1 .. MaxHops
                                /\ \E e \in searched : e.tgt = n /\ e.src \in found
                                                       /\ hops[n] = hops[e.src] + 1
                         /\ \A e \in searched : e.tgt \in found /\ hops[e.tgt] <= hops[e.src] + 1
                         /\ \A n \in redundant : \A e \in Backups(n) : e.src \in found => e \in fired
  BY DEF PropagationIsExplained, Found, Searched
<1>1. hops[origin] = 0  BY DEF Shape
<1>2. \A e \in Searched : e.tgt \in Found /\ hops[e.tgt] <= hops[e.src] + 1
  <2>1. \A n \in Found : hops[n] \in Nat  BY DEF Shape, Found
  <2>. QED  BY <2>1 DEF Explained
<1>. QED  BY <1>1, <1>2 DEF Explained

-----------------------------------------------------------------------------
(* Common providers *)

\* An edge that was tried and held leaves its provider's draw behind, and so does one that
\* fired.
CommonDraws ==
    /\ \A e \in edges :
          (/\ IsShared(e) /\ e.src \in Found /\ e.src \notin ToSet(queue)
           /\ hops[e.src] < MaxHops /\ e.tgt \notin DOMAIN hops)
          => e.provider \in DOMAIN providers /\ ~ providers[e.provider]
    /\ \A e \in fired : IsShared(e) => e.provider \in DOMAIN providers /\ providers[e.provider]

LEMMA CommonStep ==
    ASSUME Shape, CommonDraws, [Next]_vars
    PROVE  CommonDraws'
<1>1. ASSUME NEW asset, Ask(asset) PROVE CommonDraws'
  <2>1. fired' = {} /\ DOMAIN hops' \subseteq ToSet(queue')
    BY <1>1 DEF Ask, StartIteration, ToSet
  <2>. QED  BY <2>1 DEF CommonDraws, Found
<1>2. CASE Visit
  <2>1. PICK n, open : VisitTo(n, open)  BY <1>2, VisitMakes DEF Visits
  <2>2. /\ open \in SUBSET Tries(n) /\ n \in DOMAIN hops /\ Draws(Tries(n), open)
        /\ redundant' = redundant /\ edges' = edges /\ fired' = fired \cup open
        /\ DOMAIN hops' = DOMAIN hops \cup Reached(open)
        /\ \A m \in DOMAIN hops' : hops'[m] = IF m \in Reached(open) THEN hops[n] + 1 ELSE hops[m]
        /\ \A m \in ToSet(queue) \cup Reached(open) : m = n \/ m \in ToSet(queue')
    BY <2>1 DEF VisitTo
  <2>3. redundant = {} /\ Found = DOMAIN hops /\ Found' = DOMAIN hops'
    BY <2>1, <2>2 DEF VisitTo, Shape, Found
  <2>4. Reached(open) \cap DOMAIN hops = {}
        /\ \A e \in open : /\ e \in edges /\ e.src = n /\ e.tgt \in Reached(open)
    BY <2>2, ReachedIsNew
  <2>5. \A p \in DOMAIN providers : p \in DOMAIN providers' /\ providers'[p] = providers[p]
    BY <2>1 DEF VisitTo
  <2>6. \A e \in Tries(n) : IsShared(e) =>
            /\ e.provider \in DOMAIN providers'
            /\ e.provider \notin DOMAIN providers =>
                 (providers'[e.provider] <=> \E d \in open : IsShared(d) /\ d.provider = e.provider)
    BY <2>1 DEF VisitTo
  <2>7. \A e \in Tries(n) : IsShared(e) =>
            e.provider \in DOMAIN providers' /\ (providers'[e.provider] <=> e \in open)
    <3>. SUFFICES ASSUME NEW e \in Tries(n), IsShared(e)
                  PROVE  e.provider \in DOMAIN providers' /\ (providers'[e.provider] <=> e \in open)
      OBVIOUS
    <3>1. CASE e.provider \in DOMAIN providers
      <4>1. providers[e.provider] \in BOOLEAN  BY <3>1 DEF Shape
      <4>2. e \in open <=> providers[e.provider]  BY <2>2, <3>1 DEF Draws
      <4>3. providers'[e.provider] = providers[e.provider]  BY <2>5, <3>1
      <4>. QED  BY <2>6, <4>1, <4>2, <4>3
    <3>2. CASE e.provider \notin DOMAIN providers
      <4>. DEFINE sharing == {d \in Tries(n) : IsShared(d) /\ d.provider = e.provider}
      <4>1. sharing \subseteq open \/ sharing \cap open = {}  BY <2>2, <3>2 DEF Draws
      <4>2. e \in sharing  OBVIOUS
      <4>3. (\E d \in open : IsShared(d) /\ d.provider = e.provider) <=> e \in open
        BY <2>2, <4>1, <4>2
      <4>4. (providers'[e.provider] <=> \E d \in open : IsShared(d) /\ d.provider = e.provider)
        BY <2>6, <3>2
      <4>. HIDE DEF sharing
      <4>5. (providers'[e.provider] <=> e \in open)  BY <4>3, <4>4
      <4>. QED  BY <2>6, <4>5
    <3>. QED  BY <3>1, <3>2
  <2>8. ASSUME NEW e \in fired', IsShared(e)
        PROVE  e.provider \in DOMAIN providers' /\ providers'[e.provider]
    <3>1. CASE e \in fired
      <4>1. e.provider \in DOMAIN providers /\ providers[e.provider]
        BY <2>8, <3>1 DEF CommonDraws
      <4>. QED  BY <2>5, <4>1
    <3>2. CASE e \in open  BY <2>2, <2>7, <2>8, <3>2
    <3>. QED  BY <2>2, <3>1, <3>2
  <2>9. ASSUME NEW e \in edges, IsShared(e), e.src \in DOMAIN hops', e.src \notin ToSet(queue'),
               hops'[e.src] < MaxHops, e.tgt \notin DOMAIN hops'
        PROVE  e.provider \in DOMAIN providers' /\ ~ providers'[e.provider]
    <3>1. e.src \in DOMAIN hops /\ e.tgt \notin DOMAIN hops /\ e.tgt \notin Reached(open)
      <4>1. e.src \in Reached(open) => e.src = n  BY <2>2, <2>9
      <4>. QED  BY <2>2, <2>9, <4>1
    <3>2. hops[e.src] < MaxHops  BY <2>2, <2>4, <2>9, <3>1
    <3>3. CASE e.src = n
      <4>1. hops[n] \in Nat /\ MaxHops \in Nat  BY <2>2, CascadeAssumption DEF Shape
      <4>2. e.type # "backed_up_by"  BY <2>9 DEF IsShared
      <4>3. e \in Tries(n)  BY <3>1, <3>2, <3>3, <4>1, <4>2 DEF Tries, Tried
      <4>4. e \notin open  BY <2>4, <3>1
      <4>. QED  BY <2>7, <2>9, <4>3, <4>4
    <3>4. CASE e.src # n
      <4>1. e.src \notin ToSet(queue)  BY <2>2, <2>9, <3>4
      <4>2. e.provider \in DOMAIN providers /\ ~ providers[e.provider]
        BY <2>3, <2>9, <3>1, <3>2, <4>1 DEF CommonDraws
      <4>. QED  BY <2>5, <4>2
    <3>. QED  BY <3>3, <3>4
  <2>. QED  BY <2>2, <2>3, <2>8, <2>9 DEF CommonDraws
<1>3. CASE ScanBackups
  <2>1. PICK n : ScanOf(n)  BY <1>3, ScanMakes DEF Scans
  <2>2. PICK open \in SUBSET Backups(n) : fired' = fired \cup open  BY <2>1 DEF ScanOf
  <2>3. \A e \in fired' : IsShared(e) => e \in fired  BY <2>2 DEF Backups, IsShared
  <2>4. edges' = edges /\ providers' = providers /\ queue' = queue  BY <2>1 DEF ScanOf
  <2>5. \A e \in fired' : IsShared(e) =>
            e.provider \in DOMAIN providers' /\ providers'[e.provider]
    BY <2>3, <2>4 DEF CommonDraws
  <2>6. CASE Fell(n)
    <3>1. /\ n \notin DOMAIN hops /\ DOMAIN hops' = DOMAIN hops \cup {n}
          /\ redundant' = redundant \cup {n}
          /\ \A m \in DOMAIN hops : hops'[m] = hops[m]
      BY <2>6 DEF Fell
    <3>2. Found' = Found /\ Found \subseteq DOMAIN hops  BY <3>1 DEF Found, Shape
    <3>3. \A m \in Found : hops'[m] = hops[m]  BY <3>1, <3>2
    <3>. QED  BY <2>4, <2>5, <3>1, <3>2, <3>3 DEF CommonDraws
  <2>7. CASE UNCHANGED <<hops, redundant>>
    BY <2>4, <2>5, <2>7 DEF CommonDraws, Found
  <2>. QED  BY <2>1, <2>6, <2>7 DEF ScanOf
<1>4. CASE SearchOver
  BY <1>4 DEF SearchOver, CommonDraws, Found
<1>5. CASE Score
  <2>1. CASE StartIteration(origin)
    <3>1. fired' = {} /\ DOMAIN hops' \subseteq ToSet(queue')
      BY <2>1 DEF StartIteration, ToSet
    <3>. QED  BY <3>1 DEF CommonDraws, Found
  <2>2. CASE UNCHANGED <<hops, queue, providers, fired, redundant>>
    BY <1>5, <2>2 DEF Score, CommonDraws, Found
  <2>. QED  BY <1>5, <2>1, <2>2 DEF Score
<1>6. CASE UNCHANGED cascadeVars
  BY <1>6 DEF cascadeVars, searchVars, CommonDraws, Found
<1>. QED  BY <1>1, <1>2, <1>3, <1>4, <1>5, <1>6, StepCases

\* Common-mode failure (src/cii_calculator.py, provider_outcomes): whatever order nodes are
\* visited in, no edge fires in a propagation in which another one of its provider was
\* tried and held.
THEOREM OneDrawPerProvider == Spec => []ProvidersFailTogether
<1>1. Init => Shape /\ CommonDraws
  BY InitShape DEF Init, CascadeInit, CommonDraws
<1>2. Shape /\ CommonDraws /\ [Next]_vars => Shape' /\ CommonDraws'
  BY ShapeStep, CommonStep
<1>3. Shape /\ CommonDraws => ProvidersFailTogether
  <2>. SUFFICES ASSUME Shape, CommonDraws, phase = "backup",
                       NEW d \in edges, NEW e \in edges, IsShared(d), IsShared(e),
                       d.provider = e.provider, d \in fired,
                       e.src \in DOMAIN hops \ redundant, hops[e.src] < MaxHops,
                       e.tgt \notin DOMAIN hops
                PROVE  FALSE
    BY DEF ProvidersFailTogether
  <2>1. e.src \notin ToSet(queue)  BY DEF Shape, ToSet
  <2>2. e.provider \in DOMAIN providers /\ ~ providers[e.provider]
    BY <2>1 DEF CommonDraws, Found
  <2>3. providers[d.provider]  BY DEF CommonDraws
  <2>. QED  BY <2>2, <2>3
<1>. QED  BY <1>1, <1>2, <1>3, PTL DEF Spec

-----------------------------------------------------------------------------
(* Sums of criticality *)

\* A set with 0 that is closed under the successor holds every natural number.
LEMMA NatInduct ==
    ASSUME NEW S, 0 \in S, \A n \in Nat : n \in S => n + 1 \in S
    PROVE  \A n \in Nat : n \in S
<1>. DEFINE T == Nat \ S
            R == OpToRel(<, Nat)
<1>1. IsWellFoundedOn(R, Nat)  BY NatLessThanWellFounded
<1>. SUFFICES ASSUME T # {} PROVE FALSE  OBVIOUS
<1>2. PICK x \in T : \A y \in T : ~ (<<y, x>> \in R)  BY <1>1, WFMin
<1>3. x \in Nat /\ x # 0 /\ x - 1 \in Nat /\ x - 1 \in T  OBVIOUS
<1>4. <<x - 1, x>> \in R  BY <1>3 DEF OpToRel
<1>. QED  BY <1>2, <1>3, <1>4

\* A finite set without one of its elements has one element less.
LEMMA OneFewer ==
    ASSUME NEW t, IsFiniteSet(t), NEW x \in t
    PROVE  /\ IsFiniteSet(t \ {x}) /\ Cardinality(t \ {x}) \in Nat
           /\ Cardinality(t) = Cardinality(t \ {x}) + 1
<1>1. IsFiniteSet(t \ {x})  BY FS_Subset
<1>2. Cardinality(t) \in Nat /\ Cardinality(t \ {x}) \in Nat  BY <1>1, FS_CardinalityType
<1>3. Cardinality(t \ {x}) = Cardinality(t) - 1  BY FS_RemoveElement
<1>. QED  BY <1>1, <1>2, <1>3

\* The element of a set that a sum starts with.
FirstOf(s) == CHOOSE y \in s : TRUE

SumsBy(iter, S) ==
    /\ SumOfCriticality(S) = iter[S] /\ iter[{}] = 0
    /\ \A s \in SUBSET S :
           s # {} => iter[s] = CriticalityOf(FirstOf(s)) + iter[s \ {FirstOf(s)}]

\* The function behind a sum: on each subset, a node's criticality and the sum of the rest.
LEMMA SumTerms ==
    ASSUME NEW S, IsFiniteSet(S)
    PROVE  \E iter : SumsBy(iter, S)
<1>. DEFINE Body(g, s) == IF s = {} THEN 0
                          ELSE CriticalityOf(FirstOf(s)) + g[s \ {FirstOf(s)}]
            UpTo(k) == {s \in SUBSET S : Cardinality(s) <= k}
            Sums(g, k) == g = [s \in UpTo(k) |->
                                  IF s = {} THEN 0
                                  ELSE CriticalityOf(FirstOf(s)) + g[s \ {FirstOf(s)}]]
            K == {k \in Nat : \E g : Sums(g, k)}
<1>1. \A s \in SUBSET S : IsFiniteSet(s) /\ Cardinality(s) \in Nat
                          /\ (Cardinality(s) = 0 <=> s = {})
  BY FS_Subset, FS_CardinalityType, FS_EmptySet
<1>2. ASSUME NEW s \in SUBSET S, s # {}
      PROVE  FirstOf(s) \in s /\ s \ {FirstOf(s)} \in SUBSET S
             /\ Cardinality(s) = Cardinality(s \ {FirstOf(s)}) + 1
  <2>1. FirstOf(s) \in s  BY <1>2 DEF FirstOf
  <2>. QED  BY <1>1, <2>1, OneFewer
<1>3. 0 \in K
  <2>1. \A s \in UpTo(0) : s = {}  BY <1>1
  <2>2. Sums([s \in UpTo(0) |-> 0], 0)  BY <2>1
  <2>. QED  BY <2>2
<1>4. ASSUME NEW k \in Nat, k \in K
      PROVE  k + 1 \in K
  <2>1. PICK g : Sums(g, k)  BY <1>4
  <2>. DEFINE h == [s \in UpTo(k + 1) |-> Body(g, s)]
  <2>2. UpTo(k) \subseteq UpTo(k + 1)  BY <1>1
  <2>3. \A s \in UpTo(k) : g[s] = Body(g, s)  BY <2>1
  <2>4. \A s \in UpTo(k) : h[s] = g[s]  BY <2>2, <2>3
  <2>5. \A s \in UpTo(k + 1) : s # {} => s \ {FirstOf(s)} \in UpTo(k)  BY <1>1, <1>2
  <2>6. \A s \in UpTo(k + 1) : h[s] = Body(g, s)  OBVIOUS
  <2>7. h = [s \in UpTo(k + 1) |-> h[s]]  OBVIOUS
  <2>. HIDE DEF h, UpTo
  <2>8. \A s \in UpTo(k + 1) : h[s] = Body(h, s)  BY <2>4, <2>5, <2>6
  <2>9. Sums(h, k + 1)
    <3>1. h = [s \in UpTo(k + 1) |-> Body(h, s)]
      <4>. HIDE DEF Body
      <4>. QED  BY <2>7, <2>8
    <3>. QED  BY <3>1
  <2>10. k + 1 \in Nat  OBVIOUS
  <2>. HIDE DEF Sums
  <2>. QED  BY <2>9, <2>10
<1>5. \A k \in Nat : k \in K
  <2>. HIDE DEF K
  <2>. QED  BY <1>3, <1>4, NatInduct
<1>6. Cardinality(S) \in Nat /\ UpTo(Cardinality(S)) = SUBSET S
  BY FS_Subset, FS_CardinalityType
<1>. DEFINE All(g) == g = [s \in SUBSET S |->
                              IF s = {} THEN 0
                              ELSE CriticalityOf(FirstOf(s)) + g[s \ {FirstOf(s)}]]
            iter == CHOOSE g : All(g)
<1>7. \E g : All(g)
  <2>1. PICK g : Sums(g, Cardinality(S))  BY <1>5, <1>6
  <2>. HIDE DEF UpTo
  <2>2. All(g)  BY <2>1, <1>6
  <2>. QED  BY <2>2
<1>8. All(iter)  BY <1>7
<1>9. SumOfCriticality(S) = iter[S]
  BY DEF SumOfCriticality, FoldSet, MapThenFoldSet, FirstOf
<1>. HIDE DEF iter
<1>10. \A s \in SUBSET S : iter[s] = Body(iter, s)  BY <1>8
<1>11. iter[{}] = 0  BY <1>10
<1>12. ASSUME NEW s \in SUBSET S, s # {}
       PROVE  iter[s] = CriticalityOf(FirstOf(s)) + iter[s \ {FirstOf(s)}]
  BY <1>10, <1>12
<1>13. SumsBy(iter, S)  BY <1>9, <1>11, <1>12 DEF SumsBy
<1>. QED  BY <1>13

\* A subset is finite, and empty exactly when it has no element.
LEMMA PartOf ==
    ASSUME NEW S, IsFiniteSet(S), NEW s \in SUBSET S
    PROVE  IsFiniteSet(s) /\ Cardinality(s) \in Nat /\ (Cardinality(s) = 0 <=> s = {})
BY FS_Subset, FS_CardinalityType, FS_EmptySet

\* The part of a sum that belongs to a subset is the sum of the subset.
LEMMA PartialSum ==
    ASSUME NEW S, IsFiniteSet(S), NEW a, SumsBy(a, S), NEW T \in SUBSET S
    PROVE  SumOfCriticality(T) = a[T]
<1>0. IsFiniteSet(T) /\ Cardinality(T) \in Nat  BY PartOf
<1>1. PICK b : SumsBy(b, T)  BY <1>0, SumTerms
<1>. DEFINE K == {k \in Nat : \A s \in SUBSET T : Cardinality(s) = k => a[s] = b[s]}
<1>2. 0 \in K
  <2>1. \A s \in SUBSET T : Cardinality(s) = 0 => s = {}  BY <1>0, PartOf
  <2>. QED  BY <1>1, <2>1 DEF SumsBy
<1>3. ASSUME NEW k \in Nat, k \in K
      PROVE  k + 1 \in K
  <2>. SUFFICES ASSUME NEW s \in SUBSET T, Cardinality(s) = k + 1
                PROVE  a[s] = b[s]
    BY <1>3
  <2>1. s # {} /\ IsFiniteSet(s)  BY <1>0, PartOf
  <2>2. FirstOf(s) \in s  BY <2>1 DEF FirstOf
  <2>. DEFINE r == s \ {FirstOf(s)}
  <2>3. r \in SUBSET T /\ Cardinality(r) \in Nat /\ Cardinality(s) = Cardinality(r) + 1
    BY <2>1, <2>2, OneFewer
  <2>4. Cardinality(r) = k
    <3>. HIDE DEF r
    <3>. QED  BY <2>3
  <2>5. a[r] = b[r]  BY <1>3, <2>3, <2>4
  <2>6. s \in SUBSET S /\ s \in SUBSET T  OBVIOUS
  <2>7. a[s] = CriticalityOf(FirstOf(s)) + a[r]  BY <2>1, <2>6 DEF SumsBy
  <2>8. b[s] = CriticalityOf(FirstOf(s)) + b[r]  BY <1>1, <2>1, <2>6 DEF SumsBy
  <2>. QED  BY <2>5, <2>7, <2>8
<1>4. \A k \in Nat : k \in K
  <2>. HIDE DEF K
  <2>. QED  BY <1>2, <1>3, NatInduct
<1>5. a[T] = b[T]  BY <1>0, <1>4
<1>. QED  BY <1>1, <1>5 DEF SumsBy

\* A criticality is a number.
LEMMA CriticalityType ==
    ASSUME NEW n
    PROVE  CriticalityOf(n) \in Nat
<1>1. GatewayCriticality \in Nat /\ DefaultCriticality \in Nat
      /\ \A a \in Assets : Criticality[a] \in Nat
  BY GraphAssumption
<1>2. SeedCriticality(n) \in Nat  BY <1>1 DEF SeedCriticality
<1>3. n \in DOMAIN SeededCriticality => SeededCriticality[n] = SeedCriticality(n)
  BY DEF SeededCriticality
<1>. QED  BY <1>1, <1>2, <1>3 DEF CriticalityOf

\* A sum is the criticality of the node it starts with, and the sum of the others.
LEMMA SumUnfolds ==
    ASSUME NEW S, IsFiniteSet(S), S # {}
    PROVE  SumOfCriticality(S) = CriticalityOf(FirstOf(S)) + SumOfCriticality(S \ {FirstOf(S)})
<1>1. PICK a : SumsBy(a, S)  BY SumTerms
<1>2. S \in SUBSET S /\ S \ {FirstOf(S)} \in SUBSET S  OBVIOUS
<1>3. SumOfCriticality(S \ {FirstOf(S)}) = a[S \ {FirstOf(S)}]  BY <1>1, <1>2, PartialSum
<1>. QED  BY <1>1, <1>2, <1>3 DEF SumsBy

\* So it is a number.
LEMMA SumIsNumber ==
    ASSUME NEW S, IsFiniteSet(S)
    PROVE  SumOfCriticality(S) \in Nat
<1>. DEFINE K == {k \in Nat : \A s \in SUBSET S :
                                 Cardinality(s) = k => SumOfCriticality(s) \in Nat}
<1>1. 0 \in K
  <2>1. SumOfCriticality({}) = 0
    <3>1. IsFiniteSet({})  BY FS_EmptySet
    <3>2. PICK a : SumsBy(a, {})  BY <3>1, SumTerms
    <3>. QED  BY <3>2 DEF SumsBy
  <2>2. \A s \in SUBSET S : Cardinality(s) = 0 => s = {}  BY PartOf
  <2>. QED  BY <2>1, <2>2
<1>2. ASSUME NEW k \in Nat, k \in K
      PROVE  k + 1 \in K
  <2>. SUFFICES ASSUME NEW s \in SUBSET S, Cardinality(s) = k + 1
                PROVE  SumOfCriticality(s) \in Nat
    BY <1>2
  <2>1. s # {} /\ IsFiniteSet(s)  BY PartOf
  <2>2. FirstOf(s) \in s  BY <2>1 DEF FirstOf
  <2>. DEFINE r == s \ {FirstOf(s)}
  <2>3. r \in SUBSET S /\ Cardinality(r) \in Nat /\ Cardinality(s) = Cardinality(r) + 1
    BY <2>1, <2>2, OneFewer
  <2>4. SumOfCriticality(s) = CriticalityOf(FirstOf(s)) + SumOfCriticality(r)
    BY <2>1, SumUnfolds
  <2>. HIDE DEF r
  <2>5. Cardinality(r) = k  BY <2>3
  <2>6. SumOfCriticality(r) \in Nat  BY <1>2, <2>3, <2>5
  <2>. QED  BY <2>4, <2>6, CriticalityType
<1>3. \A k \in Nat : k \in K
  <2>. HIDE DEF K
  <2>. QED  BY <1>1, <1>2, NatInduct
<1>4. Cardinality(S) \in Nat /\ S \in SUBSET S  BY FS_CardinalityType
<1>. QED  BY <1>3, <1>4

\* It is the criticality of any of its nodes and the sum of the others.
LEMMA SumOfParts ==
    ASSUME NEW S, IsFiniteSet(S)
    PROVE  /\ SumOfCriticality(S) \in Nat
           /\ \A x \in S : SumOfCriticality(S) = CriticalityOf(x) + SumOfCriticality(S \ {x})
<1>. DEFINE Good(s) == /\ SumOfCriticality(s) \in Nat
                       /\ \A x \in s :
                            SumOfCriticality(s) = CriticalityOf(x) + SumOfCriticality(s \ {x})
            K == {k \in Nat : \A s \in SUBSET S : Cardinality(s) = k => Good(s)}
<1>1. 0 \in K
  <2>1. SumOfCriticality({}) = 0
    <3>1. IsFiniteSet({})  BY FS_EmptySet
    <3>2. PICK a : SumsBy(a, {})  BY <3>1, SumTerms
    <3>. QED  BY <3>2 DEF SumsBy
  <2>2. \A s \in SUBSET S : Cardinality(s) = 0 => s = {}  BY PartOf
  <2>. QED  BY <2>1, <2>2
<1>2. ASSUME NEW k \in Nat, k \in K
      PROVE  k + 1 \in K
  <2>. SUFFICES ASSUME NEW s \in SUBSET S, Cardinality(s) = k + 1
                PROVE  Good(s)
    BY <1>2
  <2>1. s # {} /\ IsFiniteSet(s)  BY PartOf
  <2>2. ASSUME NEW x \in s
        PROVE  s \ {x} \in SUBSET S /\ IsFiniteSet(s \ {x}) /\ Good(s \ {x})
    <3>1. /\ IsFiniteSet(s \ {x}) /\ Cardinality(s \ {x}) \in Nat
          /\ Cardinality(s) = Cardinality(s \ {x}) + 1
      BY <2>1, OneFewer
    <3>2. Cardinality(s \ {x}) = k  BY <3>1
    <3>. HIDE DEF Good
    <3>. QED  BY <1>2, <3>1, <3>2
  <2>. DEFINE y == FirstOf(s)
  <2>3. y \in s  BY <2>1 DEF FirstOf
  <2>4. SumOfCriticality(s) = CriticalityOf(y) + SumOfCriticality(s \ {y})
    BY <2>1, SumUnfolds
  <2>. HIDE DEF y
  <2>5. SumOfCriticality(s \ {y}) \in Nat /\ CriticalityOf(y) \in Nat
    BY <2>2, <2>3, CriticalityType
  <2>6. ASSUME NEW x \in s
        PROVE  SumOfCriticality(s) = CriticalityOf(x) + SumOfCriticality(s \ {x})
    <3>1. CASE x = y  BY <2>4, <3>1
    <3>2. CASE x # y
      <4>1. x \in s \ {y} /\ y \in s \ {x} /\ (s \ {y}) \ {x} = (s \ {x}) \ {y}
        BY <2>3, <3>2
      <4>. DEFINE rest == SumOfCriticality((s \ {x}) \ {y})
      <4>2. SumOfCriticality(s \ {y}) = CriticalityOf(x) + SumOfCriticality((s \ {y}) \ {x})
        BY <2>2, <2>3, <4>1
      <4>3. SumOfCriticality(s \ {x}) = CriticalityOf(y) + rest
        BY <2>2, <4>1
      <4>4. SumOfCriticality(s \ {y}) = CriticalityOf(x) + rest  BY <4>1, <4>2
      <4>5. rest \in Nat /\ CriticalityOf(x) \in Nat
        <5>1. IsFiniteSet((s \ {x}) \ {y})  BY <2>1, FS_Subset
        <5>2. rest \in Nat  BY <5>1, SumIsNumber
        <5>. QED  BY <5>2, CriticalityType
      <4>. HIDE DEF rest
      <4>. QED  BY <2>4, <2>5, <4>3, <4>4, <4>5
    <3>. QED  BY <3>1, <3>2
  <2>. QED  BY <2>4, <2>5, <2>6
<1>3. \A k \in Nat : k \in K
  <2>. HIDE DEF K
  <2>. QED  BY <1>1, <1>2, NatInduct
<1>4. Cardinality(S) \in Nat /\ S \in SUBSET S  BY FS_CardinalityType
<1>5. Good(S)
  <2>. HIDE DEF Good
  <2>. QED  BY <1>3, <1>4
<1>. QED  BY <1>5

\* Fewer nodes weigh no more.
LEMMA SumGrows ==
    ASSUME NEW S, IsFiniteSet(S), NEW T \in SUBSET S
    PROVE  SumOfCriticality(T) <= SumOfCriticality(S)
<1>. DEFINE K == {k \in Nat : \A s \in SUBSET S :
                    Cardinality(s) = k /\ T \subseteq s => SumOfCriticality(T) <= SumOfCriticality(s)}
<1>0. \A s \in SUBSET S : IsFiniteSet(s) /\ SumOfCriticality(s) \in Nat
  BY PartOf, SumIsNumber
<1>1. 0 \in K
  <2>1. \A s \in SUBSET S : Cardinality(s) = 0 => s = {}  BY PartOf
  <2>. QED  BY <1>0, <2>1
<1>2. ASSUME NEW k \in Nat, k \in K
      PROVE  k + 1 \in K
  <2>. SUFFICES ASSUME NEW s \in SUBSET S, Cardinality(s) = k + 1, T \subseteq s
                PROVE  SumOfCriticality(T) <= SumOfCriticality(s)
    BY <1>2
  <2>1. CASE s = T  BY <1>0, <2>1
  <2>2. CASE s # T
    <3>1. PICK x \in s : x \notin T  BY <2>2
    <3>. DEFINE r == s \ {x}
    <3>2. r \in SUBSET S /\ T \subseteq r /\ Cardinality(r) \in Nat
          /\ Cardinality(s) = Cardinality(r) + 1
      BY <1>0, <3>1, OneFewer
    <3>3. SumOfCriticality(s) = CriticalityOf(x) + SumOfCriticality(r)
      BY <1>0, SumOfParts
    <3>. HIDE DEF r
    <3>4. Cardinality(r) = k  BY <3>2
    <3>5. SumOfCriticality(T) <= SumOfCriticality(r)  BY <1>2, <3>2, <3>4
    <3>6. SumOfCriticality(r) \in Nat /\ SumOfCriticality(T) \in Nat /\ CriticalityOf(x) \in Nat
      BY <1>0, <3>2, CriticalityType
    <3>. QED  BY <3>3, <3>5, <3>6
  <2>. QED  BY <2>1, <2>2
<1>3. \A k \in Nat : k \in K
  <2>. HIDE DEF K
  <2>. QED  BY <1>1, <1>2, NatInduct
<1>4. Cardinality(S) \in Nat /\ S \in SUBSET S  BY FS_CardinalityType
<1>. QED  BY <1>3, <1>4

-----------------------------------------------------------------------------
(* The score *)

\* No impact exceeds what the scores are divided by.
Fractions ==
    /\ mass = SumOfCriticality(NodesOf(edges) \ {origin}) /\ mass \in Nat
    /\ impacts \in Seq(Nat)
    /\ \A i \in DOMAIN impacts : impacts[i] <= Denominator

LEMMA MassIsNumber ==
    ASSUME Shape
    PROVE  IsFiniteSet(NodesOf(edges)) /\ \A x : IsFiniteSet(NodesOf(edges) \ {x})
<1>1. CASE edges = {}  BY <1>1, FS_EmptySet DEF NodesOf
<1>2. CASE edges = Spliced(origin)  BY <1>2, FiniteGraph, FS_Subset
<1>. QED  BY <1>1, <1>2 DEF Shape

LEMMA FractionsStep ==
    ASSUME Shape, Fractions, [Next]_vars
    PROVE  Fractions'
<1>0. Unit \in Nat /\ BreachCriticality \in Nat /\ BreachCriticality <= Unit
  BY GraphAssumption, CascadeAssumption
<1>1. ASSUME NEW asset, Ask(asset) PROVE Fractions'
  <2>1. /\ origin' = asset /\ edges' = Spliced(asset)
        /\ mass' = SumOfCriticality(NodesOf(edges') \ {asset})
    BY <1>1 DEF Ask
  <2>2. mass' \in Nat
    <3>1. IsFiniteSet(NodesOf(edges') \ {asset})  BY <2>1, FiniteGraph, FS_Subset
    <3>. QED  BY <2>1, <3>1, SumIsNumber
  <2>3. CASE impacts' = <<>>  BY <2>1, <2>2, <2>3 DEF Fractions
  <2>4. CASE impacts' = <<BreachCriticality>> /\ asset \notin NodesOf(edges')
    <3>1. Denominator' = Unit  BY <2>1, <2>4 DEF Denominator
    <3>2. \A i \in DOMAIN impacts' : impacts'[i] = BreachCriticality  BY <2>4
    <3>3. impacts' \in Seq(Nat)  BY <1>0, <2>4
    <3>. QED  BY <1>0, <2>1, <2>2, <3>1, <3>2, <3>3 DEF Fractions
  <2>5. \/ impacts' = <<>>
        \/ impacts' = <<BreachCriticality>> /\ asset \notin NodesOf(edges')
    BY <1>1 DEF Ask
  <2>. QED  BY <2>3, <2>4, <2>5
<1>2. CASE Score
  <2>1. /\ phase = "backup" /\ impacts' = Append(impacts, Impact)
        /\ UNCHANGED <<origin, edges, mass>>
    BY <1>2 DEF Score
  <2>2. Denominator' = Denominator  BY <2>1 DEF Denominator
  <2>3. Impact \in Nat /\ Impact <= mass
    <3>. DEFINE all == NodesOf(edges) \ {origin}
                part == DOMAIN hops \ {origin}
    <3>1. IsFiniteSet(all) /\ part \in SUBSET all  BY MassIsNumber DEF Shape
    <3>2. IsFiniteSet(part)  BY <3>1, FS_Subset
    <3>3. SumOfCriticality(part) \in Nat  BY <3>2, SumIsNumber
    <3>4. SumOfCriticality(part) <= SumOfCriticality(all)  BY <3>1, SumGrows
    <3>. QED  BY <3>3, <3>4 DEF Impact, Fractions
  <2>4. Impact <= Denominator
    <3>1. origin \in NodesOf(edges)  BY <2>1 DEF Shape
    <3>2. mass \in Nat  BY DEF Fractions
    <3>. QED  BY <1>0, <2>3, <3>1, <3>2 DEF Denominator
  <2>5. impacts' \in Seq(Nat) /\ \A i \in DOMAIN impacts' : impacts'[i] <= Denominator
    <3>1. impacts \in Seq(Nat)  BY DEF Fractions
    <3>2. /\ Len(impacts) \in Nat /\ DOMAIN impacts = 1 .. Len(impacts)
          /\ impacts' \in Seq(Nat) /\ DOMAIN impacts' = 1 .. (Len(impacts) + 1)
          /\ impacts'[Len(impacts) + 1] = Impact
          /\ \A i \in 1 .. Len(impacts) : impacts'[i] = impacts[i]
      BY <2>1, <2>3, <3>1, AppendProperties, LenProperties
    <3>3. \A i \in 1 .. (Len(impacts) + 1) : i \in 1 .. Len(impacts) \/ i = Len(impacts) + 1
      BY <3>2
    <3>. QED  BY <2>4, <3>2, <3>3 DEF Fractions
  <2>. QED  BY <2>1, <2>2, <2>5 DEF Fractions
<1>3. CASE UNCHANGED <<origin, edges, mass, impacts>>
  BY <1>3 DEF Fractions, Denominator
<1>4. Visit \/ SearchOver \/ ScanBackups \/ UNCHANGED cascadeVars
          => UNCHANGED <<origin, edges, mass, impacts>>
  BY DEF Visit, SearchOver, ScanBackups, cascadeVars, searchVars
<1>. QED  BY <1>1, <1>2, <1>3, <1>4, StepCases

-----------------------------------------------------------------------------
(* The interval around the median *)

\* The scores below a value, and those up to it.
Below(scores, v) == {i \in DOMAIN scores : scores[i] < v}
UpTo(scores, v) == {i \in DOMAIN scores : scores[i] <= v}

\* Finitely many numbers have a bound.
LEMMA ScoresHaveBound ==
    ASSUME NEW scores \in Seq(Nat)
    PROVE  \E m \in Nat : \A i \in DOMAIN scores : scores[i] <= m
<1>. DEFINE n == Len(scores)
            Bounded(k) == \E m \in Nat : \A i \in 1 .. k : scores[i] <= m
            K == {k \in Nat : k <= n => Bounded(k)}
<1>0. n \in Nat /\ DOMAIN scores = 1 .. n /\ \A i \in 1 .. n : scores[i] \in Nat
  BY LenProperties, ElementOfSeq
<1>. HIDE DEF n
<1>1. 0 \in K  OBVIOUS
<1>2. ASSUME NEW k \in Nat, k \in K PROVE k + 1 \in K
  <2>1. CASE k + 1 <= n
    <3>1. PICK m \in Nat : \A i \in 1 .. k : scores[i] <= m  BY <1>0, <1>2, <2>1
    <3>2. k + 1 \in 1 .. n /\ scores[k + 1] \in Nat  BY <1>0, <2>1
    <3>. DEFINE M == m + scores[k + 1]
    <3>3. M \in Nat /\ \A i \in 1 .. (k + 1) : scores[i] <= M
      <4>1. \A i \in 1 .. (k + 1) : i \in 1 .. n /\ (i \in 1 .. k \/ i = k + 1)  BY <1>0, <2>1
      <4>. QED  BY <1>0, <3>1, <3>2, <4>1
    <3>. HIDE DEF M
    <3>4. Bounded(k + 1)  BY <3>3
    <3>5. k + 1 \in Nat  OBVIOUS
    <3>. HIDE DEF Bounded
    <3>. QED  BY <3>4, <3>5
  <2>2. CASE ~ (k + 1 <= n)  BY <2>2
  <2>. QED  BY <2>1, <2>2
<1>3. \A k \in Nat : k \in K
  <2>. HIDE DEF K
  <2>. QED  BY <1>1, <1>2, NatInduct
<1>4. n \in K  BY <1>0, <1>3
<1>5. \E m \in Nat : \A i \in 1 .. n : scores[i] <= m  BY <1>0, <1>4
<1>. QED  BY <1>0, <1>5

\* The sets of places that the order of the scores is read from.
LEMMA Places ==
    ASSUME NEW scores \in Seq(Nat), NEW v
    PROVE  /\ IsFiniteSet(Below(scores, v)) /\ Cardinality(Below(scores, v)) \in Nat
           /\ IsFiniteSet(UpTo(scores, v)) /\ Cardinality(UpTo(scores, v)) \in Nat
           /\ Cardinality(DOMAIN scores) = Len(scores)
<1>1. DOMAIN scores = 1 .. Len(scores) /\ Len(scores) \in Nat  BY LenProperties
<1>2. IsFiniteSet(DOMAIN scores) /\ Cardinality(DOMAIN scores) = Len(scores)
  BY <1>1, FS_Interval
<1>3. Below(scores, v) \in SUBSET DOMAIN scores /\ UpTo(scores, v) \in SUBSET DOMAIN scores
  BY DEF Below, UpTo
<1>. QED  BY <1>2, <1>3, FS_Subset, FS_CardinalityType

\* The k-th smallest score is one of the scores, in its place of their order.
LEMMA SmallestIs ==
    ASSUME NEW scores \in Seq(Nat), NEW k \in 1 .. Len(scores)
    PROVE  /\ Smallest(scores, k) \in Nat
           /\ Cardinality(Below(scores, Smallest(scores, k))) < k
           /\ k <= Cardinality(UpTo(scores, Smallest(scores, k)))
<1>0. Len(scores) \in Nat /\ DOMAIN scores = 1 .. Len(scores)
      /\ \A i \in DOMAIN scores : scores[i] \in Nat
  BY LenProperties, ElementOfSeq
<1>. DEFINE B == {m \in Nat : k <= Cardinality(UpTo(scores, m))}
<1>1. B # {}
  <2>1. PICK m \in Nat : \A i \in DOMAIN scores : scores[i] <= m  BY ScoresHaveBound
  <2>2. UpTo(scores, m) = DOMAIN scores  BY <2>1 DEF UpTo
  <2>3. k <= Cardinality(UpTo(scores, m))  BY <1>0, <2>2, Places
  <2>. QED  BY <2>3
<1>2. PICK v \in B : \A m \in B : v <= m  BY <1>1, MinIsOne
<1>3. v \in Nat /\ k <= Cardinality(UpTo(scores, v))  BY <1>2
<1>4. Cardinality(Below(scores, v)) < k
  <2>1. CASE v = 0
    <3>1. Below(scores, v) = {}  BY <1>0, <2>1 DEF Below
    <3>. QED  BY <1>0, <3>1, FS_EmptySet
  <2>2. CASE v # 0
    <3>1. v - 1 \in Nat /\ v - 1 \notin B  BY <1>2, <1>3, <2>2
    <3>2. Below(scores, v) = UpTo(scores, v - 1)  BY <1>0, <1>3 DEF Below, UpTo
    <3>3. Cardinality(UpTo(scores, v - 1)) \in Nat  BY Places
    <3>. QED  BY <1>0, <3>1, <3>2, <3>3
  <2>. QED  BY <2>1, <2>2
<1>5. v \in Range(scores)
  <2>1. Below(scores, v) # UpTo(scores, v)  BY <1>0, <1>3, <1>4, Places
  <2>2. \A i \in Below(scores, v) : i \in UpTo(scores, v)  BY <1>0, <1>3 DEF Below, UpTo
  <2>3. PICK i \in UpTo(scores, v) : i \notin Below(scores, v)  BY <2>1, <2>2
  <2>4. i \in DOMAIN scores /\ scores[i] = v  BY <1>0, <1>3, <2>3 DEF Below, UpTo
  <2>. QED  BY <2>4 DEF Range
<1>. HIDE DEF B
<1>6. /\ Smallest(scores, k) \in Range(scores)
      /\ Cardinality(Below(scores, Smallest(scores, k))) < k
      /\ k <= Cardinality(UpTo(scores, Smallest(scores, k)))
  <2>. DEFINE P(w) == /\ Cardinality(Below(scores, w)) < k
                      /\ k <= Cardinality(UpTo(scores, w))
  <2>1. P(v) /\ v \in Range(scores)  BY <1>3, <1>4, <1>5
  <2>2. Smallest(scores, k) = CHOOSE w \in Range(scores) : P(w)
    BY DEF Smallest, Below, UpTo
  <2>. HIDE DEF P
  <2>3. Smallest(scores, k) \in Range(scores) /\ P(Smallest(scores, k))  BY <2>1, <2>2
  <2>. QED  BY <2>3 DEF P
<1>7. \A w \in Range(scores) : w \in Nat  BY <1>0 DEF Range
<1>. QED  BY <1>6, <1>7

\* The order is kept.
LEMMA SmallestOrder ==
    ASSUME NEW scores \in Seq(Nat), NEW j \in 1 .. Len(scores), NEW k \in 1 .. Len(scores), j <= k
    PROVE  Smallest(scores, j) <= Smallest(scores, k)
<1>. DEFINE v == Smallest(scores, j)
            w == Smallest(scores, k)
<1>1. v \in Nat /\ Cardinality(Below(scores, v)) < j  BY SmallestIs
<1>2. w \in Nat /\ k <= Cardinality(UpTo(scores, w))  BY SmallestIs
<1>. HIDE DEF v, w
<1>3. ASSUME w < v PROVE FALSE
  <2>1. \A i \in DOMAIN scores : scores[i] \in Nat  BY ElementOfSeq, LenProperties
  <2>2. UpTo(scores, w) \in SUBSET Below(scores, v)  BY <1>1, <1>2, <1>3, <2>1 DEF UpTo, Below
  <2>3. Cardinality(UpTo(scores, w)) <= Cardinality(Below(scores, v))
    BY <2>2, Places, FS_Subset
  <2>4. /\ Cardinality(UpTo(scores, w)) \in Nat /\ Cardinality(Below(scores, v)) \in Nat
        /\ j \in Nat /\ k \in Nat
    BY Places, LenProperties
  <2>. QED  BY <1>1, <1>2, <2>3, <2>4
<1>4. v <= w  BY <1>1, <1>2, <1>3
<1>. QED  BY <1>4 DEF v, w

\* Between two numbers.
LEMMA Mixed ==
    ASSUME NEW a \in Nat, NEW b \in Nat, a <= b, NEW p \in 0 .. 100, NEW q \in 0 .. 100, p <= q
    PROVE  /\ a * (100 - p) + b * p \in Nat
           /\ 100 * a <= a * (100 - p) + b * p
           /\ a * (100 - p) + b * p <= 100 * b
           /\ a * (100 - p) + b * p <= a * (100 - q) + b * q
<1>1. PICK d \in Nat : b = a + d  
  <2>1. b - a \in Nat /\ b = a + (b - a)  OBVIOUS
  <2>. QED  BY <2>1
<1>2. a * (100 - p) + b * p = 100 * a + d * p  BY <1>1
<1>3. a * (100 - q) + b * q = 100 * a + d * q  BY <1>1
<1>4. d * p \in Nat /\ d * q \in Nat /\ d * p <= d * q /\ d * p <= 100 * d  BY <1>1
<1>. QED  BY <1>1, <1>2, <1>3, <1>4

\* Products of numbers.
LEMMA Products ==
    ASSUME NEW s \in Nat, NEW b \in Nat, NEW d \in Nat, b <= d, NEW p \in 0 .. 100
    PROVE  b * p <= d * p /\ b * p \in Nat /\ d * p \in Nat /\ s * (100 - p) \in Nat
OBVIOUS

\* Where a percentile falls: its place among n scores, in hundredths.
LEMMA PlaceInRange ==
    ASSUME NEW n \in Nat \ {0}, NEW q \in 0 .. 100
    PROVE  /\ (n - 1) * q \in Nat /\ (n - 1) * q <= 100 * (n - 1)
           /\ \A r \in 0 .. 100 : q <= r => (n - 1) * q <= (n - 1) * r
<1>1. n - 1 \in Nat  OBVIOUS
<1>2. \A m \in Nat : /\ m * q \in Nat /\ m * q <= 100 * m
                     /\ \A r \in 0 .. 100 : q <= r => m * q <= m * r
  OBVIOUS
<1>. QED  BY <1>1, <1>2

LEMMA PercentilesOrdered ==
    ASSUME NEW scores \in Seq(Nat), NEW q \in 0 .. 100, NEW r \in 0 .. 100, q <= r
    PROVE  Percentile(scores, q) \in Nat /\ Percentile(scores, q) <= Percentile(scores, r)
<1>1. CASE scores = <<>>  BY <1>1 DEF Percentile
<1>2. CASE scores # <<>>
  <2>. DEFINE n == Len(scores)
              S(k) == Smallest(scores, k)
              at == (n - 1) * q
              to == (n - 1) * r
              i == at \div 100
              j == to \div 100
              p == at % 100
              o == to % 100
  <2>1. n \in Nat \ {0}  BY <1>2, LenProperties, EmptySeq
  <2>2. /\ \A k \in 1 .. n : S(k) \in Nat
        /\ \A k, l \in 1 .. n : k <= l => S(k) <= S(l)
    BY SmallestIs, SmallestOrder
  <2>3. Percentile(scores, q) = S(i + 1) * (100 - p) + (IF p = 0 THEN 0 ELSE S(i + 2) * p)
    BY <1>2 DEF Percentile
  <2>4. Percentile(scores, r) = S(j + 1) * (100 - o) + (IF o = 0 THEN 0 ELSE S(j + 2) * o)
    BY <1>2 DEF Percentile
  <2>5. at \in Nat /\ to \in Nat /\ at <= to /\ at <= 100 * (n - 1) /\ to <= 100 * (n - 1)
    BY <2>1, PlaceInRange
  <2>. HIDE DEF n, S, at, to
  <2>6. /\ i \in Nat /\ p \in 0 .. 99 /\ at = 100 * i + p
        /\ j \in Nat /\ o \in 0 .. 99 /\ to = 100 * j + o
    BY <2>5
  <2>. HIDE DEF i, j, p, o
  <2>7. i + 1 \in 1 .. n /\ (p # 0 => i + 2 \in 1 .. n)  BY <2>1, <2>5, <2>6
  <2>8. j + 1 \in 1 .. n /\ (o # 0 => j + 2 \in 1 .. n)  BY <2>1, <2>5, <2>6
  <2>. DEFINE b == IF p = 0 THEN S(i + 1) ELSE S(i + 2)
              d == IF o = 0 THEN S(j + 1) ELSE S(j + 2)
  <2>9. S(i + 1) \in Nat /\ b \in Nat /\ S(i + 1) <= b  BY <2>2, <2>6, <2>7
  <2>10. S(j + 1) \in Nat /\ d \in Nat /\ S(j + 1) <= d  BY <2>2, <2>6, <2>8
  <2>11. Percentile(scores, q) = S(i + 1) * (100 - p) + b * p  BY <2>3, <2>6, <2>9
  <2>12. Percentile(scores, r) = S(j + 1) * (100 - o) + d * o  BY <2>4, <2>6, <2>10
  <2>13. (i = j /\ p <= o) \/ i + 1 <= j  BY <2>5, <2>6
  <2>14. CASE i = j /\ p <= o
    <3>1. b <= d  BY <2>2, <2>7, <2>8, <2>9, <2>14, <2>6
    <3>. HIDE DEF b, d
    <3>. DEFINE s == S(i + 1)
    <3>2. s \in Nat /\ s <= d /\ s = S(j + 1)  BY <2>9, <2>10, <2>14
    <3>. HIDE DEF s
    <3>3. b * p <= d * p /\ b * p \in Nat /\ d * p \in Nat /\ s * (100 - p) \in Nat
      BY <2>6, <2>9, <2>10, <3>1, <3>2, Products
    <3>4. p \in 0 .. 100 /\ o \in 0 .. 100 /\ p <= o  BY <2>6, <2>14
    <3>5. s * (100 - p) + d * p <= s * (100 - o) + d * o
      BY <2>10, <3>2, <3>4, Mixed
    <3>6. d * o \in Nat /\ s * (100 - o) \in Nat  BY <2>10, <3>2, <3>4, Products
    <3>7. Percentile(scores, q) = s * (100 - p) + b * p
          /\ Percentile(scores, r) = s * (100 - o) + d * o
      BY <2>11, <2>12, <3>2 DEF s
    <3>. QED  BY <3>3, <3>5, <3>7, <3>6
  <2>15. CASE i + 1 <= j
    <3>1. b <= S(j + 1)  BY <2>2, <2>6, <2>7, <2>8, <2>15
    <3>. HIDE DEF b, d
    <3>2. /\ S(i + 1) * (100 - p) + b * p \in Nat
          /\ S(i + 1) * (100 - p) + b * p <= 100 * b
      BY <2>6, <2>9, Mixed
    <3>3. 100 * S(j + 1) <= S(j + 1) * (100 - o) + d * o
          /\ S(j + 1) * (100 - o) + d * o \in Nat
      BY <2>6, <2>10, Mixed
    <3>. QED  BY <2>9, <2>10, <2>11, <2>12, <3>1, <3>2, <3>3
  <2>. QED  BY <2>13, <2>14, <2>15
<1>. QED  BY <1>1, <1>2

\* The score is a fraction.
LEMMA FractionsAreEnough ==
    ASSUME Fractions
    PROVE  ScoreIsAFraction
<1>. DEFINE scores == Scores(Unit)
<1>1. Denominator \in Nat /\ Unit \in Nat /\ CiiMax \in Nat
  BY GraphAssumption, CascadeAssumption DEF Fractions, Denominator
<1>2. scores \in Seq(Nat)
  <2>1. impacts \in Seq(Nat) /\ Len(impacts) \in Nat /\ DOMAIN impacts = 1 .. Len(impacts)
    BY LenProperties DEF Fractions
  <2>2. ASSUME NEW i \in DOMAIN impacts
        PROVE  Min({Unit * impacts[i], CiiMax * Denominator}) \in Nat
    <3>1. impacts[i] \in Nat  BY <2>1, ElementOfSeq
    <3>2. Unit * impacts[i] \in Nat /\ CiiMax * Denominator \in Nat  BY <1>1, <3>1
    <3>. DEFINE both == {Unit * impacts[i], CiiMax * Denominator}
    <3>3. both \in SUBSET Nat /\ both # {}  BY <3>2
    <3>. HIDE DEF both
    <3>4. Min(both) \in Nat  BY <3>3, MinIsOne
    <3>. QED  BY <3>4 DEF both
  <2>. DEFINE F(i) == Min({Unit * impacts[i], CiiMax * Denominator})
  <2>3. scores = [i \in 1 .. Len(impacts) |-> F(i)]  BY <2>1 DEF Scores
  <2>4. \A i \in 1 .. Len(impacts) : F(i) \in Nat  BY <2>1, <2>2
  <2>. HIDE DEF F, scores
  <2>. QED  BY <2>1, <2>3, <2>4
<1>. HIDE DEF scores
<1>3. /\ Percentile(scores, 5) \in Nat /\ Percentile(scores, 5) <= Percentile(scores, 50)
      /\ Percentile(scores, 50) <= Percentile(scores, 95)
  BY <1>2, PercentilesOrdered
<1>4. 0 <= Percentile(scores, 5)  BY <1>3
<1>. QED  BY <1>3, <1>4 DEF ScoreIsAFraction, Fractions, scores

\* The cascade of an asset (src/cii_calculator.py): for every graph, number of hops and of
\* iterations, each propagation is explained by its draws, its impact never exceeds the
\* mass it is divided by, and the reported interval holds the median.
THEOREM AnswerIsExplained == Spec => []CascadeIsExplained
<1>1. Init => Shape /\ Explained /\ Fractions
  <2>. SUFFICES ASSUME Init PROVE Shape /\ Explained /\ Fractions  OBVIOUS
  <2>1. Shape  BY InitShape
  <2>2. Explained  BY DEF Init, CascadeInit, Explained, Found, Searched
  <2>3. edges = {} /\ mass = 0 /\ impacts = <<>>  BY DEF Init, CascadeInit
  <2>4. SumOfCriticality({}) = 0
    <3>1. IsFiniteSet({})  BY FS_EmptySet
    <3>2. PICK a : SumsBy(a, {})  BY <3>1, SumTerms
    <3>. QED  BY <3>2 DEF SumsBy
  <2>5. NodesOf(edges) \ {origin} = {}  BY <2>3 DEF NodesOf
  <2>6. Fractions
    <3>1. impacts \in Seq(Nat) /\ DOMAIN impacts = {}  BY <2>3
    <3>2. mass = SumOfCriticality(NodesOf(edges) \ {origin}) /\ mass \in Nat
      BY <2>3, <2>4, <2>5
    <3>. QED  BY <3>1, <3>2 DEF Fractions
  <2>. QED  BY <2>1, <2>2, <2>6
<1>2. Shape /\ Explained /\ Fractions /\ [Next]_vars => Shape' /\ Explained' /\ Fractions'
  BY ShapeStep, ExplainedStep, FractionsStep
<1>3. Shape /\ Explained /\ Fractions => CascadeIsExplained
  BY ExplainedIsEnough, FractionsAreEnough DEF CascadeIsExplained
<1>. QED  BY <1>1, <1>2, <1>3, PTL DEF Spec

-----------------------------------------------------------------------------
(* Injected flows *)

\* The pool after each flow of the day.
PoolBy(pool, day, label) ==
    /\ PoolOf(day, label) = pool[Len(Days[day])]
    /\ pool[0] = <<>>
    /\ \A n \in 1 .. Len(Days[day]) :
          pool[n] = IF Days[day][n].label = label /\ Len(pool[n - 1]) < PoolCap
                      THEN Append(pool[n - 1], Days[day][n])
                    ELSE pool[n - 1]

LEMMA PoolSteps ==
    ASSUME NEW day \in DOMAIN Days, NEW label
    PROVE  \E pool : PoolBy(pool, day, label)
<1>. DEFINE rows == Days[day]
            Step(n, p) == IF rows[n].label = label /\ Len(p) < PoolCap THEN Append(p, rows[n])
                          ELSE p
            Pools(f, k) == f = [n \in 0 .. k |-> IF n = 0 THEN <<>>
                                    ELSE IF rows[n].label = label /\ Len(f[n - 1]) < PoolCap
                                           THEN Append(f[n - 1], rows[n])
                                    ELSE f[n - 1]]
            S == {k \in Nat : \E f : Pools(f, k)}
<1>1. 0 \in S
  <2>1. Pools([n \in 0 .. 0 |-> <<>>], 0)  OBVIOUS
  <2>. QED  BY <2>1
<1>2. ASSUME NEW k \in Nat, k \in S
      PROVE  k + 1 \in S
  <2>1. PICK f : Pools(f, k)  BY <1>2
  <2>. DEFINE g == [n \in 0 .. k + 1 |-> IF n <= k THEN f[n] ELSE Step(k + 1, f[k])]
  <2>2. \A n \in 0 .. k : g[n] = f[n]  OBVIOUS
  <2>3. g[k + 1] = Step(k + 1, f[k])  OBVIOUS
  <2>4. f[0] = <<>> /\ \A n \in 1 .. k : f[n] = Step(n, f[n - 1])
    <3>1. \A n \in 0 .. k : f[n] = IF n = 0 THEN <<>> ELSE Step(n, f[n - 1])  BY <2>1
    <3>2. 0 \in 0 .. k /\ \A n \in 1 .. k : n \in 0 .. k /\ n # 0  OBVIOUS
    <3>. HIDE DEF Step
    <3>. QED  BY <3>1, <3>2
  <2>5. \A n \in 0 .. k + 1 : g[n] = IF n = 0 THEN <<>> ELSE Step(n, g[n - 1])
    <3>. SUFFICES ASSUME NEW n \in 0 .. k + 1
                  PROVE  g[n] = IF n = 0 THEN <<>> ELSE Step(n, g[n - 1])
      OBVIOUS
    <3>. HIDE DEF g, Step
    <3>1. CASE n = 0  BY <3>1, <2>2, <2>4
    <3>2. CASE n \in 1 .. k
      <4>1. n - 1 \in 0 .. k /\ n \in 0 .. k  BY <3>2
      <4>. QED  BY <3>2, <4>1, <2>2, <2>4
    <3>3. CASE n = k + 1
      <4>1. n - 1 = k /\ k \in 0 .. k /\ n # 0  BY <3>3
      <4>. QED  BY <3>3, <4>1, <2>2, <2>3
    <3>. QED  BY <3>1, <3>2, <3>3
  <2>6. g = [n \in 0 .. k + 1 |-> g[n]]  OBVIOUS
  <2>7. g = [n \in 0 .. k + 1 |-> IF n = 0 THEN <<>> ELSE Step(n, g[n - 1])]
    <3>. HIDE DEF g, Step
    <3>. QED  BY <2>5, <2>6
  <2>8. Pools(g, k + 1)
    <3>. HIDE DEF g
    <3>. QED  BY <2>7
  <2>9. k + 1 \in Nat  OBVIOUS
  <2>. HIDE DEF g, Pools
  <2>. QED  BY <2>8, <2>9
<1>3. \A k \in Nat : k \in S
  <2>. HIDE DEF S
  <2>. QED  BY <1>1, <1>2, NatInduct
<1>4. Len(rows) \in Nat  BY InjectionAssumption, LenProperties
<1>. DEFINE pool == CHOOSE f : Pools(f, Len(rows))
<1>5. Pools(pool, Len(rows))  BY <1>3, <1>4
<1>6. PoolOf(day, label) = pool[Len(rows)]  BY DEF PoolOf
<1>. HIDE DEF pool
<1>7. \A n \in 0 .. Len(rows) : pool[n] = IF n = 0 THEN <<>> ELSE Step(n, pool[n - 1])
  BY <1>5
<1>8. pool[0] = <<>> /\ \A n \in 1 .. Len(rows) : pool[n] = Step(n, pool[n - 1])
  <2>1. 0 \in 0 .. Len(rows) /\ \A n \in 1 .. Len(rows) : n \in 0 .. Len(rows) /\ n # 0
    BY <1>4
  <2>. HIDE DEF Step
  <2>. QED  BY <1>7, <2>1
<1>. QED  BY <1>6, <1>8 DEF PoolBy

\* Flows of a day that bear the label.
Labelled(day, label) == {f \in Range(Days[day]) : f.label = label}

\* A pool holds captured flows of the label and nothing else.
LEMMA PoolIsCaptured ==
    ASSUME NEW day \in DOMAIN Days, NEW label
    PROVE  PoolOf(day, label) \in Seq(Labelled(day, label))
<1>. DEFINE rows == Days[day]
            L == Labelled(day, label)
<1>1. PICK pool : PoolBy(pool, day, label)  BY PoolSteps
<1>2. rows \in Seq(Range(rows)) /\ Len(rows) \in Nat /\ DOMAIN rows = 1 .. Len(rows)
  BY InjectionAssumption, LenProperties
<1>. DEFINE K == {k \in Nat : k <= Len(rows) => pool[k] \in Seq(L)}
<1>3. 0 \in K
  <2>1. pool[0] \in Seq(L)  BY <1>1, EmptySeq DEF PoolBy
  <2>. HIDE DEF L
  <2>. QED  BY <2>1
<1>4. ASSUME NEW k \in Nat, k \in K PROVE k + 1 \in K
  <2>1. CASE k + 1 <= Len(rows)
    <3>1. pool[k] \in Seq(L) /\ k + 1 \in 1 .. Len(rows) /\ (k + 1) - 1 = k
      BY <1>2, <1>4, <2>1
    <3>2. pool[k + 1] = IF rows[k + 1].label = label /\ Len(pool[k]) < PoolCap
                          THEN Append(pool[k], rows[k + 1])
                        ELSE pool[k]
      BY <1>1, <3>1 DEF PoolBy
    <3>3. rows[k + 1].label = label => rows[k + 1] \in L
      BY <1>2, <3>1 DEF Labelled, Range
    <3>. HIDE DEF rows, L
    <3>4. pool[k + 1] \in Seq(L)  BY <3>1, <3>2, <3>3, AppendProperties
    <3>. QED  BY <3>4
  <2>2. CASE ~ (k + 1 <= Len(rows))  BY <2>2
  <2>. QED  BY <2>1, <2>2
<1>5. \A k \in Nat : k \in K
  <2>. HIDE DEF K
  <2>. QED  BY <1>3, <1>4, NatInduct
<1>6. pool[Len(rows)] \in Seq(L)  BY <1>2, <1>5
<1>. QED  BY <1>1, <1>6 DEF PoolBy

\* What a fresh read of a request's scenario gives, and how much of it the request gets.
Fresh(r) == PoolOf(Scenarios[r.scenario].day, Scenarios[r.scenario].label)
Given(r) == Min({r.count, Len(Fresh(r))})

\* A request was given copies of the first flows of a fresh read, aimed at its target.
Served(r) ==
    /\ r.scenario \in DOMAIN Scenarios /\ r.target \in ResolvableTargets /\ r.count \in Nat
    /\ \A k \in 1 .. Given(r) :
          /\ r.before + k \in DOMAIN injected
          /\ injected[r.before + k] =
                 Retarget(Fresh(r)[k], r.target, Scenarios[r.scenario], r.before + k)

AskedFor(r, i) == i \in r.before + 1 .. r.before + r.count

Copies ==
    /\ \A key \in DOMAIN pools : pools[key] = PoolOf(key[1], key[2])
    /\ injected \in Seq(Range(injected)) /\ Len(injected) < MaxInjections + MaxCount
    /\ requests \in Seq(Range(requests))
    /\ \A r \in Range(requests) : Served(r)
    /\ \A i \in DOMAIN injected :
          /\ injected[i].row = <<"injected", i>>
          /\ \E r \in Range(requests) : AskedFor(r, i)

\* One element more.
LEMMA AppendRange ==
    ASSUME NEW seq, seq \in Seq(Range(seq)), NEW e
    PROVE  /\ Range(Append(seq, e)) = Range(seq) \cup {e}
           /\ Append(seq, e) \in Seq(Range(Append(seq, e)))
<1>. DEFINE S == Range(seq) \cup {e}
            t == Append(seq, e)
<1>1. seq \in Seq(S) /\ e \in S  OBVIOUS
<1>2. Len(seq) \in Nat /\ DOMAIN seq = 1 .. Len(seq)  BY LenProperties
<1>. HIDE DEF S
<1>3. /\ t \in Seq(S) /\ Len(t) = Len(seq) + 1
      /\ \A i \in 1 .. Len(seq) : t[i] = seq[i]
      /\ t[Len(seq) + 1] = e
  BY <1>1, AppendProperties
<1>. HIDE DEF t
<1>4. DOMAIN t = 1 .. (Len(seq) + 1)  BY <1>3, LenProperties
<1>5. Range(t) = Range(seq) \cup {e}
  <2>1. \A i \in 1 .. (Len(seq) + 1) : i \in 1 .. Len(seq) \/ i = Len(seq) + 1  BY <1>2
  <2>2. Range(t) \subseteq Range(seq) \cup {e}
    BY <1>2, <1>3, <1>4, <2>1 DEF Range
  <2>3. \A i \in 1 .. Len(seq) : i \in DOMAIN t  BY <1>2, <1>4
  <2>4. Len(seq) + 1 \in DOMAIN t  BY <1>2, <1>4
  <2>5. Range(seq) \cup {e} \subseteq Range(t)
    BY <1>2, <1>3, <2>3, <2>4 DEF Range
  <2>. QED  BY <2>2, <2>5
<1>6. t \in Seq(Range(t))  BY <1>3, <1>5 DEF S
<1>. QED  BY <1>5, <1>6 DEF t

LEMMA CopiesStep ==
    ASSUME Copies, [Next]_vars
    PROVE  Copies'
<1>1. ASSUME NEW s \in DOMAIN Scenarios, NEW t \in Targets, NEW n \in 1 .. MaxCount,
             Inject(s, t, n)
      PROVE  Copies'
  <2>. DEFINE spec == Scenarios[s]
              key == <<spec.day, spec.label>>
              pool == IF key \in DOMAIN pools THEN pools[key] ELSE PoolOf(spec.day, spec.label)
              m == Min({n, Len(pool)})
              new == [i \in 1 .. m |-> Retarget(pool[i], t, spec, Len(injected) + i)]
              N == {new[i] : i \in 1 .. m}
              L == Labelled(spec.day, spec.label)
              q == [scenario |-> s, target |-> t, count |-> n, before |-> Len(injected)]
  <2>1. /\ Len(injected) < MaxInjections /\ t \in ResolvableTargets
        /\ pools' = [k \in DOMAIN pools \cup {key} |-> IF k = key THEN pool ELSE pools[k]]
        /\ injected' = injected \o new
        /\ requests' = Append(requests, q)
    BY <1>1 DEF Inject, Cached
  <2>2. pool = PoolOf(spec.day, spec.label)
    <3>1. key[1] = spec.day /\ key[2] = spec.label  OBVIOUS
    <3>. QED  BY <3>1 DEF Copies
  <2>3. \A k \in DOMAIN pools' : pools'[k] = PoolOf(k[1], k[2])
    <3>1. key[1] = spec.day /\ key[2] = spec.label  OBVIOUS
    <3>. HIDE DEF key, pool
    <3>. QED  BY <2>1, <2>2, <3>1 DEF Copies
  <2>4. pool \in Seq(L)
    <3>1. spec.day \in DOMAIN Days  BY InjectionAssumption
    <3>. QED  BY <2>2, <3>1, PoolIsCaptured
  <2>5. Fresh(q) = pool /\ Given(q) = m
    BY <2>2 DEF Fresh, Given
  <2>. HIDE DEF pool
  <2>6. /\ m \in Nat /\ m <= n /\ m <= Len(pool) /\ n \in Nat /\ n <= MaxCount
        /\ MaxCount \in Nat /\ MaxInjections \in Nat
    <3>1. MaxCount \in Nat /\ n \in Nat /\ n <= MaxCount /\ MaxInjections \in Nat
      BY InjectionAssumption
    <3>2. Len(pool) \in Nat  BY <2>4, LenProperties
    <3>. DEFINE both == {n, Len(pool)}
    <3>3. both \in SUBSET Nat /\ both # {}  BY <3>1, <3>2
    <3>. HIDE DEF both
    <3>4. Min(both) \in both /\ \A y \in both : Min(both) <= y  BY <3>3, MinIsOne
    <3>. QED  BY <3>1, <3>2, <3>3, <3>4 DEF both
  <2>. HIDE DEF m
  <2>7. \A i \in 1 .. m : new[i] = Retarget(pool[i], t, spec, Len(injected) + i)
    BY <2>4, <2>6
  <2>8. \A i \in 1 .. m : new[i].row = <<"injected", Len(injected) + i>>
    <3>. SUFFICES ASSUME NEW i \in 1 .. m PROVE new[i].row = <<"injected", Len(injected) + i>>
      OBVIOUS
    <3>1. pool[i] \in L  BY <2>4, <2>6, ElementOfSeq, LenProperties
    <3>2. pool[i] = [row |-> pool[i].row, source |-> pool[i].source, label |-> pool[i].label,
                     traffic |-> pool[i].traffic, honeytoken |-> FALSE]
      BY <3>1, InjectionAssumption DEF Labelled
    <3>. QED  BY <2>7, <3>2 DEF Retarget
  <2>9. new \in Seq(N) /\ Len(new) = m  BY <2>6
  <2>10. injected \in Seq(Range(injected)) /\ Len(injected) \in Nat
        /\ DOMAIN injected = 1 .. Len(injected)
    BY LenProperties DEF Copies
  <2>. DEFINE all == Range(injected) \cup N
  <2>. HIDE DEF new, N
  <2>11. /\ injected' \in Seq(all) /\ Len(injected') = Len(injected) + m
         /\ \A i \in 1 .. Len(injected) : injected'[i] = injected[i]
         /\ \A i \in 1 .. m : injected'[Len(injected) + i] = new[i]
    <3>1. injected \in Seq(all) /\ new \in Seq(all)  BY <2>9, <2>10
    <3>2. injected' \in Seq(all) /\ Len(injected') = Len(injected) + m
      BY <2>1, <2>9, <3>1, ConcatProperties
    <3>3. ASSUME NEW i \in 1 .. (Len(injected) + m)
          PROVE  injected'[i] = IF i <= Len(injected) THEN injected[i] ELSE new[i - Len(injected)]
      BY <2>1, <2>9, <3>1, ConcatProperties
    <3>4. ASSUME NEW i \in 1 .. Len(injected) PROVE injected'[i] = injected[i]
      <4>1. i \in 1 .. (Len(injected) + m) /\ i <= Len(injected)  BY <2>6, <2>10
      <4>. QED  BY <3>3, <4>1
    <3>5. ASSUME NEW i \in 1 .. m PROVE injected'[Len(injected) + i] = new[i]
      <4>1. /\ Len(injected) + i \in 1 .. (Len(injected) + m) /\ ~ (Len(injected) + i <= Len(injected))
            /\ (Len(injected) + i) - Len(injected) = i
        BY <2>6, <2>10
      <4>. QED  BY <3>3, <4>1
    <3>. QED  BY <3>2, <3>4, <3>5
  <2>12. DOMAIN injected' = 1 .. (Len(injected) + m)  BY <2>11, LenProperties
  <2>13. injected' \in Seq(Range(injected'))
    <3>1. injected' = [i \in 1 .. Len(injected') |-> injected'[i]] /\ Len(injected') \in Nat
      BY <2>11, LenProperties
    <3>2. \A i \in 1 .. Len(injected') : injected'[i] \in Range(injected')
      BY <2>11, <2>12 DEF Range
    <3>. QED  BY <3>1, <3>2
  <2>14. Len(injected') < MaxInjections + MaxCount  BY <2>1, <2>6, <2>10, <2>11
  <2>15. requests' \in Seq(Range(requests')) /\ Range(requests') = Range(requests) \cup {q}
    <3>. HIDE DEF q
    <3>. QED  BY <2>1, AppendRange DEF Copies
  <2>16. ASSUME NEW r, r = q PROVE Served(r)'
    <3>1. /\ r.scenario = s /\ r.target = t /\ r.before = Len(injected)
          /\ r.count = n /\ n \in Nat /\ Fresh(r) = pool /\ Given(r) = m
      BY <2>5, <2>6, <2>16
    <3>. HIDE DEF q, L
    <3>2. ASSUME NEW k \in 1 .. m
          PROVE  /\ Len(injected) + k \in DOMAIN injected'
                 /\ injected'[Len(injected) + k] = Retarget(pool[k], t, spec, Len(injected) + k)
      BY <2>6, <2>7, <2>10, <2>11, <2>12
    <3>3. s \in DOMAIN Scenarios /\ spec = Scenarios[s]  OBVIOUS
    <3>. HIDE DEF spec
    <3>. QED  BY <2>1, <3>1, <3>2, <3>3 DEF Served
  <2>17. ASSUME NEW r \in Range(requests) PROVE Served(r)'
    <3>1. Served(r)  BY DEF Copies
    <3>2. \A i \in DOMAIN injected : i \in DOMAIN injected' /\ injected'[i] = injected[i]
      BY <2>6, <2>10, <2>11, <2>12
    <3>. QED  BY <3>1, <3>2 DEF Served
  <2>18. ASSUME NEW i \in DOMAIN injected'
         PROVE  /\ injected'[i].row = <<"injected", i>>
                /\ \E r \in Range(requests') : AskedFor(r, i)
    <3>1. CASE i \in 1 .. Len(injected)
      <4>1. i \in DOMAIN injected /\ injected'[i] = injected[i]  BY <2>10, <2>11, <3>1
      <4>. QED  BY <2>15, <4>1 DEF Copies
    <3>2. CASE i \notin 1 .. Len(injected)
      <4>. DEFINE j == i - Len(injected)
      <4>1. j \in 1 .. m /\ i = Len(injected) + j  BY <2>6, <2>10, <2>12, <3>2
      <4>2. i \in Len(injected) + 1 .. Len(injected) + n  BY <2>6, <2>10, <4>1
      <4>3. AskedFor(q, i)  BY <4>2 DEF AskedFor
      <4>. HIDE DEF j, q
      <4>. QED  BY <2>8, <2>11, <2>15, <4>1, <4>3
    <3>. QED  BY <3>1, <3>2
  <2>19. \A r \in Range(requests') : Served(r)'
    <3>. HIDE DEF q
    <3>. QED  BY <2>15, <2>16, <2>17
  <2>. QED  BY <2>3, <2>13, <2>14, <2>15, <2>18, <2>19 DEF Copies
<1>2. UNCHANGED <<pools, injected, requests>> => Copies'
  BY DEF Copies, Served
<1>3. ASSUME NEW s, InjectFails(s) PROVE UNCHANGED <<pools, injected, requests>>
  BY <1>3 DEF InjectFails
<1>4. Arrive \/ Observe \/ Console \/ UNCHANGED injectionVars \/ UNCHANGED vars
          => UNCHANGED <<pools, injected, requests>>
  BY DEF Arrive, Observe, Console, injectionVars, vars
<1>. QED  BY <1>1, <1>2, <1>3, <1>4 DEF Next

\* The address of an asset resolves to it.
LEMMA TargetsResolve ==
    ASSUME NEW t \in Assets
    PROVE  Resolved(Address[t]) = t
<1>1. DOMAIN Address = Assets /\ \A a, b \in Assets : Address[a] = Address[b] => a = b
  BY InjectionAssumption DEF IsInjective
<1>2. Address[t] \in Range(Address)  BY <1>1 DEF Range
<1>3. AssetAt(Address[t]) = t  BY <1>1 DEF AssetAt
<1>. QED  BY <1>2, <1>3 DEF Resolved

LEMMA CopiesAreReal ==
    ASSUME Copies
    PROVE  InjectedFlowsAreReal
<1>0. Len(injected) \in Nat /\ DOMAIN injected = 1 .. Len(injected)
      /\ MaxInjections \in Nat /\ MaxCount \in Nat
  BY InjectionAssumption, LenProperties DEF Copies
<1>1. ToSet(requests) = Range(requests)  BY DEF ToSet, Range
<1>2. ASSUME NEW i \in DOMAIN injected
      PROVE  /\ \A day \in DOMAIN Days : \A g \in ToSet(Days[day]) : injected[i].row # g.row
             /\ \E r \in ToSet(requests) : i \in r.before + 1 .. r.before + r.count
  <2>1. injected[i].row = <<"injected", i>>  BY DEF Copies
  <2>2. ASSUME NEW day \in DOMAIN Days, NEW g \in ToSet(Days[day])
        PROVE  injected[i].row # g.row
    <3>1. i \in 1 .. (MaxInjections + MaxCount)  BY <1>0 DEF Copies
    <3>2. g \in Range(Days[day])  BY DEF ToSet, Range
    <3>3. g.row # <<"injected", i>>  BY <3>1, <3>2, InjectionAssumption
    <3>. QED  BY <2>1, <3>3
  <2>. QED  BY <1>1, <2>2 DEF Copies, AskedFor
<1>3. ASSUME NEW i \in DOMAIN injected, NEW j \in DOMAIN injected,
             injected[i].row = injected[j].row
      PROVE  i = j
  <2>1. <<"injected", i>> = <<"injected", j>>  BY <1>3 DEF Copies
  <2>. QED  BY <2>1
<1>4. ASSUME NEW r \in ToSet(requests), NEW k \in 1 .. Given(r)
      PROVE  LET f == injected[r.before + k]
                 spec == Scenarios[r.scenario]
             IN /\ r.before + k \in DOMAIN injected
                /\ Fresh(r)[k] \in ToSet(Days[spec.day]) /\ Fresh(r)[k].label = spec.label
                /\ f = [Fresh(r)[k] EXCEPT !.row = f.row, !.source = f.source,
                                           !.honeytoken = spec.honeytoken]
                /\ Resolved(f.source) = r.target
  <2>. DEFINE spec == Scenarios[r.scenario]
              g == Fresh(r)[k]
              f == injected[r.before + k]
              L == Labelled(spec.day, spec.label)
  <2>1. /\ r.scenario \in DOMAIN Scenarios /\ r.target \in ResolvableTargets
        /\ r.before + k \in DOMAIN injected
        /\ f = Retarget(g, r.target, spec, r.before + k)
    BY <1>1, <1>4 DEF Copies, Served
  <2>2. spec.day \in DOMAIN Days  BY <2>1, InjectionAssumption
  <2>3. Fresh(r) \in Seq(L)  BY <2>2, PoolIsCaptured DEF Fresh
  <2>4. g \in L
    <3>1. Len(Fresh(r)) \in Nat  BY <2>3, LenProperties
    <3>2. k \in 1 .. Len(Fresh(r))
      <4>. DEFINE both == {r.count, Len(Fresh(r))}
      <4>1. r.count \in Nat  BY <1>1 DEF Copies, Served
      <4>2. both \in SUBSET Nat /\ both # {}  BY <3>1, <4>1
      <4>. HIDE DEF both
      <4>3. Min(both) \in both /\ \A y \in both : Min(both) <= y  BY <4>2, MinIsOne
      <4>. QED  BY <1>4, <3>1, <4>1, <4>3 DEF Given, both
    <3>. HIDE DEF L
    <3>. QED  BY <2>3, <3>2, ElementOfSeq, LenProperties
  <2>5. g \in ToSet(Days[spec.day]) /\ g.label = spec.label
    BY <2>4 DEF Labelled, Range, ToSet
  <2>6. g = [row |-> g.row, source |-> g.source, label |-> g.label, traffic |-> g.traffic,
             honeytoken |-> FALSE]
    BY <2>2, <2>4, InjectionAssumption DEF Labelled
  <2>. HIDE DEF g, f, spec
  <2>7. /\ f = [g EXCEPT !.row = f.row, !.source = f.source, !.honeytoken = spec.honeytoken]
        /\ f.source = Address[r.target]
    BY <2>1, <2>6 DEF Retarget
  <2>8. r.target \in Assets  BY <2>1 DEF ResolvableTargets
  <2>9. Resolved(f.source) = r.target  BY <2>7, <2>8, TargetsResolve
  <2>. QED  BY <2>1, <2>5, <2>7, <2>9 DEF f, g, spec
<1>. QED  BY <1>2, <1>3, <1>4 DEF InjectedFlowsAreReal, Fresh, Given

\* Injection (backend/inject.py): whatever days, scenarios and targets, however often a pool
\* is shared or its read fails, a request hands over the captured flows a fresh read of its
\* scenario would give, under row ids of their own, and each resolves to the asset the
\* request chose.
THEOREM InjectionIsReal == Spec => []InjectedFlowsAreReal
<1>1. Init => Copies
  <2>. SUFFICES ASSUME Init PROVE Copies  OBVIOUS
  <2>1. pools = <<>> /\ injected = <<>> /\ requests = <<>>  BY DEF Init
  <2>2. MaxInjections \in Nat /\ MaxCount \in Nat /\ MaxCount >= 1  BY InjectionAssumption
  <2>3. injected \in Seq(Range(injected)) /\ Len(injected) = 0
        /\ DOMAIN injected = {} /\ DOMAIN pools = {}
        /\ requests \in Seq(Range(requests)) /\ Range(requests) = {}
    BY <2>1 DEF Range
  <2>. QED  BY <2>2, <2>3 DEF Copies
<1>2. Copies /\ [Next]_vars => Copies'  BY CopiesStep
<1>3. Copies => InjectedFlowsAreReal  BY CopiesAreReal
<1>. QED  BY <1>1, <1>2, <1>3, PTL DEF Spec

=============================================================================
