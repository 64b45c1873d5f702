----------------------------- MODULE ReshapeProofs -----------------------------
(***************************************************************************)
(* Proofs about scale-out, migrate, deploy and commit (module Reshape),    *)
(* for any topologies that satisfy TopologiesAssumption and any number of  *)
(* failures.                                                               *)
(*                                                                         *)
(* The inductive invariant says of the playbook that runs what is left of  *)
(* it. Each step left is about the services that the difference of the     *)
(* stored topology and the new one gives it, and only the last one stores  *)
(* (Planned). So once no START_SERVICE is left the new services run, and   *)
(* once no CLEAN_SERVICE is left the old ones are cleaned (Progress): that *)
(* is where the topology is stored, and a command that is given up before  *)
(* it leaves the difference.                                               *)
(*                                                                         *)
(* What is stored of the pool is well-formed by itself (PoolHeld). That    *)
(* its servers are those of the stored topology needs what the code takes  *)
(* for granted of the operator: getClusterPool merges the stored servers   *)
(* and the generated ones by their position, so a topology has to leave    *)
(* the storage services at their places (InPlace). Under it the sorted     *)
(* storage services of a new topology are those of the old one, with the   *)
(* new ones behind them or at the places of those they replace (NewOrder). *)
(* No command checks it; so what is proved, with no hypothesis about the   *)
(* topologies, is that the step which stores one that does not (Misplaces  *)
(* of Reshape) is the only one that makes the stored servers untrue.       *)
(*                                                                         *)
(* That the copies of data are on different hosts is lost in such a step   *)
(* only, or with a topology in which deploys share a host: the zones go    *)
(* round the deploys in order, so a pool made of three deploys has all     *)
(* three and the services of a deploy share one (ZonesSpread). That the    *)
(* first pool is made of three is kept from the commit to the deploy       *)
(* (Founded), and where the zones are apart what is stored next is made    *)
(* of zones spread over deploys (MeansSpread, NewPoolSpread, SpreadMeans). *)
(***************************************************************************)
EXTENDS Reshape, FiniteSetTheorems, FunctionTheorems, SequenceTheorems, TLAPS

-----------------------------------------------------------------------------
(* Sorting: SortDeployConfigs gives the services in the order of Before. *)

\* The services that come before dc.
Below(dcs, dc) == {other \in dcs : Before(other, dc)}

\* Finitely many services, no two of them at one place: Before is a total order on them.
Sortable(dcs) ==
  /\ IsFiniteSet(dcs)
  /\ \A dc \in dcs : dc.hostSequence \in Nat /\ dc.replicasSequence \in Nat
  /\ \A dc1, dc2 \in dcs :
       dc1.hostSequence = dc2.hostSequence /\ dc1.replicasSequence = dc2.replicasSequence
         => dc1 = dc2

\* A service that comes later has more services before it.
LEMMA BelowGrows ==
  ASSUME NEW dcs, Sortable(dcs), NEW a \in dcs, NEW b \in dcs, Before(a, b)
  PROVE  /\ Cardinality(Below(dcs, a)) \in Nat /\ Cardinality(Below(dcs, b)) \in Nat
         /\ Cardinality(Below(dcs, a)) < Cardinality(Below(dcs, b))
<1>1. Below(dcs, a) \subseteq Below(dcs, b) /\ a \notin Below(dcs, a) /\ a \in Below(dcs, b)
  BY DEF Below, Before, Sortable
<1>2. Below(dcs, b) \subseteq dcs
  BY DEF Below
<1>3. IsFiniteSet(Below(dcs, b)) /\ Cardinality(Below(dcs, b)) \in Nat
  BY <1>2, FS_Subset, FS_CardinalityType DEF Sortable
<1>4. IsFiniteSet(Below(dcs, a)) /\ Cardinality(Below(dcs, a)) \in Nat
  BY <1>1, <1>3, FS_Subset, FS_CardinalityType
<1>5. Cardinality(Below(dcs, a)) <= Cardinality(Below(dcs, b))
  BY <1>1, <1>3, FS_Subset
<1>6. Cardinality(Below(dcs, a)) # Cardinality(Below(dcs, b))
  BY <1>1, <1>3, FS_Subset
<1>. QED
  BY <1>3, <1>4, <1>5, <1>6

\* Of two services one comes before the other.
LEMMA Total ==
  ASSUME NEW dcs, Sortable(dcs), NEW a \in dcs, NEW b \in dcs, a # b
  PROVE  Before(a, b) \/ Before(b, a)
BY DEF Sortable, Before

\* A service is known by how many come before it.
LEMMA RankUnique ==
  ASSUME NEW dcs, Sortable(dcs), NEW a \in dcs, NEW b \in dcs,
         Cardinality(Below(dcs, a)) = Cardinality(Below(dcs, b))
  PROVE  a = b
BY Total, BelowGrows

\* The position of a service is one of the positions of the sorted services.
LEMMA RankBounds ==
  ASSUME NEW dcs, Sortable(dcs), NEW a \in dcs
  PROVE  Cardinality(Below(dcs, a)) + 1 \in 1 .. Cardinality(dcs)
<1>1. Below(dcs, a) \subseteq dcs /\ a \notin Below(dcs, a)
  BY DEF Below, Before, Sortable
<1>2. IsFiniteSet(dcs) /\ Cardinality(dcs) \in Nat
  BY FS_CardinalityType DEF Sortable
<1>3. IsFiniteSet(Below(dcs, a)) /\ Cardinality(Below(dcs, a)) \in Nat
  BY <1>1, <1>2, FS_Subset, FS_CardinalityType
<1>4. Cardinality(Below(dcs, a)) <= Cardinality(dcs) /\ Cardinality(Below(dcs, a)) # Cardinality(dcs)
  BY <1>1, <1>2, FS_Subset
<1>. QED
  BY <1>2, <1>3, <1>4

\* SortDeployConfigs lists each service once, in the order of Before.
LEMMA Sorted ==
  ASSUME NEW dcs, Sortable(dcs)
  PROVE  LET sorted == SortDeployConfigs(dcs)
         IN /\ Cardinality(dcs) \in Nat
            /\ sorted \in [1 .. Cardinality(dcs) -> dcs]
            /\ \A i \in 1 .. Cardinality(dcs) : Cardinality(Below(dcs, sorted[i])) = i - 1
            /\ \A dc \in dcs : \E i \in 1 .. Cardinality(dcs) : sorted[i] = dc
            /\ \A i, j \in 1 .. Cardinality(dcs) : i < j => Before(sorted[i], sorted[j])
            /\ \A i, j \in 1 .. Cardinality(dcs) : sorted[i] = sorted[j] => i = j
<1>. DEFINE n == Cardinality(dcs)
            rank == [dc \in dcs |-> Cardinality(Below(dcs, dc)) + 1]
            sorted == SortDeployConfigs(dcs)
<1>1. IsFiniteSet(dcs) /\ n \in Nat
  BY FS_CardinalityType DEF Sortable
<1>2. rank \in Injection(dcs, 1 .. n)
  <2>1. rank \in [dcs -> 1 .. n]
    BY RankBounds
  <2>2. ASSUME NEW a \in dcs, NEW b \in dcs, rank[a] = rank[b]
        PROVE  a = b
    <3>1. Cardinality(Below(dcs, a)) + 1 \in 1 .. n /\ Cardinality(Below(dcs, b)) + 1 \in 1 .. n
      BY RankBounds
    <3>2. IsFiniteSet(Below(dcs, a)) /\ IsFiniteSet(Below(dcs, b))
      BY <1>1, FS_Subset DEF Below
    <3>3. Cardinality(Below(dcs, a)) \in Nat /\ Cardinality(Below(dcs, b)) \in Nat
      BY <3>2, FS_CardinalityType
    <3>4. Cardinality(Below(dcs, a)) = Cardinality(Below(dcs, b))
      BY <2>2, <3>3
    <3>. QED
      BY <3>4, RankUnique
  <2>. QED
    BY <2>1, <2>2 DEF Injection, IsInjective
<1>3. rank \in Surjection(dcs, 1 .. n)
  <2>1. IsFiniteSet(1 .. n) /\ Cardinality(1 .. n) = n
    BY <1>1, FS_Interval
  <2>. QED
    BY <1>2, <2>1, FS_Injection
<1>4. \A i \in 1 .. n : \E dc \in dcs : Cardinality(Below(dcs, dc)) = i - 1
  <2>1. ASSUME NEW i \in 1 .. n
        PROVE  \E dc \in dcs : Cardinality(Below(dcs, dc)) = i - 1
    <3>1. PICK dc \in dcs : rank[dc] = i
      BY <1>3 DEF Surjection
    <3>2. IsFiniteSet(Below(dcs, dc))
      BY <1>1, FS_Subset DEF Below
    <3>3. Cardinality(Below(dcs, dc)) \in Nat
      BY <3>2, FS_CardinalityType
    <3>. QED
      BY <3>1, <3>3, <1>1
  <2>. QED
    BY <2>1
<1>5. sorted = [i \in 1 .. n |-> CHOOSE dc \in dcs : Cardinality(Below(dcs, dc)) = i - 1]
  BY DEF SortDeployConfigs, Below
<1>. HIDE DEF sorted, rank
<1>6. \A i \in 1 .. n : sorted[i] \in dcs /\ Cardinality(Below(dcs, sorted[i])) = i - 1
  BY <1>4, <1>5
<1>7. sorted \in [1 .. n -> dcs]
  BY <1>5, <1>6
<1>8. \A dc \in dcs : \E i \in 1 .. n : sorted[i] = dc
  <2>1. ASSUME NEW dc \in dcs
        PROVE  \E i \in 1 .. n : sorted[i] = dc
    <3>1. rank[dc] \in 1 .. n /\ rank[dc] = Cardinality(Below(dcs, dc)) + 1
      BY RankBounds DEF rank
    <3>2. IsFiniteSet(Below(dcs, dc))
      BY <1>1, FS_Subset DEF Below
    <3>3. Cardinality(Below(dcs, dc)) \in Nat
      BY <3>2, FS_CardinalityType
    <3>4. Cardinality(Below(dcs, sorted[rank[dc]])) = Cardinality(Below(dcs, dc))
      BY <3>1, <3>3, <1>6, <1>1
    <3>. QED
      BY <3>1, <3>4, <1>6, RankUnique
  <2>. QED
    BY <2>1
<1>9. \A i, j \in 1 .. n : sorted[i] = sorted[j] => i = j
  BY <1>6, <1>1
<1>10. \A i, j \in 1 .. n : i < j => Before(sorted[i], sorted[j])
  <2>1. ASSUME NEW i \in 1 .. n, NEW j \in 1 .. n, i < j, ~ Before(sorted[i], sorted[j])
        PROVE  FALSE
    <3>1. Before(sorted[j], sorted[i])
      BY <2>1, <1>6, <1>9, Total
    <3>. QED
      BY <2>1, <3>1, <1>1, <1>6, BelowGrows
  <2>. QED
    BY <2>1
<1>. QED
  BY <1>1, <1>6, <1>7, <1>8, <1>9, <1>10 DEF sorted

\* Whatever lists all services in the order of Before is what SortDeployConfigs returns.
LEMMA SortUnique ==
  ASSUME NEW dcs, Sortable(dcs), NEW n \in Nat, NEW seq \in [1 .. n -> dcs],
         \A dc \in dcs : \E i \in 1 .. n : seq[i] = dc,
         \A i, j \in 1 .. n : i < j => Before(seq[i], seq[j])
  PROVE  seq = SortDeployConfigs(dcs) /\ n = Cardinality(dcs)
<1>. DEFINE sorted == SortDeployConfigs(dcs)
<1>1. ASSUME NEW i \in 1 .. n, NEW j \in 1 .. n, seq[i] = seq[j]
      PROVE  i = j
  <2>1. ~ Before(seq[i], seq[i])
    BY DEF Before, Sortable
  <2>. QED
    BY <1>1, <2>1
<1>2. seq \in Bijection(1 .. n, dcs)
  BY <1>1 DEF Bijection, Injection, Surjection, IsInjective
<1>3. Cardinality(dcs) = n
  BY <1>2, FS_CountingElements DEF ExistsBijection
<1>4. ASSUME NEW i \in 1 .. n
      PROVE  Cardinality(Below(dcs, seq[i])) = i - 1
  <2>. DEFINE f == [j \in 1 .. (i - 1) |-> seq[j]]
  <2>1. f \in Bijection(1 .. (i - 1), Below(dcs, seq[i]))
    <3>1. f \in [1 .. (i - 1) -> Below(dcs, seq[i])]
      BY DEF Below
    <3>2. \A j, k \in 1 .. (i - 1) : f[j] = f[k] => j = k
      BY <1>1
    <3>3. ASSUME NEW dc \in Below(dcs, seq[i])
          PROVE  \E j \in 1 .. (i - 1) : f[j] = dc
      <4>1. dc \in dcs /\ Before(dc, seq[i])
        BY DEF Below
      <4>2. PICK j \in 1 .. n : seq[j] = dc
        BY <4>1
      <4>3. ~ Before(seq[i], dc) /\ seq[i] # dc
        BY <4>1 DEF Before, Sortable
      <4>4. j < i
        BY <4>2, <4>3
      <4>. QED
        BY <4>2, <4>4
    <3>. QED
      BY <3>1, <3>2, <3>3 DEF Bijection, Injection, Surjection, IsInjective
  <2>2. i - 1 \in Nat
    OBVIOUS
  <2>. QED
    BY <2>1, <2>2, FS_CountingElements DEF ExistsBijection
<1>5. /\ sorted \in [1 .. n -> dcs]
      /\ \A i \in 1 .. n : Cardinality(Below(dcs, sorted[i])) = i - 1
  BY <1>3, Sorted
<1>6. \A i \in 1 .. n : seq[i] = sorted[i]
  BY <1>4, <1>5, RankUnique
<1>. QED
  BY <1>3, <1>5, <1>6

-----------------------------------------------------------------------------
(* Services: two of one role have different places, and so can be sorted. *)

\* What the assumption on the topologies says, in the terms of the module.
LEMMA TopologyFacts ==
  /\ None \notin Written
  /\ DOMAIN Services = Written \cup {None} /\ Services[None] = {}
  /\ \A n \in Written : /\ Services[n] = ParseTopology(Topologies[n])
                        /\ Kind[n] = Topologies[n].kind /\ Kind[n] \in {"curvebs", "curvefs"}
  /\ \A n \in Written \cup {None} : IsFiniteSet(Services[n])
<1>1. None \notin Written /\ \A n \in Written : Topologies[n].kind \in {"curvebs", "curvefs"}
  BY TopologiesAssumption DEF None, Written
<1>2. DOMAIN Services = Written \cup {None} /\ Services[None] = {}
      /\ \A n \in Written : Services[n] = ParseTopology(Topologies[n])
  BY <1>1 DEF Services
<1>3. \A n \in Written : Kind[n] = Topologies[n].kind
  BY DEF Kind
<1>4. \A n \in Written : IsFiniteSet(ParseTopology(Topologies[n]))
  BY TopologiesAssumption DEF Written
<1>. QED
  BY <1>1, <1>2, <1>3, <1>4, FS_EmptySet

\* A service of a topology is made by NewDeployConfig from a deploy of a role of its kind.
LEMMA IsService ==
  ASSUME NEW n \in Written, NEW dc \in Services[n]
  PROVE  \E role \in Roles(Kind[n]) \cap DOMAIN Topologies[n].services :
         \E i \in DOMAIN Topologies[n].services[role] :
         \E k \in 0 .. Topologies[n].services[role][i].replicas - 1 :
           dc = NewDeployConfig(role, Topologies[n].services[role][i], i - 1, k)
BY TopologyFacts DEF ParseTopology

\* The types of what the properties use of a service.
LEMMA ServiceTyped ==
  ASSUME NEW n \in Written, NEW dc \in Services[n]
  PROVE  /\ dc.hostSequence \in Nat /\ dc.replicasSequence \in Nat /\ dc.port \in Nat
         /\ dc.role \in Roles(Kind[n])
         /\ dc.id = <<dc.role, dc.host, dc.name, dc.replicasSequence>>
<1>1. PICK role \in Roles(Kind[n]) \cap DOMAIN Topologies[n].services :
        \E i \in DOMAIN Topologies[n].services[role] :
        \E k \in 0 .. Topologies[n].services[role][i].replicas - 1 :
           dc = NewDeployConfig(role, Topologies[n].services[role][i], i - 1, k)
  BY IsService
<1>a. PICK i \in DOMAIN Topologies[n].services[role] :
        \E k \in 0 .. Topologies[n].services[role][i].replicas - 1 :
           dc = NewDeployConfig(role, Topologies[n].services[role][i], i - 1, k)
  BY <1>1
<1>2. PICK k \in 0 .. Topologies[n].services[role][i].replicas - 1 :
           dc = NewDeployConfig(role, Topologies[n].services[role][i], i - 1, k)
  BY <1>a
<1>3. /\ i \in Nat \ {0} /\ Topologies[n].services[role][i].replicas \in Nat \ {0}
      /\ Topologies[n].services[role][i].port \in Nat
  BY TopologiesAssumption DEF Written
<1>. QED
  BY <1>2, <1>3 DEF NewDeployConfig, FormatId

\* Two services of one role at the same host and replicas sequence are one.
LEMMA SamePlace ==
  ASSUME NEW n \in Written, NEW dc1 \in Services[n], NEW dc2 \in Services[n],
         dc1.role = dc2.role, dc1.hostSequence = dc2.hostSequence,
         dc1.replicasSequence = dc2.replicasSequence
  PROVE  dc1 = dc2
<1>. DEFINE Entry(role, i) == Topologies[n].services[role][i]
            Place(dc, role, i, k) == dc = NewDeployConfig(role, Entry(role, i), i - 1, k)
<1>1. \A role, i, k : \A dc : Place(dc, role, i, k) =>
         dc.role = role /\ dc.hostSequence = i - 1 /\ dc.replicasSequence = k
  BY DEF NewDeployConfig
<1>2. \A role \in DOMAIN Topologies[n].services : \A i \in DOMAIN Topologies[n].services[role] :
        i \in Nat
  BY TopologiesAssumption DEF Written
<1>3. \A dc \in Services[n] :
        \E role \in DOMAIN Topologies[n].services : \E i \in DOMAIN Topologies[n].services[role] :
        \E k : Place(dc, role, i, k)
  <2>1. ASSUME NEW dc \in Services[n]
        PROVE  \E role \in DOMAIN Topologies[n].services :
               \E i \in DOMAIN Topologies[n].services[role] : \E k : Place(dc, role, i, k)
    <3>1. PICK role \in Roles(Kind[n]) \cap DOMAIN Topologies[n].services :
            \E i \in DOMAIN Topologies[n].services[role] :
            \E k \in 0 .. Topologies[n].services[role][i].replicas - 1 :
              dc = NewDeployConfig(role, Topologies[n].services[role][i], i - 1, k)
      BY IsService
    <3>2. PICK i \in DOMAIN Topologies[n].services[role] :
            \E k \in 0 .. Topologies[n].services[role][i].replicas - 1 :
              dc = NewDeployConfig(role, Topologies[n].services[role][i], i - 1, k)
      BY <3>1
    <3>3. PICK k : Place(dc, role, i, k)
      BY <3>2
    <3>. HIDE DEF Place
    <3>. QED
      BY <3>3
  <2>. QED
    BY <2>1
<1>. HIDE DEF Place
<1>4. PICK r1 \in DOMAIN Topologies[n].services : \E i \in DOMAIN Topologies[n].services[r1] :
        \E k : Place(dc1, r1, i, k)
  BY <1>3
<1>5. PICK i1 \in DOMAIN Topologies[n].services[r1] : \E k : Place(dc1, r1, i1, k)
  BY <1>4
<1>6. PICK k1 : Place(dc1, r1, i1, k1)
  BY <1>5
<1>7. PICK r2 \in DOMAIN Topologies[n].services : \E i \in DOMAIN Topologies[n].services[r2] :
        \E k : Place(dc2, r2, i, k)
  BY <1>3
<1>8. PICK i2 \in DOMAIN Topologies[n].services[r2] : \E k : Place(dc2, r2, i2, k)
  BY <1>7
<1>9. PICK k2 : Place(dc2, r2, i2, k2)
  BY <1>8
<1>10. r1 = r2 /\ k1 = k2 /\ i1 - 1 = i2 - 1
  BY <1>1, <1>6, <1>9
<1>11. i1 = i2
  BY <1>2, <1>5, <1>8, <1>10
<1>. QED
  BY <1>6, <1>9, <1>10, <1>11 DEF Place

\* Services of one role can be sorted.
LEMMA RoleSortable ==
  ASSUME NEW n \in Written, NEW dcs \in SUBSET Services[n], IsSameRole(dcs)
  PROVE  Sortable(dcs)
<1>1. IsFiniteSet(dcs)
  BY TopologyFacts, FS_Subset
<1>2. \A dc1, dc2 \in dcs : dc1.role = dc2.role
  BY DEF IsSameRole
<1>. QED
  BY <1>1, <1>2, ServiceTyped, SamePlace DEF Sortable

\* Sorting services of one role gives a sequence of all of them.
LEMMA RoleSorted ==
  ASSUME NEW n \in Written, NEW dcs \in SUBSET Services[n], IsSameRole(dcs)
  PROVE  /\ SortDeployConfigs(dcs) \in Seq(dcs)
         /\ Len(SortDeployConfigs(dcs)) = Cardinality(dcs)
         /\ Cardinality(dcs) \in Nat
<1>1. Cardinality(dcs) \in Nat /\ SortDeployConfigs(dcs) \in [1 .. Cardinality(dcs) -> dcs]
  BY RoleSortable, Sorted
<1>. QED
  BY <1>1

\* The id of a service is its own within a topology.
LEMMA SameId ==
  ASSUME NEW n \in Written, NEW dc1 \in Services[n], NEW dc2 \in Services[n], dc1.id = dc2.id
  PROVE  dc1 = dc2
<1>1. \A a, b \in ParseTopology(Topologies[n]) : a.id = b.id => a = b
  BY TopologiesAssumption DEF Written
<1>. QED
  BY <1>1, TopologyFacts

\* The ids of services of a topology are ids of services.
LEMMA IdsTyped ==
  ASSUME NEW n \in Written \cup {None}, NEW dcs \in SUBSET Services[n]
  PROVE  Ids(dcs) \subseteq ServiceId
BY TopologyFacts DEF Ids, ServiceId

-----------------------------------------------------------------------------
(* Pools. *)

\* The zone that genZone gives is one of three, or none.
LEMMA ZoneTyped ==
  ASSUME NEW dcs, NEW i \in Nat
  PROVE  Zone(dcs, i) \in NoZone .. DEFAULT_ZONES_PER_POOL
<1>. DEFINE S == {j \in 1 .. i : dcs[j].parentId = dcs[j].id}
<1>1. IsFiniteSet(1 .. i)
  BY FS_Interval
<1>2. IsFiniteSet(S)
  BY <1>1, FS_Subset
<1>3. Cardinality(S) \in Nat
  BY <1>2, FS_CardinalityType
<1>4. Zone(dcs, i) = IF Cardinality(S) = 0 THEN NoZone
                     ELSE ((Cardinality(S) - 1) % DEFAULT_ZONES_PER_POOL) + 1
  BY DEF Zone
<1>. HIDE DEF S
<1>. QED
  BY <1>3, <1>4 DEF NoZone, DEFAULT_ZONES_PER_POOL

\* createServers gives servers.
LEMMA ServersTyped ==
  ASSUME NEW n \in Written, NEW dcs \in Seq(Services[n]), NEW k \in Nat \ {0}
  PROVE  Servers(dcs, k) \in Seq(Server)
<1>. DEFINE S(i) == [name |-> ServerName(dcs[i]), ip |-> dcs[i].host, port |-> ServerPort(dcs[i]),
                     zone |-> Zone(dcs, i), pool |-> k]
<1>1. ASSUME NEW i \in 1 .. Len(dcs)
      PROVE  S(i) \in Server
  <2>1. dcs[i] \in Services[n]
    OBVIOUS
  <2>2. ServerPort(dcs[i]) \in Nat
    BY <2>1, ServiceTyped DEF ServerPort
  <2>3. Zone(dcs, i) \in NoZone .. DEFAULT_ZONES_PER_POOL
    BY ZoneTyped
  <2>. QED
    BY <2>1, <2>2, <2>3 DEF Server
<1>2. Servers(dcs, k) = [i \in 1 .. Len(dcs) |-> S(i)]
  BY DEF Servers
<1>. HIDE DEF S
<1>3. Len(dcs) \in Nat
  OBVIOUS
<1>. QED
  BY <1>1, <1>2, <1>3

\* A pool has at least one copyset.
LEMMA CopysetsTyped ==
  ASSUME NEW n \in Written, NEW dcs \in Seq(Services[n])
  PROVE  PoolCopysets(dcs) \in Nat \ {0}
<1>1. Len(dcs) * Copysets \in Nat
  BY NumbersAssumption
<1>. QED
  BY <1>1 DEF PoolCopysets, DEFAULT_REPLICAS_PER_COPYSET

\* A logical pool.
LogicalPool == [name : Nat \ {0}, copysets : Nat \ {0}]
\* What cluster pool data is, as far as its fields go.
Pool == [servers : Seq(Server), logicalPools : Seq(LogicalPool), npools : Nat]

\* A well-formed one: the logical pools are numbered, and npool counts them.
PoolTyped(p) ==
  /\ p \in Pool
  /\ p.npools = Len(p.logicalPools)
  /\ \A i \in 1 .. p.npools : p.logicalPools[i].name = i

\* generateClusterPool gives the logical pool it is asked for, and its servers.
LEMMA GenerateTyped ==
  ASSUME NEW n \in Written, NEW dcs \in Seq(Services[n]), NEW k \in Nat \ {0}
  PROVE  LET generated == GenerateClusterPool(dcs, k)
         IN /\ generated \in Pool
            /\ Len(generated.logicalPools) = 1 /\ generated.npools = 1
            /\ generated.logicalPools[1].name = k
<1>1. Servers(dcs, k) \in Seq(Server) /\ PoolCopysets(dcs) \in Nat \ {0}
  BY ServersTyped, CopysetsTyped
<1>2. << [name |-> k, copysets |-> PoolCopysets(dcs)] >> \in Seq(LogicalPool)
  BY <1>1 DEF LogicalPool
<1>. QED
  BY <1>1, <1>2 DEF GenerateClusterPool, Pool

\* The storage services of a topology can be sorted, and StorageInOrder has all of them.
LEMMA StorageSorted ==
  ASSUME NEW n \in Written
  PROVE  LET dcs == FilterDeployConfigByRole(Services[n], StorageRole(Kind[n]))
         IN /\ StorageInOrder[n] = SortDeployConfigs(dcs)
            /\ dcs \in SUBSET Services[n] /\ IsSameRole(dcs) /\ Sortable(dcs)
            /\ StorageInOrder[n] \in Seq(Services[n])
            /\ Len(StorageInOrder[n]) = Cardinality(dcs)
<1>. DEFINE dcs == FilterDeployConfigByRole(Services[n], StorageRole(Kind[n]))
<1>1. dcs \in SUBSET Services[n] /\ IsSameRole(dcs)
  BY DEF FilterDeployConfigByRole, IsSameRole
<1>2. StorageInOrder[n] = SortDeployConfigs(dcs)
  BY DEF StorageInOrder
<1>. HIDE DEF dcs
<1>3. SortDeployConfigs(dcs) \in Seq(dcs) /\ Len(SortDeployConfigs(dcs)) = Cardinality(dcs)
  BY <1>1, RoleSorted
<1>4. SortDeployConfigs(dcs) \in Seq(Services[n])
  BY <1>1, <1>3
<1>5. Sortable(dcs)
  BY <1>1, RoleSortable
<1>. QED
  BY <1>1, <1>2, <1>3, <1>4, <1>5 DEF dcs

\* The default pool is well-formed and has one logical pool.
LEMMA DefaultTyped ==
  ASSUME NEW n \in Written
  PROVE  PoolTyped(Default[n]) /\ Default[n].npools = 1
         /\ Default[n].servers = Servers(StorageInOrder[n], 1)
<1>1. Default[n] = GenerateClusterPool(StorageInOrder[n], 1)
  BY DEF Default, DefaultClusterPool
<1>2. StorageInOrder[n] \in Seq(Services[n])
  BY StorageSorted
<1>3. Default[n].servers = Servers(StorageInOrder[n], 1)
  BY <1>1 DEF GenerateClusterPool
<1>4. /\ Default[n] \in Pool /\ Len(Default[n].logicalPools) = 1 /\ Default[n].npools = 1
      /\ Default[n].logicalPools[1].name = 1
  BY <1>1, <1>2, GenerateTyped
<1>. QED
  BY <1>3, <1>4 DEF PoolTyped

\* No pool is well-formed too.
LEMMA NoPoolTyped ==
  PoolTyped(NoPool)
<1>1. << >> \in Seq(Server) /\ << >> \in Seq(LogicalPool)
  OBVIOUS
<1>. QED
  BY <1>1 DEF PoolTyped, Pool, NoPool

\* getClusterPool returns a well-formed pool, when the stored one is.
LEMMA GetTyped ==
  ASSUME NEW default, PoolTyped(default), default.npools = 1,
         NEW kind, NEW p, PoolTyped(p)
  PROVE  PoolTyped(GetClusterPool(kind, default, p))
<1>. DEFINE Merged == [i \in DOMAIN p.servers |->
                         IF i \in DOMAIN default.servers
                         THEN [p.servers[i] EXCEPT !.ip = default.servers[i].ip,
                                                   !.port = default.servers[i].port]
                         ELSE p.servers[i]]
            Logical == [p.logicalPools EXCEPT ![1].copysets =
                          IF kind = "curvebs" THEN default.logicalPools[1].copysets ELSE @]
<1>1. Merged \in Seq(Server)
  <2>1. ASSUME NEW i \in DOMAIN p.servers
        PROVE  Merged[i] \in Server
    <3>1. p.servers[i] \in Server
      BY DEF PoolTyped, Pool
    <3>2. CASE i \in DOMAIN default.servers
      <4>1. default.servers[i] \in Server
        BY <3>2 DEF PoolTyped, Pool
      <4>. QED
        BY <3>1, <3>2, <4>1 DEF Server
    <3>. QED
      BY <3>1, <3>2
  <2>2. DOMAIN Merged = 1 .. Len(p.servers) /\ Len(p.servers) \in Nat
    BY DEF PoolTyped, Pool
  <2>. HIDE DEF Merged
  <2>3. Merged = [i \in DOMAIN Merged |-> Merged[i]]
    BY DEF Merged
  <2>. QED
    BY <2>1, <2>2, <2>3
<1>2. Logical \in Seq(LogicalPool) /\ Len(Logical) = Len(p.logicalPools)
      /\ \A i \in 1 .. p.npools : Logical[i].name = i
  <2>1. default.logicalPools[1] \in LogicalPool
    <3>1. default.logicalPools \in Seq(LogicalPool) /\ Len(default.logicalPools) = 1
      BY DEF PoolTyped, Pool
    <3>. QED
      BY <3>1
  <2>2. p.logicalPools \in Seq(LogicalPool) /\ p.npools = Len(p.logicalPools)
    BY DEF PoolTyped, Pool
  <2>3. ASSUME NEW i \in 1 .. Len(p.logicalPools)
        PROVE  Logical[i] \in LogicalPool /\ Logical[i].name = p.logicalPools[i].name
    <3>1. p.logicalPools[i] \in LogicalPool
      BY <2>2
    <3>. QED
      BY <2>1, <2>2, <3>1 DEF LogicalPool
  <2>4. DOMAIN Logical = 1 .. Len(p.logicalPools)
    BY <2>2
  <2>5. Logical = [i \in 1 .. Len(p.logicalPools) |-> Logical[i]]
    BY <2>4
  <2>. HIDE DEF Logical
  <2>6. Len(p.logicalPools) \in Nat
    BY <2>2
  <2>7. Logical \in Seq(LogicalPool) /\ Len(Logical) = Len(p.logicalPools)
    <3>. DEFINE len == Len(p.logicalPools)
    <3>1. Logical \in [1 .. len -> LogicalPool]
      BY <2>3, <2>4, <2>5
    <3>. HIDE DEF len
    <3>2. Logical \in Seq(LogicalPool) /\ Len(Logical) = len
      BY <3>1, <2>6 DEF len
    <3>. QED
      BY <3>2 DEF len
  <2>8. \A i \in 1 .. p.npools : p.logicalPools[i].name = i
    BY DEF PoolTyped
  <2>. QED
    BY <2>2, <2>3, <2>7, <2>8
<1>3. CASE p # NoPool
  <2>1. GetClusterPool(kind, default, p) = [p EXCEPT !.servers = Merged, !.logicalPools = Logical]
    BY <1>3 DEF GetClusterPool, PoolTyped, Pool
  <2>. HIDE DEF Merged, Logical
  <2>. QED
    BY <2>1, <1>1, <1>2 DEF PoolTyped, Pool
<1>. QED
  BY <1>3 DEF GetClusterPool

\* ScaleOutClusterPool adds a logical pool with the next number.
LEMMA ScaleOutTyped ==
  ASSUME NEW n \in Written, NEW dcs \in Seq(Services[n]), NEW p, PoolTyped(p)
  PROVE  PoolTyped(ScaleOutClusterPool(p, dcs))
<1>. DEFINE new == GenerateClusterPool(dcs, p.npools + 1)
<1>1. /\ new \in Pool
      /\ Len(new.logicalPools) = 1 /\ new.npools = 1 /\ new.logicalPools[1].name = p.npools + 1
  <2>1. p.npools + 1 \in Nat \ {0}
    BY DEF PoolTyped, Pool
  <2>. QED
    BY <2>1, GenerateTyped
<1>2. ScaleOutClusterPool(p, dcs) =
        [servers |-> p.servers \o new.servers, logicalPools |-> p.logicalPools \o new.logicalPools,
         npools |-> p.npools + 1]
  BY DEF ScaleOutClusterPool
<1>. HIDE DEF new
<1>3. p.servers \o new.servers \in Seq(Server)
  BY <1>1 DEF PoolTyped, Pool
<1>a. /\ p.logicalPools \in Seq(LogicalPool) /\ new.logicalPools \in Seq(LogicalPool)
      /\ p.npools \in Nat /\ p.npools = Len(p.logicalPools) /\ Len(new.logicalPools) = 1
      /\ \A i \in 1 .. p.npools : p.logicalPools[i].name = i
      /\ new.logicalPools[1].name = p.npools + 1
  BY <1>1 DEF PoolTyped, Pool
<1>4. p.logicalPools \o new.logicalPools \in Seq(LogicalPool)
      /\ Len(p.logicalPools \o new.logicalPools) = p.npools + 1
  <2>. DEFINE a == p.logicalPools
              b == new.logicalPools
  <2>1. a \in Seq(LogicalPool) /\ b \in Seq(LogicalPool) /\ Len(a) = p.npools /\ Len(b) = 1
    BY <1>a
  <2>. HIDE DEF a, b
  <2>2. a \o b \in Seq(LogicalPool) /\ Len(a \o b) = p.npools + 1
    BY <2>1, ConcatProperties, SMTT(20)
  <2>. QED
    BY <2>2 DEF a, b
<1>5. ASSUME NEW i \in 1 .. p.npools + 1
      PROVE  (p.logicalPools \o new.logicalPools)[i].name = i
  <2>. DEFINE a == p.logicalPools
              b == new.logicalPools
  <2>1. a \in Seq(LogicalPool) /\ b \in Seq(LogicalPool) /\ Len(a) = p.npools /\ Len(b) = 1
        /\ p.npools \in Nat
        /\ (\A j \in 1 .. p.npools : a[j].name = j) /\ b[1].name = p.npools + 1
    BY <1>a
  <2>. HIDE DEF a, b
  <2>2. (a \o b)[i] = IF i <= p.npools THEN a[i] ELSE b[i - p.npools]
    BY <2>1, ConcatProperties
  <2>3. (a \o b)[i].name = i
    BY <2>1, <2>2
  <2>. QED
    BY <2>3 DEF a, b
<1>. QED
  BY <1>2, <1>3, <1>4, <1>5, <1>a DEF PoolTyped, Pool

\* MigrateClusterServer replaces names, addresses and ports of servers.
LEMMA MigrateTyped ==
  ASSUME NEW n \in Written, NEW to \in Seq(Services[n]), NEW from, DOMAIN from = DOMAIN to,
         NEW p, PoolTyped(p)
  PROVE  PoolTyped(MigrateClusterServer(p, to, from))
<1>. DEFINE At(server) == {i \in DOMAIN from : ServerName(from[i]) = server.name}
            After(server) ==
              IF At(server) = {} THEN server
              ELSE Moved(server, to[CHOOSE i \in At(server) : TRUE])
<1>1. ASSUME NEW server \in Server
      PROVE  After(server) \in Server
  <2>1. ASSUME At(server) # {}
        PROVE  Moved(server, to[CHOOSE i \in At(server) : TRUE]) \in Server
    <3>1. (CHOOSE i \in At(server) : TRUE) \in DOMAIN to
      BY <2>1
    <3>2. PICK j \in DOMAIN to : j = (CHOOSE i \in At(server) : TRUE)
      BY <3>1
    <3>3. to[j] \in Services[n] /\ to[j].port \in Nat
      BY <3>2, ServiceTyped
    <3>4. Moved(server, to[j]) \in Server
      <4>1. ServerName(to[j]) \in UNION {{ServerName(dc) : dc \in Services[m]} : m \in Written}
        BY <3>3
      <4>2. to[j].host \in UNION {{dc.host : dc \in Services[m]} : m \in Written}
        BY <3>3
      <4>. QED
        BY <3>3, <4>1, <4>2 DEF Moved, Server
    <3>. QED
      BY <3>2, <3>4
  <2>. QED
    BY <2>1
<1>2. MigrateClusterServer(p, to, from) =
        [p EXCEPT !.servers = [k \in DOMAIN p.servers |-> After(p.servers[k])]]
  BY DEF MigrateClusterServer
<1>. HIDE DEF After
<1>3. [k \in DOMAIN p.servers |-> After(p.servers[k])] \in Seq(Server)
  <2>1. p.servers \in Seq(Server)
    BY DEF PoolTyped, Pool
  <2>. QED
    BY <1>1, <2>1
<1>. QED
  BY <1>2, <1>3 DEF PoolTyped, Pool

-----------------------------------------------------------------------------
(* Playbooks. *)

\* The types of steps.
StepType == {"CREATE_CONTAINER", "START_SERVICE", "STOP_SERVICE", "CLEAN_SERVICE",
             "CREATE_PHYSICAL_POOL", "CREATE_LOGICAL_POOL", "UPDATE_TOPOLOGY"}
\* The steps.
StepRecord == [type : StepType, on : SUBSET ServiceId]

\* The steps that store the topology.
Storing == {"CREATE_LOGICAL_POOL", "UPDATE_TOPOLOGY"}

\* What a step of a scale-out or a migration is about.
About(step, old, new) ==
  /\ step.type \in {"CREATE_CONTAINER", "START_SERVICE"} => step.on = Ids(Added(old, new))
  /\ step.type \in {"STOP_SERVICE", "CLEAN_SERVICE"} => step.on = Ids(Deleted(old, new))
  /\ step.type = "CREATE_LOGICAL_POOL" =>
       \A dc \in Added(old, new) : dc.role \in {"chunkserver", "metaserver"}
  /\ step.type = "UPDATE_TOPOLOGY" =>
       \A dc \in Added(old, new) : dc.role \notin {"chunkserver", "metaserver"}

\* What is left of a scale-out or a migration: its steps are about its services, and only
\* the last one stores.
Planned(steps, old, new) ==
  /\ \A i \in 1 .. Len(steps) : About(steps[i], old, new)
  /\ \A i \in 1 .. Len(steps) : steps[i].type \in Storing => i = Len(steps)

\* A step of the type is left.
Has(steps, type) == \E i \in 1 .. Len(steps) : steps[i].type = type

\* Steps that store nothing may precede what is planned.
LEMMA PlannedAfter ==
  ASSUME NEW old, NEW new, NEW s \in Seq(StepRecord), NEW t \in Seq(StepRecord), t # << >>,
         \A i \in 1 .. Len(s) : About(s[i], old, new) /\ s[i].type \notin Storing,
         Planned(t, old, new)
  PROVE  /\ s \o t \in Seq(StepRecord) /\ Planned(s \o t, old, new)
         /\ \A type : Has(s \o t, type) <=> Has(s, type) \/ Has(t, type)
<1>1. /\ Len(s) \in Nat /\ Len(t) \in Nat \ {0} /\ Len(s \o t) = Len(s) + Len(t)
      /\ \A i \in 1 .. Len(s) + Len(t) : (s \o t)[i] = IF i <= Len(s) THEN s[i] ELSE t[i - Len(s)]
      /\ s \o t \in Seq(StepRecord)
  BY ConcatProperties, EmptySeq, LenProperties
<1>2. \A i \in 1 .. Len(s) + Len(t) : i <= Len(s) \/ i - Len(s) \in 1 .. Len(t)
  BY <1>1
<1>3. \A i \in 1 .. Len(s) + Len(t) : About((s \o t)[i], old, new)
  BY <1>1, <1>2 DEF Planned
<1>4. ASSUME NEW i \in 1 .. Len(s) + Len(t), (s \o t)[i].type \in Storing
      PROVE  i = Len(s) + Len(t)
  <2>1. i > Len(s) /\ i - Len(s) \in 1 .. Len(t) /\ (s \o t)[i] = t[i - Len(s)]
    BY <1>1, <1>2, <1>4
  <2>2. i - Len(s) = Len(t)
    BY <1>4, <2>1 DEF Planned
  <2>. QED
    BY <1>1, <2>2
<1>5. ASSUME NEW type, Has(s \o t, type)
      PROVE  Has(s, type) \/ Has(t, type)
  BY <1>1, <1>2, <1>5 DEF Has
<1>6. ASSUME NEW type, Has(s, type)
      PROVE  Has(s \o t, type)
  <2>1. PICK i \in 1 .. Len(s) : s[i].type = type
    BY <1>6 DEF Has
  <2>2. i \in 1 .. Len(s \o t) /\ (s \o t)[i] = s[i]
    BY <1>1
  <2>. QED
    BY <2>1, <2>2 DEF Has
<1>7. ASSUME NEW type, Has(t, type)
      PROVE  Has(s \o t, type)
  <2>1. PICK i \in 1 .. Len(t) : t[i].type = type
    BY <1>7 DEF Has
  <2>2. Len(s) + i \in 1 .. Len(s \o t) /\ (s \o t)[Len(s) + i] = t[i]
    BY <1>1
  <2>. QED
    BY <2>1, <2>2 DEF Has
<1>. QED
  BY <1>1, <1>3, <1>4, <1>5, <1>6, <1>7 DEF Planned

\* What is planned stays planned when its first step is done.
LEMMA PlannedTail ==
  ASSUME NEW old, NEW new, NEW s \in Seq(StepRecord), s # << >>, Planned(s, old, new)
  PROVE  /\ About(Head(s), old, new) /\ Planned(Tail(s), old, new)
         /\ Head(s).type \in Storing => Tail(s) = << >>
<1>1. /\ Len(s) \in Nat \ {0} /\ Tail(s) \in Seq(StepRecord) /\ Len(Tail(s)) = Len(s) - 1
      /\ \A i \in 1 .. Len(Tail(s)) : Tail(s)[i] = s[i + 1]
      /\ Head(s) = s[1]
  BY HeadTailProperties, EmptySeq
<1>2. \A i \in 1 .. Len(Tail(s)) : i + 1 \in 1 .. Len(s)
  BY <1>1
<1>a. /\ \A i \in 1 .. Len(s) : About(s[i], old, new)
      /\ \A i \in 1 .. Len(s) : s[i].type \in Storing => i = Len(s)
  BY DEF Planned
<1>3. About(Head(s), old, new) /\ (Head(s).type \in Storing => Len(s) = 1)
  <2>1. 1 \in 1 .. Len(s)
    BY <1>1
  <2>. QED
    BY <1>1, <1>a, <2>1
<1>4. Planned(Tail(s), old, new)
  <2>1. ASSUME NEW i \in 1 .. Len(Tail(s))
        PROVE  About(Tail(s)[i], old, new) /\ (Tail(s)[i].type \in Storing => i = Len(Tail(s)))
    <3>1. Tail(s)[i] = s[i + 1] /\ i + 1 \in 1 .. Len(s)
      BY <1>1, <1>2
    <3>2. PICK j \in 1 .. Len(s) : j = i + 1
      BY <3>1
    <3>3. About(s[j], old, new) /\ (s[j].type \in Storing => j = Len(s))
      BY <1>a
    <3>4. j = Len(s) => i = Len(Tail(s))
      <4>. DEFINE whole == Len(s)
                  rest == Len(Tail(s))
      <4>1. whole \in Nat /\ rest = whole - 1 /\ i \in Int
        BY <1>1
      <4>. HIDE DEF whole, rest
      <4>2. j = whole => i = rest
        BY <3>2, <4>1
      <4>. QED
        BY <4>2 DEF whole, rest
    <3>. QED
      BY <3>1, <3>2, <3>3, <3>4
  <2>. QED
    BY <2>1 DEF Planned
<1>6. Len(Tail(s)) = 0 => Tail(s) = << >>
  BY <1>1, EmptySeq
<1>. QED
  BY <1>1, <1>3, <1>4, <1>6

\* The types of the steps that are left.
LEMMA HasTail ==
  ASSUME NEW s \in Seq(StepRecord), s # << >>, NEW type
  PROVE  Has(s, type) <=> Head(s).type = type \/ Has(Tail(s), type)
<1>1. /\ Len(s) \in Nat \ {0} /\ Len(Tail(s)) = Len(s) - 1
      /\ \A i \in 1 .. Len(Tail(s)) : Tail(s)[i] = s[i + 1]
      /\ Head(s) = s[1]
  BY HeadTailProperties, EmptySeq
<1>2. ASSUME Has(s, type), Head(s).type # type
      PROVE  Has(Tail(s), type)
  <2>1. PICK i \in 1 .. Len(s) : s[i].type = type
    BY <1>2 DEF Has
  <2>2. i # 1
    BY <1>1, <1>2, <2>1
  <2>3. i - 1 \in 1 .. Len(Tail(s)) /\ Tail(s)[i - 1] = s[i]
    BY <1>1, <2>2
  <2>. QED
    BY <2>1, <2>3 DEF Has
<1>3. ASSUME Head(s).type = type
      PROVE  Has(s, type)
  BY <1>1, <1>3 DEF Has
<1>4. ASSUME Has(Tail(s), type)
      PROVE  Has(s, type)
  <2>1. PICK i \in 1 .. Len(Tail(s)) : Tail(s)[i].type = type
    BY <1>4 DEF Has
  <2>2. i + 1 \in 1 .. Len(s) /\ s[i + 1] = Tail(s)[i]
    BY <1>1
  <2>. QED
    BY <2>1, <2>2 DEF Has
<1>. QED
  BY <1>2, <1>3, <1>4

\* The playbook of deploy is one, and never stores by UPDATE_TOPOLOGY.
LEMMA DeployTyped ==
  ASSUME NEW n \in Written
  PROVE  DeploySteps(n) \in Seq(StepRecord) /\ ~ Has(DeploySteps(n), "UPDATE_TOPOLOGY")
<1>. DEFINE First3 == << On("CREATE_CONTAINER", Ids(Services[n])),
                         On("START_SERVICE", ByRole(n, "etcd")),
                         On("START_SERVICE", ByRole(n, "mds")) >>
            Bs == << On("CREATE_PHYSICAL_POOL", FirstMds(n)),
                     On("START_SERVICE", ByRole(n, "chunkserver")),
                     On("CREATE_LOGICAL_POOL", FirstMds(n)),
                     On("START_SERVICE", ByRole(n, "snapshotclone")) >>
            Fs == << On("CREATE_LOGICAL_POOL", FirstMds(n)),
                     On("START_SERVICE", ByRole(n, "metaserver")) >>
            Rest == IF Kind[n] = "curvebs" THEN Bs ELSE Fs
            Other == {step \in StepRecord : step.type # "UPDATE_TOPOLOGY"}
<1>1. /\ Ids(Services[n]) \subseteq ServiceId /\ FirstMds(n) \subseteq ServiceId
      /\ \A role : ByRole(n, role) \subseteq ServiceId
  BY IdsTyped DEF ByRole, FirstMds, FilterDeployConfigByRole, Ids
<1>2. \A ids \in SUBSET ServiceId : \A type \in StepType \ {"UPDATE_TOPOLOGY"} :
        On(type, ids) \in Other
  BY DEF On, StepRecord
<1>. HIDE DEF Other
<1>3. First3 \in Seq(Other)
  BY <1>1, <1>2 DEF StepType
<1>4. Rest \in Seq(Other)
  BY <1>1, <1>2 DEF StepType
<1>5. DeploySteps(n) = First3 \o Rest
  BY DEF DeploySteps
<1>6. DeploySteps(n) \in Seq(Other)
  BY <1>3, <1>4, <1>5, ConcatProperties
<1>7. \A i \in 1 .. Len(DeploySteps(n)) : DeploySteps(n)[i] \in Other
  BY <1>6
<1>8. Other \subseteq StepRecord
  BY DEF Other
<1>9. DeploySteps(n) \in Seq(StepRecord)
  BY <1>6, <1>8, SeqMonotonic
<1>. QED
  BY <1>7, <1>9 DEF Has, Other

\* The services that are added are services of the new topology, those deleted of the old
\* one, and no service is both.
LEMMA DifferenceTyped ==
  ASSUME NEW old \in Written, NEW new \in Written
  PROVE  /\ Added(old, new) \in SUBSET Services[new] /\ Ids(Added(old, new)) \subseteq ServiceId
         /\ Deleted(old, new) \in SUBSET Services[old] /\ Ids(Deleted(old, new)) \subseteq ServiceId
         /\ Ids(Added(old, new)) \cap Ids(Deleted(old, new)) = {}
         /\ FirstMds(old) \subseteq ServiceId
<1>1. /\ Added(old, new) \in SUBSET Services[new] /\ Deleted(old, new) \in SUBSET Services[old]
      /\ Ids(Added(old, new)) \cap Ids(Deleted(old, new)) = {}
  BY DEF Added, Deleted, DiffAdd, DiffDelete, Ids
<1>2. FirstMds(old) \subseteq ServiceId
  BY IdsTyped DEF FirstMds, FilterDeployConfigByRole, Ids
<1>. QED
  BY <1>1, <1>2, IdsTyped

\* The steps that start the new services and store the topology are planned.
LEMMA StartPlanned ==
  ASSUME NEW old \in Written, NEW new \in Written, NEW role,
         \A dc \in Added(old, new) : dc.role = role
  PROVE  LET steps == StartNew(role, old, Ids(Added(old, new)))
         IN /\ steps \in Seq(StepRecord) /\ steps # << >> /\ Planned(steps, old, new)
            /\ Has(steps, "START_SERVICE")
<1>. DEFINE add == Ids(Added(old, new))
            mds == FirstMds(old)
<1>1. add \subseteq ServiceId /\ mds \subseteq ServiceId
  BY DifferenceTyped
<1>2. ASSUME NEW type \in StepType
      PROVE  On(type, add) \in StepRecord /\ On(type, mds) \in StepRecord
             /\ On(type, {}) \in StepRecord
  BY <1>1 DEF On, StepRecord
<1>3. \A type, ids : On(type, ids).type = type /\ On(type, ids).on = ids
  BY DEF On
<1>4. About(On("START_SERVICE", add), old, new) /\ About(On("CREATE_PHYSICAL_POOL", mds), old, new)
  BY <1>3 DEF About
<1>5. role \in {"chunkserver", "metaserver"} => About(On("CREATE_LOGICAL_POOL", mds), old, new)
  BY <1>3 DEF About
<1>6. role \notin {"chunkserver", "metaserver"} => About(On("UPDATE_TOPOLOGY", {}), old, new)
  BY <1>3 DEF About
<1>. HIDE DEF add, mds
<1>7. CASE role = "chunkserver"
  <2>. DEFINE steps == << On("CREATE_PHYSICAL_POOL", mds), On("START_SERVICE", add),
                          On("CREATE_LOGICAL_POOL", mds) >>
  <2>1. steps \in Seq(StepRecord) /\ steps # << >> /\ Len(steps) = 3
    BY <1>2 DEF StepType
  <2>2. Planned(steps, old, new)
    BY <1>3, <1>4, <1>5, <1>7 DEF Planned, Storing
  <2>3. Has(steps, "START_SERVICE")
    BY <1>3, <2>1 DEF Has
  <2>. QED
    BY <1>7, <2>1, <2>2, <2>3 DEF StartNew, add, mds
<1>8. CASE role = "metaserver"
  <2>. DEFINE steps == << On("START_SERVICE", add), On("CREATE_LOGICAL_POOL", mds) >>
  <2>1. steps \in Seq(StepRecord) /\ steps # << >> /\ Len(steps) = 2
    BY <1>2 DEF StepType
  <2>2. Planned(steps, old, new)
    BY <1>3, <1>4, <1>5, <1>8 DEF Planned, Storing
  <2>3. Has(steps, "START_SERVICE")
    BY <1>3, <2>1 DEF Has
  <2>. QED
    BY <1>8, <2>1, <2>2, <2>3 DEF StartNew, add, mds
<1>9. CASE role \notin {"chunkserver", "metaserver"}
  <2>. DEFINE steps == << On("START_SERVICE", add), On("UPDATE_TOPOLOGY", {}) >>
  <2>1. steps \in Seq(StepRecord) /\ steps # << >> /\ Len(steps) = 2
    BY <1>2 DEF StepType
  <2>2. Planned(steps, old, new)
    BY <1>3, <1>4, <1>6, <1>9 DEF Planned, Storing
  <2>3. Has(steps, "START_SERVICE")
    BY <1>3, <2>1 DEF Has
  <2>. QED
    BY <1>9, <2>1, <2>2, <2>3 DEF StartNew, add, mds
<1>. QED
  BY <1>7, <1>8, <1>9

\* The playbook of a scale-out is planned, starts services and deletes none.
LEMMA ScaleOutPlanned ==
  ASSUME NEW old \in Written, NEW new \in DOMAIN ScaleOuts[old]
  PROVE  /\ new \in Written /\ ScaleOutAllowed(Services[old], Services[new])
         /\ Deleted(old, new) = {}
         /\ ScaleOuts[old][new] \in Seq(StepRecord) /\ ScaleOuts[old][new] # << >>
         /\ Planned(ScaleOuts[old][new], old, new)
         /\ Has(ScaleOuts[old][new], "START_SERVICE")
<1>1. /\ new \in Written /\ ScaleOutAllowed(Services[old], Services[new])
      /\ ScaleOuts[old][new] = ScaleOutSteps(old, new)
  BY DEF ScaleOuts
<1>. DEFINE create == << On("CREATE_CONTAINER", Ids(Added(old, new))) >>
            role == (CHOOSE dc \in Added(old, new) : TRUE).role
            start == StartNew(role, old, Ids(Added(old, new)))
<1>2. ScaleOutSteps(old, new) = create \o start
  BY DEF ScaleOutSteps
<1>3. /\ Added(old, new) # {} /\ Deleted(old, new) = {}
      /\ \A dc1, dc2 \in Added(old, new) : dc1.role = dc2.role
  BY <1>1 DEF ScaleOutAllowed, IsSameRole, Added, Deleted
<1>4. \A dc \in Added(old, new) : dc.role = role
  BY <1>3
<1>. HIDE DEF role
<1>5. /\ start \in Seq(StepRecord) /\ start # << >> /\ Planned(start, old, new)
      /\ Has(start, "START_SERVICE")
  BY <1>1, <1>4, StartPlanned
<1>6. create \in Seq(StepRecord) /\ create[1].type = "CREATE_CONTAINER" /\ Len(create) = 1
  BY <1>1, DifferenceTyped DEF On, StepRecord, StepType
<1>7. About(create[1], old, new) /\ create[1].type \notin Storing
  BY DEF On, About, Storing
<1>8. \A i \in 1 .. Len(create) : About(create[i], old, new) /\ create[i].type \notin Storing
  BY <1>6, <1>7
<1>. HIDE DEF create, start
<1>9. /\ create \o start \in Seq(StepRecord) /\ Planned(create \o start, old, new)
      /\ Has(create \o start, "START_SERVICE")
  BY <1>5, <1>6, <1>8, PlannedAfter
<1>10. create \o start # << >>
  BY <1>9, EmptySeq DEF Has
<1>. QED
  BY <1>1, <1>2, <1>3, <1>9, <1>10

\* The playbook of a migration is planned, starts services and cleans services.
LEMMA MigratePlanned ==
  ASSUME NEW old \in Written, NEW new \in DOMAIN Migrates[old]
  PROVE  /\ new \in Written /\ MigrateAllowed(Services[old], Services[new])
         /\ Migrates[old][new] \in Seq(StepRecord) /\ Migrates[old][new] # << >>
         /\ Planned(Migrates[old][new], old, new)
         /\ Has(Migrates[old][new], "START_SERVICE") /\ Has(Migrates[old][new], "CLEAN_SERVICE")
<1>1. /\ new \in Written /\ MigrateAllowed(Services[old], Services[new])
      /\ Migrates[old][new] = MigrateSteps(old, new)
  BY DEF Migrates
<1>. DEFINE before == << On("STOP_SERVICE", Ids(Deleted(old, new))),
                         On("CLEAN_SERVICE", Ids(Deleted(old, new))),
                         On("CREATE_CONTAINER", Ids(Added(old, new))) >>
            role == (CHOOSE dc \in Added(old, new) : TRUE).role
            start == StartNew(role, old, Ids(Added(old, new)))
<1>2. MigrateSteps(old, new) = before \o start
  BY DEF MigrateSteps
<1>3. /\ Added(old, new) # {}
      /\ \A dc1, dc2 \in Added(old, new) : dc1.role = dc2.role
  BY <1>1 DEF MigrateAllowed, IsSameRole, Added
<1>4. \A dc \in Added(old, new) : dc.role = role
  BY <1>3
<1>. HIDE DEF role
<1>5. /\ start \in Seq(StepRecord) /\ start # << >> /\ Planned(start, old, new)
      /\ Has(start, "START_SERVICE")
  BY <1>1, <1>4, StartPlanned
<1>6. before \in Seq(StepRecord) /\ Len(before) = 3
  BY <1>1, DifferenceTyped DEF On, StepRecord, StepType
<1>7. \A i \in 1 .. 3 : About(before[i], old, new) /\ before[i].type \notin Storing
  BY DEF On, About, Storing
<1>8. Has(before, "CLEAN_SERVICE")
  <2>1. before[2].type = "CLEAN_SERVICE"
    BY DEF On
  <2>. QED
    BY <1>6, <2>1 DEF Has
<1>. HIDE DEF before, start
<1>9. /\ before \o start \in Seq(StepRecord) /\ Planned(before \o start, old, new)
      /\ Has(before \o start, "START_SERVICE") /\ Has(before \o start, "CLEAN_SERVICE")
  BY <1>5, <1>6, <1>7, <1>8, PlannedAfter
<1>10. before \o start # << >>
  BY <1>9, EmptySeq DEF Has
<1>. QED
  BY <1>1, <1>2, <1>3, <1>9, <1>10

-----------------------------------------------------------------------------
(* The invariant. *)

\* A command that runs has found a topology; deploy has no step UPDATE_TOPOLOGY.
Playing ==
  ~ Idle => /\ topology # None /\ job.name # "none"
            /\ job.name = "deploy" => ~ Has(todo, "UPDATE_TOPOLOGY")

\* A scale-out or a migration has steps left.
Reshaping == ~ Idle /\ todo # << >> /\ job.name # "deploy"

\* It was accepted for the topology that is still stored, what is left of it is planned,
\* and what is not left is achieved: its new services run, its old ones are cleaned.
Progress ==
  Reshaping =>
    /\ job.name = "scale-out" => job.new \in DOMAIN ScaleOuts[topology]
    /\ job.name = "migrate" => job.new \in DOMAIN Migrates[topology]
    /\ Planned(todo, topology, job.new)
    /\ ~ Has(todo, "START_SERVICE") =>
         \A dc \in Added(topology, job.new) : container[dc.id] = "running"
    /\ ~ Has(todo, "CLEAN_SERVICE") =>
         \A dc \in Deleted(topology, job.new) : container[dc.id] = "cleaned"

\* The stored pool is well-formed, and stored with a topology.
PoolHeld == PoolTyped(pool) /\ (pool # NoPool => topology # None)

\* The inductive invariant.
ReshapeIInv == TypeOK /\ PoolHeld /\ Playing /\ Progress

\* What TypeOK says of the playbook and the containers.
LEMMA TypeFacts ==
  ASSUME TypeOK
  PROVE  /\ todo \in Seq(StepRecord) /\ container \in [ServiceId -> ContainerState]
         /\ topology \in Written \cup {None} /\ faults \in 0 .. MaxFaults
         /\ job \in [name : {"none", "deploy", "scale-out", "migrate"},
                     new : Written \cup {None}, result : {"running", "ok", "error"}]
BY DEF TypeOK, StepRecord, StepType

\* The first step is a step, and the others are what is left.
LEMMA StepFacts ==
  ASSUME TypeOK, todo # << >>
  PROVE  /\ Step \in StepRecord /\ Tail(todo) \in Seq(StepRecord)
         /\ \A type : Has(todo, type) <=> Step.type = type \/ Has(Tail(todo), type)
BY TypeFacts, HasTail, HeadTailProperties DEF Step

\* What is left of the playbook after a step.
Goes ==
  /\ topology \in Written
  /\ \/ todo' = Tail(todo) /\ UNCHANGED <<job, faults>>
     \/ todo' = << >> /\ job' = [job EXCEPT !.result = "error"] /\ faults' \in 0 .. MaxFaults

\* A step that takes effect goes on to the rest of the playbook, or ends the command.
LEMMA AdvanceGoes ==
  ASSUME TypeOK, Playing, ~ Idle, NEW done, Advance(done)
  PROVE  Goes
BY TypeFacts, NumbersAssumption DEF Playing, Advance, Fail, Finish, Goes

\* What a scale-out and a migration are given, and what they find.
LEMMA Given ==
  ASSUME ReshapeIInv, ~ Idle, todo # << >>
  PROVE  /\ topology \in Written /\ PoolTyped(pool) /\ PoolTyped(Default[topology])
         /\ job.name \in {"deploy", "scale-out", "migrate"}
         /\ job.name = "scale-out" =>
              /\ job.new \in DOMAIN ScaleOuts[topology] /\ job.new \in Written
              /\ ScaleOutAllowed(Services[topology], Services[job.new])
              /\ AddedInOrder[topology][job.new] = SortDeployConfigs(Added(topology, job.new))
              /\ AddedInOrder[topology][job.new] \in Seq(Services[job.new])
         /\ job.name = "migrate" =>
              /\ job.new \in DOMAIN Migrates[topology] /\ job.new \in Written
              /\ MigrateAllowed(Services[topology], Services[job.new])
              /\ AddedInOrder[topology][job.new] = SortDeployConfigs(Added(topology, job.new))
              /\ DeletedInOrder[topology][job.new] = SortDeployConfigs(Deleted(topology, job.new))
             /\ AddedInOrder[topology][job.new] \in Seq(Services[job.new])
             /\ DOMAIN DeletedInOrder[topology][job.new] = DOMAIN AddedInOrder[topology][job.new]
              /\ AddedInOrder[topology][job.new] \in Seq(Services[job.new])
              /\ DOMAIN DeletedInOrder[topology][job.new] = DOMAIN AddedInOrder[topology][job.new]
<1>1. /\ topology \in Written /\ PoolTyped(pool) /\ PoolTyped(Default[topology])
      /\ job.name \in {"deploy", "scale-out", "migrate"}
  BY TypeFacts, DefaultTyped DEF ReshapeIInv, Playing, PoolHeld
<1>2. ASSUME job.name = "scale-out"
      PROVE  /\ job.new \in DOMAIN ScaleOuts[topology] /\ job.new \in Written
             /\ ScaleOutAllowed(Services[topology], Services[job.new])
             /\ AddedInOrder[topology][job.new] = SortDeployConfigs(Added(topology, job.new))
             /\ AddedInOrder[topology][job.new] \in Seq(Services[job.new])
  <2>1. job.new \in DOMAIN ScaleOuts[topology]
    BY <1>2 DEF ReshapeIInv, Progress, Reshaping
  <2>2. /\ job.new \in Written /\ Added(topology, job.new) \in SUBSET Services[job.new]
        /\ ScaleOutAllowed(Services[topology], Services[job.new])
    BY <1>1, <2>1, ScaleOutPlanned, DifferenceTyped
  <2>3. IsSameRole(Added(topology, job.new))
    BY <2>2 DEF ScaleOutAllowed, Added
  <2>4. AddedInOrder[topology][job.new] = SortDeployConfigs(Added(topology, job.new))
    BY <1>1, <2>1 DEF AddedInOrder
  <2>5. AddedInOrder[topology][job.new] \in Seq(Services[job.new])
    BY <2>2, <2>3, <2>4, RoleSorted, SeqMonotonic
  <2>. QED
    BY <2>1, <2>2, <2>4, <2>5
<1>3. ASSUME job.name = "migrate"
      PROVE  /\ job.new \in DOMAIN Migrates[topology] /\ job.new \in Written
             /\ MigrateAllowed(Services[topology], Services[job.new])
             /\ AddedInOrder[topology][job.new] = SortDeployConfigs(Added(topology, job.new))
             /\ DeletedInOrder[topology][job.new] = SortDeployConfigs(Deleted(topology, job.new))
             /\ AddedInOrder[topology][job.new] \in Seq(Services[job.new])
             /\ DOMAIN DeletedInOrder[topology][job.new] = DOMAIN AddedInOrder[topology][job.new]
  <2>1. job.new \in DOMAIN Migrates[topology]
    BY <1>3 DEF ReshapeIInv, Progress, Reshaping
  <2>2. job.new \in Written /\ MigrateAllowed(Services[topology], Services[job.new])
    BY <1>1, <2>1, MigratePlanned
  <2>3. /\ AddedInOrder[topology][job.new] = SortDeployConfigs(Added(topology, job.new))
        /\ DeletedInOrder[topology][job.new] = SortDeployConfigs(Deleted(topology, job.new))
    BY <1>1, <2>1 DEF AddedInOrder, DeletedInOrder
  <2>4. /\ Added(topology, job.new) \in SUBSET Services[job.new]
        /\ Deleted(topology, job.new) \in SUBSET Services[topology]
        /\ IsSameRole(Added(topology, job.new)) /\ IsSameRole(Deleted(topology, job.new))
        /\ Cardinality(Added(topology, job.new)) = Cardinality(Deleted(topology, job.new))
    <3>1. /\ Cardinality(Added(topology, job.new)) = Cardinality(Deleted(topology, job.new))
          /\ IsSameRole(Added(topology, job.new) \cup Deleted(topology, job.new))
      BY <2>2 DEF MigrateAllowed, Added, Deleted
    <3>2. IsSameRole(Added(topology, job.new)) /\ IsSameRole(Deleted(topology, job.new))
      BY <3>1 DEF IsSameRole
    <3>. QED
      BY <1>1, <2>2, <3>1, <3>2, DifferenceTyped
  <2>5. /\ AddedInOrder[topology][job.new] \in Seq(Services[job.new])
        /\ DOMAIN AddedInOrder[topology][job.new] = 1 .. Cardinality(Added(topology, job.new))
    BY <2>2, <2>3, <2>4, RoleSorted, SeqMonotonic
  <2>6. DOMAIN DeletedInOrder[topology][job.new] = 1 .. Cardinality(Deleted(topology, job.new))
    BY <1>1, <2>3, <2>4, RoleSorted
  <2>. QED
    BY <2>1, <2>2, <2>3, <2>4, <2>5, <2>6
<1>. QED
  BY <1>1, <1>2, <1>3

\* The pool that a step stores is well-formed, and its topology one that is written.
LEMMA PoolMade ==
  ASSUME ReshapeIInv, ~ Idle, todo # << >>
  PROVE  PoolTyped(NewPool) /\ NewTopology \in Written
<1>. DEFINE old == GetClusterPool(Kind[topology], Default[topology], pool)
<1>1. PoolTyped(old)
  BY Given, DefaultTyped, GetTyped
<1>. HIDE DEF old
<1>2. CASE job.name = "deploy"
  BY Given, <1>1, <1>2 DEF NewPool, NewTopology, old
<1>3. CASE job.name = "scale-out"
  BY Given, <1>1, <1>3, ScaleOutTyped DEF NewPool, NewTopology, old
<1>4. CASE job.name = "migrate"
  BY Given, <1>1, <1>4, MigrateTyped DEF NewPool, NewTopology, old
<1>. QED
  BY Given, <1>2, <1>3, <1>4

\* A command that begins keeps the invariant: its whole playbook is planned.
LEMMA BeginPreserves ==
  ASSUME ReshapeIInv, Deploy \/ (\E new \in Written : ScaleOut(new) \/ Migrate(new))
  PROVE  ReshapeIInv'
<1>0. TypeOK /\ PoolHeld /\ Idle /\ topology \in Written
  BY TypeFacts DEF ReshapeIInv, Deploy, ScaleOut, Migrate
<1>1. \E name \in {"deploy", "scale-out", "migrate"} : \E new \in Written \cup {None} :
      \E steps \in Seq(StepRecord) :
        /\ Begin(name, new, steps)
        /\ name = "deploy" => ~ Has(steps, "UPDATE_TOPOLOGY")
        /\ name = "scale-out" => new \in DOMAIN ScaleOuts[topology] /\ Deleted(topology, new) = {}
        /\ name = "migrate" => new \in DOMAIN Migrates[topology] /\ Has(steps, "CLEAN_SERVICE")
        /\ name # "deploy" => Planned(steps, topology, new) /\ Has(steps, "START_SERVICE")
  <2>1. CASE Deploy
    <3>1. Begin("deploy", job.new, DeploySteps(topology))
      BY <1>0, <2>1 DEF Deploy, DeployPlaybook
    <3>2. job.new \in Written \cup {None}
      BY <1>0, TypeFacts
    <3>. QED
      BY <1>0, <3>1, <3>2, DeployTyped
  <2>2. ASSUME NEW new \in Written, ScaleOut(new)
        PROVE  <1>1!:
    <3>1. new \in DOMAIN ScaleOuts[topology] /\ Begin("scale-out", new, ScaleOuts[topology][new])
      BY <2>2 DEF ScaleOut
    <3>. QED
      BY <1>0, <3>1, ScaleOutPlanned
  <2>3. ASSUME NEW new \in Written, Migrate(new)
        PROVE  <1>1!:
    <3>1. new \in DOMAIN Migrates[topology] /\ Begin("migrate", new, Migrates[topology][new])
      BY <2>3 DEF Migrate
    <3>. QED
      BY <1>0, <3>1, MigratePlanned
  <2>. QED
    BY <2>1, <2>2, <2>3
<1>2. PICK name \in {"deploy", "scale-out", "migrate"}, new \in Written \cup {None},
           steps \in Seq(StepRecord) :
        /\ Begin(name, new, steps)
        /\ name = "deploy" => ~ Has(steps, "UPDATE_TOPOLOGY")
        /\ name = "scale-out" => new \in DOMAIN ScaleOuts[topology] /\ Deleted(topology, new) = {}
        /\ name = "migrate" => new \in DOMAIN Migrates[topology] /\ Has(steps, "CLEAN_SERVICE")
        /\ name # "deploy" => Planned(steps, topology, new) /\ Has(steps, "START_SERVICE")
  BY <1>1
<1>3. /\ job' = [name |-> name, new |-> new, result |-> "running"] /\ todo' = steps
      /\ topology' = topology /\ pool' = pool /\ container' = container /\ faults' = faults
  BY <1>2 DEF Begin, stored
<1>4. TypeOK'
  <2>1. steps \in Seq([type : StepType, on : SUBSET ServiceId])
    BY DEF StepRecord
  <2>. QED
    BY <1>0, <1>3, <2>1 DEF TypeOK, StepType
<1>5. PoolHeld'
  BY <1>0, <1>3 DEF PoolHeld
<1>6. Playing'
  BY <1>0, <1>2, <1>3, TopologyFacts DEF Playing
<1>7. Progress'
  BY <1>2, <1>3 DEF Progress, Reshaping
<1>. QED
  BY <1>4, <1>5, <1>6, <1>7 DEF ReshapeIInv

\* A commit does: no command runs.
LEMMA CommitPreserves ==
  ASSUME ReshapeIInv, NEW new \in Written, Commit(new)
  PROVE  ReshapeIInv'
<1>1. /\ topology' = new /\ Idle /\ new # None
      /\ pool' = pool /\ container' = container /\ job' = job /\ todo' = todo /\ faults' = faults
  BY TopologyFacts DEF Commit
<1>2. TypeOK'
  BY <1>1 DEF ReshapeIInv, TypeOK
<1>3. PoolHeld'
  BY <1>1 DEF ReshapeIInv, PoolHeld
<1>4. Playing' /\ Progress'
  BY <1>1 DEF Playing, Progress, Reshaping, Idle
<1>. QED
  BY <1>2, <1>3, <1>4 DEF ReshapeIInv

\* The end of a command does.
LEMMA EndPreserves ==
  ASSUME ReshapeIInv, StepRefused \/ Succeed
  PROVE  ReshapeIInv'
<1>1. /\ todo' = << >> /\ \E result \in {"ok", "error"} : job' = [job EXCEPT !.result = result]
      /\ UNCHANGED <<topology, pool, container, faults>> /\ ~ Idle
  BY DEF StepRefused, Succeed, Finish, stored
<1>2. TypeOK'
  <2>1. << >> \in Seq([type : StepType, on : SUBSET ServiceId])
    BY EmptySeq
  <2>. QED
    BY <1>1, <2>1 DEF ReshapeIInv, TypeOK, StepType
<1>3. PoolHeld'
  BY <1>1 DEF ReshapeIInv, PoolHeld
<1>4. job'.result # "running"
  BY <1>1, TypeFacts DEF ReshapeIInv
<1>5. Playing' /\ Progress'
  BY <1>4 DEF Playing, Progress, Reshaping, Idle
<1>. QED
  BY <1>2, <1>3, <1>5 DEF ReshapeIInv

\* A step that goes keeps the invariant if it keeps what it has to keep.
LEMMA GoesPreserves ==
  ASSUME ReshapeIInv, ~ Idle, todo # << >>, Goes,
         container' \in [ServiceId -> ContainerState], topology' \in Written,
         PoolTyped(pool)', todo' # << >> => topology' = topology,
         ASSUME Reshaping, Planned(todo, topology, job.new),
                todo' # << >>, ~ Has(todo', "START_SERVICE"),
                job.new \in Written
         PROVE  \A dc \in Added(topology, job.new) : container'[dc.id] = "running",
         ASSUME Reshaping, Planned(todo, topology, job.new),
                todo' # << >>, ~ Has(todo', "CLEAN_SERVICE"),
                job.new \in Written
         PROVE  \A dc \in Deleted(topology, job.new) : container'[dc.id] = "cleaned"
  PROVE  ReshapeIInv'
<1>0. TypeOK /\ Playing /\ Progress
  BY DEF ReshapeIInv
<1>1. Tail(todo) \in Seq(StepRecord) /\ << >> \in Seq(StepRecord)
  BY <1>0, StepFacts, EmptySeq
<1>2. TypeOK'
  <2>1. todo' \in Seq([type : StepType, on : SUBSET ServiceId])
    BY <1>1 DEF Goes, StepRecord
  <2>2. job' \in [name : {"none", "deploy", "scale-out", "migrate"},
                  new : Written \cup {None}, result : {"running", "ok", "error"}]
        /\ faults' \in 0 .. MaxFaults
    BY <1>0, TypeFacts DEF Goes
  <2>3. /\ pool'.servers \in Seq(Server) /\ pool'.npools = Len(pool'.logicalPools)
        /\ \A i \in 1 .. pool'.npools : pool'.logicalPools[i].name = i
    BY DEF PoolTyped, Pool
  <2>4. \A i \in 1 .. pool'.npools : pool'.logicalPools[i].copysets \in Nat \ {0}
    <3>1. pool'.logicalPools \in Seq(LogicalPool) /\ pool'.npools = Len(pool'.logicalPools)
      BY DEF PoolTyped, Pool
    <3>2. \A i \in 1 .. Len(pool'.logicalPools) : pool'.logicalPools[i] \in LogicalPool
      BY <3>1, ElementOfSeq
    <3>. QED
      BY <3>1, <3>2 DEF LogicalPool
  <2>. QED
    BY <2>1, <2>2, <2>3, <2>4 DEF TypeOK, StepType
<1>3. PoolHeld'
  BY TopologyFacts DEF PoolHeld
<1>4. Playing'
  <2>1. CASE todo' = Tail(todo) /\ UNCHANGED <<job, faults>>
    BY <1>0, <2>1, StepFacts, TopologyFacts DEF Playing, Idle
  <2>2. CASE job' = [job EXCEPT !.result = "error"]
    BY <1>0, <2>2, TypeFacts DEF Playing, Idle
  <2>. QED
    BY <2>1, <2>2 DEF Goes
<1>5. Progress'
  <2>1. SUFFICES ASSUME Reshaping'
                 PROVE  /\ job'.name = "scale-out" => job'.new \in DOMAIN ScaleOuts[topology']
                        /\ job'.name = "migrate" => job'.new \in DOMAIN Migrates[topology']
                        /\ Planned(todo', topology', job'.new)
                        /\ ~ Has(todo', "START_SERVICE") =>
                             \A dc \in Added(topology', job'.new) : container'[dc.id] = "running"
                        /\ ~ Has(todo', "CLEAN_SERVICE") =>
                             \A dc \in Deleted(topology', job'.new) : container'[dc.id] = "cleaned"
    BY DEF Progress
  <2>2. /\ job' = job /\ todo' = Tail(todo) /\ todo' # << >> /\ topology' = topology /\ Reshaping
    BY <2>1 DEF Reshaping, Goes
  <2>3. Planned(todo, topology, job.new) /\ Planned(Tail(todo), topology, job.new)
    BY <1>0, <2>2, PlannedTail, TypeFacts DEF Progress
  <2>4. job.new \in Written
    BY <1>0, <2>2, TypeFacts, ScaleOutPlanned, MigratePlanned DEF Progress, Playing,
       Reshaping, Goes
  <2>. QED
    BY <1>0, <2>2, <2>3, <2>4 DEF Progress
<1>. QED
  BY <1>2, <1>3, <1>4, <1>5 DEF ReshapeIInv

\* The id of a service is among the ids.
LEMMA IdsOf ==
  ASSUME NEW dcs
  PROVE  \A dc \in dcs : dc.id \in Ids(dcs)
BY DEF Ids

\* The steps of a playbook keep the invariant, whatever tasks took effect.
LEMMA WorkPreserves ==
  ASSUME ReshapeIInv, ~ Idle, todo # << >>, NEW done \in Outcomes, Work(done)
  PROVE  ReshapeIInv'
<1>0. TypeOK /\ Playing /\ Progress /\ PoolHeld
  BY DEF ReshapeIInv
<1>1. /\ container \in [ServiceId -> ContainerState] /\ Goes /\ PoolTyped(pool)
      /\ topology \in Written /\ todo \in Seq(StepRecord)
      /\ Step \in StepRecord
      /\ todo' # << >> => todo' = Tail(todo)
      /\ \A type : Has(todo, type) <=> Step.type = type \/ Has(Tail(todo), type)
  <2>1. Advance(done)
    BY DEF Work, CreateContainer, StartService, StopService, CleanService, CreatePool
  <2>2. Goes
    BY <1>0, <2>1, AdvanceGoes
  <2>. QED
    BY <1>0, <2>2, TypeFacts, StepFacts DEF Goes, PoolHeld
<1>2. done \subseteq Step.on
  BY DEF Outcomes
<1>3. ASSUME Reshaping, Planned(todo, topology, job.new)
      PROVE  About(Step, topology, job.new) /\ (Step.type \in Storing => Tail(todo) = << >>)
  BY <1>1, <1>3, PlannedTail DEF Step
<1>4. ASSUME job.new \in Written
      PROVE  /\ \A dc \in Added(topology, job.new) : dc.id \in ServiceId
             /\ \A dc \in Deleted(topology, job.new) : dc.id \in ServiceId
             /\ \A dc \in Added(topology, job.new) : dc.id \notin Ids(Deleted(topology, job.new))
             /\ \A dc \in Deleted(topology, job.new) : dc.id \notin Ids(Added(topology, job.new))
  BY <1>1, <1>4, DifferenceTyped, IdsOf
<1>5. Reshaping =>
        /\ ~ Has(todo, "START_SERVICE") =>
             \A dc \in Added(topology, job.new) : container[dc.id] = "running"
        /\ ~ Has(todo, "CLEAN_SERVICE") =>
             \A dc \in Deleted(topology, job.new) : container[dc.id] = "cleaned"
  BY <1>0 DEF Progress
<1>a. ASSUME Reshaping, todo' # << >>, ~ Has(todo', "START_SERVICE"), Step.type # "START_SERVICE"
      PROVE  \A dc \in Added(topology, job.new) : container[dc.id] = "running"
  <2>1. ~ Has(Tail(todo), "START_SERVICE")
    BY <1>1, <1>a
  <2>2. ~ Has(todo, "START_SERVICE")
    BY <1>1, <1>a, <2>1
  <2>. QED
    BY <1>5, <1>a, <2>2
<1>b. ASSUME Reshaping, todo' # << >>, ~ Has(todo', "CLEAN_SERVICE"), Step.type # "CLEAN_SERVICE"
      PROVE  \A dc \in Deleted(topology, job.new) : container[dc.id] = "cleaned"
  <2>1. ~ Has(Tail(todo), "CLEAN_SERVICE")
    BY <1>1, <1>b
  <2>2. ~ Has(todo, "CLEAN_SERVICE")
    BY <1>1, <1>b, <2>1
  <2>. QED
    BY <1>5, <1>b, <2>2
<1>6. CASE CreateContainer(done)
  <2>1. /\ Step.type = "CREATE_CONTAINER" /\ topology' = topology /\ pool' = pool
        /\ container' = [id \in ServiceId |->
                            IF id \in done /\ MustCreate(id) THEN "created" ELSE container[id]]
    BY <1>6 DEF CreateContainer, Doing, stored
  <2>2. container' \in [ServiceId -> ContainerState]
    BY <1>1, <2>1 DEF ContainerState
  <2>3. ASSUME Reshaping, Planned(todo, topology, job.new), todo' # << >>,
               ~ Has(todo', "START_SERVICE"), job.new \in Written
        PROVE  \A dc \in Added(topology, job.new) : container'[dc.id] = "running"
    BY <1>4, <1>a, <2>1, <2>3 DEF MustCreate, HasContainer
  <2>4. ASSUME Reshaping, Planned(todo, topology, job.new), todo' # << >>,
               ~ Has(todo', "CLEAN_SERVICE"), job.new \in Written
        PROVE  \A dc \in Deleted(topology, job.new) : container'[dc.id] = "cleaned"
    <3>1. done \subseteq Ids(Added(topology, job.new))
      BY <1>2, <1>3, <2>1, <2>4 DEF About
    <3>. QED
      BY <1>4, <1>b, <2>1, <2>4, <3>1
  <2>. QED
    BY <1>1, <2>1, <2>2, <2>3, <2>4, GoesPreserves
<1>7. CASE StartService(done)
  <2>1. /\ Step.type = "START_SERVICE" /\ topology' = topology /\ pool' = pool
        /\ container' = [id \in ServiceId |-> IF id \in done THEN "running" ELSE container[id]]
    BY <1>7 DEF StartService, Doing, stored
  <2>2. container' \in [ServiceId -> ContainerState]
    BY <1>1, <2>1 DEF ContainerState
  <2>3. ASSUME Reshaping, Planned(todo, topology, job.new), todo' # << >>,
               ~ Has(todo', "START_SERVICE"), job.new \in Written
        PROVE  \A dc \in Added(topology, job.new) : container'[dc.id] = "running"
    <3>1. Step.on = Ids(Added(topology, job.new))
      BY <1>3, <2>1, <2>3 DEF About
    <3>2. done = Step.on
      BY <1>7, <2>3 DEF StartService, Advance, Fail, Finish
    <3>. QED
      BY <1>4, <2>1, <2>3, <3>1, <3>2, IdsOf
  <2>4. ASSUME Reshaping, Planned(todo, topology, job.new), todo' # << >>,
               ~ Has(todo', "CLEAN_SERVICE"), job.new \in Written
        PROVE  \A dc \in Deleted(topology, job.new) : container'[dc.id] = "cleaned"
    <3>1. done \subseteq Ids(Added(topology, job.new))
      BY <1>2, <1>3, <2>1, <2>4 DEF About
    <3>. QED
      BY <1>4, <1>b, <2>1, <2>4, <3>1
  <2>. QED
    BY <1>1, <2>1, <2>2, <2>3, <2>4, GoesPreserves
<1>8. CASE StopService(done)
  <2>1. /\ Step.type = "STOP_SERVICE" /\ topology' = topology /\ pool' = pool
        /\ container' = [id \in ServiceId |-> IF id \in done /\ container[id] = "running"
                                              THEN "exited" ELSE container[id]]
    BY <1>8 DEF StopService, Doing, stored
  <2>2. container' \in [ServiceId -> ContainerState]
    BY <1>1, <2>1 DEF ContainerState
  <2>3. ASSUME Reshaping, Planned(todo, topology, job.new), todo' # << >>,
               ~ Has(todo', "START_SERVICE"), job.new \in Written
        PROVE  \A dc \in Added(topology, job.new) : container'[dc.id] = "running"
    <3>1. done \subseteq Ids(Deleted(topology, job.new))
      BY <1>2, <1>3, <2>1, <2>3 DEF About
    <3>. QED
      BY <1>4, <1>a, <2>1, <2>3, <3>1
  <2>4. ASSUME Reshaping, Planned(todo, topology, job.new), todo' # << >>,
               ~ Has(todo', "CLEAN_SERVICE"), job.new \in Written
        PROVE  \A dc \in Deleted(topology, job.new) : container'[dc.id] = "cleaned"
    BY <1>4, <1>b, <2>1, <2>4
  <2>. QED
    BY <1>1, <2>1, <2>2, <2>3, <2>4, GoesPreserves
<1>9. CASE CleanService(done)
  <2>1. /\ Step.type = "CLEAN_SERVICE" /\ topology' = topology /\ pool' = pool
        /\ container' = [id \in ServiceId |-> IF id \in done THEN "cleaned" ELSE container[id]]
    BY <1>9 DEF CleanService, Doing, stored
  <2>2. container' \in [ServiceId -> ContainerState]
    BY <1>1, <2>1 DEF ContainerState
  <2>3. ASSUME Reshaping, Planned(todo, topology, job.new), todo' # << >>,
               ~ Has(todo', "START_SERVICE"), job.new \in Written
        PROVE  \A dc \in Added(topology, job.new) : container'[dc.id] = "running"
    <3>1. done \subseteq Ids(Deleted(topology, job.new))
      BY <1>2, <1>3, <2>1, <2>3 DEF About
    <3>. QED
      BY <1>4, <1>a, <2>1, <2>3, <3>1
  <2>4. ASSUME Reshaping, Planned(todo, topology, job.new), todo' # << >>,
               ~ Has(todo', "CLEAN_SERVICE"), job.new \in Written
        PROVE  \A dc \in Deleted(topology, job.new) : container'[dc.id] = "cleaned"
    <3>1. Step.on = Ids(Deleted(topology, job.new))
      BY <1>3, <2>1, <2>4 DEF About
    <3>2. done = Step.on
      BY <1>9, <2>4 DEF CleanService, Advance, Fail, Finish
    <3>. QED
      BY <1>4, <2>1, <2>4, <3>1, <3>2, IdsOf
  <2>. QED
    BY <1>1, <2>1, <2>2, <2>3, <2>4, GoesPreserves
<1>10. CASE CreatePool(done)
  <2>1. Step.type \in {"CREATE_PHYSICAL_POOL", "CREATE_LOGICAL_POOL"} /\ container' = container
    BY <1>10 DEF CreatePool, Doing
  <2>2. \/ topology' = topology /\ pool' = pool
        \/ Step.type = "CREATE_LOGICAL_POOL" /\ topology' = NewTopology /\ pool' = NewPool
    BY <1>10 DEF CreatePool, StoresLogicalPool, stored
  <2>3. topology' \in Written /\ PoolTyped(pool)'
    BY <1>1, <2>2, PoolMade
  <2>4. todo' # << >> => topology' = topology
    <3>1. SUFFICES ASSUME todo' # << >>, Step.type = "CREATE_LOGICAL_POOL"
                   PROVE  NewTopology = topology
      BY <2>2
    <3>2. ASSUME job.name # "deploy"
          PROVE  FALSE
      <4>1. Reshaping /\ Planned(todo, topology, job.new)
        BY <1>0, <3>2 DEF Progress, Reshaping
      <4>2. Tail(todo) = << >>
        BY <1>3, <3>1, <4>1 DEF Storing
      <4>. QED
        BY <1>1, <3>1, <4>2
    <3>. QED
      BY <3>2 DEF NewTopology
  <2>5. ASSUME Reshaping, Planned(todo, topology, job.new), todo' # << >>,
               ~ Has(todo', "START_SERVICE"), job.new \in Written
        PROVE  \A dc \in Added(topology, job.new) : container'[dc.id] = "running"
    BY <1>a, <2>1, <2>5
  <2>6. ASSUME Reshaping, Planned(todo, topology, job.new), todo' # << >>,
               ~ Has(todo', "CLEAN_SERVICE"), job.new \in Written
        PROVE  \A dc \in Deleted(topology, job.new) : container'[dc.id] = "cleaned"
    BY <1>b, <2>1, <2>6
  <2>. QED
    BY <1>1, <2>1, <2>3, <2>4, <2>5, <2>6, GoesPreserves
<1>. QED
  BY <1>6, <1>7, <1>8, <1>9, <1>10 DEF Work

\* UPDATE_TOPOLOGY does: it is the last step.
LEMMA UpdatePreserves ==
  ASSUME ReshapeIInv, UpdateTopology
  PROVE  ReshapeIInv'
<1>0. TypeOK /\ Playing /\ Progress /\ PoolHeld
  BY DEF ReshapeIInv
<1>1. /\ ~ Idle /\ todo # << >> /\ Step.type = "UPDATE_TOPOLOGY"
      /\ pool' = pool /\ container' = container
      /\ topology' \in {topology, job.new} /\ \E done : Advance(done)
  BY DEF UpdateTopology, Doing, Advance
<1>2. /\ container \in [ServiceId -> ContainerState] /\ Goes /\ PoolTyped(pool)
      /\ topology \in Written /\ todo \in Seq(StepRecord)
      /\ todo' # << >> => todo' = Tail(todo)
      /\ \A type : Has(todo, type) <=> Step.type = type \/ Has(Tail(todo), type)
  <2>1. Goes
    BY <1>0, <1>1, AdvanceGoes
  <2>. QED
    BY <1>0, <1>1, <2>1, TypeFacts, StepFacts DEF Goes, PoolHeld
<1>3. job.name # "deploy"
  BY <1>0, <1>1, <1>2 DEF Playing
<1>4. Reshaping /\ Planned(todo, topology, job.new)
  BY <1>0, <1>1, <1>3 DEF Progress, Reshaping
<1>5. Tail(todo) = << >>
  <2>1. Head(todo).type \in Storing
    BY <1>1 DEF Step, Storing
  <2>. QED
    BY <1>1, <1>2, <1>4, <2>1, PlannedTail
<1>6. job.new \in Written
  BY <1>0, <1>1, <1>2, <1>3, <1>4, TypeFacts, ScaleOutPlanned, MigratePlanned DEF Progress,
     Playing
<1>7. todo' = << >>
  BY <1>2, <1>5
<1>8. PoolTyped(pool)' /\ topology' \in Written
  BY <1>1, <1>2, <1>6
<1>. QED
  BY <1>1, <1>2, <1>7, <1>8, GoesPreserves

\* The invariant holds at first.
LEMMA InitHolds ==
  Init => ReshapeIInv
<1>. SUFFICES ASSUME Init
              PROVE  ReshapeIInv
  OBVIOUS
<1>1. job.result = "ok" /\ todo = << >> /\ topology = None /\ pool = NoPool /\ faults = 0
      /\ job = [name |-> "none", new |-> None, result |-> "ok"]
      /\ container = [id \in ServiceId |-> "none"]
  BY DEF Init
<1>2. TypeOK
  <2>1. << >> \in Seq([type : StepType, on : SUBSET ServiceId]) /\ << >> \in Seq(Server)
    BY EmptySeq
  <2>. QED
    BY <1>1, <2>1, NumbersAssumption, EmptySeq DEF TypeOK, StepType, NoPool, ContainerState
<1>3. PoolHeld
  BY <1>1, NoPoolTyped DEF PoolHeld
<1>4. Playing /\ Progress
  BY <1>1 DEF Playing, Progress, Reshaping, Idle
<1>. QED
  BY <1>2, <1>3, <1>4 DEF ReshapeIInv

\* Every step keeps it.
LEMMA NextPreserves ==
  ReshapeIInv /\ [Next]_vars => ReshapeIInv'
<1>. SUFFICES ASSUME ReshapeIInv, [Next]_vars
              PROVE  ReshapeIInv'
  OBVIOUS
<1>1. ASSUME NEW new \in Written, Commit(new)
      PROVE  ReshapeIInv'
  BY <1>1, CommitPreserves
<1>2. CASE Deploy \/ (\E new \in Written : ScaleOut(new) \/ Migrate(new))
  BY <1>2, BeginPreserves
<1>3. ASSUME ~ Idle, todo # << >>, NEW done \in Outcomes, Work(done)
      PROVE  ReshapeIInv'
  BY <1>3, WorkPreserves
<1>4. CASE UpdateTopology
  BY <1>4, UpdatePreserves
<1>5. CASE StepRefused \/ Succeed
  BY <1>5, EndPreserves
<1>6. CASE UNCHANGED vars
  <2>1. TypeOK'
    BY <1>6 DEF ReshapeIInv, TypeOK, vars, stored
  <2>2. PoolHeld'
    BY <1>6 DEF ReshapeIInv, PoolHeld, vars, stored
  <2>3. Playing' /\ Progress'
    BY <1>6 DEF ReshapeIInv, Playing, Progress, Reshaping, Idle, vars, stored
  <2>. QED
    BY <2>1, <2>2, <2>3 DEF ReshapeIInv
<1>. QED
  BY <1>1, <1>2, <1>3, <1>4, <1>5, <1>6 DEF Next, PlaybookStep

\* In every run the invariant holds: the commands of scale-out, migrate, deploy and commit
\* keep it whatever fails between and within their steps.
THEOREM Invariance ==
  Spec => []ReshapeIInv
BY InitHolds, NextPreserves, PTL DEF Spec

\* Every run keeps the types: whatever getClusterPool, ScaleOutClusterPool and
\* MigrateClusterServer make of a stored pool is a pool with numbered logical pools.
THEOREM TypeCorrect ==
  Spec => []TypeOK
<1>1. ReshapeIInv => TypeOK
  BY DEF ReshapeIInv
<1>. QED
  BY <1>1, Invariance, PTL

-----------------------------------------------------------------------------
(* What follows from the invariant. *)

\* A playbook that stores a topology stores the one it was given, when its new services
\* run and its old ones are cleaned.
LEMMA StorageRun ==
  ASSUME ReshapeIInv, [Next]_vars, topology' # topology, ~ Idle
  PROVE  /\ topology' = job.new /\ container' = container
         /\ \A dc \in Added(topology, job.new) : container[dc.id] = "running"
         /\ \A dc \in Deleted(topology, job.new) : container[dc.id] = "cleaned"
<1>0. TypeOK /\ Playing /\ Progress
  BY DEF ReshapeIInv
<1>1. todo # << >> /\ Step.type \in Storing /\ topology' = NewTopology /\ container' = container
  <2>1. CASE UpdateTopology
    <3>1. job.name # "deploy"
      BY <1>0, <2>1, StepFacts DEF UpdateTopology, Doing, Playing
    <3>. QED
      BY <2>1, <3>1 DEF UpdateTopology, Doing, Storing, NewTopology
  <2>2. ASSUME ~ Idle, todo # << >>, NEW done \in Outcomes, Work(done)
        PROVE  CreatePool(done) /\ Step.type = "CREATE_LOGICAL_POOL" /\ topology' = NewTopology
               /\ container' = container
    BY <2>2 DEF Work, CreateContainer, StartService, StopService, CleanService, CreatePool,
                StoresLogicalPool, stored
  <2>3. UpdateTopology \/ \E done \in Outcomes : todo # << >> /\ Work(done)
    BY DEF Next, PlaybookStep, Commit, ScaleOut, Migrate, Deploy, StepRefused, Succeed,
       stored, vars
  <2>. QED
    BY <2>1, <2>2, <2>3 DEF Storing
<1>2. job.name # "deploy"
  BY <1>1 DEF NewTopology
<1>3. topology' = job.new /\ Reshaping /\ todo \in Seq(StepRecord)
  BY <1>0, <1>1, <1>2, TypeFacts DEF NewTopology, Reshaping
<1>4. Planned(todo, topology, job.new)
  BY <1>0, <1>3 DEF Progress
<1>5. Tail(todo) = << >>
  BY <1>1, <1>3, <1>4, PlannedTail DEF Step
<1>6. ~ Has(Tail(todo), "START_SERVICE") /\ ~ Has(Tail(todo), "CLEAN_SERVICE")
  <2>1. \A type : ~ Has(<< >>, type)
    BY DEF Has
  <2>. QED
    BY <1>5, <2>1
<1>7. ~ Has(todo, "START_SERVICE") /\ ~ Has(todo, "CLEAN_SERVICE")
  BY <1>0, <1>1, <1>6, StepFacts DEF Storing
<1>. QED
  BY <1>0, <1>1, <1>3, <1>7 DEF Progress

\* A scale-out or a migration stores its topology (step2SetClusterPool, the update of
\* UPDATE_TOPOLOGY) only when its new services run and its old ones are cleaned.
THEOREM StoredWhenStarted ==
  Spec => StoredOnlyStarted
<1>1. ReshapeIInv /\ [Next]_vars =>
        [topology' # topology /\ ~ Idle =>
           /\ \A dc \in Added(topology, topology') : container[dc.id] = "running"
           /\ \A dc \in Deleted(topology, topology') : container[dc.id] = "cleaned"]_vars
  BY StorageRun
<1>. QED
  BY <1>1, Invariance, PTL DEF Spec, StoredOnlyStarted

-----------------------------------------------------------------------------
(* What a pool keeps of its servers. *)

\* The servers of a pool keep their zones and pools in another, at their positions.
Keeps(servers, kept) ==
  \A i \in DOMAIN servers :
    /\ i \in DOMAIN kept
    /\ kept[i].zone = servers[i].zone
    /\ kept[i].pool = servers[i].pool

\* mergeClusterPool keeps zones and pools of the stored servers.
LEMMA GetKeeps ==
  ASSUME NEW kind, NEW default, NEW p, PoolTyped(p)
  PROVE  Keeps(p.servers, GetClusterPool(kind, default, p).servers)
<1>. DEFINE Merged == [i \in DOMAIN p.servers |->
                         IF i \in DOMAIN default.servers
                         THEN [p.servers[i] EXCEPT !.ip = default.servers[i].ip,
                                                   !.port = default.servers[i].port]
                         ELSE p.servers[i]]
<1>1. CASE p = NoPool
  BY <1>1 DEF NoPool, Keeps
<1>2. CASE p # NoPool
  <2>1. GetClusterPool(kind, default, p).servers = Merged
    BY <1>2 DEF GetClusterPool, PoolTyped, Pool
  <2>2. \A i \in DOMAIN p.servers : p.servers[i] \in Server
    BY DEF PoolTyped, Pool
  <2>3. Keeps(p.servers, Merged)
    BY <2>2 DEF Keeps, Server
  <2>. QED
    BY <2>1, <2>3
<1>. QED
  BY <1>1, <1>2

\* A scale-out adds servers behind.
LEMMA ScaleOutKeeps ==
  ASSUME NEW n \in Written, NEW dcs \in Seq(Services[n]), NEW p, PoolTyped(p)
  PROVE  Keeps(p.servers, ScaleOutClusterPool(p, dcs).servers)
<1>1. p.npools + 1 \in Nat \ {0} /\ p.servers \in Seq(Server)
  BY DEF PoolTyped, Pool
<1>2. Servers(dcs, p.npools + 1) \in Seq(Server)
  BY <1>1, ServersTyped
<1>3. ScaleOutClusterPool(p, dcs).servers = p.servers \o Servers(dcs, p.npools + 1)
  BY DEF ScaleOutClusterPool, GenerateClusterPool
<1>4. ASSUME NEW i \in DOMAIN p.servers
      PROVE  /\ i \in DOMAIN (p.servers \o Servers(dcs, p.npools + 1))
             /\ (p.servers \o Servers(dcs, p.npools + 1))[i] = p.servers[i]
  <2>. DEFINE a == p.servers
              b == Servers(dcs, p.npools + 1)
  <2>1. a \in Seq(Server) /\ b \in Seq(Server) /\ i \in DOMAIN a
    BY <1>1, <1>2
  <2>. HIDE DEF a, b
  <2>2. /\ i \in 1 .. Len(a) /\ Len(a) \in Nat /\ Len(b) \in Nat
        /\ a \o b \in Seq(Server) /\ Len(a \o b) = Len(a) + Len(b)
    BY <2>1, ConcatProperties, LenProperties
  <2>3. i \in DOMAIN (a \o b) /\ (a \o b)[i] = a[i]
    BY <2>1, <2>2, ConcatProperties, LenProperties
  <2>. QED
    BY <2>3 DEF a, b
<1>. QED
  BY <1>3, <1>4 DEF Keeps

\* A migration changes what else is said of a server.
LEMMA MigrateKeeps ==
  ASSUME NEW to, NEW from, NEW p, PoolTyped(p)
  PROVE  Keeps(p.servers, MigrateClusterServer(p, to, from).servers)
<1>. DEFINE At(server) == {i \in DOMAIN from : ServerName(from[i]) = server.name}
            After(server) ==
              IF At(server) = {} THEN server
              ELSE Moved(server, to[CHOOSE i \in At(server) : TRUE])
<1>1. \A server \in Server : \A dc :
        Moved(server, dc).zone = server.zone /\ Moved(server, dc).pool = server.pool
  BY DEF Moved, Server
<1>2. \A server \in Server :
        After(server).zone = server.zone /\ After(server).pool = server.pool
  BY <1>1
<1>3. MigrateClusterServer(p, to, from).servers =
        [k \in DOMAIN p.servers |-> After(p.servers[k])]
  BY DEF MigrateClusterServer, PoolTyped, Pool
<1>. HIDE DEF After
<1>4. \A i \in DOMAIN p.servers : p.servers[i] \in Server
  BY DEF PoolTyped, Pool
<1>. QED
  BY <1>2, <1>3, <1>4 DEF Keeps

\* The pool that a step stores keeps the zones and pools of the stored servers.
LEMMA NewPoolKeeps ==
  ASSUME ReshapeIInv, ~ Idle, todo # << >>
  PROVE  Keeps(pool.servers, NewPool.servers)
<1>. DEFINE old == GetClusterPool(Kind[topology], Default[topology], pool)
<1>1. PoolTyped(old) /\ Keeps(pool.servers, old.servers)
  BY Given, DefaultTyped, GetTyped, GetKeeps
<1>. HIDE DEF old
<1>2. CASE job.name = "scale-out"
  <2>1. Keeps(old.servers, ScaleOutClusterPool(old, AddedInOrder[topology][job.new]).servers)
    BY <1>1, <1>2, Given, ScaleOutKeeps
  <2>. QED
    BY <1>1, <1>2, <2>1 DEF NewPool, Keeps, old
<1>3. CASE job.name = "migrate"
  <2>1. Keeps(old.servers, MigrateClusterServer(old, AddedInOrder[topology][job.new],
                                                DeletedInOrder[topology][job.new]).servers)
    BY <1>1, MigrateKeeps
  <2>. QED
    BY <1>1, <1>3, <2>1 DEF NewPool, Keeps, old
<1>. QED
  BY <1>1, <1>2, <1>3 DEF NewPool, old

\* Only the step that creates the logical pool changes the stored pool.
LEMMA PoolChanges ==
  ASSUME [Next]_vars
  PROVE  \/ UNCHANGED pool
         \/ ~ Idle /\ todo # << >> /\ Step.type = "CREATE_LOGICAL_POOL"
            /\ pool' = NewPool /\ topology' = NewTopology
<1>1. ASSUME NEW done \in Outcomes, Work(done), todo # << >>, ~ Idle
      PROVE  \/ UNCHANGED pool
             \/ Step.type = "CREATE_LOGICAL_POOL" /\ pool' = NewPool /\ topology' = NewTopology
  BY <1>1 DEF Work, CreateContainer, StartService, StopService, CleanService, CreatePool,
              StoresLogicalPool, stored
<1>. QED
  BY <1>1 DEF Next, PlaybookStep, Commit, ScaleOut, Migrate, Deploy, Begin, UpdateTopology,
              StepRefused, Succeed, stored, vars

\* A stored server keeps its zone and its pool in every step: no merge, scale-out or
\* migration moves the data of one to another zone.
THEOREM PlacementKept ==
  Spec => PlacementStable
<1>1. ReshapeIInv /\ [Next]_vars =>
        [\A i \in DOMAIN pool.servers :
           /\ i \in DOMAIN pool'.servers
           /\ pool'.servers[i].zone = pool.servers[i].zone
           /\ pool'.servers[i].pool = pool.servers[i].pool]_vars
  <2>1. SUFFICES ASSUME ReshapeIInv, [Next]_vars
                 PROVE  Keeps(pool.servers, pool'.servers)
    BY DEF Keeps
  <2>2. CASE UNCHANGED pool
    BY <2>2 DEF Keeps
  <2>3. CASE ~ Idle /\ todo # << >> /\ pool' = NewPool
    BY <2>1, <2>3, NewPoolKeeps
  <2>. QED
    BY <2>1, <2>2, <2>3, PoolChanges
<1>. QED
  BY <1>1, Invariance, PTL DEF Spec, PlacementStable

-----------------------------------------------------------------------------
(* The names of the servers, in the order of the storage services. *)

\* The places of the storage services in two topologies are as the merge needs them: a
\* service that stays keeps its place, a scale-out adds hosts behind, and a migration puts
\* the i-th new service where the i-th old one was.
InPlace(old, new) ==
  /\ \A dc1 \in Storage(old), dc2 \in Services[new] :
       dc1.id = dc2.id => dc1.hostSequence = dc2.hostSequence
  /\ new \in DOMAIN ScaleOuts[old] =>
       \A dc \in Storage(old), add \in Added(old, new) :
         dc.role = add.role => dc.hostSequence < add.hostSequence
  /\ new \in DOMAIN Migrates[old] =>
       \A i \in DOMAIN DeletedInOrder[old][new] :
         LET from == DeletedInOrder[old][new][i]
             to   == AddedInOrder[old][new][i]
         IN from.role = StorageRole(Kind[old]) =>
              from.hostSequence = to.hostSequence /\ from.replicasSequence = to.replicasSequence

\* The service of topology n that has the id of dc.
Twin(n, dc) == CHOOSE twin \in Services[n] : twin.id = dc.id

\* What they are, and how StorageInOrder lists them.
LEMMA StorageIs ==
  ASSUME NEW n \in Written
  PROVE  /\ Storage(n) \in SUBSET Services[n] /\ Storage(n) # {}
         /\ \A dc \in Services[n] : dc \in Storage(n) <=> dc.role = StorageRole(Kind[n])
         /\ Sortable(Storage(n))
         /\ StorageInOrder[n] = SortDeployConfigs(Storage(n))
         /\ StorageInOrder[n] \in [1 .. Cardinality(Storage(n)) -> Storage(n)]
         /\ Cardinality(Storage(n)) \in Nat
         /\ \A dc \in Storage(n) : \E i \in 1 .. Cardinality(Storage(n)) : StorageInOrder[n][i] = dc
         /\ \A i, j \in 1 .. Cardinality(Storage(n)) :
              i < j => Before(StorageInOrder[n][i], StorageInOrder[n][j])
<1>1. FilterDeployConfigByRole(ParseTopology(Topologies[n]), StorageRole(Topologies[n].kind)) # {}
  BY TopologiesAssumption DEF Written
<1>2. Storage(n) # {}
  BY <1>1, TopologyFacts DEF Storage
<1>3. /\ Storage(n) \in SUBSET Services[n]
      /\ \A dc \in Services[n] : dc \in Storage(n) <=> dc.role = StorageRole(Kind[n])
  BY DEF Storage, FilterDeployConfigByRole
<1>4. Sortable(Storage(n)) /\ StorageInOrder[n] = SortDeployConfigs(Storage(n))
  BY StorageSorted DEF Storage
<1>. QED
  BY <1>2, <1>3, <1>4, Sorted

\* The storage role tells the kind of a topology.
LEMMA KindByRole ==
  ASSUME NEW n \in Written, NEW m \in Written, NEW dc \in Services[n],
         dc.role = StorageRole(Kind[m])
  PROVE  Kind[n] = Kind[m]
<1>1. /\ dc.role \in Roles(Kind[n])
      /\ Kind[n] \in {"curvebs", "curvefs"} /\ Kind[m] \in {"curvebs", "curvefs"}
  BY ServiceTyped, TopologyFacts
<1>. QED
  BY <1>1 DEF Roles, CURVEBS_ROLES, CURVEFS_ROLES, StorageRole

\* A service with the same id has the same role, replicas sequence and server name.
LEMMA TwinIs ==
  ASSUME NEW n \in Written, NEW m \in Written, NEW dc \in Services[n], dc.id \in Ids(Services[m])
  PROVE  /\ Twin(m, dc) \in Services[m] /\ Twin(m, dc).id = dc.id
         /\ Twin(m, dc).role = dc.role /\ Twin(m, dc).replicasSequence = dc.replicasSequence
         /\ ServerName(Twin(m, dc)) = ServerName(dc)
<1>1. \E twin \in Services[m] : twin.id = dc.id
  BY DEF Ids
<1>2. Twin(m, dc) \in Services[m] /\ Twin(m, dc).id = dc.id
  BY <1>1 DEF Twin
<1>3. /\ dc.id = <<dc.role, dc.host, dc.name, dc.replicasSequence>>
      /\ Twin(m, dc).id = <<Twin(m, dc).role, Twin(m, dc).host, Twin(m, dc).name,
                            Twin(m, dc).replicasSequence>>
  BY <1>2, ServiceTyped
<1>. QED
  BY <1>2, <1>3 DEF ServerName

\* Storage services of a topology have different server names.
LEMMA NameIsId ==
  ASSUME NEW n \in Written, NEW dc1 \in Storage(n), NEW dc2 \in Storage(n),
         ServerName(dc1) = ServerName(dc2)
  PROVE  dc1 = dc2
<1>1. dc1 \in Services[n] /\ dc2 \in Services[n] /\ dc1.role = dc2.role
  BY StorageIs
<1>2. /\ dc1.id = <<dc1.role, dc1.host, dc1.name, dc1.replicasSequence>>
      /\ dc2.id = <<dc2.role, dc2.host, dc2.name, dc2.replicasSequence>>
  BY <1>1, ServiceTyped
<1>3. dc1.id = dc2.id
  BY <1>1, <1>2 DEF ServerName
<1>. QED
  BY <1>1, <1>3, SameId

\* A scale-out and a migration keep the kind of the cluster.
LEMMA SameKind ==
  ASSUME NEW old \in Written, NEW new \in Written,
         Deleted(old, new) = {} \/ IsSameRole(Added(old, new) \cup Deleted(old, new))
  PROVE  Kind[old] = Kind[new]
<1>1. PICK dc \in Storage(old) : TRUE
  BY StorageIs
<1>2. dc \in Services[old] /\ dc.role = StorageRole(Kind[old])
  BY StorageIs
<1>3. CASE dc.id \in Ids(Services[new])
  BY <1>2, <1>3, TwinIs, KindByRole
<1>4. CASE dc.id \notin Ids(Services[new])
  <2>1. dc \in Deleted(old, new)
    BY <1>2, <1>4 DEF Deleted, DiffDelete
  <2>2. PICK dc2 \in Storage(new) : TRUE
    BY StorageIs
  <2>3. dc2 \in Services[new] /\ dc2.role = StorageRole(Kind[new])
    BY StorageIs
  <2>4. CASE dc2.id \in Ids(Services[old])
    BY <2>3, <2>4, TwinIs, KindByRole
  <2>5. CASE dc2.id \notin Ids(Services[old])
    <3>1. dc2 \in Added(old, new)
      BY <2>3, <2>5 DEF Added, DiffAdd
    <3>2. dc2.role = dc.role
      BY <2>1, <3>1 DEF IsSameRole
    <3>. QED
      BY <1>2, <2>3, <3>2, KindByRole
  <2>. QED
    BY <2>4, <2>5
<1>. QED
  BY <1>3, <1>4

\* The default pool has one server for each storage service, in order, with its name.
LEMMA DefaultNames ==
  ASSUME NEW n \in Written
  PROVE  /\ DOMAIN Default[n].servers = 1 .. Cardinality(Storage(n))
         /\ \A i \in 1 .. Cardinality(Storage(n)) :
              /\ Default[n].servers[i].name = ServerName(StorageInOrder[n][i])
              /\ Default[n].servers[i].ip = StorageInOrder[n][i].host
<1>1. Default[n].servers = Servers(StorageInOrder[n], 1)
  BY DefaultTyped
<1>2. Len(StorageInOrder[n]) = Cardinality(Storage(n))
  BY StorageSorted DEF Storage
<1>. QED
  BY <1>1, <1>2 DEF Servers

\* A sequence of n has all services of a set, in the order of Before.
Lists(seq, n, dcs) ==
  /\ seq \in [1 .. n -> dcs]
  /\ \A dc \in dcs : \E i \in 1 .. n : seq[i] = dc
  /\ \A i, j \in 1 .. n : i < j => Before(seq[i], seq[j])

\* The services of the storage role of topology `new` in order, given by the names.
LEMMA NewOrder ==
  ASSUME NEW new \in Written, NEW n \in Nat, NEW seq, Lists(seq, n, Storage(new))
  PROVE  /\ n = Cardinality(Storage(new)) /\ StorageInOrder[new] = seq
         /\ DOMAIN Default[new].servers = 1 .. n
         /\ \A i \in 1 .. n : Default[new].servers[i].name = ServerName(seq[i])
<1>1. Sortable(Storage(new))
  BY StorageIs
<1>2. seq = SortDeployConfigs(Storage(new)) /\ n = Cardinality(Storage(new))
  BY <1>1, SortUnique DEF Lists
<1>3. seq = StorageInOrder[new]
  BY <1>2, StorageIs
<1>. QED
  BY <1>2, <1>3, DefaultNames

\* A step between topologies that does not misplace services leaves them in place.
LEMMA Placed ==
  ASSUME NEW old \in Written, NEW new \in DOMAIN Services, ~ Misplaces(old, new)
  PROVE  InPlace(old, new)
<1>1. ~ Reordered(old, new) /\ ~ AddedAmong(old, new) /\ ~ MigratedAside(old, new)
  BY TopologyFacts DEF Misplaces
<1>2. ASSUME new \in DOMAIN ScaleOuts[old], NEW dc \in Storage(old), NEW add \in Added(old, new),
             dc.role = add.role
      PROVE  dc.hostSequence < add.hostSequence
  <2>1. ~ (dc.hostSequence >= add.hostSequence)
    BY <1>1, <1>2 DEF AddedAmong
  <2>2. new \in Written
    BY <1>2, ScaleOutPlanned
  <2>3. dc.hostSequence \in Nat /\ add.hostSequence \in Nat
    BY <2>2, StorageIs, DifferenceTyped, ServiceTyped
  <2>. QED
    BY <2>1, <2>3
<1>3. \A dc1 \in Storage(old), dc2 \in Services[new] :
        dc1.id = dc2.id => dc1.hostSequence = dc2.hostSequence
  BY <1>1 DEF Reordered
<1>4. new \in DOMAIN Migrates[old] =>
        \A i \in DOMAIN DeletedInOrder[old][new] :
          LET from == DeletedInOrder[old][new][i]
              to   == AddedInOrder[old][new][i]
          IN from.role = StorageRole(Kind[old]) =>
               from.hostSequence = to.hostSequence /\ from.replicasSequence = to.replicasSequence
  BY <1>1 DEF MigratedAside
<1>. QED
  BY <1>2, <1>3, <1>4 DEF InPlace

\* Where places are kept, a service that stays is at its place.
LEMMA TwinPlace ==
  ASSUME NEW old \in Written, NEW new \in Written, InPlace(old, new), Kind[old] = Kind[new],
         NEW dc \in Storage(old), dc.id \in Ids(Services[new])
  PROVE  /\ Twin(new, dc) \in Storage(new)
         /\ Twin(new, dc).hostSequence = dc.hostSequence
         /\ Twin(new, dc).replicasSequence = dc.replicasSequence
         /\ ServerName(Twin(new, dc)) = ServerName(dc)
<1>1. dc \in Services[old] /\ dc.role = StorageRole(Kind[new])
  BY StorageIs
<1>2. /\ Twin(new, dc) \in Services[new] /\ Twin(new, dc).id = dc.id
      /\ Twin(new, dc).role = dc.role /\ Twin(new, dc).replicasSequence = dc.replicasSequence
      /\ ServerName(Twin(new, dc)) = ServerName(dc)
  BY <1>1, TwinIs
<1>3. Twin(new, dc) \in Storage(new)
  BY <1>1, <1>2, StorageIs
<1>4. dc.hostSequence = Twin(new, dc).hostSequence
  BY <1>2 DEF InPlace, Storage
<1>. QED
  BY <1>2, <1>3, <1>4

\* Two services are at one place.
SamePlaceAs(dc1, dc2) ==
  dc1.hostSequence = dc2.hostSequence /\ dc1.replicasSequence = dc2.replicasSequence

\* A change of other services leaves the servers of the default pool.
LEMMA NamesKept ==
  ASSUME NEW old \in Written, NEW new \in Written, InPlace(old, new), Kind[old] = Kind[new],
         \A dc \in Added(old, new) \cup Deleted(old, new) : dc.role # StorageRole(Kind[old])
  PROVE  /\ Names(Default[new].servers) = Names(Default[old].servers)
         /\ Cardinality(Storage(new)) = Cardinality(Storage(old))
         /\ \A k \in 1 .. Cardinality(Storage(old)) :
              SamePlaceAs(StorageInOrder[new][k], StorageInOrder[old][k])
<1>. DEFINE n == Cardinality(Storage(old))
            sorted == StorageInOrder[old]
            seq == [i \in 1 .. n |-> Twin(new, sorted[i])]
<1>0. /\ n \in Nat /\ sorted \in [1 .. n -> Storage(old)]
      /\ \A i, j \in 1 .. n : i < j => Before(sorted[i], sorted[j])
      /\ \A dc \in Storage(old) : \E i \in 1 .. n : sorted[i] = dc
  BY StorageIs
<1>1. \A dc \in Storage(old) : dc.id \in Ids(Services[new])
  BY StorageIs DEF Deleted, DiffDelete
<1>2. \A i \in 1 .. n : /\ Twin(new, sorted[i]) \in Storage(new)
                        /\ Twin(new, sorted[i]).hostSequence = sorted[i].hostSequence
                        /\ Twin(new, sorted[i]).replicasSequence = sorted[i].replicasSequence
                        /\ ServerName(Twin(new, sorted[i])) = ServerName(sorted[i])
  BY <1>0, <1>1, TwinPlace
<1>. HIDE DEF n, sorted
<1>3. seq \in [1 .. n -> Storage(new)]
  BY <1>2
<1>4. \A i, j \in 1 .. n : i < j => Before(seq[i], seq[j])
  BY <1>0, <1>2 DEF Before
<1>5. ASSUME NEW dc \in Storage(new)
      PROVE  \E i \in 1 .. n : seq[i] = dc
  <2>1. dc \in Services[new] /\ dc.role = StorageRole(Kind[old])
    BY StorageIs
  <2>2. dc.id \in Ids(Services[old])
    BY <2>1 DEF Added, DiffAdd
  <2>3. PICK was \in Storage(old) : was.id = dc.id
    BY <2>1, <2>2, TwinIs, StorageIs
  <2>4. PICK i \in 1 .. n : sorted[i] = was
    BY <1>0
  <2>5. Twin(new, was) \in Services[new] /\ Twin(new, was).id = dc.id
    BY <1>1, <2>3, TwinIs, StorageIs
  <2>6. seq[i] = dc
    BY <2>1, <2>4, <2>5, SameId
  <2>. QED
    BY <2>6
<1>6. DOMAIN Default[new].servers = 1 .. n
      /\ StorageInOrder[new] = seq /\ Cardinality(Storage(new)) = n
      /\ \A i \in 1 .. n : Default[new].servers[i].name = ServerName(seq[i])
  <2>. HIDE DEF seq
  <2>1. n \in Nat
    BY <1>0
  <2>a. Lists(seq, n, Storage(new))
    BY <1>3, <1>4, <1>5 DEF Lists
  <2>2. /\ n = Cardinality(Storage(new)) /\ StorageInOrder[new] = seq
        /\ DOMAIN Default[new].servers = 1 .. n
        /\ \A i \in 1 .. n : Default[new].servers[i].name = ServerName(seq[i])
    BY <2>1, <2>a, NewOrder
  <2>. QED
    BY ONLY <2>2
<1>7. DOMAIN Default[old].servers = 1 .. n
      /\ \A i \in 1 .. n : Default[old].servers[i].name = ServerName(sorted[i])
  BY DefaultNames DEF n, sorted
<1>8. \A k \in 1 .. n : SamePlaceAs(seq[k], sorted[k])
  BY <1>2 DEF SamePlaceAs
<1>. QED
  BY <1>2, <1>6, <1>7, <1>8 DEF Names, n, sorted

\* A scale-out of the storage role adds its services behind the others.
LEMMA NamesScaledOut ==
  ASSUME NEW old \in Written, NEW new \in DOMAIN ScaleOuts[old], InPlace(old, new),
         \A dc \in Added(old, new) : dc.role = StorageRole(Kind[old])
  PROVE  LET sorted == SortDeployConfigs(Added(old, new))
             n == Cardinality(Storage(old))
         IN /\ n \in Nat /\ Len(sorted) \in Nat
            /\ DOMAIN Default[old].servers = 1 .. n
            /\ DOMAIN Default[new].servers = 1 .. n + Len(sorted)
            /\ \A i \in 1 .. n : Default[new].servers[i].name = Default[old].servers[i].name
            /\ \A i \in 1 .. Len(sorted) : Default[new].servers[n + i].name = ServerName(sorted[i])
            /\ Cardinality(Storage(new)) = n + Len(sorted)
            /\ \A k \in 1 .. n : SamePlaceAs(StorageInOrder[new][k], StorageInOrder[old][k])
            /\ \A i \in 1 .. Len(sorted) : StorageInOrder[new][n + i] = sorted[i]
<1>. DEFINE n == Cardinality(Storage(old))
            sorted == StorageInOrder[old]
            m == Cardinality(Added(old, new))
            added == SortDeployConfigs(Added(old, new))
            seq == [i \in 1 .. n + m |-> IF i <= n THEN Twin(new, sorted[i]) ELSE added[i - n]]
<1>0. /\ n \in Nat /\ sorted \in [1 .. n -> Storage(old)]
      /\ \A i, j \in 1 .. n : i < j => Before(sorted[i], sorted[j])
      /\ \A dc \in Storage(old) : \E i \in 1 .. n : sorted[i] = dc
  BY StorageIs
<1>a. /\ new \in Written /\ Deleted(old, new) = {} /\ Kind[old] = Kind[new]
      /\ Added(old, new) \in SUBSET Services[new] /\ IsSameRole(Added(old, new))
  BY ScaleOutPlanned, SameKind, DifferenceTyped DEF ScaleOutAllowed, Added
<1>b. /\ m \in Nat /\ added \in [1 .. m -> Added(old, new)] /\ Len(added) = m
      /\ \A dc \in Added(old, new) : \E i \in 1 .. m : added[i] = dc
      /\ \A i, j \in 1 .. m : i < j => Before(added[i], added[j])
  BY <1>a, RoleSortable, RoleSorted, Sorted
<1>c. \A dc \in Added(old, new) : dc \in Storage(new) /\ dc.id \notin Ids(Services[old])
  BY <1>a, StorageIs DEF Added, DiffAdd
<1>1. \A dc \in Storage(old) : dc.id \in Ids(Services[new])
  BY <1>a, StorageIs DEF Deleted, DiffDelete
<1>2. \A i \in 1 .. n : /\ Twin(new, sorted[i]) \in Storage(new)
                        /\ Twin(new, sorted[i]).hostSequence = sorted[i].hostSequence
                        /\ Twin(new, sorted[i]).replicasSequence = sorted[i].replicasSequence
                        /\ ServerName(Twin(new, sorted[i])) = ServerName(sorted[i])
  BY <1>0, <1>1, <1>a, TwinPlace
<1>d. \A dc \in Storage(old), add \in Added(old, new) : Before(dc, add)
  <2>1. \A dc \in Storage(old), add \in Added(old, new) : dc.role = add.role => Before(dc, add)
    BY DEF InPlace, Storage, Before
  <2>2. \A dc \in Storage(old) : dc.role = StorageRole(Kind[old])
    BY StorageIs
  <2>. QED
    BY <2>1, <2>2
<1>. HIDE DEF n, m, sorted, added
<1>3. \A i \in 1 .. n + m : i \in 1 .. n \/ (i > n /\ i - n \in 1 .. m)
  BY <1>0, <1>b
<1>4. seq \in [1 .. n + m -> Storage(new)]
  BY <1>2, <1>3, <1>b, <1>c, <1>0
<1>5. ASSUME NEW i \in 1 .. n + m, NEW j \in 1 .. n + m, i < j
      PROVE  Before(seq[i], seq[j])
  <2>1. CASE j \in 1 .. n
    <3>1. i \in 1 .. n /\ seq[i] = Twin(new, sorted[i]) /\ seq[j] = Twin(new, sorted[j])
          /\ Before(sorted[i], sorted[j])
      BY <1>0, <1>5, <2>1
    <3>. QED
      BY <1>2, <2>1, <3>1 DEF Before
  <2>2. CASE i \in 1 .. n /\ j > n
    <3>1. seq[i] = Twin(new, sorted[i]) /\ seq[j] = added[j - n] /\ j - n \in 1 .. m
      BY <1>0, <1>b, <1>3, <2>2
    <3>2. Before(sorted[i], added[j - n])
      BY <1>0, <1>b, <1>d, <2>2, <3>1
    <3>. QED
      BY <1>2, <2>2, <3>1, <3>2 DEF Before
  <2>3. CASE i > n
    <3>1. /\ seq[i] = added[i - n] /\ seq[j] = added[j - n]
          /\ i - n \in 1 .. m /\ j - n \in 1 .. m /\ i - n < j - n
      BY <1>0, <1>b, <1>3, <1>5, <2>3
    <3>. QED
      BY <1>b, <3>1
  <2>. QED
    BY <1>0, <1>3, <2>1, <2>2, <2>3
<1>6. ASSUME NEW dc \in Storage(new)
      PROVE  \E i \in 1 .. n + m : seq[i] = dc
  <2>1. dc \in Services[new] /\ dc.role = StorageRole(Kind[old])
    BY <1>a, StorageIs
  <2>2. CASE dc.id \in Ids(Services[old])
    <3>1. PICK was \in Storage(old) : was.id = dc.id
      BY <1>a, <2>1, <2>2, TwinIs, StorageIs
    <3>2. PICK i \in 1 .. n : sorted[i] = was
      BY <1>0
    <3>3. Twin(new, was) \in Services[new] /\ Twin(new, was).id = dc.id
      BY <1>1, <1>a, <3>1, TwinIs, StorageIs
    <3>4. i \in 1 .. n + m /\ seq[i] = Twin(new, was)
      BY <1>0, <1>b, <3>2
    <3>. QED
      BY <1>a, <2>1, <3>3, <3>4, SameId
  <2>3. CASE dc.id \notin Ids(Services[old])
    <3>1. dc \in Added(old, new)
      BY <2>1, <2>3 DEF Added, DiffAdd
    <3>2. PICK i \in 1 .. m : added[i] = dc
      BY <1>b, <3>1
    <3>3. n + i \in 1 .. n + m /\ seq[n + i] = added[i]
      BY <1>0, <1>b, <3>2
    <3>. QED
      BY <3>2, <3>3
  <2>. QED
    BY <2>2, <2>3
<1>7. /\ DOMAIN Default[new].servers = 1 .. n + m
      /\ StorageInOrder[new] = seq /\ Cardinality(Storage(new)) = n + m
      /\ \A i \in 1 .. n + m : Default[new].servers[i].name = ServerName(seq[i])
  <2>. DEFINE all == n + m
  <2>. HIDE DEF seq
  <2>1. all \in Nat /\ new \in Written
    BY <1>0, <1>a, <1>b
  <2>2. Lists(seq, all, Storage(new))
    BY <1>4, <1>5, <1>6 DEF Lists
  <2>. HIDE DEF all
  <2>3. /\ all = Cardinality(Storage(new)) /\ StorageInOrder[new] = seq
        /\ DOMAIN Default[new].servers = 1 .. all
        /\ \A i \in 1 .. all : Default[new].servers[i].name = ServerName(seq[i])
    BY <2>1, <2>2, NewOrder
  <2>. QED
    BY ONLY <2>3 DEF all
<1>8. /\ DOMAIN Default[old].servers = 1 .. n
      /\ \A i \in 1 .. n : Default[old].servers[i].name = ServerName(sorted[i])
  BY DefaultNames DEF n, sorted
<1>9. \A i \in 1 .. n : Default[new].servers[i].name = Default[old].servers[i].name
  <2>1. \A i \in 1 .. n : i \in 1 .. n + m /\ seq[i] = Twin(new, sorted[i])
    BY <1>0, <1>b
  <2>2. \A i \in 1 .. n + m : Default[new].servers[i].name = ServerName(seq[i])
    BY <1>7
  <2>. HIDE DEF seq
  <2>3. \A i \in 1 .. n : Default[new].servers[i].name = ServerName(Twin(new, sorted[i]))
    BY <2>1, <2>2
  <2>. QED
    BY <1>2, <1>8, <2>3
<1>10. \A i \in 1 .. m : Default[new].servers[n + i].name = ServerName(added[i])
  <2>1. \A i \in 1 .. m : n + i \in 1 .. n + m /\ seq[n + i] = added[i]
    BY <1>0, <1>b
  <2>. QED
    BY <1>7, <2>1
<1>11. \A k \in 1 .. n : SamePlaceAs(seq[k], sorted[k])
  <2>1. \A i \in 1 .. n : i \in 1 .. n + m /\ seq[i] = Twin(new, sorted[i])
    BY <1>0, <1>b
  <2>. QED
    BY <1>2, <2>1 DEF SamePlaceAs
<1>12. \A i \in 1 .. m : seq[n + i] = added[i]
  BY <1>0, <1>b
<1>. HIDE DEF seq
<1>. QED
  BY <1>0, <1>b, <1>7, <1>8, <1>9, <1>10, <1>11, <1>12 DEF n, added, sorted

\* A migration of the storage role puts each new service at the place of the old one whose
\* server it takes.
LEMMA NamesMigrated ==
  ASSUME NEW old \in Written, NEW new \in DOMAIN Migrates[old], InPlace(old, new),
         \A dc \in Added(old, new) : dc.role = StorageRole(Kind[old])
  PROVE  LET to == AddedInOrder[old][new]
             from == DeletedInOrder[old][new]
         IN /\ DOMAIN Default[new].servers = DOMAIN Default[old].servers
            /\ \A k \in DOMAIN Default[old].servers :
                 LET name == Default[old].servers[k].name
                 IN /\ \A i \in DOMAIN from :
                         ServerName(from[i]) = name =>
                           Default[new].servers[k].name = ServerName(to[i])
                    /\ (\A i \in DOMAIN from : ServerName(from[i]) # name) =>
                         Default[new].servers[k].name = name
            /\ Cardinality(Storage(new)) = Cardinality(Storage(old))
            /\ \A k \in 1 .. Cardinality(Storage(old)) :
                 SamePlaceAs(StorageInOrder[new][k], StorageInOrder[old][k])
<1>. DEFINE n == Cardinality(Storage(old))
            sorted == StorageInOrder[old]
            m == Cardinality(Added(old, new))
            to == AddedInOrder[old][new]
            from == DeletedInOrder[old][new]
            Moves(k) == {i \in 1 .. m : from[i] = sorted[k]}
            seq == [k \in 1 .. n |-> IF Moves(k) = {} THEN Twin(new, sorted[k])
                                    ELSE to[CHOOSE i \in Moves(k) : TRUE]]
<1>0. /\ n \in Nat /\ sorted \in [1 .. n -> Storage(old)]
      /\ \A i, j \in 1 .. n : i < j => Before(sorted[i], sorted[j])
      /\ \A dc \in Storage(old) : \E i \in 1 .. n : sorted[i] = dc
  BY StorageIs
<1>a. /\ new \in Written /\ MigrateAllowed(Services[old], Services[new])
      /\ Added(old, new) \in SUBSET Services[new] /\ Deleted(old, new) \in SUBSET Services[old]
  BY MigratePlanned, DifferenceTyped
<1>b. /\ m = Cardinality(Deleted(old, new)) /\ Added(old, new) # {}
      /\ IsSameRole(Added(old, new) \cup Deleted(old, new))
  BY <1>a DEF MigrateAllowed, Added, Deleted
<1>c. /\ IsSameRole(Added(old, new)) /\ IsSameRole(Deleted(old, new)) /\ Kind[old] = Kind[new]
      /\ \A dc \in Deleted(old, new) : dc.role = StorageRole(Kind[old])
  BY <1>a, <1>b, SameKind DEF IsSameRole
<1>d. /\ to = SortDeployConfigs(Added(old, new)) /\ from = SortDeployConfigs(Deleted(old, new))
  BY DEF AddedInOrder, DeletedInOrder
<1>e. /\ m \in Nat /\ to \in [1 .. m -> Added(old, new)]
      /\ \A dc \in Added(old, new) : \E i \in 1 .. m : to[i] = dc
  BY <1>a, <1>c, <1>d, RoleSortable, Sorted
<1>f. /\ from \in [1 .. m -> Deleted(old, new)]
      /\ \A dc \in Deleted(old, new) : \E i \in 1 .. m : from[i] = dc
      /\ \A i, j \in 1 .. m : from[i] = from[j] => i = j
  BY <1>a, <1>b, <1>c, <1>d, RoleSortable, Sorted
<1>g. \A dc \in Added(old, new) : dc \in Storage(new) /\ dc.id \notin Ids(Services[old])
  BY <1>a, <1>c, StorageIs DEF Added, DiffAdd
<1>h. \A dc \in Deleted(old, new) : dc \in Storage(old) /\ dc.id \notin Ids(Services[new])
  BY <1>a, <1>c, StorageIs DEF Deleted, DiffDelete
<1>1. \A i \in 1 .. m : /\ to[i].hostSequence = from[i].hostSequence
                        /\ to[i].replicasSequence = from[i].replicasSequence
  <2>1. \A i \in DOMAIN from :
          from[i].role = StorageRole(Kind[old]) =>
            /\ from[i].hostSequence = to[i].hostSequence
            /\ from[i].replicasSequence = to[i].replicasSequence
    BY DEF InPlace
  <2>. HIDE DEF from, to
  <2>. QED
    BY <1>c, <1>f, <2>1
<1>. HIDE DEF n, m, sorted, to, from
<1>2. ASSUME NEW k \in 1 .. n, Moves(k) # {}
      PROVE  \E i \in 1 .. m : from[i] = sorted[k] /\ seq[k] = to[i]
  BY <1>2
<1>3. ASSUME NEW k \in 1 .. n, Moves(k) = {}
      PROVE  /\ sorted[k].id \in Ids(Services[new]) /\ seq[k] = Twin(new, sorted[k])
             /\ seq[k] \in Storage(new)
             /\ seq[k].hostSequence = sorted[k].hostSequence
             /\ seq[k].replicasSequence = sorted[k].replicasSequence
             /\ ServerName(seq[k]) = ServerName(sorted[k])
  <2>1. sorted[k] \in Storage(old) /\ sorted[k] \notin Deleted(old, new)
    BY <1>0, <1>3, <1>f
  <2>2. sorted[k].id \in Ids(Services[new])
    BY <2>1, StorageIs DEF Deleted, DiffDelete
  <2>3. seq[k] = Twin(new, sorted[k])
    BY <1>3
  <2>. HIDE DEF seq
  <2>. QED
    BY <1>a, <1>c, <2>1, <2>2, <2>3, TwinPlace
<1>. HIDE DEF Moves
<1>4. \A k \in 1 .. n : /\ seq[k] \in Storage(new)
                        /\ seq[k].hostSequence = sorted[k].hostSequence
                        /\ seq[k].replicasSequence = sorted[k].replicasSequence
  <2>1. ASSUME NEW k \in 1 .. n, Moves(k) # {}
        PROVE  /\ seq[k] \in Storage(new)
               /\ seq[k].hostSequence = sorted[k].hostSequence
               /\ seq[k].replicasSequence = sorted[k].replicasSequence
    <3>1. PICK i \in 1 .. m : from[i] = sorted[k] /\ seq[k] = to[i]
      BY <1>2, <2>1
    <3>. HIDE DEF seq
    <3>. QED
      BY <1>1, <1>e, <1>g, <3>1
  <2>. HIDE DEF seq
  <2>. QED
    BY <1>3, <2>1
<1>5. DOMAIN seq = 1 .. n
  OBVIOUS
<1>6. seq \in [1 .. n -> Storage(new)]
  BY <1>4
<1>. HIDE DEF seq
<1>7. \A i, j \in 1 .. n : i < j => Before(seq[i], seq[j])
  BY <1>0, <1>4 DEF Before
<1>8. ASSUME NEW dc \in Storage(new)
      PROVE  \E k \in 1 .. n : seq[k] = dc
  <2>1. dc \in Services[new] /\ dc.role = StorageRole(Kind[old])
    BY <1>a, <1>c, StorageIs
  <2>2. CASE dc.id \in Ids(Services[old])
    <3>1. PICK was \in Storage(old) : was.id = dc.id
      BY <1>a, <2>1, <2>2, TwinIs, StorageIs
    <3>2. PICK k \in 1 .. n : sorted[k] = was
      BY <1>0
    <3>3. dc.id \in Ids(Services[new])
      BY <2>1 DEF Ids
    <3>4. Moves(k) = {}
      BY <1>f, <1>h, <3>1, <3>2, <3>3 DEF Moves
    <3>5. seq[k] = Twin(new, was)
      BY <1>3, <3>2, <3>4
    <3>6. Twin(new, was) \in Services[new] /\ Twin(new, was).id = dc.id
      BY <1>a, <3>1, <3>3, TwinIs, StorageIs
    <3>. QED
      BY <1>a, <2>1, <3>5, <3>6, SameId
  <2>3. CASE dc.id \notin Ids(Services[old])
    <3>1. dc \in Added(old, new)
      BY <2>1, <2>3 DEF Added, DiffAdd
    <3>2. PICK i \in 1 .. m : to[i] = dc
      BY <1>e, <3>1
    <3>3. from[i] \in Storage(old)
      BY <1>f, <1>h
    <3>4. PICK k \in 1 .. n : sorted[k] = from[i]
      BY <1>0, <3>3
    <3>5. PICK j \in 1 .. m : from[j] = sorted[k] /\ seq[k] = to[j]
      BY <1>2, <3>4 DEF Moves
    <3>6. i = j
      BY <1>f, <3>4, <3>5
    <3>. QED
      BY <3>2, <3>5, <3>6
  <2>. QED
    BY <2>2, <2>3
<1>9. /\ DOMAIN Default[new].servers = 1 .. n
      /\ StorageInOrder[new] = seq /\ Cardinality(Storage(new)) = n
      /\ \A i \in 1 .. n : Default[new].servers[i].name = ServerName(seq[i])
  <2>1. n \in Nat /\ new \in Written
    BY <1>0, <1>a
  <2>a. Lists(seq, n, Storage(new))
    BY <1>6, <1>7, <1>8 DEF Lists
  <2>2. /\ n = Cardinality(Storage(new)) /\ StorageInOrder[new] = seq
        /\ DOMAIN Default[new].servers = 1 .. n
        /\ \A i \in 1 .. n : Default[new].servers[i].name = ServerName(seq[i])
    BY <2>1, <2>a, NewOrder
  <2>. QED
    BY ONLY <2>2
<1>10. /\ DOMAIN Default[old].servers = 1 .. n
       /\ \A i \in 1 .. n : Default[old].servers[i].name = ServerName(sorted[i])
  BY DefaultNames DEF n, sorted
<1>11. ASSUME NEW k \in 1 .. n, NEW i \in 1 .. m,
              ServerName(from[i]) = Default[old].servers[k].name
       PROVE  Default[new].servers[k].name = ServerName(to[i])
  <2>1. from[i] = sorted[k]
    BY <1>0, <1>f, <1>h, <1>10, <1>11, NameIsId
  <2>2. PICK j \in 1 .. m : from[j] = sorted[k] /\ seq[k] = to[j]
    BY <1>2, <2>1 DEF Moves
  <2>. QED
    BY <1>9, <1>f, <2>1, <2>2
<1>12. ASSUME NEW k \in 1 .. n,
              \A i \in 1 .. m : ServerName(from[i]) # Default[old].servers[k].name
       PROVE  Default[new].servers[k].name = Default[old].servers[k].name
  <2>1. Moves(k) = {}
    BY <1>10, <1>12 DEF Moves
  <2>. QED
    BY <1>3, <1>9, <1>10, <2>1
<1>13. DOMAIN from = 1 .. m
  BY <1>f
<1>14. \A k \in 1 .. n : SamePlaceAs(StorageInOrder[new][k], StorageInOrder[old][k])
  BY <1>4, <1>9 DEF SamePlaceAs, sorted
<1>. QED
  BY <1>9, <1>10, <1>11, <1>12, <1>13, <1>14 DEF to, from, n

-----------------------------------------------------------------------------
(* The names and the addresses of a new pool. *)

\* Servers have the address of the host they are named after.
Addressed(servers) == \A i \in DOMAIN servers : servers[i].ip = servers[i].name[1]

\* Those of the default pool do.
LEMMA DefaultAddressed ==
  ASSUME NEW n \in Written
  PROVE  Addressed(Default[n].servers)
<1>1. \A dc : ServerName(dc)[1] = dc.host
  BY DEF ServerName
<1>2. ASSUME NEW i \in DOMAIN Default[n].servers
      PROVE  Default[n].servers[i].ip = Default[n].servers[i].name[1]
  <2>1. /\ Default[n].servers[i].name = ServerName(StorageInOrder[n][i])
        /\ Default[n].servers[i].ip = StorageInOrder[n][i].host
    BY DefaultNames
  <2>. QED
    BY <1>1, <2>1
<1>. QED
  BY <1>2 DEF Addressed

\* getClusterPool returns the servers of the stored topology with their addresses, when the
\* stored pool has those servers.
LEMMA GetFaithful ==
  ASSUME NEW n \in Written, PoolTyped(pool), Addressed(pool.servers),
         pool # NoPool => Names(pool.servers) = Names(Default[n].servers)
  PROVE  LET old == GetClusterPool(Kind[n], Default[n], pool)
         IN PoolTyped(old) /\ Names(old.servers) = Names(Default[n].servers) /\ Addressed(old.servers)
<1>. DEFINE default == Default[n]
            old == GetClusterPool(Kind[n], default, pool)
            Merged == [i \in DOMAIN pool.servers |->
                         IF i \in DOMAIN default.servers
                         THEN [pool.servers[i] EXCEPT !.ip = default.servers[i].ip,
                                                      !.port = default.servers[i].port]
                         ELSE pool.servers[i]]
<1>1. PoolTyped(default) /\ default.npools = 1 /\ Addressed(default.servers)
  BY DefaultTyped, DefaultAddressed
<1>2. PoolTyped(old)
  BY <1>1, GetTyped
<1>3. CASE pool = NoPool
  <2>1. old = default
    BY <1>3 DEF GetClusterPool
  <2>. HIDE DEF old, default
  <2>. QED
    BY <1>1, <2>1 DEF old, default
<1>4. CASE pool # NoPool
  <2>1. old.servers = Merged
    BY <1>4 DEF GetClusterPool, PoolTyped, Pool
  <2>2. \A i \in DOMAIN pool.servers : pool.servers[i] \in Server
    BY DEF PoolTyped, Pool
  <2>3. DOMAIN pool.servers = DOMAIN default.servers
        /\ \A i \in DOMAIN pool.servers : pool.servers[i].name = default.servers[i].name
    <3>1. Names(pool.servers) = Names(default.servers)
      BY <1>4
    <3>2. DOMAIN Names(pool.servers) = DOMAIN pool.servers
          /\ DOMAIN Names(default.servers) = DOMAIN default.servers
      BY DEF Names
    <3>3. \A i \in DOMAIN pool.servers : Names(pool.servers)[i] = pool.servers[i].name
      BY DEF Names
    <3>4. \A i \in DOMAIN default.servers : Names(default.servers)[i] = default.servers[i].name
      BY DEF Names
    <3>. HIDE DEF default
    <3>. QED
      BY <3>1, <3>2, <3>3, <3>4
  <2>. HIDE DEF default
  <2>4. \A i \in DOMAIN pool.servers :
          Merged[i].name = pool.servers[i].name /\ Merged[i].ip = default.servers[i].ip
    BY <2>2, <2>3 DEF Server
  <2>5. DOMAIN Merged = DOMAIN pool.servers
    OBVIOUS
  <2>. HIDE DEF Merged
  <2>6. Addressed(Merged)
    BY <1>1, <2>3, <2>4, <2>5 DEF Addressed
  <2>7. Names(Merged) = Names(default.servers)
    BY <2>3, <2>4, <2>5 DEF Names
  <2>. QED
    BY <1>2, <2>1, <2>6, <2>7 DEF default
<1>. QED
  BY <1>3, <1>4

\* A chunkserver or metaserver that is added is of the storage role.
LEMMA StorageAdded ==
  ASSUME NEW old \in Written, NEW new \in Written, Kind[old] = Kind[new],
         NEW dc \in Added(old, new), dc.role \in {"chunkserver", "metaserver"}
  PROVE  dc.role = StorageRole(Kind[old])
<1>1. dc.role \in Roles(Kind[old])
  BY ServiceTyped DEF Added, DiffAdd
<1>. QED
  BY <1>1, TopologyFacts DEF Roles, CURVEBS_ROLES, CURVEFS_ROLES, StorageRole

\* ScaleOutClusterPool gives the servers of the new topology.
LEMMA ScaleOutFaithful ==
  ASSUME NEW old \in Written, NEW new \in DOMAIN ScaleOuts[old], InPlace(old, new),
         \A dc \in Added(old, new) : dc.role = StorageRole(Kind[old]),
         NEW p, PoolTyped(p), Names(p.servers) = Names(Default[old].servers), Addressed(p.servers)
  PROVE  LET scaled == ScaleOutClusterPool(p, SortDeployConfigs(Added(old, new)))
         IN Names(scaled.servers) = Names(Default[new].servers) /\ Addressed(scaled.servers)
<1>. DEFINE dcs == SortDeployConfigs(Added(old, new))
            n == Cardinality(Storage(old))
            a == p.servers
            b == Servers(dcs, p.npools + 1)
            default == Default[new].servers
            was == Default[old].servers
<1>1. /\ n \in Nat /\ Len(dcs) \in Nat
      /\ DOMAIN was = 1 .. n /\ DOMAIN default = 1 .. n + Len(dcs)
      /\ \A i \in 1 .. n : default[i].name = was[i].name
      /\ \A i \in 1 .. Len(dcs) : default[n + i].name = ServerName(dcs[i])
  BY NamesScaledOut
<1>2. ScaleOutClusterPool(p, dcs).servers = a \o b
  BY DEF ScaleOutClusterPool, GenerateClusterPool
<1>3. new \in Written /\ dcs \in Seq(Services[new])
  BY ScaleOutPlanned, DifferenceTyped, RoleSorted, SeqMonotonic DEF IsSameRole
<1>4. a \in Seq(Server) /\ b \in Seq(Server) /\ Len(b) = Len(dcs)
  <2>1. p.npools + 1 \in Nat \ {0}
    BY DEF PoolTyped, Pool
  <2>2. b \in Seq(Server)
    BY <1>3, <2>1, ServersTyped
  <2>. QED
    BY <1>1, <2>2 DEF PoolTyped, Pool, Servers
<1>5. \A i \in 1 .. Len(dcs) : b[i].name = ServerName(dcs[i]) /\ b[i].ip = b[i].name[1]
  BY DEF Servers, ServerName
<1>6. DOMAIN a = 1 .. n /\ \A i \in 1 .. n : a[i].name = was[i].name
  <2>1. Names(a) = Names(was)
    OBVIOUS
  <2>2. DOMAIN Names(a) = DOMAIN a /\ DOMAIN Names(was) = DOMAIN was
    BY DEF Names
  <2>3. /\ \A i \in DOMAIN a : Names(a)[i] = a[i].name
        /\ \A i \in DOMAIN was : Names(was)[i] = was[i].name
    BY DEF Names
  <2>. HIDE DEF a, was
  <2>. QED
    BY <1>1, <2>1, <2>2, <2>3
<1>a. \A i \in DOMAIN a : a[i].ip = a[i].name[1]
  BY DEF Addressed
<1>. HIDE DEF dcs, a, b, default, was, n
<1>7. Len(a) = n
  BY <1>1, <1>4, <1>6, LenProperties
<1>8. /\ DOMAIN (a \o b) = 1 .. n + Len(dcs)
      /\ \A i \in 1 .. n + Len(dcs) : (a \o b)[i] = IF i <= n THEN a[i] ELSE b[i - n]
  <2>1. Len(b) = Len(dcs) /\ Len(a) = n
    BY <1>4, <1>7
  <2>a. a \in Seq(Server) /\ b \in Seq(Server)
    BY <1>4
  <2>2. /\ a \o b \in Seq(Server) /\ Len(a \o b) = Len(a) + Len(b)
        /\ \A i \in 1 .. Len(a) + Len(b) : (a \o b)[i] = IF i <= Len(a) THEN a[i] ELSE b[i - Len(a)]
    BY ONLY <2>a, ConcatProperties, Zenon
  <2>3. DOMAIN (a \o b) = 1 .. Len(a \o b)
    BY <2>2, LenProperties
  <2>. QED
    BY <2>1, <2>2, <2>3
<1>9. ASSUME NEW i \in 1 .. n + Len(dcs)
      PROVE  (a \o b)[i].name = default[i].name /\ (a \o b)[i].ip = (a \o b)[i].name[1]
  <2>1. CASE i <= n
    <3>1. i \in 1 .. n
      BY <1>1, <2>1
    <3>. QED
      BY <1>1, <1>6, <1>8, <1>a, <2>1, <3>1
  <2>2. CASE i > n
    <3>1. PICK j \in 1 .. Len(dcs) : j = i - n
      BY <1>1, <2>2
    <3>2. (a \o b)[i] = b[j] /\ i = n + j
      BY <1>1, <1>8, <2>2, <3>1
    <3>. QED
      BY <1>1, <1>5, <3>2
  <2>3. i \in Int /\ n \in Int
    BY <1>1
  <2>4. i <= n \/ i > n
    BY <2>3
  <2>. QED
    BY <2>1, <2>2, <2>4
<1>10. Names(a \o b) = Names(default) /\ Addressed(a \o b)
  BY <1>1, <1>8, <1>9 DEF Names, Addressed
<1>. QED
  BY <1>2, <1>10 DEF dcs, default

\* MigrateClusterServer does.
LEMMA MigrateFaithful ==
  ASSUME NEW old \in Written, NEW new \in DOMAIN Migrates[old], InPlace(old, new),
         \A dc \in Added(old, new) : dc.role = StorageRole(Kind[old]),
         NEW p, PoolTyped(p), Names(p.servers) = Names(Default[old].servers), Addressed(p.servers)
  PROVE  LET migrated == MigrateClusterServer(p, AddedInOrder[old][new], DeletedInOrder[old][new])
         IN Names(migrated.servers) = Names(Default[new].servers) /\ Addressed(migrated.servers)
<1>. DEFINE to == AddedInOrder[old][new]
            from == DeletedInOrder[old][new]
            Places(server) == {i \in DOMAIN from : ServerName(from[i]) = server.name}
            After(server) ==
              IF Places(server) = {} THEN server
              ELSE Moved(server, to[CHOOSE i \in Places(server) : TRUE])
            a == p.servers
            default == Default[new].servers
            was == Default[old].servers
<1>1. /\ DOMAIN default = DOMAIN was
      /\ \A k \in DOMAIN was : \A i \in DOMAIN from :
           ServerName(from[i]) = was[k].name => default[k].name = ServerName(to[i])
      /\ \A k \in DOMAIN was :
           (\A i \in DOMAIN from : ServerName(from[i]) # was[k].name) => default[k].name = was[k].name
  BY NamesMigrated
<1>2. MigrateClusterServer(p, to, from).servers = [k \in DOMAIN a |-> After(a[k])]
  BY DEF MigrateClusterServer, PoolTyped, Pool
<1>3. DOMAIN a = DOMAIN was /\ \A i \in DOMAIN was : a[i].name = was[i].name
  <2>1. Names(a) = Names(was)
    OBVIOUS
  <2>2. DOMAIN Names(a) = DOMAIN a /\ DOMAIN Names(was) = DOMAIN was
    BY DEF Names
  <2>3. /\ \A i \in DOMAIN a : Names(a)[i] = a[i].name
        /\ \A i \in DOMAIN was : Names(was)[i] = was[i].name
    BY DEF Names
  <2>. HIDE DEF a, was
  <2>. QED
    BY <2>1, <2>2, <2>3
<1>4. \A i \in DOMAIN a : a[i] \in Server /\ a[i].ip = a[i].name[1]
  BY DEF Addressed, PoolTyped, Pool
<1>5. \A server \in Server : \A dc :
        Moved(server, dc).name = ServerName(dc) /\ Moved(server, dc).ip = ServerName(dc)[1]
  BY DEF Moved, Server, ServerName
<1>. HIDE DEF to, from, a, default, was
<1>6. ASSUME NEW k \in DOMAIN a
      PROVE  After(a[k]).name = default[k].name /\ After(a[k]).ip = After(a[k]).name[1]
  <2>1. CASE Places(a[k]) = {}
    <3>1. \A i \in DOMAIN from : ServerName(from[i]) # was[k].name
      BY <1>3, <2>1
    <3>2. After(a[k]) = a[k]
      BY <2>1
    <3>. HIDE DEF After
    <3>. QED
      BY <1>1, <1>3, <1>4, <3>1, <3>2
  <2>2. CASE Places(a[k]) # {}
    <3>1. PICK i \in Places(a[k]) : After(a[k]) = Moved(a[k], to[i])
      BY <2>2
    <3>2. i \in DOMAIN from /\ ServerName(from[i]) = a[k].name
      OBVIOUS
    <3>. HIDE DEF After
    <3>. QED
      BY <1>1, <1>3, <1>4, <1>5, <3>1, <3>2
  <2>. QED
    BY <2>1, <2>2
<1>. HIDE DEF After
<1>7. LET moved == [k \in DOMAIN a |-> After(a[k])]
      IN Names(moved) = Names(default) /\ Addressed(moved)
  BY <1>1, <1>3, <1>6 DEF Names, Addressed
<1>. QED
  BY <1>2, <1>7 DEF to, from, default

\* The pool that a step stores has the servers of the topology that is stored with it.
LEMMA NewPoolFaithful ==
  ASSUME ReshapeIInv, ServersFaithful, ~ Idle, todo # << >>,
         Step.type = "CREATE_LOGICAL_POOL", InPlace(topology, NewTopology)
  PROVE  Names(NewPool.servers) = Names(Default[NewTopology].servers) /\ Addressed(NewPool.servers)
<1>. DEFINE old == GetClusterPool(Kind[topology], Default[topology], pool)
<1>1. /\ topology \in Written /\ PoolTyped(pool) /\ job.name \in {"deploy", "scale-out", "migrate"}
  BY Given
<1>2. /\ PoolTyped(old) /\ Addressed(old.servers)
      /\ Names(old.servers) = Names(Default[topology].servers)
  <2>1. Addressed(pool.servers)
    BY DEF ServersFaithful, AddressOfHost, Addressed
  <2>2. pool # NoPool => Names(pool.servers) = Names(Default[topology].servers)
    BY DEF ServersFaithful, SameServers
  <2>. QED
    BY <1>1, <2>1, <2>2, GetFaithful
<1>3. ASSUME job.name # "deploy"
      PROVE  \A dc \in Added(topology, job.new) : dc.role \in {"chunkserver", "metaserver"}
  <2>1. Planned(todo, topology, job.new) /\ todo \in Seq(StepRecord)
    BY <1>3, TypeFacts DEF ReshapeIInv, Progress, Reshaping
  <2>2. About(Step, topology, job.new)
    BY <2>1, PlannedTail DEF Step
  <2>. QED
    BY <2>2 DEF About
<1>. HIDE DEF old
<1>4. CASE job.name = "deploy"
  BY <1>2, <1>4 DEF NewPool, NewTopology, old
<1>5. CASE job.name = "scale-out"
  <2>1. /\ job.new \in DOMAIN ScaleOuts[topology] /\ job.new \in Written
        /\ AddedInOrder[topology][job.new] = SortDeployConfigs(Added(topology, job.new))
        /\ Deleted(topology, job.new) = {}
    BY <1>1, <1>5, Given, ScaleOutPlanned
  <2>2. \A dc \in Added(topology, job.new) : dc.role = StorageRole(Kind[topology])
    BY <1>1, <1>3, <1>5, <2>1, SameKind, StorageAdded
  <2>3. InPlace(topology, job.new)
    BY <1>5 DEF NewTopology
  <2>. QED
    BY <1>1, <1>2, <1>5, <2>1, <2>2, <2>3, ScaleOutFaithful DEF NewPool, NewTopology, old
<1>6. CASE job.name = "migrate"
  <2>1. /\ job.new \in DOMAIN Migrates[topology] /\ job.new \in Written
        /\ MigrateAllowed(Services[topology], Services[job.new])
    BY <1>6, Given
  <2>2. Kind[topology] = Kind[job.new]
    BY <1>1, <2>1, SameKind DEF MigrateAllowed, Added, Deleted
  <2>3. \A dc \in Added(topology, job.new) : dc.role = StorageRole(Kind[topology])
    BY <1>1, <1>3, <1>6, <2>1, <2>2, StorageAdded
  <2>4. InPlace(topology, job.new)
    BY <1>6 DEF NewTopology
  <2>. QED
    BY <1>1, <1>2, <1>6, <2>1, <2>3, <2>4, MigrateFaithful DEF NewPool, NewTopology, old
<1>. QED
  BY <1>1, <1>4, <1>5, <1>6

\* UPDATE_TOPOLOGY stores a topology with the same storage services.
LEMMA RunKind ==
  ASSUME ReshapeIInv, ~ Idle, todo # << >>, Step.type = "UPDATE_TOPOLOGY"
  PROVE  /\ topology \in Written /\ job.new \in Written /\ Kind[topology] = Kind[job.new]
         /\ \A dc \in Added(topology, job.new) \cup Deleted(topology, job.new) :
              dc.role # StorageRole(Kind[topology])
<1>0. TypeOK /\ Playing /\ Progress
  BY DEF ReshapeIInv
<1>1. job.name # "deploy"
  BY <1>0, StepFacts DEF Playing
<1>2. Planned(todo, topology, job.new) /\ todo \in Seq(StepRecord)
  BY <1>0, <1>1, TypeFacts DEF Progress, Reshaping
<1>3. About(Step, topology, job.new)
  BY <1>2, PlannedTail DEF Step
<1>4. \A dc \in Added(topology, job.new) : dc.role \notin {"chunkserver", "metaserver"}
  BY <1>3 DEF About
<1>5. StorageRole(Kind[topology]) \in {"chunkserver", "metaserver"}
  BY DEF StorageRole
<1>6. topology \in Written /\ job.name \in {"scale-out", "migrate"}
  BY <1>1, Given
<1>7. CASE job.name = "scale-out"
  <2>1. job.new \in Written /\ Deleted(topology, job.new) = {}
    BY <1>6, <1>7, Given, ScaleOutPlanned
  <2>. QED
    BY <1>4, <1>5, <1>6, <2>1, SameKind
<1>8. CASE job.name = "migrate"
  <2>1. job.new \in Written /\ MigrateAllowed(Services[topology], Services[job.new])
    BY <1>8, Given
  <2>2. /\ Added(topology, job.new) # {}
        /\ IsSameRole(Added(topology, job.new) \cup Deleted(topology, job.new))
    BY <2>1 DEF MigrateAllowed, Added, Deleted
  <2>3. Kind[topology] = Kind[job.new]
    BY <1>6, <2>1, <2>2, SameKind
  <2>4. \A dc \in Deleted(topology, job.new) : dc.role \notin {"chunkserver", "metaserver"}
    BY <1>4, <2>2 DEF IsSameRole
  <2>. QED
    BY <1>4, <1>5, <1>6, <2>1, <2>3, <2>4
<1>. QED
  BY <1>6, <1>7, <1>8

\* A step that leaves services in place keeps the stored servers true.
LEMMA FaithfulPreserved ==
  ASSUME ReshapeIInv, ServersFaithful, [Next]_vars,
         topology # None => InPlace(topology, topology')
  PROVE  ServersFaithful'
<1>1. CASE ~ Idle /\ todo # << >> /\ Step.type = "CREATE_LOGICAL_POOL"
           /\ pool' = NewPool /\ topology' = NewTopology
  <2>1. InPlace(topology, NewTopology)
    BY <1>1, Given, TopologyFacts
  <2>2. Names(pool'.servers) = Names(Default[topology'].servers) /\ Addressed(pool'.servers)
    BY <1>1, <2>1, NewPoolFaithful
  <2>. QED
    BY <2>2 DEF ServersFaithful, SameServers, AddressOfHost, Addressed
<1>2. CASE UNCHANGED pool
  <2>1. AddressOfHost'
    BY <1>2 DEF ServersFaithful, AddressOfHost
  <2>2. CASE topology' = topology
    BY <1>2, <2>1, <2>2 DEF ServersFaithful, SameServers
  <2>3. CASE pool = NoPool
    BY <1>2, <2>1, <2>3 DEF ServersFaithful, SameServers
  <2>4. CASE topology' # topology /\ pool # NoPool
    <3>1. topology \in Written /\ InPlace(topology, topology')
      BY <2>4, TypeFacts DEF ReshapeIInv, PoolHeld
    <3>2. CASE \E new \in Written : Commit(new)
      <4>1. PICK new \in Written : Commit(new)
        BY <3>2
      <4>2. /\ topology' = new
            /\ CommitAllowed(Services[topology], Services[new])
        <5>1. topology' = new /\ new \in Commits[topology]
          BY <4>1 DEF Commit
        <5>2. topology \in DOMAIN Services
          BY <3>1, TopologyFacts
        <5>. QED
          BY <5>1, <5>2 DEF Commits
      <4>3. Services[topology] # {}
        BY <3>1, StorageIs
      <4>4. Added(topology, new) = {} /\ Deleted(topology, new) = {}
        BY <4>2, <4>3 DEF CommitAllowed, Added, Deleted
      <4>5. Names(Default[new].servers) = Names(Default[topology].servers)
        BY <3>1, <4>2, <4>4, SameKind, NamesKept
      <4>. QED
        BY <1>2, <2>1, <4>2, <4>5 DEF ServersFaithful, SameServers
    <3>3. CASE UpdateTopology
      <4>1. topology' = job.new /\ ~ Idle /\ todo # << >> /\ Step.type = "UPDATE_TOPOLOGY"
        BY <2>4, <3>3 DEF UpdateTopology, Doing
      <4>2. Names(Default[job.new].servers) = Names(Default[topology].servers)
        BY <3>1, <4>1, RunKind, NamesKept
      <4>. QED
        BY <1>2, <2>1, <4>1, <4>2 DEF ServersFaithful, SameServers
    <3>4. ASSUME ~ Idle, todo # << >>, NEW done \in Outcomes, Work(done)
          PROVE  ServersFaithful'
      <4>1. ~ Idle /\ todo # << >> /\ Step.type = "CREATE_LOGICAL_POOL"
            /\ pool' = NewPool /\ topology' = NewTopology
        BY <2>4, <3>4 DEF Work, CreateContainer, StartService, StopService, CleanService,
           CreatePool,
                          StoresLogicalPool, stored
      <4>. QED
        BY <1>1, <4>1
    <3>. QED
      BY <2>4, <3>2, <3>3, <3>4 DEF Next, PlaybookStep, ScaleOut, Migrate, Deploy, Begin,
                                    StepRefused, Succeed, stored, vars
  <2>. QED
    BY <2>2, <2>3, <2>4
<1>. QED
  BY <1>1, <1>2, PoolChanges

\* Whatever was committed, scaled out or migrated and whatever failed: stored servers that
\* are those of the stored topology, each with the address of its host, stay so in every step
\* but one that stores a topology which moves storage services to other places. With any other
\* the merge by position of getClusterPool never gives a server the address of another.
THEOREM Faithful ==
  Spec => FaithfulUntilMisplaced
<1>1. ReshapeIInv /\ ReshapeIInv' /\ [Next]_vars =>
        [ServersFaithful /\ ~ ServersFaithful' => Misplaces(topology, topology')]_vars
  <2>1. SUFFICES ASSUME ReshapeIInv, ReshapeIInv', [Next]_vars, ServersFaithful,
                        ~ Misplaces(topology, topology')
                 PROVE  ServersFaithful'
    OBVIOUS
  <2>2. topology \in DOMAIN Services /\ topology' \in DOMAIN Services
    <3>1. TypeOK /\ TypeOK'
      BY <2>1 DEF ReshapeIInv
    <3>2. topology \in Written \cup {None} /\ topology' \in Written \cup {None}
      BY <3>1 DEF TypeOK
    <3>. QED
      BY <3>2, TopologyFacts
  <2>3. topology # None => InPlace(topology, topology')
    BY <2>1, <2>2, TopologyFacts, Placed
  <2>. QED
    BY <2>1, <2>3, FaithfulPreserved
<1>. QED
  BY <1>1, Invariance, NextPreserves, PTL DEF Spec, FaithfulUntilMisplaced

-----------------------------------------------------------------------------
(* The zones of a pool. *)

\* The positions of the services that are the first of their deploy: where genZone goes on.
Firsts(dcs) == {i \in DOMAIN dcs : dcs[i].replicasSequence = 0}

\* Of every deploy that has a service among them they have the first one.
Whole(dcs) ==
  \A dc \in dcs : \E first \in dcs :
    /\ first.replicasSequence = 0
    /\ first.hostSequence = dc.hostSequence
    /\ first.parentId = dc.parentId

\* The first service of a deploy is its own parent.
LEMMA Parents ==
  ASSUME NEW n \in Written, NEW dc \in Services[n]
  PROVE  /\ dc.parentId = dc.id <=> dc.replicasSequence = 0
         /\ \E first \in Services[n] :
              /\ first.replicasSequence = 0 /\ first.role = dc.role
              /\ first.hostSequence = dc.hostSequence /\ first.parentId = dc.parentId
<1>1. PICK role \in Roles(Kind[n]) \cap DOMAIN Topologies[n].services :
        \E i \in DOMAIN Topologies[n].services[role] :
        \E k \in 0 .. Topologies[n].services[role][i].replicas - 1 :
           dc = NewDeployConfig(role, Topologies[n].services[role][i], i - 1, k)
  BY IsService
<1>2. PICK i \in DOMAIN Topologies[n].services[role] :
        \E k \in 0 .. Topologies[n].services[role][i].replicas - 1 :
           dc = NewDeployConfig(role, Topologies[n].services[role][i], i - 1, k)
  BY <1>1
<1>. DEFINE deploy == Topologies[n].services[role][i]
            first == NewDeployConfig(role, deploy, i - 1, 0)
<1>3. PICK k \in 0 .. deploy.replicas - 1 : dc = NewDeployConfig(role, deploy, i - 1, k)
  BY <1>2
<1>4. deploy.replicas \in Nat \ {0}
  BY TopologiesAssumption DEF Written
<1>5. first \in Services[n]
  <2>1. 0 \in 0 .. deploy.replicas - 1
    BY <1>4
  <2>2. /\ role \in Roles(Topologies[n].kind) \cap DOMAIN Topologies[n].services
        /\ Services[n] = ParseTopology(Topologies[n])
    BY TopologyFacts
  <2>. HIDE DEF first
  <2>3. first \in {NewDeployConfig(role, deploy, i - 1, j) : j \in 0 .. deploy.replicas - 1}
    BY <2>1 DEF first
  <2>. QED
    BY <2>2, <2>3 DEF ParseTopology
<1>6. dc.parentId = dc.id <=> dc.replicasSequence = 0
  BY <1>3 DEF NewDeployConfig, FormatId
<1>7. /\ first.replicasSequence = 0 /\ first.role = dc.role
      /\ first.hostSequence = dc.hostSequence /\ first.parentId = dc.parentId
  BY <1>3 DEF NewDeployConfig
<1>. HIDE DEF first
<1>. QED
  BY <1>5, <1>6, <1>7

\* The id of a service tells the id of its parent.
LEMMA ParentIds ==
  ASSUME NEW n \in Written, NEW dc \in Services[n]
  PROVE  dc.parentId = <<dc.role, dc.host, dc.name, 0>>
<1>1. PICK role \in Roles(Kind[n]) \cap DOMAIN Topologies[n].services :
        \E i \in DOMAIN Topologies[n].services[role] :
        \E k \in 0 .. Topologies[n].services[role][i].replicas - 1 :
           dc = NewDeployConfig(role, Topologies[n].services[role][i], i - 1, k)
  BY IsService
<1>2. PICK i \in DOMAIN Topologies[n].services[role] :
        \E k \in 0 .. Topologies[n].services[role][i].replicas - 1 :
           dc = NewDeployConfig(role, Topologies[n].services[role][i], i - 1, k)
  BY <1>1
<1>. QED
  BY <1>2 DEF NewDeployConfig, FormatId

\* Of numbers there is a least, a second one, and so on.
LEMMA Numbered ==
  ASSUME NEW n \in Nat, NEW H \in SUBSET (1 .. n), NEW z \in 1 .. Cardinality(H)
  PROVE  \E i \in H : Cardinality({j \in 1 .. i : j \in H}) = z
<1>. DEFINE UpTo(i) == {j \in 1 .. i : j \in H}
            number == [i \in H |-> Cardinality(UpTo(i))]
<1>1. IsFiniteSet(H) /\ Cardinality(H) \in Nat
  <2>1. IsFiniteSet(1 .. n)
    BY FS_Interval
  <2>. QED
    BY <2>1, FS_Subset, FS_CardinalityType
<1>2. ASSUME NEW i \in H
      PROVE  IsFiniteSet(UpTo(i)) /\ Cardinality(UpTo(i)) \in 1 .. Cardinality(H)
  <2>1. IsFiniteSet(UpTo(i)) /\ Cardinality(UpTo(i)) \in Nat
        /\ Cardinality(UpTo(i)) <= Cardinality(H)
    BY <1>1, FS_Subset, FS_CardinalityType
  <2>2. {i} \in SUBSET UpTo(i)
    OBVIOUS
  <2>3. Cardinality({i}) = 1 /\ Cardinality({i}) <= Cardinality(UpTo(i))
    BY <2>1, <2>2, FS_Subset, FS_Singleton
  <2>. QED
    BY <1>1, <2>1, <2>3
<1>3. ASSUME NEW i \in H, NEW k \in H, i < k
      PROVE  Cardinality(UpTo(i)) # Cardinality(UpTo(k))
  <2>1. UpTo(i) \in SUBSET UpTo(k) /\ k \in UpTo(k) /\ k \notin UpTo(i)
    BY <1>3
  <2>. QED
    BY <1>2, <2>1, FS_Subset
<1>4. number \in Injection(H, 1 .. Cardinality(H))
  <2>1. \A i, k \in H : i < k \/ k < i \/ i = k
    OBVIOUS
  <2>. HIDE DEF UpTo
  <2>2. \A i, k \in H : number[i] = number[k] => i = k
    BY <1>3, <2>1
  <2>. QED
    BY <1>2, <2>2 DEF Injection, IsInjective
<1>5. number \in Surjection(H, 1 .. Cardinality(H))
  <2>1. IsFiniteSet(1 .. Cardinality(H)) /\ Cardinality(1 .. Cardinality(H)) = Cardinality(H)
    BY <1>1, FS_Interval
  <2>. QED
    BY <1>4, <2>1, FS_Injection
<1>6. PICK i \in H : number[i] = z
  BY <1>5 DEF Surjection
<1>. QED
  BY <1>6

\* genZone gives the services of a host one zone and uses all three: the services in order
\* are numbered by the deploys up to them, and those of one deploy follow its first one.
LEMMA ZonesSpread ==
  ASSUME NEW n \in Written, NEW dcs \in SUBSET Services[n], IsSameRole(dcs), Whole(dcs)
  PROVE  LET sorted == SortDeployConfigs(dcs)
             zones == 1 .. DEFAULT_ZONES_PER_POOL
         IN /\ IsFiniteSet(Firsts(sorted)) /\ GetHostNum(dcs) <= Cardinality(Firsts(sorted))
            /\ \A i \in DOMAIN sorted : Zone(sorted, i) \in zones
            /\ \A i, j \in DOMAIN sorted :
                 sorted[i].hostSequence = sorted[j].hostSequence =>
                   Zone(sorted, i) = Zone(sorted, j)
            /\ Cardinality(Firsts(sorted)) >= DEFAULT_ZONES_PER_POOL =>
                 \A z \in zones : \E i \in DOMAIN sorted : Zone(sorted, i) = z
<1>. DEFINE sorted == SortDeployConfigs(dcs)
            m == Cardinality(dcs)
            H == Firsts(sorted)
            UpTo(i) == {j \in 1 .. i : j \in H}
<1>1. /\ m \in Nat /\ sorted \in [1 .. m -> dcs]
      /\ \A dc \in dcs : \E i \in 1 .. m : sorted[i] = dc
      /\ \A i, j \in 1 .. m : i < j => Before(sorted[i], sorted[j])
  BY RoleSortable, Sorted
<1>. HIDE DEF sorted, m
<1>2. \A dc \in dcs : /\ dc.hostSequence \in Nat /\ dc.replicasSequence \in Nat
                      /\ dc.parentId = dc.id <=> dc.replicasSequence = 0
  BY ServiceTyped, Parents
<1>3. H \in SUBSET (1 .. m) /\ \A i \in 1 .. m : i \in H <=> sorted[i].replicasSequence = 0
  BY <1>1 DEF Firsts
<1>4. IsFiniteSet(H) /\ Cardinality(H) \in Nat
  <2>1. IsFiniteSet(1 .. m)
    BY <1>1, FS_Interval
  <2>. HIDE DEF H
  <2>. QED
    BY <1>3, <2>1, FS_Subset, FS_CardinalityType
<1>. HIDE DEF H
<1>5. ASSUME NEW i \in 1 .. m
      PROVE  1 \in H
  <2>1. 1 \in 1 .. m /\ sorted[1] \in dcs
    BY <1>1
  <2>2. PICK first \in dcs : /\ first.replicasSequence = 0
                             /\ first.hostSequence = sorted[1].hostSequence
    BY <2>1 DEF Whole
  <2>3. PICK j \in 1 .. m : sorted[j] = first
    BY <1>1
  <2>4. ~ (1 < j) \/ Before(sorted[1], first)
    BY <1>1, <2>1, <2>3
  <2>5. ~ Before(sorted[1], first)
    BY <1>2, <2>1, <2>2 DEF Before
  <2>6. j = 1
    BY <2>3, <2>4, <2>5
  <2>. QED
    BY <1>3, <2>1, <2>2, <2>3, <2>6
<1>6. ASSUME NEW i \in 1 .. m
      PROVE  /\ {j \in 1 .. i : sorted[j].parentId = sorted[j].id} = UpTo(i)
             /\ IsFiniteSet(UpTo(i)) /\ Cardinality(UpTo(i)) \in Nat \ {0}
             /\ Zone(sorted, i) = ((Cardinality(UpTo(i)) - 1) % DEFAULT_ZONES_PER_POOL) + 1
  <2>1. \A j \in 1 .. i : j \in 1 .. m /\ sorted[j] \in dcs
    BY <1>1
  <2>2. {j \in 1 .. i : sorted[j].parentId = sorted[j].id} = UpTo(i)
    BY <1>2, <1>3, <2>1
  <2>3. UpTo(i) \in SUBSET H /\ 1 \in UpTo(i)
    BY <1>5
  <2>. HIDE DEF UpTo
  <2>4. IsFiniteSet(UpTo(i)) /\ Cardinality(UpTo(i)) \in Nat
    BY <1>4, <2>3, FS_Subset, FS_CardinalityType
  <2>5. Cardinality(UpTo(i)) # 0
    BY <2>3, <2>4, FS_EmptySet
  <2>. QED
    BY <2>2, <2>4, <2>5 DEF Zone
<1>7. ASSUME NEW i \in 1 .. m
      PROVE  Zone(sorted, i) \in 1 .. DEFAULT_ZONES_PER_POOL
  <2>. DEFINE parents == Cardinality(UpTo(i))
  <2>1. parents \in Nat \ {0} /\ Zone(sorted, i) = ((parents - 1) % DEFAULT_ZONES_PER_POOL) + 1
    BY <1>6
  <2>. HIDE DEF parents
  <2>. QED
    BY <2>1 DEF DEFAULT_ZONES_PER_POOL
<1>8. ASSUME NEW i \in 1 .. m, NEW j \in 1 .. m, i <= j,
             sorted[i].hostSequence = sorted[j].hostSequence
      PROVE  Zone(sorted, i) = Zone(sorted, j)
  <2>1. ASSUME NEW k \in 1 .. j, k \in H, ~ k <= i
        PROVE  FALSE
    <3>1. /\ k \in 1 .. m /\ i < k /\ Before(sorted[i], sorted[k])
          /\ sorted[k].replicasSequence = 0
      BY <1>1, <1>3, <2>1
    <3>2. k = j \/ Before(sorted[k], sorted[j])
      BY <1>1, <3>1
    <3>3. sorted[i] \in dcs /\ sorted[k] \in dcs /\ sorted[j] \in dcs
      BY <1>1, <3>1
    <3>. QED
      BY <1>2, <1>8, <3>1, <3>2, <3>3 DEF Before
  <2>2. UpTo(i) = UpTo(j)
    BY <1>8, <2>1
  <2>. QED
    BY <1>6, <2>2
<1>9. ASSUME Cardinality(H) >= DEFAULT_ZONES_PER_POOL, NEW z \in 1 .. DEFAULT_ZONES_PER_POOL
      PROVE  \E i \in 1 .. m : Zone(sorted, i) = z
  <2>1. z \in 1 .. Cardinality(H)
    BY <1>4, <1>9 DEF DEFAULT_ZONES_PER_POOL
  <2>2. PICK i \in H : Cardinality(UpTo(i)) = z
    BY <1>1, <1>3, <2>1, Numbered
  <2>3. i \in 1 .. m /\ Zone(sorted, i) = ((z - 1) % DEFAULT_ZONES_PER_POOL) + 1
    BY <1>3, <1>6, <2>2
  <2>4. ((z - 1) % DEFAULT_ZONES_PER_POOL) + 1 = z
    BY DEF DEFAULT_ZONES_PER_POOL
  <2>. QED
    BY <2>3, <2>4
<1>10. GetHostNum(dcs) <= Cardinality(H)
  <2>. DEFINE parentIds == {dc.parentId : dc \in dcs}
              parent == [i \in H |-> sorted[i].parentId]
  <2>1. parent \in [H -> parentIds]
    BY <1>1, <1>3
  <2>2. ASSUME NEW id \in parentIds
        PROVE  \E i \in H : parent[i] = id
    <3>1. PICK dc \in dcs : dc.parentId = id
      OBVIOUS
    <3>2. PICK first \in dcs : first.replicasSequence = 0 /\ first.parentId = dc.parentId
      BY DEF Whole
    <3>3. PICK i \in 1 .. m : sorted[i] = first
      BY <1>1
    <3>. QED
      BY <1>3, <3>1, <3>2, <3>3
  <2>3. parent \in Surjection(H, parentIds)
    BY <2>1, <2>2 DEF Surjection
  <2>. HIDE DEF parentIds, parent
  <2>4. Cardinality(parentIds) <= Cardinality(H)
    BY <1>4, <2>3, FS_Surjection
  <2>. QED
    BY <2>4 DEF GetHostNum, parentIds
<1>11. ASSUME NEW i \in 1 .. m, NEW j \in 1 .. m,
              sorted[i].hostSequence = sorted[j].hostSequence
       PROVE  Zone(sorted, i) = Zone(sorted, j)
  <2>1. i <= j \/ j <= i
    OBVIOUS
  <2>. QED
    BY <1>8, <1>11, <2>1
<1>12. DOMAIN sorted = 1 .. m
  BY <1>1
<1>. QED
  BY <1>4, <1>7, <1>9, <1>10, <1>11, <1>12 DEF H, sorted

\* A topology has three deploys of the storage role.
Apart(n) == Cardinality(Firsts(StorageInOrder[n])) >= DEFAULT_ZONES_PER_POOL

\* The servers of a pool, which are the storage services of topology n in order: in each
\* logical pool those of a deploy are in one zone, and every zone has one.
Spread(p, n) ==
  /\ \A i \in DOMAIN p.servers :
       p.servers[i].pool \in 1 .. p.npools /\ p.servers[i].zone \in 1 .. DEFAULT_ZONES_PER_POOL
  /\ \A i, j \in DOMAIN p.servers :
       /\ p.servers[i].pool = p.servers[j].pool
       /\ StorageInOrder[n][i].hostSequence = StorageInOrder[n][j].hostSequence
       => p.servers[i].zone = p.servers[j].zone
  /\ \A k \in 1 .. p.npools, z \in 1 .. DEFAULT_ZONES_PER_POOL :
       \E i \in DOMAIN p.servers : p.servers[i].pool = k /\ p.servers[i].zone = z

\* It stays so where the servers keep zone and pool and the services their places.
LEMMA SpreadKept ==
  ASSUME NEW p, NEW q, NEW n, NEW m, Spread(p, n),
         DOMAIN q.servers = DOMAIN p.servers, Keeps(p.servers, q.servers), q.npools = p.npools,
         \A i \in DOMAIN p.servers : SamePlaceAs(StorageInOrder[m][i], StorageInOrder[n][i])
  PROVE  Spread(q, m)
BY DEF Spread, Keeps, SamePlaceAs

\* The storage services of a topology have the first one of every deploy of theirs.
LEMMA StorageWhole ==
  ASSUME NEW n \in Written
  PROVE  Whole(Storage(n))
<1>1. ASSUME NEW dc \in Storage(n)
      PROVE  \E first \in Storage(n) :
               /\ first.replicasSequence = 0
               /\ first.hostSequence = dc.hostSequence
               /\ first.parentId = dc.parentId
  <2>1. dc \in Services[n] /\ dc.role = StorageRole(Kind[n])
    BY StorageIs
  <2>2. PICK first \in Services[n] :
          /\ first.replicasSequence = 0 /\ first.role = dc.role
          /\ first.hostSequence = dc.hostSequence /\ first.parentId = dc.parentId
    BY <2>1, Parents
  <2>. QED
    BY <2>1, <2>2, StorageIs
<1>. QED
  BY <1>1 DEF Whole

\* Those that a scale-out adds do: it adds whole deploys, as they lie behind the old ones.
LEMMA AddedWhole ==
  ASSUME NEW old \in Written, NEW new \in DOMAIN ScaleOuts[old], InPlace(old, new),
         \A dc \in Added(old, new) : dc.role = StorageRole(Kind[old])
  PROVE  Whole(Added(old, new))
<1>1. new \in Written /\ Deleted(old, new) = {}
  BY ScaleOutPlanned
<1>2. Kind[old] = Kind[new]
  BY <1>1, SameKind
<1>3. ASSUME NEW dc \in Added(old, new)
      PROVE  \E first \in Added(old, new) :
               /\ first.replicasSequence = 0
               /\ first.hostSequence = dc.hostSequence
               /\ first.parentId = dc.parentId
  <2>1. dc \in Services[new] /\ dc.role = StorageRole(Kind[old])
    BY DEF Added, DiffAdd
  <2>2. PICK first \in Services[new] :
          /\ first.replicasSequence = 0 /\ first.role = dc.role
          /\ first.hostSequence = dc.hostSequence /\ first.parentId = dc.parentId
    BY <1>1, <2>1, Parents
  <2>3. ASSUME first.id \in Ids(Services[old])
        PROVE  FALSE
    <3>1. Twin(old, first) \in Services[old] /\ Twin(old, first).id = first.id
          /\ Twin(old, first).role = first.role
      BY <1>1, <2>3, TwinIs
    <3>2. Twin(old, first) \in Storage(old)
      BY <2>1, <2>2, <3>1, StorageIs
    <3>3. Twin(old, first).hostSequence = first.hostSequence
      BY <1>1, <3>1, <3>2 DEF InPlace, Storage
    <3>4. Twin(old, first).hostSequence < dc.hostSequence
      BY <2>1, <2>2, <3>1, <3>2 DEF InPlace, Storage
    <3>5. dc.hostSequence \in Nat
      BY <1>1, <2>1, ServiceTyped
    <3>. QED
      BY <2>2, <3>3, <3>4, <3>5
  <2>4. first \in Added(old, new)
    BY <2>3 DEF Added, DiffAdd
  <2>. QED
    BY <2>2, <2>4
<1>. QED
  BY <1>3 DEF Whole

\* The default pool is spread.
LEMMA DefaultSpread ==
  ASSUME NEW n \in Written, Apart(n)
  PROVE  Spread(Default[n], n)
<1>. DEFINE sorted == StorageInOrder[n]
            servers == Default[n].servers
            zones == 1 .. DEFAULT_ZONES_PER_POOL
<1>1. sorted = SortDeployConfigs(Storage(n)) /\ DOMAIN sorted = 1 .. Len(sorted)
  BY StorageIs, StorageSorted
<1>2. Storage(n) \in SUBSET Services[n] /\ IsSameRole(Storage(n)) /\ Whole(Storage(n))
  BY StorageIs, StorageSorted, StorageWhole DEF Storage
<1>3. /\ \A i \in DOMAIN sorted : Zone(sorted, i) \in zones
      /\ \A i, j \in DOMAIN sorted :
           sorted[i].hostSequence = sorted[j].hostSequence => Zone(sorted, i) = Zone(sorted, j)
      /\ \A z \in zones : \E i \in DOMAIN sorted : Zone(sorted, i) = z
  BY <1>1, <1>2, ZonesSpread DEF Apart
<1>4. servers = Servers(sorted, 1) /\ Default[n].npools = 1
  BY DefaultTyped
<1>5. DOMAIN servers = DOMAIN sorted
      /\ \A i \in DOMAIN sorted : servers[i].zone = Zone(sorted, i) /\ servers[i].pool = 1
  BY <1>1, <1>4 DEF Servers
<1>. HIDE DEF sorted, servers
<1>6. /\ \A i \in DOMAIN servers : servers[i].pool \in 1 .. 1 /\ servers[i].zone \in zones
      /\ \A i, j \in DOMAIN servers :
           sorted[i].hostSequence = sorted[j].hostSequence => servers[i].zone = servers[j].zone
      /\ \A k \in 1 .. 1, z \in zones :
           \E i \in DOMAIN servers : servers[i].pool = k /\ servers[i].zone = z
  BY <1>3, <1>5
<1>. QED
  BY <1>4, <1>6 DEF Spread, sorted, servers

\* Finitely many services are of finitely many deploys.
LEMMA ParentsFinite ==
  ASSUME NEW dcs, IsFiniteSet(dcs)
  PROVE  IsFiniteSet({dc.parentId : dc \in dcs})
<1>. DEFINE parentIds == {dc.parentId : dc \in dcs}
            parent == [dc \in dcs |-> dc.parentId]
<1>1. parent \in Surjection(dcs, parentIds)
  BY DEF Surjection
<1>. HIDE DEF parent, parentIds
<1>2. IsFiniteSet(parentIds)
  BY <1>1, FS_Surjection
<1>. QED
  BY <1>2 DEF parentIds

\* Servers with the names of topology n and the addresses of their hosts are its storage
\* services in order.
LEMMA StoredInOrder ==
  ASSUME NEW n \in Written, NEW p, Names(p.servers) = Names(Default[n].servers),
         Addressed(p.servers)
  PROVE  /\ DOMAIN p.servers = 1 .. Cardinality(Storage(n))
         /\ \A i \in DOMAIN p.servers : /\ p.servers[i].ip = StorageInOrder[n][i].host
                                        /\ StorageInOrder[n][i] \in Storage(n)
<1>. DEFINE default == Default[n].servers
            servers == p.servers
<1>1. Names(servers) = Names(default)
  OBVIOUS
<1>2. DOMAIN Names(servers) = DOMAIN servers /\ DOMAIN Names(default) = DOMAIN default
  BY DEF Names
<1>3. /\ \A i \in DOMAIN servers : Names(servers)[i] = servers[i].name
      /\ \A i \in DOMAIN default : Names(default)[i] = default[i].name
  BY DEF Names
<1>4. /\ DOMAIN default = 1 .. Cardinality(Storage(n))
      /\ \A i \in DOMAIN default : default[i].name = ServerName(StorageInOrder[n][i])
  BY DefaultNames
<1>5. \A i \in DOMAIN servers : servers[i].ip = servers[i].name[1]
  BY DEF Addressed
<1>. HIDE DEF default, servers
<1>6. \A dc : ServerName(dc)[1] = dc.host
  BY DEF ServerName
<1>7. DOMAIN servers = DOMAIN default
  BY <1>1, <1>2
<1>8. ASSUME NEW i \in DOMAIN servers
      PROVE  servers[i].ip = StorageInOrder[n][i].host
  <2>1. servers[i].name = ServerName(StorageInOrder[n][i])
    BY <1>1, <1>3, <1>4, <1>7
  <2>. QED
    BY <1>5, <1>6, <2>1
<1>9. \A i \in 1 .. Cardinality(Storage(n)) : StorageInOrder[n][i] \in Storage(n)
  BY StorageIs
<1>. QED
  BY <1>4, <1>7, <1>8, <1>9 DEF servers

\* The services of a deploy are on one host.
LEMMA OneHost ==
  ASSUME NEW n \in Written, NEW dc1 \in Storage(n), NEW dc2 \in Storage(n),
         dc1.hostSequence = dc2.hostSequence
  PROVE  dc1.host = dc2.host
<1>1. PICK first1 \in Services[n] :
        /\ first1.replicasSequence = 0 /\ first1.role = dc1.role
        /\ first1.hostSequence = dc1.hostSequence /\ first1.parentId = dc1.parentId
  BY StorageIs, Parents
<1>2. PICK first2 \in Services[n] :
        /\ first2.replicasSequence = 0 /\ first2.role = dc2.role
        /\ first2.hostSequence = dc2.hostSequence /\ first2.parentId = dc2.parentId
  BY StorageIs, Parents
<1>3. dc1.role = dc2.role
  BY StorageIs
<1>4. first1 = first2
  BY <1>1, <1>2, <1>3, SamePlace
<1>5. dc1.parentId[2] = dc1.host /\ dc2.parentId[2] = dc2.host
  BY StorageIs, ParentIds
<1>. QED
  BY <1>1, <1>2, <1>4, <1>5

\* What getClusterPool returns is spread.
LEMMA GetSpread ==
  ASSUME NEW n \in Written, PoolTyped(pool), pool = NoPool => Apart(n),
         pool # NoPool => Spread(pool, n)
  PROVE  Spread(GetClusterPool(Kind[n], Default[n], pool), n)
<1>1. CASE pool = NoPool
  BY <1>1, DefaultSpread DEF GetClusterPool
<1>2. CASE pool # NoPool
  <2>. DEFINE old == GetClusterPool(Kind[n], Default[n], pool)
  <2>1. DOMAIN old.servers = DOMAIN pool.servers /\ old.npools = pool.npools
    BY <1>2 DEF GetClusterPool, PoolTyped, Pool
  <2>2. Keeps(pool.servers, old.servers)
    BY GetKeeps
  <2>. HIDE DEF old
  <2>3. \A i \in DOMAIN pool.servers : SamePlaceAs(StorageInOrder[n][i], StorageInOrder[n][i])
    BY DEF SamePlaceAs
  <2>4. Spread(old, n)
    BY <1>2, <2>1, <2>2, <2>3, SpreadKept
  <2>. QED
    BY <2>4 DEF old
<1>. QED
  BY <1>1, <1>2

\* A scale-out adds a logical pool that is spread by itself.
LEMMA ScaleOutSpread ==
  ASSUME NEW old \in Written, NEW new \in DOMAIN ScaleOuts[old], InPlace(old, new),
         \A dc \in Added(old, new) : dc.role = StorageRole(Kind[old]),
         NEW p, PoolTyped(p), DOMAIN p.servers = 1 .. Cardinality(Storage(old)), Spread(p, old)
  PROVE  Spread(ScaleOutClusterPool(p, SortDeployConfigs(Added(old, new))), new)
<1>. DEFINE dcs == SortDeployConfigs(Added(old, new))
            n == Cardinality(Storage(old))
            m == Len(dcs)
            a == p.servers
            b == Servers(dcs, p.npools + 1)
            zones == 1 .. DEFAULT_ZONES_PER_POOL
            was == StorageInOrder[old]
            now == StorageInOrder[new]
            scaled == ScaleOutClusterPool(p, dcs)
<1>1. /\ n \in Nat /\ m \in Nat
      /\ \A k \in 1 .. n : SamePlaceAs(now[k], was[k])
      /\ \A i \in 1 .. m : now[n + i] = dcs[i]
  BY NamesScaledOut
<1>2. /\ new \in Written /\ Added(old, new) \in SUBSET Services[new] /\ IsSameRole(Added(old, new))
      /\ dcs \in Seq(Services[new]) /\ Whole(Added(old, new))
  BY ScaleOutPlanned, DifferenceTyped, RoleSorted, SeqMonotonic, AddedWhole DEF IsSameRole
<1>3. GetHostNum(Added(old, new)) >= DEFAULT_ZONES_PER_POOL
  <2>1. ScaleOutAllowed(Services[old], Services[new])
    BY ScaleOutPlanned
  <2>2. PICK dc \in Added(old, new) : dc.role \in {"chunkserver", "metaserver"}
    BY <2>1 DEF ScaleOutAllowed, Added, StorageRole
  <2>. QED
    BY <2>1, <2>2 DEF ScaleOutAllowed, Added, DEFAULT_ZONES_PER_POOL
<1>4. /\ \A i \in 1 .. m : Zone(dcs, i) \in zones
      /\ \A i, j \in 1 .. m :
           dcs[i].hostSequence = dcs[j].hostSequence => Zone(dcs, i) = Zone(dcs, j)
      /\ \A z \in zones : \E i \in 1 .. m : Zone(dcs, i) = z
  <2>1. DOMAIN dcs = 1 .. m
    BY <1>2
  <2>2. /\ IsFiniteSet(Firsts(dcs)) /\ GetHostNum(Added(old, new)) <= Cardinality(Firsts(dcs))
        /\ \A i \in DOMAIN dcs : Zone(dcs, i) \in zones
        /\ \A i, j \in DOMAIN dcs :
             dcs[i].hostSequence = dcs[j].hostSequence => Zone(dcs, i) = Zone(dcs, j)
        /\ Cardinality(Firsts(dcs)) >= DEFAULT_ZONES_PER_POOL =>
             \A z \in zones : \E i \in DOMAIN dcs : Zone(dcs, i) = z
    BY <1>2, ZonesSpread
  <2>3. GetHostNum(Added(old, new)) \in Nat /\ Cardinality(Firsts(dcs)) \in Nat
    <3>1. IsFiniteSet({dc.parentId : dc \in Added(old, new)})
      BY <1>2, RoleSortable, ParentsFinite DEF Sortable
    <3>. QED
      BY <2>2, <3>1, FS_CardinalityType DEF GetHostNum
  <2>. HIDE DEF dcs, m, zones
  <2>4. Cardinality(Firsts(dcs)) >= DEFAULT_ZONES_PER_POOL
    BY <1>3, <2>2, <2>3 DEF DEFAULT_ZONES_PER_POOL
  <2>. QED
    BY <2>1, <2>2, <2>4
<1>5. /\ scaled.servers = a \o b /\ scaled.npools = p.npools + 1 /\ p.npools \in Nat
      /\ a \in Seq(Server) /\ b \in Seq(Server) /\ Len(b) = m
      /\ \A i \in 1 .. m : b[i].zone = Zone(dcs, i) /\ b[i].pool = p.npools + 1
  <2>1. p.npools \in Nat /\ p.npools + 1 \in Nat \ {0} /\ a \in Seq(Server)
    BY DEF PoolTyped, Pool
  <2>2. b \in Seq(Server)
    BY <1>2, <2>1, ServersTyped
  <2>. QED
    BY <1>1, <2>1, <2>2 DEF ScaleOutClusterPool, GenerateClusterPool, Servers
<1>6. /\ \A i \in 1 .. n : a[i].pool \in 1 .. p.npools /\ a[i].zone \in zones
      /\ \A i, j \in 1 .. n :
           a[i].pool = a[j].pool /\ was[i].hostSequence = was[j].hostSequence => a[i].zone = a[j].zone
      /\ \A k \in 1 .. p.npools, z \in zones : \E i \in 1 .. n : a[i].pool = k /\ a[i].zone = z
  BY DEF Spread
<1>a. DOMAIN a = 1 .. n
  OBVIOUS
<1>. HIDE DEF dcs, n, m, a, b, zones, was, now, scaled
<1>7. Len(a) = n
  BY <1>1, <1>5, <1>a, LenProperties
<1>8. /\ DOMAIN scaled.servers = 1 .. n + m
      /\ \A i \in 1 .. n + m : scaled.servers[i] = IF i <= n THEN a[i] ELSE b[i - n]
  <2>1. a \in Seq(Server) /\ b \in Seq(Server)
    BY <1>5
  <2>2. /\ a \o b \in Seq(Server) /\ Len(a \o b) = Len(a) + Len(b)
        /\ \A i \in 1 .. Len(a) + Len(b) : (a \o b)[i] = IF i <= Len(a) THEN a[i] ELSE b[i - Len(a)]
    BY ONLY <2>1, ConcatProperties, Zenon
  <2>3. DOMAIN (a \o b) = 1 .. Len(a \o b)
    BY <2>2, LenProperties
  <2>. QED
    BY <1>5, <1>7, <2>2, <2>3
<1>9. ASSUME NEW i \in 1 .. n
      PROVE  i \in 1 .. n + m /\ scaled.servers[i] = a[i]
  BY <1>1, <1>8
<1>10. ASSUME NEW i \in 1 .. m
       PROVE  n + i \in 1 .. n + m /\ scaled.servers[n + i] = b[i]
  BY <1>1, <1>8
<1>11. \A i \in 1 .. n + m : i \in 1 .. n \/ \E j \in 1 .. m : i = n + j
  <2>1. ASSUME NEW i \in 1 .. n + m, i \notin 1 .. n
        PROVE  i - n \in 1 .. m /\ i = n + (i - n)
    BY <1>1, <2>1
  <2>. QED
    BY <2>1
<1>. DEFINE servers == scaled.servers
<1>. HIDE DEF servers
<1>12. ASSUME NEW i \in 1 .. n + m
       PROVE  servers[i].pool \in 1 .. p.npools + 1 /\ servers[i].zone \in zones
  <2>1. CASE i \in 1 .. n
    <3>1. servers[i] = a[i] /\ a[i].pool \in 1 .. p.npools /\ a[i].zone \in zones
      BY <1>6, <1>9, <2>1 DEF servers
    <3>. QED
      BY <1>5, <3>1
  <2>2. ASSUME NEW j \in 1 .. m, i = n + j
        PROVE  servers[i].pool \in 1 .. p.npools + 1 /\ servers[i].zone \in zones
    <3>1. servers[i] = b[j] /\ b[j].pool = p.npools + 1 /\ b[j].zone \in zones
      BY <1>4, <1>5, <1>10, <2>2 DEF servers
    <3>. QED
      BY <1>5, <3>1
  <2>. QED
    BY <1>11, <2>1, <2>2
<1>13. ASSUME NEW i \in 1 .. n + m, NEW j \in 1 .. n + m, servers[i].pool = servers[j].pool,
              now[i].hostSequence = now[j].hostSequence
       PROVE  servers[i].zone = servers[j].zone
  <2>1. CASE i \in 1 .. n /\ j \in 1 .. n
    BY <1>1, <1>6, <1>9, <1>13, <2>1 DEF servers, SamePlaceAs
  <2>2. ASSUME NEW k \in 1 .. m, NEW l \in 1 .. m, i = n + k, j = n + l
        PROVE  servers[i].zone = servers[j].zone
    <3>1. servers[i] = b[k] /\ servers[j] = b[l] /\ now[i] = dcs[k] /\ now[j] = dcs[l]
      BY <1>1, <1>10, <2>2 DEF servers
    <3>2. Zone(dcs, k) = Zone(dcs, l)
      BY <1>4, <1>13, <3>1
    <3>. QED
      BY <1>5, <3>1, <3>2
  <2>3. ASSUME NEW h \in 1 .. n, NEW k \in 1 .. m
        PROVE  servers[h].pool # servers[n + k].pool
    <3>1. servers[h] = a[h] /\ servers[n + k] = b[k]
      BY <1>9, <1>10 DEF servers
    <3>2. a[h].pool \in 1 .. p.npools /\ b[k].pool = p.npools + 1
      BY <1>5, <1>6
    <3>. QED
      BY <1>5, <3>1, <3>2
  <2>. QED
    BY <1>11, <1>13, <2>1, <2>2, <2>3
<1>14. ASSUME NEW k \in 1 .. p.npools + 1, NEW z \in zones
       PROVE  \E i \in 1 .. n + m : servers[i].pool = k /\ servers[i].zone = z
  <2>1. CASE k = p.npools + 1
    <3>1. PICK i \in 1 .. m : Zone(dcs, i) = z
      BY <1>4
    <3>. QED
      BY <1>5, <1>10, <2>1, <3>1 DEF servers
  <2>2. CASE k # p.npools + 1
    <3>1. k \in 1 .. p.npools
      BY <1>5, <2>2
    <3>2. PICK i \in 1 .. n : a[i].pool = k /\ a[i].zone = z
      BY <1>6, <3>1
    <3>. QED
      BY <1>9, <3>2 DEF servers
  <2>. QED
    BY <2>1, <2>2
<1>15. DOMAIN servers = 1 .. n + m /\ scaled.servers = servers /\ scaled.npools = p.npools + 1
  BY <1>5, <1>8 DEF servers
<1>16. Spread(scaled, new)
  <2>1. /\ \A i \in DOMAIN servers :
             servers[i].pool \in 1 .. p.npools + 1 /\ servers[i].zone \in zones
        /\ \A i, j \in DOMAIN servers :
             servers[i].pool = servers[j].pool /\ now[i].hostSequence = now[j].hostSequence
               => servers[i].zone = servers[j].zone
        /\ \A k \in 1 .. p.npools + 1, z \in zones :
             \E i \in DOMAIN servers : servers[i].pool = k /\ servers[i].zone = z
    BY <1>12, <1>13, <1>14, <1>15
  <2>2. scaled.servers = servers /\ scaled.npools = p.npools + 1
    BY <1>15
  <2>. QED
    BY ONLY <2>1, <2>2 DEF Spread, zones, now
<1>. QED
  BY <1>16 DEF scaled, dcs

\* What a step stores is spread over the topology that is stored with it.
LEMMA NewPoolSpread ==
  ASSUME ReshapeIInv, ServersFaithful, ~ Idle, todo # << >>,
         Step.type = "CREATE_LOGICAL_POOL", InPlace(topology, NewTopology),
         pool = NoPool => Apart(topology), pool # NoPool => Spread(pool, topology)
  PROVE  Spread(NewPool, NewTopology)
<1>. DEFINE old == GetClusterPool(Kind[topology], Default[topology], pool)
<1>1. /\ topology \in Written /\ PoolTyped(pool) /\ job.name \in {"deploy", "scale-out", "migrate"}
  BY Given
<1>2. PoolTyped(old) /\ Names(old.servers) = Names(Default[topology].servers)
  <2>1. Addressed(pool.servers)
    BY DEF ServersFaithful, AddressOfHost, Addressed
  <2>2. pool # NoPool => Names(pool.servers) = Names(Default[topology].servers)
    BY DEF ServersFaithful, SameServers
  <2>. QED
    BY <1>1, <2>1, <2>2, GetFaithful
<1>3. Spread(old, topology)
  BY <1>1, GetSpread
<1>. HIDE DEF old
<1>4. DOMAIN old.servers = 1 .. Cardinality(Storage(topology))
  <2>1. DOMAIN Names(old.servers) = DOMAIN old.servers
        /\ DOMAIN Names(Default[topology].servers) = DOMAIN Default[topology].servers
    BY DEF Names
  <2>. QED
    BY <1>1, <1>2, <2>1, DefaultNames
<1>5. ASSUME job.name # "deploy"
      PROVE  \A dc \in Added(topology, job.new) : dc.role \in {"chunkserver", "metaserver"}
  <2>1. Planned(todo, topology, job.new) /\ todo \in Seq(StepRecord)
    BY <1>5, TypeFacts DEF ReshapeIInv, Progress, Reshaping
  <2>2. About(Step, topology, job.new)
    BY <2>1, PlannedTail DEF Step
  <2>. QED
    BY <2>2 DEF About
<1>6. CASE job.name = "deploy"
  BY <1>3, <1>6 DEF NewPool, NewTopology, old
<1>7. CASE job.name = "scale-out"
  <2>1. /\ job.new \in DOMAIN ScaleOuts[topology] /\ job.new \in Written
        /\ AddedInOrder[topology][job.new] = SortDeployConfigs(Added(topology, job.new))
        /\ Deleted(topology, job.new) = {} /\ InPlace(topology, job.new)
    BY <1>1, <1>7, Given, ScaleOutPlanned DEF NewTopology
  <2>2. \A dc \in Added(topology, job.new) : dc.role = StorageRole(Kind[topology])
    BY <1>1, <1>5, <1>7, <2>1, SameKind, StorageAdded
  <2>3. Spread(NewPool, job.new)
    BY <1>1, <1>2, <1>3, <1>4, <1>7, <2>1, <2>2, ScaleOutSpread DEF NewPool, old
  <2>. QED
    BY <1>7, <2>3 DEF NewTopology
<1>8. CASE job.name = "migrate"
  <2>1. /\ job.new \in DOMAIN Migrates[topology] /\ job.new \in Written
        /\ MigrateAllowed(Services[topology], Services[job.new])
        /\ InPlace(topology, job.new)
    BY <1>8, Given DEF NewTopology
  <2>2. Kind[topology] = Kind[job.new]
    BY <1>1, <2>1, SameKind DEF MigrateAllowed, Added, Deleted
  <2>3. \A dc \in Added(topology, job.new) : dc.role = StorageRole(Kind[topology])
    BY <1>1, <1>5, <1>8, <2>1, <2>2, StorageAdded
  <2>4. \A k \in 1 .. Cardinality(Storage(topology)) :
          SamePlaceAs(StorageInOrder[job.new][k], StorageInOrder[topology][k])
    BY <1>1, <2>1, <2>3, NamesMigrated
  <2>5. NewPool = MigrateClusterServer(old, AddedInOrder[topology][job.new],
                                       DeletedInOrder[topology][job.new])
    BY <1>8 DEF NewPool, old
  <2>6. /\ DOMAIN NewPool.servers = DOMAIN old.servers /\ NewPool.npools = old.npools
        /\ Keeps(old.servers, NewPool.servers)
    <3>1. DOMAIN NewPool.servers = DOMAIN old.servers /\ NewPool.npools = old.npools
      BY <1>2, <2>5 DEF MigrateClusterServer, PoolTyped, Pool
    <3>2. Keeps(old.servers, NewPool.servers)
      BY <1>2, <2>5, MigrateKeeps
    <3>. QED
      BY <3>1, <3>2
  <2>7. Spread(NewPool, job.new)
    BY <1>3, <1>4, <2>4, <2>6, SpreadKept
  <2>. QED
    BY <1>8, <2>7 DEF NewTopology
<1>. QED
  BY <1>1, <1>6, <1>7, <1>8

-----------------------------------------------------------------------------
(* The hosts of a pool. *)

\* The servers are in the logical pools that there are, and a stored pool has one.
Pooled(p) ==
  /\ \A i \in DOMAIN p.servers : p.servers[i].pool \in 1 .. p.npools
  /\ p # NoPool => p.npools # 0

\* As long as no pool is stored, the stored topology has three deploys of the storage role.
Founded == topology # None /\ pool = NoPool => GetHostNum(Storage(topology)) >= 3

\* What HostsInOneZone says of a pool.
ZonesApart(p) ==
  /\ \A i, j \in DOMAIN p.servers :
       p.servers[i].ip = p.servers[j].ip /\ p.servers[i].pool = p.servers[j].pool
         => p.servers[i].zone = p.servers[j].zone
  /\ \A k \in 1 .. p.npools :
       {p.servers[i].zone : i \in {i \in DOMAIN p.servers : p.servers[i].pool = k}}
         = 1 .. DEFAULT_ZONES_PER_POOL

\* The pool that a step stores is in the pools that it has, and is a pool.
LEMMA NewPoolPooled ==
  ASSUME ReshapeIInv, ~ Idle, todo # << >>, Pooled(pool)
  PROVE  Pooled(NewPool) /\ NewPool # NoPool
<1>. DEFINE old == GetClusterPool(Kind[topology], Default[topology], pool)
<1>1. PoolTyped(old) /\ topology \in Written /\ PoolTyped(pool)
  BY Given, DefaultTyped, GetTyped
<1>2. old.npools # 0 /\ \A i \in DOMAIN old.servers : old.servers[i].pool \in 1 .. old.npools
  <2>1. CASE pool = NoPool
    <3>1. old = Default[topology] /\ old.npools = 1 /\ old.servers = Servers(StorageInOrder[topology], 1)
      BY <1>1, <2>1, DefaultTyped DEF GetClusterPool
    <3>. HIDE DEF old
    <3>. QED
      BY <3>1 DEF Servers
  <2>2. CASE pool # NoPool
    <3>1. DOMAIN old.servers = DOMAIN pool.servers /\ old.npools = pool.npools
      BY <1>1, <2>2 DEF GetClusterPool, PoolTyped, Pool
    <3>2. Keeps(pool.servers, old.servers)
      BY <1>1, GetKeeps
    <3>. HIDE DEF old
    <3>. QED
      BY <2>2, <3>1, <3>2 DEF Keeps, Pooled
  <2>. QED
    BY <2>1, <2>2
<1>. HIDE DEF old
<1>3. old.npools \in Nat \ {0}
  BY <1>1, <1>2 DEF PoolTyped, Pool
<1>4. CASE job.name = "scale-out"
  <2>. DEFINE dcs == AddedInOrder[topology][job.new]
              a == old.servers
              b == Servers(dcs, old.npools + 1)
  <2>1. dcs \in Seq(Services[job.new]) /\ job.new \in Written
    BY <1>4, Given
  <2>2. NewPool.servers = a \o b /\ NewPool.npools = old.npools + 1
    BY <1>4 DEF NewPool, old, ScaleOutClusterPool, GenerateClusterPool
  <2>3. \A i \in 1 .. Len(b) : b[i].pool = old.npools + 1
    BY <2>1 DEF Servers
  <2>4. a \in Seq(Server) /\ b \in Seq(Server)
    BY <1>1, <1>3, <2>1, ServersTyped DEF PoolTyped, Pool
  <2>. HIDE DEF a, b, dcs
  <2>5. /\ a \o b \in Seq(Server) /\ Len(a \o b) = Len(a) + Len(b)
        /\ \A i \in 1 .. Len(a) + Len(b) : (a \o b)[i] = IF i <= Len(a) THEN a[i] ELSE b[i - Len(a)]
    BY ONLY <2>4, ConcatProperties, Zenon
  <2>6. /\ DOMAIN (a \o b) = 1 .. Len(a) + Len(b) /\ DOMAIN a = 1 .. Len(a)
        /\ Len(a) \in Nat /\ Len(b) \in Nat
    BY <2>4, <2>5, LenProperties
  <2>7. ASSUME NEW i \in DOMAIN (a \o b)
        PROVE  (a \o b)[i].pool \in 1 .. old.npools + 1
    <3>1. CASE i <= Len(a)
      <4>1. i \in DOMAIN a /\ (a \o b)[i] = a[i]
        BY <2>5, <2>6, <3>1
      <4>2. a[i].pool \in 1 .. old.npools
        BY <1>2, <4>1 DEF a
      <4>. QED
        BY <1>3, <4>1, <4>2
    <3>2. CASE ~ (i <= Len(a))
      <4>1. PICK j \in 1 .. Len(b) : j = i - Len(a)
        BY <2>6, <3>2
      <4>2. (a \o b)[i] = b[j]
        BY <2>5, <2>6, <3>2, <4>1
      <4>. QED
        BY <1>3, <2>3, <4>2
    <3>. QED
      BY <3>1, <3>2
  <2>. QED
    BY <1>3, <2>2, <2>7 DEF Pooled, NoPool
<1>5. CASE job.name = "migrate"
  <2>1. NewPool = MigrateClusterServer(old, AddedInOrder[topology][job.new],
                                       DeletedInOrder[topology][job.new])
    BY <1>5 DEF NewPool, old
  <2>2. DOMAIN NewPool.servers = DOMAIN old.servers /\ NewPool.npools = old.npools
    BY <1>1, <2>1 DEF MigrateClusterServer, PoolTyped, Pool
  <2>3. Keeps(old.servers, NewPool.servers)
    BY <1>1, <2>1, MigrateKeeps
  <2>. QED
    BY <1>2, <1>3, <2>2, <2>3 DEF Keeps, Pooled, NoPool
<1>6. CASE job.name \notin {"scale-out", "migrate"}
  <2>1. NewPool = old
    BY <1>6 DEF NewPool, old
  <2>. QED
    BY <1>2, <1>3, <2>1 DEF Pooled, NoPool
<1>. QED
  BY <1>4, <1>5, <1>6

\* Three deploys by the parent ids of the checks are three first services in order.
LEMMA EnoughHosts ==
  ASSUME NEW n \in Written, GetHostNum(Storage(n)) >= 3
  PROVE  Apart(n)
<1>1. Storage(n) \in SUBSET Services[n] /\ IsSameRole(Storage(n)) /\ Whole(Storage(n))
      /\ StorageInOrder[n] = SortDeployConfigs(Storage(n))
  BY StorageIs, StorageSorted, StorageWhole DEF Storage
<1>. DEFINE firsts == Firsts(StorageInOrder[n])
<1>2. IsFiniteSet(firsts) /\ GetHostNum(Storage(n)) <= Cardinality(firsts)
  BY <1>1, ZonesSpread
<1>. HIDE DEF firsts
<1>3. Cardinality(firsts) \in Nat
  BY <1>2, FS_CardinalityType
<1>4. GetHostNum(Storage(n)) \in Nat
  <2>1. IsFiniteSet(Storage(n))
    BY StorageIs DEF Sortable
  <2>2. IsFiniteSet({dc.parentId : dc \in Storage(n)})
    BY <2>1, ParentsFinite
  <2>. QED
    BY <2>2, FS_CardinalityType DEF GetHostNum
<1>5. Cardinality(firsts) >= DEFAULT_ZONES_PER_POOL
  BY <1>2, <1>3, <1>4 DEF DEFAULT_ZONES_PER_POOL
<1>. QED
  BY <1>5 DEF Apart, firsts

\* step2CheckServices lets only topologies with three deploys be committed.
LEMMA CommittedFounded ==
  ASSUME NEW n \in Written, CheckServices(Kind[n], Services[n])
  PROVE  GetHostNum(Storage(n)) >= 3
<1>1. StorageRole(Kind[n]) \in Roles(Kind[n]) /\ StorageRole(Kind[n]) # "snapshotclone"
  BY TopologyFacts DEF StorageRole, Roles, CURVEBS_ROLES, CURVEFS_ROLES
<1>. QED
  BY <1>1 DEF CheckServices, Storage

\* A change of other services leaves the deploys of the storage role.
LEMMA OthersChange ==
  ASSUME NEW old \in Written, NEW new \in Written, Kind[old] = Kind[new],
         \A dc \in Added(old, new) \cup Deleted(old, new) : dc.role # StorageRole(Kind[old])
  PROVE  GetHostNum(Storage(new)) = GetHostNum(Storage(old))
<1>1. ASSUME NEW n \in Written, NEW m \in Written, Kind[n] = Kind[m], NEW dc \in Storage(n),
             dc.id \in Ids(Services[m])
      PROVE  \E twin \in Storage(m) : twin.parentId = dc.parentId
  <2>1. dc \in Services[n] /\ dc.role = StorageRole(Kind[m])
    BY <1>1, StorageIs
  <2>2. /\ Twin(m, dc) \in Services[m] /\ Twin(m, dc).id = dc.id /\ Twin(m, dc).role = dc.role
    BY <1>1, <2>1, TwinIs
  <2>3. /\ dc.id = <<dc.role, dc.host, dc.name, dc.replicasSequence>>
        /\ Twin(m, dc).id = <<Twin(m, dc).role, Twin(m, dc).host, Twin(m, dc).name,
                              Twin(m, dc).replicasSequence>>
        /\ dc.parentId = <<dc.role, dc.host, dc.name, 0>>
        /\ Twin(m, dc).parentId = <<Twin(m, dc).role, Twin(m, dc).host, Twin(m, dc).name, 0>>
    BY <2>1, <2>2, ServiceTyped, ParentIds
  <2>4. Twin(m, dc) \in Storage(m)
    BY <2>1, <2>2, StorageIs
  <2>5. Twin(m, dc).parentId = dc.parentId
    BY <2>2, <2>3
  <2>. QED
    BY <2>4, <2>5
<1>2. \A dc \in Storage(old) : dc.id \in Ids(Services[new])
  BY StorageIs DEF Deleted, DiffDelete
<1>3. \A dc \in Storage(new) : dc.id \in Ids(Services[old])
  BY StorageIs DEF Added, DiffAdd
<1>4. {dc.parentId : dc \in Storage(new)} = {dc.parentId : dc \in Storage(old)}
  BY <1>1, <1>2, <1>3
<1>. QED
  BY <1>4 DEF GetHostNum

\* Every step keeps the pools numbered, and until a pool is stored the three deploys.
LEMMA FoundedPreserved ==
  ASSUME ReshapeIInv, Pooled(pool), Founded, [Next]_vars
  PROVE  Pooled(pool') /\ Founded'
<1>1. CASE ~ Idle /\ todo # << >> /\ pool' = NewPool
  BY <1>1, NewPoolPooled DEF Founded
<1>2. CASE UNCHANGED pool
  <2>1. CASE topology' = topology
    BY <1>2, <2>1 DEF Founded
  <2>2. ASSUME NEW new \in Written, Commit(new)
        PROVE  Founded'
    <3>1. topology' = new /\ new \in Commits[topology]
      BY <2>2 DEF Commit
    <3>2. topology \in DOMAIN Services
      BY TopologyFacts, TypeFacts DEF ReshapeIInv
    <3>3. CheckServices(Kind[new], Services[new])
      BY <3>1, <3>2 DEF Commits
    <3>. QED
      BY <3>1, <3>3, CommittedFounded DEF Founded
  <2>3. CASE UpdateTopology /\ topology' # topology
    <3>1. topology' = job.new /\ ~ Idle /\ todo # << >> /\ Step.type = "UPDATE_TOPOLOGY"
      BY <2>3 DEF UpdateTopology, Doing
    <3>2. topology \in Written /\ GetHostNum(Storage(job.new)) = GetHostNum(Storage(topology))
      BY <3>1, RunKind, OthersChange
    <3>. QED
      BY <1>2, <3>1, <3>2, TopologyFacts DEF Founded
  <2>4. ASSUME ~ Idle, todo # << >>, NEW done \in Outcomes, Work(done), topology' # topology
        PROVE  Founded'
    <3>1. pool' = NewPool
      BY <2>4 DEF Work, CreateContainer, StartService, StopService, CleanService,
                  CreatePool, StoresLogicalPool, stored
    <3>. QED
      BY <1>1, <2>4, <3>1
  <2>5. Founded'
    BY <2>1, <2>2, <2>3, <2>4 DEF Next, PlaybookStep, ScaleOut, Migrate, Deploy, Begin,
                                  StepRefused, Succeed, stored, vars
  <2>. QED
    BY <1>2, <2>5
<1>. QED
  BY <1>1, <1>2, PoolChanges

\* Servers whose hosts are each in one zone are spread over the deploys.
LEMMA MeansSpread ==
  ASSUME NEW n \in Written, NEW p, Names(p.servers) = Names(Default[n].servers),
         Addressed(p.servers), Pooled(p), ZonesApart(p)
  PROVE  Spread(p, n)
<1>1. \A i \in DOMAIN p.servers : /\ p.servers[i].ip = StorageInOrder[n][i].host
                                  /\ StorageInOrder[n][i] \in Storage(n)
  BY StoredInOrder
<1>2. ASSUME NEW i \in DOMAIN p.servers, NEW j \in DOMAIN p.servers,
             StorageInOrder[n][i].hostSequence = StorageInOrder[n][j].hostSequence
      PROVE  p.servers[i].ip = p.servers[j].ip
  BY <1>1, <1>2, OneHost
<1>3. ASSUME NEW k \in 1 .. p.npools
      PROVE  /\ \A i \in DOMAIN p.servers :
                  p.servers[i].pool = k => p.servers[i].zone \in 1 .. DEFAULT_ZONES_PER_POOL
             /\ \A z \in 1 .. DEFAULT_ZONES_PER_POOL :
                  \E i \in DOMAIN p.servers : p.servers[i].pool = k /\ p.servers[i].zone = z
  <2>. DEFINE zones == {p.servers[i].zone : i \in {i \in DOMAIN p.servers : p.servers[i].pool = k}}
  <2>1. zones = 1 .. DEFAULT_ZONES_PER_POOL
    BY DEF ZonesApart
  <2>2. \A i \in DOMAIN p.servers : p.servers[i].pool = k => p.servers[i].zone \in zones
    OBVIOUS
  <2>3. \A z \in zones : \E i \in DOMAIN p.servers : p.servers[i].pool = k /\ p.servers[i].zone = z
    OBVIOUS
  <2>. QED
    BY <2>1, <2>2, <2>3
<1>4. \A i \in DOMAIN p.servers : p.servers[i].pool \in 1 .. p.npools
  BY DEF Pooled
<1>5. \A i, j \in DOMAIN p.servers :
        p.servers[i].ip = p.servers[j].ip /\ p.servers[i].pool = p.servers[j].pool
          => p.servers[i].zone = p.servers[j].zone
  BY DEF ZonesApart
<1>. QED
  BY <1>2, <1>3, <1>4, <1>5 DEF Spread

\* A pool that is spread keeps the copies of its data on different hosts, where no two
\* deploys share one.
LEMMA SpreadMeans ==
  ASSUME NEW n \in Written, NEW p, Names(p.servers) = Names(Default[n].servers),
         Addressed(p.servers), Spread(p, n), ~ SharesHost(n)
  PROVE  ZonesApart(p)
<1>1. \A i \in DOMAIN p.servers : /\ p.servers[i].ip = StorageInOrder[n][i].host
                                  /\ StorageInOrder[n][i] \in Storage(n)
  BY StoredInOrder
<1>2. ASSUME NEW i \in DOMAIN p.servers, NEW j \in DOMAIN p.servers,
             p.servers[i].ip = p.servers[j].ip
      PROVE  StorageInOrder[n][i].hostSequence = StorageInOrder[n][j].hostSequence
  BY <1>1, <1>2 DEF SharesHost
<1>3. ASSUME NEW k \in 1 .. p.npools
      PROVE  {p.servers[i].zone : i \in {i \in DOMAIN p.servers : p.servers[i].pool = k}}
               = 1 .. DEFAULT_ZONES_PER_POOL
  <2>1. \A i \in DOMAIN p.servers : p.servers[i].zone \in 1 .. DEFAULT_ZONES_PER_POOL
    BY DEF Spread
  <2>2. \A z \in 1 .. DEFAULT_ZONES_PER_POOL :
          \E i \in DOMAIN p.servers : p.servers[i].pool = k /\ p.servers[i].zone = z
    BY <1>3 DEF Spread
  <2>. QED
    BY <2>1, <2>2
<1>. QED
  BY <1>2, <1>3 DEF ZonesApart, Spread

\* A step that leaves services in place, for a topology whose deploys are hosts, keeps the
\* zones apart.
LEMMA ZonedPreserved ==
  ASSUME ReshapeIInv, Pooled(pool), Founded, ServersFaithful, HostsInOneZone, [Next]_vars,
         topology # None => InPlace(topology, topology'), ~ SharesHost(topology')
  PROVE  HostsInOneZone'
<1>1. CASE UNCHANGED pool
  BY <1>1 DEF HostsInOneZone
<1>2. CASE ~ Idle /\ todo # << >> /\ Step.type = "CREATE_LOGICAL_POOL"
           /\ pool' = NewPool /\ topology' = NewTopology
  <2>1. topology \in Written /\ NewTopology \in Written /\ InPlace(topology, NewTopology)
    BY <1>2, Given, PoolMade, TopologyFacts
  <2>2. Names(NewPool.servers) = Names(Default[NewTopology].servers) /\ Addressed(NewPool.servers)
    BY <1>2, <2>1, NewPoolFaithful
  <2>3. pool = NoPool => Apart(topology)
    BY <2>1, TopologyFacts, EnoughHosts DEF Founded
  <2>4. pool # NoPool => Spread(pool, topology)
    BY <2>1, MeansSpread DEF ServersFaithful, SameServers, AddressOfHost, Addressed,
                             HostsInOneZone, ZonesApart
  <2>5. Spread(NewPool, NewTopology)
    BY <1>2, <2>1, <2>3, <2>4, NewPoolSpread
  <2>6. ZonesApart(NewPool)
    BY <1>2, <2>1, <2>2, <2>5, SpreadMeans
  <2>. QED
    BY <1>2, <2>6 DEF HostsInOneZone, ZonesApart
<1>. QED
  BY <1>1, <1>2, PoolChanges

\* Whatever was committed, scaled out or migrated and whatever failed: servers that are true
\* of the hosts, and have the services of a host in one zone and servers in all three zones of
\* a logical pool, keep both in every step but one that stores a topology which moves storage
\* services to other places, or in which two deploys share a host.
THEOREM HostsSpread ==
  Spec => ZonedUntilMisplaced
<1>1. Init => Pooled(pool) /\ Founded
  BY DEF Init, Pooled, Founded, NoPool
<1>2. ReshapeIInv /\ Pooled(pool) /\ Founded /\ [Next]_vars => Pooled(pool)' /\ Founded'
  BY FoundedPreserved
<1>3. ReshapeIInv /\ ReshapeIInv' /\ Pooled(pool) /\ Founded /\ [Next]_vars =>
        [ServersFaithful /\ HostsInOneZone /\ ~ HostsInOneZone' =>
           Misplaces(topology, topology') \/ SharesHost(topology')]_vars
  <2>1. SUFFICES ASSUME ReshapeIInv, ReshapeIInv', Pooled(pool), Founded, [Next]_vars,
                        ServersFaithful, HostsInOneZone,
                        ~ Misplaces(topology, topology'), ~ SharesHost(topology')
                 PROVE  HostsInOneZone'
    OBVIOUS
  <2>2. topology \in DOMAIN Services /\ topology' \in DOMAIN Services
    <3>1. TypeOK /\ TypeOK'
      BY <2>1 DEF ReshapeIInv
    <3>2. topology \in Written \cup {None} /\ topology' \in Written \cup {None}
      BY <3>1 DEF TypeOK
    <3>. QED
      BY <3>2, TopologyFacts
  <2>3. topology # None => InPlace(topology, topology')
    BY <2>1, <2>2, TopologyFacts, Placed
  <2>. QED
    BY <2>1, <2>3, ZonedPreserved
<1>. QED
  BY <1>1, <1>2, <1>3, Invariance, NextPreserves, PTL DEF Spec, ZonedUntilMisplaced
=============================================================================
