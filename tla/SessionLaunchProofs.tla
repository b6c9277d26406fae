------------------------- MODULE SessionLaunchProofs ------------------------
(***************************************************************************)
(* Proofs about SessionRouting and SessionLaunch, for any accounts, pools, *)
(* stacks and commands:                                                    *)
(*   - the n-th route of an order is what its name says;                   *)
(*   - a new session is on the best accounts there are, each of which its  *)
(*     random number can reach;                                            *)
(*   - what is bound under a lock stays on the locked account;             *)
(*   - a resume without changes keeps the session as it is;                *)
(*   - a session is saved only after its run is complete and verified.     *)
(***************************************************************************)
EXTENDS SessionLaunch, FiniteSetTheorems, TLAPS

Registries == [Accounts -> [active : BOOLEAN, priority : Nat]]
Views == [stacks : DOMAIN Versions, locks : DOMAIN Versions,
          registry : Registries, live : SUBSET (Accounts \X Models)]

-----------------------------------------------------------------------------
(* The order of routes                                                     *)

LEMMA KeysAreNumbers ==
    ASSUME NEW r \in Routes
    PROVE  /\ PoolIndex(r) \in DOMAIN Pools /\ Pools[PoolIndex(r)] = PoolOf[r.account]
           /\ PoolIndex(r) \in Nat /\ RankOf(r) \in Nat
           /\ r.priority \in Nat /\ r.account \in Nat /\ r.account \in Accounts
  <1>1. r.account \in Accounts /\ r.priority \in Nat
    BY DEF Routes
  <1>2. \E k \in DOMAIN Pools : Pools[k] = PoolOf[r.account]
    <2>1. PoolOf[r.account] \in Range(Pools)
      BY <1>1, RoutingAssumption
    <2>. QED
      BY <2>1 DEF Range
  <1>3. PoolIndex(r) \in DOMAIN Pools /\ Pools[PoolIndex(r)] = PoolOf[r.account]
    BY <1>2 DEF PoolIndex
  <1>4. RankOf(r) \in Nat
    BY <1>1, RoutingAssumption DEF RankOf
  <1>. QED
    BY <1>1, <1>3, <1>4, RoutingAssumption

LEMMA OrderIsStrict ==
    ASSUME NEW r \in Routes, NEW q \in Routes, NEW s \in Routes
    PROVE  /\ ~Precedes(r, r)
           /\ Precedes(r, q) /\ Precedes(q, s) => Precedes(r, s)
           /\ r.account # q.account => Precedes(r, q) \/ Precedes(q, r)
  BY KeysAreNumbers DEF Precedes

\* Routes that are told apart by their accounts.
Distinct(routes) ==
    /\ routes \subseteq Routes /\ IsFiniteSet(routes)
    /\ \A r, q \in routes : r.account = q.account => r = q

Below(routes, r) == {q \in routes : Precedes(q, r)}

LEMMA DistinctSubset ==
    ASSUME NEW routes, Distinct(routes), NEW part \in SUBSET routes
    PROVE  Distinct(part)
  BY FS_Subset DEF Distinct

LEMMA Counts ==
    ASSUME NEW routes, Distinct(routes)
    PROVE  /\ Cardinality(routes) \in Nat
           /\ routes # {} => Cardinality(routes) > 0
           /\ \A r \in routes : Cardinality(Below(routes, r)) \in 0..Cardinality(routes) - 1
           /\ \A r, q \in routes : Precedes(r, q) =>
                 Cardinality(Below(routes, r)) < Cardinality(Below(routes, q))
  <1>1. Cardinality(routes) \in Nat /\ (routes # {} => Cardinality(routes) > 0)
    BY FS_CardinalityType, FS_EmptySet DEF Distinct
  <1>2. ASSUME NEW r \in routes
        PROVE  /\ IsFiniteSet(Below(routes, r)) /\ Cardinality(Below(routes, r)) \in Nat
               /\ Cardinality(Below(routes, r) \cup {r}) = Cardinality(Below(routes, r)) + 1
               /\ IsFiniteSet(Below(routes, r) \cup {r})
    <2>1. r \notin Below(routes, r)
      BY OrderIsStrict DEF Below, Distinct
    <2>2. IsFiniteSet(Below(routes, r))
      BY FS_Subset DEF Below, Distinct
    <2>. QED
      BY <2>1, <2>2, FS_CardinalityType, FS_AddElement
  <1>3. ASSUME NEW r \in routes
        PROVE  Cardinality(Below(routes, r)) \in 0..Cardinality(routes) - 1
    <2>1. Below(routes, r) \cup {r} \in SUBSET routes
      BY DEF Below
    <2>2. Cardinality(Below(routes, r) \cup {r}) <= Cardinality(routes)
      BY <2>1, FS_Subset DEF Distinct
    <2>. QED
      BY <1>1, <1>2, <2>2
  <1>4. ASSUME NEW r \in routes, NEW q \in routes, Precedes(r, q)
        PROVE  Cardinality(Below(routes, r)) < Cardinality(Below(routes, q))
    <2>1. Below(routes, r) \cup {r} \in SUBSET Below(routes, q)
      BY <1>4, OrderIsStrict DEF Below, Distinct
    <2>2. Cardinality(Below(routes, r) \cup {r}) <= Cardinality(Below(routes, q))
      BY <1>2, <2>1, FS_Subset
    <2>3. Cardinality(Below(routes, r) \cup {r}) = Cardinality(Below(routes, r)) + 1
      BY <1>2
    <2>4. Cardinality(Below(routes, r)) \in Nat /\ Cardinality(Below(routes, q)) \in Nat
      BY <1>2
    <2>. QED
      BY <2>2, <2>3, <2>4
  <1>. QED
    BY <1>1, <1>3, <1>4

\* Each route has its number, and each number its route.
LEMMA NthIsTheNth ==
    ASSUME NEW routes, Distinct(routes)
    PROVE  /\ \A n \in 0..Cardinality(routes) - 1 :
                 /\ Nth(routes, n) \in routes
                 /\ Cardinality(Below(routes, Nth(routes, n))) = n
           /\ \A r \in routes : r = Nth(routes, Cardinality(Below(routes, r)))
  <1>. DEFINE f == [r \in routes |-> Cardinality(Below(routes, r))]
              T == 0..Cardinality(routes) - 1
  <1>1. f \in [routes -> T]
    BY Counts
  <1>2. ASSUME NEW r \in routes, NEW q \in routes, f[r] = f[q] PROVE r = q
    <2>1. Cardinality(Below(routes, r)) = Cardinality(Below(routes, q))
      BY <1>2
    <2>2. ~Precedes(r, q) /\ ~Precedes(q, r)
      <3>1. \A s \in routes : Cardinality(Below(routes, s)) \in Nat
        BY Counts
      <3>. HIDE DEF f
      <3>. QED
        BY <2>1, <3>1, Counts
    <2>. QED
      BY <2>2, OrderIsStrict DEF Distinct
  <1>3. f \in Injection(routes, T)
    BY <1>1, <1>2 DEF Injection, IsInjective
  <1>4. IsFiniteSet(T) /\ Cardinality(T) = Cardinality(routes)
    <2>1. Cardinality(routes) \in Nat
      BY Counts
    <2>. QED
      BY <2>1, FS_Interval
  <1>5. f \in Surjection(routes, T)
    BY <1>3, <1>4, FS_Injection
  <1>6. \A n \in T : \E r \in routes : Cardinality(Below(routes, r)) = n
    BY <1>5 DEF Surjection
  <1>7. \A n \in T : /\ Nth(routes, n) \in routes
                     /\ Cardinality(Below(routes, Nth(routes, n))) = n
    BY <1>6 DEF Nth, Below
  <1>8. ASSUME NEW r \in routes PROVE r = Nth(routes, Cardinality(Below(routes, r)))
    <2>1. Cardinality(Below(routes, r)) \in T
      BY Counts
    <2>. QED
      BY <1>2, <1>7, <2>1
  <1>. QED
    BY <1>7, <1>8

\* The first precedes all others.
LEMMA FirstPrecedes ==
    ASSUME NEW routes, Distinct(routes), routes # {}
    PROVE  /\ Nth(routes, 0) \in routes
           /\ \A q \in routes : ~Precedes(q, Nth(routes, 0))
           /\ \A q \in routes : q = Nth(routes, 0) \/ Precedes(Nth(routes, 0), q)
  <1>1. 0 \in 0..Cardinality(routes) - 1
    BY Counts
  <1>2. Nth(routes, 0) \in routes /\ Cardinality(Below(routes, Nth(routes, 0))) = 0
    BY <1>1, NthIsTheNth
  <1>3. IsFiniteSet(Below(routes, Nth(routes, 0)))
    BY FS_Subset DEF Below, Distinct
  <1>4. Below(routes, Nth(routes, 0)) = {}
    BY <1>2, <1>3, FS_EmptySet
  <1>. QED
    BY <1>2, <1>4, OrderIsStrict DEF Below, Distinct

LEMMA FirstIsUnique ==
    ASSUME NEW routes, Distinct(routes), NEW r \in routes,
           \A q \in routes : ~Precedes(q, r)
    PROVE  r = Nth(routes, 0)
  BY FirstPrecedes

-----------------------------------------------------------------------------
(* Numbers                                                                 *)

LEMMA LeastNumber ==
    ASSUME NEW S \in SUBSET Nat, S # {}
    PROVE  \E i \in S : \A j \in S : i <= j
  <1>1. \E i \in S : \A j \in S : ~(<<j, i>> \in OpToRel(<, Nat))
    BY NatLessThanWellFounded, WFMin
  <1>2. PICK i \in S : \A j \in S : ~(<<j, i>> \in OpToRel(<, Nat))
    BY <1>1
  <1>3. \A j \in S : ~(j < i)
    BY <1>2 DEF OpToRel
  <1>. QED
    BY <1>3

LEMMA Remainders ==
    ASSUME NEW n \in Nat, NEW k \in Nat, k > 0
    PROVE  /\ n % k \in 0..k - 1
           /\ n < k => n % k = n
  OBVIOUS

-----------------------------------------------------------------------------
(* eligible_routes and choose_new_session_route                            *)

LEMMA EligibleRoutes ==
    ASSUME NEW v \in Views, NEW c \in Candidates
    PROVE  /\ Distinct(Eligible(v, c))
           /\ \A r \in Eligible(v, c) :
                 /\ r = Route(v, r.account, c.model) /\ r.model = c.model
                 /\ r.account \in Usable(v, c, Pools[PoolIndex(r)])
                 /\ r.priority = v.registry[r.account].priority
                 /\ LockOf(v, c) \in {Anyone, r.account}
           /\ \A k \in DOMAIN Pools : \A a \in Usable(v, c, Pools[k]) :
                 /\ Route(v, a, c.model) \in Eligible(v, c)
                 /\ PoolIndex(Route(v, a, c.model)) = k
  <1>1. \A pool : Usable(v, c, pool) \subseteq {a \in Accounts : PoolOf[a] = pool}
    BY DEF Usable
  <1>2. \A a \in Accounts :
          /\ Route(v, a, c.model) \in Routes
          /\ Route(v, a, c.model).account = a /\ Route(v, a, c.model).model = c.model
          /\ Route(v, a, c.model).priority = v.registry[a].priority
    BY DEF Route, Routes, Views, Registries, Candidates
  <1>3. \A r \in Eligible(v, c) : \E k \in DOMAIN Pools : \E a \in Usable(v, c, Pools[k]) :
           r = Route(v, a, c.model)
    BY DEF Eligible, Range
  <1>4. ASSUME NEW k \in DOMAIN Pools, NEW a \in Usable(v, c, Pools[k])
        PROVE  /\ Route(v, a, c.model) \in Eligible(v, c)
               /\ PoolIndex(Route(v, a, c.model)) = k
    <2>1. Pools[k] \in Range(Pools)
      BY DEF Range
    <2>2. Route(v, a, c.model) \in Eligible(v, c)
      BY <2>1 DEF Eligible
    <2>3. a \in Accounts /\ PoolOf[a] = Pools[k]
      BY <1>1
    <2>4. /\ PoolIndex(Route(v, a, c.model)) \in DOMAIN Pools
          /\ Pools[PoolIndex(Route(v, a, c.model))] = Pools[k]
      BY <1>2, <2>3, KeysAreNumbers
    <2>5. PoolIndex(Route(v, a, c.model)) = k
      BY <2>4, RoutingAssumption DEF IsInjective
    <2>. QED
      BY <2>2, <2>5
  <1>5. ASSUME NEW r \in Eligible(v, c)
        PROVE  /\ r \in Routes /\ r = Route(v, r.account, c.model) /\ r.model = c.model
               /\ r.account \in Usable(v, c, Pools[PoolIndex(r)])
               /\ r.priority = v.registry[r.account].priority
    <2>1. PICK k \in DOMAIN Pools : \E a \in Usable(v, c, Pools[k]) : r = Route(v, a, c.model)
      BY <1>3
    <2>2. PICK a \in Usable(v, c, Pools[k]) : r = Route(v, a, c.model)
      BY <2>1
    <2>3. a \in Accounts
      BY <1>1
    <2>. QED
      BY <1>2, <1>4, <2>2, <2>3
  <1>6. Distinct(Eligible(v, c))
    <2>. DEFINE f == [r \in Eligible(v, c) |-> r.account]
    <2>1. f \in [Eligible(v, c) -> Accounts]
      BY <1>5 DEF Routes
    <2>2. \A r, q \in Eligible(v, c) : f[r] = f[q] => r = q
      BY <1>5
    <2>3. f \in Injection(Eligible(v, c), Accounts)
      BY <2>1, <2>2 DEF Injection, IsInjective
    <2>4. IsFiniteSet(Eligible(v, c))
      BY <2>3, FS_Injection, RoutingAssumption
    <2>. QED
      BY <1>5, <2>4 DEF Distinct
  <1>7. \A r \in Eligible(v, c) : LockOf(v, c) \in {Anyone, r.account}
    BY <1>5 DEF Usable
  <1>. QED
    BY <1>4, <1>5, <1>6, <1>7

\* Those that a new session chooses from.
Tier(v, c) ==
    {r \in Eligible(v, c) : /\ PoolIndex(r) = PoolIndex(Nth(Eligible(v, c), 0))
                            /\ r.priority = Nth(Eligible(v, c), 0).priority}

LEMMA TierIsDistinct ==
    ASSUME NEW v \in Views, NEW c \in Candidates, Eligible(v, c) # {}
    PROVE  /\ Distinct(Tier(v, c)) /\ Nth(Eligible(v, c), 0) \in Tier(v, c)
           /\ Cardinality(Tier(v, c)) \in Nat /\ Cardinality(Tier(v, c)) > 0
  <1>1. Nth(Eligible(v, c), 0) \in Tier(v, c)
    BY EligibleRoutes, FirstPrecedes DEF Tier
  <1>2. Distinct(Tier(v, c))
    BY EligibleRoutes, DistinctSubset DEF Tier
  <1>. QED
    BY <1>1, <1>2, Counts

LEMMA ChosenIsInTier ==
    ASSUME NEW v \in Views, NEW c \in Candidates, Eligible(v, c) # {}, NEW n \in Nat
    PROVE  ChooseRoute(v, c, n) \in Tier(v, c) /\ ChooseRoute(v, c, n) \in Eligible(v, c)
  <1>1. ChooseRoute(v, c, n) = Nth(Tier(v, c), n % Cardinality(Tier(v, c)))
    BY DEF ChooseRoute, Tier
  <1>2. n % Cardinality(Tier(v, c)) \in 0..Cardinality(Tier(v, c)) - 1
    BY TierIsDistinct, Remainders
  <1>3. ChooseRoute(v, c, n) \in Tier(v, c)
    BY <1>1, <1>2, TierIsDistinct, NthIsTheNth
  <1>. QED
    BY <1>3 DEF Tier

LEMMA ZeroChoosesFirst ==
    ASSUME NEW v \in Views, NEW c \in Candidates, Eligible(v, c) # {}
    PROVE  ChooseRoute(v, c, 0) = Nth(Eligible(v, c), 0)
  <1>1. ChooseRoute(v, c, 0) = Nth(Tier(v, c), 0 % Cardinality(Tier(v, c)))
    BY DEF ChooseRoute, Tier
  <1>2. 0 % Cardinality(Tier(v, c)) = 0
    BY TierIsDistinct, Remainders
  <1>3. \A q \in Tier(v, c) : ~Precedes(q, Nth(Eligible(v, c), 0))
    BY EligibleRoutes, FirstPrecedes DEF Tier
  <1>4. Nth(Eligible(v, c), 0) = Nth(Tier(v, c), 0)
    BY <1>3, TierIsDistinct, FirstIsUnique
  <1>. QED
    BY <1>1, <1>2, <1>4

\* The random number of a new session reaches each of them.
LEMMA TierIsReached ==
    ASSUME NEW v \in Views, NEW c \in Candidates, Eligible(v, c) # {},
           NEW r \in Tier(v, c)
    PROVE  \E n \in Ordinals : ChooseRoute(v, c, n) = r
  <1>. DEFINE n == Cardinality(Below(Tier(v, c), r))
              pool == PoolOf[r.account]
              pooled == {a \in Accounts : PoolOf[a] = pool}
  <1>1. n \in 0..Cardinality(Tier(v, c)) - 1 /\ r = Nth(Tier(v, c), n)
    BY TierIsDistinct, Counts, NthIsTheNth
  <1>2. n % Cardinality(Tier(v, c)) = n
    BY <1>1, TierIsDistinct, Remainders
  <1>3. ChooseRoute(v, c, n) = r
    BY <1>1, <1>2 DEF ChooseRoute, Tier
  <1>4. Cardinality(Tier(v, c)) <= Cardinality(pooled) /\ Cardinality(pooled) \in Nat
    <2>. DEFINE f == [q \in Tier(v, c) |-> q.account]
    <2>1. ASSUME NEW q \in Tier(v, c) PROVE q.account \in pooled
      <3>1. q \in Routes /\ r \in Routes /\ PoolIndex(q) = PoolIndex(r)
        BY TierIsDistinct DEF Tier, Distinct
      <3>. QED
        BY <3>1, KeysAreNumbers
    <2>2. f \in [Tier(v, c) -> pooled]
      BY <2>1
    <2>3. f \in Injection(Tier(v, c), pooled)
      BY <2>2, TierIsDistinct DEF Injection, IsInjective, Distinct
    <2>4. IsFiniteSet(pooled)
      BY FS_Subset, RoutingAssumption
    <2>. QED
      BY <2>3, <2>4, FS_Injection, FS_CardinalityType
  <1>5. pool \in Range(Pools)
    <2>1. r.account \in Accounts
      BY TierIsDistinct DEF Distinct, Routes
    <2>. QED
      BY <2>1, RoutingAssumption
  <1>6. 0..Cardinality(pooled) - 1 \subseteq Ordinals
    BY <1>5, LaunchAssumption
  <1>7. n \in Ordinals
    BY <1>1, <1>4, <1>6, TierIsDistinct
  <1>. QED
    BY <1>3, <1>7

\* What the code chooses by sorting is what is best, told without order.
InTier(v, c, a, m) == \E r \in Tier(v, c) : r.account = a /\ r.model = m
IsBest(v, c, a, m) ==
    \E k \in DOMAIN Pools :
        /\ First(k, PoolsFor(v, c))
        /\ a \in Usable(v, c, Pools[k]) /\ m = c.model
        /\ \A b \in Usable(v, c, Pools[k]) : v.registry[b].priority <= v.registry[a].priority

LEMMA TierIsBest ==
    ASSUME NEW v \in Views, NEW c \in Candidates, Eligible(v, c) # {}, NEW a, NEW m
    PROVE  InTier(v, c, a, m) <=> IsBest(v, c, a, m)
  <1>. DEFINE F == Nth(Eligible(v, c), 0)
              k0 == PoolIndex(F)
  <1>1. /\ F \in Eligible(v, c) /\ F \in Routes /\ k0 \in DOMAIN Pools /\ k0 \in Nat
        /\ F.account \in Usable(v, c, Pools[k0]) /\ F.priority \in Nat
        /\ F.priority = v.registry[F.account].priority
    BY EligibleRoutes, FirstPrecedes, KeysAreNumbers DEF Distinct
  <1>2. ASSUME NEW q \in Eligible(v, c)
        PROVE  /\ q \in Routes /\ PoolIndex(q) \in Nat /\ q.priority \in Nat
               /\ k0 <= PoolIndex(q)
               /\ PoolIndex(q) = k0 => q.priority <= F.priority
    <2>1. q \in Routes /\ PoolIndex(q) \in Nat /\ q.priority \in Nat
      BY EligibleRoutes, KeysAreNumbers DEF Distinct
    <2>2. ~Precedes(q, F)
      BY EligibleRoutes, FirstPrecedes
    <2>. QED
      BY <1>1, <2>1, <2>2 DEF Precedes
  <1>3. ASSUME NEW k \in DOMAIN Pools, NEW b \in Usable(v, c, Pools[k])
        PROVE  /\ Route(v, b, c.model) \in Eligible(v, c)
               /\ PoolIndex(Route(v, b, c.model)) = k
               /\ Route(v, b, c.model).account = b /\ Route(v, b, c.model).model = c.model
               /\ Route(v, b, c.model).priority = v.registry[b].priority
    BY EligibleRoutes DEF Route
  <1>4. First(k0, PoolsFor(v, c))
    <2>1. k0 \in PoolsFor(v, c)
      BY <1>1 DEF PoolsFor
    <2>2. ASSUME NEW k \in PoolsFor(v, c) PROVE k0 <= k
      <3>1. k \in DOMAIN Pools /\ \E b : b \in Usable(v, c, Pools[k])
        BY DEF PoolsFor
      <3>2. PICK b : b \in Usable(v, c, Pools[k])
        BY <3>1
      <3>. QED
        BY <1>2, <1>3, <3>1, <3>2
    <2>. QED
      BY <2>1, <2>2 DEF First
  <1>5. \A k \in DOMAIN Pools : First(k, PoolsFor(v, c)) => k = k0
    BY <1>1, <1>4, RoutingAssumption DEF First, PoolsFor
  <1>6. ASSUME NEW r \in Tier(v, c), r.account = a /\ r.model = m
        PROVE  /\ a \in Usable(v, c, Pools[k0]) /\ m = c.model
               /\ \A b \in Usable(v, c, Pools[k0]) :
                     v.registry[b].priority <= v.registry[a].priority
    <2>1. /\ r \in Eligible(v, c) /\ PoolIndex(r) = k0 /\ r.priority = F.priority
          /\ a = r.account /\ m = r.model
      BY <1>6 DEF Tier
    <2>2. a \in Usable(v, c, Pools[k0]) /\ m = c.model /\ v.registry[a].priority = F.priority
      BY <2>1, EligibleRoutes
    <2>3. ASSUME NEW b \in Usable(v, c, Pools[k0])
          PROVE  v.registry[b].priority <= F.priority
      BY <1>1, <1>2, <1>3
    <2>. QED
      BY <2>2, <2>3
  <1>7. ASSUME a \in Usable(v, c, Pools[k0]), m = c.model,
               \A b \in Usable(v, c, Pools[k0]) :
                     v.registry[b].priority <= v.registry[a].priority
        PROVE  \E r \in Tier(v, c) : r.account = a /\ r.model = m
    <2>. DEFINE r == Route(v, a, c.model)
    <2>1. /\ r \in Eligible(v, c) /\ PoolIndex(r) = k0 /\ r.account = a /\ r.model = c.model
          /\ r.priority = v.registry[a].priority
      BY <1>1, <1>3, <1>7
    <2>2. F.priority <= r.priority /\ r.priority <= F.priority /\ r.priority \in Nat
      BY <1>1, <1>2, <1>7, <2>1
    <2>3. r \in Tier(v, c)
      BY <1>1, <2>1, <2>2 DEF Tier
    <2>. QED
      BY <1>7, <2>1, <2>3
  <1>. QED
    BY <1>1, <1>4, <1>5, <1>6, <1>7 DEF InTier, IsBest

-----------------------------------------------------------------------------
(* resolve_session_plan                                                    *)

\* The candidates that a controller or an agent has, and the one they come to.
Able(v, candidates) == {i \in DOMAIN candidates : Eligible(v, candidates[i]) # {}}
Leading(v, candidates) ==
    candidates[CHOOSE i \in Able(v, candidates) : \A j \in Able(v, candidates) : i <= j]

LEMMA LeadingIsFirst ==
    ASSUME NEW v \in Views, NEW candidates \in Seq(Candidates), Able(v, candidates) # {}
    PROVE  /\ Leading(v, candidates) \in Candidates
           /\ Eligible(v, Leading(v, candidates)) # {}
           /\ \A i \in DOMAIN candidates : First(i, CandidatesFor(v, candidates))
                 => candidates[i] = Leading(v, candidates)
           /\ \E i \in DOMAIN candidates : First(i, CandidatesFor(v, candidates))
  <1>. DEFINE able == Able(v, candidates)
              i0 == CHOOSE i \in able : \A j \in able : i <= j
  <1>1. able \subseteq Nat /\ able \subseteq DOMAIN candidates
    BY DEF Able
  <1>2. \E i \in able : \A j \in able : i <= j
    BY <1>1, LeastNumber
  <1>3. i0 \in able /\ \A j \in able : i0 <= j
    BY <1>2
  <1>4. candidates[i0] \in Candidates /\ Eligible(v, candidates[i0]) # {}
    <2>1. \A i \in able : candidates[i] \in Candidates /\ Eligible(v, candidates[i]) # {}
      BY DEF Able
    <2>. HIDE DEF i0
    <2>. QED
      BY <1>3, <2>1
  <1>5. ASSUME NEW i \in DOMAIN candidates
        PROVE  i \in CandidatesFor(v, candidates) <=> i \in able
    <2>1. candidates[i] \in Candidates
      OBVIOUS
    <2>2. (\E k \in DOMAIN Pools : Usable(v, candidates[i], Pools[k]) # {})
            <=> Eligible(v, candidates[i]) # {}
      BY <2>1 DEF Eligible, Range
    <2>. QED
      BY <2>2 DEF CandidatesFor, PoolsFor, Able
  <1>6. CandidatesFor(v, candidates) = able
    BY <1>5 DEF CandidatesFor, Able
  <1>7. \A i : First(i, able) <=> i = i0
    BY <1>1, <1>3 DEF First
  <1>. QED
    BY <1>1, <1>3, <1>4, <1>6, <1>7 DEF Leading

LEMMA BestIsTier ==
    ASSUME NEW v \in Views, NEW candidates \in Seq(Candidates), Able(v, candidates) # {}
    PROVE  Best(v, candidates) = {<<r.account, r.model>> : r \in Tier(v, Leading(v, candidates))}
  <1>. DEFINE c == Leading(v, candidates)
  <1>1. /\ c \in Candidates /\ Eligible(v, c) # {}
        /\ \A i \in DOMAIN candidates : First(i, CandidatesFor(v, candidates)) => candidates[i] = c
        /\ \E i \in DOMAIN candidates : First(i, CandidatesFor(v, candidates))
    BY LeadingIsFirst
  <1>. HIDE DEF c
  <1>2. ASSUME NEW x \in Accounts \X Models
        PROVE  x \in Best(v, candidates) <=> IsBest(v, c, x[1], x[2])
    BY <1>1 DEF Best, IsBest
  <1>3. ASSUME NEW x \in Accounts \X Models
        PROVE  x \in Best(v, candidates) <=> \E r \in Tier(v, c) : r.account = x[1] /\ r.model = x[2]
    <2>1. InTier(v, c, x[1], x[2]) <=> IsBest(v, c, x[1], x[2])
      BY <1>1, TierIsBest
    <2>. QED
      BY <1>2, <2>1 DEF InTier
  <1>4. \A r \in Tier(v, c) : r.account \in Accounts /\ r.model \in Models
    BY <1>1, EligibleRoutes DEF Tier, Distinct, Routes
  <1>5. Best(v, candidates) \subseteq Accounts \X Models
    BY DEF Best
  <1>6. \A x \in Accounts \X Models : x = <<x[1], x[2]>>
    OBVIOUS
  <1>7. Best(v, candidates) = {<<r.account, r.model>> : r \in Tier(v, c)}
    BY <1>3, <1>4, <1>5, <1>6
  <1>. QED
    BY <1>7 DEF c

LEMMA AlternateIsOther ==
    ASSUME NEW v \in Views, NEW c \in Candidates, NEW r \in Eligible(v, c)
    PROVE  /\ Alternate(v, c, r) \in {NoRoute} \cup {q \in Eligible(v, c) : q.account # r.account}
           /\ r # Nth(Eligible(v, c), 0) => Alternate(v, c, r) = Nth(Eligible(v, c), 0)
  <1>. DEFINE others == {q \in Eligible(v, c) : q.account # r.account}
              F == Nth(Eligible(v, c), 0)
  <1>1. Distinct(Eligible(v, c)) /\ Distinct(others)
    BY EligibleRoutes, DistinctSubset
  <1>2. Alternate(v, c, r) = IF others = {} THEN NoRoute ELSE Nth(others, 0)
    BY DEF Alternate
  <1>3. others # {} => Nth(others, 0) \in others
    BY <1>1, FirstPrecedes
  <1>4. F \in Eligible(v, c) /\ \A q \in Eligible(v, c) : ~Precedes(q, F)
    BY <1>1, FirstPrecedes
  <1>5. ASSUME r # F PROVE Nth(others, 0) = F /\ others # {}
    <2>1. F \in others
      BY <1>1, <1>4, <1>5 DEF Distinct
    <2>. HIDE DEF F
    <2>. QED
      BY <1>1, <1>4, <2>1, FirstIsUnique
  <1>. QED
    BY <1>2, <1>3, <1>5

\* What a lock demands of a binding that was made under it.
Kept(b) == b.lock # Anyone => b.primary.account = b.lock /\ b.fallback = NoRoute

LEMMA Bound ==
    ASSUME NEW v \in Views, NEW c \in Candidates, Eligible(v, c) # {},
           NEW n \in Nat, NEW preferred, NEW b, b = BindCandidate(v, c, n, preferred)
    PROVE  /\ b \in Binds /\ Kept(b)
           /\ b.primary \in Eligible(v, c)
           /\ preferred = NoBinding => b.primary = ChooseRoute(v, c, n)
           /\ preferred = NoBinding \/ n = 0 => b.fallback = Alternate(v, c, b.primary)
           /\ preferred # NoBinding /\ preferred.primary \in Eligible(v, c)
                => b.primary = preferred.primary
  <1>. DEFINE chosen == ChooseRoute(v, c, n)
              keeps == preferred # NoBinding /\ preferred.primary \in Eligible(v, c)
              primary == IF keeps THEN preferred.primary ELSE chosen
              fallback == IF keeps /\ chosen # preferred.primary THEN chosen
                          ELSE Alternate(v, c, chosen)
  <1>1. b = [primary |-> primary, fallback |-> fallback, lock |-> LockOf(v, c)]
    BY DEF BindCandidate, Binding
  <1>2. chosen \in Eligible(v, c) /\ primary \in Eligible(v, c)
    BY ChosenIsInTier
  <1>3. fallback = NoRoute \/ (fallback \in Eligible(v, c) /\ fallback.account # primary.account)
    BY <1>2, AlternateIsOther, EligibleRoutes DEF Distinct
  <1>4. \A r \in Eligible(v, c) : r \in Routes /\ LockOf(v, c) \in {Anyone, r.account}
    BY EligibleRoutes DEF Distinct
  <1>5. LockOf(v, c) \in Accounts \cup {Anyone} /\ primary \in Routes /\ fallback \in Routes \cup {NoRoute}
    BY <1>2, <1>3, <1>4 DEF Routes
  <1>6. b \in Binds
    BY <1>1, <1>5 DEF Binds
  <1>7. Kept(b)
    BY <1>1, <1>2, <1>3, <1>4 DEF Kept
  <1>8. preferred = NoBinding \/ n = 0 => fallback = Alternate(v, c, primary)
    <2>1. CASE ~keeps \/ chosen = preferred.primary
      BY <2>1
    <2>2. CASE keeps /\ chosen # preferred.primary
      <3>1. n = 0 => chosen = Nth(Eligible(v, c), 0)
        BY ZeroChoosesFirst
      <3>. QED
        BY <2>2, <3>1, AlternateIsOther
    <2>. QED
      BY <2>1, <2>2
  <1>. QED
    BY <1>1, <1>2, <1>6, <1>7, <1>8

LEMMA BoundFirst ==
    ASSUME NEW v \in Views, NEW candidates \in Seq(Candidates), NEW n, NEW preferred
    PROVE  /\ BindFirst(v, candidates, n, preferred) =
                 IF Able(v, candidates) = {} THEN NoBinding
                 ELSE BindCandidate(v, Leading(v, candidates), n, preferred)
           /\ n \in Nat /\ BindFirst(v, candidates, n, preferred) # NoBinding
                => BindFirst(v, candidates, n, preferred) \in Binds
           /\ n \in Nat /\ Able(v, candidates) # {}
                => BindFirst(v, candidates, n, preferred) # NoBinding
  <1>1. BindFirst(v, candidates, n, preferred) =
           IF Able(v, candidates) = {} THEN NoBinding
           ELSE BindCandidate(v, Leading(v, candidates), n, preferred)
    BY DEF BindFirst, Able, Leading
  <1>. QED
    BY <1>1, LeadingIsFirst, Bound, NothingAssumption

\* A new plan binds each of its candidates anew; a resume's keeps the agents.
LEMMA Resolved ==
    ASSUME NEW v \in Views, NEW n \in Nat, NEW old \in Plans \cup {NoPlan},
           NEW made, made = ResolvePlan(v, n, old), made # NoPlan,
           old # NoPlan => \A b \in Range(old.agents) : Kept(b)
    PROVE  /\ made \in Plans /\ \A b \in Bindings(made) : Kept(b)
           /\ Able(v, StacksOf(v).controller) # {}
           /\ made.controller = BindCandidate(v, Leading(v, StacksOf(v).controller), n,
                                    IF old = NoPlan THEN NoBinding ELSE old.controller)
           /\ old # NoPlan => made.agents = old.agents
           /\ old = NoPlan => \A i \in Indices :
                 /\ Able(v, StacksOf(v).agents[i]) # {}
                 /\ made.agents[i] =
                      BindCandidate(v, Leading(v, StacksOf(v).agents[i]), n + i, NoBinding)
  <1>. DEFINE preferred == IF old = NoPlan THEN NoBinding ELSE old.controller
              candidates == StacksOf(v).controller
              controller == BindFirst(v, candidates, n, preferred)
              agents == IF old # NoPlan THEN old.agents
                        ELSE [i \in Indices |->
                                BindFirst(v, StacksOf(v).agents[i], n + i, NoBinding)]
  <1>1. /\ controller # NoBinding /\ NoBinding \notin Range(agents)
        /\ made = [controller |-> controller, agents |-> agents]
    BY DEF ResolvePlan
  <1>2. /\ candidates \in Seq(Candidates)
        /\ \A i \in Indices : StacksOf(v).agents[i] \in Seq(Candidates)
    BY VersionsAssumption DEF StacksOf, Views
  <1>3. \A i \in Indices : n + i \in Nat
    BY RoutingAssumption DEF Indices
  <1>4. /\ Able(v, candidates) # {}
        /\ controller = BindCandidate(v, Leading(v, candidates), n, preferred)
        /\ controller \in Binds
    BY <1>1, <1>2, BoundFirst
  <1>5. Kept(controller)
    <2>1. Leading(v, candidates) \in Candidates /\ Eligible(v, Leading(v, candidates)) # {}
      BY <1>2, <1>4, LeadingIsFirst
    <2>. HIDE DEF candidates, preferred, controller
    <2>. QED
      BY <1>4, <2>1, Bound
  <1>6. ASSUME old = NoPlan, NEW i \in Indices
        PROVE  /\ Able(v, StacksOf(v).agents[i]) # {}
               /\ agents[i] = BindCandidate(v, Leading(v, StacksOf(v).agents[i]), n + i, NoBinding)
               /\ agents[i] \in Binds /\ Kept(agents[i])
    <2>1. agents[i] = BindFirst(v, StacksOf(v).agents[i], n + i, NoBinding)
      BY <1>6
    <2>2. agents[i] # NoBinding
      BY <1>1, <1>6 DEF Range
    <2>3. /\ Able(v, StacksOf(v).agents[i]) # {}
          /\ agents[i] = BindCandidate(v, Leading(v, StacksOf(v).agents[i]), n + i, NoBinding)
          /\ agents[i] \in Binds
      <3>. HIDE DEF agents
      <3>. QED
        BY <1>2, <1>3, <2>1, <2>2, BoundFirst
    <2>4. /\ Leading(v, StacksOf(v).agents[i]) \in Candidates
          /\ Eligible(v, Leading(v, StacksOf(v).agents[i])) # {}
      BY <1>2, <2>3, LeadingIsFirst
    <2>5. Kept(agents[i])
      <3>. HIDE DEF agents
      <3>. QED
        BY <1>3, <2>3, <2>4, Bound
    <2>. QED
      BY <2>3, <2>5
  <1>7. agents \in [Indices -> Binds]
    <2>1. CASE old # NoPlan
      BY <2>1 DEF Plans
    <2>2. CASE old = NoPlan
      <3>1. agents = [i \in Indices |-> BindFirst(v, StacksOf(v).agents[i], n + i, NoBinding)]
        BY <2>2
      <3>2. \A i \in Indices : agents[i] \in Binds
        BY <1>6, <2>2
      <3>. QED
        BY <3>1, <3>2
    <2>. QED
      BY <2>1, <2>2
  <1>8. \A b \in Range(agents) : Kept(b)
    <2>1. CASE old # NoPlan
      BY <2>1
    <2>2. CASE old = NoPlan
      <3>1. DOMAIN agents = Indices
        BY <2>2
      <3>2. \A i \in Indices : Kept(agents[i])
        BY <1>6, <2>2
      <3>. QED
        BY <3>1, <3>2 DEF Range
    <2>. QED
      BY <2>1, <2>2
  <1>. HIDE DEF agents, controller
  <1>9. made \in Plans /\ made.controller = controller /\ made.agents = agents
    BY <1>1, <1>4, <1>7 DEF Plans
  <1>10. \A b \in Bindings(made) : Kept(b)
    BY <1>5, <1>8, <1>9 DEF Bindings
  <1>11. old # NoPlan => agents = old.agents
    BY DEF agents
  <1>. QED
    BY <1>4, <1>6, <1>9, <1>10, <1>11

\* Whether there is a plan does not depend on the number.
LEMMA ResolvedForAny ==
    ASSUME NEW v \in Views, NEW n \in Nat, NEW k \in Nat,
           ResolvePlan(v, n, NoPlan) # NoPlan
    PROVE  ResolvePlan(v, k, NoPlan) # NoPlan
  <1>. DEFINE made == ResolvePlan(v, n, NoPlan)
              controller == BindFirst(v, StacksOf(v).controller, k, NoBinding)
              agents == [i \in Indices |-> BindFirst(v, StacksOf(v).agents[i], k + i, NoBinding)]
  <1>1. /\ Able(v, StacksOf(v).controller) # {}
        /\ \A i \in Indices : Able(v, StacksOf(v).agents[i]) # {}
    BY Resolved
  <1>2. /\ StacksOf(v).controller \in Seq(Candidates)
        /\ \A i \in Indices : StacksOf(v).agents[i] \in Seq(Candidates)
    BY VersionsAssumption DEF StacksOf, Views
  <1>3. \A i \in Indices : k + i \in Nat
    BY RoutingAssumption DEF Indices
  <1>4. controller # NoBinding
    BY <1>1, <1>2, BoundFirst
  <1>5. \A i \in Indices : agents[i] # NoBinding
    BY <1>1, <1>2, <1>3, BoundFirst
  <1>6. NoBinding \notin Range(agents)
    BY <1>5 DEF Range
  <1>7. controller \in Binds /\ \A i \in Indices : agents[i] \in Binds
    BY <1>1, <1>2, <1>3, <1>4, <1>5, BoundFirst
  <1>8. ResolvePlan(v, k, NoPlan) = [controller |-> controller, agents |-> agents]
    BY <1>4, <1>6 DEF ResolvePlan
  <1>9. [controller |-> controller, agents |-> agents] \in Plans
    BY <1>7 DEF Plans
  <1>. QED
    BY <1>8, <1>9, NothingAssumption

-----------------------------------------------------------------------------
(* What each command, and each session, relies on                          *)

Files == {"session", "registry", "locks", "live"}
Partial == [stacks : DOMAIN Versions, locks : DOMAIN Versions \cup {0},
            registry : Registries \cup {<<>>}, live : SUBSET (Accounts \X Models)]

\* Plans that respect their locks.
Sound == {x \in Plans : \A b \in Bindings(x) : Kept(b)}

\* What a command would read now, all at once.
Now == [stacks |-> stacks, locks |-> locks, registry |-> registry, live |-> live]

\* A binding that a resume would not change.
Settled(v, b) ==
    LET candidates == StacksOf(v).controller
        c == Leading(v, candidates) IN
    /\ Able(v, candidates) # {}
    /\ b.primary \in Eligible(v, c) /\ b.fallback = Alternate(v, c, b.primary)

FilesInv ==
    /\ Now \in Views
    /\ changes \in Nat

SessionsInv ==
    /\ sessions \in [Ids -> Sound \cup {NoSession}]
    /\ since \in [Ids -> Nat]
    /\ \A s \in Ids :
          /\ since[s] <= changes
          /\ sessions[s] # NoSession /\ since[s] = changes
               => Settled(Now, sessions[s].controller)

Functional ==
    /\ DOMAIN runs = Procs /\ DOMAIN reads = Procs /\ DOMAIN view = Procs
    /\ pc \in [Procs -> Locations] /\ task \in [Procs -> Tasks]
    /\ plan \in [Procs -> Sound \cup {NoPlan}]
    /\ session \in [Procs -> Ids \cup {None}]
    /\ expected \in [Procs -> Sound \cup {NoPlan}]
    /\ seen \in [Procs -> Nat]
    /\ \A p \in Procs : seen[p] <= changes

\* A command has a session, unless it makes the first of its own.
HasSession(p) ==
    pc[p] # "idle" /\ task[p] # "new" => session[p] \in Ids /\ sessions[session[p]] # NoSession

Pending(p, file) == file \in Range(reads[p])

\* A file is yet to be read, or has been.
HasRead(p) ==
    pc[p] = "reading" =>
        /\ reads[p] \in Seq(IF task[p] = "new" THEN Files \ {"session"} ELSE Files)
        /\ view[p] \in Partial
        /\ task[p] # "new" => Pending(p, "session") \/ expected[p] # NoPlan
        /\ task[p] # "fork" =>
              /\ Pending(p, "locks") \/ view[p].locks \in DOMAIN Versions
              /\ Pending(p, "registry") \/ view[p].registry \in Registries

\* What has been read since the last change is what there is.
UpToDate(p) ==
    pc[p] = "reading" /\ seen[p] = changes =>
        /\ task[p] # "fork" =>
              /\ view[p].stacks = stacks
              /\ Pending(p, "locks") \/ view[p].locks = locks
              /\ Pending(p, "registry") \/ view[p].registry = registry
              /\ Pending(p, "live") \/ view[p].live = live
        /\ task[p] = "fork" =>
              Pending(p, "session") \/ Settled(Now, expected[p].controller)

Holding == {"planned", "validated", "complete", "saved"} \cup Preparing

\* A new plan is what was resolved from the view that the command still has.
HasResolved(p) ==
    pc[p] = "planned" /\ task[p] \in {"new", "fork --stack"} =>
        /\ view[p] \in Views
        /\ \E n \in Ordinals : plan[p] = ResolvePlan(view[p], n, NoPlan)

HasPlan(p) ==
    pc[p] \in Holding =>
        /\ plan[p] # NoPlan
        /\ task[p] = "resume" => expected[p] # NoPlan /\ plan[p].agents = expected[p].agents
        /\ seen[p] = changes =>
              /\ Settled(Now, plan[p].controller)
              /\ (/\ task[p] = "resume"
                  /\ expected[p].controller.primary \in Eligible(Now, Leading(Now, StacksOf(Now).controller)))
                 => plan[p].controller.primary = expected[p].controller.primary

Run(models, plugin, leanctx, mcp, complete) ==
    [models |-> models, plugin |-> plugin, leanctx |-> leanctx, mcp |-> mcp, complete |-> complete]

\* How far the directory of a run has come.
HasRun(p) ==
    LET models == ModelsOf(plan[p])
        plugin == Contracts(models) IN
    /\ pc[p] = "made" => runs[p] = Run(NoPlan, NoPlan, FALSE, FALSE, FALSE)
    /\ pc[p] = "written" => runs[p] = Run(models, NoPlan, FALSE, FALSE, FALSE)
    /\ pc[p] = "copied" => runs[p] = Run(models, plugin, FALSE, FALSE, FALSE)
    /\ pc[p] = "isolated" => runs[p] = Run(models, plugin, TRUE, FALSE, FALSE)
    /\ pc[p] = "connected" => runs[p] = Run(models, plugin, TRUE, TRUE, FALSE)
    /\ pc[p] = "complete" => /\ runs[p] = Run(models, plugin, TRUE, TRUE, TRUE)
                             /\ Verified(runs[p])

CommandInv(p) ==
    /\ HasSession(p) /\ HasRead(p) /\ UpToDate(p)
    /\ HasResolved(p) /\ HasPlan(p) /\ HasRun(p)

IInv == FilesInv /\ SessionsInv /\ Functional /\ \A p \in Procs : CommandInv(p)

LEMMA NewIsSettled ==
    ASSUME NEW v \in Views, NEW n \in Nat, ResolvePlan(v, n, NoPlan) # NoPlan
    PROVE  Settled(v, ResolvePlan(v, n, NoPlan).controller)
  <1>. DEFINE c == Leading(v, StacksOf(v).controller)
              b == ResolvePlan(v, n, NoPlan).controller
  <1>1. Able(v, StacksOf(v).controller) # {} /\ b = BindCandidate(v, c, n, NoBinding)
    BY Resolved
  <1>2. StacksOf(v).controller \in Seq(Candidates)
    BY VersionsAssumption DEF StacksOf, Views
  <1>3. c \in Candidates /\ Eligible(v, c) # {}
    BY <1>1, <1>2, LeadingIsFirst
  <1>. HIDE DEF c, b
  <1>4. b.primary \in Eligible(v, c) /\ b.fallback = Alternate(v, c, b.primary)
    BY <1>1, <1>3, Bound
  <1>. QED
    BY <1>1, <1>4 DEF Settled, b, c

\* A resume comes to a settled binding, too: that which it prefers, if it may.
LEMMA ResumedIsSettled ==
    ASSUME NEW v \in Views, NEW old \in Sound, ResolvePlan(v, 0, old) # NoPlan
    PROVE  LET b == ResolvePlan(v, 0, old).controller IN
           /\ Settled(v, b)
           /\ old.controller.primary \in Eligible(v, Leading(v, StacksOf(v).controller))
                => b.primary = old.controller.primary
  <1>. DEFINE c == Leading(v, StacksOf(v).controller)
              b == ResolvePlan(v, 0, old).controller
  <1>1. old \in Plans /\ old # NoPlan /\ old.controller # NoBinding
        /\ \A x \in Range(old.agents) : Kept(x)
    BY NothingAssumption DEF Sound, Plans, Bindings
  <1>2. Able(v, StacksOf(v).controller) # {} /\ b = BindCandidate(v, c, 0, old.controller)
    BY <1>1, Resolved
  <1>3. StacksOf(v).controller \in Seq(Candidates)
    BY VersionsAssumption DEF StacksOf, Views
  <1>4. c \in Candidates /\ Eligible(v, c) # {}
    BY <1>2, <1>3, LeadingIsFirst
  <1>. HIDE DEF c, b
  <1>5. /\ b.primary \in Eligible(v, c) /\ b.fallback = Alternate(v, c, b.primary)
        /\ old.controller.primary \in Eligible(v, c) => b.primary = old.controller.primary
    BY <1>1, <1>2, <1>4, Bound
  <1>. QED
    BY <1>2, <1>5 DEF Settled, b, c

LEMMA HeadAndTail ==
    ASSUME NEW S, NEW s \in Seq(S), s # <<>>
    PROVE  /\ Head(s) \in S /\ Tail(s) \in Seq(S)
           /\ \A x \in Range(s) : x = Head(s) \/ x \in Range(Tail(s))
  <1>1. Head(s) \in S /\ Tail(s) \in Seq(S) /\ Len(s) \in Nat /\ Len(s) > 0
        /\ Len(Tail(s)) = Len(s) - 1 /\ DOMAIN s = 1..Len(s)
    OBVIOUS
  <1>2. ASSUME NEW i \in DOMAIN s, i # 1 PROVE s[i] \in Range(Tail(s))
    <2>1. i - 1 \in 1..Len(Tail(s)) /\ Tail(s)[i - 1] = s[i]
      BY <1>1, <1>2
    <2>2. DOMAIN Tail(s) = 1..Len(Tail(s))
      BY <1>1
    <2>. QED
      BY <2>1, <2>2 DEF Range
  <1>3. s[1] = Head(s)
    BY <1>1
  <1>. QED
    BY <1>1, <1>2, <1>3 DEF Range

LEMMA ReadsAreFiles ==
    ASSUME NEW t \in Tasks
    PROVE  /\ ReadsOf(t) \in Seq(IF t = "new" THEN Files \ {"session"} ELSE Files)
           /\ t # "new" => "session" \in Range(ReadsOf(t))
           /\ t # "fork" => \A file \in Files \ {"session"} : file \in Range(ReadsOf(t))
  <1>1. ASSUME NEW a, NEW b PROVE a \in Range(<<a, b>>) /\ b \in Range(<<a, b>>)
    BY DEF Range
  <1>2. ASSUME NEW a, NEW b, NEW c
        PROVE  a \in Range(<<a, b, c>>) /\ b \in Range(<<a, b, c>>) /\ c \in Range(<<a, b, c>>)
    BY DEF Range
  <1>3. ASSUME NEW a, NEW b, NEW c, NEW d
        PROVE  /\ a \in Range(<<a, b, c, d>>) /\ b \in Range(<<a, b, c, d>>)
               /\ c \in Range(<<a, b, c, d>>) /\ d \in Range(<<a, b, c, d>>)
    <2>. DEFINE s == <<a, b, c, d>>
    <2>1. s[1] = a /\ s[2] = b /\ s[3] = c /\ s[4] = d /\ DOMAIN s = 1..4
      OBVIOUS
    <2>. HIDE DEF s
    <2>2. a \in Range(s) /\ b \in Range(s) /\ c \in Range(s) /\ d \in Range(s)
      BY <2>1 DEF Range
    <2>. QED
      BY <2>2 DEF s
  <1>4. CASE t = "new"
    BY <1>2, <1>4 DEF ReadsOf, Files
  <1>5. CASE t = "resume"
    BY <1>3, <1>5 DEF ReadsOf, Files
  <1>6. CASE t = "fork"
    BY <1>1, <1>6 DEF ReadsOf, Files
  <1>7. CASE t = "fork --stack"
    <2>1. ReadsOf(t) = <<"session", "registry", "live", "locks">>
      BY <1>7 DEF ReadsOf
    <2>2. ReadsOf(t) \in Seq(Files)
      BY <2>1 DEF Files
    <2>. QED
      BY <1>3, <1>7, <2>1, <2>2 DEF Files
  <1>. QED
    BY <1>4, <1>5, <1>6, <1>7 DEF Tasks

\* What a command does not share with the others.
Same(q) ==
    /\ runs'[q] = runs[q] /\ pc'[q] = pc[q] /\ task'[q] = task[q] /\ reads'[q] = reads[q]
    /\ view'[q] = view[q] /\ plan'[q] = plan[q] /\ session'[q] = session[q]
    /\ expected'[q] = expected[q] /\ seen'[q] = seen[q]

SessionsStay == \A s \in Ids : sessions[s] # NoSession => sessions'[s] # NoSession

LEMMA OthersKeep ==
    ASSUME IInv, NEW q \in Procs, Same(q), SessionsStay,
           \/ UNCHANGED <<stacks, locks, registry, live, changes>>
           \/ changes' = changes + 1
    PROVE  CommandInv(q)'
  <1>1. CommandInv(q) /\ changes \in Nat /\ seen[q] \in Nat /\ seen[q] <= changes
    BY DEF IInv, FilesInv, Functional
  <1>2. HasSession(q)'
    BY <1>1 DEF HasSession, CommandInv, Same, SessionsStay
  <1>3. HasRead(q)'
    BY <1>1 DEF HasRead, CommandInv, Same, Pending
  <1>4. ASSUME UNCHANGED <<stacks, locks, registry, live, changes>>
        PROVE  UpToDate(q)' /\ HasPlan(q)'
    <2>1. Now' = Now
      BY <1>4 DEF Now
    <2>2. UpToDate(q)'
      BY <1>1, <1>4, <2>1 DEF UpToDate, CommandInv, Same, Pending
    <2>3. HasPlan(q)'
      BY <1>1, <1>4, <2>1 DEF HasPlan, CommandInv, Same
    <2>. QED
      BY <2>2, <2>3
  <1>5. ASSUME changes' = changes + 1
        PROVE  UpToDate(q)' /\ HasPlan(q)'
    <2>1. seen'[q] # changes'
      BY <1>1, <1>5 DEF Same
    <2>2. UpToDate(q)'
      BY <2>1 DEF UpToDate
    <2>3. HasPlan(q)'
      BY <1>1, <2>1 DEF HasPlan, CommandInv, Same
    <2>. QED
      BY <2>2, <2>3
  <1>6. HasResolved(q)'
    BY <1>1 DEF HasResolved, CommandInv, Same
  <1>7. HasRun(q)'
    BY <1>1 DEF HasRun, CommandInv, Same
  <1>8. UpToDate(q)' /\ HasPlan(q)'
    BY <1>4, <1>5
  <1>. QED
    BY <1>2, <1>3, <1>6, <1>7, <1>8 DEF CommandInv

-----------------------------------------------------------------------------
(* The invariant is inductive                                              *)

LEMMA InitIsSound == Init => IInv
  <1>. SUFFICES ASSUME Init PROVE IInv
    OBVIOUS
  <1>1. Now \in Views /\ changes = 0
    <2>1. registry \in Registries /\ live \subseteq Accounts \X Models
      BY DEF Init, Registries
    <2>. QED
      BY <2>1, LaunchAssumption DEF Init, Now, Views
  <1>2. PICK n \in Ordinals :
           /\ ResolvePlan(Now, n, NoPlan) # NoPlan
           /\ sessions = [s \in Ids |-> IF s = 1 THEN ResolvePlan(Now, n, NoPlan) ELSE NoSession]
    BY DEF Init, Now
  <1>3. n \in Nat
    BY LaunchAssumption
  <1>4. ResolvePlan(Now, n, NoPlan) \in Sound
    BY <1>1, <1>2, <1>3, Resolved DEF Sound
  <1>5. Settled(Now, ResolvePlan(Now, n, NoPlan).controller)
    BY <1>1, <1>2, <1>3, NewIsSettled
  <1>6. SessionsInv
    <2>1. \A s \in Ids : sessions[s] # NoSession => sessions[s] = ResolvePlan(Now, n, NoPlan)
      BY <1>2
    <2>2. sessions \in [Ids -> Sound \cup {NoSession}]
      BY <1>2, <1>4
    <2>3. since = [s \in Ids |-> 0]
      BY DEF Init
    <2>4. /\ since \in [Ids -> Nat]
          /\ \A s \in Ids : since[s] <= changes
      BY <1>1, <2>3
    <2>5. \A s \in Ids : sessions[s] # NoSession => Settled(Now, sessions[s].controller)
      BY <1>5, <2>1, Zenon
    <2>. QED
      BY <2>2, <2>4, <2>5 DEF SessionsInv
  <1>7. Functional
    BY DEF Init, Functional, Locations, Tasks
  <1>8. \A p \in Procs : CommandInv(p)
    BY DEF Init, CommandInv, HasSession, HasRead, UpToDate, HasResolved,
       HasPlan, HasRun, Holding, Preparing
  <1>. QED
    BY <1>1, <1>6, <1>7, <1>8 DEF IInv, FilesInv

LEMMA LocalStep ==
    ASSUME IInv, NEW p \in Procs,
           UNCHANGED <<stacks, locks, registry, live, sessions, since, changes>>,
           \A q \in Procs \ {p} : Same(q),
           Functional', CommandInv(p)'
    PROVE  IInv'
  <1>1. Now' = Now
    BY DEF Now
  <1>2. FilesInv'
    BY <1>1 DEF IInv, FilesInv
  <1>3. SessionsInv'
    BY <1>1 DEF IInv, SessionsInv
  <1>4. SessionsStay
    BY DEF SessionsStay
  <1>5. \A q \in Procs : CommandInv(q)'
    BY <1>4, OthersKeep
  <1>. QED
    BY <1>2, <1>3, <1>5 DEF IInv

\* A command that has ended relies on nothing.
LEMMA EndedStep ==
    ASSUME IInv, NEW p \in Procs, Ended(p),
           runs' = runs \/ runs' = [runs EXCEPT ![p] = NoRun],
           UNCHANGED <<stacks, locks, registry, live, sessions, since, changes>>
    PROVE  IInv'
  <1>1. \A q \in Procs \ {p} : Same(q)
    BY DEF IInv, Functional, Ended, Same
  <1>2. Functional'
    <2>1. Functional /\ changes \in Nat
      BY DEF IInv, FilesInv
    <2>2. DOMAIN runs' = Procs /\ DOMAIN reads' = Procs /\ DOMAIN view' = Procs
      BY <2>1 DEF Functional, Ended
    <2>3. pc' \in [Procs -> Locations] /\ task' \in [Procs -> Tasks]
      BY <2>1 DEF Functional, Ended, Locations, Tasks
    <2>4. plan' \in [Procs -> Sound \cup {NoPlan}] /\ expected' \in [Procs -> Sound \cup {NoPlan}]
          /\ session' \in [Procs -> Ids \cup {None}]
      BY <2>1 DEF Functional, Ended
    <2>5. seen' \in [Procs -> Nat] /\ \A q \in Procs : seen'[q] <= changes'
      BY <2>1 DEF Functional, Ended
    <2>. QED
      BY <2>2, <2>3, <2>4, <2>5 DEF Functional
  <1>3. CommandInv(p)'
    <2>1. pc'[p] = "idle"
      BY DEF IInv, Functional, Ended
    <2>. QED
      BY <2>1
      DEF CommandInv, HasSession, HasRead, UpToDate, HasResolved, HasPlan,
          HasRun, Holding, Preparing
  <1>. QED
    BY <1>1, <1>2, <1>3, LocalStep

\* A step of a command that holds a plan, and changes no more than its run.
LEMMA HoldingStep ==
    ASSUME IInv, NEW p \in Procs, NEW from \in Holding, NEW to \in Holding \ {"planned"},
           Step(p, from, to),
           UNCHANGED <<stacks, locks, registry, live, sessions, since, changes>>,
           UNCHANGED <<task, reads, plan, session, expected, seen>>,
           DOMAIN runs' = Procs, \A q \in Procs \ {p} : runs'[q] = runs[q],
           DOMAIN view' = Procs, \A q \in Procs \ {p} : view'[q] = view[q],
           HasRun(p)'
    PROVE  IInv'
  <1>1. to \in Locations /\ to # "idle" /\ to # "reading" /\ from # "idle"
    BY DEF Holding, Preparing, Locations
  <1>2. pc[p] = from /\ pc'[p] = to /\ \A q \in Procs \ {p} : pc'[q] = pc[q]
    BY DEF Step, IInv, Functional
  <1>3. \A q \in Procs \ {p} : Same(q)
    BY <1>2 DEF Same
  <1>4. Functional'
    BY <1>1 DEF Step, IInv, Functional
  <1>5. Now' = Now
    BY DEF Now
  <1>6. HasSession(p)' /\ HasPlan(p)'
    <2>1. HasSession(p) /\ HasPlan(p)
      BY DEF IInv, CommandInv
    <2>2. HasSession(p)'
      BY <1>1, <1>2, <2>1 DEF HasSession
    <2>3. HasPlan(p)'
      BY <1>2, <1>5, <2>1 DEF HasPlan
    <2>. QED
      BY <2>2, <2>3
  <1>7. HasRead(p)' /\ UpToDate(p)' /\ HasResolved(p)'
    BY <1>1, <1>2 DEF HasRead, UpToDate, HasResolved
  <1>8. CommandInv(p)'
    BY <1>6, <1>7 DEF CommandInv
  <1>. QED
    BY <1>3, <1>4, <1>8, LocalStep

LEMMA LoadStep ==
    ASSUME IInv, NEW p \in Procs, NEW t \in Tasks, Load(p, t)
    PROVE  IInv'
  <1>1. Functional /\ FilesInv
    BY DEF IInv
  <1>2. /\ UNCHANGED <<stacks, locks, registry, live, sessions, since, runs, plan, expected, changes>>
        /\ pc' = [pc EXCEPT ![p] = "reading"] /\ task' = [task EXCEPT ![p] = t]
        /\ reads' = [reads EXCEPT ![p] = ReadsOf(t)]
        /\ view' = [view EXCEPT ![p] = [stacks |-> stacks, locks |-> 0, registry |-> <<>>, live |-> {}]]
        /\ seen' = [seen EXCEPT ![p] = changes]
        /\ \/ t = "new" /\ UNCHANGED session
           \/ /\ t # "new"
              /\ \E s \in Ids : sessions[s] # NoSession /\ session' = [session EXCEPT ![p] = s]
    BY DEF Load, Step, files, disk
  <1>3. \A q \in Procs \ {p} : Same(q)
    BY <1>1, <1>2 DEF Functional, Same
  <1>4. Functional'
    <2>1. session' \in [Procs -> Ids \cup {None}]
      BY <1>1, <1>2 DEF Functional
    <2>2. pc' \in [Procs -> Locations] /\ task' \in [Procs -> Tasks]
      BY <1>1, <1>2 DEF Functional, Locations
    <2>3. seen' \in [Procs -> Nat] /\ \A q \in Procs : seen'[q] <= changes'
      BY <1>1, <1>2 DEF Functional, FilesInv
    <2>. QED
      BY <1>1, <1>2, <2>1, <2>2, <2>3 DEF Functional
  <1>5. /\ pc'[p] = "reading" /\ task'[p] = t /\ reads'[p] = ReadsOf(t)
        /\ view'[p] = [stacks |-> stacks, locks |-> 0, registry |-> <<>>, live |-> {}]
    BY <1>1, <1>2 DEF Functional
  <1>6. HasSession(p)'
    BY <1>1, <1>2, <1>5 DEF HasSession, Functional
  <1>7. \A file \in Files : file # "session" /\ t # "fork" => Pending(p, file)'
    BY <1>5, ReadsAreFiles DEF Pending
  <1>8. t # "new" => Pending(p, "session")'
    BY <1>5, ReadsAreFiles DEF Pending
  <1>9. t # "fork" => Pending(p, "locks")' /\ Pending(p, "registry")' /\ Pending(p, "live")'
    BY <1>7 DEF Files
  <1>10. HasRead(p)'
    <2>1. view'[p] \in Partial
      BY <1>1, <1>5 DEF FilesInv, Now, Views, Partial
    <2>. QED
      BY <1>2, <1>5, <1>8, <1>9, <2>1, ReadsAreFiles DEF HasRead
  <1>11. UpToDate(p)'
    BY <1>2, <1>5, <1>8, <1>9 DEF UpToDate
  <1>12. HasResolved(p)' /\ HasPlan(p)' /\ HasRun(p)'
    BY <1>5 DEF HasResolved, HasPlan, HasRun, Holding, Preparing
  <1>13. CommandInv(p)'
    BY <1>6, <1>10, <1>11, <1>12 DEF CommandInv
  <1>. QED
    BY <1>2, <1>3, <1>4, <1>13, LocalStep

LEMMA ReadStep ==
    ASSUME IInv, NEW p \in Procs, ReadFile(p)
    PROVE  IInv'
  <1>. DEFINE file == Head(reads[p])
  <1>1. Functional /\ FilesInv /\ SessionsInv /\ CommandInv(p)
    BY DEF IInv
  <1>2. /\ UNCHANGED <<stacks, locks, registry, live, sessions, since, changes>>
        /\ UNCHANGED <<runs, pc, task, plan, session>>
        /\ pc[p] = "reading" /\ reads[p] # <<>> /\ reads' = [reads EXCEPT ![p] = Tail(@)]
    BY DEF ReadFile, files, disk, counters
  <1>3. \/ /\ file = "session" /\ expected' = [expected EXCEPT ![p] = sessions[session[p]]]
           /\ seen' = IF task[p] = "fork" THEN [seen EXCEPT ![p] = since[session[p]]] ELSE seen
           /\ view' = view
        \/ file = "registry" /\ view' = [view EXCEPT ![p].registry = registry] /\ UNCHANGED <<expected, seen>>
        \/ file = "locks" /\ view' = [view EXCEPT ![p].locks = locks] /\ UNCHANGED <<expected, seen>>
        \/ file = "live" /\ view' = [view EXCEPT ![p].live = live] /\ UNCHANGED <<expected, seen>>
    BY DEF ReadFile
  <1>4. /\ view[p] \in Partial /\ reads'[p] = Tail(reads[p])
        /\ pc'[p] = "reading" /\ task'[p] = task[p] /\ task[p] \in Tasks
        /\ reads[p] \in Seq(IF task[p] = "new" THEN Files \ {"session"} ELSE Files)
    BY <1>1, <1>2 DEF Functional, CommandInv, HasRead
  <1>5. /\ file \in IF task[p] = "new" THEN Files \ {"session"} ELSE Files
        /\ Tail(reads[p]) \in Seq(IF task[p] = "new" THEN Files \ {"session"} ELSE Files)
        /\ \A x : Pending(p, x) => x = file \/ Pending(p, x)'
    BY <1>2, <1>4, HeadAndTail DEF Pending
  <1>. HIDE DEF file
  <1>6. /\ file = "session" => task[p] # "new"
        /\ task[p] # "new" => session[p] \in Ids /\ sessions[session[p]] # NoSession
    BY <1>1, <1>2, <1>5 DEF CommandInv, HasSession
  <1>7. /\ DOMAIN view' = Procs /\ DOMAIN expected' = Procs /\ DOMAIN seen' = Procs
        /\ \A q \in Procs \ {p} :
              view'[q] = view[q] /\ expected'[q] = expected[q] /\ seen'[q] = seen[q]
        /\ (file = "session" /\ task[p] # "fork") \/ file # "session" => seen'[p] = seen[p]
        /\ file = "session" /\ task[p] = "fork" => seen'[p] = since[session[p]]
        /\ file = "session" => expected'[p] = sessions[session[p]] /\ view'[p] = view[p]
        /\ file # "session" => expected'[p] = expected[p]
        /\ file = "registry" => view'[p] = [view[p] EXCEPT !.registry = registry]
        /\ file = "locks" => view'[p] = [view[p] EXCEPT !.locks = locks]
        /\ file = "live" => view'[p] = [view[p] EXCEPT !.live = live]
    BY <1>1, <1>3 DEF Functional
  <1>8. file = "session" => expected'[p] \in Sound /\ since[session[p]] \in Nat
                            /\ since[session[p]] <= changes
    BY <1>1, <1>6, <1>7 DEF SessionsInv
  <1>9. \A q \in Procs \ {p} : Same(q)
    BY <1>1, <1>2, <1>7 DEF Functional, Same
  <1>10. Functional'
    <2>1. /\ expected' \in [Procs -> Sound \cup {NoPlan}]
      BY <1>1, <1>3, <1>7, <1>8 DEF Functional
    <2>2. seen' \in [Procs -> Nat] /\ \A q \in Procs : seen'[q] <= changes'
      BY <1>1, <1>2, <1>3, <1>7, <1>8 DEF Functional
    <2>. QED
      BY <1>1, <1>2, <1>7, <2>1, <2>2 DEF Functional
  <1>11. /\ view'[p] \in Partial /\ view'[p].stacks = view[p].stacks
         /\ view'[p].locks = IF file = "locks" THEN locks ELSE view[p].locks
         /\ view'[p].registry = IF file = "registry" THEN registry ELSE view[p].registry
         /\ view'[p].live = IF file = "live" THEN live ELSE view[p].live
    <2>1. file \in Files
      BY <1>5
    <2>2. stacks \in DOMAIN Versions /\ locks \in DOMAIN Versions /\ registry \in Registries
          /\ live \in SUBSET (Accounts \X Models)
      BY <1>1 DEF FilesInv, Now, Views
    <2>. QED
      BY <1>4, <1>7, <2>1, <2>2 DEF Partial, Files
  <1>12. locks \in DOMAIN Versions /\ registry \in Registries /\ NoPlan \notin Sound
    BY <1>1, NothingAssumption DEF FilesInv, Now, Views, Sound
  <1>13. HasRead(p)'
    <2>1. HasRead(p)
      BY <1>1 DEF CommandInv
    <2>2. task[p] # "new" => Pending(p, "session")' \/ expected'[p] # NoPlan
      BY <1>2, <1>5, <1>7, <1>8, <1>12, <2>1 DEF HasRead
    <2>3. task[p] # "fork" => Pending(p, "locks")' \/ view'[p].locks \in DOMAIN Versions
      BY <1>2, <1>5, <1>11, <1>12, <2>1 DEF HasRead
    <2>4. task[p] # "fork" => Pending(p, "registry")' \/ view'[p].registry \in Registries
      BY <1>2, <1>5, <1>11, <1>12, <2>1 DEF HasRead
    <2>. QED
      BY <1>4, <1>5, <1>11, <2>2, <2>3, <2>4 DEF HasRead
  <1>14. UpToDate(p)'
    <2>1. UpToDate(p) /\ Now' = Now
      BY <1>1, <1>2 DEF CommandInv, Now
    <2>2. ASSUME task[p] # "fork", seen'[p] = changes
          PROVE  /\ view'[p].stacks = stacks
                 /\ Pending(p, "locks")' \/ view'[p].locks = locks
                 /\ Pending(p, "registry")' \/ view'[p].registry = registry
                 /\ Pending(p, "live")' \/ view'[p].live = live
      <3>1. seen[p] = changes
        BY <1>7, <2>2
      <3>. QED
        BY <1>2, <1>5, <1>11, <2>1, <2>2, <3>1 DEF UpToDate
    <2>3. ASSUME task[p] = "fork", seen'[p] = changes
          PROVE  Pending(p, "session")' \/ Settled(Now, expected'[p].controller)
      <3>1. CASE file = "session"
        BY <1>1, <1>6, <1>7, <2>3, <3>1 DEF SessionsInv
      <3>2. CASE file # "session"
        BY <1>2, <1>5, <1>7, <2>1, <2>3, <3>2 DEF UpToDate
      <3>. QED
        BY <3>1, <3>2
    <2>. QED
      BY <1>2, <1>4, <2>1, <2>2, <2>3 DEF UpToDate
  <1>15. HasSession(p)'
    BY <1>1, <1>2, <1>4 DEF CommandInv, HasSession
  <1>16. HasResolved(p)' /\ HasPlan(p)' /\ HasRun(p)'
    BY <1>4 DEF HasResolved, HasPlan, HasRun, Holding, Preparing
  <1>17. CommandInv(p)'
    BY <1>13, <1>14, <1>15, <1>16 DEF CommandInv
  <1>. QED
    BY <1>2, <1>9, <1>10, <1>17, LocalStep

LEMMA PlanStep ==
    ASSUME IInv, NEW p \in Procs, Plan(p)
    PROVE  IInv'
  <1>1. Functional /\ FilesInv /\ CommandInv(p) /\ task[p] \in Tasks
    BY DEF IInv, Functional
  <1>2. /\ UNCHANGED <<stacks, locks, registry, live, sessions, since, changes>>
        /\ UNCHANGED runs /\ pc[p] = "reading" /\ reads[p] = <<>>
    BY DEF Plan, files, disk, counters
  <1>3. PICK n \in Ordinals : LET made == Planned(p, n) IN
           \/ /\ made # NoPlan
              /\ plan' = [plan EXCEPT ![p] = made] /\ pc' = [pc EXCEPT ![p] = "planned"]
              /\ UNCHANGED <<task, reads, view, session, expected, seen>>
           \/ made = NoPlan /\ Ended(p)
    BY DEF Plan
  <1>. DEFINE made == Planned(p, n)
  <1>4. CASE made = NoPlan /\ Ended(p)
    BY <1>2, <1>4, EndedStep
  <1>5. CASE /\ made # NoPlan
             /\ plan' = [plan EXCEPT ![p] = made] /\ pc' = [pc EXCEPT ![p] = "planned"]
             /\ UNCHANGED <<task, reads, view, session, expected, seen>>
    <2>1. \A file : ~Pending(p, file)
      BY <1>2 DEF Pending, Range
    <2>2. task[p] # "fork" => view[p] \in Views
      BY <1>1, <1>2, <2>1 DEF CommandInv, HasRead, Partial, Views
    <2>3. /\ task[p] # "new" => expected[p] # NoPlan
          /\ expected[p] \in Sound \cup {NoPlan}
      BY <1>1, <1>2, <2>1 DEF CommandInv, HasRead, Functional
    <2>4. task[p] # "fork" /\ seen[p] = changes => view[p] = Now
      BY <1>1, <1>2, <2>1, <2>2 DEF CommandInv, UpToDate, Views, Now
    <2>5. n \in Nat /\ 0 \in Nat
      BY LaunchAssumption
    <2>. DEFINE leading == Leading(Now, StacksOf(Now).controller)
                IsMade == /\ made \in Sound
                          /\ task[p] = "resume" => made.agents = expected[p].agents
                          /\ seen[p] = changes =>
                                /\ Settled(Now, made.controller)
                                /\ (/\ task[p] = "resume"
                                    /\ expected[p].controller.primary \in Eligible(Now, leading))
                                   => made.controller.primary = expected[p].controller.primary
                          /\ task[p] \in {"new", "fork --stack"} =>
                                made = ResolvePlan(view[p], n, NoPlan)
    <2>6. ASSUME task[p] = "fork" PROVE IsMade
      <3>1. made = expected[p] /\ made \in Sound
        BY <2>3, <2>6 DEF Planned
      <3>2. seen[p] = changes => Settled(Now, made.controller)
        BY <1>1, <1>2, <2>1, <2>6, <3>1 DEF CommandInv, UpToDate
      <3>. QED
        BY <2>6, <3>1, <3>2
    <2>7. ASSUME task[p] = "resume" PROVE IsMade
      <3>1. made = ResolvePlan(view[p], 0, expected[p]) /\ expected[p] \in Sound
        BY <2>3, <2>7 DEF Planned
      <3>2. expected[p] \in Plans /\ \A b \in Range(expected[p].agents) : Kept(b)
        BY <3>1 DEF Sound, Bindings
      <3>3. /\ made \in Plans /\ \A b \in Bindings(made) : Kept(b)
            /\ made.agents = expected[p].agents
        <4>1. view[p] \in Views /\ expected[p] # NoPlan /\ made # NoPlan
          BY <1>5, <2>2, <2>3, <2>7
        <4>. HIDE DEF made
        <4>. QED
          BY <2>5, <3>1, <3>2, <4>1, Resolved
      <3>4. made \in Sound
        BY <3>3 DEF Sound
      <3>5. ASSUME seen[p] = changes
            PROVE  /\ Settled(Now, made.controller)
                   /\ expected[p].controller.primary \in Eligible(Now, leading)
                        => made.controller.primary = expected[p].controller.primary
        <4>1. view[p] = Now /\ Now \in Views /\ made # NoPlan
          BY <1>5, <2>2, <2>4, <2>7, <3>5
        <4>2. ResolvePlan(Now, 0, expected[p]) # NoPlan
          BY <3>1, <4>1
        <4>. QED
          BY <3>1, <4>1, <4>2, ResumedIsSettled
      <3>. QED
        BY <2>7, <3>3, <3>4, <3>5
    <2>8. ASSUME task[p] \in {"new", "fork --stack"} PROVE IsMade
      <3>1. made = ResolvePlan(view[p], n, NoPlan) /\ view[p] \in Views
        BY <2>2, <2>8 DEF Planned
      <3>2. made \in Sound
        BY <1>5, <2>5, <3>1, Resolved DEF Sound
      <3>3. seen[p] = changes => Settled(Now, made.controller)
        BY <1>5, <2>4, <2>5, <2>8, <3>1, NewIsSettled
      <3>. QED
        BY <2>8, <3>1, <3>2, <3>3
    <2>9. IsMade
      BY <1>1, <2>6, <2>7, <2>8 DEF Tasks
    <2>. HIDE DEF made
    <2>10. \A q \in Procs \ {p} : Same(q)
      BY <1>1, <1>2, <1>5 DEF Functional, Same
    <2>11. Functional'
      BY <1>1, <1>2, <1>5, <2>9 DEF Functional, Locations
    <2>12. /\ pc'[p] = "planned" /\ plan'[p] = made /\ view'[p] = view[p] /\ task'[p] = task[p]
           /\ expected'[p] = expected[p] /\ seen'[p] = seen[p] /\ Now' = Now /\ changes' = changes
      BY <1>1, <1>2, <1>5 DEF Functional, Now
    <2>13. HasPlan(p)'
      BY <1>5, <2>3, <2>9, <2>12 DEF HasPlan
    <2>14. HasResolved(p)'
      BY <2>2, <2>9, <2>12 DEF HasResolved
    <2>15. HasSession(p)'
      BY <1>1, <1>2, <1>5, <2>12 DEF CommandInv, HasSession
    <2>16. HasRead(p)' /\ UpToDate(p)' /\ HasRun(p)'
      BY <2>12 DEF HasRead, UpToDate, HasRun
    <2>17. CommandInv(p)'
      BY <2>13, <2>14, <2>15, <2>16 DEF CommandInv
    <2>. QED
      BY <1>2, <2>10, <2>11, <2>17, LocalStep
  <1>. QED
    BY <1>3, <1>4, <1>5

LEMMA ValidateStep ==
    ASSUME IInv, NEW p \in Procs, Validate(p)
    PROVE  IInv'
  <1>1. /\ UNCHANGED <<stacks, locks, registry, live, sessions, since, changes>>
        /\ UNCHANGED runs /\ pc[p] = "planned"
    BY DEF Validate, files, disk, counters
  <1>2. CASE Ended(p)
    BY <1>1, <1>2, EndedStep
  <1>3. CASE /\ pc' = [pc EXCEPT ![p] = "validated"] /\ view' = [view EXCEPT ![p] = NoView]
             /\ UNCHANGED <<task, reads, plan, session, expected, seen>>
    <2>1. Step(p, "planned", "validated")
      BY <1>1, <1>3 DEF Step
    <2>2. pc'[p] = "validated"
      BY <1>3 DEF IInv, Functional
    <2>3. HasRun(p)'
      BY <2>2 DEF HasRun
    <2>4. DOMAIN runs' = Procs /\ DOMAIN view' = Procs /\ \A q \in Procs \ {p} : view'[q] = view[q]
      BY <1>1, <1>3 DEF IInv, Functional
    <2>5. "planned" \in Holding /\ "validated" \in Holding \ {"planned"}
      BY DEF Holding
    <2>. QED
      BY <1>1, <1>3, <2>1, <2>3, <2>4, <2>5, HoldingStep
  <1>. QED
    BY <1>2, <1>3 DEF Validate

\* The steps that prepare a run.
LEMMA PrepareStep ==
    ASSUME IInv, NEW p \in Procs,
           NEW from \in Holding, NEW to \in Holding \ {"planned"}, NEW run,
           Prepare(p, from, to), runs' = [runs EXCEPT ![p] = run],
           pc'[p] = to /\ plan'[p] = plan[p] /\ runs'[p] = run => HasRun(p)'
    PROVE  IInv'
  <1>1. /\ UNCHANGED <<stacks, locks, registry, live, sessions, since, changes>>
        /\ UNCHANGED <<task, reads, view, plan, session, expected, seen>> /\ Step(p, from, to)
    BY DEF Prepare, files, counters
  <1>2. /\ DOMAIN runs' = Procs /\ DOMAIN view' = Procs
        /\ \A q \in Procs \ {p} : runs'[q] = runs[q] /\ view'[q] = view[q]
        /\ runs'[p] = run /\ pc'[p] = to /\ plan'[p] = plan[p]
    BY <1>1 DEF IInv, Functional, Step
  <1>. QED
    BY <1>1, <1>2, HoldingStep

LEMMA RunSteps ==
    ASSUME IInv, NEW p \in Procs,
           \/ MakeRun(p) \/ WriteDocuments(p) \/ CopyPlugin(p)
           \/ Isolate(p) \/ Connect(p) \/ Complete(p)
    PROVE  IInv'
  <1>. DEFINE models == ModelsOf(plan[p])
              plugin == Contracts(models)
              T == TRUE
              F == FALSE
  <1>1. HasRun(p) /\ DOMAIN runs = Procs
    BY DEF IInv, CommandInv, Functional
  <1>2. {"validated", "complete"} \cup Preparing \subseteq Holding \ {"planned"}
    BY DEF Holding, Preparing
  <1>3. \A x \in {"made", "written", "copied", "isolated", "connected"} :
           x \in Holding \ {"planned"}
    BY <1>2 DEF Preparing
  <1>4. CASE MakeRun(p)
    <2>1. Prepare(p, "validated", "made")
          /\ runs' = [runs EXCEPT ![p] = Run(NoPlan, NoPlan, F, F, F)]
      BY <1>4 DEF MakeRun, Run
    <2>2. pc'[p] = "made" /\ runs'[p] = Run(NoPlan, NoPlan, F, F, F) => HasRun(p)'
      BY DEF HasRun
    <2>. QED
      BY <1>2, <1>3, <2>1, <2>2, PrepareStep
  <1>5. CASE WriteDocuments(p)
    <2>1. Prepare(p, "made", "written") /\ pc[p] = "made"
      BY <1>5 DEF WriteDocuments, Prepare, Step
    <2>2. runs' = [runs EXCEPT ![p] = Run(models, NoPlan, F, F, F)]
      <3>1. runs[p] = Run(NoPlan, NoPlan, F, F, F)
        BY <1>1, <2>1 DEF HasRun
      <3>2. [runs[p] EXCEPT !.models = models] = Run(models, NoPlan, F, F, F)
        <4>. HIDE DEF T, F, models, plugin
        <4>. QED
          BY <3>1 DEF Run
      <3>3. runs' = [runs EXCEPT ![p] = [runs[p] EXCEPT !.models = models]]
        BY <1>5 DEF WriteDocuments
      <3>. QED
        BY <3>1, <3>2, <3>3
    <2>3. (pc'[p] = "written" /\ plan'[p] = plan[p]
           /\ runs'[p] = Run(models, NoPlan, F, F, F)) => HasRun(p)'
      BY DEF HasRun
    <2>. QED
      BY <1>3, <2>1, <2>2, <2>3, PrepareStep
  <1>6. CASE CopyPlugin(p)
    <2>1. Prepare(p, "written", "copied") /\ pc[p] = "written"
      BY <1>6 DEF CopyPlugin, Prepare, Step
    <2>2. runs' = [runs EXCEPT ![p] = Run(models, plugin, F, F, F)]
      <3>1. runs[p] = Run(models, NoPlan, F, F, F)
        BY <1>1, <2>1 DEF HasRun
      <3>2. [runs[p] EXCEPT !.plugin = plugin] = Run(models, plugin, F, F, F)
        <4>. HIDE DEF T, F, models, plugin
        <4>. QED
          BY <3>1 DEF Run
      <3>3. runs' = [runs EXCEPT ![p] = [runs[p] EXCEPT !.plugin = plugin]]
        BY <1>6 DEF CopyPlugin
      <3>. QED
        BY <3>1, <3>2, <3>3
    <2>3. (pc'[p] = "copied" /\ plan'[p] = plan[p]
           /\ runs'[p] = Run(models, plugin, F, F, F)) => HasRun(p)'
      BY DEF HasRun
    <2>. QED
      BY <1>3, <2>1, <2>2, <2>3, PrepareStep
  <1>7. CASE Isolate(p)
    <2>1. Prepare(p, "copied", "isolated") /\ pc[p] = "copied"
      BY <1>7 DEF Isolate, Prepare, Step
    <2>2. runs' = [runs EXCEPT ![p] = Run(models, plugin, T, F, F)]
      <3>1. runs[p] = Run(models, plugin, F, F, F)
        BY <1>1, <2>1 DEF HasRun
      <3>2. [runs[p] EXCEPT !.leanctx = T] = Run(models, plugin, T, F, F)
        <4>. HIDE DEF T, F, models, plugin
        <4>. QED
          BY <3>1 DEF Run
      <3>3. runs' = [runs EXCEPT ![p] = [runs[p] EXCEPT !.leanctx = T]]
        BY <1>7 DEF Isolate
      <3>. QED
        BY <3>1, <3>2, <3>3
    <2>3. (pc'[p] = "isolated" /\ plan'[p] = plan[p]
           /\ runs'[p] = Run(models, plugin, T, F, F)) => HasRun(p)'
      BY DEF HasRun
    <2>. QED
      BY <1>3, <2>1, <2>2, <2>3, PrepareStep
  <1>8. CASE Connect(p)
    <2>1. Prepare(p, "isolated", "connected") /\ pc[p] = "isolated"
      BY <1>8 DEF Connect, Prepare, Step
    <2>2. runs' = [runs EXCEPT ![p] = Run(models, plugin, T, T, F)]
      <3>1. runs[p] = Run(models, plugin, T, F, F)
        BY <1>1, <2>1 DEF HasRun
      <3>2. [runs[p] EXCEPT !.mcp = T] = Run(models, plugin, T, T, F)
        <4>. HIDE DEF T, F, models, plugin
        <4>. QED
          BY <3>1 DEF Run
      <3>3. runs' = [runs EXCEPT ![p] = [runs[p] EXCEPT !.mcp = T]]
        BY <1>8 DEF Connect
      <3>. QED
        BY <3>1, <3>2, <3>3
    <2>3. (pc'[p] = "connected" /\ plan'[p] = plan[p]
           /\ runs'[p] = Run(models, plugin, T, T, F)) => HasRun(p)'
      BY DEF HasRun
    <2>. QED
      BY <1>3, <2>1, <2>2, <2>3, PrepareStep
  <1>9. CASE Complete(p)
    <2>1. Prepare(p, "connected", "complete") /\ pc[p] = "connected" /\ Verified(runs[p])
      BY <1>9 DEF Complete, Prepare, Step
    <2>2. /\ runs[p] = Run(models, plugin, T, T, F)
          /\ runs' = [runs EXCEPT ![p] = Run(models, plugin, T, T, T)]
      <3>1. runs[p] = Run(models, plugin, T, T, F)
        BY <1>1, <2>1 DEF HasRun
      <3>2. [runs[p] EXCEPT !.complete = T] = Run(models, plugin, T, T, T)
        <4>. HIDE DEF T, F, models, plugin
        <4>. QED
          BY <3>1 DEF Run
      <3>3. runs' = [runs EXCEPT ![p] = [runs[p] EXCEPT !.complete = T]]
        BY <1>9 DEF Complete
      <3>. QED
        BY <3>1, <3>2, <3>3
    <2>3. Verified(Run(models, plugin, T, T, T))
      BY <2>1, <2>2
      DEF Verified, DocumentsMatch, PluginMatches, ServersMatch, Run
    <2>4. (pc'[p] = "complete" /\ plan'[p] = plan[p]
           /\ runs'[p] = Run(models, plugin, T, T, T)) => HasRun(p)'
      BY <2>3 DEF HasRun
    <2>. QED
      BY <1>2, <1>3, <2>1, <2>2, <2>4, PrepareStep
  <1>. QED
    BY <1>4, <1>5, <1>6, <1>7, <1>8, <1>9

\* A step that saves a command's session, and counts it as old as the command.
LEMMA SavingStep ==
    ASSUME IInv, NEW p \in Procs, NEW s \in Ids, NEW saved \in Sound,
           pc[p] = "complete", pc' = [pc EXCEPT ![p] = "saved"],
           sessions' = [sessions EXCEPT ![s] = saved], since' = [since EXCEPT ![s] = seen[p]],
           saved.controller = plan[p].controller,
           session' = [session EXCEPT ![p] = s],
           UNCHANGED <<stacks, locks, registry, live, changes, runs>>,
           UNCHANGED <<task, reads, view, plan, expected, seen>>
    PROVE  IInv'
  <1>1. Functional /\ FilesInv /\ SessionsInv /\ CommandInv(p)
    BY DEF IInv
  <1>2. Now' = Now
    BY DEF Now
  <1>3. saved # NoSession
    BY LaunchAssumption DEF Sound
  <1>4. FilesInv'
    BY <1>1, <1>2 DEF FilesInv
  <1>5. \A q \in Procs \ {p} : Same(q)
    BY <1>1 DEF Functional, Same
  <1>6. SessionsStay
    BY <1>1, <1>3 DEF SessionsInv, SessionsStay
  <1>7. Functional'
    BY <1>1 DEF Functional, Locations
  <1>8. pc'[p] = "saved" /\ session'[p] = s /\ sessions'[s] = saved
    BY <1>1 DEF Functional, SessionsInv
  <1>9. SessionsInv'
    <2>1. sessions' \in [Ids -> Sound \cup {NoSession}] /\ since' \in [Ids -> Nat]
      BY <1>1 DEF SessionsInv, Functional
    <2>2. seen[p] = changes => Settled(Now, saved.controller)
      <3>1. "complete" \in Holding
        BY DEF Holding
      <3>. QED
        BY <1>1, <3>1 DEF CommandInv, HasPlan
    <2>3. ASSUME NEW x \in Ids
          PROVE  /\ since'[x] <= changes'
                 /\ sessions'[x] # NoSession /\ since'[x] = changes'
                      => Settled(Now', sessions'[x].controller)
      <3>1. CASE x = s
        BY <1>1, <1>2, <1>8, <2>2, <3>1 DEF SessionsInv, Functional
      <3>2. CASE x # s
        BY <1>1, <1>2, <3>2 DEF SessionsInv
      <3>. QED
        BY <3>1, <3>2
    <2>. QED
      BY <2>1, <2>3 DEF SessionsInv
  <1>10. CommandInv(p)'
    <2>1. HasSession(p)'
      BY <1>3, <1>8 DEF HasSession
    <2>2. HasPlan(p)'
      <3>1. "complete" \in Holding
        BY DEF Holding
      <3>. QED
        BY <1>1, <1>2, <3>1 DEF CommandInv, HasPlan
    <2>3. HasRead(p)' /\ UpToDate(p)' /\ HasResolved(p)' /\ HasRun(p)'
      BY <1>8 DEF HasRead, UpToDate, HasResolved, HasRun
    <2>. QED
      BY <2>1, <2>2, <2>3 DEF CommandInv
  <1>11. \A q \in Procs : CommandInv(q)'
    BY <1>5, <1>6, <1>10, OthersKeep
  <1>. QED
    BY <1>4, <1>7, <1>9, <1>11 DEF IInv

\* Create saves the command's plan, which is sound, under an id that no session
\* has, and remembers when the command had read what the plan was made from.
LEMMA CreateSaves ==
    ASSUME IInv, NEW p \in Procs, Create(p)
    PROVE  \E s \in Ids :
              /\ plan[p] \in Sound /\ sessions[s] = NoSession
              /\ pc[p] = "complete" /\ pc' = [pc EXCEPT ![p] = "saved"]
              /\ sessions' = [sessions EXCEPT ![s] = plan[p]]
              /\ since' = [since EXCEPT ![s] = seen[p]] /\ session' = [session EXCEPT ![p] = s]
  <1>1. pc[p] = "complete" /\ pc' = [pc EXCEPT ![p] = "saved"]
    BY DEF Create, Step
  <1>2. plan[p] \in Sound
    <2>1. "complete" \in Holding /\ HasPlan(p) /\ plan[p] \in Sound \cup {NoPlan}
      BY DEF Holding, IInv, CommandInv, Functional
    <2>. QED
      BY <1>1, <2>1 DEF HasPlan
  <1>. QED
    BY <1>1, <1>2 DEF Create, Unused

LEMMA CreateStep ==
    ASSUME IInv, NEW p \in Procs, Create(p)
    PROVE  IInv'
  <1>1. PICK s \in Ids :
           /\ plan[p] \in Sound
           /\ pc[p] = "complete" /\ pc' = [pc EXCEPT ![p] = "saved"]
           /\ sessions' = [sessions EXCEPT ![s] = plan[p]]
           /\ since' = [since EXCEPT ![s] = seen[p]] /\ session' = [session EXCEPT ![p] = s]
    BY CreateSaves
  <1>2. /\ UNCHANGED <<stacks, locks, registry, live, changes, runs>>
        /\ UNCHANGED <<task, reads, view, plan, expected, seen>>
    BY DEF Create, files, disk, counters
  <1>. QED
    BY <1>1, <1>2, SavingStep

LEMMA UpdatedIsSound ==
    ASSUME IInv, NEW p \in Procs, pc[p] = "complete", task[p] = "resume"
    PROVE  /\ Updated(p) \in Sound /\ expected[p] \in Sound /\ plan[p] \in Sound
           /\ Updated(p).controller = plan[p].controller
           /\ Updated(p).agents = expected[p].agents /\ plan[p].agents = expected[p].agents
           /\ session[p] \in Ids /\ sessions[session[p]] \in Sound
  <1>1. /\ plan[p] \in Sound /\ expected[p] \in Sound
        /\ plan[p].agents = expected[p].agents
    <2>1. "complete" \in Holding /\ HasPlan(p) /\ plan[p] \in Sound \cup {NoPlan}
          /\ expected[p] \in Sound \cup {NoPlan}
      BY DEF Holding, IInv, CommandInv, Functional
    <2>. QED
      BY <2>1 DEF HasPlan
  <1>2. /\ Updated(p) \in Plans
        /\ Updated(p).controller = plan[p].controller
        /\ Updated(p).agents = expected[p].agents
    BY <1>1 DEF Updated, Sound, Plans
  <1>3. \A b \in Bindings(Updated(p)) : Kept(b)
    BY <1>1, <1>2 DEF Sound, Bindings
  <1>4. session[p] \in Ids /\ sessions[session[p]] # NoSession
    BY DEF IInv, CommandInv, HasSession
  <1>5. sessions[session[p]] \in Sound
    BY <1>4 DEF IInv, SessionsInv
  <1>. QED
    BY <1>1, <1>2, <1>3, <1>4, <1>5 DEF Sound

LEMMA UpdateStep ==
    ASSUME IInv, NEW p \in Procs, Update(p)
    PROVE  IInv'
  <1>1. /\ pc[p] = "complete" /\ task[p] = "resume"
        /\ UNCHANGED <<stacks, locks, registry, live, changes>>
    BY DEF Update, files, counters
  <1>2. CASE /\ pc' = [pc EXCEPT ![p] = "saved"]
             /\ UNCHANGED <<sessions, since, disk, task, reads, view, plan, session, expected, seen>>
    <2>1. Step(p, "complete", "saved") /\ UNCHANGED runs
      BY <1>1, <1>2 DEF Step, disk
    <2>2. "complete" \in Holding /\ "saved" \in Holding \ {"planned"}
      BY DEF Holding
    <2>3. DOMAIN runs' = Procs /\ DOMAIN view' = Procs /\ pc'[p] = "saved"
      BY <1>2, <2>1 DEF IInv, Functional
    <2>4. HasRun(p)'
      BY <2>3 DEF HasRun
    <2>. QED
      BY <1>1, <1>2, <2>1, <2>2, <2>3, <2>4, HoldingStep
  <1>3. CASE /\ sessions' = [sessions EXCEPT ![session[p]] = Updated(p)]
             /\ since' = [since EXCEPT ![session[p]] = seen[p]]
             /\ pc' = [pc EXCEPT ![p] = "saved"]
             /\ UNCHANGED <<disk, task, reads, view, plan, session, expected, seen>>
    <2>1. session' = [session EXCEPT ![p] = session[p]]
      BY <1>3 DEF IInv, Functional
    <2>2. UNCHANGED runs
      BY <1>3 DEF disk
    <2>3. /\ Updated(p) \in Sound /\ Updated(p).controller = plan[p].controller
          /\ session[p] \in Ids
      BY <1>1, UpdatedIsSound
    <2>. QED
      BY <1>1, <1>3, <2>1, <2>2, <2>3, SavingStep
  <1>4. CASE Abandon(p) /\ Ended(p) /\ UNCHANGED <<sessions, since>>
    BY <1>1, <1>4, EndedStep DEF Abandon
  <1>. QED
    BY <1>2, <1>3, <1>4 DEF Update

LEMMA LaunchStep ==
    ASSUME IInv, NEW p \in Procs, Launch(p)
    PROVE  IInv'
  <1>1. /\ UNCHANGED <<stacks, locks, registry, live, sessions, since, changes>>
        /\ UNCHANGED <<runs, task, reads, view, session, seen>>
        /\ pc[p] = "saved" /\ pc' = [pc EXCEPT ![p] = "running"]
        /\ plan' = [plan EXCEPT ![p] = NoPlan] /\ expected' = [expected EXCEPT ![p] = NoPlan]
    BY DEF Launch, Step, files, disk, counters
  <1>2. Functional /\ CommandInv(p)
    BY DEF IInv
  <1>3. \A q \in Procs \ {p} : Same(q)
    BY <1>1, <1>2 DEF Functional, Same
  <1>4. Functional'
    BY <1>1, <1>2 DEF Functional, Locations
  <1>5. pc'[p] = "running"
    BY <1>1, <1>2 DEF Functional
  <1>6. HasSession(p)'
    BY <1>1, <1>2 DEF CommandInv, HasSession
  <1>7. HasRead(p)' /\ UpToDate(p)' /\ HasResolved(p)' /\ HasPlan(p)' /\ HasRun(p)'
    BY <1>5
    DEF HasRead, UpToDate, HasResolved, HasPlan, HasRun, Holding, Preparing
  <1>. QED
    BY <1>1, <1>3, <1>4, <1>6, <1>7, LocalStep DEF CommandInv

\* The ways a command ends early, or late.
LEMMA EndSteps ==
    ASSUME IInv, NEW p \in Procs, Exit(p) \/ Fails(p) \/ Killed(p)
    PROVE  IInv'
  <1>1. /\ Ended(p)
        /\ UNCHANGED <<stacks, locks, registry, live, sessions, since, changes>>
        /\ runs' = [runs EXCEPT ![p] = NoRun]
    BY DEF Exit, Fails, Killed, Abandon, files, counters
  <1>. QED
    BY <1>1, EndedStep

LEMMA CommandStep ==
    ASSUME IInv, NEW p \in Procs, Command(p)
    PROVE  IInv'
  BY LoadStep, ReadStep, PlanStep, ValidateStep, RunSteps, CreateStep,
     UpdateStep, LaunchStep, EndSteps
  DEF Command

\* A change makes whatever was read before it old.
LEMMA ChangedStep ==
    ASSUME IInv, changes' = changes + 1, Now' \in Views,
           UNCHANGED <<sessions, since, runs, locals>>
    PROVE  IInv'
  <1>1. FilesInv /\ SessionsInv /\ Functional
    BY DEF IInv
  <1>2. UNCHANGED <<pc, task, reads, view, plan, session, expected, seen>>
    BY DEF locals
  <1>3. FilesInv'
    BY <1>1 DEF FilesInv
  <1>4. SessionsInv'
    <2>1. \A s \in Ids : since'[s] <= changes' /\ since'[s] # changes'
      BY <1>1 DEF SessionsInv, FilesInv
    <2>. QED
      BY <1>1, <2>1 DEF SessionsInv
  <1>5. Functional'
    <2>1. \A q \in Procs : seen'[q] <= changes'
      BY <1>1, <1>2 DEF Functional, FilesInv
    <2>. QED
      BY <1>1, <1>2, <2>1 DEF Functional
  <1>6. \A q \in Procs : CommandInv(q)'
    <2>1. \A q \in Procs : Same(q)
      BY <1>2 DEF Same
    <2>2. SessionsStay
      BY DEF SessionsStay
    <2>. QED
      BY <2>1, <2>2, OthersKeep
  <1>. QED
    BY <1>3, <1>4, <1>5, <1>6 DEF IInv

LEMMA WorldStep ==
    ASSUME IInv, World
    PROVE  IInv'
  <1>1. /\ stacks \in DOMAIN Versions /\ locks \in DOMAIN Versions /\ registry \in Registries
        /\ live \in SUBSET (Accounts \X Models)
    BY DEF IInv, FilesInv, Now, Views
  <1>2. CASE Cleanup
    <2>1. /\ UNCHANGED <<stacks, locks, registry, live, changes, sessions, since, runs>>
          /\ UNCHANGED <<pc, task, reads, view, plan, session, expected, seen>>
      BY <1>2 DEF Cleanup, files, locals, counters
    <2>2. \A q \in Procs : Same(q)
      BY <2>1 DEF Same
    <2>3. Now' = Now /\ SessionsStay
      BY <2>1 DEF Now, SessionsStay
    <2>4. FilesInv' /\ SessionsInv' /\ Functional'
      BY <2>1, <2>3 DEF IInv, FilesInv, SessionsInv, Functional
    <2>. QED
      BY <2>1, <2>2, <2>3, <2>4, OthersKeep DEF IInv
  <1>3. ASSUME NEW a \in Accounts, Reprioritize(a) \/ Suspend(a) \/ Activate(a) \/ Disturb(a)
        PROVE  IInv'
    <2>1. changes' = changes + 1 /\ UNCHANGED <<sessions, since, runs, locals, stacks, locks, live>>
      BY <1>3 DEF Reprioritize, Suspend, Activate, Disturb, Change, disk
    <2>2. registry' \in Registries
      <3>1. CASE Reprioritize(a)
        BY <1>1, <3>1, LaunchAssumption DEF Reprioritize, Registries
      <3>2. CASE Suspend(a)
        BY <1>1, <3>2 DEF Suspend, Registries
      <3>3. CASE Activate(a)
        BY <1>1, <3>3 DEF Activate, Registries
      <3>4. CASE Disturb(a)
        BY <1>1, <3>4 DEF Disturb
      <3>. QED
        BY <1>3, <3>1, <3>2, <3>3, <3>4
    <2>3. Now' \in Views
      BY <1>1, <2>1, <2>2 DEF Now, Views
    <2>. QED
      BY <2>1, <2>3, ChangedStep
  <1>4. ASSUME NEW a \in Accounts, NEW m \in Models, Catalogue(a, m)
        PROVE  IInv'
    <2>1. /\ changes' = changes + 1
          /\ UNCHANGED <<sessions, since, runs, locals, stacks, locks, registry>>
          /\ live' \in SUBSET (Accounts \X Models)
      BY <1>1, <1>4 DEF Catalogue, Change, disk
    <2>2. Now' \in Views
      BY <1>1, <2>1 DEF Now, Views
    <2>. QED
      BY <2>1, <2>2, ChangedStep
  <1>5. CASE SaveLocks
    <2>1. /\ changes' = changes + 1 /\ locks' \in DOMAIN Versions
          /\ UNCHANGED <<sessions, since, runs, locals, stacks, registry, live>>
      BY <1>5 DEF SaveLocks, Change, disk
    <2>2. Now' \in Views
      BY <1>1, <2>1 DEF Now, Views
    <2>. QED
      BY <2>1, <2>2, ChangedStep
  <1>6. CASE SaveStacks
    <2>1. /\ changes' = changes + 1 /\ stacks' = locks
          /\ UNCHANGED <<sessions, since, runs, locals, locks, registry, live>>
      BY <1>6 DEF SaveStacks, disk
    <2>2. Now' \in Views
      BY <1>1, <2>1 DEF Now, Views
    <2>. QED
      BY <2>1, <2>2, ChangedStep
  <1>. QED
    BY <1>2, <1>3, <1>4, <1>5, <1>6 DEF World

LEMMA NextIsSound ==
    ASSUME IInv, [Next]_vars
    PROVE  IInv'
  <1>1. CASE World
    BY <1>1, WorldStep
  <1>2. ASSUME NEW p \in Procs, Command(p) PROVE IInv'
    BY <1>2, CommandStep
  <1>3. CASE UNCHANGED vars
    <2>1. /\ UNCHANGED <<stacks, locks, registry, live, changes, sessions, since, runs>>
          /\ UNCHANGED <<pc, task, reads, view, plan, session, expected, seen>>
      BY <1>3 DEF vars, files, locals, counters, disk
    <2>2. \A q \in Procs : Same(q)
      BY <2>1 DEF Same
    <2>3. Now' = Now /\ SessionsStay
      BY <2>1 DEF Now, SessionsStay
    <2>4. FilesInv' /\ SessionsInv' /\ Functional'
      BY <2>1, <2>3 DEF IInv, FilesInv, SessionsInv, Functional
    <2>. QED
      BY <2>1, <2>2, <2>3, <2>4, OthersKeep DEF IInv
  <1>. QED
    BY <1>1, <1>2, <1>3 DEF Next

\* In every state, each command and each session can rely on what it needs
\* (the types of all variables, what has been read, planned and prepared).
THEOREM LaunchIsSound == Spec => []IInv
  <1>1. Init => IInv
    BY InitIsSound
  <1>2. IInv /\ [Next]_vars => IInv'
    BY NextIsSound
  <1>. QED
    BY <1>1, <1>2, PTL DEF Spec

-----------------------------------------------------------------------------
(* The best accounts                                                       *)

LEMMA ChosenIsBest ==
    ASSUME NEW v \in Views, NEW candidates \in Seq(Candidates), Able(v, candidates) # {},
           NEW n \in Nat
    PROVE  LET b == BindCandidate(v, Leading(v, candidates), n, NoBinding) IN
           /\ b.primary = ChooseRoute(v, Leading(v, candidates), n)
           /\ Account(b) \in Best(v, candidates)
  <1>. DEFINE c == Leading(v, candidates)
              b == BindCandidate(v, c, n, NoBinding)
  <1>1. c \in Candidates /\ Eligible(v, c) # {}
    BY LeadingIsFirst
  <1>. HIDE DEF c
  <1>2. b.primary = ChooseRoute(v, c, n)
    BY <1>1, Bound
  <1>3. ChooseRoute(v, c, n) \in Tier(v, c)
    BY <1>1, ChosenIsInTier
  <1>4. Best(v, candidates) = {<<r.account, r.model>> : r \in Tier(v, c)}
    BY BestIsTier DEF c
  <1>. QED
    BY <1>2, <1>3, <1>4 DEF Account, c

\* Whatever the accounts, pools, priorities and stacks: a new session is on the
\* best accounts there are, and its random number can reach each of them.
THEOREM NewSessionsAreOnBestRoutes == Spec => []BestRoutes
  <1>1. ASSUME IInv, NEW p \in Procs, pc[p] = "planned", task[p] \in {"new", "fork --stack"}
        PROVE  /\ \A i \in Indices :
                     Account(plan[p].agents[i]) \in Best(view[p], StacksOf(view[p]).agents[i])
               /\ Best(view[p], StacksOf(view[p]).controller) =
                     {Account(ResolvePlan(view[p], n, NoPlan).controller) : n \in Ordinals}
               /\ Account(plan[p].controller) \in Best(view[p], StacksOf(view[p]).controller)
    <2>. DEFINE v == view[p]
                candidates == StacksOf(v).controller
                c == Leading(v, candidates)
    <2>1. /\ v \in Views /\ plan[p] # NoPlan
          /\ \E n \in Ordinals : plan[p] = ResolvePlan(v, n, NoPlan)
      BY <1>1 DEF IInv, CommandInv, HasResolved, HasPlan, Holding
    <2>2. PICK n \in Ordinals : plan[p] = ResolvePlan(v, n, NoPlan)
      BY <2>1
    <2>. HIDE DEF v
    <2>3. /\ candidates \in Seq(Candidates)
          /\ \A i \in Indices : StacksOf(v).agents[i] \in Seq(Candidates)
      BY <2>1, VersionsAssumption DEF StacksOf, Views
    <2>4. /\ Ordinals \subseteq Nat /\ n \in Nat
          /\ \A i \in Indices : n + i \in Nat
      BY LaunchAssumption, RoutingAssumption DEF Indices
    <2>5. \A k \in Ordinals : ResolvePlan(v, k, NoPlan) # NoPlan
      BY <2>1, <2>2, <2>4, ResolvedForAny
    <2>6. /\ Able(v, candidates) # {}
          /\ \A k \in Ordinals :
                ResolvePlan(v, k, NoPlan).controller = BindCandidate(v, c, k, NoBinding)
      BY <2>1, <2>4, <2>5, Resolved
    <2>7. \A k \in Ordinals :
             /\ ResolvePlan(v, k, NoPlan).controller.primary = ChooseRoute(v, c, k)
             /\ Account(ResolvePlan(v, k, NoPlan).controller) \in Best(v, candidates)
      <3>. SUFFICES ASSUME NEW k \in Ordinals
                    PROVE  /\ ResolvePlan(v, k, NoPlan).controller.primary = ChooseRoute(v, c, k)
                           /\ Account(ResolvePlan(v, k, NoPlan).controller) \in Best(v, candidates)
        OBVIOUS
      <3>1. k \in Nat /\ ResolvePlan(v, k, NoPlan).controller = BindCandidate(v, c, k, NoBinding)
        BY <2>4, <2>6
      <3>2. /\ BindCandidate(v, c, k, NoBinding).primary = ChooseRoute(v, c, k)
            /\ Account(BindCandidate(v, c, k, NoBinding)) \in Best(v, candidates)
        <4>. HIDE DEF candidates
        <4>. QED
          BY <2>1, <2>3, <2>6, <3>1, ChosenIsBest
      <3>. QED
        BY <3>1, <3>2
    <2>8. c \in Candidates /\ Eligible(v, c) # {}
      BY <2>1, <2>3, <2>6, LeadingIsFirst
    <2>9. ASSUME NEW x \in Best(v, candidates)
          PROVE  \E k \in Ordinals : x = Account(ResolvePlan(v, k, NoPlan).controller)
      <3>. HIDE DEF c
      <3>1. Best(v, candidates) = {<<r.account, r.model>> : r \in Tier(v, c)}
        BY <2>1, <2>3, <2>6, BestIsTier DEF c
      <3>2. PICK r \in Tier(v, c) : x = <<r.account, r.model>>
        BY <3>1
      <3>3. PICK k \in Ordinals : ChooseRoute(v, c, k) = r
        BY <2>1, <2>8, TierIsReached
      <3>. QED
        BY <2>7, <3>2, <3>3 DEF Account
    <2>10. \A i \in Indices : Account(plan[p].agents[i]) \in Best(v, StacksOf(v).agents[i])
      <3>1. \A i \in Indices :
              /\ Able(v, StacksOf(v).agents[i]) # {}
              /\ plan[p].agents[i] =
                   BindCandidate(v, Leading(v, StacksOf(v).agents[i]), n + i, NoBinding)
        BY <2>1, <2>2, <2>4, Resolved
      <3>. QED
        BY <2>1, <2>3, <2>4, <3>1, ChosenIsBest
    <2>. QED
      BY <2>2, <2>7, <2>9, <2>10 DEF v
  <1>2. IInv => BestRoutes
    BY <1>1 DEF BestRoutes
  <1>. QED
    BY <1>2, LaunchIsSound, PTL

-----------------------------------------------------------------------------
(* Locks                                                                   *)

\* Whatever else the session binds to the same model: the proxy finds no
\* fallback for a model that is bound to a locked account.
LEMMA LockedHasNoFallback ==
    ASSUME NEW x, NEW b \in Bindings(x), b.fallback = NoRoute
    PROVE  FallbackFor(x, Upstream(b.primary)) = NoRoute
  <1>. DEFINE P == Policies(x, Upstream(b.primary))
  <1>1. <<b.primary, NoRoute>> \in P
    BY DEF Policies
  <1>. HIDE DEF P
  <1>2. ASSUME \E policy \in P : P = {policy}
        PROVE  (CHOOSE policy \in P : TRUE)[2] = NoRoute
    <2>1. \A policy \in P : policy = <<b.primary, NoRoute>>
      BY <1>1, <1>2
    <2>2. (CHOOSE policy \in P : TRUE) \in P
      BY <1>1
    <2>. QED
      BY <2>1, <2>2
  <1>. QED
    BY <1>2 DEF FallbackFor, P

\* What was bound under a lock is on the locked account for as long as the
\* session lives, through any resumes and forks, and the proxy has no other.
THEOREM BoundUnderALockStays == Spec => []LocksRespected
  <1>1. ASSUME IInv, NEW s \in Ids, sessions[s] # NoSession, NEW b \in Bindings(sessions[s]),
               b.lock # Anyone
        PROVE  /\ b.primary.account = b.lock
               /\ FallbackFor(sessions[s], Upstream(b.primary)) = NoRoute
    <2>1. Kept(b)
      BY <1>1 DEF IInv, SessionsInv, Sound
    <2>. QED
      BY <1>1, <2>1, LockedHasNoFallback DEF Kept
  <1>2. IInv => LocksRespected
    BY <1>1 DEF LocksRespected
  <1>. QED
    BY <1>2, LaunchIsSound, PTL

-----------------------------------------------------------------------------
(* Which steps change a session                                            *)

LEMMA SessionsChange ==
    ASSUME IInv, [Next]_vars, NEW s \in Ids, sessions'[s] # sessions[s]
    PROVE  \E p \in Procs :
              \/ /\ Create(p) /\ sessions[s] = NoSession
                 /\ pc[p] = "complete" /\ pc'[p] = "saved" /\ session'[p] = s
                 /\ sessions'[s] = plan[p]
              \/ /\ task[p] = "resume" /\ ~Matches(p, Updated(p)) /\ Matches(p, expected[p])
                 /\ pc[p] = "complete" /\ pc'[p] = "saved" /\ session[p] = s /\ session'[p] = s
                 /\ sessions'[s] = Updated(p)
  <1>1. Functional /\ SessionsInv
    BY DEF IInv
  <1>2. PICK p \in Procs : Create(p) \/ Update(p)
    BY DEF Next, World, Command, Cleanup, Reprioritize, Suspend, Activate,
       Disturb, Catalogue, SaveLocks, SaveStacks, Change, Load, ReadFile, Plan,
       Validate, MakeRun, WriteDocuments, CopyPlugin, Isolate, Connect,
       Complete, Prepare, Launch, Exit, Fails, Killed, vars
  <1>3. CASE Create(p)
    <2>1. PICK x \in Ids :
             /\ plan[p] \in Sound /\ sessions[x] = NoSession
             /\ pc[p] = "complete" /\ pc' = [pc EXCEPT ![p] = "saved"]
             /\ sessions' = [sessions EXCEPT ![x] = plan[p]]
             /\ since' = [since EXCEPT ![x] = seen[p]] /\ session' = [session EXCEPT ![p] = x]
      BY <1>3, CreateSaves
    <2>. QED
      BY <1>1, <1>3, <2>1 DEF Functional, SessionsInv
  <1>4. CASE Update(p)
    <2>1. /\ pc[p] = "complete" /\ task[p] = "resume" /\ session[p] \in Ids
          /\ ~Matches(p, Updated(p)) /\ Matches(p, expected[p])
          /\ sessions' = [sessions EXCEPT ![session[p]] = Updated(p)]
          /\ pc' = [pc EXCEPT ![p] = "saved"] /\ UNCHANGED session
      BY <1>4, UpdatedIsSound DEF Update
    <2>. QED
      BY <1>1, <2>1 DEF Functional, SessionsInv
  <1>. QED
    BY <1>2, <1>3, <1>4

\* Without a change, a resume finds the binding that the session has.
LEMMA CalmResumesMatch ==
    ASSUME IInv, NEW p \in Procs, pc[p] = "complete", task[p] = "resume", seen[p] = changes,
           since[session[p]] = changes, Matches(p, expected[p])
    PROVE  Matches(p, Updated(p))
  <1>. DEFINE c == Leading(Now, StacksOf(Now).controller)
              old == sessions[session[p]].controller
              new == plan[p].controller
  <1>1. /\ Updated(p).controller = new /\ session[p] \in Ids
        /\ sessions[session[p]] \in Sound
    BY UpdatedIsSound
  <1>2. sessions[session[p]] # NoSession
    BY <1>1, LaunchAssumption DEF Sound
  <1>3. Settled(Now, old)
    BY <1>1, <1>2 DEF IInv, SessionsInv
  <1>4. /\ Settled(Now, new)
        /\ expected[p].controller.primary \in Eligible(Now, c)
             => new.primary = expected[p].controller.primary
    BY DEF IInv, CommandInv, HasPlan, Holding
  <1>5. old.primary = expected[p].controller.primary
    BY DEF Matches, SameBindings
  <1>6. new.primary = old.primary /\ new.fallback = old.fallback
    BY <1>3, <1>4, <1>5 DEF Settled
  <1>. QED
    BY <1>1, <1>6 DEF Matches, SameBindings

\* However many resumes run at once, and whatever their order: while nothing
\* changes, none of those that have read what there is moves the session.
THEOREM CalmSessionsAreKept == Spec => CalmSessionsKept
  <1>1. ASSUME IInv, [Next]_vars, NEW s \in Ids,
               sessions[s] # NoSession, since[s] = changes, sessions'[s] # sessions[s]
        PROVE  \E p \in Procs : session[p] = s /\ pc[p] = "complete" /\ seen[p] < changes
    <2>1. PICK p \in Procs :
             /\ task[p] = "resume" /\ ~Matches(p, Updated(p)) /\ Matches(p, expected[p])
             /\ pc[p] = "complete" /\ session[p] = s
      BY <1>1, SessionsChange
    <2>2. seen[p] # changes
      BY <1>1, <2>1, CalmResumesMatch
    <2>3. seen[p] \in Nat /\ changes \in Nat /\ seen[p] <= changes
      BY <1>1 DEF IInv, FilesInv, Functional
    <2>. QED
      BY <2>1, <2>2, <2>3
  <1>2. IInv /\ [Next]_vars =>
           [\A s \in Ids :
              sessions[s] # NoSession /\ since[s] = changes /\ sessions'[s] # sessions[s] =>
                  \E p \in Procs : session[p] = s /\ pc[p] = "complete" /\ seen[p] < changes]_vars
    BY <1>1
  <1>. QED
    BY <1>2, LaunchIsSound, PTL DEF Spec, CalmSessionsKept

\* A session is saved, or its controller replaced, only by a command whose run
\* is complete, verified and made for exactly the models then saved.
THEOREM SessionsAreSavedPrepared == Spec => SavedIsPrepared
  <1>1. ASSUME IInv, [Next]_vars, NEW s \in Ids, sessions'[s] # sessions[s]
        PROVE  \E p \in Procs :
                  /\ session'[p] = s /\ pc'[p] = "saved"
                  /\ runs[p].complete /\ runs[p].models = ModelsOf(sessions'[s])
                  /\ Verified(runs[p])
    <2>1. PICK p \in Procs :
             /\ pc[p] = "complete" /\ pc'[p] = "saved" /\ session'[p] = s
             /\ sessions'[s] = plan[p] \/ (task[p] = "resume" /\ sessions'[s] = Updated(p))
      BY <1>1, SessionsChange
    <2>2. /\ runs[p] = Run(ModelsOf(plan[p]), Contracts(ModelsOf(plan[p])), TRUE, TRUE, TRUE)
          /\ Verified(runs[p])
      BY <1>1, <2>1 DEF IInv, CommandInv, HasRun
    <2>3. runs[p].complete /\ runs[p].models = ModelsOf(plan[p])
      BY <2>2 DEF Run
    <2>4. task[p] = "resume" => ModelsOf(Updated(p)) = ModelsOf(plan[p])
      BY <1>1, <2>1, UpdatedIsSound DEF ModelsOf
    <2>. QED
      BY <2>1, <2>2, <2>3, <2>4
  <1>2. IInv /\ [Next]_vars =>
           [\A s \in Ids : sessions'[s] # sessions[s] =>
               \E p \in Procs :
                   /\ session'[p] = s /\ pc'[p] = "saved"
                   /\ runs[p].complete
                   /\ runs[p].models = ModelsOf(sessions'[s])
                   /\ Verified(runs[p])]_vars
    BY <1>1
  <1>. QED
    BY <1>2, LaunchIsSound, PTL DEF Spec, SavedIsPrepared

=============================================================================
