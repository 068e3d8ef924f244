---------------------- MODULE PrometheusDiscoveryProofs ----------------------
(***************************************************************************)
(* Theorems about PrometheusDiscovery, for any threads, identities,        *)
(* services, candidates and TTLs.                                          *)
(***************************************************************************)
EXTENDS PrometheusDiscovery, TLAPS

-----------------------------------------------------------------------------
(* Types.                                                                  *)

LEMMA CandidateCount == Len(Candidates) \in Nat
  BY DiscoveryAssumption

LEMMA InitType == Init => TypeOK
<1> SUFFICES ASSUME Init PROVE TypeOK
  OBVIOUS
<1> USE DiscoveryAssumption, CandidateCount
<1>1. /\ now = 0 /\ changes = 0 /\ cacheKey = None /\ cache = None /\ cacheAt = 0
      /\ tried = FALSE /\ failedAt = 0 /\ lock = None /\ said = Nothing
      /\ next = 1 /\ found = None /\ waited = 0
  BY DEF Init
<1>2. kind \in [Services -> Kinds] BY DEF Init, Kinds
<1>3. gone \in [Services -> Int] /\ bad \in [Keys -> Int] BY DEF Init
<1>4. next \in 1..(Len(Candidates) + 1) BY <1>1
<1>5. last \in [key : Keys \cup {None}, at : Nat, url : Services \cup {None}]
  BY DEF Init, NoScan
<1>6. /\ pc \in [Threads -> {"idle", "asking", "scanning"}]
      /\ key \in [Threads -> Keys \cup {None}]
      /\ \A t \in Threads : pc[t] = "idle" /\ lock # t
  BY DEF Init
<1>7. /\ \A t \in Threads : pc[t] = "scanning" <=> lock = t
      /\ \A t \in Threads : pc[t] # "idle" => key[t] \in Keys
  BY <1>6
<1>8. tried \in BOOLEAN /\ ~tried
  BY <1>1, Zenon
<1> QED BY <1>1, <1>2, <1>3, <1>4, <1>5, <1>6, <1>7, <1>8 DEF TypeOK

(* A scan that ends leaves everything typed.                                *)
LEMMA FailType ==
    ASSUME TypeOK, NEW t \in Threads, lock = t, cache = None, Fail(t),
           bad' \in [Keys -> Int]
    PROVE  TypeOK'
  BY DiscoveryAssumption, CandidateCount, SMTT(30) DEF TypeOK, Fail, Answer, Release, cluster

LEMMA StoreType ==
    ASSUME TypeOK, NEW t \in Threads, lock = t, NEW s \in Services, Store(t, s)
    PROVE  TypeOK'
<1> USE DiscoveryAssumption, CandidateCount
<1>1. /\ UNCHANGED <<now, kind, changes, gone, cacheKey, bad>>
      /\ cache' = s /\ cacheAt' = now /\ tried' = FALSE /\ failedAt' = 0
      /\ said' = s /\ lock' = None /\ next' = 1 /\ found' = None /\ waited' = 0
  BY DEF Store, Answer, Release, cluster
<1>2. last' \in [key : Keys \cup {None}, at : Nat, url : Services \cup {None}]
  BY DEF TypeOK, Store
<1>3. pc' = [pc EXCEPT ![t] = "idle"] /\ key' = [key EXCEPT ![t] = None]
  BY DEF Store, Answer
<1>4. /\ pc' \in [Threads -> {"idle", "asking", "scanning"}]
      /\ \A u \in Threads : pc'[u] = "scanning" <=> lock' = u
      /\ key' \in [Threads -> Keys \cup {None}]
      /\ \A u \in Threads : pc'[u] # "idle" => key'[u] \in Keys
  BY <1>1, <1>3 DEF TypeOK
<1>5. next' \in 1..(Len(Candidates) + 1) /\ cacheAt' \in 0..now' /\ failedAt' \in 0..now'
  BY <1>1 DEF TypeOK
<1> QED BY <1>1, <1>2, <1>4, <1>5 DEF TypeOK

LEMMA TakeType ==
    ASSUME TypeOK, NEW t \in Threads, lock = t, NEW s \in Services, Take(t, s)
    PROVE  TypeOK'
<1>1. CASE kind[s] = "inside" /\ Store(t, s)
  BY <1>1, StoreType
<1>2. CASE /\ found' = s /\ waited' = 0 /\ said' = Nothing
           /\ UNCHANGED <<now, cluster, discovery, lock, next, pc, key, bad, last>>
  BY <1>2 DEF TypeOK, cluster, discovery
<1> QED BY <1>1, <1>2 DEF Take

(* While a scan is under way nothing is cached.                             *)
Blank ==
    lock # None =>
        lock \in Threads /\ cacheKey = key[lock] /\ cache = None /\ ~tried

LEMMA NextType == TypeOK /\ Blank /\ [Next]_vars => TypeOK'
<1> SUFFICES ASSUME TypeOK, Blank, [Next]_vars PROVE TypeOK'
  OBVIOUS
<1> USE DiscoveryAssumption, CandidateCount
<1>1. CASE UNCHANGED vars
  BY <1>1 DEF TypeOK, vars, cluster, discovery, scan
<1>2. CASE Tick
  BY <1>2 DEF TypeOK, Tick, cluster, discovery
<1>3. ASSUME NEW s \in Services, Change(s) PROVE TypeOK'
  BY <1>3 DEF TypeOK, Change, discovery, scan
<1>4. ASSUME NEW t \in Threads, Ask(t) PROVE TypeOK'
  BY <1>4 DEF TypeOK, Ask, cluster, discovery, scan
<1>5. ASSUME NEW t \in Threads, Look(t) PROVE TypeOK'
  <2>1. CASE Serve(t)
    <3>1. /\ UNCHANGED <<now, cluster, discovery, scan, bad, last>>
          /\ pc[t] = "asking" /\ said' = cache
          /\ pc' = [pc EXCEPT ![t] = "idle"] /\ key' = [key EXCEPT ![t] = None]
      BY <2>1 DEF Serve, Entering, Answer
    <3> QED BY <3>1 DEF TypeOK, cluster, discovery, scan
  <2>2. CASE Refuse(t)
    BY <2>2 DEF TypeOK, Refuse, Entering, Answer, cluster, scan
  <2>3. CASE NoClient(t)
    <3>1. /\ UNCHANGED <<now, cluster, scan, bad>>
          /\ pc[t] = "asking" /\ key[t] \in Keys /\ said' = Nothing /\ last' = NoScan
          /\ cacheKey' = key[t] /\ cache' = None /\ cacheAt' = 0
          /\ tried' = FALSE /\ failedAt' = 0
          /\ pc' = [pc EXCEPT ![t] = "idle"] /\ key' = [key EXCEPT ![t] = None]
      BY <2>3 DEF NoClient, Forget, Entering, Answer, TypeOK
    <3>2. /\ pc' \in [Threads -> {"idle", "asking", "scanning"}]
          /\ \A u \in Threads : pc'[u] = "scanning" <=> lock' = u
          /\ \A u \in Threads : pc'[u] # "idle" => key'[u] \in Keys
          /\ key' \in [Threads -> Keys \cup {None}]
      BY <3>1 DEF TypeOK, scan
    <3>3. cacheAt' \in 0..now' /\ failedAt' \in 0..now'
      BY <3>1 DEF TypeOK
    <3>4. last' \in [key : Keys \cup {None}, at : Nat, url : Services \cup {None}]
      BY <3>1 DEF NoScan
    <3> QED BY <3>1, <3>2, <3>3, <3>4 DEF TypeOK, cluster, scan
  <2>4. CASE Begin(t)
    <3>1. /\ UNCHANGED <<now, kind, changes, gone, key, bad, last>>
          /\ pc[t] = "asking" /\ lock = None /\ lock' = t
          /\ cacheKey' = key[t] /\ cache' = None /\ cacheAt' = 0
          /\ tried' = FALSE /\ failedAt' = 0
          /\ next' = 1 /\ found' = None /\ waited' = 0 /\ said' = Nothing
          /\ pc' = [pc EXCEPT ![t] = "scanning"]
      BY <2>4 DEF Begin, Forget, Entering, cluster
    <3>2. /\ pc' \in [Threads -> {"idle", "asking", "scanning"}]
          /\ \A u \in Threads : pc'[u] = "scanning" <=> lock' = u
          /\ \A u \in Threads : pc'[u] # "idle" => key'[u] \in Keys
      BY <3>1 DEF TypeOK
    <3>3. next' \in 1..(Len(Candidates) + 1) /\ cacheAt' \in 0..now' /\ failedAt' \in 0..now'
      BY <3>1 DEF TypeOK
    <3> QED BY <3>1, <3>2, <3>3 DEF TypeOK
  <2> QED BY <1>5, <2>1, <2>2, <2>3, <2>4 DEF Look
<1>6. ASSUME NEW t \in Threads, Probe(t) PROVE TypeOK'
  <2>1. lock = t /\ cache = None /\ key[t] \in Keys
    BY <1>6 DEF Probe, Miss, Hit, CandidateError, WideHit, WideMiss, WideError, Resolve, TryNext,
       WideScanning, Scanning, Blank, TypeOK
  <2>2. \A k \in Keys : Reach[k] \subseteq Services
    OBVIOUS
  <2>3. CASE Miss(t)
    BY <2>3 DEF TypeOK, Miss, TryNext, cluster, discovery
  <2>4. CASE Hit(t)
    <3>1. Candidates[next] \in Services BY <2>4 DEF Hit, TryNext, TypeOK
    <3> QED BY <2>1, <2>4, <3>1, TakeType DEF Hit
  <2>5. CASE CandidateError(t) \/ WideError(t)
    <3>1. Fail(t) /\ bad' = [bad EXCEPT ![key[t]] = now]
      BY <2>5 DEF CandidateError, WideError, Failing
    <3>2. now \in Int /\ bad \in [Keys -> Int]
      BY DEF TypeOK
    <3>3. bad' \in [Keys -> Int]
      BY <3>1, <3>2
    <3> QED BY <2>1, <3>1, <3>3, FailType
  <2>6. CASE WideHit(t)
    BY <2>1, <2>2, <2>6, TakeType DEF WideHit, Matches
  <2>7. CASE WideMiss(t)
    BY <2>1, <2>7, FailType DEF WideMiss, TypeOK
  <2>8. CASE Resolve(t)
    BY <2>1, <2>8, StoreType DEF Resolve, TypeOK
  <2> QED BY <1>6, <2>3, <2>4, <2>5, <2>6, <2>7, <2>8 DEF Probe
<1> QED BY <1>1, <1>2, <1>3, <1>4, <1>5, <1>6 DEF Next, World

LEMMA InitBlank == Init => Blank
  BY DEF Init, Blank

LEMMA NextBlank == TypeOK /\ Blank /\ [Next]_vars => Blank'
<1> SUFFICES ASSUME TypeOK, Blank, [Next]_vars PROVE Blank'
  OBVIOUS
<1> USE DiscoveryAssumption DEF Blank
<1>1. CASE UNCHANGED vars
  BY <1>1 DEF vars, discovery, scan
<1>2. CASE World
  BY <1>2 DEF World, Tick, Change, discovery, scan
<1>3. ASSUME NEW t \in Threads, Ask(t) PROVE Blank'
  BY <1>3 DEF TypeOK, Ask, discovery, scan
<1>4. ASSUME NEW t \in Threads, Look(t) PROVE Blank'
  BY <1>4 DEF TypeOK, Look, Serve, Refuse, NoClient, Begin, Forget, Entering, Answer, discovery, scan
<1>5. ASSUME NEW t \in Threads, Probe(t) PROVE Blank'
  <2>1. lock' = None \/ UNCHANGED <<lock, discovery, key>>
    BY <1>5 DEF Probe, Miss, Hit, CandidateError, WideHit, WideMiss, WideError, Resolve, Take,
       Store, Fail, Release
  <2> QED BY <2>1 DEF discovery
<1> QED BY <1>1, <1>2, <1>3, <1>4, <1>5 DEF Next

LEMMA TypedAndBlank == Spec => [](TypeOK /\ Blank)
  BY InitType, InitBlank, NextType, NextBlank, PTL DEF Spec

(* Every variable keeps its type, only the holder of the lock scans, and a  *)
(* URL and a failure are never remembered together.                         *)
THEOREM TypeCorrect == Spec => []TypeOK
  BY TypedAndBlank, PTL

-----------------------------------------------------------------------------
(* What the answers rest on.                                               *)

(* A cached URL leads to a service its identity may see, which had a URL    *)
(* not long before it was cached.                                           *)
Backed ==
    cache # None =>
        /\ cacheKey \in Keys /\ cache \in Reach[cacheKey]
        /\ HasUrl(cache) \/ gone[cache] + MaxDelay >= cacheAt

(* The service whose URL is being built had one when its request began.     *)
Building ==
    /\ waited <= MaxDelay
    /\ found # None =>
          /\ lock # None /\ found \in Reach[key[lock]]
          /\ HasUrl(found) \/ gone[found] >= now - waited

(* A failure is remembered for an identity that then could find nothing, or *)
(* whose request failed.                                                    *)
Failure ==
    tried => cacheKey \in Keys /\ (Good(cacheKey) => bad[cacheKey] >= failedAt)

(* Between scans the cache holds the result of the last one, or what is     *)
(* left of it.                                                              *)
Latest ==
    lock = None /\ last.key # None =>
        /\ last.key = cacheKey
        /\ last.url # None => cache = last.url /\ cacheAt = last.at
        /\ last.url = None => tried /\ failedAt = last.at

IInv == TypeOK /\ Blank /\ Backed /\ Building /\ Failure /\ Latest

LEMMA InitIInv == Init => IInv
<1> SUFFICES ASSUME Init PROVE IInv
  OBVIOUS
<1>1. TypeOK /\ Blank
  BY InitType, InitBlank
<1>2. Backed /\ Failure
  BY DEF Init, Backed, Failure
<1>3. Building
  BY DiscoveryAssumption DEF Init, Building
<1>4. Latest
  BY DEF Init, NoScan, Latest
<1> QED BY <1>1, <1>2, <1>3, <1>4 DEF IInv

(***************************************************************************)
(* Every step of a scan goes on, stores a URL or records a failure.        *)
(***************************************************************************)
Continues(t) ==
    /\ UNCHANGED <<now, cluster, discovery, lock, pc, key, bad, last>>
    /\ waited' \in {0, waited}
    /\ \/ found' = None
       \/ found' \in Reach[key[t]] /\ HasUrl(found') /\ waited' = 0

Stores(t) ==
    \E s \in Reach[key[t]] :
        Store(t, s) /\ (HasUrl(s) \/ gone[s] >= now - MaxDelay)

Fails(t) ==
    /\ Fail(t)
    /\ bad' \in [Keys -> Int]
    /\ bad'[key[t]] = now \/ ~Good(key[t])

LEMMA TakeOutcome ==
    ASSUME IInv, NEW t \in Threads, lock = t, key[t] \in Keys,
           NEW s \in Reach[key[t]], Take(t, s)
    PROVE  Continues(t) \/ Stores(t)
  BY DEF Take, Continues, Stores, HasUrl

LEMMA ProbeHolds ==
    ASSUME IInv, NEW t \in Threads, Probe(t)
    PROVE  /\ lock = t /\ t # None /\ key[t] \in Keys
           /\ cacheKey = key[t] /\ cache = None /\ ~tried
<1> USE DiscoveryAssumption DEF IInv
<1>1. lock = t
  BY DEF Probe, Miss, Hit, CandidateError, WideHit, WideMiss, WideError, Resolve, TryNext,
     WideScanning, Scanning
<1>2. t # None
  OBVIOUS
<1>3. pc[t] = "scanning" /\ key[t] \in Keys
  BY <1>1 DEF TypeOK
<1>4. cacheKey = key[t] /\ cache = None
  BY <1>1, <1>2 DEF Blank
<1>5. ~tried
  BY <1>1, <1>2, Zenon DEF Blank
<1> QED BY <1>1, <1>2, <1>3, <1>4, <1>5, Zenon

LEMMA ProbeOutcome ==
    ASSUME IInv, NEW t \in Threads, Probe(t)
    PROVE  Continues(t) \/ Stores(t) \/ Fails(t)
<1> USE DiscoveryAssumption DEF IInv
<1>1. lock = t /\ key[t] \in Keys
  BY ProbeHolds
<1>2. CASE Miss(t)
  BY <1>2 DEF Miss, TryNext, Scanning, Continues
<1>3. CASE Hit(t)
  <2>1. Candidates[next] \in Reach[key[t]] /\ Take(t, Candidates[next])
    BY <1>3 DEF Hit, Visible
  <2> QED BY <1>1, <2>1, TakeOutcome
<1>4. CASE CandidateError(t) \/ WideError(t)
  <2>1. Fail(t) /\ bad' = [bad EXCEPT ![key[t]] = now]
    BY <1>4 DEF CandidateError, WideError, Failing
  <2>2. now \in Int /\ bad \in [Keys -> Int]
    BY DEF TypeOK
  <2> QED BY <1>1, <2>1, <2>2 DEF Fails
<1>5. CASE WideHit(t)
  BY <1>1, <1>5, TakeOutcome DEF WideHit, Matches
<1>6. CASE WideMiss(t)
  <2>1. ~Good(key[t])
    BY <1>6 DEF WideMiss, Matches, First, Good, GoodIn
  <2>2. Fail(t) /\ bad' = bad
    BY <1>6 DEF WideMiss
  <2> QED BY <1>1, <2>1, <2>2 DEF Fails, TypeOK
<1>7. CASE Resolve(t)
  <2>1. found \in Reach[key[t]] /\ Store(t, found)
    BY <1>1, <1>7 DEF Resolve, Building
  <2>2. HasUrl(found) \/ gone[found] >= now - MaxDelay
    <3>1. now \in Int /\ waited \in Int /\ waited <= MaxDelay /\ gone[found] \in Int
      BY <1>1, <2>1 DEF TypeOK, Building
    <3>2. HasUrl(found) \/ gone[found] >= now - waited
      BY <1>7 DEF Resolve, Building
    <3> QED BY <3>1, <3>2
  <2> QED BY <2>1, <2>2 DEF Stores
<1> QED BY <1>2, <1>3, <1>4, <1>5, <1>6, <1>7 DEF Probe

LEMMA NextBacked == IInv /\ [Next]_vars => Backed'
<1> SUFFICES ASSUME IInv, [Next]_vars PROVE Backed'
  OBVIOUS
<1> USE DiscoveryAssumption DEF IInv
<1>1. CASE UNCHANGED <<kind, gone, discovery>>
  BY <1>1 DEF Backed, HasUrl, discovery
<1>2. CASE Tick
  BY <1>1, <1>2 DEF Tick, cluster
<1>3. ASSUME NEW s \in Services, Change(s) PROVE Backed'
  <2>1. /\ UNCHANGED <<cacheKey, cache, cacheAt>>
        /\ gone' = [gone EXCEPT ![s] = IF HasUrl(s) THEN now ELSE @]
        /\ \A q \in Services \ {s} : kind'[q] = kind[q]
    BY <1>3 DEF Change, discovery, TypeOK
  <2>2. now \in Int /\ gone \in [Services -> Int] /\ cacheAt \in Int /\ cacheAt <= now
    BY DEF TypeOK
  <2>3. cache # None => cache \in Services
    BY DEF TypeOK
  <2> QED BY <2>1, <2>2, <2>3 DEF Backed, HasUrl
<1>4. ASSUME NEW t \in Threads, Ask(t) \/ Look(t) PROVE Backed'
  BY <1>4 DEF Ask, Look, Serve, Refuse, NoClient, Begin, Forget, Backed, HasUrl, cluster, discovery
<1>5. ASSUME NEW t \in Threads, Probe(t) PROVE Backed'
  <2>1. /\ key[t] \in Keys /\ cacheKey = key[t] /\ cache = None
        /\ Continues(t) \/ Stores(t) \/ Fails(t)
    BY <1>5, ProbeHolds, ProbeOutcome
  <2>2. CASE Continues(t) \/ Fails(t)
    BY <2>1, <2>2 DEF Continues, Fails, Fail, Backed, discovery
  <2>3. CASE Stores(t)
    <3>1. PICK s \in Reach[key[t]] : Store(t, s) /\ (HasUrl(s) \/ gone[s] >= now - MaxDelay)
      BY <2>3 DEF Stores
    <3>2. /\ cache' = s /\ cacheAt' = now /\ UNCHANGED <<kind, gone, cacheKey>>
      BY <3>1 DEF Store, cluster
    <3>3. s \in Services /\ gone[s] \in Int /\ now \in Int
      BY <2>1 DEF TypeOK
    <3> QED BY <2>1, <3>1, <3>2, <3>3 DEF Backed, HasUrl
  <2> QED BY <2>1, <2>2, <2>3
<1>6. CASE UNCHANGED vars
  BY <1>1, <1>6 DEF vars, cluster
<1> QED BY <1>2, <1>3, <1>4, <1>5, <1>6 DEF Next, World

LEMMA NextBuilding == IInv /\ [Next]_vars => Building'
<1> SUFFICES ASSUME IInv, [Next]_vars PROVE Building'
  OBVIOUS
<1> USE DiscoveryAssumption DEF IInv
<1>0. /\ now \in Int /\ waited \in Nat /\ gone \in [Services -> Int]
      /\ found # None => found \in Services /\ lock \in Threads
  BY DEF TypeOK, Building
<1>1. CASE UNCHANGED <<now, kind, gone, scan>> /\ (lock # None => key'[lock] = key[lock])
  BY <1>1 DEF Building, HasUrl, scan
<1>2. CASE Tick
  BY <1>0, <1>2 DEF Tick, Building, HasUrl, cluster
<1>3. ASSUME NEW s \in Services, Change(s) PROVE Building'
  <2>1. /\ UNCHANGED <<now, lock, found, waited, key>>
        /\ gone' = [gone EXCEPT ![s] = IF HasUrl(s) THEN now ELSE @]
        /\ \A q \in Services \ {s} : kind'[q] = kind[q]
    BY <1>3 DEF Change, scan, TypeOK
  <2> QED BY <1>0, <2>1 DEF Building, HasUrl
<1>4. ASSUME NEW t \in Threads, Ask(t) \/ Serve(t) \/ Refuse(t) \/ NoClient(t) PROVE Building'
  BY <1>1, <1>4 DEF Ask, Serve, Refuse, NoClient, Entering, Answer, cluster, scan, TypeOK
<1>5. ASSUME NEW t \in Threads, Begin(t) PROVE Building'
  BY <1>5 DEF Begin, Building
<1>6. ASSUME NEW t \in Threads, Probe(t) PROVE Building'
  <2>1. /\ lock = t /\ t # None
        /\ Continues(t) \/ Stores(t) \/ Fails(t)
    BY <1>6, ProbeHolds, ProbeOutcome
  <2>2. CASE Continues(t)
    <3>1. waited' <= MaxDelay
      BY <2>2 DEF Continues, Building
    <3>2. ASSUME found' # None PROVE kind'[found'] \in {"inside", "outside"} /\ found' \in Reach[key'[lock']] /\ lock' # None
      BY <2>1, <2>2, <3>2 DEF Continues, HasUrl, cluster
    <3> QED BY <3>1, <3>2 DEF Building, HasUrl
  <2>3. CASE Stores(t) \/ Fails(t)
    BY <2>3 DEF Stores, Fails, Store, Fail, Release, Building
  <2> QED BY <2>1, <2>2, <2>3
<1>7. CASE UNCHANGED vars
  BY <1>1, <1>7 DEF vars, cluster
<1> QED BY <1>2, <1>3, <1>4, <1>5, <1>6, <1>7 DEF Next, World, Look

LEMMA NextFailure == IInv /\ [Next]_vars => Failure'
<1> SUFFICES ASSUME IInv, [Next]_vars PROVE Failure'
  OBVIOUS
<1> USE DiscoveryAssumption DEF IInv
<1>1. CASE UNCHANGED <<kind, bad, discovery>>
  BY <1>1 DEF Failure, Good, GoodIn, discovery
<1>2. CASE Tick
  BY <1>1, <1>2 DEF Tick, cluster
<1>3. ASSUME NEW s \in Services, Change(s) PROVE Failure'
  <2>1. /\ UNCHANGED <<cacheKey, tried, failedAt>>
        /\ bad' = [k \in Keys |-> IF Good(k) THEN bad[k] ELSE now]
    BY <1>3 DEF Change, discovery
  <2>2. now \in Int /\ failedAt \in Int /\ failedAt <= now
    BY DEF TypeOK
  <2> QED BY <2>1, <2>2 DEF Failure
<1>4. ASSUME NEW t \in Threads, Ask(t) \/ Look(t) PROVE Failure'
  BY <1>4 DEF Ask, Look, Serve, Refuse, NoClient, Begin, Forget, Failure, Good, GoodIn, cluster, discovery
<1>5. ASSUME NEW t \in Threads, Probe(t) PROVE Failure'
  <2>1. /\ key[t] \in Keys /\ cacheKey = key[t] /\ ~tried
        /\ Continues(t) \/ Stores(t) \/ Fails(t)
    BY <1>5, ProbeHolds, ProbeOutcome
  <2>2. CASE Continues(t) \/ Stores(t)
    BY <2>1, <2>2 DEF Continues, Stores, Store, Failure, discovery
  <2>3. CASE Fails(t)
    <3>1. /\ bad'[key[t]] = now \/ ~Good(key[t])
          /\ failedAt' = now /\ UNCHANGED <<kind, cacheKey>> /\ now \in Int
      BY <2>3 DEF Fails, Fail, cluster, TypeOK
    <3> QED BY <2>1, <3>1 DEF Failure, Good, GoodIn
  <2> QED BY <2>1, <2>2, <2>3
<1>6. CASE UNCHANGED vars
  BY <1>1, <1>6 DEF vars, cluster
<1> QED BY <1>2, <1>3, <1>4, <1>5, <1>6 DEF Next, World

LEMMA NextLatest == IInv /\ [Next]_vars => Latest'
<1> SUFFICES ASSUME IInv, [Next]_vars PROVE Latest'
  OBVIOUS
<1> USE DiscoveryAssumption DEF IInv
<1>1. CASE UNCHANGED <<lock, last, discovery>>
  BY <1>1 DEF Latest, discovery
<1>2. CASE World
  BY <1>1, <1>2 DEF World, Tick, Change, scan
<1>3. ASSUME NEW t \in Threads, Ask(t) \/ Serve(t) PROVE Latest'
  BY <1>1, <1>3 DEF Ask, Serve, scan
<1>4. ASSUME NEW t \in Threads, Refuse(t) PROVE Latest'
  BY <1>4 DEF Refuse, FreshFailure, Entering, Latest, TypeOK, scan
<1>5. ASSUME NEW t \in Threads, NoClient(t) \/ Begin(t) PROVE Latest'
  BY <1>5 DEF NoClient, NoScan, Begin, Latest
<1>6. ASSUME NEW t \in Threads, Probe(t) PROVE Latest'
  <2>1. /\ lock = t /\ t # None /\ key[t] \in Keys /\ cacheKey = key[t]
        /\ Continues(t) \/ Stores(t) \/ Fails(t)
    BY <1>6, ProbeHolds, ProbeOutcome
  <2>2. CASE Continues(t)
    BY <2>1, <2>2 DEF Continues, Latest
  <2>3. CASE Stores(t)
    BY <2>1, <2>3 DEF Stores, Store, Latest
  <2>4. CASE Fails(t)
    BY <2>1, <2>4 DEF Fails, Fail, Latest
  <2> QED BY <2>1, <2>2, <2>3, <2>4
<1>7. CASE UNCHANGED vars
  BY <1>1, <1>7 DEF vars, scan
<1> QED BY <1>2, <1>3, <1>4, <1>5, <1>6, <1>7 DEF Next, Look

LEMMA Invariance == Spec => []IInv
<1>1. IInv /\ [Next]_vars => IInv'
  BY NextType, NextBlank, NextBacked, NextBuilding, NextFailure, NextLatest DEF IInv
<1> QED BY InitIInv, <1>1, PTL DEF Spec

-----------------------------------------------------------------------------
(* A thread returns by an answer from the cache or at the end of a scan.    *)
LEMMA ReturnOutcome ==
    ASSUME IInv, [Next]_vars, NEW t \in Threads, Returns(t)
    PROVE  Serve(t) \/ Refuse(t) \/ NoClient(t) \/ Stores(t) \/ Fails(t)
<1> USE DEF IInv, Returns
<1>1. \/ \E u \in Threads : Ask(u) \/ Look(u) \/ Probe(u)
      \/ UNCHANGED pc
  BY DEF Next, World, Tick, Change, vars
<1>2. PICK u \in Threads : Ask(u) \/ Look(u) \/ Probe(u)
  BY <1>1
<1>3. ~Ask(u)
  BY DEF Ask, TypeOK
<1>4. ~Begin(u)
  BY DEF Begin, TypeOK
<1>5. CASE Serve(u) \/ Refuse(u) \/ NoClient(u)
  BY <1>5 DEF Serve, Refuse, NoClient, Answer, TypeOK
<1>6. CASE Probe(u)
  <2>1. Stores(u) \/ Fails(u)
    BY <1>6, ProbeOutcome DEF Continues
  <2>2. pc' = [pc EXCEPT ![u] = "idle"]
    BY <2>1 DEF Stores, Store, Fails, Fail, Answer
  <2>3. u = t
    BY <2>2 DEF TypeOK
  <2> QED BY <2>1, <2>3
<1> QED BY <1>2, <1>3, <1>4, <1>5, <1>6 DEF Look

(* Whatever services come and go: nobody is sent to a service he may not    *)
(* see, or one without a URL for longer than the TTL and one request.       *)
THEOREM AnswersTrue == Spec => AnswersWereTrue
<1>1. ASSUME IInv, [Next]_vars, NEW t \in Threads, Returns(t), said' \in Services
      PROVE  /\ said' \in Reach[key[t]]
             /\ HasUrl(said') \/ now - gone[said'] < PositiveTTL + MaxDelay
  <2> USE DiscoveryAssumption DEF IInv
  <2>1. CASE Serve(t)
    <3>1. /\ said' = cache /\ cache # None /\ cacheKey = key[t]
          /\ now - cacheAt < PositiveTTL
      BY <2>1 DEF Serve, FreshUrl, Known, Answer
    <3>2. /\ cacheKey \in Keys /\ cache \in Reach[cacheKey]
          /\ HasUrl(cache) \/ gone[cache] + MaxDelay >= cacheAt
      BY <1>1, <3>1 DEF Backed
    <3>3. now \in Int /\ cacheAt \in Int /\ gone[cache] \in Int
      BY <1>1, <3>2 DEF TypeOK
    <3> QED BY <3>1, <3>2, <3>3
  <2>2. CASE Stores(t)
    <3>1. PICK s \in Reach[key[t]] : Store(t, s) /\ (HasUrl(s) \/ gone[s] >= now - MaxDelay)
      BY <2>2 DEF Stores
    <3>2. said' = s
      BY <3>1 DEF Store, Answer
    <3>3. key[t] \in Keys
      BY <1>1 DEF TypeOK, Returns
    <3>4. now \in Int /\ gone[s] \in Int
      BY <1>1, <3>3 DEF TypeOK
    <3> QED BY <3>1, <3>2, <3>4
  <2>3. ~Refuse(t) /\ ~NoClient(t) /\ ~Fails(t)
    BY <1>1 DEF Refuse, NoClient, Fails, Fail, Answer
  <2> QED BY <1>1, <2>1, <2>2, <2>3, ReturnOutcome
<1>2. IInv /\ [Next]_vars =>
        [\A t \in Threads : Returns(t) /\ said' \in Services =>
            /\ said' \in Reach[key[t]]
            /\ HasUrl(said') \/ now - gone[said'] < PositiveTTL + MaxDelay]_vars
  BY <1>1
<1> QED BY <1>2, Invariance, PTL DEF Spec, AnswersWereTrue

(* Nobody is told that there is no Prometheus when his identity could have  *)
(* found one throughout the last NegativeTTL.                               *)
THEOREM RefusalsRecent == Spec => RefusalsAreRecent
<1>1. ASSUME IInv, [Next]_vars, NEW t \in Threads, Returns(t), said' = None, Good(key[t])
      PROVE  now - bad'[key[t]] < NegativeTTL
  <2> USE DiscoveryAssumption DEF IInv
  <2>1. CASE Refuse(t)
    <3>1. tried /\ cacheKey = key[t] /\ now - failedAt < NegativeTTL /\ bad' = bad
      BY <2>1 DEF Refuse, FreshFailure, Known
    <3>2. cacheKey \in Keys /\ bad[cacheKey] >= failedAt
      BY <1>1, <3>1 DEF Failure
    <3>3. now \in Int /\ failedAt \in Int /\ bad[cacheKey] \in Int
      BY <1>1, <3>2 DEF TypeOK
    <3> QED BY <3>1, <3>2, <3>3
  <2>2. CASE Fails(t)
    BY <1>1, <2>2 DEF Fails, TypeOK
  <2>3. ~Serve(t) /\ ~NoClient(t) /\ ~Stores(t)
    <3>1. key[t] \in Keys
      BY <1>1 DEF TypeOK, Returns
    <3>2. ~Serve(t) /\ ~NoClient(t)
      BY <1>1 DEF Serve, FreshUrl, NoClient, Answer
    <3>3. ~Stores(t)
      BY <1>1, <3>1 DEF Stores, Store, Answer
    <3> QED BY <3>2, <3>3
  <2> QED BY <1>1, <2>1, <2>2, <2>3, ReturnOutcome
<1>2. IInv /\ [Next]_vars =>
        [\A t \in Threads : Returns(t) /\ said' = None /\ Good(key[t]) =>
            now - bad'[key[t]] < NegativeTTL]_vars
  BY <1>1
<1> QED BY <1>2, Invariance, PTL DEF Spec, RefusalsAreRecent

(* However many threads ask, an identity's scans are a TTL apart.           *)
THEOREM ScansSpaced == Spec => ScansAreSpaced
<1>1. ASSUME IInv, [Next]_vars, NEW t \in Threads, lock = None, lock' = t, last.key = key[t]
      PROVE  now - last.at >= IF last.url = None THEN NegativeTTL ELSE PositiveTTL
  <2> USE DiscoveryAssumption DEF IInv
  <2>1. Begin(t)
    <3>1. \E u \in Threads : Begin(u) \/ Probe(u)
      BY <1>1 DEF Next, World, Tick, Change, Ask, Look, Serve, Refuse, NoClient, vars, scan
    <3>2. PICK u \in Threads : Begin(u) \/ Probe(u)
      BY <3>1
    <3>3. ~Probe(u)
      BY <1>1, ProbeHolds
    <3> QED BY <1>1, <3>2, <3>3 DEF Begin
  <2>2. key[t] \in Keys /\ cacheKey = key[t] /\ last.key # None
    BY <1>1, <2>1 DEF Begin, Entering, Latest, TypeOK
  <2>3. now \in Int /\ cacheAt \in Int /\ failedAt \in Int
    BY <1>1 DEF TypeOK
  <2>4. CASE last.url = None
    <3>1. tried /\ failedAt = last.at
      BY <1>1, <2>2, <2>4 DEF Latest
    <3>2. ~(now - failedAt < NegativeTTL)
      BY <2>1, <2>2, <3>1 DEF Begin, Forget, FreshFailure, Known
    <3> QED BY <2>3, <2>4, <3>1, <3>2
  <2>5. CASE last.url # None
    <3>1. cache # None /\ cacheAt = last.at
      BY <1>1, <2>2, <2>5 DEF Latest
    <3>2. ~(now - cacheAt < PositiveTTL)
      BY <2>1, <2>2, <3>1 DEF Begin, Forget, FreshUrl, Known
    <3> QED BY <2>3, <2>5, <3>1, <3>2
  <2> QED BY <2>4, <2>5
<1>2. IInv /\ [Next]_vars =>
        [\A t \in Threads : lock = None /\ lock' = t /\ last.key = key[t] =>
            now - last.at >= IF last.url = None THEN NegativeTTL ELSE PositiveTTL]_vars
  BY <1>1
<1> QED BY <1>2, Invariance, PTL DEF Spec, ScansAreSpaced
=============================================================================
