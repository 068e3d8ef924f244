------------------------- MODULE PrometheusDiscovery -------------------------
(***************************************************************************)
(* _resolve_prometheus_url of tools/prometheus.py: where is Prometheus?    *)
(* Worker threads ask; a global lock lets one of them at a time look into  *)
(* the cache or scan the cluster, first through the list of well-known     *)
(* services, then wide.  A URL is kept for PositiveTTL, a failure for      *)
(* NegativeTTL, both for one identity only: the client's configuration and *)
(* the namespace allowlist.  Meanwhile services come and go.               *)
(*                                                                         *)
(* A URL stands for the service it leads to.  Calls that are given a URL,  *)
(* or whose settings have one, do not come here.                           *)
(***************************************************************************)
EXTENDS Integers, Sequences

CONSTANTS
    Threads,
    Keys,         (* the identities calls are made under                      *)
    Services,     (* the services of all clusters that look like Prometheus   *)
    Reach,        (* those an identity's cluster and allowlist let it see     *)
    Candidates,   (* the well-known ones, by priority                         *)
    PositiveTTL, NegativeTTL,
    MaxDelay,     (* how long one request may take                            *)
    None,         (* no URL, no key, no thread                                *)
    Nothing,      (* no answer                                                *)
    MaxTime, MaxChanges   (* bounds on the clock and on the services' changes *)

ASSUME DiscoveryAssumption ==
    /\ Reach \in [Keys -> SUBSET Services]
    /\ Candidates \in Seq(Services)
    /\ PositiveTTL \in Nat \ {0} /\ NegativeTTL \in Nat \ {0} /\ MaxDelay \in Nat
    /\ MaxTime \in Nat /\ MaxChanges \in Nat
    /\ None \notin Threads \cup Keys \cup Services
    /\ Nothing \notin Services \cup {None}

VARIABLES
    now,        (* time.monotonic()                                           *)
    kind,       (* absent; nameless (no URL can be built); inside, with an    *)
                (* address in the cluster; outside, a NodePort or a           *)
                (* LoadBalancer, which have both                              *)
    changes,    (* how often the services changed                             *)
    cacheKey, cache, cacheAt, tried, failedAt,   (* the module's _DISCOVERY_* *)
    lock,       (* the holder of _DISCOVERY_LOCK                              *)
    pc, key,    (* of each thread                                             *)
    said,       (* what the step just taken answered, if it did               *)
    next,       (* of the scan: the candidate to try                          *)
    found,      (* of the scan: the service whose URL is being built          *)
    waited,     (* of the scan: how long its request has taken so far         *)
    gone,       (* when a service last ceased to have a URL (history)         *)
    bad,        (* when things last went from bad to good (history)           *)
    last        (* the scan that ended last, while what it left is kept       *)
                (* (history)                                                  *)

cluster == <<kind, changes, gone>>
discovery == <<cacheKey, cache, cacheAt, tried, failedAt>>
scan == <<lock, next, found, waited>>
vars == <<now, cluster, discovery, scan, pc, key, said, bad, last>>

Kinds == {"absent", "nameless", "inside", "outside"}
HasUrl(s) == kind[s] \in {"inside", "outside"}

(* What find_prometheus can hope to find: the wide scan looks at the first  *)
(* match only, and matches outside come first.                              *)
GoodIn(kinds, k) ==
    \/ \E s \in Reach[k] : kinds[s] = "outside"
    \/ /\ \E s \in Reach[k] : kinds[s] = "inside"
       /\ \A s \in Reach[k] : kinds[s] # "nameless"
Good(k) == GoodIn(kind, k)

NoScan == [key |-> None, at |-> 0, url |-> None]

Init ==
    /\ now = 0
    /\ kind \in [Services -> {"absent", "outside"}]
    /\ changes = 0
    /\ cacheKey = None /\ cache = None /\ cacheAt = 0
    /\ tried = FALSE /\ failedAt = 0
    /\ lock = None
    /\ pc = [t \in Threads |-> "idle"]
    /\ key = [t \in Threads |-> None]
    /\ said = Nothing
    /\ next = 1 /\ found = None /\ waited = 0
    /\ gone = [s \in Services |-> 0 - (PositiveTTL + MaxDelay)]
    /\ bad = [k \in Keys |-> 0 - NegativeTTL]
    /\ last = NoScan

Ask(t) ==
    /\ pc[t] = "idle"
    /\ \E k \in Keys : key' = [key EXCEPT ![t] = k]
    /\ pc' = [pc EXCEPT ![t] = "asking"]
    /\ said' = Nothing
    /\ UNCHANGED <<now, cluster, discovery, scan, bad, last>>

Answer(t, url) ==
    /\ pc' = [pc EXCEPT ![t] = "idle"]
    /\ key' = [key EXCEPT ![t] = None]
    /\ said' = url

(***************************************************************************)
(* Under the lock: the cache, if it is this identity's.                    *)
(***************************************************************************)
Entering(t) == pc[t] = "asking" /\ lock = None
Known(t) == cacheKey = key[t]

(* A faulty form: the last moment of the window is taken for fresh.         *)
FreshUrlAtLimit(t) == Known(t) /\ cache # None /\ now - cacheAt <= PositiveTTL
FreshUrl(t) == Known(t) /\ cache # None /\ now - cacheAt < PositiveTTL

(* A faulty form: the failure of another identity counts.                   *)
FreshFailureOfAnyone(t) == tried /\ now - failedAt < NegativeTTL
FreshFailure(t) == Known(t) /\ tried /\ now - failedAt < NegativeTTL

Serve(t) ==
    /\ Entering(t)
    /\ FreshUrl(t)
    /\ Answer(t, cache)
    /\ UNCHANGED <<now, cluster, discovery, scan, bad, last>>

Refuse(t) ==
    /\ Entering(t)
    /\ ~FreshUrl(t) /\ FreshFailure(t)
    /\ cache' = None /\ cacheAt' = 0
    /\ Answer(t, None)
    /\ UNCHANGED <<now, cluster, cacheKey, tried, failedAt, scan, bad, last>>

Forget(t) ==
    /\ ~FreshUrl(t) /\ ~FreshFailure(t)
    /\ cacheKey' = key[t]
    /\ cache' = None /\ cacheAt' = 0
    /\ tried' = FALSE /\ failedAt' = 0

(* get_api_client raises, and its exception is passed on.                   *)
NoClient(t) ==
    /\ Entering(t)
    /\ Forget(t)
    /\ Answer(t, Nothing)
    /\ last' = NoScan
    /\ UNCHANGED <<now, cluster, scan, bad>>

Begin(t) ==
    /\ Entering(t)
    /\ Forget(t)
    /\ lock' = t /\ next' = 1 /\ found' = None /\ waited' = 0
    /\ pc' = [pc EXCEPT ![t] = "scanning"]
    /\ said' = Nothing
    /\ UNCHANGED <<now, cluster, key, bad, last>>

(***************************************************************************)
(* The scan.  It ends with the lock's release.                             *)
(***************************************************************************)
Scanning(t) == lock = t /\ found = None
Release == lock' = None /\ found' = None /\ next' = 1 /\ waited' = 0

Store(t, s) ==
    /\ cache' = s /\ cacheAt' = now
    /\ tried' = FALSE /\ failedAt' = 0
    /\ last' = [key |-> key[t], at |-> now, url |-> s]
    /\ Answer(t, s)
    /\ Release
    /\ UNCHANGED <<now, cluster, cacheKey, bad>>

Fail(t) ==
    /\ tried' = TRUE /\ failedAt' = now
    /\ last' = [key |-> key[t], at |-> now, url |-> None]
    /\ Answer(t, None)
    /\ Release
    /\ UNCHANGED <<now, cluster, cacheKey, cache, cacheAt>>

(* A service inside the cluster has its URL; for one outside, the node's    *)
(* address takes another request.                                           *)
Take(t, s) ==
    \/ kind[s] = "inside" /\ Store(t, s)
    \/ /\ kind[s] = "outside"
       /\ found' = s /\ waited' = 0
       /\ said' = Nothing
       /\ UNCHANGED <<now, cluster, discovery, lock, next, pc, key, bad, last>>

TryNext(t) == Scanning(t) /\ next <= Len(Candidates)
Visible(t) == Candidates[next] \in Reach[key[t]]

Miss(t) ==
    /\ TryNext(t)
    /\ Visible(t) => ~HasUrl(Candidates[next])
    /\ next' = next + 1 /\ waited' = 0
    /\ said' = Nothing
    /\ UNCHANGED <<now, cluster, discovery, lock, found, pc, key, bad, last>>

Hit(t) == TryNext(t) /\ Visible(t) /\ Take(t, Candidates[next])

(* A request fails with anything but `not found`.                           *)
Failing(t) == bad' = [bad EXCEPT ![key[t]] = now]

(* A faulty form: only a scan that ran to its end counts as a failure.      *)
CandidateErrorUncounted(t) ==
    /\ TryNext(t) /\ Visible(t)
    /\ Failing(t)
    /\ last' = [key |-> key[t], at |-> now, url |-> None]
    /\ Answer(t, None)
    /\ Release
    /\ UNCHANGED <<now, cluster, discovery>>

CandidateError(t) == TryNext(t) /\ Visible(t) /\ Failing(t) /\ Fail(t)

WideScanning(t) == Scanning(t) /\ next > Len(Candidates)
Matches(t) == {s \in Reach[key[t]] : kind[s] # "absent"}
First(t, s) == kind[s] = "outside" \/ \A m \in Matches(t) : kind[m] # "outside"

WideHit(t) == WideScanning(t) /\ \E s \in Matches(t) : First(t, s) /\ Take(t, s)

WideMiss(t) ==
    /\ WideScanning(t)
    /\ \/ Matches(t) = {}
       \/ \E s \in Matches(t) : First(t, s) /\ kind[s] = "nameless"
    /\ Fail(t)
    /\ UNCHANGED bad

WideError(t) == WideScanning(t) /\ Failing(t) /\ Fail(t)

(* Without a node's address the URL is the one inside the cluster.          *)
Resolve(t) == lock = t /\ found # None /\ Store(t, found)

(***************************************************************************)
(* Time passes, but a request ends by its timeout; services come and go.   *)
(***************************************************************************)
Tick ==
    /\ now < MaxTime
    /\ lock # None => waited < MaxDelay
    /\ now' = now + 1
    /\ waited' = IF lock = None THEN 0 ELSE waited + 1
    /\ said' = Nothing
    /\ UNCHANGED <<cluster, discovery, lock, next, found, pc, key, bad, last>>

Change(s) ==
    /\ changes < MaxChanges
    /\ changes' = changes + 1
    /\ \E how \in Kinds \ {kind[s]} : kind' = [kind EXCEPT ![s] = how]
    /\ gone' = [gone EXCEPT ![s] = IF HasUrl(s) THEN now ELSE @]
    /\ bad' = [k \in Keys |-> IF Good(k) THEN bad[k] ELSE now]
    /\ said' = Nothing
    /\ UNCHANGED <<now, discovery, scan, pc, key, last>>

Look(t) == Serve(t) \/ Refuse(t) \/ NoClient(t) \/ Begin(t)
Probe(t) ==
    \/ Miss(t) \/ Hit(t) \/ CandidateError(t)
    \/ WideHit(t) \/ WideMiss(t) \/ WideError(t) \/ Resolve(t)
World == Tick \/ \E s \in Services : Change(s)

Next == World \/ \E t \in Threads : Ask(t) \/ Look(t) \/ Probe(t)

Spec == Init /\ [][Next]_vars

-----------------------------------------------------------------------------

(* Every variable has its type; who holds the lock is the one who scans,    *)
(* and a URL and a failure are never remembered at the same time.           *)
TypeOK ==
    /\ now \in Nat /\ changes \in Nat
    /\ kind \in [Services -> Kinds]
    /\ cacheKey \in Keys \cup {None} /\ cache \in Services \cup {None}
    /\ cacheAt \in 0..now /\ failedAt \in 0..now /\ tried \in BOOLEAN
    /\ cache # None => ~tried
    /\ lock \in Threads \cup {None}
    /\ pc \in [Threads -> {"idle", "asking", "scanning"}]
    /\ \A t \in Threads : pc[t] = "scanning" <=> lock = t
    /\ key \in [Threads -> Keys \cup {None}]
    /\ \A t \in Threads : pc[t] # "idle" => key[t] \in Keys
    /\ said \in Services \cup {None, Nothing}
    /\ next \in 1..(Len(Candidates) + 1) /\ found \in Services \cup {None}
    /\ waited \in Nat
    /\ gone \in [Services -> Int] /\ bad \in [Keys -> Int]
    /\ last \in [key : Keys \cup {None}, at : Nat, url : Services \cup {None}]

Returns(t) == pc[t] # "idle" /\ pc'[t] = "idle"

(* Nobody is sent to a service that its identity may not see, nor to one    *)
(* that has been without a URL for longer than the positive TTL and the one *)
(* request between reading the service and remembering it.                  *)
AnswersWereTrue ==
    [][\A t \in Threads : Returns(t) /\ said' \in Services =>
          /\ said' \in Reach[key[t]]
          /\ HasUrl(said') \/ now - gone[said'] < PositiveTTL + MaxDelay]_vars

(* `recover when Prometheus is installed after this process starts or a     *)
(* transient request failed' (prometheus.py:123-124): nobody is told that   *)
(* there is no Prometheus if his identity could have found one, and had no  *)
(* request fail, for the last NegativeTTL.                                  *)
RefusalsAreRecent ==
    [][\A t \in Threads : Returns(t) /\ said' = None /\ Good(key[t]) =>
          now - bad'[key[t]] < NegativeTTL]_vars

(* `Avoid hammering the apiserver' (prometheus.py:123): however many        *)
(* threads ask, two scans in a row for the same identity are a TTL apart,   *)
(* counted from the end of the first.                                       *)
ScansAreSpaced ==
    [][\A t \in Threads : lock = None /\ lock' = t /\ last.key = key[t] =>
          now - last.at >= IF last.url = None THEN NegativeTTL ELSE PositiveTTL]_vars
=============================================================================
