---------------------------- MODULE ClientCache -----------------------------
(***************************************************************************)
(* The process-wide Kubernetes clients of client.py: one cached ApiClient  *)
(* and one cached DynamicClient, shared by all worker threads and rebuilt  *)
(* when the configuration changes.  Each `with lock` block is one step;    *)
(* between the blocks of one thread any other thread may run.              *)
(*                                                                         *)
(* An ApiClient is numbered in the order of construction.  A configuration *)
(* stands for the whole of client_cache_key.                               *)
(***************************************************************************)
EXTENDS Integers, Sequences, FiniteSets

CONSTANTS
    Threads,      (* the threads that run tool bodies                        *)
    Configs,      (* the configurations: cluster, credentials, pool size     *)
    Initial,      (* the one the server starts with                          *)
    MaxSwitches   (* bound on changes of configuration                       *)

VARIABLES
    settings,      (* the configuration get_settings() returns               *)
    switches,      (* how often it has changed                               *)
    at,            (* where each thread is                                   *)
    wants,         (* what it came for: api, dynamic, schema                 *)
    mine,          (* the configuration it read when it asked                *)
    client,        (* the ApiClient it got                                   *)
    dyn,           (* the ApiClient under the DynamicClient it got           *)
    previous,      (* the ApiClient it replaced and has yet to close         *)
    built,         (* the configuration of every ApiClient ever built        *)
    cachedClient,  (* _cached_client; built[cachedClient] is _cached_key     *)
    cachedDynamic, (* the ApiClient under _cached_dynamic_client             *)
    dynamicKey,    (* _cached_dynamic_key: configuration and ApiClient       *)
    closed         (* the ApiClients that have been closed                   *)

environment == <<settings, switches>>
inHand == <<mine, client, dyn, previous>>
caches == <<built, cachedClient, cachedDynamic, dynamicKey, closed>>
clientVars == <<environment, at, wants, inHand, caches>>

NoClient == 0
NoConfig == "no configuration"

ASSUME ClientAssumption ==
    /\ IsFiniteSet(Threads)
    /\ Initial \in Configs
    /\ NoConfig \notin Configs
    /\ MaxSwitches \in Nat

Places == {"idle", "api", "closing", "dynamic", "using"}

CInit ==
    /\ settings = Initial
    /\ switches = 0
    /\ at = [t \in Threads |-> "idle"]
    /\ wants = [t \in Threads |-> "api"]
    /\ mine = [t \in Threads |-> NoConfig]
    /\ client = [t \in Threads |-> NoClient]
    /\ dyn = [t \in Threads |-> NoClient]
    /\ previous = [t \in Threads |-> NoClient]
    /\ built = <<>>
    /\ cachedClient = NoClient
    /\ cachedDynamic = NoClient
    /\ dynamicKey = <<NoConfig, NoClient>>
    /\ closed = {}

(* set_runtime_settings, or a change of KUBECONFIG, by the program that     *)
(* embeds the tools.                                                        *)
Switch(k) ==
    /\ switches < MaxSwitches
    /\ k # settings
    /\ settings' = k
    /\ switches' = switches + 1
    /\ UNCHANGED <<at, wants, inHand, caches>>

GoTo(t, place) == at' = [at EXCEPT ![t] = place]

(* The thread goes on without the clients it had.                           *)
LetGo(t, place) ==
    /\ GoTo(t, place)
    /\ wants' = [wants EXCEPT ![t] = "api"]
    /\ mine' = [mine EXCEPT ![t] = NoConfig]
    /\ client' = [client EXCEPT ![t] = NoClient]
    /\ dyn' = [dyn EXCEPT ![t] = NoClient]
    /\ UNCHANGED previous

(* get_api_client or get_dynamic_client is called: settings and key are     *)
(* read, outside any lock.                                                  *)
Enter(t, what) ==
    /\ GoTo(t, "api")
    /\ wants' = [wants EXCEPT ![t] = what]
    /\ mine' = [mine EXCEPT ![t] = settings]
    /\ UNCHANGED <<environment, client, dyn, previous, caches>>

Ask(t) ==
    /\ at[t] = "idle"
    /\ \E what \in {"api", "dynamic"} : Enter(t, what)

Current(t) == cachedClient # NoClient /\ built[cachedClient] = mine[t]

ReuseClient(t) ==
    /\ at[t] = "api"
    /\ Current(t)
    /\ client' = [client EXCEPT ![t] = cachedClient]
    /\ GoTo(t, "closing")
    /\ UNCHANGED <<environment, wants, mine, dyn, previous, caches>>

(* A faulty form: the predecessor of the second client is forgotten.        *)
ReplaceClientLosesOld(t) ==
    /\ at[t] = "api"
    /\ ~Current(t)
    /\ built' = Append(built, mine[t])
    /\ cachedClient' = Len(built) + 1
    /\ client' = [client EXCEPT ![t] = Len(built) + 1]
    /\ previous' = [previous EXCEPT ![t] = IF Len(built) > 1 THEN cachedClient
                                            ELSE NoClient]
    /\ GoTo(t, "closing")
    /\ UNCHANGED <<environment, wants, mine, dyn, cachedDynamic, dynamicKey, closed>>

ReplaceClient(t) ==
    /\ at[t] = "api"
    /\ ~Current(t)
    /\ built' = Append(built, mine[t])
    /\ cachedClient' = Len(built) + 1
    /\ client' = [client EXCEPT ![t] = Len(built) + 1]
    /\ previous' = [previous EXCEPT ![t] = cachedClient]
    /\ GoTo(t, "closing")
    /\ UNCHANGED <<environment, wants, mine, dyn, cachedDynamic, dynamicKey, closed>>

(* load_configuration raises: nothing has been replaced.                    *)
BuildFails(t) ==
    /\ at[t] = "api"
    /\ ~Current(t)
    /\ wants[t] # "schema"
    /\ LetGo(t, "idle")
    /\ UNCHANGED <<environment, caches>>

(* Outside the lock, the predecessor is closed, if there is one.            *)
ClosePrevious(t) ==
    /\ at[t] = "closing"
    /\ closed' = closed \cup ({previous[t]} \ {NoClient})
    /\ previous' = [previous EXCEPT ![t] = NoClient]
    /\ GoTo(t, IF wants[t] = "dynamic" THEN "dynamic" ELSE "using")
    /\ UNCHANGED <<environment, wants, mine, client, dyn, built, cachedClient,
                   cachedDynamic, dynamicKey>>

(* A faulty form: the key leaves out the identity of the ApiClient.         *)
DynamicMatchesConfig(t) == cachedDynamic # NoClient /\ dynamicKey[1] = mine[t]

DynamicMatches(t) == cachedDynamic # NoClient /\ dynamicKey = <<mine[t], client[t]>>

(* Under the second lock the cached DynamicClient is reused or replaced;    *)
(* building one reads the cluster's discovery data, which may fail.         *)
LockDynamic(t) ==
    /\ at[t] = "dynamic"
    /\ UNCHANGED <<environment, built, cachedClient, closed>>
    /\ \/ /\ DynamicMatches(t)
          /\ dyn' = [dyn EXCEPT ![t] = cachedDynamic]
          /\ GoTo(t, "using")
          /\ UNCHANGED <<wants, mine, client, previous, cachedDynamic, dynamicKey>>
       \/ /\ ~DynamicMatches(t)
          /\ cachedDynamic' = client[t]
          /\ dynamicKey' = <<mine[t], client[t]>>
          /\ dyn' = [dyn EXCEPT ![t] = client[t]]
          /\ GoTo(t, "using")
          /\ UNCHANGED <<wants, mine, client, previous>>
       \/ /\ ~DynamicMatches(t)
          /\ LetGo(t, "idle")
          /\ UNCHANGED <<cachedDynamic, dynamicKey>>

(* The tool body is done with its client.                                   *)
Done(t) ==
    /\ at[t] = "using"
    /\ wants[t] # "schema"
    /\ LetGo(t, "idle")
    /\ UNCHANGED <<environment, caches>>

Obtain(t) ==
    \/ ReuseClient(t) \/ ReplaceClient(t) \/ BuildFails(t) \/ ClosePrevious(t)
    \/ LockDynamic(t)

-----------------------------------------------------------------------------

Clients == 1..Len(built)

(* Every ApiClient that is not the cached one has been closed or is about   *)
(* to be, by exactly one thread, and the cached one is open: connection     *)
(* pools neither leak nor are pulled from under the cache (client.py:186-   *)
(* 200).                                                                    *)
ClientsAccountedFor ==
    /\ cachedClient \notin closed
    /\ \A i \in Clients \ {cachedClient} :
          Cardinality({t \in Threads : previous[t] = i}) = IF i \in closed THEN 0 ELSE 1

(* A thread works with clients of the configuration it asked under, and     *)
(* `a rebuilt ApiClient is never paired with a DynamicClient that still     *)
(* points at the closed predecessor` (client.py:213-214), although other    *)
(* threads replace both caches in between.                                  *)
ClientsBelongTogether ==
    \A t \in Threads : at[t] = "using" =>
        /\ built[client[t]] = mine[t]
        /\ wants[t] = "dynamic" => dyn[t] = client[t]
=============================================================================
