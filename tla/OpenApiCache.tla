---------------------------- MODULE OpenApiCache ----------------------------
(***************************************************************************)
(* The OpenAPI schema cache behind explain_resource (tools/discovery.py),  *)
(* on top of the shared clients: one schema for one configuration, with a  *)
(* time to live and a size cap, and one fetch at a time per configuration. *)
(* The thread that finds neither a schema nor a fetch under way leads;     *)
(* those that come while it fetches wait for its Future.                   *)
(***************************************************************************)
EXTENDS ClientCache

CONSTANTS
    Documents,   (* how many v3 documents the index lists                    *)
    MaxFetches   (* threads may ask while fewer fetches than this were made  *)

ASSUME OpenApiAssumption == Documents \in Nat \ {0} /\ MaxFetches \in Nat

VARIABLES
    key,        (* client_cache_key() as explain_resource read it            *)
    moved,      (* threads since whose key the configuration changed (history) *)
    leading,    (* the threads that lead a fetch                             *)
    attempt,    (* the request a leader makes: v2, v3 index, each document   *)
    future,     (* the Future a thread leads or waits for                    *)
    spec,       (* what a leader fetched                                     *)
    answer,     (* what _get_openapi_schema returned or raised               *)
    futures,    (* every Future made: its configuration and result           *)
    inflight,   (* _openapi_inflight                                         *)
    schema,     (* _openapi_cache                                            *)
    schemaKey,  (* _openapi_cache_key                                        *)
    fresh       (* the cached schema is within its time to live              *)

flight == <<key, moved, leading, attempt, future, spec, answer>>
openApi == <<futures, inflight, schema, schemaKey, fresh>>
vars == <<clientVars, flight, openApi>>

NoFuture == 0
NoKey == NoConfig
V2 == 0
Index == 1
Complete == Index + Documents + 1

(* The result of a fetch: the clusters its definitions came from, and, what *)
(* the code does not record, the key its leader read, and whether the       *)
(* configuration changed between that reading and the end of the fetch.     *)
Result(kind, of, under, late) ==
    [kind |-> kind, of |-> of, under |-> under, late |-> late]
NoSchema == Result("none", {}, NoKey, FALSE)
Raised == Result("raised", {}, NoKey, FALSE)
Pending == Result("pending", {}, NoKey, FALSE)

Init ==
    /\ CInit
    /\ key = [t \in Threads |-> NoKey]
    /\ moved = {}
    /\ leading = {}
    /\ attempt = [t \in Threads |-> V2]
    /\ future = [t \in Threads |-> NoFuture]
    /\ spec = [t \in Threads |-> NoSchema]
    /\ answer = [t \in Threads |-> NoSchema]
    /\ futures = <<>>
    /\ inflight = [k \in Configs |-> NoFuture]
    /\ schema = NoSchema
    /\ schemaKey = NoKey
    /\ fresh = FALSE

(* explain_resource begins: the key is read outside the lock.               *)
AskSchema(t) ==
    /\ at[t] = "idle"
    /\ Len(futures) < MaxFetches
    /\ key' = [key EXCEPT ![t] = settings]
    /\ GoTo(t, "lookup")
    /\ UNCHANGED <<environment, wants, inHand, caches, moved, leading, attempt, future,
                   spec, answer, openApi>>

(***************************************************************************)
(* The locked look-up: a schema of another configuration is thrown away,   *)
(* then the thread is served, joins a fetch, or leads one.                 *)
(***************************************************************************)
UsableAnyKey(t) == schema # NoSchema /\ fresh   (* a faulty form *)

Usable(t) == schema # NoSchema /\ schemaKey = key[t] /\ fresh

Discard(t) ==
    IF schemaKey = key[t] THEN UNCHANGED <<schema, schemaKey, fresh>>
    ELSE schema' = NoSchema /\ schemaKey' = NoKey /\ fresh' = FALSE

Serve(t) ==
    /\ at[t] = "lookup"
    /\ Usable(t)
    /\ answer' = [answer EXCEPT ![t] = schema]
    /\ GoTo(t, "served")
    /\ UNCHANGED <<environment, wants, inHand, caches, key, moved, leading, attempt, future,
                   spec, openApi>>

Join(t) ==
    /\ at[t] = "lookup"
    /\ ~Usable(t)
    /\ inflight[key[t]] # NoFuture
    /\ future' = [future EXCEPT ![t] = inflight[key[t]]]
    /\ Discard(t)
    /\ GoTo(t, "waiting")
    /\ UNCHANGED <<environment, wants, inHand, caches, key, moved, leading, attempt, spec,
                   answer, futures, inflight>>

(* A faulty form: the new Future is registered under the last key seen.     *)
LeadUnregistered(t) ==
    /\ at[t] = "lookup"
    /\ ~Usable(t)
    /\ inflight[key[t]] = NoFuture
    /\ futures' = Append(futures, [key |-> key[t], result |-> Pending])
    /\ inflight' = [inflight EXCEPT ![settings] = Len(futures) + 1]
    /\ future' = [future EXCEPT ![t] = Len(futures) + 1]
    /\ leading' = leading \cup {t}
    /\ attempt' = [attempt EXCEPT ![t] = V2]
    /\ Discard(t)
    /\ GoTo(t, "fetch")
    /\ UNCHANGED <<environment, wants, inHand, caches, key, moved, spec, answer>>

Lead(t) ==
    /\ at[t] = "lookup"
    /\ ~Usable(t)
    /\ inflight[key[t]] = NoFuture
    /\ futures' = Append(futures, [key |-> key[t], result |-> Pending])
    /\ inflight' = [inflight EXCEPT ![key[t]] = Len(futures) + 1]
    /\ future' = [future EXCEPT ![t] = Len(futures) + 1]
    /\ leading' = leading \cup {t}
    /\ attempt' = [attempt EXCEPT ![t] = V2]
    /\ Discard(t)
    /\ GoTo(t, "fetch")
    /\ UNCHANGED <<environment, wants, inHand, caches, key, moved, spec, answer>>

(* A waiting thread gets the leader's result or its exception.              *)
Follow(t) ==
    /\ at[t] = "waiting"
    /\ futures[future[t]].result # Pending
    /\ answer' = [answer EXCEPT ![t] = futures[future[t]].result]
    /\ GoTo(t, "served")
    /\ UNCHANGED <<environment, wants, inHand, caches, key, moved, leading, attempt, future,
                   spec, openApi>>

(***************************************************************************)
(* The leader fetches, with no lock held.  Each request asks for the       *)
(* current ApiClient again.                                                *)
(***************************************************************************)
Request(t) ==
    /\ at[t] = "fetch"
    /\ Enter(t, "schema")
    /\ UNCHANGED <<flight, openApi>>

(* One request is answered, and adds what it defines; the next request      *)
(* follows, or all there is has been fetched.                               *)
Merge(t, clusters, next) ==
    /\ spec' = [spec EXCEPT ![t] = Result("schema", @.of \cup clusters, key[t], t \in moved)]
    /\ attempt' = [attempt EXCEPT ![t] = next]
    /\ LetGo(t, IF next = Complete THEN "storing" ELSE "fetch")
    /\ UNCHANGED <<environment, caches, key, moved, leading, future, answer,
                   openApi>>

Respond(t) ==
    /\ at[t] = "using" /\ wants[t] = "schema"
    /\ LET cluster == {built[client[t]]} IN
       \/ attempt[t] = V2 /\ Merge(t, cluster, Complete)
       \/ attempt[t] = Index /\ Merge(t, {}, attempt[t] + 1)
       \/ attempt[t] > Index /\ Merge(t, cluster, attempt[t] + 1)

(* No client could be built, or the request failed: v3 is tried after v2;   *)
(* without its index the schema is empty, and a document is skipped.        *)
RequestFails(t) ==
    /\ wants[t] = "schema"
    /\ at[t] = "using" \/ (at[t] = "api" /\ ~Current(t))
    /\ Merge(t, {}, IF attempt[t] = Index THEN Complete ELSE attempt[t] + 1)

RaiseSilently(t) ==   (* a faulty form: the Future never gets the exception *)
    /\ at[t] = "using" /\ wants[t] = "schema" /\ attempt[t] >= Index
    /\ answer' = [answer EXCEPT ![t] = Raised]
    /\ LetGo(t, "retiring")
    /\ UNCHANGED <<environment, caches, key, moved, leading, attempt, future,
                   spec, openApi>>

(* A v3 answer of an unexpected shape raises out of the fetch: the          *)
(* followers get the exception too.                                         *)
Raise(t) ==
    /\ at[t] = "using" /\ wants[t] = "schema" /\ attempt[t] >= Index
    /\ answer' = [answer EXCEPT ![t] = Raised]
    /\ futures' = [futures EXCEPT ![future[t]].result = Raised]
    /\ LetGo(t, "retiring")
    /\ UNCHANGED <<environment, caches, key, moved, leading, attempt, future,
                   spec, inflight, schema, schemaKey, fresh>>

(* Under the lock again: the schema is kept, or, when it exceeds the size   *)
(* cap, nothing is.                                                         *)
Store(t) ==
    /\ at[t] = "storing"
    /\ \/ schema' = spec[t] /\ schemaKey' = key[t] /\ fresh' = TRUE
       \/ /\ spec[t].of # {}
          /\ schema' = NoSchema /\ schemaKey' = NoKey /\ fresh' = FALSE
    /\ GoTo(t, "announcing")
    /\ UNCHANGED <<environment, wants, inHand, caches, flight, futures, inflight>>

Announce(t) ==
    /\ at[t] = "announcing"
    /\ futures' = [futures EXCEPT ![future[t]].result = spec[t]]
    /\ answer' = [answer EXCEPT ![t] = spec[t]]
    /\ GoTo(t, "retiring")
    /\ UNCHANGED <<environment, wants, inHand, caches, key, moved, leading, attempt, future,
                   spec, inflight, schema, schemaKey, fresh>>

(* The finally clause: the Future is taken off the table.                   *)
Retire(t) ==
    /\ at[t] = "retiring"
    /\ inflight' = IF inflight[key[t]] = future[t]
                   THEN [inflight EXCEPT ![key[t]] = NoFuture] ELSE inflight
    /\ leading' = leading \ {t}
    /\ GoTo(t, "served")
    /\ UNCHANGED <<environment, wants, inHand, caches, key, moved, attempt, future, spec, answer,
                   futures, schema, schemaKey, fresh>>

(* explain_resource returns; what it knew is forgotten.                     *)
Leave(t) ==
    /\ at[t] = "served"
    /\ GoTo(t, "idle")
    /\ key' = [key EXCEPT ![t] = NoKey]
    /\ moved' = moved \ {t}
    /\ attempt' = [attempt EXCEPT ![t] = V2]
    /\ future' = [future EXCEPT ![t] = NoFuture]
    /\ spec' = [spec EXCEPT ![t] = NoSchema]
    /\ answer' = [answer EXCEPT ![t] = NoSchema]
    /\ UNCHANGED <<environment, wants, inHand, caches, leading, openApi>>

(* The configuration changes, with some calls of explain_resource under way. *)
Reconfigure(k) ==
    /\ Switch(k)
    /\ moved' = moved \cup {t \in Threads : key[t] # NoKey}
    /\ UNCHANGED <<key, leading, attempt, future, spec, answer, openApi>>

(* Five minutes pass.                                                       *)
Expire ==
    /\ fresh
    /\ fresh' = FALSE
    /\ UNCHANGED <<clientVars, flight, futures, inflight, schema, schemaKey>>

Lookup(t) == Serve(t) \/ Join(t) \/ Lead(t)
Fetch(t) == Request(t) \/ Respond(t) \/ RequestFails(t) \/ Raise(t)
Publish(t) == Store(t) \/ Announce(t) \/ Retire(t)

Work(t) ==
    \/ ((Obtain(t) \/ Done(t)) /\ UNCHANGED <<flight, openApi>>)
    \/ Lookup(t) \/ Follow(t) \/ Fetch(t) \/ Publish(t) \/ Leave(t)

Next ==
    \/ \E t \in Threads : Work(t) \/ AskSchema(t)
    \/ \E t \in Threads : Ask(t) /\ UNCHANGED <<flight, openApi>>
    \/ \E k \in Configs : Reconfigure(k)
    \/ Expire

(* A thread that has begun keeps going: locks are held for bounded time and *)
(* every request ends, by its read timeout at the latest (client.py:42-72). *)
Spec == Init /\ [][Next]_vars /\ \A t \in Threads : WF_vars(Work(t))

-----------------------------------------------------------------------------

Contents == [kind : {"none", "raised", "pending", "schema"}, of : SUBSET Configs,
             under : Configs \cup {NoKey}, late : BOOLEAN]

(* Every variable has its type, and the three globals of the schema cache   *)
(* are set and cleared together.                                            *)
TypeOK ==
    /\ settings \in Configs /\ switches \in 0..MaxSwitches
    /\ at \in [Threads -> Places \cup {"lookup", "waiting", "fetch", "storing",
                                       "announcing", "retiring", "served"}]
    /\ wants \in [Threads -> {"api", "dynamic", "schema"}]
    /\ mine \in [Threads -> Configs \cup {NoConfig}]
    /\ key \in [Threads -> Configs \cup {NoKey}]
    /\ moved \subseteq Threads
    /\ built \in Seq(Configs)
    /\ cachedClient \in 0..Len(built) /\ cachedDynamic \in 0..Len(built)
    /\ dynamicKey \in (Configs \cup {NoConfig}) \X (0..Len(built))
    /\ closed \subseteq Clients
    /\ client \in [Threads -> 0..Len(built)] /\ dyn \in [Threads -> 0..Len(built)]
    /\ previous \in [Threads -> 0..Len(built)]
    /\ leading \subseteq Threads
    /\ attempt \in [Threads -> V2..Complete]
    /\ futures \in Seq([key : Configs, result : Contents])
    /\ future \in [Threads -> 0..Len(futures)]
    /\ inflight \in [Configs -> 0..Len(futures)]
    /\ spec \in [Threads -> Contents] /\ answer \in [Threads -> Contents]
    /\ schema \in Contents /\ schemaKey \in Configs \cup {NoKey} /\ fresh \in BOOLEAN
    /\ schema = NoSchema <=> schemaKey = NoKey
    /\ fresh => schema # NoSchema

(* `Concurrent misses fetch once` (docs/architecture.md:87): at no time are *)
(* two fetches under way for one configuration.                             *)
SingleFlight ==
    \A i, j \in DOMAIN futures :
        futures[i].result = Pending /\ futures[j].result = Pending
            /\ futures[i].key = futures[j].key => i = j

(* A schema is r's own when it was fetched under the key k, and, unless the *)
(* configuration changed while it was being fetched, from that cluster only. *)
Own(r, k) == r.under = k /\ (~r.late => r.of \subseteq {k})

(* What explain_resource answers from was fetched for the configuration it  *)
(* was called under, and comes from that cluster and no other, by whichever *)
(* thread and however long ago it was fetched, unless the configuration     *)
(* changed during that very fetch.                                          *)
ServedOwnSchema ==
    \A t \in Threads : at[t] = "served" /\ answer[t] # Raised => Own(answer[t], key[t])

(* What tests/test_discovery_cache_cap.py:105-119 says: a call under one     *)
(* identity answers with the schema of that identity's cluster.  A call     *)
(* during which nothing changed would get its own cluster's schema.         *)
ServedOwnCluster ==
    \A t \in Threads : at[t] = "served" /\ t \notin moved => answer[t].of \subseteq {key[t]}

(* No follower is stranded: whoever waits for a leader is answered, also    *)
(* when the leader's fetch fails or raises.                                 *)
FollowersAnswered == \A t \in Threads : at[t] = "waiting" ~> at[t] = "served"
=============================================================================
