------------------------- MODULE SharedCachesProofs -------------------------
(***************************************************************************)
(* Safety of the shared clients and of the OpenAPI schema cache on top of  *)
(* them, for any number of threads, configurations and fetches.            *)
(*                                                                         *)
(* Both caches are read and replaced under locks that are given back       *)
(* between the steps of a thread, so the invariant says what a thread may  *)
(* rely on while it holds no lock.                                         *)
(***************************************************************************)
EXTENDS OpenApiCache, FiniteSetTheorems, SequenceTheorems, TLAPS

(* Where a thread has asked for a client and not yet let go of it.          *)
ClientPlaces == {"api", "closing", "dynamic", "using"}

(* What a thread holds: the client it got was built for the configuration   *)
(* it asked under, and stays so however often the cache is replaced.        *)
HandsInv ==
    \A t \in Threads :
        /\ at[t] \in ClientPlaces => mine[t] \in Configs
        /\ at[t] = "dynamic" => wants[t] = "dynamic"
        /\ at[t] \in {"closing", "dynamic", "using"} =>
               client[t] \in 1..Len(built) /\ built[client[t]] = mine[t]
        /\ at[t] = "using" /\ wants[t] = "dynamic" => dyn[t] = client[t]

(* The cached ApiClient is the last one built, and the cached DynamicClient *)
(* is the one its key names.                                                *)
CachesInv ==
    /\ cachedClient = Len(built)
    /\ Len(built) \notin closed
    /\ cachedDynamic # NoClient => dynamicKey[2] = cachedDynamic

(* Every replaced ApiClient is closed, or in the hands of one thread that   *)
(* is going to close it.                                                    *)
PredecessorsInv ==
    /\ \A t \in Threads : previous[t] # NoClient =>
          at[t] = "closing" /\ previous[t] < Len(built) /\ previous[t] \notin closed
    /\ \A i \in 1..(Len(built) - 1) : i \in closed \/ \E t \in Threads : previous[t] = i
    /\ \A t, u \in Threads : previous[t] # NoClient /\ previous[t] = previous[u] => t = u

(* Who leads a fetch: a thread in the fetch or behind it, or one that asks  *)
(* for a client on behalf of it.  As long as it does, there are requests    *)
(* left to make.                                                            *)
LeaderOK(t) ==
    /\ t \in leading =>
          /\ at[t] \in {"fetch", "storing", "announcing", "retiring"} \cup ClientPlaces
          /\ at[t] \in ClientPlaces => wants[t] = "schema"
          /\ at[t] \in {"fetch"} \cup ClientPlaces => attempt[t] < Complete
    /\ at[t] \in {"fetch", "storing", "announcing", "retiring"} => t \in leading
    /\ wants[t] = "schema" => t \in leading /\ at[t] \in ClientPlaces

LeadersInv == \A t \in Threads : LeaderOK(t)

(* The Future a thread leads or waits for is one of its own configuration;  *)
(* a leader that retires has filled it in.                                  *)
FuturesInv ==
    \A t \in Threads :
        /\ at[t] = "lookup" => key[t] \in Configs
        /\ t \in leading \/ at[t] = "waiting" =>
              /\ key[t] \in Configs
              /\ future[t] \in 1..Len(futures)
              /\ futures[future[t]].key = key[t]
        /\ at[t] = "retiring" => futures[future[t]].result # Pending

(* A Future without a result is the one that is registered as in flight,    *)
(* and what is registered or filled in is of the right configuration.       *)
InflightInv ==
    /\ \A i \in 1..Len(futures) :
          /\ futures[i].result = Pending => inflight[futures[i].key] = i
          /\ futures[i].result \in {Pending, Raised} \/ Own(futures[i].result, futures[i].key)
    /\ \A k \in Configs : inflight[k] # NoFuture => futures[inflight[k]].key = k

(* What was fetched, cached or given is of the key it was fetched under.    *)
KeysInv ==
    /\ \A t \in Threads :
          /\ at[t] \in {"storing", "announcing"} =>
                spec[t].kind = "schema" /\ Own(spec[t], key[t])
          /\ at[t] \in {"retiring", "served"} =>
                answer[t] = Raised \/ Own(answer[t], key[t])
    /\ schema # NoSchema => Own(schema, schemaKey)

(* A thread in explain_resource for which nothing has moved is still under  *)
(* its own configuration, asks for clients of it, and has fetched from no   *)
(* other cluster; outside explain_resource it has fetched nothing.          *)
SteadyOK(t) ==
    /\ key[t] = NoKey => spec[t].of = {}
    /\ key[t] # NoKey => at[t] # "idle" /\ (at[t] \in ClientPlaces => wants[t] = "schema")
    /\ key[t] # NoKey /\ t \notin moved =>
          /\ settings = key[t]
          /\ wants[t] = "schema" => mine[t] = key[t]
          /\ spec[t].of \subseteq {key[t]}

SteadyInv == \A t \in Threads : SteadyOK(t)

ClientInv == HandsInv /\ CachesInv /\ PredecessorsInv
FlightInv == LeadersInv /\ FuturesInv /\ InflightInv /\ KeysInv
IInv == TypeOK /\ ClientInv /\ FlightInv /\ SteadyInv

-----------------------------------------------------------------------------

AllPlaces == Places \cup {"lookup", "waiting", "fetch", "storing",
                          "announcing", "retiring", "served"}

LEMMA InitIInv == Init => IInv
<1> SUFFICES ASSUME Init PROVE IInv
  OBVIOUS
<1> USE ClientAssumption, OpenApiAssumption DEF Init, CInit, NoClient, NoFuture, NoKey
<1>1. TypeOK
  <2>1. NoSchema \in Contents
    BY DEF NoSchema, Result, Contents
  <2>2. V2 \in V2..Complete
    BY DEF V2, Index, Complete
  <2>3. /\ built \in Seq(Configs) /\ Len(built) = 0
        /\ futures \in Seq([key : Configs, result : Contents]) /\ Len(futures) = 0
    OBVIOUS
  <2>4. /\ client \in [Threads -> 0..Len(built)] /\ dyn \in [Threads -> 0..Len(built)]
        /\ previous \in [Threads -> 0..Len(built)] /\ future \in [Threads -> 0..Len(futures)]
        /\ inflight \in [Configs -> 0..Len(futures)]
        /\ cachedClient \in 0..Len(built) /\ cachedDynamic \in 0..Len(built)
        /\ dynamicKey \in (Configs \cup {NoConfig}) \X (0..Len(built))
    BY <2>3
  <2>5. at \in [Threads -> AllPlaces]
    BY DEF AllPlaces, Places
  <2>6. /\ closed = {} /\ leading = {} /\ switches \in 0..MaxSwitches
        /\ schema = NoSchema /\ schemaKey = NoKey /\ fresh = FALSE
    OBVIOUS
  <2> QED BY <2>1, <2>2, <2>3, <2>4, <2>5, <2>6 DEF TypeOK, AllPlaces
<1>2. ClientInv
  BY DEF ClientInv, HandsInv, CachesInv, PredecessorsInv, ClientPlaces
<1>3. FlightInv
  BY DEF FlightInv, LeadersInv, LeaderOK, FuturesInv, InflightInv, KeysInv, ClientPlaces
<1>4. SteadyInv
  BY DEF SteadyInv, SteadyOK, NoSchema, Result
<1> QED BY <1>1, <1>2, <1>3, <1>4 DEF IInv

-----------------------------------------------------------------------------
(* Types.                                                                  *)

(* What TypeOK says of the ApiClients and of who has them.                  *)
LEMMA ClientTypes ==
    ASSUME TypeOK
    PROVE  /\ built \in Seq(Configs) /\ Len(built) \in Nat
           /\ cachedClient \in 0..Len(built) /\ cachedDynamic \in 0..Len(built)
           /\ dynamicKey \in (Configs \cup {NoConfig}) \X (0..Len(built))
           /\ closed \subseteq 1..Len(built)
           /\ client \in [Threads -> 0..Len(built)] /\ dyn \in [Threads -> 0..Len(built)]
           /\ previous \in [Threads -> 0..Len(built)]
           /\ mine \in [Threads -> Configs \cup {NoConfig}]
           /\ wants \in [Threads -> {"api", "dynamic", "schema"}]
           /\ at \in [Threads -> AllPlaces]
<1>1. built \in Seq(Configs)
  BY DEF TypeOK
<1>2. Len(built) \in Nat
  BY <1>1
<1>3. /\ cachedClient \in 0..Len(built) /\ cachedDynamic \in 0..Len(built)
      /\ dynamicKey \in (Configs \cup {NoConfig}) \X (0..Len(built))
      /\ closed \subseteq 1..Len(built)
  BY ZenonT(20) DEF TypeOK, Clients
<1>4. /\ client \in [Threads -> 0..Len(built)] /\ dyn \in [Threads -> 0..Len(built)]
      /\ previous \in [Threads -> 0..Len(built)]
      /\ mine \in [Threads -> Configs \cup {NoConfig}]
      /\ wants \in [Threads -> {"api", "dynamic", "schema"}]
      /\ at \in [Threads -> AllPlaces]
  BY ZenonT(20) DEF TypeOK, AllPlaces
<1> QED BY <1>1, <1>2, <1>3, <1>4

(* What a step does to the ApiClients keeps the types of all numbers of     *)
(* clients, as clients are only ever added.                                 *)
LEMMA EnterType ==
    ASSUME TypeOK, NEW t \in Threads, NEW what \in {"api", "dynamic", "schema"},
           Enter(t, what), UNCHANGED <<flight, openApi>>
    PROVE  TypeOK'
BY DEF TypeOK, Enter, GoTo, environment, caches, flight, openApi, Clients, Places

LEMMA LetGoType ==
    ASSUME TypeOK, NEW t \in Threads, NEW p \in AllPlaces, LetGo(t, p),
           UNCHANGED <<environment, built, cachedClient, closed>>,
           UNCHANGED <<cachedDynamic, dynamicKey>>, UNCHANGED <<flight, openApi>>
    PROVE  TypeOK'
<1>1. NoClient \in 0..Len(built)
  BY ClientTypes DEF NoClient
<1>2. /\ client' \in [Threads -> 0..Len(built)] /\ dyn' \in [Threads -> 0..Len(built)]
      /\ mine' \in [Threads -> Configs \cup {NoConfig}]
      /\ wants' \in [Threads -> {"api", "dynamic", "schema"}]
      /\ at' \in [Threads -> AllPlaces]
  BY <1>1, ClientTypes DEF LetGo, GoTo
<1>3. UNCHANGED previous
  BY DEF LetGo
<1> QED BY <1>2, <1>3 DEF TypeOK, environment, flight, openApi, Clients, AllPlaces

LEMMA ReplaceClientType ==
    ASSUME TypeOK, NEW t \in Threads, mine[t] \in Configs, ReplaceClient(t),
           UNCHANGED <<flight, openApi>>
    PROVE  TypeOK'
<1> DEFINE n == Len(built)
<1>1. /\ built \in Seq(Configs) /\ n \in Nat
      /\ cachedClient \in 0..n /\ cachedDynamic \in 0..n /\ closed \subseteq 1..n
      /\ dynamicKey \in (Configs \cup {NoConfig}) \X (0..n)
      /\ client \in [Threads -> 0..n] /\ dyn \in [Threads -> 0..n]
      /\ previous \in [Threads -> 0..n]
  BY ClientTypes
<1>2. /\ built' = Append(built, mine[t]) /\ cachedClient' = n + 1
      /\ client' = [client EXCEPT ![t] = n + 1]
      /\ previous' = [previous EXCEPT ![t] = cachedClient]
      /\ at' = [at EXCEPT ![t] = "closing"]
      /\ UNCHANGED <<environment, wants, mine, dyn, cachedDynamic, dynamicKey, closed>>
  BY DEF ReplaceClient, GoTo
<1>3. built' \in Seq(Configs) /\ Len(built') = n + 1
  BY <1>1, <1>2
<1> HIDE DEF n
<1>4. 0..n \subseteq 0..(n + 1) /\ 1..n \subseteq 1..(n + 1) /\ n + 1 \in 0..(n + 1)
  BY <1>1
<1>5. /\ cachedClient' \in 0..(n + 1) /\ cachedDynamic' \in 0..(n + 1)
      /\ closed' \subseteq 1..(n + 1)
  BY <1>1, <1>2, <1>4
<1>6. dynamicKey' \in (Configs \cup {NoConfig}) \X (0..(n + 1))
  BY <1>1, <1>2, <1>4
<1>7. /\ client' \in [Threads -> 0..(n + 1)] /\ dyn' \in [Threads -> 0..(n + 1)]
      /\ previous' \in [Threads -> 0..(n + 1)]
  BY <1>1, <1>2, <1>4
<1>8. at' \in [Threads -> AllPlaces]
  BY <1>2, ClientTypes DEF AllPlaces, Places
<1>9. UNCHANGED <<environment, wants, mine, flight, openApi>>
  BY <1>2
<1>10. built' \in Seq(Configs) /\ cachedClient' \in 0..Len(built')
       /\ cachedDynamic' \in 0..Len(built') /\ closed' \subseteq 1..Len(built')
       /\ dynamicKey' \in (Configs \cup {NoConfig}) \X (0..Len(built'))
       /\ client' \in [Threads -> 0..Len(built')] /\ dyn' \in [Threads -> 0..Len(built')]
       /\ previous' \in [Threads -> 0..Len(built')]
  BY <1>3, <1>5, <1>6, <1>7
<1>11. UNCHANGED <<settings, switches, wants, mine, key, moved, leading, attempt, future, spec,
                   answer, futures, inflight, schema, schemaKey, fresh>>
  BY <1>9 DEF environment, flight, openApi
<1> QED BY <1>8, <1>10, <1>11 DEF TypeOK, AllPlaces, Clients

LEMMA ObtainType ==
    ASSUME TypeOK, HandsInv, NEW t \in Threads, Obtain(t), UNCHANGED <<flight, openApi>>
    PROVE  TypeOK'
<1>1. CASE ReuseClient(t)
  BY <1>1 DEF TypeOK, ReuseClient, GoTo, environment, caches, flight, openApi, Clients, Places
<1>2. CASE ReplaceClient(t)
  BY <1>2, ReplaceClientType DEF HandsInv, ReplaceClient, ClientPlaces
<1>3. CASE BuildFails(t)
  BY <1>3, LetGoType DEF BuildFails, AllPlaces, Places, caches
<1>4. CASE ClosePrevious(t)
  <2>1. closed' \subseteq Clients'
    <3>1. previous[t] \in 0..Len(built) /\ Len(built) \in Nat
      BY DEF TypeOK
    <3>2. {previous[t]} \ {NoClient} \subseteq 1..Len(built)
      BY <3>1 DEF NoClient
    <3>3. closed' \subseteq 1..Len(built) /\ built' = built
      BY <1>4, <3>2 DEF TypeOK, ClosePrevious, Clients
    <3> QED BY <3>3 DEF Clients
  <2>2. /\ previous' \in [Threads -> 0..Len(built)]
        /\ at' \in [Threads -> AllPlaces]
    <3>1. NoClient \in 0..Len(built)
      BY ClientTypes DEF NoClient
    <3>2. previous' \in [Threads -> 0..Len(built)]
      BY <1>4, <3>1, ClientTypes DEF ClosePrevious
    <3>3. at' \in [Threads -> AllPlaces]
      BY <1>4, ClientTypes DEF ClosePrevious, GoTo, AllPlaces, Places
    <3> QED BY <3>2, <3>3
  <2> QED BY <1>4, <2>1, <2>2
       DEF AllPlaces, TypeOK, ClosePrevious, GoTo, environment, flight, openApi, Clients, Places,
           NoClient
<1>5. CASE LockDynamic(t)
  <2>1. CASE LetGo(t, "idle") /\ UNCHANGED <<cachedDynamic, dynamicKey>>
    BY <1>5, <2>1, LetGoType DEF LockDynamic, AllPlaces, Places
  <2>2. CASE ~(LetGo(t, "idle") /\ UNCHANGED <<cachedDynamic, dynamicKey>>)
    <3>1. /\ client[t] \in 0..Len(built) /\ cachedDynamic \in 0..Len(built)
          /\ mine[t] \in Configs \cup {NoConfig}
      BY DEF TypeOK
    <3>2. /\ \/ dyn' = [dyn EXCEPT ![t] = cachedDynamic] /\ UNCHANGED <<cachedDynamic, dynamicKey>>
             \/ /\ dyn' = [dyn EXCEPT ![t] = client[t]]
                /\ cachedDynamic' = client[t] /\ dynamicKey' = <<mine[t], client[t]>>
          /\ at' = [at EXCEPT ![t] = "using"]
          /\ UNCHANGED <<wants, mine, client, previous>>
      BY <1>5, <2>2 DEF LockDynamic, GoTo
    <3>3. /\ dyn' \in [Threads -> 0..Len(built)] /\ cachedDynamic' \in 0..Len(built)
          /\ at' \in [Threads -> AllPlaces]
      <4>1. dyn' \in [Threads -> 0..Len(built)] /\ cachedDynamic' \in 0..Len(built)
        BY <3>1, <3>2, ClientTypes
      <4>2. at' = [at EXCEPT ![t] = "using"] /\ "using" \in AllPlaces
        BY <3>2 DEF AllPlaces, Places
      <4> QED BY <4>1, <4>2, ClientTypes
    <3>4. dynamicKey' \in (Configs \cup {NoConfig}) \X (0..Len(built))
      BY <3>1, <3>2, ClientTypes
    <3> QED BY <1>5, <3>2, <3>3, <3>4 
           DEF TypeOK, LockDynamic, environment, flight, openApi, Clients, AllPlaces
  <2> QED BY <2>1, <2>2
<1> QED BY <1>1, <1>2, <1>3, <1>4, <1>5 DEF Obtain

LEMMA ContentsType ==
    /\ {NoSchema, Raised, Pending} \subseteq Contents
    /\ Raised # Pending
    /\ \A r \in Contents : r.kind = "schema" => r \notin {NoSchema, Raised, Pending}
    /\ \A of \in SUBSET Configs, k \in Configs \cup {NoKey}, late \in BOOLEAN :
          /\ Result("schema", of, k, late) \in Contents
          /\ Result("schema", of, k, late).kind = "schema"
BY DEF NoSchema, Raised, Pending, Result, Contents

(* A step that changes a thread's place and nothing with a number in it.    *)
LEMMA MoveType ==
    ASSUME TypeOK, NEW t \in Threads, NEW p \in AllPlaces, GoTo(t, p)
    PROVE  at' \in [Threads -> AllPlaces]
BY DEF TypeOK, GoTo, AllPlaces

LEMMA DiscardType ==
    ASSUME TypeOK, NEW t \in Threads, Discard(t)
    PROVE  /\ schema' \in Contents /\ schemaKey' \in Configs \cup {NoKey} /\ fresh' \in BOOLEAN
           /\ schema' = NoSchema <=> schemaKey' = NoKey
           /\ fresh' => schema' # NoSchema
BY ContentsType DEF TypeOK, Discard

LEMMA LookupType ==
    ASSUME TypeOK, FuturesInv, NEW t \in Threads, Lookup(t)
    PROVE  TypeOK'
<1>1. CASE Serve(t)
  <2>1. at' \in [Threads -> AllPlaces]
    BY <1>1, MoveType DEF Serve, AllPlaces
  <2> QED BY <1>1, <2>1
       DEF TypeOK, Serve, environment, inHand, caches, openApi, Clients, AllPlaces
<1>2. CASE Join(t)
  <2>1. at' \in [Threads -> AllPlaces]
    BY <1>2, MoveType DEF Join, AllPlaces
  <2>2. inflight[key[t]] \in 0..Len(futures)
    BY <1>2 DEF Join, FuturesInv, TypeOK
  <2>3. future' \in [Threads -> 0..Len(futures)]
    BY <1>2, <2>2 DEF Join, TypeOK
  <2> QED BY <1>2, <2>1, <2>3, DiscardType
       DEF TypeOK, Join, environment, inHand, caches, Clients, AllPlaces
<1>3. CASE Lead(t)
  <2>1. at' \in [Threads -> AllPlaces]
    BY <1>3, MoveType DEF Lead, AllPlaces
  <2>2. key[t] \in Configs
    BY <1>3 DEF Lead, FuturesInv
  <2>3. [key |-> key[t], result |-> Pending] \in [key : Configs, result : Contents]
    BY <2>2, ContentsType
  <2>4. /\ futures' \in Seq([key : Configs, result : Contents])
        /\ Len(futures') = Len(futures) + 1 /\ Len(futures) \in Nat
    BY <1>3, <2>3 DEF Lead, TypeOK
  <2>5. /\ future' \in [Threads -> 0..Len(futures')]
        /\ inflight' \in [Configs -> 0..Len(futures')]
    <3>1. 0..Len(futures) \subseteq 0..Len(futures') /\ Len(futures) + 1 \in 0..Len(futures')
      BY <2>4
    <3> QED BY <1>3, <3>1 DEF Lead, TypeOK
  <2>6. /\ attempt' \in [Threads -> V2..Complete]
        /\ leading' \subseteq Threads
    <3>1. V2 \in V2..Complete
      BY OpenApiAssumption DEF V2, Index, Complete
    <3>2. attempt \in [Threads -> V2..Complete] /\ leading \subseteq Threads
      BY DEF TypeOK
    <3> QED BY <1>3, <3>1, <3>2 DEF Lead
  <2> QED BY <1>3, <2>1, <2>4, <2>5, <2>6, DiscardType
       DEF TypeOK, Lead, environment, inHand, caches, Clients, AllPlaces
<1> QED BY <1>1, <1>2, <1>3 DEF Lookup

LEMMA MergeType ==
    ASSUME TypeOK, NEW t \in Threads, key[t] \in Configs, NEW clusters \in SUBSET Configs,
           NEW next \in V2..Complete, Merge(t, clusters, next)
    PROVE  TypeOK'
<1>1. spec' \in [Threads -> Contents] /\ attempt' \in [Threads -> V2..Complete]
  <2>1. spec[t].of \in SUBSET Configs
    BY DEF TypeOK, Contents
  <2>2. ASSUME NEW late \in BOOLEAN
        PROVE  Result("schema", spec[t].of \cup clusters, key[t], late) \in Contents
    BY <2>1, ContentsType
  <2>3. (t \in moved) \in BOOLEAN
    OBVIOUS
  <2>4. Result("schema", spec[t].of \cup clusters, key[t], t \in moved) \in Contents
    BY <2>2, <2>3
  <2> QED BY <2>4 DEF Merge, TypeOK
<1>2. /\ mine' \in [Threads -> Configs \cup {NoConfig}]
      /\ wants' \in [Threads -> {"api", "dynamic", "schema"}]
      /\ at' \in [Threads -> AllPlaces]
  BY MoveType DEF Merge, LetGo, TypeOK, AllPlaces
<1>3. client' \in [Threads -> 0..Len(built)] /\ dyn' \in [Threads -> 0..Len(built)]
  <2>1. NoClient \in 0..Len(built)
    BY ClientTypes DEF NoClient
  <2> QED BY <2>1, ClientTypes DEF Merge, LetGo
<1> QED BY <1>1, <1>2, <1>3
     DEF TypeOK, Merge, LetGo, environment, caches, openApi, Clients, AllPlaces

(* Filling in a Future keeps its key and all other Futures.                 *)
LEMMA FillFuture ==
    ASSUME TypeOK, NEW i \in 1..Len(futures), NEW r \in Contents,
           futures' = [futures EXCEPT ![i].result = r]
    PROVE  /\ futures' \in Seq([key : Configs, result : Contents])
           /\ Len(futures') = Len(futures)
           /\ \A j \in 1..Len(futures) :
                 /\ futures'[j].key = futures[j].key
                 /\ futures'[j].result = IF j = i THEN r ELSE futures[j].result
<1>1. futures \in Seq([key : Configs, result : Contents])
  BY DEF TypeOK
<1>2. futures[i] \in [key : Configs, result : Contents]
  BY <1>1, ElementOfSeq
<1>3. [futures[i] EXCEPT !.result = r] \in [key : Configs, result : Contents]
  BY <1>2
<1>4. futures' = [futures EXCEPT ![i] = [futures[i] EXCEPT !.result = r]]
  OBVIOUS
<1>5. /\ futures' \in Seq([key : Configs, result : Contents])
      /\ Len(futures') = Len(futures)
  BY <1>1, <1>3, <1>4
<1>6. ASSUME NEW j \in 1..Len(futures)
      PROVE  futures'[j] = IF j = i THEN [futures[i] EXCEPT !.result = r] ELSE futures[j]
  BY <1>1, <1>4
<1> QED BY <1>2, <1>5, <1>6

LEMMA FutureKeys ==
    ASSUME TypeOK, NEW i \in 1..Len(futures)
    PROVE  futures[i].key \in Configs
<1>1. futures \in Seq([key : Configs, result : Contents])
  BY DEF TypeOK
<1>2. futures[i] \in [key : Configs, result : Contents]
  BY <1>1, ElementOfSeq
<1> QED BY <1>2

(* A client in use was built for some configuration.                        *)
LEMMA UsedClient ==
    ASSUME TypeOK, HandsInv, NEW t \in Threads, at[t] = "using"
    PROVE  built[client[t]] \in Configs
BY DEF TypeOK, HandsInv, ClientPlaces

LEMMA FetchType ==
    ASSUME TypeOK, HandsInv, LeadersInv, FuturesInv, NEW t \in Threads, Fetch(t)
    PROVE  TypeOK'
<1>0. /\ V2 = 0 /\ Index = 1 /\ Complete = Documents + 2 /\ Documents \in Nat \ {0}
      /\ attempt[t] \in V2..Complete
  BY OpenApiAssumption DEF V2, Index, Complete, TypeOK
<1>1. CASE Request(t)
  BY <1>1, EnterType DEF Request
<1>2. CASE Respond(t)
  <2>1. key[t] \in Configs /\ {built[client[t]]} \in SUBSET Configs
    BY <1>2, UsedClient DEF Respond, LeadersInv, LeaderOK, FuturesInv
  <2>2. attempt[t] < Complete
    BY <1>2 DEF Respond, LeadersInv, LeaderOK, ClientPlaces
  <2>3. CASE attempt[t] = V2 /\ Merge(t, {built[client[t]]}, Complete)
    BY <1>0, <2>1, <2>3, MergeType
  <2>4. CASE attempt[t] = Index /\ Merge(t, {}, attempt[t] + 1)
    BY <1>0, <2>1, <2>2, <2>4, MergeType
  <2>5. CASE attempt[t] > Index /\ Merge(t, {built[client[t]]}, attempt[t] + 1)
    BY <1>0, <2>1, <2>2, <2>5, MergeType
  <2> QED BY <1>2, <2>3, <2>4, <2>5 DEF Respond
<1>3. CASE RequestFails(t)
  <2>1. key[t] \in Configs /\ attempt[t] < Complete
    BY <1>3 DEF RequestFails, LeadersInv, LeaderOK, FuturesInv, ClientPlaces
  <2>2. (IF attempt[t] = Index THEN Complete ELSE attempt[t] + 1) \in V2..Complete
    BY <1>0, <2>1
  <2> QED BY <1>3, <2>1, <2>2, MergeType DEF RequestFails
<1>4. CASE Raise(t)
  <2>1. future[t] \in 1..Len(futures)
    BY <1>4 DEF Raise, LeadersInv, LeaderOK, FuturesInv
  <2>2. answer' \in [Threads -> Contents] /\ at' \in [Threads -> AllPlaces]
    BY <1>4, MoveType, ContentsType DEF Raise, LetGo, TypeOK, AllPlaces
  <2>3. /\ futures' \in Seq([key : Configs, result : Contents])
        /\ Len(futures') = Len(futures)
    BY <1>4, <2>1, ContentsType, FillFuture DEF Raise
  <2>4. /\ mine' \in [Threads -> Configs \cup {NoConfig}]
        /\ wants' \in [Threads -> {"api", "dynamic", "schema"}]
    BY <1>4 DEF Raise, LetGo, TypeOK
  <2>5. client' \in [Threads -> 0..Len(built)] /\ dyn' \in [Threads -> 0..Len(built)]
    <3>1. NoClient \in 0..Len(built)
      BY ClientTypes DEF NoClient
    <3> QED BY <1>4, <3>1, ClientTypes DEF Raise, LetGo
  <2> QED BY <1>4, <2>2, <2>3, <2>4, <2>5
       DEF TypeOK, Raise, LetGo, environment, caches, Clients, AllPlaces
<1> QED BY <1>1, <1>2, <1>3, <1>4 DEF Fetch

LEMMA PublishType ==
    ASSUME TypeOK, LeadersInv, FuturesInv, KeysInv, NEW t \in Threads, Publish(t)
    PROVE  TypeOK'
<1>0. at' \in [Threads -> AllPlaces]
  BY MoveType DEF Publish, Store, Announce, Retire, AllPlaces
<1>1. CASE Store(t)
  <2>1. /\ spec[t] \in Contents /\ spec[t] # NoSchema
        /\ key[t] \in Configs
    BY <1>1, ContentsType DEF Store, KeysInv, LeadersInv, LeaderOK, FuturesInv, TypeOK
  <2>2. /\ schema' \in Contents /\ schemaKey' \in Configs \cup {NoKey} /\ fresh' \in BOOLEAN
        /\ schema' = NoSchema <=> schemaKey' = NoKey
        /\ fresh' => schema' # NoSchema
    BY <1>1, <2>1, ContentsType, ClientAssumption DEF Store, NoKey
  <2> QED BY <1>0, <1>1, <2>2
       DEF TypeOK, Store, environment, inHand, caches, flight, Clients, AllPlaces
<1>2. CASE Announce(t)
  <2>1. future[t] \in 1..Len(futures) /\ spec[t] \in Contents
    BY <1>2 DEF Announce, LeadersInv, LeaderOK, FuturesInv, TypeOK
  <2>2. /\ futures' \in Seq([key : Configs, result : Contents])
        /\ Len(futures') = Len(futures)
    BY <1>2, <2>1, FillFuture DEF Announce
  <2>3. answer' \in [Threads -> Contents]
    BY <1>2, <2>1 DEF Announce, TypeOK
  <2> QED BY <1>0, <1>2, <2>2, <2>3
       DEF TypeOK, Announce, environment, inHand, caches, Clients, AllPlaces
<1>3. CASE Retire(t)
  <2>1. inflight' \in [Configs -> 0..Len(futures)]
    <3>1. Len(futures) \in Nat
      BY DEF TypeOK
    <3>2. \/ inflight' = [inflight EXCEPT ![key[t]] = 0]
          \/ inflight' = inflight
      BY <1>3 DEF Retire, NoFuture
    <3>3. inflight \in [Configs -> 0..Len(futures)] /\ 0 \in 0..Len(futures)
      BY <3>1 DEF TypeOK
    <3> QED BY <3>2, <3>3
  <2> QED BY <1>0, <1>3, <2>1
       DEF TypeOK, Retire, environment, inHand, caches, Clients, AllPlaces
<1> QED BY <1>1, <1>2, <1>3 DEF Publish

LEMMA LeaveType ==
    ASSUME TypeOK, NEW t \in Threads, Leave(t)
    PROVE  TypeOK'
<1>1. /\ at' \in [Threads -> AllPlaces]
      /\ key' \in [Threads -> Configs \cup {NoKey}]
      /\ spec' \in [Threads -> Contents] /\ answer' \in [Threads -> Contents]
  BY MoveType, ContentsType DEF Leave, TypeOK, AllPlaces, Places
<1>2. attempt' \in [Threads -> V2..Complete]
  BY OpenApiAssumption DEF Leave, TypeOK, V2, Index, Complete
<1>3. future' \in [Threads -> 0..Len(futures)]
  <2>1. Len(futures) \in Nat
    BY DEF TypeOK
  <2> QED BY <2>1 DEF Leave, TypeOK, NoFuture
<1> QED BY <1>1, <1>2, <1>3
     DEF TypeOK, Leave, environment, inHand, caches, openApi, Clients, AllPlaces

LEMMA WorkType ==
    ASSUME TypeOK, ClientInv, FlightInv, NEW t \in Threads, Work(t)
    PROVE  TypeOK'
<1> USE DEF ClientInv, FlightInv
<1>1. CASE Obtain(t) /\ UNCHANGED <<flight, openApi>>
  BY <1>1, ObtainType
<1>2. CASE Done(t) /\ UNCHANGED <<flight, openApi>>
  BY <1>2, LetGoType DEF Done, AllPlaces, Places, caches
<1>3. CASE Follow(t)
  <2>1. futures[future[t]].result \in Contents
    <3>1. future[t] \in 1..Len(futures)
      BY <1>3 DEF Follow, FuturesInv
    <3>2. futures[future[t]] \in [key : Configs, result : Contents]
      BY <3>1, ElementOfSeq DEF TypeOK
    <3> QED BY <3>2
  <2>2. answer' \in [Threads -> Contents] /\ at' \in [Threads -> AllPlaces]
    BY <1>3, <2>1, MoveType DEF Follow, TypeOK, AllPlaces
  <2> QED BY <1>3, <2>2
       DEF TypeOK, Follow, environment, inHand, caches, openApi, Clients, AllPlaces
<1> QED BY <1>1, <1>2, <1>3, LookupType, FetchType, PublishType, LeaveType DEF Work

LEMMA NextType ==
    ASSUME IInv, [Next]_vars
    PROVE  TypeOK'
<1> USE DEF IInv
<1>1. ASSUME NEW t \in Threads, Work(t) PROVE TypeOK'
  BY <1>1, WorkType
<1>2. ASSUME NEW t \in Threads, AskSchema(t) PROVE TypeOK'
  <2>1. at' \in [Threads -> AllPlaces]
    BY <1>2, MoveType DEF AskSchema, AllPlaces
  <2> QED BY <1>2, <2>1
       DEF TypeOK, AskSchema, environment, inHand, caches, openApi, Clients, AllPlaces
<1>3. ASSUME NEW t \in Threads, Ask(t), UNCHANGED <<flight, openApi>> PROVE TypeOK'
  BY <1>3, EnterType DEF Ask
<1>4. ASSUME NEW k \in Configs, Reconfigure(k) PROVE TypeOK'
  <2>1. switches' \in 0..MaxSwitches
    BY <1>4, ClientAssumption DEF TypeOK, Reconfigure, Switch
  <2>2. /\ settings' \in Configs /\ moved' \subseteq Threads
        /\ UNCHANGED <<at, wants, inHand, caches, key, leading, attempt, future, spec, answer,
                       openApi>>
    BY <1>4 DEF Reconfigure, Switch, TypeOK
  <2> QED BY <2>1, <2>2 DEF TypeOK, inHand, caches, openApi, Clients
<1>5. CASE Expire
  BY <1>5 DEF TypeOK, Expire, clientVars, environment, inHand, caches, flight, Clients
<1>6. CASE UNCHANGED vars
  BY <1>6 DEF TypeOK, vars, clientVars, environment, inHand, caches, flight, openApi, Clients
<1> QED BY <1>1, <1>2, <1>3, <1>4, <1>5, <1>6 DEF Next

-----------------------------------------------------------------------------
(* The clients.                                                            *)

(* A thread that neither has nor wants a client may go where it likes.      *)
LEMMA MoveClientInv ==
    ASSUME TypeOK, ClientInv, NEW t \in Threads, NEW p \in AllPlaces \ ClientPlaces,
           at[t] \notin ClientPlaces, GoTo(t, p), UNCHANGED <<wants, inHand, caches>>
    PROVE  ClientInv'
<1> USE DEF ClientInv, GoTo, inHand, caches, TypeOK, ClientPlaces
<1>1. HandsInv'
  BY DEF HandsInv
<1>2. CachesInv'
  BY DEF CachesInv
<1>3. PredecessorsInv'
  BY DEF PredecessorsInv
<1> QED BY <1>1, <1>2, <1>3

(* A thread that is not about to close anything may let go of its client.   *)
LEMMA LetGoClientInv ==
    ASSUME TypeOK, ClientInv, NEW t \in Threads, NEW p \in AllPlaces \ ClientPlaces,
           at[t] # "closing", LetGo(t, p), UNCHANGED caches
    PROVE  ClientInv'
<1> USE DEF ClientInv, GoTo, LetGo, caches, TypeOK, ClientPlaces
<1>1. HandsInv'
  BY DEF HandsInv
<1>2. CachesInv'
  BY DEF CachesInv
<1>3. PredecessorsInv'
  BY DEF PredecessorsInv
<1> QED BY <1>1, <1>2, <1>3

LEMMA EnterClientInv ==
    ASSUME TypeOK, ClientInv, NEW t \in Threads, NEW what \in {"api", "dynamic", "schema"},
           at[t] \notin ClientPlaces, Enter(t, what)
    PROVE  ClientInv'
<1>1. HandsInv'
  BY DEF HandsInv, ClientInv, GoTo, Enter, caches, TypeOK, ClientPlaces
<1>2. CachesInv'
  BY DEF CachesInv, ClientInv, Enter, caches
<1>3. /\ at' = [at EXCEPT ![t] = "api"] /\ at[t] # "closing" /\ at \in [Threads -> AllPlaces]
      /\ UNCHANGED <<built, closed, previous>>
  BY DEF GoTo, Enter, caches, TypeOK, ClientPlaces, AllPlaces, Places
<1>4. PredecessorsInv'
  BY <1>3 DEF PredecessorsInv, ClientInv
<1> QED BY <1>1, <1>2, <1>4 DEF ClientInv

LEMMA ReplaceClientInv ==
    ASSUME TypeOK, ClientInv, NEW t \in Threads, ReplaceClient(t)
    PROVE  ClientInv'
<1> DEFINE n == Len(built)
<1>1. /\ n \in Nat /\ cachedClient = n /\ closed \subseteq 1..n /\ n \notin closed
      /\ mine[t] \in Configs /\ at[t] = "api" /\ previous[t] = NoClient
  <2>1. at[t] = "api"
    BY DEF ReplaceClient
  <2> QED BY <2>1, ClientTypes DEF ClientInv, CachesInv, HandsInv, PredecessorsInv, ClientPlaces
<1>2. /\ built' = Append(built, mine[t]) /\ Len(built') = n + 1 /\ built'[n + 1] = mine[t]
      /\ \A i \in 1..n : built'[i] = built[i]
      /\ cachedClient' = n + 1
      /\ client' = [client EXCEPT ![t] = n + 1]
      /\ previous' = [previous EXCEPT ![t] = n]
      /\ at' = [at EXCEPT ![t] = "closing"]
      /\ UNCHANGED <<wants, mine, dyn, cachedDynamic, dynamicKey, closed>>
  BY <1>1 DEF ReplaceClient, GoTo, TypeOK
<1>3. HandsInv'
  <2> SUFFICES ASSUME NEW u \in Threads
               PROVE  /\ at'[u] \in ClientPlaces => mine'[u] \in Configs
                      /\ at'[u] = "dynamic" => wants'[u] = "dynamic"
                      /\ at'[u] \in {"closing", "dynamic", "using"} =>
                            client'[u] \in 1..Len(built') /\ built'[client'[u]] = mine'[u]
                      /\ at'[u] = "using" /\ wants'[u] = "dynamic" => dyn'[u] = client'[u]
    BY DEF HandsInv
  <2>1. CASE u = t
    BY <1>1, <1>2, <2>1 DEF TypeOK
  <2>2. CASE u # t
    <3>1. /\ at'[u] = at[u] /\ wants'[u] = wants[u] /\ mine'[u] = mine[u]
          /\ client'[u] = client[u] /\ dyn'[u] = dyn[u]
      BY <1>2, <2>2 DEF TypeOK
    <3>2. /\ at[u] \in ClientPlaces => mine[u] \in Configs
          /\ at[u] = "dynamic" => wants[u] = "dynamic"
          /\ at[u] \in {"closing", "dynamic", "using"} =>
                client[u] \in 1..n /\ built[client[u]] = mine[u]
          /\ at[u] = "using" /\ wants[u] = "dynamic" => dyn[u] = client[u]
      BY DEF ClientInv, HandsInv
    <3>3. client[u] \in 1..n =>
             client[u] \in 1..Len(built') /\ built'[client[u]] = built[client[u]]
      BY <1>1, <1>2
    <3> QED BY <3>1, <3>2, <3>3
  <2> QED BY <2>1, <2>2
<1>4. CachesInv'
  BY <1>1, <1>2 DEF ClientInv, CachesInv
<1>5. PredecessorsInv'
  <2>1. \A u \in Threads : previous'[u] = IF u = t THEN n ELSE previous[u]
    BY <1>2 DEF TypeOK
  <2>2. \A u \in Threads : previous[u] # NoClient => previous[u] < n
    BY DEF ClientInv, PredecessorsInv
  <2>3. \A u \in Threads : at'[u] = IF u = t THEN "closing" ELSE at[u]
    BY <1>2 DEF TypeOK
  <2>4. \A u \in Threads : previous'[u] # NoClient =>
           at'[u] = "closing" /\ previous'[u] < Len(built') /\ previous'[u] \notin closed'
    <3> SUFFICES ASSUME NEW u \in Threads, previous'[u] # NoClient
                 PROVE  at'[u] = "closing" /\ previous'[u] < n + 1 /\ previous'[u] \notin closed
      BY <1>2
    <3>1. CASE u = t
      BY <1>1, <2>1, <2>3, <3>1
    <3>2. CASE u # t
      <4>0. previous[u] \in 0..n
        BY DEF TypeOK
      <4>1. previous[u] \in Nat /\ previous[u] < n /\ previous'[u] = previous[u]
        BY <1>1, <2>1, <2>2, <3>2, <4>0
      <4>2. at[u] = "closing" /\ previous[u] \notin closed
        BY <4>1 DEF ClientInv, PredecessorsInv
      <4> QED BY <1>1, <2>3, <3>2, <4>1, <4>2
    <3> QED BY <3>1, <3>2
  <2>5. ASSUME NEW i \in 1..(Len(built') - 1)
        PROVE  i \in closed' \/ \E u \in Threads : previous'[u] = i
    <3>1. CASE i = n
      BY <2>1, <3>1
    <3>2. CASE i # n
      <4>1. i \in 1..(n - 1)
        BY <1>1, <1>2, <3>2
      <4>2. i \in closed \/ \E u \in Threads : previous[u] = i
        BY <4>1 DEF ClientInv, PredecessorsInv
      <4> QED BY <1>1, <1>2, <2>1, <4>1, <4>2 DEF NoClient
    <3> QED BY <3>1, <3>2
  <2>6. \A u, v \in Threads : previous'[u] # NoClient /\ previous'[u] = previous'[v] => u = v
    BY <1>1, <2>1, <2>2 DEF ClientInv, PredecessorsInv
  <2> QED BY <2>4, <2>5, <2>6 DEF PredecessorsInv
<1> QED BY <1>3, <1>4, <1>5 DEF ClientInv

LEMMA ClosePreviousInv ==
    ASSUME TypeOK, ClientInv, NEW t \in Threads, ClosePrevious(t)
    PROVE  ClientInv'
<1>1. /\ at' = [at EXCEPT ![t] = IF wants[t] = "dynamic" THEN "dynamic" ELSE "using"]
      /\ previous' = [previous EXCEPT ![t] = NoClient]
      /\ closed' = closed \cup ({previous[t]} \ {NoClient})
      /\ at[t] = "closing"
      /\ UNCHANGED <<wants, mine, client, dyn, built, cachedClient, cachedDynamic, dynamicKey>>
  BY DEF ClosePrevious, GoTo
<1>2. /\ previous[t] # NoClient => previous[t] < Len(built)
      /\ Len(built) \in Nat /\ previous[t] \in Nat
  <2>1. previous[t] \in Nat
    BY ClientTypes
  <2> QED BY <2>1, ClientTypes DEF ClientInv, PredecessorsInv
<1>3. HandsInv'
  BY <1>1 DEF ClientInv, HandsInv, TypeOK, ClientPlaces
<1>4. CachesInv'
  BY <1>1, <1>2 DEF ClientInv, CachesInv
<1>5. PredecessorsInv'
  <2>1. \A u \in Threads : previous'[u] = IF u = t THEN NoClient ELSE previous[u]
    BY <1>1 DEF TypeOK
  <2>2. \A u \in Threads : previous'[u] # NoClient =>
           at'[u] = "closing" /\ previous'[u] < Len(built') /\ previous'[u] \notin closed'
    BY <1>1, <2>1 DEF ClientInv, PredecessorsInv, TypeOK
  <2>3. \A i \in 1..(Len(built') - 1) : i \in closed' \/ \E u \in Threads : previous'[u] = i
    <3> SUFFICES ASSUME NEW i \in 1..(Len(built) - 1), i \notin closed'
                 PROVE  \E u \in Threads : previous'[u] = i
      BY <1>1
    <3>1. PICK u \in Threads : previous[u] = i
      BY <1>1 DEF ClientInv, PredecessorsInv
    <3>2. u # t
      BY <1>1, <1>2, <3>1 DEF NoClient
    <3> QED BY <2>1, <3>1, <3>2
  <2>4. \A u, v \in Threads : previous'[u] # NoClient /\ previous'[u] = previous'[v] => u = v
    BY <2>1 DEF ClientInv, PredecessorsInv
  <2> QED BY <2>2, <2>3, <2>4 DEF PredecessorsInv
<1> QED BY <1>3, <1>4, <1>5 DEF ClientInv

LEMMA ObtainClientInv ==
    ASSUME TypeOK, ClientInv, NEW t \in Threads, Obtain(t)
    PROVE  ClientInv'
<1> USE DEF ClientInv
<1>1. CASE ReuseClient(t)
  <2>1. /\ cachedClient \in 1..Len(built) /\ built[cachedClient] = mine[t]
        /\ client' = [client EXCEPT ![t] = cachedClient]
        /\ at' = [at EXCEPT ![t] = "closing"] /\ at[t] = "api"
        /\ UNCHANGED <<wants, mine, dyn, previous, caches>>
    BY <1>1 DEF ReuseClient, Current, GoTo, NoClient, TypeOK
  <2>2. HandsInv'
    BY <2>1 DEF HandsInv, TypeOK, ClientPlaces, caches
  <2>3. CachesInv' /\ PredecessorsInv'
    BY <2>1 DEF CachesInv, PredecessorsInv, TypeOK, caches
  <2> QED BY <2>2, <2>3
<1>2. CASE BuildFails(t)
  <2>1. at[t] = "api" /\ LetGo(t, "idle") /\ UNCHANGED caches
    BY <1>2 DEF BuildFails
  <2>2. at[t] # "closing" /\ "idle" \in AllPlaces \ ClientPlaces
    BY <2>1 DEF AllPlaces, Places, ClientPlaces
  <2> QED BY <2>1, <2>2, LetGoClientInv
<1>3. CASE LockDynamic(t)
  <2>1. CASE LetGo(t, "idle") /\ UNCHANGED <<cachedDynamic, dynamicKey>>
    BY <1>3, <2>1, LetGoClientInv DEF LockDynamic, caches, AllPlaces, Places, ClientPlaces
  <2>2. CASE ~(LetGo(t, "idle") /\ UNCHANGED <<cachedDynamic, dynamicKey>>)
    <3>1. /\ \/ /\ cachedDynamic # NoClient /\ dynamicKey = <<mine[t], client[t]>>
                /\ dyn' = [dyn EXCEPT ![t] = cachedDynamic]
                /\ UNCHANGED <<cachedDynamic, dynamicKey>>
             \/ /\ dyn' = [dyn EXCEPT ![t] = client[t]]
                /\ cachedDynamic' = client[t] /\ dynamicKey' = <<mine[t], client[t]>>
          /\ at' = [at EXCEPT ![t] = "using"] /\ at[t] = "dynamic"
          /\ UNCHANGED <<wants, mine, client, previous, built, cachedClient, closed>>
      BY <1>3, <2>2 DEF LockDynamic, DynamicMatches, GoTo
    <3>2. dyn' = [dyn EXCEPT ![t] = client[t]]
      BY <3>1 DEF CachesInv
    <3>3. CachesInv'
      BY <3>1 DEF CachesInv
    <3>4. HandsInv'
      BY <3>1, <3>2 DEF HandsInv, TypeOK, ClientPlaces
    <3>5. PredecessorsInv'
      BY <3>1 DEF PredecessorsInv, TypeOK
    <3> QED BY <3>3, <3>4, <3>5
  <2> QED BY <2>1, <2>2
<1> QED BY <1>1, <1>2, <1>3, ReplaceClientInv, ClosePreviousInv DEF Obtain

LEMMA NextClientInv ==
    ASSUME IInv, [Next]_vars
    PROVE  ClientInv'
<1> USE DEF IInv, FlightInv
<1>1. ASSUME NEW t \in Threads, Work(t) PROVE ClientInv'
  <2>1. CASE Done(t)
    BY <2>1, LetGoClientInv DEF Done, AllPlaces, Places, ClientPlaces
  <2>2. CASE Lookup(t) \/ Follow(t) \/ Publish(t) \/ Leave(t)
    BY <2>2, MoveClientInv
       DEF Lookup, Serve, Join, Lead, Follow, Publish, Store, Announce, Retire, Leave,
           AllPlaces, Places, ClientPlaces
  <2>3. CASE Request(t)
    BY <2>3, EnterClientInv DEF Request, ClientPlaces
  <2>4. CASE Respond(t) \/ RequestFails(t) \/ Raise(t)
    <3>1. \E p \in {"storing", "fetch", "retiring"} : LetGo(t, p)
      BY <2>4 DEF Respond, RequestFails, Merge, Raise
    <3>2. at[t] # "closing" /\ UNCHANGED caches
      BY <2>4 DEF Respond, RequestFails, Merge, Raise
    <3> QED BY <3>1, <3>2, LetGoClientInv DEF AllPlaces, ClientPlaces
  <2> QED BY <1>1, <2>1, <2>2, <2>3, <2>4, ObtainClientInv DEF Work, Fetch
<1>2. ASSUME NEW t \in Threads, AskSchema(t) PROVE ClientInv'
  BY <1>2, MoveClientInv DEF AskSchema, AllPlaces, ClientPlaces
<1>3. ASSUME NEW t \in Threads, Ask(t) PROVE ClientInv'
  BY <1>3, EnterClientInv DEF Ask, ClientPlaces
<1>4. CASE UNCHANGED <<at, wants, inHand, caches>>
  BY <1>4 DEF ClientInv, HandsInv, CachesInv, PredecessorsInv, inHand, caches
<1>5. ASSUME NEW k \in Configs, Reconfigure(k) PROVE ClientInv'
  BY <1>4, <1>5 DEF Reconfigure, Switch
<1> QED BY <1>1, <1>2, <1>3, <1>4, <1>5 DEF Next, Expire, vars, clientVars

-----------------------------------------------------------------------------
(* The fetches.                                                            *)

(* A thread asks for a client, gets it, or is done with it: no fetch begins *)
(* or ends.                                                                *)
LEMMA ClientStepFlightInv ==
    ASSUME TypeOK, HandsInv, FlightInv, NEW t \in Threads, UNCHANGED <<flight, openApi>>,
           Obtain(t) \/ Done(t) \/ Ask(t) \/ Request(t)
    PROVE  FlightInv'
<1>1. /\ UNCHANGED <<key, leading, attempt, future, spec, answer, futures, inflight,
                     schema, schemaKey, fresh>>
      /\ wants \in [Threads -> {"api", "dynamic", "schema"}] /\ DOMAIN at = Threads
  BY DEF flight, openApi, TypeOK
<1>2. PICK p \in ClientPlaces \cup {"idle"} : at' = [at EXCEPT ![t] = p]
  BY DEF Obtain, ReuseClient, ReplaceClient, BuildFails, ClosePrevious, LockDynamic, Done, Ask,
         Enter, Request, LetGo, GoTo, ClientPlaces
<1>3. \/ /\ at[t] \in ClientPlaces /\ p \in ClientPlaces /\ wants' = wants
      \/ /\ wants[t] # "schema" /\ at[t] \in ClientPlaces /\ p = "idle"
         /\ wants' = [wants EXCEPT ![t] = "api"]
      \/ /\ at[t] = "idle" /\ p = "api"
         /\ \E what \in {"api", "dynamic"} : wants' = [wants EXCEPT ![t] = what]
      \/ /\ at[t] = "fetch" /\ p = "api" /\ wants' = [wants EXCEPT ![t] = "schema"]
  <2>0. at'[t] = p
    BY <1>1, <1>2
  <2>1. CASE Obtain(t) \/ Done(t)
    <3>1. CASE ReuseClient(t) \/ ReplaceClient(t) \/ ClosePrevious(t)
      BY <1>1, <2>0, <3>1 DEF ReuseClient, ReplaceClient, ClosePrevious, GoTo, ClientPlaces
    <3>2. CASE BuildFails(t) \/ Done(t)
      BY <1>1, <2>0, <3>2 DEF BuildFails, Done, LetGo, GoTo, ClientPlaces
    <3>3. CASE LockDynamic(t)
      BY <1>1, <2>0, <3>3 DEF LockDynamic, LetGo, GoTo, ClientPlaces, HandsInv
    <3> QED BY <2>1, <3>1, <3>2, <3>3 DEF Obtain
  <2>2. CASE Ask(t)
    BY <1>1, <2>0, <2>2 DEF Ask, Enter, GoTo
  <2>3. CASE Request(t)
    BY <1>1, <2>0, <2>3 DEF Request, Enter, GoTo
  <2> QED BY <2>1, <2>2, <2>3
<1>4. \A u \in Threads : /\ at'[u] = IF u = t THEN p ELSE at[u]
                         /\ u # t => wants'[u] = wants[u]
  BY <1>1, <1>2, <1>3
<1>5. LeadersInv'
  <2>1. ASSUME NEW u \in Threads, u # t
        PROVE  LeaderOK(u)'
    BY <1>1, <1>4, <2>1 DEF FlightInv, LeadersInv, LeaderOK
  <2>2. LeaderOK(t)'
    <3>1. LeaderOK(t) /\ at'[t] = p /\ t \in Threads
      BY <1>4 DEF FlightInv, LeadersInv, LeaderOK
    <3> QED BY <1>1, <1>3, <3>1 DEF LeaderOK, ClientPlaces
  <2> QED BY <2>1, <2>2 DEF LeadersInv, LeaderOK
<1>6. FuturesInv'
  BY <1>1, <1>4 DEF FlightInv, FuturesInv, ClientPlaces
<1>7. InflightInv'
  BY <1>1 DEF FlightInv, InflightInv
<1>8. KeysInv'
  BY <1>1, <1>4 DEF FlightInv, KeysInv, ClientPlaces
<1> QED BY <1>5, <1>6, <1>7, <1>8 DEF FlightInv

(* A thread moves, without a client, and no Future changes.                 *)
LEMMA AskSchemaFlightInv ==
    ASSUME TypeOK, FlightInv, NEW t \in Threads, AskSchema(t)
    PROVE  FlightInv'
<1>1. \A u \in Threads : /\ at'[u] = IF u = t THEN "lookup" ELSE at[u]
                         /\ key'[u] = IF u = t THEN settings ELSE key[u]
  BY DEF AskSchema, GoTo, TypeOK
<1>2. /\ UNCHANGED <<wants, leading, attempt, future, spec, answer, futures, inflight,
                     schema, schemaKey, fresh>>
      /\ at[t] = "idle" /\ settings \in Configs
  BY DEF AskSchema, TypeOK, openApi
<1>3. LeadersInv'
  BY <1>1, <1>2 DEF FlightInv, LeadersInv, LeaderOK, ClientPlaces
<1>4. FuturesInv'
  BY <1>1, <1>2 DEF FlightInv, LeadersInv, LeaderOK, FuturesInv, ClientPlaces
<1>5. InflightInv' /\ KeysInv'
  BY <1>1, <1>2 DEF FlightInv, InflightInv, KeysInv
<1> QED BY <1>3, <1>4, <1>5 DEF FlightInv

LEMMA LeaveFlightInv ==
    ASSUME TypeOK, FlightInv, NEW t \in Threads, Leave(t)
    PROVE  FlightInv'
<1>1. \A u \in Threads : /\ at'[u] = IF u = t THEN "idle" ELSE at[u]
                         /\ u # t => /\ key'[u] = key[u] /\ attempt'[u] = attempt[u]
                                     /\ future'[u] = future[u] /\ spec'[u] = spec[u]
                                     /\ answer'[u] = answer[u]
  BY DEF Leave, GoTo, TypeOK
<1>2. UNCHANGED <<wants, leading, futures, inflight, schema, schemaKey, fresh>> /\ at[t] = "served"
  BY DEF Leave, openApi
<1>3. LeadersInv'
  BY <1>1, <1>2 DEF FlightInv, LeadersInv, LeaderOK, ClientPlaces
<1>4. FuturesInv'
  BY <1>1, <1>2 DEF FlightInv, LeadersInv, LeaderOK, FuturesInv, ClientPlaces
<1>5. InflightInv' /\ KeysInv'
  BY <1>1, <1>2 DEF FlightInv, InflightInv, KeysInv
<1> QED BY <1>3, <1>4, <1>5 DEF FlightInv

LEMMA ServeFlightInv ==
    ASSUME TypeOK, FlightInv, NEW t \in Threads, Serve(t) \/ Follow(t)
    PROVE  FlightInv'
<1>1. PICK r \in Contents : /\ answer' = [answer EXCEPT ![t] = r]
                            /\ r = Raised \/ Own(r, key[t])
  <2>1. CASE Serve(t)
    BY <2>1 DEF Serve, Usable, FlightInv, KeysInv, TypeOK
  <2>2. CASE Follow(t)
    <3>1. future[t] \in 1..Len(futures) /\ futures[future[t]].key = key[t]
      BY <2>2 DEF Follow, FlightInv, FuturesInv
    <3>2. futures[future[t]] \in [key : Configs, result : Contents]
      BY <3>1, ElementOfSeq DEF TypeOK
    <3> QED BY <2>2, <3>1, <3>2 DEF Follow, FlightInv, InflightInv
  <2> QED BY <2>1, <2>2
<1>2. \A u \in Threads : /\ at'[u] = IF u = t THEN "served" ELSE at[u]
                         /\ answer'[u] = IF u = t THEN r ELSE answer[u]
  BY <1>1 DEF Serve, Follow, GoTo, TypeOK
<1>3. /\ UNCHANGED <<wants, key, leading, attempt, future, spec, futures, inflight,
                     schema, schemaKey, fresh>>
      /\ at[t] \in {"lookup", "waiting"}
  BY DEF Serve, Follow, openApi
<1>4. LeadersInv'
  BY <1>2, <1>3 DEF FlightInv, LeadersInv, LeaderOK, ClientPlaces
<1>5. FuturesInv'
  BY <1>2, <1>3 DEF FlightInv, LeadersInv, LeaderOK, FuturesInv, ClientPlaces
<1>6. InflightInv' /\ KeysInv'
  BY <1>1, <1>2, <1>3 DEF FlightInv, InflightInv, KeysInv
<1> QED BY <1>4, <1>5, <1>6 DEF FlightInv

LEMMA JoinFlightInv ==
    ASSUME TypeOK, FlightInv, NEW t \in Threads, Join(t)
    PROVE  FlightInv'
<1>1. \A u \in Threads : /\ at'[u] = IF u = t THEN "waiting" ELSE at[u]
                         /\ future'[u] = IF u = t THEN inflight[key[t]] ELSE future[u]
  BY DEF Join, GoTo, TypeOK
<1>2. /\ UNCHANGED <<wants, key, leading, attempt, spec, answer, futures, inflight>>
      /\ at[t] = "lookup" /\ key[t] \in Configs /\ inflight[key[t]] # NoFuture
  BY DEF Join, FlightInv, FuturesInv
<1>3. /\ inflight[key[t]] \in 1..Len(futures) /\ futures[inflight[key[t]]].key = key[t]
  BY <1>2 DEF FlightInv, InflightInv, TypeOK, NoFuture
<1>4. schema' # NoSchema => Own(schema', schemaKey')
  BY DEF Join, Discard, FlightInv, KeysInv
<1>5. LeadersInv'
  BY <1>1, <1>2 DEF FlightInv, LeadersInv, LeaderOK, ClientPlaces
<1>6. FuturesInv'
  BY <1>1, <1>2, <1>3 DEF FlightInv, LeadersInv, LeaderOK, FuturesInv, ClientPlaces
<1>7. InflightInv' /\ KeysInv'
  BY <1>1, <1>2, <1>4 DEF FlightInv, InflightInv, KeysInv
<1> QED BY <1>5, <1>6, <1>7 DEF FlightInv

(* There was no Future in flight for the key, so the new one is the only    *)
(* one of it without a result.                                              *)
LEMMA LeadFlightInv ==
    ASSUME TypeOK, FlightInv, NEW t \in Threads, Lead(t)
    PROVE  FlightInv'
<1> DEFINE n == Len(futures)
<1>1. /\ at[t] = "lookup" /\ key[t] \in Configs /\ inflight[key[t]] = NoFuture
      /\ n \in Nat /\ NoFuture = 0
  BY DEF Lead, FlightInv, FuturesInv, TypeOK, NoFuture
<1>2. /\ Len(futures') = n + 1
      /\ \A i \in 1..n : futures'[i] = futures[i]
      /\ futures'[n + 1].key = key[t] /\ futures'[n + 1].result = Pending
  BY DEF Lead, TypeOK
<1>3. \A u \in Threads : /\ at'[u] = IF u = t THEN "fetch" ELSE at[u]
                         /\ future'[u] = IF u = t THEN n + 1 ELSE future[u]
                         /\ attempt'[u] = IF u = t THEN V2 ELSE attempt[u]
  BY DEF Lead, GoTo, TypeOK
<1>4. /\ \A k \in Configs : inflight'[k] = IF k = key[t] THEN n + 1 ELSE inflight[k]
      /\ \A k \in Configs : inflight[k] \in 0..n
  BY DEF Lead, TypeOK
<1>5. /\ UNCHANGED <<wants, key, spec, answer>> /\ leading' = leading \cup {t}
      /\ V2 < Complete
  BY OpenApiAssumption DEF Lead, V2, Index, Complete
<1>6. LeadersInv'
  BY <1>1, <1>3, <1>5 DEF FlightInv, LeadersInv, LeaderOK, ClientPlaces
<1>7. FuturesInv'
  <2> SUFFICES ASSUME NEW u \in Threads
               PROVE  /\ at'[u] = "lookup" => key[u] \in Configs
                      /\ u \in leading' \/ at'[u] = "waiting" =>
                            /\ key[u] \in Configs
                            /\ future'[u] \in 1..(n + 1)
                            /\ futures'[future'[u]].key = key[u]
                      /\ at'[u] = "retiring" => futures'[future'[u]].result # Pending
    BY <1>2, <1>5 DEF FuturesInv
  <2>1. CASE u = t
    BY <1>1, <1>2, <1>3, <2>1
  <2>2. CASE u # t
    <3>1. u \in leading \/ at[u] = "waiting" =>
              key[u] \in Configs /\ future[u] \in 1..n /\ futures[future[u]].key = key[u]
      BY DEF FlightInv, FuturesInv
    <3>2. at[u] = "retiring" => u \in leading /\ futures[future[u]].result # Pending
      BY DEF FlightInv, FuturesInv, LeadersInv, LeaderOK
    <3>3. at[u] = "lookup" => key[u] \in Configs
      BY DEF FlightInv, FuturesInv
    <3> QED BY <1>1, <1>2, <1>3, <1>5, <2>2, <3>1, <3>2, <3>3
  <2> QED BY <2>1, <2>2
<1>8. InflightInv'
  <2>1. ASSUME NEW i \in 1..(n + 1)
        PROVE  /\ futures'[i].result = Pending => inflight'[futures'[i].key] = i
               /\ futures'[i].result \in {Pending, Raised}
                     \/ Own(futures'[i].result, futures'[i].key)
    <3>1. CASE i = n + 1
      BY <1>1, <1>2, <1>4, <3>1
    <3>2. CASE i # n + 1
      <4>1. i \in 1..n /\ futures'[i] = futures[i]
        BY <1>1, <1>2, <3>2
      <4>2. futures[i].key \in Configs
        BY <4>1, FutureKeys
      <4>3. futures[i].result = Pending => inflight[futures[i].key] = i
        BY <4>1 DEF FlightInv, InflightInv
      <4>4. futures[i].result = Pending => futures[i].key # key[t]
        BY <1>1, <4>1, <4>3
      <4> QED BY <1>4, <4>1, <4>2, <4>3, <4>4 DEF FlightInv, InflightInv
    <3> QED BY <3>1, <3>2
  <2>2. ASSUME NEW k \in Configs, inflight'[k] # NoFuture
        PROVE  futures'[inflight'[k]].key = k
    BY <1>1, <1>2, <1>4, <2>2 DEF FlightInv, InflightInv
  <2> QED BY <1>2, <2>1, <2>2 DEF InflightInv
<1>9. KeysInv'
  <2>1. schema' # NoSchema => Own(schema', schemaKey')
    BY DEF Lead, Discard, FlightInv, KeysInv
  <2> QED BY <1>3, <1>5, <2>1 DEF FlightInv, KeysInv
<1> QED BY <1>6, <1>7, <1>8, <1>9 DEF FlightInv

LEMMA MergeFlightInv ==
    ASSUME TypeOK, FlightInv, NEW t \in Threads, wants[t] = "schema",
           NEW clusters \in SUBSET Configs, NEW next \in V2..Complete, Merge(t, clusters, next),
           t \notin moved => spec[t].of \cup clusters \subseteq {key[t]}
    PROVE  FlightInv'
<1> DEFINE p == IF next = Complete THEN "storing" ELSE "fetch"
<1>1. \A u \in Threads :
          /\ at'[u] = IF u = t THEN p ELSE at[u]
          /\ wants'[u] = IF u = t THEN "api" ELSE wants[u]
          /\ attempt'[u] = IF u = t THEN next ELSE attempt[u]
          /\ u # t => spec'[u] = spec[u]
  BY DEF Merge, LetGo, GoTo, TypeOK
<1>2. /\ UNCHANGED <<key, leading, future, answer, futures, inflight, schema, schemaKey, fresh>>
      /\ t \in leading /\ at[t] \in ClientPlaces
  BY DEF Merge, openApi, FlightInv, LeadersInv, LeaderOK
<1>3. spec'[t].kind = "schema" /\ Own(spec'[t], key[t])
  <2>1. spec' = [spec EXCEPT ![t] = Result("schema", spec[t].of \cup clusters, key[t], t \in moved)]
    BY DEF Merge
  <2>2. spec'[t] = Result("schema", spec[t].of \cup clusters, key[t], t \in moved)
    BY <2>1 DEF TypeOK
  <2>3. /\ spec'[t].kind = "schema" /\ spec'[t].under = key[t]
        /\ spec'[t].of = spec[t].of \cup clusters
    BY <2>2 DEF Result
  <2>4. spec'[t].late = (t \in moved)
    BY <2>2 DEF Result
  <2>5. ~spec'[t].late => t \notin moved
    BY <2>4
  <2> QED BY <2>3, <2>5 DEF Own
<1>4. next = Complete \/ next < Complete
  BY OpenApiAssumption DEF V2, Index, Complete
<1>5. LeadersInv'
  BY <1>1, <1>2, <1>4 DEF FlightInv, LeadersInv, LeaderOK, ClientPlaces
<1>6. FuturesInv'
  BY <1>1, <1>2 DEF FlightInv, FuturesInv, ClientPlaces
<1>7. InflightInv' /\ KeysInv'
  BY <1>1, <1>2, <1>3 DEF FlightInv, InflightInv, KeysInv, ClientPlaces
<1> QED BY <1>5, <1>6, <1>7 DEF FlightInv

(* The Future of a leader gets a result of its own configuration.           *)
LEMMA FillInflightInv ==
    ASSUME TypeOK, FlightInv, NEW t \in Threads, t \in leading, NEW r \in Contents,
           r # Pending, r = Raised \/ Own(r, key[t]),
           futures' = [futures EXCEPT ![future[t]].result = r], UNCHANGED inflight
    PROVE  /\ InflightInv'
           /\ future[t] \in 1..Len(futures) /\ Len(futures') = Len(futures)
           /\ \A i \in 1..Len(futures) : /\ futures'[i].key = futures[i].key
                                         /\ futures[i].result # Pending =>
                                               futures'[i].result # Pending
           /\ futures'[future[t]].result # Pending
<1>1. future[t] \in 1..Len(futures) /\ futures[future[t]].key = key[t]
  BY DEF FlightInv, FuturesInv
<1>2. /\ Len(futures') = Len(futures)
      /\ \A j \in 1..Len(futures) :
            /\ futures'[j].key = futures[j].key
            /\ futures'[j].result = IF j = future[t] THEN r ELSE futures[j].result
  BY <1>1, FillFuture
<1>3. \A k \in Configs : inflight[k] # NoFuture => inflight[k] \in 1..Len(futures)
  BY DEF TypeOK, NoFuture
<1>4. InflightInv'
  BY <1>1, <1>2, <1>3 DEF FlightInv, InflightInv
<1> QED BY <1>1, <1>2, <1>4

LEMMA RaiseFlightInv ==
    ASSUME TypeOK, FlightInv, NEW t \in Threads, Raise(t)
    PROVE  FlightInv'
<1>1. \A u \in Threads :
          /\ at'[u] = IF u = t THEN "retiring" ELSE at[u]
          /\ wants'[u] = IF u = t THEN "api" ELSE wants[u]
          /\ answer'[u] = IF u = t THEN Raised ELSE answer[u]
  BY DEF Raise, LetGo, GoTo, TypeOK
<1>2. /\ UNCHANGED <<key, leading, attempt, future, spec, inflight, schema, schemaKey, fresh>>
      /\ t \in leading /\ at[t] \in ClientPlaces
      /\ futures' = [futures EXCEPT ![future[t]].result = Raised]
  BY DEF Raise, FlightInv, LeadersInv, LeaderOK
<1>3. /\ InflightInv'
      /\ future[t] \in 1..Len(futures) /\ Len(futures') = Len(futures)
      /\ \A i \in 1..Len(futures) : /\ futures'[i].key = futures[i].key
                                    /\ futures[i].result # Pending => futures'[i].result # Pending
      /\ futures'[future[t]].result # Pending
  BY <1>2, ContentsType, FillInflightInv
<1>4. LeadersInv'
  BY <1>1, <1>2 DEF FlightInv, LeadersInv, LeaderOK, ClientPlaces
<1>5. FuturesInv'
  BY <1>1, <1>2, <1>3 DEF FlightInv, LeadersInv, LeaderOK, FuturesInv, ClientPlaces
<1>6. KeysInv'
  BY <1>1, <1>2 DEF FlightInv, KeysInv, ClientPlaces
<1> QED BY <1>3, <1>4, <1>5, <1>6 DEF FlightInv

LEMMA StoreFlightInv ==
    ASSUME TypeOK, FlightInv, NEW t \in Threads, Store(t)
    PROVE  FlightInv'
<1>1. \A u \in Threads : at'[u] = IF u = t THEN "announcing" ELSE at[u]
  BY DEF Store, GoTo, TypeOK
<1>2. /\ UNCHANGED <<wants, key, leading, attempt, future, spec, answer, futures, inflight>>
      /\ at[t] = "storing" /\ spec[t].kind = "schema" /\ Own(spec[t], key[t])
  BY DEF Store, flight, FlightInv, KeysInv
<1>3. schema' # NoSchema => Own(schema', schemaKey')
  BY <1>2 DEF Store
<1>4. LeadersInv'
  BY <1>1, <1>2 DEF FlightInv, LeadersInv, LeaderOK, ClientPlaces
<1>5. FuturesInv'
  BY <1>1, <1>2 DEF FlightInv, FuturesInv
<1>6. InflightInv' /\ KeysInv'
  BY <1>1, <1>2, <1>3 DEF FlightInv, InflightInv, KeysInv
<1> QED BY <1>4, <1>5, <1>6 DEF FlightInv

LEMMA AnnounceFlightInv ==
    ASSUME TypeOK, FlightInv, NEW t \in Threads, Announce(t)
    PROVE  FlightInv'
<1>1. \A u \in Threads :
          /\ at'[u] = IF u = t THEN "retiring" ELSE at[u]
          /\ answer'[u] = IF u = t THEN spec[t] ELSE answer[u]
  BY DEF Announce, GoTo, TypeOK
<1>2. /\ UNCHANGED <<wants, key, leading, attempt, future, spec, inflight, schema, schemaKey, fresh>>
      /\ t \in leading /\ at[t] = "announcing"
      /\ futures' = [futures EXCEPT ![future[t]].result = spec[t]]
      /\ spec[t] \in Contents /\ spec[t].kind = "schema" /\ Own(spec[t], key[t])
  BY DEF Announce, FlightInv, LeadersInv, LeaderOK, KeysInv, TypeOK
<1>3. /\ InflightInv'
      /\ future[t] \in 1..Len(futures) /\ Len(futures') = Len(futures)
      /\ \A i \in 1..Len(futures) : /\ futures'[i].key = futures[i].key
                                    /\ futures[i].result # Pending => futures'[i].result # Pending
      /\ futures'[future[t]].result # Pending
  BY <1>2, ContentsType, FillInflightInv
<1>4. LeadersInv'
  BY <1>1, <1>2 DEF FlightInv, LeadersInv, LeaderOK, ClientPlaces
<1>5. FuturesInv'
  BY <1>1, <1>2, <1>3 DEF FlightInv, LeadersInv, LeaderOK, FuturesInv, ClientPlaces
<1>6. KeysInv'
  BY <1>1, <1>2 DEF FlightInv, KeysInv
<1> QED BY <1>3, <1>4, <1>5, <1>6 DEF FlightInv

(* The Future that is taken off the table has its result.                   *)
LEMMA RetireFlightInv ==
    ASSUME TypeOK, FlightInv, NEW t \in Threads, Retire(t)
    PROVE  FlightInv'
<1>1. \A u \in Threads : at'[u] = IF u = t THEN "served" ELSE at[u]
  BY DEF Retire, GoTo, TypeOK
<1>2. /\ UNCHANGED <<wants, key, attempt, future, spec, answer, futures, schema, schemaKey, fresh>>
      /\ leading' = leading \ {t} /\ at[t] = "retiring"
      /\ t \in leading /\ futures[future[t]].result # Pending
  BY DEF Retire, FlightInv, LeadersInv, LeaderOK, FuturesInv
<1>3. \A k \in Configs : \/ inflight'[k] = inflight[k]
                         \/ inflight'[k] = NoFuture /\ inflight[k] = future[t]
  BY DEF Retire, TypeOK
<1>4. InflightInv'
  <2>1. ASSUME NEW i \in 1..Len(futures), futures[i].result = Pending
        PROVE  inflight'[futures[i].key] = i
    <3>1. futures[i].key \in Configs
      BY FutureKeys
    <3>2. inflight[futures[i].key] = i
      BY <2>1 DEF FlightInv, InflightInv
    <3> QED BY <1>2, <1>3, <2>1, <3>1, <3>2
  <2>2. \A k \in Configs : inflight'[k] # NoFuture => futures[inflight'[k]].key = k
    BY <1>3 DEF FlightInv, InflightInv
  <2> QED BY <1>2, <2>1, <2>2 DEF FlightInv, InflightInv
<1>5. LeadersInv'
  BY <1>1, <1>2 DEF FlightInv, LeadersInv, LeaderOK, ClientPlaces
<1>6. FuturesInv'
  BY <1>1, <1>2 DEF FlightInv, FuturesInv
<1>7. KeysInv'
  BY <1>1, <1>2 DEF FlightInv, KeysInv
<1> QED BY <1>4, <1>5, <1>6, <1>7 DEF FlightInv

LEMMA FetchFlightInv ==
    ASSUME TypeOK, ClientInv, FlightInv, SteadyInv, NEW t \in Threads,
           Respond(t) \/ RequestFails(t)
    PROVE  /\ FlightInv'
           /\ wants[t] = "schema"
           /\ \E clusters \in SUBSET Configs, next \in V2..Complete :
                 /\ Merge(t, clusters, next)
                 /\ t \notin moved => spec[t].of \cup clusters \subseteq {key[t]}
<1>0. /\ V2 = 0 /\ Index = 1 /\ Complete = Documents + 2 /\ Documents \in Nat \ {0}
      /\ attempt[t] \in V2..Complete
  BY OpenApiAssumption DEF V2, Index, Complete, TypeOK
<1>1. wants[t] = "schema" /\ attempt[t] < Complete
  BY DEF Respond, RequestFails, FlightInv, LeadersInv, LeaderOK, ClientPlaces
<1>2. at[t] = "using" =>
         /\ {built[client[t]]} \in SUBSET Configs
         /\ t \notin moved => built[client[t]] = key[t]
  <2>1. key[t] \in Configs
    BY <1>1 DEF FlightInv, LeadersInv, LeaderOK, FuturesInv
  <2> QED BY <1>1, <2>1, UsedClient, ClientAssumption
       DEF ClientInv, HandsInv, SteadyInv, SteadyOK, NoKey
<1>3. t \notin moved => spec[t].of \subseteq {key[t]}
  BY DEF SteadyInv, SteadyOK
<1>4. PICK clusters \in SUBSET Configs, next \in V2..Complete :
        /\ Merge(t, clusters, next)
        /\ t \notin moved => spec[t].of \cup clusters \subseteq {key[t]}
  <2>1. {} \in SUBSET Configs /\ Complete \in V2..Complete /\ attempt[t] + 1 \in V2..Complete
    BY <1>0, <1>1
  <2>2. CASE Respond(t)
    BY <1>2, <1>3, <2>1, <2>2 DEF Respond
  <2>3. CASE RequestFails(t)
    BY <1>3, <2>1, <2>3 DEF RequestFails
  <2> QED BY <2>2, <2>3
<1> QED BY <1>1, <1>4, MergeFlightInv

LEMMA NextFlightInv ==
    ASSUME IInv, [Next]_vars
    PROVE  FlightInv'
<1> USE DEF IInv
<1>1. ASSUME NEW t \in Threads, Work(t) PROVE FlightInv'
  <2>1. CASE (Obtain(t) \/ Done(t)) /\ UNCHANGED <<flight, openApi>>
    BY <2>1, ClientStepFlightInv DEF ClientInv
  <2>2. CASE Request(t)
    BY <2>2, ClientStepFlightInv DEF ClientInv, Request
  <2> QED BY <1>1, <2>1, <2>2, ServeFlightInv, JoinFlightInv, LeadFlightInv, FetchFlightInv,
             RaiseFlightInv, StoreFlightInv, AnnounceFlightInv, RetireFlightInv, LeaveFlightInv
          DEF Work, Lookup, Fetch, Publish
<1>2. ASSUME NEW t \in Threads, AskSchema(t) PROVE FlightInv'
  BY <1>2, AskSchemaFlightInv
<1>3. ASSUME NEW t \in Threads, Ask(t), UNCHANGED <<flight, openApi>> PROVE FlightInv'
  BY <1>3, ClientStepFlightInv DEF ClientInv
<1>4. CASE UNCHANGED <<at, wants, key, leading, attempt, future, spec, answer, futures,
                      inflight, schema, schemaKey>>
  BY <1>4 DEF FlightInv, LeadersInv, LeaderOK, FuturesInv, InflightInv, KeysInv
<1>5. ASSUME NEW k \in Configs, Reconfigure(k) PROVE FlightInv'
  BY <1>4, <1>5 DEF Reconfigure, Switch, openApi
<1> QED BY <1>1, <1>2, <1>3, <1>4, <1>5 DEF Next, Expire, vars, clientVars, flight, openApi

-----------------------------------------------------------------------------
(* Whose configuration it is.                                              *)

LEMMA SteadyKept ==
    ASSUME NEW u \in Threads, SteadyOK(u), settings' = settings,
           at'[u] = at[u], wants'[u] = wants[u], mine'[u] = mine[u], key'[u] = key[u],
           spec'[u] = spec[u], u \notin moved' => u \notin moved
    PROVE  SteadyOK(u)'
BY DEF SteadyOK

(* A thread of explain_resource that steps with a client in its hands is    *)
(* asking for one of its own configuration.                                 *)
LEMMA ClientStepSteady ==
    ASSUME TypeOK, HandsInv, SteadyInv, NEW t \in Threads, UNCHANGED flight,
           Obtain(t) \/ Done(t) \/ Ask(t)
    PROVE  SteadyInv'
<1>1. UNCHANGED <<key, spec, moved, settings>>
  BY DEF flight, Obtain, ReuseClient, ReplaceClient, BuildFails, ClosePrevious, LockDynamic, Done,
         Ask, Enter, environment
<1>2. ASSUME NEW u \in Threads, u # t PROVE SteadyOK(u)'
  <2>1. at'[u] = at[u] /\ wants'[u] = wants[u] /\ mine'[u] = mine[u]
    BY <1>2 DEF TypeOK, Obtain, ReuseClient, ReplaceClient, BuildFails, ClosePrevious, LockDynamic,
           Done, Ask, Enter, LetGo, GoTo
  <2> QED BY <1>1, <1>2, <2>1, SteadyKept DEF SteadyInv
<1>3. SteadyOK(t)'
  <2>1. CASE key[t] = NoKey
    BY <1>1, <2>1 DEF SteadyInv, SteadyOK
  <2>2. CASE key[t] # NoKey
    <3>1. at[t] # "idle" /\ (at[t] \in ClientPlaces => wants[t] = "schema")
      BY <2>2 DEF SteadyInv, SteadyOK
    <3>2. ReuseClient(t) \/ ReplaceClient(t) \/ ClosePrevious(t)
      BY <3>1 DEF Obtain, BuildFails, LockDynamic, Done, Ask, HandsInv, ClientPlaces
    <3>3. at'[t] # "idle" /\ UNCHANGED <<wants, mine>> /\ wants[t] = "schema"
      BY <3>1, <3>2 DEF ReuseClient, ReplaceClient, ClosePrevious, GoTo, TypeOK, ClientPlaces
    <3> QED BY <1>1, <2>2, <3>3 DEF SteadyInv, SteadyOK
  <2> QED BY <2>1, <2>2
<1> QED BY <1>2, <1>3 DEF SteadyInv

LEMMA FetchSteady ==
    ASSUME IInv, NEW t \in Threads, Fetch(t)
    PROVE  SteadyInv'
<1> USE DEF IInv
<1>1. t \in leading /\ key[t] \in Configs /\ key[t] # NoKey
  <2>1. t \in leading
    BY DEF Fetch, Request, Respond, RequestFails, Raise, FlightInv, LeadersInv, LeaderOK
  <2> QED BY <2>1, ClientAssumption DEF FlightInv, FuturesInv, NoKey
<1>2. CASE Request(t)
  <2>1. /\ at' = [at EXCEPT ![t] = "api"] /\ wants' = [wants EXCEPT ![t] = "schema"]
        /\ mine' = [mine EXCEPT ![t] = settings] /\ UNCHANGED <<key, spec, moved, settings>>
    BY <1>2 DEF Request, Enter, GoTo, flight, environment
  <2>2. ASSUME NEW u \in Threads, u # t PROVE SteadyOK(u)'
    BY <2>1, <2>2, SteadyKept DEF SteadyInv, TypeOK
  <2>3. SteadyOK(t)'
    BY <1>1, <2>1 DEF SteadyInv, SteadyOK, TypeOK
  <2> QED BY <2>2, <2>3 DEF SteadyInv
<1>3. ASSUME NEW p \in {"fetch", "storing", "retiring"}, NEW of \in SUBSET Configs, LetGo(t, p),
             UNCHANGED <<environment, key, moved>>,
             \A u \in Threads \ {t} : spec'[u] = spec[u],
             spec'[t].of = of, t \notin moved => of \subseteq {key[t]}
      PROVE  SteadyInv'
  <2>1. /\ at' = [at EXCEPT ![t] = p] /\ wants' = [wants EXCEPT ![t] = "api"]
        /\ mine' = [mine EXCEPT ![t] = NoConfig] /\ UNCHANGED <<key, moved, settings>>
    BY <1>3 DEF LetGo, GoTo, environment
  <2>2. ASSUME NEW u \in Threads, u # t PROVE SteadyOK(u)'
    BY <1>3, <2>1, <2>2, SteadyKept DEF SteadyInv, TypeOK
  <2>3. SteadyOK(t)'
    BY <1>1, <1>3, <2>1 DEF SteadyInv, SteadyOK, TypeOK, ClientPlaces
  <2> QED BY <2>2, <2>3 DEF SteadyInv
<1>4. spec[t].of \in SUBSET Configs /\ (t \notin moved => spec[t].of \subseteq {key[t]})
  BY <1>1 DEF TypeOK, Contents, SteadyInv, SteadyOK
<1>5. CASE Respond(t) \/ RequestFails(t)
  <2>1. PICK clusters \in SUBSET Configs, next \in V2..Complete :
          /\ Merge(t, clusters, next)
          /\ t \notin moved => spec[t].of \cup clusters \subseteq {key[t]}
    BY <1>5, FetchFlightInv
  <2>2. /\ \A u \in Threads \ {t} : spec'[u] = spec[u]
        /\ spec'[t].of = spec[t].of \cup clusters
    BY <2>1 DEF Merge, Result, TypeOK
  <2>3. PICK p \in {"fetch", "storing"} : LetGo(t, p)
    BY <2>1 DEF Merge
  <2>4. UNCHANGED <<environment, key, moved>> /\ spec[t].of \cup clusters \in SUBSET Configs
    BY <1>4, <2>1 DEF Merge
  <2> QED BY <1>3, <2>1, <2>2, <2>3, <2>4
<1>6. CASE Raise(t)
  BY <1>3, <1>4, <1>6 DEF Raise
<1> QED BY <1>2, <1>5, <1>6 DEF Fetch

LEMMA NextSteadyInv ==
    ASSUME IInv, [Next]_vars
    PROVE  SteadyInv'
<1> USE DEF IInv
<1>1. ASSUME NEW t \in Threads, Lookup(t) \/ Follow(t) \/ Publish(t) PROVE SteadyInv'
  <2>1. PICK p \in AllPlaces \ ({"idle"} \cup ClientPlaces) : at' = [at EXCEPT ![t] = p]
    BY <1>1 DEF Lookup, Serve, Join, Lead, Follow, Publish, Store, Announce, Retire, GoTo,
                AllPlaces, ClientPlaces, Places
  <2>2. UNCHANGED <<settings, wants, mine, key, spec, moved>>
    BY <1>1 DEF Lookup, Serve, Join, Lead, Follow, Publish, Store, Announce, Retire, environment,
                inHand, flight
  <2> QED BY <2>1, <2>2 DEF SteadyInv, SteadyOK, TypeOK
<1>2. ASSUME NEW t \in Threads, Leave(t) PROVE SteadyInv'
  <2>1. /\ at' = [at EXCEPT ![t] = "idle"] /\ key' = [key EXCEPT ![t] = NoKey]
        /\ spec' = [spec EXCEPT ![t] = NoSchema] /\ moved' = moved \ {t} /\ NoSchema.of = {}
        /\ UNCHANGED <<settings, wants, mine>>
    BY <1>2 DEF Leave, GoTo, environment, inHand, NoSchema, Result
  <2>2. ASSUME NEW u \in Threads, u # t PROVE SteadyOK(u)'
    BY <2>1, <2>2, SteadyKept DEF SteadyInv, TypeOK
  <2>3. SteadyOK(t)'
    BY <2>1 DEF SteadyOK, TypeOK
  <2> QED BY <2>2, <2>3 DEF SteadyInv
<1>3. ASSUME NEW t \in Threads, AskSchema(t) PROVE SteadyInv'
  <2>1. /\ at' = [at EXCEPT ![t] = "lookup"] /\ key' = [key EXCEPT ![t] = settings]
        /\ UNCHANGED <<settings, wants, mine, spec, moved>>
    BY <1>3 DEF AskSchema, GoTo, environment, inHand
  <2>2. ASSUME NEW u \in Threads, u # t PROVE SteadyOK(u)'
    BY <2>1, <2>2, SteadyKept DEF SteadyInv, TypeOK
  <2>3. at[t] = "idle" /\ wants[t] # "schema" /\ spec[t].of = {}
    BY <1>3 DEF AskSchema, FlightInv, LeadersInv, LeaderOK, SteadyInv, SteadyOK, ClientPlaces
  <2>4. SteadyOK(t)'
    BY <2>1, <2>3, ClientAssumption DEF SteadyOK, TypeOK, ClientPlaces, NoKey
  <2> QED BY <2>2, <2>4 DEF SteadyInv
<1>4. ASSUME NEW k \in Configs, Reconfigure(k) PROVE SteadyInv'
  BY <1>4 DEF Reconfigure, Switch, inHand, SteadyInv, SteadyOK
<1>5. CASE UNCHANGED <<settings, at, wants, mine, key, spec, moved>>
  BY <1>5 DEF SteadyInv, SteadyOK
<1>6. ASSUME NEW t \in Threads, Work(t) PROVE SteadyInv'
  BY <1>1, <1>2, <1>6, ClientStepSteady, FetchSteady DEF Work, ClientInv
<1>7. ASSUME NEW t \in Threads, Ask(t), UNCHANGED <<flight, openApi>> PROVE SteadyInv'
  BY <1>7, ClientStepSteady DEF ClientInv
<1>8. CASE Expire \/ UNCHANGED vars
  BY <1>5, <1>8 DEF Expire, vars, clientVars, environment, inHand, flight
<1> QED BY <1>3, <1>4, <1>6, <1>7, <1>8 DEF Next

-----------------------------------------------------------------------------
(* The theorems.                                                           *)

LEMMA NextIInv == IInv /\ [Next]_vars => IInv'
BY NextType, NextClientInv, NextFlightInv, NextSteadyInv DEF IInv

LEMMA SpecIInv == Spec => []IInv
BY InitIInv, NextIInv, PTL DEF Spec

(* Every variable keeps its type, every number of a client or Future names  *)
(* one that was made, and the three globals of the schema cache are set and *)
(* cleared together (client.py, discovery.py).                              *)
THEOREM TypeCorrect == Spec => []TypeOK
<1>1. IInv => TypeOK
  BY DEF IInv
<1> QED BY <1>1, SpecIInv, PTL

(* No connection pool leaks or is closed under the cache: every ApiClient   *)
(* that was replaced is closed, or about to be by exactly one thread, and   *)
(* the cached one is open (client.py:186-200).                              *)
THEOREM ClientsAreAccountedFor == Spec => []ClientsAccountedFor
<1>1. IInv => ClientsAccountedFor
  <2> SUFFICES ASSUME IInv PROVE ClientsAccountedFor
    OBVIOUS
  <2>0. /\ Len(built) \in Nat /\ cachedClient = Len(built) /\ cachedClient \notin closed
        /\ IsFiniteSet(Threads)
    BY ClientAssumption DEF IInv, ClientInv, CachesInv, TypeOK
  <2>1. ASSUME NEW i \in Clients \ {cachedClient}
        PROVE  Cardinality({t \in Threads : previous[t] = i}) = IF i \in closed THEN 0 ELSE 1
    <3>1. i \in 1..(Len(built) - 1) /\ i # NoClient
      BY <2>0, <2>1 DEF Clients, NoClient
    <3>2. CASE i \in closed
      <4>1. {t \in Threads : previous[t] = i} = {}
        BY <3>1, <3>2 DEF IInv, ClientInv, PredecessorsInv
      <4> QED BY <3>2, <4>1, FS_EmptySet
    <3>3. CASE i \notin closed
      <4>1. PICK u \in Threads : previous[u] = i
        BY <3>1, <3>3 DEF IInv, ClientInv, PredecessorsInv
      <4>2. {t \in Threads : previous[t] = i} = {u}
        BY <3>1, <4>1 DEF IInv, ClientInv, PredecessorsInv
      <4> QED BY <3>3, <4>2, FS_Singleton
    <3> QED BY <3>2, <3>3
  <2> QED BY <2>0, <2>1 DEF ClientsAccountedFor
<1> QED BY <1>1, SpecIInv, PTL

(* `a rebuilt ApiClient is never paired with a DynamicClient that still     *)
(* points at the closed predecessor` (client.py:213-214), and a thread's    *)
(* clients are of the configuration it asked under, though other threads    *)
(* replace both caches between the two locks.                               *)
THEOREM ClientsStayTogether == Spec => []ClientsBelongTogether
<1>1. IInv => ClientsBelongTogether
  BY DEF IInv, ClientInv, HandsInv, ClientsBelongTogether
<1> QED BY <1>1, SpecIInv, PTL

(* `Concurrent misses fetch once` (docs/architecture.md:87), whatever the   *)
(* number of threads, and also when a fetch raises or the configuration     *)
(* changes while it is under way.                                           *)
THEOREM FetchesAreSingle == Spec => []SingleFlight
<1>1. IInv => SingleFlight
  <2> SUFFICES ASSUME IInv, NEW i \in DOMAIN futures, NEW j \in DOMAIN futures,
                      futures[i].result = Pending, futures[j].result = Pending,
                      futures[i].key = futures[j].key
               PROVE  i = j
    BY DEF SingleFlight
  <2>1. DOMAIN futures = 1..Len(futures)
    BY DEF IInv, TypeOK
  <2> QED BY <2>1 DEF IInv, FlightInv, InflightInv
<1> QED BY <1>1, SpecIInv, PTL

(* explain_resource answers from a schema that was fetched for the          *)
(* configuration it was called under, and from that cluster only, however   *)
(* many threads share the cache and however often they replace it; the one  *)
(* exception is a schema during whose own fetch the configuration changed   *)
(* (discovery.py:161 asks for the current client at each request).          *)
THEOREM AnswersAreTheirOwn == Spec => []ServedOwnSchema
<1>1. IInv => ServedOwnSchema
  BY DEF IInv, FlightInv, KeysInv, ServedOwnSchema
<1> QED BY <1>1, SpecIInv, PTL

(* What is registered as in flight is led by somebody, who is going to take *)
(* it off the table: no configuration is blocked by a fetch nobody makes.   *)
FlightsLed ==
    \A k \in Configs : inflight[k] # NoFuture => \E u \in leading : future[u] = inflight[k]

LEMMA NextFlightsLed ==
    ASSUME IInv, FlightsLed, [Next]_vars
    PROVE  FlightsLed'
<1> USE DEF IInv
<1>1. TypeOK /\ FuturesInv /\ InflightInv
  BY DEF FlightInv
<1>2. \A t \in Threads : at[t] \in {"lookup", "served"} => t \notin leading
  BY DEF FlightInv, LeadersInv, LeaderOK, ClientPlaces
<1>3. CASE UNCHANGED <<leading, future, inflight>>
  BY <1>3 DEF FlightsLed
<1>4. ASSUME NEW t \in Threads, Join(t) \/ Leave(t) PROVE FlightsLed'
  <2>1. t \notin leading /\ UNCHANGED <<leading, inflight>>
    BY <1>2, <1>4 DEF Join, Leave, openApi
  <2>2. \A u \in Threads \ {t} : future'[u] = future[u]
    BY <1>1, <1>4 DEF Join, Leave, TypeOK
  <2>3. leading \subseteq Threads
    BY <1>1 DEF TypeOK
  <2> QED BY <2>1, <2>2, <2>3 DEF FlightsLed
<1>5. ASSUME NEW t \in Threads, Lead(t) PROVE FlightsLed'
  <2>1. /\ t \notin leading /\ leading' = leading \cup {t} /\ leading \subseteq Threads
        /\ inflight' = [inflight EXCEPT ![key[t]] = Len(futures) + 1]
        /\ future' = [future EXCEPT ![t] = Len(futures) + 1]
    BY <1>1, <1>2, <1>5 DEF Lead, TypeOK
  <2>2. /\ \A u \in leading : future'[u] = future[u]
        /\ future'[t] = Len(futures) + 1
        /\ \A k \in Configs : inflight'[k] = inflight[k] \/ inflight'[k] = Len(futures) + 1
    BY <1>1, <2>1 DEF TypeOK
  <2> SUFFICES ASSUME NEW k \in Configs, inflight'[k] # NoFuture
               PROVE  \E u \in leading' : future'[u] = inflight'[k]
    BY DEF FlightsLed
  <2>3. CASE inflight'[k] = inflight[k]
    BY <2>1, <2>2, <2>3 DEF FlightsLed
  <2>4. CASE inflight'[k] = Len(futures) + 1
    BY <2>1, <2>2, <2>4
  <2> QED BY <2>2, <2>3, <2>4
<1>6. ASSUME NEW t \in Threads, Retire(t) PROVE FlightsLed'
  <2>1. /\ leading' = leading \ {t} /\ future' = future /\ at[t] = "retiring"
        /\ inflight' = IF inflight[key[t]] = future[t]
                       THEN [inflight EXCEPT ![key[t]] = NoFuture] ELSE inflight
    BY <1>6 DEF Retire
  <2>2. t \in leading
    BY <2>1 DEF FlightInv, LeadersInv, LeaderOK
  <2>3. key[t] \in Configs /\ futures[future[t]].key = key[t]
    BY <1>1, <2>2 DEF FuturesInv
  <2> SUFFICES ASSUME NEW k \in Configs, inflight'[k] # NoFuture
               PROVE  \E u \in leading' : future'[u] = inflight'[k]
    BY DEF FlightsLed
  <2>4. inflight'[k] = inflight[k]
    BY <1>1, <2>1 DEF TypeOK
  <2>5. PICK u \in leading : future[u] = inflight[k]
    BY <2>4 DEF FlightsLed
  <2>6. u # t
    <3> SUFFICES ASSUME u = t PROVE FALSE
      OBVIOUS
    <3>1. k = key[t]
      BY <1>1, <2>3, <2>4, <2>5 DEF InflightInv
    <3>2. inflight'[k] = NoFuture
      BY <1>1, <2>1, <2>3, <2>5, <3>1 DEF TypeOK
    <3> QED BY <3>2
  <2> QED BY <2>1, <2>4, <2>5, <2>6
<1>7. ASSUME NEW t \in Threads, Work(t) PROVE FlightsLed'
  <2>1. CASE Join(t) \/ Leave(t) \/ Lead(t) \/ Retire(t)
    BY <1>4, <1>5, <1>6, <2>1
  <2>2. CASE ~(Join(t) \/ Leave(t) \/ Lead(t) \/ Retire(t))
    <3>1. UNCHANGED <<leading, future, inflight>>
      BY <1>7, <2>2
         DEF Work, Lookup, Fetch, Publish, Serve, Follow, Request, Respond, RequestFails, Merge,
             Raise, Store, Announce, flight, openApi
    <3> QED BY <1>3, <3>1
  <2> QED BY <2>1, <2>2
<1> QED BY <1>3, <1>7 DEF Next, AskSchema, Reconfigure, Expire, vars, flight, openApi

LEMMA SpecFlightsLed == Spec => []FlightsLed
<1>1. Init => FlightsLed
  BY DEF Init, FlightsLed
<1> QED BY <1>1, NextFlightsLed, SpecIInv, PTL DEF Spec

(* The safety half of `no follower is stranded`: as long as a thread waits, *)
(* another one leads its fetch, with requests left to make or the result in *)
(* its hands.                                                               *)
FollowersAttended ==
    \A t \in Threads : at[t] = "waiting" /\ futures[future[t]].result = Pending =>
        \E u \in leading \ {t} :
            /\ future[u] = future[t]
            /\ \/ at[u] \in {"storing", "announcing"}
               \/ at[u] \in {"fetch"} \cup ClientPlaces /\ attempt[u] < Complete

(* Whoever waits for a Future (discovery.py) has a leader that is on its    *)
(* way, however many threads, changes of configuration and failures there   *)
(* are; with the fairness of threads TLC finds that it arrives.             *)
THEOREM FollowersStayAttended == Spec => []FollowersAttended
<1>1. IInv /\ FlightsLed => FollowersAttended
  <2> SUFFICES ASSUME IInv, FlightsLed, NEW t \in Threads, at[t] = "waiting",
                      futures[future[t]].result = Pending
               PROVE  \E u \in leading \ {t} :
                         /\ future[u] = future[t]
                         /\ \/ at[u] \in {"storing", "announcing"}
                            \/ at[u] \in {"fetch"} \cup ClientPlaces /\ attempt[u] < Complete
    BY DEF FollowersAttended
  <2>1. future[t] \in 1..Len(futures) /\ t \notin leading
    BY DEF IInv, FlightInv, FuturesInv, LeadersInv, LeaderOK, ClientPlaces
  <2>2. /\ inflight[futures[future[t]].key] = future[t]
        /\ futures[future[t]].key \in Configs /\ future[t] # NoFuture
    BY <2>1, FutureKeys DEF IInv, FlightInv, InflightInv, NoFuture
  <2>3. PICK u \in leading : future[u] = future[t]
    BY <2>2 DEF FlightsLed
  <2>4. u \in Threads /\ u # t
    BY <2>1, <2>3 DEF IInv, TypeOK
  <2>5. at[u] # "retiring"
    BY <2>3, <2>4 DEF IInv, FlightInv, FuturesInv
  <2>6. LeaderOK(u)
    BY <2>4 DEF IInv, FlightInv, LeadersInv
  <2> QED BY <2>3, <2>4, <2>5, <2>6 DEF LeaderOK
<1> QED BY <1>1, SpecIInv, SpecFlightsLed, PTL
=============================================================================
