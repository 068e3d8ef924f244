---------------------------- MODULE MCReadTools ----------------------------
(* Inputs of ReadTools for TLC: for each tool the smallest sets in which   *)
(* the cases of its code, and the clashes between them, occur.             *)
EXTENDS ReadTools, TLC

CONSTANTS whole_gpu, slice

AtMost(k, S) ==
    CASE k = 1 -> {{}} \cup {{x} : x \in S}
      [] k = 2 -> {{}} \cup {{x, y} : x, y \in S}
      [] OTHER -> {T \in SUBSET S : Cardinality(T) <= k}
Over(S, V) == UNION {[D -> V] : D \in SUBSET S}

(* Two namespaces, a ClusterRole and two Roles of one name, an account and  *)
(* a user of one name.                                                      *)
Alice == [kind |-> "User", name |-> "alice", ns |-> None]
App == [kind |-> "ServiceAccount", name |-> "app", ns |-> "a"]
AppUser == [kind |-> "User", name |-> "app", ns |-> None]
Resource(name) == [name |-> name, sub |-> None]
LogOf(name) == [name |-> name, sub |-> "log"]
Rule(verbs, resource, groups) ==
    [verbs |-> verbs, resources |-> {resource}, groups |-> groups, names |-> {}]
Pods == Resource("pods")
Everything == Rbac!AllResources
RbacRules == {[Rule({"get"}, Pods, {"core"}) EXCEPT !.names = {"p"}], Rule({"*"}, Pods, {"*"}),
              Rule({"*"}, Everything, {"*"}), Rule({"delete"}, Everything, {"apps"}),
              Rule({"get"}, LogOf("*"), {"core"})}
Role(kind, ns, rule) == [kind |-> kind, ns |-> ns, name |-> "r", rules |-> {rule}]
RbacRoles == {Role(t[1], t[2], rule) :
                 t \in {<<"Role", "a">>, <<"Role", "b">>, <<"ClusterRole", None>>}, rule \in RbacRules}
Binding(kind, ns, refKind, subjects) ==
    [kind |-> kind, ns |-> ns, name |-> "x", refKind |-> refKind, refName |-> "r", subjects |-> subjects]
RbacBindings ==
    {Binding(t[1], t[2], t[3], S) :
        t \in {<<"RoleBinding", "a", "Role">>, <<"RoleBinding", "b", "ClusterRole">>,
               <<"ClusterRoleBinding", None, "ClusterRole">>},
        S \in {{Alice, AppUser}, {App}}}
OnePerPlace(roles) == \A r, s \in roles : r.kind = s.kind /\ r.ns = s.ns => r = s
RbacClusters ==
    {[roles |-> R, bindings |-> B] :
        R \in {R \in AtMost(2, RbacRoles) : OnePerPlace(R)}, B \in AtMost(2, RbacBindings)}
Query(subject, verb, resource, group, ns) ==
    [subject |-> subject, verb |-> verb, resource |-> resource, group |-> group, ns |-> ns]
RbacQueries ==
    {Query(None, "get", Pods, "core", None), Query(None, "delete", Pods, "apps", None),
     Query(None, "get", LogOf("pods"), "core", None), Query(None, "get", Pods, "core", "b"), Query(None, "delete", None, None, None),
     Query([kind |-> None, name |-> "app"], None, None, None, None),
     Query([kind |-> "User", name |-> "app"], None, None, None, None),
     Query(None, None, None, None, "a"), Query(None, None, None, None, None)}

RbacRequests ==
    {[kind |-> k, ns |-> "a", name |-> "r", rules |-> R, allowWildcard |-> w] :
        k \in {"Role", "ClusterRole"}, R \in AtMost(2, RbacRules \cup {Rule({"get"}, Pods, None)}), w \in BOOLEAN}
    \cup {[kind |-> k, ns |-> "a", name |-> "x", refKind |-> r, refName |-> "r", subjects |-> S] :
        k \in {"RoleBinding", "ClusterRoleBinding"}, r \in {"Role", "ClusterRole", "Group"},
        S \in AtMost(2, {Alice, App, [Alice EXCEPT !.ns = "a"], [Alice EXCEPT !.name = None]})}

(* Two labels, selectors with and without an expression.                    *)
SomeLabels == Over({"app", "tier"}, {"db", "web"})
Selectors ==
    {[labels |-> l, exprs |-> {}] : l \in SomeLabels}
    \cup {[labels |-> l, exprs |-> {[key |-> "app", op |-> o, values |-> {"db"}]}] :
             l \in {<<>>, [tier |-> "db"]}, o \in {"In", "NotIn", "Exists", "DoesNotExist"}}
RulesOf(parts) == {None, {}, {parts}, {parts, {"ports"}}}
SomePolicies ==
    {[selector |-> s, types |-> t, rules |-> [Ingress |-> i, Egress |-> e]] :
        s \in Selectors, t \in {{}, {"Egress"}, {"Ingress", "Egress"}},
        i \in {None, {{"from"}}}, e \in {None, {}, {{}}}}
PolicySets ==
    {{}} \cup {{p} : p \in SomePolicies}
    \cup {{p, q} : p \in {p \in SomePolicies : p.types = {} /\ p.rules["Egress"] = {{}}},
                   q \in {p \in SomePolicies : p.types = {"Egress"} /\ p.rules["Ingress"] = None}}
PolicyRequests ==
    [podSelector : SomeLabels \cup {[matchLabels |-> "db"]},
     types : {{}, {"Ingress"}, {"Egress", "Ingress"}, {"Both"}},
     rules : [Ingress : RulesOf({"to"}) \cup {{{}}}, Egress : RulesOf({"to"})]]

(* One or two nodes, whole GPUs and one MIG profile.                        *)
Node(name, whole, slices) ==
    LET offer == [r \in (IF whole > 0 THEN {whole_gpu} ELSE {}) \cup (IF slices > 0 THEN {slice} ELSE {}) |->
                     IF r = whole_gpu THEN whole ELSE slices]
    IN  [name |-> name, capacity |-> offer, allocatable |-> offer,
         labelled |-> FALSE, migLabel |-> FALSE, ready |-> TRUE]
NodeSets == {{}, {Node("n1", 0, 1)}, {Node("n1", 2, 0), Node("n2", 0, 2)},
             {[Node("n1", 1, 1) EXCEPT !.allocatable = <<>>, !.ready = FALSE], Node("n2", 0, 0)}}
Limits == {<<>>, whole_gpu :> 1, slice :> 1, slice :> 2}
GpuPod(name, app, init, phase, node) ==
    [name |-> name, app |-> app, init |-> init, phase |-> phase, node |-> node, labels |-> {"job"}]
SomePods ==
    {GpuPod("p", <<a>>, i, t[1], t[2]) :
        a \in Limits, i \in {<<>>, <<slice :> 1>>},
        t \in {<<"Running", "n1">>, <<"Running", "n2">>, <<"Pending", None>>, <<"Succeeded", "n1">>}}
    \cup {GpuPod("q", <<slice :> 1, a>>, <<>>, "Running", n) : a \in Limits, n \in {"n1", "n2"}}
PodSets == {Failed} \cup AtMost(2, SomePods)
FewPods == {Failed} \cup AtMost(1, SomePods)

Series == [gpu : {"g1", "g2"}, node : {"n1", "elsewhere"}, value : {None, 0, 60}]

(* A view of every section that has nothing to say, and one that has.       *)
Container(restarts, waiting) == [restarts |-> restarts, waiting |-> waiting]
HealthPod(ns, phase, message, cs) == [ns |-> ns, phase |-> phase, message |-> message, containers |-> cs]
HealthPods ==
    {HealthPod(ns, ph, m, {c}) :
        ns \in {"a", "b"}, ph \in {"Running", "Pending", None}, m \in {None, "text"},
        c \in {Container(0, None), Container(5, None), Container(0, "ErrImagePull"),
               Container(0, "CrashLoopBackOff")}}
Views ==
    [nodes |-> {Failed, {[ready |-> "True"], [ready |-> "Unknown"]}, {[ready |-> None]}},
     usage |-> {[nodes |-> n, pods |-> p] : n, p \in {"ok", "absent", "error"}} \cup {Failed},
     workloads |-> {[Job |-> Failed, CronJob |-> {}]},
     hpa |-> {Failed, {}, {[ns |-> "a", current |-> 1, desired |-> 3, max |-> 2],
                           [ns |-> "a", current |-> 2, desired |-> 1, max |-> 2]}},
     pvs |-> {Failed, {[phase |-> "Bound"], [phase |-> "Released"]}},
     certs |-> {{}, {{[left |-> 59], [left |-> 60]}}},
     warnings |-> {Failed, {}}]
Fine == [nodes |-> {[ready |-> "True"]}, usage |-> [nodes |-> "ok", pods |-> "ok"],
         workloads |-> [Job |-> {}, CronJob |-> {}], hpa |-> {}, pvs |-> {}, certs |-> {},
         warnings |-> {}]
OneOff == UNION {{[Fine EXCEPT ![s] = v] : v \in Views[s]} : s \in DOMAIN Fine}
WithPods(view, f) == [s \in Health!Sections |-> IF s \in Health!PodSections THEN f ELSE view[s]]
HealthInputs ==
    [pods : AtMost(2, HealthPods), view : {WithPods(Fine, {})}, namespaces : {{}, {"a"}}, threshold : {3}]
    \cup [pods : {P \in SUBSET {p \in HealthPods : p.ns = "a" /\ p.phase = "Pending"} : Cardinality(P) = 3},
          view : {WithPods(Fine, {})}, namespaces : {{}}, threshold : {3}]
    \cup [pods : AtMost(1, HealthPods), view : {WithPods(v, Failed) : v \in OneOff},
          namespaces : {{"a"}}, threshold : {3}]
    \cup [pods : {Failed}, namespaces : {{"a"}}, threshold : {3},
          view : {WithPods(v, f) : v \in OneOff, f \in {Failed} \cup {{p} : p \in HealthPods}}]

Certs == {[left |-> l] : l \in {-1, 0, 13, 14, 59, 60}}
CertInputs ==
    [given : AtMost(2, Certs), inCluster : AtMost(1, Certs), wanted : {"", "two"},
     kubeconfig : {Failed, [contexts |-> {[name |-> "one", cluster |-> "c", user |-> "u"],
                                          [name |-> "two", cluster |-> "d", user |-> "u"]},
                            current |-> "one",
                            clusters |-> [c |-> {[left |-> 100]}, d |-> {[left |-> 12]}],
                            users |-> [u |-> {}]]}]

Event == [ns : {"a", "b"}, time : 1..2, type : {"Warning", "Normal"}, object : {"o", "x"}]
EventInputs ==
    [events : AtMost(2, Event) \cup {S \in SUBSET {e \in Event : e.object = "o"} : Cardinality(S) = 3},
     namespace : {None, "a"}, namespaces : {None}, selector : {None, "o"},
     warningOnly : BOOLEAN, limit : 1..2]
    \cup [events : AtMost(2, Event) \cup {S \in SUBSET {e \in Event : e.object = "o"} : Cardinality(S) = 3},
          namespace : {None}, namespaces : {<<>>, <<"a">>, <<"a", "b">>, <<"b", "b">>},
          selector : {None, "o"}, warningOnly : BOOLEAN, limit : 1..2]

Amounts == [number : {1, 2}, suffix : {"none", "gibi"}] \cup {[number |-> 500, suffix |-> "milli"]}
ResourceInputs ==
    [objects : {{[name |-> "o", kind |-> k, owner |-> w, containers |-> {[requests |-> r, limits |-> l]}]} :
                   k \in {"Pod", "Deployment"}, w \in {"none", "Job"},
                   r \in Over({"cpu"}, Amounts), l \in Over({"cpu", "memory"}, Amounts)},
     kind : {"Pod", "Deployment"}, mode : {"missing_requests", "missing_limits", "inconsistent"}]

PodInputs ==
    [phase : {"Running", "Pending"}, scheduled : BOOLEAN, claims : SUBSET {[phase |-> "Bound"], [phase |-> "Lost"]},
     containers : {{[name |-> "c", waiting |-> w, exit |-> e, lastEnd |-> l, restarts |-> n]} :
                      w \in {"no", "CrashLoopBackOff", "ErrImagePull"}, e \in {0, 1},
                      l \in {"never", "Error"}, n \in {0, 2}}]
DeploymentInputs ==
    [deployment : {[selector |-> {}], [selector |-> {"app"}]},
     sets : SUBSET [labels : {{}, {"app"}}, hash : 1..2],
     pods : {None} \cup AtMost(2, [hash : 1..2, phase : {"Running", "Failed"}, crashing : BOOLEAN])]

(* Chains, circles and dead ends over three objects, and one chain that is  *)
(* longer than the walk.                                                    *)
Objects == 1..3
Owners(S) == {[x \in S \cup {None} |-> IF x = None THEN {} ELSE f[x]] :
                 f \in [S -> {{}, {None}} \cup {{x} : x \in S}]}
LongChain == [x \in 1..10 \cup {None} |-> IF x \in 1..9 THEN {x + 1} ELSE {}]
OwnerInputs ==
    {[pod |-> 1, owner |-> f, labels |-> [x \in DOMAIN f \ {None} |-> IF x = 3 THEN {"app"} ELSE {}],
      pods |-> {[name |-> "p", labels |-> {"app"}], [name |-> "q", labels |-> {}]}] :
         f \in Owners(Objects) \cup {LongChain}}

(* A line begins with its pod; the longer ones end in a wide character.     *)
Line(pod, time, hit, size) ==
    [pod |-> pod, time |-> time, hit |-> hit, size |-> size, wide |-> IF size >= 7 THEN 3 ELSE 0]
LogsOf(pod) ==
    {Failed, <<>>, <<Line(pod, 1, TRUE, 7), Line(pod, 2, FALSE, 4)>>,
     <<Line(pod, None, FALSE, 5), Line(pod, 1, FALSE, 9), Line(pod, 3, TRUE, 6)>>}
LogQuery(bySelector, since, until, strict, pattern, context, max, json) ==
    [byName |-> ~bySelector, bySelector |-> bySelector, since |-> since, until |-> until,
     sinceSeconds |-> FALSE, strict |-> strict, pattern |-> pattern, context |-> context,
     maxBytes |-> max, json |-> json]
LogInputs ==
    {q @@ [pods |-> <<"p", "q", "r">>, order |-> o, log |-> [p |-> x, q |-> y, r |-> z]] :
        q \in {LogQuery(TRUE, None, None, FALSE, FALSE, 0, m, j) : m \in {0, 15, 24}, j \in BOOLEAN}
              \cup {LogQuery(TRUE, 2, None, st, TRUE, 1, 100, FALSE) : st \in BOOLEAN},
        o \in {<<1, 2, 3>>, <<3, 1, 2>>},
        x \in LogsOf("p") \cup {None, Broken}, y \in LogsOf("q"), z \in LogsOf("r")}
    \cup {q @@ [pods |-> <<"p">>, order |-> <<1>>, log |-> [p |-> x]] :
        q \in {LogQuery(b, s, u, FALSE, pt, 1, m, FALSE) :
                  b, pt \in BOOLEAN, s \in {None, 2}, u \in {None, 1, 2}, m \in 0..23},
        x \in LogsOf("p") \cup {None, Broken}}

MCInputs ==
    [create_rbac |-> RbacRequests,
     analyze_rbac |-> [cluster : RbacClusters, query : RbacQueries],
     whoami |-> [identity : {None, "sa"}, rules : {None, {}, {"get pods"}}],
     create_networkpolicy |-> PolicyRequests,
     analyze_networkpolicy |->
        [policies : PolicySets, pods : {[x |-> l, y |-> <<>>] : l \in SomeLabels}],
     gpu |-> [nodes : NodeSets, pods : PodSets],
     gpu_workload |-> [workload : [kind : {"Pod", "Job"}, selector : {{}, {"job"}},
                                   template : {p \in SomePods : p.phase = "Running"}], pods : FewPods],
     gpu_diagnose |-> [nodes : NodeSets, pods : FewPods, policy : {"absent", "denied", "none", "ready"},
                       operator : {Failed} \cup AtMost(1, [phase : {"Running", "Pending"}, ready : BOOLEAN])],
     gpu_dra |-> [api : [v1 : {"ok", "absent"}, v1beta1 : {"ok", "denied"}], slices : {{}, {"s"}},
                  claims : AtMost(2, [allocated : BOOLEAN, reserved : BOOLEAN])],
     gpu_series |-> [nodes : NodeSets, pods : FewPods \ {Failed}, series : AtMost(2, Series), threshold : {10}],
     gpu_history |-> [duration : {3600, 86400 * 7, 86400 * 8}, step : {1, 60, 600, 605},
                      values : {<<>>, <<None>>, <<3, None, 1>>}],
     health |-> HealthInputs,
     certs |-> CertInputs,
     events |-> EventInputs,
     resources |-> ResourceInputs,
     pod |-> PodInputs,
     deployment |-> DeploymentInputs,
     owners |-> OwnerInputs,
     logs |-> LogInputs]
=============================================================================
