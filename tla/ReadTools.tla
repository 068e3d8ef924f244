----------------------------- MODULE ReadTools -----------------------------
(***************************************************************************)
(* The tools that judge what they read.  A behaviour is one call: a tool   *)
(* takes the objects that the cluster shows at that moment and answers     *)
(* with what its module derives from them.  Where a tool may answer in     *)
(* several ways (ties, listing order, threads), each is a step.            *)
(***************************************************************************)
EXTENDS Integers, Sequences, FiniteSets

CONSTANTS
    None,       (* what is not there                                         *)
    Failed,     (* what a request that failed answers                        *)
    Broken,     (* the log of a pod that the apiserver fails to give         *)
    Whole, Profiles,          (* the GPU resources                           *)
    RowCap,     (* the rows that a table of pods shows at most               *)
    Inputs      (* for each tool, the set of what it may be called on        *)

Rbac == INSTANCE RbacAnalysis
Policies == INSTANCE NetworkPolicies WITH Unset <- None
Gpu == INSTANCE GpuTools WITH NaN <- None
Health == INSTANCE HealthSnapshot
Reports == INSTANCE WorkloadReports WITH Gone <- None
Logs == INSTANCE PodLogs WITH NoTime <- None, Missing <- Failed, Rejected <- None

(***************************************************************************)
(* What the apiserver vouches for and the tools rely on: a rule for        *)
(* resources names its API groups, a subject has a kind, a policy is of    *)
(* the known types.  A request that failed has answered nothing that a     *)
(* listing could; the limit asked for is not negative.                     *)
(***************************************************************************)
ASSUME RbacAssumption ==
    \A in \in Inputs["analyze_rbac"] :
        /\ None \notin in.cluster.roles
        /\ \A r \in in.cluster.roles : \A rule \in r.rules : rule.groups # None
        /\ \A b \in in.cluster.bindings : \A s \in b.subjects : s.kind # None

ASSUME PolicyAssumption ==
    \A in \in Inputs["analyze_networkpolicy"] :
        \A p \in in.policies : p.types \subseteq Policies!Directions

ASSUME HealthAssumption ==
    /\ RowCap \in Nat
    /\ \A in \in Inputs["health"] : in.pods # Failed =>
          /\ IsFiniteSet(in.pods)
          /\ \A p \in in.pods : /\ IsFiniteSet(p.containers)
                                /\ \A c \in p.containers : c.restarts \in Nat
          /\ \A S \in SUBSET in.pods : S # Failed
          /\ Failed \notin [Health!Phases -> SUBSET in.pods]
          /\ LET rows == in.pods \X UNION {p.containers : p \in in.pods}
             IN  Failed \notin [all : SUBSET rows, shown : SUBSET rows]

ASSUME EventsAssumption ==
    \A in \in Inputs["events"] :
        /\ IsFiniteSet(in.events)
        /\ \A e \in in.events : e.time \in Int
        /\ in.limit \in Nat
        /\ in.namespaces # None =>
              in.namespaces \in Seq({in.namespaces[i] : i \in DOMAIN in.namespaces})

(* Quantities of GPU resources are whole and not negative, and a listing is *)
(* finite, as are the containers of a pod.                                  *)
ASSUME GpuAssumption ==
    \A in \in Inputs["gpu"] :
        /\ IsFiniteSet(in.nodes)
        /\ \A n \in in.nodes : \A r \in DOMAIN n.allocatable : n.allocatable[r] \in Nat
        /\ in.pods # Failed =>
              /\ IsFiniteSet(in.pods)
              /\ \A p \in in.pods : \A group \in {p.app, p.init} :
                    /\ IsFiniteSet(DOMAIN group)
                    /\ \A i \in DOMAIN group : \A r \in DOMAIN group[i] : group[i][r] \in Nat

(* A pod's log has lines of that pod, a pod asked for by name is one pod,   *)
(* and the threads that fetch logs all come to an end, in some order.       *)
ASSUME LogsAssumption ==
    \A in \in Inputs["logs"] :
        /\ in.pods \in Seq(DOMAIN in.log)
        /\ {in.byName, in.bySelector} \subseteq BOOLEAN
        /\ in.byName => in.pods # <<>>
        /\ \A pod \in DOMAIN in.log :
              in.log[pod] \in {Failed, None, Broken} \cup Seq(Logs!Records({pod}))
        /\ in.order \in Seq(DOMAIN in.pods)
        /\ \A i \in DOMAIN in.pods : \E k \in DOMAIN in.order : in.order[k] = i
        /\ in.maxBytes \in Nat

VARIABLE answer

Waiting == [tool |-> "none"]
Init == answer = Waiting

Answer(tool, in, out) == answer' = [tool |-> tool, in |-> in, out |-> out]

(***************************************************************************)
(* Who may do what.                                                        *)
(***************************************************************************)
CreateRbac ==
    \E in \in Inputs["create_rbac"] :
        Answer("create_rbac", in,
               CASE in.kind = "Role" -> Rbac!CreateRole(in)
                 [] in.kind = "ClusterRole" -> Rbac!CreateClusterRole(in)
                 [] in.kind = "RoleBinding" -> Rbac!CreateRoleBinding(in)
                 [] in.kind = "ClusterRoleBinding" -> Rbac!CreateClusterRoleBinding(in))

AnalyzeRbac ==
    \E in \in Inputs["analyze_rbac"] :
        \E out \in Rbac!AnalyzeRbac(in.cluster, in.query) : Answer("analyze_rbac", in, out)

WhoAmI ==
    \E in \in Inputs["whoami"] : Answer("whoami", in, Rbac!Whoami(in.identity, in.rules))

CreateNetworkPolicy ==
    \E in \in Inputs["create_networkpolicy"] :
        Answer("create_networkpolicy", in, Policies!CreatePolicy(in))

AnalyzeNetworkPolicy ==
    \E in \in Inputs["analyze_networkpolicy"] :
        \/ \E x \in DOMAIN in.pods :
              Answer("pod_view", [policies |-> in.policies, labels |-> in.pods[x]],
                     Policies!PodView(in.policies, in.pods[x]))
        \/ Answer("coverage_view", in, Policies!CoverageView(in.policies, in.pods))

(***************************************************************************)
(* GPUs.                                                                   *)
(***************************************************************************)
GpuNodes ==
    \E in \in Inputs["gpu"] :
        \/ Answer("gpu_cluster_overview", in, Gpu!ClusterOverview(in.nodes, in.pods))
        \/ \E n \in in.nodes : Answer("gpu_node_inspect", in, Gpu!NodeInspect(n, in.pods))
        \/ Answer("gpu_mig_overview", in, Gpu!MigOverview(in.nodes, in.pods))

GpuWorkloads ==
    \/ \E in \in Inputs["gpu"] :
          /\ in.pods # Failed
          /\ \E limit \in 0..1 : LET found == Gpu!PendingWorkloads(in.pods, limit)
                                 IN  \E shown \in found.shown :
                                        Answer("gpu_pending_workloads", in, [found EXCEPT !.shown = shown])
    \/ \E in \in Inputs["gpu_workload"] :
          Answer("gpu_workload_inspect", in, Gpu!WorkloadInspect(in.workload, in.pods))

GpuDiagnosis ==
    \/ \E in \in Inputs["gpu_diagnose"] :
          Answer("gpu_diagnose", in, Gpu!Diagnose(in.nodes, in.policy, in.operator, in.pods))
    \/ \E in \in Inputs["gpu_dra"] :
          Answer("gpu_dra_overview", in, Gpu!DraOverview(in.api, in.slices, in.claims))

GpuMetrics ==
    \/ \E in \in Inputs["gpu_series"] :
          \/ Answer("gpu_utilization_overview", in, Gpu!Utilization(in.series))
          \/ Answer("gpu_capacity_analyze", in,
                    Gpu!CapacityAnalyze(in.nodes, in.pods, in.series, in.threshold))
          \/ Answer("gpu_idle_resources", in,
                    Gpu!IdleResources(in.nodes, in.pods, in.series, in.threshold))
    \/ \E in \in Inputs["gpu_history"] :
          Answer("gpu_utilization_history", in,
                 IF Gpu!HistoryAccepted(in.duration, in.step)
                 THEN Gpu!HistoryStats(in.values) ELSE None)

(***************************************************************************)
(* Health, events, pods and workloads.                                     *)
(***************************************************************************)
ClusterHealth ==
    \E in \in Inputs["health"] :
        \E out \in Health!Snapshot(in) : Answer("cluster_health_snapshot", in, out)

Certificates ==
    \E in \in Inputs["certs"] :
        LET sources == Health!GatherSources(in.given, in.inCluster, in.kubeconfig, in.wanted)
        IN  \E rows \in Health!Ordered(Health!CertificateRows(sources)) :
                Answer("get_certificate_expiry", in, rows)

ListEvents ==
    \E in \in Inputs["events"] :
        \/ \E out \in Reports!ListEvents(in) : Answer("list_events", in, out)
        \/ \E e \in in.events : \E ns \in {None, e.ns} :
              \E out \in Reports!EventsForObject(in.events, ns, e.object, in.limit) :
              Answer("get_events_for_object", in, out)

AuditResources ==
    \E in \in Inputs["resources"] :
        Answer("analyze_resource_usage", in,
               Reports!AnalyzeResourceUsage(in.objects, in.kind, in.mode))

Diagnose ==
    \/ \E in \in Inputs["pod"] : Answer("diagnose_pod", in, Reports!DiagnosePod(in))
    \/ \E in \in Inputs["deployment"] :
          Answer("diagnose_deployment", in, Reports!DiagnoseDeployment(in.deployment, in.sets, in.pods))

ExplainPod ==
    \E in \in Inputs["owners"] :
        LET path == Reports!OwnerWalk(in.pod, in.owner)
        IN  Answer("explain_pod", in,
                   [path |-> path,
                    siblings |-> Reports!Siblings(path[Len(path)], in.labels, in.pods)])

GetPodLogs ==
    \E in \in Inputs["logs"] :
        \E out \in Logs!GetPodLogs(in, in.pods, in.log, in.order) :
            Answer("get_pod_logs", in, out)

(* The call has been answered and the next one may come.                    *)
Return == answer # Waiting /\ answer' = Waiting

Call ==
    /\ answer = Waiting
    /\ \/ CreateRbac \/ AnalyzeRbac \/ WhoAmI
       \/ CreateNetworkPolicy \/ AnalyzeNetworkPolicy
       \/ GpuNodes \/ GpuWorkloads \/ GpuDiagnosis \/ GpuMetrics
       \/ ClusterHealth \/ Certificates
       \/ ListEvents \/ AuditResources \/ Diagnose \/ ExplainPod \/ GetPodLogs

Next == Call \/ Return

Spec == Init /\ [][Next]_answer

-----------------------------------------------------------------------------
Of(tool) == answer.tool = tool

ByRule ==
    Of("analyze_rbac") /\ Rbac!Mode(answer.in.query) = "rule"

NamesDontClash(cluster) ==
    \A b \in cluster.bindings, r \in cluster.roles :
        Rbac!RefersTo(b, r) /\ r.kind = "Role" => r.ns = b.ns

(* Who may do it in one of the namespaces, to one object at least.          *)
Able(cluster, act, namespaces) ==
    {s \in UNION {b.subjects : b \in cluster.bindings} :
        \E ns \in namespaces, name \in Rbac!ObjectNames(cluster, act) :
            Rbac!May(cluster, s, act, name, ns)}

Asked(q) == q.verb # None /\ q.resource # None /\ q.group # None
Named == {row.subject : row \in answer.out.rows}

(* `Who can do this`, asked of the whole cluster about a resource, names    *)
(* everybody who can do it to some object (rbac.py:569-659, wildcards and   *)
(* both kinds of binding included).  It names nobody else unless two        *)
(* namespaces have a role of the same name, or a rule with resourceNames is *)
(* for a verb that they never allow.  Somebody who can do it to the objects *)
(* of a rule's resourceNames only is named like somebody who can to all.    *)
WhoCanIsRight ==
    ByRule =>
        LET q == answer.in.query
            cluster == answer.in.cluster
            able == Able(cluster, q, {b.ns : b \in cluster.bindings})
        IN  q.ns = None /\ Asked(q) =>
                /\ q.resource.sub = None => able \subseteq Named
                /\ NamesDontClash(cluster) /\ q.verb \notin Rbac!NeverNamed => Named \subseteq able

(* The two ways to ask agree: a subject is among those who can do something *)
(* exactly when a role that the report on this subject shows lets it        *)
(* (rbac.py:489-566 against 569-659).                                       *)
LookupsAgree ==
    ByRule =>
        LET scope == Rbac!Scope(answer.in.cluster, answer.in.query.ns)
        IN  \A s \in UNION {b.subjects : b \in scope.bindings} :
                (\E row \in answer.out.rows : row.subject.kind = s.kind /\ row.subject.name = s.name)
                <=> (\E f \in Rbac!SubjectReports(scope, [kind |-> s.kind, name |-> s.name]) :
                        \E b \in DOMAIN f : f[b] # None /\ Rbac!Grants(f[b], answer.in.query))

(* What analyze_networkpolicy says of a pod, alone or in the sweep of its   *)
(* namespace, is what Kubernetes does with it: isolated when a policy of    *)
(* that direction selects it, shut when the policies together let nothing   *)
(* through, exposed when no ingress policy selects it                       *)
(* (networkpolicy.py:238-357).                                              *)
PostureIsTrue ==
    LET in == answer.in
        out == answer.out
        Shut(labels) == {d \in Policies!Directions : ~Policies!Open(in.policies, labels, d)}
    IN  /\ Of("pod_view") =>
               /\ out.isolated = Shut(in.labels)
               /\ \A d \in out.isolated :
                     (\A p \in DOMAIN out.shown : d \in DOMAIN out.shown[p] => out.shown[p][d] = {})
                     <=> Policies!LetsThrough(in.policies, in.labels, d) = {}
        /\ Of("coverage_view") =>
               /\ \A x \in DOMAIN in.pods : out.posture[x] = Shut(in.pods[x])
               /\ out.exposed = {x \in DOMAIN in.pods : "Ingress" \notin Shut(in.pods[x])}
               /\ \A p \in DOMAIN out.inventory : \A d \in Policies!PolicyTypes(p) :
                     d \in out.inventory[p] <=> Policies!Given(p.rules[d]) = {}

(* Where every pod that is not done runs on a node that has room for it, as *)
(* the scheduler counts room (init containers run alone, the others         *)
(* together), gpu_mig_overview sees no shortage of slices                   *)
(* (nvidia_gpu.py:147-164, 645-742).                                        *)
Suffices(p, r, k) ==
    /\ \A i \in DOMAIN p.init : Gpu!Amount(p.init[i], r) <= k
    /\ Gpu!SumOver(DOMAIN p.app, LAMBDA i : Gpu!Amount(p.app[i], r)) <= k
HasRoom(n, pods) ==
    \A r \in Profiles :
        \E share \in [pods -> 0..Gpu!Amount(n.allocatable, r)] :
            /\ \A p \in pods : Suffices(p, r, share[p])
            /\ Gpu!SumOver(pods, LAMBDA p : share[p]) <= Gpu!Amount(n.allocatable, r)
FullyPlacedFits ==
    Of("gpu_mig_overview") /\ answer.in.pods # Failed =>
        LET running == {p \in answer.in.pods : p.phase \notin {"Succeeded", "Failed"}}
            placed == \A p \in running : \E n \in answer.in.nodes : n.name = p.node
            room == \A n \in answer.in.nodes : HasRoom(n, {p \in running : p.node = n.name})
        IN  placed /\ room /\ answer.out.inUse => answer.out.fits

(* When the one listing of the pods has come, the four sections drawn from  *)
(* it tell one story, whatever else fails: image troubles are counted among *)
(* the abnormal pods, and the Pending pods are those of the count by phase. *)
(* A trouble with an image that the one table shows and the other does not  *)
(* is left out there for pods that restarted as often, and the table is     *)
(* full (health.py:143-187, 343-399 and 526-590).                           *)
PodSectionsAgree ==
    Of("cluster_health_snapshot") /\ answer.in.pods # Failed =>
        LET s == answer.out.sections
            images == s["images"]
            restarts == s["restarts"]
        IN  /\ Failed \notin {images, restarts, s["distribution"]}
            /\ images.all \subseteq restarts.all
            /\ \A row \in images.shown \ restarts.shown :
                  /\ Cardinality(restarts.shown) = RowCap
                  /\ \A x \in restarts.shown : x[2].restarts >= row[2].restarts
            /\ s["pending"] # Failed => s["pending"].all = s["distribution"]["Pending"]

(* The events of several namespaces, asked for one by one and merged, are   *)
(* the latest of all of them, whatever the field selector, and of the one   *)
(* namespace or of all of them the latest that the selector is for.  The    *)
(* filter for warnings never costs one its place, and a namespace named     *)
(* twice has each event twice (events.py:32-80, 117-178).                   *)
Several(in) == in.namespaces # None /\ Len(in.namespaces) > 1
Queried(in) == IF in.namespaces = None THEN <<in.namespace>> ELSE in.namespaces
EventRows(in) ==
    {row \in {Reports!Row(i, e) : i \in DOMAIN Queried(in), e \in in.events} :
        /\ Queried(in)[row.query] \in {None, row.event.ns}
        /\ Several(in) \/ in.selector \in {None, row.event.object}
        /\ in.warningOnly => row.event.type = "Warning"}
MergedEventsAreLatest ==
    Of("list_events") =>
        LET all == EventRows(answer.in)
        IN  /\ answer.out \subseteq all
            /\ Cardinality(answer.out) <= answer.in.limit
            /\ answer.out # all => Cardinality(answer.out) = answer.in.limit
            /\ \A x \in answer.out, y \in all \ answer.out : x.event.time >= y.event.time

(* The logs of several pods come in the order of the listing, whichever     *)
(* thread is first (logs.py:318-345).                                       *)
LogsInOrder ==
    Of("get_pod_logs") =>
        \A i, j \in DOMAIN answer.out.lines :
            i < j => \E m, n \in DOMAIN answer.in.pods :
                        /\ m <= n
                        /\ answer.in.pods[m] = answer.out.lines[i].pod
                        /\ answer.in.pods[n] = answer.out.lines[j].pod

(* What the tool has found of the logs, where it answers.                   *)
LogFetched == Logs!Fetch(answer.in, answer.in.pods, answer.in.log, answer.in.order)
LogFound == Logs!Found(answer.in, LogFetched)
LogAnswered == Of("get_pod_logs") /\ Logs!Answered(answer.in, LogFetched)

(* An answer is cut, and says so, exactly when the lines found are over the *)
(* budget; then it is the end of them.  It keeps to the budget but for the  *)
(* bytes of a character that was cut, one line more would have filled or    *)
(* burst it, and of a line that was cut a piece is left only where no other *)
(* line is.  A budget of 0 cuts nothing off a text (logs.py:531-563).       *)
BudgetKeepsTheEnd ==
    LogAnswered =>
        LET all == LogFound
            out == answer.out
            max == answer.in.maxBytes
            json == answer.in.json
            size == IF json THEN Logs!JsonSize(all) ELSE Logs!TextSize(all)
        IN  /\ out.truncated <=> size > max
            /\ ~out.truncated \/ (max = 0 /\ ~json) => out.lines = all /\ out.part = 0
            /\ out.truncated /\ (max # 0 \/ json) =>
                  \E k \in 0..Len(all) :
                      /\ out.lines = Logs!Tail_(all, k + 1)
                      /\ Logs!PayloadSize(out, json) <= max + 6 \/ (json /\ out.lines = <<>>)
                      /\ IF json
                         THEN all = <<>> \/ (k > 0 /\ Logs!JsonSize(Logs!Tail_(all, k)) > max)
                         ELSE k > 0 /\ Logs!TextSize(Logs!Tail_(all, k)) >= max
                      /\ out.part # 0 => Logs!TextSize(out.lines) = 0
=============================================================================
