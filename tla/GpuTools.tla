------------------------------ MODULE GpuTools ------------------------------
(***************************************************************************)
(* The GPU reports: tools/nvidia_gpu.py, gpu_capacity.py and               *)
(* nvidia_metrics.py, as what they derive from the nodes and pods that the *)
(* apiserver lists and from the series that Prometheus returns.  A listing *)
(* or a query that fails is Failed.  Extended resources are functions from *)
(* the resource names to amounts; utilisation values are natural numbers.  *)
(***************************************************************************)
EXTENDS Integers, Sequences, FiniteSets, FiniteSetsExt

CONSTANTS
    Whole,      (* nvidia.com/gpu                                            *)
    Profiles,   (* the nvidia.com/mig-<profile> resources                    *)
    Failed,     (* the answer of a request that failed                       *)
    NaN         (* a sample that is not a finite number                      *)

Amount(f, r) == IF r \in DOMAIN f THEN f[r] ELSE 0
SumOver(S, F(_)) == MapThenSumSet(F, S)
Total(S, F(_)) == [r \in UNION {DOMAIN F(x) : x \in S} |-> SumOver(S, LAMBDA x : Amount(F(x), r))]
Mig(f) == [r \in DOMAIN f \cap Profiles |-> f[r]]
Units(f) == SumOver(DOMAIN f, LAMBDA r : f[r])
Biggest(S) == Max(S \cup {0})

(***************************************************************************)
(* Pods and nodes.                                                         *)
(***************************************************************************)

(* A faulty form: init containers run beside the others.                    *)
PodLimitsAllSummed(pod) ==
    [r \in UNION {DOMAIN c : c \in {pod.app[i] : i \in DOMAIN pod.app} \cup {pod.init[i] : i \in DOMAIN pod.init}} |->
        SumOver(DOMAIN pod.app, LAMBDA i : Amount(pod.app[i], r))
          + SumOver(DOMAIN pod.init, LAMBDA i : Amount(pod.init[i], r))]

(* The sum of the containers, or the largest init container.                *)
PodLimits(pod) ==
    [r \in UNION {DOMAIN c : c \in {pod.app[i] : i \in DOMAIN pod.app} \cup {pod.init[i] : i \in DOMAIN pod.init}} |->
        Max({SumOver(DOMAIN pod.app, LAMBDA i : Amount(pod.app[i], r))}
               \cup {Amount(pod.init[i], r) : i \in DOMAIN pod.init})]

GpuPods(pods) == {p \in pods : DOMAIN PodLimits(p) # {}}
Active(pods) == {p \in GpuPods(pods) : p.phase \notin {"Succeeded", "Failed"}}
Pending(pods) == {p \in GpuPods(pods) : p.phase = "Pending"}

GpuNode(n) == DOMAIN n.capacity # {} \/ DOMAIN n.allocatable # {} \/ n.labelled
MigNode(n) ==
    DOMAIN Mig(n.capacity) # {} \/ DOMAIN Mig(n.allocatable) # {} \/ n.migLabel

(***************************************************************************)
(* nvidia_gpu.py.                                                          *)
(***************************************************************************)
ClusterOverview(nodes, pods) ==
    LET gpu == {n \in nodes : GpuNode(n)}
    IN  [rows |-> gpu,
         capacity |-> Total(gpu, LAMBDA n : n.capacity),
         allocatable |-> Total(gpu, LAMBDA n : n.allocatable),
         requested |-> IF pods = Failed THEN Failed ELSE Total(Active(pods), PodLimits)]

NodeInspect(n, pods) ==
    [node |-> n,
     pods |-> IF pods = Failed THEN Failed ELSE GpuPods({p \in pods : p.node = n.name})]

(* A Pod, or a Deployment or Job by its template and its selector.          *)
WorkloadInspect(w, pods) ==
    IF w.kind = "Pod"
    THEN [limits |-> PodLimits(w.template), pods |-> {}]
    ELSE [limits |-> PodLimits(w.template),
          pods |-> IF w.selector = {} \/ pods = Failed THEN {}
                   ELSE GpuPods({p \in pods : w.selector \subseteq p.labels})]

(* At most `limit` of them, in the order of the listing.                    *)
PendingWorkloads(pods, limit) ==
    [found |-> Cardinality(Pending(pods)),
     shown |-> {S \in SUBSET Pending(pods) : Cardinality(S) = Min({limit, Cardinality(Pending(pods))})}]

(* The ClusterPolicy: absent, denied, broken, none or a state.              *)
PolicyFinding(policy) ==
    <<IF policy = "none" THEN "WARN" ELSE "INFO", "policy">>

OperatorFinding(rows) ==
    <<IF rows = Failed THEN "INFO"
      ELSE IF rows = {} \/ \E p \in rows : p.phase # "Running" \/ ~p.ready THEN "WARN" ELSE "OK", "operator">>

NodeFindings(gpu) ==
    LET bare == {n \in gpu : DOMAIN n.allocatable = {}}
        down == {n \in gpu : ~n.ready}
    IN  {<<"WARN", "bare">> : n \in bare} \cup {<<"WARN", "down">> : n \in down}
          \cup (IF gpu = {} THEN {<<"WARN", "nodes">>}
                ELSE IF bare \cup down = {} THEN {<<"OK", "nodes">>} ELSE {})

PendingFindings(gpu, pods) ==
    LET known == IF pods = Failed THEN {} ELSE Pending(pods)
    IN  (IF pods = Failed THEN {<<"INFO", "pending">>} ELSE {})
          \cup (IF known # {} THEN {<<"WARN", "pending">>} ELSE {<<"OK", "pending">> : n \in gpu})

Diagnose(nodes, policy, operator, pods) ==
    LET gpu == {n \in nodes : GpuNode(n)}
    IN  NodeFindings(gpu) \cup {PolicyFinding(policy), OperatorFinding(operator)}
          \cup PendingFindings(gpu, pods)

(* Slices asked for by active pods against those the nodes offer.           *)
MigOverview(nodes, pods) ==
    LET mig == {n \in nodes : MigNode(n)}
        offered == Total(mig, LAMBDA n : Mig(n.allocatable))
        users == IF pods = Failed THEN {} ELSE {p \in Active(pods) : DOMAIN Mig(PodLimits(p)) # {}}
        asked == Total(users, LAMBDA p : Mig(PodLimits(p)))
        deficits == {r \in DOMAIN asked : asked[r] > Amount(offered, r)}
    IN  IF mig = {} THEN [inUse |-> FALSE]
        ELSE [inUse |-> TRUE, offered |-> offered, users |-> users, asked |-> asked,
              deficits |-> deficits,
              fits |-> deficits = {},
              pending |-> {p \in users : p.phase = "Pending"},
              unknown |-> pods = Failed]

(* The newer version of the DRA API that answers, else why none does.       *)
DraVersion(answer) ==
    IF answer["v1"] = "ok" THEN "v1" ELSE IF answer["v1beta1"] = "ok" THEN "v1beta1" ELSE "none"

(* Claims by whether they are allocated and have consumers, slices by       *)
(* their driver.                                                            *)
DraOverview(answer, slices, claims) ==
    LET waiting == {c \in claims : ~c.allocated /\ c.reserved}
    IN  IF DraVersion(answer) = "none" THEN {}
        ELSE (IF slices = {} THEN {<<"WARN", "no_slices">>} ELSE {})
               \cup (IF claims # {}
                     THEN {<<"INFO", "claims">>,
                           IF waiting # {} THEN <<"WARN", "waiting">> ELSE <<"OK", "all_allocated">>}
                     ELSE {<<"OK", "no_claims">> : s \in slices})

(***************************************************************************)
(* nvidia_metrics.py and gpu_capacity.py.  A series has a GPU, a node      *)
(* label and a value; several series may be of one GPU.                    *)
(***************************************************************************)
Finite(S) == {s.value : s \in S} \ {NaN}

(* gpu_utilization_overview: the largest of the finite samples of a GPU.    *)
Utilization(series) ==
    [g \in {s.gpu : s \in series} |->
        LET own == Finite({s \in series : s.gpu = g})
        IN  IF own = {} THEN NaN ELSE Max(own)]

(* gpu_utilization_history: window and step in seconds.                     *)
HistoryAccepted(duration, step) ==
    /\ duration <= 7 * 86400 /\ step >= 15
    /\ duration <= 1000 * step

(* What Prometheus returns for an accepted window, both ends included.      *)
Points(duration, step) == duration \div step + 1

HistoryStats(values) ==
    LET numbers == SelectSeq(values, LAMBDA v : v # NaN)
    IN  IF numbers = <<>> THEN Failed
        ELSE LET S == {numbers[i] : i \in DOMAIN numbers}
             IN  [samples |-> Len(numbers), min |-> Min(S), max |-> Max(S),
                  sum |-> SumOver(DOMAIN numbers, LAMBDA i : numbers[i]),
                  latest |-> numbers[Len(numbers)]]

(* Units offered and held per GPU node, and the pending pods elsewhere.     *)
GpuView(nodes, pods) ==
    LET gpu == {n \in nodes : GpuNode(n)}
    IN  [offered |-> [n \in gpu |-> Units(n.allocatable)],
         held |-> [n \in gpu |-> SumOver({p \in Active(pods) : p.node = n.name},
                                         LAMBDA p : Units(PodLimits(p)))],
         pending |-> {p \in Active(pods) : p.phase = "Pending" /\ p.node \notin {n.name : n \in gpu}}]

(* A series belongs to the node its label names, if that is a GPU node.     *)
SeriesOf(series, n) == {s \in series : s.node = n.name}
Average(S) == SumOver(S, LAMBDA s : s.value) \div Cardinality(S)
Measured(series, n) == {s \in SeriesOf(series, n) : s.value # NaN}

CapacityAnalyze(nodes, pods, series, threshold) ==
    LET view == GpuView(nodes, pods)
        gpu == DOMAIN view.held
        idle == {n \in gpu : /\ view.held[n] > 0 /\ Measured(series, n) # {}
                             /\ Average(Measured(series, n)) < threshold}
        free == SumOver(gpu, LAMBDA n : Biggest({view.offered[n] - view.held[n]}))
        unmatched == series \ UNION {SeriesOf(series, n) : n \in gpu}
    IN  [idle |-> idle, stranded |-> view.pending # {} /\ free > 0,
         nodata |-> series = {}, unmatched |-> unmatched,
         ok |-> idle = {} /\ ~(view.pending # {} /\ free > 0) /\ series # {} /\ unmatched = {}]

(* Verdict per series, and the nodes with an idle GPU that pods hold.       *)
IdleResources(nodes, pods, series, threshold) ==
    LET view == GpuView(nodes, pods)
        idle == {s \in series : s.value # NaN /\ s.value < threshold}
    IN  [idle |-> idle,
         reserved |-> {n \in DOMAIN view.held : view.held[n] > 0 /\ SeriesOf(idle, n) # {}}]
=============================================================================
