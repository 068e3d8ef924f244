--------------------------- MODULE HealthSnapshot ---------------------------
(***************************************************************************)
(* tools/health.py, cluster_health_snapshot, with the certificate report   *)
(* of tools/certs.py that is one of its sections.  The sections are built  *)
(* one after the other from requests of their own, any of which may fail,  *)
(* so each one has its own view of the cluster; only the pods are listed   *)
(* once for four of them.  The headline is counted from the text of the    *)
(* sections, and a section that failed has none.                           *)
(***************************************************************************)
EXTENDS Integers, Sequences, FiniteSets, FiniteSetsExt

CONSTANTS
    Failed,   (* what a request that fails answers                           *)
    None,     (* a field that is not there                                   *)
    RowCap    (* the rows that a table of pods shows at most, 20 in the code *)

PodSections == {"pending", "restarts", "distribution", "images"}
Counted == {"nodes", "pending", "restarts", "images", "hpa", "pvs", "certs"}
Sections == Counted \cup {"usage", "distribution", "workloads", "warnings"}

BadWaiting == {"CrashLoopBackOff", "ImagePullBackOff", "ErrImagePull",
               "CreateContainerConfigError", "InvalidImageName"}
ImageReasons == {"ErrImagePull", "ImagePullBackOff", "InvalidImageName"}
Phases == {"Running", "Pending", "Failed", "Succeeded", "Unknown"}

(***************************************************************************)
(* certs.py.  Time left is in half days, as a day is the unit of the       *)
(* report; a source is the set of its certificates, empty when it is not   *)
(* there or cannot be parsed.                                              *)
(***************************************************************************)
DaysLeft(left) == left \div 2

Status(left) ==
    IF left < 0 THEN "expired"
    ELSE IF DaysLeft(left) < 7 THEN "critical"
    ELSE IF DaysLeft(left) < 30 THEN "warning" ELSE "valid"

(* The context by name, or the current one; its cluster and its user.       *)
CurrentContext(kubeconfig, wanted) ==
    {c \in kubeconfig.contexts :
        c.name = IF wanted = "" THEN kubeconfig.current ELSE wanted}

GatherSources(given, inCluster, kubeconfig, wanted) ==
    {given, inCluster}
       \cup IF kubeconfig = Failed THEN {}
            ELSE UNION {{kubeconfig.clusters[c.cluster], kubeconfig.users[c.user]} :
                           c \in CurrentContext(kubeconfig, wanted)}

CertificateRows(sources) ==
    {[cert |-> c, status |-> Status(c.left)] : c \in UNION sources}

(* The rows by the days that are left.                                      *)
Ordered(rows) ==
    {s \in [1..Cardinality(rows) -> rows] :
        /\ {s[i] : i \in DOMAIN s} = rows
        /\ \A i, j \in DOMAIN s : i < j => DaysLeft(s[i].cert.left) <= DaysLeft(s[j].cert.left)}

(***************************************************************************)
(* The sections.  A table counts all its rows and shows the first of them: *)
(* those of one place may come in any order, that of the listing.          *)
(***************************************************************************)
Cut(rows, place) ==
    {T \in SUBSET rows :
        /\ Cardinality(T) = Min({RowCap, Cardinality(rows)})
        /\ \A x \in T, y \in rows \ T : place[x] <= place[y]}
Tables(rows, place) == {[all |-> rows, shown |-> T] : T \in Cut(rows, place)}

NotReady(nodes) == {n \in nodes : n.ready \notin {"True", None}}

(* In the order of the listing.  None is the message of a pod's last        *)
(* condition when that condition has none: a row for it fails the section.  *)
PendingPods(pods) == {p \in pods : p.phase = "Pending"}
SectionPending(pods) ==
    {IF \E p \in t.shown : p.message = None THEN Failed ELSE t :
        t \in Tables(PendingPods(pods), [p \in PendingPods(pods) |-> 0])}

(* A row is a pod and one of its containers.                                *)
Rows(pods) == UNION {{<<p, c>> : c \in p.containers} : p \in pods}

AbnormalRows(pods, threshold) ==
    {r \in Rows(pods) : r[2].restarts > threshold \/ r[2].waiting \in BadWaiting}
AbnormalRestarts(pods, threshold) ==
    LET rows == AbnormalRows(pods, threshold)
    IN  Tables(rows, [r \in rows |-> -r[2].restarts])

(* By the name of the reason; the pods of one reason by names that are not  *)
(* modelled.                                                                *)
ReasonPlace == [ErrImagePull |-> 1, ImagePullBackOff |-> 2, InvalidImageName |-> 3]
ImageRows(pods) == {r \in Rows(pods) : r[2].waiting \in ImageReasons}
ImagePulls(pods) ==
    Tables(ImageRows(pods), [r \in ImageRows(pods) |-> ReasonPlace[r[2].waiting]])

PodDistribution(pods) ==
    [f \in Phases |-> {p \in pods : (IF p.phase \in Phases THEN p.phase ELSE "Unknown") = f}]

HpaNote(h) ==
    IF h.desired > h.max THEN "above_max"
    ELSE IF h.current < h.desired THEN "up" ELSE "down"
OffTarget(hpas) == {<<h, HpaNote(h)>> : h \in {x \in hpas : x.current # x.desired}}
OrphanPvs(pvs) == {v \in pvs : v.phase # "Bound"}
Expiring(sources) == {r \in CertificateRows(sources) : r.status # "valid"}

(* A count per kind, or a question mark for a kind that cannot be listed.   *)
Workloads(ofKind) ==
    [k \in DOMAIN ofKind |-> IF ofKind[k] = Failed THEN "?" ELSE "counted"]

(* Nodes, then pods, as far as metrics-server answers; another error fails. *)
ResourceUsage(metrics) ==
    CASE metrics.nodes = "absent" -> {"hint"}
      [] metrics.nodes = "ok" /\ metrics.pods = "absent" -> {"nodes", "skipped"}
      [] metrics = [nodes |-> "ok", pods |-> "ok"] -> {"nodes", "pods"}
      [] OTHER -> Failed

(* An error of the apiserver is a line of the section.                      *)
RecentWarnings(events) == IF events = Failed THEN {"failed"} ELSE events

InScope(things, namespaces) == {x \in things : namespaces = {} \/ x.ns \in namespaces}

(* The pods that a section works on: those of the one listing, or if that   *)
(* failed those of a listing of its own.                                    *)
PodsFor(q, section) ==
    IF q.pods # Failed THEN InScope(q.pods, q.namespaces)
    ELSE IF q.view[section] = Failed THEN Failed
    ELSE InScope(q.view[section], q.namespaces)

(* What the request of a section gives, and what the section makes of it.   *)
DataOf(q, section) == IF section = "distribution" THEN PodsFor(q, section) ELSE q.view[section]

Render(q, section, data) ==
    CASE section = "nodes" -> NotReady(data)
      [] section = "usage" -> ResourceUsage(data)
      [] section = "distribution" -> PodDistribution(data)
      [] section = "workloads" -> Workloads(data)
      [] section = "hpa" -> OffTarget(InScope(data, q.namespaces))
      [] section = "pvs" -> OrphanPvs(data)
      [] section = "certs" -> Expiring(data)
      [] section = "warnings" -> RecentWarnings(data)

Section(q, section) ==
    IF DataOf(q, section) = Failed /\ section # "warnings"
    THEN Failed
    ELSE Render(q, section, DataOf(q, section))

(* The sections that are tables of pods, and what each may look like.       *)
TableSections == {"pending", "restarts", "images"}
TablesOf(q, section) ==
    LET pods == PodsFor(q, section)
    IN  CASE pods = Failed -> {Failed}
          [] pods # Failed /\ section = "pending" -> SectionPending(pods)
          [] pods # Failed /\ section = "restarts" -> AbnormalRestarts(pods, q.threshold)
          [] pods # Failed /\ section = "images" -> ImagePulls(pods)

PodTables(q) ==
    [pending : TablesOf(q, "pending"), restarts : TablesOf(q, "restarts"),
     images : TablesOf(q, "images")]

(* The number that the headline reads in a section: none in a failed one,   *)
(* and that of all rows in a table.                                         *)
Count(sections, s) ==
    IF sections[s] = Failed THEN 0
    ELSE Cardinality(IF s \in TableSections THEN sections[s].all ELSE sections[s])

Headline(sections) ==
    IF \A s \in Counted : Count(sections, s) = 0 THEN "HEALTHY" ELSE "ATTENTION"

Report(sections) == [sections |-> sections, headline |-> Headline(sections)]

(* A faulty form: the first failure ends the report.                        *)
SnapshotStopsAtFailure(q) ==
    {Report([s \in Sections |->
                IF \E x \in Sections \ TableSections : Section(q, x) = Failed THEN Failed
                ELSE IF s \in TableSections THEN t[s] ELSE Section(q, s)]) : t \in PodTables(q)}

(* The possible reports.                                                    *)
Snapshot(q) ==
    {Report([s \in Sections |-> IF s \in TableSections THEN t[s] ELSE Section(q, s)]) :
        t \in PodTables(q)}
=============================================================================
