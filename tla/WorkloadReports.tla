-------------------------- MODULE WorkloadReports --------------------------
(***************************************************************************)
(* Reports on pods and workloads: tools/events.py, resource_usage.py,      *)
(* diagnostics.py and explain.py, as what they derive from the objects     *)
(* that the apiserver returns.                                             *)
(***************************************************************************)
EXTENDS Integers, Sequences, FiniteSets, FiniteSetsExt

CONSTANTS Gone   (* what is not given, or cannot be read                     *)

(***************************************************************************)
(* events.py.  An event has a namespace, a time, a type and the object it  *)
(* is about; a field selector is that object.  A row of a listing is an    *)
(* event and the place of its query among those made.  Events of the same  *)
(* time come in any order, so what is kept is one of several sets.         *)
(***************************************************************************)
Row(i, e) == [query |-> i, event |-> e]

Latest(S, k) ==
    {T \in SUBSET S : /\ Cardinality(T) = Min({k, Cardinality(S)})
                      /\ \A x \in T, y \in S \ T : x.event.time >= y.event.time}

(* What the apiserver lists for the i-th query.                             *)
Listed(events, i, ns, selector) ==
    {Row(i, e) : e \in {e \in events : ns \in {Gone, e.ns} /\ selector \in {Gone, e.object}}}

Wanted(rows, warningOnly) == {r \in rows : warningOnly => r.event.type = "Warning"}

(* A faulty form: cut to the limit first, and filtered then.                *)
CollectSlicesFirst(rows, warningOnly, limit) ==
    {Wanted(T, warningOnly) : T \in Latest(rows, limit)}

CollectEvents(rows, warningOnly, limit) == Latest(Wanted(rows, warningOnly), limit)

(* One query per name, merged and cut again: a namespace that is named      *)
(* twice is asked twice.  The field selector is not passed on.              *)
Together(events, namespaces) ==
    UNION {Listed(events, i, namespaces[i], Gone) : i \in DOMAIN namespaces}
ListEventsMulti(events, namespaces, warningOnly, limit) ==
    LET answers ==
            {T \in SUBSET Together(events, namespaces) :
                \A i \in DOMAIN namespaces :
                    {r \in T : r.query = i}
                        \in CollectEvents(Listed(events, i, namespaces[i], Gone), warningOnly, limit)}
    IN  UNION {Latest(T, limit) : T \in answers}

(* The list of namespaces, when it is given, replaces the one namespace.    *)
ListEvents(q) ==
    IF q.namespaces = Gone
    THEN CollectEvents(Listed(q.events, 1, q.namespace, q.selector), q.warningOnly, q.limit)
    ELSE IF q.namespaces = <<>>
    THEN {{}}
    ELSE IF Len(q.namespaces) = 1
    THEN CollectEvents(Listed(q.events, 1, q.namespaces[1], q.selector), q.warningOnly, q.limit)
    ELSE ListEventsMulti(q.events, q.namespaces, q.warningOnly, q.limit)

EventsForObject(events, ns, object, limit) ==
    CollectEvents(Listed(events, 1, ns, object), FALSE, limit)

(***************************************************************************)
(* resource_usage.py.  An amount is a number and a suffix, and is read as  *)
(* a number of no particular unit: `1` as 1, and `500m` as 500.            *)
(***************************************************************************)
Factor == [milli |-> 1, none |-> 1, mebi |-> 1024, gibi |-> 1024 * 1024]
AsNumber(a) == a.number * Factor[a.suffix]

Inconsistent(c) ==
    \E r \in DOMAIN c.requests \cap DOMAIN c.limits :
        /\ c.limits[r] # c.requests[r]
        /\ AsNumber(c.limits[r]) < AsNumber(c.requests[r])

Issue(mode, c) ==
    CASE mode = "missing_requests" -> DOMAIN c.requests = {}
      [] mode = "missing_limits" -> DOMAIN c.limits = {}
      [] mode = "inconsistent" -> Inconsistent(c)

Owned(pod) ==
    pod.owner \in {"Deployment", "StatefulSet", "DaemonSet", "ReplicaSet", "Job", "CronJob"}

(* Pods of a workload are left to the audit of the workload.                *)
AnalyzeResourceUsage(objects, kind, mode) ==
    UNION {{<<o.name, c>> : c \in {x \in o.containers : Issue(mode, x)}} :
              o \in {o \in objects : o.kind = kind /\ ~(kind = "Pod" /\ Owned(o))}}

(***************************************************************************)
(* diagnostics.py.  The state of a container is what it waits for, the     *)
(* code it ended with, and how it ended last time.                         *)
(***************************************************************************)
Crashing(c) == c.waiting = "CrashLoopBackOff"
Ended(c) == c.exit # 0
Restarted(c) == c.lastEnd # "never" /\ c.restarts > 0
Problems(c) ==
    {<<c.name, "waiting">> : x \in {c.waiting} \ {"no"}}
       \cup (IF Ended(c) THEN {<<c.name, "terminated">>} ELSE {})
       \cup (IF Restarted(c) THEN {<<c.name, "restarted">>} ELSE {})
LogsNeeded(cs) == {c.name : c \in {x \in cs : Crashing(x) \/ Ended(x) \/ Restarted(x)}}

(* Pending: the verdict of the scheduler and the claims not bound.          *)
Scheduling(pod) ==
    [verdict |-> IF pod.scheduled THEN "scheduled" ELSE "unschedulable",
     unbound |-> {v \in pod.claims : v.phase # "Bound"}]

DiagnosePod(pod) ==
    IF pod.phase = "Pending"
    THEN [problems |-> {}, logs |-> {}, scheduling |-> Scheduling(pod)]
    ELSE [problems |-> UNION {Problems(c) : c \in pod.containers},
          logs |-> LogsNeeded(pod.containers), scheduling |-> Gone]

(* The ReplicaSets by the selector; the one with the largest template hash  *)
(* is taken for the new one, and the pods with that hash for its pods.      *)
OwnedReplicaSets(d, sets) ==
    IF d.selector = {} THEN {} ELSE {s \in sets : d.selector \subseteq s.labels}
NewReplicaSet(sets) ==
    {s \in sets : \A t \in sets : t.hash <= s.hash}
Attention(p) == p.phase \in {"Pending", "Failed"} \/ p.crashing
DiagnoseDeployment(d, sets, pods) ==
    LET active == NewReplicaSet(OwnedReplicaSets(d, sets))
        own == IF pods = Gone THEN {} ELSE {p \in pods : \E s \in active : p.hash = s.hash}
    IN  [sets |-> OwnedReplicaSets(d, sets), active |-> active,
         pods |-> own, attention |-> {p \in own : Attention(p)}]

(***************************************************************************)
(* explain.py: from a pod along the first owner of each object, at most    *)
(* MaxHops times, until an owner cannot be read or comes up again.         *)
(***************************************************************************)
MaxHops == 8

OwnerWalk(pod, owner) ==
    LET walk[h \in 0..MaxHops] ==
            IF h = 0 THEN <<pod>>
            ELSE LET path == walk[h - 1]
                     here == path[Len(path)]
                     again == \E i \in 1..(Len(path) - 1) : path[i] = here
                 IN  IF here = Gone \/ again \/ owner[here] = {} THEN path
                     ELSE Append(path, CHOOSE x \in owner[here] : TRUE)
    IN  walk[MaxHops]

(* The pods that have the labels of the last owner, if it could be read.    *)
Siblings(top, labelsOf, pods) ==
    IF top = Gone \/ labelsOf[top] = {} THEN {} ELSE {p \in pods : labelsOf[top] \subseteq p.labels}
=============================================================================
