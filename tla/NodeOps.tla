------------------------------ MODULE NodeOps -------------------------------
(***************************************************************************)
(* The node tools of tools/node_ops.py on one node: cordon, uncordon,      *)
(* drain, taint and untaint, called by several tool bodies at a time while *)
(* the scheduler, the kubelet and other controllers go on with their work. *)
(* One action is one HTTP request and what the body does up to the next.   *)
(*                                                                         *)
(* drain_node reads the node, cordons it, lists its pods once and then     *)
(* takes them one after the other, in whatever order the apiserver listed  *)
(* them.  untaint_node reads the taints, and removes by position.          *)
(***************************************************************************)
EXTENDS Integers, Sequences, SequencesExt

CONSTANTS
    Calls,       (* the tool calls                                           *)
    Pods,        (* the pods that are, or may be placed, on the node         *)
    DaemonPods,  (* those of a DaemonSet, which are placed on cordoned nodes *)
    EmptyDirs,   (* those with an emptyDir volume                            *)
    Taints,      (* the taints of the node                                   *)
    Requests     (* what the calls may ask for                               *)

ASSUME NodeAssumption == DaemonPods \subseteq Pods /\ EmptyDirs \subseteq Pods

VARIABLES
    exists,         (* the node is registered                                *)
    unschedulable,  (* its spec.unschedulable                                *)
    taints,         (* its spec.taints                                       *)
    pod,            (* pending elsewhere, running here, terminating, or gone *)
    readOnly,       (* K8S_MCP_READ_ONLY                                     *)
    allowlist,      (* K8S_MCP_NAMESPACE_ALLOWLIST is set                    *)
    pc,             (* where each call is, or how it ended                   *)
    request,        (* the operation and its arguments                       *)
    late,           (* the calls whose drain deadline has passed             *)
    todo,           (* drain: the pods listed and not yet dealt with         *)
    report,         (* drain: evicted, skipped and failed pods, so far       *)
    target,         (* untaint: the position found, counted from 1           *)
    seen,           (* untaint: the taints at that moment (history)          *)
    steady,         (* the drains since whose cordon nobody uncordoned       *)
    marked          (* the pods each drain marked for deletion (history)     *)

node == <<exists, unschedulable, taints>>
config == <<readOnly, allowlist>>
draining == <<late, todo, report>>
untainting == <<target, seen>>
history == <<steady, marked>>
vars == <<node, pod, config, pc, request, draining, untainting, history>>

(* With force a pod is deleted and not evicted, which here comes to the     *)
(* same: it begins to terminate, or the apiserver refuses.                  *)
Flags == SUBSET {"ignore_daemonsets", "delete_emptydir_data"}
AllRequests ==
    [op : {"cordon", "uncordon", "wipe"}]
        \cup [op : {"taint", "untaint"}, taint : Taints]
        \cup [op : {"drain"}, flags : Flags]

ASSUME RequestAssumption == Requests \subseteq AllRequests

NoRequest == [op |-> "none"]
Headings == {"evicted", "daemonset", "emptydir", "errors"}
Empty == [h \in Headings |-> {}]

OnNode == {p \in Pods : pod[p] \in {"running", "terminating"}}
Op(c) == request[c].op
Draining(c) == Op(c) = "drain"
Flagged(c, f) == f \in request[c].flags

Init ==
    /\ exists = TRUE
    /\ unschedulable = FALSE
    /\ taints \in {<<>>} \cup {s \in [1..2 -> Taints] : s[1] # s[2]}
    /\ pod \in [Pods -> {"pending", "running"}]
    /\ readOnly \in BOOLEAN
    /\ allowlist \in BOOLEAN
    /\ pc = [c \in Calls |-> "idle"]
    /\ request = [c \in Calls |-> NoRequest]
    /\ late = {}
    /\ todo = [c \in Calls |-> {}]
    /\ report = [c \in Calls |-> Empty]
    /\ target = [c \in Calls |-> 0]
    /\ seen = [c \in Calls |-> <<>>]
    /\ steady = {}
    /\ marked = [c \in Calls |-> {}]

GoTo(c, place) == pc' = [pc EXCEPT ![c] = place]

(***************************************************************************)
(* A call, and its guards: read-only mode for every tool, the allowlist    *)
(* for the taint tools only.                                               *)
(***************************************************************************)
Refused(c) == readOnly \/ (allowlist /\ Op(c) \in {"taint", "untaint", "wipe"})

Ask(c) ==
    /\ pc[c] = "idle"
    /\ request' \in {[request EXCEPT ![c] = r] : r \in Requests}
    /\ GoTo(c, "asked")
    /\ UNCHANGED <<node, pod, config, draining, untainting, history>>

Refuse(c) ==
    /\ pc[c] = "asked"
    /\ Refused(c)
    /\ GoTo(c, "refused")
    /\ UNCHANGED <<node, pod, config, request, draining, untainting, history>>

Admitted(c, op) == pc[c] = "asked" /\ ~Refused(c) /\ Op(c) = op

(* A request has no effect: the node is unknown, or the request failed.     *)
Fails(c) ==
    /\ \/ pc[c] = "asked" /\ ~Refused(c)
       \/ pc[c] \in {"cordoning", "listing", "removing"}
    /\ GoTo(c, "failed")
    /\ UNCHANGED <<node, pod, config, request, draining, untainting, history>>

(* A write to the node is answered, or its answer is lost.                  *)
Answered(c, place) == GoTo(c, place) \/ GoTo(c, "failed")

Cordon(c) ==
    /\ Admitted(c, "cordon")
    /\ exists
    /\ unschedulable' = TRUE
    /\ Answered(c, "returned")
    /\ UNCHANGED <<exists, taints, pod, config, request, draining, untainting, history>>

Uncordon(c) ==
    /\ Admitted(c, "uncordon")
    /\ exists
    /\ unschedulable' = FALSE
    /\ steady' = {}
    /\ Answered(c, "returned")
    /\ UNCHANGED <<exists, taints, pod, config, request, draining, untainting, marked>>

(***************************************************************************)
(* drain_node.                                                             *)
(***************************************************************************)
ReadNode(c) ==
    /\ Admitted(c, "drain")
    /\ exists
    /\ GoTo(c, "cordoning")
    /\ UNCHANGED <<node, pod, config, request, draining, untainting, history>>

(* A faulty form: the node is not cordoned, because it was read cordoned or *)
(* because the step was forgotten.                                          *)
DrainForgetsCordon(c) ==
    /\ pc[c] = "cordoning"
    /\ exists
    /\ GoTo(c, "listing")
    /\ steady' = steady \cup {c}
    /\ UNCHANGED <<node, pod, config, request, draining, untainting, marked>>

DrainCordons(c) ==
    /\ pc[c] = "cordoning"
    /\ exists
    /\ unschedulable' = TRUE
    /\ steady' = steady \cup {c}
    /\ Answered(c, "listing")
    /\ UNCHANGED <<exists, taints, pod, config, request, draining, untainting, marked>>

(* The pods are listed once; the deadline runs from here.                   *)
List(c) ==
    /\ pc[c] = "listing"
    /\ todo' = [todo EXCEPT ![c] = OnNode]
    /\ GoTo(c, "evicting")
    /\ UNCHANGED <<node, pod, config, request, late, report, untainting, history>>

Put(c, p, where) ==
    /\ todo' = [todo EXCEPT ![c] = @ \ {p}]
    /\ report' = [report EXCEPT ![c][where] = @ \cup {p}]

Daemon(c, p) == p \in DaemonPods /\ ~Flagged(c, "ignore_daemonsets")
Scratch(c, p) == p \in EmptyDirs /\ ~Flagged(c, "delete_emptydir_data")
Evictable(c, p) == ~Daemon(c, p) /\ ~Scratch(c, p)

Skip(c, p) ==
    /\ pc[c] = "evicting" /\ p \in todo[c]
    /\ \/ Daemon(c, p) /\ Put(c, p, "daemonset")
       \/ ~Daemon(c, p) /\ Scratch(c, p) /\ Put(c, p, "emptydir")
    /\ UNCHANGED <<node, pod, config, pc, request, late, untainting, history>>

TooLate(c, p) ==
    /\ pc[c] = "evicting" /\ p \in todo[c]
    /\ Evictable(c, p)
    /\ c \in late
    /\ Put(c, p, "errors")
    /\ UNCHANGED <<node, pod, config, pc, request, late, untainting, history>>

(* A faulty form: the pod is recorded as evicted before the request.        *)
EvictFailsRecorded(c, p) ==
    /\ pc[c] = "evicting" /\ p \in todo[c]
    /\ Evictable(c, p)
    /\ c \notin late
    /\ todo' = [todo EXCEPT ![c] = @ \ {p}]
    /\ report' = [report EXCEPT ![c]["evicted"] = @ \cup {p}, ![c]["errors"] = @ \cup {p}]
    /\ UNCHANGED <<node, pod, config, pc, request, late, untainting, history>>

(* The apiserver refuses: a PodDisruptionBudget, or the pod is gone.        *)
EvictFails(c, p) ==
    /\ pc[c] = "evicting" /\ p \in todo[c]
    /\ Evictable(c, p)
    /\ c \notin late
    /\ Put(c, p, "errors")
    /\ UNCHANGED <<node, pod, config, pc, request, late, untainting, history>>

(* Eviction, or with force deletion: the pod begins to terminate.  If the   *)
(* answer is lost, the exception is not an ApiException and ends the drain. *)
Evict(c, p) ==
    /\ pc[c] = "evicting" /\ p \in todo[c]
    /\ Evictable(c, p)
    /\ c \notin late
    /\ pod[p] \in {"running", "terminating"}
    /\ pod' = [pod EXCEPT ![p] = "terminating"]
    /\ marked' = [marked EXCEPT ![c] = @ \cup {p}]
    /\ \/ Put(c, p, "evicted") /\ UNCHANGED pc
       \/ GoTo(c, "failed") /\ UNCHANGED <<todo, report>>
    /\ UNCHANGED <<node, config, request, late, untainting, steady>>

Drained(c) ==
    /\ pc[c] = "evicting"
    /\ todo[c] = {}
    /\ GoTo(c, "returned")
    /\ UNCHANGED <<node, pod, config, request, draining, untainting, history>>

DeadlinePasses(c) ==
    /\ pc[c] = "evicting"
    /\ c \notin late
    /\ late' = late \cup {c}
    /\ UNCHANGED <<node, pod, config, pc, request, todo, report, untainting, history>>

(***************************************************************************)
(* taint_node and untaint_node.                                            *)
(***************************************************************************)

(* JSON-patch `add` at the end of the list: it needs a list, and the        *)
(* apiserver refuses a taint that is there already.                         *)
AddTaint(c) ==
    /\ Admitted(c, "taint")
    /\ exists
    /\ taints # <<>>
    /\ request[c].taint \notin ToSet(taints)
    /\ taints' = Append(taints, request[c].taint)
    /\ Answered(c, "returned")
    /\ UNCHANGED <<exists, unschedulable, pod, config, request, draining, untainting,
                   history>>

Wipe(c) ==
    /\ Admitted(c, "wipe")
    /\ exists
    /\ taints' = <<>>
    /\ Answered(c, "returned")
    /\ UNCHANGED <<exists, unschedulable, pod, config, request, draining, untainting,
                   history>>

Positions(c) == {i \in DOMAIN taints : taints[i] = request[c].taint}

(* A faulty form: positions are counted from one.                           *)
LocateOffByOne(c) ==
    /\ Admitted(c, "untaint")
    /\ exists
    /\ \E i \in Positions(c) : target' = [target EXCEPT ![c] = i + 1]
    /\ seen' = [seen EXCEPT ![c] = taints]
    /\ GoTo(c, "removing")
    /\ UNCHANGED <<node, pod, config, request, draining, history>>

Locate(c) ==
    /\ Admitted(c, "untaint")
    /\ exists
    /\ \E i \in Positions(c) : target' = [target EXCEPT ![c] = i]
    /\ seen' = [seen EXCEPT ![c] = taints]
    /\ GoTo(c, "removing")
    /\ UNCHANGED <<node, pod, config, request, draining, history>>

NotPresent(c) ==
    /\ Admitted(c, "untaint")
    /\ exists
    /\ Positions(c) = {}
    /\ GoTo(c, "returned")
    /\ UNCHANGED <<node, pod, config, request, draining, untainting, history>>

(* JSON-patch `remove` by position, with no test of what is there.          *)
RemoveTaint(c) ==
    /\ pc[c] = "removing"
    /\ exists
    /\ target[c] \in DOMAIN taints
    /\ taints' = RemoveAt(taints, target[c])
    /\ Answered(c, "returned")
    /\ UNCHANGED <<exists, unschedulable, pod, config, request, draining, untainting,
                   history>>

(***************************************************************************)
(* The cluster: the scheduler leaves a cordoned node alone, the DaemonSet  *)
(* controller does not; pods end; the node may go.                         *)
(***************************************************************************)
Place(p) ==
    /\ exists
    /\ pod[p] = "pending"
    /\ unschedulable => p \in DaemonPods
    /\ pod' = [pod EXCEPT ![p] = "running"]
    /\ UNCHANGED <<node, config, pc, request, draining, untainting, history>>

PodEnds(p) ==
    /\ p \in OnNode
    /\ pod' = [pod EXCEPT ![p] = "gone"]
    /\ UNCHANGED <<node, config, pc, request, draining, untainting, history>>

Unregister ==
    /\ exists
    /\ exists' = FALSE
    /\ UNCHANGED <<unschedulable, taints, pod, config, pc, request, draining, untainting,
                   history>>

Guard(c) == Ask(c) \/ Refuse(c) \/ Fails(c)
Switch(c) == Cordon(c) \/ Uncordon(c)
Treat(c, p) == Skip(c, p) \/ TooLate(c, p) \/ EvictFails(c, p) \/ Evict(c, p)
Drain(c) ==
    \/ ReadNode(c) \/ DrainCordons(c) \/ List(c) \/ DeadlinePasses(c) \/ Drained(c)
    \/ \E p \in Pods : Treat(c, p)
Taint(c) == AddTaint(c) \/ Wipe(c) \/ Locate(c) \/ NotPresent(c) \/ RemoveTaint(c)
Cluster == Unregister \/ \E p \in Pods : Place(p) \/ PodEnds(p)

Next == Cluster \/ \E c \in Calls : Guard(c) \/ Switch(c) \/ Drain(c) \/ Taint(c)

Spec == Init /\ [][Next]_vars

-----------------------------------------------------------------------------

Reports == [Headings -> SUBSET Pods]
Mentioned(c) == UNION {report[c][h] : h \in Headings}

(* Every variable has its type; the apiserver keeps the taints distinct.    *)
TypeOK ==
    /\ exists \in BOOLEAN /\ unschedulable \in BOOLEAN
    /\ taints \in Seq(Taints)
    /\ \A i, j \in DOMAIN taints : taints[i] = taints[j] => i = j
    /\ pod \in [Pods -> {"pending", "running", "terminating", "gone"}]
    /\ readOnly \in BOOLEAN /\ allowlist \in BOOLEAN
    /\ pc \in [Calls -> {"idle", "asked", "cordoning", "listing", "evicting", "removing",
                         "refused", "returned", "failed"}]
    /\ request \in [Calls -> AllRequests \cup {NoRequest}]
    /\ \A c \in Calls : pc[c] \in {"cordoning", "listing", "evicting"} => Draining(c)
    /\ late \subseteq Calls /\ steady \subseteq Calls
    /\ todo \in [Calls -> SUBSET Pods] /\ report \in [Calls -> Reports]
    /\ target \in [Calls -> Nat] /\ seen \in [Calls -> Seq(Taints)]
    /\ \A c \in Calls : pc[c] = "removing" => target[c] \in DOMAIN seen[c]
    /\ marked \in [Calls -> SUBSET Pods]

(* drain_node misses nobody: from its listing on, as long as the node is    *)
(* not uncordoned by another call, every pod that runs on the node, other   *)
(* than those of DaemonSets, is still to be dealt with or is named in its   *)
(* answer as skipped or failed.  A `drained` node whose answer lists        *)
(* neither holds nothing but terminating and DaemonSet pods.                *)
DrainMissesNothing ==
    \A c \in steady : pc[c] \in {"evicting", "returned"} =>
        \A p \in Pods \ DaemonPods : pod[p] = "running" =>
            p \in todo[c] \cup report[c]["emptydir"] \cup report[c]["errors"]

(* The answer of a drain is true: it calls evicted exactly the pods that    *)
(* this drain marked for deletion, never calls one of them skipped or       *)
(* failed, and a drain marks DaemonSet and emptyDir pods only when its      *)
(* flags say so.                                                            *)
DrainReportIsTrue ==
    \A c \in Calls : Draining(c) =>
        /\ pc[c] # "failed" => marked[c] = report[c]["evicted"]
        /\ \A h \in Headings \ {"evicted"} : marked[c] \cap report[c][h] = {}
        /\ \A p \in marked[c] : Evictable(c, p)

(* untaint_node removes the taint it was given, unless another change of    *)
(* the taints slipped in between its two requests.                          *)
UntaintHitsUnlessRaced ==
    [][\A c \in Calls : RemoveTaint(c) /\ taints = seen[c] =>
          ToSet(taints') = ToSet(taints) \ {request[c].taint}]_vars

(* `remove a single taint` (node_ops.py:518; `add or remove a single taint  *)
(* ... atomic JSON Patch`, node_ops.py:10-11): what untaint_node removes is *)
(* the taint it was given and no other.                                     *)
UntaintRemovesItsOwn ==
    [][\A c \in Calls : RemoveTaint(c) =>
          ToSet(taints) \ ToSet(taints') \subseteq {request[c].taint}]_vars
=============================================================================
