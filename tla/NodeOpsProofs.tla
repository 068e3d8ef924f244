--------------------------- MODULE NodeOpsProofs ---------------------------
(***************************************************************************)
(* Theorems about NodeOps, for any number of calls, pods and taints.       *)
(***************************************************************************)
EXTENDS NodeOps, SequenceTheorems, TLAPS

-----------------------------------------------------------------------------
(* Types.                                                                  *)

LEMMA InitType == Init => TypeOK
<1> SUFFICES ASSUME Init PROVE TypeOK
  OBVIOUS
<1>1. /\ taints \in Seq(Taints)
      /\ \A i, j \in DOMAIN taints : taints[i] = taints[j] => i = j
  <2>1. CASE taints = <<>> BY <2>1
  <2>2. CASE taints \in [1..2 -> Taints] /\ taints[1] # taints[2]
    <3>1. taints \in Seq(Taints) BY <2>2, SeqDef
    <3> QED BY <2>2, <3>1
  <2> QED BY <2>1, <2>2 DEF Init
<1>2. NoRequest \in AllRequests \cup {NoRequest}
  OBVIOUS
<1>3. Empty \in Reports BY DEF Empty, Reports
<1>4. target \in [Calls -> Nat] /\ seen \in [Calls -> Seq(Taints)]
  BY DEF Init
<1> QED BY <1>1, <1>2, <1>3, <1>4 DEF Init, TypeOK

(* Taking one element out of a sequence without repetitions leaves one      *)
(* without repetitions, and exactly the other elements.                     *)
LEMMA RemovedOne ==
    ASSUME NEW S, NEW s \in Seq(S), NEW i \in DOMAIN s,
           \A j, k \in DOMAIN s : s[j] = s[k] => j = k
    PROVE  /\ RemoveAt(s, i) \in Seq(S)
           /\ \A j, k \in DOMAIN RemoveAt(s, i) :
                  RemoveAt(s, i)[j] = RemoveAt(s, i)[k] => j = k
           /\ ToSet(RemoveAt(s, i)) = ToSet(s) \ {s[i]}
<1> DEFINE r == RemoveAt(s, i)
           n == Len(s)
           At(j) == IF j < i THEN j ELSE j + 1
<1>1. n \in Nat /\ DOMAIN s = 1..n /\ i \in 1..n
  OBVIOUS
<1>2. /\ r \in Seq(S)
      /\ Len(r) = n - 1
      /\ \A j \in 1..(n - 1) : r[j] = s[At(j)]
  <2> DEFINE a == SubSeq(s, 1, i - 1)
             b == SubSeq(s, i + 1, n)
  <2>1. a \in Seq(S) /\ Len(a) = i - 1 /\ \A j \in 1..(i - 1) : a[j] = s[j]
    BY <1>1
  <2>2. b \in Seq(S) /\ Len(b) = n - i /\ \A j \in 1..(n - i) : b[j] = s[j + i]
    BY <1>1
  <2>3. r = a \o b BY DEF RemoveAt
  <2> HIDE DEF a, b, r
  <2>4. r \in Seq(S) /\ Len(r) = n - 1
    <3>1. r \in Seq(S) /\ Len(r) = Len(a) + Len(b) BY <2>1, <2>2, <2>3, ConcatProperties
    <3> QED BY <1>1, <2>1, <2>2, <3>1
  <2>5. ASSUME NEW j \in 1..(n - 1) PROVE r[j] = s[At(j)]
    <3>1. CASE j < i BY <1>1, <2>1, <2>2, <2>3, <3>1
    <3>2. CASE j >= i
      <4>1. r[j] = b[j - (i - 1)]
        <5>1. j \in 1..(Len(a) + Len(b)) /\ ~(j <= Len(a)) BY <1>1, <2>1, <2>2, <3>2
        <5>2. r[j] = b[j - Len(a)] BY <2>1, <2>2, <2>3, <5>1, ConcatProperties, ZenonT(60)
        <5> QED BY <2>1, <5>2
      <4>2. j - (i - 1) \in 1..(n - i) /\ (j - (i - 1)) + i = j + 1 BY <1>1, <3>2
      <4> QED BY <2>2, <3>2, <4>1, <4>2
    <3> QED BY <1>1, <3>1, <3>2
  <2> QED BY <2>4, <2>5
<1>3. DOMAIN r = 1..(n - 1)
  BY <1>1, <1>2
<1>4. \A j \in 1..(n - 1) : At(j) \in 1..n /\ At(j) # i
  BY <1>1
<1>5. \A j, k \in 1..(n - 1) : At(j) = At(k) => j = k
  BY <1>1
<1>6. \A m \in 1..n : m # i => \E j \in 1..(n - 1) : At(j) = m
  <2> SUFFICES ASSUME NEW m \in 1..n, m # i PROVE \E j \in 1..(n - 1) : At(j) = m
    OBVIOUS
  <2>1. CASE m < i BY <1>1, <2>1
  <2>2. CASE m > i
    <3>1. m - 1 \in 1..(n - 1) /\ At(m - 1) = m BY <1>1, <2>2
    <3> QED BY <3>1
  <2> QED BY <1>1, <2>1, <2>2
<1>7. \A j, k \in DOMAIN r : r[j] = r[k] => j = k
  <2> SUFFICES ASSUME NEW j \in DOMAIN r, NEW k \in DOMAIN r, r[j] = r[k] PROVE j = k
    OBVIOUS
  <2>1. s[At(j)] = s[At(k)] BY <1>2, <1>3
  <2>2. At(j) = At(k) BY <2>1, <1>1, <1>3, <1>4
  <2> HIDE DEF At
  <2> QED BY <2>2, <1>3, <1>5
<1> HIDE DEF At
<1>8. ToSet(r) \subseteq ToSet(s) \ {s[i]}
  <2> SUFFICES ASSUME NEW j \in DOMAIN r PROVE r[j] \in ToSet(s) \ {s[i]}
    BY DEF ToSet
  <2>1. r[j] = s[At(j)] /\ At(j) \in DOMAIN s /\ At(j) # i BY <1>1, <1>2, <1>3, <1>4
  <2> QED BY <2>1 DEF ToSet
<1>9. ToSet(s) \ {s[i]} \subseteq ToSet(r)
  <2> SUFFICES ASSUME NEW m \in DOMAIN s, s[m] # s[i] PROVE s[m] \in ToSet(r)
    BY DEF ToSet
  <2>1. PICK j \in 1..(n - 1) : At(j) = m BY <1>1, <1>6
  <2>2. r[j] = s[m] /\ j \in DOMAIN r BY <2>1, <1>2, <1>3
  <2> QED BY <2>2 DEF ToSet
<1> QED BY <1>2, <1>7, <1>8, <1>9

(* The pods a drain lists and reports stay pods of the cluster.             *)
LEMMA PutType ==
    ASSUME TypeOK, NEW c \in Calls, NEW p \in Pods,
           NEW where \in Headings, Put(c, p, where)
    PROVE  todo' \in [Calls -> SUBSET Pods] /\ report' \in [Calls -> Reports]
<1>1. report[c] \in Reports BY DEF TypeOK
<1>2. [report[c] EXCEPT ![where] = @ \cup {p}] \in Reports BY <1>1 DEF Reports
<1> QED BY <1>2 DEF TypeOK, Put

LEMMA TaintTyped ==
    ASSUME TypeOK, NEW c \in Calls, Op(c) \in {"taint", "untaint"}
    PROVE  request[c].taint \in Taints
<1>1. request[c] \in AllRequests \cup {NoRequest} BY DEF TypeOK
<1>2. CASE request[c] \in [op : {"taint", "untaint"}, taint : Taints]
  BY <1>2
<1>3. CASE request[c] \in [op : {"cordon", "uncordon", "wipe"}]
  BY <1>3 DEF Op
<1>4. CASE request[c] \in [op : {"drain"}, flags : Flags]
  BY <1>4 DEF Op
<1>5. CASE request[c] = NoRequest
  BY <1>5 DEF Op, NoRequest
<1> QED BY <1>1, <1>2, <1>3, <1>4, <1>5 DEF AllRequests

LEMMA NextType == TypeOK /\ [Next]_vars => TypeOK'
<1> SUFFICES ASSUME TypeOK, [Next]_vars PROVE TypeOK'
  OBVIOUS
<1> USE DEF node, config, draining, untainting, history, GoTo, Draining, Op
<1>1. CASE UNCHANGED vars
  BY <1>1 DEF TypeOK, vars
<1>2. ASSUME NEW c \in Calls, Guard(c) PROVE TypeOK'
  <2>1. CASE Ask(c)
    BY <2>1, RequestAssumption DEF TypeOK, Ask
  <2>2. CASE Refuse(c)
    BY <2>2 DEF TypeOK, Refuse
  <2>3. CASE Fails(c)
    BY <2>3 DEF TypeOK, Fails
  <2> QED BY <1>2, <2>1, <2>2, <2>3 DEF Guard
<1>3. ASSUME NEW c \in Calls, Switch(c) PROVE TypeOK'
  BY <1>3 DEF TypeOK, Switch, Cordon, Uncordon, Admitted, Answered
<1>4. ASSUME NEW c \in Calls, Drain(c) PROVE TypeOK'
  <2>1. CASE ReadNode(c)
    BY <2>1 DEF TypeOK, ReadNode, Admitted
  <2>2. CASE DrainCordons(c)
    BY <2>2 DEF TypeOK, DrainCordons, Answered
  <2>3. CASE List(c)
    BY <2>3 DEF TypeOK, List, OnNode
  <2>4. CASE DeadlinePasses(c)
    BY <2>4 DEF TypeOK, DeadlinePasses
  <2>5. CASE Drained(c)
    BY <2>5 DEF TypeOK, Drained
  <2>6. ASSUME NEW p \in Pods, Treat(c, p) PROVE TypeOK'
    <3>1. CASE Skip(c, p)
      BY <3>1, PutType DEF TypeOK, Skip, Headings
    <3>2. CASE TooLate(c, p)
      BY <3>2, PutType DEF TypeOK, TooLate, Headings
    <3>3. CASE EvictFails(c, p)
      BY <3>3, PutType DEF TypeOK, EvictFails, Headings
    <3>4. CASE Evict(c, p)
      <4>1. todo' \in [Calls -> SUBSET Pods] /\ report' \in [Calls -> Reports]
        BY <3>4, PutType DEF TypeOK, Evict, Headings
      <4>2. pod' \in [Pods -> {"pending", "running", "terminating", "gone"}]
        BY <3>4 DEF TypeOK, Evict
      <4>3. /\ pc' \in [Calls -> {"idle", "asked", "cordoning", "listing", "evicting",
                                 "removing", "refused", "returned", "failed"}]
            /\ \A d \in Calls : pc'[d] \in {pc[d], "failed"}
        BY <3>4 DEF TypeOK, Evict
      <4>4. marked' \in [Calls -> SUBSET Pods]
        BY <3>4 DEF TypeOK, Evict
      <4>5. UNCHANGED <<exists, unschedulable, taints, readOnly, allowlist, request, late,
                        target, seen, steady>>
        BY <3>4 DEF Evict
      <4> QED BY <4>1, <4>2, <4>3, <4>4, <4>5 DEF TypeOK
    <3> QED BY <2>6, <3>1, <3>2, <3>3, <3>4 DEF Treat
  <2> QED BY <1>4, <2>1, <2>2, <2>3, <2>4, <2>5, <2>6 DEF Drain
<1>5. ASSUME NEW c \in Calls, Taint(c) PROVE TypeOK'
  <2>1. CASE AddTaint(c)
    <3>1. request[c].taint \in Taints
      BY <2>1, TaintTyped DEF AddTaint, Admitted
    <3>2. /\ taints' \in Seq(Taints)
          /\ \A i, j \in DOMAIN taints' : taints'[i] = taints'[j] => i = j
      BY <2>1, <3>1 DEF AddTaint, TypeOK, ToSet
    <3> QED BY <2>1, <3>2 DEF TypeOK, AddTaint, Admitted, Answered
  <2>2. CASE Wipe(c)
    <3>1. taints' \in Seq(Taints)
      BY <2>2 DEF Wipe
    <3>2. \A i \in DOMAIN taints' : FALSE
      BY <2>2 DEF Wipe
    <3> QED BY <3>2, <2>2, <3>1 DEF TypeOK, Wipe, Admitted, Answered
  <2>3. CASE Locate(c)
    <3>1. PICK i \in DOMAIN taints : target' = [target EXCEPT ![c] = i]
      BY <2>3 DEF Locate, Positions
    <3>2. i \in Nat BY <3>1 DEF TypeOK
    <3> QED BY <2>3, <3>1, <3>2 DEF TypeOK, Locate, Admitted
  <2>4. CASE NotPresent(c)
    BY <2>4 DEF TypeOK, NotPresent, Admitted
  <2>5. CASE RemoveTaint(c)
    <3>1. /\ taints' \in Seq(Taints)
          /\ \A i, j \in DOMAIN taints' : taints'[i] = taints'[j] => i = j
      BY <2>5, RemovedOne DEF RemoveTaint, TypeOK
    <3> QED BY <2>5, <3>1 DEF TypeOK, RemoveTaint, Answered
  <2> QED BY <1>5, <2>1, <2>2, <2>3, <2>4, <2>5 DEF Taint
<1>6. CASE Cluster
  BY <1>6 DEF TypeOK, Cluster, Unregister, Place, PodEnds
<1> QED BY <1>1, <1>2, <1>3, <1>4, <1>5, <1>6 DEF Next

(* Every variable keeps its type, and the taints stay distinct, whatever    *)
(* the calls and the rest of the cluster do.                                *)
THEOREM TypeCorrect == Spec => []TypeOK
  BY InitType, NextType, PTL DEF Spec

-----------------------------------------------------------------------------
(* Draining.  What ties a call's list, report and marks together:           *)
(* before the listing all three are empty (Fresh), no pod is both to be     *)
(* dealt with and dealt with (Apart), and while nobody uncordons, a drain   *)
(* past its cordon has the node cordoned (Cordoned).                        *)

Fresh(c) ==
    pc[c] \in {"idle", "asked", "cordoning", "listing"} \/ ~Draining(c) =>
        todo[c] = {} /\ report[c] = Empty /\ marked[c] = {}

Apart(c) ==
    /\ todo[c] \cap Mentioned(c) = {}
    /\ pc[c] # "failed" => marked[c] \cap todo[c] = {}

Truthful(c) ==
    Draining(c) =>
        /\ pc[c] # "failed" => marked[c] = report[c]["evicted"]
        /\ \A h \in Headings \ {"evicted"} : marked[c] \cap report[c][h] = {}
        /\ \A p \in marked[c] : Evictable(c, p)

Cordoned(c) ==
    c \in steady =>
        unschedulable /\ Draining(c) /\ pc[c] \in {"listing", "evicting", "returned", "failed"}

Complete(c) ==
    c \in steady /\ pc[c] \in {"evicting", "returned"} =>
        \A p \in Pods \ DaemonPods : pod[p] = "running" =>
            p \in todo[c] \cup report[c]["emptydir"] \cup report[c]["errors"]

DrainOK(c) == Fresh(c) /\ Apart(c) /\ Truthful(c) /\ Cordoned(c) /\ Complete(c)

DrainInv == \A c \in Calls : DrainOK(c)

LEMMA InitDrain == Init => DrainInv
  BY DEF Init, DrainInv, DrainOK, Fresh, Apart, Truthful, Cordoned, Complete, Mentioned, Empty,
      Headings, Draining, Op, NoRequest

(* A step that leaves a call alone keeps its part, unless it uncordons the  *)
(* node and forgets no drain, or starts a pod behind the cordon.            *)
LEMMA DrainKept ==
    ASSUME NEW c \in Calls, DrainOK(c),
           pc'[c] = pc[c], request'[c] = request[c], todo'[c] = todo[c],
           report'[c] = report[c], marked'[c] = marked[c],
           c \in steady' => c \in steady,
           c \in steady' => (unschedulable => unschedulable'),
           \A p \in Pods \ DaemonPods :
               pod'[p] = "running" => pod[p] = "running" \/ ~unschedulable
    PROVE  DrainOK(c)'
  BY DEF DrainOK, Fresh, Apart, Truthful, Cordoned, Complete, Mentioned, Draining, Op, Evictable,
      Daemon, Scratch, Flagged

(* A call moves on, without draining anything, and is not past its cordon,  *)
(* or ends there.                                                           *)
LEMMA DrainMoved ==
    ASSUME NEW c \in Calls, DrainOK(c), pc[c] # "failed",
           pc'[c] \in {"asked", "idle", "cordoning", "listing"} /\ Draining(c) =>
               pc[c] \in {"asked", "idle", "cordoning", "listing"},
           request'[c] = request[c], todo'[c] = todo[c],
           report'[c] = report[c], marked'[c] = marked[c],
           c \in steady' => c \in steady /\ pc'[c] = "failed" /\ unschedulable' = unschedulable
    PROVE  DrainOK(c)'
<1> USE DEF DrainOK, Draining, Op
<1>1. Fresh(c)' BY DEF Fresh
<1>2. Apart(c)' BY DEF Apart, Mentioned
<1>3. Truthful(c)' BY DEF Truthful, Evictable, Daemon, Scratch, Flagged
<1>4. Cordoned(c)' BY DEF Cordoned
<1>5. Complete(c)' BY DEF Complete
<1> QED BY <1>1, <1>2, <1>3, <1>4, <1>5

LEMMA NextDrain == TypeOK /\ DrainInv /\ [Next]_vars => DrainInv'
<1> SUFFICES ASSUME TypeOK, DrainInv, [Next]_vars, NEW d \in Calls PROVE DrainOK(d)'
  BY DEF DrainInv
<1> USE DEF node, config, draining, untainting, history, GoTo
<1>0. DrainOK(d)
  BY DEF DrainInv
<1>1. CASE UNCHANGED vars
  BY <1>0, <1>1, DrainKept DEF vars
<1>2. ASSUME NEW c \in Calls, c # d, Guard(c) \/ Switch(c) \/ Drain(c) \/ Taint(c)
      PROVE  DrainOK(d)'
  <2>1. CASE Guard(c)
    BY <1>0, <1>2, <2>1, DrainKept DEF Guard, Ask, Refuse, Fails, TypeOK
  <2>2. CASE Switch(c)
    <3>1. pc'[d] = pc[d]
      BY <1>2, <2>2 DEF Switch, Cordon, Uncordon, Answered, TypeOK
    <3>2. UNCHANGED <<pod, request, todo, report, marked>>
      BY <2>2 DEF Switch, Cordon, Uncordon
    <3>3. steady' = {} \/ (steady' = steady /\ unschedulable')
      BY <2>2 DEF Switch, Cordon, Uncordon
    <3> QED BY <1>0, <3>1, <3>2, <3>3, DrainKept
  <2>3. CASE Taint(c)
    <3>1. pc'[d] = pc[d]
      BY <1>2, <2>3
      DEF Taint, AddTaint, Wipe, Locate, NotPresent, RemoveTaint, Answered, TypeOK
    <3>2. UNCHANGED <<unschedulable, pod, request, todo, report, marked, steady>>
      BY <2>3 DEF Taint, AddTaint, Wipe, Locate, NotPresent, RemoveTaint
    <3> QED BY <1>0, <3>1, <3>2, DrainKept
  <2>4. CASE ReadNode(c) \/ DrainCordons(c) \/ List(c) \/ DeadlinePasses(c) \/ Drained(c)
    BY <1>0, <1>2, <2>4, DrainKept
    DEF ReadNode, DrainCordons, List, DeadlinePasses, Drained, Answered, TypeOK
  <2>5. ASSUME NEW p \in Pods, Treat(c, p) PROVE DrainOK(d)'
    BY <1>0, <1>2, <2>5, DrainKept
    DEF Treat, Skip, TooLate, EvictFails, Evict, Put, TypeOK
  <2> QED BY <1>2, <2>1, <2>2, <2>3, <2>4, <2>5 DEF Drain
<1>3. CASE Guard(d) \/ Switch(d) \/ Taint(d)
  <2>1. CASE Ask(d)
    <3>1. /\ pc[d] = "idle" /\ pc'[d] = "asked"
          /\ UNCHANGED <<todo, report, marked, steady>>
      BY <2>1 DEF Ask, TypeOK
    <3>2. /\ todo[d] = {} /\ report[d] = Empty /\ marked[d] = {}
          /\ d \notin steady
      BY <1>0, <3>1 DEF DrainOK, Fresh, Cordoned
    <3>3. Fresh(d)' BY <3>1, <3>2 DEF Fresh
    <3>4. Apart(d)' BY <3>1, <3>2 DEF Apart
    <3>5. Truthful(d)' BY <3>1, <3>2 DEF Truthful, Empty, Headings
    <3>6. Cordoned(d)' /\ Complete(d)' BY <3>1, <3>2 DEF Cordoned, Complete
    <3> QED BY <3>3, <3>4, <3>5, <3>6 DEF DrainOK
  <2>2. CASE Refuse(d) \/ Fails(d)
    <3>1. /\ pc[d] \in {"asked", "cordoning", "listing", "removing"}
          /\ \/ pc[d] = "asked" /\ pc'[d] = "refused"
             \/ pc'[d] = "failed"
          /\ UNCHANGED <<unschedulable, request, todo, report, marked, steady>>
      BY <2>2 DEF Refuse, Fails, TypeOK
    <3>2. pc[d] = "asked" => d \notin steady BY <1>0 DEF DrainOK, Cordoned
    <3> QED BY <1>0, <3>1, <3>2, DrainMoved
  <2>3. CASE Switch(d)
    <3>1. d \notin steady
      BY <1>0, <2>3 DEF Switch, Cordon, Uncordon, Admitted, DrainOK, Cordoned
    <3> QED BY <1>0, <2>3, <3>1, DrainMoved
            DEF Switch, Cordon, Uncordon, Admitted, Answered, TypeOK
  <2>4. CASE Taint(d)
    <3>1. d \notin steady /\ pc[d] \in {"asked", "removing"}
      BY <1>0, <2>4
      DEF Taint, AddTaint, Wipe, Locate, NotPresent, RemoveTaint, Admitted, DrainOK, Cordoned
    <3>2. pc'[d] \in {"removing", "returned", "failed"}
      BY <2>4
      DEF Taint, AddTaint, Wipe, Locate, NotPresent, RemoveTaint, Answered, TypeOK
    <3>3. UNCHANGED <<request, todo, report, marked, steady>>
      BY <2>4 DEF Taint, AddTaint, Wipe, Locate, NotPresent, RemoveTaint
    <3> QED BY <1>0, <3>1, <3>2, <3>3, DrainMoved
  <2> QED BY <1>3, <2>1, <2>2, <2>3, <2>4 DEF Guard
<1>4. CASE Drain(d)
  <2>1. CASE ReadNode(d)
    BY <1>0, <2>1 DEF ReadNode, Admitted, TypeOK, DrainOK, Fresh, Apart, Truthful, Cordoned,
       Complete, Mentioned, Draining, Op
  <2>2. CASE DrainCordons(d)
    BY <1>0, <2>2 DEF DrainCordons, Answered, TypeOK, DrainOK, Fresh, Apart, Truthful,
       Cordoned, Complete, Mentioned, Draining, Op, Empty, Headings
  <2>3. CASE List(d)
    BY <1>0, <2>3 DEF List, OnNode, TypeOK, DrainOK, Fresh, Apart, Truthful, Cordoned,
       Complete, Mentioned, Empty, Headings, Draining, Op
  <2>4. CASE DeadlinePasses(d)
    BY <1>0, <2>4, DrainKept DEF DeadlinePasses
  <2>5. CASE Drained(d)
    BY <1>0, <2>5 DEF Drained, TypeOK, DrainOK, Fresh, Apart, Truthful, Cordoned, Complete,
       Mentioned, Draining, Op, Evictable, Daemon, Scratch, Flagged
  <2>6. ASSUME NEW p \in Pods, Treat(d, p) PROVE DrainOK(d)'
    <3>1. /\ pc[d] = "evicting" /\ p \in todo[d]
          /\ Draining(d)
          /\ p \notin Mentioned(d) /\ p \notin marked[d]
          /\ UNCHANGED <<request, steady, unschedulable>>
      BY <1>0, <2>6 DEF Treat, Skip, TooLate, EvictFails, Evict, TypeOK, DrainOK, Apart
    <3>2. Fresh(d)' BY <2>6, <3>1 DEF Treat, Skip, TooLate, EvictFails, Evict, Fresh, TypeOK, Draining, Op
    <3>3. ASSUME NEW where \in Headings, Put(d, p, where)
          PROVE  /\ todo'[d] = todo[d] \ {p}
                 /\ \A h \in Headings :
                       report'[d][h] = report[d][h] \cup (IF h = where THEN {p} ELSE {})
      <4>1. report[d] \in [Headings -> SUBSET Pods] BY DEF TypeOK, Reports
      <4>2. /\ todo'[d] = todo[d] \ {p}
            /\ report'[d] = [report[d] EXCEPT ![where] = @ \cup {p}]
        BY <3>3 DEF Put, TypeOK
      <4> QED BY <4>1, <4>2
    <3>4. CASE Skip(d, p) \/ TooLate(d, p) \/ EvictFails(d, p)
      <4>1. PICK where \in Headings \ {"evicted"} :
                /\ Put(d, p, where)
                /\ where = "daemonset" => p \in DaemonPods
        BY <3>4 DEF Skip, TooLate, EvictFails, Headings, Daemon
      <4>2. UNCHANGED <<pod, pc, marked>>
        BY <3>4 DEF Skip, TooLate, EvictFails
      <4>3. /\ todo'[d] = todo[d] \ {p}
            /\ \A h \in Headings :
                  report'[d][h] = report[d][h] \cup (IF h = where THEN {p} ELSE {})
        BY <3>3, <4>1
      <4>4. Apart(d)' BY <1>0, <3>1, <4>2, <4>3 DEF DrainOK, Apart, Mentioned
      <4>5. Truthful(d)'
        BY <1>0, <3>1, <4>1, <4>2, <4>3, ZenonT(60)
        DEF DrainOK, Truthful, Draining, Op, Evictable, Daemon, Scratch, Flagged, Headings
      <4>6. Cordoned(d)' BY <1>0, <3>1, <4>2 DEF DrainOK, Cordoned, Draining, Op
      <4>7. Complete(d)'
        BY <1>0, <3>1, <4>1, <4>2, <4>3 DEF DrainOK, Complete, Headings
      <4> QED BY <3>2, <4>4, <4>5, <4>6, <4>7 DEF DrainOK
    <3>5. CASE Evict(d, p)
      <4>1. /\ pod' = [pod EXCEPT ![p] = "terminating"]
            /\ marked'[d] = marked[d] \cup {p}
            /\ Evictable(d, p)
        BY <3>5 DEF Evict, TypeOK
      <4>2. \A q \in Pods : pod'[q] = "running" => pod[q] = "running" /\ q # p
        BY <4>1 DEF TypeOK
      <4>3. CASE Put(d, p, "evicted") /\ UNCHANGED pc
        <5>1. /\ todo'[d] = todo[d] \ {p}
              /\ \A h \in Headings :
                    report'[d][h] = report[d][h] \cup (IF h = "evicted" THEN {p} ELSE {})
          BY <3>3, <4>3 DEF Headings
        <5>2. Apart(d)' BY <1>0, <3>1, <4>1, <4>3, <5>1 DEF DrainOK, Apart, Mentioned
        <5>3. Truthful(d)'
          BY <1>0, <3>1, <4>1, <4>3, <5>1
          DEF DrainOK, Truthful, Mentioned, Draining, Op, Evictable, Daemon, Scratch, Flagged, Headings
        <5>4. Cordoned(d)' BY <1>0, <3>1, <4>3 DEF DrainOK, Cordoned, Draining, Op
        <5>5. Complete(d)' BY <1>0, <3>1, <4>2, <4>3, <5>1 DEF DrainOK, Complete, Headings
        <5> QED BY <3>2, <5>2, <5>3, <5>4, <5>5 DEF DrainOK
      <4>4. CASE GoTo(d, "failed") /\ UNCHANGED <<todo, report>>
        <5>1. pc'[d] = "failed" BY <4>4 DEF TypeOK
        <5>2. Apart(d)' BY <1>0, <4>4, <5>1 DEF DrainOK, Apart, Mentioned
        <5>3. Truthful(d)'
          BY <1>0, <3>1, <4>1, <4>4, <5>1
          DEF DrainOK, Truthful, Mentioned, Draining, Op, Evictable, Daemon, Scratch, Flagged
        <5>4. Cordoned(d)' BY <1>0, <3>1, <5>1 DEF DrainOK, Cordoned, Draining, Op
        <5>5. Complete(d)' BY <5>1 DEF Complete
        <5> QED BY <3>2, <5>2, <5>3, <5>4, <5>5 DEF DrainOK
      <4> QED BY <3>5, <4>3, <4>4 DEF Evict
    <3> QED BY <2>6, <3>4, <3>5 DEF Treat
  <2> QED BY <1>4, <2>1, <2>2, <2>3, <2>4, <2>5, <2>6 DEF Drain
<1>5. CASE Cluster
  BY <1>0, <1>5, DrainKept DEF Cluster, Unregister, Place, PodEnds, TypeOK
<1> QED BY <1>1, <1>2, <1>3, <1>4, <1>5 DEF Next

LEMMA DrainInvariant == Spec => [](TypeOK /\ DrainInv)
<1>1. Init => TypeOK /\ DrainInv BY InitType, InitDrain
<1>2. TypeOK /\ DrainInv /\ [Next]_vars => (TypeOK /\ DrainInv)' BY NextType, NextDrain
<1> QED BY <1>1, <1>2, PTL DEF Spec

(* From its listing on, and while nobody uncordons, a drain owes an answer  *)
(* for every pod that still runs on the node.                               *)
THEOREM DrainsMissNothing == Spec => []DrainMissesNothing
<1>1. TypeOK /\ DrainInv => DrainMissesNothing
  BY DEF TypeOK, DrainInv, DrainOK, Complete, DrainMissesNothing
<1> QED BY <1>1, DrainInvariant, PTL

(* The answer of a drain is true.                                           *)
THEOREM DrainReportsStayTrue == Spec => []DrainReportIsTrue
<1>1. DrainInv => DrainReportIsTrue
  BY DEF DrainInv, DrainOK, Truthful, DrainReportIsTrue
<1> QED BY <1>1, DrainInvariant, PTL

-----------------------------------------------------------------------------
(* Untaint: the position found is the position of the taint asked for.      *)

Found ==
    \A c \in Calls : pc[c] = "removing" =>
        /\ target[c] \in DOMAIN seen[c]
        /\ seen[c][target[c]] = request[c].taint

LEMMA InitFound == Init => Found
  BY DEF Init, Found

LEMMA NextFound == TypeOK /\ Found /\ [Next]_vars => Found'
<1> SUFFICES ASSUME TypeOK, Found, [Next]_vars, NEW d \in Calls, pc'[d] = "removing"
             PROVE  /\ target'[d] \in DOMAIN seen'[d]
                    /\ seen'[d][target'[d]] = request'[d].taint
  BY DEF Found
<1> USE DEF node, config, draining, untainting, history, GoTo
<1>1. ASSUME pc[d] = "removing", UNCHANGED <<target, seen>>, request'[d] = request[d]
      PROVE  /\ target'[d] \in DOMAIN seen'[d]
             /\ seen'[d][target'[d]] = request'[d].taint
  BY <1>1 DEF Found
<1>2. CASE UNCHANGED vars
  BY <1>1, <1>2 DEF vars
<1>3. ASSUME NEW c \in Calls, Guard(c) \/ Switch(c)
      PROVE  /\ pc[d] = "removing" /\ UNCHANGED <<target, seen>>
             /\ request'[d] = request[d]
  BY <1>3 DEF Guard, Ask, Refuse, Fails, Switch, Cordon, Uncordon, Admitted, Answered, TypeOK
<1>4. ASSUME NEW c \in Calls, Drain(c)
      PROVE  pc[d] = "removing" /\ UNCHANGED <<target, seen, request>>
  <2>1. CASE ReadNode(c) \/ DrainCordons(c) \/ List(c) \/ DeadlinePasses(c) \/ Drained(c)
    BY <2>1 DEF ReadNode, DrainCordons, List, DeadlinePasses, Drained, Answered, TypeOK
  <2>2. ASSUME NEW p \in Pods, Treat(c, p)
        PROVE  pc[d] = "removing" /\ UNCHANGED <<target, seen, request>>
    BY <2>2 DEF Treat, Skip, TooLate, EvictFails, Evict, Put, TypeOK
  <2> QED BY <1>4, <2>1, <2>2 DEF Drain
<1>5. ASSUME NEW c \in Calls, AddTaint(c) \/ Wipe(c) \/ NotPresent(c) \/ RemoveTaint(c)
      PROVE  pc[d] = "removing" /\ UNCHANGED <<target, seen, request>>
  BY <1>5 DEF AddTaint, Wipe, NotPresent, RemoveTaint, Answered, TypeOK
<1>6. ASSUME NEW c \in Calls, Locate(c), c # d
      PROVE  /\ target'[d] \in DOMAIN seen'[d]
             /\ seen'[d][target'[d]] = request'[d].taint
  BY <1>6 DEF Locate, Positions, Found, TypeOK
<1>7. CASE Locate(d)
  <2>1. PICK i \in DOMAIN taints :
            taints[i] = request[d].taint /\ target' = [target EXCEPT ![d] = i]
    BY <1>7 DEF Locate, Positions
  <2>2. seen'[d] = taints /\ target'[d] = i /\ request' = request
    BY <1>7, <2>1 DEF Locate, TypeOK
  <2> QED BY <2>1, <2>2
<1>8. CASE Cluster
  BY <1>1, <1>8 DEF Cluster, Unregister, Place, PodEnds
<1> QED BY <1>1, <1>2, <1>3, <1>4, <1>5, <1>6, <1>7, <1>8 DEF Next, Taint

(* Without a race between its two requests, untaint_node removes the taint  *)
(* it was asked to remove.                                                  *)
THEOREM UntaintHits == Spec => UntaintHitsUnlessRaced
<1>1. ASSUME TypeOK, Found, [Next]_vars, NEW c \in Calls, RemoveTaint(c), taints = seen[c]
      PROVE  ToSet(taints') = ToSet(taints) \ {request[c].taint}
  <2>1. /\ pc[c] = "removing" /\ target[c] \in DOMAIN taints
        /\ taints' = RemoveAt(taints, target[c])
    BY <1>1 DEF RemoveTaint
  <2>2. taints[target[c]] = request[c].taint
    BY <1>1, <2>1 DEF Found
  <2> QED BY <1>1, <2>1, <2>2, RemovedOne DEF TypeOK
<1>2. Spec => []Found
  BY InitFound, NextFound, TypeCorrect, PTL DEF Spec
<1>3. TypeOK /\ Found /\ [Next]_vars =>
        [\A c \in Calls : RemoveTaint(c) /\ taints = seen[c] =>
            ToSet(taints') = ToSet(taints) \ {request[c].taint}]_vars
  BY <1>1
<1> QED BY <1>2, <1>3, TypeCorrect, PTL DEF Spec, UntaintHitsUnlessRaced
=============================================================================
