--------------------------- MODULE RbacAnalysis ----------------------------
(***************************************************************************)
(* tools/rbac.py: the four create_* tools, as what they apply, and         *)
(* analyze_rbac, as what it derives from the roles and bindings it lists.  *)
(* A list of rules, verbs or subjects is a set: no verdict depends on the  *)
(* order, except for which of several roles of one name is shown.  A rule  *)
(* without resourceNames has the empty set of them.                        *)
(***************************************************************************)
CONSTANT None  (* an argument that is not given, a namespace of a cluster-scoped object *)

All == "*"
Core == "core"
(* A resource, or a subresource of it; `*` is all of both, `*/x` the        *)
(* subresource x of all.                                                    *)
AllResources == [name |-> All, sub |-> None]
Refused == [refused |-> TRUE]
GroupsOf(rule) == IF rule.groups = None THEN {Core} ELSE rule.groups

(***************************************************************************)
(* What is written.                                                        *)
(***************************************************************************)
ValidRule(rule, allowWildcard) ==
    /\ rule.verbs # {}
    /\ \/ allowWildcard
       \/ ~(rule.verbs = {All} /\ rule.resources = {AllResources} /\ GroupsOf(rule) = {All})

Normalized(rule) == [rule EXCEPT !.groups = GroupsOf(rule)]

(* apiGroup follows the kind, and only a ServiceAccount keeps a namespace.  *)
NormalSubject(s) == [s EXCEPT !.ns = IF s.kind = "ServiceAccount" THEN @ ELSE None]

CreateRole(r) ==
    IF r.rules = {} \/ \E rule \in r.rules : ~ValidRule(rule, r.allowWildcard)
    THEN Refused
    ELSE [kind |-> "Role", ns |-> r.ns, name |-> r.name,
          rules |-> {Normalized(rule) : rule \in r.rules}]

CreateClusterRole(r) ==
    IF CreateRole(r) = Refused
    THEN Refused
    ELSE [CreateRole(r) EXCEPT !.kind = "ClusterRole", !.ns = None]

NamelessAmong(subjects) == \E s \in subjects : None \in {s.kind, s.name}

CreateRoleBinding(r) ==
    IF \/ r.refKind \notin {"Role", "ClusterRole"}
       \/ r.subjects = {} \/ NamelessAmong(r.subjects)
    THEN Refused
    ELSE [kind |-> "RoleBinding", ns |-> r.ns, name |-> r.name,
          refKind |-> r.refKind, refName |-> r.refName,
          subjects |-> {NormalSubject(s) : s \in r.subjects}]

CreateClusterRoleBinding(r) ==
    IF r.subjects = {} \/ NamelessAmong(r.subjects)
    THEN Refused
    ELSE [CreateRoleBinding([r EXCEPT !.refKind = "ClusterRole"])
             EXCEPT !.kind = "ClusterRoleBinding", !.ns = None]

(***************************************************************************)
(* What is read.  A needle is a name, or `Kind:name` when it has a kind.   *)
(***************************************************************************)
(* A faulty form: the kind of the needle is not looked at.                  *)
SubjectMatchesByName(s, needle) == s.name = needle.name

SubjectMatches(s, needle) == s.name = needle.name /\ needle.kind \in {None, s.kind}

(* A faulty form: a wildcard is an ordinary name.                           *)
RuleMatchesLiterally(rule, q) ==
    /\ q.verb = None \/ q.verb \in rule.verbs
    /\ q.resource = None \/ q.resource \in rule.resources
    /\ q.group = None \/ q.group \in rule.groups

(* resourceNames, and subresources of all, are not looked at.               *)
RuleMatches(rule, q) ==
    /\ q.verb = None \/ {q.verb, All} \cap rule.verbs # {}
    /\ q.resource = None \/ {q.resource, AllResources} \cap rule.resources # {}
    /\ q.group = None \/ {q.group, All} \cap GroupsOf(rule) # {}

(* Without a namespace everything is listed, with one only its own objects. *)
Scope(cluster, ns) ==
    [roles |-> {r \in cluster.roles : ns \in {None, r.ns}},
     bindings |-> {b \in cluster.bindings : ns \in {None, b.ns}}]

(* A binding and a role are joined by kind and name, never by namespace.    *)
RefersTo(b, r) == b.refKind = r.kind /\ b.refName = r.name

(* Mode 2: the rows of `who can`.                                           *)
Grants(r, q) == \E rule \in r.rules : RuleMatches(rule, q)
RuleReport(scope, q) ==
    UNION {{[subject |-> s, binding |-> t[1], role |-> t[2]] : s \in t[1].subjects} :
              t \in {t \in scope.bindings \X scope.roles : RefersTo(t[1], t[2]) /\ Grants(t[2], q)}}

(* A role with no binding is reported as unreachable when no row is left.   *)
Unused(scope, q) ==
    {r \in scope.roles : Grants(r, q) /\ RuleReport(scope, q) = {}}

(* Mode 1: each binding of the subject and the rules of the role found for  *)
(* it, or None.  Of several roles of one kind and name the first is taken.  *)
SubjectBindings(scope, needle) ==
    {b \in scope.bindings : \E s \in b.subjects : SubjectMatches(s, needle)}
FindRole(scope, b) ==
    LET named == {r \in scope.roles : RefersTo(b, r)}
    IN  IF named = {} THEN {None} ELSE named
SubjectReports(scope, needle) ==
    {f \in [SubjectBindings(scope, needle) -> scope.roles \cup {None}] :
        \A b \in DOMAIN f : f[b] \in FindRole(scope, b)}

WideRule(rule) == All \in rule.verbs \/ AllResources \in rule.resources
Wildcard(rule) == WideRule(rule) \/ All \in GroupsOf(rule)

(* Modes 3 and 4: counts by kind, and the rules with a wildcard.  In the    *)
(* listing of one namespace a wildcard group does not count.                *)
NamespaceReport(scope) ==
    [roles |-> scope.roles, bindings |-> scope.bindings,
     wild |-> {r \in scope.roles : \E rule \in r.rules : WideRule(rule)}]
SummaryReport(scope) ==
    [ofKind |-> [k \in {"Role", "ClusterRole", "RoleBinding", "ClusterRoleBinding"} |->
                    {x \in scope.roles \cup scope.bindings : x.kind = k}],
     wild |-> UNION {{<<r, rule>> : rule \in {x \in r.rules : Wildcard(x)}} : r \in scope.roles}]

Mode(q) ==
    CASE q.subject # None -> "subject"
      [] q.subject = None /\ (q.verb # None \/ q.resource # None) -> "rule"
      [] q.subject = None /\ q.verb = None /\ q.resource = None /\ q.ns # None -> "namespace"
      [] OTHER -> "summary"

(* The possible answers.                                                    *)
AnalyzeRbac(cluster, q) ==
    LET scope == Scope(cluster, q.ns)
    IN  CASE Mode(q) = "subject" -> SubjectReports(scope, q.subject)
          [] Mode(q) = "rule" -> {[rows |-> RuleReport(scope, q), unused |-> Unused(scope, q)]}
          [] Mode(q) = "namespace" -> {NamespaceReport(scope)}
          [] Mode(q) = "summary" -> {SummaryReport(scope)}

(* whoami: who the server is, and what it may do in a namespace when the    *)
(* apiserver says so.                                                       *)
Whoami(identity, rules) ==
    IF identity = None THEN [identity |-> None]
    ELSE [identity |-> identity, permissions |-> rules]

(***************************************************************************)
(* The reference: what Kubernetes lets a subject do, in a namespace, to an *)
(* object of this name, or None in a request that names none.              *)
(***************************************************************************)
Bound(cluster, b) ==
    {r \in cluster.roles : RefersTo(b, r) /\ (r.kind = "Role" => r.ns = b.ns)}
CoversResource(rule, resource) ==
    \/ {resource, AllResources} \cap rule.resources # {}
    \/ resource.sub # None /\ [resource EXCEPT !.name = All] \in rule.resources
Permits(rule, act, name) ==
    /\ All \in rule.verbs \/ act.verb \in rule.verbs
    /\ CoversResource(rule, act.resource)
    /\ All \in rule.groups \/ act.group \in rule.groups
    /\ rule.names = {} \/ name \in rule.names
May(cluster, s, act, name, ns) ==
    \E b \in cluster.bindings :
        /\ b.kind = "ClusterRoleBinding" \/ b.ns = ns
        /\ s \in b.subjects
        /\ \E r \in Bound(cluster, b) : \E rule \in r.rules : Permits(rule, act, name)

(* A request to create or to delete a collection names no object.           *)
NeverNamed == {"create", "deletecollection"}
ObjectNames(cluster, act) ==
    {None} \cup IF act.verb \in NeverNamed THEN {}
               ELSE UNION {rule.names : rule \in UNION {r.rules : r \in cluster.roles}}
=============================================================================
