-------------------------- MODULE ReadToolsProofs --------------------------
(***************************************************************************)
(* What the reading tools conclude, for any cluster that they may read.    *)
(* The part of the invariant that is proved by steps says where an answer  *)
(* comes from; the rest is about the operators that compute it.            *)
(***************************************************************************)
EXTENDS ReadTools, FiniteSetTheorems, SequenceTheorems, WellFoundedInduction, TLAPS

(* An answer of the tools looked at here is of what the tool was given.     *)
AnswersCome ==
    /\ Of("analyze_rbac") =>
          /\ answer.in \in Inputs["analyze_rbac"]
          /\ answer.out \in Rbac!AnalyzeRbac(answer.in.cluster, answer.in.query)
    /\ Of("pod_view") =>
          \E in \in Inputs["analyze_networkpolicy"] : \E x \in DOMAIN in.pods :
              /\ answer.in = [policies |-> in.policies, labels |-> in.pods[x]]
              /\ answer.out = Policies!PodView(in.policies, in.pods[x])
    /\ Of("coverage_view") =>
          /\ answer.in \in Inputs["analyze_networkpolicy"]
          /\ answer.out = Policies!CoverageView(answer.in.policies, answer.in.pods)
    /\ Of("cluster_health_snapshot") =>
          answer.in \in Inputs["health"] /\ answer.out \in Health!Snapshot(answer.in)
    /\ Of("list_events") =>
          /\ answer.in \in Inputs["events"]
          /\ answer.out \in Reports!ListEvents(answer.in)
    /\ Of("gpu_mig_overview") =>
          /\ answer.in \in Inputs["gpu"]
          /\ answer.out = Gpu!MigOverview(answer.in.nodes, answer.in.pods)
    /\ Of("get_pod_logs") =>
          /\ answer.in \in Inputs["logs"]
          /\ answer.out \in Logs!GetPodLogs(answer.in, answer.in.pods, answer.in.log, answer.in.order)

(* The other tools have names of their own.                                 *)
Elsewhere ==
    answer.tool \notin {"analyze_rbac", "pod_view", "coverage_view",
                        "cluster_health_snapshot", "list_events",
                        "gpu_mig_overview", "get_pod_logs"}

LEMMA InitAnswers == Init => AnswersCome
BY DEF Init, Waiting, AnswersCome, Of

LEMMA OthersElsewhere ==
    CreateRbac \/ WhoAmI \/ CreateNetworkPolicy \/ GpuWorkloads \/ GpuDiagnosis
       \/ GpuMetrics \/ Certificates \/ AuditResources \/ Diagnose \/ ExplainPod \/ Return
    => Elsewhere'
<1>1. ASSUME CreateRbac \/ WhoAmI \/ CreateNetworkPolicy PROVE Elsewhere'
  BY <1>1 DEF CreateRbac, WhoAmI, CreateNetworkPolicy, Answer, Elsewhere
<1>2. ASSUME GpuWorkloads PROVE Elsewhere'
  BY <1>2 DEF GpuWorkloads, Answer, Elsewhere
<1>3. ASSUME GpuDiagnosis \/ GpuMetrics PROVE Elsewhere'
  BY <1>3 DEF GpuDiagnosis, GpuMetrics, Answer, Elsewhere
<1>4. ASSUME Certificates PROVE Elsewhere'
  BY <1>4 DEF Certificates, Answer, Elsewhere
<1>5. ASSUME AuditResources \/ Diagnose PROVE Elsewhere'
  BY <1>5 DEF AuditResources, Diagnose, Answer, Elsewhere
<1>6. ASSUME ExplainPod PROVE Elsewhere'
  BY <1>6 DEF ExplainPod, Answer, Elsewhere
<1>7. ASSUME Return PROVE Elsewhere'
  BY <1>7 DEF Return, Waiting, Elsewhere
<1> QED BY <1>1, <1>2, <1>3, <1>4, <1>5, <1>6, <1>7

LEMMA NextAnswers == AnswersCome /\ [Next]_answer => AnswersCome'
<1> SUFFICES ASSUME AnswersCome, [Next]_answer PROVE AnswersCome'
  OBVIOUS
<1>1. ASSUME Elsewhere' PROVE AnswersCome'
  BY <1>1 DEF Elsewhere, AnswersCome, Of
<1>2. CASE AnalyzeRbac
  BY <1>2 DEF AnalyzeRbac, Answer, AnswersCome, Of
<1>3. CASE AnalyzeNetworkPolicy
  BY <1>3 DEF AnalyzeNetworkPolicy, Answer, AnswersCome, Of
<1>4. CASE ClusterHealth
  BY <1>4 DEF ClusterHealth, Answer, AnswersCome, Of
<1>5. CASE ListEvents
  BY <1>5 DEF ListEvents, Answer, AnswersCome, Of
<1>6. CASE GpuNodes
  BY <1>6 DEF GpuNodes, Answer, AnswersCome, Of
<1>7. CASE GetPodLogs
  BY <1>7 DEF GetPodLogs, Answer, AnswersCome, Of
<1>8. CASE UNCHANGED answer
  BY <1>8 DEF AnswersCome, Of
<1> QED BY <1>1, <1>2, <1>3, <1>4, <1>5, <1>6, <1>7, <1>8, OthersElsewhere DEF Next, Call

LEMMA AnswersInvariant == Spec => []AnswersCome
BY InitAnswers, NextAnswers, PTL DEF Spec

-----------------------------------------------------------------------------
(* Roles and bindings.                                                     *)

(* Asked of the whole cluster, everything is in scope.                      *)
LEMMA WholeScope ==
    ASSUME NEW cluster
    PROVE  /\ Rbac!Scope(cluster, None).roles = cluster.roles
           /\ Rbac!Scope(cluster, None).bindings = cluster.bindings
BY DEF Rbac!Scope

(* For a question that names all three, what permits matches unless it is   *)
(* for a subresource of all, and what matches permits it for some name.     *)
LEMMA PermittingIsMatching ==
    ASSUME NEW rule, rule.groups # None, NEW q, Asked(q), NEW name
    PROVE  q.resource.sub = None /\ Rbac!Permits(rule, q, name) => Rbac!RuleMatches(rule, q)
BY DEF Asked, Rbac!RuleMatches, Rbac!Permits, Rbac!CoversResource, Rbac!GroupsOf, Rbac!All

LEMMA MatchingIsPermitting ==
    ASSUME NEW rule, rule.groups # None, NEW q, Asked(q), Rbac!RuleMatches(rule, q)
    PROVE  \E name \in {None} \cup rule.names : Rbac!Permits(rule, q, name)
<1>1. ASSUME NEW name, rule.names = {} \/ name \in rule.names
      PROVE  Rbac!Permits(rule, q, name)
  BY <1>1 DEF Asked, Rbac!RuleMatches, Rbac!Permits, Rbac!CoversResource, Rbac!GroupsOf, Rbac!All
<1>2. PICK name \in {None} \cup rule.names : rule.names = {} \/ name \in rule.names
  OBVIOUS
<1> QED BY <1>1, <1>2

LEMMA RowsOf ==
    ASSUME NEW scope, NEW q
    PROVE  \A row : row \in Rbac!RuleReport(scope, q) <=>
              \E b \in scope.bindings, r \in scope.roles : \E s \in b.subjects :
                 /\ Rbac!RefersTo(b, r) /\ Rbac!Grants(r, q)
                 /\ row = [subject |-> s, binding |-> b, role |-> r]
<1> DEFINE T == {t \in scope.bindings \X scope.roles :
                    Rbac!RefersTo(t[1], t[2]) /\ Rbac!Grants(t[2], q)}
           R(t) == {[subject |-> s, binding |-> t[1], role |-> t[2]] : s \in t[1].subjects}
<1>1. Rbac!RuleReport(scope, q) = UNION {R(t) : t \in T}
  BY DEF Rbac!RuleReport
<1> TAKE row
<1>2. row \in UNION {R(t) : t \in T} <=> \E t \in T : row \in R(t)
  <2> HIDE DEF T, R
  <2> QED OBVIOUS
<1>3. ASSUME NEW t \in T, row \in R(t)
      PROVE  \E b \in scope.bindings, r \in scope.roles : \E s \in b.subjects :
                 /\ Rbac!RefersTo(b, r) /\ Rbac!Grants(r, q)
                 /\ row = [subject |-> s, binding |-> b, role |-> r]
  <2>1. t[1] \in scope.bindings /\ t[2] \in scope.roles
    OBVIOUS
  <2>2. PICK s \in t[1].subjects : row = [subject |-> s, binding |-> t[1], role |-> t[2]]
    BY <1>3
  <2> QED BY <2>1, <2>2
<1>4. ASSUME NEW b \in scope.bindings, NEW r \in scope.roles, NEW s \in b.subjects,
             Rbac!RefersTo(b, r), Rbac!Grants(r, q),
             row = [subject |-> s, binding |-> b, role |-> r]
      PROVE  \E t \in T : row \in R(t)
  <2> DEFINE t == <<b, r>>
  <2>1. t \in scope.bindings \X scope.roles /\ t[1] = b /\ t[2] = r
    OBVIOUS
  <2> HIDE DEF t
  <2>2. t \in T
    BY <1>4, <2>1
  <2>3. row \in R(t)
    BY <1>4, <2>1
  <2> HIDE DEF T, R
  <2> QED BY <2>2, <2>3
<1> HIDE DEF T, R
<1> QED BY <1>1, <1>2, <1>3, <1>4

(* What `who can` answers are the rows of its scope.                        *)
LEMMA RuleAnswers ==
    ASSUME AnswersCome, ByRule
    PROVE  /\ answer.in \in Inputs["analyze_rbac"]
           /\ answer.out.rows = Rbac!RuleReport(Rbac!Scope(answer.in.cluster, answer.in.query.ns),
                                                answer.in.query)
BY DEF AnswersCome, ByRule, Rbac!AnalyzeRbac

(* `Who can do this`, asked of the whole cluster: everybody who can do it   *)
(* to some object and, but for roles of one name in two namespaces and for  *)
(* resourceNames under a verb that names no object, nobody else             *)
(* (rbac.py:569-659).                                                       *)
THEOREM WhoCanAnswersRight == Spec => []WhoCanIsRight
<1>1. AnswersCome => WhoCanIsRight
  <2> DEFINE q == answer.in.query
             cluster == answer.in.cluster
             rows == Rbac!RuleReport(Rbac!Scope(cluster, None), q)
             named == {row.subject : row \in rows}
             spaces == {b.ns : b \in cluster.bindings}
             able == Able(cluster, q, spaces)
  <2> SUFFICES ASSUME AnswersCome, ByRule, q.ns = None, Asked(q)
               PROVE  /\ q.resource.sub = None => able \subseteq named
                      /\ NamesDontClash(cluster) /\ q.verb \notin Rbac!NeverNamed => named \subseteq able
    BY RuleAnswers DEF WhoCanIsRight, Named
  <2>1. /\ cluster = answer.in.cluster /\ answer.in \in Inputs["analyze_rbac"]
        /\ \A r \in cluster.roles : \A rule \in r.rules : rule.groups # None
    BY RuleAnswers, RbacAssumption
  <2> HIDE DEF q, cluster
  <2>2. \A row : row \in rows <=>
              \E b \in cluster.bindings, r \in cluster.roles : \E s \in b.subjects :
                 /\ Rbac!RefersTo(b, r) /\ Rbac!Grants(r, q)
                 /\ row = [subject |-> s, binding |-> b, role |-> r]
    BY RowsOf, WholeScope
  <2> HIDE DEF rows
  <2>3. ASSUME q.resource.sub = None, NEW r \in cluster.roles, NEW name,
               \E rule \in r.rules : Rbac!Permits(rule, q, name)
        PROVE  Rbac!Grants(r, q)
    BY <2>1, <2>3, PermittingIsMatching DEF Rbac!Grants
  <2>4. ASSUME q.resource.sub = None, NEW s \in able PROVE s \in named
    <3>1. PICK ns \in spaces, name \in Rbac!ObjectNames(cluster, q) :
             Rbac!May(cluster, s, q, name, ns)
      BY <2>4 DEF Able
    <3>2. PICK b \in cluster.bindings :
             /\ s \in b.subjects
             /\ \E r \in Rbac!Bound(cluster, b) : \E rule \in r.rules : Rbac!Permits(rule, q, name)
      BY <3>1 DEF Rbac!May
    <3>3. PICK r \in Rbac!Bound(cluster, b) : \E rule \in r.rules : Rbac!Permits(rule, q, name)
      BY <3>2
    <3>4. r \in cluster.roles /\ Rbac!RefersTo(b, r) /\ Rbac!Grants(r, q)
      BY <2>3, <2>4, <3>3 DEF Rbac!Bound
    <3>5. [subject |-> s, binding |-> b, role |-> r] \in rows
      BY <2>2, <3>2, <3>4
    <3> QED BY <3>5
  <2>5. ASSUME NamesDontClash(cluster), q.verb \notin Rbac!NeverNamed, NEW row \in rows
        PROVE  row.subject \in able
    <3>1. PICK b \in cluster.bindings, r \in cluster.roles : \E s \in b.subjects :
             /\ Rbac!RefersTo(b, r) /\ Rbac!Grants(r, q)
             /\ row = [subject |-> s, binding |-> b, role |-> r]
      BY <2>2, <2>5
    <3>2. PICK rule \in r.rules : Rbac!RuleMatches(rule, q)
      BY <3>1 DEF Rbac!Grants
    <3>3. PICK name \in {None} \cup rule.names : Rbac!Permits(rule, q, name)
      BY <2>1, <3>2, MatchingIsPermitting
    <3>4. name \in Rbac!ObjectNames(cluster, q)
      <4>1. rule \in UNION {x.rules : x \in cluster.roles}
        BY <3>1, <3>2
      <4> QED BY <2>5, <3>3, <4>1 DEF Rbac!ObjectNames
    <3>5. r \in Rbac!Bound(cluster, b)
      BY <2>5, <3>1 DEF NamesDontClash, Rbac!Bound
    <3>6. row.subject \in b.subjects
      BY <3>1
    <3>7. Rbac!May(cluster, row.subject, q, name, b.ns)
      BY <3>3, <3>5, <3>6 DEF Rbac!May
    <3>8. b.ns \in spaces /\ row.subject \in UNION {x.subjects : x \in cluster.bindings}
      BY <3>6
    <3> QED BY <3>4, <3>7, <3>8 DEF Able
  <2> QED BY <2>4, <2>5
<1> QED BY <1>1, AnswersInvariant, PTL

(* A report that shows one of the roles that a binding refers to.           *)
LEMMA ReportShowing ==
    ASSUME NEW scope, NEW needle, NEW b \in Rbac!SubjectBindings(scope, needle),
           NEW r \in scope.roles, Rbac!RefersTo(b, r)
    PROVE  \E f \in Rbac!SubjectReports(scope, needle) : f[b] = r
<1> DEFINE B == Rbac!SubjectBindings(scope, needle)
           f == [x \in B |-> IF x = b THEN r ELSE CHOOSE y \in Rbac!FindRole(scope, x) : TRUE]
<1>1. ASSUME NEW x PROVE /\ Rbac!FindRole(scope, x) # {}
                         /\ Rbac!FindRole(scope, x) \subseteq scope.roles \cup {None}
  BY DEF Rbac!FindRole
<1>2. r \in Rbac!FindRole(scope, b)
  BY DEF Rbac!FindRole
<1>3. \A x \in B : f[x] \in Rbac!FindRole(scope, x)
  BY <1>1, <1>2
<1>4. f \in [B -> scope.roles \cup {None}]
  BY <1>1, <1>3
<1>5. f[b] = r
  OBVIOUS
<1>6. DOMAIN f = B
  OBVIOUS
<1> HIDE DEF f
<1> QED BY <1>3, <1>4, <1>5, <1>6 DEF Rbac!SubjectReports

(* Asking who can, and asking what somebody can, agree (rbac.py:489-659).   *)
THEOREM LookupsAlwaysAgree == Spec => []LookupsAgree
<1>1. AnswersCome => LookupsAgree
  <2> DEFINE q == answer.in.query
             scope == Rbac!Scope(answer.in.cluster, q.ns)
             needle(s) == [kind |-> s.kind, name |-> s.name]
             rows == Rbac!RuleReport(scope, q)
  <2> SUFFICES ASSUME AnswersCome, ByRule,
                      NEW s \in UNION {b.subjects : b \in scope.bindings}
               PROVE  (\E row \in rows : row.subject.kind = s.kind /\ row.subject.name = s.name)
                      <=> (\E f \in Rbac!SubjectReports(scope, needle(s)) :
                              \E b \in DOMAIN f : f[b] # None /\ Rbac!Grants(f[b], q))
    BY RuleAnswers DEF LookupsAgree
  <2>1. answer.in \in Inputs["analyze_rbac"]
    BY RuleAnswers
  <2>2. /\ None \notin scope.roles
        /\ \A b \in scope.bindings : \A x \in b.subjects : x.kind # None
    BY <2>1, RbacAssumption DEF Rbac!Scope
  <2> HIDE DEF scope, q
  <2>3. \A row : row \in rows <=>
              \E b \in scope.bindings, r \in scope.roles : \E x \in b.subjects :
                 /\ Rbac!RefersTo(b, r) /\ Rbac!Grants(r, q)
                 /\ row = [subject |-> x, binding |-> b, role |-> r]
    BY RowsOf
  <2> HIDE DEF rows
  <2>4. ASSUME NEW x, x.kind # None, s.kind # None
        PROVE  Rbac!SubjectMatches(x, needle(s)) <=> x.kind = s.kind /\ x.name = s.name
    BY <2>4 DEF Rbac!SubjectMatches
  <2>5. s.kind # None
    BY <2>2
  <2>6. ASSUME NEW row \in rows, row.subject.kind = s.kind, row.subject.name = s.name
        PROVE  \E f \in Rbac!SubjectReports(scope, needle(s)) :
                  \E b \in DOMAIN f : f[b] # None /\ Rbac!Grants(f[b], q)
    <3>1. PICK b \in scope.bindings, r \in scope.roles : \E x \in b.subjects :
             /\ Rbac!RefersTo(b, r) /\ Rbac!Grants(r, q)
             /\ row = [subject |-> x, binding |-> b, role |-> r]
      BY <2>3
    <3>2. row.subject \in b.subjects
      BY <3>1
    <3>3. Rbac!SubjectMatches(row.subject, needle(s))
      BY <2>2, <2>4, <2>5, <2>6, <3>2
    <3>4. b \in Rbac!SubjectBindings(scope, needle(s))
      BY <3>2, <3>3 DEF Rbac!SubjectBindings
    <3>5. PICK f \in Rbac!SubjectReports(scope, needle(s)) : f[b] = r
      BY <3>1, <3>4, ReportShowing
    <3>6. DOMAIN f = Rbac!SubjectBindings(scope, needle(s))
      BY DEF Rbac!SubjectReports
    <3> QED BY <2>2, <3>1, <3>4, <3>5, <3>6
  <2>7. ASSUME NEW f \in Rbac!SubjectReports(scope, needle(s)), NEW b \in DOMAIN f,
               f[b] # None, Rbac!Grants(f[b], q)
        PROVE  \E row \in rows : row.subject.kind = s.kind /\ row.subject.name = s.name
    <3>1. b \in Rbac!SubjectBindings(scope, needle(s)) /\ f[b] \in Rbac!FindRole(scope, b)
      BY DEF Rbac!SubjectReports
    <3>2. f[b] \in scope.roles /\ Rbac!RefersTo(b, f[b])
      BY <2>7, <3>1 DEF Rbac!FindRole
    <3>3. PICK x \in b.subjects : Rbac!SubjectMatches(x, needle(s))
      BY <3>1 DEF Rbac!SubjectBindings
    <3>4. b \in scope.bindings
      BY <3>1 DEF Rbac!SubjectBindings
    <3>5. x.kind = s.kind /\ x.name = s.name
      BY <2>2, <2>4, <2>5, <3>3, <3>4
    <3>6. [subject |-> x, binding |-> b, role |-> f[b]] \in rows
      BY <2>3, <2>7, <3>2, <3>4
    <3> QED BY <3>5, <3>6
  <2> HIDE DEF needle
  <2> QED BY <2>6, <2>7
<1> QED BY <1>1, AnswersInvariant, PTL

-----------------------------------------------------------------------------
(* Network policies.                                                       *)

(* The tool's matching of one expression is Kubernetes' matching of it.     *)
LEMMA ExprAgrees ==
    ASSUME NEW e, NEW labels
    PROVE  Policies!ExprMatches(e, labels) <=>
              LET has == {labels[k] : k \in DOMAIN labels \cap {e.key}}
              IN  /\ e.op = "In" => has \cap e.values # {}
                  /\ e.op = "NotIn" => has \cap e.values = {}
                  /\ e.op = "Exists" => has # {}
                  /\ e.op = "DoesNotExist" => has = {}
<1> DEFINE has == {labels[k] : k \in DOMAIN labels \cap {e.key}}
<1>1. has = IF e.key \in DOMAIN labels THEN {labels[e.key]} ELSE {}
  OBVIOUS
<1> HIDE DEF has
<1>2. Policies!ExprMatches(e, labels) <=>
         /\ e.op = "In" => has \cap e.values # {}
         /\ e.op = "NotIn" => has \cap e.values = {}
         /\ e.op = "Exists" => has # {}
         /\ e.op = "DoesNotExist" => has = {}
  BY <1>1 DEF Policies!ExprMatches
<1> QED BY <1>2 DEF has

(* And so is that of a whole selector.                                      *)
LEMMA SelectorAgrees ==
    ASSUME NEW sel, NEW labels
    PROVE  Policies!SelectorMatches(sel, labels) <=> Policies!Chosen(sel, labels)
BY ExprAgrees DEF Policies!SelectorMatches, Policies!Chosen

LEMMA IsolatedIsNotOpen ==
    ASSUME NEW policies, NEW labels, NEW d
    PROVE  Policies!Isolated(policies, labels, d) <=> ~Policies!Open(policies, labels, d)
BY SelectorAgrees
   DEF Policies!Isolated, Policies!SelectingPolicies, Policies!Open, Policies!Governing

(* In the view of a pod, a direction in which nobody is let through is one  *)
(* for which every policy shown has no rule.                                *)
LEMMA ShutIsShown ==
    ASSUME NEW policies, NEW labels, NEW d
    PROVE  LET shown == Policies!PodView(policies, labels).shown
           IN  (\A p \in DOMAIN shown : d \in DOMAIN shown[p] => shown[p][d] = {})
               <=> Policies!LetsThrough(policies, labels, d) = {}
<1> DEFINE S == Policies!SelectingPolicies(policies, labels)
           rules(p) == Policies!Given(p.rules[d])
           shown == Policies!PodView(policies, labels).shown
<1>1. shown = [p \in S |-> [x \in Policies!PolicyTypes(p) |->
                  {Policies!RulePeers(x, r) : r \in Policies!Given(p.rules[x])}]]
  BY DEF Policies!PodView
<1>2. DOMAIN shown = S /\ \A p \in S : DOMAIN shown[p] = Policies!PolicyTypes(p)
  BY <1>1
<1>3. ASSUME NEW p \in S, d \in Policies!PolicyTypes(p)
      PROVE  shown[p][d] = {} <=> rules(p) = {}
  <2>1. shown[p][d] = {Policies!RulePeers(d, r) : r \in rules(p)}
    BY <1>1, <1>3
  <2> HIDE DEF rules, shown
  <2> QED BY <2>1
<1>4. Policies!Governing(policies, labels, d) = {p \in S : d \in Policies!PolicyTypes(p)}
  BY SelectorAgrees DEF Policies!Governing, Policies!SelectingPolicies
<1>5. Policies!LetsThrough(policies, labels, d) = {}
      <=> \A p \in Policies!Governing(policies, labels, d) : rules(p) = {}
  <2> HIDE DEF S
  <2> QED BY DEF Policies!LetsThrough
<1> HIDE DEF S, rules, shown
<1>6. (\A p \in DOMAIN shown : d \in DOMAIN shown[p] => shown[p][d] = {})
      <=> Policies!LetsThrough(policies, labels, d) = {}
  BY <1>2, <1>3, <1>4, <1>5
<1> QED BY <1>6 DEF shown

(* What the two views say of pods and policies is what Kubernetes does      *)
(* (networkpolicy.py:238-357).                                              *)
THEOREM PosturesAreTrue == Spec => []PostureIsTrue
<1>1. ASSUME AnswersCome, Of("pod_view")
      PROVE  LET in == answer.in
                 out == answer.out
             IN  /\ out.isolated = {d \in Policies!Directions :
                                       ~Policies!Open(in.policies, in.labels, d)}
                 /\ \A d \in out.isolated :
                       (\A p \in DOMAIN out.shown :
                           d \in DOMAIN out.shown[p] => out.shown[p][d] = {})
                       <=> Policies!LetsThrough(in.policies, in.labels, d) = {}
  <2>1. PICK in \in Inputs["analyze_networkpolicy"] : \E x \in DOMAIN in.pods :
              /\ answer.in = [policies |-> in.policies, labels |-> in.pods[x]]
              /\ answer.out = Policies!PodView(in.policies, in.pods[x])
    BY <1>1 DEF AnswersCome
  <2>2. answer.out = Policies!PodView(answer.in.policies, answer.in.labels)
    BY <2>1
  <2>3. answer.out.isolated = {d \in Policies!Directions :
                                  Policies!Isolated(answer.in.policies, answer.in.labels, d)}
    BY <2>2 DEF Policies!PodView
  <2>4. answer.out.isolated = {d \in Policies!Directions :
                                  ~Policies!Open(answer.in.policies, answer.in.labels, d)}
    BY <2>3, IsolatedIsNotOpen
  <2> QED BY <2>2, <2>4, ShutIsShown
<1>2. ASSUME AnswersCome, Of("coverage_view")
      PROVE  LET in == answer.in
                 out == answer.out
                 Shut(labels) == {d \in Policies!Directions : ~Policies!Open(in.policies, labels, d)}
             IN  /\ \A x \in DOMAIN in.pods : out.posture[x] = Shut(in.pods[x])
                 /\ out.exposed = {x \in DOMAIN in.pods : "Ingress" \notin Shut(in.pods[x])}
                 /\ \A p \in DOMAIN out.inventory : \A d \in Policies!PolicyTypes(p) :
                       d \in out.inventory[p] <=> Policies!Given(p.rules[d]) = {}
  <2> DEFINE in == answer.in
             out == answer.out
             Shut(labels) == {d \in Policies!Directions : ~Policies!Open(in.policies, labels, d)}
  <2>1. in \in Inputs["analyze_networkpolicy"] /\ out = Policies!CoverageView(in.policies, in.pods)
    BY <1>2 DEF AnswersCome
  <2>2. \A p \in in.policies : Policies!PolicyTypes(p) \subseteq Policies!Directions
    BY <2>1, PolicyAssumption DEF Policies!PolicyTypes, Policies!Directions
  <2>3. ASSUME NEW labels
        PROVE  Shut(labels) = {d \in Policies!Directions : Policies!Isolated(in.policies, labels, d)}
    BY IsolatedIsNotOpen
  <2>4. "Ingress" \in Policies!Directions
    BY DEF Policies!Directions
  <2> HIDE DEF in, out, Shut
  <2>5. CASE in.policies = {}
    <3>1. \A labels : Shut(labels) = {}
      BY <2>3, <2>5 DEF Policies!Isolated, Policies!SelectingPolicies
    <3>2. /\ out.posture = [x \in DOMAIN in.pods |-> {}]
          /\ out.exposed = DOMAIN in.pods
          /\ DOMAIN out.inventory = {}
      BY <2>1, <2>5 DEF Policies!CoverageView, Policies!Nothing
    <3> QED BY <3>1, <3>2 DEF in, out, Shut
  <2>6. CASE in.policies # {}
    <3>1. /\ out.posture = [x \in DOMAIN in.pods |-> {d \in Policies!Directions :
                                Policies!Isolated(in.policies, in.pods[x], d)}]
          /\ out.exposed = {x \in DOMAIN in.pods :
                                ~Policies!Isolated(in.policies, in.pods[x], "Ingress")}
          /\ out.inventory = [p \in in.policies |-> Policies!DenyAll(p)]
      BY <2>1, <2>6 DEF Policies!CoverageView
    <3>2. \A x \in DOMAIN in.pods : out.posture[x] = Shut(in.pods[x])
      BY <2>3, <3>1
    <3>3. out.exposed = {x \in DOMAIN in.pods : "Ingress" \notin Shut(in.pods[x])}
      BY <2>3, <2>4, <3>1
    <3>4. ASSUME NEW p \in DOMAIN out.inventory, NEW d \in Policies!PolicyTypes(p)
          PROVE  d \in out.inventory[p] <=> Policies!Given(p.rules[d]) = {}
      BY <2>2, <3>1 DEF Policies!DenyAll, Policies!Given
    <3> QED BY <3>2, <3>3, <3>4 DEF in, out, Shut
  <2> QED BY <2>5, <2>6
<1>3. AnswersCome => PostureIsTrue
  BY <1>1, <1>2 DEF PostureIsTrue
<1> QED BY <1>3, AnswersInvariant, PTL

-----------------------------------------------------------------------------
(* Induction and sums.                                                      *)

(* Among the naturals of a set there is a least one.                        *)
LEMMA LeastNatural ==
    ASSUME NEW T \in SUBSET Nat, T # {}
    PROVE  \E x \in T : \A y \in T : x <= y
<1>1. \E x \in T : \A y \in T : ~(<<y, x>> \in OpToRel(<, Nat))
  BY NatLessThanWellFounded, WFMin
<1>2. PICK x \in T : \A y \in T : ~(<<y, x>> \in OpToRel(<, Nat))
  BY <1>1
<1>3. \A y \in T : ~(y < x)
  BY <1>2 DEF OpToRel
<1> QED BY <1>3

(* Of the subsets of a finite set in a family, one has no other in it.      *)
LEMMA MinimalSubset ==
    ASSUME NEW S, IsFiniteSet(S), NEW B \in SUBSET SUBSET S, B # {}
    PROVE  \E s \in B : \A t \in B : t \subseteq s => t = s
<1>1. \A s \in SUBSET S : IsFiniteSet(s) /\ Cardinality(s) \in Nat
  BY FS_Subset, FS_CardinalityType
<1> DEFINE sizes == {Cardinality(s) : s \in B}
<1>2. sizes \in SUBSET Nat /\ sizes # {}
  BY <1>1
<1>3. PICK n \in sizes : \A m \in sizes : n <= m
  BY <1>2, LeastNatural
<1>4. PICK s \in B : n = Cardinality(s)
  OBVIOUS
<1>5. \A t \in B : t \subseteq s => t = s
  <2> SUFFICES ASSUME NEW t \in B, t \subseteq s, t # s PROVE FALSE
    OBVIOUS
  <2>1. Cardinality(t) <= Cardinality(s) /\ (Cardinality(s) = Cardinality(t) => s = t)
    BY <1>1, FS_Subset, s \in SUBSET S
  <2>2. Cardinality(s) <= Cardinality(t)
    BY <1>3, <1>4
  <2> QED BY <2>1, <2>2, <1>1
<1> QED BY <1>5

(***************************************************************************)
(* Sums over finite sets, taken apart element by element in any order.     *)
(***************************************************************************)
Some(s) == CHOOSE x \in s : TRUE
SumFrom(w, g, s) == IF s = {} THEN 0 ELSE w[Some(s)] + g[s \ {Some(s)}]
IsTable(w, S, g) == g = [s \in SUBSET S |-> SumFrom(w, g, s)]
Sum(w, S) == (CHOOSE g : IsTable(w, S, g))[S]

(* Something that is not empty has the element picked from it.              *)
LEMMA SomeIsIn == \A s : s # {} => Some(s) \in s
BY DEF Some

(* Without one of its elements a finite set is smaller by one.              *)
LEMMA SmallerSubset ==
    ASSUME NEW S, IsFiniteSet(S), NEW s \in SUBSET S, NEW x \in s
    PROVE  /\ IsFiniteSet(s) /\ IsFiniteSet(s \ {x})
           /\ s \ {x} \in SUBSET S
           /\ Cardinality(s) \in Nat /\ Cardinality(s \ {x}) = Cardinality(s) - 1
BY FS_Subset, FS_RemoveElement, FS_CardinalityType

(* The recursion over the subsets of a finite set has a solution.           *)
LEMMA TableExists ==
    ASSUME NEW w, NEW S, IsFiniteSet(S)
    PROVE  \E g : IsTable(w, S, g)
<1> DEFINE Upto(n) == {s \in SUBSET S : Cardinality(s) <= n}
           Is(n, g) == g = [s \in Upto(n) |-> SumFrom(w, g, s)]
           bad == {n \in Nat : \A g : ~Is(n, g)}
<1>0. \A s \in SUBSET S : IsFiniteSet(s) /\ Cardinality(s) \in Nat /\ Cardinality(s) <= Cardinality(S)
  BY FS_Subset, FS_CardinalityType
<1>1. bad = {}
  <2> SUFFICES ASSUME bad # {} PROVE FALSE
    OBVIOUS
  <2>1. PICK m \in bad : \A k \in bad : m <= k
    BY LeastNatural, bad \in SUBSET Nat
  <2>2. m # 0
    <3> SUFFICES ASSUME m = 0 PROVE FALSE
      OBVIOUS
    <3> DEFINE g == [s \in Upto(0) |-> 0]
    <3>1. \A s \in Upto(0) : s = {}
      BY <1>0, FS_EmptySet
    <3>2. Is(0, g)
      BY <3>1, Zenon DEF SumFrom
    <3> QED BY <3>2, <2>1
  <2>3. \E g : Is(m - 1, g)
    <3>1. m - 1 \in Nat /\ m - 1 \notin bad
      BY <2>1, <2>2
    <3> QED BY <3>1, Zenon
  <2> PICK g : Is(m - 1, g)
    BY <2>3, Zenon
  <2> DEFINE h == [s \in Upto(m) |-> SumFrom(w, g, s)]
  <2>4. \A s \in Upto(m) : SumFrom(w, g, s) = SumFrom(w, h, s)
    <3> TAKE s \in Upto(m)
    <3>1. CASE s = {}
      BY <3>1 DEF SumFrom
    <3>2. CASE s # {}
      <4> DEFINE t == s \ {Some(s)}
      <4>1. t \in Upto(m - 1) /\ t \in Upto(m)
        <5>1. Some(s) \in s /\ s \in SUBSET S /\ Cardinality(s) <= m
          BY <3>2, SomeIsIn
        <5>2. t \in SUBSET S /\ Cardinality(s) \in Nat /\ Cardinality(t) = Cardinality(s) - 1
          BY <5>1, SmallerSubset
        <5> QED BY <5>1, <5>2
      <4>2. g[t] = SumFrom(w, g, t) /\ h[t] = SumFrom(w, g, t)
        BY <4>1, Zenon
      <4> QED BY <4>2, <3>2 DEF SumFrom
    <3> QED BY <3>1, <3>2
  <2>5. Is(m, h)
    BY <2>4, Zenon
  <2> QED BY <2>5, <2>1
<1>2. \E g : Is(Cardinality(S), g)
  <2>1. Cardinality(S) \in Nat
    BY FS_CardinalityType
  <2> HIDE DEF Is
  <2> QED BY <1>1, <2>1
<1> PICK g : Is(Cardinality(S), g)
  BY <1>2, Zenon
<1>3. Upto(Cardinality(S)) = SUBSET S
  BY <1>0
<1> QED BY <1>2, <1>3 DEF IsTable

(* Two solutions are equal where they sum the same.                         *)
LEMMA TableUnique ==
    ASSUME NEW S, IsFiniteSet(S), NEW T \in SUBSET S,
           NEW w, NEW g, IsTable(w, S, g),
           NEW v, NEW h, IsTable(v, T, h),
           \A x \in T : w[x] = v[x]
    PROVE  \A s \in SUBSET T : g[s] = h[s]
<1> DEFINE bad == {s \in SUBSET T : g[s] # h[s]}
<1>0. IsFiniteSet(T)
  BY FS_Subset
<1> SUFFICES ASSUME bad # {} PROVE FALSE
  OBVIOUS
<1>a. bad \in SUBSET SUBSET T /\ bad # {}
  OBVIOUS
<1>b. \E s \in bad : \A t \in bad : t \subseteq s => t = s
  <2> HIDE DEF bad
  <2> QED BY <1>0, <1>a, MinimalSubset
<1>1. PICK s \in bad : \A t \in bad : t \subseteq s => t = s
  BY <1>b
<1>2. g[s] = SumFrom(w, g, s) /\ h[s] = SumFrom(v, h, s)
  BY s \in SUBSET S, s \in SUBSET T DEF IsTable
<1>3. s # {}
  BY <1>2 DEF SumFrom
<1>4. Some(s) \in s
  BY <1>3, SomeIsIn
<1>5. g[s \ {Some(s)}] = h[s \ {Some(s)}]
  BY <1>1, <1>4
<1> QED BY <1>2, <1>3, <1>4, <1>5 DEF SumFrom

(* In a solution for a set stand the sums over its subsets.                 *)
LEMMA TableIsSum ==
    ASSUME NEW S, IsFiniteSet(S), NEW w, NEW g, IsTable(w, S, g)
    PROVE  \A s \in SUBSET S : g[s] = Sum(w, s)
<1> TAKE s \in SUBSET S
<1>1. IsFiniteSet(s)
  BY FS_Subset
<1> DEFINE h == CHOOSE h : IsTable(w, s, h)
<1>2. IsTable(w, s, h)
  BY TableExists, <1>1
<1>3. g[s] = h[s]
  BY TableUnique, <1>2
<1> QED BY <1>3 DEF Sum

(* The sum over nothing, and over something with one of its elements.       *)
LEMMA SumStep ==
    ASSUME NEW w, NEW S, IsFiniteSet(S)
    PROVE  /\ S = {} => Sum(w, S) = 0
           /\ S # {} => Sum(w, S) = w[Some(S)] + Sum(w, S \ {Some(S)})
<1>1. PICK g : IsTable(w, S, g)
  BY TableExists
<1>2. g[S] = Sum(w, S) /\ g[S \ {Some(S)}] = Sum(w, S \ {Some(S)})
  BY <1>1, TableIsSum
<1>3. g[S] = SumFrom(w, g, S)
  BY <1>1 DEF IsTable
<1> QED BY <1>2, <1>3 DEF SumFrom

(* Of integers the sum is one.                                              *)
LEMMA SumType ==
    ASSUME NEW S, IsFiniteSet(S), NEW w, \A x \in S : w[x] \in Int
    PROVE  Sum(w, S) \in Int
<1> DEFINE bad == {s \in SUBSET S : Sum(w, s) \notin Int}
<1> SUFFICES ASSUME bad # {} PROVE FALSE
  OBVIOUS
<1>a. bad \in SUBSET SUBSET S /\ bad # {}
  OBVIOUS
<1>b. \E s \in bad : \A t \in bad : t \subseteq s => t = s
  <2> HIDE DEF bad
  <2> QED BY <1>a, MinimalSubset
<1>1. PICK s \in bad : \A t \in bad : t \subseteq s => t = s
  BY <1>b
<1>2. IsFiniteSet(s)
  BY FS_Subset
<1>3. s # {}
  <2>1. s = {} => Sum(w, s) = 0
    BY <1>2, SumStep, Zenon
  <2> QED BY <2>1
<1>4. Sum(w, s) = w[Some(s)] + Sum(w, s \ {Some(s)})
  BY <1>2, <1>3, SumStep
<1>5. Some(s) \in s
  BY <1>3, SomeIsIn
<1>6. Sum(w, s \ {Some(s)}) \in Int
  BY <1>1, <1>5
<1> QED BY <1>4, <1>5, <1>6

(* Any element may be taken out first, whichever Sum itself picks.          *)
LEMMA SumRemove ==
    ASSUME NEW S, IsFiniteSet(S), NEW w, \A x \in S : w[x] \in Int, NEW x \in S
    PROVE  Sum(w, S) = w[x] + Sum(w, S \ {x})
<1> DEFINE bad == {s \in SUBSET S : \E y \in s : Sum(w, s) # w[y] + Sum(w, s \ {y})}
<1> SUFFICES ASSUME bad # {} PROVE FALSE
  BY S \notin bad
<1>a. bad \in SUBSET SUBSET S /\ bad # {}
  OBVIOUS
<1>b. \E s \in bad : \A t \in bad : t \subseteq s => t = s
  <2> HIDE DEF bad
  <2> QED BY <1>a, MinimalSubset
<1>1. PICK s \in bad : \A t \in bad : t \subseteq s => t = s
  BY <1>b
<1>2. PICK y \in s : Sum(w, s) # w[y] + Sum(w, s \ {y})
  OBVIOUS
<1> DEFINE p == Some(s)
<1>3. p \in s
  BY SomeIsIn
<1>4. Sum(w, s) = w[p] + Sum(w, s \ {p})
  <2>1. IsFiniteSet(s)
    BY FS_Subset
  <2> QED BY <2>1, <1>3, SumStep
<1>5. p # y
  BY <1>2, <1>4
<1>6. \A u \in s : \A z \in s \ {u} : Sum(w, s \ {u}) = w[z] + Sum(w, (s \ {u}) \ {z})
  <2> TAKE u \in s
  <2> TAKE z \in s \ {u}
  <2>1. s \ {u} \notin bad /\ s \ {u} \in SUBSET S
    BY <1>1
  <2> QED BY <2>1
<1>7. (s \ {p}) \ {y} = (s \ {y}) \ {p}
  OBVIOUS
<1>8. w[p] \in Int /\ w[y] \in Int
  BY <1>3
<1>9. Sum(w, (s \ {p}) \ {y}) \in Int
  <2>1. IsFiniteSet((s \ {p}) \ {y}) /\ (s \ {p}) \ {y} \subseteq S
    BY FS_Subset
  <2> QED BY <2>1, SumType
<1>10. Sum(w, s \ {p}) = w[y] + Sum(w, (s \ {p}) \ {y})
  BY <1>3, <1>5, <1>6
<1>11. Sum(w, s \ {y}) = w[p] + Sum(w, (s \ {p}) \ {y})
  BY <1>3, <1>5, <1>6, <1>7
<1> HIDE DEF p, bad
<1> QED BY <1>2, <1>4, <1>8, <1>9, <1>10, <1>11
(* Induction: what holds of nothing, and of a set when of it without any    *)
(* one of its elements, holds of a finite set.                              *)
LEMMA FiniteInduction ==
    ASSUME NEW S, IsFiniteSet(S), NEW good, {} \in good,
           \A s \in SUBSET S : \A x \in s : s \ {x} \in good => s \in good
    PROVE  S \in good
<1> DEFINE bad == (SUBSET S) \ good
<1> SUFFICES ASSUME bad # {} PROVE FALSE
  OBVIOUS
<1>a. bad \in SUBSET SUBSET S /\ bad # {}
  OBVIOUS
<1>b. \E s \in bad : \A t \in bad : t \subseteq s => t = s
  <2> HIDE DEF bad
  <2> QED BY <1>a, MinimalSubset
<1>1. PICK s \in bad : \A t \in bad : t \subseteq s => t = s
  BY <1>b
<1>2. Some(s) \in s
  <2>1. s \notin good
    BY <1>1
  <2> QED BY <2>1, SomeIsIn, Zenon
<1>3. s \ {Some(s)} \notin bad /\ s \ {Some(s)} \in SUBSET S
  BY <1>1, <1>2
<1> QED BY <1>2, <1>3

(* Over nothing the sum is 0.                                               *)
LEMMA SumNone == \A w : Sum(w, {}) = 0
BY SumStep, FS_EmptySet

(* A sum grows with its terms.                                              *)
LEMMA SumLe ==
    ASSUME NEW S, IsFiniteSet(S), NEW w, NEW v,
           \A x \in S : w[x] \in Int /\ v[x] \in Int /\ w[x] <= v[x]
    PROVE  Sum(w, S) <= Sum(v, S)
<1> DEFINE good == {s \in SUBSET S : Sum(w, s) <= Sum(v, s)}
<1>1. {} \in good
  BY SumNone
<1>2. ASSUME NEW s \in SUBSET S, NEW x \in s, s \ {x} \in good PROVE s \in good
  <2>1. IsFiniteSet(s) /\ IsFiniteSet(s \ {x}) /\ s \ {x} \subseteq S
    BY FS_Subset
  <2>2. Sum(w, s) = w[x] + Sum(w, s \ {x}) /\ Sum(v, s) = v[x] + Sum(v, s \ {x})
    BY <2>1, SumRemove
  <2>3. Sum(w, s \ {x}) \in Int /\ Sum(v, s \ {x}) \in Int
    BY <2>1, SumType
  <2>4. Sum(w, s \ {x}) <= Sum(v, s \ {x}) /\ w[x] \in Int /\ v[x] \in Int /\ w[x] <= v[x]
    BY <1>2
  <2> QED BY <2>2, <2>3, <2>4
<1>3. S \in good
  <2> HIDE DEF good
  <2> QED BY <1>1, <1>2, FiniteInduction
<1> QED BY <1>3

(* The sum over two sets together is at most the two sums.                  *)
LEMMA SumUnion ==
    ASSUME NEW S, IsFiniteSet(S), NEW R, IsFiniteSet(R), NEW w,
           \A x \in S \cup R : w[x] \in Nat
    PROVE  /\ Sum(w, S \cup R) <= Sum(w, S) + Sum(w, R)
           /\ Sum(w, S) <= Sum(w, S \cup R)
<1> DEFINE good == {s \in SUBSET R : /\ Sum(w, S \cup s) <= Sum(w, S) + Sum(w, s)
                                     /\ Sum(w, S) <= Sum(w, S \cup s)}
<1>0. \A s \in SUBSET R : /\ IsFiniteSet(s) /\ IsFiniteSet(S \cup s)
                          /\ Sum(w, s) \in Int /\ Sum(w, S \cup s) \in Int /\ Sum(w, S) \in Int
  <2> TAKE s \in SUBSET R
  <2>1. IsFiniteSet(s) /\ IsFiniteSet(S \cup s)
    BY FS_Subset, FS_Union
  <2> QED BY <2>1, SumType
<1>1. {} \in good
  <2>1. S \cup {} = S
    OBVIOUS
  <2> QED BY <2>1, <1>0, SumNone
<1>2. ASSUME NEW s \in SUBSET R, NEW x \in s, s \ {x} \in good PROVE s \in good
  <2> DEFINE t == s \ {x}
  <2>1. t \in SUBSET R /\ w[x] \in Nat
    OBVIOUS
  <2>2. Sum(w, s) = w[x] + Sum(w, t)
    <3>1. \A y \in s : w[y] \in Int
      OBVIOUS
    <3> QED BY <3>1, <1>0, SumRemove
  <2>3. CASE x \in S
    <3>1. S \cup s = S \cup t
      BY <2>3
    <3> QED BY <3>1, <2>1, <2>2, <1>0, <1>2
  <2>4. CASE x \notin S
    <3>1. (S \cup s) \ {x} = S \cup t /\ x \in S \cup s
      BY <2>4
    <3>2. Sum(w, S \cup s) = w[x] + Sum(w, S \cup t)
      <4>1. \A y \in S \cup s : w[y] \in Int
        OBVIOUS
      <4>2. Sum(w, S \cup s) = w[x] + Sum(w, (S \cup s) \ {x})
        BY <4>1, <3>1, <1>0, SumRemove
      <4> QED BY <4>2, <3>1
    <3> QED BY <3>2, <2>1, <2>2, <1>0, <1>2
  <2> QED BY <2>3, <2>4
<1>3. R \in good
  <2> HIDE DEF good
  <2> QED BY <1>1, <1>2, FiniteInduction
<1> QED BY <1>3

(* What is shared out under headings, each within its bound, is within the  *)
(* bounds together.                                                         *)
LEMMA SumShared ==
    ASSUME NEW S, IsFiniteSet(S), NEW w, \A x \in S : w[x] \in Nat,
           NEW N, IsFiniteSet(N), NEW v, \A n \in N : v[n] \in Int,
           NEW under, \A n \in N : under[n] \subseteq S /\ Sum(w, under[n]) <= v[n],
           \A x \in S : \E n \in N : x \in under[n]
    PROVE  Sum(w, S) <= Sum(v, N)
<1> DEFINE Together(M) == UNION {under[n] : n \in M}
           good == {M \in SUBSET N : Sum(w, Together(M)) <= Sum(v, M)}
<1>1. {} \in good
  <2>1. Together({}) = {}
    OBVIOUS
  <2> QED BY <2>1, SumNone
<1>2. ASSUME NEW M \in SUBSET N, NEW n \in M, M \ {n} \in good PROVE M \in good
  <2> DEFINE L == M \ {n}
  <2>1. Together(M) = Together(L) \cup under[n]
    OBVIOUS
  <2>2. Together(L) \subseteq S /\ under[n] \subseteq S /\ L \subseteq N
    OBVIOUS
  <2>3. IsFiniteSet(Together(L)) /\ IsFiniteSet(under[n]) /\ IsFiniteSet(M) /\ IsFiniteSet(L)
    BY <2>2, FS_Subset
  <2> HIDE DEF Together
  <2>4. /\ Sum(w, Together(L)) \in Int /\ Sum(w, under[n]) \in Int
        /\ Sum(w, Together(M)) \in Int
    <3>1. IsFiniteSet(Together(M)) /\ Together(M) \subseteq S
      BY <2>1, <2>2, <2>3, FS_Union
    <3>2. \A s \in {Together(L), under[n], Together(M)} : \A x \in s : w[x] \in Int
      BY <3>1, <2>2
    <3> QED BY <3>1, <3>2, <2>3, SumType
  <2>5. Sum(w, Together(M)) <= Sum(w, Together(L)) + Sum(w, under[n])
    <3>1. \A x \in Together(L) \cup under[n] : w[x] \in Nat
      BY <2>2
    <3> QED BY <3>1, <2>1, <2>3, SumUnion
  <2>6. Sum(v, M) = v[n] + Sum(v, L) /\ Sum(v, L) \in Int
    BY <2>3, SumRemove, SumType
  <2>7. Sum(w, Together(L)) <= Sum(v, L) /\ Sum(w, under[n]) <= v[n] /\ v[n] \in Int
    BY <1>2
  <2> QED BY <2>4, <2>5, <2>6, <2>7
<1>3. N \in good
  <2> HIDE DEF good
  <2> QED BY <1>1, <1>2, FiniteInduction
<1>4. Together(N) = S
  OBVIOUS
<1> QED BY <1>3, <1>4

(* Of naturals the sum is one.                                              *)
LEMMA SumNat ==
    ASSUME NEW S, IsFiniteSet(S), NEW w, \A x \in S : w[x] \in Nat
    PROVE  Sum(w, S) \in Nat
<1>1. IsFiniteSet({}) /\ {} \cup S = S
  BY FS_EmptySet
<1>2. Sum(w, {}) <= Sum(w, {} \cup S)
  BY <1>1, SumUnion
<1>3. Sum(w, S) \in Int
  BY SumType
<1> QED BY <1>1, <1>2, <1>3, SumNone

(* The sum of zeros is 0.                                                   *)
LEMMA SumZeros ==
    ASSUME NEW S, IsFiniteSet(S), NEW w, \A x \in S : w[x] = 0
    PROVE  Sum(w, S) = 0
<1> DEFINE good == {s \in SUBSET S : Sum(w, s) = 0}
<1>1. {} \in good
  BY SumNone
<1>2. ASSUME NEW s \in SUBSET S, NEW x \in s, s \ {x} \in good PROVE s \in good
  <2>1. IsFiniteSet(s) /\ (\A y \in s : w[y] \in Int)
    BY FS_Subset
  <2>2. Sum(w, s) = w[x] + Sum(w, s \ {x})
    BY <2>1, SumRemove
  <2> QED BY <2>2, <1>2
<1>3. S \in good
  <2> HIDE DEF good
  <2> QED BY <1>1, <1>2, FiniteInduction
<1> QED BY <1>3

(* A finite function has finitely many values.                              *)
LEMMA FiniteImage ==
    ASSUME NEW f, IsFiniteSet(DOMAIN f)
    PROVE  IsFiniteSet({f[x] : x \in DOMAIN f})
<1> DEFINE good == {s \in SUBSET DOMAIN f : IsFiniteSet({f[x] : x \in s})}
<1>1. {} \in good
  <2>1. {f[x] : x \in {}} = {}
    OBVIOUS
  <2> QED BY <2>1, FS_EmptySet
<1>2. ASSUME NEW s \in SUBSET DOMAIN f, NEW x \in s, s \ {x} \in good PROVE s \in good
  <2>1. {f[y] : y \in s} = {f[y] : y \in s \ {x}} \cup {f[x]}
    OBVIOUS
  <2>2. IsFiniteSet({f[y] : y \in s \ {x}})
    BY <1>2
  <2>3. IsFiniteSet({f[y] : y \in s \ {x}} \cup {f[x]})
    BY <2>2, FS_Singleton, FS_Union
  <2> QED BY <2>1, <2>3
<1>3. DOMAIN f \in good
  <2> HIDE DEF good
  <2> QED BY <1>1, <1>2, FiniteInduction
<1> QED BY <1>3

(* Among finitely many integers there is a largest.                         *)
LEMMA LargestExists ==
    ASSUME NEW S \in SUBSET Int, IsFiniteSet(S), S # {}
    PROVE  \E m \in S : \A x \in S : m >= x
<1> DEFINE Top(s, m) == m \in s /\ \A x \in s : m >= x
           good == {s \in SUBSET S : s = {} \/ \E m \in S : Top(s, m)}
<1>1. {} \in good
  OBVIOUS
<1>2. ASSUME NEW s \in SUBSET S, NEW y \in s, s \ {y} \in good PROVE s \in good
  <2>1. CASE s \ {y} = {}
    <3>1. s = {y} /\ y \in S /\ y \in Int
      BY <2>1
    <3>2. Top(s, y)
      BY <3>1
    <3> QED BY <3>1, <3>2
  <2>2. CASE s \ {y} # {}
    <3>1. PICK m \in S : Top(s \ {y}, m)
      BY <1>2, <2>2
    <3>2. m \in Int /\ y \in Int /\ y \in S
      OBVIOUS
    <3>3. CASE m >= y
      <4>1. Top(s, m)
        BY <3>1, <3>2, <3>3
      <4> QED BY <4>1
    <3>4. CASE ~(m >= y)
      <4>1. Top(s, y)
        BY <3>1, <3>2, <3>4
      <4> QED BY <4>1, <3>2
    <3> QED BY <3>3, <3>4
  <2> QED BY <2>1, <2>2
<1>3. S \in good
  <2> HIDE DEF good
  <2> QED BY <1>1, <1>2, FiniteInduction
<1> QED BY <1>3

(* The sum over the disjoint parts of a set.                                *)
LEMMA SumParts ==
    ASSUME NEW S, IsFiniteSet(S), NEW R, IsFiniteSet(R), S \cap R = {}, NEW w,
           \A x \in S \cup R : w[x] \in Int
    PROVE  Sum(w, S \cup R) = Sum(w, S) + Sum(w, R)
<1> DEFINE good == {s \in SUBSET R : Sum(w, S \cup s) = Sum(w, S) + Sum(w, s)}
<1>0. \A s \in SUBSET R : /\ IsFiniteSet(s) /\ IsFiniteSet(S \cup s)
                          /\ Sum(w, s) \in Int /\ Sum(w, S \cup s) \in Int /\ Sum(w, S) \in Int
  <2> TAKE s \in SUBSET R
  <2>1. IsFiniteSet(s) /\ IsFiniteSet(S \cup s)
    BY FS_Subset, FS_Union
  <2> QED BY <2>1, SumType
<1>1. {} \in good
  <2>1. S \cup {} = S
    OBVIOUS
  <2> QED BY <2>1, <1>0, SumNone
<1>2. ASSUME NEW s \in SUBSET R, NEW x \in s, s \ {x} \in good PROVE s \in good
  <2> DEFINE t == s \ {x}
  <2>1. t \in SUBSET R /\ w[x] \in Int
    OBVIOUS
  <2>2. (S \cup s) \ {x} = S \cup t /\ x \in S \cup s
    OBVIOUS
  <2>3. (\A y \in s : w[y] \in Int) /\ (\A y \in S \cup s : w[y] \in Int)
    OBVIOUS
  <2>4. Sum(w, s) = w[x] + Sum(w, t)
    BY <1>0, <2>3, SumRemove
  <2>5. Sum(w, S \cup s) = w[x] + Sum(w, (S \cup s) \ {x})
    BY <1>0, <2>2, <2>3, SumRemove
  <2>6. Sum(w, S \cup t) = Sum(w, S) + Sum(w, t)
    BY <1>2
  <2>7. Sum(w, t) \in Int /\ Sum(w, S) \in Int
    BY <1>0, <2>1
  <2>8. Sum(w, (S \cup s) \ {x}) = Sum(w, S \cup t)
    <3> HIDE DEF t
    <3> QED BY <2>2, Zenon
  <2> HIDE DEF t
  <2>9. Sum(w, S \cup s) = Sum(w, S) + Sum(w, s)
    BY <2>1, <2>4, <2>5, <2>6, <2>7, <2>8
  <2> QED BY <2>9
<1>3. R \in good
  <2> HIDE DEF good
  <2> QED BY <1>1, <1>2, FiniteInduction
<1> QED BY <1>3

(* The same terms under other numbers.                                      *)
LEMMA SumShifted ==
    ASSUME NEW m \in Nat, NEW k \in Nat, NEW w, NEW v,
           \A i \in 1..m : w[i] \in Int /\ v[k + i] = w[i]
    PROVE  Sum(v, (k + 1)..(k + m)) = Sum(w, 1..m)
<1> DEFINE bad == {j \in 0..m : Sum(v, (k + 1)..(k + j)) # Sum(w, 1..j)}
<1> SUFFICES ASSUME bad # {} PROVE FALSE
  BY m \in 0..m
<1>1. \E j \in bad : \A i \in bad : j <= i
  BY LeastNatural, bad \in SUBSET Nat
<1> PICK j \in bad : \A i \in bad : j <= i
  BY <1>1
<1>2. j \in 1..m
  <2> SUFFICES ASSUME j = 0 PROVE FALSE
    OBVIOUS
  <2>1. (k + 1)..(k + j) = {} /\ 1..j = {}
    OBVIOUS
  <2>2. Sum(v, (k + 1)..(k + j)) = Sum(v, {}) /\ Sum(w, 1..j) = Sum(w, {})
    BY <2>1, Zenon
  <2> QED BY <2>2, SumNone
<1>3. Sum(v, (k + 1)..(k + (j - 1))) = Sum(w, 1..(j - 1))
  <2>1. j - 1 \in 0..m /\ j - 1 \notin bad
    BY <1>2
  <2> QED BY <2>1
<1>4. Sum(w, 1..j) = w[j] + Sum(w, 1..(j - 1))
  <2>0. IsFiniteSet(1..j)
    BY FS_Interval
  <2>1. j \in 1..j /\ (1..j) \ {j} = 1..(j - 1)
    BY <1>2
  <2>2. \A i \in 1..j : w[i] \in Int
    OBVIOUS
  <2>3. Sum(w, 1..j) = w[j] + Sum(w, (1..j) \ {j})
    BY <2>0, <2>1, <2>2, SumRemove
  <2>4. Sum(w, (1..j) \ {j}) = Sum(w, 1..(j - 1))
    BY <2>1, Zenon
  <2> QED BY <2>3, <2>4
<1>5. Sum(v, (k + 1)..(k + j)) = v[k + j] + Sum(v, (k + 1)..(k + (j - 1)))
  <2> DEFINE S == (k + 1)..(k + j)
  <2>0. IsFiniteSet(S)
    <3>1. k + 1 \in Int /\ k + j \in Int
      BY <1>2
    <3> QED BY <3>1, FS_Interval
  <2>1. k + j \in S /\ S \ {k + j} = (k + 1)..(k + (j - 1))
    <3>1. \A i \in Int : i \in S <=> k + 1 <= i /\ i <= k + j
      BY <1>2 DEF S
    <3>2. \A i \in S : i \in Int
      BY <1>2 DEF S
    <3>3. ASSUME NEW i \in Int PROVE i \in S \ {k + j} <=> i \in (k + 1)..(k + (j - 1))
      BY <1>2, <3>1
    <3>4. S \ {k + j} \subseteq Int /\ (k + 1)..(k + (j - 1)) \subseteq Int /\ k + j \in S
      BY <1>2, <3>1, <3>2
    <3> QED BY <3>3, <3>4
  <2>2. \A i \in S : v[i] \in Int
    <3> TAKE i \in S
    <3>1. i - k \in 1..m /\ k + (i - k) = i
      OBVIOUS
    <3> QED BY <3>1
  <2> HIDE DEF S
  <2> DEFINE e == k + j
  <2>a. e \in S
    BY <2>1
  <2> HIDE DEF e
  <2>3. Sum(v, S) = v[e] + Sum(v, S \ {e})
    BY <2>a, <2>0, <2>2, SumRemove
  <2>4. Sum(v, S \ {k + j}) = Sum(v, (k + 1)..(k + (j - 1)))
    BY <2>1, Zenon
  <2> QED BY <2>3, <2>4 DEF S, e
<1>6. v[k + j] = w[j]
  BY <1>2
<1> QED BY <1>3, <1>4, <1>5, <1>6

-----------------------------------------------------------------------------
(* The health snapshot.                                                    *)

LEMMA MinOfTwo ==
    ASSUME NEW a \in Nat, NEW b \in Nat
    PROVE  /\ Reports!Min({a, b}) = IF a <= b THEN a ELSE b
           /\ Health!Min({a, b}) = IF a <= b THEN a ELSE b
<1> DEFINE m == IF a <= b THEN a ELSE b
<1>1. m \in {a, b} /\ \A y \in {a, b} : m <= y
  OBVIOUS
<1>2. ASSUME NEW x \in {a, b}, \A y \in {a, b} : x <= y PROVE x = m
  BY <1>2
<1>3. Reports!Min({a, b}) = m
  BY <1>1, <1>2 DEF Reports!Min
<1>4. Health!Min({a, b}) = m
  BY <1>1, <1>2 DEF Health!Min
<1> QED BY <1>3, <1>4

(* The instances count as this module does.                                 *)
LEMMA SameCardinality ==
    ASSUME NEW S
    PROVE  Reports!Cardinality(S) = Cardinality(S) /\ Health!Cardinality(S) = Cardinality(S)
BY DEF Reports!Cardinality, Health!Cardinality, Cardinality

(* Of finitely many rows a table shows all, or as many as the cap allows.   *)
LEMMA FullOrWhole ==
    ASSUME NEW rows, IsFiniteSet(rows), RowCap \in Nat, NEW T \in SUBSET rows,
           Cardinality(T) = Health!Min({RowCap, Cardinality(rows)})
    PROVE  T = rows \/ Cardinality(T) = RowCap
<1>1. Cardinality(rows) \in Nat
  BY FS_CardinalityType
<1>2. Cardinality(T) = IF RowCap <= Cardinality(rows) THEN RowCap ELSE Cardinality(rows)
  BY <1>1, MinOfTwo
<1>3. Cardinality(rows) = Cardinality(T) => rows = T
  BY FS_Subset
<1> QED BY <1>2, <1>3

(* The image reasons are among the bad ones.                                *)
LEMMA ImagesAreAbnormal ==
    ASSUME NEW pods, NEW threshold
    PROVE  Health!ImageRows(pods) \subseteq Health!AbnormalRows(pods, threshold)
BY DEF Health!ImageRows, Health!AbnormalRows, Health!ImageReasons, Health!BadWaiting

(* The rows of a table of the pods: one of their containers each.           *)
LEMMA RowsAreFinite ==
    ASSUME NEW pods, IsFiniteSet(pods), \A p \in pods : IsFiniteSet(p.containers),
           NEW threshold
    PROVE  /\ IsFiniteSet(Health!AbnormalRows(pods, threshold))
           /\ Health!AbnormalRows(pods, threshold) \subseteq pods \X UNION {p.containers : p \in pods}
           /\ \A row \in Health!AbnormalRows(pods, threshold) :
                 row[1] \in pods /\ row[2] \in row[1].containers
<1> DEFINE C == [p \in pods |-> p.containers]
           all == pods \X UNION {C[p] : p \in DOMAIN C}
<1>1. IsFiniteSet({C[p] : p \in DOMAIN C})
  <2>1. DOMAIN C = pods
    OBVIOUS
  <2> HIDE DEF C
  <2> QED BY <2>1, FiniteImage
<1>2. \A S \in {C[p] : p \in DOMAIN C} : IsFiniteSet(S)
  OBVIOUS
<1>3. {C[p] : p \in DOMAIN C} = {p.containers : p \in pods}
  OBVIOUS
<1>4. IsFiniteSet(UNION {C[p] : p \in DOMAIN C})
  <2> HIDE DEF C
  <2> QED BY <1>1, <1>2, FS_UNION
<1>5. IsFiniteSet(all)
  <2> HIDE DEF C
  <2> QED BY <1>4, FS_Product
<1>6. \A row \in Health!AbnormalRows(pods, threshold) :
         \E p \in pods : \E c \in p.containers : row = <<p, c>>
  BY DEF Health!AbnormalRows, Health!Rows
<1>7. Health!AbnormalRows(pods, threshold) \subseteq all
  BY <1>3, <1>6
<1> HIDE DEF all
<1>8. IsFiniteSet(Health!AbnormalRows(pods, threshold))
  BY <1>5, <1>7, FS_Subset
<1> QED BY <1>3, <1>6, <1>7, <1>8 DEF all

(* What the snapshot shows of pods that were listed for it.                 *)
LEMMA SnapshotOf ==
    ASSUME NEW in, NEW out \in Health!Snapshot(in), in.pods # Failed,
           Health!InScope(in.pods, in.namespaces) # Failed
    PROVE  LET pods == Health!InScope(in.pods, in.namespaces)
           IN  /\ out.sections["pending"] \in Health!SectionPending(pods)
               /\ out.sections["restarts"] \in Health!AbnormalRestarts(pods, in.threshold)
               /\ out.sections["images"] \in Health!ImagePulls(pods)
               /\ out.sections["distribution"] = Health!PodDistribution(pods)
<1> DEFINE pods == Health!InScope(in.pods, in.namespaces)
<1>1. PICK t \in Health!PodTables(in) :
         out.sections = [s \in Health!Sections |->
                           IF s \in Health!TableSections THEN t[s] ELSE Health!Section(in, s)]
  BY DEF Health!Snapshot, Health!Report
<1>2. /\ t["pending"] \in Health!TablesOf(in, "pending")
      /\ t["restarts"] \in Health!TablesOf(in, "restarts")
      /\ t["images"] \in Health!TablesOf(in, "images")
  BY DEF Health!PodTables
<1>3. /\ out.sections["pending"] = t["pending"]
      /\ out.sections["restarts"] = t["restarts"]
      /\ out.sections["images"] = t["images"]
      /\ out.sections["distribution"] = Health!Section(in, "distribution")
  BY <1>1 DEF Health!TableSections, Health!Sections, Health!Counted
<1>4. \A s : Health!PodsFor(in, s) = pods
  BY DEF Health!PodsFor
<1>5. pods # Failed
  OBVIOUS
<1> HIDE DEF pods
<1>6. Health!Section(in, "distribution") = Health!PodDistribution(pods)
  BY <1>4, <1>5 DEF Health!Section, Health!DataOf, Health!Render
<1>7. /\ Health!TablesOf(in, "pending") = Health!SectionPending(pods)
      /\ Health!TablesOf(in, "restarts") = Health!AbnormalRestarts(pods, in.threshold)
      /\ Health!TablesOf(in, "images") = Health!ImagePulls(pods)
  BY <1>4, <1>5 DEF Health!TablesOf
<1> QED BY <1>2, <1>3, <1>6, <1>7 DEF pods

(* When the listing of the pods has come, the sections drawn from it are    *)
(* there but for Pending, and agree; what one table shows and another does  *)
(* not fell behind the cap (health.py:143-187, 343-399, 526-590).           *)
THEOREM SectionsAlwaysAgree == Spec => []PodSectionsAgree
<1>1. AnswersCome => PodSectionsAgree
  <2> DEFINE in == answer.in
             s == answer.out.sections
             pods == Health!InScope(in.pods, in.namespaces)
             abnormal == Health!AbnormalRows(pods, in.threshold)
             images == Health!ImageRows(pods)
             all == in.pods \X UNION {p.containers : p \in in.pods}
  <2> SUFFICES ASSUME AnswersCome, Of("cluster_health_snapshot"), in.pods # Failed
               PROVE  /\ Failed \notin {s["images"], s["restarts"], s["distribution"]}
                      /\ s["images"].all \subseteq s["restarts"].all
                      /\ \A row \in s["images"].shown \ s["restarts"].shown :
                            /\ Cardinality(s["restarts"].shown) = RowCap
                            /\ \A x \in s["restarts"].shown : x[2].restarts >= row[2].restarts
                      /\ s["pending"] # Failed => s["pending"].all = s["distribution"]["Pending"]
    BY DEF PodSectionsAgree
  <2>1. in \in Inputs["health"] /\ answer.out \in Health!Snapshot(in)
    BY DEF AnswersCome
  <2>2. /\ RowCap \in Nat /\ IsFiniteSet(in.pods)
        /\ \A p \in in.pods : IsFiniteSet(p.containers) /\ \A c \in p.containers : c.restarts \in Nat
        /\ \A S \in SUBSET in.pods : S # Failed
        /\ Failed \notin [all : SUBSET all, shown : SUBSET all]
        /\ Failed \notin [Health!Phases -> SUBSET in.pods]
    BY <2>1, HealthAssumption
  <2>3. pods \subseteq in.pods /\ IsFiniteSet(pods)
    BY <2>2, FS_Subset DEF Health!InScope
  <2>4. pods # Failed
    BY <2>2, <2>3
  <2>5. /\ s["pending"] \in Health!SectionPending(pods)
        /\ s["restarts"] \in Health!AbnormalRestarts(pods, in.threshold)
        /\ s["images"] \in Health!ImagePulls(pods)
        /\ s["distribution"] = Health!PodDistribution(pods)
    BY <2>1, <2>4, SnapshotOf
  <2> HIDE DEF in, s, pods
  <2>6. PICK R \in SUBSET abnormal :
           /\ s["restarts"] = [all |-> abnormal, shown |-> R]
           /\ Cardinality(R) = Health!Min({RowCap, Cardinality(abnormal)})
           /\ \A x \in R, y \in abnormal \ R : -x[2].restarts <= -y[2].restarts
    <3> HIDE DEF abnormal
    <3>1. s["restarts"] \in Health!Tables(abnormal, [r \in abnormal |-> -r[2].restarts])
      BY <2>5 DEF Health!AbnormalRestarts, abnormal
    <3> QED BY <3>1, SameCardinality DEF Health!Tables, Health!Cut
  <2>7. PICK I \in SUBSET images : s["images"] = [all |-> images, shown |-> I]
    BY <2>5 DEF Health!ImagePulls, Health!Tables, Health!Cut
  <2>8. images \subseteq abnormal
    BY ImagesAreAbnormal
  <2>9. /\ IsFiniteSet(abnormal) /\ abnormal \subseteq all
        /\ \A row \in abnormal : row[2].restarts \in Nat
    <3>1. \A p \in pods : IsFiniteSet(p.containers)
      BY <2>2, <2>3
    <3>2. /\ IsFiniteSet(abnormal)
          /\ abnormal \subseteq pods \X UNION {p.containers : p \in pods}
          /\ \A row \in abnormal : row[1] \in pods /\ row[2] \in row[1].containers
      BY <2>3, <3>1, RowsAreFinite
    <3>3. UNION {p.containers : p \in pods} \subseteq UNION {p.containers : p \in in.pods}
      BY <2>3
    <3> QED BY <2>2, <2>3, <3>2, <3>3
  <2> HIDE DEF abnormal, images, all
  <2>10. Failed \notin {s["images"], s["restarts"]}
    BY <2>2, <2>6, <2>7, <2>8, <2>9
  <2>11. s["distribution"] # Failed
    BY <2>2, <2>3, <2>5 DEF Health!PodDistribution
  <2>12. ASSUME NEW row \in I \ R
         PROVE  Cardinality(R) = RowCap /\ \A x \in R : x[2].restarts >= row[2].restarts
    <3>1. row \in abnormal /\ R # abnormal
      BY <2>7, <2>8
    <3>2. Cardinality(R) = RowCap
      BY <2>2, <2>6, <2>9, <3>1, FullOrWhole
    <3>3. ASSUME NEW x \in R PROVE x[2].restarts >= row[2].restarts
      <4>1. x[2].restarts \in Nat /\ row[2].restarts \in Nat
        BY <2>9, <3>1
      <4>2. -x[2].restarts <= -row[2].restarts
        BY <2>6, <3>1
      <4> QED BY <4>1, <4>2
    <3> QED BY <3>2, <3>3
  <2>13. s["pending"] # Failed => s["pending"].all = s["distribution"]["Pending"]
    <3>1. s["pending"] # Failed => s["pending"].all = Health!PendingPods(pods)
      BY <2>5 DEF Health!SectionPending, Health!Tables, Health!Cut
    <3>2. s["distribution"]["Pending"] = Health!PendingPods(pods)
      BY <2>5 DEF Health!PendingPods, Health!PodDistribution, Health!Phases
    <3> QED BY <3>1, <3>2
  <2>14. /\ s["images"].all = images /\ s["images"].shown = I
         /\ s["restarts"].all = abnormal /\ s["restarts"].shown = R
    BY <2>6, <2>7
  <2> QED BY <2>8, <2>10, <2>11, <2>12, <2>13, <2>14
<1> QED BY <1>1, AnswersInvariant, PTL

-----------------------------------------------------------------------------
(* Events.                                                                 *)

(* What is kept of some events: as many as fit, and none older than one     *)
(* that is not kept.                                                        *)
LEMMA LatestKeeps ==
    ASSUME NEW S, IsFiniteSet(S), NEW k \in Nat, NEW T \in Reports!Latest(S, k)
    PROVE  /\ T \subseteq S /\ IsFiniteSet(T)
           /\ Cardinality(T) \in Nat /\ Cardinality(T) <= k
           /\ T # S => Cardinality(T) = k
           /\ \A x \in T, y \in S \ T : x.event.time >= y.event.time
<1>1. /\ T \subseteq S
      /\ Cardinality(T) = Reports!Min({k, Cardinality(S)})
      /\ \A x \in T, y \in S \ T : x.event.time >= y.event.time
  BY SameCardinality DEF Reports!Latest
<1>2. Cardinality(S) \in Nat
  BY FS_CardinalityType
<1>3. Cardinality(T) = IF k <= Cardinality(S) THEN k ELSE Cardinality(S)
  BY <1>1, <1>2, MinOfTwo
<1>4. IsFiniteSet(T) /\ (Cardinality(T) = Cardinality(S) => T = S)
  BY <1>1, FS_Subset
<1> QED BY <1>1, <1>2, <1>3, <1>4

(* Where something else is among no more things, something is missing.      *)
LEMMA SomethingIsMissing ==
    ASSUME NEW A, NEW T, IsFiniteSet(A), IsFiniteSet(T), Cardinality(T) <= Cardinality(A),
           NEW e \in T \ A
    PROVE  \E y \in A : y \notin T
<1> SUFFICES ASSUME A \subseteq T PROVE FALSE
  OBVIOUS
<1>1. Cardinality(A) = Cardinality(T) => A = T
  BY FS_Subset
<1>2. Cardinality(A) <= Cardinality(T)
  BY FS_Subset
<1>3. Cardinality(A) \in Nat /\ Cardinality(T) \in Nat
  BY FS_CardinalityType
<1> QED BY <1>1, <1>2, <1>3

(* The rows that a query lists and a filter lets pass are of that query,    *)
(* and all of them are what is asked for.                                   *)
Own(in, i, selector) ==
    Reports!Wanted(Reports!Listed(in.events, i, Queried(in)[i], selector), in.warningOnly)

LEMMA OwnRows ==
    ASSUME NEW in, NEW i, NEW selector
    PROVE  \A r : r \in Own(in, i, selector) <=>
              /\ r = [query |-> i, event |-> r.event] /\ r.query = i
              /\ r.event \in in.events
              /\ Queried(in)[i] \in {None, r.event.ns}
              /\ selector \in {None, r.event.object}
              /\ in.warningOnly => r.event.type = "Warning"
BY DEF Own, Reports!Wanted, Reports!Listed, Reports!Row

LEMMA AllRows ==
    ASSUME NEW in
    PROVE  \A r : r \in EventRows(in) <=>
              /\ r = [query |-> r.query, event |-> r.event]
              /\ r.query \in DOMAIN Queried(in) /\ r.event \in in.events
              /\ Queried(in)[r.query] \in {None, r.event.ns}
              /\ Several(in) \/ in.selector \in {None, r.event.object}
              /\ in.warningOnly => r.event.type = "Warning"
BY DEF EventRows, Reports!Row

LEMMA RowsFinite ==
    ASSUME NEW in, IsFiniteSet(in.events), IsFiniteSet(DOMAIN Queried(in))
    PROVE  IsFiniteSet({Reports!Row(i, e) : i \in DOMAIN Queried(in), e \in in.events})
<1> DEFINE D == (DOMAIN Queried(in)) \X in.events
           f == [x \in D |-> Reports!Row(x[1], x[2])]
           rows == {Reports!Row(i, e) : i \in DOMAIN Queried(in), e \in in.events}
<1>1. IsFiniteSet(D)
  BY FS_Product
<1>2. ASSUME NEW i \in DOMAIN Queried(in), NEW e \in in.events
      PROVE  Reports!Row(i, e) \in {f[x] : x \in DOMAIN f}
  <2>1. <<i, e>> \in DOMAIN f /\ f[<<i, e>>] = Reports!Row(i, e)
    OBVIOUS
  <2> QED BY <2>1
<1>3. ASSUME NEW r \in rows PROVE r \in {f[x] : x \in DOMAIN f}
  <2>1. PICK i \in DOMAIN Queried(in), e \in in.events : r = Reports!Row(i, e)
    OBVIOUS
  <2> HIDE DEF f
  <2> QED BY <1>2, <2>1
<1>4. DOMAIN f = D
  OBVIOUS
<1> HIDE DEF f, D, rows
<1>5. IsFiniteSet({f[x] : x \in DOMAIN f})
  BY <1>1, <1>4, FiniteImage
<1>6. rows \in SUBSET {f[x] : x \in DOMAIN f}
  BY <1>3
<1> QED BY <1>5, <1>6, FS_Subset DEF rows

LEMMA EventsAreFinite ==
    ASSUME NEW in \in Inputs["events"]
    PROVE  /\ IsFiniteSet(EventRows(in)) /\ in.limit \in Nat
           /\ \A r \in EventRows(in) : r.event.time \in Int
<1>1. /\ IsFiniteSet(in.events) /\ in.limit \in Nat
      /\ \A e \in in.events : e.time \in Int
      /\ in.namespaces # None => in.namespaces \in Seq({in.namespaces[i] : i \in DOMAIN in.namespaces})
  BY EventsAssumption
<1>2. IsFiniteSet(DOMAIN Queried(in))
  <2>1. PICK n \in Nat : DOMAIN Queried(in) = 1..n
    <3>1. CASE in.namespaces = None
      <4>1. DOMAIN <<in.namespace>> = 1..1
        OBVIOUS
      <4> QED BY <3>1, <4>1 DEF Queried
    <3>2. CASE in.namespaces # None
      BY <1>1, <3>2 DEF Queried
    <3> QED BY <3>1, <3>2
  <2> QED BY <2>1, FS_Interval
<1> DEFINE rows == {Reports!Row(i, e) : i \in DOMAIN Queried(in), e \in in.events}
<1>3. EventRows(in) \in SUBSET rows /\ IsFiniteSet(rows)
  BY <1>1, <1>2, RowsFinite DEF EventRows
<1> HIDE DEF rows
<1>4. IsFiniteSet(EventRows(in))
  BY <1>3, FS_Subset
<1>5. \A r \in EventRows(in) : r.event \in in.events
  BY AllRows
<1> QED BY <1>1, <1>4, <1>5

(* Cutting the rows of each query to the limit, and what is left once more, *)
(* is the same as cutting all of them.                                      *)
LEMMA MergedIsLatest ==
    ASSUME NEW in \in Inputs["events"], Several(in),
           NEW out \in Reports!ListEventsMulti(in.events, in.namespaces, in.warningOnly, in.limit)
    PROVE  /\ out \subseteq EventRows(in)
           /\ Cardinality(out) <= in.limit
           /\ out # EventRows(in) => Cardinality(out) = in.limit
           /\ \A x \in out, y \in EventRows(in) \ out : x.event.time >= y.event.time
<1> DEFINE N == DOMAIN in.namespaces
           own(i) == Own(in, i, None)
           all == EventRows(in)
<1>1. IsFiniteSet(all) /\ in.limit \in Nat /\ \A r \in all : r.event.time \in Int
  BY EventsAreFinite
<1>2. Queried(in) = in.namespaces
  BY DEF Queried, Several
<1>3. PICK T \in SUBSET Reports!Together(in.events, in.namespaces) :
         /\ \A i \in N : {r \in T : r.query = i} \in Reports!Latest(own(i), in.limit)
         /\ out \in Reports!Latest(T, in.limit)
  BY <1>2 DEF Reports!ListEventsMulti, Reports!CollectEvents, Own
<1> DEFINE part(i) == {r \in T : r.query = i}
<1>4. \A x : x \in all <=> x.query \in N /\ x \in own(x.query)
  BY <1>2, AllRows, OwnRows DEF Several
<1>5. \A i \in N : own(i) \subseteq all
  BY <1>4, OwnRows
<1>6. \A r \in T : r.query \in N
  BY DEF Reports!Together, Reports!Listed, Reports!Row
<1> HIDE DEF own, all
<1>7. ASSUME NEW i \in N
      PROVE  /\ part(i) \subseteq own(i) /\ IsFiniteSet(part(i))
             /\ Cardinality(part(i)) <= in.limit
             /\ part(i) # own(i) => Cardinality(part(i)) = in.limit
             /\ \A x \in part(i), y \in own(i) \ part(i) : x.event.time >= y.event.time
  <2>1. IsFiniteSet(own(i))
    BY <1>1, <1>5, FS_Subset
  <2>2. part(i) \in Reports!Latest(own(i), in.limit)
    BY <1>3
  <2> HIDE DEF part
  <2> QED BY <1>1, <2>1, <2>2, LatestKeeps
<1>8. T \subseteq all
  BY <1>5, <1>6, <1>7
<1>9. IsFiniteSet(T)
  BY <1>1, <1>8, FS_Subset
<1>10. /\ out \subseteq T /\ IsFiniteSet(out)
       /\ Cardinality(out) \in Nat /\ Cardinality(out) <= in.limit
       /\ out # T => Cardinality(out) = in.limit
       /\ \A x \in out, y \in T \ out : x.event.time >= y.event.time
  BY <1>1, <1>3, <1>9, LatestKeeps
(* A row that was cut from its own query has as many as the limit ahead.    *)
<1>11. ASSUME NEW x \in all, x \notin T
       PROVE  LET g == part(x.query)
              IN  /\ g \subseteq T /\ IsFiniteSet(g) /\ Cardinality(g) = in.limit
                  /\ \A y \in g : y.event.time >= x.event.time
  <2> DEFINE g == part(x.query)
  <2>1. x.query \in N /\ x \in own(x.query) /\ x \notin g /\ g \subseteq T
    BY <1>4, <1>11
  <2> HIDE DEF part
  <2> QED BY <1>7, <2>1
<1> HIDE DEF part
<1>12. ASSUME NEW x \in all, x \notin out
       PROVE  Cardinality(out) = in.limit
  <2>1. CASE x \in T
    BY <1>10, <1>12, <2>1
  <2>2. CASE x \notin T
    <3>1. Cardinality(part(x.query)) = in.limit /\ part(x.query) \subseteq T
      BY <1>11, <2>2
    <3>2. Cardinality(T) \in Nat /\ Cardinality(T) >= in.limit
      BY <1>1, <1>9, <3>1, FS_Subset, FS_CardinalityType
    <3> QED BY <1>1, <1>10, <3>2
  <2> QED BY <2>1, <2>2
<1>13. ASSUME NEW e \in out, NEW x \in all, x \notin out
       PROVE  e.event.time >= x.event.time
  <2>1. CASE x \in T
    BY <1>10, <1>13, <2>1
  <2>2. CASE x \notin T
    <3> DEFINE g == part(x.query)
    <3>1. /\ g \subseteq T /\ IsFiniteSet(g) /\ Cardinality(g) = in.limit
          /\ \A y \in g : y.event.time >= x.event.time
      BY <1>11, <2>2
    <3> HIDE DEF g
    <3>2. CASE e \in g
      BY <3>1, <3>2
    <3>3. CASE e \notin g
      <4>1. PICK y \in g : y \notin out
        BY <1>10, <3>1, <3>3, SomethingIsMissing
      <4>2. e.event.time >= y.event.time /\ y.event.time >= x.event.time
        BY <1>10, <3>1, <4>1
      <4>3. e.event.time \in Int /\ y.event.time \in Int /\ x.event.time \in Int
        BY <1>1, <1>8, <1>10, <3>1, <4>1
      <4> QED BY <4>2, <4>3
    <3> QED BY <3>2, <3>3
  <2> QED BY <2>1, <2>2
<1> QED BY <1>8, <1>10, <1>12, <1>13 DEF all

(* A list of namespaces has none, one or several.                           *)
LEMMA HowMany ==
    ASSUME NEW in \in Inputs["events"], in.namespaces # None
    PROVE  /\ Several(in) \/ in.namespaces = <<>> \/ Len(in.namespaces) = 1
           /\ Several(in) => Len(in.namespaces) # 1 /\ in.namespaces # <<>>
           /\ Len(in.namespaces) = 1 => DOMAIN in.namespaces = {1}
<1> DEFINE S == {in.namespaces[i] : i \in DOMAIN in.namespaces}
<1>1. in.namespaces \in Seq(S)
  BY EventsAssumption
<1> HIDE DEF S
<1>2. PICK n \in Seq(S) : n = in.namespaces
  BY <1>1
<1>3. Len(n) \in Nat /\ DOMAIN n = 1..Len(n) /\ (Len(n) = 0 => n = <<>>)
  BY <1>2, LenProperties, EmptySeq
<1>4. n = <<>> \/ Len(n) = 1 \/ Len(n) > 1
  BY <1>3
<1>5. Len(n) > 1 => Len(n) # 1 /\ n # <<>>
  <2>1. Len(<<>>) = 0
    OBVIOUS
  <2>2. n = <<>> => Len(n) = 0
    BY <2>1
  <2> HIDE <1>2
  <2> QED BY <1>3, <2>2
<1>6. Len(n) = 1 => DOMAIN n = {1}
  <2>1. 1..1 = {1}
    OBVIOUS
  <2> QED BY <1>3, <2>1
<1> QED BY <1>2, <1>4, <1>5, <1>6 DEF Several

(* The events of several namespaces are the latest of all, and those of one *)
(* query the latest that were asked for (events.py:32-80, 117-178).         *)
THEOREM MergedAreLatest == Spec => []MergedEventsAreLatest
<1>1. AnswersCome => MergedEventsAreLatest
  <2> DEFINE in == answer.in
             out == answer.out
             all == EventRows(in)
  <2> SUFFICES ASSUME AnswersCome, Of("list_events")
               PROVE  /\ out \subseteq all
                      /\ Cardinality(out) <= in.limit
                      /\ out # all => Cardinality(out) = in.limit
                      /\ \A x \in out, y \in all \ out : x.event.time >= y.event.time
    BY DEF MergedEventsAreLatest
  <2>1. in \in Inputs["events"] /\ out \in Reports!ListEvents(in)
    BY DEF AnswersCome
  <2> HIDE DEF in, out
  <2>2. IsFiniteSet(all) /\ in.limit \in Nat
    BY <2>1, EventsAreFinite
  <2>3. in.namespaces # None =>
           /\ Several(in) \/ in.namespaces = <<>> \/ Len(in.namespaces) = 1
           /\ Several(in) => Len(in.namespaces) # 1 /\ in.namespaces # <<>>
           /\ Len(in.namespaces) = 1 => DOMAIN in.namespaces = {1}
    BY <2>1, HowMany
  <2>4. CASE in.namespaces # None /\ in.namespaces = <<>>
    <3>1. out = {} /\ DOMAIN Queried(in) = {}
      BY <2>1, <2>4 DEF Reports!ListEvents, Queried
    <3> HIDE DEF all
    <3>3. all = {}
      BY <3>1, AllRows DEF all
    <3>2. Cardinality({}) = 0
      BY FS_EmptySet
    <3> QED BY <2>2, <3>1, <3>2, <3>3
  <2>5. CASE Several(in) /\ in.namespaces # <<>>
    <3>1. out \in Reports!ListEventsMulti(in.events, in.namespaces, in.warningOnly, in.limit)
      <4>1. in.namespaces # None /\ in.namespaces # <<>> /\ Len(in.namespaces) # 1
        BY <2>3, <2>5 DEF Several
      <4> QED BY <2>1, <4>1 DEF Reports!ListEvents
    <3> QED BY <2>1, <2>5, <3>1, MergedIsLatest
  <2>6. CASE ~Several(in) /\ (in.namespaces = None \/ in.namespaces # <<>>)
    <3>1. out \in Reports!Latest(Own(in, 1, in.selector), in.limit) /\ DOMAIN Queried(in) = {1}
      <4>1. CASE in.namespaces = None
        BY <2>1, <4>1 DEF Reports!ListEvents, Reports!CollectEvents, Own, Queried
      <4>2. CASE in.namespaces # None
        <5>2. Len(in.namespaces) = 1
          BY <2>3, <2>6, <4>2
        <5>3. DOMAIN in.namespaces = {1}
          BY <2>3, <4>2, <5>2
        <5>4. in.namespaces # <<>>
          BY <2>6, <4>2
        <5>5. out \in Reports!CollectEvents(Reports!Listed(in.events, 1, in.namespaces[1], in.selector),
                                            in.warningOnly, in.limit)
          BY <2>1, <4>2, <5>2, <5>4 DEF Reports!ListEvents
        <5>6. Queried(in) = in.namespaces
          BY <4>2 DEF Queried
        <5> QED BY <5>3, <5>5, <5>6 DEF Reports!CollectEvents, Own
      <4> QED BY <4>1, <4>2
    <3>2. ASSUME NEW r PROVE r \in Own(in, 1, in.selector) <=> r \in EventRows(in)
      <4>1. CASE r \in Own(in, 1, in.selector)
        BY <2>6, <3>1, <4>1, OwnRows, AllRows
      <4>2. CASE r \in EventRows(in)
        BY <2>6, <3>1, <4>2, OwnRows, AllRows
      <4> QED BY <4>1, <4>2
    <3>3. Own(in, 1, in.selector) = all
      BY <3>2
    <3> QED BY <2>2, <3>1, <3>3, LatestKeeps
  <2> QED BY <2>4, <2>5, <2>6 DEF Several
<1> QED BY <1>1, AnswersInvariant, PTL

-----------------------------------------------------------------------------
(* GPUs.  Limits and offers are sums, which are compared by way of Sum.     *)

(* SumOver of the terms of a function is its Sum.                           *)
LEMMA SumOverIsSum ==
    ASSUME NEW S, NEW w PROVE Gpu!SumOver(S, LAMBDA x : w[x]) = Sum(w, S)
BY DEF Gpu!SumOver, Gpu!MapThenSumSet, Gpu!MapThenFoldSet, Sum, IsTable, SumFrom, Some

(* Finitely many containers, each with whole quantities.                    *)
Counts(group) ==
    /\ IsFiniteSet(DOMAIN group)
    /\ \A i \in DOMAIN group : \A r \in DOMAIN group[i] : group[i][r] \in Nat

(* An amount is whole, and 0 where there is none.                           *)
LEMMA AmountType ==
    ASSUME NEW f, \A r \in DOMAIN f : f[r] \in Nat, NEW r
    PROVE  Gpu!Amount(f, r) \in Nat
BY DEF Gpu!Amount

(* The amounts of some containers together are a Sum.                       *)
LEMMA ContainersSumIs ==
    ASSUME NEW S, IsFiniteSet(S), NEW app, NEW r, NEW w,
           \A i \in S : w[i] = Gpu!Amount(app[i], r)
    PROVE  Gpu!SumOver(S, LAMBDA i : Gpu!Amount(app[i], r)) = Sum(w, S)
<1> DEFINE Is(h) == h = [s \in SUBSET S |->
                           IF s = {} THEN 0
                           ELSE LET x == CHOOSE x \in s : TRUE
                                IN  Gpu!Amount(app[x], r) + h[s \ {x}]]
           h == CHOOSE h : Is(h)
<1>1. PICK g : IsTable(w, S, g)
  BY TableExists
<1>2. \A f : \A s \in SUBSET S :
         SumFrom(w, f, s) = IF s = {} THEN 0
                            ELSE LET x == CHOOSE x \in s : TRUE
                                 IN  Gpu!Amount(app[x], r) + f[s \ {x}]
  BY DEF SumFrom, Some
<1>3. \A f : Is(f) <=> IsTable(w, S, f)
  <2> TAKE f
  <2> DEFINE mine(s) == IF s = {} THEN 0
                        ELSE LET x == CHOOSE x \in s : TRUE
                             IN  Gpu!Amount(app[x], r) + f[s \ {x}]
  <2>1. [s \in SUBSET S |-> SumFrom(w, f, s)] = [s \in SUBSET S |-> mine(s)]
    <3>1. \A s \in SUBSET S : SumFrom(w, f, s) = mine(s)
      BY <1>2
    <3> HIDE DEF mine
    <3> QED BY <3>1
  <2> QED BY <2>1 DEF IsTable
<1>4. IsTable(w, S, h)
  <2>1. \E f : Is(f)
    <3>1. Is(g)
      BY <1>1, <1>3, Zenon
    <3> QED BY <3>1, Zenon
  <2> HIDE DEF Is
  <2>2. Is(h)
    BY <2>1
  <2> QED BY <2>2, <1>3
<1>5. h[S] = Sum(w, S)
  BY <1>4, TableIsSum
<1>6. Gpu!SumOver(S, LAMBDA i : Gpu!Amount(app[i], r)) = h[S]
  BY DEF Gpu!SumOver, Gpu!MapThenSumSet, Gpu!MapThenFoldSet
<1> HIDE DEF h
<1> QED BY <1>5, <1>6

(* What containers have of a resource together: a whole quantity.           *)
Containers(app, r) == Gpu!SumOver(DOMAIN app, LAMBDA i : Gpu!Amount(app[i], r))

LEMMA ContainersSum ==
    ASSUME NEW app, Counts(app), NEW r
    PROVE  Containers(app, r) \in Nat
<1> DEFINE w == [i \in DOMAIN app |-> Gpu!Amount(app[i], r)]
<1>1. \A i \in DOMAIN app : w[i] = Gpu!Amount(app[i], r) /\ w[i] \in Nat
  BY AmountType DEF Counts
<1> HIDE DEF w
<1>2. Gpu!SumOver(DOMAIN app, LAMBDA i : Gpu!Amount(app[i], r)) = Sum(w, DOMAIN app)
  BY <1>1, ContainersSumIs DEF Counts
<1> QED BY <1>1, <1>2, SumNat DEF Counts, Containers

(* The same where the terms are what a set of pods or nodes has of slices.  *)
LEMMA SlicesAskedSum ==
    ASSUME NEW S, IsFiniteSet(S), NEW r, NEW w,
           \A p \in S : w[p] = Gpu!Amount(Gpu!Mig(Gpu!PodLimits(p)), r)
    PROVE  Gpu!SumOver(S, LAMBDA p : Gpu!Amount(Gpu!Mig(Gpu!PodLimits(p)), r)) = Sum(w, S)
<1> DEFINE Is(h) == h = [s \in SUBSET S |->
                           IF s = {} THEN 0
                           ELSE LET x == CHOOSE x \in s : TRUE
                                IN  Gpu!Amount(Gpu!Mig(Gpu!PodLimits(x)), r) + h[s \ {x}]]
           h == CHOOSE h : Is(h)
<1>1. PICK g : IsTable(w, S, g)
  BY TableExists
<1>2. \A f : \A s \in SUBSET S :
         SumFrom(w, f, s) = IF s = {} THEN 0
                            ELSE LET x == CHOOSE x \in s : TRUE
                                 IN  Gpu!Amount(Gpu!Mig(Gpu!PodLimits(x)), r) + f[s \ {x}]
  BY DEF SumFrom, Some
<1>3. \A f : Is(f) <=> IsTable(w, S, f)
  <2> TAKE f
  <2> DEFINE mine(s) == IF s = {} THEN 0
                        ELSE LET x == CHOOSE x \in s : TRUE
                             IN  Gpu!Amount(Gpu!Mig(Gpu!PodLimits(x)), r) + f[s \ {x}]
  <2>1. [s \in SUBSET S |-> SumFrom(w, f, s)] = [s \in SUBSET S |-> mine(s)]
    <3>1. \A s \in SUBSET S : SumFrom(w, f, s) = mine(s)
      BY <1>2
    <3> HIDE DEF mine
    <3> QED BY <3>1
  <2> QED BY <2>1 DEF IsTable
<1>4. IsTable(w, S, h)
  <2>1. \E f : Is(f)
    <3>1. Is(g)
      BY <1>1, <1>3, Zenon
    <3> QED BY <3>1, Zenon
  <2> HIDE DEF Is
  <2>2. Is(h)
    BY <2>1
  <2> QED BY <2>2, <1>3
<1>5. h[S] = Sum(w, S)
  BY <1>4, TableIsSum
<1>6. Gpu!SumOver(S, LAMBDA p : Gpu!Amount(Gpu!Mig(Gpu!PodLimits(p)), r)) = h[S]
  BY DEF Gpu!SumOver, Gpu!MapThenSumSet, Gpu!MapThenFoldSet
<1> HIDE DEF h
<1> QED BY <1>5, <1>6

(* So are the slices that nodes offer.                                      *)
LEMMA SlicesOfferedSum ==
    ASSUME NEW S, IsFiniteSet(S), NEW r, NEW w,
           \A n \in S : w[n] = Gpu!Amount(Gpu!Mig(n.allocatable), r)
    PROVE  Gpu!SumOver(S, LAMBDA n : Gpu!Amount(Gpu!Mig(n.allocatable), r)) = Sum(w, S)
<1> DEFINE Is(h) == h = [s \in SUBSET S |->
                           IF s = {} THEN 0
                           ELSE LET x == CHOOSE x \in s : TRUE
                                IN  Gpu!Amount(Gpu!Mig(x.allocatable), r) + h[s \ {x}]]
           h == CHOOSE h : Is(h)
<1>1. PICK g : IsTable(w, S, g)
  BY TableExists
<1>2. \A f : \A s \in SUBSET S :
         SumFrom(w, f, s) = IF s = {} THEN 0
                            ELSE LET x == CHOOSE x \in s : TRUE
                                 IN  Gpu!Amount(Gpu!Mig(x.allocatable), r) + f[s \ {x}]
  BY DEF SumFrom, Some
<1>3. \A f : Is(f) <=> IsTable(w, S, f)
  <2> TAKE f
  <2> DEFINE mine(s) == IF s = {} THEN 0
                        ELSE LET x == CHOOSE x \in s : TRUE
                             IN  Gpu!Amount(Gpu!Mig(x.allocatable), r) + f[s \ {x}]
  <2>1. [s \in SUBSET S |-> SumFrom(w, f, s)] = [s \in SUBSET S |-> mine(s)]
    <3>1. \A s \in SUBSET S : SumFrom(w, f, s) = mine(s)
      BY <1>2
    <3> HIDE DEF mine
    <3> QED BY <3>1
  <2> QED BY <2>1 DEF IsTable
<1>4. IsTable(w, S, h)
  <2>1. \E f : Is(f)
    <3>1. Is(g)
      BY <1>1, <1>3, Zenon
    <3> QED BY <3>1, Zenon
  <2> HIDE DEF Is
  <2>2. Is(h)
    BY <2>1
  <2> QED BY <2>2, <1>3
<1>5. h[S] = Sum(w, S)
  BY <1>4, TableIsSum
<1>6. Gpu!SumOver(S, LAMBDA n : Gpu!Amount(Gpu!Mig(n.allocatable), r)) = h[S]
  BY DEF Gpu!SumOver, Gpu!MapThenSumSet, Gpu!MapThenFoldSet
<1> HIDE DEF h
<1> QED BY <1>5, <1>6

(* A share that suffices for a pod, as the scheduler counts, covers the     *)
(* limits that the tool takes it to have.                                   *)
LEMMA LimitsAreCovered ==
    ASSUME NEW p, Counts(p.app), Counts(p.init), NEW r
    PROVE  /\ Gpu!Amount(Gpu!PodLimits(p), r) \in Nat
           /\ \A k \in Nat : Suffices(p, r, k) => Gpu!Amount(Gpu!PodLimits(p), r) <= k
<1> DEFINE apps == Gpu!SumOver(DOMAIN p.app, LAMBDA i : Gpu!Amount(p.app[i], r))
           inits == {Gpu!Amount(p.init[i], r) : i \in DOMAIN p.init}
           all == {apps} \cup inits
<1>1. apps \in Nat /\ inits \subseteq Nat
  <2>1. \A i \in DOMAIN p.init : Gpu!Amount(p.init[i], r) \in Nat
    BY AmountType DEF Counts
  <2>2. apps \in Nat
    <3>1. Containers(p.app, r) \in Nat
      BY ContainersSum
    <3> QED BY <3>1 DEF Containers
  <2> HIDE DEF apps
  <2> QED BY <2>1, <2>2
<1>2. IsFiniteSet(all)
  <2> DEFINE amount == [i \in DOMAIN p.init |-> Gpu!Amount(p.init[i], r)]
  <2>1. inits = {amount[i] : i \in DOMAIN p.init}
    OBVIOUS
  <2>2. IsFiniteSet(inits)
    BY <2>1, FiniteImage DEF Counts
  <2> QED BY <2>2, FS_Singleton, FS_Union
<1>3. Gpu!Max(all) \in all
  <2>1. all \in SUBSET Int /\ all # {}
    <3> HIDE DEF apps, inits
    <3> QED BY <1>1
  <2> HIDE DEF all
  <2>2. \E m \in all : \A x \in all : m >= x
    BY <1>2, <2>1, LargestExists
  <2> QED BY <2>2 DEF Gpu!Max
<1>4. Gpu!Amount(Gpu!PodLimits(p), r) \in {0, Gpu!Max(all)}
  BY DEF Gpu!Amount, Gpu!PodLimits
<1>5. \A k : Suffices(p, r, k) => \A x \in all : x <= k
  BY DEF Suffices
<1> HIDE DEF all
<1>6. all \subseteq Nat
  BY <1>1 DEF all
<1>7. CASE Gpu!Amount(Gpu!PodLimits(p), r) = 0
  BY <1>7
<1>8. CASE Gpu!Amount(Gpu!PodLimits(p), r) = Gpu!Max(all)
  <2>1. Gpu!Max(all) \in all /\ Gpu!Max(all) \in Nat
    BY <1>3, <1>6
  <2>2. \A k \in Nat : Suffices(p, r, k) => Gpu!Max(all) <= k
    BY <1>5, <2>1
  <2> QED BY <1>8, <2>1, <2>2
<1> QED BY <1>4, <1>7, <1>8

(* Where every pod that is not done is on a node with room for it, no       *)
(* profile is asked for beyond what the nodes offer.                        *)
LEMMA EnoughSlices ==
    ASSUME NEW in \in Inputs["gpu"], in.pods # Failed,
           NEW running, running = {p \in in.pods : p.phase \notin {"Succeeded", "Failed"}},
           \A p \in running : \E n \in in.nodes : n.name = p.node,
           \A n \in in.nodes : HasRoom(n, {p \in running : p.node = n.name}),
           NEW r \in Profiles,
           NEW users \in SUBSET running,
           NEW mig, mig = {n \in in.nodes : Gpu!MigNode(n)},
           NEW w, \A p \in in.pods : w[p] = Gpu!Amount(Gpu!Mig(Gpu!PodLimits(p)), r),
           NEW v, \A n \in in.nodes : v[n] = Gpu!Amount(Gpu!Mig(n.allocatable), r)
    PROVE  Sum(w, users) <= Sum(v, mig)
<1> DEFINE under == [n \in in.nodes |-> {p \in running : p.node = n.name}]
<1>1. /\ IsFiniteSet(in.nodes) /\ IsFiniteSet(mig) /\ IsFiniteSet(in.nodes \ mig)
      /\ IsFiniteSet(running) /\ IsFiniteSet(users) /\ IsFiniteSet(running \ users)
  <2>1. IsFiniteSet(in.nodes) /\ IsFiniteSet(in.pods)
    BY GpuAssumption
  <2> QED BY <2>1, FS_Subset
<1>2. \A p \in in.pods : Counts(p.app) /\ Counts(p.init)
  BY GpuAssumption DEF Counts
<1>3. \A p \in in.pods : w[p] = Gpu!Amount(Gpu!PodLimits(p), r)
  BY DEF Gpu!Amount, Gpu!Mig
<1>4. \A p \in in.pods : w[p] \in Nat
  BY <1>2, <1>3, LimitsAreCovered
<1>5. \A n \in in.nodes : v[n] = Gpu!Amount(n.allocatable, r) /\ v[n] \in Nat
  <2> TAKE n \in in.nodes
  <2>1. v[n] = Gpu!Amount(n.allocatable, r)
    BY DEF Gpu!Amount, Gpu!Mig
  <2>2. Gpu!Amount(n.allocatable, r) \in Nat
    BY GpuAssumption, AmountType
  <2> QED BY <2>1, <2>2
<1>6. \A n \in in.nodes : Sum(w, under[n]) <= v[n]
  <2> TAKE n \in in.nodes
  <2> DEFINE here == {p \in running : p.node = n.name}
  <2>1. HasRoom(n, here)
    OBVIOUS
  <2>2. PICK share \in [here -> 0..Gpu!Amount(n.allocatable, r)] :
           /\ \A p \in here : Suffices(p, r, share[p])
           /\ Gpu!SumOver(here, LAMBDA p : share[p]) <= Gpu!Amount(n.allocatable, r)
    BY <2>1 DEF HasRoom
  <2>3. Sum(share, here) <= v[n]
    BY <2>2, <1>5, SumOverIsSum
  <2>4. \A p \in here : share[p] \in Nat /\ w[p] \in Nat /\ w[p] <= share[p]
    <3> TAKE p \in here
    <3>1. p \in in.pods /\ Counts(p.app) /\ Counts(p.init) /\ w[p] \in Nat
      BY <1>2, <1>4
    <3>2. Gpu!Amount(n.allocatable, r) \in Nat
      BY <1>5
    <3>3. share[p] \in Nat /\ Suffices(p, r, share[p])
      BY <2>2, <3>2
    <3>4. Gpu!Amount(Gpu!PodLimits(p), r) <= share[p]
      BY <3>1, <3>3, LimitsAreCovered
    <3> QED BY <3>1, <3>3, <3>4, <1>3
  <2>5. IsFiniteSet(here)
    BY <1>1, FS_Subset
  <2>6. Sum(w, here) <= Sum(share, here)
    BY <2>4, <2>5, SumLe
  <2>7. Sum(w, here) \in Int /\ Sum(share, here) \in Int
    BY <2>4, <2>5, SumType
  <2>8. under[n] = here
    OBVIOUS
  <2> HIDE DEF here, under
  <2> QED BY <2>3, <2>6, <2>7, <2>8, <1>5
<1>7. Sum(w, running) <= Sum(v, in.nodes)
  <2>1. \A n \in in.nodes : under[n] \subseteq running
    OBVIOUS
  <2>2. \A p \in running : \E n \in in.nodes : p \in under[n]
    OBVIOUS
  <2>3. (\A p \in running : w[p] \in Nat) /\ (\A n \in in.nodes : v[n] \in Int)
    BY <1>4, <1>5
  <2> HIDE DEF under
  <2> QED BY <1>1, <1>6, <2>1, <2>2, <2>3, SumShared
<1>8. Sum(w, users) <= Sum(w, running)
  <2>1. users \cup (running \ users) = running
    OBVIOUS
  <2>2. \A p \in users \cup (running \ users) : w[p] \in Nat
    BY <1>4
  <2>3. Sum(w, users) <= Sum(w, users \cup (running \ users))
    BY <1>1, <2>2, SumUnion
  <2> QED BY <2>1, <2>3
<1>9. Sum(v, in.nodes) <= Sum(v, mig)
  <2>1. mig \cup (in.nodes \ mig) = in.nodes
    OBVIOUS
  <2>2. \A n \in mig \cup (in.nodes \ mig) : v[n] \in Nat
    BY <1>5
  <2>3. Sum(v, mig \cup (in.nodes \ mig)) <= Sum(v, mig) + Sum(v, in.nodes \ mig)
    BY <1>1, <2>2, SumUnion
  <2>4. \A n \in in.nodes \ mig : v[n] = 0
    BY DEF Gpu!MigNode, Gpu!Amount
  <2>5. Sum(v, in.nodes \ mig) = 0
    BY <1>1, <2>4, SumZeros
  <2>6. Sum(v, mig) \in Int
    BY <1>1, <1>5, SumType
  <2>7. Sum(v, in.nodes) <= Sum(v, mig) + Sum(v, in.nodes \ mig)
    BY <2>1, <2>3
  <2> QED BY <2>5, <2>6, <2>7
<1>10. Sum(w, users) \in Int /\ Sum(w, running) \in Int /\ Sum(v, in.nodes) \in Int /\ Sum(v, mig) \in Int
  <2>1. \A s \in {users, running} : \A p \in s : w[p] \in Int
    BY <1>4
  <2>2. \A s \in {in.nodes, mig} : \A n \in s : v[n] \in Int
    BY <1>5
  <2> QED BY <1>1, <2>1, <2>2, SumType
<1> QED BY <1>7, <1>8, <1>9, <1>10

(* Hence the overview finds no deficit.                                     *)
LEMMA OverviewFits ==
    ASSUME NEW in \in Inputs["gpu"], in.pods # Failed,
           NEW running, running = {p \in in.pods : p.phase \notin {"Succeeded", "Failed"}},
           \A p \in running : \E n \in in.nodes : n.name = p.node,
           \A n \in in.nodes : HasRoom(n, {p \in running : p.node = n.name}),
           Gpu!MigOverview(in.nodes, in.pods).inUse
    PROVE  Gpu!MigOverview(in.nodes, in.pods).fits
<1> DEFINE mig == {n \in in.nodes : Gpu!MigNode(n)}
           offered == Gpu!Total(mig, LAMBDA n : Gpu!Mig(n.allocatable))
           users == {p \in Gpu!Active(in.pods) : DOMAIN Gpu!Mig(Gpu!PodLimits(p)) # {}}
           asked == Gpu!Total(users, LAMBDA p : Gpu!Mig(Gpu!PodLimits(p)))
           deficits == {r \in DOMAIN asked : asked[r] > Gpu!Amount(offered, r)}
<1>1. Gpu!MigOverview(in.nodes, in.pods).fits = (deficits = {})
  BY DEF Gpu!MigOverview
<1> SUFFICES ASSUME NEW r \in DOMAIN asked PROVE ~(asked[r] > Gpu!Amount(offered, r))
  BY <1>1
<1> DEFINE w == [p \in in.pods |-> Gpu!Amount(Gpu!Mig(Gpu!PodLimits(p)), r)]
           v == [n \in in.nodes |-> Gpu!Amount(Gpu!Mig(n.allocatable), r)]
<1>2. users \in SUBSET running
  BY DEF Gpu!Active, Gpu!GpuPods
<1>3. r \in Profiles
  BY DEF Gpu!Total, Gpu!Mig
<1>4. IsFiniteSet(mig) /\ IsFiniteSet(users)
  <2>1. IsFiniteSet(in.nodes) /\ IsFiniteSet(in.pods)
    BY GpuAssumption
  <2> QED BY <2>1, <1>2, FS_Subset
<1>5. asked[r] = Sum(w, users)
  <2>1. asked[r] = Gpu!SumOver(users, LAMBDA p : Gpu!Amount(Gpu!Mig(Gpu!PodLimits(p)), r))
    BY DEF Gpu!Total
  <2>2. \A p \in users : w[p] = Gpu!Amount(Gpu!Mig(Gpu!PodLimits(p)), r)
    BY <1>2
  <2> HIDE DEF users, w, asked
  <2>3. Gpu!SumOver(users, LAMBDA p : Gpu!Amount(Gpu!Mig(Gpu!PodLimits(p)), r)) = Sum(w, users)
    BY <1>4, <2>2, SlicesAskedSum
  <2> QED BY <2>1, <2>3
<1>6. Gpu!Amount(offered, r) = Sum(v, mig)
  <2>1. CASE r \in DOMAIN offered
    <3>1. Gpu!Amount(offered, r) = Gpu!SumOver(mig, LAMBDA n : Gpu!Amount(Gpu!Mig(n.allocatable), r))
      BY <2>1 DEF Gpu!Total, Gpu!Amount
    <3>2. \A n \in mig : v[n] = Gpu!Amount(Gpu!Mig(n.allocatable), r)
      OBVIOUS
    <3> HIDE DEF mig, v
    <3>3. Gpu!SumOver(mig, LAMBDA n : Gpu!Amount(Gpu!Mig(n.allocatable), r)) = Sum(v, mig)
      BY <1>4, <3>2, SlicesOfferedSum
    <3> QED BY <3>1, <3>3
  <2>2. CASE r \notin DOMAIN offered
    <3>1. \A n \in mig : v[n] = 0
      BY <2>2 DEF Gpu!Total, Gpu!Amount
    <3>2. Sum(v, mig) = 0
      <4> HIDE DEF mig, v
      <4> QED BY <1>4, <3>1, SumZeros
    <3> QED BY <2>2, <3>2 DEF Gpu!Amount
  <2> QED BY <2>1, <2>2
<1>7. Sum(w, users) <= Sum(v, mig)
  <2>1. /\ \A p \in in.pods : w[p] = Gpu!Amount(Gpu!Mig(Gpu!PodLimits(p)), r)
        /\ \A n \in in.nodes : v[n] = Gpu!Amount(Gpu!Mig(n.allocatable), r)
        /\ mig = {n \in in.nodes : Gpu!MigNode(n)}
    OBVIOUS
  <2> HIDE DEF users, w, v, mig
  <2> QED BY <2>1, <1>2, <1>3, EnoughSlices
<1>8. Sum(w, users) \in Int /\ Sum(v, mig) \in Int
  <2>1. \A p \in in.pods : Counts(p.app) /\ Counts(p.init)
    BY GpuAssumption DEF Counts
  <2>2. \A p \in in.pods : w[p] = Gpu!Amount(Gpu!PodLimits(p), r)
    BY <1>3 DEF Gpu!Amount, Gpu!Mig
  <2>3. \A p \in in.pods : Gpu!Amount(Gpu!PodLimits(p), r) \in Nat
    BY <2>1, LimitsAreCovered
  <2>4. \A n \in mig : v[n] \in Nat
    <3> TAKE n \in mig
    <3>1. \A x \in DOMAIN Gpu!Mig(n.allocatable) : Gpu!Mig(n.allocatable)[x] \in Nat
      BY GpuAssumption DEF Gpu!Mig
    <3>2. Gpu!Amount(Gpu!Mig(n.allocatable), r) \in Nat
      BY <3>1, AmountType
    <3> QED BY <3>2
  <2>5. \A p \in users : w[p] \in Nat
    BY <1>2, <2>2, <2>3
  <2> HIDE DEF users, w, v, mig
  <2> QED BY <1>4, <2>4, <2>5, SumType
<1> QED BY <1>5, <1>6, <1>7, <1>8

(* Pods that all have room on their nodes never ask for more slices of a    *)
(* profile than the nodes are said to offer (nvidia_gpu.py:147-164 and      *)
(* 645-742).                                                                *)
THEOREM MigOverviewIsRight == Spec => []FullyPlacedFits
<1>1. AnswersCome => FullyPlacedFits
  <2> DEFINE in == answer.in
             running == {p \in in.pods : p.phase \notin {"Succeeded", "Failed"}}
  <2> SUFFICES ASSUME AnswersCome, Of("gpu_mig_overview"), in.pods # Failed,
                      \A p \in running : \E n \in in.nodes : n.name = p.node,
                      \A n \in in.nodes : HasRoom(n, {p \in running : p.node = n.name}),
                      answer.out.inUse
               PROVE  answer.out.fits
    BY DEF FullyPlacedFits
  <2>1. in \in Inputs["gpu"] /\ answer.out = Gpu!MigOverview(in.nodes, in.pods)
    BY DEF AnswersCome
  <2>2. running = {p \in in.pods : p.phase \notin {"Succeeded", "Failed"}}
    OBVIOUS
  <2> HIDE DEF in, running
  <2> QED BY <2>1, <2>2, OverviewFits
<1> QED BY <1>1, AnswersInvariant, PTL

-----------------------------------------------------------------------------
(* Logs.                                                                    *)

(* x is one of the elements of s; and how FlattenSeq joins sequences.       *)
From(x, s) == \E k \in DOMAIN s : s[k] = x
IsFlat(seqs, n, f) == f = [i \in 1..n |-> IF i = 1 THEN seqs[i] ELSE f[i - 1] \o seqs[i]]

(* The recursion along a sequence of sequences has a solution.              *)
LEMMA FlatExists ==
    ASSUME NEW seqs, NEW n \in Nat PROVE \E f : IsFlat(seqs, n, f)
<1> DEFINE bad == {k \in Nat : \A f : ~IsFlat(seqs, k, f)}
<1>1. bad = {}
  <2> SUFFICES ASSUME bad # {} PROVE FALSE
    OBVIOUS
  <2>1. \E m \in bad : \A k \in bad : m <= k
    BY LeastNatural, bad \in SUBSET Nat
  <2> PICK m \in bad : \A k \in bad : m <= k
    BY <2>1
  <2>2. m # 0
    <3>1. IsFlat(seqs, 0, <<>>)
      BY DEF IsFlat
    <3> QED BY <3>1
  <2>3. \E f : IsFlat(seqs, m - 1, f)
    <3>1. m - 1 \in Nat /\ m - 1 \notin bad
      BY <2>2
    <3> QED BY <3>1, Zenon
  <2> PICK f : IsFlat(seqs, m - 1, f)
    BY <2>3
  <2> DEFINE h == [i \in 1..m |-> IF i = 1 THEN seqs[i] ELSE f[i - 1] \o seqs[i]]
  <2>4. \A i \in 1..m : i # 1 => h[i - 1] = f[i - 1]
    <3> SUFFICES ASSUME NEW i \in 1..m, i # 1 PROVE h[i - 1] = f[i - 1]
      OBVIOUS
    <3> DEFINE j == i - 1
    <3>1. j \in 1..(m - 1) /\ j \in 1..m
      OBVIOUS
    <3> HIDE DEF j
    <3>2. h[j] = IF j = 1 THEN seqs[j] ELSE f[j - 1] \o seqs[j]
      BY <3>1
    <3>3. f[j] = IF j = 1 THEN seqs[j] ELSE f[j - 1] \o seqs[j]
      BY <3>1 DEF IsFlat
    <3>4. h[j] = f[j]
      BY <3>2, <3>3
    <3> QED BY <3>4 DEF j
  <2>5. IsFlat(seqs, m, h)
    BY <2>4, Zenon DEF IsFlat
  <2> QED BY <2>5
<1> QED BY <1>1

(* Sequences one behind the other: what is in front comes from a sequence   *)
(* in front.                                                                *)
LEMMA FlattenKeepsOrder ==
    ASSUME NEW U, NEW seqs \in Seq(Seq(U))
    PROVE  LET t == Logs!FlattenSeq(seqs)
           IN  /\ t \in Seq(U)
               /\ \A a, b \in 1..Len(t) : a <= b =>
                     \E m, n \in 1..Len(seqs) :
                        m <= n /\ From(t[a], seqs[m]) /\ From(t[b], seqs[n])
<1> DEFINE n == Len(seqs)
           f == CHOOSE f : IsFlat(seqs, n, f)
           Good(t, i) == /\ t \in Seq(U)
                         /\ \A a, b \in 1..Len(t) : a <= b =>
                               \E m, k \in 1..i :
                                   m <= k /\ From(t[a], seqs[m]) /\ From(t[b], seqs[k])
           bad == {i \in 1..n : ~Good(f[i], i)}
<1>1. n \in Nat /\ \A i \in 1..n : seqs[i] \in Seq(U)
  OBVIOUS
<1>2. IsFlat(seqs, n, f)
  BY <1>1, FlatExists
<1>3. \A i \in 1..n : f[i] = IF i = 1 THEN seqs[i] ELSE f[i - 1] \o seqs[i]
  BY <1>2 DEF IsFlat
<1> HIDE DEF f
<1>4. bad = {}
  <2> SUFFICES ASSUME bad # {} PROVE FALSE
    OBVIOUS
  <2>1. \E i \in bad : \A k \in bad : i <= k
    BY LeastNatural, bad \in SUBSET Nat
  <2> PICK i \in bad : \A k \in bad : i <= k
    BY <2>1
  <2>2. i # 1
    <3> SUFFICES ASSUME i = 1 PROVE Good(f[i], i)
      OBVIOUS
    <3>1. f[i] = seqs[i] /\ seqs[i] \in Seq(U)
      BY <1>1, <1>3
    <3>2. \A a \in 1..Len(f[i]) : From(f[i][a], seqs[i])
      BY <3>1 DEF From
    <3> QED BY <3>1, <3>2
  <2>3. f[i] = f[i - 1] \o seqs[i] /\ seqs[i] \in Seq(U) /\ i - 1 \in 1..n
    <3>1. i \in 1..n /\ i - 1 \in 1..n
      BY <1>1, <2>2
    <3> QED BY <1>1, <1>3, <2>2, <3>1
  <2>4. Good(f[i - 1], i - 1)
    <3>1. i - 1 \notin bad
      <4>1. i \in 1..n
        OBVIOUS
      <4> HIDE DEF bad
      <4>2. ~(i <= i - 1)
        BY <1>1, <4>1
      <4> QED BY <4>2
    <3> HIDE DEF Good
    <3> QED BY <2>3, <3>1
  <2> DEFINE s == f[i - 1]
             t == f[i]
  <2>5. /\ t \in Seq(U) /\ Len(t) = Len(s) + Len(seqs[i]) /\ Len(s) \in Nat
        /\ \A a \in 1..Len(s) : t[a] = s[a]
        /\ \A a \in 1..Len(t) : a \notin 1..Len(s) => From(t[a], seqs[i])
    <3>1. t = s \o seqs[i] /\ s \in Seq(U) /\ seqs[i] \in Seq(U)
      BY <2>3, <2>4
    <3> HIDE DEF s, t
    <3>2. /\ t \in Seq(U) /\ Len(t) = Len(s) + Len(seqs[i]) /\ Len(s) \in Nat
          /\ \A a \in 1..Len(s) : t[a] = s[a]
      BY <3>1
    <3>3. ASSUME NEW a \in 1..Len(t), a \notin 1..Len(s) PROVE From(t[a], seqs[i])
      <4>1. a - Len(s) \in DOMAIN seqs[i] /\ t[a] = seqs[i][a - Len(s)]
        BY <3>1, <3>2, <3>3
      <4> QED BY <4>1 DEF From
    <3> QED BY <3>2, <3>3
  <2>6. ASSUME NEW a \in 1..Len(t), NEW b \in 1..Len(t), a <= b
        PROVE  \E m, k \in 1..i : m <= k /\ From(t[a], seqs[m]) /\ From(t[b], seqs[k])
    <3> HIDE DEF s, t
    <3>0. \A x, y \in 1..Len(s) : x <= y =>
             \E m, k \in 1..(i - 1) : m <= k /\ From(s[x], seqs[m]) /\ From(s[y], seqs[k])
      BY <2>4 DEF s
    <3>i. i \in 1..i /\ \A m \in 1..(i - 1) : m \in 1..i /\ m <= i
      BY <1>1, <2>3
    <3>1. CASE b \in 1..Len(s)
      <4>1. a \in 1..Len(s)
        BY <2>6, <3>1
      <4>2. PICK m, k \in 1..(i - 1) : m <= k /\ From(s[a], seqs[m]) /\ From(s[b], seqs[k])
        BY <3>0, <2>6, <3>1, <4>1
      <4>3. t[a] = s[a] /\ t[b] = s[b]
        BY <2>5, <3>1, <4>1
      <4> QED BY <3>i, <4>2, <4>3
    <3>2. CASE b \notin 1..Len(s) /\ a \in 1..Len(s)
      <4>1. PICK m, k \in 1..(i - 1) : m <= k /\ From(s[a], seqs[m]) /\ From(s[a], seqs[k])
        <5>1. a \in 1..Len(s) /\ a <= a
          BY <2>5, <3>2
        <5> QED BY <3>0, <5>1
      <4>2. t[a] = s[a] /\ From(t[b], seqs[i])
        BY <2>5, <3>2
      <4> QED BY <3>i, <4>1, <4>2
    <3>3. CASE b \notin 1..Len(s) /\ a \notin 1..Len(s)
      <4>1. From(t[a], seqs[i]) /\ From(t[b], seqs[i]) /\ i \in 1..i
        BY <2>5, <3>3
      <4> QED BY <4>1
    <3> QED BY <3>1, <3>2, <3>3
  <2>7. Good(t, i)
    BY <2>5, <2>6
  <2> QED BY <2>7
<1>5. CASE n = 0
  <2>1. Logs!FlattenSeq(seqs) = seqs /\ seqs = <<>>
    BY <1>5 DEF Logs!FlattenSeq
  <2> QED BY <2>1
<1>6. CASE n # 0
  <2>1. Logs!FlattenSeq(seqs) = f[n]
    BY <1>6 DEF Logs!FlattenSeq, IsFlat, f
  <2>2. Good(f[n], n)
    BY <1>1, <1>4, <1>6
  <2> QED BY <2>1, <2>2
<1> QED BY <1>5, <1>6

(* Lines in the order of a listing: of two, the earlier is of a pod that    *)
(* comes no later in it.                                                    *)
InListing(t, pods) ==
    /\ t \in Seq(Logs!Records({pods[i] : i \in DOMAIN pods}))
    /\ \A a, b \in 1..Len(t) : a <= b =>
          \E m, n \in DOMAIN pods : m <= n /\ pods[m] = t[a].pod /\ pods[n] = t[b].pod

(* Lines picked out of others keep their order.                             *)
LEMMA SelectedInListing ==
    ASSUME NEW U, NEW pods \in Seq(U), NEW t, InListing(t, pods), NEW S
    PROVE  InListing(Logs!Selected(t, S), pods)
<1> DEFINE R == Logs!Records({pods[i] : i \in DOMAIN pods})
           seqs == [i \in DOMAIN t |-> IF i \in S THEN <<t[i]>> ELSE <<>>]
           u == Logs!FlattenSeq(seqs)
<1>1. t \in Seq(R)
  BY DEF InListing
<1> HIDE DEF R
<1>2. seqs \in Seq(Seq(R)) /\ Len(seqs) = Len(t)
  <2>1. DOMAIN t = 1..Len(t) /\ Len(t) \in Nat
    BY <1>1
  <2>2. \A i \in DOMAIN t : <<t[i]>> \in Seq(R) /\ <<>> \in Seq(R)
    BY <1>1
  <2>3. seqs \in [1..Len(t) -> Seq(R)]
    BY <2>1, <2>2
  <2> HIDE DEF seqs
  <2> QED BY <2>1, <2>3
<1>3. /\ u \in Seq(R)
      /\ \A a, b \in 1..Len(u) : a <= b =>
            \E m, n \in 1..Len(t) : m <= n /\ From(u[a], seqs[m]) /\ From(u[b], seqs[n])
  <2> HIDE DEF seqs
  <2> QED BY <1>2, FlattenKeepsOrder
<1>4. \A m \in 1..Len(t) : \A x : From(x, seqs[m]) => x = t[m]
  BY <1>1 DEF From
<1> HIDE DEF seqs, u
<1>5. ASSUME NEW a \in 1..Len(u), NEW b \in 1..Len(u), a <= b
      PROVE  \E m, n \in DOMAIN pods : m <= n /\ pods[m] = u[a].pod /\ pods[n] = u[b].pod
  <2>1. PICK m, n \in 1..Len(t) : m <= n /\ From(u[a], seqs[m]) /\ From(u[b], seqs[n])
    BY <1>3, <1>5
  <2>2. u[a] = t[m] /\ u[b] = t[n]
    BY <1>4, <2>1
  <2> QED BY <2>1, <2>2 DEF InListing
<1>6. InListing(u, pods)
  BY <1>3, <1>5 DEF InListing, R
<1> QED BY <1>6 DEF Logs!Selected, u, seqs

(* So does the end of them.                                                 *)
LEMMA TailInListing ==
    ASSUME NEW U, NEW pods \in Seq(U), NEW t, InListing(t, pods), NEW i \in Int, i >= 1
    PROVE  InListing(Logs!Tail_(t, i), pods)
<1> DEFINE R == Logs!Records({pods[k] : k \in DOMAIN pods})
           u == SubSeq(t, i, Len(t))
<1>1. t \in Seq(R) /\ Len(t) \in Nat
  BY DEF InListing
<1>2. /\ u \in Seq(R)
      /\ Len(u) = IF i <= Len(t) THEN Len(t) - i + 1 ELSE 0
      /\ \A k \in 1..(Len(t) - i + 1) : u[k] = t[i + k - 1]
  <2> HIDE DEF R
  <2>1. \A k \in i..Len(t) : t[k] \in R
    BY <1>1
  <2> QED BY <1>1, <2>1, SubSeqProperties
<1> HIDE DEF u, R
<1>3. ASSUME NEW a \in 1..Len(u), NEW b \in 1..Len(u), a <= b
      PROVE  \E m, n \in DOMAIN pods : m <= n /\ pods[m] = u[a].pod /\ pods[n] = u[b].pod
  <2> DEFINE x == i + a - 1
             y == i + b - 1
  <2>1. x \in 1..Len(t) /\ y \in 1..Len(t) /\ x <= y /\ u[a] = t[x] /\ u[b] = t[y]
    BY <1>1, <1>2, <1>3
  <2> HIDE DEF x, y
  <2>2. \E m, n \in DOMAIN pods : m <= n /\ pods[m] = t[x].pod /\ pods[n] = t[y].pod
    BY <2>1 DEF InListing
  <2> QED BY <2>1, <2>2
<1>4. InListing(u, pods)
  BY <1>2, <1>3 DEF InListing, R
<1> QED BY <1>4 DEF Logs!Tail_, u

(* Whatever the order in which the threads come to an end, what they have   *)
(* put together is one log per pod.                                         *)
LEMMA ParallelIsSerial ==
    ASSUME NEW U, NEW pods \in Seq(U), NEW log, NEW order \in Seq(DOMAIN pods),
           \A i \in DOMAIN pods : \E k \in DOMAIN order : order[k] = i
    PROVE  Logs!FetchInParallel(pods, log, order) = Logs!FetchSerially(pods, log)
<1> DEFINE D == DOMAIN order
           F(i) == Logs!Fetched(pods[i], log[pods[i]])
           none == [i \in DOMAIN pods |-> <<>>]
           Step(g, s) == IF s = {} THEN none
                         ELSE LET x == Logs!Max(s)
                              IN  [g[s \ {x}] EXCEPT ![order[x]] = F(order[x])]
           Is(g) == g = [s \in SUBSET D |-> Step(g, s)]
           iter == CHOOSE g : Is(g)
           Done(s) == [i \in DOMAIN pods |-> IF \E k \in s : order[k] = i THEN F(i) ELSE <<>>]
           sol == [s \in SUBSET D |-> Done(s)]
<1>1. IsFiniteSet(D) /\ D \subseteq Int /\ \A k \in D : order[k] \in DOMAIN pods
  <2>1. D = 1..Len(order) /\ Len(order) \in Nat
    OBVIOUS
  <2>2. IsFiniteSet(1..Len(order))
    BY <2>1, FS_Interval
  <2> QED BY <2>1, <2>2
<1>2. \A s \in SUBSET D : s # {} => Logs!Max(s) \in s
  <2> TAKE s \in SUBSET D
  <2>1. s \in SUBSET Int /\ IsFiniteSet(s)
    BY <1>1, FS_Subset
  <2> HIDE DEF D
  <2> QED BY <2>1, LargestExists DEF Logs!Max
<1>3. \A g : \A s \in SUBSET D :
         (s # {} => g[s \ {Logs!Max(s)}] = Done(s \ {Logs!Max(s)})) => Step(g, s) = Done(s)
  <2> TAKE g
  <2> TAKE s \in SUBSET D
  <2>1. CASE s = {}
    BY <2>1
  <2>2. CASE s # {}
    <3> DEFINE x == Logs!Max(s)
               t == s \ {x}
    <3>1. x \in s /\ order[x] \in DOMAIN pods
      BY <1>1, <1>2, <2>2
    <3> SUFFICES ASSUME g[t] = Done(t)
                 PROVE  [Done(t) EXCEPT ![order[x]] = F(order[x])] = Done(s)
      BY <2>2
    <3> HIDE DEF x, F
    <3> QED BY <3>1
  <2> QED BY <2>1, <2>2
<1> HIDE DEF Step, Done
<1>4. Is(iter)
  <2>1. \A s \in SUBSET D : s # {} => sol[s \ {Logs!Max(s)}] = Done(s \ {Logs!Max(s)})
    OBVIOUS
  <2>2. \A s \in SUBSET D : Step(sol, s) = Done(s)
    BY <1>3, <2>1
  <2>3. Is(sol)
    BY <2>2
  <2> HIDE DEF Is, sol
  <2> QED BY <2>3
<1> HIDE DEF iter, sol
<1>5. iter[D] = Done(D)
  <2> DEFINE bad == {s \in SUBSET D : iter[s] # Done(s)}
  <2> SUFFICES ASSUME bad # {} PROVE FALSE
    OBVIOUS
  <2>1. bad \in SUBSET SUBSET D /\ bad # {} /\ IsFiniteSet(D)
    BY <1>1
  <2>2. \E s \in bad : \A t \in bad : t \subseteq s => t = s
    <3> HIDE DEF bad, D
    <3> QED BY <2>1, MinimalSubset
  <2> PICK s \in bad : \A t \in bad : t \subseteq s => t = s
    BY <2>2
  <2>3. iter[s] = Step(iter, s)
    BY <1>4
  <2>4. s # {} => iter[s \ {Logs!Max(s)}] = Done(s \ {Logs!Max(s)})
    <3> SUFFICES ASSUME s # {} PROVE s \ {Logs!Max(s)} \notin bad
      OBVIOUS
    <3>1. Logs!Max(s) \in s
      BY <1>2
    <3> QED BY <3>1
  <2> QED BY <1>3, <2>3, <2>4
<1>6. Done(D) = [i \in DOMAIN pods |-> F(i)]
  BY DEF Done
<1>7. Logs!FetchInParallel(pods, log, order)
        = IF \E i \in DOMAIN pods : log[pods[i]] = Broken THEN Broken ELSE Logs!FlattenSeq(iter[D])
  BY DEF Logs!FetchInParallel, Logs!FoldLeft, Logs!MapThenFoldSet, iter, Step
<1> QED BY <1>5, <1>6, <1>7 DEF Logs!FetchSerially

(* What has been fetched from several pods is in the order of the listing.  *)
LEMMA FetchedInListing ==
    ASSUME NEW in \in Inputs["logs"],
           NEW t, t = Logs!FetchMulti(in.pods, in.log, in.order),
           t \notin {Failed, None, Broken}
    PROVE  InListing(t, in.pods)
<1> DEFINE pods == in.pods
           log == in.log
           names == {pods[i] : i \in DOMAIN pods}
           R == Logs!Records(names)
           seqs == [i \in DOMAIN pods |-> Logs!Fetched(pods[i], log[pods[i]])]
<1>1. /\ pods \in Seq(DOMAIN log) /\ DOMAIN pods = 1..Len(pods) /\ Len(pods) \in Nat
      /\ \A i \in DOMAIN pods :
            log[pods[i]] \in {Failed, None, Broken} \cup Seq(Logs!Records({pods[i]}))
  <2>1. pods \in Seq(DOMAIN log)
    BY LogsAssumption
  <2>2. \A pod \in DOMAIN log :
           log[pod] \in {Failed, None, Broken} \cup Seq(Logs!Records({pod}))
    BY LogsAssumption
  <2> HIDE DEF pods, log
  <2>3. DOMAIN pods = 1..Len(pods) /\ Len(pods) \in Nat /\ \A i \in DOMAIN pods : pods[i] \in DOMAIN log
    BY <2>1
  <2> QED BY <2>1, <2>2, <2>3
<1>2. t = Logs!FetchSerially(pods, log)
  BY ParallelIsSerial, LogsAssumption DEF Logs!FetchMulti
<1>3. /\ \A i \in DOMAIN pods : log[pods[i]] # Broken
      /\ t = Logs!FlattenSeq(seqs)
  BY <1>2 DEF Logs!FetchSerially
<1>4. \A i \in DOMAIN pods : seqs[i] \in Seq(Logs!Records({pods[i]}))
  <2> TAKE i \in DOMAIN pods
  <2>1. Logs!Skipped(pods[i]) \in Seq(Logs!Records({pods[i]}))
    BY DEF Logs!Skipped, Logs!Records, Logs!ErrorSize
  <2> QED BY <1>1, <1>3, <2>1 DEF Logs!Fetched
<1>5. \A i \in DOMAIN pods : Logs!Records({pods[i]}) \subseteq R
  BY DEF Logs!Records
<1> HIDE DEF R
<1>6. seqs \in Seq(Seq(R)) /\ Len(seqs) = Len(pods)
  <2>1. \A i \in DOMAIN pods : seqs[i] \in Seq(R)
    BY <1>4, <1>5, SeqMonotonic
  <2>2. seqs \in [1..Len(pods) -> Seq(R)]
    BY <1>1, <2>1
  <2> HIDE DEF seqs
  <2> QED BY <1>1, <2>2
<1> HIDE DEF seqs
<1>7. /\ t \in Seq(R)
      /\ \A a, b \in 1..Len(t) : a <= b =>
            \E m, n \in 1..Len(seqs) : m <= n /\ From(t[a], seqs[m]) /\ From(t[b], seqs[n])
  BY <1>3, <1>6, FlattenKeepsOrder
<1>8. \A m \in 1..Len(seqs) : \A x : From(x, seqs[m]) => x.pod = pods[m]
  <2> SUFFICES ASSUME NEW m \in 1..Len(seqs), NEW k \in DOMAIN seqs[m] PROVE seqs[m][k].pod = pods[m]
    BY DEF From
  <2>1. m \in DOMAIN pods
    BY <1>1, <1>6
  <2>2. seqs[m] \in Seq(Logs!Records({pods[m]}))
    BY <1>4, <2>1
  <2>3. seqs[m][k] \in Logs!Records({pods[m]})
    BY <2>2
  <2> QED BY <2>3 DEF Logs!Records
<1>9. ASSUME NEW a \in 1..Len(t), NEW b \in 1..Len(t), a <= b
      PROVE  \E m, n \in DOMAIN pods : m <= n /\ pods[m] = t[a].pod /\ pods[n] = t[b].pod
  <2>1. PICK m, n \in 1..Len(seqs) : m <= n /\ From(t[a], seqs[m]) /\ From(t[b], seqs[n])
    BY <1>7, <1>9
  <2>2. m \in DOMAIN pods /\ n \in DOMAIN pods /\ t[a].pod = pods[m] /\ t[b].pod = pods[n]
    BY <1>1, <1>6, <1>8, <2>1
  <2> QED BY <2>1, <2>2
<1> QED BY <1>7, <1>9 DEF InListing, R

(* So is the log of the one pod asked for.                                  *)
LEMMA SingleInListing ==
    ASSUME NEW in \in Inputs["logs"], in.byName,
           NEW t, t = Logs!FetchSingle(in.log[in.pods[1]]),
           t \notin {Failed, None, Broken}
    PROVE  InListing(t, in.pods)
<1> DEFINE pods == in.pods
           R == Logs!Records({pods[i] : i \in DOMAIN pods})
<1>1. 1 \in DOMAIN pods /\ t \in Seq(Logs!Records({pods[1]}))
  <2>1. pods \in Seq(DOMAIN in.log) /\ pods # <<>>
    BY LogsAssumption
  <2>2. \A pod \in DOMAIN in.log :
           in.log[pod] \in {Failed, None, Broken} \cup Seq(Logs!Records({pod}))
    BY LogsAssumption
  <2>3. 1 \in DOMAIN pods /\ pods[1] \in DOMAIN in.log
    <3> HIDE DEF pods
    <3> QED BY <2>1
  <2> QED BY <2>2, <2>3 DEF Logs!FetchSingle
<1>2. Logs!Records({pods[1]}) \subseteq R
  BY <1>1 DEF Logs!Records
<1>3. t \in Seq(R)
  <2> HIDE DEF R
  <2> QED BY <1>1, <1>2, SeqMonotonic
<1>4. \A a \in 1..Len(t) : t[a].pod = pods[1]
  <2> TAKE a \in 1..Len(t)
  <2>1. t[a] \in Logs!Records({pods[1]})
    BY <1>1
  <2> QED BY <2>1 DEF Logs!Records
<1> HIDE DEF R
<1>5. \A a, b \in 1..Len(t) : a <= b =>
         \E m, n \in DOMAIN pods : m <= n /\ pods[m] = t[a].pod /\ pods[n] = t[b].pod
  <2> TAKE a, b \in 1..Len(t)
  <2>1. 1 \in DOMAIN pods /\ pods[1] = t[a].pod /\ pods[1] = t[b].pod
    BY <1>1, <1>4
  <2> HIDE DEF pods
  <2> QED BY <2>1
<1> QED BY <1>3, <1>5 DEF InListing, R

(* The sizes of the lines, one by one.                                      *)
Weights(t) == [i \in DOMAIN t |-> t[i].size]

(* The size of a log is a sum over its lines.                               *)
LEMMA SizesIsSum ==
    ASSUME NEW t, IsFiniteSet(DOMAIN t), \A i \in DOMAIN t : t[i].size \in Int
    PROVE  Logs!Sizes(t) = Sum(Weights(t), DOMAIN t)
<1> DEFINE S == DOMAIN t
           w == Weights(t)
           Step(g, s) == IF s = {} THEN 0
                         ELSE LET x == CHOOSE x \in s : TRUE IN g[s \ {x}] + t[x].size
           Is(g) == g = [s \in SUBSET S |-> Step(g, s)]
           h == CHOOSE g : Is(g)
           sums == [s \in SUBSET S |-> Sum(w, s)]
<1>1. \A x \in S : w[x] = t[x].size /\ w[x] \in Int
  BY DEF Weights
<1> HIDE DEF w
<1>2. \A g : \A s \in SUBSET S :
         (s # {} => g[s \ {Some(s)}] = Sum(w, s \ {Some(s)})) => Step(g, s) = Sum(w, s)
  <2> TAKE g
  <2> TAKE s \in SUBSET S
  <2>1. IsFiniteSet(s)
    BY FS_Subset
  <2>2. CASE s = {}
    BY <2>2, SumNone
  <2>3. CASE s # {}
    <3>1. Some(s) \in s
      BY <2>3, SomeIsIn
    <3>2. Sum(w, s) = w[Some(s)] + Sum(w, s \ {Some(s)})
      BY <2>1, <2>3, SumStep
    <3>3. Step(g, s) = g[s \ {Some(s)}] + t[Some(s)].size
      BY <2>3 DEF Some
    <3>4. Sum(w, s \ {Some(s)}) \in Int
      <4>1. IsFiniteSet(s \ {Some(s)}) /\ \A x \in s \ {Some(s)} : w[x] \in Int
        BY <1>1, <2>1, FS_Subset
      <4> QED BY <4>1, SumType
    <3> HIDE DEF Step
    <3> QED BY <1>1, <2>3, <3>1, <3>2, <3>3, <3>4
  <2> QED BY <2>2, <2>3
<1> HIDE DEF Step
<1>3. Is(h)
  <2>1. \A s \in SUBSET S : s # {} => sums[s \ {Some(s)}] = Sum(w, s \ {Some(s)})
    OBVIOUS
  <2>2. \A s \in SUBSET S : Step(sums, s) = Sum(w, s)
    BY <1>2, <2>1
  <2>3. Is(sums)
    BY <2>2
  <2> HIDE DEF Is, sums
  <2> QED BY <2>3
<1> HIDE DEF h
<1>4. h[S] = Sum(w, S)
  <2> DEFINE bad == {s \in SUBSET S : h[s] # Sum(w, s)}
  <2> SUFFICES ASSUME bad # {} PROVE FALSE
    OBVIOUS
  <2>1. bad \in SUBSET SUBSET S /\ bad # {} /\ IsFiniteSet(S)
    OBVIOUS
  <2>2. \E s \in bad : \A u \in bad : u \subseteq s => u = s
    <3> HIDE DEF bad, S
    <3> QED BY <2>1, MinimalSubset
  <2> PICK s \in bad : \A u \in bad : u \subseteq s => u = s
    BY <2>2
  <2>3. h[s] = Step(h, s)
    BY <1>3
  <2>4. s # {} => h[s \ {Some(s)}] = Sum(w, s \ {Some(s)})
    <3> SUFFICES ASSUME s # {} PROVE s \ {Some(s)} \notin bad
      OBVIOUS
    <3>1. Some(s) \in s
      BY SomeIsIn
    <3> QED BY <3>1
  <2> QED BY <1>2, <2>3, <2>4
<1>5. Logs!Sizes(t) = h[S]
  BY DEF Logs!Sizes, Logs!FoldSeq, Logs!FoldFunction, Logs!FoldFunctionOnSet, Logs!MapThenFoldSet,
         h, Step
<1> QED BY <1>4, <1>5 DEF w

(* A part of a log is as large as its lines.                                *)
LEMMA PartSizes ==
    ASSUME NEW pods, NEW t \in Seq(Logs!Records(pods)),
           NEW a \in 1..(Len(t) + 1), NEW b \in (a - 1)..Len(t)
    PROVE  /\ Logs!Sizes(SubSeq(t, a, b)) = Sum(Weights(t), a..b)
           /\ Sum(Weights(t), a..b) \in Nat
           /\ Len(SubSeq(t, a, b)) = b - a + 1
<1> DEFINE R == Logs!Records(pods)
           u == SubSeq(t, a, b)
           m == b - a + 1
           k == a - 1
<1>1. m \in Nat /\ k \in Nat /\ k + 1 = a /\ k + m = b
  OBVIOUS
<1>2. \A i \in DOMAIN t : t[i] \in R /\ t[i].size \in Nat
  <2>1. \A r \in R : r.size \in Nat
    BY DEF Logs!Records
  <2> HIDE DEF R
  <2>2. t \in Seq(R)
    BY DEF R
  <2> QED BY <2>1, <2>2
<1>3. \A i \in a..b : i \in DOMAIN t /\ t[i] \in R
  BY <1>2
<1>4. u \in Seq(R) /\ Len(u) = m /\ \A i \in 1..m : u[i] = t[k + i]
  <2> HIDE DEF R
  <2>1. a \in Int /\ b \in Int
    BY <1>1
  <2>2. u \in Seq(R) /\ Len(u) = (IF a <= b THEN b - a + 1 ELSE 0)
    BY <1>3, <2>1, SubSeqProperties
  <2>3. \A i \in 1..(b - a + 1) : u[i] = t[a + i - 1]
    BY <1>3, <2>1, SubSeqProperties
  <2>4. \A i \in 1..m : a + i - 1 = k + i
    OBVIOUS
  <2>5. Len(u) = m
    BY <2>2
  <2> QED BY <2>2, <2>3, <2>4, <2>5
<1> HIDE DEF u, m, k
<1>5. DOMAIN u = 1..m /\ IsFiniteSet(1..m)
  BY <1>1, <1>4, FS_Interval
<1>6. \A i \in 1..m : k + i \in a..b
  BY <1>1
<1>7. \A i \in 1..m : Weights(u)[i] \in Int /\ Weights(t)[k + i] = Weights(u)[i]
  BY <1>2, <1>3, <1>4, <1>5, <1>6 DEF Weights
<1>8. Logs!Sizes(u) = Sum(Weights(u), 1..m)
  <2>1. \A i \in DOMAIN u : u[i].size \in Int
    BY <1>5, <1>7 DEF Weights
  <2> QED BY <1>5, <2>1, SizesIsSum
<1>9. Sum(Weights(t), (k + 1)..(k + m)) = Sum(Weights(u), 1..m)
  BY <1>1, <1>7, SumShifted
<1>10. Sum(Weights(t), a..b) \in Nat
  <2>1. IsFiniteSet(a..b)
    BY FS_Interval
  <2>2. \A i \in a..b : Weights(t)[i] \in Nat
    BY <1>2, <1>3 DEF Weights
  <2> QED BY <2>1, <2>2, SumNat
<1>11. Logs!Sizes(u) = Sum(Weights(t), a..b) /\ Len(u) = b - a + 1
  BY <1>1, <1>4, <1>8, <1>9 DEF m
<1> QED BY <1>10, <1>11 DEF u

(* A newline parts a log in two.                                            *)
LEMMA NewlineParts ==
    ASSUME NEW pods, NEW t \in Seq(Logs!Records(pods)), NEW i \in 1..(Len(t) - 1)
    PROVE  /\ Logs!TextSize(t) = Logs!NewlineAfter(t, i) + 1 + Logs!TextSize(Logs!Tail_(t, i + 1))
           /\ Logs!NewlineAfter(t, i) \in Nat
           /\ Logs!TextSize(Logs!Tail_(t, i + 1)) \in Nat
<1> DEFINE n == Len(t)
           w == Weights(t)
           front == SubSeq(t, 1, i)
           back == SubSeq(t, i + 1, n)
<1>1. n \in Nat /\ i \in 1..n /\ i + 1 \in 1..n
  OBVIOUS
<1>2. /\ Logs!Sizes(front) = Sum(w, 1..i) /\ Sum(w, 1..i) \in Nat /\ Len(front) = i
  <2>1. 1 \in 1..(Len(t) + 1) /\ i \in (1 - 1)..Len(t)
    BY <1>1
  <2>2. i - 1 + 1 = i
    BY <1>1
  <2> HIDE DEF w, front
  <2> QED BY <2>1, <2>2, PartSizes DEF w, front
<1>3. /\ Logs!Sizes(back) = Sum(w, (i + 1)..n) /\ Sum(w, (i + 1)..n) \in Nat
      /\ Len(back) = n - i
  <2>1. i + 1 \in 1..(Len(t) + 1) /\ n \in (i + 1 - 1)..Len(t) /\ n - (i + 1) + 1 = n - i
    BY <1>1
  <2> DEFINE a == i + 1
  <2> HIDE DEF a, n
  <2>2. /\ Logs!Sizes(SubSeq(t, a, n)) = Sum(Weights(t), a..n)
        /\ Sum(Weights(t), a..n) \in Nat
        /\ Len(SubSeq(t, a, n)) = n - a + 1
    BY <2>1, PartSizes DEF a
  <2> QED BY <2>1, <2>2 DEF a
<1>4. Logs!Sizes(t) = Sum(w, 1..n)
  <2>1. 1 \in 1..(Len(t) + 1) /\ n \in (1 - 1)..Len(t)
    BY <1>1
  <2>2. Logs!Sizes(SubSeq(t, 1, n)) = Sum(w, 1..n)
    BY <2>1, PartSizes
  <2>3. SubSeq(t, 1, n) = t
    BY SubSeqFull
  <2> QED BY <2>2, <2>3
<1>5. Sum(w, 1..n) = Sum(w, 1..i) + Sum(w, (i + 1)..n)
  <2>1. /\ IsFiniteSet(1..i) /\ IsFiniteSet((i + 1)..n)
    BY <1>1, FS_Interval
  <2>2. (1..i) \cap ((i + 1)..n) = {} /\ (1..i) \cup ((i + 1)..n) = 1..n
    BY <1>1
  <2>3. \A j \in 1..n : w[j] \in Int
    <3> DEFINE R == Logs!Records(pods)
    <3>1. \A r \in R : r.size \in Int
      BY DEF Logs!Records
    <3>2. t \in Seq(R)
      OBVIOUS
    <3> HIDE DEF R
    <3> QED BY <3>1, <3>2 DEF Weights
  <2> HIDE DEF w, n
  <2> DEFINE S == 1..i
             Q == (i + 1)..n
  <2>4. \A j \in S \cup Q : w[j] \in Int
    BY <2>2, <2>3
  <2>5. IsFiniteSet(S) /\ IsFiniteSet(Q) /\ S \cap Q = {}
    BY <2>1, <2>2
  <2> HIDE DEF S, Q
  <2>6. Sum(w, S \cup Q) = Sum(w, S) + Sum(w, Q)
    BY <2>4, <2>5, SumParts
  <2> QED BY <2>2, <2>6 DEF S, Q
<1>6. t # <<>> /\ front # <<>> /\ back # <<>>
  <2>1. Len(<<>>) = 0
    OBVIOUS
  <2> HIDE DEF front, back, w
  <2>2. n # 0 /\ Len(front) # 0 /\ Len(back) # 0
    BY <1>1, <1>2, <1>3
  <2> QED BY <2>1, <2>2
<1>7. Logs!NewlineAfter(t, i) = Sum(w, 1..i) + (i - 1)
  BY <1>2, <1>6 DEF Logs!NewlineAfter, Logs!TextSize
<1>8. Logs!TextSize(Logs!Tail_(t, i + 1)) = Sum(w, (i + 1)..n) + (n - i - 1)
  BY <1>3, <1>6 DEF Logs!Tail_, Logs!TextSize
<1>9. Logs!TextSize(t) = Sum(w, 1..n) + (n - 1)
  BY <1>4, <1>6 DEF Logs!TextSize
<1> HIDE DEF w, n, front, back
<1> QED BY <1>1, <1>2, <1>3, <1>5, <1>7, <1>8, <1>9

(* The end of a log beyond its last line.                                   *)
LEMMA NothingLeft ==
    ASSUME NEW U, NEW t \in Seq(U)
    PROVE  /\ Logs!Tail_(t, Len(t) + 1) = <<>>
           /\ Logs!NewlineAfter(t, Len(t)) = Logs!TextSize(t)
<1>1. SubSeq(t, Len(t) + 1, Len(t)) = <<>>
  <2>1. Len(t) \in Int /\ Len(t) + 1 \in Int /\ Len(t) < Len(t) + 1
    OBVIOUS
  <2> QED BY <2>1, SubSeqEmpty
<1>2. SubSeq(t, 1, Len(t)) = t
  BY SubSeqFull
<1> QED BY <1>1, <1>2 DEF Logs!Tail_, Logs!NewlineAfter

(* No lines have no size.                                                   *)
LEMMA EmptySize == Logs!TextSize(<<>>) = 0
<1> DEFINE t == <<>>
<1>1. DOMAIN t = {}
  OBVIOUS
<1>2. Logs!Sizes(t) = Sum(Weights(t), DOMAIN t)
  <2> HIDE DEF t
  <2>1. IsFiniteSet(DOMAIN t)
    BY <1>1, FS_EmptySet
  <2> QED BY <1>1, <2>1, SizesIsSum
<1>3. Logs!Sizes(t) = 0
  <2> HIDE DEF t
  <2> QED BY <1>1, <1>2, SumNone
<1> QED BY <1>3 DEF Logs!TextSize

(* A size is a whole number.                                                *)
LEMMA TextSizeType ==
    ASSUME NEW pods, NEW t \in Seq(Logs!Records(pods))
    PROVE  Logs!TextSize(t) \in Int
<1>1. Logs!Sizes(SubSeq(t, 1, Len(t))) \in Nat /\ SubSeq(t, 1, Len(t)) = t
  <2>1. 1 \in 1..(Len(t) + 1) /\ Len(t) \in (1 - 1)..Len(t)
    OBVIOUS
  <2> QED BY <2>1, PartSizes, SubSeqFull
<1>2. Logs!Sizes(t) \in Nat
  BY <1>1, Zenon
<1> QED BY <1>2 DEF Logs!TextSize

LEMMA JsonSizeType ==
    ASSUME NEW pods, NEW t \in Seq(Logs!Records(pods)), NEW a \in 1..(Len(t) + 1)
    PROVE  Logs!JsonSize(Logs!Tail_(t, a)) \in Int
<1> DEFINE b == Len(t)
           u == SubSeq(t, a, b)
<1>1. b \in (a - 1)..Len(t) /\ b - a + 1 \in Int
  OBVIOUS
<1> HIDE DEF b, u
<1>2. Logs!Sizes(SubSeq(t, a, b)) \in Nat /\ Len(SubSeq(t, a, b)) = b - a + 1
  BY <1>1, PartSizes
<1>3. Logs!Sizes(u) \in Nat /\ Len(u) \in Int
  BY <1>1, <1>2 DEF u
<1>4. Logs!JsonSize(u) \in Int
  BY <1>3 DEF Logs!JsonSize
<1> QED BY <1>4 DEF Logs!Tail_, u, b

(* The JSON answer is the longest end of the lines that the budget allows,  *)
(* if it allows any, and says when it is not all of them.                   *)
LEMMA JsonAnswer ==
    ASSUME NEW U, NEW t \in Seq(U), NEW max,
           NEW out, out = Logs!SerializeJson(t, max)
    PROVE  \E i \in 1..(Len(t) + 1) :
              /\ out.lines = Logs!Tail_(t, i) /\ out.part = 0 /\ out.orphans = 0
              /\ Logs!JsonSize(Logs!Tail_(t, i)) <= max \/ i = Len(t) + 1
              /\ out.truncated <=> ~(Logs!JsonSize(Logs!Tail_(t, 1)) <= max)
              /\ ~out.truncated => i = 1
              /\ \A j \in 1..(i - 1) : ~(Logs!JsonSize(Logs!Tail_(t, j)) <= max)
<1> DEFINE fits == {i \in 1..(Len(t) + 1) : Logs!JsonSize(Logs!Tail_(t, i)) <= max}
           first == IF fits = {} THEN Len(t) + 1 ELSE CHOOSE i \in fits : \A j \in fits : i <= j
<1>1. fits \in SUBSET Nat /\ Len(t) \in Nat /\ \A i \in fits : i \in 1..(Len(t) + 1)
  OBVIOUS
<1>2. fits # {} => first \in fits /\ \A j \in fits : first <= j
  <2> HIDE DEF fits
  <2> QED BY <1>1, LeastNatural
<1>3. out = [Logs!Whole_(Logs!Tail_(t, first)) EXCEPT !.truncated = first # 1 \/ fits = {}]
  BY DEF Logs!SerializeJson
<1>4. fits = {} => first = Len(t) + 1
  OBVIOUS
<1>5. \A j \in 1..(Len(t) + 1) : j \in fits <=> Logs!JsonSize(Logs!Tail_(t, j)) <= max
  OBVIOUS
<1> DEFINE n == Len(t)
<1> HIDE DEF first, fits, n
<1>6. first \in 1..(n + 1)
  <2>1. n \in Nat /\ \A i \in fits : i \in 1..(n + 1)
    BY <1>1 DEF n
  <2>2. CASE fits = {}
    <3>1. first = n + 1
      BY <1>4, <2>2 DEF n
    <3> QED BY <2>1, <3>1
  <2>3. CASE fits # {}
    BY <1>2, <2>1, <2>3
  <2> QED BY <2>2, <2>3
<1>7. (first # 1 \/ fits = {}) <=> 1 \notin fits
  <2>1. ASSUME 1 \in fits PROVE first = 1
    <3>1. first <= 1 /\ first \in 1..(n + 1)
      BY <1>2, <1>6, <2>1
    <3> QED BY <3>1
  <2>2. fits # {} => first \in fits
    BY <1>2
  <2> QED BY <2>1, <2>2
<1>8. \A j \in 1..(first - 1) : j \notin fits
  <2> SUFFICES ASSUME NEW j \in 1..(first - 1), j \in fits PROVE FALSE
    OBVIOUS
  <2>1. first <= j /\ first \in 1..(n + 1)
    BY <1>2, <1>6
  <2> QED BY <2>1
<1>9. 1 \in 1..(Len(t) + 1) /\ \A j \in 1..(first - 1) : j \in 1..(Len(t) + 1)
  <2>1. n \in Nat
    BY <1>1 DEF n
  <2>2. 1 \in 1..(n + 1) /\ \A j \in 1..(first - 1) : j \in 1..(n + 1)
    BY <1>6, <2>1
  <2> QED BY <2>2 DEF n
<1>10. ~(first # 1 \/ fits = {}) => first = 1
  OBVIOUS
<1>11. /\ out.lines = Logs!Tail_(t, first) /\ out.part = 0 /\ out.orphans = 0
       /\ out.truncated <=> first # 1 \/ fits = {}
  BY <1>3 DEF Logs!Whole_
<1>12. Logs!JsonSize(Logs!Tail_(t, first)) <= max \/ first = Len(t) + 1
  BY <1>2, <1>4, <1>5, <1>6 DEF n
<1> QED BY <1>5, <1>6, <1>7, <1>8, <1>9, <1>10, <1>11, <1>12 DEF n

(* A text answer that begins behind the first-th line, or with its end.     *)
CutAt(t, max, first, out) ==
    LET cut == Logs!TextSize(t) - max
        offset == Logs!NewlineAfter(t, first) - cut
    IN  /\ out.truncated
        /\ out.lines = Logs!Tail_(t, first + 1)
        /\ out.orphans \in 0..3
        /\ first > 1 => ~(Logs!NewlineAfter(t, first - 1) >= cut)
        /\ first # Len(t) => Logs!NewlineAfter(t, first) >= cut
        /\ out.part = IF first # Len(t) /\ 0 < offset /\ offset < max - 1 THEN 0 ELSE offset

(* The text answer is all lines, or cut at one of them.                     *)
LEMMA TextAnswer ==
    ASSUME NEW U, NEW t \in Seq(U), NEW max,
           NEW out \in Logs!SerializeText(t, max)
    PROVE  IF Logs!TextSize(t) - max <= 0 THEN out = Logs!Whole_(t)
           ELSE IF max = 0 THEN out = [Logs!Whole_(t) EXCEPT !.truncated = TRUE]
           ELSE \E first \in (1..(Len(t) - 1)) \cup {Len(t)} : CutAt(t, max, first, out)
<1> DEFINE cut == Logs!TextSize(t) - max
           later == {i \in 1..(Len(t) - 1) : Logs!NewlineAfter(t, i) >= cut}
           first == IF later = {} THEN Len(t) ELSE CHOOSE i \in later : \A j \in later : i <= j
           offset == Logs!NewlineAfter(t, first) - cut
           atLine == later # {} /\ 0 < offset /\ offset < max - 1
           part == IF atLine THEN 0 ELSE offset
<1>1. later \in SUBSET Nat /\ Len(t) \in Nat
  OBVIOUS
<1>2. later # {} => first \in later /\ \A j \in later : first <= j
  <2> HIDE DEF later
  <2> QED BY <1>1, LeastNatural
<1>3. out \in IF cut <= 0 THEN {Logs!Whole_(t)}
              ELSE IF max = 0 THEN {[Logs!Whole_(t) EXCEPT !.truncated = TRUE]}
              ELSE {[lines |-> Logs!Tail_(t, first + 1), part |-> part, orphans |-> o,
                     truncated |-> TRUE] : o \in Logs!Orphans(t[first], part)}
  BY DEF Logs!SerializeText
<1>4. \A i \in 1..(Len(t) - 1) : i \in later <=> Logs!NewlineAfter(t, i) >= cut
  OBVIOUS
<1>5. (\A i \in later : i \in 1..(Len(t) - 1)) /\ (later = {} => first = Len(t))
  OBVIOUS
<1> HIDE DEF first, later
<1>6. CASE cut <= 0
  BY <1>3, <1>6
<1>7. CASE ~(cut <= 0) /\ max = 0
  BY <1>3, <1>7
<1>8. CASE ~(cut <= 0) /\ max # 0
  <2>1. PICK o \in Logs!Orphans(t[first], part) :
           out = [lines |-> Logs!Tail_(t, first + 1), part |-> part, orphans |-> o, truncated |-> TRUE]
    BY <1>3, <1>8
  <2>2. out.truncated /\ out.lines = Logs!Tail_(t, first + 1) /\ out.part = part /\ out.orphans \in 0..3
    BY <2>1 DEF Logs!Orphans
  <2>3. /\ first \in (1..(Len(t) - 1)) \cup {Len(t)}
        /\ later # {} <=> first # Len(t)
    <3> DEFINE n == Len(t)
    <3>1. n \in Nat /\ (\A i \in later : i \in 1..(n - 1)) /\ (later = {} => first = n)
      BY <1>1, <1>5
    <3>2. later # {} => first \in later
      BY <1>2
    <3> HIDE DEF n
    <3>3. later # {} => first \in 1..(n - 1) /\ first # n
      BY <3>1, <3>2
    <3>4. /\ first \in (1..(n - 1)) \cup {n}
          /\ later # {} <=> first # n
      BY <3>1, <3>3
    <3> QED BY <3>4 DEF n
  <2>4. first # Len(t) => Logs!NewlineAfter(t, first) >= cut
    BY <1>2, <1>4, <1>5, <2>3
  <2>5. ASSUME first > 1, Logs!NewlineAfter(t, first - 1) >= cut PROVE FALSE
    <3> DEFINE n == Len(t)
    <3>1. n \in Nat /\ first \in (1..(n - 1)) \cup {n}
      BY <1>1, <2>3
    <3> HIDE DEF n
    <3>2. first - 1 \in 1..(n - 1) /\ first \in Int
      BY <2>5, <3>1
    <3>3. first - 1 \in later
      BY <1>4, <2>5, <3>2 DEF n
    <3>4. first <= first - 1
      BY <1>2, <3>3
    <3> QED BY <3>2, <3>4
  <2>6. CutAt(t, max, first, out)
    BY <2>2, <2>3, <2>4, <2>5 DEF CutAt
  <2> QED BY <1>8, <2>3, <2>6
<1> QED BY <1>6, <1>7, <1>8

(* The budget leaves the order as it is.                                    *)
LEMMA SerializedInListing ==
    ASSUME NEW U, NEW pods \in Seq(U), NEW t, InListing(t, pods), NEW q,
           NEW out \in Logs!Serialize(t, q)
    PROVE  InListing(out.lines, pods)
<1> DEFINE R == Logs!Records({pods[i] : i \in DOMAIN pods})
           max == q.maxBytes
<1>1. t \in Seq(R) /\ Len(t) \in Nat
  BY DEF InListing
<1> HIDE DEF R, max
<1>2. out.lines = t \/ \E i \in Int : i >= 1 /\ out.lines = Logs!Tail_(t, i)
  <2>1. CASE q.json
    <3>1. out = Logs!SerializeJson(t, max)
      BY <2>1 DEF Logs!Serialize, max
    <3>2. PICK i \in 1..(Len(t) + 1) : out.lines = Logs!Tail_(t, i)
      BY <1>1, <3>1, JsonAnswer
    <3> QED BY <1>1, <3>2
  <2>2. CASE ~q.json
    <3>1. out \in Logs!SerializeText(t, max)
      BY <2>2 DEF Logs!Serialize, max
    <3>2. \/ out = Logs!Whole_(t)
          \/ out = [Logs!Whole_(t) EXCEPT !.truncated = TRUE]
          \/ \E first \in (1..(Len(t) - 1)) \cup {Len(t)} : CutAt(t, max, first, out)
      BY <1>1, <3>1, TextAnswer
    <3>3. ASSUME NEW first \in (1..(Len(t) - 1)) \cup {Len(t)}, CutAt(t, max, first, out)
          PROVE  first + 1 \in Int /\ first + 1 >= 1 /\ out.lines = Logs!Tail_(t, first + 1)
      BY <1>1, <3>3 DEF CutAt
    <3> QED BY <3>2, <3>3 DEF Logs!Whole_
  <2> QED BY <2>1, <2>2
<1> QED BY <1>2, TailInListing

(* Where the tool answers, what it has found is in the order of the         *)
(* listing.                                                                 *)
LEMMA FoundInListing ==
    ASSUME NEW in \in Inputs["logs"],
           NEW fetched, fetched = Logs!Fetch(in, in.pods, in.log, in.order),
           Logs!Answered(in, fetched)
    PROVE  InListing(Logs!Found(in, fetched), in.pods)
<1> DEFINE inTime == Logs!FilterByTime(fetched, in)
<1>1. in.pods \in Seq(DOMAIN in.log)
  BY LogsAssumption
<1>2. fetched \notin {Failed, None, Broken} /\ Logs!Accepts(in)
  BY DEF Logs!Answered
<1>3. InListing(fetched, in.pods)
  <2>1. CASE in.bySelector
    <3>1. fetched = Logs!FetchMulti(in.pods, in.log, in.order)
      BY <2>1 DEF Logs!Fetch
    <3> QED BY <1>2, <3>1, FetchedInListing
  <2>2. CASE ~in.bySelector
    <3>1. fetched = Logs!FetchSingle(in.log[in.pods[1]])
      BY <2>2 DEF Logs!Fetch
    <3>2. in.byName
      BY <1>2, <2>2, LogsAssumption DEF Logs!Accepts
    <3> QED BY <1>2, <3>1, <3>2, SingleInListing
  <2> QED BY <2>1, <2>2
<1>4. InListing(inTime, in.pods)
  BY <1>1, <1>3, SelectedInListing DEF Logs!FilterByTime
<1> HIDE DEF inTime
<1>5. InListing(IF in.pattern THEN Logs!FilterWithContext(inTime, in.context) ELSE inTime, in.pods)
  BY <1>1, <1>4, SelectedInListing DEF Logs!FilterWithContext
<1> QED BY <1>5 DEF Logs!Found, inTime

(* The lines of an answer come in the order of the listing of the pods,     *)
(* whichever thread was first (logs.py:318-345).                            *)
THEOREM LogsAlwaysInOrder == Spec => []LogsInOrder
<1>1. AnswersCome => LogsInOrder
  <2> SUFFICES ASSUME AnswersCome, Of("get_pod_logs")
               PROVE  InListing(answer.out.lines, answer.in.pods)
    BY DEF LogsInOrder, InListing
  <2> DEFINE in == answer.in
             out == answer.out
             fetched == Logs!Fetch(in, in.pods, in.log, in.order)
  <2>1. in \in Inputs["logs"] /\ out \in Logs!GetPodLogs(in, in.pods, in.log, in.order)
    BY DEF AnswersCome
  <2>2. in.pods \in Seq(DOMAIN in.log)
    BY <2>1, LogsAssumption
  <2> HIDE DEF in, out
  <2>3. out \in IF Logs!Answered(in, fetched) THEN Logs!Serialize(Logs!Found(in, fetched), in)
                ELSE {Logs!Whole_(<<>>)}
    BY <2>1 DEF Logs!GetPodLogs
  <2> HIDE DEF fetched
  <2>4. CASE Logs!Answered(in, fetched)
    <3>1. InListing(Logs!Found(in, fetched), in.pods)
      BY <2>1, <2>4, FoundInListing DEF fetched
    <3>2. InListing(out.lines, in.pods)
      BY <2>2, <2>3, <2>4, <3>1, SerializedInListing
    <3> QED BY <3>2 DEF in, out
  <2>5. CASE ~Logs!Answered(in, fetched)
    <3>1. out.lines = <<>>
      BY <2>3, <2>5 DEF Logs!Whole_
    <3>2. InListing(<<>>, in.pods)
      BY DEF InListing
    <3>3. InListing(out.lines, in.pods)
      BY <3>1, <3>2
    <3> QED BY <3>3 DEF in, out
  <2> QED BY <2>4, <2>5
<1> QED BY <1>1, AnswersInvariant, PTL

(* A text that was cut keeps to the budget but for a character cut in two,  *)
(* one line more is too much, and a piece of a line is left only alone.     *)
LEMMA TextKeepsTheEnd ==
    ASSUME NEW pods, NEW t \in Seq(Logs!Records(pods)), NEW max \in Nat,
           NEW first \in 1..Len(t), NEW out, CutAt(t, max, first, out),
           Logs!TextSize(t) - max > 0
    PROVE  /\ Logs!PayloadSize(out, FALSE) <= max + 6
           /\ Logs!TextSize(Logs!Tail_(t, first)) >= max
           /\ out.part # 0 => Logs!TextSize(out.lines) = 0
<1> DEFINE total == Logs!TextSize(t)
           rest == Logs!TextSize(Logs!Tail_(t, first + 1))
           before == Logs!NewlineAfter(t, first)
           cut == total - max
           offset == before - cut
           n == Len(t)
<1>1. total \in Int /\ n \in Nat /\ first \in 1..n /\ total - max > 0
  BY TextSizeType
<1>2. /\ out.lines = Logs!Tail_(t, first + 1)
      /\ out.orphans \in 0..3
      /\ first > 1 => ~(Logs!NewlineAfter(t, first - 1) >= cut)
      /\ first # n => before >= cut
      /\ out.part = IF first # n /\ 0 < offset /\ offset < max - 1 THEN 0 ELSE offset
  BY DEF CutAt
<1>3. ASSUME first = n
      PROVE  /\ Logs!PayloadSize(out, FALSE) <= max + 6
             /\ out.part # 0 => Logs!TextSize(out.lines) = 0
  <2>1. out.lines = <<>> /\ before = total
    <3> DEFINE R == Logs!Records(pods)
    <3>1. t \in Seq(R)
      OBVIOUS
    <3> HIDE DEF R
    <3> QED BY <1>2, <1>3, <3>1, NothingLeft
  <2>2. Logs!TextSize(out.lines) = 0
    BY <2>1, EmptySize
  <2> HIDE DEF total, before
  <2>3. out.part = max
    BY <1>1, <1>2, <1>3, <2>1
  <2>4. Logs!PayloadSize(out, FALSE) = max + 2 * out.orphans
    BY <1>1, <1>2, <2>1, <2>2, <2>3 DEF Logs!PayloadSize, Logs!OrphanSize
  <2> DEFINE o == out.orphans
  <2>5. o \in 0..3 /\ max \in Nat
    BY <1>2
  <2> HIDE DEF o
  <2>6. max + 2 * o <= max + 6
    BY <2>5
  <2> QED BY <2>2, <2>4, <2>6 DEF o
<1>4. ASSUME first # n
      PROVE  /\ Logs!PayloadSize(out, FALSE) <= max + 6
             /\ out.part # 0 => Logs!TextSize(out.lines) = 0
  <2>1. total = before + 1 + rest /\ before \in Nat /\ rest \in Nat
    BY <1>1, <1>4, NewlineParts
  <2>2. Logs!TextSize(out.lines) = rest
    BY <1>2
  <2> DEFINE sep == IF out.part # 0 /\ out.lines # <<>> THEN 1 ELSE 0
  <2>3. Logs!PayloadSize(out, FALSE) = out.part + 2 * out.orphans + sep + rest
    BY <2>2 DEF Logs!PayloadSize, Logs!OrphanSize
  <2>4. sep \in 0..1 /\ (out.part = 0 => sep = 0)
    OBVIOUS
  <2> HIDE DEF total, before, rest, sep, n
  <2>5. offset = max - 1 - rest /\ offset >= 0
    BY <1>1, <1>2, <1>4, <2>1
  <2>6. out.part = (IF 0 < offset /\ offset < max - 1 THEN 0 ELSE offset)
    BY <1>2, <1>4
  <2> HIDE DEF offset
  <2>7. out.part # 0 => rest = 0 /\ out.part = max - 1
    BY <1>1, <2>1, <2>5, <2>6
  <2>8. rest <= max
    BY <1>1, <2>1, <2>5
  <2>9. out.part + sep + rest <= max
    BY <2>1, <2>4, <2>7, <2>8
  <2>10. out.part \in Int
    BY <2>5, <2>6
  <2> DEFINE o == out.orphans
             part == out.part
  <2>11. /\ o \in 0..3 /\ part \in Int /\ part + sep + rest <= max
         /\ rest \in Nat /\ sep \in Int
    BY <1>2, <2>1, <2>4, <2>9, <2>10
  <2> HIDE DEF o, part
  <2>12. part + 2 * o + sep + rest <= max + 6
    BY <2>11
  <2>13. Logs!PayloadSize(out, FALSE) <= max + 6
    BY <2>3, <2>12 DEF o, part
  <2>14. out.part # 0 => Logs!TextSize(out.lines) = 0
    BY <2>2, <2>7
  <2> QED BY <2>13, <2>14
<1>5. Logs!TextSize(Logs!Tail_(t, first)) >= max
  <2>1. CASE first = 1
    <3>1. Logs!Tail_(t, 1) = t
      BY SubSeqFull DEF Logs!Tail_
    <3> QED BY <1>1, <2>1, <3>1
  <2>2. CASE first # 1
    <3> DEFINE i == first - 1
    <3>1. i \in 1..(n - 1) /\ first > 1 /\ i + 1 = first
      BY <1>1, <2>2
    <3> HIDE DEF i
    <3>2. /\ total = Logs!NewlineAfter(t, i) + 1 + Logs!TextSize(Logs!Tail_(t, i + 1))
          /\ Logs!NewlineAfter(t, i) \in Nat
          /\ Logs!TextSize(Logs!Tail_(t, i + 1)) \in Nat
      BY <3>1, NewlineParts
    <3>3. ~(Logs!NewlineAfter(t, i) >= cut)
      BY <1>2, <3>1 DEF i
    <3> HIDE DEF total
    <3> QED BY <1>1, <3>1, <3>2, <3>3
  <2> QED BY <2>1, <2>2
<1> QED BY <1>3, <1>4, <1>5

(* An answer is cut exactly when what was found is over the budget, and is  *)
(* then the end of it that the budget allows (logs.py:531-563).             *)
THEOREM BudgetAlwaysKeepsTheEnd == Spec => []BudgetKeepsTheEnd
<1>1. AnswersCome => BudgetKeepsTheEnd
  <2> DEFINE in == answer.in
             out == answer.out
             all == LogFound
             max == in.maxBytes
             pods == {in.pods[i] : i \in DOMAIN in.pods}
             json == in.json
             size == IF json THEN Logs!JsonSize(all) ELSE Logs!TextSize(all)
             Ends(k) == /\ out.lines = Logs!Tail_(all, k + 1)
                        /\ Logs!PayloadSize(out, json) <= max + 6 \/ (json /\ out.lines = <<>>)
                        /\ IF json
                           THEN all = <<>> \/ (k > 0 /\ Logs!JsonSize(Logs!Tail_(all, k)) > max)
                           ELSE k > 0 /\ Logs!TextSize(Logs!Tail_(all, k)) >= max
                        /\ out.part # 0 => Logs!TextSize(out.lines) = 0
  <2> SUFFICES ASSUME AnswersCome, LogAnswered
               PROVE  /\ out.truncated <=> size > max
                      /\ ~out.truncated \/ (max = 0 /\ ~json) => out.lines = all /\ out.part = 0
                      /\ out.truncated /\ (max # 0 \/ json) => \E k \in 0..Len(all) : Ends(k)
    BY DEF BudgetKeepsTheEnd
  <2>1. in \in Inputs["logs"] /\ out \in Logs!GetPodLogs(in, in.pods, in.log, in.order)
    BY DEF AnswersCome, LogAnswered
  <2>2. Logs!Answered(in, LogFetched) /\ max \in Nat
    BY <2>1, LogsAssumption DEF LogAnswered
  <2>3. out \in Logs!Serialize(all, in)
    BY <2>1, <2>2 DEF Logs!GetPodLogs, LogFound, LogFetched
  <2>4. all \in Seq(Logs!Records(pods))
    <3>1. InListing(Logs!Found(in, LogFetched), in.pods)
      BY <2>1, <2>2, FoundInListing DEF LogFetched
    <3> QED BY <3>1 DEF InListing, LogFound
  <2> HIDE DEF in, out, all, pods
  <2> DEFINE R == Logs!Records(pods)
             n == Len(all)
  <2>5. all \in Seq(R)
    BY <2>4
  <2> HIDE DEF R
  <2>6. Logs!Tail_(all, 1) = all /\ n \in Nat
    BY <2>5, SubSeqFull DEF Logs!Tail_
  <2>7. CASE in.json
    <3>1. out = Logs!SerializeJson(all, max)
      BY <2>3, <2>7 DEF Logs!Serialize
    <3>2. PICK i \in 1..(n + 1) :
             /\ out.lines = Logs!Tail_(all, i) /\ out.part = 0 /\ out.orphans = 0
             /\ Logs!JsonSize(Logs!Tail_(all, i)) <= max \/ i = n + 1
             /\ out.truncated <=> ~(Logs!JsonSize(Logs!Tail_(all, 1)) <= max)
             /\ ~out.truncated => i = 1
             /\ \A j \in 1..(i - 1) : ~(Logs!JsonSize(Logs!Tail_(all, j)) <= max)
      BY <2>5, <3>1, JsonAnswer
    <3>3. \A j \in 1..(n + 1) : Logs!JsonSize(Logs!Tail_(all, j)) \in Int
      BY <2>4, JsonSizeType
    <3> DEFINE k == i - 1
    <3>4. k \in 0..n /\ k + 1 = i /\ (k > 0 => k \in 1..(i - 1) /\ k \in 1..(n + 1)) /\ (k = 0 => i = 1)
      BY <2>6
    <3>5. Logs!PayloadSize(out, in.json) <= max \/ i = n + 1
      BY <2>7, <3>2 DEF Logs!PayloadSize
    <3>6. i = n + 1 => out.lines = <<>>
      BY <2>5, <3>2, NothingLeft
    <3>7. out.truncated <=> Logs!JsonSize(all) > max
      BY <2>2, <2>6, <3>2, <3>3, 1 \in 1..(n + 1)
    <3>8. k > 0 => Logs!JsonSize(Logs!Tail_(all, k)) > max
      BY <2>2, <3>2, <3>3, <3>4
    <3>9. out.truncated => all = <<>> \/ k > 0
      <4> SUFFICES ASSUME out.truncated, k = 0 PROVE n = 0
        BY <2>5, <3>4, EmptySeq
      <4> QED BY <2>6, <3>2, <3>4
    <3> HIDE DEF k, n
    <3>10. Logs!PayloadSize(out, in.json) <= max + 6 \/ out.lines = <<>>
      <4>1. CASE i = n + 1
        BY <3>6, <4>1
      <4>2. CASE i # n + 1
        <5>1. Logs!PayloadSize(out, in.json) <= max /\ Logs!PayloadSize(out, in.json) \in Int
          BY <2>7, <3>2, <3>3, <3>5, <4>2 DEF Logs!PayloadSize
        <5> QED BY <2>2, <5>1
      <4> QED BY <4>1, <4>2
    <3>11. out.truncated => Ends(k)
      BY <2>7, <3>2, <3>4, <3>8, <3>9, <3>10
    <3>12. ~out.truncated => out.lines = all /\ out.part = 0
      BY <2>6, <3>2
    <3> HIDE DEF max, Ends
    <3> QED BY <2>7, <3>4, <3>7, <3>11, <3>12 DEF n
  <2>8. CASE ~in.json
    <3>1. out \in Logs!SerializeText(all, max)
      BY <2>3, <2>8 DEF Logs!Serialize
    <3>2. Logs!TextSize(all) \in Int
      BY <2>4, TextSizeType
    <3>3. IF Logs!TextSize(all) - max <= 0 THEN out = Logs!Whole_(all)
          ELSE IF max = 0 THEN out = [Logs!Whole_(all) EXCEPT !.truncated = TRUE]
          ELSE \E first \in (1..(n - 1)) \cup {n} : CutAt(all, max, first, out)
      BY <2>5, <3>1, TextAnswer
    <3>4. CASE Logs!TextSize(all) - max <= 0
      <4>1. out.lines = all /\ out.part = 0 /\ out.truncated = FALSE
        BY <3>3, <3>4 DEF Logs!Whole_
      <4>2. ~(Logs!TextSize(all) > max)
        BY <2>2, <3>2, <3>4
      <4> HIDE DEF max, Ends
      <4> QED BY <2>8, <4>1, <4>2
    <3>5. CASE Logs!TextSize(all) - max > 0
      <4>1. Logs!TextSize(all) > max /\ all # <<>>
        BY <2>2, <3>2, <3>5, EmptySize
      <4>2. CASE max = 0
        <5>1. out.lines = all /\ out.part = 0 /\ out.truncated = TRUE
          BY <3>2, <3>3, <3>5, <4>2 DEF Logs!Whole_
        <5> HIDE DEF max, Ends
        <5> QED BY <2>8, <4>1, <4>2, <5>1
      <4>3. CASE max # 0
        <5>1. PICK first \in (1..(n - 1)) \cup {n} : CutAt(all, max, first, out)
          BY <2>2, <3>2, <3>3, <3>5, <4>3
        <5>2. n # 0 /\ first \in 1..n
          BY <2>5, <2>6, <4>1, <5>1, EmptySeq
        <5>3. /\ Logs!PayloadSize(out, FALSE) <= max + 6
              /\ Logs!TextSize(Logs!Tail_(all, first)) >= max
              /\ out.part # 0 => Logs!TextSize(out.lines) = 0
          BY <2>2, <2>4, <3>5, <5>1, <5>2, TextKeepsTheEnd
        <5>4. out.truncated /\ out.lines = Logs!Tail_(all, first + 1)
          BY <5>1 DEF CutAt
        <5>5. first \in 0..n /\ first > 0
          BY <2>6, <5>2
        <5> HIDE DEF n, max
        <5>6. Ends(first)
          <6>1. ~json /\ Logs!PayloadSize(out, json) = Logs!PayloadSize(out, FALSE)
            BY <2>8 DEF Logs!PayloadSize
          <6> HIDE DEF json
          <6> QED BY <5>3, <5>4, <5>5, <6>1
        <5> HIDE DEF Ends
        <5>7. \E k \in 0..n : Ends(k)
          BY <5>5, <5>6
        <5>8. size > max
          BY <2>8, <4>1
        <5> HIDE DEF size
        <5> QED BY <2>8, <5>4, <5>7, <5>8, <4>3 DEF n
      <4> QED BY <4>2, <4>3
    <3> QED BY <2>2, <3>2, <3>4, <3>5
  <2> QED BY <2>7, <2>8
<1> QED BY <1>1, AnswersInvariant, PTL
=============================================================================
