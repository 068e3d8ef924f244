-------------------------- MODULE NetworkPolicies --------------------------
(***************************************************************************)
(* tools/networkpolicy.py: create_networkpolicy as the policy that the     *)
(* apiserver ends up with, and analyze_networkpolicy as what it tells of   *)
(* the pods of a namespace.  Labels are functions from some keys to values;*)
(* a selector has the labels it wants and a set of expressions.            *)
(***************************************************************************)
EXTENDS FiniteSets

CONSTANT Unset   (* a field that is not given                                *)

Directions == {"Ingress", "Egress"}
Nothing == [k \in {} |-> k]
Everybody == [labels |-> Nothing, exprs |-> {}]

(***************************************************************************)
(* What is written.  A rule is the set of its given parts.  The apiserver  *)
(* drops the fields that it does not know: a rule loses the peers of the   *)
(* other direction, and pod_selector, put where a LabelSelector belongs    *)
(* and not below its matchLabels, loses every label and then selects       *)
(* everybody.  Only a label called like a field of LabelSelector is not    *)
(* dropped, and rejected, as its value is a string.                        *)
(***************************************************************************)
PeersOf == [Ingress |-> "from", Egress |-> "to"]
StoredRule(d, rule) == rule \cap {PeersOf[d], "ports"}

StoredSelector(podSelector) ==
    IF DOMAIN podSelector \cap {"matchLabels", "matchExpressions"} = {} THEN {Everybody} ELSE {}

CreatePolicy(r) ==
    IF \/ r.types = {} \/ ~(r.types \subseteq Directions)
       \/ \E d \in Directions : r.rules[d] # Unset /\ {} \in r.rules[d]
    THEN {}
    ELSE {[selector |-> sel, types |-> r.types,
           rules |-> [d \in Directions |->
                         IF r.rules[d] = Unset THEN Unset ELSE {StoredRule(d, x) : x \in r.rules[d]}]] :
             sel \in StoredSelector(r.podSelector)}

(***************************************************************************)
(* What is read.                                                           *)
(***************************************************************************)
ExprMatches(e, labels) ==
    CASE e.op = "In" -> e.key \in DOMAIN labels /\ labels[e.key] \in e.values
      [] e.op = "NotIn" -> e.key \in DOMAIN labels => labels[e.key] \notin e.values
      [] e.op = "Exists" -> e.key \in DOMAIN labels
      [] e.op = "DoesNotExist" -> e.key \notin DOMAIN labels
      [] OTHER -> TRUE

(* A faulty form: one matching label is enough.                             *)
SelectorMatchesAnyLabel(sel, labels) ==
    /\ \/ DOMAIN sel.labels = {}
       \/ \E k \in DOMAIN sel.labels : k \in DOMAIN labels /\ labels[k] = sel.labels[k]
    /\ \A e \in sel.exprs : ExprMatches(e, labels)

SelectorMatches(sel, labels) ==
    /\ \A k \in DOMAIN sel.labels : k \in DOMAIN labels /\ labels[k] = sel.labels[k]
    /\ \A e \in sel.exprs : ExprMatches(e, labels)

Given(rules) == IF rules = Unset THEN {} ELSE rules

(* Declared, or Ingress and, when there are egress rules, Egress.           *)
PolicyTypes(p) ==
    IF p.types # {} THEN p.types
    ELSE {"Ingress"} \cup {d \in {"Egress"} : Given(p.rules[d]) # {}}

SelectingPolicies(policies, labels) ==
    {p \in policies : SelectorMatches(p.selector, labels)}

Isolated(policies, labels, d) ==
    \E p \in SelectingPolicies(policies, labels) : d \in PolicyTypes(p)

(* A rule with no peer, or an empty list of them, is for anybody.           *)
RulePeers(d, rule) ==
    [peers |-> IF PeersOf[d] \notin rule THEN {"anywhere"} ELSE {"listed"},
     ports |-> IF "ports" \notin rule THEN {"all"} ELSE {"listed"}]

(* The view of one pod: per selecting policy and controlled direction the   *)
(* rules, none of them meaning `deny all`, and the posture.                 *)
PodView(policies, labels) ==
    [shown |-> [p \in SelectingPolicies(policies, labels) |->
                   [d \in PolicyTypes(p) |-> {RulePeers(d, r) : r \in Given(p.rules[d])}]],
     isolated |-> {d \in Directions : Isolated(policies, labels, d)}]

(* The sweep: the posture of each pod, the exposed ones, and for each       *)
(* policy the directions that its row calls `deny-all`.                     *)
DenyAll(p) ==
    {d \in Directions : \/ d \in PolicyTypes(p) /\ Given(p.rules[d]) = {}
                        \/ d = "Ingress" /\ p.rules[d] = {}}
CoverageView(policies, pods) ==
    IF policies = {}
    THEN [posture |-> [x \in DOMAIN pods |-> {}], exposed |-> DOMAIN pods, inventory |-> Nothing]
    ELSE [posture |-> [x \in DOMAIN pods |-> {d \in Directions : Isolated(policies, pods[x], d)}],
          exposed |-> {x \in DOMAIN pods : ~Isolated(policies, pods[x], "Ingress")},
          inventory |-> [p \in policies |-> DenyAll(p)]]

(***************************************************************************)
(* The reference: the traffic that Kubernetes lets through.  A pod that no *)
(* policy of a direction selects takes any; otherwise the union of the     *)
(* rules decides.                                                          *)
(***************************************************************************)
Chosen(sel, labels) ==
    /\ {k \in DOMAIN sel.labels : k \notin DOMAIN labels \/ labels[k] # sel.labels[k]} = {}
    /\ \A e \in sel.exprs :
          LET has == {labels[k] : k \in DOMAIN labels \cap {e.key}}
          IN  /\ e.op = "In" => has \cap e.values # {}
              /\ e.op = "NotIn" => has \cap e.values = {}
              /\ e.op = "Exists" => has # {}
              /\ e.op = "DoesNotExist" => has = {}
Governing(policies, labels, d) ==
    {p \in policies : Chosen(p.selector, labels) /\ d \in PolicyTypes(p)}
Open(policies, labels, d) == Governing(policies, labels, d) = {}
LetsThrough(policies, labels, d) ==
    UNION {Given(p.rules[d]) : p \in Governing(policies, labels, d)}
=============================================================================
