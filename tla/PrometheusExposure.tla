------------------------- MODULE PrometheusExposure -------------------------
(***************************************************************************)
(* expose_prometheus_as_nodeport (tools/prometheus.py): a ClusterIP        *)
(* Service of Prometheus gets a NodePort twin, which is made at most once. *)
(* Several calls may be under way while Services come, go and change.      *)
(* One action is one HTTP request and what the body does up to the next.   *)
(***************************************************************************)
EXTENDS Naturals

CONSTANTS
    Exposers,    (* the tool calls, all for the same Service                 *)
    Selectors,   (* the selectors a Service may have                         *)
    NoService,   (* where there is no Service                                *)
    LastPort     (* bound on the node ports the apiserver gives out, from 1  *)

(* NodePort stands for every type that is reachable from outside already;   *)
(* unfit is a headless Service, one without selector or without ports.  A   *)
(* port 0 is none.                                                          *)
Twin == [type : {"ClusterIP", "NodePort"}, selector : Selectors, port : 0..LastPort]
Source == [type : {"ClusterIP", "NodePort", "unfit"}, selector : Selectors]

ASSUME ExposureAssumption ==
    /\ LastPort \in Nat
    /\ NoService \notin Twin \cup Source

VARIABLES
    source,     (* the Service of Prometheus                                 *)
    twin,       (* the Service of that name with the suffix                  *)
    lastPort,   (* the node ports given out                                  *)
    place,      (* where each call is, or how it ended                       *)
    orig,       (* the Service it has read                                   *)
    reply,      (* the node port it answers with                             *)
    aim         (* what that port leads to as it answers (history)           *)

services == <<source, twin, lastPort>>
exposeVars == <<services, place, orig, reply, aim>>

ExposeInit ==
    /\ source \in Source \cup {NoService}
    /\ twin \in {NoService} \cup [type : {"ClusterIP"}, selector : Selectors, port : {0}]
    /\ lastPort = 0
    /\ place = [x \in Exposers |-> "idle"]
    /\ orig = [x \in Exposers |-> NoService]
    /\ reply = [x \in Exposers |-> 0]
    /\ aim = [x \in Exposers |-> {}]

PutAt(x, p) == place' = [place EXCEPT ![x] = p]
AnswerPort(x, outcome, port, selector) ==
    /\ PutAt(x, outcome)
    /\ reply' = [reply EXCEPT ![x] = port]
    /\ aim' = [aim EXCEPT ![x] = selector]
Silent == UNCHANGED <<reply, aim>>

(* Bad arguments and the guards refuse; a request may fail at any place.    *)
StopExpose(x) ==
    /\ place[x] \in {"idle", "looking", "creating"}
    /\ PutAt(x, "failed")
    /\ Silent
    /\ UNCHANGED <<services, orig>>

(* A Service that has a port on the nodes already is the answer; one that   *)
(* cannot have a twin is refused.                                           *)
ReadSource(x) ==
    /\ place[x] = "idle"
    /\ source # NoService
    /\ CASE source.type = "NodePort" -> PutAt(x, "already")
         [] source.type = "ClusterIP" -> PutAt(x, "looking")
         [] OTHER -> PutAt(x, "failed")
    /\ orig' = [orig EXCEPT ![x] = source]
    /\ Silent
    /\ UNCHANGED services

(* A faulty form: a twin of that name is taken for the right one.           *)
ReusableByName(x) == twin # NoService /\ twin.port # 0

(* _service_selector_matches, and a node port to tell.                      *)
Reusable(x) == twin # NoService /\ twin.selector = orig[x].selector /\ twin.port # 0

LookForTwin(x) ==
    /\ place[x] = "looking"
    /\ IF Reusable(x)
       THEN AnswerPort(x, "existing", twin.port, twin.selector)
       ELSE PutAt(x, "creating") /\ Silent
    /\ UNCHANGED <<services, orig>>

(* The apiserver refuses a second Service of that name, whoever made it.    *)
CreateTwin(x) ==
    /\ place[x] = "creating"
    /\ IF twin # NoService
       THEN PutAt(x, "failed") /\ Silent /\ UNCHANGED services
       ELSE /\ lastPort < LastPort
            /\ lastPort' = lastPort + 1
            /\ twin' = [type |-> "NodePort", selector |-> orig[x].selector, port |-> lastPort']
            /\ \/ AnswerPort(x, "created", lastPort', twin'.selector)
               \/ PutAt(x, "failed") /\ Silent        \* the answer is lost
            /\ UNCHANGED source
    /\ UNCHANGED orig

(* Others: the source changes or goes; somebody else makes a Service of the *)
(* twin's name, changes what it selects, or deletes it.                     *)
OthersChangeServices ==
    /\ \/ /\ \E s \in Source \cup {NoService} : source' = s
          /\ UNCHANGED <<twin, lastPort>>
       \/ /\ twin # NoService
          /\ \/ twin' = NoService
             \/ \E s \in Selectors : twin' = [twin EXCEPT !.selector = s]
          /\ UNCHANGED <<source, lastPort>>
       \/ /\ twin = NoService
          /\ lastPort < LastPort
          /\ lastPort' = lastPort + 1
          /\ \E s \in Selectors : twin' = [type |-> "NodePort", selector |-> s, port |-> lastPort']
          /\ UNCHANGED source
    /\ UNCHANGED <<place, orig, reply, aim>>

ExposeStep(x) == StopExpose(x) \/ ReadSource(x) \/ LookForTwin(x) \/ CreateTwin(x)
ExposeNext == OthersChangeServices \/ \E x \in Exposers : ExposeStep(x)

ExposeSpec == ExposeInit /\ [][ExposeNext]_exposeVars

-----------------------------------------------------------------------------
Answering == {"existing", "created"}

ExposeType ==
    /\ source \in Source \cup {NoService}
    /\ twin \in Twin \cup {NoService}
    /\ lastPort \in 0..LastPort
    /\ place \in [Exposers -> {"idle", "looking", "creating", "already", "failed"} \cup Answering]
    /\ orig \in [Exposers -> Source \cup {NoService}]
    /\ reply \in [Exposers -> 0..LastPort]
    /\ aim \in [Exposers -> Selectors \cup {{}}]
    /\ \A x \in Exposers : place[x] \in {"looking", "creating"} =>
           orig[x] \in [type : {"ClusterIP"}, selector : Selectors]

(* A port that a call answers with leads, at that moment, to the pods that  *)
(* the Service it was asked for selected as the call read it, and the ports *)
(* of two calls that made a twin are two (prometheus.py:1478-1548).         *)
PortsLeadToPrometheus ==
    /\ \A x \in Exposers : place[x] \in Answering =>
           reply[x] # 0 /\ aim[x] = orig[x].selector
    /\ \A x, y \in Exposers :
           x # y /\ place[x] = "created" /\ place[y] = "created" => reply[x] # reply[y]
=============================================================================
