-------------------------- MODULE WriteToolsProofs --------------------------
(***************************************************************************)
(* Safety of the tools that change single objects, wait for them, and      *)
(* notify, for any number of calls: first each part by itself, then all of *)
(* them in one server.                                                     *)
(***************************************************************************)
EXTENDS WriteTools, SequenceTheorems, TLAPS

-----------------------------------------------------------------------------
(* update_configmap, add_label, remove_label.                              *)

LEMMA OverType ==
    ASSUME NEW old \in Maps, NEW new \in Maps
    PROVE  Over(old, new) \in Maps
BY DEF Over, Maps

-----------------------------------------------------------------------------
(* Types.                                                                  *)

LEMMA EditInitType == EditInit => EditType
BY DEF EditInit, EditType, NoEdit, NoKeys, Maps

LEMMA EditStepType ==
    ASSUME EditType, NEW e \in Editors, EditStep(e)
    PROVE  EditType'
<1> USE DEF EditType
<1>1. CASE AskEdit(e)
  <2>1. edit' \in [Editors -> Edits \cup {NoEdit}]
    BY <1>1, EditAssumption DEF AskEdit
  <2> QED BY <1>1, <2>1 DEF AskEdit, MoveTo, object
<1>2. CASE EditFails(e) BY <1>2 DEF EditFails, MoveTo, object
<1>3. CASE ReadMap(e)
  <2>1. edit[e] \in [op : {"update"}, new : Maps, merge : BOOLEAN]
    BY <1>3 DEF ReadMap, Editing, Edits, NoEdit
  <2>2. Over(data, edit[e].new) \in Maps /\ edit[e].new \in Maps
    BY <2>1, OverType
  <2> QED BY <1>3, <2>2 DEF ReadMap, Editing, MoveTo, object
<1>4. CASE PatchMap(e)
  <2>1. data' \in Maps
    BY <1>4, OverType DEF PatchMap
  <2>2. raced' \in [Editors -> SUBSET Keys]
    BY <1>4 DEF PatchMap, Race, Changed
  <2> QED BY <1>4, <2>1, <2>2 DEF PatchMap, MoveTo
<1>5. CASE AddLabel(e)
  <2>1. edit[e] \in [op : {"add_label"}, key : Keys, text : Texts]
    BY <1>5 DEF AddLabel, Editing, Edits, NoEdit
  <2>2. labels' \in Maps
    BY <1>5, <2>1 DEF AddLabel, Maps
  <2> QED BY <1>5, <2>2 DEF AddLabel, Editing, MoveTo
<1>6. CASE RemoveLabel(e)
  <2>1. labels' \in Maps
    BY <1>6 DEF RemoveLabel, Maps
  <2> QED BY <1>6, <2>1 DEF RemoveLabel, Editing, MoveTo
<1> QED BY <1>1, <1>2, <1>3, <1>4, <1>5, <1>6 DEF EditStep

LEMMA EditNextType ==
    ASSUME EditType, [EditNext]_editVars
    PROVE  EditType'
<1>1. CASE UNCHANGED editVars BY <1>1 DEF editVars, object, EditType
<1>2. CASE OtherEdit
  <2>1. data' \in Maps BY <1>2 DEF OtherEdit, EditType, Maps
  <2>2. raced' \in [Editors -> SUBSET Keys]
    BY <1>2 DEF OtherEdit, Race, Changed, EditType
  <2> QED BY <1>2, <2>1, <2>2 DEF OtherEdit, EditType
<1>3. CASE OtherDelete BY <1>3 DEF OtherDelete, EditType
<1>4. CASE \E e \in Editors : EditStep(e) BY <1>4, EditStepType
<1> QED BY <1>1, <1>2, <1>3, <1>4 DEF EditNext

(* Every variable keeps its type, and only an update_configmap is ever      *)
(* between a read and a patch.                                              *)
THEOREM EditTypeCorrect == EditSpec => []EditType
<1>1. EditInit => EditType BY EditInitType
<1>2. EditType /\ [EditNext]_editVars => EditType' BY EditNextType
<1> QED BY <1>1, <1>2, PTL DEF EditSpec

-----------------------------------------------------------------------------
(* What a call is going to write back.                                     *)

Holds(e, k) == edit[e].new[k] = Nothing /\ body[e][k] # Nothing

(* A change of the data leaves the freshness of the others' bodies alone,   *)
(* because it counts as a race for the keys that it changes.                *)
LEMMA RacedKeepsFresh ==
    ASSUME EditType, BodyIsFresh, NEW others \in SUBSET Editors, Race(others),
           data' \in Maps, UNCHANGED <<edit, body>>,
           NEW e \in others, at[e] = "patching", NEW k \in Keys, Holds(e, k)
    PROVE  edit[e].merge /\ (k \in raced'[e] \/ body'[e][k] = data'[k])
<1>1. edit[e].merge /\ (k \in raced[e] \/ body[e][k] = data[k])
  BY DEF BodyIsFresh, Holds
<1>2. raced'[e] = raced[e] \cup Changed
  BY DEF Race
<1>3. CASE data'[k] = data[k] BY <1>1, <1>2, <1>3
<1>4. CASE data'[k] # data[k]
  <2>1. k \in Changed BY <1>4 DEF Changed
  <2> QED BY <1>1, <1>2, <2>1
<1> QED BY <1>3, <1>4

LEMMA FreshByReading ==
    ASSUME EditType, NEW e \in Editors, ReadMap(e), NEW k \in Keys, Holds(e, k)'
    PROVE  edit'[e].merge /\ body'[e][k] = data'[k]
<1>1. edit[e] \in [op : {"update"}, new : Maps, merge : BOOLEAN]
  BY DEF ReadMap, Editing, Edits, NoEdit, EditType
<1>2. edit'[e] = edit[e] /\ data' = data
  BY DEF ReadMap, object
<1>3. body'[e] = IF edit[e].merge THEN Over(data, edit[e].new) ELSE edit[e].new
  BY DEF ReadMap, EditType
<1>4. CASE ~edit[e].merge BY <1>2, <1>3, <1>4 DEF Holds
<1>5. CASE edit[e].merge
  <2>1. body'[e][k] = data[k] BY <1>2, <1>3, <1>5 DEF Holds, Over
  <2> QED BY <1>2, <1>5, <2>1
<1> QED BY <1>4, <1>5

LEMMA StaysFresh ==
    ASSUME EditType, BodyIsFresh, [EditNext]_editVars
    PROVE  BodyIsFresh'
<1> SUFFICES ASSUME NEW e \in Editors, at'[e] = "patching", NEW k \in Keys, Holds(e, k)'
             PROVE  edit'[e].merge /\ (k \in raced'[e] \/ body'[e][k] = data'[k])
  BY DEF BodyIsFresh, Holds
<1>1. ASSUME UNCHANGED <<data, edit, body, raced>>, at[e] = "patching"
      PROVE  edit'[e].merge /\ (k \in raced'[e] \/ body'[e][k] = data'[k])
  BY <1>1 DEF BodyIsFresh, Holds
<1>2. CASE UNCHANGED editVars BY <1>1, <1>2 DEF editVars, object
<1>3. CASE OtherEdit
  <2>1. data' \in Maps /\ at[e] = "patching" /\ UNCHANGED <<edit, body>>
    BY <1>3 DEF OtherEdit, EditType, Maps
  <2>2. Race(Editors) BY <1>3 DEF OtherEdit
  <2>3. Holds(e, k) BY <2>1 DEF Holds
  <2>4. edit[e].merge /\ (k \in raced'[e] \/ body'[e][k] = data'[k])
    BY <2>1, <2>2, <2>3, RacedKeepsFresh
  <2> QED BY <2>1, <2>4
<1>4. CASE OtherDelete BY <1>1, <1>4 DEF OtherDelete
<1>5. ASSUME NEW f \in Editors, EditStep(f)
      PROVE  edit'[e].merge /\ (k \in raced'[e] \/ body'[e][k] = data'[k])
  <2>1. CASE AskEdit(f)
    <3>1. f # e BY <2>1 DEF AskEdit, MoveTo, EditType
    <3>2. edit'[e] = edit[e] /\ at'[e] = at[e] BY <2>1, <3>1 DEF AskEdit, MoveTo, EditType
    <3> QED BY <2>1, <3>2 DEF AskEdit, object, BodyIsFresh, Holds
  <2>2. CASE EditFails(f)
    <3>1. at'[e] = at[e] BY <2>2 DEF EditFails, MoveTo, EditType
    <3> QED BY <1>1, <2>2, <3>1 DEF EditFails, object
  <2>3. CASE ReadMap(f)
    <3>1. CASE f = e BY <2>3, <3>1, FreshByReading
    <3>2. CASE f # e
      <4>1. at'[e] = at[e] /\ raced'[e] = raced[e] /\ body'[e] = body[e]
        BY <2>3, <3>2 DEF ReadMap, MoveTo, EditType
      <4> QED BY <2>3, <4>1 DEF ReadMap, object, BodyIsFresh, Holds
    <3> QED BY <3>1, <3>2
  <2>4. CASE PatchMap(f)
    <3>1. f # e BY <2>4 DEF PatchMap, MoveTo, EditType
    <3>2. at[e] = "patching" BY <2>4, <3>1 DEF PatchMap, MoveTo, EditType
    <3>3. data' \in Maps BY <2>4, OverType DEF PatchMap, EditType
    <3>4. Race(Editors \ {f}) /\ UNCHANGED <<edit, body>> BY <2>4 DEF PatchMap
    <3>5. Holds(e, k) BY <3>4 DEF Holds
    <3>6. edit[e].merge /\ (k \in raced'[e] \/ body'[e][k] = data'[k])
      BY <3>1, <3>2, <3>3, <3>4, <3>5, RacedKeepsFresh
    <3> QED BY <3>4, <3>6
  <2>5. CASE AddLabel(f)
    <3>1. at'[e] = at[e] BY <2>5 DEF AddLabel, Editing, MoveTo, EditType
    <3> QED BY <1>1, <2>5, <3>1 DEF AddLabel
  <2>6. CASE RemoveLabel(f)
    <3>1. at'[e] = at[e] BY <2>6 DEF RemoveLabel, Editing, MoveTo, EditType
    <3> QED BY <1>1, <2>6, <3>1 DEF RemoveLabel
  <2> QED BY <1>5, <2>1, <2>2, <2>3, <2>4, <2>5, <2>6 DEF EditStep
<1> QED BY <1>2, <1>3, <1>4, <1>5 DEF EditNext

LEMMA PatchesItsKeys ==
    ASSUME EditType, BodyIsFresh, NEW e \in Editors, NEW k \in Keys,
           PatchMap(e), data'[k] # data[k], edit[e].new[k] = Nothing
    PROVE  edit[e].merge /\ k \in raced[e]
<1>1. data'[k] = IF body[e][k] = Nothing THEN data[k] ELSE body[e][k]
  BY DEF PatchMap, Over
<1>2. body[e][k] # Nothing /\ body[e][k] # data[k] BY <1>1
<1>3. at[e] = "patching" BY DEF PatchMap
<1> QED BY <1>2, <1>3 DEF BodyIsFresh

(* For any number of calls and keys, update_configmap changes a key it was  *)
(* not given only with merge, and only where another writer has been faster *)
(* (configmap.py:90-102).                                                   *)
THEOREM UpdatesChangeTheirKeys == EditSpec => UpdateChangesItsKeys
<1> DEFINE IInv == EditType /\ BodyIsFresh
           A == \A e \in Editors, k \in Keys :
                   PatchMap(e) /\ data'[k] # data[k] /\ edit[e].new[k] = Nothing =>
                       edit[e].merge /\ k \in raced[e]
<1>1. EditInit => IInv
  <2>1. EditInit => BodyIsFresh BY DEF EditInit, BodyIsFresh
  <2> QED BY <2>1, EditInitType
<1>2. IInv /\ [EditNext]_editVars => IInv' BY EditNextType, StaysFresh
<1>3. IInv /\ [EditNext]_editVars => [A]_editVars BY PatchesItsKeys
<1> HIDE DEF IInv, A
<1>4. EditSpec => []IInv BY <1>1, <1>2, PTL DEF EditSpec
<1>5. EditSpec => [][A]_editVars BY <1>3, <1>4, PTL DEF EditSpec
<1> QED BY <1>5 DEF A, UpdateChangesItsKeys

-----------------------------------------------------------------------------
(* expose_prometheus_as_nodeport.                                          *)

LEMMA ExposeInitType == ExposeInit => ExposeType
<1> SUFFICES ASSUME ExposeInit PROVE ExposeType
  OBVIOUS
<1>1. twin \in Twin \cup {NoService} BY ExposureAssumption DEF ExposeInit, Twin
<1> QED BY <1>1, ExposureAssumption DEF ExposeInit, ExposeType

LEMMA ReadSourceType ==
    ASSUME ExposeType, NEW x \in Exposers, ReadSource(x)
    PROVE  ExposeType'
<1> USE DEF ReadSource, PutAt, Silent, services, ExposeType
<1>1. source \in Source OBVIOUS
<1>2. orig' \in [Exposers -> Source \cup {NoService}] BY <1>1
<1>3. place' \in [Exposers -> {"idle", "looking", "creating", "already", "failed"} \cup Answering]
  OBVIOUS
<1>4. ASSUME NEW y \in Exposers, place'[y] \in {"looking", "creating"}
      PROVE  orig'[y] \in [type : {"ClusterIP"}, selector : Selectors]
  <2>1. CASE y # x BY <1>4, <2>1
  <2>2. CASE y = x
    <3>1. orig'[y] = source /\ source.type = "ClusterIP" BY <1>4, <2>2
    <3> QED BY <1>1, <3>1 DEF Source
  <2> QED BY <2>1, <2>2
<1> QED BY <1>2, <1>3, <1>4

LEMMA LookForTwinType ==
    ASSUME ExposeType, NEW x \in Exposers, LookForTwin(x)
    PROVE  ExposeType'
<1> USE DEF LookForTwin, AnswerPort, PutAt, Silent, services, ExposeType, Answering
<1>1. CASE Reusable(x)
  <2>1. twin \in Twin BY <1>1 DEF Reusable
  <2>2. twin.port \in 0..LastPort /\ twin.selector \in Selectors BY <2>1 DEF Twin
  <2> QED BY <1>1, <2>2
<1>2. CASE ~Reusable(x) BY <1>2
<1> QED BY <1>1, <1>2

LEMMA CreateTwinType ==
    ASSUME ExposeType, NEW x \in Exposers, CreateTwin(x)
    PROVE  ExposeType'
<1> USE DEF CreateTwin, AnswerPort, PutAt, Silent, services, ExposeType, Answering
<1>1. CASE twin # NoService BY <1>1
<1>2. CASE twin = NoService
  <2>1. lastPort' \in 0..LastPort BY <1>2, ExposureAssumption
  <2>2. orig[x].selector \in Selectors OBVIOUS
  <2>3. twin' \in Twin /\ twin'.selector \in Selectors BY <1>2, <2>1, <2>2 DEF Twin
  <2> QED BY <1>2, <2>1, <2>3
<1> QED BY <1>1, <1>2

LEMMA OthersType ==
    ASSUME ExposeType, OthersChangeServices
    PROVE  ExposeType'
<1> USE DEF OthersChangeServices, ExposeType
<1>1. twin' \in Twin \cup {NoService} /\ lastPort' \in 0..LastPort
      /\ source' \in Source \cup {NoService}
  BY ExposureAssumption DEF Twin
<1> QED BY <1>1

LEMMA ExposeNextType ==
    ASSUME ExposeType, [ExposeNext]_exposeVars
    PROVE  ExposeType'
<1>1. CASE UNCHANGED exposeVars BY <1>1 DEF exposeVars, services, ExposeType
<1>2. ASSUME NEW x \in Exposers, StopExpose(x) PROVE ExposeType'
  BY <1>2 DEF StopExpose, PutAt, Silent, services, ExposeType
<1> QED BY <1>1, <1>2, OthersType, ReadSourceType, LookForTwinType, CreateTwinType
       DEF ExposeNext, ExposeStep

(* The node ports that are told or in use have been given out.              *)
PortsGivenOut ==
    /\ \A x \in Exposers : reply[x] <= lastPort
    /\ twin # NoService => twin.port <= lastPort

LEMMA ExposeNextPorts ==
    ASSUME ExposeType, PortsGivenOut, PortsLeadToPrometheus, [ExposeNext]_exposeVars
    PROVE  PortsGivenOut' /\ PortsLeadToPrometheus'
<1>0. ExposeType' BY ExposeNextType
<1> USE DEF PortsGivenOut, PortsLeadToPrometheus, ExposeType, Answering
<1>n. /\ LastPort \in Nat /\ lastPort \in Nat /\ lastPort' \in Nat
      /\ \A x \in Exposers : reply[x] \in Nat
      /\ NoService \notin Twin
      /\ twin # NoService => twin \in Twin /\ twin.port \in Nat
  BY <1>0, ExposureAssumption DEF Twin
<1>1. CASE UNCHANGED exposeVars BY <1>1 DEF exposeVars, services
<1>2. CASE OthersChangeServices
  <2>1. lastPort' >= lastPort BY <1>2 DEF OthersChangeServices
  <2>2. twin' # NoService => twin'.port <= lastPort'
    <3>1. CASE twin' = twin BY <1>n, <2>1, <3>1
    <3>2. CASE \E s \in Selectors : twin # NoService /\ twin' = [twin EXCEPT !.selector = s]
      <4>1. twin \in Twin BY <3>2, <1>n
      <4>2. twin'.port = twin.port BY <3>2, <4>1 DEF Twin
      <4> QED BY <1>n, <2>1, <3>2, <4>1, <4>2
    <3>3. CASE \E s \in Selectors : twin' = [type |-> "NodePort", selector |-> s, port |-> lastPort']
      <4>1. twin'.port = lastPort' BY <3>3
      <4> QED BY <1>n, <4>1
    <3> QED BY <1>2, <3>1, <3>2, <3>3 DEF OthersChangeServices
  <2> QED BY <1>n, <1>2, <2>1, <2>2 DEF OthersChangeServices
<1>3. ASSUME NEW x \in Exposers, StopExpose(x) PROVE PortsGivenOut' /\ PortsLeadToPrometheus'
  BY <1>3 DEF StopExpose, PutAt, Silent, services
<1>4. ASSUME NEW x \in Exposers, ReadSource(x) PROVE PortsGivenOut' /\ PortsLeadToPrometheus'
  BY <1>4 DEF ReadSource, PutAt, Silent, services
<1>5. ASSUME NEW x \in Exposers, LookForTwin(x) PROVE PortsGivenOut' /\ PortsLeadToPrometheus'
  <2>1. CASE ~Reusable(x) BY <1>5, <2>1 DEF LookForTwin, PutAt, Silent, services
  <2>2. CASE Reusable(x)
    <3>1. twin \in Twin /\ twin.selector = orig[x].selector /\ twin.port # 0
      BY <2>2 DEF Reusable
    <3>2. /\ place' = [place EXCEPT ![x] = "existing"]
          /\ reply' = [reply EXCEPT ![x] = twin.port]
          /\ aim' = [aim EXCEPT ![x] = twin.selector]
          /\ UNCHANGED <<twin, lastPort, orig>>
      BY <1>5, <2>2 DEF LookForTwin, AnswerPort, PutAt, services
    <3>3. twin.port <= lastPort BY <1>n, <3>1
    <3> QED BY <1>n, <3>1, <3>2, <3>3
  <2> QED BY <2>1, <2>2
<1>6. ASSUME NEW x \in Exposers, CreateTwin(x) PROVE PortsGivenOut' /\ PortsLeadToPrometheus'
  <2>1. CASE twin # NoService BY <1>6, <2>1 DEF CreateTwin, PutAt, Silent, services
  <2>2. CASE twin = NoService
    <3>1. /\ lastPort' = lastPort + 1 /\ orig' = orig
          /\ twin'.port = lastPort' /\ twin'.selector = orig[x].selector
      BY <1>6, <2>2 DEF CreateTwin
    <3>2. CASE AnswerPort(x, "created", lastPort', twin'.selector)
      BY <1>n, <3>1, <3>2 DEF AnswerPort, PutAt
    <3>3. CASE PutAt(x, "failed") /\ Silent
      BY <1>n, <3>1, <3>3 DEF PutAt, Silent
    <3> QED BY <1>6, <2>2, <3>2, <3>3 DEF CreateTwin
  <2> QED BY <2>1, <2>2
<1> QED BY <1>1, <1>2, <1>3, <1>4, <1>5, <1>6 DEF ExposeNext, ExposeStep

(* However many calls race, and whatever others do to the Services, a port  *)
(* that is told leads to what the Service of Prometheus selected, and two   *)
(* calls never claim to have made the same one (prometheus.py:1478-1548).   *)
THEOREM PortsLead == ExposeSpec => []PortsLeadToPrometheus
<1> DEFINE IInv == ExposeType /\ PortsGivenOut /\ PortsLeadToPrometheus
<1>1. ExposeInit => IInv
  <2> SUFFICES ASSUME ExposeInit PROVE PortsGivenOut /\ PortsLeadToPrometheus
    BY ExposeInitType
  <2> QED BY DEF ExposeInit, PortsGivenOut, PortsLeadToPrometheus, Answering
<1>2. IInv /\ [ExposeNext]_exposeVars => IInv' BY ExposeNextType, ExposeNextPorts
<1>3. IInv => PortsLeadToPrometheus OBVIOUS
<1> HIDE DEF IInv
<1> QED BY <1>1, <1>2, <1>3, PTL DEF ExposeSpec

-----------------------------------------------------------------------------
(* bootstrap_metrics_server.                                               *)

LEMMA BootInitType == BootInit => BootType
<1> SUFFICES ASSUME BootInit PROVE BootType
  OBVIOUS
<1>1. /\ metrics \in {NotThere} \cup Deployed /\ versions \in 1..LastVersion
      /\ metrics # NotThere => metrics.version <= versions
  BY BootstrapAssumption DEF BootInit, Deployed
<1> QED BY <1>1 DEF BootInit, BootType, Steps

LEMMA StoredType ==
    ASSUME BootType, NEW flag \in BOOLEAN, NEW ready \in BOOLEAN, Stored(flag, ready)
    PROVE  /\ versions' \in 1..LastVersion
           /\ metrics' \in Deployed /\ metrics'.version <= versions'
           /\ metrics' # NotThere /\ metrics'.flag = flag
<1>1. versions' \in 1..LastVersion BY BootstrapAssumption DEF Stored, BootType
<1> QED BY <1>1, BootstrapAssumption DEF Stored, Deployed

LEMMA BootStepType ==
    ASSUME BootType, NEW b \in Installers, BootStep(b)
    PROVE  BootType'
<1> USE DEF BootType, Steps, StepTo, deployment, demand
<1>1. CASE StopBootstrap(b) BY <1>1 DEF StopBootstrap
<1>2. CASE Probe(b) BY <1>2 DEF Probe
<1>3. CASE FetchManifest(b) BY <1>3 DEF FetchManifest
<1>4. CASE ApplyReads(b) BY <1>4 DEF ApplyReads
<1>5. CASE ApplyWrites(b)
  <2>1. /\ versions' \in 1..LastVersion
        /\ metrics' \in {NotThere} \cup Deployed
        /\ metrics' # NotThere => metrics'.version <= versions'
    <3>1. CASE metrics = NotThere /\ Stored(FALSE, FALSE) BY <3>1, StoredType
    <3>2. CASE metrics # NotThere /\ Stored(FALSE, metrics.ready)
      <4>1. metrics.ready \in BOOLEAN BY <3>2 DEF Deployed
      <4> QED BY <3>2, <4>1, StoredType
    <3>3. CASE UNCHANGED <<metrics, versions>> BY <3>3
    <3> QED BY <1>5, <3>1, <3>2, <3>3 DEF ApplyWrites
  <2>2. undone' \subseteq Installers BY <1>5 DEF ApplyWrites, TakesFlagAway
  <2>3. step' \in [Installers -> Steps \cup {"already", "installed", "failed"}]
    BY <1>5 DEF ApplyWrites
  <2> QED BY <1>5, <2>1, <2>2, <2>3 DEF ApplyWrites
<1>6. CASE FinishApply(b) BY <1>6 DEF FinishApply, Onwards
<1>7. CASE ReadForFlag(b) BY <1>7 DEF ReadForFlag, Onwards
<1>8. CASE PatchFlag(b)
  <2>1. /\ versions' \in 1..LastVersion
        /\ metrics' \in {NotThere} \cup Deployed
        /\ metrics' # NotThere => metrics'.version <= versions'
    <3>1. CASE metrics # NotThere /\ Stored(TRUE, metrics.ready)
      <4>1. metrics.ready \in BOOLEAN BY <3>1 DEF Deployed
      <4> QED BY <3>1, <4>1, StoredType
    <3>2. CASE UNCHANGED <<metrics, versions>> BY <3>2
    <3> QED BY <1>8, <3>1, <3>2 DEF PatchFlag
  <2>2. undone' \subseteq Installers BY <1>8 DEF PatchFlag
  <2>3. step' \in [Installers -> Steps \cup {"already", "installed", "failed"}]
    BY <1>8 DEF PatchFlag, Onwards
  <2> QED BY <1>8, <2>1, <2>2, <2>3 DEF PatchFlag
<1>9. CASE Await(b) BY <1>9 DEF Await
<1> QED BY <1>1, <1>2, <1>3, <1>4, <1>5, <1>6, <1>7, <1>8, <1>9 DEF BootStep

LEMMA OthersTouchType ==
    ASSUME BootType, OthersTouchMetrics
    PROVE  BootType'
<1>1. metrics \in Deployed /\ metrics.flag \in BOOLEAN /\ metrics.ready \in BOOLEAN
  BY DEF OthersTouchMetrics, BootType, Deployed
<1>2. /\ versions' \in 1..LastVersion
      /\ metrics' \in {NotThere} \cup Deployed
      /\ metrics' # NotThere => metrics'.version <= versions'
  <2>1. CASE Stored(metrics.flag, ~metrics.ready) BY <1>1, <2>1, StoredType
  <2>2. CASE Stored(~metrics.flag, metrics.ready) BY <1>1, <2>2, StoredType
  <2>3. CASE metrics' = NotThere /\ UNCHANGED versions BY <2>3 DEF BootType
  <2> QED BY <2>1, <2>2, <2>3 DEF OthersTouchMetrics
<1>3. undone' \subseteq Installers BY DEF OthersTouchMetrics, TakesFlagAway, BootType
<1> QED BY <1>2, <1>3 DEF OthersTouchMetrics, BootType, demand

LEMMA BootNextType ==
    ASSUME BootType, [BootNext]_bootVars
    PROVE  BootType'
<1>1. CASE UNCHANGED bootVars BY <1>1 DEF bootVars, deployment, demand, BootType
<1> QED BY <1>1, BootStepType, OthersTouchType DEF BootNext

SaysInstalled(b) == step[b] \in {"waiting", "installed"} /\ wantsFlag[b] /\ named

(* A write that takes the flag away counts for everybody.                   *)
LEMMA FlagOrUndone ==
    ASSUME NEW b \in Installers, b \in undone \/ HasFlag, TakesFlagAway
    PROVE  b \in undone' \/ HasFlag'
<1>1. CASE HasFlag /\ ~HasFlag' BY <1>1 DEF TakesFlagAway
<1>2. CASE ~(HasFlag /\ ~HasFlag') BY <1>2 DEF TakesFlagAway
<1> QED BY <1>1, <1>2

LEMMA BootNextFlag ==
    ASSUME BootType, InstalledHasTheFlag, [BootNext]_bootVars
    PROVE  InstalledHasTheFlag'
<1> SUFFICES ASSUME NEW b \in Installers, SaysInstalled(b)' PROVE b \in undone' \/ HasFlag'
  BY DEF InstalledHasTheFlag, SaysInstalled
<1>1. ASSUME SaysInstalled(b), UNCHANGED undone, UNCHANGED metrics PROVE b \in undone' \/ HasFlag'
  BY <1>1 DEF InstalledHasTheFlag, SaysInstalled, HasFlag
<1>2. CASE UNCHANGED bootVars
  BY <1>1, <1>2 DEF bootVars, deployment, demand, SaysInstalled
<1>3. CASE OthersTouchMetrics
  <2>1. SaysInstalled(b) /\ TakesFlagAway
    BY <1>3 DEF OthersTouchMetrics, demand, SaysInstalled
  <2>2. b \in undone \/ HasFlag BY <2>1 DEF InstalledHasTheFlag, SaysInstalled
  <2> QED BY <2>1, <2>2, FlagOrUndone
<1>4. ASSUME NEW c \in Installers, BootStep(c) PROVE b \in undone' \/ HasFlag'
  <2> USE DEF StepTo, BootType, demand, deployment
  <2>1. CASE StopBootstrap(c)
    <3>1. SaysInstalled(b) BY <2>1 DEF StopBootstrap, SaysInstalled
    <3> QED BY <1>1, <2>1, <3>1 DEF StopBootstrap
  <2>2. CASE Probe(c)
    <3>1. SaysInstalled(b) BY <2>2 DEF Probe, SaysInstalled
    <3> QED BY <1>1, <2>2, <3>1 DEF Probe
  <2>3. CASE FetchManifest(c)
    <3>1. SaysInstalled(b) BY <2>3 DEF FetchManifest, SaysInstalled
    <3> QED BY <1>1, <2>3, <3>1 DEF FetchManifest
  <2>4. CASE ApplyReads(c)
    <3>1. SaysInstalled(b) BY <2>4 DEF ApplyReads, SaysInstalled
    <3> QED BY <1>1, <2>4, <3>1 DEF ApplyReads
  <2>5. CASE ApplyWrites(c)
    <3>1. SaysInstalled(b) BY <2>5 DEF ApplyWrites, SaysInstalled
    <3>2. b \in undone \/ HasFlag BY <3>1 DEF InstalledHasTheFlag, SaysInstalled
    <3> QED BY <2>5, <3>2, FlagOrUndone DEF ApplyWrites
  <2>6. CASE FinishApply(c)
    <3>1. SaysInstalled(b) BY <2>6 DEF FinishApply, Onwards, SaysInstalled
    <3> QED BY <1>1, <2>6, <3>1 DEF FinishApply
  <2>7. CASE ReadForFlag(c)
    <3>1. CASE b = c
      <4>1. named /\ step'[c] # "patching" BY <2>7, <3>1 DEF ReadForFlag, SaysInstalled
      <4>2. metrics # NotThere /\ metrics.flag /\ UNCHANGED metrics
        BY <2>7, <4>1 DEF ReadForFlag
      <4> QED BY <4>2 DEF HasFlag
    <3>2. CASE b # c
      <4>1. SaysInstalled(b) BY <2>7, <3>2 DEF ReadForFlag, Onwards, SaysInstalled
      <4>2. b \in undone \/ HasFlag BY <4>1 DEF InstalledHasTheFlag, SaysInstalled
      <4>3. UNCHANGED metrics /\ undone \ {c} \subseteq undone' BY <2>7 DEF ReadForFlag
      <4> QED BY <3>2, <4>2, <4>3 DEF HasFlag
    <3> QED BY <3>1, <3>2
  <2>8. CASE PatchFlag(c)
    <3>1. CASE metrics # NotThere /\ Stored(TRUE, metrics.ready)
      <4>1. metrics.ready \in BOOLEAN BY <3>1 DEF Deployed
      <4> QED BY <3>1, <4>1, StoredType DEF HasFlag
    <3>2. CASE StepTo(c, "failed") /\ UNCHANGED <<deployment, undone>>
      <4>1. SaysInstalled(b) BY <2>8, <3>2 DEF PatchFlag, SaysInstalled
      <4> QED BY <1>1, <3>2, <4>1
    <3> QED BY <2>8, <3>1, <3>2 DEF PatchFlag
  <2>9. CASE Await(c)
    <3>1. SaysInstalled(b) BY <2>9 DEF Await, SaysInstalled
    <3> QED BY <1>1, <2>9, <3>1 DEF Await
  <2> QED BY <1>4, <2>1, <2>2, <2>3, <2>4, <2>5, <2>6, <2>7, <2>8, <2>9 DEF BootStep
<1> QED BY <1>2, <1>3, <1>4 DEF BootNext

(* However many bootstraps race with each other and with the Deployment     *)
(* controller, one that says `Installed` has set the flag it was asked for, *)
(* and only somebody else can have taken it away (metrics.py:597-708).      *)
THEOREM InstalledMeansFlag == BootSpec => []InstalledHasTheFlag
<1> DEFINE IInv == BootType /\ InstalledHasTheFlag
<1>1. BootInit => IInv
  <2>1. BootInit => InstalledHasTheFlag BY DEF BootInit, InstalledHasTheFlag
  <2> QED BY <2>1, BootInitType
<1>2. IInv /\ [BootNext]_bootVars => IInv' BY BootNextType, BootNextFlag
<1>3. IInv => InstalledHasTheFlag OBVIOUS
<1> HIDE DEF IInv
<1> QED BY <1>1, <1>2, <1>3, PTL DEF BootSpec

-----------------------------------------------------------------------------
(* Waiting for a rollout.                                                  *)

WorkRecord == [gen : Nat, template : Nat, observed : Nat, rolled : Nat,
               condition : {"none", "progressing", "complete", "stalled"}]

(* A controller reports on no spec that is not there yet, it reports on     *)
(* Deployments only, and once it has seen the present spec it calls a       *)
(* rollout complete only when it is.                                        *)
ReportsInv ==
    \A w \in Workloads : work[w] # Gone =>
        /\ work[w].observed <= work[w].gen
        /\ w \notin Deployments => work[w].condition = "none"
        /\ work[w].observed = work[w].gen /\ work[w].condition = "complete" =>
               work[w].rolled = work[w].template

(* What the deadline of a task is counted from.                             *)
LEMMA TimeoutType ==
    ASSUME NEW t \in Tasks, "timeout" \in DOMAIN t
    PROVE  t.timeout \in Nat
<1>1. t \in AllTasks
  BY RolloutAssumption
<1>2. t \notin [op : {"scale", "template"}, names : Seq(Workloads)]
      /\ t \notin [op : {"delete", "undo"}, name : Workloads]
  OBVIOUS
<1> QED BY <1>1, <1>2 DEF AllTasks, Timeouts

(* A task is told by what it is to do.                                      *)
LEMMA TaskKinds ==
    ASSUME NEW t \in AllTasks \cup {NoTask}
    PROVE  /\ t.op \in {"scale", "template"} =>
                 t \in [op : {"scale", "template"}, names : Seq(Workloads)]
           /\ t.op = "status" => t.name \in Workloads
<1>1. CASE t = NoTask
  BY <1>1 DEF NoTask
<1>2. CASE t \in [op : {"scale", "template"}, names : Seq(Workloads)]
  BY <1>2
<1>3. CASE t \in [op : {"delete", "undo"}, name : Workloads]
  BY <1>3
<1>4. CASE t \in [op : {"status"}, name : Workloads, watch : BOOLEAN, timeout : Timeouts]
  BY <1>4
<1>5. CASE t \in [op : {"wait_condition"}, name : Workloads, timeout : Timeouts]
  BY <1>5
<1>6. CASE t \in [op : {"wait_jsonpath"}, name : Workloads, value : Nat, timeout : Timeouts]
  BY <1>6
<1> QED BY <1>1, <1>2, <1>3, <1>4, <1>5, <1>6 DEF AllTasks

LEMMA EndType ==
    ASSUME WorkType, NEW c \in Callers, NEW o \in Ended, End(c, o)
    PROVE  /\ stage' \in [Callers -> {"idle", "asked"} \cup Ended]
           /\ task' \in [Callers -> AllTasks \cup {NoTask}]
           /\ done' \in [Callers -> Nat]
           /\ deadline' \in [Callers -> Nat] /\ wake' \in [Callers -> Nat]
BY DEF WorkType, End

LEMMA AskTaskType ==
    ASSUME WorkType, NEW c \in Callers, AskTask(c)
    PROVE  WorkType'
<1>1. CASE End(c, "failed")
  BY <1>1, EndType DEF AskTask, WorkType, Ended
<1>2. ASSUME NEW t \in Tasks, NEW limit,
             limit = now + (IF "timeout" \in DOMAIN t THEN t.timeout ELSE 0),
             stage' = [stage EXCEPT ![c] = "asked"], task' = [task EXCEPT ![c] = t],
             deadline' = [deadline EXCEPT ![c] = limit], wake' = [wake EXCEPT ![c] = now],
             UNCHANGED <<done, now, work>>
      PROVE  WorkType'
  <2>1. now \in Nat /\ limit \in Nat
    BY <1>2, TimeoutType, RolloutAssumption DEF WorkType
  <2>2. t \in AllTasks
    BY RolloutAssumption
  <2> QED BY <1>2, <2>1, <2>2 DEF WorkType
<1> QED BY <1>1, <1>2 DEF AskTask

LEMMA TouchType ==
    ASSUME WorkType, NEW w \in Workloads, work[w] # Gone
    PROVE  /\ work[w] \in WorkRecord
           /\ Scaled(work[w]) \in WorkRecord /\ Templated(work[w]) \in WorkRecord
           /\ Scaled(work[w]) # Gone /\ Templated(work[w]) # Gone
<1>1. work[w] \in WorkRecord
  BY DEF WorkType, WorkRecord
<1>2. ASSUME NEW r \in WorkRecord
      PROVE  Scaled(r) \in WorkRecord /\ Templated(r) \in WorkRecord
  <2>1. r.gen + 1 \in Nat
    BY DEF WorkRecord
  <2>2. Scaled(r) = [r EXCEPT !.gen = r.gen + 1]
    BY DEF Scaled
  <2>3. Templated(r) = [[r EXCEPT !.gen = r.gen + 1] EXCEPT !.template = r.gen + 1]
    BY DEF Templated, WorkRecord
  <2>4. Scaled(r) \in WorkRecord
    BY <2>1, <2>2 DEF WorkRecord
  <2> QED BY <2>1, <2>2, <2>3, <2>4 DEF WorkRecord
<1> QED BY <1>1, <1>2, RolloutAssumption DEF WorkRecord

(* The next name of a list is one of a workload.                            *)
LEMMA NextNameType ==
    ASSUME WorkType, NEW c \in Callers, Patching(c), done[c] < Len(task[c].names)
    PROVE  NextName(c) \in Workloads
<1>1. task[c] \in [op : {"scale", "template"}, names : Seq(Workloads)]
  BY TaskKinds DEF WorkType, Patching, Op
<1>2. task[c].names \in Seq(Workloads) /\ done[c] \in Nat
  BY <1>1 DEF WorkType
<1>3. done[c] + 1 \in 1..Len(task[c].names)
  BY <1>2
<1> QED BY <1>2, <1>3, ElementOfSeq DEF NextName

(* What a patch makes of a workload.                                        *)
LEMMA PatchNextWork ==
    ASSUME WorkType, NEW c \in Callers, PatchNext(c)
    PROVE  \/ work' = work
           \/ \E w \in Workloads : \E r \in {Scaled(work[w]), Templated(work[w])} :
                 work[w] # Gone /\ work' = [work EXCEPT ![w] = r]
<1>1. NextName(c) \in Workloads /\ work[NextName(c)] # Gone
  BY NextNameType DEF PatchNext
<1>2. \/ work' = work
      \/ work' = [work EXCEPT ![NextName(c)] = Scaled(work[NextName(c)])]
      \/ work' = [work EXCEPT ![NextName(c)] = Templated(work[NextName(c)])]
  BY DEF PatchNext
<1> QED BY <1>1, <1>2

LEMMA ObserveWork ==
    ASSUME WorkType, NEW w \in Workloads, Observe(w)
    PROVE  \E r \in WorkRecord :
              /\ work' = [work EXCEPT ![w] = r]
              /\ r.observed = work[w].gen /\ r.gen = work[w].gen
              /\ r.template = work[w].template /\ r.rolled = work[w].rolled
              /\ r.condition = IF w \in Deployments /\ work[w].rolled # work[w].template
                               THEN "progressing" ELSE work[w].condition
<1> DEFINE p == IF w \in Deployments /\ work[w].rolled # work[w].template
                THEN "progressing" ELSE work[w].condition
           r == [work[w] EXCEPT !.observed = work[w].gen, !.condition = p]
<1>1. work[w] \in WorkRecord
  BY TouchType DEF Observe
<1>2. r \in WorkRecord /\ r.observed = work[w].gen /\ r.gen = work[w].gen
      /\ r.template = work[w].template /\ r.rolled = work[w].rolled /\ r.condition = p
  BY <1>1 DEF WorkRecord
<1>3. work' = [work EXCEPT ![w] = r]
  BY DEF Observe, WorkType
<1> QED BY <1>2, <1>3

LEMMA RollOutWork ==
    ASSUME WorkType, NEW w \in Workloads, RollOut(w)
    PROVE  \E r \in WorkRecord :
              /\ work' = [work EXCEPT ![w] = r]
              /\ r.observed = work[w].observed /\ r.gen = work[w].gen
              /\ r.template = work[w].template
              /\ \/ r.rolled = r.template
                    /\ r.condition = IF w \in Deployments THEN "complete" ELSE work[w].condition
                 \/ w \in Deployments /\ r.condition = "stalled"
<1>1. work[w] \in WorkRecord
  BY TouchType DEF RollOut
<1> DEFINE p == IF w \in Deployments THEN "complete" ELSE work[w].condition
           d == [work[w] EXCEPT !.rolled = work[w].template, !.condition = p]
           e == [work[w] EXCEPT !.condition = "stalled"]
<1>2. CASE work' = [work EXCEPT ![w].rolled = work[w].template,
                                ![w].condition = IF w \in Deployments THEN "complete" ELSE @]
  <2>1. work' = [work EXCEPT ![w] = d]
    BY <1>2 DEF WorkType
  <2>2. d \in WorkRecord /\ d.observed = work[w].observed /\ d.gen = work[w].gen
        /\ d.template = work[w].template /\ d.rolled = d.template /\ d.condition = p
    BY <1>1 DEF WorkRecord
  <2> QED BY <2>1, <2>2
<1>3. CASE w \in Deployments /\ work' = [work EXCEPT ![w].condition = "stalled"]
  <2>1. work' = [work EXCEPT ![w] = e]
    BY <1>3 DEF WorkType
  <2>2. e \in WorkRecord /\ e.observed = work[w].observed /\ e.gen = work[w].gen
        /\ e.template = work[w].template /\ e.condition = "stalled"
    BY <1>1 DEF WorkRecord
  <2> QED BY <1>3, <2>1, <2>2
<1> QED BY <1>2, <1>3 DEF RollOut

LEMMA WorkStepType ==
    ASSUME WorkType, NEW c \in Callers, WorkStep(c)
    PROVE  WorkType'
<1>1. CASE PatchNext(c)
  <2>1. work' \in [Workloads -> {Gone} \cup WorkRecord]
    BY <1>1, PatchNextWork, TouchType DEF WorkType, WorkRecord
  <2>2. CASE done' = [done EXCEPT ![c] = @ + 1] /\ UNCHANGED <<stage, task, deadline, wake>>
    <3>1. done' \in [Callers -> Nat]
      BY <2>2 DEF WorkType
    <3>2. UNCHANGED now
      BY <1>1 DEF PatchNext
    <3> QED BY <2>1, <2>2, <3>1, <3>2 DEF WorkType, WorkRecord
  <2>3. CASE End(c, "failed")
    BY <1>1, <2>1, <2>3, EndType DEF PatchNext, WorkType, WorkRecord, Ended
  <2> QED BY <1>1, <2>2, <2>3 DEF PatchNext
<1>2. CASE PatchMissing(c) \/ PatchedAll(c) \/ RolloutUndo(c)
  BY <1>2, EndType DEF PatchMissing, PatchedAll, RolloutUndo, WorkType, Ended
<1>3. CASE Delete(c)
  BY <1>3, EndType DEF Delete, WorkType, Ended
<1>4. CASE Poll(c)
  <2>1. \/ \E o \in Ended : End(c, o)
        \/ Sleep(c)
    BY <1>4 DEF Poll, Due, Look, Watching, Waiting, Op, Ended
  <2>2. CASE Sleep(c)
    BY <1>4, <2>2, RolloutAssumption
       DEF Poll, Sleep, WorkType, Waiting, WaitInterval, RolloutInterval
  <2> QED BY <1>4, <2>1, <2>2, EndType DEF Poll, WorkType
<1> QED BY <1>1, <1>2, <1>3, <1>4 DEF WorkStep

LEMMA WorkInitInv == WorkInit => WorkType /\ ReportsInv
<1> SUFFICES ASSUME WorkInit PROVE WorkType /\ ReportsInv
  OBVIOUS
<1>1. \A w \in Workloads : work[w] = IF w \in New THEN Fresh ELSE Settled(w)
  BY DEF WorkInit
<1>2. Fresh \in WorkRecord /\ \A w \in Workloads : Settled(w) \in WorkRecord
  BY DEF Fresh, Settled, WorkRecord
<1>3. WorkType
  BY <1>2, RolloutAssumption DEF WorkInit, WorkType, WorkRecord
<1>4. ReportsInv
  <2>1. /\ Fresh.observed = 0 /\ Fresh.gen = 1 /\ Fresh.condition = "none"
    BY DEF Fresh
  <2>2. ASSUME NEW w \in Workloads
        PROVE  /\ Settled(w).observed = 1 /\ Settled(w).gen = 1
               /\ Settled(w).rolled = 1 /\ Settled(w).template = 1
               /\ w \notin Deployments => Settled(w).condition = "none"
    BY DEF Settled
  <2> QED BY <1>1, <2>1, <2>2 DEF ReportsInv
<1> QED BY <1>3, <1>4

LEMMA WorkNextType ==
    ASSUME WorkType, [WorkNext]_workVars
    PROVE  WorkType'
<1>1. CASE UNCHANGED workVars
  BY <1>1 DEF workVars, call, WorkType
<1>2. CASE Tick
  BY <1>2, RolloutAssumption DEF Tick, call, WorkType
<1>3. CASE Controllers
  <2>1. work' \in [Workloads -> {Gone} \cup WorkRecord]
    BY <1>3, ObserveWork, RollOutWork DEF Controllers, WorkType, WorkRecord
  <2> QED BY <1>3, <2>1 DEF Controllers, Observe, RollOut, call, WorkType, WorkRecord
<1>4. ASSUME NEW c \in Callers, RequestFails(c) PROVE WorkType'
  BY <1>4, EndType DEF RequestFails, WorkType, Ended
<1> QED BY <1>1, <1>2, <1>3, <1>4, AskTaskType, WorkStepType DEF WorkNext

LEMMA WorkNextReports ==
    ASSUME WorkType, ReportsInv, [WorkNext]_workVars
    PROVE  ReportsInv'
<1>1. CASE UNCHANGED work
  BY <1>1 DEF ReportsInv
<1>2. ASSUME NEW c \in Callers, PatchNext(c) PROVE ReportsInv'
  <2>1. CASE work' = work
    BY <1>1, <2>1
  <2>2. ASSUME NEW w \in Workloads, NEW r \in {Scaled(work[w]), Templated(work[w])},
               work[w] # Gone, work' = [work EXCEPT ![w] = r]
        PROVE  ReportsInv'
    <3>1. work[w] \in WorkRecord
      BY <2>2, TouchType
    <3>2. r.gen = work[w].gen + 1 /\ r.observed = work[w].observed
          /\ r.condition = work[w].condition
      BY <2>2, <3>1 DEF Scaled, Templated, WorkRecord
    <3>3. work[w].gen \in Nat /\ work[w].observed \in Nat
      BY <3>1 DEF WorkRecord
    <3>4. \A v \in Workloads : work'[v] = IF v = w THEN r ELSE work[v]
      BY <2>2 DEF WorkType
    <3> QED BY <2>2, <3>2, <3>3, <3>4 DEF ReportsInv
  <2> QED BY <1>2, <2>1, <2>2, PatchNextWork
<1>3. ASSUME NEW c \in Callers, Delete(c) PROVE ReportsInv'
  <2>1. \A v \in Workloads : work'[v] = Gone \/ work'[v] = work[v]
    BY <1>3 DEF Delete, WorkType
  <2> QED BY <2>1 DEF ReportsInv
<1>4. ASSUME NEW w \in Workloads, Observe(w) PROVE ReportsInv'
  <2>1. PICK r \in WorkRecord :
              /\ work' = [work EXCEPT ![w] = r]
              /\ r.observed = work[w].gen /\ r.gen = work[w].gen
              /\ r.template = work[w].template /\ r.rolled = work[w].rolled
              /\ r.condition = IF w \in Deployments /\ work[w].rolled # work[w].template
                               THEN "progressing" ELSE work[w].condition
    BY <1>4, ObserveWork
  <2>2. work[w] # Gone /\ r.gen \in Nat
    BY <1>4 DEF Observe, WorkRecord
  <2>3. \A v \in Workloads : work'[v] = IF v = w THEN r ELSE work[v]
    BY <2>1 DEF WorkType
  <2> QED BY <2>1, <2>2, <2>3 DEF ReportsInv
<1>5. ASSUME NEW w \in Workloads, RollOut(w) PROVE ReportsInv'
  <2>1. PICK r \in WorkRecord :
              /\ work' = [work EXCEPT ![w] = r]
              /\ r.observed = work[w].observed /\ r.gen = work[w].gen
              /\ r.template = work[w].template
              /\ \/ r.rolled = r.template
                    /\ r.condition = IF w \in Deployments THEN "complete" ELSE work[w].condition
                 \/ w \in Deployments /\ r.condition = "stalled"
    BY <1>5, RollOutWork
  <2>2. work[w] # Gone
    BY <1>5 DEF RollOut
  <2>3. \A v \in Workloads : work'[v] = IF v = w THEN r ELSE work[v]
    BY <2>1 DEF WorkType
  <2> QED BY <2>1, <2>2, <2>3 DEF ReportsInv
<1> QED BY <1>1, <1>2, <1>3, <1>4, <1>5
        DEF WorkNext, workVars, Tick, Controllers, AskTask, RequestFails, WorkStep,
            PatchMissing, PatchedAll, RolloutUndo, Poll

(* A poll that ends a call, looked at from the state it was made in.        *)
LEMMA PollTells ==
    ASSUME WorkType, ReportsInv, NEW c \in Callers, Poll(c)
    PROVE  LET w == task[c].name IN
           /\ stage'[c] = "answered" /\ Op(c) = "status" /\ work[w] # Gone =>
                 (StatusOnce(work[w]) = "complete" => work[w].rolled = work[w].template)
           /\ stage'[c] = "timeout" => now > deadline[c] /\ work[w] # Gone
<1> DEFINE w == task[c].name
           seen == Look(task[c], work[w])
<1>1. ASSUME Op(c) = "status", work[w] # Gone, StatusOnce(work[w]) = "complete"
      PROVE  work[w].rolled = work[w].template
  <2>1. w \in Workloads
    BY <1>1, TaskKinds DEF WorkType, Op
  <2> QED BY <1>1, <2>1 DEF StatusOnce, ReportsInv
<1>2. ASSUME stage'[c] = "timeout"
      PROVE  now > deadline[c] /\ work[w] # Gone
  <2>1. seen \in {"answered", "failed", "again"}
    BY DEF Poll, Due, Look, Watching, Waiting, Op
  <2>2. stage[c] = "asked" /\ \A o : End(c, o) => stage'[c] = o
    BY DEF Poll, Due, End, WorkType
  <2>3. seen = "again" /\ now > deadline[c]
    BY <1>2, <2>1, <2>2 DEF Poll, Sleep
  <2>4. work[w] # Gone
    BY <2>3 DEF Look, StatusOnce, IsDone
  <2> QED BY <2>3, <2>4
<1> QED BY <1>1, <1>2

LEMMA PollsStep ==
    ASSUME WorkType, ReportsInv
    PROVE  [\A c \in Callers : LET w == task[c].name IN
              /\ Poll(c) /\ stage'[c] = "answered" /\ Op(c) = "status" /\ work[w] # Gone =>
                     (StatusOnce(work[w]) = "complete" => work[w].rolled = work[w].template)
              /\ Poll(c) /\ stage'[c] = "timeout" =>
                     now > deadline[c] /\ work[w] # Gone]_workVars
BY PollTells

(* The safety part of WorkSpec.                                             *)
WorkSteps == WorkInit /\ [][WorkNext]_workVars

LEMMA WorkInvariant == WorkSteps => [](WorkType /\ ReportsInv)
BY WorkInitInv, WorkNextType, WorkNextReports, PTL DEF WorkSteps

(* rollout_status says complete only of the template the workload has, and  *)
(* who polls gives up only after the deadline, however controllers, patches *)
(* and polls interleave (rollout.py:69-105, wait_tool.py:89-116).           *)
THEOREM PollsAreTrue == WorkSteps => PollsTellTheTruth
<1> DEFINE A == \A c \in Callers : LET w == task[c].name IN
                  /\ Poll(c) /\ stage'[c] = "answered" /\ Op(c) = "status" /\ work[w] # Gone =>
                         (StatusOnce(work[w]) = "complete" => work[w].rolled = work[w].template)
                  /\ Poll(c) /\ stage'[c] = "timeout" =>
                         now > deadline[c] /\ work[w] # Gone
<1>1. WorkType /\ ReportsInv => [A]_workVars
  BY PollsStep
<1> HIDE DEF A
<1>2. WorkSteps => [][A]_workVars
  BY <1>1, WorkInvariant, PTL
<1> QED BY <1>2 DEF A, PollsTellTheTruth

(* The safety half of `every call ends`: a call that polls looks once more  *)
(* within an interval after its deadline, and time reaches that look: the   *)
(* bound on it cuts no polling off.                                         *)
LastLookInTime ==
    \A c \in Callers : stage[c] = "asked" /\ Watching(c) =>
        /\ wake[c] <= deadline[c] + RolloutInterval
        /\ deadline[c] + RolloutInterval <= Horizon

LEMMA WatchersHaveTimeouts ==
    ASSUME NEW t \in AllTasks, t.op \in {"status", "wait_condition", "wait_jsonpath"}
    PROVE  "timeout" \in DOMAIN t
<1>1. t \notin [op : {"scale", "template"}, names : Seq(Workloads)]
  OBVIOUS
<1>2. t \notin [op : {"delete", "undo"}, name : Workloads]
  OBVIOUS
<1> QED BY <1>1, <1>2 DEF AllTasks

LEMMA WorkNextLooks ==
    ASSUME WorkType, LastLookInTime, [WorkNext]_workVars
    PROVE  LastLookInTime'
<1>1. CASE UNCHANGED call
  BY <1>1 DEF LastLookInTime, call, Watching, Waiting, Op
<1>2. ASSUME NEW c \in Callers, NEW o \in Ended, End(c, o) PROVE LastLookInTime'
  <2>1. /\ stage'[c] = o
        /\ \A b \in Callers \ {c} : /\ stage'[b] = stage[b] /\ task'[b] = task[b]
                                   /\ deadline'[b] = deadline[b] /\ wake'[b] = wake[b]
    BY <1>2 DEF End, WorkType
  <2> QED BY <2>1 DEF LastLookInTime, Watching, Waiting, Op, Ended
<1>3. ASSUME NEW c \in Callers, AskTask(c) PROVE LastLookInTime'
  <2>1. CASE End(c, "failed")
    BY <1>2, <2>1 DEF Ended
  <2>2. ASSUME NEW t \in Tasks, NEW limit,
               limit = now + (IF "timeout" \in DOMAIN t THEN t.timeout ELSE 0),
               limit + RolloutInterval <= Horizon \/ "timeout" \notin DOMAIN t,
               stage' = [stage EXCEPT ![c] = "asked"], task' = [task EXCEPT ![c] = t],
               deadline' = [deadline EXCEPT ![c] = limit], wake' = [wake EXCEPT ![c] = now]
        PROVE  LastLookInTime'
    <3>1. \A b \in Callers \ {c} : /\ stage'[b] = stage[b] /\ task'[b] = task[b]
                                  /\ deadline'[b] = deadline[b] /\ wake'[b] = wake[b]
      BY <2>2 DEF WorkType
    <3>2. task'[c] = t /\ deadline'[c] = limit /\ wake'[c] = now
      BY <2>2 DEF WorkType
    <3>3. Watching(c)' => "timeout" \in DOMAIN t
      BY <3>2, RolloutAssumption, WatchersHaveTimeouts DEF Watching, Waiting, Op
    <3>4. "timeout" \in DOMAIN t => wake'[c] <= deadline'[c] + RolloutInterval
                                   /\ deadline'[c] + RolloutInterval <= Horizon
      BY <2>2, <3>2, TimeoutType, RolloutAssumption DEF WorkType, RolloutInterval
    <3> QED BY <3>1, <3>3, <3>4 DEF LastLookInTime, Watching, Waiting, Op
  <2> QED BY <1>3, <2>1, <2>2 DEF AskTask
<1>4. ASSUME NEW c \in Callers, PatchNext(c) PROVE LastLookInTime'
  BY <1>2, <1>4 DEF PatchNext, LastLookInTime, Watching, Waiting, Op, Ended
<1>5. ASSUME NEW c \in Callers, Poll(c) PROVE LastLookInTime'
  <2>1. \/ \E o \in Ended : End(c, o)
        \/ Sleep(c) /\ ~(now > deadline[c])
    BY <1>5 DEF Poll, Due, Look, Watching, Waiting, Op, Ended
  <2>2. CASE Sleep(c) /\ ~(now > deadline[c])
    <3>1. now \in Int /\ deadline[c] \in Int
      BY RolloutAssumption DEF WorkType
    <3>2. wake'[c] <= deadline'[c] + RolloutInterval
      BY <2>2, <3>1 DEF Sleep, WorkType, WaitInterval, RolloutInterval
    <3>3. \A b \in Callers \ {c} : wake'[b] = wake[b]
      BY <2>2 DEF Sleep, WorkType
    <3> QED BY <2>2, <3>2, <3>3 DEF Sleep, LastLookInTime, Watching, Waiting, Op
  <2> QED BY <1>2, <2>1, <2>2
<1>6. ASSUME NEW c \in Callers, PatchMissing(c) \/ PatchedAll(c) \/ RolloutUndo(c) \/ Delete(c)
                               \/ RequestFails(c)
      PROVE  LastLookInTime'
  <2>1. \E o \in Ended : End(c, o)
    BY <1>6 DEF PatchMissing, PatchedAll, RolloutUndo, Delete, RequestFails, Ended
  <2> QED BY <1>2, <2>1
<1>7. CASE Tick \/ Controllers
  BY <1>1, <1>7 DEF Tick, Controllers, Observe, RollOut
<1> QED BY <1>1, <1>3, <1>4, <1>5, <1>6, <1>7 DEF WorkNext, WorkStep, workVars

(* Who polls never sleeps past the interval after its deadline, whatever    *)
(* the controllers do and however often the condition comes and goes        *)
(* (rollout.py:69-80, wait_tool.py:89-116).                                 *)
THEOREM LooksAreInTime == WorkSteps => []LastLookInTime
<1>1. WorkInit => LastLookInTime
  BY DEF WorkInit, LastLookInTime
<1> QED BY <1>1, WorkInvariant, WorkNextLooks, PTL DEF WorkSteps

-----------------------------------------------------------------------------
(* notify.                                                                 *)

Rows == Seq([hook : HookIds, sent : BOOLEAN])
Reported(n) == {rows[n][i].hook : i \in DOMAIN rows[n]}

(* What the thread of a webhook has done, told by where it is.              *)
ThreadInv ==
    \A n \in Notices, h \in HookIds :
        /\ phase[n] = "idle" => thread[n][h] = "off"
        /\ thread[n][h] # "off" => h \in Chosen(message[n])
        /\ thread[n][h] \in {"building", "posting", "sent"} => ~TooBig(n, h)
        /\ thread[n][h] = "sent" => h \in reached[n]
        /\ thread[n][h] \in {"off", "start", "building", "posting"} => tries[n][h] < MaxTries

(* A message is only where it was meant to go, and the rows of a call are   *)
(* of the first of the webhooks it chose, in their order.                   *)
RowsInv ==
    \A n \in Notices :
        /\ phase[n] = "idle" => reached[n] = {} /\ rows[n] = <<>>
        /\ reached[n] \subseteq {h \in Chosen(message[n]) : ~TooBig(n, h)}
        /\ \A i \in DOMAIN rows[n] : /\ rows[n][i].hook \in Chosen(message[n])
                                     /\ rows[n][i].sent => rows[n][i].hook \in reached[n]
                                     /\ \A g \in Left(n) : rows[n][i].hook < g
        /\ \A i, j \in DOMAIN rows[n] : i < j => rows[n][i].hook < rows[n][j].hook
        /\ phase[n] = "answered" => Left(n) = {}

NotifyInv == NotifyType /\ ThreadInv /\ RowsInv

LEMMA HookIdsAreNumbers == HookIds \subseteq Nat \ {0} /\ \A m : Chosen(m) \subseteq HookIds
BY NotifierAssumption DEF HookIds, Chosen

LEMMA NotifyInitInv == NotifyInit => NotifyInv
<1> SUFFICES ASSUME NotifyInit PROVE NotifyInv
  OBVIOUS
<1>1. NotifyType
  <2>1. tries \in [Notices -> [HookIds -> 0..MaxTries]]
    BY NotifierAssumption DEF NotifyInit
  <2>2. rows \in [Notices -> Seq([hook : HookIds, sent : BOOLEAN])]
    BY DEF NotifyInit
  <2>3. /\ thread \in [Notices -> [HookIds -> {"off", "start", "building", "posting",
                                               "sent", "refused"}]]
        /\ reached \in [Notices -> SUBSET HookIds]
        /\ message \in [Notices -> Messages \cup {None}]
        /\ phase \in [Notices -> {"idle", "sending", "answered"} \cup Refusals]
    BY DEF NotifyInit
  <2> QED BY <2>1, <2>2, <2>3 DEF NotifyInit, NotifyType
<1>2. ThreadInv
  BY NotifierAssumption DEF NotifyInit, ThreadInv
<1>3. RowsInv
  BY DEF NotifyInit, RowsInv
<1> QED BY <1>1, <1>2, <1>3 DEF NotifyInv

(* One thread moves.                                                        *)
LEMMA ThreadMove ==
    ASSUME NotifyType, NEW n \in Notices, NEW h \in HookIds, NEW spot, Threads(n, h, spot)
    PROVE  /\ \A m \in Notices, g \in HookIds :
                 thread'[m][g] = IF m = n /\ g = h THEN spot ELSE thread[m][g]
           /\ spot \in {"off", "start", "building", "posting", "sent", "refused"} =>
                 thread' \in [Notices -> [HookIds -> {"off", "start", "building", "posting",
                                                      "sent", "refused"}]]
BY DEF NotifyType, Threads

(* What a call has asked for and answered stays, as long as its message     *)
(* and rows do, while the message spreads among those it was meant for.     *)
LEMMA RowsKept ==
    ASSUME RowsInv, UNCHANGED <<phase, message, rows>>,
           \A n \in Notices :
              /\ reached[n] \subseteq reached'[n]
              /\ reached'[n] \subseteq reached[n] \cup {h \in Chosen(message[n]) : ~TooBig(n, h)}
              /\ phase[n] = "idle" => reached'[n] = reached[n]
    PROVE  RowsInv'
<1>1. \A n \in Notices : Left(n)' = Left(n)
  BY DEF Left
<1>2. \A n \in Notices : \A h : TooBig(n, h)' = TooBig(n, h)
  BY DEF TooBig
<1> QED BY <1>1, <1>2 DEF RowsInv

LEMMA StartNotifyInv ==
    ASSUME NotifyInv, NEW n \in Notices, Notify(n)
    PROVE  NotifyInv'
<1>1. PICK m \in Messages :
          /\ message' = [message EXCEPT ![n] = m]
          /\ phase' = [phase EXCEPT ![n] = Refusal(m)]
          /\ thread' = [thread EXCEPT ![n] = [h \in HookIds |->
                            IF Refusal(m) = "sending" /\ h \in Chosen(m) THEN "start" ELSE "off"]]
  BY DEF Notify, Enter
<1>2. /\ phase[n] = "idle" /\ reached[n] = {} /\ rows[n] = <<>>
      /\ UNCHANGED <<session, sessions, tries, reached, rows>>
      /\ \A h \in HookIds : thread[n][h] = "off" /\ tries[n][h] < MaxTries
  BY DEF Notify, NotifyInv, ThreadInv, RowsInv
<1>3. Refusal(m) \in {"sending"} \cup Refusals
  BY DEF Refusal, Refusals
<1>4. NotifyType'
  BY <1>1, <1>2, <1>3 DEF NotifyInv, NotifyType
<1>5. /\ \A u \in Notices : u # n => message'[u] = message[u] /\ phase'[u] = phase[u]
                                     /\ thread'[u] = thread[u]
      /\ message'[n] = m /\ phase'[n] = Refusal(m)
      /\ \A h \in HookIds : thread'[n][h] \in {"off", "start"}
                            /\ (thread'[n][h] = "start" => h \in Chosen(m))
  BY <1>1 DEF NotifyInv, NotifyType
<1>6. ThreadInv'
  <2> SUFFICES ASSUME NEW u \in Notices, NEW h \in HookIds
               PROVE  /\ phase'[u] = "idle" => thread'[u][h] = "off"
                      /\ thread'[u][h] # "off" => h \in Chosen(message'[u])
                      /\ thread'[u][h] \in {"building", "posting", "sent"} => ~TooBig(u, h)'
                      /\ thread'[u][h] = "sent" => h \in reached'[u]
                      /\ thread'[u][h] \in {"off", "start", "building", "posting"} =>
                            tries'[u][h] < MaxTries
    BY DEF ThreadInv
  <2>1. CASE u = n
    BY <1>2, <1>3, <1>5, <2>1 DEF Refusals
  <2>2. CASE u # n
    <3>1. TooBig(u, h)' = TooBig(u, h)
      BY <1>5, <2>2 DEF TooBig
    <3> QED BY <1>2, <1>5, <2>2, <3>1 DEF NotifyInv, ThreadInv
  <2> QED BY <2>1, <2>2
<1>7. RowsInv'
  <2>1. ASSUME NEW u \in Notices, u # n
        PROVE  Left(u)' = Left(u) /\ \A h : TooBig(u, h)' = TooBig(u, h)
    BY <1>2, <1>5, <2>1 DEF Left, TooBig
  <2>2. phase'[n] \notin {"idle", "answered"}
    BY <1>3, <1>5 DEF Refusals
  <2> QED BY <1>2, <1>5, <2>1, <2>2 DEF NotifyInv, RowsInv
<1> QED BY <1>4, <1>6, <1>7 DEF NotifyInv

LEMMA StartPostInv ==
    ASSUME NotifyInv, NEW n \in Notices, NEW h \in HookIds, StartPost(n, h) \/ BuildSession(n, h)
    PROVE  NotifyInv'
<1>1. PICK spot \in {"building", "posting", "refused"} :
          /\ Threads(n, h, spot)
          /\ spot # "refused" => ~TooBig(n, h)
  BY DEF StartPost, BuildSession, NotifyInv, ThreadInv
<1>2. /\ UNCHANGED <<phase, message, tries, reached, rows>>
      /\ thread[n][h] \in {"start", "building"}
      /\ session' \in BOOLEAN /\ sessions' \in Nat
  <2>1. session \in BOOLEAN /\ sessions \in Nat
    BY DEF NotifyInv, NotifyType
  <2>2. CASE StartPost(n, h)
    BY <2>1, <2>2 DEF StartPost
  <2>3. CASE BuildSession(n, h)
    BY <2>1, <2>3 DEF BuildSession
  <2> QED BY <2>2, <2>3
<1>3. \A m \in Notices, g \in HookIds :
          thread'[m][g] = IF m = n /\ g = h THEN spot ELSE thread[m][g]
  BY <1>1, ThreadMove DEF NotifyInv
<1>4. NotifyType'
  BY <1>1, <1>2, ThreadMove DEF NotifyInv, NotifyType
<1>5. ThreadInv'
  <2>1. \A m \in Notices : \A g : TooBig(m, g)' = TooBig(m, g)
    BY <1>2 DEF TooBig
  <2> QED BY <1>1, <1>2, <1>3, <2>1 DEF NotifyInv, ThreadInv
<1>6. RowsInv'
  BY <1>2, RowsKept DEF NotifyInv
<1> QED BY <1>4, <1>5, <1>6 DEF NotifyInv

LEMMA PostInv ==
    ASSUME NotifyInv, NEW n \in Notices, NEW h \in HookIds, Post(n, h)
    PROVE  NotifyInv'
<1>1. /\ thread[n][h] = "posting" /\ phase[n] # "idle"
      /\ h \in Chosen(message[n]) /\ ~TooBig(n, h)
      /\ tries[n][h] \in Nat /\ tries[n][h] < MaxTries /\ MaxTries \in Nat
      /\ UNCHANGED <<session, sessions, phase, message, rows>>
  BY NotifierAssumption DEF Post, NotifyInv, NotifyType, ThreadInv
<1>2. \A m \in Notices, g \in HookIds :
          tries'[m][g] = IF m = n /\ g = h THEN tries[n][h] + 1 ELSE tries[m][g]
  BY DEF Post, NotifyInv, NotifyType
<1>3. PICK spot \in {"posting", "sent", "refused"} :
          /\ Threads(n, h, spot)
          /\ spot = "posting" => tries[n][h] + 1 < MaxTries
          /\ spot = "sent" => reached' = [reached EXCEPT ![n] = @ \cup {h}]
  <2>1. CASE UNCHANGED thread
    <3>1. Threads(n, h, "posting")
      BY <1>1, <2>1 DEF Threads, NotifyInv, NotifyType
    <3> QED BY <2>1, <3>1 DEF Post
  <2> QED BY <2>1 DEF Post
<1>4. \A m \in Notices, g \in HookIds :
          thread'[m][g] = IF m = n /\ g = h THEN spot ELSE thread[m][g]
  BY <1>3, ThreadMove DEF NotifyInv
<1>5. /\ \A m \in Notices : reached'[m] = reached[m] \/ (m = n /\ reached'[m] = reached[m] \cup {h})
      /\ reached' \in [Notices -> SUBSET HookIds]
      /\ spot = "sent" => h \in reached'[n]
  <2>1. reached \in [Notices -> SUBSET HookIds]
    BY DEF NotifyInv, NotifyType
  <2>2. reached' = reached \/ reached' = [reached EXCEPT ![n] = reached[n] \cup {h}]
    BY DEF Post
  <2>3. reached[n] \cup {h} \in SUBSET HookIds
    BY <2>1
  <2>4. reached' \in [Notices -> SUBSET HookIds]
    BY <2>1, <2>2, <2>3
  <2>5. \A m \in Notices : reached'[m] = reached[m] \/ (m = n /\ reached'[m] = reached[m] \cup {h})
    BY <2>1, <2>2
  <2>6. spot = "sent" => h \in reached'[n]
    BY <1>3, <2>1
  <2> QED BY <2>4, <2>5, <2>6
<1>6. NotifyType'
  <2>1. tries' \in [Notices -> [HookIds -> 0..MaxTries]]
    <3>1. tries[n][h] + 1 \in 0..MaxTries
      BY <1>1
    <3> QED BY <3>1 DEF Post, NotifyInv, NotifyType
  <2> QED BY <1>1, <1>3, <1>5, <2>1, ThreadMove DEF NotifyInv, NotifyType
<1>7. ThreadInv'
  <2>1. \A m \in Notices : \A g : TooBig(m, g)' = TooBig(m, g)
    BY <1>1 DEF TooBig
  <2> QED BY <1>1, <1>2, <1>3, <1>4, <1>5, <2>1 DEF NotifyInv, ThreadInv
<1>8. RowsInv'
  BY <1>1, <1>5, RowsKept DEF NotifyInv
<1> QED BY <1>6, <1>7, <1>8 DEF NotifyInv

(* The row that is added is of the first webhook that has none.             *)
LEMMA CollectInv ==
    ASSUME NotifyInv, NEW n \in Notices, NEW h \in HookIds, Collect(n, h)
    PROVE  NotifyInv'
<1> DEFINE k == Len(rows[n])
           r == Row(n, h)
<1>1. /\ phase[n] = "sending" /\ h \in Left(n) /\ \A g \in Left(n) : h <= g
      /\ UNCHANGED <<session, sessions, message, thread, tries, reached>>
      /\ phase' = [phase EXCEPT ![n] = IF Left(n) = {h} THEN "answered" ELSE "sending"]
      /\ rows' = [rows EXCEPT ![n] = Append(rows[n], r)]
  BY DEF Collect, Enter, sending
<1>2. /\ rows[n] \in Seq([hook : HookIds, sent : BOOLEAN]) /\ k \in Nat
      /\ r \in [hook : HookIds, sent : BOOLEAN] /\ r.hook = h
      /\ r.sent => h \in reached[n]
      /\ h \in Chosen(message[n])
  <2>1. rows[n] \in Seq([hook : HookIds, sent : BOOLEAN])
    BY DEF NotifyInv, NotifyType
  <2>2. r = [hook |-> h, sent |-> thread[n][h] = "sent"]
    BY DEF Row
  <2>3. h \in Chosen(message[n]) /\ (thread[n][h] = "sent" => h \in reached[n])
    BY <1>1 DEF NotifyInv, ThreadInv, Left
  <2>4. r.hook = h
    BY <2>2
  <2>5. r.sent = (thread[n][h] = "sent")
    BY <2>2
  <2>6. r \in [hook : HookIds, sent : BOOLEAN]
    BY <2>2
  <2> HIDE DEF r
  <2> QED BY <2>1, <2>3, <2>4, <2>5, <2>6
<1>3. /\ rows'[n] \in Seq([hook : HookIds, sent : BOOLEAN])
      /\ DOMAIN rows[n] = 1..k /\ DOMAIN rows'[n] = 1..(k + 1)
      /\ \A i \in 1..k : rows'[n][i] = rows[n][i]
      /\ rows'[n][k + 1] = r
      /\ \A m \in Notices : m # n => rows'[m] = rows[m]
  BY <1>1, <1>2 DEF NotifyInv, NotifyType
<1>4. \A m \in Notices : m # n => phase'[m] = phase[m]
  BY <1>1 DEF NotifyInv, NotifyType
<1>5. phase'[n] = IF Left(n) = {h} THEN "answered" ELSE "sending"
  BY <1>1 DEF NotifyInv, NotifyType
<1>6. NotifyType'
  <2>1. rows' \in [Notices -> Seq([hook : HookIds, sent : BOOLEAN])]
    BY <1>1, <1>3 DEF NotifyInv, NotifyType
  <2>2. phase' \in [Notices -> {"idle", "sending", "answered"} \cup Refusals]
    BY <1>1 DEF NotifyInv, NotifyType
  <2> QED BY <1>1, <2>1, <2>2 DEF NotifyInv, NotifyType
<1>7. ThreadInv'
  <2>1. \A m \in Notices : \A g : TooBig(m, g)' = TooBig(m, g)
    BY <1>1 DEF TooBig
  <2> QED BY <1>1, <1>4, <1>5, <2>1 DEF NotifyInv, ThreadInv
<1>8. RowsInv'
  <2>1. Left(n)' = Left(n) \ {h}
    BY <1>1, <1>2, <1>3 DEF Left
  <2>2. \A m \in Notices : \A g : TooBig(m, g)' = TooBig(m, g)
    BY <1>1 DEF TooBig
  <2>3. \A m \in Notices : m # n => Left(m)' = Left(m)
    BY <1>1, <1>3 DEF Left
  <2>4. \A g \in Left(n)' : g \in Nat /\ h < g
    <3>1. \A g \in Left(n) : g \in Nat /\ h \in Nat
      BY HookIdsAreNumbers DEF Left
    <3> QED BY <1>1, <2>1, <3>1
  <2>5. ASSUME NEW i \in 1..(k + 1)
        PROVE  /\ rows'[n][i].hook \in Chosen(message[n])
               /\ rows'[n][i].sent => rows'[n][i].hook \in reached[n]
               /\ \A g \in Left(n)' : rows'[n][i].hook < g
    <3>1. CASE i = k + 1
      BY <1>2, <1>3, <2>4, <3>1
    <3>2. CASE i # k + 1
      <4>1. i \in 1..k /\ rows'[n][i] = rows[n][i]
        BY <1>2, <1>3, <3>2
      <4> QED BY <1>3, <2>1, <4>1 DEF NotifyInv, RowsInv
    <3> QED BY <3>1, <3>2
  <2>6. ASSUME NEW i \in 1..(k + 1), NEW j \in 1..(k + 1), i < j
        PROVE  rows'[n][i].hook < rows'[n][j].hook
    <3>1. i \in 1..k /\ rows'[n][i] = rows[n][i]
      BY <1>2, <1>3, <2>6
    <3>2. CASE j = k + 1
      BY <1>1, <1>2, <1>3, <3>1, <3>2 DEF NotifyInv, RowsInv
    <3>3. CASE j # k + 1
      <4>1. j \in 1..k /\ rows'[n][j] = rows[n][j]
        BY <1>2, <1>3, <3>3
      <4> QED BY <1>3, <2>6, <3>1, <4>1 DEF NotifyInv, RowsInv
    <3> QED BY <3>2, <3>3
  <2>7. phase'[n] # "idle" /\ (phase'[n] = "answered" => Left(n)' = {})
    BY <1>5, <2>1
  <2> QED BY <1>1, <1>3, <1>4, <2>2, <2>3, <2>5, <2>6, <2>7 DEF NotifyInv, RowsInv
<1> QED BY <1>6, <1>7, <1>8 DEF NotifyInv

LEMMA NotifyNextInv ==
    ASSUME NotifyInv, [NotifyNext]_notifyVars
    PROVE  NotifyInv'
<1>1. CASE UNCHANGED notifyVars
  <2>1. UNCHANGED <<session, sessions, phase, message, thread, tries, reached, rows>>
    BY <1>1 DEF notifyVars, sending
  <2>2. NotifyType'
    BY <2>1 DEF NotifyInv, NotifyType
  <2>3. ThreadInv'
    BY <2>1 DEF NotifyInv, ThreadInv, TooBig
  <2>4. RowsInv'
    BY <2>1, RowsKept DEF NotifyInv
  <2> QED BY <2>2, <2>3, <2>4 DEF NotifyInv
<1> QED BY <1>1, StartNotifyInv, StartPostInv, PostInv, CollectInv DEF NotifyNext, NotifyStep

LEMMA NotifyInvImplies == NotifyInv => FanOutIsReported
<1> SUFFICES ASSUME NotifyInv, NEW n \in Notices
             PROVE  /\ phase[n] = "answered" =>
                          {rows[n][i].hook : i \in DOMAIN rows[n]} = Chosen(message[n])
                    /\ \A i, j \in DOMAIN rows[n] : i < j => rows[n][i].hook < rows[n][j].hook
                    /\ \A i \in DOMAIN rows[n] :
                          rows[n][i].sent => rows[n][i].hook \in reached[n]
                    /\ reached[n] \subseteq {h \in Chosen(message[n]) : ~TooBig(n, h)}
  BY DEF FanOutIsReported
<1> QED BY DEF NotifyInv, RowsInv, Left

(* However slow, refusing or dead some webhooks are and however many calls  *)
(* share the session, the answer has one row for each webhook that was      *)
(* meant, and only those that took the message are reported to have it      *)
(* (notifier.py:584-649).                                                   *)
THEOREM FanOutReported == NotifySpec => []FanOutIsReported
BY NotifyInitInv, NotifyNextInv, NotifyInvImplies, PTL DEF NotifySpec

-----------------------------------------------------------------------------
(* All of them in one server.                                              *)

(* A step of the server is one of a part, or leaves the part alone.         *)
LEMMA PartSteps ==
    ASSUME [Next]_vars
    PROVE  /\ [EditNext]_editVars /\ [WorkNext]_workVars /\ [ExposeNext]_exposeVars
           /\ [BootNext]_bootVars /\ [NotifyNext]_notifyVars
BY DEF Next, vars, EditingMaps, RollingOut, Exposing, Bootstrapping, Notifying

(* The server with all tools behaves, in each part, as the part does by     *)
(* itself: none of them disturbs another.                                   *)
THEOREM PartsDoNotInterfere ==
    Spec => EditSpec /\ WorkSteps /\ ExposeSpec /\ BootSpec /\ NotifySpec
<1>1. Init => EditInit /\ WorkInit /\ ExposeInit /\ BootInit /\ NotifyInit
  BY DEF Init
<1> QED BY <1>1, PartSteps, PTL
        DEF Spec, EditSpec, WorkSteps, ExposeSpec, BootSpec, NotifySpec

(* So everything that is proved of the parts holds of the server.           *)
THEOREM WriteToolsAreSafe ==
    Spec => /\ [](PortsLeadToPrometheus /\ InstalledHasTheFlag /\ FanOutIsReported)
            /\ []LastLookInTime
            /\ UpdateChangesItsKeys /\ PollsTellTheTruth
BY PartsDoNotInterfere, PortsLead, InstalledMeansFlag, FanOutReported, UpdatesChangeTheirKeys,
   PollsAreTrue, LooksAreInTime, PTL
=============================================================================
