-------------------------- MODULE MetricsBootstrap --------------------------
(***************************************************************************)
(* bootstrap_metrics_server (tools/metrics.py): probe, fetch the manifest, *)
(* apply it, read the Deployment and patch a flag into it, wait.  Several  *)
(* calls may be under way while the Deployment controller and others write *)
(* to the Deployment.  One action is one HTTP request and what the body    *)
(* does up to the next.                                                    *)
(*                                                                         *)
(* Of the manifest the model has the Deployment; the documents before and  *)
(* after it may fail to be applied.                                        *)
(***************************************************************************)
EXTENDS Naturals

CONSTANTS
    Installers,   (* the tool calls                                          *)
    NotThere,     (* where there is no Deployment                            *)
    LastVersion   (* bound on its resourceVersion                            *)

Deployed == [version : 1..LastVersion, flag : BOOLEAN, ready : BOOLEAN]

ASSUME BootstrapAssumption == LastVersion \in Nat \ {0} /\ NotThere \notin Deployed

VARIABLES
    metrics,     (* Deployment/metrics-server                                *)
    versions,    (* the resourceVersions given out                           *)
    named,       (* the manifest calls its container metrics-server          *)
    step,        (* where each call is, or how it ended                      *)
    wantsFlag,   (* its kubelet_insecure_tls                                 *)
    found,       (* the Deployment as it has last read it                    *)
    undone       (* whose flag somebody else has taken away since (history)  *)

deployment == <<metrics, versions>>
demand == <<named, wantsFlag>>
bootVars == <<deployment, demand, step, found, undone>>

BootInit ==
    /\ metrics \in {NotThere} \cup [version : {1}, flag : BOOLEAN, ready : BOOLEAN]
    /\ versions = 1
    /\ named \in BOOLEAN
    /\ step = [b \in Installers |-> "probing"]
    /\ wantsFlag \in [Installers -> BOOLEAN]
    /\ found = [b \in Installers |-> NotThere]
    /\ undone = {}

StepTo(b, place) == step' = [step EXCEPT ![b] = place]
Steps == {"probing", "fetching", "applying", "writing", "finishing", "reading", "patching", "waiting"}

(* Every write gives the Deployment a new version.                          *)
Stored(flag, ready) ==
    /\ versions < LastVersion
    /\ versions' = versions + 1
    /\ metrics' = [version |-> versions', flag |-> flag, ready |-> ready]

HasFlag == metrics # NotThere /\ metrics.flag
TakesFlagAway == undone' = IF HasFlag /\ ~HasFlag' THEN Installers ELSE undone

(* The guards, the download, a document of the manifest or a request fails. *)
StopBootstrap(b) ==
    /\ step[b] \in Steps
    /\ StepTo(b, "failed")
    /\ UNCHANGED <<deployment, demand, found, undone>>

(* If the Deployment is there, nothing is done, whatever the call asks for. *)
Probe(b) ==
    /\ step[b] = "probing"
    /\ StepTo(b, IF metrics = NotThere THEN "fetching" ELSE "already")
    /\ UNCHANGED <<deployment, demand, found, undone>>

FetchManifest(b) ==
    /\ step[b] = "fetching"
    /\ StepTo(b, "applying")
    /\ UNCHANGED <<deployment, demand, found, undone>>

(* apply_yaml asks for the Deployment, and then creates or patches it.  The *)
(* patch puts the arguments of the manifest in the place of those there.    *)
ApplyReads(b) ==
    /\ step[b] = "applying"
    /\ found' = [found EXCEPT ![b] = metrics]
    /\ StepTo(b, "writing")
    /\ UNCHANGED <<deployment, demand, undone>>

ApplyWrites(b) ==
    /\ step[b] = "writing"
    /\ \/ /\ found[b] = NotThere /\ metrics = NotThere
          /\ Stored(FALSE, FALSE)
          /\ StepTo(b, "finishing") \/ StepTo(b, "failed")
       \/ /\ found[b] # NotThere /\ metrics # NotThere
          /\ Stored(FALSE, metrics.ready)
          /\ StepTo(b, "finishing") \/ StepTo(b, "failed")
       \/ /\ (found[b] = NotThere) # (metrics = NotThere)
          /\ StepTo(b, "failed")
          /\ UNCHANGED deployment
    /\ TakesFlagAway
    /\ UNCHANGED <<demand, found>>

(* With wait_seconds = 0 there is no wait.                                  *)
Onwards(b) == StepTo(b, "waiting") \/ StepTo(b, "installed")

FinishApply(b) ==
    /\ step[b] = "finishing"
    /\ IF wantsFlag[b] THEN StepTo(b, "reading") ELSE Onwards(b)
    /\ UNCHANGED <<deployment, demand, found, undone>>

ReadForFlag(b) ==
    /\ step[b] = "reading"
    /\ metrics # NotThere
    /\ found' = [found EXCEPT ![b] = metrics]
    /\ IF ~named \/ metrics.flag
       THEN Onwards(b) /\ undone' = undone \ {b}
       ELSE StepTo(b, "patching") /\ UNCHANGED undone
    /\ UNCHANGED <<deployment, demand>>

(* A faulty form: a patch that the apiserver refuses is passed over.        *)
PatchFlagBestEffort(b) ==
    /\ step[b] = "patching"
    /\ IF metrics # NotThere /\ metrics.version = found[b].version
       THEN /\ Stored(TRUE, metrics.ready)
            /\ undone' = undone \ {b}
            /\ Onwards(b) \/ StepTo(b, "failed")
       ELSE Onwards(b) /\ undone' = undone \ {b} /\ UNCHANGED deployment
    /\ UNCHANGED <<demand, found>>

(* The patch is the whole Deployment as it was read, with its version: the  *)
(* apiserver refuses it if anybody has written since, the controller too.   *)
PatchFlag(b) ==
    /\ step[b] = "patching"
    /\ IF metrics # NotThere /\ metrics.version = found[b].version
       THEN /\ Stored(TRUE, metrics.ready)
            /\ undone' = undone \ {b}
            /\ Onwards(b) \/ StepTo(b, "failed")
       ELSE StepTo(b, "failed") /\ UNCHANGED <<deployment, undone>>
    /\ UNCHANGED <<demand, found>>

(* The wait ends when the Deployment is ready, or with its deadline; either *)
(* way the answer is `Installed`.                                           *)
Await(b) ==
    /\ step[b] = "waiting"
    /\ metrics # NotThere
    /\ StepTo(b, "installed")
    /\ UNCHANGED <<deployment, demand, found, undone>>

(* The Deployment controller reports, somebody edits the arguments, somebody *)
(* deletes the Deployment.                                                  *)
OthersTouchMetrics ==
    /\ metrics # NotThere
    /\ \/ Stored(metrics.flag, ~metrics.ready)
       \/ Stored(~metrics.flag, metrics.ready)
       \/ metrics' = NotThere /\ UNCHANGED versions
    /\ TakesFlagAway
    /\ UNCHANGED <<demand, step, found>>

BootStep(b) ==
    \/ StopBootstrap(b) \/ Probe(b) \/ FetchManifest(b) \/ ApplyReads(b) \/ ApplyWrites(b)
    \/ FinishApply(b) \/ ReadForFlag(b) \/ PatchFlag(b) \/ Await(b)
BootNext == OthersTouchMetrics \/ \E b \in Installers : BootStep(b)

BootSpec == BootInit /\ [][BootNext]_bootVars

-----------------------------------------------------------------------------
BootType ==
    /\ versions \in 1..LastVersion
    /\ metrics \in {NotThere} \cup Deployed
    /\ metrics # NotThere => metrics.version <= versions
    /\ named \in BOOLEAN
    /\ step \in [Installers -> Steps \cup {"already", "installed", "failed"}]
    /\ wantsFlag \in [Installers -> BOOLEAN]
    /\ found \in [Installers -> {NotThere} \cup Deployed]
    /\ undone \subseteq Installers

(* A call that was asked for the flag and answers `Installed` leaves a      *)
(* Deployment that has it, unless somebody has taken it away again since:   *)
(* another writer, or a second bootstrap that applies the manifest over it  *)
(* (metrics.py:597-618, 658-708).                                           *)
InstalledHasTheFlag ==
    \A b \in Installers :
        step[b] \in {"waiting", "installed"} /\ wantsFlag[b] /\ named =>
            b \in undone \/ HasFlag
=============================================================================
