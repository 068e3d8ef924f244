----------------------------- MODULE WriteTools -----------------------------
(***************************************************************************)
(* The tools that change single objects, or wait for them, and notify:     *)
(* KeyedEdits, Rollouts, PrometheusExposure, MetricsBootstrap and Notifier *)
(* in one server.  They share neither objects nor memory, so that a step   *)
(* of one is a stutter of the others; each behaviour is about one of them, *)
(* its scene, and leaves the others as they began.                         *)
(***************************************************************************)
EXTENDS KeyedEdits, Rollouts, PrometheusExposure, MetricsBootstrap, Notifier

VARIABLE scene

vars == <<scene, editVars, workVars, exposeVars, bootVars, notifyVars>>

Scenes == {"edits", "rollouts", "exposure", "bootstrap", "notify"}
In(s) == scene = s

(* The parts that a behaviour is not about begin in one state.              *)
Init ==
    /\ scene \in Scenes
    /\ EditInit /\ (In("edits") \/ (data = NoKeys /\ labels = NoKeys /\ writable))
    /\ WorkInit
    /\ ExposeInit /\ (In("exposure") \/ (twin = NoService /\ source = NoService))
    /\ BootInit /\ (In("bootstrap") \/ (metrics = NotThere /\ named
                                        /\ \A b \in Installers : wantsFlag[b]))
    /\ NotifyInit

EditingMaps == In("edits") /\ EditNext
            /\ UNCHANGED <<scene, workVars, exposeVars, bootVars, notifyVars>>
RollingOut == In("rollouts") /\ WorkNext
              /\ UNCHANGED <<scene, editVars, exposeVars, bootVars, notifyVars>>
Exposing == In("exposure") /\ ExposeNext
            /\ UNCHANGED <<scene, editVars, workVars, bootVars, notifyVars>>
Bootstrapping == In("bootstrap") /\ BootNext
                 /\ UNCHANGED <<scene, editVars, workVars, exposeVars, notifyVars>>
Notifying == In("notify") /\ NotifyNext
             /\ UNCHANGED <<scene, editVars, workVars, exposeVars, bootVars>>

Next == EditingMaps \/ RollingOut \/ Exposing \/ Bootstrapping \/ Notifying

Elsewhere == UNCHANGED <<scene, editVars, exposeVars, bootVars, notifyVars>>

(* The fairness of Rollouts.                                                *)
Spec ==
    /\ Init /\ [][Next]_vars
    /\ WF_vars(In("rollouts") /\ Tick /\ Elsewhere)
    /\ \A c \in Callers : WF_vars(In("rollouts") /\ WorkStep(c) /\ Elsewhere)
=============================================================================
