-------------------------- MODULE MCManifestWrites --------------------------
(* Instances of ManifestWrites for TLC. *)
EXTENDS ManifestWrites

CONSTANTS settings, web, secret, widget, image, env

Sets(o, fields) == [of |-> o, sets |-> fields]

(* The shapes that matter: nothing, one document, two documents, a second   *)
(* document outside the allowlist, a second document of a kind the cluster  *)
(* does not serve, and the same object twice with an overlap.               *)
MCManifests == {
    <<>>,
    <<Sets(settings, {env})>>,
    <<Sets(settings, {env}), Sets(web, {image})>>,
    <<Sets(settings, {env}), Sets(secret, {env})>>,
    <<Sets(settings, {env}), Sets(widget, {env})>>,
    <<Sets(web, {image}), Sets(web, {image, env})>> }

(* Objects that were all there when the agent looked.                       *)
SpecExisting == Spec /\ \A o \in Objects : version[o] # Absent
=============================================================================
