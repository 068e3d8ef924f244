------------------------- MODULE MCServerLifecycle --------------------------
(* Instances of ServerLifecycle for TLC. *)
EXTENDS ServerLifecycle, TLC

(* How the bodies of this code really end: with a value; with an            *)
(* ApiException of the typed client, or one of the dynamic client, which is *)
(* raised from the typed one; with a failure met while another was handled  *)
(* (logs.py:261-274); with `raise RuntimeError(...) from e` (apply_yaml's   *)
(* conflict), for top_pods from a LookupError that hides an ApiException    *)
(* (prometheus.py:145-152, metrics.py:143-154); with a PermissionError of   *)
(* the write guards.                                                        *)
MCOutcomes == {
    [exc |-> Value, chain |-> Nothing],
    [exc |-> "Api403", chain |-> Nothing],
    [exc |-> "Api404", chain |-> "Api404"],
    [exc |-> "Api403", chain |-> "Api400"],
    [exc |-> "OtherError", chain |-> "Api409"],
    [exc |-> "OtherError", chain |-> "OtherError"],
    [exc |-> "PermissionError", chain |-> Nothing] }

(* Requests for a registered tool differ in nothing but their name.         *)
Interchangeable == Permutations(Calls \ UnknownTool)
=============================================================================
