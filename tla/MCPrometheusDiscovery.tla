------------------------ MODULE MCPrometheusDiscovery ------------------------
(* An instance of PrometheusDiscovery for TLC. *)
EXTENDS PrometheusDiscovery, TLC

CONSTANTS operated, odd, plain, narrow

(* Two identities of one cluster; the allowlist of one holds the namespace  *)
(* of the well-known service only.                                          *)
MCReach == plain :> {operated, odd} @@ narrow :> {operated}
MCCandidates == <<operated>>

Interchangeable == Permutations(Threads)
=============================================================================
