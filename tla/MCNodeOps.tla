----------------------------- MODULE MCNodeOps ------------------------------
(* Instances of NodeOps for TLC. *)
EXTENDS NodeOps, TLC

CONSTANT gpu

(* Every operation, every flag of a drain, one of the taints.               *)
MCRequests ==
    [op : {"cordon", "uncordon", "wipe"}]
        \cup [op : {"taint", "untaint"}, taint : {gpu}]
        \cup [op : {"drain"}, flags : Flags]

(* The taint tools only.                                                    *)
TaintRequests ==
    [op : {"wipe"}] \cup [op : {"taint", "untaint"}, taint : Taints]

Interchangeable == Permutations(Calls)
=============================================================================
