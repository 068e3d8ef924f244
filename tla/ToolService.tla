---------------------------- MODULE ToolService -----------------------------
(***************************************************************************)
(* What the tool boundary promises, without futures, callbacks, threads or *)
(* semaphores.  A call is either refused at once, and then its body never  *)
(* runs, or it is accepted as one of at most Capacity calls at work.  An   *)
(* accepted call is answered exactly once and need not wait for its body:  *)
(* the answer may come first (a timeout, a cancellation), and the body     *)
(* keeps its place among the calls at work until it ends.                  *)
(***************************************************************************)
EXTENDS Integers, FiniteSets

CONSTANTS Calls, Capacity

VARIABLES
    work,    (* idle, working or ended: the body of each call               *)
    answer   (* none, refused or given: the reply of each call              *)

Working == {c \in Calls : work[c] = "working"}

Init ==
    /\ work = [c \in Calls |-> "idle"]
    /\ answer = [c \in Calls |-> "none"]

Refuse(c) ==
    /\ work[c] = "idle"
    /\ answer[c] = "none"
    /\ answer' = [answer EXCEPT ![c] = "refused"]
    /\ UNCHANGED work

Accept(c) ==
    /\ work[c] = "idle"
    /\ answer[c] = "none"
    /\ Cardinality(Working) < Capacity
    /\ work' = [work EXCEPT ![c] = "working"]
    /\ UNCHANGED answer

End(c) ==
    /\ work[c] = "working"
    /\ work' = [work EXCEPT ![c] = "ended"]
    /\ UNCHANGED answer

Give(c) ==
    /\ work[c] # "idle"
    /\ answer[c] = "none"
    /\ answer' = [answer EXCEPT ![c] = "given"]
    /\ UNCHANGED work

Next == \E c \in Calls : Refuse(c) \/ Accept(c) \/ End(c) \/ Give(c)

vars == <<work, answer>>

(* Every accepted call is answered, however long its body takes.            *)
Spec == Init /\ [][Next]_vars /\ \A c \in Calls : WF_vars(Give(c))
=============================================================================
