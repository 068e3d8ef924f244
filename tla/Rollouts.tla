------------------------------ MODULE Rollouts ------------------------------
(***************************************************************************)
(* The tools that change workloads (scale_workload, restart_workload,      *)
(* set_image and set_resources of tools/workload.py, delete_resource of    *)
(* tools/delete_tool.py) and those that wait for what comes of it          *)
(* (rollout_status of tools/rollout.py, wait_resource of                   *)
(* tools/wait_tool.py), while the controllers of the cluster work.         *)
(* One action is one HTTP request and what the body does up to the next.   *)
(*                                                                         *)
(* A pod template is named by the generation that brought it.  Of the      *)
(* status, the model has the observed generation, the Progressing          *)
(* condition, and the template that is rolled out.  Time is in seconds.    *)
(***************************************************************************)
EXTENDS Integers, Sequences, SequencesExt

CONSTANTS
    Callers,        (* the tool calls                                        *)
    Deployments,
    StatefulSets,   (* they have no Progressing condition                    *)
    New,            (* those that have just been made                        *)
    Tasks,          (* what the calls may ask for                            *)
    Gone,           (* what there is of a workload that is deleted           *)
    Horizon         (* bound on the time                                     *)

Workloads == Deployments \cup StatefulSets
Timeouts == 0..2
RolloutInterval == 2
WaitInterval == 1

AllTasks ==
    [op : {"scale", "template"}, names : Seq(Workloads)]
        \cup [op : {"delete", "undo"}, name : Workloads]
        \cup [op : {"status"}, name : Workloads, watch : BOOLEAN, timeout : Timeouts]
        \cup [op : {"wait_condition"}, name : Workloads, timeout : Timeouts]
        \cup [op : {"wait_jsonpath"}, name : Workloads, value : Nat, timeout : Timeouts]
NoTask == [op |-> "none"]

ASSUME RolloutAssumption ==
    /\ Deployments \cap StatefulSets = {}
    /\ New \subseteq Workloads
    /\ Tasks \subseteq AllTasks
    /\ Gone \notin [gen : Nat, template : Nat, observed : Nat, rolled : Nat,
                    condition : {"none", "progressing", "complete", "stalled"}]
    /\ Horizon \in Nat

VARIABLES
    now,
    work,       (* the workloads                                             *)
    stage,      (* where each call is, or how it ended                       *)
    task,       (* what it was asked for                                     *)
    done,       (* how many workloads of its list are patched                *)
    deadline,   (* of its polling                                            *)
    wake        (* when it polls again                                       *)

call == <<stage, task, done, deadline, wake>>
workVars == <<now, work, call>>

(* A workload that is rolled out, and one that no controller has seen yet.  *)
Settled(w) == [gen |-> 1, template |-> 1, observed |-> 1, rolled |-> 1,
               condition |-> IF w \in Deployments THEN "complete" ELSE "none"]
Fresh == [gen |-> 1, template |-> 1, observed |-> 0, rolled |-> 0, condition |-> "none"]

WorkInit ==
    /\ now = 0
    /\ work = [w \in Workloads |-> IF w \in New THEN Fresh ELSE Settled(w)]
    /\ stage = [c \in Callers |-> "idle"]
    /\ task = [c \in Callers |-> NoTask]
    /\ done = [c \in Callers |-> 0]
    /\ deadline = [c \in Callers |-> 0]
    /\ wake = [c \in Callers |-> 0]

Op(c) == task[c].op
Ended == {"answered", "failed", "timeout"}

(* A call that ends forgets its local variables.                            *)
End(c, outcome) ==
    /\ stage' = [stage EXCEPT ![c] = outcome]
    /\ task' = [task EXCEPT ![c] = NoTask]
    /\ done' = [done EXCEPT ![c] = 0]
    /\ deadline' = [deadline EXCEPT ![c] = 0]
    /\ wake' = [wake EXCEPT ![c] = 0]
Patching(c) == Op(c) \in {"scale", "template"}
Waiting(c) == Op(c) \in {"wait_condition", "wait_jsonpath"}
Watching(c) == Op(c) = "status" \/ Waiting(c)

(* Guards and arguments are the body's outcome: failed.                     *)
AskTask(c) ==
    /\ stage[c] = "idle"
    /\ \/ End(c, "failed")
       \/ \E t \in Tasks :
             LET limit == now + (IF "timeout" \in DOMAIN t THEN t.timeout ELSE 0)
             IN  /\ limit + RolloutInterval <= Horizon \/ "timeout" \notin DOMAIN t
                 /\ stage' = [stage EXCEPT ![c] = "asked"]
                 /\ task' = [task EXCEPT ![c] = t]
                 /\ deadline' = [deadline EXCEPT ![c] = limit]
                 /\ wake' = [wake EXCEPT ![c] = now]
                 /\ UNCHANGED done
    /\ UNCHANGED <<now, work>>

RequestFails(c) ==
    /\ stage[c] = "asked"
    /\ End(c, "failed")
    /\ UNCHANGED <<now, work>>

(***************************************************************************)
(* Writes.  The apiserver counts a generation whenever the spec changes.   *)
(***************************************************************************)
NextName(c) == task[c].names[done[c] + 1]

Scaled(w) == [w EXCEPT !.gen = @ + 1]
Templated(w) == [w EXCEPT !.gen = @ + 1, !.template = w.gen + 1]

(* The workloads of the list are patched one by one.  A patch may bring     *)
(* nothing new, or its answer may be lost; the first that fails ends the    *)
(* call, and with it the report on those before.                            *)
PatchNext(c) ==
    /\ stage[c] = "asked" /\ Patching(c)
    /\ done[c] < Len(task[c].names)
    /\ work[NextName(c)] # Gone
    /\ \/ work' = [work EXCEPT ![NextName(c)] =
                       IF Op(c) = "scale" THEN Scaled(@) ELSE Templated(@)]
       \/ UNCHANGED work
    /\ \/ done' = [done EXCEPT ![c] = @ + 1] /\ UNCHANGED <<stage, task, deadline, wake>>
       \/ End(c, "failed")
    /\ UNCHANGED now

PatchMissing(c) ==
    /\ stage[c] = "asked" /\ Patching(c)
    /\ done[c] < Len(task[c].names)
    /\ work[NextName(c)] = Gone
    /\ End(c, "failed")
    /\ UNCHANGED <<now, work>>

PatchedAll(c) ==
    /\ stage[c] = "asked" /\ Patching(c)
    /\ done[c] = Len(task[c].names)
    /\ End(c, "answered")
    /\ UNCHANGED <<now, work>>

Delete(c) ==
    /\ stage[c] = "asked" /\ Op(c) = "delete"
    /\ work' = [work EXCEPT ![task[c].name] = Gone]
    /\ End(c, IF work[task[c].name] = Gone THEN "failed" ELSE "answered")
    /\ UNCHANGED now

(* The client has no request that rolls a Deployment back, and the revision *)
(* of a StatefulSet is a name, which int() refuses: nothing is written.     *)
RolloutUndo(c) ==
    /\ stage[c] = "asked" /\ Op(c) = "undo"
    /\ End(c, "failed")
    /\ UNCHANGED <<now, work>>

(***************************************************************************)
(* Polls.                                                                  *)
(***************************************************************************)

(* A faulty form: the condition is taken for that of the present spec.      *)
StatusOnceAnyGeneration(w) ==
    CASE w = Gone -> "error"
      [] OTHER -> w.condition

StatusOnce(w) ==
    CASE w = Gone -> "error"
      [] w # Gone /\ w.gen # w.observed -> "starting"
      [] OTHER -> w.condition

IsDone(status) == status \in {"complete", "error", "stalled"}

(* A condition that is True; and the value of an expression, here of        *)
(* status.observedGeneration, which is not there before the first report.   *)
ConditionMet(w) == w.condition \in {"progressing", "complete"}
KeyMissing(w) == w.observed = 0

(* One look of rollout_status or of wait_resource: to an expression whose   *)
(* key is missing the latter answers with an error.                         *)
Look(t, w) ==
    CASE t.op = "status" -> IF ~t.watch \/ IsDone(StatusOnce(w)) THEN "answered" ELSE "again"
      [] t.op # "status" /\ w = Gone -> "failed"
      [] t.op = "wait_condition" /\ w # Gone -> IF ConditionMet(w) THEN "answered" ELSE "again"
      [] t.op = "wait_jsonpath" /\ w # Gone ->
             CASE KeyMissing(w) -> "failed"
               [] w.observed = t.value -> "answered"
               [] OTHER -> "again"

Sleep(c) ==
    /\ wake' = [wake EXCEPT ![c] = now + (IF Waiting(c) THEN WaitInterval ELSE RolloutInterval)]
    /\ UNCHANGED <<stage, task, done, deadline>>

Due(c) == stage[c] = "asked" /\ Watching(c) /\ wake[c] <= now

(* A faulty form: the deadline is looked at only before the first poll.     *)
PollForever(c) ==
    /\ Due(c)
    /\ LET seen == Look(task[c], work[task[c].name])
       IN  IF seen # "again" THEN End(c, seen) ELSE Sleep(c)
    /\ UNCHANGED <<now, work>>

Poll(c) ==
    /\ Due(c)
    /\ LET seen == Look(task[c], work[task[c].name])
       IN  CASE seen # "again" -> End(c, seen)
             [] seen = "again" /\ now > deadline[c] -> End(c, "timeout")
             [] OTHER -> Sleep(c)
    /\ UNCHANGED <<now, work>>

(***************************************************************************)
(* The cluster.  A controller reports on the spec it has observed: a new   *)
(* template takes the condition back, until its pods are there or the      *)
(* progress deadline of the Deployment has passed.                         *)
(***************************************************************************)
Observe(w) ==
    /\ work[w] # Gone
    /\ work[w].observed # work[w].gen
    /\ work' = [work EXCEPT ![w].observed = work[w].gen,
                            ![w].condition = IF w \in Deployments /\ work[w].rolled # work[w].template
                                             THEN "progressing" ELSE @]
    /\ UNCHANGED <<now, call>>

RollOut(w) ==
    /\ work[w] # Gone
    /\ work[w].observed = work[w].gen
    /\ work[w].rolled # work[w].template
    /\ \/ work' = [work EXCEPT ![w].rolled = work[w].template,
                               ![w].condition = IF w \in Deployments THEN "complete" ELSE @]
       \/ /\ w \in Deployments /\ work[w].condition = "progressing"
          /\ work' = [work EXCEPT ![w].condition = "stalled"]
    /\ UNCHANGED <<now, call>>

Tick ==
    /\ now < Horizon
    /\ now' = now + 1
    /\ UNCHANGED <<work, call>>

WorkStep(c) ==
    PatchNext(c) \/ PatchMissing(c) \/ PatchedAll(c) \/ Delete(c) \/ RolloutUndo(c) \/ Poll(c)
Controllers == \E w \in Workloads : Observe(w) \/ RollOut(w)

WorkNext == Tick \/ Controllers \/ \E c \in Callers : AskTask(c) \/ RequestFails(c) \/ WorkStep(c)

(* The client's time-outs end a request that is not answered, so that a     *)
(* call that can go on does, and time goes on.  No request need fail.       *)
WorkFairness(v) == WF_v(Tick) /\ \A c \in Callers : WF_v(WorkStep(c))

WorkSpec == WorkInit /\ [][WorkNext]_workVars /\ WorkFairness(workVars)

-----------------------------------------------------------------------------
WorkType ==
    /\ now \in 0..Horizon
    /\ work \in [Workloads -> {Gone} \cup [gen : Nat, template : Nat, observed : Nat, rolled : Nat,
                                 condition : {"none", "progressing", "complete", "stalled"}]]
    /\ stage \in [Callers -> {"idle", "asked"} \cup Ended]
    /\ task \in [Callers -> AllTasks \cup {NoTask}]
    /\ done \in [Callers -> Nat]
    /\ deadline \in [Callers -> Nat] /\ wake \in [Callers -> Nat]

(* rollout_status says complete only of the template that the workload has  *)
(* at that moment, never of the one before a patch that the controller has  *)
(* not seen yet (rollout.py:94-105); and who polls gives up only after the  *)
(* deadline, with a last look that says no (rollout.py:69-80,               *)
(* wait_tool.py:89-116).                                                    *)
PollsTellTheTruth ==
    [][\A c \in Callers : LET w == task[c].name IN
          /\ Poll(c) /\ stage'[c] = "answered" /\ Op(c) = "status" /\ work[w] # Gone =>
                 (StatusOnce(work[w]) = "complete" => work[w].rolled = work[w].template)
          /\ Poll(c) /\ stage'[c] = "timeout" =>
                 now > deadline[c] /\ work[w] # Gone]_workVars

(* Who polls comes to an end, whatever the controllers do: within an        *)
(* interval after the deadline (rollout.py:78, wait_tool.py:111).           *)
EveryCallEnds == \A c \in Callers : stage[c] = "asked" ~> stage[c] \in Ended
=============================================================================
