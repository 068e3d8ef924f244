---------------------------- MODULE ToolBoundary ----------------------------
(***************************************************************************)
(* The call_tool boundary of the MCP server (server.py, class _K8sMCP):    *)
(* admission of a request, execution of the synchronous tool body on the   *)
(* bounded thread pool, the asyncio future that wraps it, the wall-clock   *)
(* cap, cancellation by the client, and the return of the execution slot.  *)
(*                                                                         *)
(* Two kinds of process interleave.  The event loop runs one callback at a *)
(* time; each of its callbacks is one action.  The pool's worker threads   *)
(* take jobs from the executor's FIFO queue and run them; Start and Finish *)
(* are theirs.  The executor, asyncio futures and the MCP session are      *)
(* library code, modelled from how call_tool uses them.                    *)
(***************************************************************************)
EXTENDS Integers, FiniteSets, Sequences, ErrorMapping

CONSTANTS
    Calls,               (* the MCP requests, each made once                *)
    UnknownTool,         (* those of them that name no registered tool      *)
    MaxConcurrentTools,  (* K8S_MCP_MAX_CONCURRENT_TOOLS                    *)
    RateLimitOn,         (* K8S_MCP_RATE_LIMIT_RPM > 0                      *)
    TimeoutOn,           (* K8S_MCP_TOOL_TIMEOUT_S > 0                      *)
    Outcomes             (* the ways a tool body may end                    *)

ASSUME BoundaryAssumption ==
    /\ IsFiniteSet(Calls)
    /\ UnknownTool \subseteq Calls
    /\ MaxConcurrentTools \in Nat \ {0}
    /\ RateLimitOn \in BOOLEAN
    /\ TimeoutOn \in BOOLEAN
    /\ Outcomes \subseteq Outcome

VARIABLES
    task,      (* the coroutine of each request: new, awaiting, ended        *)
    reply,     (* what the client was told, NoReply until then               *)
    expired,   (* the requests whose wall-clock timer fired                  *)
    job,       (* the executor's view of each body                           *)
    outcome,   (* how the body ended, NoOutcome until then                   *)
    queue,     (* the executor's work queue                                  *)
    fut,       (* the asyncio future of each body                            *)
    released,  (* the requests whose _release_slot callback has run          *)
    slots,     (* the value of the BoundedSemaphore _execution_slots         *)
    inFlight   (* the module counter _in_flight                              *)

requestVars == <<task, reply, expired>>
workerVars == <<job, outcome, queue>>
slotVars == <<released, slots, inFlight>>
vars == <<task, reply, expired, job, outcome, queue, fut, released, slots, inFlight>>

NoReply == "no reply"
NoOutcome == [exc |-> Nothing, chain |-> Nothing]
Refusals == {"RateLimitedError", "unknown tool", "ToolBusyError", "submit failed"}
Replies == BodyReplies \cup Refusals \cup {"cancelled"}

Running == {c \in Calls : job[c] = "running"}
Unfinished == {c \in Calls : job[c] \in {"queued", "running"}}
Holders == {c \in Calls : job[c] # "none"} \ released

(* A faulty form: the pool is one thread smaller than the semaphore.        *)
InitExtraSlot ==
    /\ task = [c \in Calls |-> "new"]
    /\ reply = [c \in Calls |-> NoReply]
    /\ expired = {}
    /\ job = [c \in Calls |-> "none"]
    /\ outcome = [c \in Calls |-> NoOutcome]
    /\ queue = <<>>
    /\ fut = [c \in Calls |-> "none"]
    /\ released = {}
    /\ slots = MaxConcurrentTools + 1
    /\ inFlight = 0

Init ==
    /\ task = [c \in Calls |-> "new"]
    /\ reply = [c \in Calls |-> NoReply]
    /\ expired = {}
    /\ job = [c \in Calls |-> "none"]
    /\ outcome = [c \in Calls |-> NoOutcome]
    /\ queue = <<>>
    /\ fut = [c \in Calls |-> "none"]
    /\ released = {}
    /\ slots = MaxConcurrentTools
    /\ inFlight = 0

(***************************************************************************)
(* Admission, on the event loop and without an await: rate limiter, tool   *)
(* lookup, slot.  Whether the limiter has a token is the subject of module *)
(* RateLimiter; here it may refuse any call.                               *)
(***************************************************************************)
Conclude(c, r) ==
    /\ task' = [task EXCEPT ![c] = "ended"]
    /\ reply' = [reply EXCEPT ![c] = r]

Refuse(c, r) ==
    /\ task[c] = "new"
    /\ Conclude(c, r)
    /\ UNCHANGED <<expired, workerVars, fut, slotVars>>

RefuseRate(c) == RateLimitOn /\ Refuse(c, "RateLimitedError")

RefuseUnknown(c) == c \in UnknownTool /\ Refuse(c, "unknown tool")

RefuseBusy(c) ==
    /\ c \notin UnknownTool
    /\ slots = 0
    /\ Refuse(c, "ToolBusyError")

(* A faulty form: only the counter is restored when submission fails.       *)
SubmitFailsLeaky(c) ==
    /\ task[c] = "new"
    /\ c \notin UnknownTool
    /\ slots > 0
    /\ slots' = slots - 1
    /\ Conclude(c, "submit failed")
    /\ UNCHANGED <<expired, workerVars, fut, released, inFlight>>

(* run_in_executor raises, as it does once the interpreter is shutting      *)
(* down: the slot and the counter taken a moment ago are given back.        *)
SubmitFails(c) ==
    /\ c \notin UnknownTool
    /\ slots > 0
    /\ Refuse(c, "submit failed")

Submit(c) ==
    /\ task[c] = "new"
    /\ c \notin UnknownTool
    /\ slots > 0
    /\ slots' = slots - 1
    /\ inFlight' = inFlight + 1
    /\ task' = [task EXCEPT ![c] = "awaiting"]
    /\ job' = [job EXCEPT ![c] = "queued"]
    /\ queue' = Append(queue, c)
    /\ fut' = [fut EXCEPT ![c] = "pending"]
    /\ UNCHANGED <<reply, expired, outcome, released>>

(***************************************************************************)
(* The worker threads of the executor: at most MaxConcurrentTools.         *)
(***************************************************************************)
Start ==
    /\ queue # <<>>
    /\ Cardinality(Running) < MaxConcurrentTools
    /\ queue' = Tail(queue)
    /\ job' = [job EXCEPT ![Head(queue)] = IF @ = "queued" THEN "running" ELSE @]
    /\ UNCHANGED <<requestVars, outcome, fut, slotVars>>

Finish(c) ==
    /\ job[c] = "running"
    /\ job' = [job EXCEPT ![c] = "returned"]
    /\ \E o \in Outcomes : outcome' = [outcome EXCEPT ![c] = o]
    /\ UNCHANGED <<requestVars, queue, fut, slotVars>>

(***************************************************************************)
(* Callbacks of the event loop.                                            *)
(***************************************************************************)

(* The worker's result reaches the asyncio future (a future that was        *)
(* cancelled in the meantime ignores it).                                   *)
Deliver(c) ==
    /\ job[c] = "returned"
    /\ fut[c] = "pending"
    /\ fut' = [fut EXCEPT ![c] = "done"]
    /\ UNCHANGED <<requestVars, workerVars, slotVars>>

(* in_flight_dec: never below zero.                                         *)
InFlightDec == inFlight' = IF inFlight > 0 THEN inFlight - 1 ELSE 0

(* A faulty form: a slot given back by the request's coroutine, which an    *)
(* orphaned body no longer has.                                             *)
ReleaseSlotByRequest(c) ==
    /\ fut[c] = "done"
    /\ c \notin released
    /\ task[c] = "awaiting"
    /\ released' = released \cup {c}
    /\ slots' = slots + 1
    /\ InFlightDec
    /\ UNCHANGED <<requestVars, workerVars, fut>>

(* The done callbacks of the future, in the order they were added: asyncio  *)
(* passes a cancellation on to a job that no worker has taken, then         *)
(* _release_slot runs.                                                      *)
ReleaseSlot(c) ==
    /\ fut[c] \in {"done", "cancelled"}
    /\ c \notin released
    /\ released' = released \cup {c}
    /\ slots' = slots + 1
    /\ InFlightDec
    /\ job' = [job EXCEPT ![c] =
                 IF fut[c] = "cancelled" /\ @ = "queued" THEN "dropped" ELSE @]
    /\ UNCHANGED <<requestVars, outcome, queue, fut>>

(* A faulty form: the coroutine is woken before _release_slot.              *)
CompleteFirst(c) ==
    /\ task[c] = "awaiting"
    /\ fut[c] = "done"
    /\ Conclude(c, Answer(outcome[c]))
    /\ UNCHANGED <<expired, workerVars, fut, slotVars>>

(* The request's coroutine wakes up with the body's result.  Its wake-up is *)
(* scheduled behind _release_slot, which was registered first.              *)
Complete(c) ==
    /\ task[c] = "awaiting"
    /\ fut[c] = "done"
    /\ c \in released
    /\ Conclude(c, Answer(outcome[c]))
    /\ UNCHANGED <<expired, workerVars, fut, slotVars>>

(* Faulty forms: wait_for without the shield, which cancels the future; a   *)
(* cap that cannot fire before the body has returned, as when the body runs *)
(* inline on the event loop.                                                *)
TimeOutUnshielded(c) ==
    /\ TimeoutOn
    /\ task[c] = "awaiting"
    /\ expired' = expired \cup {c}
    /\ Conclude(c, "ToolTimeoutError")
    /\ fut' = [fut EXCEPT ![c] = IF @ = "pending" THEN "cancelled" ELSE @]
    /\ UNCHANGED <<workerVars, slotVars>>

TimeOutInline(c) ==
    /\ TimeoutOn
    /\ task[c] = "awaiting"
    /\ job[c] = "returned"
    /\ expired' = expired \cup {c}
    /\ Conclude(c, "ToolTimeoutError")
    /\ UNCHANGED <<workerVars, fut, slotVars>>

(* asyncio.wait_for gives up.  The future is shielded, so the body goes on. *)
TimeOut(c) ==
    /\ TimeoutOn
    /\ task[c] = "awaiting"
    /\ expired' = expired \cup {c}
    /\ Conclude(c, "ToolTimeoutError")
    /\ UNCHANGED <<workerVars, fut, slotVars>>

(* The client cancels the request.  With a timeout the future is shielded;  *)
(* without one, `await future` passes the cancellation to the future.       *)
Cancel(c) ==
    /\ task[c] = "awaiting"
    /\ Conclude(c, "cancelled")
    /\ fut' = IF TimeoutOn \/ fut[c] # "pending" THEN fut
              ELSE [fut EXCEPT ![c] = "cancelled"]
    /\ UNCHANGED <<expired, workerVars, slotVars>>

Admission(c) ==
    RefuseRate(c) \/ RefuseUnknown(c) \/ RefuseBusy(c) \/ SubmitFails(c) \/ Submit(c)

Loop(c) == Deliver(c) \/ ReleaseSlot(c) \/ Complete(c) \/ TimeOut(c)

Next ==
    \/ Start
    \/ \E c \in Calls : Admission(c) \/ Finish(c) \/ Loop(c) \/ Cancel(c)

(***************************************************************************)
(* Fairness.  The event loop keeps running its callbacks and timers, and a *)
(* free worker takes the next job.  Nothing is assumed of the tool bodies: *)
(* a body may hang for ever.  Nothing is assumed of the client.            *)
(***************************************************************************)
Fairness == WF_vars(Start) /\ \A c \in Calls : WF_vars(Loop(c))

Spec == Init /\ [][Next]_vars /\ Fairness

(* The bodies end, as they do when the apiserver answers or the client's    *)
(* connect and read timeouts (client.py) cut the request off.               *)
BodiesEnd == \A c \in Calls : WF_vars(Finish(c))

-----------------------------------------------------------------------------

(* Every variable has its type; the semaphore stays within its bound (a     *)
(* BoundedSemaphore raises when it is released too often).                  *)
TypeOK ==
    /\ task \in [Calls -> {"new", "awaiting", "ended"}]
    /\ reply \in [Calls -> Replies \cup {NoReply}]
    /\ expired \subseteq Calls
    /\ job \in [Calls -> {"none", "queued", "running", "returned", "dropped"}]
    /\ outcome \in [Calls -> Outcomes \cup {NoOutcome}]
    /\ queue \in Seq(Calls)
    /\ fut \in [Calls -> {"none", "pending", "done", "cancelled"}]
    /\ released \subseteq Calls
    /\ slots \in 0..MaxConcurrentTools
    /\ inFlight \in Nat

(* The semaphore and the diagnostic counter never drift apart: both count   *)
(* exactly the requests whose slot has been taken and not given back, on    *)
(* every path through call_tool (server.py:191-208).                        *)
SlotsBalance ==
    /\ slots + Cardinality(Holders) = MaxConcurrentTools
    /\ inFlight = Cardinality(Holders)

(* Timed-out and cancelled calls keep their slot until the body really      *)
(* exits, so the pool never has more jobs, running and queued, than slots:  *)
(* there is no backlog of orphans (server.py:95-97, 187-190).               *)
NoBacklog == Cardinality(Unfinished) <= MaxConcurrentTools

(* A refused call has no effect: once the client has been told that it was  *)
(* rate limited, unknown, busy or not submitted, its body is not, and never *)
(* will be, on the pool.                                                    *)
RefusedNeverRuns == \A c \in Calls : reply[c] \in Refusals => job[c] = "none"

(* A client that has been given its body's result owns no slot any more: an *)
(* agent that waits for each answer is never told `busy` by its own earlier *)
(* call.  And the answer is the one its own body's outcome maps to.         *)
AnswersAreSettled ==
    \A c \in Calls : reply[c] \in BodyReplies /\ c \notin expired =>
        /\ job[c] = "returned"
        /\ c \notin Holders
        /\ reply[c] = Answer(outcome[c])

(* The calls whose answer is their body's, and the bodies that failed with  *)
(* an exception the boundary has to sanitize.                               *)
Told == {c \in Calls : reply[c] \in BodyReplies /\ c \notin expired}
Sanitized(o) == o.exc \in ApiExceptions \cup {"OtherError"}

(* A Kubernetes failure reaches the client with an HTTP status: when the    *)
(* exception that left the body, or the one it was raised from, is of the   *)
(* apiserver, the client is told the status of one of the two, also when    *)
(* the tool wrapped it, or when the dynamic client or a second request      *)
(* raised it while another failure was being handled.  And no answer        *)
(* carries a status that the body did not meet.  Left out is an apiserver   *)
(* error raised while an error of another kind was being handled: it is     *)
(* told as that other one; and one that was wrapped twice is not seen.      *)
ApiStatusKept ==
    \A c \in Told :
        LET o == outcome[c]
            statuses == {o.exc, o.chain} \cap ApiExceptions
            hidden == /\ o.exc \in ApiExceptions
                      /\ o.chain \notin ApiExceptions \cup {Nothing}
        IN  /\ Sanitized(o) /\ statuses # {} /\ ~hidden => reply[c] \in statuses
            /\ reply[c] \in ApiExceptions => reply[c] \in statuses

(* With the wall-clock cap on, every admitted request is answered even if   *)
(* no tool body ever returns.                                               *)
EveryCallAnswered == \A c \in Calls : task[c] = "awaiting" ~> task[c] = "ended"

(* An admitted body starts at once even if every other body hangs for ever: *)
(* it is never queued behind an orphan.                                     *)
AdmittedStarts == \A c \in Calls : job[c] = "queued" ~> job[c] # "queued"

(* If the bodies end, every slot comes back, whatever became of the request *)
(* that took it: the server cannot be wedged into answering `busy` for ever.*)
SlotsComeBack == BodiesEnd => \A c \in Calls : c \in Holders ~> c \notin Holders

(***************************************************************************)
(* With the cap on, the boundary implements the abstract tool service.     *)
(***************************************************************************)
Service == INSTANCE ToolService WITH
    Capacity <- MaxConcurrentTools,
    work <- [c \in Calls |-> CASE job[c] = "none" -> "idle"
                               [] job[c] \in {"queued", "running"} -> "working"
                               [] OTHER -> "ended"],
    answer <- [c \in Calls |-> IF reply[c] = NoReply THEN "none"
                               ELSE IF reply[c] \in Refusals THEN "refused"
                               ELSE "given"]

(* Admission, timeout, cancellation and slot return together behave as a    *)
(* service with MaxConcurrentTools places that answers every call once.     *)
ImplementsService == Service!Spec
=============================================================================
