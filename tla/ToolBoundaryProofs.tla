------------------------- MODULE ToolBoundaryProofs -------------------------
(***************************************************************************)
(* Safety of the tool boundary for any set of requests and any pool size,  *)
(* alone and inside the life of the server process.                        *)
(*                                                                         *)
(* The semaphore, the job, the future and the coroutine of one request are *)
(* updated by different steps, so none of the properties is inductive on   *)
(* its own.  IInv adds how far the four may be apart.                      *)
(***************************************************************************)
EXTENDS ServerLifecycle, FiniteSetTheorems, SequenceTheorems, TLAPS

(* What the state of one request allows: its future exists as long as its   *)
(* job does, is done only once the job has returned, and is cancelled only  *)
(* when nothing shields it; the slot is released only after the future.     *)
FutureFollowsJob ==
    \A c \in Calls :
        /\ (fut[c] = "none") <=> (job[c] = "none")
        /\ fut[c] = "done" => job[c] = "returned"
        /\ fut[c] = "cancelled" => ~TimeoutOn
        /\ job[c] = "dropped" => fut[c] = "cancelled"
        /\ c \in released => fut[c] \in {"done", "cancelled"}

(* A coroutine that has not ended has given no answer; one that never       *)
(* submitted has no job; an answered one has ended.                         *)
TaskFollowsReply ==
    \A c \in Calls :
        /\ task[c] = "new" => job[c] = "none"
        /\ task[c] = "awaiting" => job[c] # "none"
        /\ task[c] # "ended" => reply[c] = NoReply
        /\ task[c] = "ended" => reply[c] # NoReply

(* What is known of a body's end is known from its return; a timer that     *)
(* fired was the request's answer.                                          *)
OutcomesInv ==
    \A c \in Calls :
        /\ outcome[c] # NoOutcome => job[c] = "returned"
        /\ c \in expired => task[c] = "ended" /\ reply[c] = "ToolTimeoutError"

(* No job waits outside the executor's queue.                               *)
QueueInv == \A c \in Calls : job[c] = "queued" => \E i \in 1..Len(queue) : queue[i] = c

IInv ==
    /\ TypeOK
    /\ SlotsBalance
    /\ FutureFollowsJob
    /\ TaskFollowsReply
    /\ RefusedNeverRuns
    /\ AnswersAreSettled

-----------------------------------------------------------------------------

(* Holders are requests, so there are finitely many of them.                *)
LEMMA HoldersFinite ==
    /\ IsFiniteSet(Holders)
    /\ Cardinality(Holders) \in Nat
    /\ \A c : c \notin Holders =>
           Cardinality(Holders \cup {c}) = Cardinality(Holders) + 1
    /\ \A c : c \in Holders =>
           Cardinality(Holders \ {c}) = Cardinality(Holders) - 1
<1>1. IsFiniteSet(Holders)
  BY BoundaryAssumption, FS_Subset DEF Holders
<1>2. QED
  BY <1>1, FS_CardinalityType, FS_AddElement, FS_RemoveElement

LEMMA InitIInv == Init => IInv
<1> SUFFICES ASSUME Init PROVE IInv
  OBVIOUS
<1>1. Holders = {}
  BY DEF Init, Holders
<1>2. Cardinality(Holders) = 0
  BY <1>1, FS_EmptySet
<1>3. TypeOK
  BY BoundaryAssumption DEF Init, TypeOK
<1>4. SlotsBalance
  BY <1>2, BoundaryAssumption DEF Init, SlotsBalance
<1>5. FutureFollowsJob /\ TaskFollowsReply
  BY DEF Init, FutureFollowsJob, TaskFollowsReply
<1>6. RefusedNeverRuns /\ AnswersAreSettled
  BY DEF Init, RefusedNeverRuns, AnswersAreSettled, Refusals, BodyReplies,
         ApiExceptions, NoReply
<1>7. QED
  BY <1>3, <1>4, <1>5, <1>6 DEF IInv

(* A step that leaves jobs' existence and the slot variables alone keeps    *)
(* the balance.                                                             *)
LEMMA BalanceKept ==
    ASSUME SlotsBalance, Holders' = Holders, slots' = slots, inFlight' = inFlight
    PROVE  SlotsBalance'
BY DEF SlotsBalance

LEMMA RefuseIInv ==
    ASSUME IInv, NEW c \in Calls, NEW r \in Refusals, Refuse(c, r)
    PROVE  IInv'
<1> USE DEF IInv, Refuse, Conclude, slotVars, workerVars
<1>1. TypeOK'
  BY DEF TypeOK, Replies
<1>2. SlotsBalance'
  BY BalanceKept DEF Holders
<1>3. FutureFollowsJob'
  BY DEF FutureFollowsJob
<1>4. r # NoReply /\ r \notin BodyReplies
  BY DEF Refusals, NoReply, BodyReplies, ApiExceptions
<1>5. TaskFollowsReply'
  BY <1>4 DEF TaskFollowsReply, TypeOK
<1>6. RefusedNeverRuns'
  BY DEF RefusedNeverRuns, TaskFollowsReply, TypeOK
<1>7. AnswersAreSettled'
  BY <1>4 DEF AnswersAreSettled, TypeOK, Holders
<1>8. QED
  BY <1>1, <1>2, <1>3, <1>5, <1>6, <1>7

LEMMA SubmitIInv ==
    ASSUME IInv, NEW c \in Calls, Submit(c)
    PROVE  IInv'
<1> USE DEF IInv, Submit
<1>1. job[c] = "none" /\ fut[c] = "none" /\ c \notin released /\ reply[c] = NoReply
  BY DEF TaskFollowsReply, FutureFollowsJob
<1>2. Holders' = Holders \cup {c} /\ c \notin Holders
  BY <1>1 DEF Holders, TypeOK
<1>3. SlotsBalance'
  <2>1. Cardinality(Holders') = Cardinality(Holders) + 1
    BY <1>2, HoldersFinite
  <2>2. slots' + Cardinality(Holders') = MaxConcurrentTools
    BY <2>1, HoldersFinite, BoundaryAssumption DEF SlotsBalance, TypeOK
  <2>3. inFlight' = Cardinality(Holders')
    BY <2>1 DEF SlotsBalance
  <2>4. QED
    BY <2>2, <2>3 DEF SlotsBalance
<1>4. TypeOK'
  <2>1. queue' \in Seq(Calls)
    BY DEF TypeOK
  <2>2. slots' \in 0..MaxConcurrentTools /\ inFlight' \in Nat
    BY BoundaryAssumption DEF TypeOK
  <2>3. QED
    BY <2>1, <2>2 DEF TypeOK
<1>5. FutureFollowsJob'
  BY <1>1 DEF FutureFollowsJob, TypeOK
<1>6. TaskFollowsReply'
  BY <1>1 DEF TaskFollowsReply, TypeOK
<1>7. RefusedNeverRuns'
  BY <1>1 DEF RefusedNeverRuns, TypeOK, Refusals, NoReply
<1>8. AnswersAreSettled'
  BY <1>1, <1>2 DEF AnswersAreSettled, TypeOK, BodyReplies, ApiExceptions, NoReply
<1>9. QED
  BY <1>3, <1>4, <1>5, <1>6, <1>7, <1>8

(* The worker's two steps move a job between states in which it exists and  *)
(* has not been delivered.                                                  *)
LEMMA StartIInv ==
    ASSUME IInv, Start
    PROVE  IInv'
<1> DEFINE h == Head(queue)
<1> USE DEF IInv, Start, requestVars, slotVars
<1>1. h \in Calls /\ queue' \in Seq(Calls)
  BY DEF TypeOK
<1>2. /\ job' \in [Calls -> {"none", "queued", "running", "returned", "dropped"}]
      /\ \A c \in Calls : job'[c] = job[c] \/ (job[c] = "queued" /\ job'[c] = "running")
  BY <1>1 DEF TypeOK
<1>3. Holders' = Holders
  BY <1>2 DEF Holders
<1>4. TypeOK'
  BY <1>1, <1>2 DEF TypeOK
<1>5. SlotsBalance'
  BY <1>3, BalanceKept
<1>6. FutureFollowsJob' /\ TaskFollowsReply'
  BY <1>2 DEF FutureFollowsJob, TaskFollowsReply
<1>7. RefusedNeverRuns' /\ AnswersAreSettled'
  BY <1>2, <1>3 DEF RefusedNeverRuns, AnswersAreSettled
<1>8. QED
  BY <1>4, <1>5, <1>6, <1>7

LEMMA FinishIInv ==
    ASSUME IInv, NEW c \in Calls, Finish(c)
    PROVE  IInv'
<1> USE DEF IInv, Finish, requestVars, slotVars
<1>1. PICK o \in Outcomes : outcome' = [outcome EXCEPT ![c] = o]
  OBVIOUS
<1>2. /\ job' = [job EXCEPT ![c] = "returned"]
      /\ job[c] = "running"
      /\ fut[c] \notin {"none", "done"}
      /\ c \in released => fut[c] = "cancelled"
  BY DEF FutureFollowsJob
<1>3. Holders' = Holders
  BY <1>2 DEF Holders, TypeOK
<1>4. TypeOK'
  BY <1>1, <1>2 DEF TypeOK
<1>5. SlotsBalance'
  BY <1>3, BalanceKept
<1>6. FutureFollowsJob' /\ TaskFollowsReply'
  BY <1>2 DEF FutureFollowsJob, TaskFollowsReply, TypeOK
<1>7. RefusedNeverRuns'
  BY <1>2 DEF RefusedNeverRuns, TypeOK
<1>8. AnswersAreSettled'
  BY <1>1, <1>2, <1>3 DEF AnswersAreSettled, TypeOK
<1>9. QED
  BY <1>4, <1>5, <1>6, <1>7, <1>8

LEMMA DeliverIInv ==
    ASSUME IInv, NEW c \in Calls, Deliver(c)
    PROVE  IInv'
<1> USE DEF IInv, Deliver, requestVars, slotVars, workerVars
<1>1. Holders' = Holders
  BY DEF Holders
<1>2. TypeOK'
  BY DEF TypeOK
<1>3. SlotsBalance'
  BY <1>1, BalanceKept
<1>4. FutureFollowsJob' /\ TaskFollowsReply'
  BY DEF FutureFollowsJob, TaskFollowsReply, TypeOK
<1>5. RefusedNeverRuns' /\ AnswersAreSettled'
  BY <1>1 DEF RefusedNeverRuns, AnswersAreSettled
<1>6. QED
  BY <1>2, <1>3, <1>4, <1>5

LEMMA ReleaseSlotIInv ==
    ASSUME IInv, NEW c \in Calls, ReleaseSlot(c)
    PROVE  IInv'
<1> USE DEF IInv, ReleaseSlot, requestVars
<1>1. /\ job' \in [Calls -> {"none", "queued", "running", "returned", "dropped"}]
      /\ \A d \in Calls : \/ job'[d] = job[d]
                          \/ job[d] = "queued" /\ job'[d] = "dropped" /\ fut[d] = "cancelled"
  BY DEF TypeOK
<1>2. c \in Holders /\ Holders' = Holders \ {c}
  <2>1. job[c] # "none"
    BY DEF FutureFollowsJob
  <2>2. QED
    BY <1>1, <2>1 DEF Holders
<1>3. /\ Cardinality(Holders') = Cardinality(Holders) - 1
      /\ Cardinality(Holders) \in Nat
      /\ Cardinality(Holders') \in Nat
  <2>1. IsFiniteSet(Holders')
    BY <1>2, HoldersFinite, FS_RemoveElement
  <2>2. QED
    BY <1>2, <2>1, HoldersFinite, FS_CardinalityType
<1>4. SlotsBalance'
  <2>1. inFlight = Cardinality(Holders) /\ slots + Cardinality(Holders) = MaxConcurrentTools
    BY DEF SlotsBalance
  <2>2. slots \in Int /\ MaxConcurrentTools \in Int
    BY BoundaryAssumption DEF TypeOK
  <2>3. inFlight' = inFlight - 1
    BY <1>3, <2>1 DEF InFlightDec
  <2>4. QED
    BY <1>3, <2>1, <2>2, <2>3 DEF SlotsBalance
<1>5. TypeOK'
  <2>1. slots' \in 0..MaxConcurrentTools /\ inFlight' \in Nat
    BY <1>3, <1>4, BoundaryAssumption DEF SlotsBalance, TypeOK
  <2>2. QED
    BY <1>1, <2>1 DEF TypeOK
<1>6. FutureFollowsJob' /\ TaskFollowsReply'
  BY <1>1 DEF FutureFollowsJob, TaskFollowsReply
<1>7. RefusedNeverRuns' /\ AnswersAreSettled'
  BY <1>1, <1>2 DEF RefusedNeverRuns, AnswersAreSettled
<1>8. QED
  BY <1>4, <1>5, <1>6, <1>7
LEMMA CompleteIInv ==
    ASSUME IInv, NEW c \in Calls, Complete(c)
    PROVE  IInv'
<1> USE DEF IInv, Complete, Conclude, slotVars, workerVars
<1>1. Holders' = Holders
  BY DEF Holders
<1>2. /\ job[c] = "returned"
      /\ c \notin Holders
  BY DEF FutureFollowsJob, Holders
<1>3. /\ Answer(outcome[c]) \in BodyReplies
      /\ Answer(outcome[c]) \notin Refusals \cup {NoReply}
  <2>1. \A o : Answer(o) \in BodyReplies
    BY DEF Answer, Sanitize, BodyReplies
  <2>2. BodyReplies \cap (Refusals \cup {NoReply}) = {}
    BY DEF BodyReplies, ApiExceptions, Refusals, NoReply
  <2>3. QED
    BY <2>1, <2>2
<1>4. TypeOK'
  BY <1>3 DEF TypeOK, Replies
<1>5. SlotsBalance'
  BY <1>1, BalanceKept
<1>6. FutureFollowsJob' /\ TaskFollowsReply'
  BY <1>3 DEF FutureFollowsJob, TaskFollowsReply, TypeOK
<1>7. RefusedNeverRuns'
  BY <1>3 DEF RefusedNeverRuns, TypeOK
<1>8. AnswersAreSettled'
  BY <1>1, <1>2 DEF AnswersAreSettled, TypeOK
<1>9. QED
  BY <1>4, <1>5, <1>6, <1>7, <1>8

LEMMA TimeOutIInv ==
    ASSUME IInv, NEW c \in Calls, TimeOut(c)
    PROVE  IInv'
<1> USE DEF IInv, TimeOut, Conclude, slotVars, workerVars
<1>1. Holders' = Holders
  BY DEF Holders
<1>2. "ToolTimeoutError" \in BodyReplies \ (Refusals \cup {NoReply})
  BY DEF BodyReplies, Refusals, NoReply
<1>3. TypeOK'
  BY <1>2 DEF TypeOK, Replies
<1>4. SlotsBalance'
  BY <1>1, BalanceKept
<1>5. FutureFollowsJob' /\ TaskFollowsReply'
  BY <1>2 DEF FutureFollowsJob, TaskFollowsReply, TypeOK
<1>6. RefusedNeverRuns'
  BY <1>2 DEF RefusedNeverRuns, TypeOK
<1>7. AnswersAreSettled'
  BY <1>1 DEF AnswersAreSettled, TypeOK
<1>8. QED
  BY <1>3, <1>4, <1>5, <1>6, <1>7

LEMMA CancelIInv ==
    ASSUME IInv, NEW c \in Calls, Cancel(c)
    PROVE  IInv'
<1> USE DEF IInv, Cancel, Conclude, slotVars, workerVars
<1>1. Holders' = Holders
  BY DEF Holders
<1>2. "cancelled" \notin BodyReplies \cup Refusals \cup {NoReply}
  BY DEF BodyReplies, ApiExceptions, Refusals, NoReply
<1>3. /\ fut' \in [Calls -> {"none", "pending", "done", "cancelled"}]
      /\ \A d \in Calls : \/ fut'[d] = fut[d]
                          \/ ~TimeoutOn /\ fut[d] = "pending" /\ fut'[d] = "cancelled"
  BY DEF TypeOK
<1>4. TypeOK'
  BY <1>3 DEF TypeOK, Replies
<1>5. SlotsBalance'
  BY <1>1, BalanceKept
<1>6. FutureFollowsJob'
  BY <1>3 DEF FutureFollowsJob
<1>7. TaskFollowsReply'
  BY <1>2 DEF TaskFollowsReply, TypeOK
<1>8. RefusedNeverRuns'
  BY <1>2 DEF RefusedNeverRuns, TypeOK
<1>9. AnswersAreSettled'
  BY <1>1, <1>2 DEF AnswersAreSettled, TypeOK
<1>10. QED
  BY <1>4, <1>5, <1>6, <1>7, <1>8, <1>9

LEMMA NextIInv == IInv /\ [Next]_vars => IInv'
<1> SUFFICES ASSUME IInv, [Next]_vars PROVE IInv'
  OBVIOUS
<1>1. CASE Start
  BY <1>1, StartIInv
<1>2. ASSUME NEW c \in Calls, Admission(c)
      PROVE  IInv'
  <2>1. CASE RefuseRate(c)
    BY <2>1, RefuseIInv DEF RefuseRate, Refusals
  <2>2. CASE RefuseUnknown(c)
    BY <2>2, RefuseIInv DEF RefuseUnknown, Refusals
  <2>3. CASE RefuseBusy(c)
    BY <2>3, RefuseIInv DEF RefuseBusy, Refusals
  <2>4. CASE SubmitFails(c)
    BY <2>4, RefuseIInv DEF SubmitFails, Refusals
  <2>5. CASE Submit(c)
    BY <2>5, SubmitIInv
  <2>6. QED
    BY <1>2, <2>1, <2>2, <2>3, <2>4, <2>5 DEF Admission
<1>3. ASSUME NEW c \in Calls, Finish(c)
      PROVE  IInv'
  BY <1>3, FinishIInv
<1>4. ASSUME NEW c \in Calls, Loop(c)
      PROVE  IInv'
  BY <1>4, DeliverIInv, ReleaseSlotIInv, CompleteIInv, TimeOutIInv DEF Loop
<1>5. ASSUME NEW c \in Calls, Cancel(c)
      PROVE  IInv'
  BY <1>5, CancelIInv
<1>6. CASE UNCHANGED vars
  BY <1>6 DEF vars, IInv, TypeOK, SlotsBalance, Holders, FutureFollowsJob,
              TaskFollowsReply, RefusedNeverRuns, AnswersAreSettled
<1>7. QED
  BY <1>1, <1>2, <1>3, <1>4, <1>5, <1>6 DEF Next

LEMMA BoundaryInvariant == Spec => []IInv
BY InitIInv, NextIInv, PTL DEF Spec

(* Two more invariants, which need the first.                               *)
LEMMA NextOutcomesInv ==
    ASSUME IInv, OutcomesInv, [Next]_vars
    PROVE  OutcomesInv'
<1> USE DEF OutcomesInv
<1>1. CASE Start
  <2>1. Head(queue) \in Calls
    BY <1>1 DEF Start, IInv, TypeOK
  <2>2. \A c \in Calls : job[c] = "returned" => job'[c] = "returned"
    BY <1>1, <2>1 DEF Start, IInv, TypeOK
  <2> QED BY <1>1, <2>2 DEF Start, requestVars
<1>2. ASSUME NEW c \in Calls, NEW r, Refuse(c, r) PROVE OutcomesInv'
  BY <1>2 DEF Refuse, Conclude, workerVars, IInv, TypeOK
<1>3. ASSUME NEW c \in Calls, Submit(c) PROVE OutcomesInv'
  BY <1>3 DEF Submit, IInv, TypeOK, TaskFollowsReply
<1>4. ASSUME NEW c \in Calls, Finish(c) PROVE OutcomesInv'
  BY <1>4 DEF Finish, requestVars, IInv, TypeOK
<1>5. ASSUME NEW c \in Calls, Deliver(c) \/ ReleaseSlot(c) PROVE OutcomesInv'
  <2>1. \A d \in Calls : job[d] = "returned" => job'[d] = "returned"
    BY <1>5 DEF Deliver, ReleaseSlot, workerVars, IInv, TypeOK
  <2> QED BY <1>5, <2>1 DEF Deliver, ReleaseSlot, requestVars, workerVars
<1>6. ASSUME NEW c \in Calls, Complete(c) \/ TimeOut(c) \/ Cancel(c) PROVE OutcomesInv'
  BY <1>6 DEF Complete, TimeOut, Cancel, Conclude, workerVars, IInv, TypeOK
<1>7. CASE UNCHANGED vars
  BY <1>7 DEF vars
<1> QED BY <1>1, <1>2, <1>3, <1>4, <1>5, <1>6, <1>7
        DEF Next, Admission, Loop, RefuseRate, RefuseUnknown, RefuseBusy, SubmitFails

(* A worker takes the head of the queue; everybody else moves up.           *)
LEMMA NextQueueInv ==
    ASSUME IInv, QueueInv, [Next]_vars
    PROVE  QueueInv'
<1>1. CASE Start
  <2>1. /\ queue \in Seq(Calls) /\ queue # <<>> /\ Head(queue) \in Calls
        /\ Head(queue) = queue[1] /\ Len(queue) \in Nat
        /\ queue' = Tail(queue)
    BY <1>1 DEF Start, IInv, TypeOK
  <2>2. /\ Len(queue') = Len(queue) - 1
        /\ \A i \in 1..(Len(queue) - 1) : queue'[i] = queue[i + 1]
    BY <2>1
  <2>3. \A c \in Calls : job'[c] = "queued" => job[c] = "queued" /\ c # Head(queue)
    BY <1>1, <2>1 DEF Start, IInv, TypeOK
  <2>4. ASSUME NEW c \in Calls, job'[c] = "queued"
        PROVE  \E i \in 1..Len(queue') : queue'[i] = c
    <3>1. PICK i \in 1..Len(queue) : queue[i] = c
      BY <2>3, <2>4 DEF QueueInv
    <3>2. i # 1
      BY <2>1, <2>3, <2>4, <3>1
    <3>3. i - 1 \in 1..(Len(queue) - 1) /\ (i - 1) + 1 = i
      BY <2>1, <3>2
    <3>4. queue'[i - 1] = c
      BY <2>2, <3>1, <3>3
    <3> QED BY <2>2, <3>3, <3>4
  <2> QED BY <2>4 DEF QueueInv
<1>2. ASSUME NEW c \in Calls, Submit(c) PROVE QueueInv'
  <2>1. /\ queue \in Seq(Calls) /\ queue' = Append(queue, c) /\ Len(queue) \in Nat
    BY <1>2 DEF Submit, IInv, TypeOK
  <2>2. /\ Len(queue') = Len(queue) + 1 /\ queue'[Len(queue) + 1] = c
        /\ \A i \in 1..Len(queue) : queue'[i] = queue[i]
    BY <2>1
  <2>3. \A d \in Calls : d # c => job'[d] = job[d]
    BY <1>2 DEF Submit, IInv, TypeOK
  <2>4. 1..Len(queue) \subseteq 1..Len(queue') /\ Len(queue) + 1 \in 1..Len(queue')
    BY <2>1, <2>2
  <2> QED BY <2>2, <2>3, <2>4 DEF QueueInv
<1>3. ASSUME UNCHANGED queue, \A d \in Calls : job'[d] = "queued" => job[d] = "queued"
      PROVE  QueueInv'
  BY <1>3 DEF QueueInv
<1>4. ASSUME NEW c \in Calls, NEW r, Refuse(c, r) PROVE QueueInv'
  BY <1>3, <1>4 DEF Refuse, workerVars
<1>5. ASSUME NEW c \in Calls, Finish(c) \/ Loop(c) \/ Cancel(c) PROVE QueueInv'
  BY <1>3, <1>5 DEF Finish, Loop, Deliver, ReleaseSlot, Complete, TimeOut, Cancel,
                    workerVars, IInv, TypeOK
<1>6. CASE UNCHANGED vars
  BY <1>3, <1>6 DEF vars
<1> QED BY <1>1, <1>2, <1>4, <1>5, <1>6
        DEF Next, Admission, RefuseRate, RefuseUnknown, RefuseBusy, SubmitFails

LEMMA ReportsInvariant == Spec => [](IInv /\ OutcomesInv /\ QueueInv)
<1>1. Init => OutcomesInv /\ QueueInv
  BY DEF Init, OutcomesInv, QueueInv
<1> QED BY <1>1, InitIInv, NextIInv, NextOutcomesInv, NextQueueInv, PTL DEF Spec

-----------------------------------------------------------------------------

(* Every variable keeps its type; in particular the semaphore is never      *)
(* released above its bound, whichever of its paths a request takes.        *)
THEOREM TypeCorrect == Spec => []TypeOK
<1>1. IInv => TypeOK
  BY DEF IInv
<1>2. QED
  BY <1>1, BoundaryInvariant, PTL

(* The semaphore and the in-flight counter both count the requests whose    *)
(* slot is out (server.py:191-208).                                         *)
THEOREM SlotsStayBalanced == Spec => []SlotsBalance
<1>1. IInv => SlotsBalance
  BY DEF IInv
<1>2. QED
  BY <1>1, BoundaryInvariant, PTL

(* A refused request never has a job on the pool.                           *)
THEOREM RefusedStaysOff == Spec => []RefusedNeverRuns
<1>1. IInv => RefusedNeverRuns
  BY DEF IInv
<1>2. QED
  BY <1>1, BoundaryInvariant, PTL

(* An answer that came from the body is that body's own, and its slot has   *)
(* been given back.                                                         *)
THEOREM AnswersSettled == Spec => []AnswersAreSettled
<1>1. IInv => AnswersAreSettled
  BY DEF IInv
<1>2. QED
  BY <1>1, BoundaryInvariant, PTL

(* With the cap on every future is shielded: an unfinished body is a slot   *)
(* holder.                                                                 *)
LEMMA OrphansHoldSlots ==
    ASSUME TimeoutOn, IInv
    PROVE  NoBacklog
<1>1. Unfinished \subseteq Holders
  BY TimeoutOn DEF IInv, FutureFollowsJob, Unfinished, Holders
<1>2. Cardinality(Unfinished) <= Cardinality(Holders) /\ Cardinality(Unfinished) \in Nat
  BY <1>1, HoldersFinite, FS_Subset, FS_CardinalityType
<1>3. Cardinality(Holders) <= MaxConcurrentTools
  BY HoldersFinite, BoundaryAssumption DEF IInv, SlotsBalance, TypeOK
<1> QED BY <1>2, <1>3, HoldersFinite, BoundaryAssumption DEF NoBacklog

(* With the cap on there are at most MaxConcurrentTools unfinished bodies,  *)
(* whatever requests time out or are cancelled (server.py:187-190).         *)
THEOREM OrphansBounded ==
    ASSUME TimeoutOn
    PROVE  Spec => []NoBacklog
<1>1. IInv => NoBacklog
  BY OrphansHoldSlots
<1> QED BY <1>1, BoundaryInvariant, PTL

(* The safety half of `an admitted body starts at once`: whatever else      *)
(* hangs, a worker is free for it and the queue is not empty.               *)
AdmittedHasWorker ==
    \A c \in Calls : job[c] = "queued" =>
        queue # <<>> /\ Cardinality(Running) < MaxConcurrentTools

LEMMA WorkerIsFree ==
    ASSUME TimeoutOn, IInv, QueueInv
    PROVE  AdmittedHasWorker
<1> SUFFICES ASSUME NEW c \in Calls, job[c] = "queued"
             PROVE  queue # <<>> /\ Cardinality(Running) < MaxConcurrentTools
  BY DEF AdmittedHasWorker
<1>1. queue # <<>>
  BY DEF QueueInv
<1>2. /\ Running \subseteq Unfinished
      /\ c \in Unfinished \ Running
      /\ IsFiniteSet(Unfinished)
  BY BoundaryAssumption, FS_Subset DEF Running, Unfinished
<1>3. /\ Cardinality(Running) < Cardinality(Unfinished)
      /\ Cardinality(Running) \in Nat /\ Cardinality(Unfinished) \in Nat
  <2>1. Cardinality(Unfinished \ {c}) = Cardinality(Unfinished) - 1
    BY <1>2, FS_RemoveElement
  <2>2. Cardinality(Running) <= Cardinality(Unfinished \ {c})
    BY <1>2, FS_Subset, Running \subseteq Unfinished \ {c}, IsFiniteSet(Unfinished \ {c})
  <2>3. Cardinality(Running) \in Nat /\ Cardinality(Unfinished) \in Nat
    BY <1>2, FS_Subset, FS_CardinalityType
  <2> QED BY <2>1, <2>2, <2>3
<1>4. Cardinality(Unfinished) <= MaxConcurrentTools
  BY OrphansHoldSlots DEF NoBacklog
<1> QED BY <1>1, <1>3, <1>4, BoundaryAssumption

(* With the cap on, an admitted body is never queued behind an orphan: all  *)
(* it waits for is that a worker thread takes it (server.py:95-97).         *)
THEOREM AdmittedFindsWorker ==
    ASSUME TimeoutOn
    PROVE  Spec => []AdmittedHasWorker
<1>1. IInv /\ QueueInv => AdmittedHasWorker
  BY WorkerIsFree
<1> QED BY <1>1, ReportsInvariant, PTL

(* The safety half of `every slot comes back`: a slot that is out belongs   *)
(* to a body that is queued or running, or whose result is on its way to a  *)
(* future, or to a future whose callback is about to give it back.          *)
SlotsAreOwed ==
    \A c \in Holders :
        \/ job[c] = "queued" /\ \E i \in 1..Len(queue) : queue[i] = c
        \/ job[c] = "running"
        \/ job[c] = "returned" /\ fut[c] = "pending"
        \/ fut[c] \in {"done", "cancelled"}

(* No path through call_tool loses a slot: not submission that fails, a     *)
(* timeout, or a cancellation, with the cap or without (server.py:187-208). *)
THEOREM NoSlotIsLost == Spec => []SlotsAreOwed
<1>1. IInv /\ QueueInv => SlotsAreOwed
  <2> SUFFICES ASSUME IInv, QueueInv, NEW c \in Holders
               PROVE  \/ job[c] = "queued" /\ \E i \in 1..Len(queue) : queue[i] = c
                      \/ job[c] = "running"
                      \/ job[c] = "returned" /\ fut[c] = "pending"
                      \/ fut[c] \in {"done", "cancelled"}
    BY DEF SlotsAreOwed
  <2>1. c \in Calls /\ job[c] # "none"
    BY DEF Holders
  <2>2. fut[c] \in {"pending", "done", "cancelled"}
    BY <2>1 DEF IInv, TypeOK, FutureFollowsJob
  <2>3. job[c] \in {"queued", "running", "returned", "dropped"}
    BY <2>1 DEF IInv, TypeOK
  <2> QED BY <2>1, <2>2, <2>3 DEF IInv, FutureFollowsJob, QueueInv
<1> QED BY <1>1, ReportsInvariant, PTL

(* What the answer to a sanitized failure is: the cause, if it is of the    *)
(* apiserver, else a word that is no status.                                *)
LEMMA SanitizedAnswer ==
    ASSUME NEW o \in Outcome, Sanitized(o)
    PROVE  /\ Answer(o) = Sanitize(Cause(o))
           /\ Cause(o) \in {o.exc, o.chain}
           /\ "internal" \notin ApiExceptions
  BY DEF Outcome, Sanitized, Answer, Cause, ApiExceptions, BuiltinExceptions,
         Exceptions, Value

(* The other outcomes are answered with words that are no status.           *)
LEMMA OtherAnswer ==
    ASSUME NEW o \in Outcome, ~Sanitized(o)
    PROVE  Answer(o) \notin ApiExceptions
  BY DEF Outcome, Sanitized, Answer, ApiExceptions, BuiltinExceptions,
         Exceptions, Value

LEMMA StatusKept == IInv /\ OutcomesInv => ApiStatusKept
<1> SUFFICES ASSUME IInv, OutcomesInv, NEW c \in Told
             PROVE  LET o == outcome[c]
                        statuses == {o.exc, o.chain} \cap ApiExceptions
                        hidden == /\ o.exc \in ApiExceptions
                                  /\ o.chain \notin ApiExceptions \cup {Nothing}
                    IN  /\ Sanitized(o) /\ statuses # {} /\ ~hidden =>
                              reply[c] \in statuses
                        /\ reply[c] \in ApiExceptions => reply[c] \in statuses
  BY DEF ApiStatusKept
<1>1. c \in Calls /\ reply[c] = Answer(outcome[c])
  BY DEF Told, IInv, AnswersAreSettled
<1>2. CASE outcome[c] = NoOutcome
  BY <1>1, <1>2
     DEF NoOutcome, Sanitized, Answer, Cause, Sanitize, ApiExceptions, Nothing,
         Value
<1>3. CASE outcome[c] \in Outcome
  <2>1. CASE Sanitized(outcome[c])
    <3>1. /\ reply[c] = Sanitize(Cause(outcome[c]))
          /\ Cause(outcome[c]) \in {outcome[c].exc, outcome[c].chain}
          /\ "internal" \notin ApiExceptions
      BY <1>1, <1>3, <2>1, SanitizedAnswer
    <3>2. Nothing \notin ApiExceptions BY DEF Nothing, ApiExceptions
    <3> QED BY <3>1, <3>2, <2>1 DEF Sanitize, Cause, Sanitized
  <2>2. CASE ~Sanitized(outcome[c])
    BY <1>1, <1>3, <2>2, OtherAnswer
  <2> QED BY <2>1, <2>2
<1>4. outcome[c] \in Outcome \cup {NoOutcome}
  BY <1>1, BoundaryAssumption DEF IInv, TypeOK
<1> QED BY <1>2, <1>3, <1>4

(* A Kubernetes failure is not lost on the way to the client: an answer     *)
(* that is the body's carries the status of the exception that left the     *)
(* body or of the one it was raised from, for all statuses, wrappers and    *)
(* errors raised while another was handled, unless an error of another kind *)
(* was; and it carries no status the body did not meet (server.py:222-257). *)
THEOREM StatusesReachTheClient == Spec => []ApiStatusKept
BY ReportsInvariant, StatusKept, PTL

-----------------------------------------------------------------------------
(* The same inside the process that serves, drains and exits.              *)

(* While it serves, the process takes the boundary's steps; while it drains *)
(* it takes those of its worker threads; else the boundary stands still.    *)
LEMMA LifeStep == [LNext]_allVars => [Next]_vars
BY DEF LNext, Serve, Drain, Signal, InputCloses, Exit, Next, allVars

LEMMA LifeInvariant == LSpec => [](IInv /\ OutcomesInv /\ QueueInv)
<1>1. LInit => IInv /\ OutcomesInv /\ QueueInv
  <2>1. Init => OutcomesInv /\ QueueInv
    BY DEF Init, OutcomesInv, QueueInv
  <2> QED BY <2>1, InitIInv DEF LInit
<1>2. ASSUME IInv, OutcomesInv, QueueInv, [LNext]_allVars
      PROVE  (IInv /\ OutcomesInv /\ QueueInv)'
  BY <1>2, LifeStep, NextIInv, NextOutcomesInv, NextQueueInv
<1> QED BY <1>1, <1>2, PTL DEF LSpec

(* Signals, the end of the input and the draining of the pool disturb none  *)
(* of the boundary's guarantees.                                            *)
THEOREM BoundaryHoldsForLife ==
    LSpec => [](SlotsBalance /\ AnswersAreSettled /\ ApiStatusKept /\ RefusedNeverRuns)
<1>1. IInv => SlotsBalance /\ AnswersAreSettled /\ RefusedNeverRuns
  BY DEF IInv
<1> QED BY <1>1, LifeInvariant, StatusKept, PTL

(* Nor does a process that is told to stop pile up orphans.                 *)
THEOREM OrphansBoundedForLife ==
    ASSUME TimeoutOn
    PROVE  LSpec => []NoBacklog
<1>1. IInv => NoBacklog
  BY OrphansHoldSlots
<1> QED BY <1>1, LifeInvariant, PTL

-----------------------------------------------------------------------------

(***************************************************************************)
(* Refinement: the initial state and every step of the boundary is one of  *)
(* the abstract service (its liveness is checked by TLC).                  *)
(***************************************************************************)
Work == [c \in Calls |-> CASE job[c] = "none" -> "idle"
                           [] job[c] \in {"queued", "running"} -> "working"
                           [] OTHER -> "ended"]

AnswerGiven == [c \in Calls |-> IF reply[c] = NoReply THEN "none"
                                ELSE IF reply[c] \in Refusals THEN "refused"
                                ELSE "given"]

LEMMA RefuseRefines ==
    ASSUME IInv, NEW c \in Calls, NEW r \in Refusals, Refuse(c, r)
    PROVE  Service!Refuse(c)
<1> USE DEF IInv, Refuse, Conclude, slotVars, workerVars
<1>1. job[c] = "none" /\ reply[c] = NoReply /\ r # NoReply
  BY DEF TaskFollowsReply, Refusals, NoReply
<1>2. Work[c] = "idle" /\ AnswerGiven[c] = "none" /\ Work' = Work
  BY <1>1 DEF Work, AnswerGiven
<1>3. AnswerGiven' = [AnswerGiven EXCEPT ![c] = "refused"]
  BY <1>1 DEF AnswerGiven, TypeOK
<1>4. QED
  BY <1>2, <1>3 DEF Service!Refuse, Work, AnswerGiven

(* A call that was admitted and not refused may be answered.                *)
LEMMA ConcludeRefines ==
    ASSUME IInv, NEW c \in Calls, NEW r \in BodyReplies \cup {"cancelled"},
           task[c] = "awaiting", Conclude(c, r), UNCHANGED job
    PROVE  Service!Give(c)
<1> USE DEF IInv, Conclude
<1>1. job[c] # "none" /\ reply[c] = NoReply
  BY DEF TaskFollowsReply
<1>2. r \notin Refusals /\ r # NoReply
  BY DEF Refusals, NoReply, BodyReplies, ApiExceptions
<1>3. Work[c] # "idle" /\ AnswerGiven[c] = "none" /\ Work' = Work
  BY <1>1 DEF Work, AnswerGiven
<1>4. AnswerGiven' = [AnswerGiven EXCEPT ![c] = "given"]
  BY <1>2 DEF AnswerGiven, TypeOK
<1>5. QED
  BY <1>3, <1>4 DEF Service!Give, Work, AnswerGiven

LEMMA SubmitRefines ==
    ASSUME TimeoutOn, IInv, NEW c \in Calls, Submit(c)
    PROVE  Service!Accept(c)
<1> USE DEF IInv, Submit
<1>1. job[c] = "none" /\ reply[c] = NoReply
  BY DEF TaskFollowsReply
<1>2. Work[c] = "idle" /\ AnswerGiven[c] = "none" /\ AnswerGiven' = AnswerGiven
  BY <1>1 DEF Work, AnswerGiven
<1>3. Work' = [Work EXCEPT ![c] = "working"]
  BY DEF Work, TypeOK
<1>4. Cardinality(Unfinished) < MaxConcurrentTools
  <2>1. Unfinished \subseteq Holders
    BY TimeoutOn DEF FutureFollowsJob, Unfinished, Holders
  <2>2. Cardinality(Unfinished) <= Cardinality(Holders) /\ Cardinality(Unfinished) \in Nat
    BY <2>1, HoldersFinite, FS_Subset, FS_CardinalityType
  <2>3. Cardinality(Holders) < MaxConcurrentTools
    BY HoldersFinite, BoundaryAssumption DEF SlotsBalance, TypeOK
  <2>4. QED
    BY <2>2, <2>3, HoldersFinite, BoundaryAssumption
<1>5. Service!Working = Unfinished
  BY DEF Service!Working, Unfinished
<1>6. Service!Cardinality(Unfinished) = Cardinality(Unfinished)
  BY DEF Service!Cardinality, Cardinality
<1>7. Service!Cardinality(Service!Working) < MaxConcurrentTools
  BY <1>4, <1>5, <1>6
<1> HIDE DEF IInv, Submit
<1>8. QED
  BY <1>2, <1>3, <1>7 DEF Service!Accept, Work, AnswerGiven

LEMMA FinishRefines ==
    ASSUME IInv, NEW c \in Calls, Finish(c)
    PROVE  Service!End(c)
<1> USE DEF IInv, Finish, requestVars
<1>1. Work[c] = "working" /\ AnswerGiven' = AnswerGiven
  BY DEF Work, AnswerGiven
<1>2. Work' = [Work EXCEPT ![c] = "ended"]
  BY DEF Work, TypeOK
<1>3. QED
  BY <1>1, <1>2 DEF Service!End, Work, AnswerGiven

LEMMA StepRefines ==
    ASSUME TimeoutOn, IInv, [Next]_vars
    PROVE  [Service!Next]_(Service!vars)
<1>1. CASE Start
  <2>1. Head(queue) \in Calls
    BY <1>1 DEF Start, IInv, TypeOK
  <2>2. Work' = Work /\ AnswerGiven' = AnswerGiven
    BY <1>1, <2>1 DEF Start, Work, AnswerGiven, IInv, TypeOK, requestVars
  <2>3. QED
    BY <2>2 DEF Service!vars, Work, AnswerGiven
<1>2. ASSUME NEW c \in Calls, Admission(c)
      PROVE  Service!Next
  <2>1. Service!Refuse(c) \/ Service!Accept(c)
    BY <1>2, RefuseRefines, SubmitRefines
       DEF Admission, RefuseRate, RefuseUnknown, RefuseBusy, SubmitFails, Refusals
  <2>2. QED
    BY <2>1 DEF Service!Next
<1>3. ASSUME NEW c \in Calls, Finish(c)
      PROVE  Service!Next
  BY <1>3, FinishRefines DEF Service!Next
<1>4. ASSUME NEW c \in Calls, Deliver(c) \/ ReleaseSlot(c)
      PROVE  UNCHANGED Service!vars
  <2>1. job' = job /\ reply' = reply
    BY <1>4, TimeoutOn
       DEF Deliver, ReleaseSlot, requestVars, workerVars, IInv, FutureFollowsJob, TypeOK
  <2>2. QED
    BY <2>1 DEF Service!vars
<1>5. ASSUME NEW c \in Calls, Complete(c) \/ TimeOut(c) \/ Cancel(c)
      PROVE  Service!Next
  <2>1. PICK r \in BodyReplies \cup {"cancelled"} :
            task[c] = "awaiting" /\ Conclude(c, r) /\ UNCHANGED job
    <3>1. Answer(outcome[c]) \in BodyReplies /\ "ToolTimeoutError" \in BodyReplies
      BY DEF Answer, Sanitize, BodyReplies
    <3>2. QED
      BY <1>5, <3>1 DEF Complete, TimeOut, Cancel, workerVars
  <2>2. QED
    BY <2>1, ConcludeRefines DEF Service!Next
<1>6. CASE UNCHANGED vars
  BY <1>6 DEF vars, Service!vars
<1>7. QED
  BY <1>1, <1>2, <1>3, <1>4, <1>5, <1>6 DEF Next, Loop

(* With the cap on, whatever the boundary does is allowed by the abstract   *)
(* service: at most MaxConcurrentTools bodies at work, a refused call never *)
(* works, each call answered at most once.                                  *)
THEOREM BoundaryRefinesService ==
    ASSUME TimeoutOn
    PROVE  Spec => Service!Init /\ [][Service!Next]_(Service!vars)
<1>1. Init => Service!Init
  BY DEF Init, Service!Init
<1>2. IInv /\ [Next]_vars => [Service!Next]_(Service!vars)
  BY StepRefines
<1>3. QED
  BY <1>1, <1>2, BoundaryInvariant, PTL DEF Spec

(* A process that is told to stop, or whose input ends, remains that        *)
(* service until it is gone.                                                *)
THEOREM LifeRefinesService ==
    ASSUME TimeoutOn
    PROVE  LSpec => Service!Init /\ [][Service!Next]_(Service!vars)
<1>1. LInit => Service!Init
  BY DEF LInit, Init, Service!Init
<1>2. IInv /\ [LNext]_allVars => [Service!Next]_(Service!vars)
  BY LifeStep, StepRefines
<1>3. QED
  BY <1>1, <1>2, LifeInvariant, PTL DEF LSpec
=============================================================================
