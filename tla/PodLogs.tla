------------------------------ MODULE PodLogs ------------------------------
(***************************************************************************)
(* tools/logs.py, get_pod_logs.  A record is one line of a log: its pod,   *)
(* its time (NoTime when it has none), whether the pattern is found in it, *)
(* its size in bytes as it is written to the answer, and how many of these *)
(* there are from its first character of several bytes on.  The log of a   *)
(* pod is a sequence of records, or Missing (404), Rejected (400) or       *)
(* Broken (any other error).                                               *)
(***************************************************************************)
EXTENDS Integers, Sequences, FiniteSets, SequencesExt

CONSTANTS NoTime, Missing, Rejected, Broken

ErrorSize == 9        (* bytes of the line that stands for a skipped pod     *)
HardCap == 1000       (* MAX_BYTES_HARD_CAP, scaled                          *)
ParallelThreshold == 3

(* What the log of one of these pods is made of.                            *)
Records(pods) ==
    [pod : pods, time : {NoTime} \cup Int, hit : BOOLEAN, size : Nat, wide : Nat]

(* The arguments that are accepted; None of them for NoTime.                *)
Accepts(q) ==
    /\ q.byName # q.bySelector
    /\ q.maxBytes <= HardCap
    /\ q.since = NoTime \/ ~q.sinceSeconds
    /\ q.strict => {q.since, q.until} # {NoTime}
    /\ NoTime \notin {q.since, q.until} => q.since <= q.until

(***************************************************************************)
(* Fetching.                                                               *)
(***************************************************************************)
Skipped(pod) ==
    <<[pod |-> pod, time |-> NoTime, hit |-> FALSE, size |-> ErrorSize, wide |-> 0]>>
Fetched(pod, log) == IF log \in {Missing, Rejected} THEN Skipped(pod) ELSE log

(* Few pods are asked one after the other; the first Broken one ends it.    *)
FetchSerially(pods, log) ==
    IF \E i \in DOMAIN pods : log[pods[i]] = Broken
    THEN Broken
    ELSE FlattenSeq([i \in DOMAIN pods |-> Fetched(pods[i], log[pods[i]])])

(* A faulty form: the logs are put together as they arrive.                 *)
FetchAsTheyCome(pods, log, order) ==
    IF \E i \in DOMAIN pods : log[pods[i]] = Broken
    THEN Broken
    ELSE FlattenSeq([i \in DOMAIN pods |-> Fetched(pods[order[i]], log[pods[order[i]]])])

(* Many pods are asked by a pool of threads that answer in any order.       *)
FetchInParallel(pods, log, order) ==
    LET perPod == FoldLeft(LAMBDA f, i : [f EXCEPT ![i] = Fetched(pods[i], log[pods[i]])],
                           [i \in DOMAIN pods |-> <<>>], order)
    IN  IF \E i \in DOMAIN pods : log[pods[i]] = Broken
        THEN Broken
        ELSE FlattenSeq(perPod)

FetchMulti(pods, log, order) ==
    IF Len(pods) < ParallelThreshold
    THEN FetchSerially(pods, log)
    ELSE FetchInParallel(pods, log, order)

(* One pod by its name: here an error is an error.                          *)
FetchSingle(log) == log

Fetch(q, pods, log, order) ==
    IF q.bySelector THEN FetchMulti(pods, log, order) ELSE FetchSingle(log[pods[1]])

(***************************************************************************)
(* Filtering.                                                              *)
(***************************************************************************)
InWindow(r, since, until, strict) ==
    IF r.time = NoTime THEN ~strict
    ELSE (since = NoTime \/ since <= r.time) /\ (until = NoTime \/ r.time <= until)

(* The records at some of the positions.                                    *)
Selected(records, S) ==
    FlattenSeq([i \in DOMAIN records |-> IF i \in S THEN <<records[i]>> ELSE <<>>])

FilterByTime(records, q) ==
    IF {q.since, q.until} = {NoTime} THEN records
    ELSE Selected(records, {i \in DOMAIN records : InWindow(records[i], q.since, q.until, q.strict)})

Around(records, context) ==
    {i \in DOMAIN records :
        \E j \in DOMAIN records : records[j].hit /\ j - context <= i /\ i <= j + context}

FilterWithContext(records, context) ==
    Selected(records, Around(records, IF context < 0 THEN 0 ELSE context))

(* What is asked for: first the window, then the pattern.                   *)
Found(q, fetched) ==
    LET inTime == FilterByTime(fetched, q)
    IN  IF q.pattern THEN FilterWithContext(inTime, q.context) ELSE inTime

(***************************************************************************)
(* The byte budget.  Lines are joined by one newline each.  An answer has  *)
(* the last `part` bytes of a line that was cut, then the `lines`.  Where  *)
(* the cut is in the middle of a character, each of the `orphans`, the     *)
(* bytes that are left of it, is replaced by one of OrphanSize bytes.      *)
(***************************************************************************)
OrphanSize == 3       (* bytes of U+FFFD, as decode(errors="replace") has it *)

Sizes(records) == FoldSeq(LAMBDA r, n : n + r.size, 0, records)
TextSize(records) == Sizes(records) + (IF records = <<>> THEN 0 ELSE Len(records) - 1)

(* The position of the newline after the i-th line.                         *)
NewlineAfter(records, i) == TextSize(SubSeq(records, 1, i))
Tail_(records, i) == SubSeq(records, i, Len(records))

Whole_(records) == [lines |-> records, part |-> 0, orphans |-> 0, truncated |-> FALSE]

(* Of a line that is cut, the first bytes left may be of a character whose  *)
(* first byte is cut off.                                                   *)
Orphans(record, part) ==
    {o \in 0..3 : o = 0 \/ (o <= part /\ part < record.wide)}

(* A faulty form: the answer begins wherever the budget ends.               *)
SerializeTextRaw(records, max) ==
    LET cut == TextSize(records) - max
        later == {i \in 1..(Len(records) - 1) : NewlineAfter(records, i) >= cut}
        first == IF later = {} THEN Len(records) ELSE CHOOSE i \in later : \A j \in later : i <= j
        offset == NewlineAfter(records, first) - cut
    IN  IF cut <= 0 THEN {Whole_(records)}
        ELSE {[lines |-> Tail_(records, first + 1), part |-> offset, orphans |-> o,
               truncated |-> TRUE] : o \in Orphans(records[first], offset)}

(* The last `max` bytes, from the first newline in them on, unless that is  *)
(* their first or last byte.                                                *)
SerializeText(records, max) ==
    LET cut == TextSize(records) - max
        later == {i \in 1..(Len(records) - 1) : NewlineAfter(records, i) >= cut}
        first == IF later = {} THEN Len(records) ELSE CHOOSE i \in later : \A j \in later : i <= j
        offset == NewlineAfter(records, first) - cut
        atLine == later # {} /\ 0 < offset /\ offset < max - 1
        part == IF atLine THEN 0 ELSE offset
    IN  IF cut <= 0 THEN {Whole_(records)}
        ELSE IF max = 0 THEN {[Whole_(records) EXCEPT !.truncated = TRUE]}
        ELSE {[lines |-> Tail_(records, first + 1), part |-> part, orphans |-> o,
               truncated |-> TRUE] : o \in Orphans(records[first], part)}

(* In JSON whole records are dropped from the front.                        *)
JsonSize(records) == 2 + Sizes(records) + (IF records = <<>> THEN 0 ELSE 2 * (Len(records) - 1))
SerializeJson(records, max) ==
    LET fits == {i \in 1..(Len(records) + 1) : JsonSize(Tail_(records, i)) <= max}
        first == IF fits = {} THEN Len(records) + 1 ELSE CHOOSE i \in fits : \A j \in fits : i <= j
    IN  [Whole_(Tail_(records, first)) EXCEPT !.truncated = first # 1 \/ fits = {}]

Serialize(records, q) ==
    IF q.json THEN {SerializeJson(records, q.maxBytes)} ELSE SerializeText(records, q.maxBytes)

(* The bytes of an answer, the notice that it was cut not counted.          *)
PayloadSize(out, json) ==
    IF json THEN JsonSize(out.lines)
    ELSE out.part + (OrphanSize - 1) * out.orphans
           + (IF out.part # 0 /\ out.lines # <<>> THEN 1 ELSE 0) + TextSize(out.lines)

(***************************************************************************)
(* The tool: fetch, window, pattern, budget, in this order.  A call that   *)
(* is refused or fails has no lines.                                       *)
(***************************************************************************)
Answered(q, fetched) == Accepts(q) /\ fetched \notin {Missing, Rejected, Broken}

GetPodLogs(q, pods, log, order) ==
    LET fetched == Fetch(q, pods, log, order)
    IN  IF Answered(q, fetched) THEN Serialize(Found(q, fetched), q) ELSE {Whole_(<<>>)}
=============================================================================
