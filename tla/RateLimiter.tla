---------------------------- MODULE RateLimiter -----------------------------
(***************************************************************************)
(* The per-tool token buckets of safety.py, as call_tool uses them: each   *)
(* check runs on the event loop without an await, so it is one step.       *)
(*                                                                         *)
(* Time is counted in ticks, Hundredth of them in a hundredth of a second, *)
(* because a hundredth is the unit in which a refused client is told how   *)
(* long to wait.  Tokens are counted in parts of which Rpm flow in during  *)
(* a tick: rpm/60 tokens a second.  The code computes the same numbers in  *)
(* floats, whose errors are left out.                                      *)
(***************************************************************************)
EXTENDS Integers, Sequences

CONSTANTS
    Tools,     (* the tool names clients ask for, registered or not         *)
    Rpm,       (* K8S_MCP_RATE_LIMIT_RPM, here not 0 (0 skips the limiter)  *)
    Hundredth, (* ticks of the clock in a hundredth of a second             *)
    Steps,     (* the numbers of ticks that may pass between two events     *)
    MaxTime    (* bound on the clock                                        *)

ASSUME RateAssumption ==
    /\ Rpm \in Nat \ {0}
    /\ Hundredth \in Nat \ {0}
    /\ Steps \subseteq Nat
    /\ MaxTime \in Nat

VARIABLES
    now,       (* time.monotonic()                                          *)
    buckets,   (* the tools that have a bucket                              *)
    tokens,    (* TokenBucket.tokens, in parts                              *)
    last,      (* TokenBucket.last_refill                                   *)
    accepted,  (* per tool, when its accepted calls were made (history)     *)
    promises   (* per tool, when the calls refused since the last accepted  *)
               (* one were told to come back (history)                      *)

bucketVars == <<buckets, tokens, last>>
vars == <<now, buckets, tokens, last, accepted, promises>>

(* The parts of a token.                                                    *)
Token == 6000 * Hundredth

(* max(1, rpm // 6), the ten-second burst.                                  *)
Capacity == (IF Rpm \div 6 > 1 THEN Rpm \div 6 ELSE 1) * Token

AtMost(bound, n) == IF n > bound THEN bound ELSE n

Init ==
    /\ now = 0
    /\ buckets = {}
    /\ tokens = [t \in Tools |-> 0]
    /\ last = [t \in Tools |-> 0]
    /\ accepted = [t \in Tools |-> <<>>]
    /\ promises = [t \in Tools |-> {}]

(* The level of the tool's bucket at this moment: a bucket made now is      *)
(* full, an older one gains what has flowed in since the last refill.       *)
Level(t) ==
    IF t \in buckets THEN AtMost(Capacity, tokens[t] + (now - last[t]) * Rpm)
    ELSE Capacity

(* A faulty form: what is left in the bucket is not counted.                *)
RetryAfterWholeToken(level) == {Token \div (Rpm * Hundredth)}

(* The hundredths of a second a refused caller is told to wait.  The time   *)
(* until the next token is exact, but the message gives it with two         *)
(* decimals: a nearest hundredth, above the exact time or below it.         *)
RetryAfter(level) ==
    LET needed == Token - level
        flow == Rpm * Hundredth
    IN  {h \in (needed \div flow)..(needed \div flow + 1) :
            2 * (h * flow - needed) \in -flow..flow}

(* A faulty form: last_refill is left behind when no token is granted, and  *)
(* the same seconds refill the bucket again.                                *)
RejectDoubleRefill(t) ==
    /\ Level(t) < Token
    /\ buckets' = buckets \cup {t}
    /\ tokens' = [tokens EXCEPT ![t] = Level(t)]
    /\ \E h \in RetryAfter(Level(t)) :
          promises' = [promises EXCEPT ![t] = @ \cup {now + h * Hundredth}]
    /\ UNCHANGED <<now, last, accepted>>

Accept(t) ==
    /\ Level(t) >= Token
    /\ buckets' = buckets \cup {t}
    /\ tokens' = [tokens EXCEPT ![t] = Level(t) - Token]
    /\ last' = [last EXCEPT ![t] = now]
    /\ accepted' = [accepted EXCEPT ![t] = Append(@, now)]
    /\ promises' = [promises EXCEPT ![t] = {}]
    /\ UNCHANGED now

Reject(t) ==
    /\ Level(t) < Token
    /\ buckets' = buckets \cup {t}
    /\ tokens' = [tokens EXCEPT ![t] = Level(t)]
    /\ last' = [last EXCEPT ![t] = now]
    /\ \E h \in RetryAfter(Level(t)) :
          promises' = [promises EXCEPT ![t] = @ \cup {now + h * Hundredth}]
    /\ UNCHANGED <<now, accepted>>

(* RateLimiter.check: the bucket is made on first use, then try_consume.    *)
Check(t) == Accept(t) \/ Reject(t)

Tick ==
    /\ \E step \in Steps : now' = now + step
    /\ now' <= MaxTime
    /\ UNCHANGED <<bucketVars, accepted, promises>>

Next == Tick \/ \E t \in Tools : Check(t)

Spec == Init /\ [][Next]_vars

-----------------------------------------------------------------------------

(* Every variable has its type: a bucket never holds more than its capacity *)
(* nor less than nothing, and no refill lies in the future.                 *)
TypeOK ==
    /\ now \in Nat
    /\ buckets \subseteq Tools
    /\ tokens \in [Tools -> 0..Capacity]
    /\ last \in [Tools -> Nat]
    /\ \A t \in Tools : last[t] <= now
    /\ accepted \in [Tools -> Seq(Nat)]
    /\ promises \in [Tools -> SUBSET Nat]

(* What the limiter really guarantees: in every stretch of time a tool gets *)
(* at most its burst plus the refill of that stretch, however its calls and *)
(* its refused calls are spaced (a refused call never earns anything).      *)
WindowBound ==
    \A t \in Tools : \A j \in DOMAIN accepted[t] : \A i \in 1..j :
        (j - i + 1) * Token <= Capacity + (accepted[t][j] - accepted[t][i]) * Rpm

(* What refused callers are told is right to half a hundredth of a second,  *)
(* and every refusal since the last accepted call told the same: a caller   *)
(* that comes half a hundredth after its time is accepted however many      *)
(* calls were refused meanwhile, one that comes earlier by more is not.     *)
RetryIsHonest ==
    \A t \in Tools : \A p \in promises[t] :
        /\ 2 * (now - p) >= Hundredth => Level(t) >= Token
        /\ 2 * (p - now) > Hundredth => Level(t) < Token
=============================================================================
