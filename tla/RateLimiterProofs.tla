------------------------- MODULE RateLimiterProofs --------------------------
(***************************************************************************)
(* Theorems about RateLimiter, for every rpm, every set of tools and every *)
(* length of run.                                                          *)
(*                                                                         *)
(* The window bound is not inductive: it says nothing of the tokens that   *)
(* are still in the bucket.  The argument is one of potential.  Looking    *)
(* back from the last refill to any accepted call, the tokens spent since  *)
(* then and the tokens that are left never exceed a full bucket plus what  *)
(* has flowed in (Potential).                                              *)
(***************************************************************************)
EXTENDS RateLimiter, TLAPS

Spent(t, i) == (Len(accepted[t]) - i + 1) * Token

Potential ==
    \A t \in Tools : \A i \in DOMAIN accepted[t] :
        Spent(t, i) + tokens[t] <= Capacity + (last[t] - accepted[t][i]) * Rpm

(* A bucket that was never made has accepted nothing and promised nothing.  *)
Fresh ==
    \A t \in Tools \ buckets : accepted[t] = <<>> /\ promises[t] = {}

(* At every promised moment the bucket is nearly at its next token: what    *)
(* it lacks or has beyond it flows in within half a hundredth of a second.  *)
Near(h) == 2 * h \in -(Rpm * Hundredth)..(Rpm * Hundredth)

Covered ==
    \A t \in Tools : \A p \in promises[t] :
        Near(tokens[t] + (p - last[t]) * Rpm - Token)

IInv == TypeOK /\ Potential /\ Fresh /\ Covered /\ WindowBound

-----------------------------------------------------------------------------

(* The burst is at least one call.                                          *)
LEMMA CapacityFact ==
    /\ Rpm \in Nat \ {0} /\ Hundredth \in Nat \ {0}
    /\ Token \in Nat
    /\ Capacity \in Nat /\ Capacity >= Token
<1>1. Rpm \in Nat \ {0} /\ Hundredth \in Nat \ {0} BY RateAssumption
<1>2. Token \in Nat BY <1>1 DEF Token
<1>3. Rpm \div 6 \in Nat BY <1>1
<1> DEFINE burst == IF Rpm \div 6 > 1 THEN Rpm \div 6 ELSE 1
<1>4. burst \in Nat /\ burst >= 1 BY <1>3
<1>5. Capacity = burst * Token BY DEF Capacity
<1> HIDE DEF burst
<1>6. burst * Token >= Token /\ burst * Token \in Nat BY <1>2, <1>4
<1> QED BY <1>1, <1>2, <1>5, <1>6

LEMMA Distributes ==
    ASSUME NEW a \in Int, NEW b \in Int, NEW c \in Int, NEW r \in Int
    PROVE  (a - c) * r = (a - b) * r + (b - c) * r
OBVIOUS

(* The two ways to write what flows in during some hundredths of a second.  *)
LEMMA FlowFact ==
    ASSUME NEW h \in Int
    PROVE  /\ h * Hundredth \in Int
           /\ (h * Hundredth) * Rpm = h * (Rpm * Hundredth)
  BY RateAssumption

(* A refused caller is told a time within half a hundredth of the moment at *)
(* which the bucket has a token.                                            *)
LEMMA ToldFact ==
    ASSUME NEW level \in Int, level < Token, NEW h \in RetryAfter(level)
    PROVE  /\ h \in Nat /\ h * Hundredth \in Nat
           /\ Near(level + (h * Hundredth) * Rpm - Token)
<1>1. /\ Rpm \in Nat \ {0} /\ Hundredth \in Nat \ {0} /\ Token \in Nat
  BY CapacityFact
<1> DEFINE flow == Rpm * Hundredth
           needed == Token - level
<1>2. flow \in Nat \ {0} /\ needed \in Nat BY <1>1
<1>3. /\ h \in (needed \div flow)..(needed \div flow + 1)
      /\ 2 * (h * flow - needed) \in -flow..flow
  BY DEF RetryAfter
<1>4. needed = Token - level OBVIOUS
<1>5. (h * Hundredth) * Rpm = h * flow
  <2>1. h \in Int BY <1>2, <1>3, Z3
  <2> QED BY <2>1, FlowFact
<1>6. Near(h * flow - needed) BY <1>3 DEF Near
<1> HIDE DEF flow, needed
<1>7. needed \div flow \in Nat BY <1>2, Z3
<1>8. h \in Nat BY <1>3, <1>7
<1>9. h * flow \in Int BY <1>2, <1>8
<1>10. h * flow - needed = level + (h * Hundredth) * Rpm - Token
  BY <1>1, <1>2, <1>4, <1>5, <1>9
<1>11. h * Hundredth \in Nat BY <1>1, <1>8
<1> QED BY <1>6, <1>8, <1>10, <1>11

(* What a bucket holds at a check: never more than a full one, and never    *)
(* more than it held before and what has flowed in since.                   *)
LEMMA LevelFact ==
    ASSUME TypeOK, NEW t \in Tools
    PROVE  /\ Level(t) \in 0..Capacity
           /\ t \in buckets => Level(t) <= tokens[t] + (now - last[t]) * Rpm
           /\ t \in buckets /\ Level(t) < Token =>
                 Level(t) = tokens[t] + (now - last[t]) * Rpm
<1>1. /\ Rpm \in Nat /\ Capacity \in Nat /\ Token \in Nat
      /\ Capacity >= Token
  BY CapacityFact
<1>2. now - last[t] \in Nat BY DEF TypeOK
<1>3. (now - last[t]) * Rpm \in Nat BY <1>1, <1>2
<1>4. tokens[t] \in 0..Capacity BY DEF TypeOK
<1> QED BY <1>1, <1>3, <1>4 DEF Level, AtMost

-----------------------------------------------------------------------------

LEMMA InitIInv == Init => IInv
  BY CapacityFact
  DEF Init, IInv, TypeOK, Potential, Fresh, Covered, WindowBound

LEMMA TickIInv == IInv /\ Tick => IInv'
<1> SUFFICES ASSUME IInv, Tick PROVE IInv'
  OBVIOUS
<1> USE DEF Tick, bucketVars, IInv
<1>1. TypeOK'
  <2>1. PICK step \in Steps : now' = now + step OBVIOUS
  <2>2. step \in Nat BY RateAssumption
  <2> QED BY <2>1, <2>2 DEF TypeOK, Capacity, Token
<1>2. Potential' BY DEF Potential, Spent, Capacity, Token
<1>3. Fresh' BY DEF Fresh
<1>4. Covered' BY DEF Covered, Near, Token
<1>5. WindowBound' BY DEF WindowBound, Capacity, Token
<1> QED BY <1>1, <1>2, <1>3, <1>4, <1>5

LEMMA RejectIInv ==
    ASSUME IInv, NEW t \in Tools, Reject(t)
    PROVE  IInv'
<1> DEFINE level == Level(t)
<1>1. /\ Rpm \in Nat \ {0} /\ Hundredth \in Nat \ {0}
      /\ Capacity \in Nat /\ Token \in Nat
  BY CapacityFact
<1>2. /\ level \in 0..Capacity
      /\ t \in buckets => level = tokens[t] + (now - last[t]) * Rpm
      /\ level < Token
  BY LevelFact DEF IInv, Reject
<1>3. PICK h \in RetryAfter(level) :
           promises' = [promises EXCEPT ![t] = @ \cup {now + h * Hundredth}]
  BY DEF Reject
<1> DEFINE pause == h * Hundredth
<1>4. /\ pause \in Nat
      /\ Near(level + pause * Rpm - Token)
  BY <1>1, <1>2, <1>3, ToldFact
<1>0. /\ TypeOK
      /\ buckets' = buckets \cup {t}
      /\ tokens' = [tokens EXCEPT ![t] = level]
      /\ last' = [last EXCEPT ![t] = now]
      /\ promises' = [promises EXCEPT ![t] = @ \cup {now + pause}]
      /\ now' = now /\ accepted' = accepted
  BY <1>3 DEF Reject, IInv
<1> HIDE DEF level, pause
<1>5. TypeOK' BY <1>0, <1>1, <1>2, <1>4 DEF TypeOK
<1>6. Potential'
  <2> SUFFICES ASSUME NEW u \in Tools, NEW i \in DOMAIN accepted[u]
               PROVE  Spent(u, i) + tokens'[u]
                        <= Capacity + (last'[u] - accepted[u][i]) * Rpm
    BY <1>0 DEF Potential, Spent
  <2>1. Spent(u, i) + tokens[u] <= Capacity + (last[u] - accepted[u][i]) * Rpm
    BY DEF IInv, Potential
  <2>2. CASE u # t
    BY <2>1, <2>2, <1>0 DEF TypeOK
  <2>3. CASE u = t
    <3>1. t \in buckets BY <2>3 DEF IInv, Fresh
    <3>2. /\ accepted[t][i] \in Nat /\ last[t] \in Nat /\ now \in Nat
          /\ Spent(t, i) \in Int /\ tokens[t] \in Nat
      <4>1. /\ accepted[t] \in Seq(Nat) /\ last[t] \in Nat /\ now \in Nat
            /\ tokens[t] \in Nat
        BY <1>0, <1>1 DEF TypeOK
      <4>2. i \in 1..Len(accepted[t]) /\ Len(accepted[t]) \in Nat
        BY <4>1, <2>3
      <4>3. (Len(accepted[t]) - i + 1) * Token \in Int BY <4>2, <1>1
      <4>4. Spent(t, i) \in Int BY <4>3 DEF Spent
      <4>5. accepted[t][i] \in Nat BY <4>1, <4>2
      <4> QED BY <4>1, <4>4, <4>5
    <3>3. (now - accepted[t][i]) * Rpm
            = (now - last[t]) * Rpm + (last[t] - accepted[t][i]) * Rpm
      BY <3>2, <1>1, Distributes
    <3>4. /\ (now - last[t]) * Rpm \in Int
          /\ (last[t] - accepted[t][i]) * Rpm \in Int
      BY <3>2, <1>1
    <3>5. tokens'[t] = level /\ last'[t] = now BY <1>0 DEF TypeOK
    <3> QED BY <3>1, <3>2, <3>3, <3>4, <3>5, <2>1, <2>3, <1>1, <1>2
  <2> QED BY <2>2, <2>3
<1>7. Fresh' BY <1>0 DEF IInv, Fresh, TypeOK
<1>8. Covered'
  <2> SUFFICES ASSUME NEW u \in Tools, NEW p \in promises'[u]
               PROVE  Near(tokens'[u] + (p - last'[u]) * Rpm - Token)
    BY DEF Covered, Near, Token
  <2>1. CASE u # t BY <2>1, <1>0 DEF IInv, Covered, TypeOK
  <2>2. CASE u = t
    <3>1. tokens'[t] = level /\ last'[t] = now BY <1>0 DEF TypeOK
    <3>2. now \in Nat /\ last[t] \in Nat BY <1>0 DEF TypeOK
    <3>3. CASE p = now + pause
      <4>1. p - last'[t] = pause BY <3>1, <3>2, <3>3, <1>4
      <4> QED BY <4>1, <3>1, <1>4, <2>2
    <3>4. CASE p \in promises[t]
      <4>1. t \in buckets BY <3>4 DEF IInv, Fresh
      <4>2. Near(tokens[t] + (p - last[t]) * Rpm - Token)
        BY <3>4 DEF IInv, Covered
      <4>3. p \in Nat /\ tokens[t] \in Nat BY <3>4, <1>0, <1>1 DEF TypeOK
      <4>4. (p - last[t]) * Rpm = (p - now) * Rpm + (now - last[t]) * Rpm
        BY <4>3, <3>2, <1>1, Distributes
      <4>5. /\ (p - now) * Rpm \in Int /\ (now - last[t]) * Rpm \in Int
        BY <4>3, <3>2, <1>1
      <4>6. level + (p - now) * Rpm - Token
              = tokens[t] + (p - last[t]) * Rpm - Token
        BY <4>1, <4>3, <4>4, <4>5, <1>1, <1>2
      <4> QED BY <4>2, <4>6, <3>1, <2>2
    <3> QED BY <3>3, <3>4, <2>2, <1>0 DEF TypeOK
  <2> QED BY <2>1, <2>2
<1>9. WindowBound' BY <1>0 DEF IInv, WindowBound, Capacity, Token
<1> QED BY <1>5, <1>6, <1>7, <1>8, <1>9 DEF IInv

LEMMA OneMore ==
    ASSUME NEW k \in Int, NEW i \in Int, NEW c \in Int
    PROVE  (k + 1 - i + 1) * c = (k - i + 1) * c + c
OBVIOUS

LEMMA AcceptIInv ==
    ASSUME IInv, NEW t \in Tools, Accept(t)
    PROVE  IInv'
<1> DEFINE level == Level(t)
           n == Len(accepted[t])
<1>1. Rpm \in Nat \ {0} /\ Capacity \in Nat /\ Token \in Nat
  BY CapacityFact
<1>2. /\ level \in 0..Capacity
      /\ t \in buckets => level <= tokens[t] + (now - last[t]) * Rpm
      /\ level >= Token
  BY LevelFact DEF IInv, Accept
<1>3. /\ TypeOK
      /\ buckets' = buckets \cup {t}
      /\ tokens' = [tokens EXCEPT ![t] = level - Token]
      /\ last' = [last EXCEPT ![t] = now]
      /\ accepted' = [accepted EXCEPT ![t] = Append(@, now)]
      /\ promises' = [promises EXCEPT ![t] = {}]
      /\ now' = now
  BY DEF Accept, IInv
<1> HIDE DEF level
<1>4. TypeOK' BY <1>1, <1>2, <1>3 DEF TypeOK
<1>5. /\ n \in Nat
      /\ Len(accepted'[t]) = n + 1
      /\ DOMAIN accepted'[t] = 1..(n + 1)
      /\ \A i \in 1..n : accepted'[t][i] = accepted[t][i]
      /\ accepted'[t][n + 1] = now
      /\ tokens'[t] = level - Token /\ last'[t] = now
      /\ now \in Nat
  BY <1>3 DEF TypeOK
<1> HIDE DEF n
<1>6. ASSUME NEW i \in 1..(n + 1)
      PROVE  (n + 1 - i + 1) * Token + tokens'[t]
               <= Capacity + (now - accepted'[t][i]) * Rpm
  <2>1. CASE i = n + 1
    <3>1. (now - accepted'[t][i]) * Rpm = 0 BY <2>1, <1>1, <1>5
    <3>2. (n + 1 - i + 1) * Token = Token BY <2>1, <1>1, <1>5
    <3>3. tokens'[t] = level - Token BY <1>1, <1>5
    <3> QED BY <3>1, <3>2, <3>3, <1>1, <1>2
  <2>2. CASE i \in 1..n
    <3>1. i \in DOMAIN accepted[t] /\ n = Len(accepted[t])
      BY <2>2, <1>3 DEF TypeOK, n
    <3>2. Spent(t, i) + tokens[t] <= Capacity + (last[t] - accepted[t][i]) * Rpm
      BY <3>1 DEF IInv, Potential
    <3>3. t \in buckets BY <3>1 DEF IInv, Fresh
    <3>4. /\ accepted[t][i] \in Nat /\ last[t] \in Nat /\ tokens[t] \in Nat
          /\ accepted'[t][i] = accepted[t][i]
      BY <3>1, <2>2, <1>1, <1>3, <1>5 DEF TypeOK
    <3>5. (now - accepted[t][i]) * Rpm
            = (now - last[t]) * Rpm + (last[t] - accepted[t][i]) * Rpm
      BY <3>4, <1>1, <1>5, Distributes, SMTT(30)
    <3>6. /\ (now - last[t]) * Rpm \in Int
          /\ (last[t] - accepted[t][i]) * Rpm \in Int
      BY <3>4, <1>1, <1>5
    <3>7. Spent(t, i) = (n - i + 1) * Token BY <3>1 DEF Spent
    <3>8. (n + 1 - i + 1) * Token = (n - i + 1) * Token + Token
      BY <2>2, <1>1, <1>5, OneMore
    <3>9. (n - i + 1) * Token \in Int BY <2>2, <1>1, <1>5
    <3>10. tokens'[t] = level - Token BY <1>5
    <3>11. (now - accepted'[t][i]) * Rpm = (now - accepted[t][i]) * Rpm
      BY <3>4
    <3> QED BY <3>2, <3>3, <3>4, <3>5, <3>6, <3>7, <3>8, <3>9, <3>10, <3>11,
               <1>1, <1>2
  <2> QED BY <2>1, <2>2, <1>5
<1>7. Potential'
  <2> SUFFICES ASSUME NEW u \in Tools, NEW i \in DOMAIN accepted'[u]
               PROVE  (Len(accepted'[u]) - i + 1) * Token + tokens'[u]
                        <= Capacity + (last'[u] - accepted'[u][i]) * Rpm
    BY DEF Potential, Spent, Capacity, Token
  <2>1. CASE u # t BY <2>1, <1>3 DEF IInv, Potential, Spent, TypeOK
  <2>2. CASE u = t BY <2>2, <1>5, <1>6
  <2> QED BY <2>1, <2>2
<1>8. Fresh' BY <1>3 DEF IInv, Fresh, TypeOK
<1>9. Covered' BY <1>3 DEF IInv, Covered, Near, Token, TypeOK
<1>10. WindowBound'
  <2> SUFFICES ASSUME NEW u \in Tools,
                      NEW j \in DOMAIN accepted'[u], NEW i \in 1..j
               PROVE  (j - i + 1) * Token
                        <= Capacity + (accepted'[u][j] - accepted'[u][i]) * Rpm
    BY DEF WindowBound, Capacity, Token
  <2>1. CASE u # t BY <2>1, <1>3 DEF IInv, WindowBound, TypeOK
  <2>2. CASE u = t /\ j = n + 1
    <3>1. i \in 1..(n + 1) BY <2>2
    <3>2. tokens'[t] >= 0 BY <1>1, <1>2, <1>5
    <3>3. accepted'[t][i] \in Nat BY <3>1, <1>4, <1>5, SMTT(30) DEF TypeOK
    <3>4. (now - accepted'[t][i]) * Rpm \in Int BY <3>3, <1>1, <1>5
    <3>5. (n + 1 - i + 1) * Token + tokens'[t]
            <= Capacity + (now - accepted'[t][i]) * Rpm
      BY <3>1, <1>6
    <3>6. accepted'[t][j] = now /\ (n + 1 - i + 1) * Token \in Int
      BY <2>2, <3>1, <1>1, <1>5
    <3>7. tokens'[t] \in Int BY <1>1, <1>2, <1>5
    <3>8. (n + 1 - i + 1) * Token <= Capacity + (now - accepted'[t][i]) * Rpm
      BY <3>2, <3>4, <3>5, <3>6, <3>7, <1>1
    <3>9. u = t /\ j = n + 1 /\ j \in Int /\ i \in Int BY <2>2, <3>1, <1>5
    <3>10. (j - i + 1) * Token = (n + 1 - i + 1) * Token
      BY <3>9, <1>1, <1>5
    <3>11. (accepted'[u][j] - accepted'[u][i]) * Rpm
             = (now - accepted'[t][i]) * Rpm
      BY <3>6, <3>9
    <3> QED BY <3>8, <3>10, <3>11
  <2>3. CASE u = t /\ j \in 1..n
    <3>1. i \in 1..n /\ j \in DOMAIN accepted[t]
      BY <2>3, <1>3, <1>5 DEF TypeOK, n
    <3>2. accepted'[t][i] = accepted[t][i] /\ accepted'[t][j] = accepted[t][j]
      BY <3>1, <2>3, <1>5
    <3> QED BY <3>1, <3>2, <2>3 DEF IInv, WindowBound
  <2> QED BY <2>1, <2>2, <2>3, <1>5
<1> QED BY <1>4, <1>7, <1>8, <1>9, <1>10 DEF IInv

LEMMA NextIInv == IInv /\ [Next]_vars => IInv'
<1> SUFFICES ASSUME IInv, [Next]_vars PROVE IInv'
  OBVIOUS
<1>1. CASE Tick BY <1>1, TickIInv
<1>2. ASSUME NEW t \in Tools, Accept(t) PROVE IInv' BY <1>2, AcceptIInv
<1>3. ASSUME NEW t \in Tools, Reject(t) PROVE IInv' BY <1>3, RejectIInv
<1>4. CASE UNCHANGED vars
  BY <1>4 DEF vars, IInv, TypeOK, Potential, Spent, Fresh, Covered, Near,
              WindowBound, Capacity, Token
<1> QED BY <1>1, <1>2, <1>3, <1>4 DEF Next, Check

LEMMA LimiterInvariant == Spec => []IInv
  BY InitIInv, NextIInv, PTL DEF Spec

-----------------------------------------------------------------------------

(* Every bucket stays between empty and full, whatever the rpm.             *)
THEOREM TypeCorrect == Spec => []TypeOK
  BY LimiterInvariant, PTL DEF IInv

(* In every stretch of time a tool gets at most one burst more than what    *)
(* the stretch refills, for every rpm and however the calls are spaced      *)
(* (safety.py:222-244).                                                     *)
THEOREM WindowIsBounded == Spec => []WindowBound
  BY LimiterInvariant, PTL DEF IInv

LEMMA Scaled ==
    ASSUME NEW a \in Int, NEW b \in Int, NEW r \in Nat \ {0}
    PROVE  /\ a >= b => a * r >= b * r
           /\ a > b => a * r > b * r
OBVIOUS

(* What has flowed in since a promised moment, or will until it, decides.   *)
LEMMA PromiseKept == IInv => RetryIsHonest
<1> SUFFICES ASSUME IInv, NEW t \in Tools, NEW p \in promises[t]
             PROVE  /\ 2 * (now - p) >= Hundredth => Level(t) >= Token
                    /\ 2 * (p - now) > Hundredth => Level(t) < Token
  BY DEF RetryIsHonest
<1> DEFINE flow == Rpm * Hundredth
           short == Token - (tokens[t] + (p - last[t]) * Rpm)
<1>1. /\ p \in Nat /\ last[t] \in Nat /\ now \in Nat /\ tokens[t] \in Int
      /\ Rpm \in Nat \ {0} /\ Hundredth \in Nat \ {0}
      /\ Token \in Nat /\ Capacity \in Nat /\ Capacity >= Token
  BY CapacityFact DEF IInv, TypeOK
<1>2. t \in buckets BY DEF IInv, Fresh
<1>3. Level(t) = AtMost(Capacity, tokens[t] + (now - last[t]) * Rpm)
  BY <1>2 DEF Level
<1>4. (now - last[t]) * Rpm = (now - p) * Rpm + (p - last[t]) * Rpm
  BY <1>1, Distributes
<1>5. /\ (now - p) * Rpm \in Int /\ (p - last[t]) * Rpm \in Int
      /\ (now - last[t]) * Rpm \in Int /\ flow \in Nat
  BY <1>1
<1>6. 2 * (tokens[t] + (p - last[t]) * Rpm - Token) \in -flow..flow
  BY DEF IInv, Covered, Near
<1> HIDE DEF flow
<1>7. ASSUME 2 * (now - p) >= Hundredth PROVE Level(t) >= Token
  <2>1. 2 * (now - p) * Rpm >= Hundredth * Rpm
    BY <1>1, <1>7, Scaled
  <2>2. 2 * ((now - p) * Rpm) >= flow BY <2>1, <1>1 DEF flow
  <2>3. tokens[t] + (now - last[t]) * Rpm >= Token
    BY <2>2, <1>1, <1>4, <1>5, <1>6
  <2> QED BY <2>3, <1>1, <1>3 DEF AtMost
<1>8. ASSUME 2 * (p - now) > Hundredth PROVE Level(t) < Token
  <2>1. 2 * (p - now) * Rpm > Hundredth * Rpm
    BY <1>1, <1>8, Scaled
  <2>2. 2 * ((now - p) * Rpm) < -flow BY <2>1, <1>1 DEF flow
  <2>3. tokens[t] + (now - last[t]) * Rpm < Token
    BY <2>2, <1>1, <1>4, <1>5, <1>6
  <2> QED BY <2>3, <1>1, <1>3, <1>5 DEF AtMost
<1> QED BY <1>7, <1>8

(* A caller that comes back half a hundredth of a second after the time it  *)
(* was told is accepted, one that comes more than that before it is not,    *)
(* however many calls were refused in between (safety.py:204-207, 242-244). *)
THEOREM RetryStaysHonest == Spec => []RetryIsHonest
  BY LimiterInvariant, PromiseKept, PTL
=============================================================================
