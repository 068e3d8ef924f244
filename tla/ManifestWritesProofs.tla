------------------------ MODULE ManifestWritesProofs ------------------------
(***************************************************************************)
(* Theorems about ManifestWrites, for any number of calls, any manifests   *)
(* and any activity of the operators.                                      *)
(*                                                                         *)
(* None of the properties is inductive as stated.  CallOK ties, for one    *)
(* call, the place in the program to the position in the manifest and to   *)
(* the lengths of what was written and recorded; Window says what a GET is *)
(* still worth when the PUT comes; Vacant says that an object that does    *)
(* not exist has no content.                                               *)
(***************************************************************************)
EXTENDS ManifestWrites, TLAPS

Before == {"idle", "composed", "refused"}

Guarded(c) ==
    /\ pc[c] \in Before => wrote[c] = <<>> /\ records[c] = <<>> /\ pos[c] = 1
    /\ pc[c] \notin Before => ~readOnly /\ Names(docs[c]) \subseteq Allowed

Progress(c) ==
    /\ pc[c] \in {"get", "write"} =>
           /\ pos[c] \in 1..Len(docs[c])
           /\ Len(wrote[c]) = pos[c] - 1
           /\ Len(records[c]) = pos[c] - 1
    /\ Len(wrote[c]) <= Len(docs[c])
    /\ \A i \in 1..Len(wrote[c]) : wrote[c][i].doc = docs[c][i].of
    /\ pc[c] = "returned" => Len(wrote[c]) = Len(docs[c])
    /\ pc[c] \in Failures => Len(wrote[c]) \in {pos[c] - 1, pos[c]}
    /\ Len(records[c]) <= Len(wrote[c])

Truth(c) ==
    \A i \in 1..Len(records[c]) : (records[c][i] = "created") <=> wrote[c][i].new

CallOK(c) == Guarded(c) /\ Progress(c) /\ Truth(c)

Window(c) ==
    pc[c] = "write" =>
        /\ read[c] <= revision
        /\ tool[c] = "replace" => read[c] # Absent
        /\ version[Doc(c)] = read[c] /\ read[c] # Absent => content[Doc(c)] = readContent[c]

Vacant == \A o \in Objects : version[o] = Absent => content[o] = Pristine

IInv == TypeOK /\ Vacant /\ \A c \in Calls : CallOK(c) /\ Window(c)

-----------------------------------------------------------------------------

(* What the writes put into an object is a content.                         *)
LEMMA PristineFact == Pristine \in Contents
  BY DEF Pristine, Contents, Authors

LEMMA WithFact ==
    ASSUME NEW c \in Calls, NEW x \in Contents
    PROVE  With(c, x) \in Contents
  BY DEF With, Contents, Authors

LEMMA EditedFact ==
    ASSUME NEW x \in Contents, NEW f \in Fields
    PROVE  [x EXCEPT ![f] = Operator] \in Contents
  BY DEF Contents, Authors

LEMMA InitIInv == Init => IInv
  BY ManifestAssumption, PristineFact
  DEF Init, IInv, TypeOK, Vacant, CallOK, Guarded, Progress, Truth, Window, Before, Failures, Places, Tools,
      Absent

(* The document being worked on is one of the manifest's.                   *)
LEMMA DocTyped ==
    ASSUME IInv, NEW c \in Calls, pc[c] \in {"get", "write"}
    PROVE  /\ Doc(c) \in Objects
           /\ docs[c] \in Seq(Documents)
           /\ pos[c] \in 1..Len(docs[c])
<1>1. docs[c] \in Seq(Documents) BY DEF IInv, TypeOK
<1>2. pos[c] \in 1..Len(docs[c]) BY DEF IInv, CallOK, Progress
<1>3. docs[c][pos[c]] \in Documents BY <1>1, <1>2
<1> QED BY <1>1, <1>2, <1>3 DEF Doc, Documents

(* A step of call c that sends no write keeps every other call's part.      *)
LEMMA OthersKept ==
    ASSUME IInv, NEW c \in Calls, NEW d \in Calls, d # c,
           UNCHANGED <<cluster, readOnly>>,
           pc'[d] = pc[d], tool'[d] = tool[d], docs'[d] = docs[d], pos'[d] = pos[d],
           read'[d] = read[d], readContent'[d] = readContent[d],
           records'[d] = records[d], wrote'[d] = wrote[d]
    PROVE  CallOK(d)' /\ Window(d)'
<1> USE DEF IInv, CallOK, cluster
<1>1. Guarded(d)' BY DEF Guarded
<1>2. Progress(d)' BY DEF Progress
<1>3. Truth(d)' BY DEF Truth
<1>4. Window(d)' BY DEF Window, Doc, Absent
<1> QED BY <1>1, <1>2, <1>3, <1>4

(* Ending a call without a write.                                           *)
LEMMA EndIInv ==
    ASSUME IInv, NEW c \in Calls, NEW how \in Places, End(c, how),
           UNCHANGED <<cluster, wrote>>,
           \/ pc[c] = "composed" /\ how = "refused"
           \/ pc[c] = "composed" /\ how = "returned" /\ docs[c] = <<>> /\ ~readOnly
           \/ pc[c] \in {"get", "write"} /\ how \in Failures
    PROVE  IInv'
<1>1. TypeOK' BY DEF IInv, TypeOK, End, cluster, request, found
<1>2. Vacant' BY DEF IInv, Vacant, cluster
<1>3. CallOK(c)'
  <2>1. pc'[c] = how /\ docs[c] \in Seq(Documents) /\ pos[c] \in Nat
    BY DEF IInv, TypeOK, End
  <2>2. /\ UNCHANGED <<readOnly, tool, docs, pos, records, wrote>>
        /\ CallOK(c)
    BY DEF IInv, End, request
  <2>3. CASE pc[c] = "composed" /\ how = "refused"
    BY <2>1, <2>2, <2>3 DEF CallOK, Guarded, Progress, Truth, Before, Failures
  <2>4. CASE pc[c] = "composed" /\ how = "returned" /\ docs[c] = <<>> /\ ~readOnly
    BY <2>1, <2>2, <2>4 DEF CallOK, Guarded, Progress, Truth, Before, Failures, Names
  <2>5. CASE pc[c] \in {"get", "write"} /\ how \in Failures
    BY <2>1, <2>2, <2>5 DEF CallOK, Guarded, Progress, Truth, Before, Failures
  <2> QED BY <2>3, <2>4, <2>5
<1>4. Window(c)'
  <2>1. pc'[c] # "write" BY DEF IInv, TypeOK, End, Failures
  <2> QED BY <2>1 DEF Window
<1>5. \A d \in Calls : d # c => CallOK(d)' /\ Window(d)'
  <2> SUFFICES ASSUME NEW d \in Calls, d # c PROVE CallOK(d)' /\ Window(d)'
    OBVIOUS
  <2>1. pc'[d] = pc[d] BY DEF End, IInv, TypeOK
  <2> QED BY <2>1, OthersKept DEF End, request, found
<1> QED BY <1>1, <1>2, <1>3, <1>4, <1>5 DEF IInv

(* What Put does to the cluster: a version that changes is new to everyone, *)
(* and an object whose version stays keeps its content.                     *)
LEMMA PutFact ==
    ASSUME IInv, NEW o \in Objects, NEW new \in Contents, Put(o, new)
    PROVE  /\ version' \in [Objects -> Nat]
           /\ content' \in [Objects -> Contents]
           /\ revision' \in Nat /\ revision <= revision'
           /\ \A x \in Objects : version'[x] <= revision'
           /\ \A x \in Objects : \/ version'[x] > revision
                                 \/ version'[x] = version[x] /\ content'[x] = content[x]
           /\ version'[o] # Absent /\ content'[o] = new
           /\ Vacant'
<1>1. /\ version \in [Objects -> Nat]
      /\ content \in [Objects -> Contents]
      /\ revision \in Nat
      /\ \A x \in Objects : version[x] <= revision
      /\ Vacant
  BY DEF IInv, TypeOK, Authors
<1>2. CASE version[o] # Absent /\ content[o] = new /\ UNCHANGED cluster
  BY <1>1, <1>2 DEF cluster, Vacant
<1>3. CASE /\ revision' = revision + 1
           /\ version' = [version EXCEPT ![o] = revision + 1]
           /\ content' = [content EXCEPT ![o] = new]
  BY <1>1, <1>3 DEF Vacant, Absent
<1> QED BY <1>2, <1>3 DEF Put

(* A call that is not writing keeps its part when the cluster moves on.     *)
LEMMA BystanderKept ==
    ASSUME IInv, NEW d \in Calls,
           revision \in Nat, revision' \in Nat, revision <= revision',
           \A x \in Objects : \/ version'[x] > revision
                              \/ version'[x] = Absent
                              \/ version'[x] = version[x] /\ content'[x] = content[x],
           readOnly' = readOnly,
           pc'[d] = pc[d], tool'[d] = tool[d], docs'[d] = docs[d], pos'[d] = pos[d],
           read'[d] = read[d], readContent'[d] = readContent[d],
           records'[d] = records[d], wrote'[d] = wrote[d]
    PROVE  CallOK(d)' /\ Window(d)'
<1> USE DEF IInv, CallOK
<1>1. Guarded(d)' BY DEF Guarded
<1>2. Progress(d)' BY DEF Progress
<1>3. Truth(d)' BY DEF Truth
<1>4. Window(d)'
  <2> SUFFICES ASSUME pc[d] = "write"
               PROVE  /\ read[d] <= revision'
                      /\ tool[d] = "replace" => read[d] # Absent
                      /\ version'[Doc(d)] = read[d] /\ read[d] # Absent
                           => content'[Doc(d)] = readContent[d]
    BY DEF Window, Doc
  <2>1. /\ read[d] <= revision /\ read[d] \in Nat
        /\ tool[d] = "replace" => read[d] # Absent
        /\ version[Doc(d)] = read[d] /\ read[d] # Absent
             => content[Doc(d)] = readContent[d]
    BY DEF Window, TypeOK
  <2>2. Doc(d) \in Objects BY DocTyped
  <2> QED BY <2>1, <2>2
<1> QED BY <1>1, <1>2, <1>3, <1>4

LEMMA Appended ==
    ASSUME NEW S, NEW s \in Seq(S), NEW e \in S
    PROVE  /\ Append(s, e) \in Seq(S)
           /\ Len(Append(s, e)) = Len(s) + 1
           /\ Append(s, e)[Len(s) + 1] = e
           /\ \A i \in 1..Len(s) : Append(s, e)[i] = s[i]
OBVIOUS

LEMMA WriteIInv ==
    ASSUME IInv, NEW c \in Calls, pc[c] = "write",
           NEW new \in Contents,
           NEW action \in Actions,
           (action = "created") <=> (version[Doc(c)] = Absent),
           Write(c, new, action)
    PROVE  IInv'
<1> DEFINE entry == [doc |-> Doc(c), new |-> version[Doc(c)] = Absent]
           n == Len(wrote[c])
<1>1. Doc(c) \in Objects /\ docs[c] \in Seq(Documents) /\ pos[c] \in 1..Len(docs[c])
  BY DocTyped
<1>2. entry \in [doc : Objects, new : BOOLEAN] BY <1>1
<1>3. /\ version' \in [Objects -> Nat]
      /\ content' \in [Objects -> Contents]
      /\ revision' \in Nat /\ revision <= revision'
      /\ \A x \in Objects : version'[x] <= revision'
      /\ \A x \in Objects : \/ version'[x] > revision
                            \/ version'[x] = version[x] /\ content'[x] = content[x]
      /\ Vacant'
  BY <1>1, PutFact DEF Write
<1>4. /\ TypeOK
      /\ UNCHANGED <<readOnly, tool, docs, base, read, readContent>>
      /\ wrote' = [wrote EXCEPT ![c] = Append(@, entry)]
  BY DEF Write, request, found, IInv
<1>5. \/ /\ records' = [records EXCEPT ![c] = Append(@, action)]
         /\ pos' = [pos EXCEPT ![c] = IF @ < Len(docs[c]) THEN @ + 1 ELSE @]
         /\ pc' = [pc EXCEPT ![c] =
                     IF pos[c] < Len(docs[c]) THEN "get" ELSE "returned"]
      \/ /\ pc' = [pc EXCEPT ![c] = "api error"]
         /\ records' = records /\ pos' = pos
  BY DEF Write
<1>6. /\ wrote[c] \in Seq(Entries)
      /\ records[c] \in Seq(Actions)
      /\ n \in Nat /\ Len(docs[c]) \in Nat /\ pos[c] \in Nat
  <2>1. wrote[c] \in Seq(Entries) /\ records[c] \in Seq(Actions) /\ pos[c] \in Nat
    BY <1>4 DEF TypeOK
  <2> QED BY <2>1, <1>1
<1>7. /\ n = pos[c] - 1 /\ Len(records[c]) = n
      /\ \A i \in 1..n : wrote[c][i].doc = docs[c][i].of
  BY DEF IInv, CallOK, Progress
<1>8. \A i \in 1..n : (records[c][i] = "created") <=> wrote[c][i].new
  BY <1>7 DEF IInv, CallOK, Truth
<1>9. ~readOnly /\ Names(docs[c]) \subseteq Allowed
  BY DEF IInv, CallOK, Guarded, Before
<1>10. /\ wrote'[c] \in Seq(Entries)
       /\ Len(wrote'[c]) = n + 1
       /\ wrote'[c][n + 1] = entry
       /\ \A i \in 1..n : wrote'[c][i] = wrote[c][i]
  <2>1. wrote'[c] = Append(wrote[c], entry) BY <1>4 DEF TypeOK
  <2>2. entry \in Entries BY <1>2 DEF Entries
  <2> HIDE DEF entry
  <2>3. /\ Append(wrote[c], entry) \in Seq(Entries)
        /\ Len(Append(wrote[c], entry)) = Len(wrote[c]) + 1
        /\ Append(wrote[c], entry)[Len(wrote[c]) + 1] = entry
        /\ \A i \in 1..Len(wrote[c]) : Append(wrote[c], entry)[i] = wrote[c][i]
    BY <2>2, <1>6, Appended
  <2> QED BY <2>1, <2>3 DEF n
<1>11. /\ Append(records[c], action) \in Seq(Actions)
       /\ Len(Append(records[c], action)) = n + 1
       /\ Append(records[c], action)[n + 1] = action
       /\ \A i \in 1..n : Append(records[c], action)[i] = records[c][i]
  <2>1. /\ Append(records[c], action) \in Seq(Actions)
        /\ Len(Append(records[c], action)) = Len(records[c]) + 1
        /\ Append(records[c], action)[Len(records[c]) + 1] = action
        /\ \A i \in 1..Len(records[c]) :
             Append(records[c], action)[i] = records[c][i]
    BY <1>6, Appended
  <2> HIDE DEF n
  <2> QED BY <2>1, <1>7
<1> HIDE DEF entry, n
<1>12. TypeOK'
  <2>1. wrote' \in [Calls -> Seq(Entries)] BY <1>4, <1>10 DEF TypeOK
  <2>2. records' \in [Calls -> Seq(Actions)]
    BY <1>4, <1>5, <1>11 DEF TypeOK
  <2>3. pos' \in [Calls -> Nat]
    <3>1. pos[c] + 1 \in Nat BY <1>6
    <3> QED BY <3>1, <1>4, <1>5 DEF TypeOK
  <2>4. pc' \in [Calls -> Places] BY <1>4, <1>5 DEF TypeOK, Places, Failures
  <2> QED BY <2>1, <2>2, <2>3, <2>4, <1>3, <1>4
          DEF TypeOK
<1>13. entry.doc = docs[c][n + 1].of
  <2>1. n + 1 = pos[c] BY <1>6, <1>7
  <2> QED BY <2>1 DEF entry, Doc
<1>14. \A i \in 1..(n + 1) : wrote'[c][i].doc = docs[c][i].of
  <2> SUFFICES ASSUME NEW i \in 1..(n + 1) PROVE wrote'[c][i].doc = docs[c][i].of
    OBVIOUS
  <2>1. CASE i = n + 1 BY <2>1, <1>10, <1>13
  <2>2. CASE i \in 1..n BY <2>2, <1>7, <1>10
  <2> QED BY <2>1, <2>2, <1>6
<1>15. CallOK(c)'
  <2>1. CASE /\ records' = [records EXCEPT ![c] = Append(@, action)]
             /\ pos' = [pos EXCEPT ![c] = IF @ < Len(docs[c]) THEN @ + 1 ELSE @]
             /\ pc' = [pc EXCEPT ![c] =
                         IF pos[c] < Len(docs[c]) THEN "get" ELSE "returned"]
    <3>1. /\ pos'[c] = IF pos[c] < Len(docs[c]) THEN pos[c] + 1 ELSE pos[c]
          /\ pc'[c] = IF pos[c] < Len(docs[c]) THEN "get" ELSE "returned"
      BY <2>1, <1>4 DEF TypeOK
    <3>2. /\ Len(records'[c]) = n + 1
          /\ records'[c][n + 1] = action
          /\ \A i \in 1..n : records'[c][i] = records[c][i]
      BY <2>1, <1>4, <1>11 DEF TypeOK
    <3>3. Guarded(c)' BY <3>1, <1>4, <1>9 DEF Guarded, Before
    <3>4. Progress(c)'
      <4>1. n + 1 = pos[c] /\ pos[c] <= Len(docs[c]) BY <1>1, <1>6, <1>7
      <4>2. \A i \in 1..Len(wrote'[c]) : wrote'[c][i].doc = docs'[c][i].of
        BY <1>4, <1>10, <1>14
      <4>3. Len(wrote'[c]) = pos[c] /\ Len(records'[c]) = pos[c]
        BY <4>1, <3>2, <1>10
      <4>4. pc'[c] \notin Failures BY <3>1 DEF Failures
      <4>5. docs'[c] = docs[c] BY <1>4
      <4>6. CASE pos[c] < Len(docs[c])
        <5>1. pc'[c] = "get" /\ pos'[c] = pos[c] + 1 BY <4>6, <3>1
        <5> QED BY <5>1, <4>1, <4>2, <4>3, <4>4, <4>5, <4>6, <1>6, SMTT(30) DEF Progress
      <4>7. CASE pos[c] = Len(docs[c])
        <5>1. pc'[c] = "returned" BY <4>7, <3>1, <1>6
        <5> QED BY <5>1, <4>1, <4>2, <4>3, <4>4, <4>5, <4>7, <1>6 DEF Progress
      <4> QED BY <4>1, <4>6, <4>7, <1>6
    <3>5. (action = "created") <=> entry.new BY DEF entry
    <3>6. \A i \in 1..(n + 1) : (records'[c][i] = "created") <=> wrote'[c][i].new
      <4> SUFFICES ASSUME NEW i \in 1..(n + 1)
                   PROVE  (records'[c][i] = "created") <=> wrote'[c][i].new
        OBVIOUS
      <4>1. CASE i = n + 1 BY <4>1, <3>2, <3>5, <1>10
      <4>2. CASE i \in 1..n BY <4>2, <3>2, <1>8, <1>10
      <4> QED BY <4>1, <4>2, <1>6
    <3>7. Truth(c)' BY <3>2, <3>6 DEF Truth
    <3> QED BY <3>3, <3>4, <3>7 DEF CallOK
  <2>2. CASE /\ pc' = [pc EXCEPT ![c] = "api error"]
             /\ records' = records /\ pos' = pos
    <3>1. pc'[c] = "api error" BY <2>2, <1>4 DEF TypeOK
    <3>2. Guarded(c)' BY <3>1, <1>4, <1>9 DEF Guarded, Before
    <3>3. Progress(c)'
      <4>1. n + 1 = pos[c] /\ pos[c] <= Len(docs[c]) BY <1>1, <1>6, <1>7
      <4>2. \A i \in 1..Len(wrote'[c]) : wrote'[c][i].doc = docs'[c][i].of
        BY <1>4, <1>10, <1>14
      <4>3. Len(wrote'[c]) = pos[c] /\ Len(records'[c]) = pos[c] - 1
        BY <4>1, <2>2, <1>6, <1>7, <1>10
      <4>4. docs'[c] = docs[c] /\ pos'[c] = pos[c] BY <2>2, <1>4
      <4>5. /\ pos[c] \in Nat /\ Len(docs[c]) \in Nat
            /\ pc'[c] \notin {"get", "write", "returned"}
        BY <3>1, <1>6
      <4> QED BY <4>1, <4>2, <4>3, <4>4, <4>5 DEF Progress
    <3>4. Truth(c)' BY <2>2, <1>6, <1>7, <1>8, <1>10 DEF Truth
    <3> QED BY <3>2, <3>3, <3>4 DEF CallOK
  <2> QED BY <2>1, <2>2, <1>5
<1>16. Window(c)'
  <2>1. pc'[c] # "write" BY <1>4, <1>5 DEF TypeOK
  <2> QED BY <2>1 DEF Window
<1>17. \A d \in Calls : d # c => CallOK(d)' /\ Window(d)'
  <2> SUFFICES ASSUME NEW d \in Calls, d # c PROVE CallOK(d)' /\ Window(d)'
    OBVIOUS
  <2>1. /\ pc'[d] = pc[d] /\ pos'[d] = pos[d]
        /\ records'[d] = records[d] /\ wrote'[d] = wrote[d]
    BY <1>4, <1>5 DEF TypeOK
  <2>2. revision \in Nat BY <1>4 DEF TypeOK
  <2> QED BY <2>1, <2>2, <1>3, <1>4, BystanderKept
<1> QED BY <1>3, <1>12, <1>15, <1>16, <1>17 DEF IInv

-----------------------------------------------------------------------------

LEMMA ComposeIInv ==
    ASSUME IInv, NEW c \in Calls, Compose(c)
    PROVE  IInv'
<1>1. PICK t \in Tools, m \in Manifests :
        /\ tool' = [tool EXCEPT ![c] = t]
        /\ docs' = [docs EXCEPT ![c] = m]
        /\ base' = [base EXCEPT ![c] = [o \in Objects |->
                      IF t = "replace" /\ o \in Names(m) THEN content[o] ELSE Pristine]]
  BY DEF Compose
<1>2. /\ pc[c] = "idle" /\ pc' = [pc EXCEPT ![c] = "composed"]
      /\ UNCHANGED <<cluster, readOnly, pos, read, readContent, records, wrote>>
      /\ TypeOK
  BY DEF Compose, found, IInv
<1>3. m \in Seq(Documents) BY ManifestAssumption
<1>4. TypeOK'
  <2>1. [o \in Objects |-> IF t = "replace" /\ o \in Names(m) THEN content[o] ELSE Pristine]
          \in [Objects -> Contents]
    BY <1>2, PristineFact DEF TypeOK
  <2> QED BY <2>1, <1>1, <1>2, <1>3 DEF TypeOK, cluster, Places
<1>5. Vacant' BY <1>2 DEF IInv, Vacant, cluster
<1>6. CallOK(c)'
  <2>1. /\ pc'[c] = "composed" /\ docs'[c] = m
        /\ wrote'[c] = <<>> /\ records'[c] = <<>> /\ pos'[c] = 1
    BY <1>1, <1>2 DEF IInv, TypeOK, CallOK, Guarded, Before
  <2>2. Len(m) \in Nat BY <1>3
  <2> QED BY <2>1, <2>2 DEF CallOK, Guarded, Progress, Truth, Before, Failures
<1>7. Window(c)' BY <1>2 DEF Window, TypeOK
<1>8. \A d \in Calls : d # c => CallOK(d)' /\ Window(d)'
  <2> SUFFICES ASSUME NEW d \in Calls, d # c PROVE CallOK(d)' /\ Window(d)'
    OBVIOUS
  <2>1. pc'[d] = pc[d] /\ tool'[d] = tool[d] /\ docs'[d] = docs[d]
    BY <1>1, <1>2 DEF TypeOK
  <2> QED BY <2>1, <1>2, OthersKept
<1> QED BY <1>4, <1>5, <1>6, <1>7, <1>8 DEF IInv

LEMMA AdmitIInv ==
    ASSUME IInv, NEW c \in Calls, Admit(c)
    PROVE  IInv'
<1>1. /\ pc[c] = "composed" /\ pc' = [pc EXCEPT ![c] = "get"]
      /\ UNCHANGED <<cluster, readOnly, tool, docs, base, pos, read, readContent,
                     records, wrote>>
      /\ ~readOnly /\ docs[c] # <<>> /\ Names(docs[c]) \subseteq Allowed
      /\ TypeOK
  BY DEF Admit, request, found, IInv
<1>2. TypeOK' BY <1>1 DEF TypeOK, cluster, Places
<1>3. Vacant' BY <1>1 DEF IInv, Vacant, cluster
<1>4. CallOK(c)'
  <2>1. /\ pc'[c] = "get"
        /\ wrote[c] = <<>> /\ records[c] = <<>> /\ pos[c] = 1
    BY <1>1 DEF IInv, TypeOK, CallOK, Guarded, Before
  <2>2. Len(docs[c]) \in Nat /\ 1 <= Len(docs[c]) BY <1>1 DEF TypeOK
  <2> QED BY <2>1, <2>2, <1>1
          DEF CallOK, Guarded, Progress, Truth, Before, Failures
<1>5. Window(c)' BY <1>1 DEF Window, TypeOK
<1>6. \A d \in Calls : d # c => CallOK(d)' /\ Window(d)'
  <2> SUFFICES ASSUME NEW d \in Calls, d # c PROVE CallOK(d)' /\ Window(d)'
    OBVIOUS
  <2>1. pc'[d] = pc[d] BY <1>1 DEF TypeOK
  <2> QED BY <2>1, <1>1, OthersKept
<1> QED BY <1>2, <1>3, <1>4, <1>5, <1>6 DEF IInv

LEMMA GetIInv ==
    ASSUME IInv, NEW c \in Calls, Get(c)
    PROVE  IInv'
<1>1. /\ pc[c] = "get" /\ pc' = [pc EXCEPT ![c] = "write"]
      /\ read' = [read EXCEPT ![c] = version[Doc(c)]]
      /\ readContent' = [readContent EXCEPT ![c] = content[Doc(c)]]
      /\ tool[c] = "apply" \/ version[Doc(c)] # Absent
      /\ UNCHANGED <<cluster, readOnly, tool, docs, base, pos, records, wrote>>
      /\ TypeOK
  BY DEF Get, request, IInv
<1>2. Doc(c) \in Objects BY <1>1, DocTyped
<1>3. TypeOK'
  <2>1. /\ version[Doc(c)] \in Nat
        /\ content[Doc(c)] \in Contents
    BY <1>1, <1>2 DEF TypeOK
  <2> HIDE DEF Doc
  <2> QED BY <2>1, <1>1 DEF TypeOK, cluster, Places
<1>4. Vacant' BY <1>1 DEF IInv, Vacant, cluster
<1>5. CallOK(c)'
  <2>1. pc'[c] = "write" BY <1>1 DEF TypeOK
  <2>2. CallOK(c) BY DEF IInv
  <2> QED BY <2>1, <2>2, <1>1
          DEF CallOK, Guarded, Progress, Truth, Before, Failures
<1>6. Window(c)'
  <2>1. Doc(c)' = Doc(c) BY <1>1 DEF Doc
  <2>2. /\ read'[c] = version[Doc(c)] /\ readContent'[c] = content[Doc(c)]
        /\ version[Doc(c)] <= revision
    BY <1>1, <1>2 DEF TypeOK
  <2> QED BY <2>1, <2>2, <1>1 DEF Window, cluster, TypeOK, Tools
<1>7. \A d \in Calls : d # c => CallOK(d)' /\ Window(d)'
  <2> SUFFICES ASSUME NEW d \in Calls, d # c PROVE CallOK(d)' /\ Window(d)'
    OBVIOUS
  <2>1. pc'[d] = pc[d] /\ read'[d] = read[d] /\ readContent'[d] = readContent[d]
    BY <1>1 DEF TypeOK
  <2> QED BY <2>1, <1>1, OthersKept
<1> QED BY <1>3, <1>4, <1>5, <1>6, <1>7 DEF IInv

LEMMA OperatorIInv ==
    ASSUME IInv, NEW o \in Objects, OperatorEdits(o) \/ OperatorDeletes(o)
    PROVE  IInv'
<1>1. /\ UNCHANGED <<readOnly, pc, tool, docs, base, pos, read, readContent,
                     records, wrote>>
      /\ TypeOK
  BY DEF OperatorEdits, OperatorDeletes, request, found, IInv
<1>2. /\ version' \in [Objects -> Nat]
      /\ content' \in [Objects -> Contents]
      /\ revision' \in Nat /\ revision \in Nat /\ revision <= revision'
      /\ \A x \in Objects : version'[x] <= revision'
      /\ \A x \in Objects : \/ version'[x] > revision
                            \/ version'[x] = Absent
                            \/ version'[x] = version[x] /\ content'[x] = content[x]
      /\ Vacant'
  <2>1. CASE OperatorEdits(o)
    <3>1. PICK f \in Fields : Put(o, [content[o] EXCEPT ![f] = Operator])
      BY <2>1 DEF OperatorEdits
    <3>2. content[o] \in Contents BY <1>1 DEF TypeOK
    <3>3. [content[o] EXCEPT ![f] = Operator] \in Contents BY <3>2, EditedFact
    <3> QED BY <3>1, <3>3, <1>1, PutFact DEF TypeOK
  <2>2. CASE OperatorDeletes(o)
    BY <2>2, <1>1, PristineFact
    DEF OperatorDeletes, TypeOK, IInv, Vacant, Absent
  <2> QED BY <2>1, <2>2
<1>3. TypeOK' BY <1>1, <1>2 DEF TypeOK
<1>4. \A d \in Calls : CallOK(d)' /\ Window(d)' BY <1>1, <1>2, BystanderKept
<1> QED BY <1>2, <1>3, <1>4 DEF IInv

(* The writes of the program, gathered.                                     *)
LEMMA WritesSpelled ==
    ASSUME IInv, NEW c \in Calls, Patch(c) \/ Create(c) \/ Replace(c)
    PROVE  \E new \in Contents, action \in Actions :
             /\ pc[c] = "write"
             /\ (action = "created") <=> (version[Doc(c)] = Absent)
             /\ Write(c, new, action)
<1>1. pc[c] = "write" BY DEF Patch, Create, Replace, Writing
<1>2. Doc(c) \in Objects BY <1>1, DocTyped
<1>3. With(c, content[Doc(c)]) \in Contents
  <2>1. content[Doc(c)] \in Contents BY <1>2 DEF IInv, TypeOK
  <2> QED BY <2>1, WithFact
<1>4. With(c, base[c][Doc(c)]) \in Contents
  <2>1. base[c][Doc(c)] \in Contents BY <1>2 DEF IInv, TypeOK
  <2> QED BY <2>1, WithFact
<1>5. With(c, Pristine) \in Contents BY PristineFact, WithFact
<1>6. CASE Patch(c) BY <1>6, <1>1, <1>3 DEF Patch, Actions
<1>7. CASE Create(c) BY <1>7, <1>1, <1>5 DEF Create, Actions
<1>8. CASE Replace(c)
  <2>1. version[Doc(c)] # Absent
    BY <1>1, <1>8 DEF Replace, Writing, IInv, Window
  <2> QED BY <2>1, <1>8, <1>1, <1>4 DEF Replace, Actions
<1> QED BY <1>6, <1>7, <1>8

LEMMA NextIInv == IInv /\ [Next]_vars => IInv'
<1> SUFFICES ASSUME IInv, [Next]_vars PROVE IInv'
  OBVIOUS
<1>1. ASSUME NEW c \in Calls, Compose(c) PROVE IInv' BY <1>1, ComposeIInv
<1>2. ASSUME NEW c \in Calls, Guard(c) PROVE IInv'
  <2>1. CASE RefuseReadOnly(c)
    BY <2>1, EndIInv DEF RefuseReadOnly, Places
  <2>2. CASE ReturnEmpty(c) BY <2>2, EndIInv DEF ReturnEmpty, Places
  <2>3. CASE RefuseNamespace(c) BY <2>3, EndIInv DEF RefuseNamespace, Places
  <2>4. CASE Admit(c) BY <2>4, AdmitIInv
  <2> QED BY <2>1, <2>2, <2>3, <2>4, <1>2 DEF Guard
<1>3. ASSUME NEW c \in Calls, NEW why \in Failures,
             pc[c] \in {"get", "write"}, Raise(c, why)
      PROVE  IInv'
  BY <1>3, EndIInv DEF Raise, Places
<1>4. ASSUME NEW c \in Calls, Locate(c) PROVE IInv'
  <2>1. CASE Get(c) BY <2>1, GetIInv
  <2>2. CASE UnknownKind(c) \/ GetMissing(c) \/ RequestFails(c)
    BY <2>2, <1>3 DEF UnknownKind, GetMissing, RequestFails, Failures
  <2> QED BY <2>1, <2>2, <1>4 DEF Locate
<1>5. ASSUME NEW c \in Calls, Modify(c) PROVE IInv'
  <2>1. CASE Patch(c) \/ Create(c) \/ Replace(c)
    BY <2>1, WritesSpelled, WriteIInv
  <2>2. CASE PatchMissing(c) \/ CreateConflict(c) \/ ReplaceConflict(c)
               \/ ReplaceMissing(c)
    BY <2>2, <1>3
    DEF PatchMissing, CreateConflict, ReplaceConflict, ReplaceMissing, Writing, Failures
  <2> QED BY <2>1, <2>2, <1>5 DEF Modify
<1>6. ASSUME NEW o \in Objects, OperatorEdits(o) \/ OperatorDeletes(o) PROVE IInv'
  BY <1>6, OperatorIInv
<1>7. CASE UNCHANGED vars
  <2>1. UNCHANGED <<version, content, revision, readOnly, pc, tool, docs, base, pos,
                    read, readContent, records, wrote>>
    BY <1>7 DEF vars, cluster, request, found
  <2>2. TypeOK' /\ Vacant' BY <2>1 DEF IInv, TypeOK, Vacant
  <2>3. \A d \in Calls : CallOK(d)' /\ Window(d)'
    BY <2>1, BystanderKept DEF IInv, TypeOK
  <2> QED BY <2>2, <2>3 DEF IInv
<1> QED BY <1>1, <1>2, <1>4, <1>5, <1>6, <1>7 DEF Next

LEMMA WritesInvariant == Spec => []IInv
  BY InitIInv, NextIInv, PTL DEF Spec

-----------------------------------------------------------------------------

(* The state of the writing tools is always well typed.                     *)
THEOREM TypeCorrect == Spec => []TypeOK
  BY WritesInvariant, PTL DEF IInv

(* Read-only mode and the allowlist stop a call before its first write,     *)
(* whatever manifest it carries (generic.py:654-669, 859-876).              *)
THEOREM GuardsAlwaysPrecede == Spec => []GuardsPrecedeWrites
<1>1. IInv => GuardsPrecedeWrites
  BY DEF IInv, CallOK, Guarded, Before, GuardsPrecedeWrites
<1> QED BY <1>1, WritesInvariant, PTL

(* A manifest is written front to back, without a gap, however the call     *)
(* ends.                                                                    *)
THEOREM WritesStayPrefix == Spec => []WritesArePrefix
<1>1. IInv => WritesArePrefix
  <2> SUFFICES ASSUME IInv, NEW c \in Calls
               PROVE  /\ Len(wrote[c]) <= Len(docs[c])
                      /\ \A i \in DOMAIN wrote[c] : wrote[c][i].doc = docs[c][i].of
                      /\ pc[c] = "returned" => Len(wrote[c]) = Len(docs[c])
                      /\ pc[c] \in Failures => Len(wrote[c]) \in {pos[c] - 1, pos[c]}
    BY DEF WritesArePrefix
  <2>1. DOMAIN wrote[c] = 1..Len(wrote[c]) BY DEF IInv, TypeOK
  <2> QED BY <2>1 DEF IInv, CallOK, Progress
<1> QED BY <1>1, WritesInvariant, PTL

(* No reply claims a creation that somebody else made, or hides its own.    *)
THEOREM ReportsStayTrue == Spec => []ReportsAreTrue
<1>1. IInv => ReportsAreTrue
  <2> SUFFICES ASSUME IInv, NEW c \in Calls, NEW i \in DOMAIN records[c]
               PROVE  /\ i \in DOMAIN wrote[c]
                      /\ (records[c][i] = "created") <=> wrote[c][i].new
    BY DEF ReportsAreTrue
  <2>1. /\ DOMAIN records[c] = 1..Len(records[c]) /\ Len(records[c]) \in Nat
        /\ DOMAIN wrote[c] = 1..Len(wrote[c]) /\ Len(wrote[c]) \in Nat
    BY DEF IInv, TypeOK
  <2>2. Len(records[c]) <= Len(wrote[c]) BY DEF IInv, CallOK, Progress
  <2>3. (records[c][i] = "created") <=> wrote[c][i].new
    BY <2>1 DEF IInv, CallOK, Truth
  <2> QED BY <2>1, <2>2, <2>3
<1> QED BY <1>1, WritesInvariant, PTL

(* The steps that send no write leave every call's history of writes alone. *)
LEMMA OnlyWritersWrite ==
    ASSUME IInv, [Next]_vars, NEW d \in Calls, WritesNow(d)
    PROVE  Patch(d) \/ Create(d) \/ Replace(d)
<1>1. CASE UNCHANGED vars BY <1>1 DEF vars, WritesNow
<1>2. ASSUME NEW c \in Calls, Compose(c) \/ Guard(c) \/ Locate(c) PROVE FALSE
  BY <1>2 DEF WritesNow, Compose, Guard, RefuseReadOnly, ReturnEmpty, RefuseNamespace,
              Admit, Locate, UnknownKind, GetMissing, Get, RequestFails, Raise
<1>3. ASSUME NEW o \in Objects, OperatorEdits(o) \/ OperatorDeletes(o) PROVE FALSE
  BY <1>3 DEF WritesNow, OperatorEdits, OperatorDeletes
<1>4. ASSUME NEW c \in Calls, Modify(c)
      PROVE  Patch(d) \/ Create(d) \/ Replace(d)
  <2>1. CASE PatchMissing(c) \/ CreateConflict(c) \/ ReplaceConflict(c)
               \/ ReplaceMissing(c)
    BY <2>1
    DEF WritesNow, PatchMissing, CreateConflict, ReplaceConflict, ReplaceMissing, Raise
  <2>2. CASE Patch(c) \/ Create(c) \/ Replace(c)
    <3>1. PICK e : wrote' = [wrote EXCEPT ![c] = Append(@, e)]
      BY <2>2 DEF Patch, Create, Replace, Write
    <3>2. c = d BY <3>1 DEF WritesNow, IInv, TypeOK
    <3> QED BY <3>2, <2>2
  <2> QED BY <2>1, <2>2, <1>4 DEF Modify
<1> QED BY <1>1, <1>2, <1>3, <1>4 DEF Next

(* What a PUT of call d changes, its own GET had found.                     *)
LEMMA PutIsOfWhatWasRead ==
    ASSUME IInv, [Next]_vars, NEW d \in Calls, WritesNow(d), tool[d] = "replace"
    PROVE  content[Doc(d)] = readContent[d]
<1>1. Replace(d)
  BY OnlyWritersWrite DEF Patch, Create, Writing
<1>2. pc[d] = "write" /\ version[Doc(d)] = read[d]
  BY <1>1 DEF Replace, Writing
<1> QED BY <1>2 DEF IInv, Window

(* A write that lands between replace_resource's GET and its PUT survives,  *)
(* in every execution: the PUT is refused.                                  *)
THEOREM RacingWritesSurvive == Spec => ReplaceKeepsRacingWrites
<1>1. IInv /\ [Next]_vars =>
        [\A c \in Calls : WritesNow(c) /\ tool[c] = "replace" =>
            ChangesOnlyWhatWasIn(c, readContent[c])]_vars
  BY PutIsOfWhatWasRead DEF ChangesOnlyWhatWasIn
<1> QED BY <1>1, WritesInvariant, PTL DEF Spec, ReplaceKeepsRacingWrites
=============================================================================
