--------------------------- MODULE ManifestWrites ---------------------------
(***************************************************************************)
(* apply_yaml and replace_resource (tools/generic.py): several tool bodies *)
(* on the worker pool, and operators with kubectl, writing manifests of    *)
(* several documents to one apiserver.  A body makes one HTTP request at a *)
(* time; between its requests anything may happen to the cluster, and each *)
(* request may fail, or take effect and lose its answer.                   *)
(*                                                                         *)
(* An object's content is abstracted to who wrote each of its fields last. *)
(* A field is what a patch replaces as a whole: a scalar, an entry of a    *)
(* map, or a list without a merge key.  A patch overwrites the fields its  *)
(* document names and leaves the others; a PUT leaves exactly what its     *)
(* manifest holds: the agent's own fields and, for the others, what the    *)
(* agent saw when it wrote the manifest.                                   *)
(***************************************************************************)
EXTENDS Integers, Sequences

CONSTANTS
    Calls,        (* the tool calls                                          *)
    Objects,      (* the names of objects manifests speak of                 *)
    Fields,       (* the fields of an object                                 *)
    Manifests,    (* the manifests: sequences of documents                   *)
    Allowed,      (* the objects whose namespace the allowlist admits        *)
    Known,        (* the objects whose apiVersion and kind are served        *)
    Operator,     (* the author of edits made with kubectl                   *)
    MaxRevision   (* bound on the operator's activity                        *)

(* A document names an object and the fields it wants set.                  *)
Documents == [of : Objects, sets : SUBSET Fields]

ASSUME ManifestAssumption ==
    /\ Manifests \subseteq Seq(Documents)
    /\ Allowed \subseteq Objects
    /\ Known \subseteq Objects
    /\ Operator \notin Calls
    /\ MaxRevision \in Nat

VARIABLES
    version,   (* resourceVersion of each object, 0 when it does not exist   *)
    content,   (* who wrote each field of each object                        *)
    revision,  (* the apiserver's revision counter                           *)
    readOnly,  (* K8S_MCP_READ_ONLY                                          *)
    pc,        (* where each call is, or how it ended                        *)
    tool,      (* "apply" or "replace"                                       *)
    docs,      (* the documents of its manifest                              *)
    base,      (* the contents the agent saw, and so put in a full manifest  *)
    pos,       (* the document being worked on                               *)
    read,      (* resourceVersion found by the body's own GET                *)
    readContent, (* the content of the object at that GET (history)          *)
    records,   (* what has been recorded for the reply                       *)
    wrote      (* the writes that took effect, in order (history)            *)

cluster == <<version, content, revision>>
request == <<tool, docs, base>>
found == <<read, readContent>>
vars == <<cluster, readOnly, pc, request, pos, found, records, wrote>>

Absent == 0
Tools == {"apply", "replace"}
Failures == {"unknown kind", "not found", "conflict", "api error"}
Places == {"idle", "composed", "get", "write", "refused", "returned"} \cup Failures

Actions == {"created", "configured (patched)", "replaced"}
Entries == [doc : Objects, new : BOOLEAN]

(* Nobody: a field that is absent, or as it was before all this.            *)
Nobody == "nobody"
Authors == Calls \cup {Operator, Nobody}
Contents == [Fields -> Authors]
Pristine == [f \in Fields |-> Nobody]

Doc(c) == docs[c][pos[c]].of

(* The content x with the fields of c's document overwritten by c.          *)
With(c, x) ==
    [f \in Fields |-> IF f \in docs[c][pos[c]].sets THEN c ELSE x[f]]

(* The names a manifest speaks of.                                          *)
Names(m) == {m[i].of : i \in DOMAIN m}

Init ==
    /\ version \in [Objects -> {Absent, 1}]
    /\ content = [o \in Objects |-> Pristine]
    /\ revision = 1
    /\ readOnly \in BOOLEAN
    /\ pc = [c \in Calls |-> "idle"]
    /\ tool = [c \in Calls |-> "apply"]
    /\ docs = [c \in Calls |-> <<>>]
    /\ base = [c \in Calls |-> [o \in Objects |-> Pristine]]
    /\ pos = [c \in Calls |-> 1]
    /\ read = [c \in Calls |-> Absent]
    /\ readContent = [c \in Calls |-> Pristine]
    /\ records = [c \in Calls |-> <<>>]
    /\ wrote = [c \in Calls |-> <<>>]

(***************************************************************************)
(* The agent writes its manifest.  For apply_yaml it names only what it    *)
(* wants changed; for replace_resource it edits what get_resource_yaml     *)
(* showed it.                                                              *)
(***************************************************************************)
Compose(c) ==
    /\ pc[c] = "idle"
    /\ pc' = [pc EXCEPT ![c] = "composed"]
    /\ \E t \in Tools, m \in Manifests :
        /\ tool' = [tool EXCEPT ![c] = t]
        /\ docs' = [docs EXCEPT ![c] = m]
        /\ base' = [base EXCEPT ![c] = [o \in Objects |->
                      IF t = "replace" /\ o \in Names(m) THEN content[o] ELSE Pristine]]
    /\ UNCHANGED <<cluster, readOnly, pos, found, records, wrote>>

(***************************************************************************)
(* The body begins: write guards, before any request to the cluster.       *)
(***************************************************************************)
End(c, how) ==
    /\ pc' = [pc EXCEPT ![c] = how]
    /\ UNCHANGED <<readOnly, request, pos, found, records>>

RefuseReadOnly(c) ==
    /\ pc[c] = "composed"
    /\ readOnly
    /\ End(c, "refused")
    /\ UNCHANGED <<cluster, wrote>>

ReturnEmpty(c) ==
    /\ pc[c] = "composed"
    /\ ~readOnly
    /\ docs[c] = <<>>
    /\ End(c, "returned")
    /\ UNCHANGED <<cluster, wrote>>

(* Every document's namespace is checked before the first one is written.   *)
RefuseNamespace(c) ==
    /\ pc[c] = "composed"
    /\ ~readOnly
    /\ ~(Names(docs[c]) \subseteq Allowed)
    /\ End(c, "refused")
    /\ UNCHANGED <<cluster, wrote>>

Admit(c) ==
    /\ pc[c] = "composed"
    /\ ~readOnly
    /\ docs[c] # <<>>
    /\ Names(docs[c]) \subseteq Allowed
    /\ pc' = [pc EXCEPT ![c] = "get"]
    /\ UNCHANGED <<cluster, readOnly, request, pos, found, records, wrote>>

(***************************************************************************)
(* One document: resolve its kind, GET the object.                         *)
(***************************************************************************)
Raise(c, why) ==
    /\ End(c, why)
    /\ UNCHANGED <<cluster, wrote>>

UnknownKind(c) ==
    /\ pc[c] = "get"
    /\ Doc(c) \notin Known
    /\ Raise(c, "unknown kind")

(* A request fails without effect; every failure ends the body.             *)
RequestFails(c) ==
    /\ pc[c] \in {"get", "write"}
    /\ Doc(c) \in Known
    /\ Raise(c, "api error")

GetMissing(c) ==
    /\ pc[c] = "get"
    /\ Doc(c) \in Known
    /\ tool[c] = "replace"
    /\ version[Doc(c)] = Absent
    /\ Raise(c, "not found")

Get(c) ==
    /\ pc[c] = "get"
    /\ Doc(c) \in Known
    /\ tool[c] = "apply" \/ version[Doc(c)] # Absent
    /\ read' = [read EXCEPT ![c] = version[Doc(c)]]
    /\ readContent' = [readContent EXCEPT ![c] = content[Doc(c)]]
    /\ pc' = [pc EXCEPT ![c] = "write"]
    /\ UNCHANGED <<cluster, readOnly, request, pos, records, wrote>>

(***************************************************************************)
(* The write of one document.  The apiserver gives an object a new version *)
(* when its content changes, and leaves it alone when it does not.         *)
(***************************************************************************)
Put(o, new) ==
    IF version[o] # Absent /\ content[o] = new THEN UNCHANGED cluster
    ELSE /\ revision' = revision + 1
         /\ version' = [version EXCEPT ![o] = revision + 1]
         /\ content' = [content EXCEPT ![o] = new]

(* The write takes effect.  Its answer arrives and the body goes on to the  *)
(* next document or returns; or the answer is lost (read timeout) and the   *)
(* body fails like any other request.                                       *)
Write(c, new, action) ==
    /\ Put(Doc(c), new)
    /\ wrote' = [wrote EXCEPT ![c] = Append(@,
                   [doc |-> Doc(c), new |-> version[Doc(c)] = Absent])]
    /\ UNCHANGED <<readOnly, request, found>>
    /\ \/ /\ records' = [records EXCEPT ![c] = Append(@, action)]
          /\ pos' = [pos EXCEPT ![c] = IF @ < Len(docs[c]) THEN @ + 1 ELSE @]
          /\ pc' = [pc EXCEPT ![c] =
                      IF pos[c] < Len(docs[c]) THEN "get" ELSE "returned"]
       \/ /\ pc' = [pc EXCEPT ![c] = "api error"]
          /\ UNCHANGED <<records, pos>>

Writing(c, t) == pc[c] = "write" /\ tool[c] = t

(* apply_yaml found the object: a merge patch, with no precondition.        *)
Patch(c) ==
    /\ Writing(c, "apply")
    /\ read[c] # Absent
    /\ version[Doc(c)] # Absent
    /\ Write(c, With(c, content[Doc(c)]), "configured (patched)")

PatchMissing(c) ==
    /\ Writing(c, "apply")
    /\ read[c] # Absent
    /\ version[Doc(c)] = Absent
    /\ Raise(c, "not found")

(* apply_yaml did not find the object: create, which refuses to overwrite.  *)
Create(c) ==
    /\ Writing(c, "apply")
    /\ read[c] = Absent
    /\ version[Doc(c)] = Absent
    /\ Write(c, With(c, Pristine), "created")

(* Faulty forms: `already exists` is taken for success, or for a reason to  *)
(* overwrite.                                                               *)
CreateConflictSkips(c) ==
    /\ Writing(c, "apply")
    /\ read[c] = Absent
    /\ version[Doc(c)] # Absent
    /\ records' = [records EXCEPT ![c] = Append(@, "created")]
    /\ pos' = [pos EXCEPT ![c] = IF @ < Len(docs[c]) THEN @ + 1 ELSE @]
    /\ pc' = [pc EXCEPT ![c] = IF pos[c] < Len(docs[c]) THEN "get" ELSE "returned"]
    /\ UNCHANGED <<cluster, readOnly, request, found, wrote>>

CreateConflictPatches(c) ==
    /\ Writing(c, "apply")
    /\ read[c] = Absent
    /\ version[Doc(c)] # Absent
    /\ Write(c, With(c, content[Doc(c)]), "created")

CreateConflict(c) ==
    /\ Writing(c, "apply")
    /\ read[c] = Absent
    /\ version[Doc(c)] # Absent
    /\ Raise(c, "conflict")

(* A faulty form: the manifest carries no resourceVersion.                  *)
ReplaceUnversioned(c) ==
    /\ Writing(c, "replace")
    /\ version[Doc(c)] # Absent
    /\ Write(c, With(c, base[c][Doc(c)]), "replaced")

(* replace_resource: a PUT stamped with the version its own GET returned,   *)
(* whatever version the manifest came from.                                 *)
Replace(c) ==
    /\ Writing(c, "replace")
    /\ version[Doc(c)] = read[c]
    /\ Write(c, With(c, base[c][Doc(c)]), "replaced")

ReplaceConflict(c) ==
    /\ Writing(c, "replace")
    /\ version[Doc(c)] \notin {Absent, read[c]}
    /\ Raise(c, "conflict")

ReplaceMissing(c) ==
    /\ Writing(c, "replace")
    /\ version[Doc(c)] = Absent
    /\ Raise(c, "not found")

(***************************************************************************)
(* Everyone else who writes to the cluster.                                *)
(***************************************************************************)
OperatorEdits(o) ==
    /\ revision < MaxRevision
    /\ \E f \in Fields : Put(o, [content[o] EXCEPT ![f] = Operator])
    /\ UNCHANGED <<readOnly, pc, request, pos, found, records, wrote>>

OperatorDeletes(o) ==
    /\ revision < MaxRevision
    /\ version[o] # Absent
    /\ revision' = revision + 1
    /\ version' = [version EXCEPT ![o] = Absent]
    /\ content' = [content EXCEPT ![o] = Pristine]
    /\ UNCHANGED <<readOnly, pc, request, pos, found, records, wrote>>

Guard(c) == RefuseReadOnly(c) \/ ReturnEmpty(c) \/ RefuseNamespace(c) \/ Admit(c)

Locate(c) == UnknownKind(c) \/ GetMissing(c) \/ Get(c) \/ RequestFails(c)

Modify(c) ==
    \/ Patch(c) \/ PatchMissing(c) \/ Create(c) \/ CreateConflict(c)
    \/ Replace(c) \/ ReplaceConflict(c) \/ ReplaceMissing(c)

Next ==
    \/ \E c \in Calls : Compose(c) \/ Guard(c) \/ Locate(c) \/ Modify(c)
    \/ \E o \in Objects : OperatorEdits(o) \/ OperatorDeletes(o)

Spec == Init /\ [][Next]_vars

-----------------------------------------------------------------------------

(* Every variable has its type; in particular the reply speaks of three     *)
(* kinds of action only.                                                    *)
TypeOK ==
    /\ version \in [Objects -> Nat]
    /\ content \in [Objects -> Contents]
    /\ revision \in Nat
    /\ \A o \in Objects : version[o] <= revision
    /\ readOnly \in BOOLEAN
    /\ pc \in [Calls -> Places]
    /\ tool \in [Calls -> Tools]
    /\ docs \in [Calls -> Seq(Documents)]
    /\ base \in [Calls -> [Objects -> Contents]]
    /\ pos \in [Calls -> Nat]
    /\ read \in [Calls -> Nat]
    /\ readContent \in [Calls -> Contents]
    /\ records \in [Calls -> Seq(Actions)]
    /\ wrote \in [Calls -> Seq(Entries)]

(* The write guards are all or nothing: a call that read-only mode or the   *)
(* allowlist refuses has written none of its documents, not even those that *)
(* come before the offending one, and no document outside the allowlist is  *)
(* ever written.                                                            *)
GuardsPrecedeWrites ==
    \A c \in Calls : wrote[c] # <<>> =>
        /\ ~readOnly
        /\ pc[c] # "refused"
        /\ Names(docs[c]) \subseteq Allowed

(* However a call ends, what it wrote is a prefix of its manifest, in       *)
(* order: all of it when it returned; when it failed, every document before *)
(* the failing one, nothing after it, and the failing one itself only if    *)
(* the answer to its write was lost.                                        *)
WritesArePrefix ==
    \A c \in Calls :
        /\ Len(wrote[c]) <= Len(docs[c])
        /\ \A i \in DOMAIN wrote[c] : wrote[c][i].doc = docs[c][i].of
        /\ pc[c] = "returned" => Len(wrote[c]) = Len(docs[c])
        /\ pc[c] \in Failures => Len(wrote[c]) \in {pos[c] - 1, pos[c]}

(* The reply tells the truth: a document is reported `created` exactly when *)
(* this call's own write brought the object into being, although the object *)
(* may have come or gone since the body looked.                             *)
ReportsAreTrue ==
    \A c \in Calls : \A i \in DOMAIN records[c] :
        /\ i \in DOMAIN wrote[c]
        /\ (records[c][i] = "created") <=> wrote[c][i].new

WritesNow(c) == wrote'[c] # wrote[c]

(* Every field that this step changes in c's object was as in x.            *)
ChangesOnlyWhatWasIn(c, x) ==
    \A f \in Fields :
        content'[Doc(c)][f] # content[Doc(c)][f] => content[Doc(c)][f] = x[f]

(* The optimistic concurrency that replace_resource does have: what its PUT *)
(* removes or overwrites was already there at its own GET, so a write that  *)
(* slips in between the two requests is never lost.                         *)
ReplaceKeepsRacingWrites ==
    [][\A c \in Calls : WritesNow(c) /\ tool[c] = "replace" =>
          ChangesOnlyWhatWasIn(c, readContent[c])]_vars

(* What the module says of apply_yaml, generic.py:9-10: it uses PUT with    *)
(* the ResourceVersion "to prevent overwriting updates of others".  Its     *)
(* write would change only what its own GET had found.                      *)
ApplyKeepsRacingWrites ==
    [][\A c \in Calls : WritesNow(c) /\ tool[c] = "apply" =>
          ChangesOnlyWhatWasIn(c, readContent[c])]_vars
=============================================================================
