----------------------------- MODULE KeyedEdits -----------------------------
(***************************************************************************)
(* The tools that edit one map of an object key by key: update_configmap   *)
(* (tools/configmap.py) and add_label, remove_label (tools/generic.py),    *)
(* called by several tool bodies at a time while others write too.         *)
(* One action is one HTTP request and what the body does up to the next.   *)
(*                                                                         *)
(* The object is a ConfigMap with its data and its labels.  A map gives    *)
(* every key a text or Nothing, for a key that is not there; the apiserver *)
(* does not store an empty map of labels.                                  *)
(***************************************************************************)
CONSTANTS
    Editors,   (* the tool calls                                             *)
    Keys,
    Texts,
    Nothing,   (* what a key has that is not there                           *)
    EditRequests   (* what the calls may ask for                             *)

VARIABLES
    stored,     (* the object exists                                         *)
    data,       (* its data                                                  *)
    labels,     (* its metadata.labels                                       *)
    writable,   (* neither read-only mode nor the allowlist forbids          *)
    at,         (* where each call is, or how it ended                       *)
    edit,       (* what it was asked for                                     *)
    body,       (* update_configmap: the data it is going to send            *)
    raced       (* the keys others have changed since it read (history)      *)

object == <<stored, data, labels>>
editVars == <<object, writable, at, edit, body, raced>>

Maps == [Keys -> Texts \cup {Nothing}]
NoKeys == [k \in Keys |-> Nothing]
Over(old, new) == [k \in Keys |-> IF new[k] = Nothing THEN old[k] ELSE new[k]]

Edits ==
    [op : {"update"}, new : Maps, merge : BOOLEAN]
        \cup [op : {"add_label"}, key : Keys, text : Texts]
        \cup [op : {"remove_label"}, key : Keys]
NoEdit == [op |-> "none"]

ASSUME EditAssumption == Nothing \notin Texts /\ EditRequests \subseteq Edits

EditInit ==
    /\ stored = TRUE
    /\ data \in Maps
    /\ labels \in Maps
    /\ writable \in BOOLEAN
    /\ at = [e \in Editors |-> "idle"]
    /\ edit = [e \in Editors |-> NoEdit]
    /\ body = [e \in Editors |-> NoKeys]
    /\ raced = [e \in Editors |-> {}]

MoveTo(e, place) == at' = [at EXCEPT ![e] = place]

(* A call that has read and not yet written notices nothing of this.        *)
Changed == {k \in Keys : data'[k] # data[k]}
Race(others) == raced' = [e \in Editors |-> IF e \in others THEN raced[e] \cup Changed ELSE raced[e]]

AskEdit(e) ==
    /\ at[e] = "idle"
    /\ \E r \in EditRequests : edit' = [edit EXCEPT ![e] = r]
    /\ MoveTo(e, IF writable THEN "asked" ELSE "refused")
    /\ UNCHANGED <<object, writable, body, raced>>

(* A request without effect: no such object, or the request failed.         *)
EditFails(e) ==
    /\ at[e] \in {"asked", "patching"}
    /\ MoveTo(e, "failed")
    /\ UNCHANGED <<object, writable, edit, body, raced>>

Editing(e, op) == at[e] = "asked" /\ edit[e].op = op /\ stored

(* A faulty form: the body is built on a merge whatever was asked, so that  *)
(* the patch writes back what was read.                                     *)
ReadMapAlwaysMerges(e) ==
    /\ Editing(e, "update")
    /\ body' = [body EXCEPT ![e] = Over(data, edit[e].new)]
    /\ raced' = [raced EXCEPT ![e] = {}]
    /\ MoveTo(e, "patching")
    /\ UNCHANGED <<object, writable, edit>>

(* update_configmap reads the ConfigMap in either case, and with merge lays *)
(* the new data over what it read.                                          *)
ReadMap(e) ==
    /\ Editing(e, "update")
    /\ body' = [body EXCEPT ![e] = IF edit[e].merge THEN Over(data, edit[e].new) ELSE edit[e].new]
    /\ raced' = [raced EXCEPT ![e] = {}]
    /\ MoveTo(e, "patching")
    /\ UNCHANGED <<object, writable, edit>>

(* PATCH merges: it sets the keys it names and leaves the others alone.     *)
(* The answer may be lost.                                                  *)
PatchMap(e) ==
    /\ at[e] = "patching"
    /\ stored
    /\ data' = Over(data, body[e])
    /\ Race(Editors \ {e})
    /\ MoveTo(e, "updated") \/ MoveTo(e, "failed")
    /\ UNCHANGED <<stored, labels, writable, edit, body>>

(* JSON-patch `add` below /metadata/labels needs the map to be there.       *)
AddLabel(e) ==
    /\ Editing(e, "add_label")
    /\ IF labels = NoKeys
       THEN MoveTo(e, "failed") /\ UNCHANGED labels
       ELSE /\ labels' = [labels EXCEPT ![edit[e].key] = edit[e].text]
            /\ MoveTo(e, "updated") \/ MoveTo(e, "failed")
    /\ UNCHANGED <<stored, data, writable, edit, body, raced>>

(* A merge patch with null: the key goes, and it is no error if it was not  *)
(* there.                                                                   *)
RemoveLabel(e) ==
    /\ Editing(e, "remove_label")
    /\ labels' = [labels EXCEPT ![edit[e].key] = Nothing]
    /\ MoveTo(e, "updated") \/ MoveTo(e, "failed")
    /\ UNCHANGED <<stored, data, writable, edit, body, raced>>

(* Other writers of the cluster.                                            *)
OtherEdit ==
    /\ stored
    /\ \E k \in Keys, t \in Texts \cup {Nothing} : data' = [data EXCEPT ![k] = t]
    /\ Race(Editors)
    /\ UNCHANGED <<stored, labels, writable, at, edit, body>>

OtherDelete ==
    /\ stored
    /\ stored' = FALSE
    /\ UNCHANGED <<data, labels, writable, at, edit, body, raced>>

EditStep(e) ==
    \/ AskEdit(e) \/ EditFails(e) \/ ReadMap(e) \/ PatchMap(e) \/ AddLabel(e) \/ RemoveLabel(e)

EditNext == OtherEdit \/ OtherDelete \/ \E e \in Editors : EditStep(e)

EditSpec == EditInit /\ [][EditNext]_editVars

-----------------------------------------------------------------------------
EditType ==
    /\ stored \in BOOLEAN /\ writable \in BOOLEAN
    /\ data \in Maps /\ labels \in Maps
    /\ at \in [Editors -> {"idle", "refused", "asked", "patching", "updated", "failed"}]
    /\ edit \in [Editors -> Edits \cup {NoEdit}]
    /\ body \in [Editors -> Maps]
    /\ raced \in [Editors -> SUBSET Keys]
    /\ \A e \in Editors : at[e] = "patching" => edit[e].op = "update"

(* Between its read and its patch, a call that is going to write back a key *)
(* it was not given holds the key's present text, unless somebody has       *)
(* changed that key meanwhile.                                              *)
BodyIsFresh ==
    \A e \in Editors : at[e] = "patching" =>
        \A k \in Keys : edit[e].new[k] = Nothing /\ body[e][k] # Nothing =>
            edit[e].merge /\ (k \in raced[e] \/ body[e][k] = data[k])

(* update_configmap changes a key it was not given only by writing back,    *)
(* with merge, what it read before another writer changed that key          *)
(* (configmap.py:90-102): without merge never, and never unraced.           *)
UpdateChangesItsKeys ==
    [][\A e \in Editors, k \in Keys :
          PatchMap(e) /\ data'[k] # data[k] /\ edit[e].new[k] = Nothing =>
              edit[e].merge /\ k \in raced[e]]_editVars
=============================================================================
