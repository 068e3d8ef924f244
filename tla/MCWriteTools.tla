---------------------------- MODULE MCWriteTools ----------------------------
(* Instances of WriteTools for TLC. *)
EXTENDS WriteTools

CONSTANTS web, db, k1, k2

MCSelectors == {{"app"}, {"db"}}

(* Updates of one key with and without merge, and its label.                *)
MCEdits ==
    [op : {"update"}, new : {[k \in Keys |-> IF k = k1 THEN "text" ELSE Nothing]}, merge : BOOLEAN]
        \cup [op : {"add_label"}, key : {k1}, text : Texts]
        \cup [op : {"remove_label"}, key : {k1}]

(* A list of workloads to change, one that is deleted while others wait for *)
(* it, and every way to wait.                                               *)
MCTasks ==
    [op : {"template"}, names : {<<db, web>>}] \cup [op : {"scale"}, names : {<<web>>}]
        \cup [op : {"delete", "undo"}, name : {db}]
        \cup [op : {"status"}, name : {web}, watch : BOOLEAN, timeout : {0}]
        \cup [op : {"wait_condition"}, name : {db}, timeout : {0}]
        \cup [op : {"wait_jsonpath"}, name : {web}, value : {2}, timeout : {0}]

(* The first and the third are accepted, and only the first takes a message *)
(* of any size; two have one name.                                          *)
MCHooks ==
    <<[name |-> "ops", ok |-> TRUE, limit |-> 0], [name |-> "dev", ok |-> FALSE, limit |-> 0],
      [name |-> "dev", ok |-> TRUE, limit |-> 1]>>

MCMessages ==
    {[size |-> t[1], name |-> t[2], level |-> t[3]] :
        t \in {<<2, Everyone, TRUE>>, <<1, "dev", TRUE>>,
               <<1, "nobody", FALSE>>, <<1, Everyone, FALSE>>}}
=============================================================================
