------------------------------ MODULE Notifier ------------------------------
(***************************************************************************)
(* notify (tools/notifier.py): a message goes to all configured webhooks,  *)
(* or to those of one name, on one thread each; several calls may be under *)
(* way.  The threads share one HTTP session, which whoever finds none      *)
(* builds, without a lock, and which sends a POST again when the webhook   *)
(* answers with a server error.                                            *)
(*                                                                         *)
(* Webhooks are numbered as they are configured.  The wording of errors is *)
(* left out.                                                               *)
(***************************************************************************)
EXTENDS Naturals, Sequences, SequencesExt

CONSTANTS
    Notices,     (* the tool calls                                           *)
    Hooks,       (* the webhooks: a sequence of [name, ok, limit] where ok   *)
                 (* says whether the settings accept it, and limit how big a *)
                 (* message it takes, 0 for any                              *)
    Messages,    (* what the calls ask: [size, name, level] where name is a  *)
                 (* name or Everyone, and level is known or not              *)
    Everyone,
    MaxTries     (* 1 + Retry.total                                          *)

ASSUME NotifierAssumption ==
    /\ Hooks \in Seq([name : STRING, ok : BOOLEAN, limit : Nat])
    /\ \A m \in Messages : m.size \in Nat /\ m.level \in BOOLEAN
    /\ Everyone \notin STRING
    /\ MaxTries \in Nat \ {0}

VARIABLES
    session,    (* _SESSION is there                                         *)
    sessions,   (* how many have been built (history)                        *)
    phase,      (* where each call is, or what it answered                   *)
    message,    (* its message                                               *)
    thread,     (* where the thread of each webhook is                       *)
    tries,      (* how often it has sent                                     *)
    reached,    (* the webhooks that have taken the message (history)        *)
    rows        (* the table: webhook and whether it is reported as sent     *)

sending == <<thread, tries, reached>>
notifyVars == <<session, sessions, phase, message, sending, rows>>

HookIds == DOMAIN Hooks
None == [size |-> 0, name |-> "", level |-> FALSE]

NotifyInit ==
    /\ session = FALSE
    /\ sessions = 0
    /\ phase = [n \in Notices |-> "idle"]
    /\ message = [n \in Notices |-> None]
    /\ thread = [n \in Notices |-> [h \in HookIds |-> "off"]]
    /\ tries = [n \in Notices |-> [h \in HookIds |-> 0]]
    /\ reached = [n \in Notices |-> {}]
    /\ rows = [n \in Notices |-> <<>>]

Enter(n, place) == phase' = [phase EXCEPT ![n] = place]

(***************************************************************************)
(* The checks, in the order of the code: webhooks at all, the name, the    *)
(* level, a valid webhook; a name that only invalid ones have is unknown.  *)
(***************************************************************************)
Chosen(m) == {h \in HookIds : Hooks[h].ok /\ (m.name = Everyone \/ Hooks[h].name = m.name)}
Invalid == {h \in HookIds : ~Hooks[h].ok}

Refusal(m) ==
    CASE Hooks = <<>> -> "none configured"
      [] Hooks # <<>> /\ m.name # Everyone /\ Chosen(m) = {} -> "not found"
      [] Hooks # <<>> /\ (m.name = Everyone \/ Chosen(m) # {}) ->
             CASE ~m.level -> "invalid level"
               [] m.level /\ Chosen(m) = {} -> "all invalid"
               [] OTHER -> "sending"

Notify(n) ==
    /\ phase[n] = "idle"
    /\ \E m \in Messages :
          /\ message' = [message EXCEPT ![n] = m]
          /\ Enter(n, Refusal(m))
          /\ thread' = [thread EXCEPT ![n] = [h \in HookIds |->
                            IF Refusal(m) = "sending" /\ h \in Chosen(m) THEN "start" ELSE "off"]]
    /\ UNCHANGED <<session, sessions, tries, reached, rows>>

(***************************************************************************)
(* The thread of one webhook.                                              *)
(***************************************************************************)
Threads(n, h, place) == thread' = [thread EXCEPT ![n][h] = place]

TooBig(n, h) == Hooks[h].limit # 0 /\ message[n].size > Hooks[h].limit

(* A message that the webhook would refuse is not sent.  Otherwise the      *)
(* thread takes the session, or finds none and builds one.                  *)
StartPost(n, h) ==
    /\ thread[n][h] = "start"
    /\ Threads(n, h, IF TooBig(n, h) THEN "refused" ELSE IF session THEN "posting" ELSE "building")
    /\ UNCHANGED <<session, sessions, phase, message, tries, reached, rows>>

BuildSession(n, h) ==
    /\ thread[n][h] = "building"
    /\ session' = TRUE
    /\ sessions' = sessions + 1
    /\ Threads(n, h, "posting")
    /\ UNCHANGED <<phase, message, tries, reached, rows>>

(* One POST.  The webhook takes it or does not, and answers or does not: a  *)
(* server error or a broken connection is tried again as long as tries are   *)
(* left, else it is final.  The webhook may have a message that is reported *)
(* as failed, and may have it twice.                                        *)
Post(n, h) ==
    /\ thread[n][h] = "posting"
    /\ tries' = [tries EXCEPT ![n][h] = @ + 1]
    /\ \/ reached' = [reached EXCEPT ![n] = @ \cup {h}] /\ Threads(n, h, "sent")
       \/ /\ \/ reached' = [reached EXCEPT ![n] = @ \cup {h}]
             \/ UNCHANGED reached
          /\ \/ Threads(n, h, "refused")
             \/ tries[n][h] + 1 < MaxTries /\ UNCHANGED thread
    /\ UNCHANGED <<session, sessions, phase, message, rows>>

(***************************************************************************)
(* The call takes the results in the order of the configuration, waiting   *)
(* for each.                                                               *)
(***************************************************************************)
Row(n, h) == [hook |-> h, sent |-> thread[n][h] = "sent"]
Left(n) == {h \in Chosen(message[n]) : \A i \in DOMAIN rows[n] : rows[n][i].hook # h}

(* A faulty form: the first failure ends the loop.                          *)
CollectStopsAtFailure(n, h) ==
    /\ phase[n] = "sending"
    /\ h \in Left(n) /\ \A g \in Left(n) : h <= g
    /\ thread[n][h] \in {"sent", "refused"}
    /\ rows' = [rows EXCEPT ![n] = Append(@, Row(n, h))]
    /\ Enter(n, IF Left(n) = {h} \/ thread[n][h] = "refused" THEN "answered" ELSE "sending")
    /\ UNCHANGED <<session, sessions, message, sending>>

Collect(n, h) ==
    /\ phase[n] = "sending"
    /\ h \in Left(n) /\ \A g \in Left(n) : h <= g
    /\ thread[n][h] \in {"sent", "refused"}
    /\ rows' = [rows EXCEPT ![n] = Append(@, Row(n, h))]
    /\ Enter(n, IF Left(n) = {h} THEN "answered" ELSE "sending")
    /\ UNCHANGED <<session, sessions, message, sending>>

NotifyStep(n) ==
    \/ Notify(n)
    \/ \E h \in HookIds : StartPost(n, h) \/ BuildSession(n, h) \/ Post(n, h) \/ Collect(n, h)
NotifyNext == \E n \in Notices : NotifyStep(n)

NotifySpec == NotifyInit /\ [][NotifyNext]_notifyVars

-----------------------------------------------------------------------------
Refusals == {"none configured", "not found", "invalid level", "all invalid"}

NotifyType ==
    /\ session \in BOOLEAN /\ sessions \in Nat
    /\ phase \in [Notices -> {"idle", "sending", "answered"} \cup Refusals]
    /\ message \in [Notices -> Messages \cup {None}]
    /\ thread \in [Notices -> [HookIds -> {"off", "start", "building", "posting", "sent", "refused"}]]
    /\ tries \in [Notices -> [HookIds -> 0..MaxTries]]
    /\ reached \in [Notices -> SUBSET HookIds]
    /\ rows \in [Notices -> Seq([hook : HookIds, sent : BOOLEAN])]

(* The answer of notify has one row for each valid webhook that was meant,  *)
(* whatever happened to the others, in the order of the configuration; a    *)
(* row that says sent is of a webhook that has the message, and nobody else *)
(* has it (notifier.py:584-649).                                            *)
FanOutIsReported ==
    \A n \in Notices :
        /\ phase[n] = "answered" =>
               {rows[n][i].hook : i \in DOMAIN rows[n]} = Chosen(message[n])
        /\ \A i, j \in DOMAIN rows[n] : i < j => rows[n][i].hook < rows[n][j].hook
        /\ \A i \in DOMAIN rows[n] : rows[n][i].sent => rows[n][i].hook \in reached[n]
        /\ reached[n] \subseteq {h \in Chosen(message[n]) : ~TooBig(n, h)}
=============================================================================
