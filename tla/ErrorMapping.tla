---------------------------- MODULE ErrorMapping ----------------------------
(***************************************************************************)
(* How call_tool turns what a tool body did into the reply of the MCP      *)
(* request: the except clauses at the end of _K8sMCP.call_tool, together   *)
(* with safe_apiserver_error.                                              *)
(*                                                                         *)
(* An outcome records how a body ended.  exc is the class of the exception *)
(* that left it, or Value when it returned normally.  chain is the class   *)
(* of that exception's __cause__ (or else its __context__), or Nothing; of *)
(* what is further up the chain call_tool sees nothing.                    *)
(* Apiserver exceptions are told apart by their HTTP status, because the   *)
(* status is what the caller acts upon.                                    *)
(***************************************************************************)

Value == "value"
Nothing == "nothing"

ApiExceptions == {"Api400", "Api403", "Api404", "Api409"}
BuiltinExceptions == {"TimeoutError", "PermissionError", "OtherError"}
Exceptions == ApiExceptions \cup BuiltinExceptions \cup {"SafeApiError"}

Outcome ==
    [exc : Exceptions \cup {Value},
     chain : Exceptions \cup {Nothing}]

(* A faulty form: the chain is never inspected, so a RuntimeError raised    *)
(* from an ApiException loses its status.                                   *)
CauseUnchained(o) == o.exc

(* One level of the exception chain: e.__cause__ or e.__context__ or e.     *)
Cause(o) == IF o.chain = Nothing THEN o.exc ELSE o.chain

(* A Kubernetes failure keeps its status in a SafeApiError; everything else *)
(* becomes a SafeApiError of status 0 that names the class only.            *)
Sanitize(cause) == IF cause \in ApiExceptions THEN cause ELSE "internal"

BodyReplies ==
    {"result", "ToolTimeoutError", "SafeApiError", "PermissionError", "internal"}
        \cup ApiExceptions

Answer(o) ==
    CASE o.exc = Value -> "result"
      [] o.exc = "TimeoutError" -> "ToolTimeoutError"
      [] o.exc \in {"SafeApiError", "PermissionError"} -> o.exc
      [] OTHER -> Sanitize(Cause(o))
=============================================================================
