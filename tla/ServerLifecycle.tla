-------------------------- MODULE ServerLifecycle ---------------------------
(***************************************************************************)
(* The life of the stdio server process around the tool boundary: the      *)
(* signal handlers of _install_signal_handlers, the end of the input       *)
(* stream, and the exit of the interpreter, which joins the pool's worker  *)
(* threads.  `k8s-mcp serve` is create_server(settings).run().             *)
(***************************************************************************)
EXTENDS ToolBoundary

VARIABLES
    proc,       (* serving, draining (the event loop has stopped), exited    *)
    signalled   (* a SIGTERM or SIGINT has been received                     *)

lifeVars == <<proc, signalled>>
allVars == <<vars, lifeVars>>

LInit ==
    /\ Init
    /\ proc = "serving"
    /\ signalled = FALSE

(* The handler that replaces Python's own logs the in-flight count and      *)
(* returns; nothing raises KeyboardInterrupt or stops the loop.             *)
Signal ==
    /\ proc # "exited"
    /\ ~signalled
    /\ signalled' = TRUE
    /\ UNCHANGED <<proc, vars>>

(* The client closes the input stream: the stdio loop ends and with it the  *)
(* event loop.                                                              *)
InputCloses ==
    /\ proc = "serving"
    /\ proc' = "draining"
    /\ UNCHANGED <<signalled, vars>>

(* The interpreter exits once the worker threads, which are not daemons,    *)
(* have emptied the executor's queue.                                       *)
Exit ==
    /\ proc = "draining"
    /\ queue = <<>>
    /\ Running = {}
    /\ proc' = "exited"
    /\ UNCHANGED <<signalled, vars>>

Serve == proc = "serving" /\ Next /\ UNCHANGED lifeVars

Drain ==
    /\ proc = "draining"
    /\ Start \/ \E c \in Calls : Finish(c)
    /\ UNCHANGED lifeVars

LNext == Serve \/ Drain \/ Signal \/ InputCloses \/ Exit

LSpec == LInit /\ [][LNext]_allVars
=============================================================================
