---------------------------- MODULE MCMiddleware ----------------------------
(* The middlewares of Main.runOptions.  TaskRegistry starts and aborts the *)
(* root task, both of which check for an interrupt.                        *)
EXTENDS Middleware

CONSTANTS InterruptibleStdin, Logging, ThreadWatchdog, Layout, TaskRegistry, Progress, Profile

MainOuter == <<InterruptibleStdin, Logging, ThreadWatchdog, Layout>>
MainInner == <<TaskRegistry, Progress, Profile>>
=============================================================================
