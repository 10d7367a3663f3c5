----------------------------- MODULE Middleware -----------------------------
(***************************************************************************)
(* hre.middleware.Middleware: middlewares are installed around the body of *)
(* `using' and uninstalled in reverse order when it ends, normally or not; *)
(* a shutdown hook, which runs beside the main thread, uninstalls what is  *)
(* installed when the process is told to stop.                             *)
(*                                                                         *)
(* The main thread is Main.runOptions: an outer `using' whose body runs an *)
(* inner `using', once or, in watch mode, until the loop ends.             *)
(***************************************************************************)
EXTENDS Integers, Sequences, Functions

CONSTANTS
  Outer,          \* the middlewares of the outer `using', in order
  Inner,          \* those of the inner one
  Interruptible,  \* install and uninstall may throw InterruptedException
  Failing         \* install and uninstall may throw something else

Middlewares == Range(Outer) \cup Range(Inner)

ASSUME DistinctAssumption == IsInjective(Outer \o Inner)
ASSUME ThrowersAssumption == Interruptible \cup Failing \subseteq Middlewares
ASSUME SequencesAssumption == Outer \in Seq(Middlewares) /\ Inner \in Seq(Middlewares)

(* Only TaskRegistry, the first of the inner middlewares, checks for an    *)
(* interrupt.  The run that Watch starts after an interrupt would install  *)
(* a second time what one further in had left behind.                      *)
ASSUME InterruptibleAssumption == \A i \in DOMAIN Inner : Inner[i] \in Interruptible => i = 1

VARIABLES
  installed,  \* Middleware._installed, most recent first
  active,     \* history: installed, and uninstall has not been called
  level,      \* the `using' the main thread is in: 1 is the outer one
  phase,      \* what it does there
  next,       \* the index of the middleware it is about to (un)install
  thrown,     \* the exception on its way up
  hook        \* the shutdown hook

vars == <<installed, active, level, phase, next, thrown, hook>>

(* The middlewares of the `using' the main thread is in.                   *)
middlewares == IF level = 1 THEN Outer ELSE Inner

Exceptions == {"none", "interrupted", "failure", "incorrectStructure", "emptyTail"}

TypeOK ==
  /\ installed \in Seq(Middlewares)
  /\ active \subseteq Middlewares
  /\ level \in 1 .. 2
  /\ phase \in {"install", "body", "unwind", "exit", "halted"}
  /\ next \in 0 .. Len(middlewares) + 1
  /\ phase = "unwind" => next <= Len(middlewares)
  /\ thrown \in Exceptions
  /\ hook \in {"idle", "started", "done", "failed"}

Init ==
  /\ installed = <<>>
  /\ active = {}
  /\ level = 1
  /\ phase = "install"
  /\ next = 1
  /\ thrown = "none"
  /\ hook = "idle"

(* What a call of install or uninstall of m may end with.                  *)
Outcomes(m) ==
  {"none"} \cup (IF m \in Interruptible THEN {"interrupted"} ELSE {})
           \cup (IF m \in Failing THEN {"failure"} ELSE {})

-----------------------------------------------------------------------------
(* The `using' on top ends with exception e.  In the outer body, Watch     *)
(* catches an InterruptedException.                                        *)
Leave(e) ==
  IF level = 2
    THEN level' = 1 /\ phase' = "body" /\ next' = 0
         /\ thrown' = IF e = "interrupted" THEN "none" ELSE e
    ELSE level' = 1 /\ phase' = "exit" /\ next' = 0 /\ thrown' = e

(* instantiate, install and the push on _installed.                        *)
Install ==
  /\ phase = "install"
  /\ next <= Len(middlewares)
  /\ LET m == middlewares[next] IN
       \E e \in Outcomes(m) :
         IF e = "none"
           THEN /\ installed' = <<m>> \o installed
                /\ active' = active \cup {m}
                /\ next' = next + 1
                /\ UNCHANGED <<level, phase, thrown>>
           ELSE Leave(e) /\ UNCHANGED <<installed, active>>
  /\ UNCHANGED hook

EnterBody ==
  /\ phase = "install"
  /\ next > Len(middlewares)
  /\ phase' = "body"
  /\ UNCHANGED <<installed, active, level, next, thrown, hook>>

(* The outer body: f of the watch loop is the inner `using'.               *)
CallInner ==
  /\ phase = "body" /\ level = 1
  /\ thrown = "none"
  /\ level' = 2 /\ phase' = "install" /\ next' = 1
  /\ UNCHANGED <<installed, active, thrown, hook>>

(* The body ends: try { f } finally.                                       *)
LastIndex == Len(middlewares)

EndBody ==
  /\ phase = "body"
  /\ phase' = "unwind"
  /\ next' = LastIndex
  /\ IF level = 1
       THEN UNCHANGED thrown
       ELSE thrown' \in {"none", "interrupted", "failure"}
  /\ UNCHANGED <<installed, active, level, hook>>

(* for (middleware <- middlewares.reverse), one synchronized block each.   *)
(* _installed.tail throws when the hook has emptied _installed.            *)
HeadIsNot_Unchecked(m) == FALSE
HeadIsNot(m) == installed # <<>> /\ Head(installed) # m

Uninstall ==
  /\ phase = "unwind"
  /\ next >= 1
  /\ LET m == middlewares[next] IN
       IF HeadIsNot(m)
         THEN Leave("incorrectStructure") /\ UNCHANGED <<installed, active>>
         ELSE IF installed = <<>>
           THEN Leave("emptyTail") /\ UNCHANGED <<installed, active>>
           ELSE \E e \in Outcomes(m) :
                  /\ installed' = Tail(installed)
                  /\ active' = active \ {m}
                  /\ IF e = "none"
                       THEN next' = next - 1 /\ UNCHANGED <<level, phase, thrown>>
                       ELSE Leave(e)
  /\ UNCHANGED hook

EndUnwind ==
  /\ phase = "unwind"
  /\ next = 0
  /\ Leave(thrown)
  /\ UNCHANGED <<installed, active, hook>>

MainThread ==
  Install \/ EnterBody \/ CallInner \/ EndBody \/ Uninstall \/ EndUnwind

-----------------------------------------------------------------------------
(* System.exit at the end of main, or a signal at any time.                *)
Shutdown ==
  /\ hook = "idle"
  /\ phase # "halted"
  /\ hook' = "started"
  /\ UNCHANGED <<installed, active, level, phase, next, thrown>>

(* uninstallOnShutdown, all of it under the monitor.  The first middleware *)
(* that throws ends the hook.                                              *)
AfterFailure_Cleared == <<>>
AfterFailure == installed

RunHook ==
  /\ hook = "started"
  /\ \/ /\ active' = active \ Range(installed)
        /\ installed' = <<>>
        /\ hook' = "done"
     \/ \E i \in DOMAIN installed :
          /\ installed[i] \in Failing
          /\ active' = active \ {installed[j] : j \in 1 .. i}
          /\ installed' = AfterFailure
          /\ hook' = "failed"
  /\ UNCHANGED <<level, phase, next, thrown>>

(* The JVM halts once the hook has ended.                                  *)
Halt ==
  /\ hook \in {"done", "failed"}
  /\ phase # "halted"
  /\ phase' = "halted"
  /\ UNCHANGED <<installed, active, level, next, thrown, hook>>

Next == MainThread \/ Shutdown \/ RunHook \/ Halt

Spec == Init /\ [][Next]_vars

-----------------------------------------------------------------------------
(* A middleware that is installed is on the list the hook works through,   *)
(* and unless the hook has failed that list holds nothing else.            *)
NeverForgotten ==
  /\ active \subseteq Range(installed)
  /\ hook # "failed" => Range(installed) = active

(* The main thread uninstalls in reverse order of installation, through    *)
(* failures and interrupts too.                                            *)
InstalledAfter(m) ==
  LET order == Outer \o Inner IN
    {order[j] : j \in {j \in DOMAIN order : \E i \in 1 .. j - 1 : order[i] = m}}
UninstallsInReverse ==
  [][hook' = hook =>
       \A m \in active \ active' : InstalledAfter(m) \cap active = {}]_vars

(* `using' leaves nothing installed when it ends without an exception and  *)
(* the hook has not run.                                                   *)
NothingLeftBehind == (phase = "exit" /\ thrown = "none" /\ hook = "idle") => active = {}

(* The list that the main thread and the hook share is right at every      *)
(* moment, and empty when it should be.                                    *)
ListIsRight == TypeOK /\ NeverForgotten /\ NothingLeftBehind
=============================================================================
