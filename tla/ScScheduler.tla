------------------------------- MODULE ScScheduler -------------------------------
(***************************************************************************)
(* The SystemC simulator as the channels under res/systemc use it.  It is  *)
(* no code of the repository.  Processes are coroutines: one runs until it *)
(* waits or ends, and nothing runs beside it.  When no process can run the *)
(* update of every channel that asked for one is called and the delta      *)
(* count goes up; then the events notified with SC_ZERO_TIME occur; when   *)
(* that lets nobody run, time goes on to the next process that waits for   *)
(* it.  notify() without a time occurs at once.                            *)
(***************************************************************************)
EXTENDS Integers, FiniteSets, Sequences

CONSTANTS
  Processes,
  NoProcess  \* not a process

ASSUME SchedulerAssumption == NoProcess \notin Processes

VARIABLES
  running,   \* the process that runs, or NoProcess
  runnable,  \* the processes that may run
  waits,     \* what each process waits for: an event, "delta", "time" or "nothing"
  timer,     \* when a process that waits for "time" goes on
  requested, \* the channels that called request_update
  notified,  \* the events notified with SC_ZERO_TIME
  delta_count,
  now

schedulerVars == <<running, runnable, waits, timer, requested, notified, delta_count, now>>

StartSimulation ==
  /\ running = NoProcess /\ runnable = Processes
  /\ waits = [p \in Processes |-> "nothing"] /\ timer = [p \in Processes |-> 0]
  /\ requested = {} /\ notified = {} /\ delta_count = 0 /\ now = 0

Schedule ==
  /\ running = NoProcess
  /\ \E p \in runnable : running' = p /\ runnable' = runnable \ {p}
  /\ UNCHANGED <<waits, timer, requested, notified, delta_count, now>>

WaitingFor(what) == {p \in Processes : waits[p] = what}

\* wait(e), wait(SC_ZERO_TIME) as "delta"; the others go on.
Wait(e) ==
  /\ running' = NoProcess
  /\ waits' = [waits EXCEPT ![running] = e]
  /\ UNCHANGED <<runnable, timer, requested, notified, delta_count, now>>

\* Goes on, notifying the events es with SC_ZERO_TIME and asking for the update of
\* the channels cs.
GoOn(es, cs) ==
  /\ notified' = notified \cup es
  /\ requested' = requested \cup cs
  /\ UNCHANGED <<running, runnable, waits, timer, delta_count, now>>

\* e.notify().
NotifyNow(e) ==
  /\ runnable' = runnable \cup WaitingFor(e)
  /\ waits' = [p \in Processes |-> IF waits[p] = e THEN "nothing" ELSE waits[p]]
  /\ UNCHANGED <<running, timer, requested, notified, delta_count, now>>

\* A delta cycle ends: es are the events the updates notified.
EvaluationOver == running = NoProcess /\ runnable = {}
DeltaPending == requested # {} \/ notified # {} \/ WaitingFor("delta") # {}
Occur(es) ==
  LET woken == {p \in Processes : waits[p] \in notified \cup es \cup {"delta"}}
  IN  /\ runnable' = woken
      /\ waits' = [p \in Processes |-> IF p \in woken THEN "nothing" ELSE waits[p]]
      /\ requested' = {} /\ notified' = {}
      /\ delta_count' = delta_count + 1
      /\ UNCHANGED <<running, timer, now>>

AdvanceTime ==
  /\ EvaluationOver /\ ~DeltaPending /\ WaitingFor("time") # {}
  /\ \E q \in WaitingFor("time") :
       /\ \A p \in WaitingFor("time") : timer[q] <= timer[p]
       /\ now' = timer[q]
  /\ runnable' = {p \in WaitingFor("time") : timer[p] = now'}
  /\ waits' = [p \in Processes |-> IF p \in runnable' THEN "nothing" ELSE waits[p]]
  /\ UNCHANGED <<running, timer, requested, notified, delta_count>>

================================================================================
