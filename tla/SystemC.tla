--------------------------------- MODULE SystemC ---------------------------------
(***************************************************************************)
(* Processes that use the channels of res/systemc: a FIFO, a mutex, a      *)
(* signal and a clock.  A process is a sequence of calls; a call that      *)
(* waits is made again when the process goes on, which is the loop around  *)
(* the wait in the code.  sent, got, committed, holders, before and edges  *)
(* are history.                                                            *)
(***************************************************************************)
EXTENDS ScFifo, ScMutex, ScSignal, ScClock, SequencesExt

CONSTANT
  Programs  \* records: the calls of each process, the period of the clock

\* What a process waits for by itself is a delta cycle or an event of the signal or the
\* clock; the events of the FIFO and the mutex are private.
Private == {"nothing", "time", "data_read", "data_written", "_free"}

ASSUME ProgramsAssumption ==
  \A p \in Programs :
    /\ p.period \in Nat
    /\ DOMAIN p.calls = Processes
    /\ \A q \in Processes :
         /\ p.calls[q] = [k \in 1 .. Len(p.calls[q]) |-> p.calls[q][k]] /\ Len(p.calls[q]) \in Nat
         /\ \A k \in 1 .. Len(p.calls[q]) :
              p.calls[q][k].op = "await" => p.calls[q][k].v \notin Private

(* A process calls unlock only when it has called lock since its last unlock: nothing in *)
(* the class asks who unlocks.                                                           *)
LockedBefore(calls, k) ==
  \E j \in 1 .. k - 1 :
    calls[j].op = "lock" /\ \A i \in j + 1 .. k - 1 : calls[i].op # "unlock"
ASSUME UnlockAssumption ==
  \A p \in Programs : \A q \in Processes : \A k \in 1 .. Len(p.calls[q]) :
    p.calls[q][k].op = "unlock" => LockedBefore(p.calls[q], k)

(* A process that looks at the clock does so when its edge has occurred, and then at each *)
(* edge; nobody writes that clock, and one process is its thread.                         *)
Looks(calls) == {k \in 1 .. Len(calls) : calls[k].op = "look"}
Watches(calls) ==
  \A k \in Looks(calls) :
    /\ k > 1 /\ calls[k - 1].op = "await" /\ calls[k - 1].v = "edge"
    /\ (\E j \in Looks(calls) : j < k) => k - 2 \in Looks(calls)
RunsClock(calls) ==
  calls # <<>> /\ \A k \in 1 .. Len(calls) : calls[k].op = IF k = 1 THEN "clock" ELSE "tick"
ASSUME WatchersAssumption ==
  \A p \in Programs : (\E q \in Processes : Looks(p.calls[q]) # {}) =>
    /\ \A q \in Processes : Watches(p.calls[q])
    /\ \E c \in Processes :
         /\ RunsClock(p.calls[c])
         /\ \A q \in Processes \ {c} : \A k \in 1 .. Len(p.calls[q]) :
              p.calls[q][k].op \notin {"clock", "tick", "set_clock"}

VARIABLES
  todo,      \* the calls each process has still to make
  sent,      \* the samples written to the FIFO
  got,       \* the samples read from it
  committed, \* the number of samples written before this delta cycle
  holders,   \* the processes that have returned from lock and not called unlock
  before,    \* the value of the signal in the last delta cycle
  edges      \* the values of the clock each process saw after an edge

historyVars == <<sent, got, committed, holders, before, edges>>
channelVars == <<fifoVars, _locked, signalVars, clockVars>>
vars == <<schedulerVars, channelVars, todo, historyVars>>

Init ==
  /\ StartSimulation /\ FifoInit /\ MutexInit /\ SignalInit
  /\ \E p \in Programs : todo = p.calls /\ ClockInit(p.period)
  /\ sent = <<>> /\ got = <<>> /\ committed = 0 /\ holders = {} /\ before = val
  /\ edges = [p \in Processes |-> <<>>]

At(op) == running # NoProcess /\ todo[running] # <<>> /\ Head(todo[running]).op = op
Arg == Head(todo[running]).v
Done == todo' = [todo EXCEPT ![running] = Tail(@)]
Again == UNCHANGED todo

OnlyFifo == UNCHANGED <<_locked, signalVars, clockVars, committed, holders, before, edges>>

Write ==
  /\ At("write") /\ OnlyFifo
  /\ \/ FifoWrite(Arg) /\ Done /\ sent' = Append(sent, Arg)
     \/ FifoWriteWaits /\ Again /\ UNCHANGED sent
  /\ UNCHANGED got

Read ==
  /\ At("read") /\ OnlyFifo
  /\ \/ FifoRead /\ Done /\ got' = Append(got, Taken)
     \/ FifoReadWaits /\ Again /\ UNCHANGED got
  /\ UNCHANGED sent

\* A process that polls comes back in the next delta cycle.
NbRead ==
  /\ At("nb_read") /\ OnlyFifo
  /\ \/ FifoNbRead /\ Done /\ got' = Append(got, Taken)
     \/ FifoNbReadFails /\ Wait("delta") /\ Again /\ UNCHANGED got
  /\ UNCHANGED sent

OnlyMutex == UNCHANGED <<fifoVars, signalVars, clockVars, sent, got, committed, before, edges>>

Lock ==
  /\ At("lock") /\ OnlyMutex
  /\ \/ MutexLock /\ Done /\ holders' = holders \cup {running}
     \/ MutexLockWaits /\ Again /\ UNCHANGED holders

\* A process that finds the mutex free calls lock, as it must; else it gives up.
Trylock ==
  /\ At("trylock") /\ OnlyMutex /\ UNCHANGED <<_locked, holders>>
  /\ todo' = [todo EXCEPT ![running] = IF MutexTrylock THEN Tail(@) ELSE <<>>]
  /\ GoOn({}, {})

Unlock ==
  /\ At("unlock") /\ OnlyMutex
  /\ MutexUnlock /\ Done /\ holders' = holders \ {running}

SetSignal ==
  /\ At("set") /\ SignalWrite(Arg) /\ Done
  /\ UNCHANGED <<fifoVars, _locked, clockVars, historyVars>>

SetClock ==
  /\ At("set_clock") /\ ClockWrite(Arg) /\ Done
  /\ UNCHANGED <<fifoVars, _locked, signalVars, historyVars>>

StartClock ==
  /\ At("clock") /\ ClockStart /\ Done
  /\ UNCHANGED <<fifoVars, _locked, signalVars, historyVars>>

\* The thread's loop, as often as the program says.
Tick ==
  /\ At("tick") /\ ClockTick /\ Done
  /\ UNCHANGED <<fifoVars, _locked, signalVars, historyVars>>

\* wait(e) for an event, or for the next delta cycle.
Await ==
  /\ At("await") /\ Wait(Arg) /\ Done
  /\ UNCHANGED <<channelVars, historyVars>>

LookAtClock ==
  /\ At("look") /\ Done /\ GoOn({}, {})
  /\ edges' = [edges EXCEPT ![running] = Append(@, clk)]
  /\ UNCHANGED <<channelVars, sent, got, committed, holders, before>>

Return ==
  /\ running # NoProcess /\ todo[running] = <<>>
  /\ running' = NoProcess
  /\ UNCHANGED <<runnable, waits, timer, requested, notified, delta_count, now, channelVars, todo, historyVars>>

DeltaCycle ==
  /\ EvaluationOver /\ DeltaPending
  /\ Occur((IF "fifo" \in requested THEN FifoNotifies ELSE {})
           \cup (IF "signal" \in requested THEN SignalNotifies ELSE {})
           \cup (IF "clock" \in requested THEN ClockNotifies ELSE {}))
  /\ IF "fifo" \in requested THEN FifoUpdate ELSE UNCHANGED fifoVars
  /\ IF "signal" \in requested THEN SignalUpdate ELSE UNCHANGED signalVars
  /\ IF "clock" \in requested THEN ClockUpdate ELSE UNCHANGED clockVars
  /\ committed' = Len(sent) /\ before' = val
  /\ UNCHANGED <<_locked, todo, sent, got, holders, edges>>

Time == AdvanceTime /\ UNCHANGED <<channelVars, todo, historyVars>>

Next ==
  \/ Schedule /\ UNCHANGED <<channelVars, todo, historyVars>>
  \/ Write \/ Read \/ NbRead \/ Lock \/ Trylock \/ Unlock \/ SetSignal \/ SetClock
  \/ StartClock \/ Tick \/ Await \/ LookAtClock \/ Return \/ DeltaCycle \/ Time

\* The simulator goes on as long as it can.
Spec == Init /\ [][Next]_vars /\ WF_vars(Next)

--------------------------------------------------------------------------------
(* Properties *)

\* The counters of the FIFO agree, a process that waits or may run does not run, and a
\* timed wait is for a time that has not passed.
TypeOK ==
  /\ FifoTypeOK
  /\ running \in Processes \cup {NoProcess} /\ runnable \subseteq Processes \ {running}
  /\ \A p \in Processes : waits[p] # "nothing" => p \notin runnable \cup {running}
  /\ \A p \in WaitingFor("time") : timer[p] > now

\* Samples are read once and in the order they were written, whoever reads and writes;
\* none is read in the delta cycle it was written in; and no more are in the buffer
\* than fit.
FifoInOrder ==
  /\ IsPrefix(got, sent)
  /\ Len(got) <= committed
  /\ Len(sent) - Len(got) = BUF_SIZE - free

\* A process waits for a sample, for room or for the mutex only where there is none.
WaitsAreJustified ==
  /\ WaitingFor("data_written") # {} => num_available = 0
  /\ WaitingFor("data_read") # {} => num_free = 0
  /\ WaitingFor("_free") # {} => _locked

\* No notification is missed, and a mutex whose initial value happens to be free has
\* one holder at most, of processes that unlock only what they have locked.
NobodyForgotten ==
  /\ WaitsAreJustified
  /\ Cardinality(holders) <= 1
  /\ holders # {} => _locked

\* event() holds in the delta cycle after one in which the value changed, and in no
\* other, whatever values the signal starts with and however often it is written in
\* between.
EventIsAChange == event = (val # before)

\* The signal's events are its changes; and who waits for the edges of a clock that
\* nobody writes sees it flipped at each, unless the period is 1: then it ticks in the
\* cycle its edge occurs in.
EventsAreChanges ==
  /\ EventIsAChange
  /\ tmp > 0 =>
       \A p \in Processes : \A k \in 1 .. Len(edges[p]) - 1 : edges[p][k + 1] # edges[p][k]

\* Every process makes all its calls, if the mutex starts free.
WorkIsDone == ~_locked => <>(\A p \in Processes : todo[p] = <<>>)

================================================================================
