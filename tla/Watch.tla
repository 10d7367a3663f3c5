------------------------------- MODULE Watch -------------------------------
(***************************************************************************)
(* hre.io.Watch: run f (a verification), wait until something it read      *)
(* changes or ENTER is pressed, run f again.  Ctrl+C interrupts f, and a   *)
(* second, deliberate Ctrl+C ends the loop.                                *)
(*                                                                         *)
(* Between two runs three threads live: one takes the events of the watch  *)
(* service, one reads standard input, one disarms the Ctrl+C debounce      *)
(* after a second.  The main thread holds the Watch's monitor in await and *)
(* reset, except while it waits; the two first threads take it to signal.  *)
(*                                                                         *)
(* All files live in one directory, so that events of files that are not   *)
(* watched reach the watch service too.  A file is its version number.     *)
(***************************************************************************)
EXTENDS Integers, FiniteSets

CONSTANTS
  Files,       \* the inputs of VerCors: sources, headers, library files
  Watched,     \* those enrolled for events (RWFile(_, doWatch = true))
  MaxVersion,  \* bound: edits of a file
  MaxEnter,    \* bound: lines typed on standard input
  MaxSigint,   \* bound: Ctrl+C
  EventLimit,  \* the watch service keeps this many events of a directory,
  OVERFLOW     \* and this one, which names no file, when there are more

ASSUME WatchedAssumption == Watched \subseteq Files /\ IsFiniteSet(Files)
ASSUME BoundsAssumption == MaxVersion \in Nat /\ MaxEnter \in Nat /\ MaxSigint \in Nat
ASSUME EventsAssumption == EventLimit \in Nat \ {0} /\ OVERFLOW \notin Files

NotCached == -1

VARIABLES
  version,       \* the files on disk
  cache,         \* InMemoryCachedReadable.cache of each file
  toInvalidate,  \* readables enrolled in this iteration
  watchedFiles,  \* files whose events end the wait
  registered,    \* their directory is registered with a watch service
  events,        \* what the watch service has not handed out yet
  typed,         \* lines on standard input that nobody has read
  main,          \* where the main thread is
  interrupted,   \* its interrupt status
  fileThread, stdinThread, debounceThread,
  triggered,
  debounceInterrupt,
  enters,        \* history, for the bound: lines typed so far
  sigints,       \* history, for the bound: Ctrl+C so far
  reruns,        \* history: how often f was started again
  overflowed,    \* history: an overflow was taken since f was last started
  sinceRun,      \* history: Ctrl+C since f was last started
  atStart        \* history: version when f was last started

fileVars == <<version, events, atStart>>
enrolVars == <<cache, toInvalidate, watchedFiles, registered>>
threads == <<fileThread, stdinThread, debounceThread>>
inputVars == <<typed, enters, sigints, sinceRun, reruns, overflowed>>
vars == <<fileVars, enrolVars, threads, inputVars, main, interrupted, triggered,
          debounceInterrupt>>

MainStates == {"running", "entering", "waiting", "notified", "resetting", "joining",
               "exited"}
ThreadStates == {"none", "live", "signalling", "done"}
DebounceStates == {"none", "live", "fired", "done"}

TypeOK ==
  /\ version \in [Files -> 0 .. MaxVersion]
  /\ cache \in [Files -> {NotCached} \cup 0 .. MaxVersion]
  /\ toInvalidate \subseteq Files
  /\ watchedFiles \subseteq Files
  /\ registered \in BOOLEAN
  /\ events \subseteq Files \cup {OVERFLOW}
  /\ typed \in 0 .. MaxEnter
  /\ main \in MainStates
  /\ interrupted \in BOOLEAN
  /\ fileThread \in ThreadStates
  /\ stdinThread \in ThreadStates
  /\ debounceThread \in DebounceStates
  /\ triggered \in BOOLEAN
  /\ debounceInterrupt \in BOOLEAN
  /\ enters \in 0 .. MaxEnter
  /\ sigints \in 0 .. MaxSigint
  /\ sinceRun \in 0 .. MaxSigint
  /\ reruns \in Nat
  /\ overflowed \in BOOLEAN
  /\ atStart \in [Files -> 0 .. MaxVersion]

Init ==
  /\ version = [f \in Files |-> 0]
  /\ cache = [f \in Files |-> NotCached]
  /\ toInvalidate = {}
  /\ watchedFiles = {}
  /\ registered = FALSE
  /\ events = {}
  /\ typed = 0
  /\ main = "running"
  /\ interrupted = FALSE
  /\ fileThread = "none" /\ stdinThread = "none" /\ debounceThread = "none"
  /\ triggered = FALSE
  /\ debounceInterrupt = TRUE
  /\ enters = 0 /\ sigints = 0 /\ sinceRun = 0 /\ reruns = 0 /\ overflowed = FALSE
  /\ atStart = version

(* The monitor is free: every hold of the other threads is one step.       *)
MonitorFree == main \notin {"entering", "resetting", "joining"}

-----------------------------------------------------------------------------
(* The outside world.                                                      *)

Edit(f) ==
  /\ version[f] < MaxVersion
  /\ version' = [version EXCEPT ![f] = @ + 1]
  /\ events' = IF ~registered THEN events ELSE
                 IF Cardinality(events \cup {f}) > EventLimit \/ OVERFLOW \in events
                   THEN {OVERFLOW}
                   ELSE events \cup {f}
  /\ UNCHANGED <<atStart, enrolVars, threads, inputVars, main, interrupted, triggered,
                 debounceInterrupt>>

PressEnter ==
  /\ enters < MaxEnter
  /\ enters' = enters + 1
  /\ typed' = typed + 1
  /\ UNCHANGED <<fileVars, enrolVars, threads, sigints, sinceRun, reruns, overflowed, main,
                 interrupted, triggered, debounceInterrupt>>

(* The handler of SIGINT: mainThread.interrupt().                          *)
CtrlC ==
  /\ main # "exited"
  /\ sigints < MaxSigint
  /\ sigints' = sigints + 1
  /\ sinceRun' = sinceRun + 1
  /\ interrupted' = TRUE
  /\ UNCHANGED <<fileVars, enrolVars, threads, typed, enters, reruns, overflowed, main, triggered,
                 debounceInterrupt>>

-----------------------------------------------------------------------------
(* The main thread in f.                                                   *)

(* ensureCache, first half: enroll the file before it is opened.           *)
Enroll(f) ==
  /\ main = "running"
  /\ cache[f] = NotCached
  /\ toInvalidate' = toInvalidate \cup {f}
  /\ IF f \in Watched
       THEN registered' = TRUE /\ watchedFiles' = watchedFiles \cup {f}
       ELSE UNCHANGED <<registered, watchedFiles>>
  /\ UNCHANGED <<fileVars, cache, threads, inputVars, main, interrupted, triggered,
                 debounceInterrupt>>

(* ensureCache, second half: read the file and keep its contents.          *)
IsEnrolled_NotYet(f) == TRUE
IsEnrolled(f) == f \in toInvalidate

Read(f) ==
  /\ main = "running"
  /\ IsEnrolled(f)
  /\ cache[f] = NotCached
  /\ cache' = [cache EXCEPT ![f] = version[f]]
  /\ UNCHANGED <<fileVars, toInvalidate, watchedFiles, registered, threads, inputVars,
                 main, interrupted, triggered, debounceInterrupt>>

(* f returns, or notices the interrupt and throws InterruptedException;    *)
(* either way await is next.                                               *)
EndRun ==
  /\ main = "running"
  /\ main' = "entering"
  /\ interrupted' \in {interrupted, FALSE}
  /\ UNCHANGED <<fileVars, enrolVars, threads, inputVars, triggered, debounceInterrupt>>

-----------------------------------------------------------------------------
(* The main thread in await and reset.                                     *)

(* await up to wait(): with the monitor held, nothing the new threads do   *)
(* is noticed before the main thread waits.                                *)
StartThreads ==
  /\ main = "entering"
  /\ main' = IF triggered THEN "resetting" ELSE "waiting"
  /\ fileThread' = "live" /\ stdinThread' = "live" /\ debounceThread' = "live"
  /\ UNCHANGED <<fileVars, enrolVars, inputVars, interrupted, triggered, debounceInterrupt>>

(* debounceInterrupt is not volatile, and the debounce thread clears it    *)
(* without the monitor: the main thread may still see the old value.       *)
DebounceSeen ==
  {debounceInterrupt} \cup (IF debounceThread = "fired" THEN {FALSE} ELSE {})

(* wait() throws: warn and go on, or leave booleanWithWatch with the last  *)
(* result.  A thread that is notified and then interrupted may do this or  *)
(* return from wait() with the interrupt pending.                          *)
WaitInterrupted ==
  /\ main \in {"waiting", "notified"}
  /\ interrupted
  /\ interrupted' = FALSE
  /\ \/ /\ TRUE \in DebounceSeen
        /\ debounceInterrupt' = FALSE
        /\ main' = IF triggered THEN "resetting" ELSE "waiting"
     \/ /\ FALSE \in DebounceSeen
        /\ main' = "exited"
        /\ UNCHANGED debounceInterrupt
  /\ UNCHANGED <<fileVars, enrolVars, threads, inputVars, triggered>>

(* reset up to join(): close the watch services, drop what f has cached,   *)
(* interrupt the threads.                                                  *)
Invalidated == [f \in Files |-> IF f \in toInvalidate THEN NotCached ELSE cache[f]]

Reset ==
  /\ main \in {"notified", "resetting"}
  /\ main' = "joining"
  /\ registered' = FALSE /\ events' = {} /\ watchedFiles' = {}
  /\ cache' = Invalidated /\ toInvalidate' = {}
  /\ UNCHANGED <<version, atStart, threads, inputVars, interrupted, triggered,
                 debounceInterrupt>>

ThreadsEnded ==
  /\ {fileThread, stdinThread} \cap {"live", "signalling"} = {}
  /\ debounceThread # "live"

(* The end of reset: join() has returned for each thread.                  *)
Rearm_StillDisarmed == triggered' = FALSE /\ UNCHANGED debounceInterrupt
Rearm == triggered' = FALSE /\ debounceInterrupt' = TRUE

FinishReset ==
  /\ main = "joining"
  /\ ~interrupted
  /\ ThreadsEnded
  /\ main' = "running"
  /\ Rearm
  /\ sinceRun' = 0 /\ atStart' = version /\ reruns' = reruns + 1
  /\ overflowed' = FALSE
  /\ UNCHANGED <<version, events, enrolVars, threads, typed, enters, sigints, interrupted>>

(* join() throws: nothing in reset or await catches it.                    *)
JoinInterrupted ==
  /\ main = "joining"
  /\ interrupted
  /\ main' = "exited"
  /\ interrupted' = FALSE
  /\ UNCHANGED <<fileVars, enrolVars, threads, inputVars, triggered, debounceInterrupt>>

MainThread ==
  \/ \E f \in Files : Enroll(f) \/ Read(f)
  \/ EndRun \/ StartThreads \/ WaitInterrupted \/ Reset \/ FinishReset \/ JoinInterrupted

-----------------------------------------------------------------------------
(* The threads between two runs.                                           *)

(* isWatchedFile: all events of the key are taken, whether they match or   *)
(* not.                                                                    *)
TakeEvents ==
  /\ fileThread = "live"
  /\ registered /\ events # {}
  /\ OVERFLOW \notin events
  /\ events' = {}
  /\ fileThread' = IF events \cap watchedFiles # {} THEN "signalling" ELSE "live"
  /\ UNCHANGED <<version, atStart, enrolVars, stdinThread, debounceThread, inputVars, main,
                 interrupted, triggered, debounceInterrupt>>

(* event.context() is null for an overflow, and resolve(null) throws.      *)
TakeOverflow ==
  /\ fileThread = "live"
  /\ OVERFLOW \in events
  /\ events' = {}
  /\ fileThread' = "done"
  /\ overflowed' = TRUE
  /\ UNCHANGED <<version, atStart, enrolVars, stdinThread, debounceThread, typed, enters,
                 sigints, sinceRun, reruns, main, interrupted, triggered, debounceInterrupt>>

(* There is no watch service, or it has been closed.                       *)
FileThreadStops ==
  /\ fileThread = "live"
  /\ ~registered
  /\ fileThread' = "done"
  /\ UNCHANGED <<fileVars, enrolVars, stdinThread, debounceThread, inputVars, main,
                 interrupted, triggered, debounceInterrupt>>

(* An interrupt does not keep the stream from handing out what it has.     *)
LineTyped == typed > 0

ReadLine ==
  /\ stdinThread = "live"
  /\ LineTyped
  /\ typed' = typed - 1
  /\ stdinThread' = "signalling"
  /\ UNCHANGED <<fileVars, enrolVars, fileThread, debounceThread, enters, sigints, sinceRun,
                 reruns, overflowed, main, interrupted, triggered, debounceInterrupt>>

(* The end of standard input, or an interrupt while waiting for more.      *)
StdinThreadStops ==
  /\ stdinThread = "live"
  /\ main = "joining" \/ (typed = 0 /\ enters = MaxEnter)
  /\ stdinThread' = "done"
  /\ UNCHANGED <<fileVars, enrolVars, fileThread, debounceThread, inputVars, main,
                 interrupted, triggered, debounceInterrupt>>

(* A second has passed, or the sleep is interrupted.                       *)
DebounceFires ==
  /\ debounceThread = "live"
  /\ debounceThread' = IF main = "joining" THEN "done" ELSE "fired"
  /\ UNCHANGED <<fileVars, enrolVars, fileThread, stdinThread, inputVars, main, interrupted,
                 triggered, debounceInterrupt>>

(* notifyAll, for the main thread.                                         *)
Notified_Nobody == main
Notified == IF main = "waiting" THEN "notified" ELSE main

(* signal(), which needs the monitor.                                      *)
Signal ==
  /\ MonitorFree
  /\ triggered' = TRUE
  /\ main' = Notified
  /\ UNCHANGED <<fileVars, enrolVars, debounceThread, inputVars, interrupted,
                 debounceInterrupt>>

SignalFile ==
  fileThread = "signalling" /\ fileThread' = "done" /\ Signal /\ UNCHANGED stdinThread
SignalStdin ==
  stdinThread = "signalling" /\ stdinThread' = "done" /\ Signal /\ UNCHANGED fileThread

FileThread == TakeEvents \/ TakeOverflow \/ FileThreadStops
StdinThread == ReadLine \/ StdinThreadStops
Environment == (\E f \in Files : Edit(f)) \/ PressEnter \/ CtrlC

Next ==
  \/ Environment \/ MainThread
  \/ FileThread \/ StdinThread \/ DebounceFires \/ SignalFile \/ SignalStdin

Spec == Init /\ [][Next]_vars

(* Verification ends, threads keep running and get a monitor they ask for  *)
(* again and again.  Nobody has to edit a file or press a key.             *)
FairSpec ==
  /\ Spec
  /\ WF_vars(MainThread) /\ WF_vars(EndRun)
  /\ WF_vars(FileThread) /\ WF_vars(StdinThread) /\ WF_vars(DebounceFires)
  /\ SF_vars(SignalFile) /\ SF_vars(SignalStdin)

-----------------------------------------------------------------------------
Stale(f) == cache[f] \notin {NotCached, version[f]}

(* f is enrolled before it is opened: while the main thread sleeps on the  *)
(* result of a run, a file that no longer has the contents the run used is *)
(* known to the file thread, unless the watch service has dropped events.  *)
NoMissedChange ==
  (main = "waiting" /\ ~triggered /\ ~overflowed /\ OVERFLOW \notin events) =>
    \A f \in Watched : Stale(f) => \/ fileThread = "live" /\ f \in events
                                   \/ fileThread = "signalling"

(* A run sees no contents older than its own start: every cache filled by  *)
(* an earlier run is dropped, that of a file that is not watched included. *)
RunsReadFreshFiles ==
  main = "running" => \A f \in Files : cache[f] # NotCached => cache[f] >= atStart[f]

(* Every run but the first has a cause of its own: an edit of a watched    *)
(* file or an ENTER.  A trigger or a thread left over from an earlier      *)
(* iteration would start one more.                                         *)
Edits == {w \in Watched \X (1 .. MaxVersion) : w[2] <= version[w[1]]}
RerunsHaveCauses == reruns <= Cardinality(Edits) + enters

(* What the runs see: nothing stale, nothing missed, none without a cause. *)
RunsFollowChanges == TypeOK /\ NoMissedChange /\ RunsReadFreshFiles /\ RerunsHaveCauses

(* The wait ends the program only after a warning or a calm second: two    *)
(* Ctrl+C since the run began, or one that comes after the debounce.       *)
LeavesWait == main \in {"waiting", "notified"} /\ main' = "exited"
ExitIsConfirmed == [][LeavesWait => sinceRun >= 2 \/ debounceThread = "fired"]_vars

(* "VerCors can automatically re-run when external input changes": once an *)
(* input that a run has read changes, another run starts.                  *)
ChangeIsPickedUp ==
  \A f \in Watched :
    Stale(f) ~> (main = "running" /\ ~Stale(f)) \/ main = "exited"

(* The same while nobody types and no event is dropped.                    *)
QuietChangeIsPickedUp ==
  [](enters = 0 /\ OVERFLOW \notin events /\ ~overflowed) => ChangeIsPickedUp
=============================================================================
