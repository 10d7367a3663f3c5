----------------------------- MODULE WatchProofs -----------------------------
(***************************************************************************)
(* Proofs about the watch loop, for any files and any bounds: no change is *)
(* missed while the main thread waits, a run reads nothing older than its  *)
(* start, each run but the first has a cause of its own, and Ctrl+C ends   *)
(* the wait only when it is meant to.                                      *)
(*                                                                         *)
(* The argument.  A file is enrolled before it is read, so that what is    *)
(* cached will be invalidated and, if it is watched, has its changes among *)
(* the events from then on (Enrolled, Pending); the file thread ends only  *)
(* when it has signalled, has met an overflow or has nothing to watch      *)
(* (FileThreadEnds).  Causes are counted: a trigger that is pending, in    *)
(* whatever form, was paid for by one edit or one line (Paid), and so is a *)
(* disarmed debounce by one Ctrl+C (Armed).                                *)
(***************************************************************************)
EXTENDS Watch, FiniteSetTheorems, TLAPS

InRun == main \in {"running", "entering"}

(* Between two runs, and in them, the threads are where the main thread    *)
(* expects them to be.                                                     *)
Threads ==
  /\ InRun => {fileThread, stdinThread} \cap {"live", "signalling"} = {} /\ ~overflowed
  /\ main \in {"notified", "resetting", "joining"} => triggered

(* What is cached will be invalidated, and its changes are asked for.      *)
Enrolled ==
  /\ \A f \in Files : cache[f] # NotCached => f \in toInvalidate
  /\ toInvalidate \cap Watched \subseteq watchedFiles
  /\ watchedFiles \subseteq Watched
  /\ watchedFiles # {} => registered
  /\ main = "joining" => toInvalidate = {} /\ events = {} /\ ~registered

(* What a run has cached is no older than its start.                       *)
Fresh ==
  \A f \in Files : /\ atStart[f] <= version[f]
                   /\ cache[f] # NotCached => cache[f] >= atStart[f]

(* A change that nobody has acted on yet is still known.                   *)
Quiet == ~triggered /\ ~overflowed /\ OVERFLOW \notin events
Pending ==
  /\ InRun /\ OVERFLOW \notin events => \A f \in Watched : Stale(f) => f \in events
  /\ NoMissedChange
FileThreadEnds ==
  main = "waiting" => /\ fileThread # "none"
                      /\ fileThread = "done" => triggered \/ overflowed \/ ~registered

(* Something that makes, or will make, the wait end.                       *)
TriggerPending ==
  triggered \/ "signalling" \in {fileThread, stdinThread} \/ events \cap Watched # {}
Paid ==
  /\ reruns + typed + (IF TriggerPending THEN 1 ELSE 0) <= Cardinality(Edits) + enters
  /\ typed <= enters

(* An interrupt that is pending and a debounce that is over took a Ctrl+C  *)
(* each.                                                                   *)
Armed ==
  /\ (IF interrupted THEN 1 ELSE 0) + (IF debounceInterrupt THEN 0 ELSE 1) <= sinceRun
  /\ sinceRun <= sigints

Inv == TypeOK /\ Threads /\ Enrolled /\ Fresh /\ Pending /\ FileThreadEnds /\ Paid /\ Armed
-----------------------------------------------------------------------------
(* The edits of watched files: there are finitely many, and one more after *)
(* each.                                                                   *)

LEMMA EditsFacts ==
  /\ IsFiniteSet(Edits) /\ Cardinality(Edits) \in Nat
  /\ IsFiniteSet(Edits') /\ Cardinality(Edits') \in Nat
<1> DEFINE All == Watched \X (1 .. MaxVersion)
<1>1. IsFiniteSet(All)
  <2>1. IsFiniteSet(Watched)
    BY WatchedAssumption, FS_Subset
  <2>2. IsFiniteSet(1 .. MaxVersion)
    BY BoundsAssumption, FS_Interval
  <2> QED
    BY <2>1, <2>2, FS_Product
<1>2. IsFiniteSet(Edits) /\ IsFiniteSet(Edits')
  BY <1>1, FS_Subset DEF Edits
<1> QED
  BY <1>2, FS_CardinalityType

LEMMA OneMoreEdit ==
  ASSUME TypeOK, NEW f \in Watched, Edit(f)
  PROVE  Cardinality(Edits') = Cardinality(Edits) + 1
<1>1. /\ version[f] \in 0 .. MaxVersion - 1
      /\ version' = [version EXCEPT ![f] = version[f] + 1]
      /\ MaxVersion \in Nat /\ f \in Files
  BY BoundsAssumption, WatchedAssumption DEF TypeOK, Edit
<1> DEFINE w == <<f, version[f] + 1>>
<1>2. Edits' = Edits \cup {w}
  <2>1. w \in Watched \X (1 .. MaxVersion)
    BY <1>1
  <2>2. \A u \in Watched \X (1 .. MaxVersion) : u[1] \in Files /\ u[2] \in Nat /\ u = <<u[1], u[2]>>
    BY WatchedAssumption
  <2>3. \A u \in Watched \X (1 .. MaxVersion) :
          u[2] <= version'[u[1]] <=> u[2] <= version[u[1]] \/ u = w
    <3> SUFFICES ASSUME NEW u \in Watched \X (1 .. MaxVersion)
                 PROVE  u[2] <= version'[u[1]] <=> u[2] <= version[u[1]] \/ u = w
      OBVIOUS
    <3>1. CASE u[1] = f
      BY <3>1, <1>1, <2>2 DEF TypeOK
    <3>2. CASE u[1] # f
      BY <3>2, <1>1, <2>2 DEF TypeOK
    <3> QED
      BY <3>1, <3>2
  <2> QED
    BY <2>1, <2>3 DEF Edits
<1>3. w \notin Edits
  BY <1>1 DEF Edits
<1> QED
  BY <1>2, <1>3, EditsFacts, FS_AddElement

LEMMA EditsOfOthers ==
  ASSUME TypeOK, NEW f \in Files \ Watched, Edit(f)
  PROVE  Edits' = Edits
<1>1. \A u \in Watched \X (1 .. MaxVersion) : version'[u[1]] = version[u[1]]
  BY DEF Edit, TypeOK
<1> QED
  BY <1>1 DEF Edits

-----------------------------------------------------------------------------
(* Every step keeps every part of the invariant.                           *)

(* Ctrl+C since a run began are among all of them, and lines that nobody   *)
(* has read among those typed, so that both keep to their bounds.          *)
LEMMA TypeStep ==
  ASSUME TypeOK, Armed, Paid, Next
  PROVE  TypeOK'
<1> USE DEF fileVars, enrolVars, threads, inputVars
<1>1. ASSUME NEW f \in Files, Edit(f) PROVE TypeOK'
  BY <1>1, BoundsAssumption DEF Edit, TypeOK, MainStates, ThreadStates, DebounceStates
<1>2. CASE PressEnter
  <2>1. enters' \in 0 .. MaxEnter /\ typed' \in 0 .. MaxEnter
    BY <1>2, BoundsAssumption DEF PressEnter, TypeOK, Paid
  <2> QED
    BY <1>2, <2>1 DEF PressEnter, TypeOK
<1>3. CASE CtrlC
  <2>1. sigints \in 0 .. MaxSigint - 1 /\ sinceRun <= sigints /\ sinceRun \in Nat
    BY <1>3, BoundsAssumption DEF CtrlC, TypeOK, Armed
  <2>2. sigints' \in 0 .. MaxSigint /\ sinceRun' \in 0 .. MaxSigint /\ interrupted' \in BOOLEAN
    BY <1>3, <2>1, BoundsAssumption DEF CtrlC
  <2> QED
    BY <1>3, <2>2 DEF CtrlC, TypeOK
<1>4. ASSUME NEW f \in Files, Enroll(f) PROVE TypeOK'
  BY <1>4 DEF Enroll, TypeOK, MainStates, ThreadStates, DebounceStates
<1>5. ASSUME NEW f \in Files, Read(f) PROVE TypeOK'
  BY <1>5 DEF Read, IsEnrolled, TypeOK, MainStates, ThreadStates, DebounceStates
<1>6. CASE EndRun
  <2>1. interrupted' \in BOOLEAN /\ main' \in MainStates
    BY <1>6, Zenon DEF EndRun, TypeOK, MainStates
  <2> QED
    BY <1>6, <2>1 DEF EndRun, TypeOK
<1>7. CASE StartThreads
  BY <1>7 DEF StartThreads, TypeOK, MainStates, ThreadStates, DebounceStates
<1>8. CASE WaitInterrupted
  BY <1>8 DEF WaitInterrupted, DebounceSeen, TypeOK, MainStates, ThreadStates,
     DebounceStates
<1>9. CASE Reset
  BY <1>9 DEF Reset, Invalidated, TypeOK, MainStates, ThreadStates, DebounceStates
<1>10. CASE FinishReset
  <2>1. sinceRun' \in 0 .. MaxSigint /\ reruns' \in Nat /\ main' \in MainStates
    BY <1>10, BoundsAssumption DEF FinishReset, TypeOK, MainStates
  <2>2. triggered' \in BOOLEAN /\ debounceInterrupt' \in BOOLEAN /\ overflowed' \in BOOLEAN
    BY <1>10 DEF FinishReset, Rearm
  <2>3. UNCHANGED <<version, events, cache, toInvalidate, watchedFiles, registered, fileThread,
                    stdinThread, debounceThread, typed, enters, sigints, interrupted>>
        /\ atStart' = version
    BY <1>10 DEF FinishReset
  <2> QED
    BY <2>1, <2>2, <2>3, Zenon DEF TypeOK
<1>11. CASE JoinInterrupted
  BY <1>11 DEF JoinInterrupted, TypeOK, MainStates, ThreadStates, DebounceStates
<1>12. CASE TakeEvents
  BY <1>12 DEF TakeEvents, TypeOK, MainStates, ThreadStates, DebounceStates
<1>13. CASE TakeOverflow
  BY <1>13 DEF TakeOverflow, TypeOK, MainStates, ThreadStates, DebounceStates
<1>14. CASE FileThreadStops
  BY <1>14 DEF FileThreadStops, TypeOK, MainStates, ThreadStates, DebounceStates
<1>15. CASE ReadLine
  BY <1>15, BoundsAssumption
  DEF ReadLine, LineTyped, TypeOK, MainStates, ThreadStates, DebounceStates
<1>16. CASE StdinThreadStops
  BY <1>16 DEF StdinThreadStops, TypeOK, MainStates, ThreadStates, DebounceStates
<1>17. CASE DebounceFires
  BY <1>17 DEF DebounceFires, TypeOK, MainStates, ThreadStates, DebounceStates
<1>18. CASE SignalFile
  BY <1>18
  DEF SignalFile, Signal, Notified, TypeOK, MainStates, ThreadStates, DebounceStates
<1>19. CASE SignalStdin
  BY <1>19
  DEF SignalStdin, Signal, Notified, TypeOK, MainStates, ThreadStates, DebounceStates
<1> QED
  BY <1>1, <1>2, <1>3, <1>4, <1>5, <1>6, <1>7, <1>8, <1>9, <1>10, <1>11, <1>12, <1>13,
     <1>14, <1>15, <1>16, <1>17, <1>18, <1>19
  DEF Next, Environment, MainThread, FileThread, StdinThread

(* A run begins when the threads of the last wait have ended.              *)
LEMMA ThreadsStep ==
  ASSUME TypeOK, Threads, Next
  PROVE  Threads'
<1> USE DEF fileVars, enrolVars, threads, inputVars
<1>1. ASSUME NEW f \in Files, Edit(f) PROVE Threads'
  BY <1>1 DEF Edit, Threads, InRun, TypeOK
<1>2. CASE PressEnter
  BY <1>2 DEF PressEnter, Threads, InRun, TypeOK
<1>3. CASE CtrlC
  BY <1>3 DEF CtrlC, Threads, InRun, TypeOK
<1>4. ASSUME NEW f \in Files, Enroll(f) PROVE Threads'
  BY <1>4 DEF Enroll, Threads, InRun, TypeOK
<1>5. ASSUME NEW f \in Files, Read(f) PROVE Threads'
  BY <1>5 DEF Read, IsEnrolled, Threads, InRun, TypeOK
<1>6. CASE EndRun
  BY <1>6 DEF EndRun, Threads, InRun, TypeOK
<1>7. CASE StartThreads
  BY <1>7 DEF StartThreads, Threads, InRun, TypeOK
<1>8. CASE WaitInterrupted
  BY <1>8 DEF WaitInterrupted, DebounceSeen, Threads, InRun, TypeOK
<1>9. CASE Reset
  BY <1>9 DEF Reset, Invalidated, Threads, InRun, TypeOK
<1>10. CASE FinishReset
  BY <1>10 DEF FinishReset, Rearm, ThreadsEnded, Threads, InRun, TypeOK
<1>11. CASE JoinInterrupted
  BY <1>11 DEF JoinInterrupted, Threads, InRun, TypeOK
<1>12. CASE TakeEvents
  BY <1>12 DEF TakeEvents, Threads, InRun, TypeOK
<1>13. CASE TakeOverflow
  BY <1>13 DEF TakeOverflow, Threads, InRun, TypeOK
<1>14. CASE FileThreadStops
  BY <1>14 DEF FileThreadStops, Threads, InRun, TypeOK
<1>15. CASE ReadLine
  BY <1>15 DEF ReadLine, LineTyped, Threads, InRun, TypeOK
<1>16. CASE StdinThreadStops
  BY <1>16 DEF StdinThreadStops, Threads, InRun, TypeOK
<1>17. CASE DebounceFires
  BY <1>17 DEF DebounceFires, Threads, InRun, TypeOK
<1>18. CASE SignalFile
  BY <1>18 DEF SignalFile, Signal, Notified, Threads, InRun, TypeOK
<1>19. CASE SignalStdin
  BY <1>19 DEF SignalStdin, Signal, Notified, Threads, InRun, TypeOK
<1> QED
  BY <1>1, <1>2, <1>3, <1>4, <1>5, <1>6, <1>7, <1>8, <1>9, <1>10, <1>11, <1>12, <1>13,
     <1>14, <1>15, <1>16, <1>17, <1>18, <1>19
  DEF Next, Environment, MainThread, FileThread, StdinThread

(* Only Read fills a cache, and only of what is enrolled.                  *)
LEMMA EnrolledStep ==
  ASSUME TypeOK, Enrolled, Next
  PROVE  Enrolled'
<1> USE DEF fileVars, enrolVars, threads, inputVars
<1>1. ASSUME NEW f \in Files, Edit(f) PROVE Enrolled'
  BY <1>1 DEF Edit, Enrolled, TypeOK
<1>2. CASE PressEnter
  BY <1>2 DEF PressEnter, Enrolled, TypeOK
<1>3. CASE CtrlC
  BY <1>3 DEF CtrlC, Enrolled, TypeOK
<1>4. ASSUME NEW f \in Files, Enroll(f) PROVE Enrolled'
  BY <1>4 DEF Enroll, Enrolled, TypeOK
<1>5. ASSUME NEW f \in Files, Read(f) PROVE Enrolled'
  BY <1>5 DEF Read, IsEnrolled, Enrolled, TypeOK
<1>6. CASE EndRun
  BY <1>6 DEF EndRun, Enrolled, TypeOK
<1>7. CASE StartThreads
  BY <1>7 DEF StartThreads, Enrolled, TypeOK
<1>8. CASE WaitInterrupted
  BY <1>8 DEF WaitInterrupted, DebounceSeen, Enrolled, TypeOK
<1>9. CASE Reset
  BY <1>9 DEF Reset, Invalidated, Enrolled, TypeOK
<1>10. CASE FinishReset
  BY <1>10 DEF FinishReset, Rearm, ThreadsEnded, Enrolled, TypeOK
<1>11. CASE JoinInterrupted
  BY <1>11 DEF JoinInterrupted, Enrolled, TypeOK
<1>12. CASE TakeEvents
  BY <1>12 DEF TakeEvents, Enrolled, TypeOK
<1>13. CASE TakeOverflow
  BY <1>13 DEF TakeOverflow, Enrolled, TypeOK
<1>14. CASE FileThreadStops
  BY <1>14 DEF FileThreadStops, Enrolled, TypeOK
<1>15. CASE ReadLine
  BY <1>15 DEF ReadLine, LineTyped, Enrolled, TypeOK
<1>16. CASE StdinThreadStops
  BY <1>16 DEF StdinThreadStops, Enrolled, TypeOK
<1>17. CASE DebounceFires
  BY <1>17 DEF DebounceFires, Enrolled, TypeOK
<1>18. CASE SignalFile
  BY <1>18 DEF SignalFile, Signal, Notified, Enrolled, TypeOK
<1>19. CASE SignalStdin
  BY <1>19 DEF SignalStdin, Signal, Notified, Enrolled, TypeOK
<1> QED
  BY <1>1, <1>2, <1>3, <1>4, <1>5, <1>6, <1>7, <1>8, <1>9, <1>10, <1>11, <1>12, <1>13,
     <1>14, <1>15, <1>16, <1>17, <1>18, <1>19
  DEF Next, Environment, MainThread, FileThread, StdinThread

(* A new run starts with empty caches.                                     *)
LEMMA FreshStep ==
  ASSUME TypeOK, Enrolled, Fresh, Next
  PROVE  Fresh'
<1> USE DEF fileVars, enrolVars, threads, inputVars
<1>1. ASSUME NEW f \in Files, Edit(f) PROVE Fresh'
  BY <1>1 DEF Edit, Fresh, TypeOK
<1>2. CASE PressEnter
  BY <1>2 DEF PressEnter, Fresh, TypeOK
<1>3. CASE CtrlC
  BY <1>3 DEF CtrlC, Fresh, TypeOK
<1>4. ASSUME NEW f \in Files, Enroll(f) PROVE Fresh'
  BY <1>4 DEF Enroll, Fresh, TypeOK
<1>5. ASSUME NEW f \in Files, Read(f) PROVE Fresh'
  BY <1>5 DEF Read, IsEnrolled, Fresh, TypeOK
<1>6. CASE EndRun
  BY <1>6 DEF EndRun, Fresh, TypeOK
<1>7. CASE StartThreads
  BY <1>7 DEF StartThreads, Fresh, TypeOK
<1>8. CASE WaitInterrupted
  BY <1>8 DEF WaitInterrupted, DebounceSeen, Fresh, TypeOK
<1>9. CASE Reset
  BY <1>9 DEF Reset, Invalidated, Fresh, TypeOK
<1>10. CASE FinishReset
  <2>1. atStart' = version /\ version' = version /\ cache' = cache
    BY <1>10 DEF FinishReset
  <2>2. \A f \in Files : cache[f] = NotCached
    BY <1>10 DEF FinishReset, Enrolled
  <2>3. \A f \in Files : version[f] \in Int
    BY DEF TypeOK
  <2> QED
    BY <2>1, <2>2, <2>3 DEF Fresh
<1>11. CASE JoinInterrupted
  BY <1>11 DEF JoinInterrupted, Fresh, TypeOK
<1>12. CASE TakeEvents
  BY <1>12 DEF TakeEvents, Fresh, TypeOK
<1>13. CASE TakeOverflow
  BY <1>13 DEF TakeOverflow, Fresh, TypeOK
<1>14. CASE FileThreadStops
  BY <1>14 DEF FileThreadStops, Fresh, TypeOK
<1>15. CASE ReadLine
  BY <1>15 DEF ReadLine, LineTyped, Fresh, TypeOK
<1>16. CASE StdinThreadStops
  BY <1>16 DEF StdinThreadStops, Fresh, TypeOK
<1>17. CASE DebounceFires
  BY <1>17 DEF DebounceFires, Fresh, TypeOK
<1>18. CASE SignalFile
  BY <1>18 DEF SignalFile, Signal, Notified, Fresh, TypeOK
<1>19. CASE SignalStdin
  BY <1>19 DEF SignalStdin, Signal, Notified, Fresh, TypeOK
<1> QED
  BY <1>1, <1>2, <1>3, <1>4, <1>5, <1>6, <1>7, <1>8, <1>9, <1>10, <1>11, <1>12, <1>13,
     <1>14, <1>15, <1>16, <1>17, <1>18, <1>19
  DEF Next, Environment, MainThread, FileThread, StdinThread

(* The file thread ends with a signal, at an overflow, or with nothing to  *)
(* watch.                                                                  *)
LEMMA FileThreadEndsStep ==
  ASSUME TypeOK, Enrolled, Threads, FileThreadEnds, Next
  PROVE  FileThreadEnds'
<1> USE DEF fileVars, enrolVars, threads, inputVars
<1>1. ASSUME NEW f \in Files, Edit(f) PROVE FileThreadEnds'
  BY <1>1 DEF Edit, FileThreadEnds, TypeOK, Threads, InRun, MonitorFree, ThreadStates
<1>2. CASE PressEnter
  BY <1>2 DEF PressEnter, FileThreadEnds, TypeOK, Threads, InRun, MonitorFree,
     ThreadStates
<1>3. CASE CtrlC
  BY <1>3 DEF CtrlC, FileThreadEnds, TypeOK, Threads, InRun, MonitorFree, ThreadStates
<1>4. ASSUME NEW f \in Files, Enroll(f) PROVE FileThreadEnds'
  BY <1>4 DEF Enroll, FileThreadEnds, TypeOK, Threads, InRun, MonitorFree, ThreadStates
<1>5. ASSUME NEW f \in Files, Read(f) PROVE FileThreadEnds'
  BY <1>5 DEF Read, IsEnrolled, FileThreadEnds, TypeOK, Threads, InRun, MonitorFree,
     ThreadStates
<1>6. CASE EndRun
  BY <1>6 DEF EndRun, FileThreadEnds, TypeOK, Threads, InRun, MonitorFree, ThreadStates
<1>7. CASE StartThreads
  BY <1>7 DEF StartThreads, FileThreadEnds, TypeOK, Threads, InRun, MonitorFree,
     ThreadStates
<1>8. CASE WaitInterrupted
  BY <1>8 DEF WaitInterrupted, DebounceSeen, FileThreadEnds, TypeOK, Threads, InRun,
     MonitorFree, ThreadStates
<1>9. CASE Reset
  BY <1>9 DEF Reset, Invalidated, FileThreadEnds, TypeOK, Threads, InRun, MonitorFree,
     ThreadStates
<1>10. CASE FinishReset
  BY <1>10
  DEF FinishReset, Rearm, ThreadsEnded, FileThreadEnds, TypeOK, Threads, InRun,
      MonitorFree, ThreadStates
<1>11. CASE JoinInterrupted
  BY <1>11
  DEF JoinInterrupted, FileThreadEnds, TypeOK, Threads, InRun, MonitorFree, ThreadStates
<1>12. CASE TakeEvents
  BY <1>12
  DEF TakeEvents, FileThreadEnds, TypeOK, Threads, InRun, MonitorFree, ThreadStates
<1>13. CASE TakeOverflow
  BY <1>13
  DEF TakeOverflow, FileThreadEnds, TypeOK, Threads, InRun, MonitorFree, ThreadStates
<1>14. CASE FileThreadStops
  BY <1>14
  DEF FileThreadStops, FileThreadEnds, TypeOK, Threads, InRun, MonitorFree, ThreadStates
<1>15. CASE ReadLine
  BY <1>15
  DEF ReadLine, LineTyped, FileThreadEnds, TypeOK, Threads, InRun, MonitorFree,
      ThreadStates
<1>16. CASE StdinThreadStops
  BY <1>16
  DEF StdinThreadStops, FileThreadEnds, TypeOK, Threads, InRun, MonitorFree,
      ThreadStates
<1>17. CASE DebounceFires
  BY <1>17
  DEF DebounceFires, FileThreadEnds, TypeOK, Threads, InRun, MonitorFree, ThreadStates
<1>18. CASE SignalFile
  BY <1>18
  DEF SignalFile, Signal, Notified, FileThreadEnds, TypeOK, Threads, InRun,
      MonitorFree, ThreadStates
<1>19. CASE SignalStdin
  BY <1>19
  DEF SignalStdin, Signal, Notified, FileThreadEnds, TypeOK, Threads, InRun,
      MonitorFree, ThreadStates
<1> QED
  BY <1>1, <1>2, <1>3, <1>4, <1>5, <1>6, <1>7, <1>8, <1>9, <1>10, <1>11, <1>12, <1>13,
     <1>14, <1>15, <1>16, <1>17, <1>18, <1>19
  DEF Next, Environment, MainThread, FileThread, StdinThread

(* Ctrl+C pays for the interrupt, the first interrupt for the debounce.    *)
LEMMA ArmedStep ==
  ASSUME TypeOK, Armed, Next
  PROVE  Armed'
<1> USE DEF fileVars, enrolVars, threads, inputVars
<1>1. ASSUME NEW f \in Files, Edit(f) PROVE Armed'
  BY <1>1 DEF Edit, Armed, TypeOK
<1>2. CASE PressEnter
  BY <1>2 DEF PressEnter, Armed, TypeOK
<1>3. CASE CtrlC
  BY <1>3 DEF CtrlC, Armed, TypeOK
<1>4. ASSUME NEW f \in Files, Enroll(f) PROVE Armed'
  BY <1>4 DEF Enroll, Armed, TypeOK
<1>5. ASSUME NEW f \in Files, Read(f) PROVE Armed'
  BY <1>5 DEF Read, IsEnrolled, Armed, TypeOK
<1>6. CASE EndRun
  <2>1. UNCHANGED <<debounceInterrupt, sinceRun, sigints>>
    BY <1>6 DEF EndRun
  <2>2. CASE interrupted' = interrupted
    BY <2>1, <2>2 DEF Armed
  <2>3. CASE interrupted' = FALSE
    BY <2>1, <2>3 DEF Armed, TypeOK
  <2> QED
    BY <1>6, <2>2, <2>3, Zenon DEF EndRun
<1>7. CASE StartThreads
  BY <1>7 DEF StartThreads, Armed, TypeOK
<1>8. CASE WaitInterrupted
  BY <1>8 DEF WaitInterrupted, DebounceSeen, Armed, TypeOK
<1>9. CASE Reset
  BY <1>9 DEF Reset, Invalidated, Armed, TypeOK
<1>10. CASE FinishReset
  BY <1>10 DEF FinishReset, Rearm, ThreadsEnded, Armed, TypeOK
<1>11. CASE JoinInterrupted
  BY <1>11 DEF JoinInterrupted, Armed, TypeOK
<1>12. CASE TakeEvents
  BY <1>12 DEF TakeEvents, Armed, TypeOK
<1>13. CASE TakeOverflow
  BY <1>13 DEF TakeOverflow, Armed, TypeOK
<1>14. CASE FileThreadStops
  BY <1>14 DEF FileThreadStops, Armed, TypeOK
<1>15. CASE ReadLine
  BY <1>15 DEF ReadLine, LineTyped, Armed, TypeOK
<1>16. CASE StdinThreadStops
  BY <1>16 DEF StdinThreadStops, Armed, TypeOK
<1>17. CASE DebounceFires
  BY <1>17 DEF DebounceFires, Armed, TypeOK
<1>18. CASE SignalFile
  BY <1>18 DEF SignalFile, Signal, Notified, Armed, TypeOK
<1>19. CASE SignalStdin
  BY <1>19 DEF SignalStdin, Signal, Notified, Armed, TypeOK
<1> QED
  BY <1>1, <1>2, <1>3, <1>4, <1>5, <1>6, <1>7, <1>8, <1>9, <1>10, <1>11, <1>12, <1>13,
     <1>14, <1>15, <1>16, <1>17, <1>18, <1>19
  DEF Next, Environment, MainThread, FileThread, StdinThread

(* An edit becomes an event as soon as the file may have been read; the    *)
(* file thread takes events only to signal, or finds that it has no names. *)
LEMMA PendingStep ==
  ASSUME TypeOK, Threads, Enrolled, Pending, FileThreadEnds, Next
  PROVE  Pending'
<1> USE DEF fileVars, enrolVars, threads, inputVars
<1>1. ASSUME NEW f \in Files, Edit(f) PROVE Pending'
  <2>1. UNCHANGED <<cache, main, triggered, overflowed, fileThread>>
    BY <1>1 DEF Edit
  <2>2. \A g \in Watched : Stale(g)' => Stale(g) \/ (g = f /\ cache[f] # NotCached)
    BY <1>1, WatchedAssumption DEF Edit, Stale, TypeOK
  <2>3. f \in Watched /\ cache[f] # NotCached => registered
    BY DEF Enrolled
  <2>4. /\ OVERFLOW \notin events' => events \subseteq events' /\ OVERFLOW \notin events
        /\ OVERFLOW \notin events' /\ registered => f \in events'
    BY <1>1 DEF Edit
  <2>5. InRun' /\ OVERFLOW \notin events' => \A g \in Watched : Stale(g)' => g \in events'
    BY <2>1, <2>2, <2>3, <2>4 DEF Pending, InRun, Stale
  <2>6. NoMissedChange'
    <3> SUFFICES ASSUME main = "waiting", ~triggered, ~overflowed, OVERFLOW \notin events',
                        NEW g \in Watched, Stale(g)'
                 PROVE  \/ fileThread = "live" /\ g \in events'
                        \/ fileThread = "signalling"
      BY <2>1 DEF NoMissedChange
    <3>1. CASE Stale(g)
      BY <3>1, <2>4 DEF Pending, NoMissedChange, Stale
    <3>2. CASE g = f /\ cache[f] # NotCached
      BY <3>2, <2>1, <2>3, <2>4 DEF FileThreadEnds, TypeOK, ThreadStates
    <3> QED
      BY <3>1, <3>2, <2>2
  <2> QED
    BY <2>5, <2>6 DEF Pending
<1>2. CASE PressEnter
  BY <1>2 DEF PressEnter, Pending, NoMissedChange, InRun, Stale, TypeOK, Threads,
     Enrolled, FileThreadEnds
<1>3. CASE CtrlC
  BY <1>3 DEF CtrlC, Pending, NoMissedChange, InRun, Stale, TypeOK, Threads, Enrolled,
     FileThreadEnds
<1>4. ASSUME NEW f \in Files, Enroll(f) PROVE Pending'
  BY <1>4 DEF Enroll, Pending, NoMissedChange, InRun, Stale, TypeOK, Threads, Enrolled,
     FileThreadEnds
<1>5. ASSUME NEW f \in Files, Read(f) PROVE Pending'
  BY <1>5 DEF Read, IsEnrolled, Pending, NoMissedChange, InRun, Stale, TypeOK, Threads,
     Enrolled, FileThreadEnds
<1>6. CASE EndRun
  BY <1>6 DEF EndRun, Pending, NoMissedChange, InRun, Stale, TypeOK, Threads, Enrolled,
     FileThreadEnds
<1>7. CASE StartThreads
  BY <1>7 DEF StartThreads, Pending, NoMissedChange, InRun, Stale, TypeOK, Threads,
     Enrolled, FileThreadEnds
<1>8. CASE WaitInterrupted
  BY <1>8 DEF WaitInterrupted, DebounceSeen, Pending, NoMissedChange, InRun, Stale,
     TypeOK, Threads, Enrolled, FileThreadEnds
<1>9. CASE Reset
  BY <1>9 DEF Reset, Invalidated, Pending, NoMissedChange, InRun, Stale, TypeOK,
     Threads, Enrolled, FileThreadEnds
<1>10. CASE FinishReset
  <2>1. \A f \in Files : cache'[f] = NotCached
    BY <1>10 DEF FinishReset, Enrolled
  <2>2. \A f \in Watched : ~Stale(f)'
    BY <2>1, WatchedAssumption DEF Stale
  <2> QED
    BY <2>2 DEF Pending, NoMissedChange
<1>11. CASE JoinInterrupted
  BY <1>11
  DEF JoinInterrupted, Pending, NoMissedChange, InRun, Stale, TypeOK, Threads,
      Enrolled, FileThreadEnds
<1>12. CASE TakeEvents
  BY <1>12
  DEF TakeEvents, Pending, NoMissedChange, InRun, Stale, TypeOK, Threads, Enrolled,
      FileThreadEnds
<1>13. CASE TakeOverflow
  BY <1>13
  DEF TakeOverflow, Pending, NoMissedChange, InRun, Stale, TypeOK, Threads, Enrolled,
      FileThreadEnds
<1>14. CASE FileThreadStops
  BY <1>14
  DEF FileThreadStops, Pending, NoMissedChange, InRun, Stale, TypeOK, Threads,
      Enrolled, FileThreadEnds
<1>15. CASE ReadLine
  BY <1>15
  DEF ReadLine, LineTyped, Pending, NoMissedChange, InRun, Stale, TypeOK, Threads,
      Enrolled, FileThreadEnds
<1>16. CASE StdinThreadStops
  BY <1>16
  DEF StdinThreadStops, Pending, NoMissedChange, InRun, Stale, TypeOK, Threads,
      Enrolled, FileThreadEnds
<1>17. CASE DebounceFires
  BY <1>17
  DEF DebounceFires, Pending, NoMissedChange, InRun, Stale, TypeOK, Threads, Enrolled,
      FileThreadEnds
<1>18. CASE SignalFile
  BY <1>18
  DEF SignalFile, Signal, Notified, Pending, NoMissedChange, InRun, Stale, TypeOK,
      Threads, Enrolled, FileThreadEnds
<1>19. CASE SignalStdin
  BY <1>19
  DEF SignalStdin, Signal, Notified, Pending, NoMissedChange, InRun, Stale, TypeOK,
      Threads, Enrolled, FileThreadEnds
<1> QED
  BY <1>1, <1>2, <1>3, <1>4, <1>5, <1>6, <1>7, <1>8, <1>9, <1>10, <1>11, <1>12, <1>13,
     <1>14, <1>15, <1>16, <1>17, <1>18, <1>19
  DEF Next, Environment, MainThread, FileThread, StdinThread

(* Most steps only pass a cause on.                                        *)
LEMMA PaidStays ==
  ASSUME TypeOK, Paid, UNCHANGED <<version, reruns, typed, enters>>, TriggerPending' => TriggerPending
  PROVE  Paid'
<1>1. Edits' = Edits
  BY DEF Edits
<1> QED
  BY <1>1, EditsFacts DEF Paid, TypeOK

(* An edit or a line pays for a trigger, FinishReset uses it up.           *)
LEMMA PaidStep ==
  ASSUME TypeOK, Threads, Enrolled, Paid, Next
  PROVE  Paid'
<1> USE DEF fileVars, enrolVars, threads, inputVars
<1>1. ASSUME NEW f \in Files, Edit(f) PROVE Paid'
  <2>1. UNCHANGED <<reruns, typed, enters, triggered, fileThread, stdinThread>>
    BY <1>1 DEF Edit
  <2>2. events' \subseteq events \cup {f, OVERFLOW}
    BY <1>1 DEF Edit
  <2>3. reruns \in Nat /\ typed \in Nat /\ enters \in Nat
    BY DEF TypeOK
  <2>4. CASE f \in Watched
    BY <1>1, <2>1, <2>3, <2>4, EditsFacts, OneMoreEdit DEF Paid
  <2>5. CASE f \notin Watched
    <3>1. Edits' = Edits
      BY <1>1, <2>5, EditsOfOthers
    <3>2. TriggerPending' => TriggerPending
      BY <2>1, <2>2, <2>5, WatchedAssumption, EventsAssumption DEF TriggerPending
    <3> QED
      BY <2>1, <2>3, <3>1, <3>2, EditsFacts DEF Paid
  <2> QED
    BY <2>4, <2>5
<1>2. CASE PressEnter
  <2>1. Edits' = Edits /\ TriggerPending' = TriggerPending
    BY <1>2 DEF PressEnter, Edits, TriggerPending
  <2>2. enters' = enters + 1 /\ typed' = typed + 1 /\ reruns' = reruns
    BY <1>2 DEF PressEnter
  <2> QED
    BY <2>1, <2>2, EditsFacts DEF Paid, TypeOK
<1>3. CASE CtrlC
  BY <1>3, PaidStays DEF CtrlC, TriggerPending, Threads, Enrolled
<1>4. ASSUME NEW f \in Files, Enroll(f) PROVE Paid'
  BY <1>4, PaidStays DEF Enroll, TriggerPending, Threads, Enrolled
<1>5. ASSUME NEW f \in Files, Read(f) PROVE Paid'
  BY <1>5, PaidStays DEF Read, IsEnrolled, TriggerPending, Threads, Enrolled
<1>6. CASE EndRun
  BY <1>6, PaidStays DEF EndRun, TriggerPending, Threads, Enrolled
<1>7. CASE StartThreads
  BY <1>7, PaidStays DEF StartThreads, TriggerPending, Threads, Enrolled
<1>8. CASE WaitInterrupted
  BY <1>8, PaidStays
  DEF WaitInterrupted, DebounceSeen, TriggerPending, Threads, Enrolled
<1>9. CASE Reset
  BY <1>9, PaidStays DEF Reset, Invalidated, TriggerPending, Threads, Enrolled
<1>10. CASE FinishReset
  <2>1. Edits' = Edits
    BY <1>10 DEF FinishReset, Edits
  <2>2. enters' = enters /\ typed' = typed /\ reruns' = reruns + 1
    BY <1>10 DEF FinishReset
  <2>3. TriggerPending
    BY <1>10 DEF FinishReset, Threads, TriggerPending
  <2>4. ~TriggerPending'
    BY <1>10 DEF FinishReset, Rearm, ThreadsEnded, Enrolled, TriggerPending
  <2> QED
    BY <2>1, <2>2, <2>3, <2>4, EditsFacts DEF Paid, TypeOK
<1>11. CASE JoinInterrupted
  BY <1>11, PaidStays DEF JoinInterrupted, TriggerPending, Threads, Enrolled
<1>12. CASE TakeEvents
  BY <1>12, PaidStays DEF TakeEvents, TriggerPending, Threads, Enrolled
<1>13. CASE TakeOverflow
  BY <1>13, PaidStays DEF TakeOverflow, TriggerPending, Threads, Enrolled
<1>14. CASE FileThreadStops
  BY <1>14, PaidStays DEF FileThreadStops, TriggerPending, Threads, Enrolled
<1>15. CASE ReadLine
  <2>1. Edits' = Edits
    BY <1>15 DEF ReadLine, Edits
  <2>2. enters' = enters /\ typed' = typed - 1 /\ reruns' = reruns
    BY <1>15 DEF ReadLine
  <2> QED
    BY <2>1, <2>2, EditsFacts DEF Paid, TypeOK
<1>16. CASE StdinThreadStops
  BY <1>16, PaidStays DEF StdinThreadStops, TriggerPending, Threads, Enrolled
<1>17. CASE DebounceFires
  BY <1>17, PaidStays DEF DebounceFires, TriggerPending, Threads, Enrolled
<1>18. CASE SignalFile
  BY <1>18, PaidStays
  DEF SignalFile, Signal, Notified, TriggerPending, Threads, Enrolled
<1>19. CASE SignalStdin
  BY <1>19, PaidStays
  DEF SignalStdin, Signal, Notified, TriggerPending, Threads, Enrolled
<1> QED
  BY <1>1, <1>2, <1>3, <1>4, <1>5, <1>6, <1>7, <1>8, <1>9, <1>10, <1>11, <1>12, <1>13,
     <1>14, <1>15, <1>16, <1>17, <1>18, <1>19
  DEF Next, Environment, MainThread, FileThread, StdinThread

(* Nothing depends on more than the variables.                             *)
LEMMA Stutter ==
  ASSUME Inv, UNCHANGED vars
  PROVE  Inv'
<1>1. TypeOK' /\ Threads' /\ Enrolled' /\ Fresh'
  BY DEF Inv, vars, fileVars, enrolVars, threads, inputVars, TypeOK, Threads, InRun,
     Enrolled, Fresh
<1>2. Pending' /\ FileThreadEnds' /\ Paid' /\ Armed'
  BY DEF Inv, vars, fileVars, enrolVars, threads, inputVars, Pending, NoMissedChange,
     Stale,
         InRun, FileThreadEnds, Paid, Edits, TriggerPending, Armed
<1> QED
  BY <1>1, <1>2 DEF Inv

THEOREM InvIsInvariant == Spec => []Inv
<1>1. Init => Inv
  <2> SUFFICES ASSUME Init PROVE Inv
    OBVIOUS
  <2>1. TypeOK
    <3>1. 0 \in 0 .. MaxVersion /\ 0 \in 0 .. MaxEnter /\ 0 \in 0 .. MaxSigint
      BY BoundsAssumption
    <3> QED
      BY <3>1 DEF Init, TypeOK, MainStates, ThreadStates, DebounceStates
  <2>2. Threads /\ Enrolled /\ Fresh
    BY <2>1 DEF Init, Threads, InRun, Enrolled, Fresh, TypeOK
  <2>3. Pending /\ FileThreadEnds
    BY WatchedAssumption DEF Init, Pending, NoMissedChange, Stale, FileThreadEnds
  <2>4. Paid /\ Armed
    BY EditsFacts DEF Init, Paid, TriggerPending, Armed
  <2> QED
    BY <2>1, <2>2, <2>3, <2>4 DEF Inv
<1>2. Inv /\ [Next]_vars => Inv'
  BY Stutter, TypeStep, ThreadsStep, EnrolledStep, FreshStep, PendingStep,
     FileThreadEndsStep,
     PaidStep, ArmedStep DEF Inv
<1> QED
  BY <1>1, <1>2, PTL DEF Spec

(* What the runs see: while the main thread sleeps no change is missed, a  *)
(* run reads nothing older than its start, and every run but the first has *)
(* an edit or an ENTER of its own.                                         *)
THEOREM RunsAlwaysFollowChanges == Spec => []RunsFollowChanges
<1>1. Inv => RunsFollowChanges
  <2>1. Inv => RunsReadFreshFiles
    BY DEF Inv, Fresh, RunsReadFreshFiles
  <2>2. Inv => RerunsHaveCauses
    BY EditsFacts DEF Inv, Paid, TypeOK, RerunsHaveCauses
  <2> QED
    BY <2>1, <2>2 DEF Inv, Pending, RunsFollowChanges
<1> QED
  BY <1>1, InvIsInvariant, PTL

(* The wait ends the program only after two Ctrl+C since the run began, or *)
(* one that comes after the debounce.                                      *)
THEOREM ExitIsAlwaysConfirmed == Spec => ExitIsConfirmed
<1>1. ASSUME Inv, [Next]_vars
      PROVE  [LeavesWait => sinceRun >= 2 \/ debounceThread = "fired"]_vars
  <2> SUFFICES ASSUME Next, LeavesWait, debounceThread # "fired" PROVE sinceRun >= 2
    BY <1>1
  <2>1. WaitInterrupted
    BY DEF Next, Environment, MainThread, FileThread, StdinThread, LeavesWait, Edit,
       PressEnter,
           CtrlC, Enroll, Read, EndRun, StartThreads, Reset, FinishReset, JoinInterrupted,
           TakeEvents, TakeOverflow, FileThreadStops, ReadLine, StdinThreadStops, DebounceFires,
           SignalFile, SignalStdin, Signal, Notified
  <2>2. interrupted /\ ~debounceInterrupt
    BY <2>1, <1>1 DEF WaitInterrupted, DebounceSeen, LeavesWait, Inv, TypeOK
  <2> QED
    BY <2>2, <1>1 DEF Inv, Armed, TypeOK
<1> QED
  BY <1>1, InvIsInvariant, PTL DEF Spec, ExitIsConfirmed
=============================================================================
