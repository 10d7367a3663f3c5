------------------------------ MODULE SystemCProofs ------------------------------
(***************************************************************************)
(* Proofs about the channels of res/systemc, for every size of the buffer, *)
(* any processes and any programs: samples are read once and in order, no  *)
(* process waits for what is there, event() is true after changes only,    *)
(* and who waits for the edges of a clock sees each of them.               *)
(*                                                                         *)
(* The argument.  What has been written and not yet read lies in the ring  *)
(* from the number of samples read on, modulo its size (FifoInv); within a *)
(* delta cycle only what was there at its beginning is read and only what  *)
(* was free is written, so neither end of the ring meets the other.  A     *)
(* process that found nothing to read finds nothing until the update, and  *)
(* the update that makes something readable wakes it (WaitsAreJustified is *)
(* inductive, given that no other wait is for the private events).         *)
(* The clock's thread runs when time has passed and then alone, so nobody  *)
(* is between an edge and the look at the clock when it flips (ClockInv).  *)
(***************************************************************************)
EXTENDS SystemC, SequenceTheorems, FiniteSetTheorems, TLAPS

IsSequence(s) == \E S : s \in Seq(S)

(* The counters of the FIFO and what of the history they stand for.        *)
CountersInv ==
  /\ num_readable \in 0 .. BUF_SIZE
  /\ num_read \in 0 .. num_readable
  /\ num_written \in 0 .. BUF_SIZE - num_readable
  /\ free = BUF_SIZE - num_readable + num_read - num_written
  /\ num_read > 0 \/ num_written > 0 => "fifo" \in requested

(* The ring holds the samples that have been written and not yet read.     *)
FifoInv ==
  /\ IsSequence(sent) /\ IsSequence(got)
  /\ Len(sent) - Len(got) = BUF_SIZE - free
  /\ committed = Len(sent) - num_written
  /\ ri = Len(got) % BUF_SIZE /\ wi = Len(sent) % BUF_SIZE
  /\ DOMAIN buf = 0 .. BUF_SIZE - 1
  /\ \A k \in 1 .. Len(got) : got[k] = sent[k]
  /\ \A k \in 1 .. Len(sent) : k > Len(got) => buf[(k - 1) % BUF_SIZE] = sent[k]

(* The processes' programs keep to what is allowed, the simulator to one   *)
(* place for each process.                                                 *)
Allowed(call) == call.op = "await" => call.v \notin Private
ProgramInv ==
  /\ DOMAIN todo = Processes
  /\ \A p \in Processes :
       /\ IsSequence(todo[p])
       /\ \A k \in 1 .. Len(todo[p]) : Allowed(todo[p][k])
  /\ period \in Nat
SchedulerInv ==
  /\ DOMAIN waits = Processes /\ DOMAIN timer = Processes
  /\ running \in Processes \cup {NoProcess} /\ runnable \subseteq Processes \ {running}
  /\ \A p \in Processes : waits[p] # "nothing" => p \notin runnable \cup {running}
  /\ now \in Nat
  /\ \A p \in Processes : timer[p] \in Nat
  /\ \A p \in Processes : waits[p] = "time" => timer[p] > now

(* What waits is for something that is not there.                          *)
WaitInv ==
  \A p \in Processes :
    /\ waits[p] = "data_written" => num_readable - num_read = 0
    /\ waits[p] = "data_read" => BUF_SIZE - num_readable - num_written = 0
    /\ waits[p] = "_free" => _locked

(* The delta count at the last change of the signal is not in the future.  *)
SignalInv ==
  /\ delta_count \in Nat /\ delta \in Int /\ delta <= delta_count
  /\ event = (val # before)

Inv == CountersInv /\ FifoInv /\ ProgramInv /\ SchedulerInv /\ WaitInv /\ SignalInv

--------------------------------------------------------------------------------
(* Sequences of any elements. *)

LEMMA SequenceOf ==
  ASSUME NEW s, IsSequence(s)
  PROVE  Len(s) \in Nat /\ DOMAIN s = 1 .. Len(s)
BY DEF IsSequence

LEMMA EmptyIsSequence == IsSequence(<<>>) /\ Len(<<>>) = 0
<1>1. <<>> \in Seq({})
  OBVIOUS
<1> QED
  BY <1>1 DEF IsSequence

LEMMA Appended ==
  ASSUME NEW s, NEW x, IsSequence(s)
  PROVE  /\ IsSequence(Append(s, x))
         /\ Len(Append(s, x)) = Len(s) + 1
         /\ \A k \in 1 .. Len(s) : Append(s, x)[k] = s[k]
         /\ Append(s, x)[Len(s) + 1] = x
<1>1. PICK S : s \in Seq(S)
  BY DEF IsSequence
<1> DEFINE T == S \cup {x}
<1>2. s \in Seq(T) /\ x \in T
  <2>1. s \in [1 .. Len(s) -> S] /\ Len(s) \in Nat
    BY <1>1
  <2>2. s \in [1 .. Len(s) -> T]
    BY <2>1
  <2> QED
    BY <2>1, <2>2
<1> HIDE DEF T
<1>3. Append(s, x) \in Seq(T)
  BY <1>2
<1> QED
  BY <1>2, <1>3 DEF IsSequence

LEMMA Shortened ==
  ASSUME NEW s, IsSequence(s), s # <<>>
  PROVE  /\ IsSequence(Tail(s)) /\ Len(s) \in Nat /\ Len(s) > 0
         /\ Head(s) = s[1] /\ Len(Tail(s)) = Len(s) - 1
         /\ \A k \in 1 .. Len(Tail(s)) : Tail(s)[k] = s[k + 1]
<1>1. PICK S : s \in Seq(S)
  BY DEF IsSequence
<1>2. Tail(s) \in Seq(S)
  BY <1>1
<1> QED
  BY <1>1, <1>2 DEF IsSequence

--------------------------------------------------------------------------------
(* Remainders. *)

LEMMA Remainder ==
  ASSUME NEW n \in Nat \ {0}, NEW a \in Nat
  PROVE  a \div n \in Nat /\ a % n \in 0 .. n - 1 /\ a = n * (a \div n) + (a % n)
OBVIOUS

LEMMA RemainderIs ==
  ASSUME NEW n \in Nat \ {0}, NEW a \in Nat, NEW m \in Int, NEW r \in 0 .. n - 1, a = n * m + r
  PROVE  a % n = r
<1> DEFINE w == a \div n
<1>1. w \in Nat /\ a % n \in 0 .. n - 1 /\ a = n * w + (a % n)
  BY Remainder
<1> HIDE DEF w
<1>2. n * (w - m) = r - (a % n)
  <2>1. n * (w - m) = n * w - n * m /\ n * w \in Int /\ n * m \in Int
    BY <1>1
  <2> QED
    BY <1>1, <2>1
<1>3. CASE w > m
  <2>1. n * (w - m) >= n
    <3>1. n * (w - m - 1) >= 0 /\ n * (w - m) = n * (w - m - 1) + n
      BY <1>1, <1>3
    <3> QED
      BY <1>1, <3>1
  <2> QED
    BY <1>1, <1>2, <2>1
<1>4. CASE w < m
  <2>1. n * (m - w) >= n
    <3>1. n * (m - w - 1) >= 0 /\ n * (m - w) = n * (m - w - 1) + n
      BY <1>1, <1>4
    <3> QED
      BY <1>1, <3>1
  <2>2. n * (w - m) = 0 - n * (m - w)
    BY <1>1
  <2> QED
    BY <1>1, <1>2, <2>1, <2>2
<1>5. CASE w = m
  BY <1>1, <1>2, <1>5
<1> QED
  BY <1>1, <1>3, <1>4, <1>5

(* A cursor that advances by one, and one that is some steps ahead.        *)
LEMMA RemainderAhead ==
  ASSUME NEW n \in Nat \ {0}, NEW a \in Nat, NEW d \in Nat
  PROVE  ((a % n) + d) % n = (a + d) % n
<1> DEFINE w == a \div n
           v == ((a % n) + d) \div n
           r == ((a % n) + d) % n
<1>1. w \in Nat /\ a % n \in 0 .. n - 1 /\ a = n * w + (a % n)
  BY Remainder
<1>2. v \in Nat /\ r \in 0 .. n - 1 /\ (a % n) + d = n * v + r
  <2> DEFINE e == (a % n) + d
  <2>1. e \in Nat
    BY <1>1
  <2> HIDE DEF e
  <2>2. e \div n \in Nat /\ e % n \in 0 .. n - 1 /\ e = n * (e \div n) + (e % n)
    BY <2>1, Remainder
  <2> QED
    BY <2>2 DEF e
<1> HIDE DEF w, v, r
<1>3. a + d = n * (w + v) + r
  <2>1. n * (w + v) = n * w + n * v /\ n * w \in Int /\ n * v \in Int
    BY <1>1, <1>2
  <2> QED
    BY <1>1, <1>2, <2>1
<1>4. (a + d) % n = r
  <2> DEFINE e == a + d
             x == w + v
  <2>1. e \in Nat /\ x \in Int /\ e = n * x + r
    BY <1>1, <1>2, <1>3
  <2> HIDE DEF e, x
  <2>2. e % n = r
    BY <1>2, <2>1, RemainderIs
  <2> QED
    BY <2>2 DEF e
<1> QED
  BY <1>4 DEF r

(* Cells less than a turn apart are different.                             *)
LEMMA RemaindersDiffer ==
  ASSUME NEW n \in Nat \ {0}, NEW a \in Nat, NEW b \in Nat, a < b, b < a + n
  PROVE  a % n # b % n
<1> DEFINE w == a \div n
           v == b \div n
<1>1. w \in Nat /\ a % n \in 0 .. n - 1 /\ a = n * w + (a % n)
  BY Remainder
<1>2. v \in Nat /\ b % n \in 0 .. n - 1 /\ b = n * v + (b % n)
  BY Remainder
<1> HIDE DEF w, v
<1>3. SUFFICES ASSUME a % n = b % n
              PROVE  FALSE
  OBVIOUS
<1>4. n * (v - w) = b - a
  <2>1. n * (v - w) = n * v - n * w /\ n * v \in Int /\ n * w \in Int
    BY <1>1, <1>2
  <2> QED
    BY <1>1, <1>2, <1>3, <2>1
<1>5. CASE v <= w
  <2>1. n * (w - v) >= 0 /\ n * (v - w) = 0 - n * (w - v)
    BY <1>1, <1>2, <1>5
  <2> QED
    BY <1>1, <1>2, <1>4, <2>1
<1>6. CASE v > w
  <2>1. n * (v - w - 1) >= 0 /\ n * (v - w) = n * (v - w - 1) + n
    BY <1>1, <1>2, <1>6
  <2> QED
    BY <1>1, <1>2, <1>4, <2>1
<1> QED
  BY <1>1, <1>2, <1>5, <1>6

--------------------------------------------------------------------------------
(* Initially. *)

LEMMA ZeroRemainder == 0 % BUF_SIZE = 0
<1>1. 0 = BUF_SIZE * 0 + 0 /\ 0 \in 0 .. BUF_SIZE - 1
  BY BufferAssumption
<1> QED
  BY <1>1, BufferAssumption, RemainderIs

LEMMA Initially == Init => Inv
<1> SUFFICES ASSUME Init
             PROVE  Inv
  OBVIOUS
<1> USE DEF Init
<1>1. CountersInv
  BY BufferAssumption DEF CountersInv, FifoInit
<1>2. FifoInv
  BY EmptyIsSequence, ZeroRemainder, BufferAssumption DEF FifoInv, FifoInit
<1>3. ProgramInv
  <2>1. PICK p \in Programs : todo = p.calls /\ ClockInit(p.period)
    OBVIOUS
  <2>2. DOMAIN todo = Processes /\ period \in Nat
    BY <2>1, ProgramsAssumption DEF ClockInit
  <2>3. ASSUME NEW q \in Processes
        PROVE  /\ IsSequence(todo[q])
               /\ \A k \in 1 .. Len(todo[q]) : Allowed(todo[q][k])
    <3> DEFINE s == todo[q]
               S == {s[k] : k \in 1 .. Len(s)}
    <3>1. /\ s = [k \in 1 .. Len(s) |-> s[k]] /\ Len(s) \in Nat
          /\ \A k \in 1 .. Len(s) : Allowed(s[k])
      BY <2>1, ProgramsAssumption DEF Allowed
    <3>2. \A k \in 1 .. Len(s) : s[k] \in S
      OBVIOUS
    <3> HIDE DEF s, S
    <3>3. s \in [1 .. Len(s) -> S]
      BY <3>1, <3>2
    <3>4. s \in Seq(S)
      BY <3>1, <3>3
    <3>5. IsSequence(s) /\ \A k \in 1 .. Len(s) : Allowed(s[k])
      BY <3>1, <3>4 DEF IsSequence
    <3> QED
      BY <3>5 DEF s
  <2> QED
    BY <2>2, <2>3 DEF ProgramInv
<1>4. SchedulerInv
  BY SchedulerAssumption DEF SchedulerInv, StartSimulation
<1>5. WaitInv
  BY DEF WaitInv, StartSimulation
<1>6. SignalInv
  BY DEF SignalInv, StartSimulation, SignalInit, event
<1> QED
  BY <1>1, <1>2, <1>3, <1>4, <1>5, <1>6 DEF Inv

--------------------------------------------------------------------------------
(* The FIFO. *)

(* A sample is taken from the ring: it is the next one.                    *)
LEMMA TakeKeepsFifo ==
  ASSUME CountersInv, FifoInv, num_available # 0, TakeSample, got' = Append(got, Taken),
         UNCHANGED <<sent, committed>>
  PROVE  CountersInv' /\ FifoInv'
<1> DEFINE n == Len(got)
<1>1. n \in Nat /\ Len(sent) \in Nat
  BY SequenceOf DEF FifoInv
<1>2. num_read < num_readable /\ n < Len(sent)
  BY <1>1, BufferAssumption DEF CountersInv, FifoInv, num_available
<1>3. CountersInv'
  BY <1>2, BufferAssumption DEF CountersInv, TakeSample, GoOn
<1>4. /\ IsSequence(got') /\ Len(got') = n + 1
      /\ \A k \in 1 .. n : got'[k] = got[k]
      /\ got'[n + 1] = Taken
  BY Appended DEF FifoInv
<1>5. Taken = sent[n + 1]
  <2>1. n + 1 \in 1 .. Len(sent) /\ n + 1 > Len(got) /\ (n + 1) - 1 = n
    BY <1>1, <1>2
  <2> QED
    BY <2>1 DEF FifoInv, Taken
<1>6. ri' = (n + 1) % BUF_SIZE
  BY <1>1, BufferAssumption, RemainderAhead DEF FifoInv, TakeSample
<1>7. \A k \in 1 .. Len(got') : got'[k] = sent[k]
  BY <1>1, <1>4, <1>5 DEF FifoInv
<1>8. UNCHANGED <<buf, sent, wi, num_written, committed>> /\ free' = free + 1
  BY DEF TakeSample
<1>9. Len(sent') - Len(got') = BUF_SIZE - free'
  BY <1>1, <1>4, <1>8, BufferAssumption DEF FifoInv, CountersInv
<1>10. \A k \in 1 .. Len(sent) : k > Len(got') => buf[(k - 1) % BUF_SIZE] = sent[k]
  BY <1>1, <1>4 DEF FifoInv
<1> QED
  BY <1>3, <1>4, <1>6, <1>7, <1>8, <1>9, <1>10 DEF FifoInv

(* A sample is put into a cell that holds none.                            *)
LEMMA PutKeepsFifo ==
  ASSUME CountersInv, FifoInv, NEW x, FifoWrite(x), sent' = Append(sent, x),
         UNCHANGED <<got, committed>>
  PROVE  CountersInv' /\ FifoInv'
<1> DEFINE n == Len(sent)
<1>1. n \in Nat /\ Len(got) \in Nat
  BY SequenceOf DEF FifoInv
<1>2. num_written < BUF_SIZE - num_readable /\ n - Len(got) < BUF_SIZE /\ free > 0
  BY <1>1, BufferAssumption DEF CountersInv, FifoInv, FifoWrite, num_free
<1>3. CountersInv'
  BY <1>2, BufferAssumption DEF CountersInv, FifoWrite, GoOn
<1>4. /\ IsSequence(sent') /\ Len(sent') = n + 1
      /\ \A k \in 1 .. n : sent'[k] = sent[k]
      /\ sent'[n + 1] = x
  BY Appended DEF FifoInv
<1>5. wi = n % BUF_SIZE /\ wi \in 0 .. BUF_SIZE - 1
  BY <1>1, BufferAssumption, Remainder DEF FifoInv
<1>6. wi' = (n + 1) % BUF_SIZE
  BY <1>1, BufferAssumption, RemainderAhead DEF FifoInv, FifoWrite
<1>7. /\ buf' = [buf EXCEPT ![wi] = x] /\ DOMAIN buf = 0 .. BUF_SIZE - 1
      /\ UNCHANGED <<got, ri, num_readable, num_read, committed>>
      /\ free' = free - 1 /\ num_written' = num_written + 1
  BY DEF FifoWrite, FifoInv
<1>8. ASSUME NEW k \in 1 .. Len(sent'), k > Len(got)
      PROVE  buf'[(k - 1) % BUF_SIZE] = sent'[k]
  <2>1. CASE k = n + 1
    BY <1>1, <1>4, <1>5, <1>7, <2>1
  <2>2. CASE k \in 1 .. n
    <3>1. /\ k - 1 \in Nat /\ k - 1 < n /\ n < (k - 1) + BUF_SIZE
          /\ BUF_SIZE \in Nat \ {0}
      BY <1>1, <1>2, <1>8, <2>2, BufferAssumption
    <3>2. (k - 1) % BUF_SIZE # wi /\ (k - 1) % BUF_SIZE \in 0 .. BUF_SIZE - 1
      BY <1>1, <1>5, <3>1, RemaindersDiffer, Remainder
    <3>3. buf[(k - 1) % BUF_SIZE] = sent[k]
      BY <1>8, <2>2 DEF FifoInv
    <3> QED
      BY <1>4, <1>7, <2>2, <3>2, <3>3
  <2> QED
    BY <1>1, <1>4, <2>1, <2>2
<1>9. \A k \in 1 .. Len(got) : got[k] = sent'[k]
  <2>1. Len(got) <= n
    BY <1>1, BufferAssumption DEF FifoInv, CountersInv
  <2> QED
    BY <1>1, <1>4, <2>1 DEF FifoInv
<1>10. /\ Len(sent') - Len(got') = BUF_SIZE - free'
       /\ committed' = Len(sent') - num_written'
  <2>1. /\ n - Len(got) = BUF_SIZE - free /\ committed = n - num_written
        /\ free \in Int /\ num_written \in Int
    BY BufferAssumption DEF FifoInv, CountersInv
  <2>2. Len(got') = Len(got) /\ committed' = committed
    BY <1>7
  <2> QED
    BY <1>1, <1>4, <1>7, <2>1, <2>2, BufferAssumption
<1> QED
  BY <1>3, <1>4, <1>6, <1>7, <1>8, <1>9, <1>10 DEF FifoInv

(* The update, or none where nothing was read or written in the cycle.     *)
LEMMA CycleKeepsFifo ==
  ASSUME CountersInv, FifoInv, DeltaCycle
  PROVE  CountersInv' /\ FifoInv'
<1>1. /\ IF "fifo" \in requested THEN FifoUpdate ELSE UNCHANGED fifoVars
      /\ committed' = Len(sent) /\ UNCHANGED <<sent, got>>
  BY DEF DeltaCycle
<1>2. Len(sent) \in Nat /\ Len(got) \in Nat
  BY SequenceOf DEF FifoInv
<1>3. CASE "fifo" \in requested
  BY <1>1, <1>2, <1>3, BufferAssumption DEF FifoUpdate, CountersInv, FifoInv
<1>4. CASE "fifo" \notin requested
  BY <1>1, <1>2, <1>4, BufferAssumption DEF fifoVars, CountersInv, FifoInv
<1> QED
  BY <1>3, <1>4

(* Whatever else happens leaves the FIFO alone.                            *)
LEMMA OthersKeepFifo ==
  ASSUME CountersInv, FifoInv, UNCHANGED <<fifoVars, sent, got, committed>>,
         requested \subseteq requested'
  PROVE  CountersInv' /\ FifoInv'
BY DEF CountersInv, FifoInv, fifoVars

--------------------------------------------------------------------------------
(* The steps of the simulator, and what each leaves of SchedulerInv. *)

LEMMA WaitKeeps ==
  ASSUME SchedulerInv, running \in Processes, NEW e, e # "time", Wait(e)
  PROVE  SchedulerInv'
BY SchedulerAssumption DEF SchedulerInv, Wait

LEMMA GoOnKeeps ==
  ASSUME SchedulerInv, UNCHANGED <<running, runnable, waits, timer, now>>
  PROVE  SchedulerInv'
BY DEF SchedulerInv

LEMMA NotifyKeeps ==
  ASSUME SchedulerInv, running \in Processes, waits[running] = "nothing", NEW e, e # "nothing", NotifyNow(e)
  PROVE  SchedulerInv'
BY DEF SchedulerInv, NotifyNow, WaitingFor

LEMMA OccurKeeps ==
  ASSUME SchedulerInv, EvaluationOver, NEW es, Occur(es)
  PROVE  SchedulerInv'
BY SchedulerAssumption DEF SchedulerInv, Occur, EvaluationOver

LEMMA ClockWaitKeeps ==
  ASSUME SchedulerInv, ProgramInv, running \in Processes, ClockWait, UNCHANGED <<runnable, now>>
  PROVE  SchedulerInv'
<1>1. tmp \in Nat /\ (tmp # 0 => now + tmp > now)
  BY DEF SchedulerInv, ProgramInv, tmp
<1> QED
  BY <1>1, SchedulerAssumption DEF SchedulerInv, ClockWait

LEMMA TimeKeeps ==
  ASSUME SchedulerInv, AdvanceTime
  PROVE  SchedulerInv'
<1> DEFINE ps == WaitingFor("time")
<1>1. now' \in {timer[p] : p \in ps} /\ \A p \in ps : now' <= timer[p]
  BY DEF AdvanceTime
<1>2. /\ runnable' = {p \in ps : timer[p] = now'}
      /\ waits' = [p \in Processes |-> IF p \in runnable' THEN "nothing" ELSE waits[p]]
      /\ UNCHANGED <<running, timer>> /\ running = NoProcess
  BY DEF AdvanceTime, EvaluationOver
<1>3. ps = {p \in Processes : waits[p] = "time"}
  BY DEF WaitingFor
<1> HIDE DEF ps
<1>4. now' \in Nat
  BY <1>1, <1>3 DEF SchedulerInv
<1>5. ASSUME NEW p \in Processes
      PROVE  /\ waits'[p] # "nothing" => p \notin runnable' \cup {running'}
             /\ waits'[p] = "time" => timer'[p] > now'
  <2>1. waits'[p] = "time" => p \in ps /\ timer[p] # now' /\ timer[p] \in Nat /\ now' <= timer[p]
    BY <1>1, <1>2, <1>3 DEF SchedulerInv
  <2> QED
    BY <1>2, <1>4, <2>1, SchedulerAssumption
<1> QED
  BY <1>2, <1>3, <1>4, <1>5, SchedulerAssumption DEF SchedulerInv

--------------------------------------------------------------------------------
(* What the steps that do not concern a part leave of it. *)

LEMMA AtRuns ==
  ASSUME SchedulerInv, running # NoProcess
  PROVE  running \in Processes /\ waits[running] = "nothing"
BY DEF SchedulerInv

LEMMA ProgramsAdvance ==
  ASSUME ProgramInv, running \in Processes, UNCHANGED period, todo[running] # <<>>,
         \/ todo' = [todo EXCEPT ![running] = Tail(@)]
         \/ todo' = [todo EXCEPT ![running] = <<>>]
         \/ UNCHANGED todo
  PROVE  ProgramInv'
<1>1. ASSUME NEW p \in Processes
      PROVE  IsSequence(todo'[p]) /\ \A k \in 1 .. Len(todo'[p]) : Allowed(todo'[p][k])
  <2>1. CASE todo'[p] = todo[p]
    BY <2>1 DEF ProgramInv
  <2>2. CASE p = running /\ todo'[p] = Tail(todo[p])
    <3>1. /\ IsSequence(Tail(todo[p])) /\ Len(todo[p]) \in Nat
          /\ Len(Tail(todo[p])) = Len(todo[p]) - 1
          /\ \A k \in 1 .. Len(Tail(todo[p])) : Tail(todo[p])[k] = todo[p][k + 1]
      BY <2>2, Shortened DEF ProgramInv
    <3> QED
      BY <2>2, <3>1 DEF ProgramInv
  <2>3. CASE todo'[p] = <<>>
    BY <2>3, EmptyIsSequence
  <2> QED
    BY <2>1, <2>2, <2>3 DEF ProgramInv
<1> QED
  BY <1>1 DEF ProgramInv

LEMMA ProgramsKept ==
  ASSUME ProgramInv, UNCHANGED <<todo, period>>
  PROVE  ProgramInv'
BY DEF ProgramInv

LEMMA WaitsKept ==
  ASSUME WaitInv, UNCHANGED <<num_readable, num_read, num_written, _locked>>,
         \A p \in Processes :
           waits'[p] \in {"data_written", "data_read", "_free"} => waits'[p] = waits[p]
  PROVE  WaitInv'
BY DEF WaitInv

LEMMA SignalKept ==
  ASSUME SignalInv, UNCHANGED <<val, before, delta, delta_count>>
  PROVE  SignalInv'
BY DEF SignalInv, event

(* The next call of a process that runs is allowed.                        *)
LEMMA AwaitAllowed ==
  ASSUME ProgramInv, SchedulerInv, At("await")
  PROVE  Arg \notin Private
<1>1. running \in Processes
  BY AtRuns DEF At
<1>2. Len(todo[running]) \in Nat /\ Len(todo[running]) > 0 /\ Head(todo[running]) = todo[running][1]
  BY <1>1, Shortened DEF At, ProgramInv
<1>3. 1 \in 1 .. Len(todo[running])
  BY <1>2
<1> QED
  BY <1>1, <1>2, <1>3 DEF At, Arg, ProgramInv, Allowed

--------------------------------------------------------------------------------
(* Every step keeps the invariant. *)

LEMMA TakeKeeps ==
  ASSUME Inv, running # NoProcess, num_available # 0, TakeSample, got' = Append(got, Taken), OnlyFifo,
         UNCHANGED sent, todo' = [todo EXCEPT ![running] = Tail(@)], todo[running] # <<>>
  PROVE  Inv'
<1> USE DEF Inv
<1>1. running \in Processes
  BY AtRuns
<1>2. CountersInv' /\ FifoInv'
  BY TakeKeepsFifo DEF OnlyFifo
<1>3. ProgramInv'
  BY <1>1, ProgramsAdvance DEF OnlyFifo, clockVars
<1>4. SchedulerInv'
  BY GoOnKeeps DEF TakeSample, GoOn
<1>5. WaitInv'
  BY DEF WaitInv, TakeSample, GoOn, OnlyFifo, num_available
<1>6. SignalInv'
  BY SignalKept DEF OnlyFifo, signalVars, TakeSample, GoOn
<1> QED
  BY <1>2, <1>3, <1>4, <1>5, <1>6

LEMMA PutKeeps ==
  ASSUME Inv, running # NoProcess, NEW x, FifoWrite(x), sent' = Append(sent, x), OnlyFifo,
         UNCHANGED got, todo' = [todo EXCEPT ![running] = Tail(@)], todo[running] # <<>>
  PROVE  Inv'
<1> USE DEF Inv
<1>1. running \in Processes
  BY AtRuns
<1>2. CountersInv' /\ FifoInv'
  BY PutKeepsFifo DEF OnlyFifo
<1>3. ProgramInv'
  BY <1>1, ProgramsAdvance DEF OnlyFifo, clockVars
<1>4. SchedulerInv'
  BY GoOnKeeps DEF FifoWrite, GoOn
<1>5. WaitInv'
  BY DEF WaitInv, FifoWrite, GoOn, OnlyFifo, num_free
<1>6. SignalInv'
  BY SignalKept DEF OnlyFifo, signalVars, FifoWrite, GoOn
<1> QED
  BY <1>2, <1>3, <1>4, <1>5, <1>6

(* A process that has to wait does so for what is not there.               *)
LEMMA WaitingKeeps ==
  ASSUME Inv, running # NoProcess, NEW e, Wait(e), UNCHANGED channelVars,
         UNCHANGED <<sent, got, committed, before>>, todo[running] # <<>>,
         UNCHANGED todo \/ todo' = [todo EXCEPT ![running] = Tail(@)],
         e # "time",
         e = "data_written" => num_available = 0,
         e = "data_read" => num_free = 0,
         e = "_free" => _locked
  PROVE  Inv'
<1> USE DEF Inv
<1>1. running \in Processes
  BY AtRuns
<1>2. CountersInv' /\ FifoInv'
  BY OthersKeepFifo DEF Wait, channelVars
<1>3. ProgramInv'
  BY <1>1, ProgramsAdvance DEF channelVars, clockVars
<1>4. SchedulerInv'
  BY <1>1, WaitKeeps
<1>5. WaitInv'
  BY <1>1 DEF WaitInv, SchedulerInv, Wait, channelVars, fifoVars, num_available, num_free
<1>6. SignalInv'
  BY SignalKept DEF channelVars, signalVars, Wait
<1> QED
  BY <1>2, <1>3, <1>4, <1>5, <1>6

(* A call that concerns neither the FIFO nor anybody who waits; only lock  *)
(* changes the mutex, and locks it.                                        *)
LEMMA GoingOnKeeps ==
  ASSUME Inv, running # NoProcess, todo[running] # <<>>,
         UNCHANGED <<running, runnable, waits, timer, now, delta_count>>,
         requested \subseteq requested',
         UNCHANGED <<fifoVars, sent, got, committed, val, delta, before, period>>,
         _locked => _locked',
         \/ todo' = [todo EXCEPT ![running] = Tail(@)]
         \/ todo' = [todo EXCEPT ![running] = <<>>]
  PROVE  Inv'
<1> USE DEF Inv
<1>1. running \in Processes
  BY AtRuns
<1>2. CountersInv' /\ FifoInv'
  BY OthersKeepFifo
<1>3. ProgramInv'
  BY <1>1, ProgramsAdvance
<1>4. SchedulerInv'
  BY GoOnKeeps
<1>5. WaitInv'
  BY DEF WaitInv, fifoVars
<1>6. SignalInv'
  BY SignalKept
<1> QED
  BY <1>2, <1>3, <1>4, <1>5, <1>6

LEMMA UnlockKeeps ==
  ASSUME Inv, Unlock
  PROVE  Inv'
<1> USE DEF Inv
<1>1. running \in Processes /\ waits[running] = "nothing"
  BY AtRuns DEF Unlock, At
<1>2. CountersInv' /\ FifoInv'
  BY OthersKeepFifo DEF Unlock, OnlyMutex, MutexUnlock, NotifyNow
<1>3. ProgramInv'
  BY <1>1, ProgramsAdvance DEF Unlock, At, Done, OnlyMutex, clockVars
<1>4. SchedulerInv'
  BY <1>1, NotifyKeeps DEF Unlock, MutexUnlock
<1>5. WaitInv'
  BY DEF WaitInv, Unlock, MutexUnlock, NotifyNow, OnlyMutex, fifoVars
<1>6. SignalInv'
  BY SignalKept DEF Unlock, OnlyMutex, signalVars, MutexUnlock, NotifyNow
<1> QED
  BY <1>2, <1>3, <1>4, <1>5, <1>6

LEMMA ClockThreadKeeps ==
  ASSUME Inv, StartClock \/ Tick
  PROVE  Inv'
<1> USE DEF Inv
<1>1. /\ running \in Processes /\ todo[running] # <<>>
      /\ ClockWait /\ Done
      /\ UNCHANGED <<runnable, requested, delta_count, now, period>>
      /\ UNCHANGED <<fifoVars, _locked, signalVars, historyVars>>
  BY AtRuns DEF StartClock, Tick, At, ClockStart, ClockTick, clockVars
<1>2. CountersInv' /\ FifoInv'
  BY <1>1, OthersKeepFifo DEF historyVars
<1>3. ProgramInv'
  BY <1>1, ProgramsAdvance DEF Done
<1>4. SchedulerInv'
  BY <1>1, ClockWaitKeeps
<1>5. WaitInv'
  BY <1>1 DEF WaitInv, SchedulerInv, ClockWait, fifoVars
<1>6. SignalInv'
  BY <1>1, SignalKept DEF signalVars, historyVars
<1> QED
  BY <1>2, <1>3, <1>4, <1>5, <1>6

(* A step of the simulator between two processes.                          *)
LEMMA SimulatorKeeps ==
  ASSUME Inv, UNCHANGED <<channelVars, todo, historyVars>>,
         Schedule \/ AdvanceTime \/ Return
  PROVE  Inv'
<1> USE DEF Inv
<1>1. UNCHANGED <<requested, delta_count>>
  BY DEF Schedule, AdvanceTime, Return
<1>2. CountersInv' /\ FifoInv'
  BY <1>1, OthersKeepFifo DEF channelVars, historyVars
<1>3. ProgramInv'
  BY ProgramsKept DEF channelVars, clockVars
<1>4. SchedulerInv'
  <2>1. CASE Schedule
    BY <2>1, SchedulerAssumption DEF SchedulerInv, Schedule
  <2>2. CASE AdvanceTime
    BY <2>2, TimeKeeps
  <2>3. CASE Return
    BY <2>3, SchedulerAssumption DEF SchedulerInv, Return
  <2> QED
    BY <2>1, <2>2, <2>3
<1>5. WaitInv'
  BY WaitsKept DEF Schedule, AdvanceTime, Return, channelVars, fifoVars
<1>6. SignalInv'
  BY <1>1, SignalKept DEF channelVars, signalVars, historyVars
<1> QED
  BY <1>2, <1>3, <1>4, <1>5, <1>6

(* A delta cycle ends.                                                     *)
LEMMA CycleKeeps ==
  ASSUME Inv, DeltaCycle
  PROVE  Inv'
<1> USE DEF Inv
<1> DEFINE es == (IF "fifo" \in requested THEN FifoNotifies ELSE {})
                 \cup (IF "signal" \in requested THEN SignalNotifies ELSE {})
                 \cup (IF "clock" \in requested THEN ClockNotifies ELSE {})
<1>1. Occur(es) /\ EvaluationOver
  BY DEF DeltaCycle
<1>2. CountersInv' /\ FifoInv'
  BY CycleKeepsFifo
<1>3. ProgramInv'
  <2>1. UNCHANGED <<todo, period>>
    BY DEF DeltaCycle, ClockUpdate, clockVars
  <2> QED
    BY <2>1, ProgramsKept
<1>4. SchedulerInv'
  <2> HIDE DEF es
  <2> QED
    BY <1>1, OccurKeeps
<1>5. WaitInv'
  <2>1. UNCHANGED _locked
    BY DEF DeltaCycle
  <2>2. \A p \in Processes :
          /\ waits'[p] # "nothing" => waits'[p] = waits[p]
          /\ waits[p] \in es => waits'[p] = "nothing"
    <3> HIDE DEF es
    <3> QED
      BY <1>1 DEF Occur, SchedulerInv
  <2>3. CASE "fifo" \in requested
    <3>1. /\ num_read > 0 => "data_read" \in es
          /\ num_written > 0 => "data_written" \in es
      BY <2>3 DEF FifoNotifies
    <3>2. num_readable' = BUF_SIZE - free /\ num_read' = 0 /\ num_written' = 0
      BY <2>3 DEF DeltaCycle, FifoUpdate
    <3> HIDE DEF es
    <3> QED
      BY <2>1, <2>2, <3>1, <3>2, BufferAssumption DEF WaitInv, CountersInv
  <2>4. CASE "fifo" \notin requested
    <3>1. UNCHANGED <<num_readable, num_read, num_written>>
      BY <2>4 DEF DeltaCycle, fifoVars
    <3> HIDE DEF es
    <3> QED
      BY <2>1, <2>2, <3>1 DEF WaitInv
  <2> QED
    BY <2>3, <2>4
<1>6. SignalInv'
  <2>1. /\ delta_count' = delta_count + 1 /\ before' = val
        /\ IF "signal" \in requested THEN SignalUpdate ELSE UNCHANGED signalVars
    BY <1>1 DEF DeltaCycle, Occur
  <2> QED
    BY <2>1 DEF SignalInv, SignalUpdate, signalVars, event
<1> QED
  BY <1>2, <1>3, <1>4, <1>5, <1>6

LEMMA StepKeeps == Inv /\ [Next]_vars => Inv'
<1> SUFFICES ASSUME Inv, [Next]_vars
             PROVE  Inv'
  OBVIOUS
<1>1. CASE Schedule /\ UNCHANGED <<channelVars, todo, historyVars>>
  BY <1>1, SimulatorKeeps
<1>2. CASE Write
  <2>1. CASE FifoWrite(Arg) /\ Done /\ sent' = Append(sent, Arg)
    BY <1>2, <2>1, PutKeeps DEF Write, At, Done
  <2>2. CASE FifoWriteWaits /\ Again /\ UNCHANGED sent
    BY <1>2, <2>2, WaitingKeeps DEF Write, At, Again, FifoWriteWaits, OnlyFifo, channelVars
  <2> QED
    BY <1>2, <2>1, <2>2 DEF Write
<1>3. CASE Read
  <2>1. CASE FifoRead /\ Done /\ got' = Append(got, Taken)
    BY <1>3, <2>1, TakeKeeps DEF Read, At, Done, FifoRead
  <2>2. CASE FifoReadWaits /\ Again /\ UNCHANGED got
    BY <1>3, <2>2, WaitingKeeps DEF Read, At, Again, FifoReadWaits, OnlyFifo, channelVars
  <2> QED
    BY <1>3, <2>1, <2>2 DEF Read
<1>4. CASE NbRead
  <2>1. CASE FifoNbRead /\ Done /\ got' = Append(got, Taken)
    BY <1>4, <2>1, TakeKeeps DEF NbRead, At, Done, FifoNbRead
  <2>2. CASE FifoNbReadFails /\ Wait("delta") /\ Again /\ UNCHANGED got
    BY <1>4, <2>2, WaitingKeeps DEF NbRead, At, Again, FifoNbReadFails, OnlyFifo, channelVars
  <2> QED
    BY <1>4, <2>1, <2>2 DEF NbRead
<1>5. CASE Lock
  <2>1. CASE MutexLock /\ Done
    BY <1>5, <2>1, GoingOnKeeps
       DEF Lock, At, Done, MutexLock, GoOn, OnlyMutex, signalVars, clockVars
  <2>2. CASE MutexLockWaits /\ Again
    BY <1>5, <2>2, WaitingKeeps DEF Lock, At, Again, MutexLockWaits, OnlyMutex, channelVars
  <2> QED
    BY <1>5, <2>1, <2>2 DEF Lock
<1>6. CASE Trylock
  BY <1>6, GoingOnKeeps DEF Trylock, At, GoOn, OnlyMutex, signalVars, clockVars
<1>7. CASE Unlock
  BY <1>7, UnlockKeeps
<1>8. CASE SetSignal
  BY <1>8, GoingOnKeeps DEF SetSignal, At, Done, SignalWrite, GoOn, clockVars, historyVars
<1>9. CASE SetClock
  BY <1>9, GoingOnKeeps DEF SetClock, At, Done, ClockWrite, GoOn, signalVars, historyVars
<1>10. CASE StartClock \/ Tick
  BY <1>10, ClockThreadKeeps
<1>11. CASE Await
  <2>1. Arg \notin Private
    BY <1>11, AwaitAllowed DEF Inv, Await
  <2> QED
    BY <1>11, <2>1, WaitingKeeps DEF Await, At, Done, historyVars, Private
<1>12. CASE LookAtClock
  BY <1>12, GoingOnKeeps
     DEF LookAtClock, At, Done, GoOn, channelVars, signalVars, clockVars
<1>13. CASE Return
  BY <1>13, SimulatorKeeps DEF Return
<1>14. CASE DeltaCycle
  BY <1>14, CycleKeeps
<1>15. CASE Time
  BY <1>15, SimulatorKeeps DEF Time
<1>16. CASE UNCHANGED vars
  <2>1. UNCHANGED <<schedulerVars, channelVars, todo, historyVars>>
    BY <1>16 DEF vars
  <2> QED
    BY <2>1 DEF Inv, CountersInv, FifoInv, ProgramInv, SchedulerInv, WaitInv, SignalInv, event,
                schedulerVars, channelVars, fifoVars, signalVars, clockVars, historyVars
<1> QED
  BY <1>1, <1>2, <1>3, <1>4, <1>5, <1>6, <1>7, <1>8, <1>9, <1>10, <1>11, <1>12, <1>13, <1>14,
     <1>15, <1>16 DEF Next

(* The strengthening of the properties below is an invariant, whatever the *)
(* processes do and in whatever order they run.                            *)
THEOREM ChannelInvariant == Spec => []Inv
<1> QED
  BY Initially, StepKeeps, PTL DEF Spec

(* Samples are read once and in the order they were written, none in the   *)
(* delta cycle it was written in, and the ring never holds more than fit.  *)
THEOREM SamplesInOrder == Spec => []FifoInOrder
<1>1. Inv => FifoInOrder
  <2> SUFFICES ASSUME Inv
               PROVE  FifoInOrder
    OBVIOUS
  <2> USE DEF Inv
  <2>1. Len(sent) \in Nat /\ Len(got) \in Nat
    BY SequenceOf DEF FifoInv
  <2>2. Len(got) <= committed /\ Len(sent) - Len(got) = BUF_SIZE - free /\ Len(got) <= Len(sent)
    BY <2>1, BufferAssumption DEF FifoInv, CountersInv
  <2>3. SubSeq(got, 1, Len(got)) = SubSeq(sent, 1, Len(got))
    BY <2>1, <2>2 DEF FifoInv
  <2> QED
    BY <2>1, <2>2, <2>3 DEF FifoInOrder, IsPrefix
<1> QED
  BY <1>1, ChannelInvariant, PTL

(* The counters of the FIFO agree, and the simulator has each process in   *)
(* one place.                                                              *)
THEOREM ChannelsTyped == Spec => []TypeOK
<1>1. Inv => TypeOK
  <2> SUFFICES ASSUME Inv
               PROVE  TypeOK
    OBVIOUS
  <2> USE DEF Inv
  <2> DEFINE g == Len(got)
             d == BUF_SIZE - free
  <2>1. g \in Nat /\ Len(sent) \in Nat /\ d \in Nat /\ Len(sent) = g + d
    BY SequenceOf, BufferAssumption DEF FifoInv, CountersInv
  <2>2. ri = g % BUF_SIZE /\ wi = Len(sent) % BUF_SIZE
    BY DEF FifoInv
  <2>3. ri + BUF_SIZE - free = (g % BUF_SIZE) + d /\ ri \in 0 .. BUF_SIZE - 1 /\ wi \in 0 .. BUF_SIZE - 1
    BY <2>1, <2>2, BufferAssumption, Remainder DEF CountersInv
  <2> HIDE DEF g, d
  <2>4. ((g % BUF_SIZE) + d) % BUF_SIZE = (g + d) % BUF_SIZE
    BY <2>1, BufferAssumption, RemainderAhead
  <2>5. FifoTypeOK
    <3>1. (ri + BUF_SIZE - free) % BUF_SIZE = wi
      BY <2>1, <2>2, <2>3, <2>4
    <3>2. free \in 0 .. BUF_SIZE
      BY BufferAssumption DEF CountersInv
    <3> QED
      BY <2>3, <3>1, <3>2 DEF FifoTypeOK, CountersInv
  <2> QED
    BY <2>5 DEF TypeOK, SchedulerInv, WaitingFor
<1> QED
  BY <1>1, ChannelInvariant, PTL

(* Nobody waits for a sample, for room or for the mutex while there is     *)
(* one: the part of NobodyForgotten that does not depend on who unlocks.   *)
THEOREM NobodyWaitsInVain == Spec => []WaitsAreJustified
<1>1. Inv => WaitsAreJustified
  BY DEF Inv, WaitInv, WaitsAreJustified, WaitingFor, num_available, num_free
<1> QED
  BY <1>1, ChannelInvariant, PTL

--------------------------------------------------------------------------------
(* The mutex. *)

(* One process holds the mutex, or none; and a process that will unlock has *)
(* the mutex or will lock it before.                                       *)
MayUnlock(p, k) ==
  LockedBefore(todo[p], k) \/ (p \in holders /\ \A i \in 1 .. k - 1 : todo[p][i].op # "unlock")
MutexInv ==
  /\ holders = {} \/ \E p \in Processes : holders = {p} /\ _locked
  /\ \A p \in Processes : \A k \in 1 .. Len(todo[p]) :
       todo[p][k].op = "unlock" => MayUnlock(p, k)

(* The call that is made next goes; who unlocks has the mutex.             *)
LEMMA CallGoes ==
  ASSUME ProgramInv, running \in Processes, todo[running] # <<>>, MutexInv,
         todo' = [todo EXCEPT ![running] = Tail(@)],
         Head(todo[running]).op = "lock" => running \in holders',
         Head(todo[running]).op \notin {"lock", "unlock"} => holders' = holders,
         \A p \in Processes \ {running} : p \in holders => p \in holders'
  PROVE  /\ Head(todo[running]).op = "unlock" => running \in holders
         /\ \A p \in Processes : \A k \in 1 .. Len(todo'[p]) :
              todo'[p][k].op = "unlock" => MayUnlock(p, k)'
<1> DEFINE s == todo[running]
           t == Tail(s)
<1>1. /\ Len(s) \in Nat \ {0} /\ Head(s) = s[1] /\ Len(t) = Len(s) - 1
      /\ \A k \in 1 .. Len(t) : t[k] = s[k + 1]
  BY Shortened DEF ProgramInv
<1>2. todo'[running] = t /\ \A p \in Processes \ {running} : todo'[p] = todo[p]
  BY DEF ProgramInv
<1>3. \A k \in 1 .. Len(s) : s[k].op = "unlock" => MayUnlock(running, k)
  BY DEF MutexInv
<1>4. MayUnlock(running, 1) => running \in holders
  BY DEF MayUnlock, LockedBefore
<1>5. Head(s).op = "unlock" => running \in holders
  BY <1>1, <1>3, <1>4
<1>6. ASSUME NEW p \in Processes, p = running, NEW k \in 1 .. Len(t), t[k].op = "unlock"
      PROVE  MayUnlock(p, k)'
  <2>1. k + 1 \in 1 .. Len(s) /\ s[k + 1].op = "unlock"
    BY <1>1, <1>6
  <2>2. CASE LockedBefore(s, k + 1)
    <3>1. PICK j \in 1 .. k : s[j].op = "lock" /\ \A i \in j + 1 .. k : s[i].op # "unlock"
      BY <2>1, <2>2 DEF LockedBefore
    <3>2. CASE j = 1
      <4>1. running \in holders'
        BY <3>1, <3>2, <1>1
      <4>2. \A i \in 1 .. k - 1 : t[i].op # "unlock"
        BY <3>1, <3>2, <1>1
      <4> QED
        BY <4>1, <4>2, <1>2, <1>6 DEF MayUnlock
    <3>3. CASE j # 1
      <4>1. j - 1 \in 1 .. k - 1 /\ t[j - 1].op = "lock"
        BY <3>1, <3>3, <1>1
      <4>2. \A i \in (j - 1) + 1 .. k - 1 : t[i].op # "unlock"
        BY <3>1, <3>3, <1>1
      <4>3. LockedBefore(t, k)
        BY <4>1, <4>2 DEF LockedBefore
      <4> QED
        BY <4>3, <1>2, <1>6 DEF MayUnlock
    <3> QED
      BY <3>2, <3>3
  <2>3. CASE running \in holders /\ \A i \in 1 .. k : s[i].op # "unlock"
    <3>1. Head(s).op # "unlock"
      BY <2>3, <1>1
    <3>2. running \in holders'
      BY <2>3, <3>1
    <3>3. \A i \in 1 .. k - 1 : t[i].op # "unlock"
      BY <2>3, <1>1
    <3> QED
      BY <3>2, <3>3, <1>2, <1>6 DEF MayUnlock
  <2>4. LockedBefore(s, k + 1) \/ (running \in holders /\ \A i \in 1 .. k : s[i].op # "unlock")
    BY <2>1, <1>3 DEF MayUnlock
  <2> QED
    BY <2>2, <2>3, <2>4
<1>7. ASSUME NEW p \in Processes \ {running}, NEW k \in 1 .. Len(todo[p]), todo[p][k].op = "unlock"
      PROVE  MayUnlock(p, k)'
  BY <1>2, <1>7 DEF MutexInv, MayUnlock
<1> QED
  BY <1>2, <1>5, <1>6, <1>7

LEMMA MutexKept ==
  ASSUME MutexInv, UNCHANGED <<todo, holders>>, UNCHANGED _locked
  PROVE  MutexInv'
BY DEF MutexInv, MayUnlock

LEMMA MutexInitially == Init => MutexInv
<1> SUFFICES ASSUME Init
             PROVE  MutexInv
  OBVIOUS
<1>1. PICK p \in Programs : todo = p.calls
  BY DEF Init
<1> QED
  BY <1>1, UnlockAssumption DEF Init, MutexInv, MayUnlock

LEMMA MutexStep ==
  ASSUME Inv, MutexInv, [Next]_vars
  PROVE  MutexInv'
<1> USE DEF Inv
<1>1. CASE Lock
  <2>1. CASE MutexLock /\ Done /\ holders' = holders \cup {running}
    <3>1. running \in Processes /\ todo[running] # <<>> /\ Head(todo[running]).op = "lock"
      BY <1>1, AtRuns DEF Lock, At
    <3>2. holders = {}
      BY <2>1 DEF MutexInv, MutexLock
    <3>3. holders' = {running} /\ _locked'
      BY <2>1, <3>2 DEF MutexLock
    <3> QED
      BY <2>1, <3>1, <3>2, <3>3, CallGoes DEF Done, MutexInv
  <2>2. CASE MutexLockWaits /\ Again /\ UNCHANGED holders
    BY <2>2, MutexKept DEF Again, MutexLockWaits
  <2> QED
    BY <1>1, <2>1, <2>2 DEF Lock
<1>2. CASE Unlock
  <2>1. /\ running \in Processes /\ todo[running] # <<>> /\ Head(todo[running]).op = "unlock"
        /\ Done /\ holders' = holders \ {running}
    BY <1>2, AtRuns DEF Unlock, At
  <2>2. running \in holders /\ \A p \in Processes : \A k \in 1 .. Len(todo'[p]) :
                                 todo'[p][k].op = "unlock" => MayUnlock(p, k)'
    BY <2>1, CallGoes DEF Done
  <2>3. holders' = {}
    BY <2>1, <2>2 DEF MutexInv
  <2> QED
    BY <2>2, <2>3 DEF MutexInv
<1>3. CASE Trylock
  <2>1. running \in Processes /\ todo[running] # <<>> /\ Head(todo[running]).op = "trylock"
        /\ UNCHANGED <<_locked, holders>>
    BY <1>3, AtRuns DEF Trylock, At
  <2>2. CASE todo' = [todo EXCEPT ![running] = Tail(@)]
    BY <2>1, <2>2, CallGoes DEF MutexInv
  <2>3. CASE todo' = [todo EXCEPT ![running] = <<>>]
    <3>1. \A p \in Processes : todo'[p] = todo[p] \/ Len(todo'[p]) = 0
      BY <2>3 DEF ProgramInv
    <3>2. ASSUME NEW p \in Processes, NEW k \in 1 .. Len(todo'[p]), todo'[p][k].op = "unlock"
          PROVE  MayUnlock(p, k)'
      BY <2>1, <3>1, <3>2 DEF MutexInv, MayUnlock
    <3> QED
      BY <2>1, <3>2 DEF MutexInv
  <2> QED
    BY <1>3, <2>2, <2>3 DEF Trylock
<1>4. ASSUME running # NoProcess, todo[running] # <<>>, UNCHANGED <<holders, _locked>>,
             Head(todo[running]).op \notin {"lock", "unlock"}, Done \/ Again
      PROVE  MutexInv'
  <2>1. running \in Processes
    BY <1>4, AtRuns
  <2>2. CASE Done
    BY <1>4, <2>1, <2>2, CallGoes DEF Done, MutexInv
  <2>3. CASE Again
    BY <1>4, <2>3, MutexKept DEF Again
  <2> QED
    BY <1>4, <2>2, <2>3
<1>5. CASE Write \/ Read \/ NbRead
  BY <1>4, <1>5 DEF Write, Read, NbRead, At, OnlyFifo
<1>6. CASE SetSignal \/ SetClock \/ StartClock \/ Tick
  BY <1>4, <1>6 DEF SetSignal, SetClock, StartClock, Tick, At, historyVars
<1>7. CASE Await \/ LookAtClock
  BY <1>4, <1>7 DEF Await, LookAtClock, At, channelVars, historyVars
<1>8. CASE DeltaCycle
  BY <1>8, MutexKept DEF DeltaCycle
<1>9. CASE Return \/ Time \/ (Schedule /\ UNCHANGED <<channelVars, todo, historyVars>>)
  BY <1>9, MutexKept DEF Return, Time, channelVars, historyVars
<1>10. CASE UNCHANGED vars
  BY <1>10, MutexKept DEF vars, channelVars, historyVars
<1> QED
  BY <1>1, <1>2, <1>3, <1>5, <1>6, <1>7, <1>8, <1>9, <1>10 DEF Next

(* No notification is missed, and of processes that unlock only what they  *)
(* have locked one at most holds the mutex, which is then locked.          *)
THEOREM NobodyIsForgotten == Spec => []NobodyForgotten
<1>1. Spec => []MutexInv
  BY MutexInitially, MutexStep, ChannelInvariant, PTL DEF Spec
<1>2. MutexInv => Cardinality(holders) <= 1 /\ (holders # {} => _locked)
  <2> SUFFICES ASSUME MutexInv
               PROVE  Cardinality(holders) <= 1 /\ (holders # {} => _locked)
    OBVIOUS
  <2>1. CASE holders = {}
    BY <2>1, FS_EmptySet
  <2>2. ASSUME NEW p \in Processes, holders = {p}, _locked
        PROVE  Cardinality(holders) <= 1 /\ (holders # {} => _locked)
    <3>1. Cardinality({p}) = 1
      BY FS_Singleton
    <3> QED
      BY <2>2, <3>1
  <2> QED
    BY <2>1, <2>2 DEF MutexInv
<1>3. MutexInv /\ WaitsAreJustified => NobodyForgotten
  BY <1>2 DEF NobodyForgotten
<1> QED
  BY <1>1, <1>3, NobodyWaitsInVain, PTL

(* event() is true in the delta cycle after a change of the signal, and    *)
(* in no other: the part of EventsAreChanges about the signal.             *)
THEOREM EventsOfTheSignal == Spec => []EventIsAChange
<1>1. Inv => EventIsAChange
  BY DEF Inv, SignalInv, EventIsAChange
<1> QED
  BY <1>1, ChannelInvariant, PTL

--------------------------------------------------------------------------------
(* The clock. *)

(* The process c is the thread of the clock, and does nothing else; nobody *)
(* else does what it does, or writes the clock, or waits for time.         *)
Starts(c) == todo[c] # <<>> /\ todo[c][1].op = "clock"
ThreadCalls(c) ==
  /\ \A k \in 1 .. Len(todo[c]) : todo[c][k].op = "tick" \/ (k = 1 /\ todo[c][k].op = "clock")
  /\ \A q \in Processes \ {c} : \A k \in 1 .. Len(todo[q]) :
       todo[q][k].op \notin {"clock", "tick", "set_clock"}
ThreadInv(c) ==
  /\ ThreadCalls(c)
  /\ "clock" \notin requested /\ notified \subseteq {"edge", "clock_change"} /\ clk \in BOOLEAN
  /\ waits[c] \in {"nothing", "time"} /\ \A q \in Processes \ {c} : waits[q] # "time"

(* A process that has waited for an edge and looks at the clock next.      *)
Ready(q) == 1 \in Looks(todo[q]) /\ waits[q] = "nothing"

(* The thread starts in the first delta cycle, where nobody has seen an    *)
(* edge; later it runs when time has passed, and then it runs alone.       *)
AloneInv(c) ==
  /\ Starts(c) =>
       /\ c \in runnable \cup {running} /\ "edge" \notin notified
       /\ \A q \in Processes : edges[q] = <<>> /\ ~Ready(q)
  /\ ~Starts(c) /\ c \in runnable \cup {running} =>
       runnable \cup {running} \subseteq {c, NoProcess} /\ "edge" \notin notified

(* What a process that looks at the clock has still to do: it waits for an *)
(* edge between any two looks, and before the first.                       *)
CallsInv(q) ==
  /\ \A k \in Looks(todo[q]) :
       /\ k > 1 => todo[q][k - 1].op = "await" /\ todo[q][k - 1].v = "edge"
       /\ k > 2 /\ (edges[q] # <<>> \/ \E j \in Looks(todo[q]) : j < k) => k - 2 \in Looks(todo[q])
  /\ 1 \in Looks(todo[q]) => waits[q] \in {"edge", "nothing"}

(* The value it saw last is that of the clock until the next edge is        *)
(* notified, and the other one when it looks again.                        *)
SeenInv(q) ==
  /\ IsSequence(edges[q])
  /\ \A k \in 1 .. Len(edges[q]) - 1 : edges[q][k + 1] # edges[q][k]
  /\ Ready(q) => q \in runnable \cup {running} /\ "edge" \notin notified
  /\ edges[q] # <<>> =>
       /\ 2 \in Looks(todo[q]) => running = q /\ "edge" \notin notified /\ edges[q][Len(edges[q])] = clk
       /\ 1 \in Looks(todo[q]) /\ waits[q] = "edge" =>
            (edges[q][Len(edges[q])] = clk <=> "edge" \notin notified)
       /\ Ready(q) => edges[q][Len(edges[q])] # clk

ClockInv(c) ==
  /\ c \in Processes /\ DOMAIN edges = Processes
  /\ ThreadInv(c) /\ AloneInv(c)
  /\ \A q \in Processes : CallsInv(q) /\ SeenInv(q)
NobodyLooks == \A q \in Processes : edges[q] = <<>> /\ Looks(todo[q]) = {}
WatchersInv == tmp = 0 \/ NobodyLooks \/ \E c \in Processes : ClockInv(c)

(* The calls that are left when the first has been made.                   *)
LEMMA LooksOfTail ==
  ASSUME NEW s, IsSequence(s), s # <<>>
  PROVE  /\ \A k \in Nat \ {0} : k \in Looks(Tail(s)) <=> k + 1 \in Looks(s)
         /\ \A k \in Looks(Tail(s)) : k > 1 => Tail(s)[k - 1] = s[k]
<1>1. /\ Len(s) \in Nat \ {0} /\ Len(Tail(s)) = Len(s) - 1
      /\ \A k \in 1 .. Len(Tail(s)) : Tail(s)[k] = s[k + 1]
  BY Shortened
<1> DEFINE t == Tail(s)
<1> HIDE DEF t
<1>2. /\ Len(t) = Len(s) - 1 /\ \A k \in 1 .. Len(t) : t[k] = s[k + 1]
  BY <1>1 DEF t
<1>3. \A k \in Nat \ {0} : k \in Looks(t) <=> k + 1 \in Looks(s)
  BY <1>1, <1>2 DEF Looks
<1>4. \A k \in Looks(t) : k > 1 => t[k - 1] = s[k]
  BY <1>1, <1>2 DEF Looks
<1> QED
  BY <1>3, <1>4 DEF t

LEMMA NoLooksLeft == Looks(<<>>) = {}
BY EmptyIsSequence DEF Looks

(* A process that makes a call, or gives up, keeps to its program: the      *)
(* first look it makes is the first value it has seen.                     *)
Advance(q) == todo'[q] \in {todo[q], Tail(todo[q]), <<>>}
LEMMA CallsKept ==
  ASSUME ProgramInv, NEW q \in Processes, CallsInv(q), todo[q] # <<>>, Advance(q),
         \/ edges'[q] = edges[q]
         \/ 1 \in Looks(todo[q]) /\ todo'[q] = Tail(todo[q])
  PROVE  \A k \in Looks(todo'[q]) :
           /\ k > 1 => todo'[q][k - 1].op = "await" /\ todo'[q][k - 1].v = "edge"
           /\ k > 2 /\ (edges'[q] # <<>> \/ \E j \in Looks(todo'[q]) : j < k) => k - 2 \in Looks(todo'[q])
<1>1. CASE todo'[q] = todo[q] /\ edges'[q] = edges[q]
  BY <1>1 DEF CallsInv
<1>2. CASE todo'[q] = <<>>
  BY <1>2, NoLooksLeft
<1>3. CASE todo'[q] = Tail(todo[q])
  <2> DEFINE s == todo[q]
             t == todo'[q]
  <2>1. /\ \A k \in Nat \ {0} : k \in Looks(t) <=> k + 1 \in Looks(s)
        /\ \A k \in Looks(t) : k > 1 => t[k - 1] = s[k]
    BY <1>3, LooksOfTail DEF ProgramInv
  <2>2. Looks(s) \subseteq Nat \ {0} /\ Looks(t) \subseteq Nat \ {0}
    BY DEF Looks
  <2>3. \A k \in Looks(s) :
           /\ k > 1 => s[k - 1].op = "await" /\ s[k - 1].v = "edge"
           /\ k > 2 /\ (edges[q] # <<>> \/ \E j \in Looks(s) : j < k) => k - 2 \in Looks(s)
    BY DEF CallsInv
  <2>4. edges'[q] = edges[q] \/ 1 \in Looks(s)
    OBVIOUS
  <2> HIDE DEF s, t
  <2>5. ASSUME NEW k \in Looks(t), k > 1
        PROVE  t[k - 1].op = "await" /\ t[k - 1].v = "edge"
    <3>1. k + 1 \in Looks(s) /\ k + 1 > 1 /\ t[k - 1] = s[k] /\ (k + 1) - 1 = k
      BY <2>1, <2>2, <2>5
    <3> QED
      BY <2>3, <3>1
  <2>6. ASSUME NEW k \in Looks(t), k > 2, edges'[q] # <<>> \/ \E j \in Looks(t) : j < k
        PROVE  k - 2 \in Looks(t)
    <3>1. k \in Nat /\ k + 1 \in Looks(s) /\ k + 1 > 2
      BY <2>1, <2>2, <2>6
    <3>2. edges[q] # <<>> \/ \E j \in Looks(s) : j < k + 1
      <4>1. ASSUME NEW j \in Looks(t), j < k
            PROVE  j + 1 \in Looks(s) /\ j + 1 < k + 1
        BY <2>1, <2>2, <3>1, <4>1
      <4>2. CASE 1 \in Looks(s)
        BY <4>2, <3>1
      <4> QED
        BY <2>4, <2>6, <4>1, <4>2
    <3>3. (k + 1) - 2 \in Looks(s)
      BY <2>3, <3>1, <3>2
    <3>4. k - 2 \in Nat \ {0} /\ (k - 2) + 1 = (k + 1) - 2
      BY <2>6, <3>1
    <3> QED
      BY <2>1, <3>3, <3>4
  <2> QED
    BY <2>5, <2>6 DEF t
<1> QED
  BY <1>1, <1>2, <1>3 DEF Advance

(* Each process does what it did, whatever call it makes.                  *)
LEMMA ThreadCallsKept ==
  ASSUME ProgramInv, NEW c \in Processes, ThreadCalls(c),
         \A q \in Processes : todo'[q] = todo[q] \/ (todo[q] # <<>> /\ Advance(q))
  PROVE  ThreadCalls(c)'
<1>1. ASSUME NEW q \in Processes, NEW k \in 1 .. Len(todo'[q])
      PROVE  \/ todo'[q] = todo[q]
             \/ k + 1 \in 1 .. Len(todo[q]) /\ todo'[q][k] = todo[q][k + 1] /\ k + 1 # 1
  <2>1. CASE todo'[q] = Tail(todo[q]) /\ todo[q] # <<>>
    <3> DEFINE t == todo'[q]
    <3>1. /\ Len(todo[q]) \in Nat /\ Len(t) = Len(todo[q]) - 1
          /\ \A i \in 1 .. Len(t) : t[i] = todo[q][i + 1]
      BY <2>1, Shortened DEF ProgramInv
    <3>2. k \in 1 .. Len(t)
      BY <1>1
    <3> HIDE DEF t
    <3>3. k + 1 \in 1 .. Len(todo[q]) /\ t[k] = todo[q][k + 1] /\ k + 1 # 1
      BY <3>1, <3>2
    <3> QED
      BY <3>3 DEF t
  <2>2. CASE todo'[q] = <<>>
    BY <2>2, <1>1
  <2> QED
    BY <2>1, <2>2 DEF Advance
<1>2. \A k \in 1 .. Len(todo'[c]) : todo'[c][k].op = "tick" \/ (k = 1 /\ todo'[c][k].op = "clock")
  BY <1>1 DEF ThreadCalls
<1>3. \A q \in Processes \ {c} : \A k \in 1 .. Len(todo'[q]) :
        todo'[q][k].op \notin {"clock", "tick", "set_clock"}
  BY <1>1 DEF ThreadCalls
<1> QED
  BY <1>2, <1>3 DEF ThreadCalls

--------------------------------------------------------------------------------
(* Steps of the processes that are not the clock's thread. *)

(* What a running process of the others is: the thread has started or may  *)
(* run, and is not to run alone.                                           *)
LEMMA OtherRuns ==
  ASSUME SchedulerInv, NEW c \in Processes, AloneInv(c), running \in Processes, running # c
  PROVE  ~Starts(c) => c \notin runnable
BY SchedulerAssumption DEF AloneInv

(* A call that neither waits nor looks; unlock wakes who waits for _free.  *)
LEMMA GoingOnKeepsClock ==
  ASSUME Inv, NEW c \in Processes, ClockInv(c), running \in Processes, running # c,
         todo[running] # <<>>, 1 \notin Looks(todo[running]), 2 \notin Looks(todo[running]),
         todo' \in {[todo EXCEPT ![running] = Tail(@)], [todo EXCEPT ![running] = <<>>]},
         UNCHANGED <<running, notified, clk, edges>>, "clock" \notin requested',
         runnable \subseteq runnable', runnable' \subseteq runnable \cup WaitingFor("_free"),
         \A p \in Processes :
           waits'[p] = waits[p] \/ (waits[p] = "_free" /\ waits'[p] = "nothing")
  PROVE  ClockInv(c)'
<1> USE DEF Inv, ClockInv
<1>1. /\ \A q \in Processes \ {running} : todo'[q] = todo[q]
      /\ todo'[running] \in {Tail(todo[running]), <<>>}
      /\ \A q \in Processes : todo'[q] = todo[q] \/ (todo[q] # <<>> /\ Advance(q))
  BY DEF ProgramInv, Advance
<1>2. ThreadInv(c)'
  <2>1. waits'[c] \in {"nothing", "time"} /\ \A q \in Processes \ {c} : waits'[q] # "time"
    BY DEF ThreadInv
  <2> QED
    BY <1>1, <2>1, ThreadCallsKept DEF ThreadInv
<1>3. /\ 1 \notin Looks(todo'[running])
      /\ 2 \in Looks(todo'[running]) => edges[running] = <<>>
  <2>1. CASE todo'[running] = <<>>
    BY <2>1, NoLooksLeft
  <2>2. CASE todo'[running] = Tail(todo[running])
    <3>1. /\ 1 \in Looks(todo'[running]) <=> 1 + 1 \in Looks(todo[running])
          /\ 2 \in Looks(todo'[running]) <=> 2 + 1 \in Looks(todo[running])
      BY <2>2, LooksOfTail DEF ProgramInv
    <3>2. 3 \in Looks(todo[running]) /\ edges[running] # <<>> => 3 - 2 \in Looks(todo[running])
      BY DEF CallsInv
    <3> QED
      BY <3>1, <3>2
  <2> QED
    BY <1>1, <2>1, <2>2
<1>4. ASSUME NEW q \in Processes
      PROVE  /\ 1 \in Looks(todo'[q]) => 1 \in Looks(todo[q]) /\ waits'[q] = waits[q]
             /\ Ready(q)' => Ready(q)
             /\ 2 \in Looks(todo'[q]) => edges[q] = <<>> \/ 2 \in Looks(todo[q])
  BY <1>1, <1>3 DEF Ready, CallsInv
<1>5. AloneInv(c)'
  <2>1. Starts(c)' <=> Starts(c)
    BY <1>1 DEF Starts
  <2>2. ~Starts(c) => c \notin runnable' \cup {running'}
    BY OtherRuns DEF ThreadInv, WaitingFor
  <2> QED
    BY <1>4, <2>1, <2>2 DEF AloneInv
<1>6. ASSUME NEW q \in Processes
      PROVE  CallsInv(q)'
  <2>1. CASE q = running
    BY <1>1, <1>4, <2>1, CallsKept DEF CallsInv
  <2>2. CASE q # running
    BY <1>1, <1>4, <2>2 DEF CallsInv
  <2> QED
    BY <2>1, <2>2
<1>7. ASSUME NEW q \in Processes
      PROVE  SeenInv(q)'
  BY <1>4 DEF SeenInv
<1> QED
  BY <1>2, <1>5, <1>6, <1>7

(* A call that waits: for an edge, if the process looks then.              *)
LEMMA WaitingKeepsClock ==
  ASSUME Inv, NEW c \in Processes, ClockInv(c), running \in Processes, running # c,
         todo[running] # <<>>, 1 \notin Looks(todo[running]),
         NEW e, e \notin {"time", "nothing"}, Wait(e), UNCHANGED <<clk, edges>>,
         \/ UNCHANGED todo /\ 2 \notin Looks(todo[running])
         \/ /\ todo' = [todo EXCEPT ![running] = Tail(@)]
            /\ 2 \in Looks(todo[running]) => e = "edge"
  PROVE  ClockInv(c)'
<1> USE DEF Inv, ClockInv
<1>1. /\ \A q \in Processes \ {running} : todo'[q] = todo[q]
      /\ todo'[running] \in {todo[running], Tail(todo[running])}
      /\ \A q \in Processes : todo'[q] = todo[q] \/ (todo[q] # <<>> /\ Advance(q))
  BY DEF ProgramInv, Advance
<1>2. /\ waits'[running] = e /\ \A q \in Processes \ {running} : waits'[q] = waits[q]
      /\ running' = NoProcess /\ UNCHANGED <<runnable, requested, notified>>
  BY DEF SchedulerInv, Wait
<1>3. ThreadInv(c)'
  BY <1>1, <1>2, ThreadCallsKept DEF ThreadInv
<1>4. AloneInv(c)'
  <2>1. Starts(c)' <=> Starts(c)
    BY <1>1 DEF Starts
  <2>2. ~Starts(c) => c \notin runnable' \cup {running'}
    BY <1>2, OtherRuns, SchedulerAssumption
  <2>3. \A q \in Processes : Ready(q)' => Ready(q)
    BY <1>1, <1>2 DEF Ready
  <2> QED
    BY <1>2, <2>1, <2>2, <2>3 DEF AloneInv
<1>5. /\ 1 \in Looks(todo'[running]) => e = "edge" /\ 2 \in Looks(todo[running])
      /\ 2 \in Looks(todo'[running]) => edges[running] = <<>>
  <2>1. CASE UNCHANGED todo /\ 2 \notin Looks(todo[running])
    BY <2>1
  <2>2. CASE todo' = [todo EXCEPT ![running] = Tail(@)] /\ (2 \in Looks(todo[running]) => e = "edge")
    <3>1. /\ 1 \in Looks(todo'[running]) <=> 1 + 1 \in Looks(todo[running])
          /\ 2 \in Looks(todo'[running]) <=> 2 + 1 \in Looks(todo[running])
      BY <2>2, LooksOfTail DEF ProgramInv
    <3>2. 3 \in Looks(todo[running]) /\ edges[running] # <<>> => 3 - 2 \in Looks(todo[running])
      BY DEF CallsInv
    <3> QED
      BY <2>2, <3>1, <3>2
  <2> QED
    BY <2>1, <2>2
<1>6. ASSUME NEW q \in Processes
      PROVE  CallsInv(q)'
  <2>1. CASE q = running
    <3>1. CASE UNCHANGED todo
      BY <1>2, <2>1, <3>1 DEF CallsInv
    <3>2. CASE todo'[q] = Tail(todo[q])
      BY <1>2, <1>5, <2>1, <3>2, CallsKept DEF CallsInv, Advance
    <3> QED
      BY <1>1, <2>1, <3>1, <3>2 DEF ProgramInv
  <2>2. CASE q # running
    BY <1>1, <1>2, <2>2 DEF CallsInv
  <2> QED
    BY <2>1, <2>2
<1>7. ASSUME NEW q \in Processes
      PROVE  SeenInv(q)'
  <2>1. CASE q = running
    <3>1. ~Ready(q)'
      BY <1>2, <2>1 DEF Ready
    <3>2. edges[q] # <<>> /\ 1 \in Looks(todo'[q]) =>
            edges[q][Len(edges[q])] = clk /\ "edge" \notin notified
      BY <1>5, <2>1 DEF SeenInv
    <3> QED
      BY <1>2, <1>5, <2>1, <3>1, <3>2 DEF SeenInv
  <2>2. CASE q # running
    <3>1. 2 \in Looks(todo[q]) => edges[q] = <<>>
      BY <2>2 DEF SeenInv
    <3>2. Ready(q)' => Ready(q) /\ q \in runnable
      BY <1>1, <1>2, <2>2 DEF Ready, SeenInv
    <3> QED
      BY <1>1, <1>2, <2>2, <3>1, <3>2 DEF SeenInv, Ready
  <2> QED
    BY <2>1, <2>2
<1> QED
  BY <1>3, <1>4, <1>6, <1>7

(* A look: the clock is not what was seen last.                            *)
LEMMA LookKeepsClock ==
  ASSUME Inv, NEW c \in Processes, ClockInv(c), LookAtClock
  PROVE  ClockInv(c)'
<1> USE DEF Inv, ClockInv
<1>1. /\ running \in Processes /\ waits[running] = "nothing" /\ todo[running] # <<>>
      /\ 1 \in Looks(todo[running])
      /\ todo' = [todo EXCEPT ![running] = Tail(@)]
      /\ edges' = [edges EXCEPT ![running] = Append(@, clk)]
      /\ UNCHANGED <<running, runnable, waits, clk>> /\ notified' = notified /\ requested' = requested
  <2>1. running \in Processes /\ waits[running] = "nothing" /\ todo[running] # <<>>
    BY AtRuns DEF LookAtClock, At
  <2>2. 1 \in Looks(todo[running])
    BY <2>1, Shortened DEF LookAtClock, At, ProgramInv, Looks
  <2> QED
    BY <2>1, <2>2 DEF LookAtClock, Done, GoOn, channelVars, clockVars
<1>2. Ready(running) /\ ~Starts(c) /\ running # c /\ "edge" \notin notified
  <2>1. Ready(running)
    BY <1>1 DEF Ready
  <2>2. running # c
    BY <1>1 DEF ThreadInv, ThreadCalls, Looks
  <2> QED
    BY <1>1, <2>1, <2>2 DEF AloneInv, SeenInv
<1>3. /\ \A q \in Processes \ {running} : todo'[q] = todo[q] /\ edges'[q] = edges[q]
      /\ todo'[running] = Tail(todo[running]) /\ edges'[running] = Append(edges[running], clk)
      /\ \A q \in Processes : todo'[q] = todo[q] \/ (todo[q] # <<>> /\ Advance(q))
  BY <1>1 DEF ProgramInv, Advance
<1>4. ThreadInv(c)'
  BY <1>1, <1>3, ThreadCallsKept DEF ThreadInv
<1>5. AloneInv(c)'
  <2>1. ~Starts(c)'
    BY <1>2, <1>3 DEF Starts
  <2>2. c \notin runnable' \cup {running'}
    BY <1>1, <1>2, OtherRuns
  <2> QED
    BY <2>1, <2>2 DEF AloneInv
<1>6. 1 \notin Looks(todo'[running])
  <2>1. 1 \in Looks(todo'[running]) <=> 1 + 1 \in Looks(todo[running])
    BY <1>1, <1>3, LooksOfTail DEF ProgramInv
  <2>2. 2 \in Looks(todo[running]) => todo[running][2 - 1].op = "await"
    BY <1>1 DEF CallsInv
  <2> QED
    BY <1>1, <2>1, <2>2 DEF Looks
<1>7. ASSUME NEW q \in Processes
      PROVE  CallsInv(q)'
  <2>1. CASE q = running
    <3>1. CallsInv(q) /\ todo[q] # <<>> /\ Advance(q) /\ 1 \in Looks(todo[q]) /\ todo'[q] = Tail(todo[q])
      BY <1>1, <1>3, <2>1 DEF Advance
    <3>2. \A k \in Looks(todo'[q]) :
            /\ k > 1 => todo'[q][k - 1].op = "await" /\ todo'[q][k - 1].v = "edge"
            /\ k > 2 /\ (edges'[q] # <<>> \/ \E j \in Looks(todo'[q]) : j < k) => k - 2 \in Looks(todo'[q])
      BY <3>1, CallsKept
    <3> QED
      BY <1>6, <2>1, <3>2 DEF CallsInv
  <2>2. CASE q # running
    BY <1>1, <1>3, <2>2 DEF CallsInv
  <2> QED
    BY <2>1, <2>2
<1>8. ASSUME NEW q \in Processes
      PROVE  SeenInv(q)'
  <2>1. CASE q = running
    <3> DEFINE s == edges[q]
               t == edges'[q]
    <3>1. IsSequence(s) /\ Len(s) \in Nat /\ t = Append(s, clk)
      BY <1>3, <2>1, SequenceOf DEF SeenInv
    <3>2. /\ IsSequence(t) /\ Len(t) = Len(s) + 1
          /\ \A k \in 1 .. Len(s) : t[k] = s[k]
          /\ t[Len(s) + 1] = clk
      BY <3>1, Appended
    <3>3. Len(s) > 0 => s[Len(s)] # clk
      <4>1. s # <<>> => s[Len(s)] # clk
        BY <1>2, <2>1 DEF SeenInv
      <4> QED
        BY <4>1, EmptyIsSequence
    <3>4. \A k \in 1 .. Len(s) - 1 : s[k + 1] # s[k]
      BY DEF SeenInv
    <3> HIDE DEF s, t
    <3>5. \A k \in 1 .. Len(t) - 1 : t[k + 1] # t[k]
      BY <3>1, <3>2, <3>3, <3>4
    <3>6. t[Len(t)] = clk
      BY <3>2
    <3>7. ~Ready(q)'
      BY <1>6, <2>1 DEF Ready
    <3> QED
      BY <1>1, <1>2, <1>6, <2>1, <3>2, <3>5, <3>6, <3>7 DEF SeenInv, t
  <2>2. CASE q # running
    BY <1>1, <1>3, <2>2 DEF SeenInv, Ready
  <2> QED
    BY <2>1, <2>2
<1> QED
  BY <1>1, <1>4, <1>5, <1>7, <1>8

--------------------------------------------------------------------------------
(* Steps of the thread, and of the simulator. *)

(* The thread flips the clock where nobody is about to look.               *)
LEMMA ThreadKeepsClock ==
  ASSUME Inv, tmp # 0, NEW c \in Processes, ClockInv(c), StartClock \/ Tick
  PROVE  ClockInv(c)'
<1> USE DEF Inv, ClockInv
<1>1. /\ running \in Processes /\ waits[running] = "nothing" /\ todo[running] # <<>>
      /\ todo' = [todo EXCEPT ![running] = Tail(@)]
      /\ running' = NoProcess /\ waits' = [waits EXCEPT ![running] = "time"]
      /\ notified' = notified \cup {"edge", "clock_change"}
      /\ runnable' = runnable /\ requested' = requested /\ edges' = edges
      /\ Len(todo[running]) \in Nat \ {0} /\ Head(todo[running]) = todo[running][1]
  <2>1. running \in Processes /\ waits[running] = "nothing" /\ todo[running] # <<>>
    BY AtRuns DEF StartClock, Tick, At
  <2>2. Len(todo[running]) \in Nat \ {0} /\ Head(todo[running]) = todo[running][1]
    BY <2>1, Shortened DEF ProgramInv
  <2> QED
    BY <2>1, <2>2 DEF StartClock, Tick, ClockStart, ClockTick, ClockWait, Done, historyVars
<1>2. \/ todo[running][1].op = "clock" /\ clk' = clk
      \/ todo[running][1].op = "tick" /\ clk' = ~clk
  BY <1>1 DEF StartClock, Tick, At, ClockStart, ClockTick, clockVars
<1>3. running = c
  <2>1. 1 \in 1 .. Len(todo[running])
    BY <1>1
  <2> QED
    BY <1>1, <1>2, <2>1 DEF ThreadInv, ThreadCalls
<1>4. /\ \A q \in Processes \ {c} : todo'[q] = todo[q] /\ waits'[q] = waits[q]
      /\ todo'[c] = Tail(todo[c]) /\ waits'[c] = "time"
      /\ \A q \in Processes : todo'[q] = todo[q] \/ (todo[q] # <<>> /\ Advance(q))
  BY <1>1, <1>3 DEF ProgramInv, SchedulerInv, Advance
<1>5. c \notin runnable' \cup {running'}
  BY <1>1, <1>3, SchedulerAssumption DEF SchedulerInv
<1>6. \A q \in Processes : ~Ready(q)
  <2>1. CASE Starts(c)
    BY <2>1 DEF AloneInv
  <2>2. CASE ~Starts(c)
    <3>1. runnable \cup {running} \subseteq {c, NoProcess}
      BY <1>1, <1>3, <2>2 DEF AloneInv
    <3>2. ~Ready(c)
      BY <1>1, <1>2, <1>3 DEF Ready, Looks
    <3> QED
      BY <3>1, <3>2, SchedulerAssumption DEF SeenInv
  <2> QED
    BY <2>1, <2>2
<1>7. /\ "edge" \notin notified
      /\ Starts(c) => clk' = clk /\ \A q \in Processes : edges[q] = <<>>
      /\ ~Starts(c) => clk' = ~clk
  BY <1>1, <1>2, <1>3 DEF AloneInv, Starts
<1>8. Looks(todo[c]) = {} /\ Looks(todo'[c]) = {}
  <2>1. ThreadCalls(c)'
    BY <1>4, ThreadCallsKept DEF ThreadInv
  <2> QED
    BY <2>1 DEF ThreadInv, ThreadCalls, Looks
<1>9. ThreadInv(c)'
  <2>1. ThreadCalls(c)'
    BY <1>4, ThreadCallsKept DEF ThreadInv
  <2>2. clk' \in BOOLEAN /\ notified' \subseteq {"edge", "clock_change"} /\ "clock" \notin requested'
    BY <1>1, <1>2 DEF ThreadInv
  <2> QED
    BY <1>4, <2>1, <2>2 DEF ThreadInv
<1>10. AloneInv(c)'
  <2>1. ~Starts(c)'
    <3>1. /\ Len(Tail(todo[c])) = Len(todo[c]) - 1
          /\ \A k \in 1 .. Len(Tail(todo[c])) : Tail(todo[c])[k] = todo[c][k + 1]
          /\ IsSequence(Tail(todo[c]))
      BY <1>1, <1>3, Shortened DEF ProgramInv
    <3>2. ASSUME Tail(todo[c]) # <<>>
          PROVE  Tail(todo[c])[1].op # "clock"
      <4>1. 1 \in 1 .. Len(Tail(todo[c]))
        BY <3>1, <3>2, Shortened
      <4>2. 2 \in 1 .. Len(todo[c]) /\ Tail(todo[c])[1] = todo[c][2]
        BY <1>1, <1>3, <3>1, <4>1
      <4> QED
        BY <4>2 DEF ThreadInv, ThreadCalls
    <3> QED
      BY <1>4, <3>2 DEF Starts
  <2> QED
    BY <2>1, <1>5 DEF AloneInv
<1>11. ASSUME NEW q \in Processes
       PROVE  CallsInv(q)'
  <2>1. CASE q = c
    BY <1>8, <2>1 DEF CallsInv
  <2>2. CASE q # c
    <3>1. UNCHANGED <<todo[q], edges[q], waits[q]>> /\ CallsInv(q)
      BY <1>1, <1>4, <2>2
    <3> QED
      BY <3>1 DEF CallsInv
  <2> QED
    BY <2>1, <2>2
<1>12. ASSUME NEW q \in Processes
       PROVE  SeenInv(q)'
  <2>1. ~Ready(q)'
    BY <1>4, <1>6, <1>8 DEF Ready
  <2>2. CASE q = c
    BY <1>1, <1>8, <2>1, <2>2 DEF SeenInv
  <2>3. CASE q # c
    <3>1. edges[q] # <<>> => 2 \notin Looks(todo[q])
      BY <1>3, <2>3 DEF SeenInv
    <3>2. edges[q] # <<>> /\ 1 \in Looks(todo[q]) /\ waits[q] = "edge" => edges[q][Len(edges[q])] # clk'
      <4>1. edges[q] # <<>> /\ 1 \in Looks(todo[q]) /\ waits[q] = "edge" => edges[q][Len(edges[q])] = clk
        BY <1>7 DEF SeenInv
      <4>2. edges[q] # <<>> => clk' = ~clk /\ clk \in BOOLEAN
        BY <1>7 DEF ThreadInv
      <4> QED
        BY <4>1, <4>2
    <3> QED
      BY <1>1, <1>4, <2>1, <2>3, <3>1, <3>2 DEF SeenInv
  <2> QED
    BY <2>2, <2>3
<1> QED
  BY <1>1, <1>9, <1>10, <1>11, <1>12

(* Who may run runs; who has no calls left ends; time passes.              *)
LEMMA SimulatorKeepsClock ==
  ASSUME Inv, NEW c \in Processes, ClockInv(c), UNCHANGED <<channelVars, todo, historyVars>>,
         Schedule \/ AdvanceTime \/ Return
  PROVE  ClockInv(c)'
<1> USE DEF Inv, ClockInv
<1>1. UNCHANGED <<clk, edges, todo>> /\ notified' = notified /\ requested' = requested
  BY DEF channelVars, clockVars, historyVars, Schedule, AdvanceTime, Return
<1>2. CASE Schedule
  <2>1. runnable' \cup {running'} = runnable /\ waits' = waits /\ running = NoProcess
    BY <1>2 DEF Schedule
  <2>2. ThreadInv(c)'
    BY <1>1, <2>1 DEF ThreadInv, ThreadCalls
  <2>3. AloneInv(c)'
    <3>1. (Starts(c)' <=> Starts(c)) /\ \A q \in Processes : Ready(q)' <=> Ready(q)
      BY <1>1, <2>1 DEF Starts, Ready
    <3>2. runnable' \cup {running'} \subseteq runnable \cup {running} /\ AloneInv(c)
      BY <2>1
    <3>3. c \in runnable \cup {running} <=> c \in runnable' \cup {running'}
      BY <2>1, SchedulerAssumption
    <3> QED
      BY <1>1, <3>1, <3>2, <3>3 DEF AloneInv
  <2>4. \A q \in Processes : CallsInv(q)'
    BY <1>1, <2>1 DEF CallsInv
  <2>5. \A q \in Processes : SeenInv(q)'
    BY <1>1, <2>1, SchedulerAssumption DEF SeenInv, Ready
  <2> QED
    BY <1>1, <2>2, <2>3, <2>4, <2>5
<1>3. CASE Return
  <2>1. running \in Processes /\ todo[running] = <<>> /\ running' = NoProcess
        /\ waits' = waits /\ runnable' = runnable
    BY <1>3, AtRuns DEF Return
  <2>2. ThreadInv(c)'
    BY <1>1, <2>1 DEF ThreadInv, ThreadCalls
  <2>3. AloneInv(c)'
    <3>1. Starts(c) => c # running
      BY <2>1 DEF Starts
    <3>2. c \in runnable' \cup {running'} => c \in runnable \cup {running}
      BY <2>1, SchedulerAssumption
    <3>3. (Starts(c)' <=> Starts(c)) /\ \A q \in Processes : Ready(q)' <=> Ready(q)
      BY <1>1, <2>1 DEF Starts, Ready
    <3>4. runnable' \cup {running'} \subseteq runnable \cup {NoProcess} /\ AloneInv(c)
      BY <2>1
    <3>5. Starts(c) => c \in runnable' \cup {running'}
      BY <2>1, <3>1, <3>4 DEF AloneInv
    <3> QED
      BY <1>1, <3>2, <3>3, <3>4, <3>5 DEF AloneInv
  <2>4. \A q \in Processes : CallsInv(q)'
    BY <1>1, <2>1 DEF CallsInv
  <2>5. \A q \in Processes : SeenInv(q)'
    <3>1. Looks(todo[running]) = {}
      BY <2>1, NoLooksLeft
    <3> QED
      BY <1>1, <2>1, <3>1 DEF SeenInv, Ready
  <2> QED
    BY <1>1, <2>2, <2>3, <2>4, <2>5
<1>4. CASE AdvanceTime
  <2>1. /\ running = NoProcess /\ running' = NoProcess /\ runnable = {} /\ notified = {}
        /\ runnable' \subseteq WaitingFor("time")
        /\ \A q \in Processes : waits'[q] = waits[q] \/ (waits[q] = "time" /\ waits'[q] = "nothing")
    <3>1. runnable' \subseteq WaitingFor("time")
      BY <1>4 DEF AdvanceTime
    <3>2. \A q \in Processes : waits'[q] = IF q \in runnable' THEN "nothing" ELSE waits[q]
      BY <1>4 DEF AdvanceTime
    <3> QED
      BY <1>4, <3>1, <3>2 DEF AdvanceTime, EvaluationOver, DeltaPending, WaitingFor
  <2>2. runnable' \subseteq {c} /\ c \notin runnable \cup {running}
    BY <2>1, SchedulerAssumption DEF ThreadInv, WaitingFor
  <2>3. ThreadInv(c)'
    BY <1>1, <2>1 DEF ThreadInv, ThreadCalls
  <2>4. AloneInv(c)'
    BY <1>1, <2>1, <2>2 DEF AloneInv, Starts
  <2>5. \A q \in Processes : CallsInv(q)'
    BY <1>1, <2>1 DEF CallsInv
  <2>6. ASSUME NEW q \in Processes
        PROVE  SeenInv(q)'
    <3>1. 1 \in Looks(todo[q]) => waits'[q] = waits[q]
      BY <2>1 DEF CallsInv
    <3>2. ~Ready(q) /\ (edges[q] # <<>> => 2 \notin Looks(todo[q]))
      BY <2>1, SchedulerAssumption DEF SeenInv
    <3> QED
      BY <1>1, <2>1, <3>1, <3>2 DEF SeenInv, Ready
  <2> QED
    BY <1>1, <2>3, <2>4, <2>5, <2>6
<1> QED
  BY <1>2, <1>3, <1>4

(* A delta cycle ends: who waits for an edge that was notified may look.   *)
LEMMA CycleKeepsClock ==
  ASSUME Inv, NEW c \in Processes, ClockInv(c), DeltaCycle
  PROVE  ClockInv(c)'
<1> USE DEF Inv, ClockInv
<1> DEFINE es == (IF "fifo" \in requested THEN FifoNotifies ELSE {})
                 \cup (IF "signal" \in requested THEN SignalNotifies ELSE {})
                 \cup (IF "clock" \in requested THEN ClockNotifies ELSE {})
           woken == {p \in Processes : waits[p] \in notified \cup es \cup {"delta"}}
<1>1. es \subseteq {"data_read", "data_written", "change", "clock_change"}
  BY DEF FifoNotifies, SignalNotifies, ClockNotifies
<1>2. Occur(es) /\ EvaluationOver
  BY DEF DeltaCycle
<1>3. UNCHANGED <<clk, edges, todo>>
  BY DEF DeltaCycle, ThreadInv, clockVars
<1> HIDE DEF es
<1>4. /\ running = NoProcess /\ running' = NoProcess /\ runnable = {}
      /\ runnable' = woken /\ notified' = {} /\ requested' = {}
      /\ \A q \in Processes : waits'[q] = IF q \in woken THEN "nothing" ELSE waits[q]
  BY <1>2 DEF Occur, EvaluationOver
<1>5. c \notin woken
  BY <1>1 DEF ThreadInv
<1>6. \A q \in Processes : waits[q] = "edge" => (q \in woken <=> "edge" \in notified)
  BY <1>1
<1>7. \A q \in Processes : waits[q] = "nothing" => q \notin woken
  BY <1>1 DEF ThreadInv
<1> HIDE DEF woken
<1>8. ~Starts(c)
  BY <1>4, SchedulerAssumption DEF AloneInv
<1>9. ThreadInv(c)'
  BY <1>3, <1>4, <1>5 DEF ThreadInv, ThreadCalls
<1>10. AloneInv(c)'
  BY <1>3, <1>4, <1>5, <1>8, SchedulerAssumption DEF AloneInv, Starts
<1>11. \A q \in Processes : CallsInv(q)'
  BY <1>3, <1>4 DEF CallsInv
<1>12. ASSUME NEW q \in Processes
       PROVE  SeenInv(q)'
  <2>1. ~Ready(q) /\ (edges[q] # <<>> => 2 \notin Looks(todo[q]))
    BY <1>4, SchedulerAssumption DEF SeenInv
  <2>2. Ready(q)' => waits[q] = "edge" /\ 1 \in Looks(todo[q]) /\ q \in woken /\ "edge" \in notified
    BY <1>3, <1>4, <1>6, <1>7, <2>1 DEF Ready, CallsInv
  <2>3. waits'[q] = "edge" => waits[q] = "edge" /\ "edge" \notin notified
    BY <1>4, <1>6
  <2> QED
    BY <1>3, <1>4, <2>1, <2>2, <2>3 DEF SeenInv
<1> QED
  BY <1>3, <1>9, <1>10, <1>11, <1>12

--------------------------------------------------------------------------------
(* Every step keeps the clock's part. *)

(* The first call of a process that is at a call, and who it is.           *)
LEMMA FirstCall ==
  ASSUME Inv, NEW op, At(op)
  PROVE  /\ running \in Processes /\ waits[running] = "nothing" /\ todo[running] # <<>>
         /\ 1 \in 1 .. Len(todo[running]) /\ todo[running][1].op = op
         /\ Head(todo[running]) = todo[running][1]
         /\ 1 \in Looks(todo[running]) <=> op = "look"
         /\ \A c \in Processes : ClockInv(c) =>
              /\ op \notin {"clock", "tick"} => running # c
              /\ op \in {"clock", "tick", "set_clock"} => running = c
              /\ op # "await" => 2 \notin Looks(todo[running])
<1>1. running \in Processes /\ waits[running] = "nothing" /\ todo[running] # <<>>
  BY AtRuns DEF At, Inv
<1>2. /\ Len(todo[running]) \in Nat \ {0} /\ Head(todo[running]) = todo[running][1]
      /\ todo[running][1].op = op
  BY <1>1, Shortened DEF At, Inv, ProgramInv
<1>3. 1 \in 1 .. Len(todo[running]) /\ (1 \in Looks(todo[running]) <=> op = "look")
  BY <1>2 DEF Looks
<1>4. ASSUME NEW c \in Processes, ClockInv(c)
      PROVE  /\ op \notin {"clock", "tick"} => running # c
             /\ op \in {"clock", "tick", "set_clock"} => running = c
             /\ op # "await" => 2 \notin Looks(todo[running])
  <2>1. ThreadCalls(c) /\ CallsInv(running)
    BY <1>1, <1>4 DEF ClockInv, ThreadInv
  <2>2. op \notin {"clock", "tick"} => running # c
    BY <1>2, <1>3, <2>1 DEF ThreadCalls
  <2>3. op \in {"clock", "tick", "set_clock"} => running = c
    BY <1>1, <1>2, <1>3, <2>1 DEF ThreadCalls
  <2>4. 2 \in Looks(todo[running]) => todo[running][2 - 1].op = "await"
    BY <2>1 DEF CallsInv
  <2> QED
    BY <1>2, <2>2, <2>3, <2>4
<1> QED
  BY <1>1, <1>2, <1>3, <1>4

LEMMA ClockStep ==
  ASSUME Inv, NEW c \in Processes, ClockInv(c), tmp # 0, [Next]_vars
  PROVE  ClockInv(c)'
<1>1. "clock" \notin requested
  BY DEF ClockInv, ThreadInv
<1>2. ASSUME NEW op, At(op), op \notin {"look", "await", "clock", "tick", "set_clock"},
             todo' \in {[todo EXCEPT ![running] = Tail(@)], [todo EXCEPT ![running] = <<>>]},
             UNCHANGED <<running, runnable, waits, notified, clk, edges>>,
             requested' \subseteq requested \cup {"fifo", "signal"}
      PROVE  ClockInv(c)'
  <2>1. /\ running \in Processes /\ todo[running] # <<>> /\ running # c
        /\ 1 \notin Looks(todo[running]) /\ 2 \notin Looks(todo[running])
    BY <1>2, FirstCall
  <2> QED
    BY <1>1, <1>2, <2>1, GoingOnKeepsClock
<1>3. ASSUME NEW op, At(op), op \notin {"look", "await", "clock", "tick", "set_clock"},
             NEW e, e \notin {"time", "nothing"}, Wait(e), UNCHANGED <<clk, edges, todo>>
      PROVE  ClockInv(c)'
  <2>1. /\ running \in Processes /\ todo[running] # <<>> /\ running # c
        /\ 1 \notin Looks(todo[running]) /\ 2 \notin Looks(todo[running])
    BY <1>3, FirstCall
  <2> QED
    BY <1>3, <2>1, WaitingKeepsClock
<1>4. CASE Write
  <2>1. CASE FifoWrite(Arg) /\ Done
    BY <1>2, <1>4, <2>1 DEF Write, OnlyFifo, clockVars, FifoWrite, GoOn, Done
  <2>2. CASE FifoWriteWaits /\ Again
    BY <1>3, <1>4, <2>2 DEF Write, OnlyFifo, clockVars, FifoWriteWaits, Again
  <2> QED
    BY <1>4, <2>1, <2>2 DEF Write
<1>5. CASE Read
  <2>1. CASE FifoRead /\ Done
    BY <1>2, <1>5, <2>1 DEF Read, OnlyFifo, clockVars, FifoRead, TakeSample, GoOn, Done
  <2>2. CASE FifoReadWaits /\ Again
    BY <1>3, <1>5, <2>2 DEF Read, OnlyFifo, clockVars, FifoReadWaits, Again
  <2> QED
    BY <1>5, <2>1, <2>2 DEF Read
<1>6. CASE NbRead
  <2>1. CASE FifoNbRead /\ Done
    BY <1>2, <1>6, <2>1 DEF NbRead, OnlyFifo, clockVars, FifoNbRead, TakeSample, GoOn, Done
  <2>2. CASE FifoNbReadFails /\ Wait("delta") /\ Again
    BY <1>3, <1>6, <2>2 DEF NbRead, OnlyFifo, clockVars, Again
  <2> QED
    BY <1>6, <2>1, <2>2 DEF NbRead
<1>7. CASE Lock
  <2>1. CASE MutexLock /\ Done
    BY <1>2, <1>7, <2>1 DEF Lock, OnlyMutex, clockVars, MutexLock, GoOn, Done
  <2>2. CASE MutexLockWaits /\ Again
    BY <1>3, <1>7, <2>2 DEF Lock, OnlyMutex, clockVars, MutexLockWaits, Again
  <2> QED
    BY <1>7, <2>1, <2>2 DEF Lock
<1>8. CASE Trylock
  BY <1>2, <1>8 DEF Trylock, OnlyMutex, clockVars, GoOn
<1>9. CASE Unlock
  <2>1. /\ running \in Processes /\ todo[running] # <<>> /\ running # c
        /\ 1 \notin Looks(todo[running]) /\ 2 \notin Looks(todo[running])
    BY <1>9, FirstCall DEF Unlock
  <2>2. /\ todo' = [todo EXCEPT ![running] = Tail(@)]
        /\ UNCHANGED <<running, notified, requested, clk, edges>>
        /\ runnable' = runnable \cup WaitingFor("_free")
        /\ waits' = [p \in Processes |-> IF waits[p] = "_free" THEN "nothing" ELSE waits[p]]
    BY <1>9 DEF Unlock, MutexUnlock, NotifyNow, OnlyMutex, clockVars, Done
  <2>3. \A p \in Processes : waits'[p] = waits[p] \/ (waits[p] = "_free" /\ waits'[p] = "nothing")
    BY <2>2
  <2> QED
    BY <1>1, <2>1, <2>2, <2>3, GoingOnKeepsClock
<1>10. CASE SetSignal
  BY <1>2, <1>10 DEF SetSignal, SignalWrite, GoOn, Done, clockVars, historyVars
<1>11. CASE SetClock
  BY <1>11, FirstCall DEF SetClock
<1>12. CASE StartClock \/ Tick
  BY <1>12, ThreadKeepsClock
<1>13. CASE Await
  <2>1. /\ running \in Processes /\ todo[running] # <<>> /\ running # c
        /\ 1 \notin Looks(todo[running]) /\ Arg = todo[running][1].v
    BY <1>13, FirstCall DEF Await, Arg
  <2>2. 2 \in Looks(todo[running]) => Arg = "edge"
    <3>1. 2 \in Looks(todo[running]) => todo[running][2 - 1].v = "edge"
      <4>1. CallsInv(running)
        BY <2>1 DEF ClockInv
      <4> QED
        BY <4>1 DEF CallsInv
    <3> QED
      BY <2>1, <3>1
  <2>3. Arg \notin {"time", "nothing"}
    BY <1>13, AwaitAllowed DEF Await, Inv, Private
  <2>4. Wait(Arg) /\ UNCHANGED <<clk, edges>> /\ todo' = [todo EXCEPT ![running] = Tail(@)]
    BY <1>13 DEF Await, channelVars, clockVars, historyVars, Done
  <2> QED
    BY <2>1, <2>2, <2>3, <2>4, WaitingKeepsClock
<1>14. CASE LookAtClock
  BY <1>14, LookKeepsClock
<1>15. CASE (Schedule \/ AdvanceTime \/ Return) /\ UNCHANGED <<channelVars, todo, historyVars>>
  BY <1>15, SimulatorKeepsClock
<1>16. CASE DeltaCycle
  BY <1>16, CycleKeepsClock
<1>17. CASE UNCHANGED vars
  <2>1. UNCHANGED <<running, runnable, waits, requested, notified, clk, edges, todo>>
    BY <1>17 DEF vars, schedulerVars, channelVars, clockVars, historyVars
  <2> QED
    BY <2>1 DEF ClockInv, ThreadInv, ThreadCalls, AloneInv, CallsInv, SeenInv, Starts, Ready
<1> QED
  BY <1>4, <1>5, <1>6, <1>7, <1>8, <1>9, <1>10, <1>11, <1>12, <1>13, <1>14, <1>15, <1>16, <1>17
     DEF Next, Return, Time

(* What no step does: change the period, or a value seen, unless it looks.  *)
LEMMA AnyStep ==
  ASSUME Inv, [Next]_vars
  PROVE  /\ tmp' = tmp /\ (LookAtClock \/ edges' = edges)
         /\ \A q \in Processes : todo'[q] = todo[q] \/ (todo[q] # <<>> /\ Advance(q))
<1>1. period' = period
  BY DEF Next, vars, channelVars, clockVars, historyVars, OnlyFifo, OnlyMutex, Write, Read, NbRead,
         Lock, Trylock, Unlock, SetSignal, SetClock, StartClock, Tick, Await, LookAtClock, Return,
         DeltaCycle, Time, ClockWrite, ClockStart, ClockTick, ClockUpdate
<1>2. LookAtClock \/ edges' = edges
  BY DEF Next, vars, historyVars, OnlyFifo, OnlyMutex, Write, Read, NbRead, Lock, Trylock, Unlock,
         SetSignal, SetClock, StartClock, Tick, Await, Return, DeltaCycle, Time
<1>3. \/ todo' = todo
      \/ /\ running # NoProcess /\ todo[running] # <<>>
         /\ todo' \in {[todo EXCEPT ![running] = Tail(@)], [todo EXCEPT ![running] = <<>>]}
  <2>1. CASE Trylock
    BY <2>1 DEF Trylock, At
  <2>2. CASE ~Trylock
    BY <2>2 DEF Next, vars, channelVars, historyVars, Done, Again, At, Write, Read, NbRead, Lock, Unlock,
                SetSignal, SetClock, StartClock, Tick, Await, LookAtClock, Return, DeltaCycle, Time
  <2> QED
    BY <2>1, <2>2
<1>4. running # NoProcess => running \in Processes
  BY AtRuns DEF Inv
<1>5. \A q \in Processes : todo'[q] = todo[q] \/ (todo[q] # <<>> /\ Advance(q))
  BY <1>3, <1>4 DEF Inv, ProgramInv, Advance
<1> QED
  BY <1>1, <1>2, <1>5 DEF tmp

LEMMA WatchersInitially == Init => WatchersInv
<1> SUFFICES ASSUME Init
             PROVE  WatchersInv
  OBVIOUS
<1>1. PICK p \in Programs : todo = p.calls
  BY DEF Init
<1>2. edges = [q \in Processes |-> <<>>] /\ clk = TRUE /\ StartSimulation
  BY DEF Init, ClockInit
<1>3. CASE \A q \in Processes : Looks(p.calls[q]) = {}
  BY <1>1, <1>2, <1>3 DEF WatchersInv, NobodyLooks
<1>4. CASE \E q \in Processes : Looks(p.calls[q]) # {}
  <2>1. \A q \in Processes : Watches(p.calls[q])
    BY <1>4, WatchersAssumption
  <2>2. PICK c \in Processes :
          /\ RunsClock(p.calls[c])
          /\ \A q \in Processes \ {c} : \A k \in 1 .. Len(p.calls[q]) :
               p.calls[q][k].op \notin {"clock", "tick", "set_clock"}
    BY <1>4, WatchersAssumption
  <2>3. ThreadInv(c)
    <3>1. ThreadCalls(c)
      BY <1>1, <2>2 DEF ThreadCalls, RunsClock
    <3> QED
      BY <1>2, <3>1 DEF ThreadInv, StartSimulation
  <2>4. \A q \in Processes : CallsInv(q) /\ 1 \notin Looks(todo[q])
    BY <1>1, <1>2, <2>1 DEF CallsInv, Watches
  <2>5. AloneInv(c)
    <3>1. Starts(c)
      <4>1. ProgramInv
        BY Initially DEF Inv
      <4>2. 1 \in 1 .. Len(todo[c]) /\ todo[c] # <<>>
        BY <1>1, <2>2, <4>1, Shortened DEF RunsClock, ProgramInv
      <4> QED
        BY <1>1, <2>2, <4>2 DEF RunsClock, Starts
    <3> QED
      BY <1>2, <2>4, <3>1 DEF AloneInv, StartSimulation, Ready
  <2>6. \A q \in Processes : SeenInv(q)
    BY <1>2, <2>4, EmptyIsSequence DEF SeenInv, Ready
  <2>7. ClockInv(c)
    BY <1>2, <2>3, <2>4, <2>5, <2>6 DEF ClockInv
  <2> QED
    BY <2>7 DEF WatchersInv
<1> QED
  BY <1>3, <1>4

LEMMA WatchersStep == Inv /\ WatchersInv /\ [Next]_vars => WatchersInv'
<1> SUFFICES ASSUME Inv, WatchersInv, [Next]_vars
             PROVE  WatchersInv'
  OBVIOUS
<1>1. CASE tmp = 0
  BY <1>1, AnyStep DEF WatchersInv
<1>2. CASE NobodyLooks
  <2>1. ~LookAtClock
    BY <1>2, FirstCall DEF LookAtClock, NobodyLooks
  <2>2. ASSUME NEW q \in Processes
        PROVE  Looks(todo'[q]) = {}
    <3>1. CASE todo'[q] = Tail(todo[q]) /\ todo[q] # <<>>
      <4>1. \A k \in Nat \ {0} : k \in Looks(todo'[q]) <=> k + 1 \in Looks(todo[q])
        BY <3>1, LooksOfTail DEF Inv, ProgramInv
      <4>2. Looks(todo'[q]) \subseteq Nat \ {0}
        BY DEF Looks
      <4> QED
        BY <1>2, <4>1, <4>2 DEF NobodyLooks
    <3> QED
      BY <1>2, <3>1, AnyStep, NoLooksLeft DEF Advance, NobodyLooks
  <2> QED
    BY <1>2, <2>1, <2>2, AnyStep DEF NobodyLooks, WatchersInv
<1>3. ASSUME NEW c \in Processes, ClockInv(c), tmp # 0
      PROVE  WatchersInv'
  BY <1>3, ClockStep DEF WatchersInv
<1> QED
  BY <1>1, <1>2, <1>3 DEF WatchersInv

(* The signal's events are its changes, and who waits for the edges of a    *)
(* clock that nobody writes sees it flipped at each, unless the period is  *)
(* 1.                                                                      *)
THEOREM EventsTellTheChanges == Spec => []EventsAreChanges
<1>1. Spec => []WatchersInv
  BY WatchersInitially, WatchersStep, ChannelInvariant, PTL DEF Spec
<1>2. WatchersInv /\ EventIsAChange => EventsAreChanges
  <2> SUFFICES ASSUME WatchersInv, EventIsAChange, tmp > 0, NEW p \in Processes,
                      NEW k \in 1 .. Len(edges[p]) - 1
               PROVE  edges[p][k + 1] # edges[p][k]
    BY DEF EventsAreChanges
  <2>1. CASE NobodyLooks
    BY <2>1, EmptyIsSequence DEF NobodyLooks
  <2>2. ASSUME NEW c \in Processes, ClockInv(c)
        PROVE  edges[p][k + 1] # edges[p][k]
    BY <2>2 DEF ClockInv, SeenInv
  <2> QED
    BY <2>1, <2>2 DEF WatchersInv
<1> QED
  BY <1>1, <1>2, EventsOfTheSignal, PTL

================================================================================
