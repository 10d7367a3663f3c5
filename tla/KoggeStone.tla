----------------------------- MODULE KoggeStone -----------------------------
(***************************************************************************)
(* The inclusive prefix sum of Kogge and Stone as a CUDA kernel, with the  *)
(* host program that launches it (Kogge-Stone.cu).  One block of Size      *)
(* threads works in place on an array of Size cells; __syncthreads is a    *)
(* joint step of the block.  Every access to the array is a step of its    *)
(* own, so that the accesses between two barriers interleave freely.       *)
(***************************************************************************)
EXTENDS Integers, FiniteSets

CONSTANTS
  Size,           \* exp(2, k): cells of the array and threads of the block
  Inputs,         \* the arrays the host may hold
  IntSum(_, _)    \* IntSum(xs, n) is intsum(Take(xs, n))

Threads == 0 .. Size - 1

ASSUME SizeAssumption == Size \in Nat \ {0}
ASSUME InputsAssumption == Inputs \subseteq [Threads -> Int]
\* What the contracts of intsum and Take say of the sum of a prefix.
ASSUME IntSumAssumption ==
  \A xs \in Inputs :
    /\ IntSum(xs, 0) = 0
    /\ \A n \in Threads : /\ IntSum(xs, n + 1) \in Int
                          /\ IntSum(xs, n + 1) = IntSum(xs, n) + xs[n]

VARIABLES
  host,           \* where the host program is
  q,              \* its loop counter
  host_input,
  host_output,
  output,         \* the array in device memory
  out,            \* ghost: that array when the kernel starts
  offset,         \* per thread
  temp,           \* per thread
  pc              \* per thread

vars == <<host, q, host_input, host_output, output, out, offset, temp, pc>>

HostStates   == {"copy", "launch", "running", "returned"}
ReadPhase    == {"advance", "read", "add", "barrier1", "done"}
WritePhase   == {"write", "barrier2"}

\* partial_prefixsum(out, 0, width)[c]: the sum of the last width cells up to c.
partial_prefixsum(xs, c, width) ==
  IntSum(xs, c + 1) - (IF c + 1 <= width THEN 0 ELSE IntSum(xs, c + 1 - width))

-----------------------------------------------------------------------------
(* The host program. *)

Init ==
  /\ host = "copy"
  /\ q = 0
  /\ host_input \in Inputs
  /\ host_output = [i \in Threads |-> 0]
  /\ output = [i \in Threads |-> 0]
  /\ out = [i \in Threads |-> 0]
  /\ offset = [t \in Threads |-> 1]
  /\ temp = [t \in Threads |-> 0]
  /\ pc = [t \in Threads |-> "idle"]

HostCopy ==
  /\ host = "copy"
  /\ q < Size
  /\ host_output' = [host_output EXCEPT ![q] = host_input[q]]
  /\ q' = q + 1
  /\ UNCHANGED <<host, host_input, output, out, offset, temp, pc>>

HostMemcpy ==
  /\ host = "copy"
  /\ q = Size
  /\ output' = host_output
  /\ host' = "launch"
  /\ UNCHANGED <<q, host_input, host_output, out, offset, temp, pc>>

AfterTest_OneRoundLess(width) == IF 2 * width < Size THEN "read" ELSE "done"
AfterTest(width) == IF width < Size THEN "read" ELSE "done"

Launch_FromZero ==
  /\ host = "launch"
  /\ host' = "running"
  /\ out' = output
  /\ offset' = [t \in Threads |-> 0]
  /\ pc' = [t \in Threads |-> AfterTest(1)]
  /\ UNCHANGED <<q, host_input, host_output, output, temp>>

Launch ==
  /\ host = "launch"
  /\ host' = "running"
  /\ out' = output
  /\ offset' = [t \in Threads |-> 1]
  /\ pc' = [t \in Threads |-> AfterTest(1)]
  /\ UNCHANGED <<q, host_input, host_output, output, temp>>

HostReturn ==
  /\ host = "running"
  /\ \A t \in Threads : pc[t] = "done"
  /\ host' = "returned"
  /\ UNCHANGED <<q, host_input, host_output, output, out, offset, temp, pc>>

hostVars == <<host, q, host_input, host_output>>

-----------------------------------------------------------------------------
(* The kernel. *)

\* temp = output[tid]
ReadOwn(t) ==
  /\ pc[t] = "read"
  /\ temp' = [temp EXCEPT ![t] = output[t]]
  /\ pc' = [pc EXCEPT ![t] = IF t >= offset[t] THEN "add" ELSE "barrier1"]
  /\ UNCHANGED <<hostVars, output, out, offset>>

\* temp = temp + output[tid - offset]
AddOther(t) ==
  /\ pc[t] = "add"
  /\ temp' = [temp EXCEPT ![t] = @ + output[t - offset[t]]]
  /\ pc' = [pc EXCEPT ![t] = "barrier1"]
  /\ UNCHANGED <<hostVars, output, out, offset>>

Barrier1_Missing ==
  \E t \in Threads :
    /\ pc[t] = "barrier1"
    /\ pc' = [pc EXCEPT ![t] = "write"]
    /\ UNCHANGED <<hostVars, output, out, offset, temp>>

Barrier1 ==
  /\ \A t \in Threads : pc[t] = "barrier1"
  /\ pc' = [t \in Threads |-> "write"]
  /\ UNCHANGED <<hostVars, output, out, offset, temp>>

\* The second barrier inside the condition: not all threads reach it.
WriteOwn_SkipsBarrier(t) ==
  /\ pc[t] = "write"
  /\ output' = IF t >= offset[t] THEN [output EXCEPT ![t] = temp[t]] ELSE output
  /\ pc' = [pc EXCEPT ![t] = IF t >= offset[t] THEN "barrier2" ELSE "advance"]
  /\ UNCHANGED <<hostVars, out, offset, temp>>

\* if (tid >= offset) output[tid] = temp
WriteOwn(t) ==
  /\ pc[t] = "write"
  /\ output' = IF t >= offset[t] THEN [output EXCEPT ![t] = temp[t]] ELSE output
  /\ pc' = [pc EXCEPT ![t] = "barrier2"]
  /\ UNCHANGED <<hostVars, out, offset, temp>>

Barrier2 ==
  /\ \A t \in Threads : pc[t] = "barrier2"
  /\ pc' = [t \in Threads |-> "advance"]
  /\ UNCHANGED <<hostVars, output, out, offset, temp>>

\* offset = offset * 2, and the test of the loop
Advance(t) ==
  /\ pc[t] = "advance"
  /\ offset' = [offset EXCEPT ![t] = 2 * @]
  /\ pc' = [pc EXCEPT ![t] = AfterTest(2 * offset[t])]
  /\ UNCHANGED <<hostVars, output, out, temp>>

ThreadStep(t) == ReadOwn(t) \/ AddOther(t) \/ WriteOwn(t) \/ Advance(t)

Next ==
  \/ HostCopy \/ HostMemcpy \/ Launch \/ HostReturn
  \/ \E t \in Threads : ThreadStep(t)
  \/ Barrier1 \/ Barrier2

Spec == Init /\ [][Next]_vars

\* As long as the host, a thread or the whole block at a barrier can go on, one of them does.
\* More is not needed: no step is ever repeated.
FairSpec == Spec /\ WF_vars(Next)

-----------------------------------------------------------------------------
(* Properties. *)

TypeOK ==
  /\ host \in HostStates
  /\ q \in 0 .. Size
  /\ host_input \in [Threads -> Int]
  /\ host_output \in [Threads -> Int]
  /\ output \in [Threads -> Int]
  /\ out \in [Threads -> Int]
  /\ offset \in [Threads -> Nat \ {0}]
  /\ temp \in [Threads -> Int]
  /\ pc \in [Threads -> {"idle"} \cup ReadPhase \cup WritePhase]

\* The cells a thread's next step reads and writes.
Reads(t) ==
  IF pc[t] = "read" THEN {t} ELSE IF pc[t] = "add" THEN {t - offset[t]} ELSE {}
Writes(t) == IF pc[t] = "write" /\ t >= offset[t] THEN {t} ELSE {}

\* No two threads can be about to touch the same cell, one of them to write it: the two
\* barriers separate the reads of a neighbour's cell from the writes, in every round.
DataRaceFree ==
  \A t, u \in Threads :
    t # u => Writes(t) \cap (Reads(u) \cup Writes(u)) = {}

\* Permissions in halves, as the loop invariant and the contracts of the barriers hand
\* them out: half of one's own cell and half of the cell to be added, then all of one's own.
Halves(t, c) ==
  IF pc[t] \in WritePhase THEN IF c = t THEN 2 ELSE 0
  ELSE IF \/ c = t
          \/ pc[t] \in {"read", "add", "barrier1"} /\ c = t - offset[t]
          \/ pc[t] = "advance" /\ c = t - 2 * offset[t]
       THEN 1 ELSE 0

\* The annotated permissions do their work: each access is covered (half a permission to
\* read, a whole one to write), and no cell is handed out more than once: at most both
\* halves, or the whole to one thread.
PermissionsSuffice ==
  host = "running" =>
    \A c \in Threads :
      LET holders == {t \in Threads : Halves(t, c) > 0}
      IN  /\ Cardinality(holders) <= 2
          /\ \A t \in holders : Halves(t, c) = 2 => holders = {t}
          /\ \A t \in Threads : /\ c \in Reads(t) => Halves(t, c) >= 1
                               /\ c \in Writes(t) => Halves(t, c) = 2

\* The loop invariant and the barrier contracts, for the thread's own cell: after a round
\* of width w it holds the sum of the last w cells of the original array, and a thread
\* that the round leaves alone already holds its prefix sum.
WindowSums ==
  host = "running" =>
    \A t \in Threads :
      /\ pc[t] \in {"read", "add", "barrier1", "write"} =>
           output[t] = partial_prefixsum(out, t, offset[t])
      /\ pc[t] \in {"barrier2", "advance"} =>
           output[t] = partial_prefixsum(out, t, 2 * offset[t])
      /\ pc[t] = "barrier1" /\ t >= offset[t] =>
           temp[t] = output[t] + output[t - offset[t]]

\* When a thread has left the kernel, its cell holds the inclusive prefix sum of the array
\* the host had, whatever the other threads are still doing.
PrefixSummed ==
  \A t \in Threads : pc[t] = "done" => output[t] = IntSum(host_input, t + 1)

\* No thread waits for ever at a barrier that another thread does not reach: all go through
\* the same number of rounds, and the host returns.
Terminates == <>(host = "returned")
=============================================================================
