------------------------------ MODULE Blelloch ------------------------------
(***************************************************************************)
(* The exclusive prefix sum of Blelloch as the CUDA kernel of Blelloch.cu: *)
(* an up-sweep that builds a tree of sums in place, and a down-sweep that  *)
(* turns it into prefix sums.  One block of ExpTwo(k) threads shares the   *)
(* array, __syncthreads is a joint step of the block.  StreamCompaction.cu *)
(* holds a copy of this kernel, on another array.                          *)
(***************************************************************************)
EXTENDS ScanFunctions

CONSTANT k           \* the array has ExpTwo(k) cells

VARIABLES
  output,            \* the array
  input_seq,         \* ghost: what it held at the start, as a sequence
  indicator, stride, lvl,   \* per thread; lvl is a ghost variable
  pc                 \* per thread

vars == <<output, input_seq, indicator, stride, lvl, pc>>

Cells == ExpTwo(k)
Threads == 0 .. Cells - 1
SeqOfArray(a) == [i \in 1 .. Cells |-> a[i - 1]]

AfterUp(s) == IF s < Cells THEN "up" ELSE "midBarrier"
AfterDown(s) == IF s >= 1 THEN "down" ELSE "end"

Start(a) ==
  /\ output = a
  /\ input_seq = SeqOfArray(a)
  /\ indicator = [t \in Threads |-> 2 * t + 1]
  /\ stride = [t \in Threads |-> 1]
  /\ lvl = [t \in Threads |-> 1]
  /\ pc = [t \in Threads |-> AfterUp(1)]

\* The thread has a pair of cells to work on in this round.
HasPair(t) == indicator[t] < Cells /\ indicator[t] >= stride[t]

-----------------------------------------------------------------------------
(* The kernel. *)

UpSweep(t) ==
  /\ pc[t] = "up"
  /\ output' = IF HasPair(t)
               THEN [output EXCEPT ![indicator[t]] = @ + output[indicator[t] - stride[t]]]
               ELSE output
  /\ pc' = [pc EXCEPT ![t] = "upBarrier"]
  /\ UNCHANGED <<input_seq, indicator, stride, lvl>>

Barrier_Missing(from, to) ==
  \E t \in Threads :
    /\ pc[t] = from
    /\ pc' = [pc EXCEPT ![t] = to]
    /\ UNCHANGED <<output, input_seq, indicator, stride, lvl>>

Barrier(from, to) ==
  /\ \A t \in Threads : pc[t] = from
  /\ pc' = [t \in Threads |-> to]
  /\ UNCHANGED <<output, input_seq, indicator, stride, lvl>>

UpNext_LeftCell(t) ==
  /\ pc[t] = "upNext"
  /\ indicator' = [indicator EXCEPT ![t] = 2 * @]
  /\ stride' = [stride EXCEPT ![t] = 2 * @]
  /\ lvl' = [lvl EXCEPT ![t] = @ + 1]
  /\ pc' = [pc EXCEPT ![t] = AfterUp(2 * stride[t])]
  /\ UNCHANGED <<output, input_seq>>

UpNext(t) ==
  /\ pc[t] = "upNext"
  /\ indicator' = [indicator EXCEPT ![t] = 2 * @ + 1]
  /\ stride' = [stride EXCEPT ![t] = 2 * @]
  /\ lvl' = [lvl EXCEPT ![t] = @ + 1]
  /\ pc' = [pc EXCEPT ![t] = AfterUp(2 * stride[t])]
  /\ UNCHANGED <<output, input_seq>>

ClearRoot_Kept(t) ==
  /\ pc[t] = "clear"
  /\ indicator' = [indicator EXCEPT ![t] = Cells * t + Cells - 1]
  /\ stride' = [stride EXCEPT ![t] = Cells \div 2]
  /\ lvl' = [lvl EXCEPT ![t] = k - 1]
  /\ pc' = [pc EXCEPT ![t] = AfterDown(Cells \div 2)]
  /\ UNCHANGED <<output, input_seq>>

\* Between the sweeps: the root of the tree becomes zero.  No barrier follows.
ClearRoot(t) ==
  /\ pc[t] = "clear"
  /\ indicator' = [indicator EXCEPT ![t] = Cells * t + Cells - 1]
  /\ stride' = [stride EXCEPT ![t] = Cells \div 2]
  /\ lvl' = [lvl EXCEPT ![t] = k - 1]
  /\ output' = IF Cells * t + Cells - 1 < Cells
               THEN [output EXCEPT ![Cells * t + Cells - 1] = 0]
               ELSE output
  /\ pc' = [pc EXCEPT ![t] = AfterDown(Cells \div 2)]
  /\ UNCHANGED input_seq

\* The right cell gets the sum of both, the left one what the right one held (temp).
DownSweep(t) ==
  /\ pc[t] = "down"
  /\ output' = IF HasPair(t)
               THEN LET right == indicator[t]
                        left  == indicator[t] - stride[t]
                    IN  [output EXCEPT ![right] = @ + output[left], ![left] = output[right]]
               ELSE output
  /\ pc' = [pc EXCEPT ![t] = "downBarrier"]
  /\ UNCHANGED <<input_seq, indicator, stride, lvl>>

DownNext(t) ==
  /\ pc[t] = "downNext"
  /\ indicator' = [indicator EXCEPT ![t] = (@ - 1) \div 2]
  /\ stride' = [stride EXCEPT ![t] = @ \div 2]
  /\ lvl' = [lvl EXCEPT ![t] = @ - 1]
  /\ pc' = [pc EXCEPT ![t] = AfterDown(stride[t] \div 2)]
  /\ UNCHANGED <<output, input_seq>>

ThreadStep(t) == UpSweep(t) \/ UpNext(t) \/ ClearRoot(t) \/ DownSweep(t) \/ DownNext(t)

Barriers ==
  \/ Barrier("upBarrier", "upNext")
  \/ Barrier("midBarrier", "clear")
  \/ Barrier("downBarrier", "downNext")

Next == (\E t \in Threads : ThreadStep(t)) \/ Barriers

-----------------------------------------------------------------------------
(* The ghost state of the annotations, which lvl determines. *)

\* Matrix[i]: the sums of the blocks of ExpTwo(i) cells.
Matrix ==
  LET M[i \in 0 .. k] == IF i = 0 THEN input_seq ELSE implode(M[i - 1]) IN M

\* Matrix_UP[i]: the whole array after i rounds of the up-sweep.
Matrix_UP ==
  LET M[i \in 0 .. k] == IF i = 0 THEN input_seq ELSE up(M[i - 1], ExpTwo(i - 1), 0) IN M

\* temp_seq, which the down-sweep has reached at level l.
temp_seq(l) == psum2(Matrix[l + 1])

\* The invariant of the first loop, of a thread that is about to test its condition.
UpInvariant(t) ==
  LET i == indicator[t]  s == stride[t]  l == lvl[t]
  IN  /\ 1 <= l /\ l <= k + 1
      /\ s = ExpTwo(l - 1) /\ s <= Cells
      /\ i + 1 = ExpTwo(l) * (t + 1)
      /\ Len(Matrix_UP[l - 1]) = Cells
      /\ i < Cells => get(Matrix_UP[l - 1], i) = output[i]
      /\ HasPair(t) => get(Matrix_UP[l - 1], i - s) = output[i - s]
      /\ l = k + 1 => /\ get(Matrix_UP[k], Cells - 1) = intsum(input_seq)
                      /\ get(Matrix_UP[k], (Cells - 1) \div 2) =
                           intsum(Take(input_seq, Cells \div 2))
      /\ Len(Matrix[l - 1]) = ExpTwo(k - l + 1)
      /\ intsum(Matrix[l - 1]) = intsum(input_seq)
      /\ i < Cells /\ 2 * t + 1 < Len(Matrix[l - 1]) =>
           output[i] = get(Matrix[l - 1], 2 * t + 1)
      /\ HasPair(t) /\ 2 * t < Len(Matrix[l - 1]) =>
           output[i - s] = get(Matrix[l - 1], 2 * t)

\* The invariant of the second loop.
DownInvariant(t) ==
  LET i == indicator[t]  s == stride[t]  l == lvl[t]
  IN  /\ -1 <= l /\ l <= k - 1
      /\ s = (IF l >= 0 THEN ExpTwo(l) ELSE 0)
      /\ i + 1 = ExpTwo(l + 1) * (t + 1)
      /\ Len(temp_seq(l)) = ExpTwo(k - (l + 1))
      /\ Matrix[k] = <<intsum(input_seq)>>
      /\ t < Len(temp_seq(l)) /\ i < Cells => output[i] = get(temp_seq(l), t)
      /\ l >= 0 /\ HasPair(t) /\ 2 * t < Len(Matrix[l]) =>
           output[i - s] = get(Matrix[l], 2 * t)

\* What the program assumes after the barrier between the sweeps, and after each barrier of
\* the down-sweep, because it could not be stated as a postcondition of the barrier
\* ("unstability").
AssumedAfterBarrier(t) ==
  LET i == (indicator[t] - 1) \div 2  s == stride[t] \div 2  l == lvl[t]
      root == Cells * t + Cells - 1
  IN  /\ pc[t] = "clear" /\ root < Cells =>
           /\ get(Matrix_UP[l - 1], root) = output[root]
           /\ root >= Cells \div 2 =>
                /\ get(Matrix_UP[l - 1], root - Cells \div 2) = output[root - Cells \div 2]
                /\ 2 * t < Len(Matrix[l - 2]) => output[root - Cells \div 2] = get(Matrix[l - 2], 2 * t)
      /\ pc[t] = "downNext" =>
           /\ t < Len(psum2(Matrix[l])) /\ i < Cells => get(psum2(Matrix[l]), t) = output[i]
           /\ l >= 1 /\ 2 * t < Len(Matrix[l - 1]) /\ i < Cells /\ i >= s =>
                output[i - s] = get(Matrix[l - 1], 2 * t)

-----------------------------------------------------------------------------
(* Permissions. *)

\* The cells that the loop invariants and the barriers give to a thread: its pair, and to
\* thread zero every cell that this round and the later (or earlier) ones leave alone.
Held(t) ==
  LET i == CASE pc[t] = "upNext"   -> 2 * indicator[t] + 1
             [] pc[t] = "downNext" -> (indicator[t] - 1) \div 2
             [] pc[t] = "clear"    -> Cells * t + Cells - 1
             [] OTHER              -> indicator[t]
      s == CASE pc[t] = "upNext"   -> 2 * stride[t]
             [] pc[t] = "downNext" -> stride[t] \div 2
             [] pc[t] = "clear"    -> Cells \div 2
             [] OTHER              -> stride[t]
  IN  {c \in Threads :
         \/ c = i
         \/ c = i - s
         \/ t = 0 /\ s > 0 /\ (c + 1) % s # 0
         \/ t = 0 /\ s = Cells /\ c = Cells - 1}

\* The cells that the thread's next step reads or writes; every such step writes.
Touched(t) ==
  CASE pc[t] \in {"up", "down"} /\ HasPair(t) -> {indicator[t], indicator[t] - stride[t]}
    [] pc[t] = "clear" -> {Cells * t + Cells - 1} \cap Threads
    [] OTHER -> {}

-----------------------------------------------------------------------------
(* Properties. *)

Labels == {"up", "upBarrier", "upNext", "midBarrier", "clear", "down", "downBarrier",
           "downNext", "end"}

TypeOK ==
  /\ output \in [Threads -> Int]
  /\ indicator \in [Threads -> Nat]
  /\ stride \in [Threads -> 0 .. Cells]
  /\ lvl \in [Threads -> -1 .. k + 1]
  /\ pc \in [Threads -> Labels]

\* No two threads are about to touch the same cell: the pairs of a round are disjoint, the
\* clearing of the root needs no barrier, and no thread runs ahead into the next round.
DataRaceFree ==
  \A t, u \in Threads : t # u => Touched(t) \cap Touched(u) = {}

\* The annotated permissions cover every access and give no cell to two threads.
PermissionsSuffice ==
  /\ \A t \in Threads : Touched(t) \subseteq Held(t)
  /\ \A t, u \in Threads : t # u => Held(t) \cap Held(u) = {}

\* The loop invariants hold whenever a thread is at the head of its loop or has just left
\* it, for as long as it stays there; so do the assumptions about the other threads' work.
AnnotationsHold ==
  \A t \in Threads :
    /\ pc[t] \in {"up", "midBarrier"} => UpInvariant(t)
    /\ pc[t] \in {"down", "end"} => DownInvariant(t)
    /\ AssumedAfterBarrier(t)

\* A thread that has finished owns a cell with the exclusive prefix sum of the array.
PrefixSummed ==
  \A t \in Threads :
    pc[t] = "end" => indicator[t] = t /\ output[t] = get(psum2(input_seq), t)
=============================================================================
