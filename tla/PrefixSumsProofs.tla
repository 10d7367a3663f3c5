-------------------------- MODULE PrefixSumsProofs --------------------------
(***************************************************************************)
(* Proofs about the kernels of Kogge-Stone.cu, Blelloch.cu and             *)
(* StreamCompaction.cu, for every number of threads (for the last two, a   *)
(* power of two), every array and every interleaving between two barriers: *)
(* no two threads race for a cell, the first kernel gives the prefix sums, *)
(* the scan the exclusive ones, and the compaction the flagged elements in *)
(* their order.                                                            *)
(*                                                                         *)
(* Kogge-Stone.  The two barriers keep the block in one phase: either all  *)
(* threads are between the second barrier and the first, where cells are   *)
(* only read, or all are between the first and the second, where each      *)
(* writes its own cell.  All threads are in a round of the same width,     *)
(* unless they have doubled it already (Width).  In the read phase each    *)
(* cell holds the sum of a window of that width, so what a thread adds up  *)
(* is a window of twice the width; in the write phase a cell holds the one *)
(* or the other, by whether its thread has written.  A width of Size or    *)
(* more makes the window the whole prefix.                                 *)
(*                                                                         *)
(* The scan.                                                               *)
(* Cell(j, m) is the last cell of the m-th block of ExpTwo(j) cells: in    *)
(* the tree of sums, the m-th node of level j.  The inductive invariant    *)
(* (ScanInv) says where a thread stands (Placed), that all threads are in  *)
(* the same round (OneRound: a thread that has passed a barrier cannot     *)
(* reach the next before all others have passed the first), and what the   *)
(* array holds in that round (Sums): a node holds the sum of its block     *)
(* (Block) until the down-sweep reaches it, and then the sum of all that   *)
(* lies before the block (Ahead).  The nodes of one level are different    *)
(* cells, and a left node of a lower level is none of them (OddDiffers).   *)
(* Nothing need be known of implode, up and Matrix, the ghost sequences by *)
(* which the source carries this over the rounds.                          *)
(*                                                                         *)
(* Compaction adds that a thread's place, the number of flags before it,   *)
(* is another one for each flagged thread, and that each place is taken    *)
(* (EveryPlaceIsTaken).  The recursive functions of the source are dealt   *)
(* with by induction over sets of numbers (DownwardInduction).             *)
(***************************************************************************)
EXTENDS MCPrefixSums, ScanFunctions, FiniteSetTheorems, SequenceTheorems,
        WellFoundedInduction, TLAPS

-----------------------------------------------------------------------------
(* Kogge-Stone.                                                            *)
Window(c, width) == partial_prefixsum(out, c, width)

(* The width of the windows that a thread takes part in.                   *)
Width(t) == IF pc[t] = "advance" THEN 2 * offset[t] ELSE offset[t]

(* The host hands its input to the kernel unchanged.                       *)
HostFaithful ==
  /\ host_input \in Inputs
  /\ \A i \in Threads : i < q => host_output[i] = host_input[i]
  /\ host # "copy" => q = Size
  /\ host = "launch" => output = host_input
  /\ host \in {"running", "returned"} =>
       /\ out = host_input
       /\ \A t \in Threads : pc[t] # "idle"
  /\ host \in {"copy", "launch"} => \A t \in Threads : pc[t] = "idle"

(* The barriers keep the block together.                                   *)
OnePhase ==
  \/ \A t \in Threads : pc[t] \in ReadPhase \cup {"idle"}
  \/ \A t \in Threads : pc[t] \in WritePhase

OneWidth ==
  host \in {"running", "returned"} => \A t, u \in Threads : Width(t) = Width(u)

RoundsInTime ==
  \A t \in Threads :
    /\ pc[t] = "add" => t >= offset[t]
    /\ pc[t] = "done" => offset[t] >= Size

(* What the cells and the temporaries of the threads hold.                 *)
CellsHold ==
  \A t \in Threads :
    /\ pc[t] \in ReadPhase => output[t] = Window(t, Width(t))
    /\ pc[t] = "add" => temp[t] = Window(t, offset[t])
    /\ pc[t] \in {"barrier1", "write"} /\ t >= offset[t] =>
         temp[t] = Window(t, 2 * offset[t])
    /\ pc[t] = "write" => output[t] = Window(t, offset[t])
    /\ pc[t] = "barrier2" => output[t] = Window(t, 2 * offset[t])

KoggeStoneInv == TypeOK /\ HostFaithful /\ OnePhase /\ OneWidth /\ RoundsInTime /\ CellsHold

-----------------------------------------------------------------------------
(* Windows. *)

(* A sum is an integer.                                                    *)
LEMMA IntSumIsInt ==
  ASSUME NEW xs \in Inputs, NEW n \in 0 .. Size
  PROVE  IntSum(xs, n) \in Int
<1>1. CASE n = 0
  BY <1>1, IntSumAssumption
<1>2. CASE n # 0
  <2>1. n - 1 \in Threads /\ n = (n - 1) + 1
    BY <1>2, SizeAssumption DEF Threads
  <2> QED BY <2>1, IntSumAssumption
<1> QED BY <1>1, <1>2

(* So is a window of it.                                                   *)
LEMMA WindowIsInt ==
  ASSUME NEW xs \in Inputs, NEW c \in Threads, NEW w \in Nat \ {0}
  PROVE  partial_prefixsum(xs, c, w) \in Int
<1>1. c + 1 \in 0 .. Size
  BY SizeAssumption DEF Threads
<1>2. CASE c + 1 <= w
  BY <1>1, <1>2, IntSumIsInt DEF partial_prefixsum, Threads
<1>3. CASE ~(c + 1 <= w)
  <2>1. c + 1 - w \in 0 .. Size
    BY <1>3, SizeAssumption DEF Threads
  <2> QED BY <1>1, <1>3, <2>1, IntSumIsInt DEF partial_prefixsum, Threads
<1> QED BY <1>2, <1>3

(* A window of width 1 is the cell itself.                                 *)
LEMMA WindowOfOne ==
  ASSUME NEW xs \in Inputs, NEW c \in Threads
  PROVE  partial_prefixsum(xs, c, 1) = xs[c]
<1>1. IntSum(xs, c + 1) = IntSum(xs, c) + xs[c] /\ IntSum(xs, 0) = 0
  BY IntSumAssumption
<1>2. xs[c] \in Int
  BY InputsAssumption
<1>3. IntSum(xs, c) \in Int
  BY IntSumIsInt, SizeAssumption DEF Threads
<1>4. CASE c = 0
  BY <1>1, <1>2, <1>4 DEF partial_prefixsum
<1>5. CASE c # 0
  <2>1. ~(c + 1 <= 1) /\ c + 1 - 1 = c
    BY <1>5, SizeAssumption DEF Threads
  <2> QED BY <1>1, <1>2, <1>3, <2>1 DEF partial_prefixsum
<1> QED BY <1>4, <1>5

(* Two neighbouring windows make one of twice the width.                   *)
LEMMA WindowsJoin ==
  ASSUME NEW xs \in Inputs, NEW c \in Threads, NEW w \in Nat \ {0}, c >= w
  PROVE  /\ c - w \in Threads
         /\ partial_prefixsum(xs, c, 2 * w)
              = partial_prefixsum(xs, c, w) + partial_prefixsum(xs, c - w, w)
<1>1. c - w \in Threads /\ ~(c + 1 <= w) /\ c - w + 1 = c + 1 - w
  BY SizeAssumption DEF Threads
<1>2. c + 1 \in 0 .. Size /\ c + 1 - w \in 0 .. Size
  BY SizeAssumption DEF Threads
<1>3. IntSum(xs, c + 1) \in Int /\ IntSum(xs, c + 1 - w) \in Int
  BY <1>2, IntSumIsInt
<1>4. partial_prefixsum(xs, c, w) = IntSum(xs, c + 1) - IntSum(xs, c + 1 - w)
  BY <1>1 DEF partial_prefixsum
<1>5. CASE c + 1 <= 2 * w
  <2>1. c - w + 1 <= w
    BY <1>5 DEF Threads
  <2>2. partial_prefixsum(xs, c - w, w) = IntSum(xs, c + 1 - w) - 0
    BY <1>1, <2>1 DEF partial_prefixsum
  <2>3. partial_prefixsum(xs, c, 2 * w) = IntSum(xs, c + 1) - 0
    BY <1>5 DEF partial_prefixsum
  <2> QED BY <1>1, <1>3, <1>4, <2>2, <2>3
<1>6. CASE ~(c + 1 <= 2 * w)
  <2>1. ~(c - w + 1 <= w) /\ c - w + 1 - w = c + 1 - 2 * w /\ c + 1 - 2 * w \in 0 .. Size
    BY <1>6, SizeAssumption DEF Threads
  <2>2. IntSum(xs, c + 1 - 2 * w) \in Int
    BY <2>1, IntSumIsInt
  <2>3. partial_prefixsum(xs, c - w, w) = IntSum(xs, c - w + 1) - IntSum(xs, c - w + 1 - w)
    BY <2>1 DEF partial_prefixsum
  <2>4. partial_prefixsum(xs, c, 2 * w) = IntSum(xs, c + 1) - IntSum(xs, c + 1 - 2 * w)
    BY <1>6 DEF partial_prefixsum
  <2> QED BY <1>1, <1>3, <1>4, <2>1, <2>2, <2>3, <2>4
<1> QED BY <1>5, <1>6

(* A window wider than the prefix is the prefix.                           *)
LEMMA WideWindow ==
  ASSUME NEW xs \in Inputs, NEW c \in Threads, NEW w \in Nat, c < w
  PROVE  partial_prefixsum(xs, c, w) = IntSum(xs, c + 1)
<1>1. c + 1 <= w /\ c + 1 \in 0 .. Size
  BY SizeAssumption DEF Threads
<1>2. IntSum(xs, c + 1) \in Int
  BY <1>1, IntSumIsInt
<1> QED BY <1>1, <1>2 DEF partial_prefixsum

-----------------------------------------------------------------------------
(* The invariant. *)

LEMMA InitInv == Init => KoggeStoneInv
<1> SUFFICES ASSUME Init PROVE KoggeStoneInv
  OBVIOUS
<1> USE DEF Init, Threads
<1>1. TypeOK
  BY SizeAssumption, InputsAssumption DEF TypeOK, HostStates
<1>2. HostFaithful
  BY SizeAssumption DEF HostFaithful
<1>3. OnePhase
  BY DEF OnePhase
<1>4. OneWidth
  BY DEF OneWidth
<1>5. RoundsInTime
  BY DEF RoundsInTime
<1>6. CellsHold
  BY DEF CellsHold, ReadPhase
<1> QED BY <1>1, <1>2, <1>3, <1>4, <1>5, <1>6 DEF KoggeStoneInv

(* The steps of the host and the barriers.                                 *)
LEMMA HostCopyInv == KoggeStoneInv /\ HostCopy => KoggeStoneInv'
<1> SUFFICES ASSUME KoggeStoneInv, HostCopy PROVE KoggeStoneInv'
  OBVIOUS
<1> USE DEF KoggeStoneInv, HostCopy
<1>1. TypeOK'
  BY SizeAssumption, SMTT(60) DEF TypeOK, Threads
<1>2. HostFaithful'
  BY SizeAssumption, SMTT(60) DEF HostFaithful, TypeOK, Threads
<1>3. OnePhase' /\ OneWidth' /\ RoundsInTime' /\ CellsHold'
  BY DEF OnePhase, OneWidth, Width, RoundsInTime, CellsHold, Window
<1> QED BY <1>1, <1>2, <1>3

LEMMA HostMemcpyInv == KoggeStoneInv /\ HostMemcpy => KoggeStoneInv'
<1> SUFFICES ASSUME KoggeStoneInv, HostMemcpy PROVE KoggeStoneInv'
  OBVIOUS
<1> USE DEF KoggeStoneInv, HostMemcpy
<1>1. TypeOK'
  BY DEF TypeOK, HostStates
<1>2. output' = host_input
  BY SizeAssumption DEF HostFaithful, TypeOK, Threads
<1>3. \A t \in Threads : pc[t] = "idle"
  BY DEF HostFaithful
<1>4. HostFaithful'
  BY <1>2, <1>3 DEF HostFaithful
<1>5. OnePhase' /\ OneWidth' /\ RoundsInTime'
  BY DEF OnePhase, OneWidth, RoundsInTime
<1>6. CellsHold'
  BY <1>3 DEF CellsHold, ReadPhase
<1> QED BY <1>1, <1>4, <1>5, <1>6

LEMMA LaunchInv == KoggeStoneInv /\ Launch => KoggeStoneInv'
<1> SUFFICES ASSUME KoggeStoneInv, Launch PROVE KoggeStoneInv'
  OBVIOUS
<1> USE DEF KoggeStoneInv, Launch
<1>1. \A t \in Threads : pc'[t] = AfterTest(1) /\ offset'[t] = 1
  OBVIOUS
<1>2. AfterTest(1) \in {"read", "done"} /\ (AfterTest(1) = "done" => 1 >= Size)
  BY SizeAssumption DEF AfterTest
<1>3. out' = host_input /\ output' = host_input /\ host_input \in Inputs
  BY DEF HostFaithful
<1>4. TypeOK'
  BY <1>2 DEF TypeOK, HostStates, ReadPhase
<1>5. HostFaithful'
  BY <1>1, <1>2, <1>3 DEF HostFaithful
<1>6. OnePhase' /\ RoundsInTime'
  BY <1>1, <1>2 DEF OnePhase, RoundsInTime, ReadPhase
<1>7. OneWidth'
  BY <1>1, <1>2 DEF OneWidth, Width
<1>8. CellsHold'
  <2> SUFFICES ASSUME NEW t \in Threads
               PROVE  output'[t] = partial_prefixsum(out', t, 1)
    BY <1>1, <1>2 DEF CellsHold, Window, Width, ReadPhase
  <2> QED BY <1>3, WindowOfOne
<1> QED BY <1>4, <1>5, <1>6, <1>7, <1>8

LEMMA HostReturnInv == KoggeStoneInv /\ HostReturn => KoggeStoneInv'
<1> SUFFICES ASSUME KoggeStoneInv, HostReturn PROVE KoggeStoneInv'
  OBVIOUS
<1> USE DEF KoggeStoneInv, HostReturn
<1>1. TypeOK' /\ HostFaithful'
  BY DEF TypeOK, HostStates, HostFaithful
<1>2. OnePhase' /\ OneWidth' /\ RoundsInTime' /\ CellsHold'
  BY DEF OnePhase, OneWidth, Width, RoundsInTime, CellsHold, Window
<1> QED BY <1>1, <1>2

LEMMA Barrier1Inv == KoggeStoneInv /\ Barrier1 => KoggeStoneInv'
<1> SUFFICES ASSUME KoggeStoneInv, Barrier1 PROVE KoggeStoneInv'
  OBVIOUS
<1> USE DEF KoggeStoneInv, Barrier1, hostVars
<1>1. \A t \in Threads : pc[t] = "barrier1" /\ pc'[t] = "write"
  OBVIOUS
<1>2. TypeOK' /\ HostFaithful'
  BY DEF TypeOK, WritePhase, HostFaithful
<1>3. OnePhase' /\ OneWidth' /\ RoundsInTime'
  BY <1>1 DEF OnePhase, OneWidth, Width, RoundsInTime, WritePhase
<1>4. CellsHold'
  BY <1>1 DEF CellsHold, Window, Width, ReadPhase
<1> QED BY <1>2, <1>3, <1>4

LEMMA Barrier2Inv == KoggeStoneInv /\ Barrier2 => KoggeStoneInv'
<1> SUFFICES ASSUME KoggeStoneInv, Barrier2 PROVE KoggeStoneInv'
  OBVIOUS
<1> USE DEF KoggeStoneInv, Barrier2, hostVars
<1>1. \A t \in Threads : pc[t] = "barrier2" /\ pc'[t] = "advance"
  OBVIOUS
<1>2. TypeOK' /\ HostFaithful'
  BY DEF TypeOK, ReadPhase, HostFaithful
<1>3. OnePhase' /\ OneWidth' /\ RoundsInTime'
  BY <1>1 DEF OnePhase, OneWidth, Width, RoundsInTime, ReadPhase
<1>4. CellsHold'
  BY <1>1 DEF CellsHold, Window, Width, ReadPhase
<1> QED BY <1>2, <1>3, <1>4

(* A thread that is not idle: its block runs, and its window is of the     *)
(* host's array.                                                           *)
LEMMA Busy ==
  ASSUME KoggeStoneInv, NEW t \in Threads, pc[t] # "idle"
  PROVE  /\ host \in {"running", "returned"} /\ out \in Inputs
         /\ offset[t] \in Nat \ {0}
         /\ \A u \in Threads : Width(u) = Width(t) /\ pc[u] # "idle"
<1>1. host \in {"running", "returned"}
  BY DEF KoggeStoneInv, HostFaithful, TypeOK, HostStates
<1> QED BY <1>1 DEF KoggeStoneInv, HostFaithful, OneWidth, TypeOK

(* The steps of a thread.                                                  *)
LEMMA ReadOwnInv == KoggeStoneInv /\ (\E t \in Threads : ReadOwn(t)) => KoggeStoneInv'
<1> SUFFICES ASSUME KoggeStoneInv, NEW t \in Threads, ReadOwn(t) PROVE KoggeStoneInv'
  OBVIOUS
<1> USE DEF ReadOwn, hostVars
<1>1. /\ offset[t] \in Nat \ {0} /\ out \in Inputs
      /\ output[t] = Window(t, offset[t])
  BY Busy DEF KoggeStoneInv, CellsHold, Width, ReadPhase
<1>2. /\ pc'[t] = (IF t >= offset[t] THEN "add" ELSE "barrier1")
      /\ temp'[t] = output[t]
      /\ \A u \in Threads \ {t} : pc'[u] = pc[u] /\ temp'[u] = temp[u]
  BY DEF KoggeStoneInv, TypeOK
<1>3. TypeOK'
  BY DEF KoggeStoneInv, TypeOK, ReadPhase
<1>4. HostFaithful'
  BY DEF KoggeStoneInv, HostFaithful
<1>5. OnePhase'
  BY <1>2 DEF KoggeStoneInv, OnePhase, ReadPhase, WritePhase
<1>6. OneWidth'
  BY <1>2 DEF KoggeStoneInv, OneWidth, Width
<1>7. RoundsInTime'
  BY <1>2 DEF KoggeStoneInv, RoundsInTime
<1>8. CellsHold'
  <2>1. Width(t)' = offset[t]
    BY <1>2 DEF Width
  <2>2. \A u \in Threads \ {t} : Width(u)' = Width(u)
    BY <1>2 DEF Width
  <2> QED BY <1>1, <1>2, <2>1, <2>2 DEF KoggeStoneInv, CellsHold, Window, ReadPhase, Threads
<1> QED BY <1>3, <1>4, <1>5, <1>6, <1>7, <1>8 DEF KoggeStoneInv

LEMMA AddOtherInv == KoggeStoneInv /\ (\E t \in Threads : AddOther(t)) => KoggeStoneInv'
<1> SUFFICES ASSUME KoggeStoneInv, NEW t \in Threads, AddOther(t) PROVE KoggeStoneInv'
  OBVIOUS
<1> DEFINE other == t - offset[t]
<1> USE DEF AddOther, hostVars
<1>1. /\ offset[t] \in Nat \ {0} /\ out \in Inputs /\ t >= offset[t]
      /\ temp[t] = Window(t, offset[t])
  BY Busy DEF KoggeStoneInv, CellsHold, RoundsInTime
<1>2. /\ other \in Threads
      /\ Window(t, 2 * offset[t]) = Window(t, offset[t]) + Window(other, offset[t])
  BY <1>1, WindowsJoin DEF Window
<1>3. Width(other) = offset[t] /\ pc[other] # "idle"
  BY <1>2, Busy DEF Width
<1>4. pc[other] \in ReadPhase
  BY <1>2, <1>3 DEF KoggeStoneInv, OnePhase, WritePhase
<1>5. output[other] = Window(other, offset[t])
  BY <1>2, <1>3, <1>4 DEF KoggeStoneInv, CellsHold
<1>6. /\ pc'[t] = "barrier1"
      /\ temp'[t] = Window(t, 2 * offset[t])
      /\ \A u \in Threads \ {t} : pc'[u] = pc[u] /\ temp'[u] = temp[u]
  BY <1>1, <1>2, <1>5 DEF KoggeStoneInv, TypeOK
<1>7. TypeOK'
  BY <1>2 DEF KoggeStoneInv, TypeOK, ReadPhase
<1>8. HostFaithful'
  BY DEF KoggeStoneInv, HostFaithful
<1>9. OnePhase'
  BY <1>6 DEF KoggeStoneInv, OnePhase, ReadPhase, WritePhase
<1>10. OneWidth' /\ RoundsInTime'
  BY <1>6 DEF KoggeStoneInv, OneWidth, Width, RoundsInTime
<1>11. CellsHold'
  <2>1. Width(t)' = Width(t) /\ \A u \in Threads \ {t} : Width(u)' = Width(u)
    BY <1>6 DEF Width
  <2>2. output'[t] = Window(t, Width(t))
    BY DEF KoggeStoneInv, CellsHold, ReadPhase
  <2> QED BY <1>6, <2>1, <2>2 DEF KoggeStoneInv, CellsHold, Window
<1> QED BY <1>7, <1>8, <1>9, <1>10, <1>11 DEF KoggeStoneInv

LEMMA WriteOwnInv == KoggeStoneInv /\ (\E t \in Threads : WriteOwn(t)) => KoggeStoneInv'
<1> SUFFICES ASSUME KoggeStoneInv, NEW t \in Threads, WriteOwn(t) PROVE KoggeStoneInv'
  OBVIOUS
<1> USE DEF WriteOwn, hostVars
<1>1. /\ offset[t] \in Nat \ {0} /\ out \in Inputs /\ host \in {"running", "returned"}
      /\ output[t] = Window(t, offset[t])
      /\ t >= offset[t] => temp[t] = Window(t, 2 * offset[t])
  BY Busy DEF KoggeStoneInv, CellsHold
<1>2. output'[t] = Window(t, 2 * offset[t])
  <2>1. CASE t >= offset[t]
    BY <1>1, <2>1 DEF KoggeStoneInv, TypeOK
  <2>2. CASE ~(t >= offset[t])
    <3>1. t \in Int /\ t < offset[t] /\ t < 2 * offset[t]
      BY <1>1, <2>2, SizeAssumption DEF Threads
    <3>2. Window(t, offset[t]) = IntSum(out, t + 1) /\ Window(t, 2 * offset[t]) = IntSum(out, t + 1)
      BY <1>1, <3>1, WideWindow DEF Window
    <3> QED BY <1>1, <2>2, <3>2
  <2> QED BY <2>1, <2>2
<1>3. /\ pc'[t] = "barrier2"
      /\ \A u \in Threads \ {t} : pc'[u] = pc[u] /\ output'[u] = output[u]
  BY DEF KoggeStoneInv, TypeOK
<1>4. TypeOK'
  BY DEF KoggeStoneInv, TypeOK, WritePhase
<1>5. HostFaithful'
  BY <1>1, <1>3 DEF KoggeStoneInv, HostFaithful
<1>6. OnePhase'
  BY <1>3 DEF KoggeStoneInv, OnePhase, ReadPhase, WritePhase
<1>7. OneWidth' /\ RoundsInTime'
  BY <1>3 DEF KoggeStoneInv, OneWidth, Width, RoundsInTime
<1>8. CellsHold'
  <2>1. \A u \in Threads : Width(u)' = Width(u)
    BY <1>3 DEF Width
  <2> QED BY <1>2, <1>3, <2>1 DEF KoggeStoneInv, CellsHold, Window, ReadPhase
<1> QED BY <1>4, <1>5, <1>6, <1>7, <1>8 DEF KoggeStoneInv

LEMMA AdvanceInv == KoggeStoneInv /\ (\E t \in Threads : Advance(t)) => KoggeStoneInv'
<1> SUFFICES ASSUME KoggeStoneInv, NEW t \in Threads, Advance(t) PROVE KoggeStoneInv'
  OBVIOUS
<1> USE DEF Advance, hostVars
<1>1. /\ offset[t] \in Nat \ {0}
      /\ output[t] = Window(t, 2 * offset[t])
  BY Busy DEF KoggeStoneInv, CellsHold, Width, ReadPhase
<1>2. /\ pc'[t] = AfterTest(2 * offset[t]) /\ offset'[t] = 2 * offset[t]
      /\ \A u \in Threads \ {t} : pc'[u] = pc[u] /\ offset'[u] = offset[u]
  BY DEF KoggeStoneInv, TypeOK
<1>3. /\ AfterTest(2 * offset[t]) \in {"read", "done"}
      /\ AfterTest(2 * offset[t]) = "done" => 2 * offset[t] >= Size
  BY <1>1, SizeAssumption DEF AfterTest
<1>4. TypeOK'
  BY <1>1, <1>3 DEF KoggeStoneInv, TypeOK, ReadPhase
<1>5. HostFaithful'
  <2>1. \A u \in Threads : pc'[u] = "idle" => pc[u] = "idle"
    BY <1>2, <1>3
  <2> QED BY <2>1, Busy DEF KoggeStoneInv, HostFaithful
<1>6. OnePhase'
  BY <1>2, <1>3 DEF KoggeStoneInv, OnePhase, ReadPhase, WritePhase
<1>7. \A u \in Threads : Width(u)' = Width(u)
  BY <1>2, <1>3 DEF Width
<1>8. OneWidth' /\ RoundsInTime'
  BY <1>2, <1>3, <1>7 DEF KoggeStoneInv, OneWidth, RoundsInTime
<1>9. CellsHold'
  BY <1>1, <1>2, <1>3, <1>7 DEF KoggeStoneInv, CellsHold, Window, ReadPhase, Width
<1> QED BY <1>4, <1>5, <1>6, <1>8, <1>9 DEF KoggeStoneInv

LEMMA StutterInv == KoggeStoneInv /\ UNCHANGED vars => KoggeStoneInv'
BY DEF KoggeStoneInv, vars, TypeOK, HostFaithful, OnePhase, OneWidth, Width, RoundsInTime,
       CellsHold, Window

(* The inductive invariant.                                                *)
THEOREM KernelInvariant == Spec => []KoggeStoneInv
<1>1. KoggeStoneInv /\ [Next]_vars => KoggeStoneInv'
  BY HostCopyInv, HostMemcpyInv, LaunchInv, HostReturnInv, Barrier1Inv, Barrier2Inv,
     ReadOwnInv, AddOtherInv, WriteOwnInv, AdvanceInv, StutterInv DEF Next, ThreadStep
<1> QED BY <1>1, InitInv, PTL DEF Spec

(* Every variable keeps its type: in particular the offsets stay positive. *)
THEOREM KernelTyped == Spec => []TypeOK
<1>1. KoggeStoneInv => TypeOK
  BY DEF KoggeStoneInv
<1> QED BY <1>1, KernelInvariant, PTL

(* No two threads are about to touch one cell, one of them to write it, in *)
(* any interleaving of any number of threads.                              *)
THEOREM NoDataRace == Spec => []DataRaceFree
<1>1. KoggeStoneInv => DataRaceFree
  <2> SUFFICES ASSUME KoggeStoneInv, NEW t \in Threads, NEW u \in Threads, t # u
               PROVE  Writes(t) \cap (Reads(u) \cup Writes(u)) = {}
    BY DEF DataRaceFree
  <2>1. CASE pc[t] = "write"
    <3>1. pc[u] \in WritePhase
      BY <2>1 DEF KoggeStoneInv, OnePhase, ReadPhase
    <3>2. Reads(u) = {}
      BY <3>1 DEF Reads, WritePhase
    <3> QED BY <3>2 DEF Writes
  <2>2. CASE pc[t] # "write"
    BY <2>2 DEF Writes
  <2> QED BY <2>1, <2>2
<1> QED BY <1>1, KernelInvariant, PTL

(* The annotations about the sums: a cell holds the sum of the last        *)
(* offset, or 2 * offset, cells of the array the kernel was given.         *)
THEOREM WindowsAsAnnotated == Spec => []WindowSums
<1>1. KoggeStoneInv => WindowSums
  <2> SUFFICES ASSUME KoggeStoneInv, NEW t \in Threads
               PROVE
      /\ pc[t] \in {"read", "add", "barrier1", "write"} =>
           output[t] = partial_prefixsum(out, t, offset[t])
      /\ pc[t] \in {"barrier2", "advance"} =>
           output[t] = partial_prefixsum(out, t, 2 * offset[t])
      /\ pc[t] = "barrier1" /\ t >= offset[t] =>
           temp[t] = output[t] + output[t - offset[t]]
    BY DEF WindowSums
  <2>1. pc[t] \in {"read", "add", "barrier1", "write"} => output[t] = Window(t, offset[t])
    BY DEF KoggeStoneInv, CellsHold, ReadPhase, Width
  <2>2. pc[t] \in {"barrier2", "advance"} => output[t] = Window(t, 2 * offset[t])
    BY DEF KoggeStoneInv, CellsHold, ReadPhase, Width
  <2>3. ASSUME pc[t] = "barrier1", t >= offset[t]
        PROVE  temp[t] = output[t] + output[t - offset[t]]
    <3>1. /\ offset[t] \in Nat \ {0} /\ out \in Inputs
          /\ temp[t] = Window(t, 2 * offset[t])
      BY <2>3, Busy DEF KoggeStoneInv, CellsHold
    <3>2. /\ t - offset[t] \in Threads
          /\ Window(t, 2 * offset[t])
               = Window(t, offset[t]) + Window(t - offset[t], offset[t])
      BY <2>3, <3>1, WindowsJoin DEF Window
    <3>3. Width(t - offset[t]) = offset[t] /\ pc[t - offset[t]] # "idle"
      BY <2>3, <3>2, Busy DEF Width
    <3>4. pc[t - offset[t]] \in ReadPhase
      BY <2>3, <3>2, <3>3 DEF KoggeStoneInv, OnePhase, WritePhase
    <3>5. output[t - offset[t]] = Window(t - offset[t], offset[t])
      BY <3>2, <3>3, <3>4 DEF KoggeStoneInv, CellsHold
    <3> QED BY <2>1, <2>3, <3>1, <3>2, <3>5
  <2> QED BY <2>1, <2>2, <2>3 DEF Window
<1> QED BY <1>1, KernelInvariant, PTL

(* A thread that has left the kernel leaves the prefix sum of the host's   *)
(* array in its cell, for every array and every number of threads.         *)
THEOREM SumsAtTheEnd == Spec => []PrefixSummed
<1>1. KoggeStoneInv => PrefixSummed
  <2> SUFFICES ASSUME KoggeStoneInv, NEW t \in Threads, pc[t] = "done"
               PROVE  output[t] = IntSum(host_input, t + 1)
    BY DEF PrefixSummed
  <2>1. out = host_input /\ out \in Inputs /\ offset[t] \in Nat \ {0}
    BY Busy DEF KoggeStoneInv, HostFaithful
  <2>2. output[t] = Window(t, offset[t])
    BY DEF KoggeStoneInv, CellsHold, ReadPhase, Width
  <2>3. t < offset[t]
    BY <2>1, SizeAssumption DEF KoggeStoneInv, RoundsInTime, Threads
  <2> QED BY <2>1, <2>2, <2>3, WideWindow DEF Window
<1> QED BY <1>1, KernelInvariant, PTL

(* A subset of a pair.                                                     *)
LEMMA AtMostTwo ==
  ASSUME NEW a, NEW b, NEW S, S \subseteq {a, b}
  PROVE  Cardinality(S) <= 2 /\ Cardinality(S) \in Nat
<1>1. IsFiniteSet({a}) /\ Cardinality({a}) = 1
  BY FS_Singleton
<1>2. IsFiniteSet({a} \cup {b}) /\ Cardinality({a} \cup {b}) \in {1, 2}
  BY <1>1, FS_AddElement
<1>3. S \subseteq {a} \cup {b}
  OBVIOUS
<1>4. Cardinality(S) <= Cardinality({a} \cup {b}) /\ IsFiniteSet(S)
  BY <1>2, <1>3, FS_Subset
<1>5. Cardinality(S) \in Nat
  BY <1>4, FS_CardinalityType
<1> QED BY <1>2, <1>4, <1>5

(* The halves of permissions that the annotations hand out cover every     *)
(* access and never exceed one whole permission for a cell.                *)
THEOREM PermissionsAsAnnotated == Spec => []PermissionsSuffice
<1>1. KoggeStoneInv => PermissionsSuffice
  <2> SUFFICES ASSUME KoggeStoneInv, host = "running", NEW c \in Threads
               PROVE
        LET holders == {t \in Threads : Halves(t, c) > 0}
        IN  /\ Cardinality(holders) <= 2
            /\ \A t \in holders : Halves(t, c) = 2 => holders = {t}
            /\ \A t \in Threads : /\ c \in Reads(t) => Halves(t, c) >= 1
                                 /\ c \in Writes(t) => Halves(t, c) = 2
    BY DEF PermissionsSuffice
  <2> DEFINE holders == {t \in Threads : Halves(t, c) > 0}
             w == Width(c)
  <2>1. /\ w \in Nat \ {0}
        /\ \A t \in Threads : Width(t) = w /\ pc[t] # "idle" /\ offset[t] \in Nat \ {0}
    BY DEF KoggeStoneInv, HostFaithful, OneWidth, TypeOK, Width
  <2>2. CASE \A t \in Threads : pc[t] \in WritePhase
    <3>1. \A t \in Threads : Halves(t, c) = IF c = t THEN 2 ELSE 0
      BY <2>2 DEF Halves
    <3>2. holders = {c}
      BY <3>1
    <3>3. Cardinality(holders) <= 2
      BY <3>2, AtMostTwo
    <3>4. \A t \in Threads : Reads(t) = {} /\ (c \in Writes(t) => c = t)
      BY <2>2 DEF Reads, Writes, WritePhase
    <3> QED BY <3>1, <3>2, <3>3, <3>4
  <2>3. CASE \A t \in Threads : pc[t] \in ReadPhase
    <3>1. ASSUME NEW t \in Threads
          PROVE  /\ Halves(t, c) \in {0, 1}
                 /\ Halves(t, c) = 1 => t = c \/ t = c + w
                 /\ c \in Reads(t) => Halves(t, c) = 1
                 /\ c \notin Writes(t)
      <4>1. t \in Int /\ c \in Int
        BY SizeAssumption DEF Threads
      <4>2. CASE pc[t] \in {"read", "add", "barrier1"}
        <5>1. offset[t] = w
          BY <2>1, <4>2 DEF Width
        <5> QED BY <2>1, <4>1, <4>2, <5>1 DEF Halves, Reads, Writes, WritePhase
      <4>3. CASE pc[t] = "advance"
        <5>1. 2 * offset[t] = w
          BY <2>1, <4>3 DEF Width
        <5> QED BY <2>1, <4>1, <4>3, <5>1 DEF Halves, Reads, Writes, WritePhase
      <4>4. CASE pc[t] = "done"
        BY <4>4 DEF Halves, Reads, Writes, WritePhase
      <4> QED BY <2>3, <4>2, <4>3, <4>4 DEF ReadPhase
    <3>2. holders \subseteq {c, c + w}
      BY <3>1
    <3>3. Cardinality(holders) <= 2
      BY <3>2, AtMostTwo
    <3> QED BY <3>1, <3>3
  <2>4. \/ \A t \in Threads : pc[t] \in ReadPhase
        \/ \A t \in Threads : pc[t] \in WritePhase
    BY <2>1 DEF KoggeStoneInv, OnePhase
  <2> QED BY <2>2, <2>3, <2>4
<1> QED BY <1>1, KernelInvariant, PTL

-----------------------------------------------------------------------------
(* Induction, and functions that are defined by it.                        *)

\* A set of naturals that is not empty has a least element.
LEMMA LeastNumber ==
  ASSUME NEW T, T \subseteq Nat, T # {}
  PROVE  \E x \in T : \A y \in T : x <= y
<1>1. IsWellFoundedOn(OpToRel(<, Nat), Nat)
  BY NatLessThanWellFounded
<1>2. PICK x \in T : \A y \in T : ~(<<y, x>> \in OpToRel(<, Nat))
  BY <1>1, WFMin
<1>3. \A y \in T : ~(y < x)
  BY <1>2 DEF OpToRel
<1> QED
  BY <1>3

\* A set that holds 0 and, with a number, the next, holds all naturals.
LEMMA UpwardInduction ==
  ASSUME NEW T, 0 \in T, \A n \in Nat : n \in T => n + 1 \in T
  PROVE  Nat \subseteq T
<1> DEFINE U == Nat \ T
<1>1. SUFFICES ASSUME U # {} PROVE FALSE
  OBVIOUS
<1>2. PICK x \in U : \A y \in U : x <= y
  BY <1>1, LeastNumber
<1>3. x # 0 /\ x - 1 \in Nat /\ x - 1 \notin U
  BY <1>2
<1> QED
  BY <1>2, <1>3

\* From n down to 0.
LEMMA DownwardInduction ==
  ASSUME NEW n \in Nat, NEW T, n \in T, \A i \in 0 .. n - 1 : i + 1 \in T => i \in T
  PROVE  0 .. n \subseteq T
<1> DEFINE U == {j \in Nat : j <= n => n - j \in T}
<1>1. 0 \in U
  OBVIOUS
<1>2. ASSUME NEW j \in Nat, j \in U, j + 1 <= n
      PROVE  n - (j + 1) \in T
  <2>1. n - (j + 1) \in 0 .. n - 1 /\ (n - (j + 1)) + 1 = n - j /\ n - j \in T
    BY <1>2
  <2> QED
    BY <2>1
<1>3. Nat \subseteq U
  <2> HIDE DEF U
  <2>1. \A j \in Nat : j \in U => j + 1 \in U
    BY <1>2 DEF U
  <2> QED
    BY <1>1, <2>1, UpwardInduction
<1>4. ASSUME NEW i \in 0 .. n PROVE i \in T
  <2>1. n - i \in U /\ n - i \in Nat /\ n - (n - i) = i
    BY <1>3
  <2> QED
    BY <2>1
<1> QED
  BY <1>4

\* f begins with base and goes on by next, or ends with it and goes back by next.
Steps(n, S) == [0 .. n - 1 -> [S -> S]]
GoesForward(n, S, base, next, f) ==
  f \in [0 .. n -> S] /\ f[0] = base /\ \A i \in 0 .. n - 1 : f[i + 1] = next[i][f[i]]
GoesBack(n, S, base, next, f) ==
  f \in [0 .. n -> S] /\ f[n] = base /\ \A i \in 0 .. n - 1 : f[i] = next[i][f[i + 1]]

\* A function on 0 .. n can be built from its value at 0.
LEMMA ForwardExists ==
  ASSUME NEW n \in Nat, NEW S, NEW base \in S, NEW next \in Steps(n, S)
  PROVE  \E f : GoesForward(n, S, base, next, f)
<1> DEFINE Upto(m, f) == /\ f \in [0 .. m -> S] /\ f[0] = base
                         /\ \A i \in 0 .. m - 1 : f[i + 1] = next[i][f[i]]
           T == {m \in Nat : m <= n => \E f : Upto(m, f)}
<1>1. 0 \in T
  <2>1. Upto(0, [i \in 0 .. 0 |-> base])
    OBVIOUS
  <2> QED
    BY <2>1
<1>2. ASSUME NEW m \in Nat, m \in T, m + 1 <= n
      PROVE  \E f : Upto(m + 1, f)
  <2>1. PICK f : Upto(m, f)
    <3>1. m <= n
      BY <1>2
    <3> HIDE DEF Upto
    <3> QED
      BY <1>2, <3>1
  <2> DEFINE h == [i \in 0 .. m + 1 |-> IF i <= m THEN f[i] ELSE next[m][f[m]]]
  <2>2. m \in 0 .. m /\ f[m] \in S /\ m \in 0 .. n - 1 /\ next[m][f[m]] \in S
    BY <1>2, <2>1 DEF Steps
  <2>3. h \in [0 .. m + 1 -> S] /\ h[0] = base
    BY <2>1, <2>2
  <2>4. ASSUME NEW i \in 0 .. (m + 1) - 1 PROVE h[i + 1] = next[i][h[i]]
    <3>1. CASE i = m
      BY <2>2, <3>1
    <3>2. CASE i \in 0 .. m - 1
      BY <2>1, <3>2
    <3> QED
      BY <3>1, <3>2
  <2>5. Upto(m + 1, h)
    BY <2>3, <2>4
  <2> QED
    BY <2>5
<1>3. n \in T
  <2> HIDE DEF Upto
  <2>1. \A m \in Nat : m \in T => m + 1 \in T
    BY <1>2
  <2> HIDE DEF T
  <2> QED
    BY <1>1, <2>1, UpwardInduction
<1> QED
  BY <1>3 DEF GoesForward

\* A function on 0 .. n can be built from its value at n.
LEMMA BackwardExists ==
  ASSUME NEW n \in Nat, NEW S, NEW base \in S, NEW next \in Steps(n, S)
  PROVE  \E f : GoesBack(n, S, base, next, f)
<1> DEFINE rev == [i \in 0 .. n - 1 |-> next[(n - 1) - i]]
<1>1. rev \in Steps(n, S) /\ \A i \in 0 .. n - 1 : rev[i] = next[(n - 1) - i]
  BY DEF Steps
<1> HIDE DEF rev
<1>2. PICK g : GoesForward(n, S, base, rev, g)
  BY <1>1, ForwardExists
<1> DEFINE f == [i \in 0 .. n |-> g[n - i]]
<1>3. f \in [0 .. n -> S] /\ f[n] = base
  BY <1>2 DEF GoesForward
<1>4. ASSUME NEW i \in 0 .. n - 1 PROVE f[i] = next[i][f[i + 1]]
  <2>1. (n - 1) - i \in 0 .. n - 1 /\ ((n - 1) - i) + 1 = n - i /\ n - (i + 1) = (n - 1) - i
        /\ i + 1 \in 0 .. n /\ (n - 1) - ((n - 1) - i) = i
    OBVIOUS
  <2>2. g[n - i] = rev[(n - 1) - i][g[(n - 1) - i]]
    BY <1>2, <2>1 DEF GoesForward
  <2>3. rev[(n - 1) - i] = next[i]
    BY <1>1, <2>1
  <2> QED
    BY <2>1, <2>2, <2>3
<1> HIDE DEF f
<1> QED
  BY <1>3, <1>4 DEF GoesBack

-----------------------------------------------------------------------------
(* The pure functions.                                                     *)

\* ExpTwo starts at one and doubles.
LEMMA Doubling ==
  /\ ExpTwo(0) = 1
  /\ \A p \in Nat : ExpTwo(p) \in Nat \ {0} /\ ExpTwo(p + 1) = 2 * ExpTwo(p)
<1> DEFINE Pow(p) == CHOOSE f : f = [i \in 0 .. p |-> IF 0 < i THEN 2 * f[i - 1] ELSE 1]
<1>1. ASSUME NEW p \in Nat
      PROVE  /\ ExpTwo(p) = Pow(p)[p] /\ Pow(p)[0] = 1
             /\ \A i \in 0 .. p - 1 : Pow(p)[i + 1] = 2 * Pow(p)[i]
  <2> DEFINE step == [i \in 0 .. p - 1 |-> [y \in Nat |-> 2 * y]]
  <2>1. step \in Steps(p, Nat) /\ \A i \in 0 .. p - 1, y \in Nat : step[i][y] = 2 * y
    BY DEF Steps
  <2> HIDE DEF step
  <2>2. PICK f : GoesForward(p, Nat, 1, step, f)
    BY <2>1, ForwardExists
  <2>3. ASSUME NEW i \in 0 .. p, 0 < i PROVE f[i] = 2 * f[i - 1]
    <3>1. i - 1 \in 0 .. p - 1 /\ (i - 1) + 1 = i /\ f[i - 1] \in Nat
      BY <2>2, <2>3 DEF GoesForward
    <3> QED
      BY <2>1, <2>2, <3>1 DEF GoesForward
  <2>4. f = [i \in 0 .. p |-> IF 0 < i THEN 2 * f[i - 1] ELSE 1]
    BY <2>2, <2>3 DEF GoesForward
  <2>5. Pow(p) = [i \in 0 .. p |-> IF 0 < i THEN 2 * Pow(p)[i - 1] ELSE 1]
    BY <2>4
  <2>6. ExpTwo(p) = Pow(p)[p]
    BY DEF ExpTwo
  <2> HIDE DEF Pow
  <2>7. Pow(p)[0] = 1
    BY <2>5
  <2>8. ASSUME NEW i \in 0 .. p - 1 PROVE Pow(p)[i + 1] = 2 * Pow(p)[i]
    <3>1. i + 1 \in 0 .. p /\ (i + 1) - 1 = i /\ 0 < i + 1
      OBVIOUS
    <3>2. Pow(p)[i + 1] = IF 0 < i + 1 THEN 2 * Pow(p)[(i + 1) - 1] ELSE 1
      BY <2>5, <3>1, Zenon
    <3> QED
      BY <3>1, <3>2
  <2> QED
    BY <2>6, <2>7, <2>8
<1> HIDE DEF Pow
<1>2. ASSUME NEW p \in Nat PROVE Pow(p + 1)[p] = Pow(p)[p]
  <2> DEFINE T == {i \in Nat : i <= p => Pow(p + 1)[i] = Pow(p)[i]}
  <2>1. 0 \in T
    BY <1>1
  <2>2. ASSUME NEW i \in Nat, i \in T PROVE i + 1 \in T
    <3>1. SUFFICES ASSUME i + 1 <= p PROVE Pow(p + 1)[i + 1] = Pow(p)[i + 1]
      OBVIOUS
    <3>2. i \in 0 .. p - 1 /\ i \in 0 .. (p + 1) - 1 /\ Pow(p + 1)[i] = Pow(p)[i]
      BY <2>2, <3>1
    <3> QED
      BY <1>1, <3>2
  <2>3. p \in T
    <3> HIDE DEF T
    <3> QED
      BY <2>1, <2>2, UpwardInduction
  <2> QED
    BY <2>3
<1>3. \A p \in Nat : ExpTwo(p + 1) = 2 * ExpTwo(p)
  <2> SUFFICES ASSUME NEW p \in Nat PROVE ExpTwo(p + 1) = 2 * ExpTwo(p)
    OBVIOUS
  <2>1. p \in 0 .. (p + 1) - 1 /\ p + 1 \in Nat
    OBVIOUS
  <2>2. Pow(p + 1)[p + 1] = 2 * Pow(p + 1)[p] /\ ExpTwo(p + 1) = Pow(p + 1)[p + 1]
    BY <1>1, <2>1
  <2> QED
    BY <1>1, <1>2, <2>2
<1>4. ExpTwo(0) = 1
  BY <1>1
<1>5. ASSUME NEW p \in Nat PROVE ExpTwo(p) \in Nat \ {0}
  <2> DEFINE T == {i \in Nat : ExpTwo(i) \in Nat \ {0}}
  <2>1. 0 \in T /\ \A i \in Nat : i \in T => i + 1 \in T
    BY <1>3, <1>4
  <2> HIDE DEF T
  <2>2. p \in T
    BY <2>1, UpwardInduction
  <2> QED
    BY <2>2 DEF T
<1> QED
  BY <1>3, <1>4, <1>5

\* Take(xs, n) is the first n elements.
LEMMA TakeIs ==
  ASSUME NEW S, NEW xs \in Seq(S), NEW n \in 0 .. Len(xs)
  PROVE  Take(xs, n) = SubSeq(xs, 1, n)
<1> DEFINE Gone == CHOOSE f : f = [i \in 0 .. Len(xs) |->
                                     IF i < n THEN <<get(xs, i)>> \o f[i + 1] ELSE <<>>]
<1>1. Len(xs) \in Nat /\ \A i \in 0 .. Len(xs) - 1 : get(xs, i) \in S
  BY DEF get
<1> DEFINE w == [i \in 0 .. Len(xs) |-> SubSeq(xs, i + 1, n)]
<1>2. w = [i \in 0 .. Len(xs) |-> IF i < n THEN <<get(xs, i)>> \o w[i + 1] ELSE <<>>]
  <2>1. ASSUME NEW i \in 0 .. Len(xs), i < n
        PROVE  SubSeq(xs, i + 1, n) = <<get(xs, i)>> \o w[i + 1]
    <3>1. i + 1 \in 1 .. Len(xs) /\ n \in (i + 1) .. Len(xs) /\ i + 1 \in 0 .. Len(xs)
      BY <1>1, <2>1
    <3>2. SubSeq(xs, i + 1, n) = <<xs[i + 1]>> \o SubSeq(xs, (i + 1) + 1, n)
      BY <3>1, SubSeqRecursiveFirst
    <3> QED
      BY <3>1, <3>2 DEF get
  <2>2. ASSUME NEW i \in 0 .. Len(xs), ~(i < n)
        PROVE  SubSeq(xs, i + 1, n) = <<>>
    BY <1>1, <2>2, SubSeqEmpty
  <2>3. \A i \in 0 .. Len(xs) : w[i] = IF i < n THEN <<get(xs, i)>> \o w[i + 1] ELSE <<>>
    BY <2>1, <2>2
  <2> HIDE DEF w
  <2>4. w = [i \in 0 .. Len(xs) |-> w[i]]
    BY DEF w
  <2> QED
    BY <2>3, <2>4
<1>3. Gone = [i \in 0 .. Len(xs) |-> IF i < n THEN <<get(xs, i)>> \o Gone[i + 1] ELSE <<>>]
  BY <1>2
<1> HIDE DEF Gone, w
<1> DEFINE T == {i \in 0 .. Len(xs) : Gone[i] = w[i]}
<1>4. n \in T
  <2>1. n \in 0 .. Len(xs) /\ ~(n < n)
    BY <1>1
  <2>2. Gone[n] = <<>>
    BY <1>3, <2>1
  <2>3. w[n] = <<>>
    BY <1>2, <2>1
  <2> QED
    BY <2>1, <2>2, <2>3
<1>5. ASSUME NEW i \in 0 .. n - 1, i + 1 \in T PROVE i \in T
  <2>1. i \in 0 .. Len(xs) /\ i < n /\ Gone[i + 1] = w[i + 1]
    BY <1>1, <1>5
  <2>2. Gone[i] = <<get(xs, i)>> \o Gone[i + 1]
    BY <1>3, <2>1
  <2>3. w[i] = <<get(xs, i)>> \o w[i + 1]
    BY <1>2, <2>1
  <2> QED
    BY <2>1, <2>2, <2>3
<1>6. 0 \in T
  <2> HIDE DEF T
  <2> QED
    BY <1>1, <1>4, <1>5, DownwardInduction
<1>7. Take(xs, n) = Gone[0]
  BY DEF Take, Gone
<1> QED
  BY <1>1, <1>6, <1>7 DEF w

\* A sequence with an element in front.
LEMMA Prepend ==
  ASSUME NEW e \in Int, NEW y \in Seq(Int)
  PROVE  /\ <<e>> \o y \in Seq(Int) /\ Len(<<e>> \o y) = 1 + Len(y)
         /\ \A p \in 1 .. 1 + Len(y) : (<<e>> \o y)[p] = IF p <= 1 THEN e ELSE y[p - 1]
<1>1. <<e>> \in Seq(Int) /\ Len(<<e>>) = 1 /\ <<e>>[1] = e
  OBVIOUS
<1>2. <<e>> \o y \in Seq(Int) /\ Len(<<e>> \o y) = 1 + Len(y)
  BY <1>1, ConcatProperties
<1>3. ASSUME NEW p \in 1 .. 1 + Len(y)
      PROVE  (<<e>> \o y)[p] = IF p <= 1 THEN e ELSE y[p - 1]
  <2>1. (<<e>> \o y)[p] = IF p <= Len(<<e>>) THEN <<e>>[p] ELSE y[p - Len(<<e>>)]
    BY <1>1, ConcatProperties
  <2>2. p <= 1 => p = 1
    OBVIOUS
  <2> QED
    BY <1>1, <2>1, <2>2
<1> QED
  BY <1>2, <1>3

\* The sum of the elements before n.
Before(xs, n) == intsum(Take(xs, n))

\* intsum is what is left of the sum at position 0, when it is zero at the end.
LEMMA SumIs ==
  ASSUME NEW xs \in Seq(Int)
  PROVE  \E s : /\ s \in [0 .. Len(xs) -> Int] /\ s[Len(xs)] = 0 /\ s[0] = intsum(xs)
                /\ \A i \in 0 .. Len(xs) - 1 : s[i] = xs[i + 1] + s[i + 1]
<1> DEFINE n == Len(xs)
           Sum == CHOOSE f : f = [i \in 0 .. Len(xs) |->
                                    IF i < Len(xs) THEN get(xs, i) + f[i + 1] ELSE 0]
           step == [i \in 0 .. n - 1 |-> [y \in Int |-> xs[i + 1] + y]]
<1>1. n \in Nat /\ \A i \in 0 .. n - 1 : xs[i + 1] \in Int /\ get(xs, i) = xs[i + 1]
  BY DEF get
<1>2. step \in Steps(n, Int) /\ \A i \in 0 .. n - 1, y \in Int : step[i][y] = xs[i + 1] + y
  BY <1>1 DEF Steps
<1>3. intsum(xs) = Sum[0]
  BY DEF intsum
<1> HIDE DEF step
<1>4. PICK f : GoesBack(n, Int, 0, step, f)
  <2>1. 0 \in Int
    OBVIOUS
  <2> QED
    BY <1>1, <1>2, <2>1, BackwardExists
<1>5. ASSUME NEW i \in 0 .. n, i < n PROVE f[i] = get(xs, i) + f[i + 1]
  <2>1. i \in 0 .. n - 1 /\ i + 1 \in 0 .. n
    BY <1>1, <1>5
  <2>2. f[i] = step[i][f[i + 1]] /\ f[i + 1] \in Int
    BY <1>4, <2>1 DEF GoesBack
  <2> QED
    BY <1>1, <1>2, <2>1, <2>2
<1>6. ASSUME NEW i \in 0 .. n, ~(i < n) PROVE f[i] = 0
  <2>1. i = n
    BY <1>1, <1>6
  <2> QED
    BY <1>4, <2>1 DEF GoesBack
<1>7. f = [i \in 0 .. Len(xs) |-> IF i < Len(xs) THEN get(xs, i) + f[i + 1] ELSE 0]
  BY <1>4, <1>5, <1>6 DEF GoesBack
<1>8. Sum = [i \in 0 .. Len(xs) |-> IF i < Len(xs) THEN get(xs, i) + Sum[i + 1] ELSE 0]
  BY <1>7
<1> HIDE DEF Sum
<1> DEFINE T == {i \in 0 .. n : Sum[i] = f[i]}
<1>9. n \in T
  <2>1. n \in 0 .. n /\ ~(n < n)
    BY <1>1
  <2> QED
    BY <1>6, <1>8, <2>1
<1>10. ASSUME NEW i \in 0 .. n - 1, i + 1 \in T PROVE i \in T
  <2>1. i \in 0 .. n /\ i < n
    BY <1>1
  <2> QED
    BY <1>5, <1>8, <1>10, <2>1
<1>11. 0 .. n \subseteq T
  <2> HIDE DEF T
  <2> QED
    BY <1>1, <1>9, <1>10, DownwardInduction
<1>12. Sum[0] = f[0]
  BY <1>1, <1>11
<1>13. /\ f \in [0 .. Len(xs) -> Int] /\ f[Len(xs)] = 0 /\ f[0] = intsum(xs)
       /\ \A i \in 0 .. Len(xs) - 1 : f[i] = xs[i + 1] + f[i + 1]
  BY <1>1, <1>3, <1>4, <1>5, <1>12 DEF GoesBack
<1> QED
  BY <1>13

\* The sum before n + 1 is the sum before n and the element at n.
LEMMA SumsBefore ==
  ASSUME NEW xs \in Seq(Int)
  PROVE  /\ Before(xs, 0) = 0 /\ Before(xs, Len(xs)) = intsum(xs)
         /\ \A n \in 0 .. Len(xs) : Before(xs, n) \in Int
         /\ \A n \in 0 .. Len(xs) - 1 : Before(xs, n + 1) = Before(xs, n) + xs[n + 1]
<1>1. ASSUME NEW n \in 0 .. Len(xs)
      PROVE  /\ Take(xs, n) \in Seq(Int) /\ Len(Take(xs, n)) = n
             /\ \A i \in 0 .. n - 1 : Take(xs, n)[i + 1] = xs[i + 1]
  <2>1. Take(xs, n) = SubSeq(xs, 1, n)
    BY TakeIs
  <2>2. n \in Nat /\ n <= Len(xs) /\ Len(xs) \in Nat
    OBVIOUS
  <2>3. \A i \in 1 .. n : xs[i] \in Int
    BY <2>2
  <2> QED
    BY <2>1, <2>2, <2>3, SubSeqProperties
<1>2. ASSUME NEW n \in 0 .. Len(xs) PROVE Before(xs, n) \in Int
  <2>1. PICK s : s \in [0 .. Len(Take(xs, n)) -> Int] /\ s[0] = intsum(Take(xs, n))
    BY <1>1, SumIs
  <2>2. 0 \in 0 .. Len(Take(xs, n))
    BY <1>1
  <2> QED
    BY <2>1, <2>2 DEF Before
<1>3. ASSUME NEW n \in 0 .. Len(xs) - 1
      PROVE  Before(xs, n + 1) = Before(xs, n) + xs[n + 1]
  <2> DEFINE a == Take(xs, n)
             b == Take(xs, n + 1)
  <2>1. n \in 0 .. Len(xs) /\ n + 1 \in 0 .. Len(xs) /\ n \in Nat /\ xs[n + 1] \in Int
    OBVIOUS
  <2>2. a \in Seq(Int) /\ b \in Seq(Int) /\ Len(a) = n /\ Len(b) = n + 1
        /\ (\A i \in 0 .. n - 1 : a[i + 1] = xs[i + 1]) /\ (\A i \in 0 .. n : b[i + 1] = xs[i + 1])
    BY <1>1, <2>1
  <2> HIDE DEF a, b
  <2>3. PICK s : /\ s \in [0 .. n -> Int] /\ s[n] = 0 /\ s[0] = intsum(a)
                 /\ \A i \in 0 .. n - 1 : s[i] = xs[i + 1] + s[i + 1]
    <3>1. PICK s : /\ s \in [0 .. Len(a) -> Int] /\ s[Len(a)] = 0 /\ s[0] = intsum(a)
                   /\ \A i \in 0 .. Len(a) - 1 : s[i] = a[i + 1] + s[i + 1]
      BY <2>2, SumIs
    <3>2. s \in [0 .. n -> Int] /\ s[n] = 0
      BY <2>2, <3>1
    <3>3. ASSUME NEW i \in 0 .. n - 1 PROVE s[i] = xs[i + 1] + s[i + 1]
      <4>1. i \in 0 .. Len(a) - 1 /\ a[i + 1] = xs[i + 1]
        BY <2>1, <2>2
      <4> QED
        BY <3>1, <4>1
    <3> QED
      BY <3>1, <3>2, <3>3
  <2>4. PICK r : /\ r \in [0 .. n + 1 -> Int] /\ r[n + 1] = 0 /\ r[0] = intsum(b)
                 /\ \A i \in 0 .. n : r[i] = xs[i + 1] + r[i + 1]
    <3>1. PICK r : /\ r \in [0 .. Len(b) -> Int] /\ r[Len(b)] = 0 /\ r[0] = intsum(b)
                   /\ \A i \in 0 .. Len(b) - 1 : r[i] = b[i + 1] + r[i + 1]
      BY <2>2, SumIs
    <3>2. r \in [0 .. n + 1 -> Int] /\ r[n + 1] = 0
      BY <2>2, <3>1
    <3>3. ASSUME NEW i \in 0 .. n PROVE r[i] = xs[i + 1] + r[i + 1]
      <4>1. i \in 0 .. Len(b) - 1 /\ b[i + 1] = xs[i + 1]
        BY <2>1, <2>2
      <4> QED
        BY <3>1, <4>1
    <3> QED
      BY <3>1, <3>2, <3>3
  <2> DEFINE T == {i \in 0 .. n : r[i] = s[i] + xs[n + 1]}
  <2>5. n \in T
    BY <2>1, <2>3, <2>4
  <2>6. ASSUME NEW i \in 0 .. n - 1, i + 1 \in T PROVE i \in T
    <3>1. i \in 0 .. n /\ i + 1 \in 0 .. n /\ i + 1 \in 0 .. Len(xs)
      BY <2>1
    <3>2. /\ r[i] = xs[i + 1] + r[i + 1] /\ s[i] = xs[i + 1] + s[i + 1]
          /\ r[i + 1] = s[i + 1] + xs[n + 1]
      BY <2>3, <2>4, <2>6, <3>1
    <3>3. s[i + 1] \in Int /\ xs[i + 1] \in Int
      BY <2>3, <3>1
    <3> QED
      BY <2>1, <3>1, <3>2, <3>3
  <2>7. 0 .. n \subseteq T
    <3> HIDE DEF T
    <3> QED
      BY <2>1, <2>5, <2>6, DownwardInduction
  <2> QED
    BY <2>1, <2>3, <2>4, <2>7 DEF Before, a, b
<1>4. Before(xs, 0) = 0
  <2>1. 0 \in 0 .. Len(xs)
    OBVIOUS
  <2> QED
    BY <1>1, <2>1, SumIs DEF Before
<1>5. Before(xs, Len(xs)) = intsum(xs)
  BY TakeIs, SubSeqFull DEF Before
<1> QED
  BY <1>2, <1>3, <1>4, <1>5

\* psum2 is the sequence of the sums before each position.
LEMMA PrefixSums ==
  ASSUME NEW xs \in Seq(Int)
  PROVE  Len(psum2(xs)) = Len(xs) /\ \A i \in 0 .. Len(xs) - 1 : get(psum2(xs), i) = Before(xs, i)
<1> DEFINE n == Len(xs)
           Sums == CHOOSE f : f = [i \in 0 .. Len(xs) |->
                     IF i < Len(xs) THEN <<intsum(Take(xs, i))>> \o f[i + 1] ELSE <<>>]
           step == [i \in 0 .. n - 1 |-> [y \in Seq(Int) |-> <<Before(xs, i)>> \o y]]
<1>1. n \in Nat /\ \A i \in 0 .. n : Before(xs, i) \in Int /\ intsum(Take(xs, i)) = Before(xs, i)
  BY SumsBefore DEF Before
<1>2. step \in Steps(n, Seq(Int))
      /\ \A i \in 0 .. n - 1, y \in Seq(Int) : step[i][y] = <<Before(xs, i)>> \o y
  <2>1. \A i \in 0 .. n - 1, y \in Seq(Int) : <<Before(xs, i)>> \o y \in Seq(Int)
    BY <1>1
  <2> QED
    BY <2>1 DEF Steps
<1>3. psum2(xs) = Sums[0]
  BY DEF psum2, psum
<1> HIDE DEF step
<1>4. PICK f : GoesBack(n, Seq(Int), <<>>, step, f)
  <2>1. <<>> \in Seq(Int)
    OBVIOUS
  <2> QED
    BY <1>1, <1>2, <2>1, BackwardExists
<1>5. ASSUME NEW i \in 0 .. n, i < n PROVE f[i] = <<Before(xs, i)>> \o f[i + 1]
  <2>1. i \in 0 .. n - 1 /\ i + 1 \in 0 .. n
    BY <1>1, <1>5
  <2>2. f[i] = step[i][f[i + 1]] /\ f[i + 1] \in Seq(Int)
    BY <1>4, <2>1 DEF GoesBack
  <2> QED
    BY <1>1, <1>2, <2>1, <2>2
<1>6. ASSUME NEW i \in 0 .. n, ~(i < n) PROVE f[i] = <<>>
  <2>1. i = n
    BY <1>1, <1>6
  <2> QED
    BY <1>4, <2>1 DEF GoesBack
<1>7. f = [i \in 0 .. Len(xs) |-> IF i < Len(xs) THEN <<intsum(Take(xs, i))>> \o f[i + 1] ELSE <<>>]
  <2>1. \A i \in 0 .. n : f[i] = IF i < n THEN <<intsum(Take(xs, i))>> \o f[i + 1] ELSE <<>>
    BY <1>1, <1>5, <1>6
  <2>2. f = [i \in 0 .. n |-> f[i]]
    BY <1>4 DEF GoesBack
  <2> QED
    BY <2>1, <2>2
<1>8. Sums = [i \in 0 .. Len(xs) |->
                IF i < Len(xs) THEN <<intsum(Take(xs, i))>> \o Sums[i + 1] ELSE <<>>]
  BY <1>7
<1> HIDE DEF Sums
<1> DEFINE T == {i \in 0 .. n : /\ Sums[i] \in Seq(Int) /\ Len(Sums[i]) = n - i
                               /\ \A j \in i .. n - 1 : Sums[i][(j - i) + 1] = Before(xs, j)}
<1>9. n \in T
  <2>1. n \in 0 .. n /\ ~(n < n)
    BY <1>1
  <2>2. Sums[n] = <<>>
    BY <1>8, <2>1
  <2>3. Sums[n] \in Seq(Int) /\ Len(Sums[n]) = n - n
    BY <1>1, <2>2
  <2>4. n .. n - 1 = {}
    BY <1>1
  <2> QED
    BY <2>1, <2>3, <2>4
<1>10. ASSUME NEW i \in 0 .. n - 1, i + 1 \in T PROVE i \in T
  <2>1. i \in 0 .. n /\ i < n /\ i \in Int /\ Before(xs, i) \in Int
    BY <1>1
  <2>2. Sums[i] = <<Before(xs, i)>> \o Sums[i + 1]
    BY <1>1, <1>8, <2>1
  <2>3. Sums[i + 1] \in Seq(Int) /\ Len(Sums[i + 1]) = n - (i + 1)
        /\ \A j \in i + 1 .. n - 1 : Sums[i + 1][(j - (i + 1)) + 1] = Before(xs, j)
    BY <1>10
  <2>5. /\ Sums[i] \in Seq(Int) /\ Len(Sums[i]) = 1 + Len(Sums[i + 1])
        /\ \A p \in 1 .. 1 + Len(Sums[i + 1]) :
             Sums[i][p] = IF p <= 1 THEN Before(xs, i) ELSE Sums[i + 1][p - 1]
    BY <2>1, <2>2, <2>3, Prepend
  <2>4. 1 + Len(Sums[i + 1]) = n - i
    BY <1>1, <2>1, <2>3
  <2>6. ASSUME NEW j \in i .. n - 1 PROVE Sums[i][(j - i) + 1] = Before(xs, j)
    <3>1. CASE j = i
      <4>1. (j - i) + 1 = 1 /\ 1 \in 1 .. n - i /\ 1 <= 1
        BY <1>1, <2>1, <3>1
      <4> QED
        BY <2>4, <2>5, <3>1, <4>1
    <3>2. CASE j \in i + 1 .. n - 1
      <4>1. /\ (j - i) + 1 \in 1 .. n - i /\ ~((j - i) + 1 <= 1)
            /\ ((j - i) + 1) - 1 = (j - (i + 1)) + 1
        BY <1>1, <2>1, <3>2
      <4> QED
        BY <2>3, <2>4, <2>5, <3>2, <4>1
    <3> QED
      BY <1>1, <2>1, <3>1, <3>2
  <2>7. Len(Sums[i]) = n - i
    BY <2>4, <2>5
  <2> QED
    BY <2>1, <2>5, <2>6, <2>7
<1>11. 0 .. n \subseteq T
  <2> HIDE DEF T
  <2> QED
    BY <1>1, <1>9, <1>10, DownwardInduction
<1>12. /\ Len(Sums[0]) = n - 0
       /\ \A j \in 0 .. n - 1 : Sums[0][(j - 0) + 1] = Before(xs, j)
  <2>1. 0 \in 0 .. n
    BY <1>1
  <2> QED
    BY <1>11, <2>1
<1>13. \A j \in 0 .. n - 1 : Sums[0][j + 1] = Before(xs, j)
  BY <1>1, <1>12
<1> QED
  BY <1>1, <1>3, <1>12, <1>13 DEF get

\* The number of flags that are set is their sum.
LEMMA CountIs ==
  ASSUME NEW flags \in Seq({0, 1})
  PROVE  count(flags) = intsum(flags)
<1> DEFINE n == Len(flags)
           Ones == CHOOSE f : f = [i \in 0 .. Len(flags) |->
                     IF i < Len(flags) THEN (IF get(flags, i) = 1 THEN 1 ELSE 0) + f[i + 1] ELSE 0]
<1>1. n \in Nat /\ \A i \in 0 .. n - 1 : flags[i + 1] \in {0, 1} /\ get(flags, i) = flags[i + 1]
  BY DEF get
<1>2. count(flags) = Ones[0]
  BY DEF count
<1>3. PICK f : /\ f \in [0 .. Len(flags) -> Int] /\ f[Len(flags)] = 0 /\ f[0] = intsum(flags)
               /\ \A i \in 0 .. Len(flags) - 1 : f[i] = flags[i + 1] + f[i + 1]
  <2>1. flags \in Seq(Int)
    <3>1. \A i \in 1 .. Len(flags) : flags[i] \in Int
      OBVIOUS
    <3> QED
      BY <3>1
  <2> QED
    BY <2>1, SumIs
<1>4. ASSUME NEW i \in 0 .. n
      PROVE  f[i] = IF i < n THEN (IF get(flags, i) = 1 THEN 1 ELSE 0) + f[i + 1] ELSE 0
  <2>1. CASE i < n
    <3>1. i \in 0 .. n - 1 /\ flags[i + 1] = IF get(flags, i) = 1 THEN 1 ELSE 0
      BY <1>1, <2>1
    <3> QED
      BY <1>3, <2>1, <3>1
  <2>2. CASE ~(i < n)
    <3>1. i = n
      BY <1>1, <2>2
    <3> QED
      BY <1>3, <3>1
  <2> QED
    BY <2>1, <2>2
<1>5. f = [i \in 0 .. Len(flags) |->
             IF i < Len(flags) THEN (IF get(flags, i) = 1 THEN 1 ELSE 0) + f[i + 1] ELSE 0]
  <2>1. f = [i \in 0 .. n |-> f[i]]
    BY <1>3
  <2> QED
    BY <1>4, <2>1
<1>6. Ones = [i \in 0 .. Len(flags) |->
                IF i < Len(flags) THEN (IF get(flags, i) = 1 THEN 1 ELSE 0) + Ones[i + 1] ELSE 0]
  BY <1>5
<1> HIDE DEF Ones
<1> DEFINE T == {i \in 0 .. n : Ones[i] = f[i]}
<1>7. n \in T
  <2>1. n \in 0 .. n /\ ~(n < n)
    BY <1>1
  <2> QED
    BY <1>4, <1>6, <2>1
<1>8. ASSUME NEW i \in 0 .. n - 1, i + 1 \in T PROVE i \in T
  <2>1. i \in 0 .. n /\ i < n
    BY <1>1
  <2> QED
    BY <1>4, <1>6, <1>8, <2>1
<1>9. 0 .. n \subseteq T
  <2> HIDE DEF T
  <2> QED
    BY <1>1, <1>7, <1>8, DownwardInduction
<1> QED
  BY <1>1, <1>2, <1>3, <1>9

\* The sums of flags grow, by one at each flag that is set.
LEMMA FlagSums ==
  ASSUME NEW flags \in Seq({0, 1})
  PROVE  /\ Before(flags, 0) = 0 /\ Before(flags, Len(flags)) = count(flags)
         /\ \A m \in 0 .. Len(flags) : Before(flags, m) \in Nat
         /\ \A m \in 0 .. Len(flags) - 1 :
              Before(flags, m + 1) = Before(flags, m) + (IF flags[m + 1] = 1 THEN 1 ELSE 0)
         /\ \A m, n \in 0 .. Len(flags) : m <= n => Before(flags, m) <= Before(flags, n)
<1> DEFINE z == Len(flags)
<1>1. z \in Nat /\ flags \in Seq(Int) /\ \A i \in 0 .. z - 1 : flags[i + 1] \in {0, 1}
  <2>1. \A i \in 1 .. Len(flags) : flags[i] \in Int
    OBVIOUS
  <2> QED
    BY <2>1
<1>2. /\ Before(flags, 0) = 0 /\ Before(flags, Len(flags)) = count(flags)
      /\ \A n \in 0 .. Len(flags) : Before(flags, n) \in Int
      /\ \A n \in 0 .. Len(flags) - 1 : Before(flags, n + 1) = Before(flags, n) + flags[n + 1]
  BY <1>1, SumsBefore, CountIs
<1>3. ASSUME NEW m \in 0 .. z - 1
      PROVE  Before(flags, m + 1) = Before(flags, m) + (IF flags[m + 1] = 1 THEN 1 ELSE 0)
  <2>1. m \in 0 .. z
    BY <1>1
  <2> QED
    BY <1>1, <1>2, <2>1
<1>4. ASSUME NEW n \in 0 .. z
      PROVE  \A m \in 0 .. n : Before(flags, m) <= Before(flags, n)
  <2> DEFINE T == {m \in 0 .. n : Before(flags, m) <= Before(flags, n)}
  <2>1. n \in T
    BY <1>1, <1>2
  <2>2. ASSUME NEW i \in 0 .. n - 1, i + 1 \in T PROVE i \in T
    <3>1. i \in 0 .. z - 1 /\ i \in 0 .. n /\ i \in 0 .. z /\ i + 1 \in 0 .. z
      BY <1>1
    <3>2. Before(flags, i) <= Before(flags, i + 1)
      BY <1>2, <1>3, <3>1
    <3> QED
      BY <1>2, <2>2, <3>1, <3>2
  <2>3. 0 .. n \subseteq T
    <3> HIDE DEF T
    <3> QED
      BY <1>1, <2>1, <2>2, DownwardInduction
  <2> QED
    BY <2>3
<1>5. ASSUME NEW m \in 0 .. z PROVE Before(flags, m) \in Nat
  <2>1. 0 \in 0 .. m
    OBVIOUS
  <2>2. Before(flags, 0) <= Before(flags, m)
    BY <1>4, <2>1
  <2> QED
    BY <1>2, <2>2
<1>6. ASSUME NEW m \in 0 .. z, NEW n \in 0 .. z, m <= n PROVE Before(flags, m) <= Before(flags, n)
  <2>1. m \in 0 .. n
    BY <1>1, <1>6
  <2> QED
    BY <1>4, <2>1
<1> QED
  BY <1>2, <1>3, <1>5, <1>6

\* Each number below the number of flags is the place of one that is set.
LEMMA EveryPlaceIsTaken ==
  ASSUME NEW flags \in Seq({0, 1}), NEW p \in Nat, p < count(flags)
  PROVE  \E m \in 0 .. Len(flags) - 1 : flags[m + 1] = 1 /\ Before(flags, m) = p
<1> DEFINE z == Len(flags)
           T == {m \in Nat : m <= z => Before(flags, m) <= p}
<1>1. z \in Nat /\ \A i \in 0 .. z - 1 : flags[i + 1] \in {0, 1}
  OBVIOUS
<1>2. SUFFICES ASSUME \A m \in 0 .. z - 1 : ~(flags[m + 1] = 1 /\ Before(flags, m) = p)
               PROVE  FALSE
  OBVIOUS
<1>3. 0 \in T
  BY FlagSums
<1>4. ASSUME NEW m \in Nat, m \in T PROVE m + 1 \in T
  <2> SUFFICES ASSUME m + 1 <= z PROVE Before(flags, m + 1) <= p
    OBVIOUS
  <2>1. m \in 0 .. z - 1 /\ m \in 0 .. z /\ m + 1 \in 0 .. z /\ m <= z
    BY <1>1
  <2>2. Before(flags, m) <= p /\ Before(flags, m) \in Nat /\ Before(flags, m + 1) \in Nat
    BY <1>4, <2>1, FlagSums
  <2>3. Before(flags, m + 1) = Before(flags, m) + (IF flags[m + 1] = 1 THEN 1 ELSE 0)
    BY <2>1, FlagSums
  <2> QED
    BY <1>2, <2>1, <2>2, <2>3
<1>5. Nat \subseteq T
  <2> HIDE DEF T
  <2> QED
    BY <1>3, <1>4, UpwardInduction
<1>6. Before(flags, z) <= p
  BY <1>1, <1>5
<1>7. Before(flags, z) = count(flags) /\ Before(flags, z) \in Nat
  <2>1. z \in 0 .. z
    BY <1>1
  <2> QED
    BY <2>1, FlagSums
<1> QED
  BY <1>6, <1>7

\* compact has as many elements as flags are set, each flagged one at its place.
LEMMA CompactIs ==
  ASSUME NEW flags \in Seq({0, 1}), NEW xs \in Seq(Int), Len(xs) = Len(flags)
  PROVE  /\ compact(xs, flags) \in Seq(Int) /\ Len(compact(xs, flags)) = count(flags)
         /\ \A m \in 0 .. Len(flags) - 1 :
              flags[m + 1] = 1 => compact(xs, flags)[Before(flags, m) + 1] = xs[m + 1]
<1> DEFINE n == Len(xs)
           B(i) == Before(flags, i)
           Kept == CHOOSE f : f = [i \in 0 .. Len(xs) |->
                     IF i >= Len(xs) THEN <<>>
                     ELSE IF get(flags, i) = 1 THEN <<get(xs, i)>> \o f[i + 1] ELSE f[i + 1]]
           step == [i \in 0 .. n - 1 |-> [y \in Seq(Int) |->
                     IF flags[i + 1] = 1 THEN <<xs[i + 1]>> \o y ELSE y]]
<1>1. n \in Nat /\ \A i \in 0 .. n - 1 : /\ xs[i + 1] \in Int /\ get(xs, i) = xs[i + 1]
                                         /\ flags[i + 1] \in {0, 1} /\ get(flags, i) = flags[i + 1]
  BY DEF get
<1>2. step \in Steps(n, Seq(Int))
      /\ \A i \in 0 .. n - 1, y \in Seq(Int) :
           step[i][y] = IF flags[i + 1] = 1 THEN <<xs[i + 1]>> \o y ELSE y
  <2>1. \A i \in 0 .. n - 1, y \in Seq(Int) : <<xs[i + 1]>> \o y \in Seq(Int)
    BY <1>1
  <2> QED
    BY <2>1 DEF Steps
<1>3. compact(xs, flags) = Kept[0]
  BY DEF compact
<1> HIDE DEF step
<1>4. PICK f : GoesBack(n, Seq(Int), <<>>, step, f)
  <2>1. <<>> \in Seq(Int)
    OBVIOUS
  <2> QED
    BY <1>1, <1>2, <2>1, BackwardExists
<1>5. ASSUME NEW i \in 0 .. n, ~(i >= n)
      PROVE  f[i] = IF get(flags, i) = 1 THEN <<get(xs, i)>> \o f[i + 1] ELSE f[i + 1]
  <2>1. i \in 0 .. n - 1 /\ i + 1 \in 0 .. n
    BY <1>1, <1>5
  <2>2. f[i] = step[i][f[i + 1]] /\ f[i + 1] \in Seq(Int)
    BY <1>4, <2>1 DEF GoesBack
  <2> QED
    BY <1>1, <1>2, <2>1, <2>2
<1>6. ASSUME NEW i \in 0 .. n, i >= n PROVE f[i] = <<>>
  <2>1. i = n
    BY <1>1, <1>6
  <2> QED
    BY <1>4, <2>1 DEF GoesBack
<1>7. f = [i \in 0 .. Len(xs) |->
             IF i >= Len(xs) THEN <<>>
             ELSE IF get(flags, i) = 1 THEN <<get(xs, i)>> \o f[i + 1] ELSE f[i + 1]]
  <2>1. \A i \in 0 .. n :
          f[i] = IF i >= n THEN <<>>
                 ELSE IF get(flags, i) = 1 THEN <<get(xs, i)>> \o f[i + 1] ELSE f[i + 1]
    BY <1>1, <1>5, <1>6
  <2>2. f = [i \in 0 .. n |-> f[i]]
    BY <1>4 DEF GoesBack
  <2> QED
    BY <2>1, <2>2
<1>8. Kept = [i \in 0 .. Len(xs) |->
                IF i >= Len(xs) THEN <<>>
                ELSE IF get(flags, i) = 1 THEN <<get(xs, i)>> \o Kept[i + 1] ELSE Kept[i + 1]]
  BY <1>7
<1> HIDE DEF Kept, B
<1>9. /\ B(0) = 0 /\ B(n) = count(flags)
      /\ \A m \in 0 .. n : B(m) \in Nat
      /\ \A m \in 0 .. n - 1 : B(m + 1) = B(m) + (IF flags[m + 1] = 1 THEN 1 ELSE 0)
      /\ \A m, j \in 0 .. n : m <= j => B(m) <= B(j)
  BY FlagSums DEF B
<1> DEFINE T == {i \in 0 .. n : /\ Kept[i] \in Seq(Int) /\ Len(Kept[i]) = B(n) - B(i)
                               /\ \A j \in i .. n - 1 : flags[j + 1] = 1 =>
                                    Kept[i][(B(j) - B(i)) + 1] = xs[j + 1]}
<1>10. n \in T
  <2>1. n \in 0 .. n /\ n >= n /\ n .. n - 1 = {}
    BY <1>1
  <2>2. Kept[n] = <<>>
    BY <1>8, <2>1
  <2>3. Kept[n] \in Seq(Int) /\ Len(Kept[n]) = B(n) - B(n)
    BY <1>9, <2>1, <2>2
  <2> QED
    BY <2>1, <2>3
<1>11. ASSUME NEW i \in 0 .. n - 1, i + 1 \in T PROVE i \in T
  <2>1. /\ i \in 0 .. n /\ ~(i >= n) /\ i + 1 \in 0 .. n /\ n \in 0 .. n
        /\ B(i) \in Nat /\ B(i + 1) \in Nat /\ B(n) \in Nat /\ B(i + 1) <= B(n)
    <3>1. i \in 0 .. n /\ ~(i >= n) /\ i + 1 \in 0 .. n /\ n \in 0 .. n /\ i + 1 <= n
      BY <1>1
    <3> QED
      BY <1>9, <3>1
  <2>2. /\ Kept[i + 1] \in Seq(Int) /\ Len(Kept[i + 1]) = B(n) - B(i + 1)
        /\ \A j \in i + 1 .. n - 1 : flags[j + 1] = 1 =>
             Kept[i + 1][(B(j) - B(i + 1)) + 1] = xs[j + 1]
    BY <1>11
  <2>3. CASE flags[i + 1] = 1
    <3>1. B(i + 1) = B(i) + 1
      BY <1>9, <2>3
    <3> DEFINE y == Kept[i + 1]
               e == xs[i + 1]
    <3>2. Kept[i] = <<e>> \o y
      BY <1>1, <1>8, <2>1, <2>3
    <3>3. e \in Int /\ y \in Seq(Int) /\ Len(y) = B(n) - B(i + 1) /\ Len(y) \in Nat
      BY <1>1, <2>2
    <3> HIDE DEF e, y
    <3>4. Kept[i] \in Seq(Int) /\ Len(Kept[i]) = B(n) - B(i)
      <4>1. Kept[i] \in Seq(Int) /\ Len(Kept[i]) = 1 + Len(y)
        BY <3>2, <3>3, Prepend
      <4>2. B(n) - B(i) = 1 + (B(n) - B(i + 1))
        BY <2>1, <3>1
      <4> QED
        BY <3>3, <4>1, <4>2
    <3>5. \A p \in 1 .. 1 + Len(y) : Kept[i][p] = IF p <= 1 THEN e ELSE y[p - 1]
      BY <3>2, <3>3, Prepend
    <3>6. ASSUME NEW j \in i .. n - 1, flags[j + 1] = 1
          PROVE  Kept[i][(B(j) - B(i)) + 1] = xs[j + 1]
      <4>1. CASE j = i
        <5>1. (B(j) - B(i)) + 1 = 1 /\ 1 \in 1 .. 1 + Len(y) /\ 1 <= 1
          BY <2>1, <3>3, <4>1
        <5> QED
          BY <3>3, <3>5, <4>1, <5>1 DEF e
      <4>2. CASE j # i
        <5>1. /\ j \in i + 1 .. n - 1 /\ j \in 0 .. n - 1 /\ j \in 0 .. n /\ j + 1 \in 0 .. n
              /\ i + 1 <= j /\ j + 1 <= n
          BY <1>1, <4>2
        <5>2. B(i + 1) <= B(j) /\ B(j) \in Nat /\ B(j) + 1 <= B(n)
          <6>1. B(j + 1) = B(j) + 1
            BY <1>9, <3>6, <5>1
          <6> QED
            BY <1>9, <2>1, <5>1, <6>1
        <5>3. (B(j) - B(i)) + 1 \in 1 .. 1 + Len(y) /\ ~((B(j) - B(i)) + 1 <= 1)
              /\ ((B(j) - B(i)) + 1) - 1 = (B(j) - B(i + 1)) + 1
          <6> DEFINE bj == B(j)
                     bi == B(i)
                     bn == B(n)
                     bs == B(i + 1)
                     ly == Len(y)
          <6>1. /\ bj \in Nat /\ bi \in Nat /\ bn \in Nat /\ bs = bi + 1 /\ ly = bn - bs
                /\ bs <= bj /\ bj + 1 <= bn
            BY <2>1, <3>1, <3>3, <5>2
          <6> HIDE DEF bj, bi, bn, bs, ly
          <6>2. (bj - bi) + 1 \in 1 .. 1 + ly /\ ~((bj - bi) + 1 <= 1)
                /\ ((bj - bi) + 1) - 1 = (bj - bs) + 1
            BY <6>1
          <6> QED
            BY <6>2 DEF bj, bi, bn, bs, ly
        <5>4. Kept[i][(B(j) - B(i)) + 1] = y[(B(j) - B(i + 1)) + 1]
          BY <3>5, <5>3
        <5> QED
          BY <2>2, <3>6, <5>1, <5>4 DEF y
      <4> QED
        BY <4>1, <4>2
    <3> QED
      BY <2>1, <3>4, <3>6
  <2>4. CASE flags[i + 1] # 1
    <3>1. B(i + 1) = B(i)
      BY <1>9, <2>4
    <3>2. Kept[i] = Kept[i + 1]
      BY <1>1, <1>8, <2>1, <2>4
    <3>3. \A j \in i .. n - 1 : flags[j + 1] = 1 => j \in i + 1 .. n - 1
      BY <1>1, <2>4
    <3> QED
      BY <2>1, <2>2, <3>1, <3>2, <3>3
  <2> QED
    BY <2>3, <2>4
<1>12. 0 .. n \subseteq T
  <2> HIDE DEF T
  <2> QED
    BY <1>1, <1>10, <1>11, DownwardInduction
<1>13. /\ Kept[0] \in Seq(Int) /\ Len(Kept[0]) = B(n) - B(0)
       /\ \A j \in 0 .. n - 1 : flags[j + 1] = 1 => Kept[0][(B(j) - B(0)) + 1] = xs[j + 1]
  <2>1. 0 \in 0 .. n
    BY <1>1
  <2> QED
    BY <1>12, <2>1
<1>14. \A j \in 0 .. n - 1 : B(j) - B(0) = B(j) /\ B(n) - B(0) = B(n)
  <2>1. \A j \in 0 .. n - 1 : j \in 0 .. n /\ n \in 0 .. n
    BY <1>1
  <2> QED
    BY <1>9, <2>1
<1>15. B(n) - B(0) = count(flags)
  <2>1. n \in 0 .. n
    BY <1>1
  <2> QED
    BY <1>9, <2>1
<1> QED
  BY <1>3, <1>13, <1>14, <1>15 DEF B

-----------------------------------------------------------------------------
(* Cells and blocks.                                                       *)

\* The last cell of the m-th block of ExpTwo(j) cells.
Cell(j, m) == ExpTwo(j) * m - 1

\* The sum of the m-th block of ExpTwo(j) elements, and of all before it.
Block(xs, j, m) == Before(xs, ExpTwo(j) * m) - Before(xs, ExpTwo(j) * (m - 1))
Ahead(xs, j, m) == Before(xs, ExpTwo(j) * (m - 1))

\* A power of two is an even multiple of each smaller one.
LEMMA PowerDivides ==
  ASSUME NEW j \in Nat, NEW l \in Nat, j < l
  PROVE  \E z \in Nat \ {0} : ExpTwo(l) = ExpTwo(j) * (2 * z)
<1> DEFINE T == {d \in Nat : \E z \in Nat \ {0} : ExpTwo(j + 1 + d) = ExpTwo(j) * (2 * z)}
<1>1. 0 \in T
  <2>1. ExpTwo(j + 1 + 0) = ExpTwo(j) * (2 * 1) /\ 1 \in Nat \ {0}
    BY Doubling
  <2> QED
    BY <2>1
<1>2. ASSUME NEW d \in Nat, d \in T PROVE d + 1 \in T
  <2>1. PICK z \in Nat \ {0} : ExpTwo(j + 1 + d) = ExpTwo(j) * (2 * z)
    BY <1>2
  <2>2. ExpTwo(j + 1 + (d + 1)) = 2 * ExpTwo(j + 1 + d)
    <3>1. j + 1 + d \in Nat /\ (j + 1 + d) + 1 = j + 1 + (d + 1)
      OBVIOUS
    <3> QED
      BY <3>1, Doubling
  <2>3. ExpTwo(j) \in Nat
    BY Doubling
  <2>4. 2 * (ExpTwo(j) * (2 * z)) = ExpTwo(j) * (2 * (2 * z)) /\ 2 * z \in Nat \ {0}
    BY <2>3
  <2>5. ExpTwo(j + 1 + (d + 1)) = ExpTwo(j) * (2 * (2 * z))
    BY <2>1, <2>2, <2>4
  <2>6. PICK w \in Nat \ {0} : w = 2 * z
    BY <2>4
  <2>7. ExpTwo(j + 1 + (d + 1)) = ExpTwo(j) * (2 * w)
    BY <2>5, <2>6
  <2> QED
    BY <2>7
<1>3. l - (j + 1) \in T
  <2> HIDE DEF T
  <2>1. l - (j + 1) \in Nat
    OBVIOUS
  <2> QED
    BY <1>1, <1>2, <2>1, UpwardInduction
<1>4. j + 1 + (l - (j + 1)) = l
  OBVIOUS
<1> QED
  BY <1>3, <1>4

\* A power of two is at least twice each smaller one.
LEMMA PowersGrow ==
  ASSUME NEW j \in Nat, NEW l \in Nat, j < l
  PROVE  2 * ExpTwo(j) <= ExpTwo(l)
<1>1. PICK z \in Nat \ {0} : ExpTwo(l) = ExpTwo(j) * (2 * z)
  BY PowerDivides
<1>2. ExpTwo(j) \in Nat \ {0}
  BY Doubling
<1>3. /\ ExpTwo(j) * (2 * z) = 2 * ExpTwo(j) + ExpTwo(j) * (2 * (z - 1))
      /\ ExpTwo(j) * (2 * (z - 1)) >= 0
  <2>1. \A a, b \in Nat : a * (2 * (b + 1)) = 2 * a + a * (2 * b) /\ a * (2 * b) >= 0
    OBVIOUS
  <2>2. z - 1 \in Nat /\ (z - 1) + 1 = z
    OBVIOUS
  <2> QED
    BY <1>2, <2>1, <2>2
<1>4. ExpTwo(j) * (2 * (z - 1)) \in Int
  BY <1>2
<1> QED
  BY <1>1, <1>2, <1>3, <1>4

\* A left cell of one level is a cell of no higher level.
LEMMA OddDiffers ==
  ASSUME NEW j \in Nat, NEW l \in Nat, j < l, NEW a \in Nat, NEW b \in Nat
  PROVE  Cell(j, 2 * a + 1) # Cell(l, b)
<1>1. PICK z \in Nat \ {0} : ExpTwo(l) = ExpTwo(j) * (2 * z)
  BY PowerDivides
<1>2. ExpTwo(j) \in Nat \ {0}
  BY Doubling
<1>3. ExpTwo(j) * (2 * z) * b = ExpTwo(j) * (2 * (z * b)) /\ z * b \in Nat
  BY <1>2
<1>4. \A p, r \in Nat : ExpTwo(j) * p = ExpTwo(j) * r => p = r
  BY <1>2
<1>5. 2 * a + 1 # 2 * (z * b)
  BY <1>3
<1>6. 2 * a + 1 \in Nat /\ 2 * (z * b) \in Nat
  BY <1>3
<1>7. ExpTwo(j) * (2 * a + 1) # ExpTwo(j) * (2 * (z * b))
  BY <1>4, <1>5, <1>6
<1>8. ExpTwo(j) * (2 * a + 1) \in Nat /\ ExpTwo(j) * (2 * (z * b)) \in Nat
  BY <1>2, <1>6
<1>9. Cell(l, b) = ExpTwo(j) * (2 * (z * b)) - 1 /\ Cell(j, 2 * a + 1) = ExpTwo(j) * (2 * a + 1) - 1
  BY <1>1, <1>3 DEF Cell
<1> QED
  BY <1>7, <1>8, <1>9

\* A cell is the right one of the two that it is the sum of, one level below.
LEMMA CellFacts ==
  ASSUME NEW j \in Nat, NEW m \in Nat \ {0}
  PROVE  /\ Cell(j, m) \in Nat /\ m - 1 <= Cell(j, m) /\ ExpTwo(j) * m = Cell(j, m) + 1
         /\ ExpTwo(j) - 1 <= Cell(j, m)
         /\ \A n \in Nat \ {0} : Cell(j, m) = Cell(j, n) => m = n
         /\ Cell(j + 1, m) = Cell(j, 2 * m) /\ Cell(j + 1, m) - ExpTwo(j) = Cell(j, 2 * m - 1)
<1>1. ExpTwo(j) \in Nat \ {0} /\ ExpTwo(j + 1) = 2 * ExpTwo(j)
  BY Doubling
<1>2. \A x \in Nat \ {0} : /\ x * m \in Nat /\ m <= x * m /\ x <= x * m
                           /\ \A n \in Nat \ {0} : x * m - 1 = x * n - 1 => m = n
                           /\ 2 * x * m = x * (2 * m) /\ x * (2 * m) - 1 - x = x * (2 * m - 1) - 1
  OBVIOUS
<1> QED
  BY <1>1, <1>2 DEF Cell

\* The cells of the level of the root lie outside the array, but for the first.
LEMMA RootCell ==
  ASSUME NEW j \in Nat, NEW m \in Nat \ {0}
  PROVE  Cell(j, m) < ExpTwo(j) <=> m = 1
<1>1. ExpTwo(j) \in Nat \ {0}
  BY Doubling
<1>2. \A x \in Nat \ {0} : x * m - 1 < x <=> m = 1
  <2>1. \A x \in Nat \ {0} : \A n \in Nat : n >= 2 => x * n >= 2 * x
    OBVIOUS
  <2> QED
    BY <2>1
<1> QED
  BY <1>1, <1>2 DEF Cell

\* A block is two halves: their sums, and the sums ahead of them.
LEMMA BlockFacts ==
  ASSUME NEW xs \in Seq(Int), NEW j \in Nat, NEW m \in Nat \ {0}, Cell(j + 1, m) < Len(xs)
  PROVE  /\ Block(xs, j + 1, m) = Block(xs, j, 2 * m - 1) + Block(xs, j, 2 * m)
         /\ Ahead(xs, j, 2 * m - 1) = Ahead(xs, j + 1, m)
         /\ Ahead(xs, j, 2 * m) = Ahead(xs, j, 2 * m - 1) + Block(xs, j, 2 * m - 1)
         /\ Block(xs, j, 2 * m - 1) \in Int /\ Ahead(xs, j + 1, m) \in Int
<1> DEFINE x == ExpTwo(j)
<1>1. x \in Nat \ {0} /\ ExpTwo(j + 1) = 2 * x
  BY Doubling
<1>2. /\ ExpTwo(j + 1) * m = x * (2 * m) /\ ExpTwo(j + 1) * (m - 1) = x * (2 * m - 2)
      /\ (2 * m - 1) - 1 = 2 * m - 2
      /\ 0 <= x * (2 * m - 2) /\ x * (2 * m - 2) <= x * (2 * m - 1)
      /\ x * (2 * m - 1) <= x * (2 * m)
      /\ x * (2 * m - 2) \in Int /\ x * (2 * m - 1) \in Int /\ x * (2 * m) \in Int
  <2>1. \A y \in Nat \ {0} :
          /\ 2 * y * m = y * (2 * m) /\ 2 * y * (m - 1) = y * (2 * m - 2)
          /\ 0 <= y * (2 * m - 2) /\ y * (2 * m - 2) <= y * (2 * m - 1)
           /\ y * (2 * m - 1) <= y * (2 * m)
          /\ y * (2 * m - 2) \in Int /\ y * (2 * m - 1) \in Int /\ y * (2 * m) \in Int
    OBVIOUS
  <2> HIDE DEF x
  <2>2. ExpTwo(j + 1) * m = 2 * x * m /\ ExpTwo(j + 1) * (m - 1) = 2 * x * (m - 1)
    BY <1>1
  <2> QED
    BY <1>1, <2>1, <2>2
<1>3. x * (2 * m) <= Len(xs) /\ Len(xs) \in Nat
  BY <1>2 DEF Cell
<1> HIDE DEF x
<1>4. /\ Before(xs, x * (2 * m - 2)) \in Int /\ Before(xs, x * (2 * m - 1)) \in Int
      /\ Before(xs, x * (2 * m)) \in Int
  BY <1>2, <1>3, SumsBefore
<1> QED
  BY <1>2, <1>4 DEF Block, Ahead, x

\* The cells of one level differ.
LEMMA OtherCell ==
  ASSUME NEW j \in Nat, NEW m \in Nat \ {0}, NEW n \in Nat \ {0}, m # n
  PROVE  Cell(j, m) # Cell(j, n)
BY CellFacts

\* A left cell of the array has its right cell there.
LEMMA PairsAreWhole ==
  ASSUME NEW j \in Nat, NEW l \in Nat, j < l, NEW t \in Nat, Cell(j, 2 * t + 1) < ExpTwo(l)
  PROVE  Cell(j, 2 * (t + 1)) < ExpTwo(l)
<1>1. PICK z \in Nat \ {0} : ExpTwo(l) = ExpTwo(j) * (2 * z)
  BY PowerDivides
<1>2. ExpTwo(j) \in Nat \ {0}
  BY Doubling
<1>3. ASSUME NEW x \in Nat \ {0}, x * (2 * t + 1) - 1 < x * (2 * z)
      PROVE  x * (2 * (t + 1)) - 1 < x * (2 * z)
  <2>1. \A y, w \in Nat : y <= w => x * y <= x * w
    OBVIOUS
  <2>2. \A y \in Nat : x * (y + 1) = x * y + x /\ x * y \in Nat
    OBVIOUS
  <2>3. 2 * t + 1 <= 2 * z
    <3>1. SUFFICES ASSUME 2 * z + 1 <= 2 * t + 1 PROVE FALSE
      OBVIOUS
    <3>2. x * (2 * z + 1) <= x * (2 * t + 1)
      BY <2>1, <3>1
    <3>3. x * (2 * z + 1) = x * (2 * z) + x /\ x * (2 * z) \in Nat /\ x * (2 * t + 1) \in Nat
      BY <2>2
    <3> QED
      BY <1>3, <3>2, <3>3
  <2>4. 2 * (t + 1) <= 2 * z
    BY <2>3
  <2>5. x * (2 * (t + 1)) <= x * (2 * z) /\ x * (2 * (t + 1)) \in Nat /\ x * (2 * z) \in Nat
    BY <2>1, <2>2, <2>4
  <2> QED
    BY <2>5
<1> QED
  BY <1>1, <1>2, <1>3 DEF Cell

-----------------------------------------------------------------------------
(* The two sweeps.                                                         *)

ScanThreads == 0 .. ExpTwo(K) - 1

\* Where a thread stands, level by level.
Placed ==
  \A t \in ScanThreads :
    /\ scan_pc[t] \in {"up", "upBarrier", "upNext"} =>
         /\ lvl[t] \in 1 .. K
         /\ stride[t] = ExpTwo(lvl[t] - 1) /\ indicator[t] = Cell(lvl[t], t + 1)
    /\ scan_pc[t] \in {"midBarrier", "clear"} => lvl[t] = K + 1
    /\ scan_pc[t] \in {"down", "downBarrier", "downNext"} =>
         /\ lvl[t] \in 0 .. K - 1
         /\ stride[t] = ExpTwo(lvl[t]) /\ indicator[t] = Cell(lvl[t] + 1, t + 1)
    /\ scan_pc[t] \in {"end", "scatter", "done"} => lvl[t] = -1 /\ indicator[t] = t

\* The number of barriers behind a thread at p with level l, and one.
RoundOf(p, l) ==
  CASE p \in {"up", "upBarrier", "midBarrier"} -> l
    [] p = "upNext" -> l + 1
    [] p = "clear" -> K + 2
    [] p \in {"down", "downBarrier", "end"} -> 2 * K + 1 - l
    [] p = "downNext" -> 2 * K + 2 - l
    [] OTHER -> 2 * K + 3
Round(t) == RoundOf(scan_pc[t], lvl[t])
OneRound == \A t \in ScanThreads : Round(t) = Round(0)

\* An odd multiple of ExpTwo(j) is a left cell of one level, for good in the up-sweep, and
\* until that level is reached in the down-sweep.
LeftCells(arr, xs, n) ==
  \A j \in 0 .. n - 1, a \in Nat :
    Cell(j, 2 * a + 1) < ExpTwo(K) => arr[Cell(j, 2 * a + 1)] = Block(xs, j, 2 * a + 1)

UpCells(arr, xs, pcs, l) ==
  /\ LeftCells(arr, xs, l)
  /\ \A t \in ScanThreads : Cell(l, t + 1) < ExpTwo(K) =>
       arr[Cell(l, t + 1)] = IF pcs[t] = "upBarrier" THEN Block(xs, l, t + 1)
                             ELSE Block(xs, l - 1, 2 * (t + 1))

DownCells(arr, xs, pcs, l) ==
  /\ LeftCells(arr, xs, l)
  /\ l >= 0 => \A t \in ScanThreads : Cell(l, 2 * t + 1) < ExpTwo(K) =>
       arr[Cell(l, 2 * t + 1)] = IF pcs[t] = "downBarrier" THEN Ahead(xs, l, 2 * t + 1)
                                 ELSE Block(xs, l, 2 * t + 1)
  /\ \A t \in ScanThreads : Cell(l + 1, t + 1) < ExpTwo(K) /\ pcs[t] # "clear" =>
       arr[Cell(l + 1, t + 1)] = IF pcs[t] = "downBarrier" THEN Ahead(xs, l, 2 * (t + 1))
                                 ELSE Ahead(xs, l + 1, t + 1)

Sums(arr, xs, pcs, r) ==
  /\ r \in 1 .. K + 1 => UpCells(arr, xs, pcs, r)
  /\ r \in K + 2 .. 2 * K + 2 => DownCells(arr, xs, pcs, 2 * K + 1 - r)
  /\ r = 2 * K + 3 => \A t \in ScanThreads : arr[t] = Before(xs, t)

ScanLabels == Scan!Labels \cup {"scatter", "done"}
ScanTypes ==
  /\ flag_after_prefix \in [ScanThreads -> Int]
  /\ indicator \in [ScanThreads -> Int] /\ stride \in [ScanThreads -> Int]
  /\ lvl \in [ScanThreads -> Int] /\ scan_pc \in [ScanThreads -> ScanLabels]
  /\ flag_seq \in Seq(Int) /\ Len(flag_seq) = ExpTwo(K)

ScanInv ==
  /\ ScanTypes /\ Placed /\ OneRound
  /\ Sums(flag_after_prefix, flag_seq, scan_pc, Round(0))

\* The module of the kernel counts threads and cells as this one.
LEMMA SameNames ==
  /\ \A p : Scan!ExpTwo(p) = ExpTwo(p)
  /\ Scan!Cells = ExpTwo(K) /\ Scan!Threads = ScanThreads
<1>1. \A p : Scan!ExpTwo(p) = ExpTwo(p)
  BY DEF Scan!ExpTwo, ExpTwo
<1> QED
  BY <1>1 DEF Scan!Cells, Scan!Threads, ScanThreads

\* There is a thread, and a level.
LEMMA KIs == K \in Nat /\ ExpTwo(K) \in Nat \ {0} /\ 0 \in ScanThreads
BY KAssumption, Doubling DEF ScanThreads

\* A step of the up-sweep: the right cell becomes the sum of both halves of its block.
LEMMA UpSweepKeeps ==
  ASSUME ScanInv, NEW t \in ScanThreads, Scan!UpSweep(t)
  PROVE  ScanInv'
<1> USE KIs
<1> DEFINE l == lvl[t]
           c == Cell(l, t + 1)
           d == Cell(l - 1, 2 * t + 1)
           arr == flag_after_prefix
<1>1. /\ scan_pc[t] = "up" /\ scan_pc' = [scan_pc EXCEPT ![t] = "upBarrier"]
      /\ flag_seq' = flag_seq /\ indicator' = indicator /\ stride' = stride /\ lvl' = lvl
      /\ arr' = IF Scan!HasPair(t)
                THEN [arr EXCEPT ![indicator[t]] = @ + arr[indicator[t] - stride[t]]] ELSE arr
  BY DEF Scan!UpSweep
<1>2. /\ l \in 1 .. K /\ stride[t] = ExpTwo(l - 1) /\ indicator[t] = c
      /\ t + 1 \in Nat \ {0} /\ t \in Nat
  BY <1>1 DEF ScanInv, Placed, ScanThreads
<1>3. /\ l - 1 \in Nat /\ l \in Nat /\ (l - 1) + 1 = l /\ 2 * (t + 1) - 1 = 2 * t + 1
  BY <1>2
<1>4. /\ c \in Nat /\ c - ExpTwo(l - 1) = d /\ ExpTwo(l - 1) - 1 <= d
      /\ ExpTwo(l - 1) \in Nat \ {0} /\ d \in Nat
  <2>1. 2 * t + 1 \in Nat \ {0}
    BY <1>2
  <2>2. /\ Cell((l - 1) + 1, t + 1) \in Nat
        /\ Cell((l - 1) + 1, t + 1) - ExpTwo(l - 1) = Cell(l - 1, 2 * (t + 1) - 1)
    <3>1. (l - 1) + 1 \in Nat
      BY <1>3
    <3> QED
      BY <1>2, <1>3, <3>1, CellFacts
  <2>3. c \in Nat /\ c - ExpTwo(l - 1) = d
    BY <1>3, <2>2
  <2>4. ExpTwo(l - 1) - 1 <= d /\ d \in Nat
    BY <1>3, <2>1, CellFacts
  <2>5. ExpTwo(l - 1) \in Nat \ {0}
    BY <1>3, Doubling
  <2> QED
    BY <2>3, <2>4, <2>5
<1>5. Scan!HasPair(t) <=> c < ExpTwo(K)
  BY <1>2, <1>4, SameNames DEF Scan!HasPair
<1>6. arr' = IF c < ExpTwo(K) THEN [arr EXCEPT ![c] = arr[c] + arr[d]] ELSE arr
  BY <1>1, <1>2, <1>4, <1>5
<1>7. /\ flag_seq \in Seq(Int) /\ Len(flag_seq) = ExpTwo(K) /\ arr \in [ScanThreads -> Int]
      /\ Round(0) = l /\ UpCells(arr, flag_seq, scan_pc, l)
      /\ scan_pc \in [ScanThreads -> ScanLabels]
  <2>1. Round(t) = l /\ Round(t) = Round(0)
    BY <1>1 DEF ScanInv, OneRound, Round, RoundOf
  <2> QED
    BY <1>2, <2>1 DEF ScanInv, ScanTypes, Sums
<1>8. ScanTypes' /\ Placed' /\ OneRound' /\ Round(0)' = l
  <2>1. ScanTypes'
    <3>1. arr' \in [ScanThreads -> Int]
      <4>1. c \in Nat /\ d \in Nat /\ d <= c
        BY <1>4
      <4>2. c < ExpTwo(K) => c \in ScanThreads /\ d \in ScanThreads
        BY <4>1 DEF ScanThreads
      <4>3. c < ExpTwo(K) => arr[c] + arr[d] \in Int
        BY <1>7, <4>2
      <4> HIDE DEF arr, c, d
      <4> QED
        BY <1>6, <1>7, <4>2, <4>3
    <3>2. scan_pc' \in [ScanThreads -> ScanLabels]
      BY <1>1, <1>7 DEF ScanLabels, Scan!Labels
    <3> QED
      BY <1>1, <3>1, <3>2 DEF ScanInv, ScanTypes
  <2>2. Placed'
    BY <1>1, <1>7 DEF ScanInv, Placed
  <2>3. \A u \in ScanThreads : Round(u)' = Round(u)
    BY <1>1, <1>7 DEF Round, RoundOf
  <2> QED
    BY <1>7, <2>1, <2>2, <2>3 DEF ScanInv, OneRound
<1> HIDE DEF l, c, d, arr
<1>9. LeftCells(arr', flag_seq, l)
  <2> SUFFICES ASSUME NEW j \in 0 .. l - 1, NEW a \in Nat, Cell(j, 2 * a + 1) < ExpTwo(K)
               PROVE  arr'[Cell(j, 2 * a + 1)] = Block(flag_seq, j, 2 * a + 1)
    BY DEF LeftCells
  <2>1. Cell(j, 2 * a + 1) # c
    BY <1>2, <1>3, OddDiffers DEF c
  <2>2. arr[Cell(j, 2 * a + 1)] = Block(flag_seq, j, 2 * a + 1)
    BY <1>7 DEF UpCells, LeftCells
  <2>3. Cell(j, 2 * a + 1) \in ScanThreads
    BY <1>3, CellFacts DEF ScanThreads
  <2> QED
    BY <1>6, <1>7, <2>1, <2>2, <2>3
<1>10. ASSUME NEW u \in ScanThreads, Cell(l, u + 1) < ExpTwo(K)
       PROVE  arr'[Cell(l, u + 1)] = IF scan_pc'[u] = "upBarrier" THEN Block(flag_seq, l, u + 1)
                                     ELSE Block(flag_seq, l - 1, 2 * (u + 1))
  <2>1. u + 1 \in Nat \ {0} /\ Cell(l, u + 1) \in ScanThreads
    <3>1. u \in Nat /\ u + 1 \in Nat \ {0}
      BY DEF ScanThreads
    <3>2. Cell(l, u + 1) \in Nat
      BY <1>3, <3>1, CellFacts
    <3> QED
      BY <1>10, <3>1, <3>2 DEF ScanThreads
  <2>2. CASE u = t
    <3>1. c < ExpTwo(K) /\ c \in ScanThreads /\ c = Cell((l - 1) + 1, t + 1)
      BY <1>3, <1>10, <2>1, <2>2 DEF c
    <3>2. arr[c] = Block(flag_seq, l - 1, 2 * (t + 1))
      BY <1>1, <1>7, <1>10, <2>2 DEF UpCells, c
    <3>3. arr[d] = Block(flag_seq, l - 1, 2 * t + 1)
      <4>1. d < ExpTwo(K) /\ l - 1 \in 0 .. l - 1
        BY <1>3, <1>4, <3>1
      <4> QED
        BY <1>2, <1>7, <4>1 DEF UpCells, LeftCells, d
    <3>4. Block(flag_seq, l, t + 1) =
            Block(flag_seq, l - 1, 2 * t + 1) + Block(flag_seq, l - 1, 2 * (t + 1))
      BY <1>2, <1>3, <1>7, <3>1, BlockFacts
    <3>5. arr'[c] = Block(flag_seq, l, t + 1)
      <4>1. arr[c] \in Int /\ arr[d] \in Int
        <5>1. d \in ScanThreads
          BY <1>4, <3>1 DEF ScanThreads
        <5> QED
          BY <1>7, <3>1, <5>1
      <4> QED
        BY <1>6, <1>7, <3>1, <3>2, <3>3, <3>4, <4>1
    <3> QED
      BY <1>1, <1>7, <2>2, <3>5 DEF c
  <2>3. CASE u # t
    <3>1. Cell(l, u + 1) # c
      BY <1>2, <1>3, <2>1, <2>3, CellFacts DEF c, ScanThreads
    <3>2. arr'[Cell(l, u + 1)] = arr[Cell(l, u + 1)] /\ scan_pc'[u] = scan_pc[u]
      BY <1>1, <1>6, <1>7, <2>1, <2>3, <3>1
    <3> QED
      BY <1>7, <1>10, <3>2 DEF UpCells
  <2> QED
    BY <2>2, <2>3
<1>11. UpCells(arr', flag_seq', scan_pc', l)
  BY <1>1, <1>9, <1>10 DEF UpCells
<1> QED
  BY <1>2, <1>3, <1>8, <1>11 DEF ScanInv, Sums, arr, l

\* The sums depend on few of the labels.
LEMMA SameSums ==
  ASSUME NEW arr, NEW xs, NEW pcs, NEW next, NEW r, Sums(arr, xs, pcs, r),
         \A t \in ScanThreads : /\ next[t] = "upBarrier" <=> pcs[t] = "upBarrier"
                                /\ next[t] = "downBarrier" <=> pcs[t] = "downBarrier"
                                /\ pcs[t] = "clear" => next[t] = "clear"
  PROVE  Sums(arr, xs, next, r)
<1>1. \A l : UpCells(arr, xs, pcs, l) => UpCells(arr, xs, next, l)
  BY DEF UpCells
<1>2. \A l : DownCells(arr, xs, pcs, l) => DownCells(arr, xs, next, l)
  BY DEF DownCells
<1> QED
  BY <1>1, <1>2 DEF Sums

\* The next round of the up-sweep: one level up, or past the root.
LEMMA UpNextKeeps ==
  ASSUME ScanInv, NEW t \in ScanThreads, Scan!UpNext(t)
  PROVE  ScanInv'
<1> USE KIs
<1> DEFINE l == lvl[t]
<1>1. /\ scan_pc[t] = "upNext" /\ flag_after_prefix' = flag_after_prefix /\ flag_seq' = flag_seq
      /\ indicator' = [indicator EXCEPT ![t] = 2 * indicator[t] + 1]
      /\ stride' = [stride EXCEPT ![t] = 2 * stride[t]]
      /\ lvl' = [lvl EXCEPT ![t] = lvl[t] + 1]
      /\ scan_pc' = [scan_pc EXCEPT ![t] = IF 2 * stride[t] < ExpTwo(K) THEN "up" ELSE "midBarrier"]
  BY SameNames DEF Scan!UpNext, Scan!AfterUp
<1>2. /\ l \in 1 .. K /\ stride[t] = ExpTwo(l - 1) /\ indicator[t] = Cell(l, t + 1)
      /\ ScanTypes /\ t \in Nat
  BY <1>1 DEF ScanInv, Placed, ScanThreads
<1>3. /\ 2 * stride[t] = ExpTwo(l) /\ 2 * indicator[t] + 1 = Cell(l + 1, t + 1)
      /\ ExpTwo(l) \in Nat /\ Cell(l + 1, t + 1) \in Nat
  <2>1. l - 1 \in Nat /\ l \in Nat /\ (l - 1) + 1 = l /\ t + 1 \in Nat \ {0} /\ l + 1 \in Nat
    BY <1>2
  <2>2. 2 * ExpTwo(l - 1) = ExpTwo(l) /\ ExpTwo(l + 1) = 2 * ExpTwo(l) /\ ExpTwo(l) \in Nat
    BY <2>1, Doubling
  <2>3. \A x, y \in Nat : 2 * (x * y - 1) + 1 = 2 * x * y - 1
    OBVIOUS
  <2>4. 2 * Cell(l, t + 1) + 1 = Cell(l + 1, t + 1)
    BY <2>1, <2>2, <2>3 DEF Cell
  <2>5. Cell(l + 1, t + 1) \in Nat
    BY <2>1, CellFacts
  <2> QED
    BY <1>2, <2>2, <2>4, <2>5
<1>4. /\ l < K => ExpTwo(l) < ExpTwo(K)
      /\ l = K => ~(ExpTwo(l) < ExpTwo(K))
  <2>1. CASE l < K
    <3>1. 2 * ExpTwo(l) <= ExpTwo(K) /\ ExpTwo(l) \in Nat \ {0}
      <4>1. l \in Nat
        BY <1>2
      <4> QED
        BY <2>1, <4>1, PowersGrow, Doubling
    <3>2. ExpTwo(K) \in Nat
      BY Doubling
    <3> QED
      BY <2>1, <3>1, <3>2
  <2> QED
    BY <1>2, <2>1
<1>5. /\ scan_pc' \in [ScanThreads -> ScanLabels]
      /\ scan_pc'[t] = IF l < K THEN "up" ELSE "midBarrier"
      /\ lvl'[t] = l + 1 /\ stride'[t] = ExpTwo(l) /\ indicator'[t] = Cell(l + 1, t + 1)
      /\ \A u \in ScanThreads : u # t =>
            /\ lvl'[u] = lvl[u] /\ stride'[u] = stride[u] /\ indicator'[u] = indicator[u]
            /\ scan_pc'[u] = scan_pc[u]
  <2> DEFINE p == IF l < K THEN "up" ELSE "midBarrier"
  <2>1. /\ scan_pc' = [scan_pc EXCEPT ![t] = p] /\ p \in ScanLabels
        /\ lvl' = [lvl EXCEPT ![t] = l + 1] /\ stride' = [stride EXCEPT ![t] = ExpTwo(l)]
        /\ indicator' = [indicator EXCEPT ![t] = Cell(l + 1, t + 1)]
    <3>1. 2 * stride[t] < ExpTwo(K) <=> l < K
      BY <1>2, <1>3, <1>4
    <3>2. p = IF 2 * stride[t] < ExpTwo(K) THEN "up" ELSE "midBarrier"
      BY <3>1
    <3>3. p \in ScanLabels
      BY DEF ScanLabels, Scan!Labels
    <3> HIDE DEF p
    <3> QED
      BY <1>1, <1>3, <3>2, <3>3
  <2> HIDE DEF p, l
  <2>2. /\ scan_pc' \in [ScanThreads -> ScanLabels]
        /\ scan_pc'[t] = p /\ lvl'[t] = l + 1 /\ stride'[t] = ExpTwo(l)
        /\ indicator'[t] = Cell(l + 1, t + 1)
        /\ \A u \in ScanThreads : u # t =>
              /\ lvl'[u] = lvl[u] /\ stride'[u] = stride[u] /\ indicator'[u] = indicator[u]
              /\ scan_pc'[u] = scan_pc[u]
    BY <1>2, <2>1 DEF ScanTypes
  <2> QED
    BY <2>2 DEF p
<1>6. ScanTypes'
  <2>1. 2 * indicator[t] + 1 \in Int /\ 2 * stride[t] \in Int /\ lvl[t] + 1 \in Int
    BY <1>2 DEF ScanTypes
  <2> QED
    BY <1>1, <1>2, <1>5, <2>1 DEF ScanTypes
<1>7. Placed'
  <2>1. (l + 1) - 1 = l /\ (l < K => l + 1 \in 1 .. K) /\ (~(l < K) => l + 1 = K + 1)
    BY <1>2
  <2> QED
    BY <1>5, <2>1 DEF ScanInv, Placed
<1>8. \A u \in ScanThreads : Round(u)' = Round(u)
  BY <1>1, <1>5 DEF Round, RoundOf
<1>9. Sums(flag_after_prefix, flag_seq, scan_pc', Round(0))
  <2>1. \A u \in ScanThreads : /\ scan_pc'[u] = "upBarrier" <=> scan_pc[u] = "upBarrier"
                               /\ scan_pc'[u] = "downBarrier" <=> scan_pc[u] = "downBarrier"
                               /\ scan_pc[u] = "clear" => scan_pc'[u] = "clear"
    BY <1>1, <1>5
  <2> QED
    BY <2>1, SameSums DEF ScanInv
<1> QED
  BY <1>1, <1>6, <1>7, <1>8, <1>9 DEF ScanInv, OneRound

\* The next round of the down-sweep: one level down, or the end.
LEMMA DownNextKeeps ==
  ASSUME ScanInv, NEW t \in ScanThreads, Scan!DownNext(t)
  PROVE  ScanInv'
<1> USE KIs
<1> DEFINE l == lvl[t]
<1>1. /\ scan_pc[t] = "downNext" /\ flag_after_prefix' = flag_after_prefix /\ flag_seq' = flag_seq
      /\ indicator' = [indicator EXCEPT ![t] = (indicator[t] - 1) \div 2]
      /\ stride' = [stride EXCEPT ![t] = stride[t] \div 2]
      /\ lvl' = [lvl EXCEPT ![t] = lvl[t] - 1]
      /\ scan_pc' = [scan_pc EXCEPT ![t] = IF stride[t] \div 2 >= 1 THEN "down" ELSE "end"]
  BY DEF Scan!DownNext, Scan!AfterDown
<1>2. /\ l \in 0 .. K - 1 /\ stride[t] = ExpTwo(l) /\ indicator[t] = Cell(l + 1, t + 1)
      /\ ScanTypes /\ t \in Nat /\ l \in Nat /\ t + 1 \in Nat \ {0}
  BY <1>1 DEF ScanInv, Placed, ScanThreads
<1>3. (indicator[t] - 1) \div 2 = Cell(l, t + 1) /\ Cell(l, t + 1) \in Nat
  <2>1. ExpTwo(l + 1) = 2 * ExpTwo(l) /\ ExpTwo(l) \in Nat
    BY <1>2, Doubling
  <2>2. \A x, y \in Nat : (((2 * x) * y - 1) - 1) \div 2 = x * y - 1
    <3>1. \A z \in Int : (2 * z) \div 2 = z
      OBVIOUS
    <3>2. \A x, y \in Nat : ((2 * x) * y - 1) - 1 = 2 * (x * y - 1) /\ x * y - 1 \in Int
      OBVIOUS
    <3> QED
      BY <3>1, <3>2
  <2>3. Cell(l, t + 1) \in Nat
    BY <1>2, CellFacts
  <2> QED
    BY <1>2, <2>1, <2>2, <2>3 DEF Cell
<1>4. /\ l > 0 => stride[t] \div 2 = ExpTwo(l - 1) /\ ExpTwo(l - 1) \in Nat \ {0}
      /\ l = 0 => stride[t] \div 2 = 0 /\ Cell(l, t + 1) = t
  <2>1. CASE l > 0
    <3>1. l - 1 \in Nat /\ (l - 1) + 1 = l
      BY <1>2, <2>1
    <3>2. ExpTwo(l) = 2 * ExpTwo(l - 1) /\ ExpTwo(l - 1) \in Nat \ {0}
      BY <3>1, Doubling
    <3> QED
      BY <1>2, <2>1, <3>2
  <2>2. CASE l = 0
    <3>1. ExpTwo(l) = 1
      BY <2>2, Doubling
    <3> QED
      BY <1>2, <2>2, <3>1 DEF Cell
  <2> QED
    BY <1>2, <2>1, <2>2
<1>5. /\ scan_pc' \in [ScanThreads -> ScanLabels]
      /\ scan_pc'[t] = IF l > 0 THEN "down" ELSE "end"
      /\ lvl'[t] = l - 1 /\ indicator'[t] = Cell(l, t + 1)
      /\ l > 0 => stride'[t] = ExpTwo(l - 1)
      /\ stride'[t] \in Int
      /\ \A u \in ScanThreads : u # t =>
            /\ lvl'[u] = lvl[u] /\ stride'[u] = stride[u] /\ indicator'[u] = indicator[u]
            /\ scan_pc'[u] = scan_pc[u]
  <2> DEFINE p == IF l > 0 THEN "down" ELSE "end"
             i == Cell(l, t + 1)
             s == stride[t] \div 2
  <2>1. /\ scan_pc' = [scan_pc EXCEPT ![t] = p] /\ p \in ScanLabels
        /\ lvl' = [lvl EXCEPT ![t] = l - 1] /\ stride' = [stride EXCEPT ![t] = s]
        /\ indicator' = [indicator EXCEPT ![t] = i]
    <3>1. (s >= 1) <=> (l > 0)
      BY <1>2, <1>4
    <3> QED
      BY <1>1, <1>2, <1>3, <3>1 DEF ScanLabels, Scan!Labels
  <2>2. s \in Int /\ (l > 0 => s = ExpTwo(l - 1))
    BY <1>2, <1>4
  <2> HIDE DEF p, l, i, s
  <2>3. /\ scan_pc' \in [ScanThreads -> ScanLabels]
        /\ scan_pc'[t] = p /\ lvl'[t] = l - 1 /\ stride'[t] = s /\ indicator'[t] = i
        /\ \A u \in ScanThreads : u # t =>
              /\ lvl'[u] = lvl[u] /\ stride'[u] = stride[u] /\ indicator'[u] = indicator[u]
              /\ scan_pc'[u] = scan_pc[u]
    BY <1>2, <2>1 DEF ScanTypes
  <2> QED
    BY <2>2, <2>3 DEF p, i
<1>6. ScanTypes'
  <2>1. (indicator[t] - 1) \div 2 \in Int /\ stride[t] \div 2 \in Int /\ lvl[t] - 1 \in Int
    <3>1. indicator[t] - 1 \in Int /\ stride[t] \in Int /\ lvl[t] \in Int
      BY <1>2 DEF ScanTypes
    <3> QED
      BY <3>1
  <2> QED
    BY <1>1, <1>2, <1>5, <2>1 DEF ScanTypes
<1>7. Placed'
  <2>1. (l - 1) + 1 = l /\ (l > 0 => l - 1 \in 0 .. K - 1) /\ (~(l > 0) => l - 1 = -1 /\ l = 0)
    BY <1>2
  <2> QED
    BY <1>4, <1>5, <2>1 DEF ScanInv, Placed
<1>8. \A u \in ScanThreads : Round(u)' = Round(u)
  BY <1>1, <1>2, <1>5 DEF Round, RoundOf
<1>9. Sums(flag_after_prefix, flag_seq, scan_pc', Round(0))
  <2>1. \A u \in ScanThreads : /\ scan_pc'[u] = "upBarrier" <=> scan_pc[u] = "upBarrier"
                               /\ scan_pc'[u] = "downBarrier" <=> scan_pc[u] = "downBarrier"
                               /\ scan_pc[u] = "clear" => scan_pc'[u] = "clear"
    BY <1>1, <1>5
  <2> QED
    BY <2>1, SameSums DEF ScanInv
<1> QED
  BY <1>1, <1>6, <1>7, <1>8, <1>9 DEF ScanInv, OneRound

\* A barrier: all stand at it, and go on to the next round.
LEMMA AtBarrier ==
  ASSUME ScanInv, NEW from, NEW to, to \in ScanLabels, Scan!Barrier(from, to)
  PROVE  /\ ScanTypes'
         /\ \A t \in ScanThreads : scan_pc[t] = from /\ scan_pc'[t] = to
         /\ flag_after_prefix' = flag_after_prefix /\ flag_seq' = flag_seq
         /\ indicator' = indicator /\ stride' = stride /\ lvl' = lvl
         /\ lvl[0] \in Int /\ scan_pc'[0] = to /\ scan_pc[0] = from
<1>1. /\ \A t \in ScanThreads : scan_pc[t] = from
      /\ scan_pc' = [t \in ScanThreads |-> to]
      /\ flag_after_prefix' = flag_after_prefix /\ flag_seq' = flag_seq
      /\ indicator' = indicator /\ stride' = stride /\ lvl' = lvl
  BY SameNames DEF Scan!Barrier
<1>2. ScanTypes
  BY DEF ScanInv
<1> QED
  BY <1>1, <1>2, KIs DEF ScanTypes

\* The barrier of the up-sweep: what all threads wrote is the next level.
LEMMA UpBarrierKeeps ==
  ASSUME ScanInv, Scan!Barrier("upBarrier", "upNext")
  PROVE  ScanInv'
<1> USE KIs
<1> DEFINE arr == flag_after_prefix
           r == lvl[0]
<1>1. /\ ScanTypes'
      /\ \A t \in ScanThreads : scan_pc[t] = "upBarrier" /\ scan_pc'[t] = "upNext"
      /\ arr' = arr /\ flag_seq' = flag_seq
      /\ indicator' = indicator /\ stride' = stride /\ lvl' = lvl
      /\ r \in Int /\ scan_pc'[0] = "upNext" /\ scan_pc[0] = "upBarrier"
  BY AtBarrier DEF ScanLabels, Scan!Labels
<1>2. r \in 1 .. K /\ Round(0) = r /\ \A t \in ScanThreads : lvl[t] = r
  BY <1>1 DEF ScanInv, Placed, OneRound, Round, RoundOf
<1>3. Placed'
  BY <1>1 DEF ScanInv, Placed
<1>4. OneRound' /\ Round(0)' = r + 1
  BY <1>1, <1>2 DEF OneRound, Round, RoundOf
<1> HIDE DEF arr
<1>5. UpCells(arr, flag_seq, scan_pc, r)
  BY <1>2 DEF ScanInv, Sums, arr
<1>6. LeftCells(arr, flag_seq, r + 1)
  <2> SUFFICES ASSUME NEW j \in 0 .. (r + 1) - 1, NEW a \in Nat, Cell(j, 2 * a + 1) < ExpTwo(K)
               PROVE  arr[Cell(j, 2 * a + 1)] = Block(flag_seq, j, 2 * a + 1)
    BY DEF LeftCells
  <2>1. CASE j < r
    <3>1. j \in 0 .. r - 1
      BY <1>2, <2>1
    <3> QED
      BY <1>5, <3>1 DEF UpCells, LeftCells
  <2>2. CASE ~(j < r)
    <3>1. j = r /\ j \in Nat
      BY <1>2, <2>2
    <3>2. 2 * a + 1 \in Nat \ {0} /\ (2 * a + 1) - 1 = 2 * a /\ 2 * a \in Nat
      OBVIOUS
    <3>3. 2 * a <= Cell(j, 2 * a + 1) /\ Cell(j, 2 * a + 1) \in Nat
      <4>1. (2 * a + 1) - 1 <= Cell(j, 2 * a + 1) /\ Cell(j, 2 * a + 1) \in Nat
        BY <3>1, <3>2, CellFacts
      <4> QED
        BY <3>2, <4>1
    <3>4. 2 * a \in ScanThreads
      BY <3>2, <3>3 DEF ScanThreads
    <3> QED
      BY <1>1, <1>5, <3>1, <3>4 DEF UpCells
  <2> QED
    BY <2>1, <2>2
<1>7. ASSUME NEW t \in ScanThreads, Cell(r + 1, t + 1) < ExpTwo(K)
      PROVE  arr[Cell(r + 1, t + 1)] = Block(flag_seq, r, 2 * (t + 1))
  <2>1. t + 1 \in Nat \ {0} /\ 2 * (t + 1) \in Nat \ {0} /\ 2 * (t + 1) - 1 \in Nat
        /\ (2 * (t + 1) - 1) + 1 = 2 * (t + 1) /\ r \in Nat
    BY <1>2 DEF ScanThreads
  <2>2. Cell(r + 1, t + 1) = Cell(r, 2 * (t + 1))
    BY <2>1, CellFacts
  <2>3. 2 * (t + 1) - 1 <= Cell(r, 2 * (t + 1)) /\ Cell(r, 2 * (t + 1)) \in Nat
    BY <2>1, CellFacts
  <2>4. 2 * (t + 1) - 1 \in ScanThreads
    BY <1>7, <2>1, <2>2, <2>3 DEF ScanThreads
  <2>5. arr[Cell(r, (2 * (t + 1) - 1) + 1)] = Block(flag_seq, r, (2 * (t + 1) - 1) + 1)
    BY <1>1, <1>5, <1>7, <2>1, <2>2, <2>4 DEF UpCells
  <2> QED
    BY <2>1, <2>2, <2>5
<1>8. UpCells(arr', flag_seq', scan_pc', r + 1)
  <2>1. (r + 1) - 1 = r
    BY <1>2
  <2> QED
    BY <1>1, <1>6, <1>7, <2>1 DEF UpCells
<1>9. Sums(arr', flag_seq', scan_pc', r + 1)
  BY <1>2, <1>8 DEF Sums
<1> QED
  BY <1>1, <1>3, <1>4, <1>9 DEF ScanInv, arr

\* The barrier between the sweeps: all levels below the root are sums of blocks.
LEMMA MidBarrierKeeps ==
  ASSUME ScanInv, Scan!Barrier("midBarrier", "clear")
  PROVE  ScanInv'
<1> USE KIs
<1> DEFINE arr == flag_after_prefix
<1>1. /\ ScanTypes'
      /\ \A t \in ScanThreads : scan_pc[t] = "midBarrier" /\ scan_pc'[t] = "clear"
      /\ arr' = arr /\ flag_seq' = flag_seq
      /\ indicator' = indicator /\ stride' = stride /\ lvl' = lvl
      /\ scan_pc'[0] = "clear" /\ scan_pc[0] = "midBarrier"
  BY AtBarrier DEF ScanLabels, Scan!Labels
<1>2. Round(0) = K + 1 /\ \A t \in ScanThreads : lvl[t] = K + 1
  BY <1>1 DEF ScanInv, Placed, OneRound, Round, RoundOf
<1>3. Placed'
  BY <1>1 DEF ScanInv, Placed
<1>4. OneRound' /\ Round(0)' = K + 2
  BY <1>1, <1>2 DEF OneRound, Round, RoundOf
<1> HIDE DEF arr
<1>5. LeftCells(arr, flag_seq, K + 1)
  <2>1. K + 1 \in 1 .. K + 1
    OBVIOUS
  <2> QED
    BY <1>2, <2>1 DEF ScanInv, Sums, UpCells, arr
<1>6. LeftCells(arr, flag_seq, K - 1)
  <2>1. \A j \in 0 .. (K - 1) - 1 : j \in 0 .. (K + 1) - 1
    OBVIOUS
  <2> QED
    BY <1>5, <2>1 DEF LeftCells
<1>7. ASSUME K - 1 >= 0, NEW t \in ScanThreads, Cell(K - 1, 2 * t + 1) < ExpTwo(K)
      PROVE  arr[Cell(K - 1, 2 * t + 1)] = Block(flag_seq, K - 1, 2 * t + 1)
  <2>1. K - 1 \in 0 .. (K + 1) - 1 /\ t \in Nat
    BY <1>7 DEF ScanThreads
  <2> QED
    BY <1>5, <1>7, <2>1 DEF LeftCells
<1>8. DownCells(arr', flag_seq', scan_pc', K - 1)
  BY <1>1, <1>6, <1>7 DEF DownCells
<1>9. Sums(arr', flag_seq', scan_pc', K + 2)
  <2>1. 2 * K + 1 - (K + 2) = K - 1 /\ K + 2 \notin 1 .. K + 1 /\ K + 2 # 2 * K + 3
    OBVIOUS
  <2> QED
    BY <1>8, <2>1 DEF Sums
<1> QED
  BY <1>1, <1>3, <1>4, <1>9 DEF ScanInv, arr

\* The barrier of the down-sweep: what all threads wrote is what lies ahead, one level down.
LEMMA DownBarrierKeeps ==
  ASSUME ScanInv, Scan!Barrier("downBarrier", "downNext")
  PROVE  ScanInv'
<1> USE KIs
<1> DEFINE arr == flag_after_prefix
           l == lvl[0]
<1>1. /\ ScanTypes'
      /\ \A t \in ScanThreads : scan_pc[t] = "downBarrier" /\ scan_pc'[t] = "downNext"
      /\ arr' = arr /\ flag_seq' = flag_seq
      /\ indicator' = indicator /\ stride' = stride /\ lvl' = lvl
      /\ l \in Int /\ scan_pc'[0] = "downNext" /\ scan_pc[0] = "downBarrier"
      /\ \A t \in ScanThreads : lvl[t] \in Int
  BY AtBarrier DEF ScanLabels, Scan!Labels, ScanInv, ScanTypes
<1>2. l \in 0 .. K - 1 /\ Round(0) = 2 * K + 1 - l /\ \A t \in ScanThreads : lvl[t] = l
  BY <1>1 DEF ScanInv, Placed, OneRound, Round, RoundOf
<1>3. Placed'
  BY <1>1 DEF ScanInv, Placed
<1>4. OneRound' /\ Round(0)' = 2 * K + 2 - l
  BY <1>1, <1>2 DEF OneRound, Round, RoundOf
<1> HIDE DEF arr
<1>5. DownCells(arr, flag_seq, scan_pc, l)
  <2>1. 2 * K + 1 - l \in K + 2 .. 2 * K + 2 /\ 2 * K + 1 - (2 * K + 1 - l) = l
    BY <1>2
  <2> HIDE DEF l
  <2> QED
    BY <1>2, <2>1 DEF ScanInv, Sums, arr
<1>6. LeftCells(arr, flag_seq, l - 1)
  <2>1. \A j \in 0 .. (l - 1) - 1 : j \in 0 .. l - 1
    BY <1>2
  <2> QED
    BY <1>5, <2>1 DEF DownCells, LeftCells
<1>7. ASSUME l - 1 >= 0, NEW t \in ScanThreads, Cell(l - 1, 2 * t + 1) < ExpTwo(K)
      PROVE  arr[Cell(l - 1, 2 * t + 1)] = Block(flag_seq, l - 1, 2 * t + 1)
  <2>1. l - 1 \in 0 .. l - 1 /\ t \in Nat
    BY <1>2, <1>7 DEF ScanThreads
  <2> QED
    BY <1>5, <1>7, <2>1 DEF DownCells, LeftCells
<1>8. ASSUME NEW t \in ScanThreads, Cell(l, t + 1) < ExpTwo(K)
      PROVE  arr[Cell(l, t + 1)] = Ahead(flag_seq, l, t + 1)
  <2>1. t \in Nat /\ l \in Nat /\ t + 1 \in Nat \ {0} /\ l >= 0
    BY <1>2 DEF ScanThreads
  <2>2. PICK u \in Nat : t = 2 * u \/ t = 2 * u + 1
    <3>1. t \div 2 \in Nat /\ (t = 2 * (t \div 2) \/ t = 2 * (t \div 2) + 1)
      BY <2>1
    <3> QED
      BY <3>1
  <2>3. u \in ScanThreads
    BY <2>1, <2>2 DEF ScanThreads
  <2>4. CASE t = 2 * u
    <3>1. t + 1 = 2 * u + 1
      BY <2>4
    <3> QED
      BY <1>1, <1>5, <1>8, <2>1, <2>3, <3>1 DEF DownCells
  <2>5. CASE t = 2 * u + 1
    <3>1. t + 1 = 2 * (u + 1) /\ u + 1 \in Nat \ {0}
      BY <2>5
    <3>2. Cell(l + 1, u + 1) = Cell(l, t + 1)
      <4>1. Cell(l + 1, u + 1) = Cell(l, 2 * (u + 1))
        BY <2>1, <3>1, CellFacts
      <4> QED
        BY <3>1, <4>1
    <3> QED
      BY <1>1, <1>5, <1>8, <2>3, <3>1, <3>2 DEF DownCells
  <2> QED
    BY <2>2, <2>4, <2>5
<1>9. DownCells(arr', flag_seq', scan_pc', l - 1)
  <2>1. (l - 1) + 1 = l
    BY <1>2
  <2> QED
    BY <1>1, <1>6, <1>7, <1>8, <2>1 DEF DownCells
<1>10. Sums(arr', flag_seq', scan_pc', 2 * K + 2 - l)
  <2>1. /\ 2 * K + 1 - (2 * K + 2 - l) = l - 1 /\ 2 * K + 2 - l \notin 1 .. K + 1
        /\ 2 * K + 2 - l # 2 * K + 3
    BY <1>2
  <2> HIDE DEF l
  <2> QED
    BY <1>9, <2>1 DEF Sums
<1> QED
  BY <1>1, <1>3, <1>4, <1>10 DEF ScanInv, arr

\* The barrier after the scan: each cell holds the sum of all before it.
LEMMA LastBarrierKeeps ==
  ASSUME ScanInv, Scan!Barrier("end", "scatter")
  PROVE  ScanInv'
<1> USE KIs
<1> DEFINE arr == flag_after_prefix
<1>1. /\ ScanTypes'
      /\ \A t \in ScanThreads : scan_pc[t] = "end" /\ scan_pc'[t] = "scatter"
      /\ arr' = arr /\ flag_seq' = flag_seq
      /\ indicator' = indicator /\ stride' = stride /\ lvl' = lvl
      /\ scan_pc'[0] = "scatter" /\ scan_pc[0] = "end"
  BY AtBarrier DEF ScanLabels
<1>2. Round(0) = 2 * K + 2
  BY <1>1 DEF ScanInv, Placed, Round, RoundOf
<1>3. Placed'
  BY <1>1 DEF ScanInv, Placed
<1>4. OneRound' /\ Round(0)' = 2 * K + 3
  BY <1>1 DEF OneRound, Round, RoundOf
<1> HIDE DEF arr
<1>5. DownCells(arr, flag_seq, scan_pc, -1)
  <2>1. 2 * K + 2 \in K + 2 .. 2 * K + 2 /\ 2 * K + 1 - (2 * K + 2) = -1
    OBVIOUS
  <2> QED
    BY <1>2, <2>1 DEF ScanInv, Sums, arr
<1>6. ASSUME NEW t \in ScanThreads PROVE arr[t] = Before(flag_seq, t)
  <2>1. t \in Nat /\ t < ExpTwo(K) /\ ExpTwo(0) = 1
    BY Doubling DEF ScanThreads
  <2>2. Cell(-1 + 1, t + 1) = t /\ Ahead(flag_seq, -1 + 1, t + 1) = Before(flag_seq, t)
    <3>1. 1 * (t + 1) - 1 = t /\ 1 * ((t + 1) - 1) = t /\ -1 + 1 = 0
      BY <2>1
    <3> QED
      BY <2>1, <3>1 DEF Cell, Ahead
  <2> QED
    BY <1>1, <1>5, <2>1, <2>2 DEF DownCells
<1>7. Sums(arr', flag_seq', scan_pc', 2 * K + 3)
  <2>1. 2 * K + 3 \notin 1 .. K + 1 /\ 2 * K + 3 \notin K + 2 .. 2 * K + 2
    OBVIOUS
  <2> QED
    BY <1>1, <1>6, <2>1 DEF Sums
<1> QED
  BY <1>1, <1>3, <1>4, <1>7 DEF ScanInv, arr

\* Clearing the root: nothing lies ahead of it.  No other cell of the tree is touched.
LEMMA ClearRootKeeps ==
  ASSUME ScanInv, NEW t \in ScanThreads, Scan!ClearRoot(t)
  PROVE  ScanInv'
<1> USE KIs
<1> DEFINE arr == flag_after_prefix
           n == ExpTwo(K)
           root == Cell(K, t + 1)
           p == IF K > 0 THEN "down" ELSE "end"
           s == n \div 2
<1>1. /\ scan_pc[t] = "clear" /\ flag_seq' = flag_seq
      /\ indicator' = [indicator EXCEPT ![t] = n * t + n - 1]
      /\ stride' = [stride EXCEPT ![t] = s]
      /\ lvl' = [lvl EXCEPT ![t] = K - 1]
      /\ scan_pc' = [scan_pc EXCEPT ![t] = IF s >= 1 THEN "down" ELSE "end"]
      /\ arr' = IF n * t + n - 1 < n THEN [arr EXCEPT ![n * t + n - 1] = 0] ELSE arr
  BY SameNames DEF Scan!ClearRoot, Scan!AfterDown
<1>2. /\ ScanTypes /\ t \in Nat /\ t + 1 \in Nat \ {0} /\ n \in Nat \ {0}
      /\ arr \in [ScanThreads -> Int] /\ s \in Int
  BY DEF ScanInv, ScanTypes, ScanThreads
<1>3. n * t + n - 1 = root /\ root \in Nat
  <2>1. \A x, y \in Nat : x * y + x - 1 = x * (y + 1) - 1
    OBVIOUS
  <2>2. root \in Nat
    BY <1>2, CellFacts
  <2> QED
    BY <1>2, <2>1, <2>2 DEF Cell
<1>4. /\ K > 0 => s = ExpTwo(K - 1) /\ s >= 1
      /\ K = 0 => s = 0 /\ root = t
  <2>1. CASE K > 0
    <3>1. K - 1 \in Nat /\ (K - 1) + 1 = K
      BY <2>1
    <3>2. ExpTwo(K) = 2 * ExpTwo(K - 1) /\ ExpTwo(K - 1) \in Nat \ {0}
      BY <3>1, Doubling
    <3> QED
      BY <2>1, <3>2
  <2>2. CASE K = 0
    <3>1. n = 1
      BY <2>2, Doubling
    <3> QED
      BY <1>2, <2>2, <3>1 DEF Cell
  <2> QED
    BY <2>1, <2>2
<1>5. root < n <=> t = 0
  BY <1>2, RootCell
<1>6. /\ scan_pc' = [scan_pc EXCEPT ![t] = p] /\ p \in ScanLabels
      /\ indicator' = [indicator EXCEPT ![t] = root]
      /\ arr' = IF t = 0 THEN [arr EXCEPT ![root] = 0] ELSE arr
  <2>1. s >= 1 <=> K > 0
    BY <1>2, <1>4
  <2> HIDE DEF s, arr, root, n
  <2> QED
    BY <1>1, <1>3, <1>5, <2>1 DEF ScanLabels, Scan!Labels
<1> HIDE DEF s, arr, root, n, p
<1>7. /\ scan_pc' \in [ScanThreads -> ScanLabels]
      /\ scan_pc'[t] = p /\ lvl'[t] = K - 1 /\ stride'[t] = s /\ indicator'[t] = root
      /\ \A u \in ScanThreads : u # t =>
            /\ lvl'[u] = lvl[u] /\ stride'[u] = stride[u] /\ indicator'[u] = indicator[u]
            /\ scan_pc'[u] = scan_pc[u]
  BY <1>1, <1>2, <1>6 DEF ScanTypes
<1>8. ScanTypes'
  <2>1. arr' \in [ScanThreads -> Int]
    <3>1. \A f \in [ScanThreads -> Int] : \A x, y :
            y \in Int => [f EXCEPT ![x] = y] \in [ScanThreads -> Int]
      OBVIOUS
    <3>2. 0 \in Int
      OBVIOUS
    <3> QED
      BY <1>2, <1>6, <3>1, <3>2
  <2>2. root \in Int /\ K - 1 \in Int
    BY <1>3
  <2> QED
    BY <1>1, <1>2, <1>6, <1>7, <2>1, <2>2 DEF ScanTypes, arr
<1>9. Placed'
  <2>1. /\ (K - 1) + 1 = K /\ K - 1 \in Int
        /\ (K > 0 => p = "down" /\ K - 1 \in 0 .. K - 1)
        /\ (~(K > 0) => p = "end" /\ K - 1 = -1 /\ K = 0)
    BY DEF p
  <2> QED
    BY <1>4, <1>7, <2>1 DEF ScanInv, Placed, root
<1>10. \A u \in ScanThreads : Round(u)' = Round(u)
  <2>1. Round(t) = K + 2
    BY <1>1 DEF Round, RoundOf
  <2>2. Round(t)' = K + 2
    <3>1. 2 * K + 1 - (K - 1) = K + 2
      OBVIOUS
    <3> QED
      BY <1>7, <3>1 DEF Round, RoundOf, p
  <2> QED
    BY <1>7, <2>1, <2>2 DEF Round
<1>11. DownCells(arr, flag_seq, scan_pc, K - 1)
  <2>1. Round(0) = K + 2
    BY <1>1 DEF ScanInv, OneRound, Round, RoundOf
  <2>2. K + 2 \in K + 2 .. 2 * K + 2 /\ 2 * K + 1 - (K + 2) = K - 1
    OBVIOUS
  <2> QED
    BY <2>1, <2>2 DEF ScanInv, Sums, arr
<1>12. ASSUME NEW c \in ScanThreads, c # root PROVE arr'[c] = arr[c]
  BY <1>2, <1>6, <1>12
<1>13. LeftCells(arr', flag_seq, K - 1)
  <2> SUFFICES ASSUME NEW j \in 0 .. (K - 1) - 1, NEW a \in Nat, Cell(j, 2 * a + 1) < ExpTwo(K)
               PROVE  arr'[Cell(j, 2 * a + 1)] = Block(flag_seq, j, 2 * a + 1)
    BY DEF LeftCells
  <2>1. j \in Nat /\ j < K /\ 2 * a + 1 \in Nat \ {0}
    OBVIOUS
  <2>2. Cell(j, 2 * a + 1) # root
    BY <1>2, <2>1, OddDiffers DEF root
  <2>3. Cell(j, 2 * a + 1) \in ScanThreads
    <3>1. Cell(j, 2 * a + 1) \in Nat
      BY <2>1, CellFacts
    <3> QED
      BY <3>1 DEF ScanThreads
  <2>4. arr[Cell(j, 2 * a + 1)] = Block(flag_seq, j, 2 * a + 1)
    BY <1>11 DEF DownCells, LeftCells
  <2> QED
    BY <1>12, <2>2, <2>3, <2>4
<1>14. ASSUME K - 1 >= 0, NEW u \in ScanThreads, Cell(K - 1, 2 * u + 1) < ExpTwo(K)
       PROVE  arr'[Cell(K - 1, 2 * u + 1)] =
                IF scan_pc'[u] = "downBarrier" THEN Ahead(flag_seq, K - 1, 2 * u + 1)
                ELSE Block(flag_seq, K - 1, 2 * u + 1)
  <2>1. K - 1 \in Nat /\ K - 1 < K /\ 2 * u + 1 \in Nat \ {0} /\ u \in Nat
    BY <1>14 DEF ScanThreads
  <2>2. Cell(K - 1, 2 * u + 1) # root
    BY <1>2, <2>1, OddDiffers DEF root
  <2>3. Cell(K - 1, 2 * u + 1) \in ScanThreads
    <3>1. Cell(K - 1, 2 * u + 1) \in Nat
      BY <2>1, CellFacts
    <3> QED
      BY <1>14, <3>1 DEF ScanThreads
  <2>4. scan_pc'[u] = "downBarrier" <=> scan_pc[u] = "downBarrier"
    BY <1>1, <1>7 DEF p
  <2> QED
    BY <1>11, <1>12, <1>14, <2>2, <2>3, <2>4 DEF DownCells
<1>15. ASSUME NEW u \in ScanThreads, Cell(K, u + 1) < ExpTwo(K), scan_pc'[u] # "clear"
       PROVE  /\ scan_pc'[u] # "downBarrier" => arr'[Cell(K, u + 1)] = Ahead(flag_seq, K, u + 1)
              /\ scan_pc'[u] = "downBarrier" =>
                   arr'[Cell(K, u + 1)] = Ahead(flag_seq, K - 1, 2 * (u + 1))
  <2>1. u \in Nat /\ u + 1 \in Nat \ {0}
    BY DEF ScanThreads
  <2>2. u = 0
    BY <1>15, <2>1, RootCell
  <2>3. CASE u = t
    <3>1. root \in ScanThreads /\ t = 0
      BY <1>2, <1>3, <1>5, <2>2, <2>3 DEF ScanThreads, n
    <3>2. arr'[root] = 0
      BY <1>2, <1>6, <3>1
    <3>3. Ahead(flag_seq, K, u + 1) = 0
      <4>1. n * ((0 + 1) - 1) = 0
        BY <1>2
      <4>2. flag_seq \in Seq(Int)
        BY <1>2 DEF ScanTypes
      <4> QED
        BY <2>2, <4>1, <4>2, SumsBefore DEF Ahead, n
    <3> QED
      BY <1>7, <2>3, <3>2, <3>3 DEF p, root
  <2>4. CASE u # t
    <3>1. arr' = arr
      BY <1>6, <2>2, <2>4
    <3>2. scan_pc'[u] = scan_pc[u]
      BY <1>7, <2>4
    <3>3. (K - 1) + 1 = K
      OBVIOUS
    <3> QED
      BY <1>11, <1>15, <3>1, <3>2, <3>3 DEF DownCells
  <2> QED
    BY <2>3, <2>4
<1>16. DownCells(arr', flag_seq', scan_pc', K - 1)
  <2>1. (K - 1) + 1 = K
    OBVIOUS
  <2> QED
    BY <1>1, <1>13, <1>14, <1>15, <2>1 DEF DownCells
<1>17. Sums(arr', flag_seq', scan_pc', K + 2)
  <2>1. 2 * K + 1 - (K + 2) = K - 1 /\ K + 2 \notin 1 .. K + 1 /\ K + 2 # 2 * K + 3
    OBVIOUS
  <2> QED
    BY <1>16, <2>1 DEF Sums
<1>18. Round(0) = K + 2
  BY <1>1 DEF ScanInv, OneRound, Round, RoundOf
<1> QED
  BY <1>8, <1>9, <1>10, <1>17, <1>18 DEF ScanInv, OneRound, arr

\* A step of the down-sweep: the left cell gets what lies ahead of the block, the right one
\* the left half in addition.
LEMMA DownSweepKeeps ==
  ASSUME ScanInv, NEW t \in ScanThreads, Scan!DownSweep(t)
  PROVE  ScanInv'
<1> USE KIs
<1> DEFINE l == lvl[t]
           c == Cell(l + 1, t + 1)
           d == Cell(l, 2 * t + 1)
           arr == flag_after_prefix
<1>1. /\ scan_pc[t] = "down" /\ scan_pc' = [scan_pc EXCEPT ![t] = "downBarrier"]
      /\ flag_seq' = flag_seq /\ indicator' = indicator /\ stride' = stride /\ lvl' = lvl
      /\ arr' = IF Scan!HasPair(t)
                THEN [arr EXCEPT ![indicator[t]] = @ + arr[indicator[t] - stride[t]],
                                 ![indicator[t] - stride[t]] = arr[indicator[t]]]
                ELSE arr
  BY DEF Scan!DownSweep
<1>2. /\ l \in 0 .. K - 1 /\ stride[t] = ExpTwo(l) /\ indicator[t] = c
      /\ t + 1 \in Nat \ {0} /\ t \in Nat
  BY <1>1 DEF ScanInv, Placed, ScanThreads
<1>3. /\ l \in Nat /\ l + 1 \in Nat /\ l < l + 1
      /\ 2 * (t + 1) - 1 = 2 * t + 1 /\ 2 * t + 1 \in Nat \ {0}
      /\ 2 * (t + 1) \in Nat \ {0} /\ 2 * (t + 1) # 2 * t + 1 /\ l >= 0
  BY <1>2
<1>4. /\ c \in Nat /\ c - ExpTwo(l) = d /\ d \in Nat
      /\ ExpTwo(l) \in Nat \ {0} /\ ExpTwo(l) - 1 <= d
      /\ c = Cell(l, 2 * (t + 1))
  <2>1. c \in Nat
    BY <1>2, <1>3, CellFacts
  <2>2. /\ Cell(l + 1, t + 1) = Cell(l, 2 * (t + 1))
        /\ Cell(l + 1, t + 1) - ExpTwo(l) = Cell(l, 2 * (t + 1) - 1)
    BY <1>2, <1>3, CellFacts
  <2>3. d \in Nat /\ ExpTwo(l) - 1 <= d
    BY <1>3, CellFacts
  <2>4. ExpTwo(l) \in Nat \ {0}
    BY <1>3, Doubling
  <2> QED
    BY <1>3, <2>1, <2>2, <2>3, <2>4
<1>5. (Scan!HasPair(t) <=> c < ExpTwo(K)) /\ d < c
  BY <1>2, <1>4, SameNames DEF Scan!HasPair
<1>6. /\ flag_seq \in Seq(Int) /\ Len(flag_seq) = ExpTwo(K) /\ arr \in [ScanThreads -> Int]
      /\ Round(0) = 2 * K + 1 - l /\ scan_pc \in [ScanThreads -> ScanLabels]
  <2>1. Round(t) = 2 * K + 1 - l /\ Round(t) = Round(0)
    BY <1>1 DEF ScanInv, OneRound, Round, RoundOf
  <2> QED
    BY <2>1 DEF ScanInv, ScanTypes
<1>7. c < ExpTwo(K) => /\ c \in ScanThreads /\ d \in ScanThreads
                       /\ arr[c] \in Int /\ arr[d] \in Int
  <2>1. c < ExpTwo(K) => c \in ScanThreads /\ d \in ScanThreads
    BY <1>4, <1>5 DEF ScanThreads
  <2> QED
    BY <1>6, <2>1
<1> HIDE DEF c, d, arr
<1>8. /\ c < ExpTwo(K) => arr'[c] = arr[c] + arr[d] /\ arr'[d] = arr[c]
      /\ \A b \in ScanThreads : b # c /\ b # d => arr'[b] = arr[b]
      /\ arr' \in [ScanThreads -> Int]
  <2>1. arr' = IF c < ExpTwo(K) THEN [arr EXCEPT ![c] = @ + arr[d], ![d] = arr[c]] ELSE arr
    BY <1>1, <1>2, <1>4, <1>5
  <2>2. c # d
    BY <1>4, <1>5
  <2> QED
    BY <1>6, <1>7, <2>1, <2>2
<1>9. ScanTypes' /\ Placed' /\ OneRound' /\ Round(0)' = Round(0)
  <2>1. scan_pc' \in [ScanThreads -> ScanLabels]
    BY <1>1, <1>6 DEF ScanLabels, Scan!Labels
  <2>2. ScanTypes'
    BY <1>1, <1>8, <2>1 DEF ScanInv, ScanTypes, arr
  <2>3. Placed'
    BY <1>1, <1>6 DEF ScanInv, Placed
  <2>4. \A u \in ScanThreads : Round(u)' = Round(u)
    BY <1>1, <1>6 DEF Round, RoundOf
  <2> QED
    BY <2>2, <2>3, <2>4 DEF ScanInv, OneRound
<1>10. DownCells(arr, flag_seq, scan_pc, l)
  <2>1. 2 * K + 1 - l \in K + 2 .. 2 * K + 2 /\ 2 * K + 1 - (2 * K + 1 - l) = l
    BY <1>2
  <2> HIDE DEF l
  <2> QED
    BY <1>6, <2>1 DEF ScanInv, Sums, arr
<1>11. c < ExpTwo(K) =>
         /\ arr[c] = Ahead(flag_seq, l + 1, t + 1) /\ arr[d] = Block(flag_seq, l, 2 * t + 1)
         /\ Ahead(flag_seq, l, 2 * t + 1) = Ahead(flag_seq, l + 1, t + 1)
         /\ Ahead(flag_seq, l, 2 * (t + 1)) =
              Ahead(flag_seq, l + 1, t + 1) + Block(flag_seq, l, 2 * t + 1)
  <2> SUFFICES ASSUME c < ExpTwo(K)
               PROVE  /\ arr[c] = Ahead(flag_seq, l + 1, t + 1)
                      /\ arr[d] = Block(flag_seq, l, 2 * t + 1)
                      /\ Ahead(flag_seq, l, 2 * t + 1) = Ahead(flag_seq, l + 1, t + 1)
                      /\ Ahead(flag_seq, l, 2 * (t + 1)) =
                           Ahead(flag_seq, l + 1, t + 1) + Block(flag_seq, l, 2 * t + 1)
    OBVIOUS
  <2>1. arr[c] = Ahead(flag_seq, l + 1, t + 1)
    BY <1>1, <1>10 DEF DownCells, c
  <2>2. arr[d] = Block(flag_seq, l, 2 * t + 1)
    <3>1. d < ExpTwo(K)
      BY <1>4, <1>5
    <3> QED
      BY <1>1, <1>3, <1>10, <3>1 DEF DownCells, d
  <2>3. /\ Ahead(flag_seq, l, 2 * (t + 1) - 1) = Ahead(flag_seq, l + 1, t + 1)
        /\ Ahead(flag_seq, l, 2 * (t + 1)) =
             Ahead(flag_seq, l, 2 * (t + 1) - 1) + Block(flag_seq, l, 2 * (t + 1) - 1)
    <3>1. Cell(l + 1, t + 1) < Len(flag_seq)
      BY <1>6 DEF c
    <3> QED
      BY <1>2, <1>3, <1>6, <3>1, BlockFacts
  <2> QED
    BY <1>3, <2>1, <2>2, <2>3
<1>12. LeftCells(arr', flag_seq, l)
  <2> SUFFICES ASSUME NEW j \in 0 .. l - 1, NEW a \in Nat, Cell(j, 2 * a + 1) < ExpTwo(K)
               PROVE  arr'[Cell(j, 2 * a + 1)] = Block(flag_seq, j, 2 * a + 1)
    BY DEF LeftCells
  <2>1. /\ j \in Nat /\ j < l /\ j < l + 1
        /\ 2 * a + 1 \in Nat \ {0} /\ 2 * t + 1 \in Nat /\ t + 1 \in Nat
    BY <1>2, <1>3
  <2>2. Cell(j, 2 * a + 1) # c
    BY <1>3, <2>1, OddDiffers DEF c
  <2>3. Cell(j, 2 * a + 1) # d
    BY <1>3, <2>1, OddDiffers DEF d
  <2>4. Cell(j, 2 * a + 1) \in ScanThreads
    <3>1. Cell(j, 2 * a + 1) \in Nat
      BY <2>1, CellFacts
    <3> QED
      BY <3>1 DEF ScanThreads
  <2>5. arr[Cell(j, 2 * a + 1)] = Block(flag_seq, j, 2 * a + 1)
    BY <1>10 DEF DownCells, LeftCells
  <2> QED
    BY <1>8, <2>2, <2>3, <2>4, <2>5
<1>13. ASSUME NEW u \in ScanThreads, Cell(l, 2 * u + 1) < ExpTwo(K)
       PROVE  arr'[Cell(l, 2 * u + 1)] =
                IF scan_pc'[u] = "downBarrier" THEN Ahead(flag_seq, l, 2 * u + 1)
                ELSE Block(flag_seq, l, 2 * u + 1)
  <2>1. /\ u \in Nat /\ 2 * u + 1 \in Nat \ {0} /\ 2 * u + 1 # 2 * (t + 1)
        /\ u # t => 2 * u + 1 # 2 * t + 1
    BY <1>2 DEF ScanThreads
  <2>2. CASE u = t
    <3>1. d < ExpTwo(K) /\ d = Cell(l, 2 * u + 1)
      BY <1>13, <2>2 DEF d
    <3>2. c < ExpTwo(K)
      <4>1. l < K
        BY <1>2
      <4> QED
        BY <1>2, <1>3, <1>4, <3>1, <4>1, PairsAreWhole DEF d
    <3>3. scan_pc'[u] = "downBarrier"
      BY <1>1, <1>6, <2>2
    <3> QED
      BY <1>8, <1>11, <2>2, <3>1, <3>2, <3>3
  <2>3. CASE u # t
    <3>1. Cell(l, 2 * u + 1) # c
      BY <1>3, <1>4, <2>1, OtherCell
    <3>2. Cell(l, 2 * u + 1) # d
      BY <1>3, <2>1, <2>3, OtherCell DEF d
    <3>3. Cell(l, 2 * u + 1) \in ScanThreads
      <4>1. Cell(l, 2 * u + 1) \in Nat
        BY <1>3, <2>1, CellFacts
      <4> QED
        BY <1>13, <4>1 DEF ScanThreads
    <3>4. scan_pc'[u] = scan_pc[u]
      BY <1>1, <1>6, <2>3
    <3> QED
      BY <1>3, <1>8, <1>10, <1>13, <3>1, <3>2, <3>3, <3>4 DEF DownCells
  <2> QED
    BY <2>2, <2>3
<1>14. ASSUME NEW u \in ScanThreads, Cell(l + 1, u + 1) < ExpTwo(K), scan_pc'[u] # "clear"
       PROVE  arr'[Cell(l + 1, u + 1)] =
                IF scan_pc'[u] = "downBarrier" THEN Ahead(flag_seq, l, 2 * (u + 1))
                ELSE Ahead(flag_seq, l + 1, u + 1)
  <2>1. u \in Nat /\ u + 1 \in Nat \ {0} /\ (u # t => u + 1 # t + 1)
    BY <1>2 DEF ScanThreads
  <2>2. CASE u = t
    <3>1. scan_pc'[u] = "downBarrier" /\ c = Cell(l + 1, u + 1)
      BY <1>1, <1>6, <2>2 DEF c
    <3> QED
      BY <1>8, <1>11, <1>14, <2>2, <3>1
  <2>3. CASE u # t
    <3>1. Cell(l + 1, u + 1) # c
      BY <1>2, <1>3, <2>1, <2>3, OtherCell DEF c
    <3>2. Cell(l + 1, u + 1) # d
      BY <1>2, <1>3, <2>1, OddDiffers DEF d
    <3>3. Cell(l + 1, u + 1) \in ScanThreads
      <4>1. Cell(l + 1, u + 1) \in Nat
        BY <1>3, <2>1, CellFacts
      <4> QED
        BY <1>14, <4>1 DEF ScanThreads
    <3>4. scan_pc'[u] = scan_pc[u]
      BY <1>1, <1>6, <2>3
    <3> QED
      BY <1>8, <1>10, <1>14, <3>1, <3>2, <3>3, <3>4 DEF DownCells
  <2> QED
    BY <2>2, <2>3
<1>15. DownCells(arr', flag_seq', scan_pc', l)
  BY <1>1, <1>12, <1>13, <1>14 DEF DownCells
<1>16. Sums(arr', flag_seq', scan_pc', Round(0))
  <2>1. /\ 2 * K + 1 - (2 * K + 1 - l) = l /\ 2 * K + 1 - l \notin 1 .. K + 1
        /\ 2 * K + 1 - l # 2 * K + 3
    BY <1>2
  <2> HIDE DEF l
  <2> QED
    BY <1>6, <1>15, <2>1 DEF Sums
<1> QED
  BY <1>9, <1>16 DEF ScanInv, arr

\* The array itself is level 0 of the tree.
LEMMA StartsWell ==
  ASSUME NEW a \in [ScanThreads -> Int], Scan!Start(a)
  PROVE  ScanInv /\ flag_seq = [i \in 1 .. ExpTwo(K) |-> a[i - 1]]
<1> USE KIs
<1> DEFINE n == ExpTwo(K)
           xs == [i \in 1 .. n |-> a[i - 1]]
           p == IF K > 0 THEN "up" ELSE "midBarrier"
<1>1. ExpTwo(0) = 1 /\ ExpTwo(1) = 2
  <2>1. ExpTwo(0 + 1) = 2 * ExpTwo(0) /\ ExpTwo(0) = 1
    BY Doubling
  <2> QED
    BY <2>1
<1>2. 1 < n <=> K > 0
  <2>1. CASE K > 0
    <3>1. 2 * ExpTwo(0) <= ExpTwo(K)
      BY <2>1, PowersGrow
    <3> QED
      BY <1>1, <2>1, <3>1
  <2>2. CASE K = 0
    BY <1>1, <2>2
  <2> QED
    BY <2>1, <2>2
<1>3. /\ flag_after_prefix = a /\ flag_seq = xs
      /\ indicator = [t \in ScanThreads |-> 2 * t + 1]
      /\ stride = [t \in ScanThreads |-> 1] /\ lvl = [t \in ScanThreads |-> 1]
      /\ scan_pc = [t \in ScanThreads |-> p]
  <2>1. Scan!AfterUp(1) = p
    BY <1>2, SameNames DEF Scan!AfterUp
  <2>2. Scan!SeqOfArray(a) = xs
    BY SameNames DEF Scan!SeqOfArray
  <2> HIDE DEF p, xs
  <2> QED
    BY <2>1, <2>2, SameNames DEF Scan!Start
<1>4. xs \in Seq(Int) /\ Len(xs) = n /\ \A i \in 1 .. n : xs[i] = a[i - 1]
  <2>1. \A i \in 1 .. n : a[i - 1] \in Int
    BY DEF ScanThreads
  <2> QED
    BY <2>1
<1>5. ScanTypes
  <2>1. p \in ScanLabels
    BY DEF ScanLabels, Scan!Labels
  <2>2. \A t \in ScanThreads : 2 * t + 1 \in Int /\ 1 \in Int
    BY DEF ScanThreads
  <2> HIDE DEF p, xs
  <2> QED
    BY <1>3, <1>4, <2>1, <2>2 DEF ScanTypes
<1>6. Placed
  <2>1. ASSUME NEW t \in ScanThreads
        PROVE  Cell(1, t + 1) = 2 * t + 1
    <3>1. t \in Nat
      BY DEF ScanThreads
    <3> QED
      BY <1>1, <3>1 DEF Cell
  <2>2. 1 - 1 = 0 /\ (K > 0 => 1 \in 1 .. K) /\ (~(K > 0) => 1 = K + 1)
    OBVIOUS
  <2> QED
    BY <1>1, <1>3, <2>1, <2>2 DEF Placed
<1>7. OneRound /\ Round(0) = 1
  BY <1>3 DEF OneRound, Round, RoundOf
<1>8. ASSUME NEW m \in Nat, m < n
      PROVE  a[m] = Block(xs, 0, m + 1)
  <2>1. m \in 0 .. Len(xs) - 1 /\ m + 1 \in 1 .. n /\ (m + 1) - 1 = m
    BY <1>4, <1>8
  <2>2. Before(xs, m + 1) = Before(xs, m) + xs[m + 1] /\ Before(xs, m) \in Int /\ xs[m + 1] = a[m]
    <3>1. m \in 0 .. Len(xs)
      BY <2>1
    <3> HIDE DEF xs
    <3> QED
      BY <1>4, <2>1, <3>1, SumsBefore
  <2>3. a[m] \in Int
    BY <1>8 DEF ScanThreads
  <2>4. 1 * (m + 1) = m + 1 /\ 1 * ((m + 1) - 1) = m
    OBVIOUS
  <2> HIDE DEF xs
  <2> QED
    BY <1>1, <2>2, <2>3, <2>4 DEF Block
<1> HIDE DEF xs
<1>9. \A m \in Nat \ {0} : Cell(0, m) = m - 1
  BY <1>1 DEF Cell
<1>10. LeftCells(a, xs, 1)
  <2> SUFFICES ASSUME NEW j \in 0 .. 1 - 1, NEW c \in Nat, Cell(j, 2 * c + 1) < ExpTwo(K)
               PROVE  a[Cell(j, 2 * c + 1)] = Block(xs, j, 2 * c + 1)
    BY DEF LeftCells
  <2>1. j = 0 /\ Cell(0, 2 * c + 1) = 2 * c /\ 2 * c \in Nat
    BY <1>9
  <2> QED
    BY <1>8, <2>1
<1>11. ASSUME NEW t \in ScanThreads, Cell(1, t + 1) < ExpTwo(K)
       PROVE  a[Cell(1, t + 1)] = Block(xs, 0, 2 * (t + 1))
  <2>1. t \in Nat /\ t + 1 \in Nat \ {0} /\ 2 * (t + 1) = (2 * t + 1) + 1 /\ 2 * t + 1 \in Nat
    BY DEF ScanThreads
  <2>2. Cell(1, t + 1) = 2 * t + 1
    BY <1>1, <2>1 DEF Cell
  <2> QED
    BY <1>8, <1>11, <2>1, <2>2
<1>12. UpCells(a, xs, scan_pc, 1)
  <2>1. 1 - 1 = 0
    OBVIOUS
  <2> QED
    BY <1>3, <1>10, <1>11, <2>1 DEF UpCells
<1>13. Sums(a, xs, scan_pc, 1)
  <2>1. 1 \notin K + 2 .. 2 * K + 2 /\ 1 # 2 * K + 3
    OBVIOUS
  <2> QED
    BY <1>12, <2>1 DEF Sums
<1> QED
  BY <1>3, <1>5, <1>6, <1>7, <1>13 DEF ScanInv, xs

\* Every step of the kernel keeps the invariant.
LEMMA ScanStepKeeps ==
  ASSUME ScanInv, Scan!Next
  PROVE  ScanInv'
<1>1. ASSUME NEW t \in ScanThreads, Scan!ThreadStep(t) PROVE ScanInv'
  BY <1>1, UpSweepKeeps, UpNextKeeps, ClearRootKeeps, DownSweepKeeps, DownNextKeeps
     DEF Scan!ThreadStep
<1>2. ASSUME Scan!Barriers PROVE ScanInv'
  BY <1>2, UpBarrierKeeps, MidBarrierKeeps, DownBarrierKeeps DEF Scan!Barriers
<1> QED
  BY <1>1, <1>2, SameNames DEF Scan!Next

\* What a thread may touch, by the level of the round.
Level(r) == IF r <= K + 1 THEN r ELSE 2 * K + 2 - r

\* A thread touches only its own two cells on the level of the round.
LEMMA TouchedCells ==
  ASSUME ScanInv, NEW t \in ScanThreads, NEW c \in Scan!Touched(t)
  PROVE  /\ Level(Round(0)) \in Nat
         /\ \/ c = Cell(Level(Round(0)), t + 1)
            \/ Level(Round(0)) - 1 \in Nat /\ c = Cell(Level(Round(0)) - 1, 2 * t + 1)
<1> USE KIs
<1> DEFINE l == lvl[t]
<1>1. Round(t) = Round(0) /\ t \in Nat /\ t + 1 \in Nat \ {0} /\ 2 * (t + 1) - 1 = 2 * t + 1
  BY DEF ScanInv, OneRound, ScanThreads
<1>2. CASE scan_pc[t] = "up"
  <2>1. l \in 1 .. K /\ stride[t] = ExpTwo(l - 1) /\ indicator[t] = Cell(l, t + 1)
    BY <1>2 DEF ScanInv, Placed
  <2>2. Level(Round(0)) = l
    BY <1>1, <1>2, <2>1 DEF Round, RoundOf, Level
  <2>3. l - 1 \in Nat /\ l \in Nat /\ (l - 1) + 1 = l
    BY <2>1
  <2>4. Cell(l, t + 1) - ExpTwo(l - 1) = Cell(l - 1, 2 * t + 1)
    <3>1. Cell((l - 1) + 1, t + 1) - ExpTwo(l - 1) = Cell(l - 1, 2 * (t + 1) - 1)
      BY <1>1, <2>3, CellFacts
    <3> QED
      BY <1>1, <2>3, <3>1
  <2>5. c = indicator[t] \/ c = indicator[t] - stride[t]
    BY <1>2 DEF Scan!Touched
  <2> HIDE DEF l
  <2> QED
    BY <2>1, <2>2, <2>3, <2>4, <2>5
<1>3. CASE scan_pc[t] = "down"
  <2>1. l \in 0 .. K - 1 /\ stride[t] = ExpTwo(l) /\ indicator[t] = Cell(l + 1, t + 1)
    BY <1>3 DEF ScanInv, Placed
  <2>2. Level(Round(0)) = l + 1
    BY <1>1, <1>3, <2>1 DEF Round, RoundOf, Level
  <2>3. l \in Nat /\ l + 1 \in Nat /\ (l + 1) - 1 = l
    BY <2>1
  <2>4. Cell(l + 1, t + 1) - ExpTwo(l) = Cell(l, 2 * t + 1)
    <3>1. Cell(l + 1, t + 1) - ExpTwo(l) = Cell(l, 2 * (t + 1) - 1)
      BY <1>1, <2>3, CellFacts
    <3> QED
      BY <1>1, <3>1
  <2>5. c = indicator[t] \/ c = indicator[t] - stride[t]
    BY <1>3 DEF Scan!Touched
  <2> HIDE DEF l
  <2> QED
    BY <2>1, <2>2, <2>3, <2>4, <2>5
<1>4. CASE scan_pc[t] = "clear"
  <2>1. Level(Round(0)) = K
    BY <1>1, <1>4 DEF Round, RoundOf, Level
  <2>2. c = ExpTwo(K) * t + ExpTwo(K) - 1
    BY <1>4, SameNames DEF Scan!Touched
  <2>3. \A x, y \in Nat : x * y + x - 1 = x * (y + 1) - 1
    OBVIOUS
  <2> QED
    BY <1>1, <2>1, <2>2, <2>3 DEF Cell
<1> QED
  BY <1>2, <1>3, <1>4 DEF Scan!Touched

\* The invariant excludes races, since the cells of a round differ.
LEMMA NoRace == ScanInv => Scan!DataRaceFree
<1> SUFFICES ASSUME ScanInv, NEW t \in ScanThreads, NEW u \in ScanThreads, t # u,
                    NEW c \in Scan!Touched(t), c \in Scan!Touched(u)
             PROVE  FALSE
  BY SameNames DEF Scan!DataRaceFree
<1> DEFINE m == Level(Round(0))
<1>1. /\ m \in Nat
      /\ \/ c = Cell(m, t + 1)
         \/ m - 1 \in Nat /\ c = Cell(m - 1, 2 * t + 1)
      /\ \/ c = Cell(m, u + 1)
         \/ m - 1 \in Nat /\ c = Cell(m - 1, 2 * u + 1)
  BY TouchedCells
<1>2. /\ t \in Nat /\ u \in Nat /\ t + 1 \in Nat \ {0} /\ u + 1 \in Nat \ {0} /\ t + 1 # u + 1
      /\ 2 * t + 1 \in Nat \ {0} /\ 2 * u + 1 \in Nat \ {0} /\ 2 * t + 1 # 2 * u + 1
  BY KIs DEF ScanThreads
<1> HIDE DEF m
<1>3. Cell(m, t + 1) # Cell(m, u + 1)
  BY <1>1, <1>2, OtherCell
<1>4. ASSUME m - 1 \in Nat
      PROVE  /\ Cell(m - 1, 2 * t + 1) # Cell(m - 1, 2 * u + 1)
             /\ Cell(m - 1, 2 * t + 1) # Cell(m, u + 1)
             /\ Cell(m - 1, 2 * u + 1) # Cell(m, t + 1)
  <2>1. m - 1 < m
    BY <1>1
  <2>2. Cell(m - 1, 2 * t + 1) # Cell(m - 1, 2 * u + 1)
    BY <1>2, <1>4, OtherCell
  <2>3. u + 1 \in Nat /\ t + 1 \in Nat
    BY <1>2
  <2> QED
    BY <1>1, <1>2, <1>4, <2>1, <2>2, <2>3, OddDiffers
<1> QED
  BY <1>1, <1>3, <1>4

\* The functions of the two modules are the same.
LEMMA SameFunctions ==
  /\ \A xs : Scan!psum2(xs) = psum2(xs)
  /\ \A xs, n : Scan!get(xs, n) = get(xs, n)
BY DEF Scan!psum2, psum2, Scan!psum, psum, Scan!intsum, intsum, Scan!Take, Take, Scan!get, get

\* The invariant gives the exclusive prefix sum to a thread that has finished.
LEMMA SumsAtEnd == ScanInv => Scan!PrefixSummed
<1> USE KIs
<1> SUFFICES ASSUME ScanInv, NEW t \in ScanThreads, scan_pc[t] = "end"
             PROVE  indicator[t] = t /\ flag_after_prefix[t] = get(psum2(flag_seq), t)
  BY SameNames, SameFunctions DEF Scan!PrefixSummed
<1>1. indicator[t] = t /\ lvl[t] = -1
  BY DEF ScanInv, Placed
<1>2. Round(0) = 2 * K + 2
  <2>1. Round(t) = 2 * K + 2
    BY <1>1 DEF Round, RoundOf
  <2> QED
    BY <2>1 DEF ScanInv, OneRound
<1>3. DownCells(flag_after_prefix, flag_seq, scan_pc, -1)
  <2>1. 2 * K + 2 \in K + 2 .. 2 * K + 2 /\ 2 * K + 1 - (2 * K + 2) = -1
    OBVIOUS
  <2> QED
    BY <1>2, <2>1 DEF ScanInv, Sums
<1>4. t \in Nat /\ t < ExpTwo(K) /\ ExpTwo(0) = 1
  BY Doubling DEF ScanThreads
<1>5. Cell(-1 + 1, t + 1) = t /\ Ahead(flag_seq, -1 + 1, t + 1) = Before(flag_seq, t)
  <2>1. 1 * (t + 1) - 1 = t /\ 1 * ((t + 1) - 1) = t /\ -1 + 1 = 0
    BY <1>4
  <2> QED
    BY <1>4, <2>1 DEF Cell, Ahead
<1>6. flag_after_prefix[t] = Before(flag_seq, t)
  BY <1>3, <1>4, <1>5 DEF DownCells
<1>7. get(psum2(flag_seq), t) = Before(flag_seq, t)
  <2>1. flag_seq \in Seq(Int) /\ t \in 0 .. Len(flag_seq) - 1
    BY <1>4 DEF ScanInv, ScanTypes
  <2> QED
    BY <2>1, PrefixSums
<1> QED
  BY <1>1, <1>6, <1>7

-----------------------------------------------------------------------------
(* The copy of the kernel in StreamCompaction.cu is the same kernel.       *)

\* Its start, its threads and its functions.
LEMMA SameKernel ==
  /\ \A a : Compaction!Scan!Start(a) <=> Scan!Start(a)
  /\ \A a : Compaction!Scan!SeqOfArray(a) = Scan!SeqOfArray(a)
  /\ Compaction!Threads = ScanThreads
  /\ \A n : Compaction!ExpTwo(n) = ExpTwo(n)
  /\ \A xs : Compaction!count(xs) = count(xs)
  /\ \A xs, flags : Compaction!compact(xs, flags) = compact(xs, flags)
<1>1. \A p : Compaction!Scan!ExpTwo(p) = ExpTwo(p)
  BY DEF Compaction!Scan!ExpTwo, ExpTwo
<1>2. /\ Compaction!Scan!Cells = Scan!Cells /\ Compaction!Scan!Threads = Scan!Threads
      /\ Compaction!Threads = Scan!Threads
  BY <1>1, SameNames
     DEF Compaction!Scan!Cells, Compaction!Scan!Threads, Scan!Cells, Scan!Threads,
         Compaction!Threads
<1>3. \A s : Compaction!Scan!AfterUp(s) = Scan!AfterUp(s)
  BY <1>2 DEF Compaction!Scan!AfterUp, Scan!AfterUp
<1>4. \A a : Compaction!Scan!SeqOfArray(a) = Scan!SeqOfArray(a)
  BY <1>2 DEF Compaction!Scan!SeqOfArray, Scan!SeqOfArray
<1>5. \A a : Compaction!Scan!Start(a) <=> Scan!Start(a)
  BY <1>2, <1>3, <1>4 DEF Compaction!Scan!Start, Scan!Start
<1>6. \A n : Compaction!ExpTwo(n) = ExpTwo(n)
  BY DEF Compaction!ExpTwo, ExpTwo
<1>7. \A xs : Compaction!count(xs) = count(xs)
  BY DEF Compaction!count, count, Compaction!get, get
<1>8. \A xs, flags : Compaction!compact(xs, flags) = compact(xs, flags)
  BY DEF Compaction!compact, compact, Compaction!get, get
<1> QED
  BY <1>2, <1>4, <1>5, <1>6, <1>7, <1>8, SameNames

\* Its steps.
LEMMA SameSteps ==
  ASSUME NEW t
  PROVE  /\ Compaction!Scan!UpSweep(t) <=> Scan!UpSweep(t)
         /\ Compaction!Scan!UpNext(t) <=> Scan!UpNext(t)
         /\ Compaction!Scan!ClearRoot(t) <=> Scan!ClearRoot(t)
         /\ Compaction!Scan!DownSweep(t) <=> Scan!DownSweep(t)
         /\ Compaction!Scan!DownNext(t) <=> Scan!DownNext(t)
<1>1. \A p : Compaction!Scan!ExpTwo(p) = Scan!ExpTwo(p)
  BY DEF Compaction!Scan!ExpTwo, Scan!ExpTwo
<1>2. Compaction!Scan!Cells = Scan!Cells
  BY <1>1 DEF Compaction!Scan!Cells, Scan!Cells
<1>3. /\ \A s : Compaction!Scan!AfterUp(s) = Scan!AfterUp(s)
      /\ \A s : Compaction!Scan!AfterDown(s) = Scan!AfterDown(s)
      /\ Compaction!Scan!HasPair(t) <=> Scan!HasPair(t)
  BY <1>2 DEF Compaction!Scan!AfterUp, Scan!AfterUp, Compaction!Scan!AfterDown,
     Scan!AfterDown,
              Compaction!Scan!HasPair, Scan!HasPair
<1>4. Compaction!Scan!UpSweep(t) <=> Scan!UpSweep(t)
  BY <1>3 DEF Compaction!Scan!UpSweep, Scan!UpSweep
<1>5. Compaction!Scan!UpNext(t) <=> Scan!UpNext(t)
  BY <1>3 DEF Compaction!Scan!UpNext, Scan!UpNext
<1>6. Compaction!Scan!ClearRoot(t) <=> Scan!ClearRoot(t)
  BY <1>2, <1>3 DEF Compaction!Scan!ClearRoot, Scan!ClearRoot
<1>7. Compaction!Scan!DownSweep(t) <=> Scan!DownSweep(t)
  BY <1>3 DEF Compaction!Scan!DownSweep, Scan!DownSweep
<1>8. Compaction!Scan!DownNext(t) <=> Scan!DownNext(t)
  BY <1>3 DEF Compaction!Scan!DownNext, Scan!DownNext
<1> QED
  BY <1>4, <1>5, <1>6, <1>7, <1>8

\* Its barriers.
LEMMA SameBarriers ==
  ASSUME NEW from, NEW to
  PROVE  Compaction!Scan!Barrier(from, to) <=> Scan!Barrier(from, to)
<1>1. \A p : Compaction!Scan!ExpTwo(p) = Scan!ExpTwo(p)
  BY DEF Compaction!Scan!ExpTwo, Scan!ExpTwo
<1>2. Compaction!Scan!Threads = Scan!Threads
  BY <1>1 DEF Compaction!Scan!Cells, Scan!Cells, Compaction!Scan!Threads, Scan!Threads
<1> QED
  BY <1>2 DEF Compaction!Scan!Barrier, Scan!Barrier

-----------------------------------------------------------------------------
(* Stream compaction. *)

\* The thread's place in the output.
Place(t) == Before(flag_seq, t)
Flagged(t) == flag_before_prefix[t] = 1

CompactionInv ==
  /\ flag_before_prefix \in [ScanThreads -> {0, 1}]
  /\ flag_seq = [i \in 1 .. ExpTwo(K) |-> flag_before_prefix[i - 1]]
  /\ input \in [ScanThreads -> Int]
  /\ M \in Nat /\ ExpTwo(M) = count(flag_seq)
  /\ DOMAIN compacted = 0 .. ExpTwo(M) - 1
  /\ compacted = [i \in DOMAIN compacted |-> compacted[i]]
  /\ \A t \in ScanThreads : scan_pc[t] = "done" /\ Flagged(t) => compacted[Place(t)] = input[t]

\* Flagged threads have places in the output, each its own.
LEMMA Places ==
  ASSUME ScanInv, CompactionInv
  PROVE  /\ flag_seq \in Seq({0, 1}) /\ Len(flag_seq) = ExpTwo(K)
         /\ \A t \in ScanThreads :
              /\ flag_seq[t + 1] = flag_before_prefix[t]
              /\ scan_pc[t] \in {"scatter", "done"} => flag_after_prefix[t] = Place(t)
              /\ Flagged(t) => Place(t) \in DOMAIN compacted
         /\ \A t, u \in ScanThreads : Flagged(t) /\ Flagged(u) /\ t # u => Place(t) # Place(u)
<1> USE KIs
<1>1. /\ flag_seq \in Seq({0, 1}) /\ Len(flag_seq) = ExpTwo(K)
      /\ \A t \in ScanThreads : flag_seq[t + 1] = flag_before_prefix[t]
  <2>1. \A i \in 1 .. ExpTwo(K) : i - 1 \in ScanThreads
    BY DEF ScanThreads
  <2>2. \A i \in 1 .. ExpTwo(K) : flag_before_prefix[i - 1] \in {0, 1}
    BY <2>1 DEF CompactionInv
  <2>3. \A t \in ScanThreads : t + 1 \in 1 .. ExpTwo(K) /\ (t + 1) - 1 = t
    BY DEF ScanThreads
  <2>4. flag_seq = [i \in 1 .. ExpTwo(K) |-> flag_before_prefix[i - 1]]
    BY DEF CompactionInv
  <2>5. flag_seq \in [1 .. ExpTwo(K) -> {0, 1}]
    BY <2>2, <2>4
  <2>6. \A t \in ScanThreads : flag_seq[t + 1] = flag_before_prefix[t]
    BY <2>3, <2>4
  <2>7. flag_seq \in Seq({0, 1}) /\ Len(flag_seq) = ExpTwo(K)
    <3>1. ExpTwo(K) \in Nat
      OBVIOUS
    <3> QED
      BY <2>5, <3>1, SeqDef, LenProperties
  <2> QED
    BY <2>6, <2>7
<1>2. ASSUME NEW t \in ScanThreads, Flagged(t)
      PROVE  /\ t \in 0 .. Len(flag_seq) - 1 /\ t \in 0 .. Len(flag_seq)
             /\ t + 1 \in 0 .. Len(flag_seq)
             /\ Place(t) \in Nat /\ Before(flag_seq, t + 1) = Place(t) + 1
  <2>1. t \in 0 .. Len(flag_seq) - 1 /\ t \in 0 .. Len(flag_seq) /\ t + 1 \in 0 .. Len(flag_seq)
    BY <1>1 DEF ScanThreads
  <2>2. flag_seq[t + 1] = 1
    BY <1>1, <1>2 DEF Flagged
  <2> QED
    BY <1>1, <2>1, <2>2, FlagSums DEF Place
<1>3. ASSUME NEW t \in ScanThreads, scan_pc[t] \in {"scatter", "done"}
      PROVE  flag_after_prefix[t] = Place(t)
  <2>1. Round(0) = 2 * K + 3
    <3>1. Round(t) = 2 * K + 3
      BY <1>3 DEF Round, RoundOf
    <3> QED
      BY <3>1 DEF ScanInv, OneRound
  <2> QED
    BY <2>1 DEF ScanInv, Sums, Place
<1>4. ASSUME NEW t \in ScanThreads, Flagged(t) PROVE Place(t) \in DOMAIN compacted
  <2>1. Before(flag_seq, t + 1) <= Before(flag_seq, Len(flag_seq))
    <3>1. Len(flag_seq) \in 0 .. Len(flag_seq) /\ t + 1 <= Len(flag_seq)
      BY <1>2, <1>4
    <3> QED
      BY <1>1, <1>2, <1>4, <3>1, FlagSums
  <2>2. Before(flag_seq, Len(flag_seq)) = ExpTwo(M) /\ ExpTwo(M) \in Nat
    BY <1>1, FlagSums, Doubling DEF CompactionInv
  <2> QED
    BY <1>2, <1>4, <2>1, <2>2 DEF CompactionInv
<1>5. ASSUME NEW t \in ScanThreads, NEW u \in ScanThreads, Flagged(t), Flagged(u), t < u
      PROVE  Place(t) < Place(u)
  <2>1. Before(flag_seq, t + 1) <= Before(flag_seq, u)
    <3>1. t + 1 <= u
      BY <1>5 DEF ScanThreads
    <3> QED
      BY <1>1, <1>2, <1>5, <3>1, FlagSums
  <2> QED
    BY <1>2, <1>5, <2>1 DEF Place
<1>6. ASSUME NEW t \in ScanThreads, NEW u \in ScanThreads, Flagged(t), Flagged(u), t # u
      PROVE  Place(t) # Place(u)
  <2>1. t < u \/ u < t
    BY <1>6 DEF ScanThreads
  <2>2. Place(t) \in Nat /\ Place(u) \in Nat
    BY <1>2, <1>6
  <2> QED
    BY <1>5, <1>6, <2>1, <2>2
<1> QED
  BY <1>1, <1>3, <1>4, <1>6

\* The launch of the compaction establishes the invariant.
LEMMA LaunchedWell ==
  ASSUME NEW flags \in FlagInputs, Compaction!Launch(flags)
  PROVE  ScanInv /\ CompactionInv
<1> USE KIs
<1>1. /\ Scan!Start(flags) /\ flag_before_prefix = flags
      /\ input = [i \in ScanThreads |-> 100 + i]
      /\ M \in 0 .. K /\ ExpTwo(M) = count(Scan!SeqOfArray(flags))
      /\ compacted = [i \in 0 .. ExpTwo(M) - 1 |-> Nothing]
  BY SameKernel DEF Compaction!Launch, Compaction!Element
<1>2. flags \in [ScanThreads -> {0, 1}]
  BY ArraysAssumption, SameNames
<1>3. flags \in [ScanThreads -> Int]
  BY <1>2
<1>4. ScanInv /\ flag_seq = [i \in 1 .. ExpTwo(K) |-> flags[i - 1]]
  BY <1>1, <1>3, StartsWell
<1>5. Scan!SeqOfArray(flags) = flag_seq
  BY <1>4, SameNames DEF Scan!SeqOfArray
<1>6. input \in [ScanThreads -> Int]
  BY <1>1 DEF ScanThreads
<1>7. \A t \in ScanThreads : scan_pc[t] # "done"
  BY <1>1, SameNames DEF Scan!Start, Scan!AfterUp
<1> QED
  BY <1>1, <1>2, <1>4, <1>5, <1>6, <1>7 DEF CompactionInv

\* A thread writes its element to its place, and no other.
LEMMA ScatterKeeps ==
  ASSUME ScanInv, CompactionInv, NEW t \in ScanThreads, Compaction!Scatter(t),
         UNCHANGED <<input, flag_before_prefix, M>>
  PROVE  ScanInv' /\ CompactionInv'
<1> USE KIs
<1>1. /\ scan_pc[t] = "scatter" /\ scan_pc' = [scan_pc EXCEPT ![t] = "done"]
      /\ flag_after_prefix' = flag_after_prefix /\ flag_seq' = flag_seq
      /\ indicator' = indicator /\ stride' = stride /\ lvl' = lvl
      /\ input' = input /\ flag_before_prefix' = flag_before_prefix /\ M' = M
      /\ compacted' = IF Flagged(t) THEN [compacted EXCEPT ![flag_after_prefix[t]] = input[t]]
                      ELSE compacted
  BY DEF Compaction!Scatter, Flagged
<1>2. /\ scan_pc' \in [ScanThreads -> ScanLabels] /\ scan_pc'[t] = "done"
      /\ \A u \in ScanThreads : u # t => scan_pc'[u] = scan_pc[u]
  BY <1>1 DEF ScanInv, ScanTypes, ScanLabels
<1>3. ScanInv'
  <2>1. ScanTypes'
    BY <1>1, <1>2 DEF ScanInv, ScanTypes
  <2>2. Placed'
    BY <1>1, <1>2 DEF ScanInv, Placed
  <2>3. \A u \in ScanThreads : Round(u)' = Round(u)
    BY <1>1, <1>2 DEF Round, RoundOf
  <2>4. Sums(flag_after_prefix, flag_seq, scan_pc', Round(0))
    <3>1. \A u \in ScanThreads : /\ scan_pc'[u] = "upBarrier" <=> scan_pc[u] = "upBarrier"
                                 /\ scan_pc'[u] = "downBarrier" <=> scan_pc[u] = "downBarrier"
                                 /\ scan_pc[u] = "clear" => scan_pc'[u] = "clear"
      BY <1>1, <1>2
    <3> QED
      BY <3>1, SameSums DEF ScanInv
  <2> QED
    BY <1>1, <2>1, <2>2, <2>3, <2>4 DEF ScanInv, OneRound
<1>4. /\ flag_after_prefix[t] = Place(t)
      /\ \A u \in ScanThreads : Flagged(u) => Place(u) \in DOMAIN compacted
      /\ \A u \in ScanThreads : Flagged(t) /\ Flagged(u) /\ t # u => Place(t) # Place(u)
  BY <1>1, Places
<1>5. \A u \in ScanThreads : Place(u)' = Place(u) /\ (Flagged(u)' <=> Flagged(u))
  BY <1>1 DEF Place, Flagged
<1>6. /\ DOMAIN compacted' = DOMAIN compacted
      /\ compacted' = [i \in DOMAIN compacted' |-> compacted'[i]]
  BY <1>1 DEF CompactionInv
<1>7. ASSUME NEW u \in ScanThreads, scan_pc'[u] = "done", Flagged(u)
      PROVE  compacted'[Place(u)] = input[u]
  <2>1. CASE u = t
    BY <1>1, <1>4, <1>7, <2>1
  <2>2. CASE u # t
    <3>1. compacted[Place(u)] = input[u]
      BY <1>2, <1>7, <2>2 DEF CompactionInv
    <3>2. compacted'[Place(u)] = compacted[Place(u)]
      BY <1>1, <1>4, <1>7, <2>2
    <3> QED
      BY <3>1, <3>2
  <2> QED
    BY <2>1, <2>2
<1> QED
  BY <1>1, <1>3, <1>5, <1>6, <1>7 DEF CompactionInv

\* Every step of the compaction keeps the invariant.
LEMMA CompactionStepKeeps ==
  ASSUME ScanInv, CompactionInv, Compaction!Next
  PROVE  ScanInv' /\ CompactionInv'
<1>1. ASSUME NEW t \in ScanThreads, Compaction!Scatter(t),
             UNCHANGED <<input, flag_before_prefix, M>>
      PROVE  ScanInv' /\ CompactionInv'
  BY <1>1, ScatterKeeps
<1>2. ASSUME \/ \E t \in ScanThreads :
                  Compaction!ScanUp(t) \/ Compaction!ScanMiddle(t) \/ Compaction!ScanDown(t)
             \/ Compaction!LastBarrier,
             UNCHANGED <<compacted, input, flag_before_prefix, M>>
      PROVE  ScanInv' /\ CompactionInv'
  <2>1. \/ \E t \in ScanThreads : \/ Scan!UpSweep(t) \/ Scan!UpNext(t) \/ Scan!ClearRoot(t)
                                   \/ Scan!DownSweep(t) \/ Scan!DownNext(t)
        \/ Scan!Barrier("upBarrier", "upNext") \/ Scan!Barrier("midBarrier", "clear")
        \/ Scan!Barrier("downBarrier", "downNext") \/ Scan!Barrier("end", "scatter")
    BY <1>2, SameSteps, SameBarriers
       DEF Compaction!ScanUp, Compaction!ScanMiddle, Compaction!ScanDown,
           Compaction!LastBarrier
  <2>2. ScanInv'
    BY <2>1, UpSweepKeeps, UpNextKeeps, ClearRootKeeps, DownSweepKeeps, DownNextKeeps,
       UpBarrierKeeps, MidBarrierKeeps, DownBarrierKeeps, LastBarrierKeeps
  <2>3. flag_seq' = flag_seq /\ \A t \in ScanThreads : scan_pc'[t] = "done" => scan_pc[t] = "done"
    <3>1. scan_pc \in [ScanThreads -> ScanLabels]
      BY DEF ScanInv, ScanTypes
    <3>2. ASSUME NEW t \in ScanThreads,
                 \/ Scan!UpSweep(t) \/ Scan!UpNext(t) \/ Scan!ClearRoot(t)
                 \/ Scan!DownSweep(t) \/ Scan!DownNext(t)
          PROVE  flag_seq' = flag_seq /\ \E p : p # "done" /\ scan_pc' = [scan_pc EXCEPT ![t] = p]
      BY <3>2
      DEF Scan!UpSweep, Scan!UpNext, Scan!ClearRoot, Scan!DownSweep, Scan!DownNext,
                  Scan!AfterUp, Scan!AfterDown
    <3>3. ASSUME NEW from, NEW to, to # "done", Scan!Barrier(from, to)
          PROVE  flag_seq' = flag_seq /\ scan_pc' = [t \in ScanThreads |-> to]
      BY <3>3, SameNames DEF Scan!Barrier
    <3>4. CASE \E t \in ScanThreads : \/ Scan!UpSweep(t) \/ Scan!UpNext(t) \/ Scan!ClearRoot(t)
                                      \/ Scan!DownSweep(t) \/ Scan!DownNext(t)
      BY <3>1, <3>2, <3>4
    <3>5. CASE \/ Scan!Barrier("upBarrier", "upNext") \/ Scan!Barrier("midBarrier", "clear")
               \/ Scan!Barrier("downBarrier", "downNext") \/ Scan!Barrier("end", "scatter")
      <4>1. PICK to : to # "done" /\ \E from : Scan!Barrier(from, to)
        BY <3>5
      <4> QED
        BY <3>3, <4>1
    <3> QED
      BY <2>1, <3>4, <3>5
  <2>4. CompactionInv'
    <3>1. \A t \in ScanThreads : Place(t)' = Place(t) /\ (Flagged(t)' <=> Flagged(t))
      BY <1>2, <2>3 DEF Place, Flagged
    <3> QED
      BY <1>2, <2>3, <3>1 DEF CompactionInv
  <2> QED
    BY <2>2, <2>4
<1> QED
  BY <1>1, <1>2, SameKernel DEF Compaction!Next

\* The invariant keeps the destinations apart.
LEMMA Disjoint == ScanInv /\ CompactionInv => Compaction!DestinationsDisjoint
<1> SUFFICES ASSUME ScanInv, CompactionInv,
                    NEW t \in ScanThreads, NEW u \in ScanThreads,
                    scan_pc[t] = "scatter", flag_before_prefix[t] = 1
             PROVE  /\ flag_after_prefix[t] \in DOMAIN compacted
                    /\ t # u /\ scan_pc[u] = "scatter" /\ flag_before_prefix[u] = 1 =>
                         flag_after_prefix[t] # flag_after_prefix[u]
  BY SameKernel DEF Compaction!DestinationsDisjoint
<1> QED
  BY Places DEF Flagged

\* When all threads are done, each place holds the element that belongs there.
LEMMA Compacted == ScanInv /\ CompactionInv => Compaction!ResultIsCompact
<1> USE KIs
<1> DEFINE n == ExpTwo(M)
           xs == [i \in 1 .. ExpTwo(K) |-> input[i - 1]]
           result == [i \in 1 .. n |-> compacted[i - 1]]
<1> SUFFICES ASSUME ScanInv, CompactionInv, \A t \in ScanThreads : scan_pc[t] = "done"
             PROVE  result = compact(xs, flag_seq)
  <2>1. Scan!SeqOfArray(input) = xs /\ Compaction!Scan!SeqOfArray(input) = xs
    BY SameNames, SameKernel DEF Scan!SeqOfArray
  <2> QED
    BY <2>1, SameKernel DEF Compaction!ResultIsCompact
<1>1. flag_seq \in Seq({0, 1}) /\ Len(flag_seq) = ExpTwo(K)
  BY Places
<1>2. /\ xs \in Seq(Int) /\ Len(xs) = ExpTwo(K)
      /\ \A t \in ScanThreads : xs[t + 1] = input[t]
  <2>1. \A i \in 1 .. ExpTwo(K) : input[i - 1] \in Int
    BY DEF CompactionInv, ScanThreads
  <2>2. \A t \in ScanThreads : t + 1 \in 1 .. ExpTwo(K) /\ (t + 1) - 1 = t
    BY DEF ScanThreads
  <2> QED
    BY <2>1, <2>2
<1>3. n \in Nat /\ n = count(flag_seq)
  BY Doubling DEF CompactionInv
<1> HIDE DEF xs, n
<1>4. /\ compact(xs, flag_seq) \in Seq(Int) /\ Len(compact(xs, flag_seq)) = n
      /\ \A m \in 0 .. Len(flag_seq) - 1 :
           flag_seq[m + 1] = 1 => compact(xs, flag_seq)[Before(flag_seq, m) + 1] = xs[m + 1]
  BY <1>1, <1>2, <1>3, CompactIs
<1>5. ASSUME NEW i \in 1 .. n PROVE compacted[i - 1] = compact(xs, flag_seq)[i]
  <2>1. i - 1 \in Nat /\ i - 1 < count(flag_seq) /\ (i - 1) + 1 = i
    BY <1>3
  <2>2. PICK m \in 0 .. Len(flag_seq) - 1 : flag_seq[m + 1] = 1 /\ Before(flag_seq, m) = i - 1
    BY <1>1, <2>1, EveryPlaceIsTaken
  <2>3. m \in ScanThreads
    BY <1>1 DEF ScanThreads
  <2>4. Flagged(m) /\ Place(m) = i - 1
    BY <2>2, <2>3, Places DEF Flagged, Place
  <2>5. compacted[i - 1] = input[m]
    BY <2>3, <2>4 DEF CompactionInv
  <2> QED
    BY <1>2, <1>4, <2>1, <2>2, <2>3, <2>5
<1>6. compact(xs, flag_seq) = [i \in 1 .. n |-> compact(xs, flag_seq)[i]]
  <2>1. \A s \in Seq(Int) : s = [i \in 1 .. Len(s) |-> s[i]]
    OBVIOUS
  <2> QED
    BY <1>4, <2>1
<1> QED
  BY <1>5, <1>6

-----------------------------------------------------------------------------
(* The run of the three kernels. *)

KernelInv ==
  /\ kernel \in {"KoggeStone", "Blelloch", "StreamCompaction"}
  /\ Scanning => ScanInv
  /\ Compacting => CompactionInv

\* The invariant holds of whichever kernel is launched.
LEMMA KernelInvHolds == MCSpec => []KernelInv
<1>1. MCInit => KernelInv
  <2>1. ASSUME kernel = "Blelloch", NEW a \in ScanInputs, Scan!Start(a) PROVE ScanInv
    <3>1. a \in [ScanThreads -> Int]
      BY ArraysAssumption, SameNames
    <3> QED
      BY <2>1, <3>1, StartsWell
  <2>2. ASSUME NEW flags \in FlagInputs, Compaction!Launch(flags) PROVE ScanInv /\ CompactionInv
    BY <2>2, LaunchedWell
  <2> QED
    BY <2>1, <2>2 DEF MCInit, KernelInv, Scanning, Compacting
<1>2. KernelInv /\ [MCNext]_mcVars => KernelInv'
  <2> SUFFICES ASSUME KernelInv, [MCNext]_mcVars PROVE KernelInv'
    OBVIOUS
  <2>1. CASE kernel = "KoggeStone" /\ Next /\ UNCHANGED <<kernel, scanVars, compactionVars>>
    BY <2>1 DEF KernelInv, Scanning, Compacting
  <2>2. CASE kernel = "Blelloch" /\ Scan!Next /\ UNCHANGED <<kernel, vars, compactionVars>>
    BY <2>2, ScanStepKeeps DEF KernelInv, Scanning, Compacting
  <2>3. CASE kernel = "StreamCompaction" /\ Compaction!Next /\ UNCHANGED <<kernel, vars>>
    BY <2>3, CompactionStepKeeps DEF KernelInv, Scanning, Compacting
  <2>4. CASE UNCHANGED mcVars
    <3>1. UNCHANGED <<kernel, flag_after_prefix, flag_seq, indicator, stride, lvl, scan_pc,
                      input, compacted, flag_before_prefix, M>>
      BY <2>4 DEF mcVars, scanVars, compactionVars
    <3>2. ScanInv' <=> ScanInv
      BY <3>1 DEF ScanInv, ScanTypes, Placed, OneRound, Round, RoundOf
    <3>3. CompactionInv' <=> CompactionInv
      BY <3>1 DEF CompactionInv, Place, Flagged
    <3> QED
      BY <3>1, <3>2, <3>3 DEF KernelInv, Scanning, Compacting
  <2> QED
    BY <2>1, <2>2, <2>3, <2>4 DEF MCNext
<1> QED
  BY <1>1, <1>2, PTL DEF MCSpec

\* For every K, every array and every interleaving between barriers: no two threads of the
\* scan are about to touch the same cell (the clearing of the root needs no barrier after it),
\* and the threads that scatter write different cells of the output.
THEOREM NoThreadsRace == MCSpec => []ScanRaceFree
<1>1. KernelInv => ScanRaceFree
  BY NoRace, Disjoint DEF KernelInv, ScanRaceFree, Scanning, Compacting
<1> QED
  BY <1>1, KernelInvHolds, PTL

\* For every K and every array: a thread that has left the loops owns a cell with the exclusive
\* prefix sum, and when the compaction is over the output is the flagged elements in order.
THEOREM ScansAreRight == MCSpec => []ScanResults
<1>1. KernelInv => ScanResults
  BY SumsAtEnd, Compacted DEF KernelInv, ScanResults, Scanning, Compacting
<1> QED
  BY <1>1, KernelInvHolds, PTL
=============================================================================
