-------------------------- MODULE StreamCompaction --------------------------
(***************************************************************************)
(* The kernel of StreamCompaction.cu, which copies the elements of input   *)
(* whose flag is set to the front of output: the prefix sum of the flags   *)
(* (a copy of the kernel of Blelloch.cu, on flag_after_prefix) says where  *)
(* each of them goes.                                                      *)
(***************************************************************************)
EXTENDS ScanFunctions, FiniteSets

CONSTANTS k,             \* ExpTwo(k) cells and threads
          Nothing        \* an element of output that was not written

VARIABLES
  input, output, flag_before_prefix, flag_after_prefix,
  M,                     \* output has ExpTwo(M) cells
  flag_seq,              \* ghost: the flags, as a sequence
  indicator, stride, lvl, pc

scanVars == <<flag_after_prefix, flag_seq, indicator, stride, lvl, pc>>
vars == <<scanVars, input, output, flag_before_prefix, M>>

Scan == INSTANCE Blelloch WITH output <- flag_after_prefix, input_seq <- flag_seq

Threads == Scan!Threads

\* The element in cell i is the number 100 + i.
Element(i) == 100 + i

\* The kernel is launched with 0/1 flags, ExpTwo(M) of which are set.
Launch(flags) ==
  /\ Scan!Start(flags)
  /\ flag_before_prefix = flags
  /\ input = [i \in Threads |-> Element(i)]
  /\ M \in {m \in 0 .. k : ExpTwo(m) = count(Scan!SeqOfArray(flags))}
  /\ output = [i \in 0 .. ExpTwo(M) - 1 |-> Nothing]

-----------------------------------------------------------------------------
ScanUp(t) == Scan!UpSweep(t) \/ Scan!UpNext(t) \/ Scan!Barrier("upBarrier", "upNext")

ScanMiddle(t) == Scan!Barrier("midBarrier", "clear") \/ Scan!ClearRoot(t)

ScanDown(t) ==
  Scan!DownSweep(t) \/ Scan!DownNext(t) \/ Scan!Barrier("downBarrier", "downNext")

\* The barrier after the scan: every thread needs its neighbours' sums to be final.
LastBarrier == Scan!Barrier("end", "scatter")

\* if (flag_before_prefix[tid] == 1) output[flag_after_prefix[tid]] = input[tid]
Scatter(t) ==
  /\ pc[t] = "scatter"
  /\ output' = IF flag_before_prefix[t] = 1
               THEN [output EXCEPT ![flag_after_prefix[t]] = input[t]]
               ELSE output
  /\ pc' = [pc EXCEPT ![t] = "done"]
  /\ UNCHANGED <<flag_after_prefix, flag_seq, indicator, stride, lvl>>

Next ==
  \/ /\ (\E t \in Threads : ScanUp(t) \/ ScanMiddle(t) \/ ScanDown(t)) \/ LastBarrier
     /\ UNCHANGED output
     /\ UNCHANGED <<input, flag_before_prefix, M>>
  \/ /\ \E t \in Threads : Scatter(t)
     /\ UNCHANGED <<input, flag_before_prefix, M>>

-----------------------------------------------------------------------------
(* The annotations. *)

\* The loop invariants of the two sweeps, on the flags.
FlagUpInvariant(t) == Scan!UpInvariant(t)
FlagDownInvariant(t) == Scan!DownInvariant(t)

\* The lemmas that this file states again.
FlagLemmas == ScanLemmas(flag_seq)

\* What is asserted between the scan and the barrier, and what the barrier hands out.
ScatterContract(t) ==
  /\ indicator[t] = t
  /\ flag_seq[t + 1] = flag_before_prefix[t]
  /\ flag_after_prefix[t] = get(psum2(flag_seq), t)
  /\ flag_after_prefix[t] \in 0 .. ExpTwo(M)
  /\ flag_before_prefix[t] = 1 => flag_after_prefix[t] < ExpTwo(M)

\* What is asserted after the scatter.
Compacted(t) ==
  LET temporary == compact(Scan!SeqOfArray(input), flag_seq)
  IN  /\ Len(temporary) = ExpTwo(M)
      /\ flag_before_prefix[t] = 1 =>
           /\ input[t] = get(temporary, flag_after_prefix[t])
           /\ output[flag_after_prefix[t]] = input[t]

-----------------------------------------------------------------------------
(* Properties. *)

TypeOK ==
  /\ flag_after_prefix \in [Threads -> Nat]
  /\ flag_before_prefix \in [Threads -> {0, 1}]
  /\ DOMAIN output = 0 .. ExpTwo(M) - 1
  /\ \A i \in DOMAIN output : output[i] \in {input[j] : j \in Threads} \cup {Nothing}
  /\ pc \in [Threads -> Scan!Labels \cup {"scatter", "done"}]

\* The threads' destinations are cells of output, each a different one: the barrier may
\* give each flagged thread the whole of the cell that it computes at run time.
DestinationsDisjoint ==
  \A t, u \in Threads :
    pc[t] = "scatter" /\ flag_before_prefix[t] = 1 =>
      /\ flag_after_prefix[t] \in DOMAIN output
      /\ t # u /\ pc[u] = "scatter" /\ flag_before_prefix[u] = 1 =>
           flag_after_prefix[t] # flag_after_prefix[u]

\* Every assertion of the annotated kernel, at the place where it stands.
AssertionsHold ==
  \A t \in Threads :
    /\ pc[t] \in {"up", "midBarrier"} => FlagUpInvariant(t)
    /\ pc[t] \in {"down", "end"} => FlagDownInvariant(t)
    /\ pc[t] \in {"end", "scatter"} => ScatterContract(t)
    /\ pc[t] = "done" => Compacted(t)

\* The lemmas without a body are true of the flags of this launch.
LemmasSound ==
  (\A t \in Threads : pc[t] = "up") =>
    /\ FlagLemmas
    /\ FunctionContracts(flag_seq)
    /\ \A l \in 0 .. k - 1 : UpContract(flag_seq, ExpTwo(l))
    /\ CompactionLemmas(Scan!SeqOfArray(input), flag_seq)

\* In the end output is the flagged elements in their order, and nothing else.
ResultIsCompact ==
  (\A t \in Threads : pc[t] = "done") =>
    [i \in 1 .. ExpTwo(M) |-> output[i - 1]] = compact(Scan!SeqOfArray(input), flag_seq)
=============================================================================
