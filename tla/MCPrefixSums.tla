---------------------------- MODULE MCPrefixSums ----------------------------
(***************************************************************************)
(* Runs the kernels of PrefixSumCUDA for TLC: one of them is launched, the *)
(* variables of the others stay at rest.                                   *)
(***************************************************************************)
EXTENDS KoggeStone

CONSTANTS K,              \* ExpTwo(K) = Size
          ScanInputs,     \* arrays for the kernel of Blelloch.cu
          FlagInputs,     \* flags for the kernel of StreamCompaction.cu
          Nothing

VARIABLES
  kernel,
  input, compacted, flag_before_prefix, flag_after_prefix, M,
  flag_seq, indicator, stride, lvl, scan_pc

Compaction ==
  INSTANCE StreamCompaction WITH k <- K, output <- compacted, pc <- scan_pc
Scan == INSTANCE Blelloch WITH
  k <- K, output <- flag_after_prefix, input_seq <- flag_seq, pc <- scan_pc

ASSUME KAssumption == K \in Nat
ASSUME ArraysAssumption == /\ ScanInputs \subseteq [Scan!Threads -> Int]
                           /\ FlagInputs \subseteq [Scan!Threads -> {0, 1}]

scanVars == <<flag_after_prefix, flag_seq, indicator, stride, lvl, scan_pc>>
compactionVars == <<input, compacted, flag_before_prefix, M>>
mcVars == <<vars, kernel, scanVars, compactionVars>>

-----------------------------------------------------------------------------
SumTo(xs, n) == LET S[i \in 0 .. n] == IF i = 0 THEN 0 ELSE S[i - 1] + xs[i - 1] IN S[n]

\* The cells hold different powers of two, some of them negative: a sum tells which cells it
\* is the sum of.
PowersOfTwo == [i \in 0 .. Size - 1 |-> IF i % 3 = 2 THEN -(2 ^ i) ELSE 2 ^ i]
OneArray == {PowersOfTwo}

\* Flags of which a power of two are set: the last, and some.
SomeFlags ==
  {[i \in 0 .. Size - 1 |-> IF i \in set THEN 1 ELSE 0] :
     set \in {{Size - 1}, {1, 3, 4, 6}}}

-----------------------------------------------------------------------------
AtRest ==
  /\ flag_after_prefix = PowersOfTwo /\ flag_seq = <<>>
  /\ indicator = <<>> /\ stride = <<>> /\ lvl = <<>>
  /\ scan_pc = [t \in Threads |-> "idle"]

NoCompaction == input = <<>> /\ compacted = <<>> /\ flag_before_prefix = <<>> /\ M = 0

MCInit ==
  \/ kernel = "KoggeStone" /\ Init /\ AtRest /\ NoCompaction
  \/ /\ kernel = "Blelloch"
     /\ Init /\ host_input = PowersOfTwo
     /\ \E a \in ScanInputs : Scan!Start(a)
     /\ NoCompaction
  \/ /\ kernel = "StreamCompaction"
     /\ Init /\ host_input = PowersOfTwo
     /\ \E flags \in FlagInputs : Compaction!Launch(flags)

MCNext ==
  \/ kernel = "KoggeStone" /\ Next /\ UNCHANGED <<kernel, scanVars, compactionVars>>
  \/ kernel = "Blelloch" /\ Scan!Next /\ UNCHANGED <<kernel, vars, compactionVars>>
  \/ kernel = "StreamCompaction" /\ Compaction!Next /\ UNCHANGED <<kernel, vars>>

MCSpec == MCInit /\ [][MCNext]_mcVars /\ WF_mcVars(MCNext)

-----------------------------------------------------------------------------
Scanning == kernel # "KoggeStone"
Compacting == kernel = "StreamCompaction"

\* Every annotation of the three files that TLC can evaluate, at the place where it stands:
\* loop invariants, barrier contracts, assertions, what the programs assume after a barrier,
\* the permissions (which must cover each access and give no cell away twice), and, when the
\* scan starts, the lemmas that the files state without a proof, for the arrays launched with.
AnnotationsHold ==
  /\ ~Scanning => PermissionsSuffice /\ WindowSums
  /\ Scanning => Scan!PermissionsSuffice /\ Scan!AnnotationsHold
  /\ kernel = "Blelloch" =>
       /\ Scan!TypeOK
       /\ (\A t \in Threads : scan_pc[t] = "up") =>
            Compaction!FlagLemmas /\ Compaction!FunctionContracts(flag_seq)
  /\ Compacting =>
       /\ Compaction!TypeOK
       /\ Compaction!AssertionsHold
       /\ Compaction!LemmasSound

\* Blelloch.cu and StreamCompaction.cu: no two threads race for a cell of the tree, and the
\* threads that scatter write different cells of output.
ScanRaceFree ==
  /\ Scanning => Scan!DataRaceFree
  /\ Compacting => Compaction!DestinationsDisjoint

\* Their results: the exclusive prefix sum, for each thread as soon as it has left the
\* loops, and the flagged elements in their order.
ScanResults ==
  /\ Scanning => Scan!PrefixSummed
  /\ Compacting => Compaction!ResultIsCompact

\* Every launch ends with all threads out of the kernel: no thread is left at a barrier.
EveryKernelEnds ==
  <>(CASE kernel = "KoggeStone" -> host = "returned"
       [] kernel = "Blelloch" -> \A t \in Threads : scan_pc[t] = "end"
       [] OTHER -> \A t \in Threads : scan_pc[t] = "done")
=============================================================================
