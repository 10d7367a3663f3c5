# A TLA+ development of VerCors

VerCors is a deductive verifier for concurrent and data-parallel programs. This development models the parts of it that
keep state over many steps, or that several threads share; the rewrite pass this version adds, on which the soundness of
its verdicts rests (`SimplifyNestedQuantifiers`); the native front end for LLVM (Pallas); the SystemC channels it ships;
and three CUDA programs that the repository keeps as verified case studies. Paths below are relative to
`src/vercors/src` unless they begin with `LeanProof`, `examples` or `res` (both under `src/vercors`).

## 1. Inventory

| component | state it keeps | operations | what is hard |
|---|---|---|---|
| `hre/hre/io/InterruptibleInputStream` | ring buffer, two cursors, eof, one monitor | `read()`, `read(buf, off, len)`, transfer thread, interrupts | cursors read and stored without the monitor; wait and notify; wrap and full |
| `hre/hre/io/Watch`, `InMemoryCachedReadable`, `RWFile` | watch service, three threads, trigger, caches | `enroll`, `await`, `reset`, `signal`, Ctrl+C | events between two runs, joining a thread that wants the monitor, a second Ctrl+C |
| `hre/hre/middleware/Middleware` | list of installed middlewares | `using`, `uninstallOnShutdown` | the shutdown hook beside the main thread; an install or uninstall that fails |
| `hre/hre/progress` (task tree, registry) | tree of tasks, stack per thread | `start`, `end`, `abort`, `next` | parallel workers, interrupts between registering and running, abort from the hook |
| `hre/hre/progress/Progress`, `Layout` | throttle timer, lines printed | `update`, timer | two monitors for one state |
| `rewrite/.../SimplifyNestedQuantifiers`: gathered information | getters of conditions, stack of scopes | `dispatch` for expressions, contracts, statements | which conditions hold where; mutable collections shared by copies |
| the same: bounds | tables of bounds and conditions, bindings left | `setData`, `getBounds`, `checkIndependentVariables`, `checkSingleValueVariables`, `result` | every step must keep the meaning for every environment |
| the same: linear accesses | coefficients, order of bindings, bounds chosen | `visit`, `canRewrite`, `check_vars_list`, `findSuitableBound` | arithmetic with signs, quotients and empty ranges |
| `col/.../ExpressionEqualityCheck` | depth of replacement | `lessThenEq`, `getBound`, `isNonZero`, ... | arithmetic at zero and with negative numbers |
| `llvm/lib` (Pallas): function bodies | COL blocks, variable map, visited flags, pending phi assignments | `transformLLVMBlock`, one function per instruction | recursion over graphs with loops; a phi's assignment belongs to blocks translated later |
| the same: specification statements and loop contracts | the metadata of the function | `LoopContractTransform`, `SpecStatementTransform` | which value a source variable has at that place |
| the same: modules and contracts | declarations, results of analyses by function | nine passes, `ErrorReporter` | results asked for in an order of their own; errors that do not stop the plugin |
| the same: struct consolidation | sets of arguments by function | `findReplaceableSets`, `updateFunction` | sets found before the first update and used after it; hash order |
| `res/universal/res/systemc` | counters and cursors of a FIFO, lock, signal, clock | `read`, `write`, `nb_read`, `lock`, `trylock`, `unlock`, `update`, `run` | what counts in the present delta cycle and what in the next; notifications to several waiters |
| `examples/.../PrefixSumCUDA` (Kogge-Stone, Blelloch, stream compaction) | shared array, ghost sequences | host, kernel, barriers, lemmas | threads between two barriers in any order; an index off by one level |
| `examples/.../parallelBellman-Ford/ASSSP.cu` | costs on both sides, contributions | host rounds, kernel with atomic minimum | a read and the atomic operation after it; what a round promises when arcs are relaxed in any order |
| `main/.../Backend` | cache directory | `cachedDefinitelyVerifiesOrElseUpdate` | parallel tasks, crash between two writes |
| `viper/.../SiliconLogListener` | open scopes, branches, stack of tasks | one method per record | order of records across branches |
| `hre/hre/debug/TimeTravel`, `FrozenScopes` | index of causes | `safelyRepeatable`, `cause`, `badEffect` | a second run has to count like the first |
| `col/.../SuccessionMap`, `Scopes` | declarations and successors, open scopes | `declare`, `succeed`, `computeSucc` | lazy references, declarations collected out of order |
| some hundred other passes, parsers, COL, Silver | none over several steps | tree transformations | the semantics of two languages |

How they interact. `Main.runOptions` installs the outer middlewares (standard input, logging, the thread watchdog, the
layout), and runs the watch loop in them, whose body installs the inner ones (task registry, progress, profile) and runs
a mode. Verification reads files, which enrolls them with `Watch`, parses them (LLVM IR by calling `opt` with
the Pallas plugin, which prints a COL program), runs the passes one after another under `Progress.stages`, and hands the result to
the backend, whose parallel tasks share the task tree. In the pass `SimplifyNestedQuantifiers` the walk over the program
gathers conditions; each quantifier is taken apart with them, loses bindings it does not need, and is searched for linear
accesses. The other end of that chain is the user: a wrong fact, bound or coefficient, a block translated twice, a
specification about the wrong variable, makes VerCors accept a program that it should reject. The CUDA programs are the
kind of program the chain is for, and carry annotations that VerCors is to prove; the models check the programs and the
annotations, also the ones the files assume.

In Pallas, `ColLLVMParser` fixes the order of the passes: structs are consolidated, globals and specifications declared;
then for each function the declarer, the assigner of purity and the contracts of the older form; then the contracts of
Pallas, the bodies, and the printer, which prints nothing after an error. A body is one recursive walk; a phi is turned
into assignments in the blocks before it, whether they have been translated or not.

The file `PROJECT.json` lists every component with the reason why it is modelled or not, and, under `hazards`, what is
hard to test in this code, each with its line and the properties that are about it.

## 2. The modules

| module | code | state and actions |
|---|---|---|
| `InterruptibleInputStream` | `InterruptibleInputStream.scala` | The cursors, the buffer, who holds the monitor, and a program counter per thread. Every look at a cursor that another thread may store in between is a step of its own: `TestAvailable`, `TakeByte`, `TestGreater`, `CopyUpToWriter`, `TestLess`, `CopyUpToEnd`, `ReturnEmpty` are the reads of `writeCursor` and `eof` in the two `read` methods; `CheckSpace`, `Fill`, `NotifyReaders`, `TransferWait` are the four blocks of the transfer thread. Byte number i of the input is the number i. |
| `BytePipe` | what the stream promises | A bounded FIFO. `ImplementsPipe` is the refinement: the pipe holds the bytes between the cursors. |
| `InterruptibleInputStreamProofs` | | The inductive invariant and the proofs. |
| `Watch` | `Watch.scala`, `InMemoryCachedReadable.scala` | The main thread's path through `booleanWithWatch`, `await` and `reset`; the file, stdin and debounce threads; files as version numbers; events of one directory. The watch service, the keyboard and SIGINT are the environment. |
| `WatchProofs` | | The inductive invariant and the proofs. |
| `Middleware`, `MCMiddleware` | `Middleware.scala`, `Main.scala` | Two nested `using`s with one step per install and uninstall, each of which may throw; the hook at any moment. |
| `MiddlewareProofs` | | The inductive invariant and the proofs. |
| `AnnotationVariableInfo` | `AnnotationVariableInfoGetter` in `ExpressionEqualityCheck.scala` | Operators: a getter is a record of tables, its mutable collections are cells. `AddInfo`, `Clone`, `SetupInfo`, `FilterInfo`, `FinalInfo`. |
| `QuantifierInfo`, `MCQuantifierInfo` | the walk, `SimplifyNestedQuantifiers.scala:209-467` | `infoGetter`, `oldInfo`, `requiresInfo`, `extraInfo`, `equalityChecker` as in the code, the getters on a heap. One action per call of `dispatch`: a conjunct, an implication, a quantifier, each section of a contract, each statement, each with a begin and an end. |
| `QuantifierBounds`, `MCQuantifierBounds` | `RewriteQuantifierData` (lines 480-922 and 1164-1213) | The fields of the class; one action per condition that is taken apart, per binding removed or substituted. |
| `QuantifierBoundsProofs` | | The invariant of the data, that their meaning is kept, and the proofs. |
| `LinearExpressions` | `linearExpression` and `visit` (lines 1273-1375) | Coefficients, the shared multiplier, and the tasks of the recursion as a stack. |
| `LinearAccess`, `MCLinearAccess` | `canRewrite` to `findSuitableBound` (lines 1377-1907) | The order tried, the bounds chosen, what remains to be stated; one action per check that finds a bound. |
| `LinearAccessProofs` | | The inductive invariants of the visit, of the search and of the quantifier that results, and the proofs. |
| `LlvmInstructions` | `Transform.cpp`, `Transform/Instruction/*` | Operators: for each instruction, the COL nodes, the declaration and the error or exception it gives rise to (an emission). |
| `LlvmFunctions` | LLVM's analyses | External: dominance, loops, breaking of critical edges, as operators on a control flow graph. |
| `SpecArguments` | `PallasDIMapping`, `PallasWrapperUtils`, `SpecStatementTransform`, `LoopContractTransform` | Operators: which debug intrinsic gives a source variable its value at a place. |
| `FunctionBody` | `FunctionBodyTransformer`, `BlockTransform`, `TermOpTransform`, `OtherOpTransform` | The recursion of `transformLLVMBlock` as a stack; the blocks in the order they were added, what each holds, the variable map. One action per kind of step: enter a block or a loop, an ordinary instruction, a phi, each terminator. |
| `BodyMeaning` | `LangLLVMToCol.scala` (phis and gotos) | The LLVM function and the COL body run side by side, a basic block at a time. |
| `ModuleContracts` | `Passes/Function/*`, `Passes/Module/*`, `ColLLVMParser.scala` | The pass that runs and the function it comes to; the declarations, the contract of each function, the errors. One action per pass and function. |
| `StructConsolidator` | `Passes/Module/StructConsolidator.cpp` | `FindSets` for each function in the order of the module, then `UpdateFunction` in any order, as the table is hashed by address; each rewrites the function, all its calls and the metadata that names it. `Run` is the meaning of a program: memory by bytes, each known by where it came from. |
| `PallasPrograms`, `StructPrograms`, `MCPallas` | | The functions, modules and programs of the run, and the three modes of it. |
| `KoggeStone` | `Kogge-Stone.cu` | Host and kernel; every access to the shared array is a step, `__syncthreads` a joint one. |
| `ScanFunctions`, `Blelloch` | `Blelloch.cu` | The pure functions with their lemmas; the two sweeps with the ghost variables the annotations use. |
| `StreamCompaction` | `StreamCompaction.cu` | The scatter, with `Blelloch` as an instance for the scan of the flags. |
| `MCPrefixSums` | | The three kernels, one per behaviour. |
| `PrefixSumsProofs` | | The inductive invariants of Kogge-Stone, of the scan and of the compaction, and the proofs. |
| `GraphPaths` | the pure functions of `ASSSP.cu` | Graphs, paths and their costs, as operators. |
| `ShortestPaths` | the host and kernel of `ASSSP.cu` | The arrays on both sides; a thread reads the cost of the start of its arc and relaxes the end in two steps. |
| `MCShortestPaths` | the recursive ghost functions and the lemmas of `ASSSP.cu` | Each lemma is a predicate that says its `ensures` follow from its `requires`. |
| `ShortestPathsProofs` | | The inductive invariants, facts about paths, and the proofs. |
| `ScScheduler` | the SystemC simulator | External: processes run one at a time, update phase, delta cycles, time. |
| `ScFifo`, `ScMutex`, `ScSignal`, `ScClock` | `res/universal/res/systemc/config/implementation` | One module per channel: its variables, its methods as actions of a process, its `update`. |
| `SystemC`, `MCSystemC` | | The composition: processes that are sequences of calls, over all channels and the scheduler. |
| `SystemCProofs` | | The inductive invariant and the proofs. |

Expressions of quantifiers are represented by what they denote: a free expression is the function from environments to
integers, so that two expressions the code builds in different ways are compared by meaning, and a quantifier by the
accesses it makes. Where the code asks something that it models only approximately (the equality checker, Z3), the answer
is any answer that is correct: it may fail to prove what holds, and proves only what holds. In `QuantifierBounds` this is
a fixed incomplete procedure, in `LinearAccess` a nondeterministic one. LLVM integers have 16 bits in `BodyMeaning` and
wrap; a run of a body ends where LLVM and COL differ by design (overflow, unsigned use of negative numbers, memory).

## 3. The runs

Every property is stated with a comment at its definition. The passing runs show that the property holds in the
instance; each property of a passing run is also broken by a mutant of one definition (`PROJECT.json`, `mutants`), a
small change of the kind a programmer makes.

| run | bounds | shows |
|---|---|---|
| `stream` | 2 readers, buffer of 2 blocks of 2 bytes, input of 8 bytes, requests of up to 2 | No byte is lost between the threads (`NoByteLost`), the unguarded underlying read writes into free space only (`TransferRegionFree`), a waiting reader is told (`ReaderNotForgotten`), the stream implements `BytePipe` (`ImplementsPipe`: bytes arrive once, in order, and -1 comes last), every byte is delivered unless the transfer thread has missed a notification or all readers have failed (`DeliveredUnlessWakeupLost`). |
| `stream_lost_wakeup` | 1 reader, input of 3 bytes | Violated: `EveryByteDelivered`. |
| `watch_loop` | a watched file and a library file, 2 edits of each, 1 ENTER, 2 Ctrl+C, 1 event before the overflow | No change that a run missed is forgotten while the program sleeps, a run reads nothing older than its start, each rerun has a cause (`RunsFollowChanges`), the wait ends the program only when confirmed (`ExitIsConfirmed`), a change is picked up if nobody types and no event overflows (`QuietChangeIsPickedUp`). |
| `watch_join_deadlock` | one file, one edit, one ENTER | Violated: `ChangeIsPickedUp`. |
| `middlewares` | the seven middlewares of `Main.runOptions`; one may be interrupted, four may fail | The hook can reach what is installed and a normal end leaves nothing (`ListIsRight`), the order of uninstalling is reversed (`UninstallsInReverse`). |
| `quantifier_info` | 4 variables, three texts of 5 conditions, up to 3 conditions stated, quantifiers nested 2 deep, 1 loop or framed proof, 1 implication, values 0..2 | `KnowsWhatHolds`: what the checker of a quantifier was told holds in every environment possible there (`FactsHold`), `InconsistentVariableEquality` is raised only for contradictions, no comparison that holds is lost (`ContextIsUsed`). Of walks without a departure, see 6. |
| `quantifiers` | 2 bindings over -1..4, 2 environments, several hundred quantifiers | `QuantifierIsKept`: the data at each step has the meaning of the original quantifier, for a `Starall` with multiplicity; removed bindings are mentioned nowhere; bounds said to be exact are. `TriggersKeepShape`. |
| `linear_access` | 1 to 3 bindings, 3 environments, values -1..5, indices -24..36 | The visit loses nothing of the index at any step (`NothingLost`); the new quantifier makes exactly the accesses of the old one, each once (`RewriteIsExact`). |
| `prefix_sums` | 8 threads, an array of powers of two of both signs, 2 sets of flags | No two threads touch a cell without a barrier between (`DataRaceFree`, `ScanRaceFree`); the results are the inclusive and the exclusive prefix sum and the compacted array (`PrefixSummed`, `ScanResults`); the annotations hold where they stand, with the permissions they hand out and the lemmas they assume (`AnnotationsHold`); no thread is left at a barrier (`EveryKernelEnds`). |
| `shortest_paths` | five graphs of 3 to 5 vertices and up to 7 arcs, 3 contents of the memory | The kernel's resource invariant between any two atomic steps (`KernelInvariant`), the host's loop invariants at each round and the lemmas that carry them over it (`AnnotationsHold`), costs never rise (`CostsOnlyFall`), the result is the cost of a cheapest path (`ShortestAtReturn`), the host returns (`Terminates`). |
| `systemc` | 3 processes with up to 12 calls, FIFO of 2, clock period 1 to 4 | Samples come out once, in order and not in the delta cycle they went in (`FifoInOrder`); nobody waits in vain and the mutex has one holder (`NobodyForgotten`); `event()` tells the changes (`EventsAreChanges`); every process makes its calls if the mutex starts free (`WorkIsDone`). |
| `pallas` | some seven hundred functions, among them every control flow graph of three blocks with two targets at most (but for a few shapes of the entry); 6 blocks executed; inputs -2 and 3; dozens of modules; some seventy programs with structs | Control that is reached is translated once, with its phis and declarations (`BodiesAreWhole`); nothing accepted is silently missing (`NothingIsLost`); the COL body computes what the LLVM function does (`SameMeaning`); specifications get the value the source variable has (`SpecsSeeTheVariable`); contracts end where they belong and nothing is printed after an error (`ContractsAreWhole`); consolidating structs changes nothing a program or a specification can see (`StructsKeepTheirFields`); every step of the walk brings it nearer to its end (`TranslationAdvances`). |

Where a property of the table has the parts of several in one name (`RunsFollowChanges`, `ListIsRight`,
`QuantifierIsKept`, `KnowsWhatHolds`, `BodiesAreWhole`), the definition lists them, the module's type invariant among them.

Why the bounds are enough. `stream`: the buffer wraps and fills, the last block is short, and both readers can be inside
`read` at every look of the transfer thread; `NoByteLost` and the others are proved for all sizes. `watch_loop`: two
iterations of the loop with a left-over event, thread or trigger from the first one, and an overflow, are reached; a
third iteration begins in a state of the second. `quantifier_info`: a departure needs at most three conditions (two
before a clone and one after it), which is how all five were found; values 0..2 tell apart every two tables of the
texts. `quantifiers` (whose `QuantifierIsKept` is proved for any number of bindings and all integers) and
`linear_access`: the environments make a symbolic bound smaller and greater than the constants
next to it and, in `linear_access`, zero, so that each comparison the code makes goes both ways. `Indices` and `Values`
contain every index and value that the quantifiers of the run can make; with smaller ones `RewriteIsExact` would be
violated at once, as the new quantifier's domain is cut and the old one's is not. `prefix_sums`: eight threads make
three rounds (a first, a middle and a last one); sums of different powers of two are different, so a wrong cell shows in
the result whatever the array would have been, and the theorems of `PrefixSumsProofs` are for every
size. `shortest_paths`: the graphs need every round, have cycles through and beside the source, ties, and vertices out
of reach. The theorems of `ShortestPathsProofs` are for every graph. `systemc`: a FIFO of two is empty, half full and
full, both ends wait, two processes wait for the same event, and the period is odd, even and 1; the proofs are for every
size. `pallas`: three blocks are enough for a loop with a break and a continue, a loop in a loop, a join behind a loop,
an unreachable predecessor of a phi; six blocks of execution go round a loop twice. Structs have one to three fields,
pieces that are one field, several, or of another type, and two levels of calls, so that a caller can be updated before,
after or as well as its callee.

Deadlock is checked in `systemc` and `pallas`, where only a state in which all is done may stop. In the others it is not:
a stream that has been read to its end, a kernel that has ended, a program that has exited and a quantifier that has been
rewritten stop. `QuantifierInfo` stops when its bounds are used up or an exception has been thrown. Progress is stated as
liveness where it matters.

## 4. Fairness

* `InterruptibleInputStream!FairSpec`: strong fairness of the transfer thread and of entering `read`, which both need the
  monitor that others take and release again; weak fairness of the steps inside `read` and of the next call, because
  callers (the stdin thread of `Watch`, a parser reading to the end) read in a loop. The JVM runs its threads; monitors of
  the JVM are not fair by contract, and strong fairness assumes that a thread which asks again and again is served.
* `Watch!FairSpec`: weak fairness of the main thread, the end of a run (a verification ends), the file, stdin and
  debounce threads, strong fairness of the two `signal`s. No fairness of `Edit`, `PressEnter` and `CtrlC`: nobody has to
  do anything.
* `prefix_sums`, `ShortestPaths!FairSpec`: weak fairness of the next step as a whole: the device does something as long as
  a thread can. No thread is preferred: a kernel with a bounded number of steps needs no more.
* `SystemC`: weak fairness of the next step: the simulator runs what can run. It is one thread of the operating system.
* `Middleware`, `QuantifierBounds`, `LinearAccess`, `QuantifierInfo` and `pallas` have safety and action properties only,
  and need no fairness.

## 5. What is proved

`InterruptibleInputStreamProofs` proves, for every block size, number of blocks, length of input, bound on requests and
set of readers: `TypeOK`, `NoByteLost`, `InOrder`, `TransferRegionFree`, `ReaderNotForgotten` and the action property
`EndOfStreamIsLast`, as theorems of `Spec`. The constants are assumed to be what their `ASSUME`s say (positive sizes, and
`NoOne` no reader). None of these is inductive. `IInv` adds

* who holds the monitor (`MonitorHeld`), so that readers exclude each other;
* what the transfer thread's earlier computation is still worth when it reads (`TransferKnows`): readers only make room,
  so `toRead` still fits;
* what each look of a reader is still worth at the next one (`ReaderKnows`), although the transfer thread stores
  `writeCursor` without the monitor. This is the heart of it: a store that a reader has not seen is always followed by a
  notification that waits for the reader to leave (`UnseenStore`). It is what makes the wait of a reader safe, and its
  lack on the other side is what `stream_lost_wakeup` shows.

There is one lemma per action, and `TakeKeepsBytes`, `FillKeepsBytes` and `ControlKeepsBytes` hold the account of bytes
that the lemmas share. `StreamImplementsPipe` is the refinement, step by step: a byte that is taken is the head of the
pipe, a copy of k bytes is k receives in one (`TakeReads`), the store of `writeCursor` is the send (`FillWrites`), and
what a reader computes between two looks is a stutter. It rests on `IInv`: without `ReaderKnows` a copy might take bytes
that are not in the pipe.

`WatchProofs` proves, for every finite set of files, watched or not, and any number of edits, lines typed, interrupts
and events, that runs follow changes (`RunsAlwaysFollowChanges`) and that the wait ends the program only when confirmed
(`ExitIsAlwaysConfirmed`). That no change is missed is inductive only with what holds before the program sleeps: in a
run, a watched file that has changed since the run read it is in an event (`Pending`), since the directory is registered
before the file is opened (`Enrolled`). That every rerun has a cause is an account of what was paid: reruns, plus one
for a trigger that is set or on its way, never exceed edits and lines (`Paid`); a thread that survived `reset` would be
paid for twice. The cause is why `Edits` is a finite set of pairs of a file and a version.

`MiddlewareProofs` proves, for any two lists of distinct middlewares, any of which may fail, that the list the main thread
shares with the hook is right (`ListIsAlwaysRight`) and that the main thread uninstalls in reverse order
(`AlwaysUninstallsInReverse`). The invariant adds that the list is in the order of installation whatever has failed
(`InOrder`) and how far it can reach at each place in the two nested `using`s (`Reach`). It needs `InterruptibleAssumption`:
of the inner middlewares only the first tests for an interrupt, which is so in `Main.runOptions`. See 6 for what happens
otherwise.

`LinearAccessProofs` proves, for every set of problems (patterns, bounds, conditions, any number of bindings) and
environments, that what the bindings so far add to the index stays below the next coefficient (`PrefixesFit`) and
determines them (`PrefixesDetermine`). Both assume `ExactDifferences`, that `simplifiedMinus` returns the difference of
its arguments; `SimplifiedMinusExact` shows that it does unless a constant is left beside two products with a common
factor, and `ProductBounds` of `MCLinearAccess` (see 6) is what happens when one is. The invariant adds that the
coefficient reached is not zero and has the sign of the first one, that `linLast` is that sum, and how it grows with each
of the three checks. The step is arithmetic: if 0 <= s < |m| and the next binding has at most |m'| / |m| values, then
0 <= s + m*d < |m'| (`FitsProduct`), and s is the remainder by m (`DivisionIsUnique`). `ProblemsAssumption` and
`NodesAssumption` say that bounds and patterns are well-formed, `NodeValueAssumption` what the value of an expression is,
operator by operator; TLC evaluates them in the run `linear_access`. The Lean development (`LeanProof/QuantifierLean`)
proves that the final formula is a bijection under the paper's conditions (1) to (4); these theorems are about the search
that is to establish those conditions, and the next ones about the formula the code makes from what it finds.

The second part of `LinearAccessProofs` proves the two properties of the run for every set of problems.

* `NothingIsLost`. What a task on the stack of the visit will add depends on the multiplier it starts with, and a product
  changes the multiplier until it is restored; so `TaskAdds` is a function of the multiplier, and `PendingBy` composes
  them from the end of the stack. Each case of the visit keeps the sum of this and of what has been collected (`Balance`),
  the quotient that is pushed into a product (`QuotientExact`) included. Weighted sums are sums over sets of bindings,
  defined by recursion and handled by induction over subsets (`SubsetInduction`, `SumAdd`). The theorem has no hypothesis.
* `ExactWhereNotEmpty` and `RewritesExactly`. `ExactInv` adds to the invariant of the search that there is a chain of the
  values `linLast` had (`Chain`), that the coefficients so far have one sign (`SameSigns`), and what has been dropped for
  each binding (`Settled`): the lower bound that became its minimum, and an upper bound only when the next coefficient is
  this one times the extent. At the end the index is the offset and the last link of the chain (`IndexIsSum`). A point of
  the old domain is found back from its index, as each remainder is the link before (`Forth`). Conversely an index that the
  new quantifier ranges over gives a point whose index it is (`Back`); that this point is within the bounds which were
  dropped follows from the remainder being less than the next coefficient. With one binding both are Euclidean division
  (`SingleForth`, `SingleBack`).
* The theorems suppose, besides `ExactDifferences`, that quantifiers range over the integers (`Unbounded`) and, for several
  bindings, that only the first coefficient is a literal 1 (`OnlyFirstIsUnit`) and that the old quantifier has a point
  (`NeverEmpty`; in `ExactWhereNotEmpty`, in the environment in question). What happens without them is in 6. That nothing
  else has to be supposed means that these are the only ways in which the arithmetic of the rewrite goes wrong.

`QuantifierBoundsProofs` proves, for every set of quantifiers and environments and any number of bindings, that the data
are well formed and mention no binding that is gone (`NoLooseBinding`) and that a binding of a trigger is only replaced
by a simple value (`TriggersStayInShape`). These have no hypothesis but `QuantifiersAssumption`, that guards and indices
are well-formed, which TLC evaluates in the run. `DataInv` adds to `TypeOK` and `Closed` that an upper
bound and its exclusive form stand side by side in their tables (`TablesAgree`), that a condition set aside is a
comparison without a Select or a disequality (`OnlyKept`), and which fields are still untouched in which stage (`Staged`).

`QuantifierStaysSame` is the property `QuantifierIsKept` of the run: at every step the data make the accesses of the
original quantifier, in every environment and, for a `Starall`, as often. `MeaningInv` is `DataInv` with the meaning, that
each access is counted finitely (`Counted`), and that the conditions still to be processed can be split (`AllSplit`).
Bindings range over all integers here, which TLC cannot do.

* Most steps leave the points alone, those valuations of the bindings that the data admit (`IsPoint`): a condition gives
  way to its parts (`SplitsFaithful`) or to bounds of the one binding that it mentions (`BoundsFaithful`).
* A substitution fixes the binding. Its value is a lower and an upper bound, so that it is the only one (`ValueForced`);
  evaluating what has been substituted is evaluating the original elsewhere (`TermSubst`, `SubstitutedPoint`), and accesses
  before and after correspond, key by key (`MeaningsCorrespond`).
* A removal divides the accesses by the range of the binding. Each access afterwards stands for one with each value from
  the minimum to the maximum (`RemovedUp`, `RemovedDown`), and for a `Starall` the number of these is what the scale is
  multiplied with (`RemovedCount`). The new condition max >= min says that there is one at all (`RangeOfRemoved`).
* `extremes` is a function by recursion on lists; that its equation has a solution, and which one it selects, is shown by
  induction over their length (`ExtremesIs`). `FewExtremes` says what it returns for one or two bounds.

The theorem supposes what the code needs and does not ensure. `Merged`: `toOneImplies` keeps every conjunct. `SelectsSplit`:
a Select in a condition is the minimum or maximum it is taken for. `Ordinary`, at every step: a candidate for removal has
at most two bounds of a kind (`FewBounds`) and, if the checker cannot compare them, some value in each environment
(`Decided`). Each fails for one set of quantifiers of `MCQuantifierBounds`: `TwoGuards`, `SelectBound`, `ThreeBounds` and
`IncomparableBounds` (see 6); all quantifiers of the run satisfy them. `Countable` says that a `Starall` accesses no
location infinitely often, without which there is no multiplicity to compare. `Unbounded` says that bindings are integers.

`PrefixSumsProofs` proves of Kogge-Stone, for every number of threads and every array, that the kernel has no data race (`NoDataRace`),
that the loop invariants and barrier contracts about the cells hold (`WindowsAsAnnotated`), with permissions that suffice
and never exceed a whole (`PermissionsAsAnnotated`), and that each thread leaves a prefix sum (`SumsAtTheEnd`). The
inductive invariant has three parts. All threads are in one phase between the same two barriers (`OnePhase`), so a read
of a neighbour's cell and a write of one's own never meet. They agree on the offset (`OneWidth`). And a cell holds the
sum of the window of that width that ends in it (`CellsHold`), twice the width if its thread has already written. The sum
over a window is a constant operator with the two equations that the annotations' `IntSum` has.

Of the other two it proves, for every power of two, every array and every interleaving between barriers, that no two threads of
Blelloch's scan race for a cell, nor two that scatter for a place of the output (`NoThreadsRace`), that the scan leaves the
exclusive prefix sums and the compaction the flagged elements in their order (`ScansAreRight`). The assumptions are that
`K` is a natural number and the arrays hold integers and flags (`KAssumption`, `ArraysAssumption`). The source carries the
contents of the array over the rounds by ghost matrices (`implode`, `up`) and lemmas of which most have no body; the
proof needs neither. Node m of level j of the tree of sums is the last cell of the m-th block of 2^j cells. In a round of
level j, `Sums` says, a node of the level holds the sum of its block (`Block`), and in the down-sweep what lies ahead of
the block (`Ahead`); nodes of lower levels that no round has reached still hold the sum of their block. That they do rests
on arithmetic: a left node of one level is no node of a higher one (`OddDiffers`), and what lies ahead of a block is what
lies ahead of its left half (`BlockFacts`). `OneRound` says that all threads are in the same round, so that only the two
cells of a thread's own node are ever touched by it (`TouchedCells`). For the compaction, the sums before flags that are set
differ (`FlagSums`) and leave no gap (`EveryPlaceIsTaken`), so that each thread has a place of its own and the output is
full. The kernel in `StreamCompaction.cu` is a copy of Blelloch's, and the proof goes over to it by identity
(`SameKernel`). What the pure functions compute for every sequence (`TakeIs`, `SumIs`, `PrefixSums`, `CompactIs`) is shown
by induction over sets of numbers, downward from the end of the sequence (`DownwardInduction`): `ScanFunctions` writes them
as recursive functions of the position for that reason.

`ShortestPathsProofs` proves, for every set of graphs and content of the memory, that costs never rise (`NoCostRises`),
that the resource invariant of the kernel holds at every step of every thread (`KernelInvariantHolds`), and that when a
round ends every arc is relaxed against the costs with which the round began (`RoundsRelax`). The last is what the
sequential algorithm's correctness rests on: a thread may read a cost that others have already lowered in the round, which
only helps, since costs fall. `RoundInv` therefore relates the costs to those of the beginning of the round, not to a
sequence of relaxations.

That the result is the cost of a cheapest path (`ResultIsShortest`, `NoPathIsEverCheaper`) has two halves, which are the
invariant `CostsOfPaths`. A cost is never too low: each is the cost of a simple path from the source, on which every
vertex costs no more than the path does up to it (`Backed`). The second part is what keeps the path simple: had the arc
that is relaxed led back into the path, the path up to there would be cheaper already (`RelaxedIsBacked`). A cost is never
too high: after n rounds no path of n arcs is cheaper (`NoneCheaper`, `OneMoreArc`). Paths with more arcs than there are
other vertices visit one twice (`VisitsTwice`, by the pigeonhole principle), and without the cycle they are cheaper, as
weights are positive (`CanBeShortened`). Induction is over sets of numbers here: `LeastNumber` and `UpwardInduction` come
from the library's well-founded order of the naturals, whose theorem takes a set and not an operator. The cost of a path
is a recursive function, so that `Tally` says what its values are, and exists and is `cost` by that induction
(`TallyExists`, `TallyIsCost`). The theorems assume that the memory happened to be right (`StartedRight`, see 6).

`SystemCProofs` proves, for every size of the buffer and whatever the processes call in whatever order, that the FIFO
loses, repeats and reorders nothing (`SamplesInOrder`), that counters and cursors agree (`ChannelsTyped`), that nobody
waits for a sample, for room or for the mutex while there is one (`NobodyWaitsInVain`), that the mutex has one holder
(`NobodyIsForgotten`), and that `event()` is true exactly in the cycle after a change (`EventsOfTheSignal`). The holder
depends on the processes, because `unlock` does not ask who calls it: `UnlockAssumption` says that each unlocks only
after it has locked, and `MutexInv` that a process which is going to unlock holds the mutex or will lock it before. The
invariant says that the ring holds, at the cursor modulo the size, the samples written and not yet read, that what is
visible in a cycle is what was there at its beginning less what was read in it, and that a process which waits had its
reason when it began to and that whoever removes the reason has notified it, in this step or in the update that is due.

`EventsTellTheChanges` adds the clock: for any period but 0 and 1 and any number of ticks and watchers, who waits for
`edge` and then looks sees another value each time. `WatchersAssumption` says what a watcher is: it waits for an edge
between any two looks and before the first, the clock has one thread, and nobody writes that clock (the run keeps a
program in which two processes do, and which nobody watches). The values seen alternate because of who may run when,
which is what `ClockInv` states: the thread first runs in the delta cycle before any edge has occurred; later it runs
only when time has passed, so alone, when no edge is due and nobody is between waking up and looking; and what a
watcher saw last is the clock's value until the next edge is notified, and the other one from then on. Period 1 is
left out because its half is 0: the thread then waits for a delta cycle only, and ticks in the cycle its edge occurs in.

Only model-checked: liveness (`DeliveredUnlessWakeupLost`, `QuietChangeIsPickedUp`, `EveryKernelEnds`, `Terminates`,
`WorkIsDone`), which the prover does not handle. `AnnotationsHold` of the prefix sums, which is about the ghost
matrices and the lemmas of the files, and that of the shortest paths, for the lemmas of the file, whose functions are
RECURSIVE operators (the part about the state is proved); `QuantifierInfo` and Pallas, whose operators are recursive.

## 6. Where the code departs from what it says

Two runs end in a violation, and `findings` in `PROJECT.json` quotes the line each contradicts.

* `stream_lost_wakeup`: the transfer thread decides to wait in one synchronized block and waits in another.
* `watch_join_deadlock`: `reset` joins, with the monitor held, a thread that waits for the monitor in `signal`.

The others are kept as definitions that a configuration can be pointed at, or as conditions of a property.

Quantifiers.

* `Quantifiers.cfg` with `Quantifiers <- IncomparableBounds`, and `RewriteIsEquivalent` as the invariant: for upper bounds
  that cannot be compared `extremes` selects the greater one (`SimplifyNestedQuantifiers.scala:909`). With `TwoGuards`:
  the second of two conjuncts with different antecedents is dropped from the body (489). With `ThreeBounds`: of three
  comparable bounds, `extremes` looks at the first two. With `SelectBound`: a conditional upper bound is taken as two
  bounds, right only for a minimum. The theorem excludes these by `Decided`, `Merged`, `FewBounds` and `SelectsSplit`.
* `LinearAccess.cfg` with `Problems <- ProductBounds` and `Values <- ProductValues`: the constant that is left between two
  products is multiplied by their common factor (1893). With `Problems <- UnitCoefficients`: the remainder is skipped for a
  coefficient of 1 after the first binding too. With `Problems <- EmptyRange`: with contradictory constraints everything is
  provable, and the bound that made the quantifier empty is dropped. The ordinary problems avoid these; the theorems
  exclude them by `ExactDifferences`, `OnlyFirstIsUnit` and `NeverEmpty`.
* `QuantifierInfo.tla` names five ways in which the walk departs from what its comments mean it to do, and `Tolerated` is
  the set of those after which it is still followed. With `Tolerated = {}`, as in the run, `FactsHold` speaks of walks
  without any. With `{"counter"}`, `{"shared"}`, `{"spread"}`, `{"oldInfo"}` or `{"leftover"}` it is violated, each for a
  reason of its own, which the comment at `Departures` explains; `oldInfo` (450) is the getter itself, which an
  implication in `requires` has changed. That it holds with `{}` means that these five are all there are, in the instance.

Standard input.

* `CopyFails` in `InterruptibleInputStream.tla`: `writeCursor` wraps between the comparison and the length of the copy,
  and `System.arraycopy` throws. The properties hold in spite of it; the reader ends as `failed`.

CUDA case studies (`examples/archive/known-problems/856`).

* The barrier of the up-sweep in `Blelloch.cu` promises at 386 half of what it requires at 377, so that the two exclude
  each other; the permissions it promises at 388-391 (`StreamCompaction.cu:486-491`) have premises about `ExpTwo(lvl)` that
  no thread fulfils where it matters, and the premise of 332 is never true. They are left out of `AnnotationsHold`. What
  the files assume (`Blelloch.cu:466-469`, 604-606, `StreamCompaction.cu:717-718`) does hold.
* The host of `Kogge-Stone.cu` never copies the result back (341 is commented out), so `PrefixSummed` is about the device.
* `ASSSP.cu:683` assigns `host_cost` from `host_old_cost`, which nobody has written, where the assertions at 688 and 690
  mean the other direction. The properties are about runs that start right because the memory happened to hold the right
  values (`StartedRight`); `SmallMemories` has such contents, and one that is not. `atomicRelax` is a macro of
  `res/universal/res/c/cuda.h:19`.

Middlewares.

* An interrupt in the uninstall of an inner middleware other than the first would leave it on the list, and the next run of
  `Watch` would install it a second time: `ListIsRight` is violated when a configuration says so. Only `TaskRegistry`
  tests for an interrupt, and it is the first.

SystemC channels.

* `trylock` answers true without locking, and `unlock` does not ask who calls it; with processes that unlock only what
  they have locked and lock after `trylock`, the mutex has one holder. The constructors of the mutex and the signal leave
  their variables uninitialised: `Init` takes any values, and `WorkIsDone` assumes that the mutex starts free.
* `sc_clock`'s thread flips the value at once and not in the update, notifies an edge at its start although nothing
  changes, halves an odd period by rounding down, and for a period of 1 waits for no time. `event()` compares delta
  counts, so that it stays true when time goes on without a delta cycle. The clock calls `request_update` without being a
  primitive channel.

Pallas (`llvm/lib`).

* `BlockTransform.h:13` says that all predecessors of a block are checked; the code checks the block itself. A loop with
  several back edges has no latch, and the reference is null when it has a contract.
* Blocks that control does not reach are made, without a terminator, when a phi names them; the printed program is then
  refused as incomplete. `BodiesAreWhole` says this instead of excluding it.
* Calls of inline assembly or through a constant are dropped without a report; `checkCallSupport` returns at the first
  attribute of the result, before it looks at the rest. `NothingIsLost` leaves out the former.
* Integers whose width is no multiple of 8 lose bits (`transformAndSetBigInt`), unsigned operations become signed ones,
  `memset` and `memcpy` declare a variable of type void, which no one uses.
* A variable whose debug information is incomplete at a join or a loop header keeps the value of an older block;
  `SpecsSeeTheVariable` is about complete debug information. The first `dbg.value` that refers to any argument decides
  what the variable of a contract means. `checkQuantifierSpecFuncWellformed` tests its first argument twice.
* `getAssumedFlag` compares a negated width, so that wider constants pass, and a flag that is no constant is a null
  reference (`PallasFunctionContractDeclarerPass.cpp:36-46`). A wrapper named by two functions has the first as its
  parent. The assigner of purity never runs on declarations. An unsupported type of a global is an exception that nobody
  catches.
* `StructPrograms!Departures` has nine programs, each of which violates `StructsKeepTheirFields` when it is added to
  `StructPrograms`:
  `gap` (`IntervalSet::add` merges intervals with a hole between them, and a call stores the fields up to the first that
  is missing), `via` (the stores into an intermediary struct go, the copy from it stays), `narrow` (all pieces are loaded
  with the type of the first), `other` (a field is looked for at the place it has in the callee's struct, in the
  caller's), `between` (the caller's load moves to the call, behind a store), `elsewhere` (`removeRecursively` deletes all
  that uses a removed argument), `stale` (the source of a field is the result of a call that has been replaced),
  `operands` (a specification has one operand for each piece, the wrapper one parameter), `clause` (a clause of a contract
  begins with a string and is not recognised). Besides: a struct of one pointer trips `assert(NFTy != FTy)`; a use of the
  function's address ends `gatherUseData` with the set still valid when it is stored; a set that another struct is copied
  into may have looked at the calls before or after it got its arguments, which is a matter of hash order. The build has
  no `NDEBUG`, and a failed assertion stops the plugin (`asserted`).

## 7. What is left out of the modelled components

* `InterruptibleInputStream`: `skip`, which nothing in the repository calls, and `close`. Weakly ordered stores: a store to
  `writeCursor` is taken to be visible after the bytes before it. The sign of a byte.
* `Watch`: directories other than one, files that are deleted, a watch service that fails.
* `Middleware`: what each middleware does, and the singleton reference of `MiddlewareObject`.
* `QuantifierInfo`: boolean conditions, array and heap terms; the variables a body assigns are an input, `gatherAssigns` is
  not modelled (it misses the out arguments of an invocation); a quantifier has at most one condition independent of its
  bindings; existentials. `MaxReplaced` bounds the depth to which equalities are followed, where the code bounds their
  number (100).
* `QuantifierBounds`: whether a condition is well defined, and so the order of conditions; scales inside antecedents.
* `LinearAccess`: several patterns and trigger sets (`lookForLinearAccesses`), the names and triggers of the result, and
  the arithmetic of the equality checker.
* CUDA: the hosts of Blelloch and stream compaction, which do what that of Kogge-Stone does; overflow; the release of
  memory (the shortest paths leave four arrays allocated, Kogge-Stone one).
* SystemC: `result.cpp`, a second copy of the classes; `tlm_fw_bw_if`; the simulator itself, which is external.
* Pallas: floating point, vectors and memory in `BodyMeaning`; the passes on the Scala side other than the order of phi
  assignments; origins; function definitions that a body asks for are in `ModuleContracts` only. In `StructConsolidator`:
  branches, padding, operand bundles and attributes. A function that is not local to the module is consolidated like any
  other (`hasExactDefinition` does not ask), callers outside are not modelled.

Hazards of components that are not modelled, which `PROJECT.json` has no room for: `eucl_mod` and `eucl_div` test `m <= 0`
for a remainder that is negative (`ExpressionEqualityCheck.scala:319`); `AbstractTask.start` registers the task before the
interrupt is tested outside the `try` (`AbstractTask.scala:85`); the hook of `TaskRegistry` aborts the tree while the main
thread may be ending the same tasks (62); the timer of `Progress` takes the monitor of the companion and `update` that of
the instance (83); the cached program is a `Try` and is compared with the program itself (`Backend.scala:131`).

## 8. Plan

What has not been done, in this order:

1. `TaskTree`: `AbstractTask`, `NameSequenceTask`, `UpdateableTask` and `TaskRegistry` with a main thread, two parallel
   workers, interrupts and the abort of the shutdown hook. Properties: a task ends once, its weight is counted once, no
   subtask outlives its task, the tree is empty at the end. Composed with `Middleware` (install and uninstall of the
   registry). `ProgressUpdate`: the timer against `update`.
2. `ExpressionBounds`: `getBound`, `isNonZero`, `getSign`, `lessThenEq` and the Euclidean division of
   `ExpressionEqualityCheck` over small terms, against what the expressions denote. `QuantifierBounds` and `LinearAccess`
   assume of the checker that it proves only what holds; this module is where that is true or not.
3. `VerificationCache`, `TimeTravel` with `FrozenScopes`, `SuccessionMap` with `Scopes`, `SiliconLogListener` on top of
   `TaskTree`; `lookForLinearAccesses`.
4. Proofs: the ghost matrices of `Blelloch` (`AnnotationsHold`); the walk of `FunctionBody` (each block once, the rank
   falls) over an abstract graph; that a getter says only what the conditions it was given imply.
