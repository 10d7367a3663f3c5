------------------------------ MODULE FunctionBody ------------------------------
(***************************************************************************)
(* The translation of the body of one LLVM function: FunctionCursor,       *)
(* transformLLVMBlock and the transformations that touch more than one     *)
(* block.  transformLLVMBlock is recursive; stack holds its calls, each    *)
(* with what it does next:                                                 *)
(*   "enter"  the test of isVisited and the loop contract                  *)
(*   "instr"  the instruction at index k                                   *)
(*   "else"   the second target of a conditional branch                    *)
(*   "goto"   the goto of an unconditional branch, made after its target   *)
(*            has been translated.                                         *)
(***************************************************************************)
EXTENDS SpecArguments

VARIABLES
  fn,        \* the LLVM function
  stack,     \* the calls of transformLLVMBlock
  blocks,    \* functionBody.statements: the labels with a COL block, in order
  col,       \* the COL block of a label
  variables, \* variableMap: the values that have a COL variable
  locals,    \* the variables declared in the function's scope
  failed,    \* an error has been reported
  crashed    \* the plugin has stopped with an exception or a null reference

bodyVars == <<fn, stack, blocks, col, variables, locals, failed, crashed>>

EmptyBlock == [visited |-> FALSE, loop |-> <<>>, stmts |-> <<>>, phis |-> <<>>,
               term |-> [kind |-> "none", args |-> <<>>, to |-> <<>>]]

\* FunctionBodyTransformerPass::run: the arguments are mapped, then the entry
\* block is translated, unless the function is Swift's fatalError.
StartBody(f) ==
  /\ fn = f
  /\ stack = IF f.skipped THEN <<>> ELSE <<[b |-> Entry, pc |-> "enter", k |-> 1]>>
  /\ blocks = <<>>
  /\ col = <<>>
  /\ variables = f.args
  /\ locals = <<>>
  /\ failed = FALSE
  /\ crashed = FALSE

BodyDone == stack = <<>> \/ crashed

--------------------------------------------------------------------------------
(* The cursor *)

\* getOrSetLLVMBlock2ColBlockEntry for the labels bs, in that order.
RECURSIVE GetOrSet(_, _)
GetOrSet(seq, bs) ==
  IF bs = <<>> THEN seq
  ELSE GetOrSet(IF Head(bs) \in Range(seq) THEN seq ELSE Append(seq, Head(bs)), Tail(bs))
WithBlocks(seq, c) == [b \in Range(seq) |-> IF b \in DOMAIN c THEN c[b] ELSE EmptyBlock]

\* A bug to look for: a block that has a label already is taken for translated.
IsVisited_HasLabel(b) == b \in DOMAIN col

IsVisited(b) == b \in DOMAIN col /\ col[b].visited

\* getVariableMapEntry: a value without a variable gets one; that is an error
\* unless it is asked for by a phi (or quietly by a specification).
Lookup(n, quiet) == [n |-> n, quiet |-> quiet]
Undeclared(lookups, known) == \E l \in lookups : ~l.quiet /\ l.n \notin known
Names(lookups) == {l.n : l \in lookups}

OperandLookups(os, quiet) == {Lookup(o.n, quiet) : o \in {o \in Range(os) : o.k = "var"}}
ConstOutcomesOf(os) == UNION {ConstOutcomes(o) : o \in {o \in Range(os) : o.k = "const"}}
\* A constant where a variable is looked up is an undeclared variable.
DirectConsts(s) == {k \in s.direct : s.args[k].k = "const"}

TopIs(pc) == stack # <<>> /\ ~crashed /\ Last(stack).pc = pc
Top == Last(stack)
Advance == [stack EXCEPT ![Len(stack)].k = @ + 1]
Call(b) == [b |-> b, pc |-> "enter", k |-> 1]

Crash == crashed' = TRUE /\ UNCHANGED <<fn, stack, blocks, col, variables, locals, failed>>

--------------------------------------------------------------------------------
(* Loop contracts *)

TrueInvariant == <<"true">>

\* transformLoopContract: no contract is the invariant true; a malformed one is
\* reported and leaves what was built of it.  contract.bad says what is wrong:
\* "" nothing, "loc" its location, "empty" no invariants, "operand" an operand
\* that is no node, at the end; an invariant's bad is one of "operands", "loc",
\* "wrapper" and "divar".
RECURSIVE Invariants(_, _, _)
Invariants(f, h, invs) ==
  IF invs = <<>> THEN [ok |-> TRUE, calls |-> <<>>]
  ELSE LET inv == Head(invs)
           call == WrapperCall([k \in DOMAIN inv.vars |-> InvariantArg(f, inv.vars[k], h)])
           rest == Invariants(f, h, Tail(invs))
       IN  IF inv.bad # "" \/ ~call.ok THEN [ok |-> FALSE, calls |-> <<>>]
           ELSE [ok |-> rest.ok, calls |-> <<[wrapper |-> inv.wrapper, args |-> call.args]>> \o rest.calls]

LoopContract(f, h) ==
  IF h \notin DOMAIN f.contracts THEN [ok |-> TRUE, calls |-> <<>>]
  ELSE LET c == f.contracts[h]
           built == Invariants(f, h, c.invs)
       IN  IF c.bad \in {"loc", "empty"} THEN [ok |-> FALSE, calls |-> <<>>]
           ELSE [built EXCEPT !.ok = @ /\ c.bad # "operand"]

LoopLookups(contract) ==
  UNION {{Lookup(a.o.n, a.quiet) : a \in {a \in Range(c.args) : a.o.k = "var"}} :
           c \in Range(contract.calls)}

--------------------------------------------------------------------------------
(* transformLLVMBlock *)

EnterVisited ==
  /\ TopIs("enter") /\ IsVisited(Top.b)
  /\ stack' = Front(stack)
  /\ UNCHANGED <<fn, blocks, col, variables, locals, failed, crashed>>

EnterBlock ==
  /\ TopIs("enter") /\ ~IsVisited(Top.b) /\ ~IsLoopHeader(fn, Top.b)
  /\ blocks' = GetOrSet(blocks, <<Top.b>>)
  /\ col' = [WithBlocks(blocks', col) EXCEPT ![Top.b].visited = TRUE]
  /\ stack' = [stack EXCEPT ![Len(stack)].pc = "instr"]
  /\ UNCHANGED <<fn, variables, locals, failed, crashed>>

\* A bug to look for: the header of a loop is not marked.
EnterLoop_NotMarked ==
  /\ TopIs("enter") /\ ~IsVisited(Top.b) /\ IsLoopHeader(fn, Top.b)
  /\ LET h == Top.b
         latches == Latches(fn, h)
         contract == LoopContract(fn, h)
         latch == CHOOSE b \in latches : TRUE
         rest == SetToSortSeq(LoopBlocks(fn, h) \ {h}, LAMBDA x, y : x < y)
     IN  IF Cardinality(latches) # 1 THEN Crash
         ELSE /\ blocks' = GetOrSet(blocks, <<h, latch>> \o rest)
              /\ col' = [WithBlocks(blocks', col) EXCEPT
                           ![h].loop = <<[latch |-> latch, labels |-> LoopBlocks(fn, h),
                                          invariant |-> contract.calls]>>]
              /\ variables' = variables \cup Names(LoopLookups(contract))
              /\ failed' = (failed \/ ~contract.ok \/ Undeclared(LoopLookups(contract), variables))
              /\ stack' = [stack EXCEPT ![Len(stack)].pc = "instr"]
              /\ UNCHANGED <<fn, locals, crashed>>

\* The contract comes first, then the latch and the blocks of the loop get
\* their labels.  getLoopLatch is null for a loop with several back edges, and
\* the null is dereferenced.
EnterLoop ==
  /\ TopIs("enter") /\ ~IsVisited(Top.b) /\ IsLoopHeader(fn, Top.b)
  /\ LET h == Top.b
         latches == Latches(fn, h)
         contract == LoopContract(fn, h)
         latch == CHOOSE b \in latches : TRUE
         rest == SetToSortSeq(LoopBlocks(fn, h) \ {h}, LAMBDA x, y : x < y)
     IN  IF Cardinality(latches) # 1 THEN Crash
         ELSE /\ blocks' = GetOrSet(blocks, <<h, latch>> \o rest)
              /\ col' = [WithBlocks(blocks', col) EXCEPT
                           ![h].visited = TRUE,
                           ![h].loop = <<[latch |-> latch, labels |-> LoopBlocks(fn, h),
                                          invariant |-> contract.calls]>>]
              /\ variables' = variables \cup Names(LoopLookups(contract))
              /\ failed' = (failed \/ ~contract.ok \/ Undeclared(LoopLookups(contract), variables))
              /\ stack' = [stack EXCEPT ![Len(stack)].pc = "instr"]
              /\ UNCHANGED <<fn, locals, crashed>>

--------------------------------------------------------------------------------
(* Instructions *)

Instr == fn.blocks[Top.b][Top.k]
SpecNodeOf == [assert |-> "vct_assert", assume |-> "assume", fold |-> "fold", unfold |-> "unfold"]

\* transformSpecStmntBlock: a malformed block is reported and dropped; so is a
\* malformed statement, and the others of the block are kept.
SpecCalls(f, at) ==
  LET stmts == At(f, at).spec
      cut == {k \in DOMAIN stmts : stmts[k].bad = "block"}
      n == IF cut = {} THEN Len(stmts) ELSE (CHOOSE k \in cut : \A j \in cut : k <= j) - 1
      built(s) == WrapperCall([k \in DOMAIN s.vars |-> StatementArg(f, s.vars[k], at)])
      good(s) == s.bad = "" /\ s.kind \in DOMAIN SpecNodeOf /\ built(s).ok
      kept == SelectSeq(SubSeq(stmts, 1, n), good)
  IN  [ok |-> cut = {} /\ \A k \in 1 .. n : good(stmts[k]),
       stmts |-> [k \in DOMAIN kept |->
                    [kind |-> SpecNodeOf[kept[k].kind], value |-> kept[k].wrapper,
                     target |-> "", args |-> built(kept[k]).args, direct |-> {}]]]

SpecLookups(calls) ==
  UNION {{Lookup(a.o.n, a.quiet) : a \in {a \in Range(s.args) : a.o.k = "var"}} :
           s \in Range(calls.stmts)}

StmtLookups(stmts) == UNION {OperandLookups(s.args, FALSE) : s \in Range(stmts)}

\* transformInstruction for all but a phi and a terminator.
Ordinary ==
  /\ TopIs("instr") /\ Instr.op # "phi" /\ Instr.op \notin TermOps
  /\ LET e == TransformInstruction(Instr, fn.parent)
         specs == SpecCalls(fn, <<Top.b, Top.k>>)
         afterSpecs == variables \cup Names(SpecLookups(specs))
         declared == afterSpecs \cup (IF e.declares THEN {Instr.def} ELSE {})
         outcomes == UNION {ConstOutcomesOf(s.args) : s \in Range(e.stmts)}
     IN  IF e.crash \/ "crash" \in outcomes THEN Crash
         ELSE /\ col' = [col EXCEPT ![Top.b].stmts = @ \o specs.stmts \o e.stmts]
              /\ locals' = IF e.declares THEN Append(locals, Instr.def) ELSE locals
              /\ variables' = declared \cup Names(StmtLookups(e.stmts))
              /\ failed' = \/ failed \/ e.error \/ ~specs.ok \/ "error" \in outcomes
                           \/ Undeclared(SpecLookups(specs), variables)
                           \/ Undeclared(StmtLookups(e.stmts), declared)
                           \/ \E s \in Range(e.stmts) : DirectConsts(s) # {}
              /\ stack' = Advance
              /\ UNCHANGED <<fn, blocks, crashed>>

\* A bug to look for: only blocks that have a label get their assignment.
Phi_KnownBlocks ==
  /\ TopIs("instr") /\ Instr.op = "phi"
  /\ LET i == Instr
         operands == [k \in DOMAIN i.in |-> i.in[k][2]]
         from(b) == SelectSeq(i.in, LAMBDA pair : pair[1] = b)
         assigned(b) == [k \in DOMAIN from(b) |-> Stmt("assign", "local", i.def, <<from(b)[k][2]>>, {})]
     IN  IF "crash" \in ConstOutcomesOf(operands) THEN Crash
         ELSE /\ blocks' = blocks
              /\ col' = [b \in Range(blocks') |->
                           [WithBlocks(blocks', col)[b] EXCEPT !.phis = @ \o assigned(b)]]
              /\ locals' = Append(locals, i.def)
              /\ variables' = variables \cup {i.def} \cup Names(OperandLookups(operands, TRUE))
              /\ failed' = (failed \/ ~TypeSupported(i.t) \/ "error" \in ConstOutcomesOf(operands))
              /\ stack' = Advance
              /\ UNCHANGED <<fn, crashed>>

\* transformPhi: the variable is declared here and assigned at the end of each
\* block it comes from, which gets its label if it has none.
Phi ==
  /\ TopIs("instr") /\ Instr.op = "phi"
  /\ LET i == Instr
         operands == [k \in DOMAIN i.in |-> i.in[k][2]]
         from(b) == SelectSeq(i.in, LAMBDA pair : pair[1] = b)
         assigned(b) == [k \in DOMAIN from(b) |-> Stmt("assign", "local", i.def, <<from(b)[k][2]>>, {})]
     IN  IF "crash" \in ConstOutcomesOf(operands) THEN Crash
         ELSE /\ blocks' = GetOrSet(blocks, [k \in DOMAIN i.in |-> i.in[k][1]])
              /\ col' = [b \in Range(blocks') |->
                           [WithBlocks(blocks', col)[b] EXCEPT !.phis = @ \o assigned(b)]]
              /\ locals' = Append(locals, i.def)
              /\ variables' = variables \cup {i.def} \cup Names(OperandLookups(operands, TRUE))
              /\ failed' = (failed \/ ~TypeSupported(i.t) \/ "error" \in ConstOutcomesOf(operands))
              /\ stack' = Advance
              /\ UNCHANGED <<fn, crashed>>

--------------------------------------------------------------------------------
(* Terminators.  Specification statements may be attached to them as well.    *)

Terminate(kind, args, to) ==
  LET specs == SpecCalls(fn, <<Top.b, Top.k>>)
      lookups == OperandLookups(args, FALSE)
      afterSpecs == variables \cup Names(SpecLookups(specs))
  IN  /\ "crash" \notin ConstOutcomesOf(args)
      /\ blocks' = GetOrSet(blocks, to)
      /\ col' = [WithBlocks(blocks', col) EXCEPT
                   ![Top.b].term = [kind |-> kind, args |-> args, to |-> to],
                   ![Top.b].stmts = @ \o specs.stmts]
      /\ variables' = afterSpecs \cup Names(lookups)
      /\ failed' = \/ failed \/ ~specs.ok \/ "error" \in ConstOutcomesOf(args)
                   \/ Undeclared(SpecLookups(specs), variables)
                   \/ Undeclared(lookups, afterSpecs)
      /\ UNCHANGED <<fn, locals, crashed>>

\* A bug to look for: the next instruction is asked for after a return.
Return_GoesOn ==
  /\ TopIs("instr") /\ Instr.op = "ret"
  /\ Terminate("return", Instr.args, <<>>)
  /\ stack' = Advance

Return ==
  /\ TopIs("instr") /\ Instr.op = "ret"
  /\ Terminate("return", Instr.args, <<>>)
  /\ stack' = Front(stack)

Unreachable ==
  /\ TopIs("instr") /\ Instr.op = "unreachable"
  /\ Terminate("unreachable", <<>>, <<>>)
  /\ stack' = Front(stack)

\* transformConditionalBranch: both gotos first, then the blocks they go to.
ConditionalBranch ==
  /\ TopIs("instr") /\ Instr.op = "br" /\ Len(Instr.to) = 2
  /\ Terminate("branch", Instr.args, Instr.to)
  /\ stack' = Append([stack EXCEPT ![Len(stack)].pc = "else"], Call(Instr.to[1]))

ElseBranch ==
  /\ TopIs("else")
  /\ stack' = Append(Front(stack), Call(Instr.to[2]))
  /\ UNCHANGED <<fn, blocks, col, variables, locals, failed, crashed>>

\* transformUnConditionalBranch: the target first, then the goto.
UnconditionalBranch ==
  /\ TopIs("instr") /\ Instr.op = "br" /\ Len(Instr.to) = 1
  /\ LET specs == SpecCalls(fn, <<Top.b, Top.k>>)
     IN  /\ col' = [col EXCEPT ![Top.b].stmts = @ \o specs.stmts]
         /\ variables' = variables \cup Names(SpecLookups(specs))
         /\ failed' = (failed \/ ~specs.ok \/ Undeclared(SpecLookups(specs), variables))
  /\ stack' = Append([stack EXCEPT ![Len(stack)].pc = "goto"], Call(Instr.to[1]))
  /\ UNCHANGED <<fn, blocks, locals, crashed>>

Goto ==
  /\ TopIs("goto")
  /\ blocks' = GetOrSet(blocks, Instr.to)
  /\ col' = [WithBlocks(blocks', col) EXCEPT
               ![Top.b].term = [kind |-> "goto", args |-> <<>>, to |-> Instr.to]]
  /\ stack' = Front(stack)
  /\ UNCHANGED <<fn, variables, locals, failed, crashed>>

\* A terminator that is not supported, or a returned constant of no kind known.
BadTerminator ==
  /\ TopIs("instr") /\ Instr.op \in TermOps
  /\ IF Instr.op \in {"ret", "br", "unreachable"}
     THEN "crash" \in ConstOutcomesOf(Instr.args) /\ Crash
     ELSE /\ failed' = TRUE
          /\ stack' = Front(stack)
          /\ UNCHANGED <<fn, blocks, col, variables, locals, crashed>>

BodyStep ==
  \/ EnterVisited \/ EnterBlock \/ EnterLoop \/ Ordinary \/ Phi \/ Return \/ Unreachable
  \/ ConditionalBranch \/ ElseBranch \/ UnconditionalBranch \/ Goto \/ BadTerminator

--------------------------------------------------------------------------------
(* Properties *)

\* Every call is at an instruction of its block, the labels are those that have a
\* COL block, and only values of the function have variables.
BodyTypeOK ==
  /\ \A k \in DOMAIN stack :
       /\ stack[k].b \in Labels(fn) /\ stack[k].k \in DOMAIN fn.blocks[stack[k].b]
       /\ stack[k].pc \in {"enter", "instr", "else", "goto"}
       /\ stack[k].pc # "enter" => IsVisited(stack[k].b)
  /\ DOMAIN col = Range(blocks) /\ DOMAIN col \subseteq Labels(fn)
  /\ IsInjective(blocks) /\ Range(locals) \subseteq variables
  /\ {failed, crashed} \subseteq BOOLEAN

\* What is left to do: the blocks not entered yet and what remains of each call.
Remaining(call) ==
  CASE call.pc = "enter" -> 1
    [] call.pc = "goto" -> 1
    [] call.pc = "else" -> 2
    [] call.pc = "instr" -> Len(fn.blocks[call.b]) - call.k + 5
BodyRank ==
  IF crashed THEN -1
  ELSE MapThenSumSet(LAMBDA b : Len(fn.blocks[b]) + 4, {b \in Labels(fn) : ~IsVisited(b)})
       + FoldLeft(LAMBDA n, call : n + Remaining(call), 0, stack)

\* The calls of transformLLVMBlock end on every graph: each step leaves less to do,
\* although a block is called for once per edge and a loop comes back to its header.
TranslationAdvances == [][BodyRank' < BodyRank]_bodyVars

Translated == BodyDone /\ ~failed /\ ~crashed /\ ~fn.skipped

\* A call of inline assembly, or through a constant, of which nothing is made.
Dropped(i) == i.op = "call" /\ i.call.kind \in {"asm", "constant"}
NoneDropped == \A b \in Labels(fn) : \A i \in Range(fn.blocks[b]) : ~Dropped(i)

UsedIn(c) ==
  Names(UNION {OperandLookups(s.args, FALSE) : s \in {s \in Range(c.stmts) : s.kind \notin Range(SpecNodeOf)}}
        \cup UNION {OperandLookups(a.args, TRUE) : a \in Range(c.phis)}
        \cup OperandLookups(c.term.args, FALSE)
        \cup UNION {SpecLookups([stmts |-> <<s>>]) : s \in {s \in Range(c.stmts) : s.kind \in Range(SpecNodeOf)}}
        \cup UNION {LoopLookups([calls |-> l.invariant]) : l \in Range(c.loop)})

\* A body translated without an error begins with the entry block and has one COL
\* block for every block that control reaches, with its jumps; the loops name
\* blocks that are there; every variable used is declared, and once.  A block
\* control does not reach is there only as the source of a phi, and has no
\* terminator: the printed program is then refused as incomplete.
BodyIsWhole ==
  Translated =>
    /\ blocks[1] = Entry
    /\ IsInjective(blocks) /\ Range(blocks) = DOMAIN col
    /\ \A b \in Reachable(fn) :
         /\ b \in DOMAIN col
         /\ col[b].term.kind # "none" /\ col[b].term.to = Targets(fn, b)
         /\ (col[b].loop # <<>>) = IsLoopHeader(fn, b)
         /\ \A l \in Range(col[b].loop) : l.labels \cup {l.latch} \subseteq Reachable(fn)
    /\ \A b \in DOMAIN col \ Reachable(fn) : col[b].term.kind = "none" /\ col[b].phis # <<>>
    /\ IsInjective(locals)
    /\ NoneDropped /\ DOMAIN col \subseteq Reachable(fn) =>
         UNION {UsedIn(col[b]) : b \in DOMAIN col} \subseteq Range(locals) \cup fn.args

\* Instructions that leave no statement in the block they stand in.
LeavesNothing(i) ==
  \/ i.op = "phi" \/ i.op \in TermOps \/ Dropped(i)
  \/ i.op = "call" /\ i.call.kind = "intrinsic" /\ i.call.name \in IgnoredIntrinsics

\* Where no error is reported every other instruction has its statement, in the
\* order of the block, and every specification statement its node before it; a
\* phi has an assignment for each edge it is entered by, in the block the edge
\* comes from; and the plugin stops only for a type or a constant it cannot
\* represent or a loop with several back edges.
NothingIsLost ==
  /\ Translated =>
       \A b \in Reachable(fn) :
         LET kept == SelectSeq(fn.blocks[b], LAMBDA i : ~LeavesNothing(i))
             plain == SelectSeq(col[b].stmts, LAMBDA s : s.kind \notin Range(SpecNodeOf) \/ s.value = "false")
             specs == SelectSeq(col[b].stmts, LAMBDA s : s.kind \in Range(SpecNodeOf) /\ s.value # "false")
             written == FlattenSeq([k \in DOMAIN fn.blocks[b] |-> fn.blocks[b][k].spec])
         IN  /\ [k \in DOMAIN plain |-> plain[k].target] = [k \in DOMAIN kept |-> kept[k].def]
             /\ [k \in DOMAIN specs |-> specs[k].kind] = [k \in DOMAIN written |-> SpecNodeOf[written[k].kind]]
             /\ \A i \in {i \in Range(fn.blocks[b]) : i.op = "phi"} : \A k \in DOMAIN i.in :
                  /\ i.in[k][1] \in DOMAIN col
                  /\ \E a \in Range(col[i.in[k][1]].phis) : a.target = i.def /\ a.args[1] = i.in[k][2]
  /\ crashed =>
       \/ \E b \in Reachable(fn) : Cardinality(Latches(fn, b)) > 1
       \/ \E b \in Reachable(fn) : \E i \in Range(fn.blocks[b]) :
            \/ ~TypeSupported(i.t) \/ ~TypeSupported(i.from)
            \/ \E o \in Range(i.args \o [k \in DOMAIN i.in |-> i.in[k][2]]) :
                 o.k = "const" /\ "crash" \in ConstOutcomes(o)

================================================================================
