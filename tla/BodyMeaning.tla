------------------------------ MODULE BodyMeaning ------------------------------
(***************************************************************************)
(* What a translated body means: the LLVM function and the COL body run    *)
(* side by side, one basic block at a time.  An LLVM integer has 16 bits   *)
(* and wraps, a COL integer does not; a run stops ("outside") at the first *)
(* operation on which the two differ by design: one that overflows, reads  *)
(* a negative number as unsigned, or works on memory or on bits.  Booleans *)
(* are 0 and 1.                                                            *)
(*                                                                         *)
(* A run also tells which values the specifications get: "asked" pairs the *)
(* value a source variable has, by the last debug intrinsic executed for   *)
(* it, with the argument Pallas gave the call of the wrapper.              *)
(***************************************************************************)
EXTENDS FunctionBody

CONSTANTS
  Inputs,    \* the values of the parameters to run a body on
  MaxBlocks  \* the number of blocks a run executes at most

VARIABLES
  here,    \* the block that runs next, of each of the two
  came,    \* the block it is entered from
  env,     \* the values of the variables, of each of the two
  seen,    \* the value the debug intrinsics gave each source variable
  asked,   \* what the specifications of the last block read, of each of the two
  ran      \* the number of blocks executed; -1 before the run

runVars == <<here, came, env, seen, asked, ran>>

Undefined == 1000000
Nowhere == 1000
Returned == 1001
Both(x) == [llvm |-> x, col |-> x]
Bool(b) == IF b THEN 1 ELSE 0

ToSigned(w, v) == IF v >= 2^(w - 1) THEN v - 2^w ELSE v
InRange(n) == n \in -(2^15) .. 2^15 - 1

StartRun ==
  /\ here = Both(Nowhere) /\ came = Nowhere /\ env = Both(<<>>)
  /\ seen = <<>> /\ asked = Both(<<>>) /\ ran = -1

--------------------------------------------------------------------------------
(* The values of operands and operations.  A result is a pair: whether the two *)
(* languages agree by design there, and the value.                             *)

ValueOf(e, o, const(_)) ==
  IF o.k = "const" THEN const(o) ELSE IF o.n \in DOMAIN e THEN e[o.n] ELSE Undefined
LlvmConst(o) == IF o.t.id = "i1" THEN o.v ELSE ToSigned(16, o.v)
ColConst(o) == IF o.t.id = "i1" THEN o.v ELSE SetBigInt(16, o.v)
LlvmValue(e, o) == ValueOf(e, o, LlvmConst)
ColValue(e, o) == ValueOf(e, o, ColConst)

TruncDiv(x, y) ==
  LET abs(n) == IF n < 0 THEN -n ELSE n
      q == abs(x) \div abs(y)
  IN  IF (x < 0) = (y < 0) THEN q ELSE -q

Compared(p, x, y) ==
  CASE p \in {"eq", "ambiguous_eq"} -> x = y
    [] p \in {"ne", "ambiguous_neq"} -> x # y
    [] p \in {"sgt", "ugt", "ambiguous_greater"} -> x > y
    [] p \in {"sge", "uge", "ambiguous_greater_eq"} -> x >= y
    [] p \in {"slt", "ult", "ambiguous_less"} -> x < y
    [] p \in {"sle", "ule", "ambiguous_less_eq"} -> x <= y
    [] OTHER -> FALSE

Sure(n) == [sure |-> InRange(n), value |-> n]
When(c, n) == [sure |-> c, value |-> n]
Unsure == When(FALSE, Undefined)

LlvmResult(i, x) ==
  CASE i.op = "add" -> Sure(x[1] + x[2])
    [] i.op = "sub" -> Sure(x[1] - x[2])
    [] i.op = "mul" -> Sure(x[1] * x[2])
    [] i.op = "sdiv" -> IF x[2] = 0 THEN Unsure ELSE Sure(TruncDiv(x[1], x[2]))
    [] i.op = "udiv" -> IF x[2] <= 0 THEN Unsure ELSE When(x[1] >= 0, x[1] \div x[2])
    [] i.op = "xor" /\ i.t.id = "i1" -> When(TRUE, Bool(x[1] # x[2]))
    [] i.op = "icmp" -> When(i.alt \notin {"ugt", "uge", "ult", "ule"} \/ (x[1] >= 0 /\ x[2] >= 0),
                             Bool(Compared(i.alt, x[1], x[2])))
    [] i.op = "select" -> When(TRUE, IF x[1] = 1 THEN x[2] ELSE x[3])
    [] i.op = "zext" -> When(x[1] >= 0, x[1])
    [] i.op = "sext" -> When(TRUE, IF i.from.id = "i1" THEN -x[1] ELSE x[1])
    [] i.op = "trunc" /\ i.t.id = "i1" -> When(x[1] \in {0, 1}, x[1])
    [] i.op = "call" /\ i.call.name = "expect" -> When(TRUE, x[1])
    [] OTHER -> Unsure

\* The value of a COL node, with the casts LangLLVMToCol makes of LLVM's.
ColResult(s, from, x) ==
  CASE s.value = "plus" -> x[1] + x[2]
    [] s.value = "minus" -> x[1] - x[2]
    [] s.value = "mult" -> x[1] * x[2]
    [] s.value = "trunc_div" -> IF x[2] = 0 THEN Undefined ELSE TruncDiv(x[1], x[2])
    [] s.value = "floor_div" -> IF x[2] = 0 THEN Undefined ELSE x[1] \div x[2]
    [] s.value = "not" -> 1 - x[1]
    [] s.value = "bit_xor" -> IF {x[1], x[2]} \subseteq {0, 1} THEN Bool(x[1] # x[2]) ELSE Undefined
    [] s.value \in Range(CompareNodes) -> Bool(Compared(s.value, x[1], x[2]))
    [] s.value = "select" -> IF x[1] = 1 THEN x[2] ELSE x[3]
    [] s.value = "llvm_sign_extend" -> IF from.id = "i1" THEN -x[1] ELSE x[1]
    [] s.value = "llvm_truncate" -> IF x[1] = 0 THEN 0 ELSE 1
    [] s.value \in {"llvm_zero_extend", "local"} -> x[1]
    [] OTHER -> Undefined

--------------------------------------------------------------------------------
(* The LLVM block b: its phis together, then the other instructions in order.  *)

Phis(f, b) == SelectSeq(f.blocks[b], LAMBDA i : i.op = "phi")
Rest(f, b) == SelectSeq(Front(f.blocks[b]), LAMBDA i : i.op # "phi")
IsNote(i) == \E n \in DebugIntrinsics : IsDebug(i, n)

AfterPhis(f, b, from, e) ==
  LET value(i) == LlvmValue(e, SelectSeq(i.in, LAMBDA pair : pair[1] = from)[1][2])
      defs == {i.def : i \in Range(Phis(f, b))}
  IN  [n \in defs |-> value(CHOOSE i \in Range(Phis(f, b)) : i.def = n)] @@ e

\* What a specification's variable v stands for, by the debug intrinsics so far.
Meant(notes, v) ==
  IF v.di \notin DOMAIN notes THEN Undefined
  ELSE IF v.t.id = "i1" THEN Bool(notes[v.di] # 0) ELSE notes[v.di]
MeantBy(notes, stmts) ==
  FlattenSeq([k \in DOMAIN stmts |-> [j \in DOMAIN stmts[k].vars |-> Meant(notes, stmts[k].vars[j])]])

LlvmStep(s, i) ==
  LET args == [k \in DOMAIN i.args |-> LlvmValue(s.env, i.args[k])]
      result == LlvmResult(i, args)
      told == [s EXCEPT !.asked = @ \o MeantBy(s.notes, i.spec)]
  IN  IF IsNote(i) THEN [told EXCEPT !.notes = (i.di :> args[1]) @@ @]
      ELSE IF result.sure THEN [told EXCEPT !.env = (i.def :> result.value) @@ @]
      ELSE [told EXCEPT !.sure = FALSE]

\* The invariant of a loop is about the values at the head of the iteration:
\* after the phis and the debug intrinsics that follow them.
LlvmBlock(f, b, from, e, notes) ==
  LET start == [env |-> AfterPhis(f, b, from, e), notes |-> notes, asked |-> <<>>, sure |-> TRUE]
      rest == Rest(f, b)
      other == {k \in DOMAIN rest : ~IsNote(rest[k])}
      n == IF other = {} THEN Len(rest) ELSE (CHOOSE k \in other : \A j \in other : k <= j) - 1
      head == FoldLeft(LlvmStep, start, SubSeq(rest, 1, n))
      loop == IF IsLoopHeader(f, b) /\ b \in DOMAIN f.contracts
              THEN MeantBy(head.notes, f.contracts[b].invs) ELSE <<>>
      done == FoldLeft(LlvmStep, [head EXCEPT !.asked = loop \o @], SubSeq(rest, n + 1, Len(rest)))
  IN  [done EXCEPT !.asked = @ \o MeantBy(done.notes, Terminator(f, b).spec)]

--------------------------------------------------------------------------------
(* The COL block of the label b *)

ArgValues(e, args) ==
  [k \in DOMAIN args |-> IF args[k].form \in {"local", "const"} THEN ColValue(e, args[k].o)
                         ELSE Undefined]

ColStep(f, s, c) ==
  IF c.kind \in Range(SpecNodeOf) /\ c.value \notin {"false"}
  THEN [s EXCEPT !.asked = @ \o ArgValues(s.env, c.args)]
  ELSE IF c.kind # "assign" THEN s
  ELSE LET i == CHOOSE i \in UNION {Range(f.blocks[b]) : b \in Labels(f)} : i.def = c.target
           args == [k \in DOMAIN c.args |-> ColValue(s.env, c.args[k])]
       IN  [s EXCEPT !.env = (c.target :> ColResult(c, i.from, args)) @@ @]

\* The assignments for phis read their values before any of them is made
\* (buildPhiAssignments).
ColBlock(f, b, e) ==
  LET c == col[b]
      invariant == FlattenSeq([k \in DOMAIN c.loop |->
                     FlattenSeq([j \in DOMAIN c.loop[k].invariant |->
                                   ArgValues(e, c.loop[k].invariant[j].args)])])
      s == FoldLeft(LAMBDA x, y : ColStep(f, x, y), [env |-> e, asked |-> invariant], c.stmts)
      assigned(n) == SelectSeq(c.phis, LAMBDA a : a.target = n)
  IN  [s EXCEPT !.env = [n \in {a.target : a \in Range(c.phis)} |->
                           ColValue(s.env, Last(assigned(n)).args[1])] @@ s.env]

--------------------------------------------------------------------------------
(* Where each goes next *)

NextOf(t, c) ==
  CASE Len(t) = 0 -> Returned
    [] Len(t) = 1 -> t[1]
    [] OTHER -> IF c = 1 THEN t[1] ELSE t[2]

ResultName == "returned"
WithResult(e, args, value(_, _)) ==
  IF args = <<>> THEN e ELSE (ResultName :> value(e, args[1])) @@ e

\* A run starts on a body that was translated without an error and is whole.
Runnable ==
  /\ BodyDone /\ ~failed /\ ~crashed
  /\ fn.runs /\ blocks # <<>> /\ \A b \in DOMAIN col : col[b].term.kind # "none"

Begin ==
  /\ Runnable /\ ran = -1
  /\ \E x \in [fn.args -> Inputs] : env' = Both(x)
  /\ here' = [llvm |-> Entry, col |-> blocks[1]]
  /\ ran' = 0
  /\ UNCHANGED <<came, seen, asked>>
  /\ UNCHANGED bodyVars

RunBlock ==
  /\ ran \in 0 .. MaxBlocks - 1 /\ here.llvm \in Labels(fn) /\ here.col = here.llvm
  /\ LET b == here.llvm
         l == LlvmBlock(fn, b, came, env.llvm, seen)
         c == ColBlock(fn, b, env.col)
         t == Terminator(fn, b)
         test(e, args, value(_, _)) == IF args = <<>> THEN 0 ELSE value(e, args[1])
     IN  IF ~l.sure \/ t.op = "unreachable"
         THEN here' = Both(Nowhere) /\ UNCHANGED <<came, env, seen, asked>>
         ELSE /\ here' = [llvm |-> NextOf(t.to, test(l.env, t.args, LlvmValue)),
                          col |-> NextOf(col[b].term.to, test(c.env, col[b].term.args, ColValue))]
              /\ env' = [llvm |-> WithResult(l.env, t.args, LlvmValue),
                         col |-> WithResult(c.env, col[b].term.args, ColValue)]
              /\ seen' = l.notes
              /\ asked' = [llvm |-> l.asked, col |-> c.asked]
              /\ came' = b
  /\ ran' = ran + 1
  /\ UNCHANGED bodyVars

RunStep == Begin \/ RunBlock

--------------------------------------------------------------------------------
(* Properties *)

\* The phis a block has assigned for the one that follows it.
AssignedAhead == IF came = Nowhere THEN {} ELSE {a.target : a \in Range(col[came].phis)}

\* After every block the COL body is where the LLVM function is, and its variables
\* have the values of LLVM's, the result included, but for the phis it has already
\* assigned for the next block: the phis of a block are
\* assigned in its predecessors, all at once and for the one successor that reads
\* them, constants keep their value, and the operators that have no signedness in
\* COL agree wherever LLVM's two versions do.
SameMeaning ==
  /\ here.col = here.llvm
  /\ \A n \in DOMAIN env.llvm \ AssignedAhead : n \in DOMAIN env.col /\ env.col[n] = env.llvm[n]

\* What the wrapper of an assertion, an assumption or a loop invariant is called
\* with is the value of the source variable at that point, wherever the debug
\* intrinsics executed tell one.  For functions in which every block that merges
\* two values of a variable says so, as LLVM's own passes do for a live variable.
SpecsSeeTheVariable ==
  /\ Len(asked.llvm) = Len(asked.col)
  /\ \A k \in DOMAIN asked.llvm : asked.llvm[k] \in {Undefined, asked.col[k]}

================================================================================
