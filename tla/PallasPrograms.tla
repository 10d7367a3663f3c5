---------------------------- MODULE PallasPrograms ----------------------------
(***************************************************************************)
(* The LLVM functions and modules Pallas is run on: one function for every *)
(* instruction it distinguishes, all control flow graphs of an entry and   *)
(* two more blocks, specifications with something wrong in each place      *)
(* Pallas looks at, and modules of functions, wrappers and contracts.      *)
(***************************************************************************)
EXTENDS LlvmFunctions

IntT == Type("int")
BoolT == Type("i1")
PtrT == Type("ptr")
VoidT == Type("void")
FloatT == Type("float")
PairOf(t) == [id |-> "struct", parts |-> <<t, t>>]
PackedOf(t) == [id |-> "packed", parts |-> <<t>>]
BadType == Type("x86_amx")

NoCall == [kind |-> "", name |-> "", void |-> FALSE, sig |-> "ok", flags |-> {}]
Plain == [op |-> "", def |-> "", t |-> IntT, from |-> IntT, args |-> <<>>, alt |-> "",
           call |-> NoCall, in |-> <<>>, di |-> "", spec |-> <<>>, to |-> <<>>]
Ins(op, def, args) == [Plain EXCEPT !.op = op, !.def = def, !.args = args]
Typed(i, t) == [i EXCEPT !.t = t]
From(i, t) == [i EXCEPT !.from = t]
Alt(i, a) == [i EXCEPT !.alt = a]
CallOf(kind, name, def, args) ==
  [Ins("call", def, args) EXCEPT !.call = [NoCall EXCEPT !.kind = kind, !.name = name, !.void = (def = "")],
                                 !.t = IF def = "" THEN VoidT ELSE IntT]
WithSig(i, s) == [i EXCEPT !.call.sig = s]
WithFlags(i, fs) == [i EXCEPT !.call.flags = fs]
Note(di, o) == [CallOf("intrinsic", "dbg_value", "", <<o>>) EXCEPT !.di = di]
DeclareNote(di, o) == [CallOf("intrinsic", "dbg_declare", "", <<o>>) EXCEPT !.di = di]
Ret(args) == Ins("ret", "", args)
Jump(to) == [Ins("br", "", <<>>) EXCEPT !.to = <<to>>]
Branch(c, x, y) == [Ins("br", "", <<c>>) EXCEPT !.to = <<x, y>>]
PhiOf(def, pairs) == [Ins("phi", def, <<>>) EXCEPT !.in = pairs]

Seven == IntConst(7)
MinusThree == IntConst(65533)
Large == IntConst(32766)
True1 == Const("int", BoolT, 1)
A == Var("a")
B == Var("b")
C == Var("c")
R == Var("r")

Function1(blocks) ==
  [args |-> {"a", "b"}, blocks |-> blocks, contracts |-> <<>>, parent |-> "f",
   skipped |-> FALSE, runs |-> TRUE]

--------------------------------------------------------------------------------
(* One instruction.  c = a < b is there for the operators on booleans.  The    *)
(* result, if there is one, is returned.                                       *)

Around(i) ==
  Function1(0 :> <<Alt(Typed(Ins("icmp", "c", <<A, B>>), BoolT), "slt"), i,
                   IF i.def = "" THEN Ret(<<>>) ELSE Ret(<<R>>)>>)

Operands == <<<<A, B>>, <<A, Seven>>, <<MinusThree, B>>, <<A, Large>>>>
Arithmetic == <<"add", "sub", "mul", "sdiv", "udiv", "shl", "lshr", "ashr", "and", "or", "xor",
                "urem", "srem">>
OfAll(names, make(_)) == [k \in DOMAIN names |-> make(names[k])]

BinaryVariants ==
  FlattenSeq(OfAll(Arithmetic, LAMBDA op : OfAll(Operands, LAMBDA os : Ins(op, "r", os))))
  \o OfAll(<<"frem", "fadd", "fsub", "fmul", "fdiv">>, LAMBDA op : Typed(Ins(op, "r", <<A, B>>), FloatT))
  \o OfAll(<<"sdiv", "udiv">>, LAMBDA op : Alt(Ins(op, "r", <<A, B>>), "exact"))
  \o OfAll(<<<<C, True1>>, <<True1, C>>, <<C, C>>>>, LAMBDA os : Typed(Ins("xor", "r", os), BoolT))

CompareVariants ==
  FlattenSeq(OfAll(<<"eq", "ne", "sgt", "sge", "slt", "sle", "ugt", "uge", "ult", "ule">>, LAMBDA p :
    OfAll(Operands, LAMBDA os : Alt(Typed(Ins("icmp", "r", os), BoolT), p))))
  \o OfAll(<<"false", "oeq", "ogt", "oge", "olt", "ole", "one", "ord", "uno", "ueq", "ugt", "uge",
             "ult", "ule", "une", "true">>, LAMBDA p : Alt(Typed(Ins("fcmp", "r", <<A, B>>), BoolT), p))

CastVariants ==
  OfAll(<<"trunc", "zext", "sext", "fptoui", "fptosi", "uitofp", "sitofp", "fptrunc", "fpext",
          "ptrtoint", "inttoptr", "bitcast", "addrspacecast">>, LAMBDA op : Ins(op, "r", <<A>>))
  \o OfAll(<<"zext", "sext">>, LAMBDA op : From(Ins(op, "r", <<C>>), BoolT))
  \o <<Typed(Ins("trunc", "r", <<A>>), BoolT), From(Ins("sext", "r", <<A>>), BadType)>>

MemoryVariants ==
  <<Typed(Ins("alloca", "r", <<Seven>>), IntT), Typed(Ins("alloca", "r", <<Seven>>), BadType),
    Alt(Typed(Ins("load", "r", <<A>>), PairOf(BadType)), "not_atomic"),
    From(Typed(Ins("getelementptr", "r", <<A, Seven>>), PtrT), PairOf(IntT)),
    From(Typed(Ins("extractvalue", "r", <<A>>), IntT), PairOf(IntT)),
    Ins("fence", "", <<>>), Ins("cmpxchg", "r", <<A, B>>), Ins("atomicrmw", "r", <<A, B>>)>>
  \o FlattenSeq(OfAll(<<"not_atomic", "unordered", "monotonic", "acquire", "release", "acq_rel", "seq_cst">>,
       LAMBDA o : <<Alt(Ins("load", "r", <<A>>), o), Alt(Ins("store", "", <<B, A>>), o)>>))

\* A constant of every kind, stored.
Constants1 ==
  <<Const("int", IntT, 7), Const("int", BoolT, 1), Const("fp", FloatT, 0), Const("undef", IntT, 0),
    Const("undef", FloatT, 0), Const("undef", BoolT, 0), Const("function", PtrT, 0), Const("global", PtrT, 0),
    Const("null", PtrT, 0), Const("expression", PtrT, 0), Const("zeroinitializer", PairOf(IntT), 0),
    [Const("struct", PairOf(IntT), 0) EXCEPT !.parts = <<Seven, Seven>>],
    [Const("struct", PairOf(PtrT), 0) EXCEPT !.parts = <<Const("null", PtrT, 0), Const("undef", PtrT, 0)>>],
    Const("array", Type("array"), 0), Const("data", Type("array"), 0), Const("undef", Type("array"), 0),
    Const("vector", Type("vector"), 0), Const("data", Type("vector"), 0),
    Const("int", Type("metadata"), 0), Const("undef", BadType, 0)>>
ConstantVariants == OfAll(Constants1, LAMBDA c : Alt(Ins("store", "", <<c, A>>), "not_atomic"))
  \o OfAll(Constants1, LAMBDA c : CallOf("function", "g", "", <<c>>))

CallVariants ==
  OfAll(<<"pointer", "asm", "constant", "function">>, LAMBDA k : CallOf(k, "g", "", <<A>>))
  \o OfAll(<<"pointer", "function">>, LAMBDA k : CallOf(k, "g", "r", <<A, Seven>>))
  \o OfAll(<<{"musttail"}, {"fastmath"}, {"retattr"}, {"bundles"}, {"retattr", "bundles"}>>,
           LAMBDA fs : WithFlags(CallOf("function", "g", "r", <<A>>), fs))
  \o OfAll(<<"trap", "lifetime_start", "lifetime_end", "vastart">>,
           LAMBDA n : CallOf("intrinsic", n, "", <<>>))
  \o <<[CallOf("intrinsic", "dbg_assign", "", <<A>>) EXCEPT !.di = "x"]>>
  \o OfAll(<<"sadd_with_overflow", "uadd_with_overflow", "ssub_with_overflow", "usub_with_overflow",
             "smul_with_overflow", "umul_with_overflow", "expect", "ctpop">>,
           LAMBDA n : CallOf("intrinsic", n, "r", <<A, B>>))
  \o OfAll(<<"memset", "memcpy">>, LAMBDA n : CallOf("intrinsic", n, "", <<A, B, Seven>>))

SpecFunctions == <<"result", "perm", "ptr_block_length", "ptr_block_offset", "ptr_length", "imply", "and",
                   "or", "star", "old", "bound_var", "forall", "sep_forall", "exists", "unfolding", "nonsense">>
SpecVariants ==
  FlattenSeq(OfAll(SpecFunctions, LAMBDA n :
    OfAll(<<"ok", "first", "second">>, LAMBDA s : WithSig(CallOf("spec", n, "r", <<A, B>>), s))))
  \o OfAll(<<"perm", "imply", "old">>, LAMBDA n : CallOf("spec", n, "r", <<Seven, B>>))
  \o <<CallOf("spec", "result", "", <<A>>), Alt(CallOf("spec", "bound_var", "r", <<A>>), "string"),
       Alt(Typed(CallOf("spec", "bound_var", "r", <<A>>), BadType), "string"),
       Alt(CallOf("spec", "frac_of", "", <<A, B, Seven>>), "alloca"),
       CallOf("spec", "frac_of", "", <<A, B, Seven>>)>>

OtherVariants ==
  <<Ins("select", "r", <<C, A, B>>), Ins("select", "r", <<C, A, Large>>), Ins("fneg", "r", <<A>>),
    Ins("cleanuppad", "", <<>>), Ins("freeze", "r", <<A>>), Typed(Ins("add", "r", <<A, B>>), BadType),
    Typed(Ins("add", "r", <<A, B>>), Type("label"))>>

Variants ==
  FlattenSeq(<<BinaryVariants, CompareVariants, CastVariants, MemoryVariants, ConstantVariants,
               CallVariants, SpecVariants, OtherVariants>>)

\* Functions that end in another way than Around's.
Endings ==
  <<Ret(<<Const("undef", IntT, 0)>>), Ret(<<Const("expression", PtrT, 0)>>), Ret(<<MinusThree>>), Ins("unreachable", "", <<>>),
    [Ins("switch", "", <<A>>) EXCEPT !.to = <<1>>], [Ins("invoke", "", <<>>) EXCEPT !.to = <<1>>],
    Branch(Const("undef", BoolT, 0), 1, 1), Branch(True1, 1, 1)>>
Ending(k) == Function1(0 :> <<Endings[k]>> @@ 1 :> <<Ret(<<A>>)>>)

\* A phi of one predecessor; the value of an instruction that is not supported.
OnePhi(t, o) == Function1(0 :> <<Jump(1)>> @@ 1 :> <<Typed(PhiOf("r", <<<<0, o>>>>), t), Ret(<<R>>)>>)
PhiPrograms ==
  <<OnePhi(IntT, A), OnePhi(BadType, A), OnePhi(IntT, Const("undef", IntT, 0)),
    OnePhi(PtrT, Const("expression", PtrT, 0)),
    Function1(0 :> <<Ins("freeze", "q", <<A>>), Jump(1)>> @@ 1 :> <<PhiOf("r", <<<<0, Var("q")>>>>), Ret(<<R>>)>>),
    [Function1(0 :> <<Ins("unreachable", "", <<>>)>>) EXCEPT !.skipped = TRUE]>>

--------------------------------------------------------------------------------
(* Control flow graphs.  Block b > 0 begins with x_b and y_b, the y and the    *)
(* x + y of the block before it: a pair that is swapped where a block follows  *)
(* itself, and Fibonacci's numbers.  It ends on x_b + y_b < 5.  The source     *)
(* variables x, y and s follow them, and every block but an empty one asserts  *)
(* something of them.                                                          *)

Local(di) == [di |-> di, local |-> TRUE, t |-> IntT]
Stated(kind, vars) == [bad |-> "", kind |-> kind, wrapper |-> "w", vars |-> vars]

Shapes == {<<>>, <<1>>, <<2>>, <<1, 2>>, <<2, 1>>, <<1, 1>>, <<2, 2>>, <<0>>}
\* <<0>> stands for unreachable; the entry has no predecessors.

Name(v, b) == v \o ToString(b)
CfgBlock(shape, b) ==
  LET preds == SetToSortSeq({p \in 0 .. 2 : b \in Range(shape[p + 1])}, LAMBDA p, q : p < q)
      \* one incoming pair for each edge
      edges == FlattenSeq([k \in DOMAIN preds |->
                 LET n == Len(SelectSeq(shape[preds[k] + 1], LAMBDA t : t = b))
                 IN  [j \in 1 .. n |-> preds[k]]])
      x(p) == IF p = 0 THEN B ELSE Var(Name("y", p))
      y(p) == Var(Name("z", p))
      phi(v, from(_)) == PhiOf(Name(v, b), [k \in DOMAIN edges |-> <<edges[k], from(edges[k])>>])
      phis == IF b = 0 THEN <<>> ELSE <<phi("x", x), phi("y", y)>>
      vx == IF b = 0 THEN A ELSE Var(Name("x", b))
      vy == IF b = 0 THEN B ELSE Var(Name("y", b))
      sum == [Ins("add", Name("z", b), <<vx, vy>>) EXCEPT
                !.spec = IF b = 0 THEN <<>> ELSE <<Stated("assert", <<Local("x"), Local("y")>>)>>]
      test == Alt(Typed(Ins("icmp", Name("c", b), <<Var(Name("z", b)), IntConst(5)>>), BoolT), "slt")
      t == shape[b + 1]
      end == CASE t = <<>> -> Ret(<<Var(Name("z", b))>>)
               [] t = <<0>> -> Ins("unreachable", "", <<>>)
               [] Len(t) = 1 /\ t # <<0>> -> Jump(t[1])
               [] OTHER -> Branch(Var(Name("c", b)), t[1], t[2])
  IN  phis \o <<Note("x", vx), Note("y", vy), sum, Note("s", Var(Name("z", b))), test,
                [end EXCEPT !.spec = <<Stated("assume", <<Local("s"), Local("x")>>)>>]>>

CfgFunction(shape) ==
  LET f == BreakCriticalEdges(Function1([b \in 0 .. 2 |-> CfgBlock(shape, b)]))
      contract == [bad |-> "", invs |-> <<[bad |-> "", wrapper |-> "i", vars |-> <<Local("x"), Local("y")>>]>>]
  IN  [f EXCEPT !.contracts = [h \in {h \in 1 .. 2 : IsLoopHeader(f, h)} |-> contract]]

--------------------------------------------------------------------------------
(* Specifications.  A counting loop whose variable lives in a phi or in an     *)
(* alloca, with an assertion and an invariant; one place is wrong.             *)

Loop(vars, assertion, contract) ==
  [Function1(
     0 :> <<Typed(Ins("alloca", "m", <<IntConst(1)>>), IntT), Typed(Ins("alloca", "p", <<IntConst(1)>>), PackedOf(IntT)),
            DeclareNote("m", Var("m")), DeclareNote("p", Var("p")), Note("n", B), Jump(1)>>
     @@ 1 :> <<PhiOf("i", <<<<0, A>>, <<2, Var("j")>>>>), Note("i", Var("i")),
               Alt(Typed(Ins("icmp", "c", <<Var("i"), B>>), BoolT), "slt"),
               From(Ins("zext", "w", <<C>>), BoolT), Note("d", Var("w")), Branch(C, 2, 3)>>
     @@ 2 :> <<[Ins("add", "j", <<Var("i"), IntConst(1)>>) EXCEPT !.spec = assertion], Note("i", Var("j")), Jump(1)>>
     @@ 3 :> <<Ret(<<Var("i")>>)>>)
   EXCEPT !.contracts = (1 :> contract)]

OneLocal(di, t) == [di |-> di, local |-> TRUE, t |-> t]
Some == <<OneLocal("i", IntT)>>
SpecVars ==
  <<<<OneLocal("i", IntT)>>, <<OneLocal("n", IntT), OneLocal("i", IntT)>>, <<OneLocal("d", BoolT)>>, <<OneLocal("d", IntT)>>,
    <<OneLocal("m", IntT)>>, <<OneLocal("p", PackedOf(IntT))>>, <<OneLocal("p", IntT)>>, <<OneLocal("p", PairOf(IntT))>>,
    <<OneLocal("none", IntT)>>, <<[di |-> "i", local |-> FALSE, t |-> IntT]>>>>
\* bad is the place that is wrong, the two records share it.
StatedBad(bad, kind, vars) == [bad |-> bad, kind |-> kind, wrapper |-> "w", vars |-> vars]
Contract(bad, invs) == [bad |-> bad, invs |-> invs]
Invariant(bad, vars) == [bad |-> bad, wrapper |-> "i", vars |-> vars]

SpecPrograms ==
  OfAll(SpecVars, LAMBDA vs : Loop(vs, <<StatedBad("", "assert", vs)>>, Contract("", <<>>)))
  \o OfAll(SpecVars, LAMBDA vs : Loop(vs, <<>>, Contract("", <<Invariant("", Some), Invariant("", vs)>>)))
  \o OfAll(<<"block", "operands", "type", "loc", "wrapper", "divar">>, LAMBDA bad :
       Loop(Some, <<StatedBad("", "fold", Some), StatedBad(bad, "assume", Some), StatedBad("", "unfold", Some)>>,
            Contract("", <<>>)))
  \o <<Loop(Some, <<StatedBad("", "nonsense", Some)>>, Contract("", <<>>))>>
  \o OfAll(<<"loc", "empty", "operand">>, LAMBDA bad : Loop(Some, <<>>, Contract(bad, <<Invariant("", Some)>>)))
  \o OfAll(<<"operands", "loc", "wrapper", "divar">>, LAMBDA bad :
       Loop(Some, <<>>, Contract("", <<Invariant("", Some), Invariant(bad, Some), Invariant("", Some)>>)))

================================================================================
