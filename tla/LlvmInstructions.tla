--------------------------- MODULE LlvmInstructions ---------------------------
(***************************************************************************)
(* What Pallas (src/vercors/src/llvm) makes of one LLVM instruction: the   *)
(* llvm2col::transform* functions.  An instruction is a record             *)
(*   op    its opcode                def   the name of its result          *)
(*   t     the type of its result    args  its operands                    *)
(*   from  the source, element or aggregate type of a cast, a              *)
(*         getelementptr or an extractvalue                                *)
(*   alt   the predicate of a comparison, "exact" of a division, the       *)
(*         ordering of a load or a store                                   *)
(*   call  what a call calls         in    the incoming pairs of a phi     *)
(*   di    the variable a debug intrinsic describes                        *)
(*   spec  the specification statements attached to it.                    *)
(* The result of a transformation is an emission: whether the result is    *)
(* declared (put into the variable map and into the locals), the COL       *)
(* statements added to the body of the block, whether an error or a        *)
(* warning is reported, and whether the plugin stops there with an         *)
(* exception nobody catches or an illegal cast.  Origins and blames are    *)
(* left out.                                                               *)
(***************************************************************************)
EXTENDS Integers, Sequences, FiniteSetsExt, TLC

--------------------------------------------------------------------------------
(* Types and constants *)

\* A type: its TypeID (an i1 apart from the other integers) and the types of
\* its elements.
Type(id) == [id |-> id, parts |-> <<>>]
Floats == {"half", "bfloat", "float", "double", "x86_fp80", "fp128", "ppc_fp128"}
TypeNodes ==
  [id \in Floats |-> "llvmt_float"] @@
  [i1 |-> "t_bool", int |-> "llvmt_int", void |-> "t_void", ptr |-> "llvmt_pointer",
   metadata |-> "llvmt_metadata", struct |-> "llvmt_struct",
   packed |-> "llvmt_struct", array |-> "llvmt_array", vector |-> "llvmt_vector"]

\* transformAndSetType; it throws UnsupportedTypeException where this is FALSE.
RECURSIVE TypeSupported(_)
TypeSupported(t) ==
  /\ t.id \in DOMAIN TypeNodes
  /\ \A k \in DOMAIN t.parts : TypeSupported(t.parts[k])

\* An operand: a variable n, or a constant of a class c, a type t, the bits v and
\* the constants it is made of.
Var(name) == [k |-> "var", n |-> name, c |-> "", t |-> Type("int"), v |-> 0, parts |-> <<>>]
Const(c, t, v) == [k |-> "const", n |-> "", c |-> c, t |-> t, v |-> v, parts |-> <<>>]
IntConst(n) == Const("int", Type("int"), n)

\* transformAndSetConstExpr: the node of a constant, "error" where one is
\* reported and "crash" where a cast of the constant fails (of undef, poison or a
\* constant expression of that type).
ConstNode(o) ==
  LET nodes ==
        CASE o.t.id = "i1" -> [c \in {o.c} |-> "boolean_value"]
          [] o.t.id = "int" -> [int |-> "llvm_integer_value"]
          [] o.t.id \in Floats -> [fp |-> "llvm_float_value"]
          [] o.t.id = "ptr" -> [function |-> "llvm_function_pointer_value",
                                global |-> "llvm_pointer_value", null |-> "null"]
          [] o.t.id = "struct" -> [struct |-> "llvm_struct_value"]
          [] o.t.id = "array" -> [array |-> "llvm_array_value", data |-> "llvm_raw_array_value"]
          [] o.t.id = "vector" -> [vector |-> "llvm_vector_value",
                                   data |-> "llvm_raw_vector_value"]
          [] OTHER -> [none |-> ""]
  IN  CASE o.c = "zeroinitializer" -> "llvm_zeroed_aggregate_value"
        [] o.c # "zeroinitializer" /\ o.c \in DOMAIN nodes -> nodes[o.c]
        [] OTHER -> IF o.t.id = "ptr" \/ o.t.id \notin DOMAIN TypeNodes THEN "error" ELSE "crash"

\* The outcomes in a constant and in the constants it is made of.
RECURSIVE ConstOutcomes(_)
ConstOutcomes(o) == {ConstNode(o)} \cup UNION {ConstOutcomes(o.parts[k]) : k \in DOMAIN o.parts}

\* transformAndSetBigInt: the constant's bits v of width w are byte-swapped and
\* the first w \div 8 bytes of the result are sent; the reader takes them as a
\* big-endian two's complement number.  A width that is no multiple of 8 loses
\* its last bits (below 8 nothing is sent at all).
ByteOf(v, k) == (v \div 256^k) % 256
ByteSwap(w, v) ==
  LET part(k) == IF 8 * k + 8 <= w THEN ByteOf(v, k) * 2^(w - 8 - 8 * k)
                 ELSE ByteOf(v, k) \div 2^(8 * k + 8 - w)
  IN  MapThenSumSet(part, 0 .. (w - 1) \div 8)
Signed(w, v) == IF v >= 2^(w - 1) THEN v - 2^w ELSE v
SetBigInt(w, v) ==
  LET n == w \div 8
      big(j) == ByteOf(ByteSwap(w, v), j) * 256^(n - 1 - j)
  IN  Signed(8 * n, MapThenSumSet(big, 0 .. n - 1))

--------------------------------------------------------------------------------
(* Statements and emissions *)

\* A statement of a block's body.  The operands at the positions "direct" are
\* looked up in the variable map whatever they are, the others only when they
\* are no constants.
Stmt(kind, value, target, args, direct) ==
  [kind |-> kind, value |-> value, target |-> target, args |-> args, direct |-> direct]

Nothing == [declares |-> FALSE, stmts |-> <<>>, error |-> FALSE, warning |-> FALSE, crash |-> FALSE]
Error(e) == [e EXCEPT !.error = TRUE]
Reported == Error(Nothing)
\* A type that is set outside declareVariable's try block.
Needs(types, e) == IF \A t \in types : TypeSupported(t) THEN e ELSE [e EXCEPT !.crash = TRUE]

\* declareVariable catches the unsupported type of a result and reports it.
Declare(i, stmts) ==
  LET e == [Nothing EXCEPT !.declares = TRUE, !.stmts = stmts]
  IN  IF TypeSupported(i.t) THEN e ELSE Error(e)

\* createAssignmentAndDeclaration, its value set from the operands.
Assign(i, value, args) == Declare(i, <<Stmt("assign", value, i.def, args, {})>>)
AssignDirect(i, value, args) ==
  Declare(i, <<Stmt("assign", value, i.def, args, DOMAIN args)>>)
\* The assignment is there and its value is not.
Unset(i) == Error(Assign(i, "none", <<>>))

\* reportUnsupportedOperatorError: no statement and no declaration.
Unsupported == Reported

--------------------------------------------------------------------------------
(* Operators *)

\* A bug to look for: the division of C and LLVM taken for the other one.
BinaryNodes_FloorDiv ==
  [add |-> "plus", sub |-> "minus", mul |-> "mult", sdiv |-> "floor_div", udiv |-> "floor_div",
   and |-> "bit_and", or |-> "bit_or", shl |-> "bit_shl", lshr |-> "bit_u_shr",
   ashr |-> "bit_shr"]

BinaryNodes ==
  [add |-> "plus", sub |-> "minus", mul |-> "mult", sdiv |-> "trunc_div", udiv |-> "trunc_div",
   and |-> "bit_and", or |-> "bit_or", shl |-> "bit_shl", lshr |-> "bit_u_shr",
   ashr |-> "bit_shr"]

IsTrue(o) == o.k = "const" /\ o.c = "int" /\ o.v = 1

\* transformBitwiseXor: xor with true on booleans is a negation.
TransformXor(i) ==
  IF i.t.id = "i1" /\ IsTrue(i.args[2]) THEN Assign(i, "not", <<i.args[1]>>)
  ELSE IF i.t.id = "i1" /\ IsTrue(i.args[1]) THEN Assign(i, "not", <<i.args[2]>>)
  ELSE Assign(i, "bit_xor", i.args)

\* transformBinaryOp.  The assignment precedes the switch, so an operator that is
\* not supported (a remainder, all of floating point) leaves one without a value.
\* An exact division is reported and then translated like any other.
TransformBinaryOp(i) ==
  IF i.op = "xor" THEN TransformXor(i)
  ELSE IF i.op \notin DOMAIN BinaryNodes THEN Unset(i)
  ELSE IF i.op \in {"sdiv", "udiv"} /\ i.alt = "exact"
       THEN Error(Assign(i, BinaryNodes[i.op], i.args))
  ELSE Assign(i, BinaryNodes[i.op], i.args)

CompareNodes ==
  [eq |-> "ambiguous_eq", ne |-> "ambiguous_neq",
   sgt |-> "ambiguous_greater", ugt |-> "ambiguous_greater",
   sge |-> "ambiguous_greater_eq", uge |-> "ambiguous_greater_eq",
   slt |-> "ambiguous_less", ult |-> "ambiguous_less",
   sle |-> "ambiguous_less_eq", ule |-> "ambiguous_less_eq"]

\* transformICmp: signed and unsigned comparisons become the same node.
TransformICmp(i) ==
  IF i.alt \in DOMAIN CompareNodes THEN Assign(i, CompareNodes[i.alt], i.args) ELSE Unset(i)

OrderedNodes ==
  [oeq |-> "ambiguous_eq", ueq |-> "ambiguous_eq", one |-> "ambiguous_neq", une |-> "ambiguous_neq",
   ogt |-> "ambiguous_greater", ugt |-> "ambiguous_greater",
   oge |-> "ambiguous_greater_eq", uge |-> "ambiguous_greater_eq",
   olt |-> "ambiguous_less", ult |-> "ambiguous_less",
   ole |-> "ambiguous_less_eq", ule |-> "ambiguous_less_eq"]

\* transformFCmp: ordered and unordered become the same node, a test for NaN an
\* error.
TransformFCmp(i) ==
  IF i.alt \in {"false", "true"} THEN Assign(i, "boolean_value", <<>>)
  ELSE IF i.alt \in DOMAIN OrderedNodes THEN Assign(i, OrderedNodes[i.alt], i.args)
  ELSE Unset(i)

TransformSelect(i) == Assign(i, "select", i.args)

TransformExtractValue(i) ==
  Needs({i.from, i.t}, Assign(i, "llvm_extract_value", i.args))

CastNodes ==
  [sext |-> "llvm_sign_extend", zext |-> "llvm_zero_extend", trunc |-> "llvm_truncate",
   fpext |-> "llvm_float_extend", ptrtoint |-> "llvm_integer_pointer_cast",
   inttoptr |-> "llvm_integer_pointer_cast"]

\* transformCastOp: an unsupported cast declares nothing, so that a later use of
\* its result is an error too.
TransformCastOp(i) ==
  IF i.op \in DOMAIN CastNodes
  THEN Needs({i.from, i.t}, Assign(i, CastNodes[i.op], i.args))
  ELSE Unsupported

--------------------------------------------------------------------------------
(* Memory *)

\* transformAllocA: the type allocated is set before the variable is declared.
TransformAlloca(i) ==
  Needs({i.t}, Declare(i, <<Stmt("llvm_alloc_a", "none", i.def, i.args, {})>>))

\* transformAtomicOrdering.
OrderingNodes ==
  [not_atomic |-> "llvm_memory_not_atomic", unordered |-> "llvm_memory_unordered",
   monotonic |-> "llvm_memory_monotonic", acquire |-> "llvm_memory_acquire",
   release |-> "llvm_memory_release", acq_rel |-> "llvm_memory_acquire_release",
   seq_cst |-> "llvm_memory_sequentially_consistent"]

TransformLoad(i) ==
  Needs({i.t}, Declare(i, <<Stmt("llvm_load", OrderingNodes[i.alt], i.def, i.args, {})>>))

TransformStore(i) ==
  [Nothing EXCEPT !.stmts = <<Stmt("llvm_store", OrderingNodes[i.alt], "", i.args, {})>>]

TransformGetElementPtr(i) ==
  Needs({i.from, i.t}, Assign(i, "llvm_get_element_pointer", i.args))

\* transformMemoryOp: no atomic read-modify-write, no fence.
TransformMemoryOp(i) ==
  CASE i.op = "alloca" -> TransformAlloca(i)
    [] i.op = "load" -> TransformLoad(i)
    [] i.op = "store" -> TransformStore(i)
    [] i.op = "getelementptr" -> TransformGetElementPtr(i)
    [] OTHER -> Unsupported

--------------------------------------------------------------------------------
(* Calls.  What is called is a record: its kind ("function", "intrinsic",     *)
(* "spec" for a function of the specification library, "pointer", "asm" or    *)
(* "constant" for a call through a constant that is no function of the call's *)
(* type), its name, whether it returns void, what is wrong with its signature *)
(* ("ok" or the part), and the flags of the call.                             *)

\* checkCallSupport.  A return attribute is warned of and ends the check there,
\* so that operand bundles go unnoticed behind one.
CallSupport(c) ==
  IF c.kind = "pointer" \/ c.flags \cap {"musttail", "fastmath"} # {} THEN "error"
  ELSE IF "retattr" \in c.flags THEN "warning"
  ELSE IF "bundles" \in c.flags THEN "error" ELSE "ok"

OverflowNodes ==
  [sadd_with_overflow |-> "llvm_add_with_overflow", uadd_with_overflow |-> "llvm_add_with_overflow",
   ssub_with_overflow |-> "llvm_sub_with_overflow", usub_with_overflow |-> "llvm_sub_with_overflow",
   smul_with_overflow |-> "llvm_mult_with_overflow", umul_with_overflow |-> "llvm_mult_with_overflow"]
SignedOverflow == {"sadd_with_overflow", "ssub_with_overflow", "smul_with_overflow"}
IgnoredIntrinsics == {"dbg_value", "dbg_declare", "dbg_assign", "lifetime_start", "lifetime_end"}

TransformTrap == [Nothing EXCEPT !.stmts = <<Stmt("vct_assert", "false", "", <<>>, {})>>]
TransformExpect(i) == Assign(i, "local", <<i.args[1]>>)
TransformWithOverflow(i, sign) ==
  Declare(i, <<Stmt(OverflowNodes[i.call.name], IF sign THEN "signed" ELSE "unsigned",
                    i.def, i.args, {})>>)
\* Both declare a variable for a result that is void.
TransformMemset(i) == Declare(i, <<Stmt("llvm_memset", "none", "", i.args, {})>>)
TransformMemcpy(i) == Declare(i, <<Stmt("llvm_memcpy", "none", "", i.args, {})>>)

TransformIntrinsic(i) ==
  LET n == i.call.name
  IN  CASE n = "trap" -> TransformTrap
        [] n = "expect" -> TransformExpect(i)
        [] n \in DOMAIN OverflowNodes -> TransformWithOverflow(i, n \in SignedOverflow)
        [] n \in IgnoredIntrinsics -> Nothing
        [] n = "memset" -> TransformMemset(i)
        [] n = "memcpy" -> TransformMemcpy(i)
        [] OTHER -> Unsupported

--------------------------------------------------------------------------------
(* The specification library.  parent is the function whose contract the call *)
(* belongs to, "" where ExprWrapperMapper finds none.                         *)

\* transformPallasSpecResult: the result, or a store of it where it is returned
\* through an sret argument.
TransformSpecResult(i, parent) ==
  IF parent = "" \/ i.call.sig # "ok" THEN Reported
  ELSE IF i.call.void
       THEN [Nothing EXCEPT !.stmts = <<Stmt("llvm_store", "llvm_result", "", i.args, {})>>]
       ELSE Assign(i, "llvm_result", <<>>)

\* transformPallasFracOf writes its result into an alloca of the caller.
TransformFracOf(i) ==
  IF i.call.sig # "ok" \/ i.alt # "alloca" THEN Reported
  ELSE [Nothing EXCEPT !.stmts = <<Stmt("llvm_frac_of", "none", "", i.args, {1})>>]

SpecNodes ==
  [perm |-> "llvm_perm", ptr_block_length |-> "llvm_ptr_block_length",
   ptr_block_offset |-> "llvm_ptr_block_offset", ptr_length |-> "llvm_ptr_length",
   imply |-> "llvm_implies", and |-> "llvm_and", or |-> "llvm_or", star |-> "llvm_star",
   old |-> "llvm_old"]

\* transformPallasPerm, the three pointer functions, imply, and, or, star and old
\* refer to the variables of their operands: an operand that is a constant is
\* reported as an undeclared variable.
TransformPerm(i) == AssignDirect(i, SpecNodes.perm, i.args)
TransformPointerFunction(i) == AssignDirect(i, SpecNodes[i.call.name], i.args)
TransformBooleanFunction(i) == AssignDirect(i, SpecNodes[i.call.name], i.args)
TransformOld(i) == AssignDirect(i, SpecNodes.old, i.args)

\* transformPallasBoundVar: the node is made before its identifier is known to be
\* a string.
TransformBoundVar(i) ==
  IF i.alt = "string" THEN Needs({i.t}, Assign(i, "llvm_bound_var", <<>>))
  ELSE Error(Assign(i, "llvm_bound_var", <<>>))

QuantifierNodes ==
  [forall |-> "llvm_forall", sep_forall |-> "llvm_sep_forall", exists |-> "llvm_exists"]
TransformQuantifier(i) == Assign(i, QuantifierNodes[i.call.name], i.args)
TransformUnfolding(i) == Assign(i, "unfolding", i.args)

\* The checks of the signatures.  That of a quantifier looks at its first
\* argument twice and never at its second.
SignatureAccepted(c) ==
  \/ c.sig = "ok"
  \/ c.name \in DOMAIN QuantifierNodes /\ c.sig = "second"

PointerFunctions == {"ptr_block_length", "ptr_block_offset", "ptr_length"}
BooleanFunctions == {"imply", "and", "or", "star"}

TransformSpecCall(i, parent) ==
  LET n == i.call.name
  IN  CASE n = "result" -> TransformSpecResult(i, parent)
        [] n = "frac_of" -> TransformFracOf(i)
        [] n \notin {"result", "frac_of"} /\ ~SignatureAccepted(i.call) -> Reported
        [] n = "perm" /\ i.call.sig = "ok" -> TransformPerm(i)
        [] n \in PointerFunctions /\ i.call.sig = "ok" -> TransformPointerFunction(i)
        [] n \in BooleanFunctions /\ i.call.sig = "ok" -> TransformBooleanFunction(i)
        [] n = "old" /\ i.call.sig = "ok" -> TransformOld(i)
        [] n = "bound_var" /\ i.call.sig = "ok" -> TransformBoundVar(i)
        [] n \in DOMAIN QuantifierNodes /\ SignatureAccepted(i.call) -> TransformQuantifier(i)
        [] n = "unfolding" /\ i.call.sig = "ok" -> TransformUnfolding(i)
        [] OTHER -> Reported

\* transformCallExpr: an invocation, as a statement of its own where the result
\* is void.  A call of inline assembly and one through a constant pass
\* checkCallSupport and have no called function: nothing is made of them and
\* nothing is said.
Invoke(i) ==
  IF i.call.void
  THEN [Nothing EXCEPT !.stmts = <<Stmt("eval", "llvm_function_invocation", "", i.args, {})>>]
  ELSE Assign(i, "llvm_function_invocation", i.args)

Warned(c, e) == IF CallSupport(c) = "warning" THEN [e EXCEPT !.warning = TRUE] ELSE e

TransformCall(i, parent) ==
  IF CallSupport(i.call) = "error" THEN Reported
  ELSE Warned(i.call,
         CASE i.call.kind \in {"asm", "constant"} -> Nothing
           [] i.call.kind = "intrinsic" -> TransformIntrinsic(i)
           [] i.call.kind = "spec" -> TransformSpecCall(i, parent)
           [] i.call.kind = "function" -> Invoke(i))

--------------------------------------------------------------------------------
(* Dispatch on the opcode *)

TermOps == {"ret", "br", "switch", "indirectbr", "invoke", "resume", "unreachable",
            "cleanupret", "catchret", "catchswitch", "callbr"}
BinaryOps == {"add", "fadd", "sub", "fsub", "mul", "fmul", "udiv", "sdiv", "fdiv", "urem",
              "srem", "frem", "shl", "lshr", "ashr", "and", "or", "xor"}
UnaryOps == {"fneg"}
MemoryOps == {"alloca", "load", "store", "getelementptr", "fence", "cmpxchg", "atomicrmw"}
CastOps == {"trunc", "zext", "sext", "fptoui", "fptosi", "uitofp", "sitofp", "fptrunc",
            "fpext", "ptrtoint", "inttoptr", "bitcast", "addrspacecast"}
FuncletPadOps == {"cleanuppad", "catchpad"}

\* transformOtherOp without the phi, which belongs to other blocks.
TransformOtherOp(i, parent) ==
  CASE i.op = "select" -> TransformSelect(i)
    [] i.op = "icmp" -> TransformICmp(i)
    [] i.op = "fcmp" -> TransformFCmp(i)
    [] i.op = "call" -> TransformCall(i, parent)
    [] i.op = "extractvalue" -> TransformExtractValue(i)
    [] OTHER -> Unsupported

\* transformUnaryOp and transformFuncletPadOp support nothing.
TransformInstruction(i, parent) ==
  CASE i.op \in BinaryOps -> TransformBinaryOp(i)
    [] i.op \in MemoryOps -> TransformMemoryOp(i)
    [] i.op \in CastOps -> TransformCastOp(i)
    [] i.op \in UnaryOps \cup FuncletPadOps -> Unsupported
    [] OTHER -> TransformOtherOp(i, parent)

================================================================================
