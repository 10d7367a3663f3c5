----------------------------- MODULE SpecArguments -----------------------------
(***************************************************************************)
(* How Pallas finds the LLVM value of a source variable that a             *)
(* specification mentions (PallasDIMapping, PallasWrapperUtils and the     *)
(* parts of SpecStatementTransform and LoopContractTransform about it).  A *)
(* specification is compiled into a wrapper function; the metadata names   *)
(* the variables it takes, and debug intrinsics tie those to values.       *)
(*                                                                         *)
(* A variable of a specification is a record: di, its name; local, whether *)
(* it is a local variable; t, the type of the wrapper's parameter.  An     *)
(* argument is a record: form, how the value is read; o, the operand read; *)
(* quiet, whether a value not declared yet is accepted in silence.         *)
(***************************************************************************)
EXTENDS LlvmFunctions

At(f, p) == f.blocks[p[1]][p[2]]

IsDebug(i, name) == i.op = "call" /\ i.call.kind = "intrinsic" /\ i.call.name = name
DebugIntrinsics == {"dbg_value", "dbg_declare", "dbg_assign"}

\* getIntrinsicsForDIVar.
IntrinsicsFor(f, v) ==
  {p \in UNION {{b} \X DOMAIN f.blocks[b] : b \in Labels(f)} :
     At(f, p).di = v /\ \E n \in DebugIntrinsics : IsDebug(At(f, p), n)}
HasDiExpression(f, p) == At(f, p).alt = "expression"
OfKind(f, ps, n) == {p \in ps : IsDebug(At(f, p), n)}

\* getUniqueDbgDeclare, as a set of at most one position.
UniqueDeclare(f, ps) ==
  LET d == OfKind(f, ps, "dbg_declare") IN IF Cardinality(d) = 1 THEN d ELSE {}

\* getClosestDbgValue: of the dbg.values that dominate the instruction the one
\* that dominates no other of them.  {} where there is none or more than one.
ClosestDbgValue(f, ps, at) ==
  LET above == {p \in OfKind(f, ps, "dbg_value") : DominatesAt(f, p, at)}
      last == {p \in above : \A q \in above \ {p} : ~DominatesAt(f, p, q)}
  IN  IF Cardinality(last) = 1 THEN last ELSE {}

\* selectDbgValue, for a loop invariant: the only intrinsic there is, wherever it
\* stands; else the one in the header that names a phi of the header; else the
\* closest one before the header.
PhisOf(f, h) == {f.blocks[h][k].def : k \in {k \in DOMAIN f.blocks[h] : f.blocks[h][k].op = "phi"}}
\* A bug to look for: the phis of the header are not looked at.
SelectDbgValue_NoPhi(f, ps, h) ==
  IF (\E p \in ps : HasDiExpression(f, p)) \/ ps # OfKind(f, ps, "dbg_value") THEN {}
  ELSE IF Cardinality(ps) = 1 THEN ps ELSE ClosestDbgValue(f, ps, <<h, 1>>)

SelectDbgValue(f, ps, h) ==
  LET ofHeader == {p \in ps : p[1] = h /\ At(f, p).args[1].k = "var"
                                /\ At(f, p).args[1].n \in PhisOf(f, h)}
  IN  IF (\E p \in ps : HasDiExpression(f, p)) \/ ps # OfKind(f, ps, "dbg_value") THEN {}
      ELSE IF Cardinality(ps) = 1 THEN ps
      ELSE IF Cardinality(ofHeader) = 1 THEN ofHeader
      ELSE IF ofHeader # {} THEN {}
      ELSE ClosestDbgValue(f, ps, <<h, 1>>)

--------------------------------------------------------------------------------
(* The arguments of the call of a wrapper *)

Arg(form, o, quiet) == [form |-> form, o |-> o, quiet |-> quiet]

\* buildArgExprFromAlloca: a struct goes by reference unless it is of the type the
\* wrapper takes or a packed struct around it.
ArgFromAlloca(i, t) ==
  LET isStruct == i.t.id \in {"struct", "packed"}
      trivial == i.t.id = "packed" /\ i.t.parts = <<t>>
  IN  Arg(IF ~isStruct \/ i.t = t THEN "deref" ELSE IF trivial THEN "deref_cast" ELSE "local",
          Var(i.def), FALSE)

\* buildArgExprFromDbgValue: where the wrapper takes an i1 and the value is an
\* integer extended from one, what was extended is passed.
DefinedBy(f, o, op) ==
  {i \in UNION {Range(f.blocks[b]) : b \in Labels(f)} :
     o.k = "var" /\ i.op = op /\ i.def = o.n}
ArgFromDbgValue(f, p, t) ==
  LET o == At(f, p).args[1]
      zexts == {i \in DefinedBy(f, o, "zext") : t.id = "i1" /\ i.t.id = "int" /\ i.from.id = "i1"}
      value == IF zexts = {} THEN o ELSE (CHOOSE i \in zexts : TRUE).args[1]
  IN  Arg(IF value.k = "const" THEN "const" ELSE "local", value, TRUE)

AllocaOf(f, p) == DefinedBy(f, At(f, p).args[1], "alloca")

\* buildArgForDIVar of a specification statement at an instruction, as a set of at
\* most one argument; {} comes with an error.
StatementArg(f, v, at) ==
  LET ps == IntrinsicsFor(f, v.di)
      closest == ClosestDbgValue(f, ps, at)
  IN  IF ~v.local \/ ps = {} THEN {}
      ELSE IF Cardinality(ps) = 1 /\ UniqueDeclare(f, ps) # {}
      THEN {ArgFromAlloca(i, v.t) : i \in UNION {AllocaOf(f, p) : p \in {p \in ps : ~HasDiExpression(f, p)}}}
      ELSE {ArgFromDbgValue(f, p, v.t) : p \in {p \in closest : ~HasDiExpression(f, p)}}

\* The same for an invariant of the loop headed by h (addInvariantToContract).
InvariantArg(f, v, h) ==
  LET ps == IntrinsicsFor(f, v.di)
      declare == UniqueDeclare(f, ps)
  IN  IF ~v.local THEN {}
      ELSE IF declare # {}
      THEN {ArgFromAlloca(i, v.t) : i \in UNION {AllocaOf(f, p) : p \in {p \in declare : ~HasDiExpression(f, p)}}}
      ELSE {ArgFromDbgValue(f, p, v.t) : p \in SelectDbgValue(f, ps, h)}

\* The call of a wrapper from what can be built for each argument: its arguments up to
\* the first that cannot.
WrapperCall(built) ==
  LET bad == {k \in DOMAIN built : built[k] = {}}
      n == IF bad = {} THEN Len(built) ELSE (CHOOSE k \in bad : \A j \in bad : k <= j) - 1
  IN  [ok |-> bad = {}, args |-> [k \in 1 .. n |-> CHOOSE a \in built[k] : TRUE]]

================================================================================
