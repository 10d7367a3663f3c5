---------------------------- MODULE ModuleContracts ----------------------------
(***************************************************************************)
(* What Pallas makes of a module outside the bodies of its functions: the  *)
(* passes that declare the globals, the global specifications and the      *)
(* functions, set their purity, give them a contract, and print the        *)
(* program.  ColLLVMParser runs them in the order of "pass".               *)
(*                                                                         *)
(* A module is a record: globals, specs (the operands of VC.global) and    *)
(* functions.  A function is a record:                                     *)
(*   decl     it has no body               params   the types of its       *)
(*   sret     the parameter, if any,                parameters             *)
(*            its result goes to           result   its result type        *)
(*   wrapper, speclib, fatal   whether it is a wrapper of an expression, a *)
(*            function of the specification library, Swift's fatalError    *)
(*   pred     its metadata as a predicate  pure     its VC.pure            *)
(*   vcllvm   its VC.contract              contract, external              *)
(*   notes    its debug intrinsics                  its Pallas contracts   *)
(*   uses     the wrappers its loop invariants and statements name.        *)
(* Metadata that is missing is <<>>.  A flag is the kind of the constant   *)
(* and its value.                                                          *)
(***************************************************************************)
EXTENDS LlvmInstructions, SequencesExt

VARIABLES
  source,   \* the module
  pass,     \* the pass that runs
  next,     \* the function it comes to
  declared, \* the declarations of the program, in order
  defs,     \* the COL definition of a function
  errors,   \* ErrorReporter's errorCount is not 0
  stopped   \* the plugin has stopped: "no", "crashed", "failed" or "printed"

moduleVars == <<source, pass, next, declared, defs, errors, stopped>>

Functions == source.functions
Fn(k) == Functions[k]

StartModule(m) ==
  /\ source = m /\ pass = "variables" /\ next = 1
  /\ declared = <<>> /\ defs = <<>> /\ errors = FALSE /\ stopped = "no"

--------------------------------------------------------------------------------
(* PallasMD *)

HasContract(f) == f.contract # <<>>
HasExternal(f) == f.external # <<>>
HasVcllvm(f) == f.vcllvm # <<>>
\* getPallasContract: the internal one where there are two.
PallasContract(f) == IF HasContract(f) THEN f.contract ELSE f.external

\* A flag that is no constant is dereferenced all the same.
FlagCrashes(flag) == flag.kind = "node"
IsBoolean(flag) == flag.kind = "i1"

--------------------------------------------------------------------------------
(* ExprWrapperMapper: the first function that names the wrapper w, in its      *)
(* contract, then in its loops, then in its statements.  0 where there is      *)
(* none.                                                                       *)

Contexts == [requires |-> "pre", ensures |-> "post"]
ContractUses(f) ==
  IF PallasContract(f) = <<>> THEN <<>>
  ELSE LET cs == SelectSeq(PallasContract(f)[1].clauses, LAMBDA c : c.bad \notin {"node", "operands"})
       IN  [k \in DOMAIN cs |->
              [wrapper |-> cs[k].wrapper,
               context |-> IF cs[k].kind \in DOMAIN Contexts THEN Contexts[cs[k].kind] ELSE ""]]
Uses(f) ==
  IF f.wrapper \/ f.speclib THEN <<>>
  ELSE ContractUses(f) \o (IF f.decl THEN <<>> ELSE f.uses)

WrapperUse(w) ==
  LET users == {k \in DOMAIN Functions : \E u \in Range(Uses(Fn(k))) : u.wrapper = w}
  IN  IF ~Fn(w).wrapper \/ users = {} THEN [parent |-> 0, context |-> ""]
      ELSE LET k == CHOOSE k \in users : \A j \in users : k <= j
               u == SelectSeq(Uses(Fn(k)), LAMBDA x : x.wrapper = w)[1]
           IN  [parent |-> k, context |-> u.context]

--------------------------------------------------------------------------------
(* FunctionDeclarer, an analysis: it runs when its result is asked for first.  *)

Blank == [kind |-> "none", returnIn |-> 0, pure |-> "unset",
          contract |-> [kind |-> "none", requires |-> <<>>, ensures |-> <<>>]]
LinesContract(text) == [kind |-> "vcllvm", requires |-> text, ensures |-> <<>>]

FunctionKind(f) ==
  CASE f.wrapper /\ f.pred # <<>> -> "none"
    [] f.wrapper /\ f.pred = <<>> -> "wrapper"
    [] ~f.wrapper /\ f.pred # <<>> -> IF IsBoolean(f.pred[1]) THEN "predicate" ELSE "none"
    [] OTHER -> "normal"

Definition(f) ==
  [Blank EXCEPT
     !.kind = FunctionKind(f),
     !.returnIn = IF f.sret = <<>> THEN 0 ELSE f.sret[1].param,
     !.contract = IF f.decl THEN LinesContract(<<>>) ELSE @,
     !.pure = IF f.decl THEN "false" ELSE @]

DeclarationFails(k) ==
  LET f == Fn(k)
  IN  \/ \E t \in Range(f.params) \cup {f.result} : ~TypeSupported(t)
      \/ FunctionKind(f) = "none"
      \/ f.wrapper /\ WrapperUse(k).parent = 0
      \/ f.sret # <<>> /\ ~TypeSupported(f.sret[1].t)
DeclarationCrashes(k) == ~Fn(k).wrapper /\ Fn(k).pred # <<>> /\ FlagCrashes(Fn(k).pred[1])

\* getResult<FunctionDeclarer> for each of the functions ks, in that order.
Fresh(ks) ==
  FoldLeft(LAMBDA new, k : IF k \in DOMAIN defs \cup Range(new) THEN new ELSE Append(new, k), <<>>, ks)
Fails(ks) == \E k \in Range(Fresh(ks)) : DeclarationFails(k)
Crashes(ks) == \E k \in Range(Fresh(ks)) : DeclarationCrashes(k)
WithDeclarations(ks) ==
  declared \o [j \in DOMAIN Fresh(ks) |-> [kind |-> "function", of |-> Fresh(ks)[j]]]
WithDefinitions(ks) == [k \in Range(Fresh(ks)) |-> Definition(Fn(k))] @@ defs

Stop(how) == stopped' = how /\ UNCHANGED <<source, pass, next, declared, defs, errors>>

--------------------------------------------------------------------------------
(* GlobalVariableDeclarer and ModuleSpecCollector *)

InPass(p) == stopped = "no" /\ pass = p

\* The initializer of Swift's entry point is skipped.  No exception for a type is
\* caught here.
DeclareVariables ==
  /\ InPass("variables")
  /\ LET gs == source.globals
         initial(g) == IF g.init = <<>> \/ g.swiftEntry THEN {} ELSE ConstOutcomes(g.init[1])
         types == {g.t : g \in Range(gs)} \cup {g.init[1].t : g \in {g \in Range(gs) : g.init # <<>>}}
         outcomes == UNION {initial(g) : g \in Range(gs)}
     IN  IF (\E t \in types : ~TypeSupported(t)) \/ "crash" \in outcomes THEN Stop("crashed")
         ELSE /\ declared' = [k \in DOMAIN gs |-> [kind |-> "global", of |-> k]]
              /\ errors' = ("error" \in outcomes)
              /\ pass' = "specs"
              /\ UNCHANGED <<source, next, defs, stopped>>

\* An operand of a node that is no string ends that node.
CollectSpecs ==
  /\ InPass("specs")
  /\ LET good(node) == LET bad == {k \in DOMAIN node : ~node[k]}
                       IN  IF bad = {} THEN Len(node) ELSE (CHOOSE k \in bad : \A j \in bad : k <= j) - 1
         decls == FlattenSeq([k \in DOMAIN source.specs |->
                    [j \in 1 .. good(source.specs[k]) |-> [kind |-> "spec", of |-> k]]])
     IN  /\ declared' = declared \o decls
         /\ errors' = (errors \/ \E node \in Range(source.specs) : FALSE \in Range(node))
  /\ pass' = "declare"
  /\ UNCHANGED <<source, next, defs, stopped>>

--------------------------------------------------------------------------------
(* The passes over a function; a function without a body is skipped by all     *)
(* three.                                                                      *)

AtFunction(p) == InPass(p) /\ next <= Len(Functions)

SkipDeclaration ==
  /\ AtFunction("declare") /\ Fn(next).decl
  /\ next' = next + 1
  /\ UNCHANGED <<source, pass, declared, defs, errors, stopped>>

DeclareFunction ==
  /\ AtFunction("declare") /\ ~Fn(next).decl
  /\ IF Crashes(<<next>>) THEN Stop("crashed")
     ELSE /\ declared' = WithDeclarations(<<next>>)
          /\ defs' = WithDefinitions(<<next>>)
          /\ errors' = (errors \/ Fails(<<next>>))
          /\ pass' = "pure"
          /\ UNCHANGED <<source, next, stopped>>

\* PureAssigner: VC.pure, the contract and the marker of a wrapper each say
\* whether the function is pure, and only one of them may.
PureSources(f) ==
  Cardinality({s \in {"VC.pure", "contract", "wrapper"} :
                 \/ s = "VC.pure" /\ f.pure # <<>>
                 \/ s = "contract" /\ PallasContract(f) # <<>>
                 \/ s = "wrapper" /\ f.wrapper})
PureMalformed(f) ==
  \/ f.pure # <<>> /\ ~IsBoolean(f.pure[1])
  \/ /\ PallasContract(f) # <<>>
     /\ (PallasContract(f)[1].operands < 2 \/ ~IsBoolean(PallasContract(f)[1].pure))
PureValue(f) ==
  IF f.wrapper THEN TRUE
  ELSE IF PallasContract(f) # <<>> THEN PallasContract(f)[1].pure.value
  ELSE f.pure # <<>> /\ f.pure[1].value

PureCrashes(f) ==
  \/ f.pure # <<>> /\ FlagCrashes(f.pure[1])
  \/ /\ f.pure = <<>> \/ IsBoolean(f.pure[1])
     /\ PallasContract(f) # <<>> /\ PallasContract(f)[1].operands >= 2
     /\ FlagCrashes(PallasContract(f)[1].pure)

AssignPure ==
  /\ AtFunction("pure")
  /\ LET f == Fn(next)
         refused == PureMalformed(f) \/ PureSources(f) > 1
     IN  IF PureCrashes(f) THEN Stop("crashed")
         ELSE /\ errors' = (errors \/ refused)
              /\ defs' = IF refused THEN defs
                         ELSE [defs EXCEPT ![next].pure = IF PureValue(f) THEN "true" ELSE "false"]
              /\ pass' = "contract"
              /\ UNCHANGED <<source, next, declared, stopped>>

\* FunctionContractDeclarer: the lines of VC.contract, up to the first that is no
\* string, with references to every function of the module; a tautology where
\* there are none; "requires false" for Swift's fatalError.
DeclareLlvmContract ==
  /\ AtFunction("contract")
  /\ LET f == Fn(next)
         asked == IF HasVcllvm(f) /\ ~f.fatal THEN [k \in DOMAIN Functions |-> k] ELSE <<>>
         lines == IF HasVcllvm(f) THEN f.vcllvm[1] ELSE <<>>
         good == {k \in DOMAIN lines : \A j \in 1 .. k : lines[j]}
         text == IF f.fatal THEN <<"false">> ELSE [k \in good |-> "line"]
     IN  IF Crashes(asked) THEN Stop("crashed")
         ELSE /\ declared' = WithDeclarations(asked)
              /\ defs' = [WithDefinitions(asked) EXCEPT ![next].contract = LinesContract(text)]
              /\ errors' = (errors \/ Fails(asked) \/ (~f.fatal /\ FALSE \in Range(lines)))
              /\ pass' = "declare" /\ next' = next + 1
              /\ UNCHANGED <<source, stopped>>

ToContracts ==
  /\ InPass("declare") /\ next > Len(Functions)
  /\ pass' = "pallas" /\ next' = 1
  /\ UNCHANGED <<source, declared, defs, errors, stopped>>

--------------------------------------------------------------------------------
(* PallasFunctionContractDeclarerPass, over every function, with a body or     *)
(* without.                                                                    *)

\* A bug to look for: the last dbg.value of a parameter counts.
MapDIVarToArg_LastValue(f, v) ==
  LET mine == SelectSeq(f.notes, LAMBDA n : n.di = v.di)
      declares == SelectSeq(mine, LAMBDA n : n.kind = "dbg_declare")
      values == SelectSeq(mine, LAMBDA n : n.kind = "dbg_value" /\ n.arg # 0)
  IN  IF \E n \in Range(f.notes) : n.expression THEN 0
      ELSE IF Len(declares) = 1
      THEN IF declares[1].uses # <<>> /\ Head(declares[1].uses).op = "store"
           THEN Head(declares[1].uses).arg ELSE 0
      ELSE IF values = <<>> THEN 0 ELSE Last(values).arg

\* mapDIVarToArg: the parameter a debug variable stands for, 0 where none is
\* found.  A dbg.declare of an alloca counts when its first use in the entry
\* block stores a parameter; else the first dbg.value of a parameter does.
MapDIVarToArg(f, v) ==
  LET mine == SelectSeq(f.notes, LAMBDA n : n.di = v.di)
      declares == SelectSeq(mine, LAMBDA n : n.kind = "dbg_declare")
      values == SelectSeq(mine, LAMBDA n : n.kind = "dbg_value" /\ n.arg # 0)
  IN  IF \E n \in Range(f.notes) : n.expression THEN 0
      ELSE IF Len(declares) = 1
      THEN IF declares[1].uses # <<>> /\ Head(declares[1].uses).op = "store"
           THEN Head(declares[1].uses).arg ELSE 0
      ELSE IF values = <<>> THEN 0 ELSE values[1].arg

\* getWrapperFuncFromClause; 0 is no function.
IsWrapper(w) == w # 0 /\ Fn(w).wrapper

\* getContractArgs, all or nothing; getExternalContractArgs.
VarAccepted(f, v) == v.kind = "parameter" /\ v.own /\ MapDIVarToArg(f, v) # 0
ContractArgs(f, clause, isExternal) ==
  IF isExternal THEN [k \in DOMAIN f.params |-> k]
  ELSE [k \in DOMAIN clause.vars |-> MapDIVarToArg(f, clause.vars[k])]
ClauseAccepted(f, clause, isExternal) ==
  /\ clause.bad = ""
  /\ isExternal => clause.vars = <<>>
  /\ IsWrapper(clause.wrapper)
  /\ isExternal \/ \A v \in Range(clause.vars) : VarAccepted(f, v)
  /\ clause.kind \in DOMAIN Contexts

\* addClauseToContract appends to the clauses of its kind, and its failure ends
\* the contract.
AcceptedClauses(f, clauses, isExternal) ==
  LET bad == {k \in DOMAIN clauses : ~ClauseAccepted(f, clauses[k], isExternal)}
  IN  IF bad = {} THEN clauses
      ELSE SubSeq(clauses, 1, (CHOOSE k \in bad : \A j \in bad : k <= j) - 1)
AddClauses(f, clauses, isExternal) ==
  LET of(kind) == SelectSeq(AcceptedClauses(f, clauses, isExternal), LAMBDA c : c.kind = kind)
      calls(cs) == [k \in DOMAIN cs |-> [wrapper |-> cs[k].wrapper, args |-> ContractArgs(f, cs[k], isExternal)]]
  IN  [kind |-> "pallas", requires |-> calls(of("requires")), ensures |-> calls(of("ensures"))]

\* Every clause up to the first that fails asks for the definition of its wrapper.
WrappersAsked(f, clauses, isExternal) ==
  LET n == Len(AcceptedClauses(f, clauses, isExternal)) + 1
      tried == SelectSeq(SubSeq(clauses, 1, IF n <= Len(clauses) THEN n ELSE Len(clauses)), LAMBDA c :
                 c.bad = "" /\ (isExternal => c.vars = <<>>) /\ IsWrapper(c.wrapper))
  IN  [k \in DOMAIN tried |-> tried[k].wrapper]

\* getAssumedFlag tests !getBitWidth() == 1, which no width satisfies: a wider
\* constant is accepted too.
AssumedMalformed(flag) == flag.kind \notin {"i1", "int"}

ContractCount(f) == Cardinality({c \in {"external", "pallas", "vcllvm"} :
                                   \/ c = "external" /\ HasExternal(f)
                                   \/ c = "pallas" /\ HasContract(f)
                                   \/ c = "vcllvm" /\ HasVcllvm(f)})

DeclarePallasContract ==
  /\ AtFunction("pallas")
  /\ LET f == Fn(next)
         c == PallasContract(f)[1]
         isExternal == HasExternal(f)
         header == c.operands >= 3 /\ c.loc
         readable == header /\ ~AssumedMalformed(c.assumed)
         whole == readable /\ AcceptedClauses(f, c.clauses, isExternal) = c.clauses
         asked == <<next>> \o (IF readable THEN WrappersAsked(f, c.clauses, isExternal) ELSE <<>>)
         made == IF whole THEN AddClauses(f, c.clauses, isExternal)
                 ELSE [AddClauses(f, <<>>, isExternal) EXCEPT !.kind = "incomplete"]
     IN  IF ContractCount(f) # 1 \/ HasVcllvm(f)
         THEN /\ errors' = (errors \/ ContractCount(f) > 1)
              /\ UNCHANGED <<declared, defs, stopped>>
         ELSE IF Crashes(asked) \/ (header /\ FlagCrashes(c.assumed))
         THEN stopped' = "crashed" /\ UNCHANGED <<declared, defs, errors>>
         ELSE /\ declared' = WithDeclarations(asked)
              /\ defs' = [WithDefinitions(asked) EXCEPT ![next].contract = made]
              /\ errors' = (errors \/ ~whole \/ Fails(asked))
              /\ UNCHANGED stopped
  /\ next' = next + 1
  /\ UNCHANGED <<source, pass>>

--------------------------------------------------------------------------------
\* ProtobufPrinter: with an error the process exits with 1 and prints nothing.
PrintProgram ==
  /\ InPass("pallas") /\ next > Len(Functions)
  /\ Stop(IF errors THEN "failed" ELSE "printed")

ModuleStep ==
  \/ DeclareVariables \/ CollectSpecs \/ SkipDeclaration \/ DeclareFunction \/ AssignPure
  \/ DeclareLlvmContract \/ ToContracts \/ DeclarePallasContract \/ PrintProgram

--------------------------------------------------------------------------------
(* Properties *)

\* The calls the clauses of one kind ask for: their wrappers in order, with the
\* parameters their variables are in the source (no), or all of them.
CallsMeant(f, clauses, kind, isExternal) ==
  LET cs == SelectSeq(clauses, LAMBDA c : c.kind = kind)
  IN  [k \in DOMAIN cs |->
         [wrapper |-> cs[k].wrapper,
          args |-> IF isExternal THEN [j \in DOMAIN f.params |-> j]
                   ELSE [j \in DOMAIN cs[k].vars |-> cs[k].vars[j].no]]]

\* A wrapper's result is typed by its parent, so the parent is the function whose
\* contract calls it; a wrapper two functions name has the first of them.
CalledFrom(w, k) ==
  /\ defs[w].kind = "wrapper" /\ (~Fn(w).decl => defs[w].pure = "true")
  /\ WrapperUse(w).parent <= k
  /\ WrapperUse(w).parent < k => \E u \in Range(Uses(Fn(WrapperUse(w).parent))) : u.wrapper = w

\* A program that is printed has every function with a body once, with its kind
\* and its purity, and every contract whole: each clause under its kind, in order,
\* as a call of its wrapper on the parameters it is about.  Whatever is wrong in
\* the metadata of any function keeps the program from being printed.
ContractsAreWhole ==
  stopped = "printed" =>
    /\ IsInjective(SelectSeq(declared, LAMBDA d : d.kind = "function"))
    /\ \A k \in DOMAIN Functions :
         LET f == Fn(k)
             c == PallasContract(f)[1]
         IN  /\ ~f.decl => k \in DOMAIN defs
             /\ k \in DOMAIN defs => defs[k].kind # "none" /\ defs[k].pure # "unset"
             /\ PallasContract(f) # <<>> =>
                  /\ defs[k].contract =
                       [kind |-> "pallas",
                        requires |-> CallsMeant(f, c.clauses, "requires", HasExternal(f)),
                        ensures |-> CallsMeant(f, c.clauses, "ensures", HasExternal(f))]
                  /\ \A j \in DOMAIN c.clauses :
                       c.clauses[j].kind \in DOMAIN Contexts /\ CalledFrom(c.clauses[j].wrapper, k)
                  /\ ~f.decl => (defs[k].pure = "true") = c.pure.value
             /\ PallasContract(f) = <<>> /\ ~f.decl /\ f.vcllvm # <<>> /\ ~f.fatal =>
                  Len(defs[k].contract.requires) = Len(f.vcllvm[1])

\* The passes come to the functions in order, and a definition is of a function.
ModuleTypeOK ==
  /\ pass \in {"variables", "specs", "declare", "pure", "contract", "pallas"}
  /\ next \in 1 .. Len(Functions) + 1
  /\ pass \in {"pure", "contract"} => next \in DOMAIN defs
  /\ DOMAIN defs \subseteq DOMAIN Functions
  /\ DOMAIN defs = {d.of : d \in {d \in Range(declared) : d.kind = "function"}}
  /\ errors \in BOOLEAN /\ stopped \in {"no", "crashed", "failed", "printed"}

================================================================================
