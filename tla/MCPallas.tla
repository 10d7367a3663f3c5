-------------------------------- MODULE MCPallas --------------------------------
(***************************************************************************)
(* Runs Pallas for TLC: on the body of one function of PallasPrograms,     *)
(* which is then executed, on a module, or (the pass that consolidates     *)
(* structs) on a program of StructPrograms.                                *)
(***************************************************************************)
EXTENDS BodyMeaning, ModuleContracts, PallasPrograms

(***************************************************************************)
(* Modules for the passes of ModuleContracts: one that is right, with a    *)
(* function of two clauses, an external function, their wrappers, a        *)
(* predicate, a function with VC metadata and one without any; and the     *)
(* same with something else in one place.                                  *)
(***************************************************************************)
Flag(kind, value) == [kind |-> kind, value |-> value]
Yes == Flag("i1", TRUE)
No == Flag("i1", FALSE)
OddFlags == <<Flag("int", TRUE), Flag("int", FALSE), Flag("count", FALSE), Flag("node", FALSE)>>

Bare == [decl |-> FALSE, params |-> <<IntT, PtrT>>, sret |-> <<>>, result |-> IntT, wrapper |-> FALSE,
         speclib |-> FALSE, fatal |-> FALSE, pred |-> <<>>, pure |-> <<>>, vcllvm |-> <<>>,
         contract |-> <<>>, external |-> <<>>, notes |-> <<>>, uses |-> <<>>]
Wrapper == [Bare EXCEPT !.wrapper = TRUE]

\* no is the number of the parameter the source variable is.
Parameter(di, no) == [di |-> di, kind |-> "parameter", own |-> TRUE, no |-> no]
X == Parameter("x", 1)
Y == Parameter("y", 2)
Clause(kind, wrapper, vars) == [bad |-> "", kind |-> kind, wrapper |-> wrapper, vars |-> vars]
ContractOf(clauses) ==
  [operands |-> 3 + Len(clauses), loc |-> TRUE, pure |-> No, assumed |-> No, clauses |-> clauses]

NoteOf(kind, di, arg, uses) ==
  [kind |-> kind, di |-> di, arg |-> arg, expression |-> FALSE, uses |-> uses]
ValueNote(di, arg) == NoteOf("dbg_value", di, arg, <<>>)
StoreOf(arg) == [op |-> "store", arg |-> arg]
AllocaNote(di, uses) == NoteOf("dbg_declare", di, 0, uses)

\* x lives in an alloca; y in values, at first its own and then x's.
F == [Bare EXCEPT
        !.contract = <<ContractOf(<<Clause("requires", 3, <<X>>), Clause("ensures", 4, <<Y, X>>),
                                    Clause("requires", 5, <<>>)>>)>>,
        !.notes = <<AllocaNote("x", <<StoreOf(1), [op |-> "load", arg |-> 0], StoreOf(2)>>),
                    ValueNote("y", 2), ValueNote("y", 0), ValueNote("y", 1)>>,
        !.uses = <<[wrapper |-> 6, context |-> "invariant"]>>]
G == [Bare EXCEPT !.decl = TRUE, !.external = <<ContractOf(<<Clause("ensures", 7, <<>>)>>)>>]

\* F, G, the wrappers of F's clauses and loop, that of G, and others.
RightFunctions ==
  <<F, G, Wrapper, Wrapper, Wrapper, Wrapper, Wrapper, [Bare EXCEPT !.pred = <<Yes>>],
    [Bare EXCEPT !.vcllvm = <<<<TRUE, TRUE>>>>, !.pure = <<Yes>>], Bare, [Bare EXCEPT !.decl = TRUE],
    [Bare EXCEPT !.speclib = TRUE, !.decl = TRUE]>>
Right == [globals |-> <<[t |-> PtrT, init |-> <<Seven>>, swiftEntry |-> FALSE],
                        [t |-> PtrT, init |-> <<>>, swiftEntry |-> FALSE]>>,
          specs |-> <<<<TRUE, TRUE>>>>, functions |-> RightFunctions]

With(k, f) == [Right EXCEPT !.functions[k] = f]
WithContract(c) == With(1, [F EXCEPT !.contract = <<c>>])
WithClause(c) == With(1, [F EXCEPT !.contract[1].clauses[2] = c])
WithVar(v) == With(1, [F EXCEPT !.contract[1].clauses[2].vars[1] = v])
FC == F.contract[1]
SecondClause == FC.clauses[2]

Modules ==
  <<Right, [globals |-> <<>>, specs |-> <<>>, functions |-> <<>>]>>
  \* globals and specifications
  \o <<[Right EXCEPT !.globals[1].init = <<Const("undef", IntT, 0)>>],
       [Right EXCEPT !.globals[1].init = <<Const("expression", PtrT, 0)>>],
       [Right EXCEPT !.globals[1] = [t |-> PtrT, init |-> <<Const("expression", PtrT, 0)>>, swiftEntry |-> TRUE]],
       [Right EXCEPT !.globals[2].t = BadType], [Right EXCEPT !.specs = <<<<TRUE, FALSE, TRUE>>, <<TRUE>>>>]>>
  \* contracts
  \o OfAll(<<2, 1>>, LAMBDA n : WithContract([FC EXCEPT !.operands = n, !.clauses = <<>>]))
  \o <<WithContract([FC EXCEPT !.loc = FALSE]), WithContract([FC EXCEPT !.pure = Yes]),
       WithContract([FC EXCEPT !.assumed = Yes]), WithContract(ContractOf(<<>>))>>
  \o OfAll(OddFlags, LAMBDA x : WithContract([FC EXCEPT !.pure = x]))
  \o OfAll(OddFlags, LAMBDA x : WithContract([FC EXCEPT !.assumed = x]))
  \* clauses and their variables
  \o OfAll(<<"node", "operands", "type", "loc">>, LAMBDA b : WithClause([SecondClause EXCEPT !.bad = b]))
  \o <<WithClause([SecondClause EXCEPT !.wrapper = 0]), WithClause([SecondClause EXCEPT !.wrapper = 10]),
       WithClause([SecondClause EXCEPT !.kind = "other"]), WithClause([SecondClause EXCEPT !.kind = "requires"])>>
  \o <<WithVar([Y EXCEPT !.kind = "local"]), WithVar([Y EXCEPT !.kind = "global"]),
       WithVar([Y EXCEPT !.own = FALSE]), WithVar(Parameter("z", 2))>>
  \o OfAll(<<<<AllocaNote("y", <<>>)>>, <<AllocaNote("y", <<[op |-> "load", arg |-> 0], StoreOf(2)>>)>>,
             <<AllocaNote("y", <<StoreOf(0)>>)>>, <<AllocaNote("y", <<StoreOf(2)>>), ValueNote("y", 1)>>,
             <<AllocaNote("y", <<StoreOf(1)>>), AllocaNote("y", <<StoreOf(1)>>), ValueNote("y", 2)>>,
             <<[ValueNote("q", 0) EXCEPT !.expression = TRUE], ValueNote("y", 2)>>>>, LAMBDA ns :
           With(1, [F EXCEPT !.notes = <<AllocaNote("x", <<StoreOf(1)>>)>> \o ns]))
  \* several of them, or none
  \o <<With(1, [F EXCEPT !.vcllvm = <<<<TRUE>>>>]), With(1, [F EXCEPT !.external = G.external]),
       With(1, [F EXCEPT !.pure = <<No>>]), With(1, [F EXCEPT !.wrapper = TRUE]),
       With(3, [Wrapper EXCEPT !.pred = <<Yes>>]), With(3, [Wrapper EXCEPT !.pure = <<Yes>>]),
       With(10, Wrapper), With(10, [Bare EXCEPT !.contract = <<ContractOf(<<Clause("requires", 3, <<>>)>>)>>]),
       With(2, [G EXCEPT !.external[1].clauses[1].vars = <<X>>]), With(2, [G EXCEPT !.external[1].pure = Yes]),
       With(2, [G EXCEPT !.decl = FALSE, !.external[1].pure = Yes])>>
  \* other metadata and types of functions
  \o OfAll(OddFlags, LAMBDA x : With(9, [RightFunctions[9] EXCEPT !.pure = <<x>>]))
  \o OfAll(OddFlags, LAMBDA x : With(8, [Bare EXCEPT !.pred = <<x>>]))
  \o <<With(9, [RightFunctions[9] EXCEPT !.vcllvm = <<<<TRUE, FALSE, TRUE>>>>]),
       With(10, [Bare EXCEPT !.fatal = TRUE]), With(10, [Bare EXCEPT !.params = <<BadType>>]),
       With(10, [Bare EXCEPT !.result = BadType]), With(10, [Bare EXCEPT !.sret = <<[param |-> 2, t |-> IntT]>>]),
       With(10, [Bare EXCEPT !.sret = <<[param |-> 1, t |-> BadType]>>]),
       With(11, [Bare EXCEPT !.decl = TRUE, !.params = <<BadType>>]),
       With(12, [Bare EXCEPT !.decl = TRUE, !.pred = <<Flag("node", FALSE)>>])>>

-----------------------------------------------------------------------------

RunInputs == {-2, 3}

VARIABLES mode, original, program, at, found, pending, reported, asserted

Structs == INSTANCE StructConsolidator
StructInputs == INSTANCE StructPrograms

structsVars == <<original, program, at, found, pending, reported, asserted>>
mcVars == <<mode, bodyVars, runVars, moduleVars, structsVars>>

EmptyModule == [globals |-> <<>>, specs |-> <<>>, functions |-> <<>>]
NoStructs == Structs!StartStructs([functions |-> <<>>, order |-> <<>>, specs |-> <<>>])
NoBody == StartBody([Function1(0 :> <<Ret(<<>>)>>) EXCEPT !.skipped = TRUE]) /\ StartRun

Bodies ==
  \/ \E k \in DOMAIN Variants : StartBody(Around(Variants[k]))
  \/ \E k \in DOMAIN Endings : StartBody(Ending(k))
  \/ \E k \in DOMAIN PhiPrograms : StartBody(PhiPrograms[k])
  \/ \E k \in DOMAIN SpecPrograms : StartBody(SpecPrograms[k])
  \/ \E t0 \in Shapes \ {<<1, 1>>, <<2, 2>>}, t1 \in Shapes, t2 \in Shapes :
       StartBody(CfgFunction(<<t0, t1, t2>>))

MCInit ==
  \/ mode = "body" /\ Bodies /\ StartRun /\ StartModule(EmptyModule) /\ NoStructs
  \/ mode = "module" /\ NoBody /\ NoStructs /\ \E k \in DOMAIN Modules : StartModule(Modules[k])
  \/ mode = "struct" /\ NoBody /\ StartModule(EmptyModule)
       /\ \E p \in StructInputs!StructPrograms : Structs!StartStructs(p)

\* The body is translated and the run of it over, the program printed, or the structs done.
Finished ==
  /\ mode = "module" => stopped # "no"
  /\ mode = "struct" => Structs!StructsDone
  /\ mode = "body" => BodyDone /\ (here.llvm \notin Labels(fn) => ran # -1 \/ ~Runnable)
                      /\ (here.llvm \in Labels(fn) => ran = MaxBlocks)
  /\ UNCHANGED mcVars

MCNext ==
  \/ mode = "body" /\ BodyStep /\ UNCHANGED <<mode, runVars, moduleVars, structsVars>>
  \/ mode = "body" /\ RunStep /\ UNCHANGED <<mode, moduleVars, structsVars>>
  \/ mode = "module" /\ ModuleStep /\ UNCHANGED <<mode, bodyVars, runVars, structsVars>>
  \/ mode = "struct" /\ Structs!StructStep /\ UNCHANGED <<mode, bodyVars, runVars, moduleVars>>
  \/ Finished

MCSpec == MCInit /\ [][MCNext]_mcVars

\* The variables keep their types, and no block is entered twice or left half done.
BodiesAreWhole ==
  /\ mode \in {"body", "module", "struct"}
  /\ BodyTypeOK /\ ModuleTypeOK /\ Structs!StructTypeOK
  /\ BodyIsWhole

\* Consolidating structs changes nothing a program or a specification can see, in
\* whatever order the functions are updated (StructConsolidator.cpp).
StructsKeepTheirFields == Structs!StructsKeepTheirFields

================================================================================
