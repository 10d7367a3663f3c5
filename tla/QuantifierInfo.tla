--------------------------- MODULE QuantifierInfo ---------------------------
(***************************************************************************)
(* SimplifyNestedQuantifiers.dispatch: how the pass walks through the      *)
(* procedures of a program, gathers the conditions that hold where a       *)
(* quantifier stands, and hands their summary to the expression checker    *)
(* with which the quantifier is rewritten.                                 *)
(*                                                                         *)
(* The conditions of a procedure are the input: each action is one call of *)
(* dispatch, for a conjunct, an implication, a quantifier, a section of a  *)
(* contract or a statement.  Getters are objects: infoGetter and oldInfo   *)
(* refer to them, and two of them may share cells.                         *)
(***************************************************************************)
EXTENDS AnnotationVariableInfo

CONSTANTS
  Programs,     \* the conditions of programs: those it may state anywhere, and those
                \* among them that a quantifier may state without mentioning its bindings
  Assigned,     \* the sets of variables a body may assign to
  Domain,       \* the values of variables that the properties consider
  Tolerated,    \* the departures (see below) after which the walk is still followed
  MaxConjuncts, \* bound on the conditions stated in one procedure
  MaxDepth,     \* bound on the nesting of quantifiers
  MaxNesting,   \* bound on the nesting of loops and framed proofs
  MaxClones     \* bound on the implications of one procedure

ASSUME ProgramsAssumption == \A p \in Programs : p.independent \subseteq p.conditions
ASSUME AssignedAssumption == Assigned \subseteq SUBSET Vars
ASSUME BoundsAssumption ==
  {MaxConjuncts, MaxDepth, MaxNesting, MaxClones} \subseteq Nat

VARIABLES
  program,       \* one of Programs
  heap,          \* the getters, each without its cells
  cells,         \* the collections that getters refer to
  infoGetter,    \* the getter that conditions are added to
  oldInfo,       \* dispatch(contract): the getter of contextEverywhere
  requiresInfo,  \* a clone, until the body takes it over as extraInfo
  extraInfo,     \* the getters of the scopes around, innermost first
  equalityChecker, \* the summary it was made with
  section,       \* the part of the procedure that is dispatched
  scopes,        \* the implication and the quantifiers around, innermost first
  nesting,       \* the loops and framed proofs around, innermost first
  frames,        \* history: what holds here, see Possible
  atEntry,       \* history: what the contract says of the start of the body
  departures,    \* history: see Departures
  conjuncts,     \* the number of conditions stated in the procedure
  failed         \* InconsistentVariableEquality was thrown

vars == <<program, heap, cells, infoGetter, oldInfo, requiresInfo, extraInfo, equalityChecker, section,
          scopes, nesting, frames, atEntry, departures, conjuncts, failed>>

control == <<section, scopes, nesting>>
history == <<frames, atEntry, departures>>

Contract == {"contextEverywhere", "requires", "ensures", "kernelInvariant"}

(* The sections that are dispatched with topLevel set.                     *)
TopLevel == {"contextEverywhere", "requires", "ensures", "assertion", "invariant", "pre", "post"}

(* The walk departs from what it means to do when                          *)
(*   counter   a cloned getter that has groups of synonyms is used further *)
(*             with the counter of a new one;                              *)
(*   shared    a condition is added to a cell that another getter still    *)
(*             refers to;                                                  *)
(*   spread    distributeInfo adds to a cell what follows from conditions  *)
(*             that hold in the quantifier only;                           *)
(*   oldInfo   the getter that a contract goes back to has been given the  *)
(*             left side of an implication;                                *)
(*   leftover  a quantifier outside contracts and assertions is rewritten  *)
(*             with the conditions of the last one.                        *)
Departures == {"counter", "shared", "spread", "oldInfo", "leftover"}

Environments == [Vars -> Domain]

Load(id) == [heap[id] EXCEPT !.cells = cells]
Uncelled(g) == [g EXCEPT !.cells = <<>>]

Frame(conds) == [conds |-> conds, here |-> conds, changed |-> {}]
Top == frames[Len(frames)]
WithTop(frame) == [frames EXCEPT ![Len(frames)] = frame]
Assuming(c) == WithTop([Top EXCEPT !.conds = @ \cup {c}, !.here = @ \cup {c}])

-----------------------------------------------------------------------------
Init ==
  /\ program \in Programs
  /\ heap = <<EmptyGetter>>
  /\ cells = <<>>
  /\ infoGetter = 1
  /\ oldInfo = 1
  /\ requiresInfo = EmptyGetter
  /\ extraInfo = <<>>
  /\ equalityChecker = EmptyGetter
  /\ section = "idle"
  /\ scopes = <<>>
  /\ nesting = <<>>
  /\ frames = <<Frame({})>>
  /\ atEntry = {}
  /\ departures = {}
  /\ conjuncts = 0
  /\ failed = FALSE

-----------------------------------------------------------------------------
(* Getters that will be read again.  The getter an implication leaves      *)
(* behind will be if it is oldInfo.                                        *)
LiveIds ==
  {infoGetter} \cup {scopes[i].restore : i \in {j \in DOMAIN scopes : scopes[j].kind = "implies"}}
               \cup (IF section \in Contract THEN {oldInfo} ELSE {})

LiveTables ==
  {<<"heap", id, heap[id]>> : id \in LiveIds}
  \cup {<<"extra", i, extraInfo[i]>> : i \in DOMAIN extraInfo}
  \cup (IF section \in {"ensures", "kernelInvariant"} THEN {<<"requires", 0, requiresInfo>>} ELSE {})

CellsOf(g) == {g.variableEqualities[v] : v \in DOMAIN g.variableEqualities}
              \cup {g.lessThanEqVars[v] : v \in DOMAIN g.lessThanEqVars}

Grown(newCells) == {i \in DOMAIN cells : ~ newCells[i] \subseteq cells[i]}

(* A cell of several getters grows.                                        *)
GrowsShared(newCells) ==
  \E i \in Grown(newCells) : Cardinality({t \in LiveTables : i \in CellsOf(t[3])}) > 1

Departing(kind, test) == IF test THEN {kind} ELSE {}

(* infoGetter.addInfo(c).                                                  *)
AddToGetter(c, others) ==
  LET g == AddInfo(Load(infoGetter), c)
  IN  /\ heap' = [heap EXCEPT ![infoGetter] = Uncelled(g)] \o others
      /\ cells' = g.cells
      /\ failed' = g.inconsistent
      /\ frames' = Assuming(c)
      /\ conjuncts' = conjuncts + 1

Followed == ~ failed /\ departures \subseteq Tolerated

MayState == Followed /\ scopes = <<>> /\ section \in TopLevel /\ conjuncts < MaxConjuncts

(* A conjunct without a quantifier.                                        *)
Conjunct(c) ==
  /\ MayState
  /\ AddToGetter(c, <<>>)
  /\ departures' = departures \cup Departing("shared", GrowsShared(cells'))
  /\ UNCHANGED <<program, infoGetter, oldInfo, requiresInfo, extraInfo, equalityChecker, control, atEntry>>

(* An implication with a quantifier on the right.  The left side is added  *)
(* to the getter, the getter is cloned before that.                        *)
BeginImplies(c) ==
  /\ MayState
  /\ Len(heap) <= MaxClones
  /\ LET clone == Clone(heap[infoGetter])
         clonedCells == CellsOf(clone)
     IN  /\ AddToGetter(c, <<clone>>)
         /\ departures' = departures \cup Departing("shared", Grown(cells') \cap clonedCells # {})
  /\ scopes' = <<[kind |-> "implies", restore |-> Len(heap) + 1, before |-> Top]>>
  /\ UNCHANGED <<program, infoGetter, oldInfo, requiresInfo, extraInfo, equalityChecker, section, nesting,
                 atEntry>>

EndImplies ==
  /\ Followed
  /\ scopes # <<>> /\ Head(scopes).kind = "implies"
  /\ infoGetter' = Head(scopes).restore
  /\ frames' = WithTop(Head(scopes).before)
  /\ scopes' = Tail(scopes)
  /\ departures' = departures \cup
       Departing("counter", DOMAIN heap[Head(scopes).restore].variableSynonyms # {})
  /\ UNCHANGED <<program, heap, cells, oldInfo, requiresInfo, extraInfo, equalityChecker, section, nesting,
                 atEntry, conjuncts, failed>>

-----------------------------------------------------------------------------
(* A quantifier: the conditions that do not depend on its bindings become  *)
(* a getter of their own, the summary of all getters around the checker.   *)
QuantifierDepth == Cardinality({i \in DOMAIN scopes : scopes[i].kind # "implies"})

(* The quantifiers around are done with the checker: what is dispatched is *)
(* the body of one that was not rewritten, or part of the result.          *)
Dispatched == [i \in DOMAIN scopes |->
                 IF scopes[i].kind = "quantifier" THEN [scopes[i] EXCEPT !.kind = "dispatched"]
                                                  ELSE scopes[i]]

BeginQuantifier(independent) ==
  /\ Followed
  /\ section # "idle"
  /\ QuantifierDepth < MaxDepth
  /\ conjuncts + Cardinality(independent) <= MaxConjuncts
  /\ LET new == [EmptyGetter EXCEPT !.cells = cells]
         quantifierInfo == IF independent = {} THEN new
                           ELSE AddInfo(new, CHOOSE c \in independent : TRUE)
         extra == <<Uncelled(quantifierInfo)>> \o extraInfo
         summary == FinalInfo(Append(extra, heap[infoGetter]), quantifierInfo.cells)
     IN  /\ extraInfo' = extra
         /\ equalityChecker' = summary
         /\ cells' = SubSeq(summary.cells, 1, Len(quantifierInfo.cells))
         /\ failed' = (quantifierInfo.inconsistent \/ summary.inconsistent)
  /\ departures' = departures
       \cup Departing("spread", Grown(cells') # {} /\ (independent # {} \/ extraInfo # <<>>))
       \cup Departing("shared", GrowsShared(cells'))
       \cup Departing("leftover", section = "body" /\ heap[infoGetter] # EmptyGetter)
  /\ scopes' = <<[kind |-> "quantifier", before |-> Top, live |-> Len(cells)]>> \o Dispatched
  /\ frames' = WithTop([Top EXCEPT !.conds = @ \cup independent, !.here = @ \cup independent])
  /\ conjuncts' = conjuncts + Cardinality(independent)
  /\ UNCHANGED <<program, heap, infoGetter, oldInfo, requiresInfo, section, nesting, atEntry>>

(* Its getter, the cells made for it and the summary are garbage: the next *)
(* reader of equalityChecker is a quantifier, which makes a new one.       *)
EndQuantifier ==
  /\ Followed
  /\ scopes # <<>> /\ Head(scopes).kind # "implies"
  /\ extraInfo' = Tail(extraInfo)
  /\ cells' = SubSeq(cells, 1, Head(scopes).live)
  /\ frames' = WithTop(Head(scopes).before)
  /\ scopes' = Tail(scopes)
  /\ equalityChecker' = EmptyGetter
  /\ UNCHANGED <<program, heap, infoGetter, oldInfo, requiresInfo, section, nesting,
                 atEntry, departures, conjuncts, failed>>

-----------------------------------------------------------------------------
(* Contracts.                                                              *)
Ready(s) == Followed /\ scopes = <<>> /\ section = s

(* The objects of earlier procedures are garbage.                          *)
BeginContract ==
  /\ Ready("idle")
  /\ section' = "contextEverywhere"
  /\ LET g == SetupInfo(Load(infoGetter))
     IN  heap' = <<[g EXCEPT !.cells = <<>>]>>
  /\ cells' = <<>>
  /\ infoGetter' = 1
  /\ oldInfo' = 1
  /\ requiresInfo' = EmptyGetter
  /\ frames' = <<Frame({})>>
  /\ atEntry' = {}
  /\ departures' = {}
  /\ conjuncts' = 0
  /\ UNCHANGED <<program, extraInfo, equalityChecker, scopes, nesting, failed>>

EndContextEverywhere ==
  /\ Ready("contextEverywhere")
  /\ oldInfo' = infoGetter
  /\ section' = "requires"
  /\ atEntry' = Top.conds
  /\ UNCHANGED <<program, heap, cells, infoGetter, requiresInfo, extraInfo, equalityChecker, scopes, nesting,
                 frames, departures, conjuncts, failed>>

(* Back to the getter of contextEverywhere.  While contextEverywhere was   *)
(* the last section, atEntry holds its conditions.                         *)
EndRequires ==
  /\ Ready("requires")
  /\ requiresInfo' = Clone(heap[infoGetter])
  /\ equalityChecker' = EmptyGetter
  /\ infoGetter' = oldInfo
  /\ section' = "ensures"
  /\ atEntry' = Top.conds
  /\ frames' = WithTop([Top EXCEPT !.here = atEntry])
  /\ departures' = departures \cup Departing("oldInfo", infoGetter # oldInfo)
  /\ UNCHANGED <<program, heap, cells, oldInfo, extraInfo, scopes, nesting, conjuncts, failed>>

EndEnsures ==
  /\ Ready("ensures")
  /\ equalityChecker' = EmptyGetter
  /\ infoGetter' = oldInfo
  /\ section' = "kernelInvariant"
  /\ frames' = WithTop([Top EXCEPT !.here = {}])
  /\ departures' = departures \cup Departing("oldInfo", infoGetter # oldInfo)
  /\ UNCHANGED <<program, heap, cells, oldInfo, requiresInfo, extraInfo, scopes, nesting, atEntry, conjuncts, failed>>

(* A procedure without a body, or a declaration of another kind.           *)
EndContract ==
  /\ Ready("kernelInvariant")
  /\ requiresInfo' = EmptyGetter
  /\ equalityChecker' = EmptyGetter
  /\ section' = "idle"
  /\ UNCHANGED <<program, heap, cells, infoGetter, oldInfo, extraInfo, scopes, nesting, history,
                 conjuncts, failed>>

-----------------------------------------------------------------------------
(* The getters of a contract, and those of implications, are garbage when  *)
(* the body or an assertion of it begins; so are cells that no getter      *)
(* around refers to.                                                       *)
Keep(getter) ==
  /\ heap' = <<getter>>
  /\ infoGetter' = 1
  /\ oldInfo' = 1

(* Bodies.  `assigned' is gatherAssigns of the statements inside: what a   *)
(* contract or an invariant said of those variables may not hold any more. *)
Enter(info, conds, assigned, outer) ==
  LET filtered == FilterInfo([info EXCEPT !.cells = cells], assigned)
  IN  /\ extraInfo' = <<Uncelled(filtered)>> \o extraInfo
      /\ cells' = filtered.cells
      /\ frames' = outer \o <<[conds |-> conds, here |-> conds, changed |-> assigned], Frame({})>>
      /\ equalityChecker' = EmptyGetter
      /\ section' = "body"

Outer == SubSeq(frames, 1, Len(frames) - 1)

BeginBody(assigned) ==
  /\ Ready("kernelInvariant")
  /\ Enter(requiresInfo, atEntry, assigned, <<>>)
  /\ requiresInfo' = EmptyGetter
  /\ Keep(heap[infoGetter])
  /\ UNCHANGED <<program, scopes, nesting, atEntry, departures, conjuncts, failed>>

(* Exhale, Inhale, Assert and Assume; the invariant of a loop; the two     *)
(* assertions of a framed proof.                                           *)
Setup(next, extra, outer) ==
  /\ Keep(Uncelled(SetupInfo(Load(infoGetter))))
  /\ cells' = SubSeq(cells, 1, Max({0} \cup UNION {CellsOf(extra[i]) : i \in DOMAIN extra}))
  /\ section' = next
  /\ extraInfo' = extra
  /\ frames' = outer \o <<Frame({})>>

BeginAssertion(next) ==
  /\ Ready("body")
  /\ next = "assertion" \/ Len(nesting) < MaxNesting
  /\ Setup(next, extraInfo, Outer)
  /\ UNCHANGED <<program, requiresInfo, equalityChecker, scopes, nesting, atEntry, departures, conjuncts,
                 failed>>

EndAssertion ==
  /\ Ready("assertion") \/ Ready("post")
  /\ equalityChecker' = EmptyGetter
  /\ section' = "body"
  /\ frames' = WithTop(Frame({}))
  /\ UNCHANGED <<program, heap, cells, infoGetter, oldInfo, requiresInfo, extraInfo, scopes, nesting, atEntry,
                 departures, conjuncts, failed>>

EnterStatement(assigned) ==
  /\ Ready("invariant") \/ Ready("pre")
  /\ Enter(Clone(heap[infoGetter]), Top.conds, assigned, Outer)
  /\ nesting' = <<section>> \o nesting
  /\ UNCHANGED <<program, heap, infoGetter, oldInfo, requiresInfo, scopes, atEntry, departures, conjuncts, failed>>

LeaveLoop ==
  /\ Ready("body")
  /\ nesting # <<>> /\ Head(nesting) = "invariant"
  /\ nesting' = Tail(nesting)
  /\ extraInfo' = Tail(extraInfo)
  /\ frames' = SubSeq(frames, 1, Len(frames) - 2) \o <<Frame({})>>
  /\ UNCHANGED <<program, heap, cells, infoGetter, oldInfo, requiresInfo, equalityChecker, section, scopes,
                 atEntry, departures, conjuncts, failed>>

LeaveFramedBody ==
  /\ Ready("body")
  /\ nesting # <<>> /\ Head(nesting) = "pre"
  /\ nesting' = Tail(nesting)
  /\ Setup("post", Tail(extraInfo), SubSeq(frames, 1, Len(frames) - 2))
  /\ UNCHANGED <<program, requiresInfo, equalityChecker, scopes, atEntry, departures, conjuncts, failed>>

EndBody ==
  /\ Ready("body")
  /\ nesting = <<>>
  /\ extraInfo' = Tail(extraInfo)
  /\ section' = "idle"
  /\ UNCHANGED <<program, heap, cells, infoGetter, oldInfo, requiresInfo, equalityChecker, scopes, nesting,
                 history, conjuncts, failed>>

Next ==
  \/ \E c \in program.conditions : Conjunct(c) \/ BeginImplies(c)
  \/ EndImplies
  \/ \E independent \in {{}} \cup {{c} : c \in program.independent} : BeginQuantifier(independent)
  \/ EndQuantifier
  \/ BeginContract
  \/ EndContextEverywhere
  \/ EndRequires
  \/ EndEnsures
  \/ EndContract
  \/ \E assigned \in Assigned : BeginBody(assigned) \/ EnterStatement(assigned)
  \/ \E next \in {"assertion", "invariant", "pre"} : BeginAssertion(next)
  \/ EndAssertion
  \/ LeaveLoop
  \/ LeaveFramedBody
  \/ EndBody

Spec == Init /\ [][Next]_vars
-----------------------------------------------------------------------------
(* The environments a program may be in where the quantifier stands: the   *)
(* conditions of the last frame hold now; those of an earlier one held     *)
(* when its body began, and the variables in `changed' may have been       *)
(* assigned since then.                                                    *)
AllHold(conds, env) == \A c \in conds : Holds(c, env)

HeldBefore(frame, env) ==
  \E assigned \in [frame.changed -> Domain] : AllHold(frame.conds, assigned @@ env)

Possible == {env \in Environments :
               /\ AllHold(Top.conds, env)
               /\ \A i \in 1 .. Len(frames) - 1 : HeldBefore(frames[i], env)}

(* A quantifier is about to be rewritten.                                  *)
Rewriting == ~ failed /\ scopes # <<>> /\ Head(scopes).kind = "quantifier"

FactsHoldHere == \A env \in Possible : InfoHolds(equalityChecker, env)

(* A table says what the condition says.                                   *)
Reflected(c) ==
  LET info == equalityChecker
      IsVar(t) == t.is = "var"
      IsConst(t) == t.is = "const"
      Step == IF c.op = "less" THEN 1 ELSE 0
  IN  CASE c.op = "eq" /\ IsVar(c.l) /\ IsVar(c.r) -> c.r.v \in Synonyms(info, c.l.v)
        [] c.op = "eq" /\ IsVar(c.l) /\ IsConst(c.r) ->
             c.l.v \in DOMAIN info.variableValues
        [] c.op \in {"less", "lessEq"} /\ IsVar(c.l) /\ IsVar(c.r) ->
             c.r.v \in Cell(info, "lessThanEqVars", c.l.v)
        [] c.op \in {"less", "lessEq"} /\ IsVar(c.l) /\ IsConst(c.r) ->
             c.l.v \in DOMAIN info.upperBound /\ info.upperBound[c.l.v] <= c.r.i - Step
        [] c.op \in {"less", "lessEq"} /\ IsConst(c.l) /\ IsVar(c.r) ->
             c.r.v \in DOMAIN info.lowerBound /\ info.lowerBound[c.r.v] >= c.l.i + Step
        [] OTHER -> TRUE

-----------------------------------------------------------------------------
TypeOK ==
  /\ infoGetter \in DOMAIN heap /\ oldInfo \in DOMAIN heap
  /\ \A id \in DOMAIN heap : CellsOf(heap[id]) \subseteq DOMAIN cells
  /\ \A i \in DOMAIN extraInfo : CellsOf(extraInfo[i]) \subseteq DOMAIN cells
  /\ section \in TopLevel \cup {"idle", "kernelInvariant", "body"}
  /\ \A i \in DOMAIN nesting : nesting[i] \in {"invariant", "pre"}
  /\ departures \subseteq Departures
  /\ failed \in BOOLEAN

(* When a quantifier is rewritten, everything the checker was told holds   *)
(* there: in the contract, in assertions, and in bodies, where variables   *)
(* have been assigned since the contract held (lines 262-271, 320-456).    *)
(* With Tolerated = {} this is said of the walks that do not depart from   *)
(* what they mean to do; with one kind of departure tolerated, of those    *)
(* that may depart in that way.                                            *)
FactsHold == Rewriting /\ departures \subseteq Tolerated => FactsHoldHere

(* VerCors reports InconsistentVariableEquality only for conditions that   *)
(* contradict each other where they stand.                                 *)
OnlyContradictionsFail == failed /\ departures \subseteq Tolerated => Possible = {}

(* The checker knows every comparison that the section and                 *)
(* contextEverywhere state, and every one an enclosing body relies on and  *)
(* does not assign to: none is lost to a clone, a filter or a merge.       *)
ContextIsUsed ==
  Rewriting /\ section # "body" =>
    /\ \A c \in Top.here : Reflected(c)
    /\ \A i \in 1 .. Len(frames) - 1 :
         \A c \in frames[i].here : VarsOf(c) \cap frames[i].changed = {} => Reflected(c)

(* What the checker of a quantifier knows is what holds there: no more, no *)
(* less, and no contradiction that is none.                                *)
KnowsWhatHolds == TypeOK /\ FactsHold /\ OnlyContradictionsFail /\ ContextIsUsed
=============================================================================
