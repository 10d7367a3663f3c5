--------------------------- MODULE StructConsolidator ---------------------------
(***************************************************************************)
(* The pass pallas-consolidate-structs.  Compilers split a small struct    *)
(* that is passed by value into integers; the callee stores them into an   *)
(* alloca of the struct.  The pass replaces the integers by a pointer to   *)
(* the struct, in the function, in its calls and in the specifications.    *)
(*                                                                         *)
(* A program is a record of functions (by name), their order, and specs:   *)
(* the metadata nodes that name a wrapper, with an operand per parameter.  *)
(* A function is a record of params, body (its instructions in order,      *)
(* without branches), eligible (the conditions of run), wrapper, and taken *)
(* ("no", or how its address is used: "stored" or "called").  Types are    *)
(* sequences of scalars laid out without padding; off is in bytes.         *)
(***************************************************************************)
EXTENDS Integers, SequencesExt, FiniteSetsExt, Functions, TLC

VARIABLES
  original, \* the program that was parsed
  program,  \* the program as it is
  at,       \* the function run comes to next
  found,    \* transformableFunctions: the sets of each
  pending,  \* those not updated yet
  reported, \* an error has been reported
  asserted  \* an assertion has stopped the plugin

structVars == <<original, program, at, found, pending, reported, asserted>>

ScalarSize ==
  "i8" :> 1 @@ "i16" :> 2 @@ "i32" :> 4 @@ "f32" :> 4 @@ "i64" :> 8 @@ "f64" :> 8 @@ "ptr" :> 8
Size(t) == FoldLeft(LAMBDA n, s : n + ScalarSize[s], 0, t)
Offset(t, k) == Size(SubSeq(t, 1, k - 1))
Unknown == -1 \* an offset or a length that is no constant

NoInstruction ==
  [op |-> "none", def |-> "", t |-> <<>>, args |-> <<>>, off |-> 0, len |-> 0, fn |-> "", struct |-> FALSE]
Def(f, v) ==
  LET is == SelectSeq(f.body, LAMBDA i : i.def = v) IN IF v = "" \/ is = <<>> THEN NoInstruction ELSE is[1]
ArgNo(f, v) == SelectInSeq(f.params, LAMBDA p : p.name = v)
TypeOf(f, v) ==
  LET p == f.params[ArgNo(f, v)]
  IN  IF ArgNo(f, v) # 0 THEN (IF p.byval THEN <<"ptr">> ELSE p.t)
      ELSE IF Def(f, v).op \in {"alloca", "gep"} THEN <<"ptr">> ELSE Def(f, v).t

--------------------------------------------------------------------------------
(* What is written to a struct *)

\* IntervalSet::add, over the intervals there were when it began.  An interval that
\* ends before the new one begins grows up to its end, whatever lies between.
AddInterval(intervals, start, end) ==
  LET Step(is, k) ==
        CASE is[k].start > start /\ is[k].start <= end ->
               [is EXCEPT ![k] = [start |-> start, end |-> Max({@.end, end})]]
          [] is[k].start > end -> InsertAt(is, k, [start |-> start, end |-> end])
          [] is[k].start <= start /\ is[k].end <= start -> [is EXCEPT ![k].end = Max({@, end})]
          [] is[k].start <= start /\ is[k].end > start /\ k = end -> Append(is, [start |-> start, end |-> end])
          [] OTHER -> is
  IN  IF intervals = <<>> THEN <<[start |-> start, end |-> end]>>
      ELSE FoldLeft(Step, intervals, [k \in DOMAIN intervals |-> k])

\* IntervalSet::contains: the intervals before the first one that starts at start or
\* later, and that one.
HasInterval(intervals, start, end) ==
  LET stop == SelectInSeq(intervals, LAMBDA i : i.start >= start)
      before == IF stop = 0 THEN Len(intervals) ELSE stop - 1
  IN  \/ \E k \in 1 .. before : end <= intervals[k].end
      \/ stop # 0 /\ intervals[stop].start = start /\ end <= intervals[stop].end

\* The uses of a value, the last one first: <<position, operand>>.
Uses(body, v) ==
  LET Of(k) == SelectSeq(<<<<k, 3>>, <<k, 2>>, <<k, 1>>>>,
                         LAMBDA u : u[2] \in DOMAIN body[k].args /\ body[k].args[u[2]] = v)
  IN  FlattenSeq([k \in DOMAIN body |-> Of(Len(body) + 1 - k)])

Writes(ws) == [ok |-> TRUE, writes |-> ws, error |-> FALSE]
NotConsidered == [ok |-> FALSE, writes |-> <<>>, error |-> FALSE]

RECURSIVE GatherWrites(_, _, _, _)
GatherWrites(f, size, v, offset) ==
  LET Through(u) ==
        LET i == f.body[u[1]]
            from == Def(f, i.args[2])
        IN  CASE i.op = "gep" ->
                   IF i.off = Unknown THEN NotConsidered ELSE GatherWrites(f, size, i.def, offset + i.off)
              [] i.op = "store" ->
                   IF ArgNo(f, i.args[1]) = 0 THEN NotConsidered
                   ELSE Writes(<<[off |-> offset, size |-> Size(TypeOf(f, i.args[1])), src |-> i.args[1]]>>)
              [] i.op = "memcpy" ->
                   IF u[2] # 1 THEN Writes(<<>>)
                   ELSE IF offset = 0 /\ from.op = "alloca" /\ Size(from.t) >= size /\ i.len = size
                   THEN Writes(<<[off |-> 0, size |-> size, src |-> from.def]>>) ELSE NotConsidered
              [] i.op \in {"load", "speclib"} -> Writes(<<>>)
              [] i.op = "call" -> NotConsidered
              [] OTHER -> IF f.wrapper THEN Writes(<<>>) ELSE [NotConsidered EXCEPT !.error = TRUE]
      Step(done, u) == IF done.ok THEN [Through(u) EXCEPT !.writes = done.writes \o @] ELSE done
  IN  FoldLeft(Step, Writes(<<>>), Uses(f.body, v))

Structs(f) == {k \in DOMAIN f.body : f.body[k].op = "alloca" /\ f.body[k].struct}
Gathered(f, k) == GatherWrites(f, Size(f.body[k].t), f.body[k].def, 0)

\* The structs of which every field is written, and by what.
AllocAs(f) ==
  LET Covered(t, ws) ==
        LET is == FoldLeft(LAMBDA s, w : AddInterval(s, w.off, w.off + w.size), <<>>, ws)
        IN  \A j \in DOMAIN t : HasInterval(is, Offset(t, j), Offset(t, j + 1))
      Known(gathered) ==
        LET ks == {k \in DOMAIN gathered : gathered[k].ok /\ Covered(f.body[k].t, gathered[k].writes)}
        IN  [a \in {f.body[k].def : k \in ks} |-> gathered[CHOOSE k \in ks : f.body[k].def = a].writes]
  IN  Known([k \in Structs(f) |-> Gathered(f, k)])

--------------------------------------------------------------------------------
(* Where a caller has the fields of the struct *)

FieldSource(op, v, off, t) == [op |-> op, v |-> v, off |-> off, t |-> t]
Fields(ok, fields) == [ok |-> ok, fields |-> fields, assert |-> FALSE]
Field(fields, off) == IF off \in DOMAIN fields THEN fields[off] ELSE [idx |-> 1, source |-> <<>>]

\* The while loop of digToField: what remains to be found of an argument is in the
\* alloca at src.  The pieces are loaded with the type et of the first one, from
\* the place that the field has in the struct of the callee.
RECURSIVE Pieces(_, _, _, _, _, _, _)
Pieces(st, alloc, fields, off, src, remaining, et) ==
  LET known == Field(fields, off)
      k == SelectInSeq([j \in DOMAIN alloc.t |-> j], LAMBDA j : Offset(alloc.t, j) = src)
      t == st[known.idx]
      piece == FieldSource("load", alloc.def, Offset(alloc.t, known.idx), et)
  IN  IF remaining <= 0 \/ known.source # <<>>
      THEN [Fields(remaining = 0, fields) EXCEPT !.assert = remaining # 0]
      ELSE IF k = 0 \/ t # alloc.t[k] THEN Fields(FALSE, fields)
      ELSE Pieces(st, alloc, off :> [known EXCEPT !.source = <<piece>>] @@ fields,
                  off + ScalarSize[t], src + ScalarSize[t], remaining - ScalarSize[t], et)

RECURSIVE DigToField(_, _, _, _, _, _, _)
DigToField(g, st, fields, a, v, src, depth) ==
  LET known == Field(fields, a.off)
      et == st[known.idx]
      i == Def(g, v)
      From(source) == Fields(TRUE, a.off :> [known EXCEPT !.source = <<source>>] @@ fields)
  IN  IF depth > 1 \/ known.source # <<>> THEN Fields(FALSE, fields)
      ELSE IF depth = 0 /\ TypeOf(g, v) = <<et>> THEN From(FieldSource("value", v, 0, et))
      ELSE IF i.op = "alloca" /\ depth = 0 THEN [Fields(FALSE, fields) EXCEPT !.assert = TRUE]
      ELSE CASE i.op = "load" -> DigToField(g, st, fields, a, i.args[1], src, depth + 1)
             [] i.op = "gep" /\ i.off # Unknown -> DigToField(g, st, fields, a, i.args[1], src + i.off, depth)
             [] i.op = "alloca" /\ ~i.struct /\ i.t = <<et>> -> From(FieldSource("load", v, 0, et))
             [] i.op = "alloca" /\ i.struct -> Pieces(st, i, fields, a.off, src, a.size, et)
             [] OTHER -> Fields(FALSE, fields)

Callers(p, name) ==
  {c \in UNION {{g} \X (DOMAIN p.functions[g].body) : g \in DOMAIN p.functions} :
     p.functions[c[1]].body[c[2]].op = "call" /\ p.functions[c[1]].body[c[2]].fn = name}

\* gatherUseData: the struct has to hold every parameter of the function, and every
\* call the pieces of it.
GatherUseData(p, name, set) ==
  LET f == p.functions[name]
      Start == [o \in {Offset(set.t, k) : k \in DOMAIN set.t} |->
                  [idx |-> CHOOSE k \in DOMAIN set.t : Offset(set.t, k) = o, source |-> <<>>]]
      AtCall(g, i) ==
        LET Step(d, n) ==
              LET as == {a \in Range(set.args) : a.arg = n}
              IN  IF ~d.ok THEN d
                  ELSE IF as = {} THEN Fields(FALSE, d.fields)
                  ELSE DigToField(g, set.t, d.fields, CHOOSE a \in as : TRUE, i.args[n], 0, 0)
        IN  FoldLeft(Step, Fields(TRUE, Start), [n \in DOMAIN f.params |-> n])
      Note(s, call, r) ==
        IF s.valid THEN [s EXCEPT !.valid = r.ok, !.assert = @ \/ r.assert, !.calls = call.def :> r.fields @@ @] ELSE s
      AddCall(s, c) ==
        LET g == p.functions[c[1]] IN Note(s, g.body[c[2]], AtCall(g, g.body[c[2]]))
  IN  CASE f.taken = "stored" -> set
        [] f.taken = "called" -> [set EXCEPT !.valid = FALSE]
        [] OTHER -> FoldLeft(AddCall, set, SetToSeq(Callers(p, name)))

--------------------------------------------------------------------------------
(* The sets of arguments that can be replaced *)

ByArgument(args) == SortSeq(args, LAMBDA x, y : x.arg < y.arg)
Repeated(args) == \E j, k \in DOMAIN args : j # k /\ args[j].arg = args[k].arg

\* The set of a struct, valid if it is written by arguments and by at most one copy
\* of another struct of AllocAs.
SetOf(f, allocas, a) ==
  LET copies == SelectSeq(allocas[a], LAMBDA w : ArgNo(f, w.src) = 0)
      stores == SelectSeq(allocas[a], LAMBDA w : ArgNo(f, w.src) # 0)
      args == ByArgument([k \in DOMAIN stores |->
                            [arg |-> ArgNo(f, stores[k].src), off |-> stores[k].off, size |-> stores[k].size]])
  IN  [alloc |-> a, t |-> Def(f, a).t, inter |-> IF copies = <<>> THEN "" ELSE copies[1].src, args |-> args,
       calls |-> <<>>, assert |-> Repeated(args),
       valid |-> copies = <<>> \/ (Len(copies) = 1 /\ copies[1].src \in DOMAIN allocas)]

\* The second loop of findReplaceableSets: a struct that is only copied into another
\* one hands its arguments on to it; whether the other one has seen its calls by then
\* is a matter of the order.
MergeSets(p, name, sets) ==
  LET Step(ss, k) ==
        LET u == SelectInSeq(sets, LAMBDA s : s.inter = ss[k].alloc)
            all == ByArgument(ss[u].args \o ss[k].args)
        IN  IF u # 0 /\ ss[k].inter # "" THEN [ss EXCEPT ![k].valid = FALSE, ![u].valid = FALSE]
            ELSE [j \in DOMAIN ss |->
                    CASE j = k -> GatherUseData(p, name, ss[k])
                      [] j = u -> [ss[u] EXCEPT !.args = all, !.assert = @ \/ Repeated(all)]
                      [] OTHER -> ss[j]]
  IN  FoldLeft(Step, sets, [k \in DOMAIN sets |-> k])

\* What is left of them; the order is that of a hash table of pointers.
ReplaceableSets(p, name, order) ==
  LET f == p.functions[name]
      Left(valid, merged) ==
        LET Kept(s) == /\ s.valid /\ (s.inter # "" \/ s.args # <<>>)
                       /\ \A k \in DOMAIN valid : valid[k].inter # s.alloc
        IN  [sets |-> SelectSeq(merged, Kept), assert |-> \E k \in DOMAIN merged : merged[k].assert]
      Merge(valid) == Left(valid, MergeSets(p, name, valid))
  IN  Merge(SelectSeq([k \in DOMAIN order |-> SetOf(f, AllocAs(f), order[k])], LAMBDA s : s.valid))

--------------------------------------------------------------------------------
(* The transformation *)

Removed(sets) == UNION {{a.arg : a \in Range(s.args)} : s \in Range(sets)}
Without(s, ns) ==
  LET ks == SelectSeq([k \in DOMAIN s |-> k], LAMBDA k : k \notin ns) IN [j \in DOMAIN ks |-> s[ks[j]]]
Only(s, ns) == Without(s, (DOMAIN s) \ ns)
New(v) == v \o "'" \* a value that is made anew; who holds on to the old one holds nothing
Rename(body, vs) ==
  [k \in DOMAIN body |->
     [body[k] EXCEPT !.args = [j \in DOMAIN @ |-> IF @[j] \in vs THEN New(@[j]) ELSE @[j]]]]

\* replaceFunctionUse: a struct of the caller's own for each set, filled from where its
\* fields were found, up to the first one that was not; hash is the order of the map.
ReplaceCall(i, name, sets, hash) ==
  LET Struct(s) == s.alloc \o "@" \o i.def
      Put(s) ==
        LET fields == s.calls[i.def]
            present == SelectSeq(hash, LAMBDA o : o \in DOMAIN fields)
            missing == SelectInSeq(present, LAMBDA o : fields[o].source = <<>>)
            stored == IF missing = 0 THEN present ELSE SubSeq(present, 1, missing - 1)
            Store(o) ==
              LET source == fields[o].source[1]
                  v == Struct(s) \o ToString(o)
                  store(x) == [NoInstruction EXCEPT !.op = "store", !.args = <<x, Struct(s)>>,
                                                    !.off = Offset(s.t, fields[o].idx)]
              IN  IF source.op = "value" THEN <<store(source.v)>>
                  ELSE <<[NoInstruction EXCEPT !.op = "load", !.def = v, !.t = <<source.t>>,
                                               !.args = <<source.v>>, !.off = source.off], store(v)>>
        IN  IF i.def \in DOMAIN s.calls THEN FlattenSeq([k \in DOMAIN stored |-> Store(stored[k])]) ELSE <<>>
      Make(s) == <<[NoInstruction EXCEPT !.op = "alloca", !.def = Struct(s), !.t = s.t, !.struct = TRUE]>> \o Put(s)
      call == [i EXCEPT !.def = New(@), !.args = Without(@, Removed(sets)) \o [k \in DOMAIN sets |-> Struct(sets[k])]]
  IN  FlattenSeq([k \in DOMAIN sets |-> Make(sets[k])]) \o <<call>>

\* A bug to look for: the uses of the old call are not replaced.
ReplaceCalls_KeepsUses(g, name, sets, hash) ==
  LET Replaced(i) == IF i.op = "call" /\ i.fn = name THEN ReplaceCall(i, name, sets, hash) ELSE <<i>>
  IN  [g EXCEPT !.body = FlattenSeq([k \in DOMAIN @ |-> Replaced(@[k])])]

ReplaceCalls(g, name, sets, hash) ==
  LET calls == {k \in DOMAIN g.body : g.body[k].op = "call" /\ g.body[k].fn = name}
      New1(k) == IF k \in calls THEN ReplaceCall(g.body[k], name, sets, hash) ELSE <<g.body[k]>>
  IN  [g EXCEPT !.body = Rename(FlattenSeq([k \in DOMAIN g.body |-> New1(k)]), {g.body[k].def : k \in calls})]

\* removeRecursively: whatever uses the values goes, and whatever uses that.
RECURSIVE RemoveUsers(_, _)
RemoveUsers(body, vs) ==
  LET Uses1(i) == \E v \in vs : v # "" /\ v \in Range(i.args)
      gone == SelectSeq(body, Uses1)
  IN  IF gone = <<>> THEN body
      ELSE RemoveUsers(SelectSeq(body, LAMBDA i : ~Uses1(i)), {gone[k].def : k \in DOMAIN gone})

\* The function itself: the structs are its parameters now.
NewFunction(f, sets) ==
  LET kept == Without(f.params, Removed(sets))
      allocs == {s.alloc : s \in Range(sets)}
      body == Rename(SelectSeq(f.body, LAMBDA i : i.def \notin allocs), {p.name : p \in Range(kept)})
  IN  [f EXCEPT !.params = [k \in DOMAIN kept |-> [kept[k] EXCEPT !.name = New(@)]]
                           \o [k \in DOMAIN sets |-> [name |-> sets[k].alloc, t |-> sets[k].t, byval |-> TRUE]],
                !.body = RemoveUsers(body, {f.params[n].name : n \in Removed(sets)})]

ParamTypes(f) == [n \in DOMAIN f.params |-> TypeOf(f, f.params[n].name)]

\* replaceWrapperCalls: statements and loop invariants, whose location is well-formed;
\* the clauses of a contract are not recognised.
Recognised(spec) == spec.loc /\ spec.kind \in {"assert", "assume", "fold", "unfold", "loop"}
ReplaceWrapperCall(spec, sets) ==
  [spec EXCEPT !.ops = Without(@, Removed(sets)) \o Only(@, Removed(sets))]

--------------------------------------------------------------------------------
(* run *)

StartStructs(p) ==
  /\ original = p /\ program = p
  /\ at = 1 /\ found = <<>> /\ pending = {}
  /\ reported = FALSE /\ asserted = FALSE

FindSets ==
  /\ ~asserted /\ at <= Len(program.order)
  /\ at' = at + 1
  /\ LET name == program.order[at]
         f == program.functions[name]
     IN  IF ~f.eligible THEN UNCHANGED <<found, pending, reported, asserted>>
         ELSE /\ reported' = (reported \/ \E k \in Structs(f) : Gathered(f, k).error)
              /\ \E order \in SetToSeqs(DOMAIN AllocAs(f)) :
                   \E r \in {ReplaceableSets(program, name, order)} :
                     /\ asserted' = r.assert
                     /\ found' = IF r.sets = <<>> THEN found ELSE name :> r.sets @@ found
                     /\ pending' = IF r.sets = <<>> THEN pending ELSE pending \cup {name}
  /\ UNCHANGED <<original, program>>

\* The functions in the order of a hash table of pointers.
UpdateFunction ==
  /\ ~asserted /\ at > Len(program.order)
  /\ \E name \in pending :
       LET sets == found[name]
           f == program.functions[name]
           calls == {program.functions[c[1]].body[c[2]].def : c \in Callers(program, name)}
           offsets == UNION {UNION {DOMAIN s.calls[d] : d \in DOMAIN s.calls} : s \in Range(sets)}
           meant(spec) == f.wrapper /\ spec.wrapper = name /\ Recognised(spec)
       IN  /\ pending' = pending \ {name}
           /\ reported' = (reported \/ \E s \in Range(sets) : ~(calls \subseteq DOMAIN s.calls))
           /\ asserted' = \/ ParamTypes(NewFunction(f, sets)) = ParamTypes(f)
                           \/ \E spec \in Range(program.specs) : meant(spec) /\ Len(spec.ops) # Len(f.params)
           /\ \E hash \in SetToSeqs(offsets) :
                LET replaced == [g \in DOMAIN program.functions |->
                                   ReplaceCalls(program.functions[g], name, sets, hash)]
                IN  program' = [program EXCEPT
                       !.functions = [replaced EXCEPT ![name] = NewFunction(@, sets)],
                       !.specs = [k \in DOMAIN @ |-> IF meant(@[k]) THEN ReplaceWrapperCall(@[k], sets) ELSE @[k]]]
  /\ UNCHANGED <<original, at, found>>

StructStep == FindSets \/ UpdateFunction
StructsDone == asserted \/ (at > Len(program.order) /\ pending = {})

--------------------------------------------------------------------------------
(* What a program does.  A value is a pointer (ptr, off) or bytes, a byte is   *)
(* known by where it came from; obs is what the functions look at.             *)

Undef == <<"undef", 0>>
Bytes(bs) == [ptr |-> "", off |-> 0, bytes |-> bs]
Pointer(v, off) == [ptr |-> v, off |-> off, bytes |-> <<>>]
Valued(s, v) == IF v \in DOMAIN s.env THEN s.env[v] ELSE Bytes(<<>>)
Memory(s, v) == IF v \in DOMAIN s.mem THEN s.mem[v] ELSE <<>>
ReadFrom(s, ptr, n) ==
  LET m == Memory(s, ptr.ptr)
  IN  [k \in 1 .. n |-> IF ptr.off + k \in DOMAIN m THEN m[ptr.off + k] ELSE Undef]
WriteTo(s, ptr, bs) ==
  IF ptr.ptr \notin DOMAIN s.mem THEN s
  ELSE [s EXCEPT !.mem[ptr.ptr] = [k \in DOMAIN @ |->
          IF k - ptr.off \in DOMAIN bs THEN bs[k - ptr.off] ELSE @[k]]]
Looked(s, v) == LET x == Valued(s, v) IN IF x.ptr = "" THEN x.bytes ELSE Memory(s, x.ptr)
Bind(s, v, x) == [s EXCEPT !.env = v :> x @@ @]
At(x, off) == [x EXCEPT !.off = @ + off]

RECURSIVE Run(_, _, _, _)
Run(p, name, actuals, state) ==
  LET f == p.functions[name]
      Enter(s, k) ==
        LET v == f.params[k].name
        IN  IF f.params[k].byval
            THEN [Bind(s, v, Pointer(v, 0)) EXCEPT !.mem = v :> Memory(s, actuals[k].ptr) @@ @]
            ELSE Bind(s, v, actuals[k])
      Step(s, i) ==
        LET x(k) == Valued(s, i.args[k])
        IN  CASE i.op = "alloca" ->
                   [Bind(s, i.def, Pointer(i.def, 0)) EXCEPT !.mem = i.def :> [k \in 1 .. Size(i.t) |-> Undef] @@ @]
              [] i.op = "gep" -> Bind(s, i.def, At(x(1), i.off))
              [] i.op = "load" -> Bind(s, i.def, Bytes(ReadFrom(s, At(x(1), i.off), Size(i.t))))
              [] i.op = "store" -> WriteTo(s, At(x(2), i.off), x(1).bytes)
              [] i.op = "memcpy" -> WriteTo(s, x(1), ReadFrom(s, x(2), i.len))
              [] i.op = "call" /\ i.fn \in DOMAIN p.functions ->
                   LET t == Run(p, i.fn, [k \in DOMAIN i.args |-> x(k)], [s EXCEPT !.ret = Bytes(<<>>)])
                   IN  Bind(t, i.def, t.ret)
              [] i.op = "ret" -> [s EXCEPT !.ret = x(1)]
              [] OTHER -> [s EXCEPT !.obs = Append(@, [k \in DOMAIN i.args |-> Looked(s, i.args[k])])]
  IN  FoldLeft(Step, FoldLeft(Enter, state, [k \in DOMAIN f.params |-> k]), f.body)

\* A function that nothing calls, with arguments of bytes of their own; a struct that
\* takes the place of arguments holds each of them where the function stored it.
Actual(p) == [k \in 1 .. Size(p.t) |-> <<p.name, k>>]
StructActual(f, s) ==
  LET Put(m, a) == [k \in DOMAIN m |->
        IF k - a.off \in 1 .. a.size THEN <<f.params[a.arg].name, k - a.off>> ELSE m[k]]
  IN  FoldLeft(Put, [k \in 1 .. Size(s.t) |-> Undef], s.args)
Observed(p, name, sets) ==
  LET f == original.functions[name]
      start == [env |-> <<>>, obs |-> <<>>, ret |-> Bytes(<<>>),
                mem |-> [v \in {s.alloc \o "$" : s \in Range(sets)} |->
                           StructActual(f, CHOOSE s \in Range(sets) : s.alloc \o "$" = v)]]
      plain == Without(f.params, Removed(sets))
  IN  Run(p, name, [k \in DOMAIN plain |-> Bytes(Actual(plain[k]))]
                   \o [k \in DOMAIN sets |-> Pointer(sets[k].alloc \o "$", 0)], start).obs

--------------------------------------------------------------------------------
(* Properties *)

SetsOf(name) == IF name \in DOMAIN found THEN found[name] ELSE <<>>

\* A program that is printed looks at the values the parsed one looks at, in the same
\* order: every field of a struct reaches the callee, through every call, whichever
\* functions are updated first; only what was undefined may be anything.
FieldsArrive ==
  \A name \in {n \in DOMAIN original.functions : Callers(original, n) = {}} :
    LET was == Observed(original, name, <<>>)
        is == Observed(program, name, SetsOf(name))
    IN  /\ Len(is) = Len(was)
        /\ \A k \in DOMAIN was : \A j \in DOMAIN was[k] :
             /\ Len(is[k][j]) = Len(was[k][j])
             /\ \A b \in DOMAIN was[k][j] : was[k][j][b] # Undef => is[k][j][b] = was[k][j][b]

\* A specification gives its wrapper one operand for each parameter, the one it gave
\* the parameter itself or the pieces the parameter is made of.
OperandsFollow ==
  \A k \in DOMAIN original.specs :
    LET name == original.specs[k].wrapper
        was == original.specs[k].ops
        sets == SetsOf(name)
        kept == Without(was, Removed(sets))
        is == program.specs[k].ops
    IN  /\ Len(is) = Len(program.functions[name].params)
        /\ \A n \in DOMAIN is :
             IF n <= Len(kept) THEN is[n] = kept[n]
             ELSE \A a \in Range(sets[n - Len(kept)].args) : is[n] = was[a.arg]

\* Unless an error has been reported, consolidating structs changes nothing a program
\* or a specification can see.
StructsKeepTheirFields ==
  at > Len(program.order) /\ pending = {} /\ ~reported /\ ~asserted => FieldsArrive /\ OperandsFollow

StructTypeOK ==
  /\ at \in 1 .. Len(program.order) + 1
  /\ DOMAIN program.functions = Range(program.order)
  /\ pending \subseteq DOMAIN found /\ DOMAIN found \subseteq Range(program.order)
  /\ reported \in BOOLEAN /\ asserted \in BOOLEAN

================================================================================
